--------------------------- MODULE IRFramesProofs ---------------------------
(***************************************************************************)
(* The IR simulator computes what a program means: IRSim implements        *)
(* IRFrames, whatever the files, the user and the size of memory.  The     *)
(* invariant FramesInv says that control stays in the function whose       *)
(* variables are on top; from it follows that each step is one of the      *)
(* abstract machine, or changes nothing that it knows.                     *)
(***************************************************************************)
EXTENDS IRProofs

-----------------------------------------------------------------------------
(* Loading: functions, labels and sizes                                     *)

LEMMA FunctionsKept ==
  ASSUME FunctionsOK, UNCHANGED program
  PROVE  FunctionsOK'
BY DEF FunctionsOK, Heads, program

LEMMA FunctionsForgotten ==
  ASSUME Forgotten
  PROVE  FunctionsOK'
BY DEF Forgotten, FunctionsOK

\* One more line belongs to the function of the last one, or begins one.
LEMMA LoadLineFunctions ==
  ASSUME BaseInv, FunctionsOK, LoadLine
  PROVE  FunctionsOK'
<1>1. /\ lineNo \in Nat /\ lineNo < Len(file) /\ lineNo' = lineNo + 1 /\ file' = file
      /\ file[lineNo + 1] \in Line /\ Len(file) \in Nat
  BY DEF BaseInv, TypeOK, LoadLine, Accept
<1>2. PICK line : line = file[lineNo + 1]
  OBVIOUS
<1>3. PICK b \in 0..lineNo :
        /\ currentFunction = None <=> b = lineNo
        /\ \A i \in 0..(b - 1) : file[i + 1].op = "LABEL"
        /\ \A i \in b..(lineNo - 1) : file[b + 1].op = "FUNCTION" /\ \E h \in b..i : Heads(h, i)
  BY DEF FunctionsOK
<1>4. SUFFICES
        /\ \E c \in 0..(lineNo + 1) :
             /\ currentFunction' = None <=> c = lineNo + 1
             /\ \A i \in 0..(c - 1) : file[i + 1].op = "LABEL"
             /\ \A i \in c..lineNo : file[c + 1].op = "FUNCTION" /\ \E h \in c..i : Heads(h, i)
        /\ \A l \in DOMAIN labelTable' :
             labelTable'[l] < lineNo + 1 /\ file[labelTable'[l] + 1].op \in {"FUNCTION", "LABEL"}
        /\ \A f \in DOMAIN functionDict' :
             file[labelTable'[f] + 1].op = "FUNCTION" /\ file[labelTable'[f] + 1].name = f
        /\ entranceIP' # -1 => "main" \in DOMAIN functionDict' /\ labelTable'["main"] = entranceIP'
  <2>1. \A h, i : Heads(h, i)' <=> Heads(h, i)
    BY <1>1 DEF Heads
  <2>2. PICK c \in 0..(lineNo + 1) :
          /\ currentFunction' = None <=> c = lineNo + 1
          /\ \A i \in 0..(c - 1) : file[i + 1].op = "LABEL"
          /\ \A i \in c..lineNo : file[c + 1].op = "FUNCTION" /\ \E h \in c..i : Heads(h, i)
    BY <1>4
  <2>3. c \in 0..lineNo' /\ lineNo' - 1 = lineNo
    BY <1>1
  <2>4. \A i \in c..(lineNo' - 1) : file'[c + 1].op = "FUNCTION" /\ \E h \in c..i : Heads(h, i)'
    BY <1>1, <2>1, <2>2, <2>3
  <2>5. \A i \in 0..(c - 1) : file'[i + 1].op = "LABEL"
    BY <1>1, <2>2
  <2>6. currentFunction' = None <=> c = lineNo'
    BY <1>1, <2>2
  <2> QED  BY <1>1, <1>4, <2>3, <2>4, <2>5, <2>6 DEF FunctionsOK
<1>5. CASE line.op = "FUNCTION"
  <2>1. AcceptLabel(line) /\ line.name # None /\ line.name \notin DOMAIN labelTable
    BY <1>1, <1>2, <1>5 DEF LoadLine, Accept, AcceptLabel, Rejected, Line
  <2>2. /\ labelTable' = With(labelTable, line.name, lineNo) /\ currentFunction' = line.name
        /\ entranceIP' = IF line.name = "main" THEN lineNo ELSE entranceIP
        /\ functionDict' = With(functionDict, line.name, [place |-> <<>>, size |-> 0])
    BY <1>5, <2>1 DEF AcceptLabel, LineOfLabel
  <2>3. Heads(lineNo, lineNo)
    BY <1>1, <1>2, <1>5 DEF Heads
  <2>4. \A i \in b..lineNo : file[b + 1].op = "FUNCTION" /\ \E h \in b..i : Heads(h, i)
    <3>1. ASSUME NEW i \in b..lineNo
          PROVE  file[b + 1].op = "FUNCTION" /\ \E h \in b..i : Heads(h, i)
      <4>1. CASE i \in b..(lineNo - 1)
        BY <1>3, <4>1
      <4>2. CASE i = lineNo
        <5>1. CASE b = lineNo
          BY <1>1, <1>2, <1>5, <2>3, <4>2, <5>1
        <5>2. CASE b # lineNo
          <6>1. lineNo - 1 \in b..(lineNo - 1)
            BY <1>1, <5>2
          <6>2. file[b + 1].op = "FUNCTION"
            BY <1>3, <6>1
          <6>3. lineNo \in b..i
            BY <1>1, <4>2
          <6> QED  BY <2>3, <4>2, <6>2, <6>3
        <5> QED  BY <5>1, <5>2
      <4> QED  BY <1>1, <4>1, <4>2
    <3> QED  BY <3>1
  <2>5. /\ DOMAIN labelTable' = DOMAIN labelTable \cup {line.name}
        /\ labelTable'[line.name] = lineNo
        /\ \A l \in DOMAIN labelTable : labelTable'[l] = labelTable[l] /\ l # line.name
        /\ DOMAIN functionDict' = DOMAIN functionDict \cup {line.name}
    BY <2>1, <2>2 DEF With
  <2>6. \A l \in DOMAIN labelTable' :
          labelTable'[l] < lineNo + 1 /\ file[labelTable'[l] + 1].op \in {"FUNCTION", "LABEL"}
    BY <1>1, <1>2, <1>5, <2>5 DEF FunctionsOK, BaseInv, TypeOK, InRange
  <2>7. \A f \in DOMAIN functionDict' :
          file[labelTable'[f] + 1].op = "FUNCTION" /\ file[labelTable'[f] + 1].name = f
    BY <1>2, <1>5, <2>5 DEF FunctionsOK, BaseInv, LoadedOK
  <2>8. entranceIP' # -1 => "main" \in DOMAIN functionDict' /\ labelTable'["main"] = entranceIP'
    BY <2>2, <2>5 DEF FunctionsOK, BaseInv, LoadedOK
  <2>9. b \in 0..(lineNo + 1) /\ b # lineNo + 1 /\ currentFunction' # None
    BY <1>1, <2>1, <2>2
  <2> QED  BY <1>3, <2>4, <2>6, <2>7, <2>8, <2>9
<1>6. CASE line.op # "FUNCTION"
  <2>1. /\ UNCHANGED <<currentFunction, entranceIP>>
        /\ DOMAIN functionDict' = DOMAIN functionDict
        /\ currentFunction # None \/ line.op = "LABEL"
    <3>1. CASE line.op = "LABEL"
      BY <1>2, <3>1 DEF LoadLine, Accept, AcceptLabel
    <3>2. CASE line.op # "LABEL"
      <4>1. AcceptInstruction(line) /\ ~Rejected(line) /\ slot = "load" /\ line \in Line
        BY <1>1, <1>2, <1>6, <3>2 DEF LoadLine, Accept
      <4>2. DOMAIN functionDict' = DOMAIN functionDict
        BY <1>6, <3>2, <4>1, InstructionAccepted
      <4> QED  BY <1>6, <3>2, <4>1, <4>2 DEF AcceptInstruction, Rejected
    <3> QED  BY <3>1, <3>2
  <2>2. /\ \A l \in DOMAIN labelTable' :
             labelTable'[l] < lineNo + 1 /\ file[labelTable'[l] + 1].op \in {"FUNCTION", "LABEL"}
        /\ \A l \in DOMAIN labelTable : l \in DOMAIN labelTable' /\ labelTable'[l] = labelTable[l]
    <3>1. CASE line.op = "LABEL"
      <4>1. labelTable' = With(labelTable, line.name, lineNo)
        BY <1>2, <3>1 DEF LoadLine, Accept, AcceptLabel, LineOfLabel
      <4>2. /\ DOMAIN labelTable' = DOMAIN labelTable \cup {line.name}
            /\ \A l \in DOMAIN labelTable' :
                 labelTable'[l] = IF l \in DOMAIN labelTable THEN labelTable[l] ELSE lineNo
        BY <4>1 DEF With
      <4>3. \A l \in DOMAIN labelTable :
              /\ labelTable[l] < lineNo + 1
              /\ file[labelTable[l] + 1].op \in {"FUNCTION", "LABEL"}
        BY <1>1 DEF FunctionsOK, BaseInv, TypeOK, InRange
      <4>4. lineNo < lineNo + 1 /\ file[lineNo + 1].op = "LABEL"
        BY <1>1, <1>2, <3>1 DEF BaseInv, TypeOK
      <4> QED  BY <4>2, <4>3, <4>4
    <3>2. CASE line.op # "LABEL"
      <4>1. labelTable' = labelTable
        BY <1>2, <1>6, <3>2 DEF LoadLine, Accept, AcceptInstruction
      <4> QED  BY <1>1, <4>1 DEF FunctionsOK, BaseInv, TypeOK, InRange
    <3> QED  BY <3>1, <3>2
  <2>3. \E c \in 0..(lineNo + 1) :
          /\ currentFunction' = None <=> c = lineNo + 1
          /\ \A i \in 0..(c - 1) : file[i + 1].op = "LABEL"
          /\ \A i \in c..lineNo : file[c + 1].op = "FUNCTION" /\ \E h \in c..i : Heads(h, i)
    <3>1. CASE b = lineNo
      <4>1. line.op = "LABEL" /\ currentFunction' = None
        BY <1>3, <2>1, <3>1
      <4>2. \A i \in 0..lineNo : file[i + 1].op = "LABEL"
        BY <1>1, <1>2, <1>3, <3>1, <4>1
      <4>3. PICK c : c = lineNo + 1
        OBVIOUS
      <4>4. /\ c \in 0..(lineNo + 1) /\ \A i \in c..lineNo : FALSE
            /\ \A i \in 0..(c - 1) : file[i + 1].op = "LABEL"
        BY <1>1, <4>2, <4>3, SMTT(30)
      <4> QED  BY <4>1, <4>3, <4>4
    <3>2. CASE b # lineNo
      <4>1. \A g \in b..(lineNo - 1) : Heads(g, lineNo - 1) => Heads(g, lineNo)
        BY <1>1, <1>2, <1>6 DEF Heads
      <4>2. lineNo - 1 \in b..(lineNo - 1)
        BY <1>1, <3>2
      <4>3. PICK g \in b..(lineNo - 1) : Heads(g, lineNo - 1)
        BY <1>3, <4>2
      <4>4. g \in b..lineNo /\ Heads(g, lineNo)
        BY <1>1, <4>1, <4>3
      <4>5. \A i \in b..lineNo : file[b + 1].op = "FUNCTION" /\ \E h \in b..i : Heads(h, i)
        BY <1>1, <1>3, <3>2, <4>4, SMTT(30)
      <4>6. b \in 0..(lineNo + 1) /\ b # lineNo + 1 /\ currentFunction' # None
        BY <1>1, <1>3, <2>1, <3>2
      <4> QED  BY <1>3, <4>5, <4>6
    <3> QED  BY <3>1, <3>2
  <2>7. \A f \in DOMAIN functionDict' :
          file[labelTable'[f] + 1].op = "FUNCTION" /\ file[labelTable'[f] + 1].name = f
    BY <2>1, <2>2 DEF FunctionsOK, BaseInv, LoadedOK
  <2>8. entranceIP' # -1 => "main" \in DOMAIN functionDict' /\ labelTable'["main"] = entranceIP'
    BY <2>1, <2>2 DEF FunctionsOK, BaseInv, LoadedOK
  <2> QED  BY <2>2, <2>3, <2>7, <2>8
<1> QED  BY <1>5, <1>6

-----------------------------------------------------------------------------
(* Loading: addresses                                                       *)

\* While a file is loaded: what main mentions has an address.
MainPlaced(t) ==
  "main" \in DOMAIN t.functionDict =>
    \A x \in DOMAIN t.functionDict["main"].place :
      x \in DOMAIN t.symbolTable /\ (Forward(t.symbolTable) => t.symbolTable[x].addr >= 0)
AllWords(symbols) == \A x \in DOMAIN symbols : symbols[x].size = 4

\* Words have no negative size.
LEMMA WordsForward ==
  ASSUME NEW symbols, AllWords(symbols)
  PROVE  Forward(symbols)
BY DEF AllWords, Forward

LEMMA InsertPlaced ==
  ASSUME NEW t, Good(t), MainPlaced(t), NEW o, NEW size, NEW u, u = Insert(t, o, size)
  PROVE  /\ MainPlaced(u)
         /\ AllWords(t.symbolTable) /\ size = 4 => AllWords(u.symbolTable)
<1>1. CASE o.mode = "imm" \/ o.var \in DOMAIN t.symbolTable
  BY <1>1 DEF Insert
<1>2. CASE ~(o.mode = "imm" \/ o.var \in DOMAIN t.symbolTable)
  <2> DEFINE x == o.var
             main == currentFunction = "main"
             s == [addr |-> IF main THEN t.offset ELSE -1, size |-> size]
             F == t.functionDict[currentFunction]
             G == [place |-> With(F.place, x, F.size), size |-> F.size + size]
  <2>1. /\ u.symbolTable = With(t.symbolTable, x, s)
        /\ u.functionDict = [t.functionDict EXCEPT ![currentFunction] = G]
    BY <1>2 DEF Insert
  <2>2. /\ DOMAIN u.symbolTable = DOMAIN t.symbolTable \cup {x}
        /\ u.symbolTable[x] = s /\ s.size = size /\ (main => s.addr = t.offset)
        /\ \A y \in DOMAIN t.symbolTable : u.symbolTable[y] = t.symbolTable[y]
    BY <1>2, <2>1 DEF With
  <2>3. /\ DOMAIN u.functionDict = DOMAIN t.functionDict
        /\ Forward(u.symbolTable) => Forward(t.symbolTable)
        /\ Forward(t.symbolTable) => t.offset >= 0
    <3>1. DOMAIN u.functionDict = DOMAIN t.functionDict
      BY <2>1
    <3>2. Forward(u.symbolTable) => Forward(t.symbolTable)
      BY <2>2 DEF Forward
    <3>3. Forward(t.symbolTable) => t.offset >= 0
      BY DEF Good, ViewOK, Stacked
    <3> QED  BY <3>1, <3>2, <3>3
  <2>4. DOMAIN G.place = DOMAIN F.place \cup {x}
    BY DEF With
  <2>5. ASSUME "main" \in DOMAIN t.functionDict, NEW y \in DOMAIN u.functionDict["main"].place
        PROVE  y \in DOMAIN u.symbolTable /\ (Forward(u.symbolTable) => u.symbolTable[y].addr >= 0)
    <3>1. CASE main /\ y = x
      BY <2>2, <2>3, <3>1
    <3>2. CASE main /\ y # x
      BY <2>1, <2>2, <2>3, <2>4, <2>5, <3>2 DEF MainPlaced
    <3>3. CASE ~main
      BY <2>1, <2>2, <2>3, <2>5, <3>3 DEF MainPlaced
    <3> QED  BY <3>1, <3>2, <3>3
  <2>6. AllWords(t.symbolTable) /\ size = 4 => AllWords(u.symbolTable)
    BY <2>2 DEF AllWords
  <2> QED  BY <2>3, <2>5, <2>6 DEF MainPlaced
<1> QED  BY <1>1, <1>2

\* While a file is loaded, and when it is: AddressesOK is about one view only.
LEMMA PlacedIsEnough ==
  ASSUME homes = <<>>, callStack = <<>>
  PROVE  /\ Count = 1 /\ View(1) = Tables
         /\ AddressesOK <=>
              /\ (\A i \in 1..lineNo : file[i].op # "DEC") => AllWords(symbolTable)
              /\ Forward(symbolTable) => \A x \in VariablesOf(0) : symbolTable[x].addr >= 0
<1>1. Count = 1 /\ View(1) = Tables /\ Tables.symbolTable = symbolTable
  BY DEF Count, View, Tables
<1>2. 1..Len(callStack) = {}
  OBVIOUS
<1> QED  BY <1>1, <1>2 DEF AddressesOK, AllWords

LEMMA LoadLineAddresses ==
  ASSUME BaseInv, AddressesOK, LoadLine
  PROVE  AddressesOK'
<1>1. /\ lineNo \in Nat /\ lineNo' = lineNo + 1 /\ file' = file /\ file[lineNo + 1] \in Line
      /\ homes = <<>> /\ callStack = <<>> /\ homes' = <<>> /\ callStack' = <<>> /\ slot = "load"
  BY DEF BaseInv, TypeOK, SlotsOK, CallsOK, LoadLine, Accept, machine
<1>2. PICK line : line = file[lineNo + 1]
  OBVIOUS
<1>3. /\ (\A i \in 1..lineNo : file[i].op # "DEC") => AllWords(symbolTable)
      /\ Forward(symbolTable) => \A x \in VariablesOf(0) : symbolTable[x].addr >= 0
  BY <1>1, PlacedIsEnough
<1>4. SUFFICES /\ line.op # "DEC" /\ AllWords(symbolTable) => AllWords(symbolTable')
               /\ Forward(symbolTable') => \A x \in VariablesOf(0)' : symbolTable'[x].addr >= 0
  <2>1. ASSUME \A i \in 1..(lineNo + 1) : file[i].op # "DEC"
        PROVE  AllWords(symbolTable')
    <3>1. line.op # "DEC" /\ \A i \in 1..lineNo : file[i].op # "DEC"
      BY <1>1, <1>2, <2>1
    <3> QED  BY <1>3, <1>4, <3>1
  <2>2. Count' = 1 /\ View(1)' = Tables' /\ Tables'.symbolTable = symbolTable'
    BY <1>1 DEF Count, View, Tables
  <2>3. 1..Len(callStack') = {}
    BY <1>1
  <2> QED  BY <1>1, <1>4, <2>1, <2>2, <2>3 DEF AddressesOK, AllWords
<1>5. CASE line.op \in {"FUNCTION", "LABEL"}
  <2>1. AcceptLabel(line) /\ symbolTable' = symbolTable
    BY <1>2, <1>5 DEF LoadLine, Accept, AcceptLabel, tables
  <2>2. VariablesOf(0)' \subseteq VariablesOf(0)
    <3>1. CASE functionDict' = functionDict
      BY <3>1 DEF VariablesOf
    <3>2. CASE functionDict' = With(functionDict, line.name, [place |-> <<>>, size |-> 0])
      <4>1. /\ DOMAIN functionDict' = DOMAIN functionDict \cup {line.name}
            /\ \A f \in DOMAIN functionDict' :
                 functionDict'[f] = IF f \in DOMAIN functionDict THEN functionDict[f] ELSE [place |-> <<>>, size |-> 0]
        BY <3>2 DEF With
      <4> QED  BY <4>1 DEF VariablesOf
    <3> QED  BY <2>1, <3>1, <3>2 DEF AcceptLabel
  <2> QED  BY <1>3, <2>1, <2>2
<1>6. CASE line.op \notin {"FUNCTION", "LABEL"}
  <2>1. AcceptInstruction(line) /\ ~Rejected(line)
    BY <1>2, <1>6 DEF LoadLine, Accept
  <2>2. PICK t0 : t0 = [symbolTable |-> symbolTable, functionDict |-> functionDict, offset |-> offset]
    OBVIOUS
  <2>3. PICK t1 : t1 = Insert(t0, line.x, SizeOf(line))
    OBVIOUS
  <2>4. PICK t2 : t2 = Insert(t1, line.y, 4)
    OBVIOUS
  <2>5. PICK t3 : t3 = Insert(t2, line.z, 4)
    OBVIOUS
  <2>6. Good(t0)
    BY <1>1, <1>6, <2>1, <2>2, LoadingGood
  <2>7. MainPlaced(t0)
    BY <1>3, <2>2 DEF MainPlaced, VariablesOf, BaseInv, TypeOK
  <2>8. line.x \in Operand /\ line.y \in Operand /\ line.z \in Operand /\ SizeOf(line) \in Int
    BY <1>1, <1>2 DEF Line, SizeOf
  <2>9. Good(t1) /\ MainPlaced(t1)
    BY <2>3, <2>6, <2>7, <2>8, InsertGood, InsertPlaced
  <2>10. Good(t2) /\ MainPlaced(t2)
    BY <2>4, <2>8, <2>9, InsertGood, InsertPlaced
  <2>11. MainPlaced(t3)
    BY <2>5, <2>10, InsertPlaced
  <2>12. symbolTable' = t3.symbolTable /\ functionDict' = t3.functionDict
    BY <2>1, <2>2, <2>3, <2>4, <2>5 DEF AcceptInstruction, Mentioned
  <2>13. ASSUME line.op # "DEC", AllWords(symbolTable)
         PROVE  AllWords(symbolTable')
    <3>1. SizeOf(line) = 4 /\ AllWords(t0.symbolTable)
      BY <2>2, <2>13 DEF SizeOf
    <3>2. AllWords(t1.symbolTable)
      BY <2>3, <2>6, <2>7, <3>1, InsertPlaced
    <3>3. AllWords(t2.symbolTable)
      BY <2>4, <2>9, <3>2, InsertPlaced
    <3> QED  BY <2>5, <2>10, <2>12, <3>3, InsertPlaced
  <2> QED  BY <2>11, <2>12, <2>13 DEF MainPlaced, VariablesOf
<1> QED  BY <1>5, <1>6

-----------------------------------------------------------------------------
(* Running: addresses                                                       *)

LEMMA AddressesKept ==
  ASSUME AddressesOK, UNCHANGED Layout
  PROVE  AddressesOK'
BY DEF AddressesOK, Layout, Count, View, Tables, VariablesOf, Forward

LEMMA StoppedAddresses ==
  ASSUME BaseInv, AddressesOK, homes # <<>>, Stopped, UNCHANGED <<program, tables>>
  PROVE  AddressesOK'
<1>1. CASE callStack = <<>>
  BY <1>1, AddressesKept DEF Stopped, Layout, program, tables
<1>2. CASE callStack # <<>>
  <2>1. homes' = <<Tables>> /\ callStack' = <<>> /\ Tables' = Tables /\ UNCHANGED <<symbolTable, program>>
    BY <1>2 DEF Stopped, Tables, tables
  <2>2. Count' = 2 /\ View(1)' = Tables /\ View(2)' = Tables
    BY <2>1 DEF Count, View
  <2>3. Forward(symbolTable) => \A x \in VariablesOf(0) : Tables.symbolTable[x].addr >= 0
    <3>1. View(Count) = Tables /\ Count \in 1..Count
      BY Views
    <3> QED  BY <3>1 DEF AddressesOK
  <2>4. VariablesOf(0)' = VariablesOf(0)
    BY <2>1 DEF VariablesOf, program
  <2>5. 1..Len(callStack') = {}
    BY <2>1
  <2> QED  BY <2>1, <2>2, <2>3, <2>4, <2>5 DEF AddressesOK, program
<1> QED  BY <1>1, <1>2

LEMMA LoadEndsAddresses ==
  ASSUME BaseInv, AddressesOK, LoadEnds
  PROVE  AddressesOK'
<1>1. /\ homes = <<>> /\ callStack = <<>> /\ homes' = <<Tables>> /\ callStack' = <<>>
      /\ Tables' = Tables /\ UNCHANGED <<symbolTable, program>> /\ Tables.symbolTable = symbolTable
  BY DEF BaseInv, SlotsOK, CallsOK, LoadEnds, tables, Tables
<1>2. Count' = 2 /\ View(1)' = Tables /\ View(2)' = Tables
  BY <1>1 DEF Count, View
<1>3. /\ (\A i \in 1..lineNo : file[i].op # "DEC") => AllWords(symbolTable)
      /\ Forward(symbolTable) => \A x \in VariablesOf(0) : symbolTable[x].addr >= 0
  BY <1>1, PlacedIsEnough
<1>4. VariablesOf(0)' = VariablesOf(0) /\ 1..Len(callStack') = {}
  BY <1>1 DEF VariablesOf, program
<1> QED  BY <1>1, <1>2, <1>3, <1>4 DEF AddressesOK, program, AllWords

LEMMA CallAddresses ==
  ASSUME BaseInv, AddressesOK, homes # <<>>, NEW f \in DOMAIN functionDict, Calls(f), InRange(ip),
         Instruction.x \in Operand, Instruction.x.var \in DOMAIN symbolTable
  PROVE  AddressesOK'
<1>1. PICK n, c : n = Len(callStack) /\ c = Opened(f)
  OBVIOUS
<1>2. /\ n \in Nat /\ Count = n + 2 /\ View(n + 2) = Tables
      /\ Len(callStack') = n + 1 /\ callStack'[n + 1] = c
      /\ \A k \in 1..n : callStack'[k] = callStack[k]
      /\ Count' = n + 3 /\ (\A k \in 1..(n + 2) : View(k)' = View(k)) /\ View(n + 3)' = Tables'
  BY <1>1, CallViews
<1>3. /\ DOMAIN functionDict[f].place \subseteq DOMAIN symbolTable
      /\ \A x \in DOMAIN functionDict[f].place : functionDict[f].place[x] \in Int
      /\ offset \in Int /\ DOMAIN c.old = DOMAIN functionDict[f].place
      /\ symbolTable \in [DOMAIN symbolTable -> Symbol]
  BY <1>1 DEF BaseInv, LoadedOK, FrameOK, TypeOK, TypeOfTables, Tables, Opened, Replaced
<1>a. Forward(symbolTable) =>
        offset >= 0 /\ \A x \in DOMAIN functionDict[f].place : functionDict[f].place[x] >= 0
  <2>1. ViewOK(Tables, symbolTable) /\ FrameOK(functionDict[f], symbolTable)
    BY <1>2 DEF BaseInv, ViewsOK, LoadedOK
  <2> QED  BY <2>1 DEF ViewOK, Stacked, FrameOK, Framed, Tables
<1>4. /\ DOMAIN symbolTable' = DOMAIN symbolTable
      /\ \A x \in DOMAIN symbolTable :
           /\ symbolTable'[x].size = symbolTable[x].size
           /\ symbolTable'[x].addr = IF x \in DOMAIN functionDict[f].place
                                     THEN offset + functionDict[f].place[x] ELSE symbolTable[x].addr
  BY <1>3 DEF Calls, Renewed, Symbol
<1>5. /\ VariablesOf(0)' = VariablesOf(0) /\ \A k \in 1..n : VariablesOf(k)' = VariablesOf(k)
      /\ VariablesOf(n + 1)' = DOMAIN functionDict[f].place
  BY <1>2, <1>3 DEF VariablesOf, Calls, program
<1>6. (\A i \in 1..lineNo' : file'[i].op # "DEC") => \A x \in DOMAIN symbolTable' : symbolTable'[x].size = 4
  BY <1>4 DEF AddressesOK, Calls, program
<1>7. VariablesOf(0) \subseteq DOMAIN symbolTable
  BY DEF VariablesOf, BaseInv, TypeOK
<1>8. ASSUME Forward(symbolTable), NEW k \in 1..(n + 3), NEW x \in VariablesOf(0)
      PROVE  View(k)'.symbolTable[x].addr >= 0
  <2>1. CASE k # n + 3
    BY <1>2, <1>8, <2>1 DEF AddressesOK
  <2>2. CASE k = n + 3
    <3>1. symbolTable[x].addr >= 0
      BY <1>2, <1>8 DEF AddressesOK, Tables
    <3>2. symbolTable'[x].addr >= 0
      BY <1>a, <1>3, <1>4, <1>7, <1>8, <3>1
    <3> QED  BY <1>2, <2>2, <3>2 DEF Tables
  <2> QED  BY <2>1, <2>2
<1>9. ASSUME NEW k \in 1..(n + 1), NEW x \in VariablesOf(k)'
      PROVE  /\ x \in DOMAIN symbolTable'
             /\ Forward(symbolTable) => View(k + 2)'.symbolTable[x].addr >= View(k + 1)'.offset
  <2>1. CASE k # n + 1
    <3>1. k + 1 \in 1..(n + 2) /\ k + 2 \in 1..(n + 2) /\ k \in 1..n
      BY <1>2, <2>1
    <3>2. View(k + 2)' = View(k + 2) /\ View(k + 1)' = View(k + 1)
      BY <1>2, <3>1
    <3> QED  BY <1>1, <1>4, <1>5, <1>9, <3>1, <3>2 DEF AddressesOK
  <2>2. CASE k = n + 1
    <3>1. View(k + 2)' = Tables' /\ View(k + 1)' = Tables
      BY <1>2, <2>2
    <3>2. x \in DOMAIN functionDict[f].place
      BY <1>5, <1>9, <2>2
    <3>3. Forward(symbolTable) => symbolTable'[x].addr >= offset
      BY <1>a, <1>3, <1>4, <3>2
    <3> QED  BY <1>3, <1>4, <3>1, <3>2, <3>3 DEF Tables
  <2> QED  BY <2>1, <2>2
<1>10. Forward(symbolTable)' => Forward(symbolTable)
  BY <1>4 DEF Forward
<1>11. Forward(symbolTable) => \A k \in 1..(n + 3) : \A x \in VariablesOf(0)' : View(k)'.symbolTable[x].addr >= 0
  BY <1>5, <1>8
<1>12. \A k \in 1..(n + 1) : \A x \in VariablesOf(k)' :
         /\ x \in DOMAIN symbolTable'
         /\ Forward(symbolTable) => View(k + 2)'.symbolTable[x].addr >= View(k + 1)'.offset
  BY <1>9
<1> QED  BY <1>2, <1>6, <1>10, <1>11, <1>12 DEF AddressesOK

LEMMA ReturnAddresses ==
  ASSUME BaseInv, AddressesOK, homes # <<>>, NEW n \in Nat \ {0}, n = Len(callStack),
         Gives(callStack[n], n)
  PROVE  AddressesOK'
<1>1. /\ Count = n + 2 /\ Len(callStack') = n - 1
      /\ \A k \in 1..(n - 1) : callStack'[k] = callStack[k]
      /\ Count' = n + 1 /\ \A k \in 1..(n + 1) : View(k)' = View(k)
      /\ Tables' = View(n + 1)
  <2>1. /\ Count = n + 2 /\ Len(callStack') = n - 1
        /\ \A k \in 1..(n - 1) : callStack'[k] = callStack[k]
        /\ Count' = n + 1 /\ \A k \in 1..(n + 1) : View(k)' = View(k)
    BY ReturnViews, Zenon
  <2>2. Tables' = homes[n + 1] /\ \A k \in 1..(n + 1) : View(k) = homes[k]
    BY ReturnViews, Zenon
  <2>3. n + 1 \in 1..(n + 1)
    OBVIOUS
  <2> QED  BY <2>1, <2>2, <2>3, Zenon
<1>2. /\ DOMAIN symbolTable' = DOMAIN symbolTable
      /\ \A x \in DOMAIN symbolTable : symbolTable'[x].size = symbolTable[x].size
  <2>1. ViewOK(View(n + 1), symbolTable) /\ View(n + 1).symbolTable = symbolTable'
    BY <1>1 DEF BaseInv, ViewsOK, Tables
  <2> QED  BY <2>1 DEF ViewOK
<1>3. /\ VariablesOf(0)' = VariablesOf(0)
      /\ \A k \in 1..(n - 1) : VariablesOf(k)' = VariablesOf(k)
  BY <1>1 DEF VariablesOf, Gives, program
<1>4. (\A i \in 1..lineNo' : file'[i].op # "DEC") => \A x \in DOMAIN symbolTable' : symbolTable'[x].size = 4
  BY <1>2 DEF AddressesOK, Gives, program
<1>5. ASSUME NEW k \in 1..(n - 1), NEW x \in VariablesOf(k)
      PROVE  /\ x \in DOMAIN symbolTable'
             /\ Forward(symbolTable) => View(k + 2)'.symbolTable[x].addr >= View(k + 1)'.offset
  <2>1. View(k + 2)' = View(k + 2) /\ View(k + 1)' = View(k + 1) /\ k \in 1..n
    BY <1>1
  <2> QED  BY <1>2, <2>1 DEF AddressesOK
<1>6. Forward(symbolTable)' => Forward(symbolTable)
  BY <1>2 DEF Forward
<1>7. Forward(symbolTable) => \A k \in 1..(n + 1) : \A x \in VariablesOf(0)' : View(k)'.symbolTable[x].addr >= 0
  BY <1>1, <1>3 DEF AddressesOK
<1>8. \A k \in 1..(n - 1) : \A x \in VariablesOf(k)' :
        /\ x \in DOMAIN symbolTable'
        /\ Forward(symbolTable) => View(k + 2)'.symbolTable[x].addr >= View(k + 1)'.offset
  BY <1>3, <1>5
<1> QED  BY <1>1, <1>4, <1>6, <1>7, <1>8 DEF AddressesOK

-----------------------------------------------------------------------------
(* Programs whose functions keep to themselves                              *)

LEMMA PlainKept ==
  ASSUME UNCHANGED program
  PROVE  Frames!Plain' <=> Frames!Plain
BY DEF program, Frames!Plain, Frames!LineAt, Frames!FunctionOf, Frames!Private, Frames!Own

LEMMA PlainFacts ==
  ASSUME Frames!Plain, TypeOK
  PROVE  /\ lineNo = Len(file) /\ Len(file) \in Nat \ {0}
         /\ \A i : InRange(i) =>
              LET l == file[i + 1] IN
              /\ l \in Line /\ l.op # "DEC"
              /\ Frames!Private(i, l.x) /\ Frames!Private(i, l.y) /\ Frames!Private(i, l.z)
              /\ l.op = "CALL" => l.name \in DOMAIN functionDict
              /\ l.op \in {"GOTO", "IF"} =>
                   /\ l.name \in DOMAIN labelTable
                   /\ Frames!FunctionOf(labelTable[l.name]) = Frames!FunctionOf(i)
              /\ l.op \notin {"RETURN", "GOTO"} => i # Len(file) - 1 /\ file[i + 2].op # "FUNCTION"
<1>1. lineNo = Len(file) /\ Len(file) \in Nat \ {0} /\ file \in Seq(Line)
  BY DEF Frames!Plain, TypeOK
<1>2. ASSUME NEW i, InRange(i)
      PROVE  /\ file[i + 1] \in Line /\ i \in 0..(Len(file) - 1)
             /\ file[i + 1] = Frames!LineAt(i) /\ file[i + 2] = Frames!LineAt(i + 1)
  BY <1>1, <1>2 DEF InRange, Frames!LineAt
<1> QED  BY <1>1, <1>2 DEF Frames!Plain

\* The first line of such a program begins a function, and every line is in one.
LEMMA FunctionOfLine ==
  ASSUME BaseInv, FunctionsOK, Frames!Plain, NEW i, InRange(i)
  PROVE  /\ Frames!FunctionOf(i) \in 0..i /\ Heads(Frames!FunctionOf(i), i)
         /\ \A h \in 0..i : Heads(h, i) => Frames!FunctionOf(i) = h
<1>1. TypeOK /\ lineNo = Len(file) /\ Len(file) \in Nat \ {0} /\ i \in 0..(Len(file) - 1)
  BY PlainFacts DEF BaseInv, InRange
<1>2. PICK b \in 0..lineNo :
        /\ \A k \in 0..(b - 1) : file[k + 1].op = "LABEL"
        /\ \A k \in b..(lineNo - 1) : file[b + 1].op = "FUNCTION" /\ \E h \in b..k : Heads(h, k)
  BY DEF FunctionsOK
<1>3. b = 0
  <2> SUFFICES ASSUME b # 0
               PROVE  FALSE
    OBVIOUS
  <2>1. InRange(b - 1) /\ b - 1 \in 0..(b - 1) /\ b \in Nat
    BY <1>1 DEF InRange
  <2>2. file[b - 1 + 1].op = "LABEL"
    BY <1>2, <2>1
  <2>3. b - 1 # Len(file) - 1 /\ file[b - 1 + 2].op # "FUNCTION"
    BY <1>1, <2>1, <2>2, PlainFacts
  <2>4. b \in b..(lineNo - 1) /\ b - 1 + 2 = b + 1
    BY <1>1, <2>1, <2>3
  <2> QED  BY <1>2, <2>3, <2>4
<1>4. \E h \in 0..i : Heads(h, i)
  BY <1>1, <1>2, <1>3
<1>5. ASSUME NEW h \in 0..i, NEW g \in 0..i, Heads(h, i), Heads(g, i)
      PROVE  h = g
  <2>1. CASE h < g
    BY <1>1, <1>5, <2>1 DEF Heads
  <2>2. CASE g < h
    BY <1>1, <1>5, <2>2 DEF Heads
  <2> QED  BY <1>1, <2>1, <2>2
<1>6. Frames!FunctionOf(i) = CHOOSE h \in 0..i : Heads(h, i)
  BY DEF Frames!FunctionOf, Frames!LineAt, Heads
<1>7. Frames!FunctionOf(i) \in 0..i /\ Heads(Frames!FunctionOf(i), i)
  BY <1>4, <1>6
<1> QED  BY <1>5, <1>7

\* The line after one that does not end its function is in the same.
LEMMA NextLine ==
  ASSUME BaseInv, FunctionsOK, Frames!Plain, NEW i, InRange(i), file[i + 1].op \notin {"RETURN", "GOTO"}
  PROVE  InRange(i + 1) /\ Frames!FunctionOf(i + 1) = Frames!FunctionOf(i)
<1>1. /\ TypeOK /\ i \in 0..(Len(file) - 1) /\ Len(file) \in Nat
      /\ i # Len(file) - 1 /\ file[i + 2].op # "FUNCTION"
  BY PlainFacts DEF BaseInv, InRange
<1>2. InRange(i + 1) /\ i + 1 + 1 = i + 2
  BY <1>1 DEF InRange
<1>3. PICK h : h = Frames!FunctionOf(i) /\ h \in 0..i /\ Heads(h, i)
  BY FunctionOfLine
<1>4. h \in 0..(i + 1) /\ Heads(h, i + 1)
  BY <1>1, <1>2, <1>3 DEF Heads
<1> QED  BY <1>2, <1>3, <1>4, FunctionOfLine

LEMMA FunctionLine ==
  ASSUME BaseInv, FunctionsOK, Frames!Plain, NEW i, InRange(i), file[i + 1].op = "FUNCTION"
  PROVE  Frames!FunctionOf(i) = i
<1>1. i \in 0..i /\ Heads(i, i)
  BY DEF Heads, InRange, BaseInv, TypeOK
<1> QED  BY <1>1, FunctionOfLine

-----------------------------------------------------------------------------
(* Control                                                                  *)

\* No program runs.
LEMMA ControlIdle ==
  ASSUME callStack' = <<>>, ip' = -1
  PROVE  ControlOK'
<1>1. 1..Len(callStack') = {}
  OBVIOUS
<1> QED  BY <1>1 DEF ControlOK

LEMMA BelongsKept ==
  ASSUME UNCHANGED program, NEW i, NEW k, VariablesOf(k)' = VariablesOf(k)
  PROVE  Belongs(i, k)' <=> Belongs(i, k)
BY DEF Belongs, InRange, program, Frames!Own, Frames!FunctionOf, Frames!LineAt

LEMMA VariablesKept ==
  ASSUME UNCHANGED program, NEW k, k > 0 => callStack'[k] = callStack[k]
  PROVE  VariablesOf(k)' = VariablesOf(k)
BY DEF VariablesOf, program

\* Control is at line i after a step that leaves calls and tables alone.
LEMMA ControlAt ==
  ASSUME BaseInv, ControlOK, UNCHANGED <<program, tables, callStack, homes>>,
         Displayable /\ ip' # -1 =>
           /\ Belongs(ip', Len(callStack))
           /\ slot' \notin {"run", "step"} \/ result' \in {"next", "raise"} =>
                file[ip' + 1].op \notin {"RETURN", "GOTO"}
  PROVE  ControlOK'
<1>1. /\ \A k : View(k)' = View(k) /\ VariablesOf(k)' = VariablesOf(k)
      /\ Displayable' <=> Displayable
  BY DEF View, Tables, tables, VariablesOf, program, Displayable
<1>2. \A i, k : Belongs(i, k)' <=> Belongs(i, k)
  BY <1>1, BelongsKept
<1>3. \A v : Shown(v)' <=> Shown(v)
  BY DEF Shown
<1>4. ASSUME NEW k \in 1..Len(callStack), Shown(View(k + 1))
      PROVE  Belongs(callStack[k].ip, k - 1)'
  <2>1. PICK i : i = callStack[k].ip
    OBVIOUS
  <2>2. Belongs(i, k - 1)
    BY <1>4, <2>1 DEF ControlOK
  <2> QED  BY <1>2, <2>1, <2>2
<1>5. ASSUME Displayable, ip' # -1
      PROVE  Belongs(ip, Len(callStack))'
  <2>1. PICK i, k : i = ip' /\ k = Len(callStack)
    OBVIOUS
  <2>2. Belongs(i, k)
    BY <1>5, <2>1
  <2> QED  BY <1>2, <2>1, <2>2
<1>6. file' = file
  BY DEF program
<1>7. (\A k \in 1..Len(callStack) : Shown(View(k + 1)) => Belongs(callStack[k].ip, k - 1))'
  BY <1>1, <1>3, <1>4
<1> QED  BY <1>1, <1>5, <1>6, <1>7 DEF ControlOK

\* A handler that leaves memory and calls alone, or goes to the next line
LEMMA ControlInWindow ==
  ASSUME BaseInv, FunctionsOK, Frames!Plain, ControlOK,
         UNCHANGED <<program, tables, callStack, homes>>,
         NEW settled \in BOOLEAN, settled <=> slot \notin {"run", "step"} \/ result \in {"next", "raise"},
         \/ ip' = -1
         \/ ip' = ip /\ (settled \/ (slot' \in {"run", "step"} /\ result' \notin {"next", "raise"}))
         \/ ip' = ip /\ ~Displayable
         \/ ip' = ip + 1 /\ ip # -1 /\ settled /\ slot' \in {"run", "step"} /\ result' \notin {"next", "raise"}
  PROVE  ControlOK'
<1>1. SUFFICES ASSUME Displayable, ip' # -1
               PROVE  /\ Belongs(ip', Len(callStack))
                      /\ slot' \notin {"run", "step"} \/ result' \in {"next", "raise"} =>
                           file[ip' + 1].op \notin {"RETURN", "GOTO"}
  BY ControlAt
<1>2. CASE ip' = ip
  BY <1>1, <1>2 DEF ControlOK
<1>3. CASE ip' = ip + 1 /\ ip # -1 /\ settled /\ slot' \in {"run", "step"} /\ result' \notin {"next", "raise"}
  <2>1. Belongs(ip, Len(callStack)) /\ file[ip + 1].op \notin {"RETURN", "GOTO"}
    BY <1>1, <1>3 DEF ControlOK
  <2>2. PICK i : i = ip
    OBVIOUS
  <2>3. InRange(i + 1) /\ Frames!FunctionOf(i + 1) = Frames!FunctionOf(i)
    BY <2>1, <2>2, NextLine DEF Belongs
  <2>4. Belongs(i + 1, Len(callStack))
    BY <2>1, <2>2, <2>3 DEF Belongs
  <2> QED  BY <1>3, <2>2, <2>4
<1> QED  BY <1>1, <1>2, <1>3

LEMMA WindowControl ==
  ASSUME IInv, FunctionsOK, Frames!Plain, ControlOK,
         \/ Ask \/ CannotAsk \/ Answer \/ StepOn \/ Raised \/ RunOn \/ RunEnds \/ StepEnds \/ LoadWord
  PROVE  ControlOK'
<1>1. BaseInv /\ SlotsOK
  BY DEF IInv, BaseInv
<1>2. UNCHANGED <<program, tables, callStack, homes>>
  BY DEF Ask, CannotAsk, Answer, StepOn, Raised, RunOn, RunEnds, StepEnds, LoadWord, machine
<1>3. PICK settled \in BOOLEAN : settled <=> slot \notin {"run", "step"} \/ result \in {"next", "raise"}
  OBVIOUS
<1>4. \/ ip' = -1
      \/ ip' = ip /\ (settled \/ (slot' \in {"run", "step"} /\ result' \notin {"next", "raise"}))
      \/ ip' = ip /\ ~Displayable
      \/ ip' = ip + 1 /\ ip # -1 /\ settled /\ slot' \in {"run", "step"} /\ result' \notin {"next", "raise"}
  <2>1. CASE Ask
    BY <1>3, <2>1 DEF Ask, Chooses, machine
  <2>2. CASE CannotAsk
    BY <1>3, <2>2 DEF CannotAsk, Chooses
  <2>3. CASE Answer
    BY <1>3, <2>3 DEF Answer
  <2>4. CASE StepOn
    BY <1>1, <1>3, <2>4 DEF StepOn, Chooses, SlotsOK
  <2>5. CASE Raised
    BY <1>3, <2>5 DEF Raised
  <2>6. CASE RunOn
    BY <1>1, <1>3, <2>6 DEF RunOn, window, SlotsOK
  <2>7. CASE RunEnds
    BY <2>7 DEF RunEnds
  <2>8. CASE StepEnds
    BY <1>3, <2>8 DEF StepEnds
  <2>9. CASE LoadWord
    BY <1>1, <2>9 DEF LoadWord, SlotsOK
  <2> QED  BY <2>1, <2>2, <2>3, <2>4, <2>5, <2>6, <2>7, <2>8, <2>9
<1> QED  BY <1>1, <1>2, <1>3, <1>4, ControlInWindow

\* Run and Step begin with main; Stop and a failed one end or change nothing.
LEMMA StopControl ==
  ASSUME IInv, FunctionsOK, Frames!Plain, ControlOK, CannotStop \/ Stop \/ Run \/ StepFirst
  PROVE  ControlOK'
<1>1. /\ BaseInv /\ SlotsOK /\ TypeOK /\ entranceIP # -1 /\ UNCHANGED <<program, tables>>
  BY DEF IInv, BaseInv, SlotsOK, CannotStop, Stop, Run, StepFirst, Chooses
<1>2. CASE Run \/ StepFirst
  <2>1. callStack' = <<>> /\ ip' = entranceIP /\ slot' \in {"run", "step"} /\ result' = "none"
    BY <1>1, <1>2 DEF Run, StepFirst, Stopped, Chooses, SlotsOK
  <2>2. /\ "main" \in DOMAIN functionDict /\ labelTable["main"] = entranceIP
        /\ InRange(entranceIP) /\ file[entranceIP + 1].op = "FUNCTION"
        /\ file[entranceIP + 1].name = "main"
    BY <1>1 DEF FunctionsOK, TypeOK, InRange
  <2>3. PICK i : i = entranceIP
    OBVIOUS
  <2>4. Frames!FunctionOf(i) = i
    BY <1>1, <2>2, <2>3, FunctionLine
  <2>5. Belongs(i, 0)
    BY <2>2, <2>3, <2>4 DEF Belongs, VariablesOf, Frames!Own
  <2>6. Belongs(i, 0)'
    BY <1>1, <2>5, BelongsKept, VariablesKept
  <2>7. Len(callStack') = 0 /\ 1..Len(callStack') = {} /\ ip' = i
    BY <2>1, <2>3
  <2> QED  BY <2>1, <2>6, <2>7 DEF ControlOK
<1>3. CASE Stop
  BY <1>3, ControlIdle DEF Stop, Stopped
<1>4. CASE CannotStop
  <2>1. CASE StopItem
    BY <1>4, <2>1, ControlIdle DEF CannotStop, Stopped
  <2>2. CASE ~StopItem
    <3>1. UNCHANGED <<program, tables, ip, callStack, homes>>
      BY <1>1, <1>4, <2>2 DEF CannotStop
    <3>2. slot = "none"
      BY <1>4 DEF CannotStop, Chooses
    <3>3. PICK settled \in BOOLEAN : settled <=> slot \notin {"run", "step"} \/ result \in {"next", "raise"}
      OBVIOUS
    <3> QED  BY <1>1, <3>1, <3>2, <3>3, ControlInWindow
  <2> QED  BY <2>1, <2>2
<1> QED  BY <1>2, <1>3, <1>4

\* What an instruction does to calls and tables
LEMMA ExecuteCases ==
  ASSUME IInv, Execute
  PROVE  /\ InRange(ip) /\ slot \in {"run", "step"} /\ result = "none" /\ homes # <<>> /\ ip # -1
         /\ Instruction = file[ip + 1] /\ Instruction \in Line /\ LineOK(Instruction)
         /\ UNCHANGED <<program, version, window>>
         /\ \/ UNCHANGED <<tables, callStack, homes>>
            \/ Call /\ Instruction.name \in DOMAIN functionDict /\ Calls(Instruction.name)
            \/ /\ Return /\ Len(callStack) \in Nat \ {0} /\ Readable(Instruction.x)
               /\ Gives(callStack[Len(callStack)], Len(callStack))
<1>1. /\ BaseInv /\ SlotsOK /\ InRange(ip) /\ slot \in {"run", "step"} /\ homes # <<>> /\ ip # -1
      /\ UNCHANGED <<program, version, window>> /\ Instruction = file[ip + 1]
  BY DEF IInv, BaseInv, SlotsOK, Execute, InRange, Instruction
<1>2. Instruction \in Line /\ LineOK(Instruction)
  BY <1>1, InstructionOK
<1>3. result = "none"
  BY DEF Execute, ExecuteCode, At, Read, Write, Goto, If, Mov, Arith, Arg, Param, Nothing, Call, Return
<1>4. \/ UNCHANGED <<tables, callStack, homes>>
      \/ Call /\ Instruction.name \in DOMAIN functionDict /\ Calls(Instruction.name)
      \/ /\ Return /\ Len(callStack) \in Nat \ {0} /\ Readable(Instruction.x)
         /\ Gives(callStack[Len(callStack)], Len(callStack))
  <2>1. CASE Call
    <3>1. CASE Instruction.name \notin DOMAIN functionDict
      BY <2>1, <3>1 DEF Call, Fails
    <3>2. CASE Instruction.name \in DOMAIN functionDict
      <4>1. Calls(Instruction.name)
        BY <1>1, <2>1, <3>2 DEF Call, Calls, Opened
      <4> QED  BY <2>1, <3>2, <4>1
    <3> QED  BY <3>1, <3>2
  <2>2. CASE Return
    <3>1. CASE Fails("finish") \/ Fails("memory")
      BY <3>1 DEF Fails
    <3>2. CASE ~(Fails("finish") \/ Fails("memory"))
      <4>1. Len(callStack) \in Nat
        BY <1>1, Views
      <4>2. Len(callStack) # 0 /\ Readable(Instruction.x)
        BY <2>2, <3>2 DEF Return
      <4>3. Gives(callStack[Len(callStack)], Len(callStack))
        BY <1>1, <2>2, <3>2 DEF Return, Gives
      <4> QED  BY <2>2, <4>1, <4>2, <4>3
    <3> QED  BY <3>1, <3>2
  <2>3. CASE ~Call /\ ~Return
    <3>1. UNCHANGED <<tables, callStack, homes>>
      BY <2>3 DEF Execute, ExecuteCode, Read, Write, Goto, If, Mov, Arith, Arg, Param, Nothing, Fails, Jump
    <3> QED  BY <3>1
  <2> QED  BY <2>1, <2>2, <2>3
<1> QED  BY <1>1, <1>2, <1>3, <1>4

\* Instructions that neither call nor return
LEMMA SimpleControl ==
  ASSUME IInv, FunctionsOK, Frames!Plain, ControlOK, Execute, UNCHANGED <<tables, callStack, homes>>
  PROVE  ControlOK'
<1>1. /\ BaseInv /\ TypeOK /\ InRange(ip) /\ ip # -1 /\ Instruction = file[ip + 1] /\ UNCHANGED program
      /\ UNCHANGED slot /\ slot \in {"run", "step"}
  BY ExecuteCases DEF IInv, BaseInv, window
<1>2. SUFFICES ASSUME Displayable
               PROVE  /\ Belongs(ip', Len(callStack))
                      /\ result' \in {"next", "raise"} => file[ip' + 1].op \notin {"RETURN", "GOTO"}
  BY <1>1, ControlAt
<1>3. Belongs(ip, Len(callStack))
  BY <1>1, <1>2 DEF ControlOK
<1> DEFINE Goes == /\ Instruction.op # "RETURN"
                   /\ Instruction.op # "GOTO" \/ Instruction.name \notin DOMAIN labelTable
<1>4. \/ ip' = ip /\ (result' \notin {"next", "raise"} \/ Goes)
      \/ /\ Instruction.op \in {"GOTO", "IF"} /\ Instruction.name \in DOMAIN labelTable
         /\ ip' = labelTable[Instruction.name]
  <2>1. CASE Return
    <3>1. CASE Fails("finish") \/ Fails("memory")
      BY <2>1, <3>1 DEF Fails
    <3>2. CASE ~(Fails("finish") \/ Fails("memory"))
      <4>1. Gives(callStack[Len(callStack)], Len(callStack)) /\ Len(callStack) # 0
        BY <1>1, <2>1, <3>2 DEF Return, Gives
      <4>2. Len(callStack) \in Nat \ {0}
        BY <4>1, ExecuteCases, Views, <1>1
      <4>3. Len(callStack') = Len(callStack) - 1
        BY <1>1, <4>1, <4>2, ReturnViews, ExecuteCases
      <4> QED  BY <4>2, <4>3
    <3> QED  BY <3>1, <3>2
  <2>2. CASE Call
    <3>1. CASE Instruction.name \notin DOMAIN functionDict
      BY <2>2, <3>1 DEF Call, Fails, At
    <3>2. CASE Instruction.name \in DOMAIN functionDict
      <4>1. Calls(Instruction.name)
        BY <1>1, <2>2, <3>2 DEF Call, Calls, Opened
      <4>2. Len(callStack') = Len(callStack) + 1 /\ Len(callStack) \in Nat
        BY <1>1, <4>1, CallViews, ExecuteCases
      <4> QED  BY <4>2
    <3> QED  BY <3>1, <3>2
  <2>3. CASE Goto \/ If
    BY <2>3 DEF Goto, If, Jump, Fails, At
  <2>4. CASE ~(Return \/ Call \/ Goto \/ If)
    BY <2>4 DEF Execute, ExecuteCode, Read, Write, Mov, Arith, Arg, Param, Nothing, Fails, At
  <2> QED  BY <2>1, <2>2, <2>3, <2>4
<1>5. CASE ip' = ip /\ (result' \notin {"next", "raise"} \/ Goes)
  <2>1. Instruction.op = "GOTO" => Instruction.name \in DOMAIN labelTable
    BY <1>1, PlainFacts
  <2>2. file[ip' + 1] = Instruction
    BY <1>1, <1>5
  <2>3. Belongs(ip', Len(callStack))
    BY <1>3, <1>5
  <2>4. result' \in {"next", "raise"} => file[ip' + 1].op \notin {"RETURN", "GOTO"}
    BY <1>5, <2>1, <2>2
  <2> QED  BY <2>3, <2>4
<1>6. CASE /\ Instruction.op \in {"GOTO", "IF"} /\ Instruction.name \in DOMAIN labelTable
           /\ ip' = labelTable[Instruction.name]
  <2>1. PICK i, j : i = ip /\ j = labelTable[Instruction.name]
    OBVIOUS
  <2>2. Frames!FunctionOf(j) = Frames!FunctionOf(i)
    BY <1>1, <1>6, <2>1, PlainFacts
  <2>3. InRange(j) /\ file[j + 1].op \in {"FUNCTION", "LABEL"}
    BY <1>1, <1>6, <2>1 DEF FunctionsOK, TypeOK
  <2>4. Belongs(j, Len(callStack))
    BY <1>3, <2>1, <2>2, <2>3 DEF Belongs
  <2> QED  BY <1>6, <2>1, <2>3, <2>4
<1> QED  BY <1>4, <1>5, <1>6

LEMMA CallControl ==
  ASSUME IInv, FunctionsOK, Frames!Plain, ControlOK, Execute,
         NEW f \in DOMAIN functionDict, Calls(f), ip' = labelTable[f]
  PROVE  ControlOK'
<1>0. BaseInv /\ homes # <<>>
  BY ExecuteCases DEF IInv
<1>1. /\ BaseInv /\ TypeOK /\ LoadedOK /\ InRange(ip) /\ ip # -1 /\ UNCHANGED program
  BY ExecuteCases DEF IInv, BaseInv
<1>2. PICK n, c : n = Len(callStack) /\ c = Opened(f)
  OBVIOUS
<1>3. /\ n \in Nat /\ View(n + 2) = Tables
      /\ Len(callStack') = n + 1 /\ callStack'[n + 1] = c
      /\ \A k \in 1..n : callStack'[k] = callStack[k]
      /\ \A k \in 1..(n + 2) : View(k)' = View(k)
  <2>1. BaseInv /\ homes # <<>> /\ Calls(f)
    BY <1>0
  <2>2. /\ n \in Nat /\ Count = n + 2 /\ View(n + 2) = Tables
        /\ Len(callStack') = n + 1 /\ callStack'[n + 1] = c
        /\ \A k \in 1..n : callStack'[k] = callStack[k]
        /\ Count' = n + 3 /\ (\A k \in 1..(n + 2) : View(k)' = View(k)) /\ View(n + 3)' = Tables'
    BY <1>2, <2>1, CallViews
  <2> QED  BY <2>2
<1>4. ip' = labelTable[f] /\ c.ip = ip /\ DOMAIN c.old = DOMAIN functionDict[f].place
  BY <1>2 DEF Opened, Replaced
<1>5. ASSUME NEW k \in 0..n
      PROVE  \A i : Belongs(i, k)' <=> Belongs(i, k)
  <2>1. VariablesOf(k)' = VariablesOf(k)
    BY <1>1, <1>3, VariablesKept
  <2> QED  BY <1>1, <2>1, BelongsKept
<1>6. ASSUME NEW k \in 1..(n + 1), Shown(View(k + 1))'
      PROVE  Belongs(callStack[k].ip, k - 1)'
  <2>1. Shown(View(k + 1))
    BY <1>3, <1>6 DEF Shown
  <2>2. CASE k # n + 1
    <3>1. PICK i : i = callStack[k].ip
      OBVIOUS
    <3>2. Belongs(i, k - 1) /\ k - 1 \in 0..n /\ callStack'[k].ip = i
      BY <1>2, <1>3, <2>1, <2>2, <3>1 DEF ControlOK
    <3> QED  BY <1>5, <3>2
  <2>3. CASE k = n + 1
    <3>1. Displayable
      BY <1>3, <2>1, <2>3 DEF Shown, Displayable, Tables
    <3>2. PICK i : i = ip
      OBVIOUS
    <3>3. Belongs(i, n) /\ k - 1 = n /\ n \in 0..n /\ callStack'[k].ip = i
      BY <1>1, <1>2, <1>3, <1>4, <2>3, <3>1, <3>2 DEF ControlOK
    <3> QED  BY <1>5, <3>3
  <2> QED  BY <2>2, <2>3
<1>7. PICK j : j = labelTable[f]
  OBVIOUS
<1>8. InRange(j) /\ file[j + 1].op = "FUNCTION" /\ file[j + 1].name = f
  BY <1>1, <1>7 DEF FunctionsOK, LoadedOK, TypeOK
<1>9. Frames!FunctionOf(j) = j
  BY <1>1, <1>8, FunctionLine
<1>10. Belongs(j, n + 1)'
  <2>1. VariablesOf(n + 1)' = DOMAIN functionDict[f].place
    BY <1>3, <1>4 DEF VariablesOf
  <2>2. Frames!Own(f) = DOMAIN functionDict[f].place
    BY DEF Frames!Own
  <2>3. /\ InRange(j)' /\ Frames!FunctionOf(j)' = Frames!FunctionOf(j)
        /\ Frames!Own(file[j + 1].name)' = Frames!Own(f)
    BY <1>1, <1>8 DEF InRange, program, Frames!FunctionOf, Frames!LineAt, Frames!Own
  <2> QED  BY <1>9, <2>1, <2>2, <2>3 DEF Belongs
<1>11. file'[j + 1].op = "FUNCTION"
  BY <1>1, <1>8 DEF program
<1>12. Belongs(ip, Len(callStack))' /\ file'[ip' + 1].op \notin {"RETURN", "GOTO"}
  BY <1>3, <1>4, <1>7, <1>10, <1>11
<1> QED  BY <1>3, <1>6, <1>12 DEF ControlOK

LEMMA ReturnControl ==
  ASSUME IInv, FunctionsOK, Frames!Plain, ControlOK, Execute, Return,
         NEW n \in Nat \ {0}, n = Len(callStack), Readable(Instruction.x), Gives(callStack[n], n)
  PROVE  ControlOK'
<1>1. /\ BaseInv /\ JumpsOK /\ homes # <<>> /\ UNCHANGED program
  BY ExecuteCases DEF IInv
<1>0. BaseInv /\ homes # <<>>
  BY <1>1
<1>2. /\ Len(callStack') = n - 1
      /\ \A k \in 1..(n - 1) : callStack'[k] = callStack[k]
      /\ Tables' = View(n + 1) /\ \A k \in 1..(n + 1) : View(k)' = View(k)
  <2>1. /\ \A k \in 1..(n + 1) : View(k) = homes[k]
        /\ Len(callStack') = n - 1
        /\ \A k \in 1..(n - 1) : callStack'[k] = callStack[k]
        /\ Tables' = homes[n + 1] /\ \A k \in 1..(n + 1) : View(k)' = View(k)
    BY <1>0, ReturnViews
  <2> QED  BY <2>1
<1>3. ip' = callStack[n].ip
  BY DEF Return
<1>4. ASSUME NEW k \in 0..(n - 1)
      PROVE  \A i : Belongs(i, k)' <=> Belongs(i, k)
  <2>1. VariablesOf(k)' = VariablesOf(k)
    BY <1>1, <1>2, VariablesKept
  <2> QED  BY <1>1, <2>1, BelongsKept
<1>5. ASSUME NEW k \in 1..(n - 1), Shown(View(k + 1))'
      PROVE  Belongs(callStack[k].ip, k - 1)'
  <2>1. Shown(View(k + 1))
    BY <1>2, <1>5 DEF Shown
  <2>2. PICK i : i = callStack[k].ip
    OBVIOUS
  <2>3. Belongs(i, k - 1) /\ k - 1 \in 0..(n - 1) /\ callStack'[k].ip = i
    BY <1>2, <2>1, <2>2 DEF ControlOK
  <2> QED  BY <1>4, <2>3
<1>6. ASSUME Displayable'
      PROVE  Belongs(ip, Len(callStack))'
  <2>1. Shown(View(n + 1))
    <3>1. Tables'.symbolTable = symbolTable'
      BY DEF Tables
    <3> QED  BY <1>2, <1>6, <3>1 DEF Shown, Displayable
  <2>2. PICK i : i = callStack[n].ip
    OBVIOUS
  <2>3. Belongs(i, n - 1)
    BY <2>1, <2>2 DEF ControlOK
  <2>4. Belongs(i, n - 1)'
    BY <1>4, <2>3
  <2> QED  BY <1>2, <1>3, <2>2, <2>4
<1>7. file'[ip' + 1].op = "CALL"
  <2>1. FromCall(callStack[n])
    BY <1>1 DEF JumpsOK
  <2> QED  BY <1>1, <1>3, <2>1 DEF FromCall, program
<1> QED  BY <1>2, <1>5, <1>6, <1>7 DEF ControlOK

-----------------------------------------------------------------------------
(* FramesInv is inductive                                                   *)

LEMMA AddressesForgotten ==
  ASSUME Forgotten, homes' = <<>>, callStack' = <<>>
  PROVE  AddressesOK'
<1>1. Count' = 1 /\ View(1)' = Tables' /\ VariablesOf(0)' = {} /\ DOMAIN symbolTable' = {}
  BY DEF Forgotten, Count, View, VariablesOf
<1>2. 1..Len(callStack') = {}
  OBVIOUS
<1> QED  BY <1>1, <1>2 DEF AddressesOK

LEMMA ExecuteFrames ==
  ASSUME IInv, FramesInv, Execute
  PROVE  FramesInv'
<1>1. FunctionsOK /\ AddressesOK /\ BaseInv
  BY DEF FramesInv, IInv
<1>2. /\ homes # <<>> /\ UNCHANGED program /\ InRange(ip)
      /\ Instruction \in Line /\ LineOK(Instruction)
  BY ExecuteCases
<1>3. FunctionsOK' /\ (Frames!Plain' <=> Frames!Plain)
  BY <1>1, <1>2, FunctionsKept, PlainKept
<1>4. CASE UNCHANGED <<tables, callStack, homes>>
  <2>1. AddressesOK'
    BY <1>1, <1>2, <1>4, AddressesKept DEF Layout, program, tables
  <2>2. Frames!Plain => ControlOK'
    BY <1>1, <1>4, SimpleControl DEF FramesInv
  <2> QED  BY <1>3, <2>1, <2>2 DEF FramesInv
<1>5. CASE Call /\ Instruction.name \in DOMAIN functionDict /\ Calls(Instruction.name)
  <2>1. PICK f \in DOMAIN functionDict : Calls(f) /\ ip' = labelTable[f]
    BY <1>5 DEF Call
  <2>2. Instruction.x \in Operand /\ Instruction.x.var \in DOMAIN symbolTable
    BY <1>2, <1>5 DEF Call, At, Line, LineOK, Known
  <2>3. AddressesOK'
    BY <1>1, <1>2, <2>1, <2>2, CallAddresses
  <2>4. Frames!Plain => ControlOK'
    BY <1>1, <2>1, CallControl DEF FramesInv
  <2> QED  BY <1>3, <2>3, <2>4 DEF FramesInv
<1>6. CASE /\ Return /\ Len(callStack) \in Nat \ {0} /\ Readable(Instruction.x)
           /\ Gives(callStack[Len(callStack)], Len(callStack))
  <2>1. PICK n \in Nat \ {0} : n = Len(callStack) /\ Gives(callStack[n], n)
    BY <1>6
  <2>2. AddressesOK'
    BY <1>1, <1>2, <2>1, ReturnAddresses
  <2>3. Frames!Plain => ControlOK'
    BY <1>1, <1>6, <2>1, ReturnControl DEF FramesInv
  <2> QED  BY <1>3, <2>2, <2>3 DEF FramesInv
<1> QED  BY <1>4, <1>5, <1>6, ExecuteCases

LEMMA FramesStep ==
  ASSUME IInv, FramesInv, [Next]_vars
  PROVE  FramesInv'
<1>1. FunctionsOK /\ AddressesOK /\ BaseInv /\ SlotsOK /\ CallsOK
  BY DEF FramesInv, IInv, BaseInv
<1>2. CASE LoadLine
  <2>1. callStack' = <<>> /\ ip' = -1
    BY <1>1, <1>2 DEF LoadLine, SlotsOK, CallsOK, machine
  <2> QED  BY <1>1, <1>2, <2>1, LoadLineFunctions, LoadLineAddresses, ControlIdle DEF FramesInv
<1>3. CASE LoadFails \/ \E f \in Files : Open(f)
  <2>1. Forgotten /\ homes' = <<>> /\ callStack' = <<>> /\ ip' = -1
    BY <1>1, <1>3 DEF LoadFails, Open, SlotsOK, CallsOK
  <2> QED  BY <2>1, FunctionsForgotten, AddressesForgotten, ControlIdle DEF FramesInv
<1>4. CASE LoadEnds
  <2>1. callStack' = <<>> /\ ip' = -1 /\ UNCHANGED program
    BY <1>1, <1>4 DEF LoadEnds, SlotsOK, CallsOK
  <2> QED  BY <1>1, <1>4, <2>1, FunctionsKept, LoadEndsAddresses, ControlIdle DEF FramesInv
<1>5. CASE Execute
  BY <1>5, ExecuteFrames
<1>6. CASE CannotStop \/ Stop \/ Run \/ StepFirst
  <2>1. homes # <<>> /\ UNCHANGED <<program, tables>>
    BY <1>1, <1>6 DEF CannotStop, Stop, Run, StepFirst, SlotsOK
  <2>2. AddressesOK'
    <3>1. CASE Stopped
      BY <1>1, <2>1, <3>1, StoppedAddresses
    <3>2. CASE ~Stopped
      <4>1. UNCHANGED <<callStack, homes>>
        BY <1>6, <3>2 DEF CannotStop, Stop, Run, StepFirst
      <4> QED  BY <1>1, <2>1, <4>1, AddressesKept DEF Layout, program, tables
    <3> QED  BY <3>1, <3>2
  <2>3. Frames!Plain => ControlOK'
    BY <1>1, <1>6, StopControl DEF FramesInv
  <2> QED  BY <1>1, <2>1, <2>2, <2>3, FunctionsKept, PlainKept DEF FramesInv
<1>7. CASE \/ Ask \/ CannotAsk \/ Answer \/ StepOn \/ Raised \/ RunOn \/ RunEnds \/ StepEnds \/ LoadWord
  <2>1. UNCHANGED <<program, tables, callStack, homes>>
    BY <1>7 DEF Ask, CannotAsk, Answer, StepOn, Raised, RunOn, RunEnds, StepEnds, LoadWord, machine
  <2>2. AddressesOK'
    BY <1>1, <2>1, AddressesKept DEF Layout, program, tables
  <2>3. Frames!Plain => ControlOK'
    BY <1>1, <1>7, WindowControl DEF FramesInv
  <2> QED  BY <1>1, <2>1, <2>2, <2>3, FunctionsKept, PlainKept DEF FramesInv
<1>8. CASE UNCHANGED vars
  <2>1. UNCHANGED <<program, tables, callStack, homes>> /\ ip' = ip /\ slot' = slot /\ result' = result
    BY <1>8 DEF vars, machine, window
  <2>2. AddressesOK'
    BY <1>1, <2>1, AddressesKept DEF Layout, program, tables
  <2>3. ASSUME Frames!Plain
        PROVE  ControlOK'
    <3>1. ControlOK
      BY <2>3 DEF FramesInv
    <3>2. /\ Displayable /\ ip' # -1 => Belongs(ip', Len(callStack))
          /\ Displayable /\ ip' # -1 /\ (slot' \notin {"run", "step"} \/ result' \in {"next", "raise"}) =>
               file[ip' + 1].op \notin {"RETURN", "GOTO"}
      BY <2>1, <3>1 DEF ControlOK
    <3> QED  BY <1>1, <2>1, <3>1, <3>2, ControlAt
  <2> QED  BY <1>1, <2>1, <2>2, <2>3, FunctionsKept, PlainKept DEF FramesInv
<1> QED  BY <1>2, <1>3, <1>4, <1>5, <1>6, <1>7, <1>8 DEF Next, Opening

\* In a program whose functions keep to themselves, control is in the function whose
\* variables are on top, whatever is run, stepped through or stopped: a call enters it at
\* its first line, a jump stays, and a return goes back to the line of the call.
THEOREM FramesHold == Spec => []FramesInv
<1>1. Init => FramesInv
  <2> SUFFICES ASSUME Init
               PROVE  FramesInv
    OBVIOUS
  <2>1. Count = 1 /\ View(1) = Tables /\ VariablesOf(0) = {} /\ DOMAIN symbolTable = {}
    BY DEF Init, Count, View, VariablesOf
  <2>2. 1..Len(callStack) = {}
    BY DEF Init
  <2>3. FunctionsOK
    BY DEF Init, FunctionsOK
  <2> QED  BY <2>1, <2>2, <2>3 DEF FramesInv, AddressesOK, ControlOK, Init
<1>2. IInv /\ FramesInv /\ [Next]_vars => FramesInv'
  BY FramesStep
<1> QED  BY <1>1, <1>2, Invariance, PTL DEF Spec

-----------------------------------------------------------------------------
(* Memory                                                                   *)

LEMMA AllAreWords ==
  ASSUME BaseInv, AddressesOK, Frames!Plain
  PROVE  AllWords(symbolTable)
<1>1. TypeOK
  BY DEF BaseInv
<1>2. lineNo = Len(file) /\ lineNo \in Nat
  BY <1>1, PlainFacts
<1>3. ASSUME NEW i \in 1..lineNo
      PROVE  file[i].op # "DEC"
  <2>1. InRange(i - 1) /\ i - 1 + 1 = i
    BY <1>2 DEF InRange
  <2> QED  BY <1>1, <2>1, PlainFacts
<1> QED  BY <1>3 DEF AddressesOK, AllWords

\* Where the variables of level n are
LEMMA VariableHas ==
  ASSUME BaseInv, AddressesOK, homes # <<>>, AllWords(symbolTable),
         NEW n \in 0..Len(callStack), NEW x \in VariablesOf(n)
  PROVE  /\ x \in DOMAIN symbolTable /\ SymbolsOf(n) = View(n + 2).symbolTable
         /\ SymbolsOf(n)[x].addr \in Nat /\ SymbolsOf(n)[x].size = 4
         /\ View(n + 2).offset \in Nat /\ SymbolsOf(n)[x].addr + 4 <= View(n + 2).offset
         /\ n > 0 => SymbolsOf(n)[x].addr >= View(n + 1).offset
<1>0. Forward(symbolTable)
  BY WordsForward
<1>1. /\ Len(callStack) \in Nat /\ Len(homes) = Len(callStack) + 1 /\ Count = Len(callStack) + 2
      /\ View(Count) = Tables
  BY Views
<1>2. SymbolsOf(n) = View(n + 2).symbolTable
  BY <1>1 DEF SymbolsOf, View, Tables
<1>3. n + 2 \in 1..Count /\ n + 1 \in 1..Count
  BY <1>1
<1>4. ViewOK(View(n + 2), symbolTable) /\ ViewOK(View(n + 1), symbolTable)
  BY <1>3 DEF BaseInv, ViewsOK
<1>5. x \in DOMAIN symbolTable
  BY DEF AddressesOK, VariablesOf, BaseInv, TypeOK
<1>6. /\ View(n + 2).symbolTable[x].addr \in Int /\ View(n + 2).symbolTable[x].size = 4
      /\ View(n + 2).offset \in Nat /\ View(n + 1).offset \in Nat
      /\ View(n + 2).symbolTable[x].addr >= 0 =>
           View(n + 2).symbolTable[x].addr + 4 <= View(n + 2).offset
  <2>1. /\ View(n + 2).symbolTable[x].addr \in Int /\ View(n + 2).symbolTable[x].size = 4
        /\ View(n + 2).offset \in Int /\ View(n + 1).offset \in Int
        /\ x \in DOMAIN View(n + 2).symbolTable
    BY <1>4, <1>5 DEF ViewOK, AllWords, Symbol
  <2>2. Stacked(View(n + 2)) /\ Stacked(View(n + 1))
    BY <1>0, <1>4 DEF ViewOK
  <2> QED  BY <2>1, <2>2 DEF Stacked
<1>7. n > 0 => View(n + 2).symbolTable[x].addr >= View(n + 1).offset
  BY <1>0 DEF AddressesOK
<1>8. View(n + 2).symbolTable[x].addr >= 0
  <2>1. CASE n = 0
    BY <1>0, <1>3, <2>1 DEF AddressesOK
  <2>2. CASE n # 0
    BY <1>6, <1>7, <2>2
  <2> QED  BY <2>1, <2>2
<1> QED  BY <1>2, <1>5, <1>6, <1>7, <1>8

LEMMA DifferentWords ==
  ASSUME NEW a \in Nat, NEW b \in Nat, a + 4 <= b
  PROVE  a \div 4 # b \div 4
OBVIOUS

\* Two variables, of the same call or of two, are in different words.
LEMMA WordsApart ==
  ASSUME BaseInv, AddressesOK, homes # <<>>, AllWords(symbolTable),
         NEW n \in 0..Len(callStack), NEW x \in VariablesOf(n),
         NEW k \in 0..n, NEW y \in VariablesOf(k), ~(k = n /\ y = x)
  PROVE  SymbolsOf(n)[x].addr \div 4 # SymbolsOf(k)[y].addr \div 4
<1>0. Forward(symbolTable)
  BY WordsForward
<1>1. /\ Len(callStack) \in Nat /\ Count = Len(callStack) + 2
  BY Views
<1>2. PICK a, b : a = SymbolsOf(n)[x].addr /\ b = SymbolsOf(k)[y].addr
  OBVIOUS
<1>3. k \in 0..Len(callStack)
  BY <1>1
<1>4. /\ x \in DOMAIN symbolTable /\ a \in Nat /\ SymbolsOf(n)[x].size = 4
      /\ SymbolsOf(n) = View(n + 2).symbolTable
      /\ n > 0 => a >= View(n + 1).offset
  BY <1>2, VariableHas
<1>5. /\ y \in DOMAIN symbolTable /\ b \in Nat /\ SymbolsOf(k)[y].size = 4
      /\ SymbolsOf(k) = View(k + 2).symbolTable
      /\ View(k + 2).offset \in Nat /\ b + 4 <= View(k + 2).offset
  BY <1>2, <1>3, VariableHas
<1>6. CASE k = n
  <2>1. ViewOK(View(n + 2), symbolTable) /\ x # y
    BY <1>1, <1>6 DEF BaseInv, ViewsOK
  <2>2. a + 4 <= b \/ b + 4 <= a
    BY <1>0, <1>2, <1>4, <1>5, <1>6, <2>1, SMTT(30) DEF ViewOK, Stacked, Apart
  <2> QED  BY <1>2, <1>4, <1>5, <2>2, DifferentWords
<1>7. CASE k # n
  <2>1. k + 2 \in 1..(n + 1) /\ n + 1 \in 1..Count /\ n > 0
    BY <1>1, <1>7
  <2>2. View(k + 2).offset <= View(n + 1).offset /\ View(n + 1).offset \in Nat
    <3>1. View(n + 1).offset \in Nat
      BY <1>0, <2>1 DEF BaseInv, ViewsOK, ViewOK, Stacked
    <3>2. CASE k + 2 = n + 1
      BY <1>5, <3>1, <3>2
    <3>3. CASE k + 2 # n + 1
      <4>1. k + 2 \in 1..(n + 1 - 1)
        BY <2>1, <3>3
      <4> QED  BY <1>0, <2>1, <3>1, <4>1 DEF BaseInv, ViewsOK, Later
    <3> QED  BY <3>2, <3>3
  <2>3. b + 4 <= a
    BY <1>4, <1>5, <2>1, <2>2
  <2> QED  BY <1>2, <1>4, <1>5, <2>3, DifferentWords
<1> QED  BY <1>6, <1>7

\* A value stored in a variable changes that variable only.
WithWord(w, v) == [mem EXCEPT ![w] = v]
ContentWith(m, a) == IF a \div 4 \in Memory THEN m[a \div 4] ELSE 0

LEMMA OneChanges ==
  ASSUME BaseInv, AddressesOK, homes # <<>>, AllWords(symbolTable),
         NEW n \in 0..Len(callStack), NEW x \in VariablesOf(n),
         NEW w \in Memory, w = SymbolsOf(n)[x].addr \div 4, NEW v
  PROVE  \A k \in 0..n : \A y \in VariablesOf(k) :
           ContentWith(WithWord(w, v), SymbolsOf(k)[y].addr) = IF k = n /\ y = x THEN v ELSE FrameOf(k)[y]
<1> SUFFICES ASSUME NEW k \in 0..n, NEW y \in VariablesOf(k)
             PROVE  ContentWith(WithWord(w, v), SymbolsOf(k)[y].addr)
                      = IF k = n /\ y = x THEN v ELSE FrameOf(k)[y]
  OBVIOUS
<1>1. mem \in [Memory -> Int]
  BY DEF BaseInv, TypeOK
<1>2. PICK u : u = SymbolsOf(k)[y].addr \div 4
  OBVIOUS
<1>3. FrameOf(k)[y] = IF u \in Memory THEN mem[u] ELSE 0
  BY <1>2 DEF FrameOf, Content
<1>4. ContentWith(WithWord(w, v), SymbolsOf(k)[y].addr) = IF u \in Memory THEN WithWord(w, v)[u] ELSE 0
  BY <1>2 DEF ContentWith
<1>5. CASE k = n /\ y = x
  BY <1>1, <1>2, <1>4, <1>5 DEF WithWord
<1>6. CASE ~(k = n /\ y = x)
  <2>1. w # u
    BY <1>2, <1>6, WordsApart
  <2> QED  BY <1>1, <1>3, <1>4, <1>6, <2>1 DEF WithWord
<1> QED  BY <1>5, <1>6

-----------------------------------------------------------------------------
(* Reading and storing                                                      *)

LEMMA TopVariable ==
  ASSUME BaseInv, AddressesOK, homes # <<>>, AllWords(symbolTable), Displayable,
         NEW n, n = Len(callStack), NEW x \in VariablesOf(n)
  PROVE  /\ x \in DOMAIN symbolTable /\ SymbolsOf(n) = symbolTable
         /\ IsIndex(IndexOf(x, symbolTable)) /\ IndexOf(x, symbolTable) \in Memory
         /\ IndexOf(x, symbolTable) = SymbolsOf(n)[x].addr \div 4
         /\ Word(IndexOf(x, symbolTable)) = SymbolsOf(n)[x].addr \div 4
<1>1. n \in 0..n /\ n \in 0..Len(callStack) /\ SymbolsOf(n) = symbolTable
  BY Views DEF SymbolsOf
<1>2. x \in DOMAIN symbolTable /\ symbolTable[x].addr \in Nat /\ symbolTable[x].size = 4
  BY <1>1, VariableHas
<1>3. PICK i : i = symbolTable[x].addr \div 4
  OBVIOUS
<1>4. i \in Nat /\ IsIndex(i)
  BY <1>2, <1>3 DEF Displayable
<1>5. i \in Memory /\ Word(i) = i
  BY <1>4, CodeAssumption DEF IsIndex, Memory, Word
<1> QED  BY <1>1, <1>2, <1>3, <1>4, <1>5 DEF IndexOf

LEMMA FramesHave ==
  ASSUME Len(callStack) \in Nat
  PROVE  /\ DOMAIN FramesNow = 1..(Len(callStack) + 1) /\ Len(FramesNow) = Len(callStack) + 1
         /\ Frames!Depth = Len(callStack) + 1
         /\ \A k \in 1..(Len(callStack) + 1) : FramesNow[k] = FrameOf(k - 1)
         /\ Len(CallsNow) = Len(callStack)
         /\ \A k \in 1..Len(callStack) :
              CallsNow[k] = [ip |-> callStack[k].ip, target |-> callStack[k].target]
BY DEF FramesNow, CallsNow, Frames!Depth

\* What is true while a program of this kind is executed and memory is large enough
Fits == IInv /\ FramesInv /\ Frames!Plain /\ Displayable /\ Execute

LEMMA FitsFacts ==
  ASSUME Fits, NEW n, n = Len(callStack)
  PROVE  /\ BaseInv /\ TypeOK /\ AddressesOK /\ ControlOK /\ AllWords(symbolTable) /\ homes # <<>>
         /\ n \in Nat /\ InRange(ip) /\ ip # -1 /\ Belongs(ip, n) /\ Instruction = file[ip + 1]
         /\ Instruction \in Line /\ LineOK(Instruction)
         /\ slot \in {"run", "step"} /\ result = "none" /\ slot' = slot /\ UNCHANGED program
<1>1. /\ BaseInv /\ TypeOK /\ AddressesOK /\ ControlOK
  BY DEF Fits, IInv, BaseInv, FramesInv
<1>2. /\ InRange(ip) /\ slot \in {"run", "step"} /\ result = "none" /\ homes # <<>> /\ ip # -1
      /\ Instruction = file[ip + 1] /\ Instruction \in Line /\ LineOK(Instruction)
      /\ UNCHANGED <<program, version, window>>
  BY ExecuteCases DEF Fits
<1>3. n \in Nat
  BY <1>1, <1>2, Views
<1>4. AllWords(symbolTable)
  BY <1>1, AllAreWords DEF Fits
<1>5. Belongs(ip, n)
  BY <1>1, <1>2 DEF Fits, ControlOK
<1> QED  BY <1>1, <1>2, <1>3, <1>4, <1>5 DEF window

\* An operand is a constant or a variable of the function, which can be read.
LEMMA OperandIs ==
  ASSUME Fits, NEW n, n = Len(callStack), NEW o \in Operand, Frames!Private(ip, o)
  PROVE  /\ o.mode = "imm" \/ (o.mode = "var" /\ o.var \in VariablesOf(n) /\ Accessible(o))
         /\ Readable(o) /\ GetValue(o) = Frames!Value(o)
<1>1. /\ BaseInv /\ AddressesOK /\ AllWords(symbolTable) /\ homes # <<>> /\ Displayable
      /\ n \in Nat /\ Belongs(ip, n)
  BY FitsFacts DEF Fits
<1>2. CASE o.mode = "imm"
  BY <1>2 DEF Readable, GetValue, Frames!Value
<1>3. CASE o.mode # "imm"
  <2>1. o.mode = "var" /\ o.var \in VariablesOf(n)
    BY <1>1, <1>3 DEF Frames!Private, Frames!LineAt, Belongs
  <2>2. PICK x : x = o.var
    OBVIOUS
  <2>3. /\ IsIndex(IndexOf(x, symbolTable)) /\ IndexOf(x, symbolTable) \in Memory
        /\ IndexOf(x, symbolTable) = SymbolsOf(n)[x].addr \div 4
        /\ Word(IndexOf(x, symbolTable)) = SymbolsOf(n)[x].addr \div 4
    BY <1>1, <2>1, <2>2, TopVariable
  <2>4. Accessible(o) /\ GetValue(o) = mem[SymbolsOf(n)[x].addr \div 4]
    BY <2>1, <2>2, <2>3 DEF Accessible, GetValue, Index
  <2>5. FrameOf(n)[x] = mem[SymbolsOf(n)[x].addr \div 4]
    BY <2>1, <2>2, <2>3 DEF FrameOf, Content
  <2>6. Frames!Value(o) = FrameOf(n)[x]
    <3>1. Frames!Depth = n + 1 /\ FramesNow[n + 1] = FrameOf(n)
      BY <1>1, FramesHave
    <3> QED  BY <1>3, <2>2, <3>1 DEF Frames!Value
  <2> QED  BY <2>1, <2>4, <2>5, <2>6 DEF Readable
<1> QED  BY <1>2, <1>3

\* A value stored in a variable of the function is assigned to it.
LEMMA StoreAssigns ==
  ASSUME Fits, NEW n, n = Len(callStack), NEW o, o.mode = "var", o.var \in VariablesOf(n),
         NEW v, mem' = Store(o, v), UNCHANGED <<tables, callStack, homes>>
  PROVE  Frames!Assign(o, v)
<1>1. /\ BaseInv /\ AddressesOK /\ AllWords(symbolTable) /\ homes # <<>> /\ Displayable
      /\ n \in Nat /\ n \in 0..Len(callStack) /\ UNCHANGED program
  BY FitsFacts DEF Fits
<1>2. PICK x \in VariablesOf(n) : x = o.var
  OBVIOUS
<1>3. PICK w : w = SymbolsOf(n)[x].addr \div 4
  OBVIOUS
<1>4. w \in Memory /\ Word(IndexOf(x, symbolTable)) = w
  BY <1>1, <1>3, TopVariable
<1>5. mem' = [mem EXCEPT ![w] = v]
  BY <1>2, <1>4 DEF Store, Index
<1>6. \A k \in 0..n : \A y \in VariablesOf(k) :
        ContentWith(mem', SymbolsOf(k)[y].addr) = IF k = n /\ y = x THEN v ELSE FrameOf(k)[y]
  <2>1. BaseInv /\ AddressesOK /\ AllWords(symbolTable) /\ homes # <<>> /\ n \in 0..Len(callStack)
    BY <1>1
  <2>2. \A k \in 0..n : \A y \in VariablesOf(k) :
          ContentWith(WithWord(w, v), SymbolsOf(k)[y].addr) = IF k = n /\ y = x THEN v ELSE FrameOf(k)[y]
    BY <1>3, <1>4, <2>1, OneChanges
  <2> QED  BY <1>5, <2>2 DEF WithWord
<1>a. ASSUME NEW k \in 0..n
      PROVE  /\ VariablesOf(k)' = VariablesOf(k) /\ SymbolsOf(k)' = SymbolsOf(k)
             /\ FrameOf(k)' = [y \in VariablesOf(k) |-> IF k = n /\ y = x THEN v ELSE FrameOf(k)[y]]
  <2>1. VariablesOf(k)' = VariablesOf(k)
    BY <1>1, VariablesKept
  <2>2. SymbolsOf(k)' = SymbolsOf(k)
    BY DEF SymbolsOf, tables
  <2>3. FrameOf(k)' = [y \in VariablesOf(k) |-> ContentWith(mem', SymbolsOf(k)[y].addr)]
    BY <2>1, <2>2 DEF FrameOf, Content, ContentWith
  <2> QED  BY <1>6, <2>1, <2>2, <2>3
<1>7. Frames!Depth = n + 1 /\ DOMAIN FramesNow = 1..(n + 1) /\ \A k \in 1..(n + 1) : FramesNow[k] = FrameOf(k - 1)
  BY <1>1, FramesHave
<1>8. FramesNow' = [k \in 1..(n + 1) |-> FrameOf(k - 1)']
  BY <1>1 DEF FramesNow
<1>9. DOMAIN FrameOf(n) = VariablesOf(n)
  BY DEF FrameOf
<1>10. FramesNow = [k \in 1..(n + 1) |-> FrameOf(k - 1)]
  BY <1>1 DEF FramesNow
<1>11. ASSUME NEW k \in 1..(n + 1)
       PROVE  FramesNow'[k] = [FramesNow EXCEPT ![n + 1][x] = v][k]
  <2>1. PICK j \in 0..n : j = k - 1
    BY <1>1
  <2>2. FramesNow'[k] = [y \in VariablesOf(j) |-> IF j = n /\ y = x THEN v ELSE FrameOf(j)[y]]
    BY <1>a, <1>8, <2>1
  <2>3. FramesNow[k] = FrameOf(j) /\ FrameOf(j) = [y \in VariablesOf(j) |-> FrameOf(j)[y]]
    BY <1>7, <2>1 DEF FrameOf
  <2> QED  BY <1>1, <1>7, <2>1, <2>2, <2>3
<1> QED  BY <1>2, <1>7, <1>8, <1>10, <1>11 DEF Frames!Assign

-----------------------------------------------------------------------------
(* Instructions                                                             *)

LEMMA PhaseAfter ==
  ASSUME slot \in {"run", "step"}, slot' = slot, Displayable'
  PROVE  /\ result' \in {"next", "raise"} => Phase' = "done"
         /\ result' \in {"finish", "memory"} => Phase' = "over"
BY DEF Phase

LEMMA FramesKept ==
  ASSUME UNCHANGED <<program, tables, mem, callStack, homes>>
  PROVE  UNCHANGED <<FramesNow, CallsNow>> /\ (Displayable' <=> Displayable)
<1>1. \A k : /\ VariablesOf(k)' = VariablesOf(k) /\ SymbolsOf(k)' = SymbolsOf(k)
             /\ \A a : Content(a)' = Content(a)
  BY DEF VariablesOf, SymbolsOf, Content, program, tables
<1>2. \A k : FrameOf(k)' = FrameOf(k)
  BY <1>1 DEF FrameOf
<1>3. UNCHANGED <<FramesNow, CallsNow>>
  BY <1>2 DEF FramesNow, CallsNow
<1>4. Displayable' <=> Displayable
  BY DEF Displayable, tables
<1> QED  BY <1>3, <1>4

\* The operators of IRFrames are those of IRCode.
LEMMA SameOperators ==
  /\ \A a, sym, b : Frames!Compare(a, sym, b) = Compare(a, sym, b)
  /\ \A a, sym, b : Frames!Compute(a, sym, b) = Compute(a, sym, b)
<1>1. \A a, sym, b : Frames!Compare(a, sym, b) = Compare(a, sym, b)
  BY DEF Frames!Compare, Compare
<1>2. \A a, sym, b : Frames!Compute(a, sym, b) = Compute(a, sym, b)
  BY DEF Frames!Compute, Compute
<1> QED  BY <1>1, <1>2

LEMMA InstructionIs ==
  ASSUME Fits, NEW n, n = Len(callStack), NEW l, l = Instruction
  PROVE  /\ l = Frames!LineAt(ip) /\ l \in Line /\ l.op # "DEC"
         /\ \A o \in {l.x, l.y, l.z} : Readable(o) /\ GetValue(o) = Frames!Value(o)
         /\ l.op \in {"READ", "PARAM", "MOV", "ARITH", "CALL"} =>
              l.x.mode = "var" /\ l.x.var \in VariablesOf(n) /\ Accessible(l.x)
         /\ l.op = "CALL" => l.name \in DOMAIN functionDict
         /\ l.op \in {"GOTO", "IF"} => l.name \in DOMAIN labelTable
<1>1. /\ TypeOK /\ InRange(ip) /\ l = file[ip + 1] /\ l \in Line /\ LineOK(l) /\ Frames!Plain
  BY FitsFacts DEF Fits
<1>2. PICK i : i = ip
  OBVIOUS
<1>3. /\ InRange(i) /\ l = file[i + 1] /\ Frames!Plain /\ TypeOK
  BY <1>1, <1>2
<1>4. /\ l.op # "DEC"
      /\ Frames!Private(i, l.x) /\ Frames!Private(i, l.y) /\ Frames!Private(i, l.z)
      /\ l.op = "CALL" => l.name \in DOMAIN functionDict
      /\ l.op \in {"GOTO", "IF"} => l.name \in DOMAIN labelTable
  BY <1>3, PlainFacts
<1>5. l.x \in Operand /\ l.y \in Operand /\ l.z \in Operand
  BY <1>1 DEF Line
<1>6. \A o \in {l.x, l.y, l.z} :
        /\ o.mode = "imm" \/ (o.mode = "var" /\ o.var \in VariablesOf(n) /\ Accessible(o))
        /\ Readable(o) /\ GetValue(o) = Frames!Value(o)
  <2>1. \A o \in {l.x, l.y, l.z} : o \in Operand /\ Frames!Private(ip, o)
    BY <1>2, <1>4, <1>5
  <2> QED  BY <2>1, OperandIs
<1>7. l.op \in {"READ", "PARAM", "MOV", "ARITH", "CALL"} => l.x.mode \in {"var", "deref"}
  BY <1>1 DEF LineOK
<1> QED  BY <1>1, <1>4, <1>6, <1>7 DEF Frames!LineAt

LEMMA SimpleExecutes ==
  ASSUME Fits, Displayable', Simple
  PROVE  Frames!Execute(Frames!LineAt(ip))
<1>1. PICK n, l : n = Len(callStack) /\ l = Instruction
  OBVIOUS
<1>2. /\ l = Frames!LineAt(ip) /\ l \in Line /\ l.op # "DEC"
      /\ \A o \in {l.x, l.y, l.z} : Readable(o) /\ GetValue(o) = Frames!Value(o)
      /\ l.op \in {"READ", "PARAM", "MOV", "ARITH", "CALL"} =>
           l.x.mode = "var" /\ l.x.var \in VariablesOf(n) /\ Accessible(l.x)
      /\ l.op \in {"GOTO", "IF"} => l.name \in DOMAIN labelTable
  BY <1>1, InstructionIs
<1>3. n \in Nat /\ slot \in {"run", "step"} /\ result = "none" /\ slot' = slot /\ UNCHANGED program
  BY <1>1, FitsFacts
<1>4. /\ result' \in {"next", "raise"} => Frames!Done
      /\ result' \in {"finish", "memory"} => Phase' = "over"
  BY <1>3, PhaseAfter DEF Frames!Done
<1>5. ASSUME UNCHANGED <<tables, mem, callStack, homes>>
      PROVE  UNCHANGED <<FramesNow, CallsNow>>
  BY <1>3, <1>5, FramesKept
<1>6. ASSUME UNCHANGED callStack
      PROVE  UNCHANGED CallsNow
  BY <1>6 DEF CallsNow
<1>7. ASSUME NEW v, mem' = Store(l.x, v), UNCHANGED <<tables, callStack, homes>>,
             l.op \in {"READ", "PARAM", "MOV", "ARITH"}
      PROVE  Frames!Assign(l.x, v)
  BY <1>1, <1>2, <1>7, StoreAssigns
<1>8. ASSUME Fails("next") \/ Fails("raise")
      PROVE  Frames!Done /\ UNCHANGED <<ip, FramesNow, CallsNow, argumentStack, console>>
  BY <1>4, <1>5, <1>8 DEF Fails
<1>9. SUFFICES Frames!Execute(l)
  BY <1>2
<1>10. CASE Read
  <2>1. l.op = "READ" /\ Accessible(l.x)
    BY <1>1, <1>2, <1>10 DEF Read, At
  <2>2. CASE Fails("next")
    BY <1>8, <2>1, <2>2 DEF Frames!Execute
  <2>3. CASE ~Fails("next")
    <3>1. PICK v \in ReadValues : mem' = Store(l.x, v)
      BY <1>1, <1>10, <2>1, <2>3 DEF Read
    <3>2. result' = "next" /\ UNCHANGED <<tables, ip, callStack, argumentStack, console, homes>>
      BY <1>1, <1>10, <2>1, <2>3 DEF Read
    <3>3. Frames!Assign(l.x, v) /\ Frames!Done /\ UNCHANGED CallsNow
      BY <1>4, <1>6, <1>7, <2>1, <3>1, <3>2
    <3> QED  BY <2>1, <3>2, <3>3 DEF Frames!Execute
  <2> QED  BY <2>2, <2>3
<1>11. CASE Write
  <2>1. /\ l.op = "WRITE" /\ console' = Append(console, Frames!Value(l.x)) /\ result' = "next"
        /\ UNCHANGED <<tables, ip, mem, callStack, argumentStack, homes>>
    BY <1>1, <1>2, <1>11 DEF Write, At
  <2>2. Frames!Done /\ UNCHANGED <<FramesNow, CallsNow>>
    BY <1>4, <1>5, <2>1
  <2> QED  BY <2>1, <2>2 DEF Frames!Execute
<1>12. ASSUME Jump, l.op \in {"GOTO", "IF"}
       PROVE  /\ ip' = labelTable[l.name] /\ Frames!Done
              /\ UNCHANGED <<FramesNow, CallsNow, argumentStack, console>>
  <2>1. /\ ip' = labelTable[l.name] /\ result' = "next"
        /\ UNCHANGED <<tables, mem, callStack, argumentStack, console, homes>>
    BY <1>1, <1>2, <1>12 DEF Jump
  <2> QED  BY <1>4, <1>5, <2>1
<1>13. CASE Goto
  <2>1. l.op = "GOTO" /\ Jump
    BY <1>1, <1>13 DEF Goto, At
  <2>2. /\ ip' = labelTable[l.name] /\ Frames!Done
        /\ UNCHANGED <<FramesNow, CallsNow, argumentStack, console>>
    BY <1>12, <2>1
  <2> QED  BY <2>1, <2>2 DEF Frames!Execute
<1>14. CASE If
  <2>1. /\ l.op = "IF"
        /\ IF Compare(Frames!Value(l.x), l.sym, Frames!Value(l.y)) THEN Jump ELSE Fails("next")
    BY <1>1, <1>2, <1>14 DEF If, At
  <2>2. /\ ip' = IF Frames!Compare(Frames!Value(l.x), l.sym, Frames!Value(l.y))
                 THEN labelTable[l.name] ELSE ip
        /\ Frames!Done /\ UNCHANGED <<FramesNow, CallsNow, argumentStack, console>>
    BY <1>8, <1>12, <2>1, SameOperators
  <2> QED  BY <2>1, <2>2 DEF Frames!Execute
<1>15. CASE Mov
  <2>1. /\ l.op = "MOV" /\ mem' = Store(l.x, Frames!Value(l.y)) /\ result' = "next"
        /\ UNCHANGED <<tables, ip, callStack, argumentStack, console, homes>>
    BY <1>1, <1>2, <1>15 DEF Mov, At
  <2>2. Frames!Assign(l.x, Frames!Value(l.y)) /\ Frames!Done /\ UNCHANGED CallsNow
    BY <1>4, <1>6, <1>7, <2>1
  <2> QED  BY <2>1, <2>2 DEF Frames!Execute
<1>16. CASE Arith
  <2>1. l.op = "ARITH" /\ l.x.mode = "var" /\ Accessible(l.x)
    BY <1>1, <1>2, <1>16 DEF Arith, At
  <2>2. CASE l.sym = "/" /\ Frames!Value(l.z) = 0
    <3>1. Fails("raise")
      BY <1>1, <1>2, <1>16, <2>1, <2>2 DEF Arith
    <3> QED  BY <1>8, <2>1, <2>2, <3>1 DEF Frames!Execute
  <2>3. CASE ~(l.sym = "/" /\ Frames!Value(l.z) = 0)
    <3>1. PICK v : v = Compute(Frames!Value(l.y), l.sym, Frames!Value(l.z))
      OBVIOUS
    <3>2. /\ mem' = Store(l.x, v) /\ result' = "next"
          /\ UNCHANGED <<tables, ip, callStack, argumentStack, console, homes>>
      BY <1>1, <1>2, <1>16, <2>1, <2>3, <3>1 DEF Arith
    <3>3. Frames!Assign(l.x, v) /\ Frames!Done /\ UNCHANGED CallsNow
      BY <1>4, <1>6, <1>7, <2>1, <3>2
    <3>4. v = Frames!Compute(Frames!Value(l.y), l.sym, Frames!Value(l.z))
      BY <3>1, SameOperators
    <3> QED  BY <2>1, <2>3, <3>2, <3>3, <3>4 DEF Frames!Execute
  <2> QED  BY <2>2, <2>3
<1>17. CASE Arg
  <2>1. /\ l.op = "ARG" /\ argumentStack' = Append(argumentStack, Frames!Value(l.x)) /\ result' = "next"
        /\ UNCHANGED <<tables, ip, mem, callStack, console, homes>>
    BY <1>1, <1>2, <1>17 DEF Arg, At
  <2>2. Frames!Done /\ UNCHANGED <<FramesNow, CallsNow>>
    BY <1>4, <1>5, <2>1
  <2> QED  BY <2>1, <2>2 DEF Frames!Execute
<1>18. CASE Param
  <2>1. l.op = "PARAM" /\ Accessible(l.x) /\ argumentStack \in Seq(Int)
    BY <1>1, <1>2, <1>18, FitsFacts DEF Param, At, TypeOK
  <2>2. CASE argumentStack = <<>>
    <3>1. Fails("memory")
      BY <1>18, <2>2 DEF Param
    <3>2. /\ Phase' = "over"
          /\ UNCHANGED <<ip, FramesNow, CallsNow, argumentStack, console>>
      BY <1>4, <1>5, <3>1 DEF Fails
    <3> QED  BY <2>1, <2>2, <3>2 DEF Frames!Execute
  <2>3. CASE argumentStack # <<>>
    <3>1. Len(argumentStack) # 0
      BY <2>1, <2>3
    <3>2. /\ mem' = Store(l.x, argumentStack[Len(argumentStack)]) /\ result' = "next"
          /\ argumentStack' = SubSeq(argumentStack, 1, Len(argumentStack) - 1)
          /\ UNCHANGED <<tables, ip, callStack, console, homes>>
      BY <1>1, <1>18, <2>1, <3>1 DEF Param
    <3>3. /\ Frames!Assign(l.x, argumentStack[Len(argumentStack)]) /\ Frames!Done
          /\ UNCHANGED CallsNow
      BY <1>4, <1>6, <1>7, <2>1, <3>2
    <3> QED  BY <2>1, <2>3, <3>2, <3>3 DEF Frames!Execute
  <2> QED  BY <2>2, <2>3
<1>19. CASE Nothing
  <2>1. l.op \in {"FUNCTION", "LABEL"} /\ Fails("next")
    BY <1>1, <1>2, <1>19 DEF Nothing, At
  <2> QED  BY <1>8, <2>1 DEF Frames!Execute
<1> QED  BY <1>10, <1>11, <1>13, <1>14, <1>15, <1>16, <1>17, <1>18, <1>19 DEF Simple

LEMMA Prefix ==
  ASSUME NEW n \in Nat, NEW s, s = [k \in 1..n |-> s[k]], NEW m \in 0..n
  PROVE  Len(s) = n /\ SubSeq(s, 1, m) = [k \in 1..m |-> s[k]]
OBVIOUS

LEMMA CallExecutes ==
  ASSUME Fits, Displayable', Call
  PROVE  Frames!Execute(Frames!LineAt(ip))
<1>1. PICK n, l : n = Len(callStack) /\ l = Instruction
  OBVIOUS
<1>2. l = Frames!LineAt(ip) /\ l.op = "CALL" /\ l.name \in DOMAIN functionDict
  BY <1>1, InstructionIs DEF Call, At
<1>3. /\ BaseInv /\ TypeOK /\ homes # <<>> /\ n \in Nat
      /\ slot \in {"run", "step"} /\ slot' = slot /\ UNCHANGED program
  BY <1>1, FitsFacts
<1>4. PICK f, c : f = l.name /\ c = Opened(f)
  OBVIOUS
<1>5. /\ Calls(f) /\ ip' = labelTable[f] /\ result' = "next"
      /\ UNCHANGED <<mem, argumentStack, console>>
  BY <1>1, <1>2, <1>3, <1>4 DEF Call, Calls, Opened
<1>6. /\ Len(homes) = n + 1 /\ Len(homes') = n + 2 /\ homes'[n + 2] = Tables
      /\ \A k \in 1..(n + 1) : homes'[k] = homes[k]
      /\ Len(callStack') = n + 1 /\ callStack'[n + 1] = c
      /\ \A k \in 1..n : callStack'[k] = callStack[k]
  BY <1>1, <1>3, <1>4, <1>5, CallViews
<1>7. Frames!Done
  BY <1>3, <1>5, PhaseAfter DEF Frames!Done
<1>8. c.ip = ip /\ c.target = l.x /\ DOMAIN c.old = DOMAIN functionDict[f].place
  BY <1>1, <1>4 DEF Opened, Replaced
<1>9. CallsNow' = Append(CallsNow, [ip |-> ip, target |-> l.x])
  <2>1. CallsNow = [k \in 1..n |-> [ip |-> callStack[k].ip, target |-> callStack[k].target]]
    BY <1>1 DEF CallsNow
  <2>2. CallsNow' = [k \in 1..(n + 1) |-> [ip |-> callStack'[k].ip, target |-> callStack'[k].target]]
    BY <1>6 DEF CallsNow
  <2> QED  BY <1>3, <1>6, <1>8, <2>1, <2>2
<1>10. ASSUME NEW k \in 0..n
       PROVE  FrameOf(k)' = FrameOf(k)
  <2>1. VariablesOf(k)' = VariablesOf(k)
    BY <1>3, <1>6, VariablesKept
  <2>2. SymbolsOf(k)' = SymbolsOf(k)
    <3>1. k # n + 1 /\ k + 2 \in 1..(n + 2)
      BY <1>3
    <3>2. SymbolsOf(k)' = homes'[k + 2].symbolTable
      BY <1>6, <3>1 DEF SymbolsOf
    <3>3. CASE k = n
      BY <1>1, <1>6, <3>2, <3>3 DEF SymbolsOf, Tables
    <3>4. CASE k # n
      BY <1>1, <1>3, <1>6, <3>2, <3>4 DEF SymbolsOf
    <3> QED  BY <3>3, <3>4
  <2> QED  BY <1>5, <2>1, <2>2 DEF FrameOf, Content
<1>11. PICK old, new : old = FramesNow /\ new = FramesNow'
  OBVIOUS
<1>12. /\ Frames!Depth = n + 1
       /\ old = [k \in 1..(n + 1) |-> old[k]] /\ \A k \in 1..(n + 1) : old[k] = FrameOf(k - 1)
  BY <1>1, <1>3, <1>11, FramesHave DEF FramesNow
<1>13. new = [k \in 1..(n + 2) |-> new[k]] /\ \A k \in 1..(n + 2) : new[k] = FrameOf(k - 1)'
  <2>1. FramesNow' = [k \in 1..(n + 1 + 1) |-> FrameOf(k - 1)']
    BY <1>6 DEF FramesNow
  <2> QED  BY <1>3, <1>11, <2>1
<1>14. Len(new) = n + 2 /\ SubSeq(new, 1, n + 1) = old
  <2>1. \A k \in 1..(n + 1) : new[k] = old[k]
    <3>1. \A k \in 1..(n + 1) : k - 1 \in 0..n /\ k \in 1..(n + 2)
      BY <1>3
    <3> QED  BY <1>10, <1>12, <1>13, <3>1
  <2>2. PICK m \in Nat : m = n + 2 /\ n + 1 \in 0..m
    BY <1>3
  <2>3. Len(new) = m /\ SubSeq(new, 1, n + 1) = [k \in 1..(n + 1) |-> new[k]]
    BY <1>13, <2>2, Prefix
  <2>4. old = [k \in 1..(n + 1) |-> new[k]]
    BY <1>12, <2>1
  <2> QED  BY <2>2, <2>3, <2>4
<1>15. DOMAIN new[n + 2] = Frames!Own(f)
  <2>1. PICK j \in Nat : j = n + 1
    BY <1>3
  <2>2. PICK k \in 1..(n + 2) : k = n + 2
    BY <1>3
  <2>3. new[n + 2] = FrameOf(j)'
    <3>1. k - 1 = j
      BY <1>3, <2>1, <2>2
    <3>2. new[k] = FrameOf(k - 1)'
      BY <1>13
    <3> QED  BY <2>2, <3>1, <3>2
  <2>4. DOMAIN FrameOf(j)' = VariablesOf(j)'
    BY DEF FrameOf
  <2>5. VariablesOf(j)' = DOMAIN c.old
    BY <1>3, <1>6, <2>1 DEF VariablesOf
  <2> QED  BY <1>2, <1>4, <1>8, <2>3, <2>4, <2>5 DEF Frames!Own
<1>16. Frames!Execute(l)
  <2>1. n + 1 + 1 = n + 2
    BY <1>3
  <2>2. /\ Len(FramesNow') = Frames!Depth + 1 /\ SubSeq(FramesNow', 1, Frames!Depth) = FramesNow
        /\ DOMAIN FramesNow'[Frames!Depth + 1] = Frames!Own(l.name)
    BY <1>4, <1>11, <1>12, <1>14, <1>15, <2>1
  <2> QED  BY <1>2, <1>4, <1>5, <1>7, <1>9, <2>2 DEF Frames!Execute
<1> QED  BY <1>2, <1>16

\* The variable that gets the value of the last open call is one of the caller.
LEMMA TargetIs ==
  ASSUME Fits, Displayable', NEW n \in Nat \ {0}, n = Len(callStack),
         symbolTable' = View(n + 1).symbolTable, NEW o, o = callStack[n].target
  PROVE  o.mode = "var" /\ o.var \in VariablesOf(n - 1)
<1>1. /\ BaseInv /\ TypeOK /\ ControlOK /\ homes # <<>> /\ Frames!Plain /\ JumpsOK
  BY FitsFacts DEF Fits, IInv
<1>2. Shown(View(n + 1))
  BY DEF Shown, Displayable
<1>3. PICK i : i = callStack[n].ip
  OBVIOUS
<1>4. Belongs(i, n - 1)
  BY <1>1, <1>2, <1>3 DEF ControlOK
<1>5. InRange(i)
  BY <1>4 DEF Belongs
<1>6. file[i + 1].op = "CALL" /\ file[i + 1].x = o
  BY <1>1, <1>3 DEF JumpsOK, FromCall
<1>7. Frames!Private(i, o)
  BY <1>1, <1>5, <1>6, PlainFacts
<1>8. o.mode \in {"var", "deref"}
  <2>1. lineNo = Len(file) /\ Len(file) \in Nat
    BY <1>1, PlainFacts
  <2>2. i + 1 \in 1..lineNo
    BY <1>5, <2>1 DEF InRange
  <2>3. LineOK(file[i + 1])
    BY <1>1, <2>2 DEF BaseInv, LoadedOK
  <2> QED  BY <1>6, <2>3 DEF LineOK
<1> QED  BY <1>4, <1>7, <1>8 DEF Frames!Private, Frames!LineAt, Belongs

LEMMA ReturnExecutes ==
  ASSUME Fits, Displayable', Return
  PROVE  Frames!Execute(Frames!LineAt(ip))
<1>1. PICK n, l : n = Len(callStack) /\ l = Instruction
  OBVIOUS
<1>2. l = Frames!LineAt(ip) /\ l.op = "RETURN" /\ Readable(l.x) /\ GetValue(l.x) = Frames!Value(l.x)
  BY <1>1, InstructionIs DEF Return, At
<1>3. /\ BaseInv /\ TypeOK /\ AddressesOK /\ AllWords(symbolTable) /\ homes # <<>> /\ n \in Nat
      /\ slot \in {"run", "step"} /\ slot' = slot /\ UNCHANGED program
  BY <1>1, FitsFacts
<1>4. Len(CallsNow) = n /\ CallsNow = [k \in 1..n |-> [ip |-> callStack[k].ip, target |-> callStack[k].target]]
  BY <1>1, <1>3, FramesHave DEF CallsNow
<1>5. CASE n = 0
  <2>1. Fails("finish")
    BY <1>1, <1>5 DEF Return
  <2>2. Phase' = "over" /\ UNCHANGED <<FramesNow, CallsNow, ip, argumentStack, console>>
    BY <1>3, <2>1, PhaseAfter, FramesKept DEF Fails
  <2>3. CallsNow = <<>>
    BY <1>4, <1>5
  <2> QED  BY <1>2, <2>2, <2>3 DEF Frames!Execute
<1>6. CASE n # 0
  <2>1. PICK c : c = callStack[n]
    OBVIOUS
  <2>2. PICK x, v, w : /\ x = c.target.var /\ v = Frames!Value(l.x)
                       /\ w = SymbolsOf(n - 1)[x].addr \div 4
    OBVIOUS
  <2>3. Gives(callStack[n], n) /\ n \in Nat \ {0}
    BY <1>1, <1>2, <1>3, <1>6 DEF Return, Gives
  <2>4. /\ Len(homes) = n + 1 /\ homes' = SubSeq(homes, 1, n)
        /\ \A k \in 1..(n + 1) : View(k) = homes[k]
        /\ \A k \in 1..n : homes'[k] = homes[k]
        /\ Len(callStack') = n - 1
        /\ \A k \in 1..(n - 1) : callStack'[k] = callStack[k]
        /\ Tables' = homes[n + 1]
    BY <1>1, <1>3, <2>3, ReturnViews DEF Gives
  <2>5. symbolTable' = View(n + 1).symbolTable /\ View(n + 1) = homes[n + 1]
    <3>1. n + 1 \in 1..(n + 1)
      BY <1>3
    <3> QED  BY <2>4, <3>1 DEF Tables
  <2>6. c.target.mode = "var" /\ x \in VariablesOf(n - 1)
    BY <1>1, <2>1, <2>2, <2>3, <2>5, TargetIs
  <2>7. PICK m \in 0..n : m = n - 1
    BY <2>3
  <2>8. /\ x \in DOMAIN symbolTable /\ SymbolsOf(m) = symbolTable'
        /\ symbolTable'[x].addr \in Nat /\ symbolTable'[x].size = 4
    <3>1. m \in 0..Len(callStack) /\ m + 2 = n + 1
      BY <1>1, <1>3, <2>7
    <3> QED  BY <1>3, <2>5, <2>6, <2>7, <3>1, VariableHas
  <2>9. w \in Memory /\ w = symbolTable'[x].addr \div 4 /\ IsIndex(w) /\ Word(w) = w
    <3>1. w = symbolTable'[x].addr \div 4 /\ w \in Nat
      BY <2>2, <2>7, <2>8
    <3>2. IsIndex(w)
      <4>1. DOMAIN symbolTable' = DOMAIN symbolTable
        BY <2>3 DEF Gives, Restored
      <4> QED  BY <2>8, <3>1, <4>1 DEF Displayable
    <3> QED  BY <3>1, <3>2, CodeAssumption DEF IsIndex, Memory, Word
  <2>10. /\ mem' = WithWord(w, v) /\ result' = "next" /\ ip' = c.ip
         /\ UNCHANGED <<argumentStack, console>>
    <3>1. IndexOf(x, Restored(c.old)) = w
      BY <2>1, <2>3, <2>9 DEF IndexOf, Gives
    <3> QED  BY <1>1, <1>2, <1>6, <2>1, <2>2, <2>6, <2>9, <3>1 DEF Return, WithWord
  <2>11. Frames!Done
    BY <1>3, <2>10, PhaseAfter DEF Frames!Done
  <2>12. CallsNow' = SubSeq(CallsNow, 1, Len(CallsNow) - 1) /\ CallsNow # <<>>
    <3>1. CallsNow' = [k \in 1..(n - 1) |-> [ip |-> callStack'[k].ip, target |-> callStack'[k].target]]
      BY <2>4 DEF CallsNow
    <3> QED  BY <1>4, <2>3, <2>4, <3>1
  <2>13. \A k \in 0..m : \A y \in VariablesOf(k) :
           ContentWith(mem', SymbolsOf(k)[y].addr) = IF k = m /\ y = x THEN v ELSE FrameOf(k)[y]
    <3>1. BaseInv /\ AddressesOK /\ AllWords(symbolTable) /\ homes # <<>> /\ m \in 0..Len(callStack)
      BY <1>1, <1>3
    <3>2. w = SymbolsOf(m)[x].addr \div 4 /\ x \in VariablesOf(m)
      BY <2>2, <2>6, <2>7
    <3>3. \A k \in 0..m : \A y \in VariablesOf(k) :
            ContentWith(WithWord(w, v), SymbolsOf(k)[y].addr) = IF k = m /\ y = x THEN v ELSE FrameOf(k)[y]
      BY <2>9, <3>1, <3>2, OneChanges
    <3> QED  BY <2>10, <3>3
  <2>14. ASSUME NEW k \in 0..m
         PROVE  FrameOf(k)' = [y \in VariablesOf(k) |-> IF k = m /\ y = x THEN v ELSE FrameOf(k)[y]]
    <3>1. VariablesOf(k)' = VariablesOf(k)
      BY <1>3, <2>4, <2>7, VariablesKept
    <3>2. SymbolsOf(k)' = SymbolsOf(k)
      <4>1. CASE k = m
        BY <2>4, <2>7, <2>8, <4>1 DEF SymbolsOf
      <4>2. CASE k # m
        <5>1. k + 2 \in 1..n /\ k # n /\ k # n - 1
          BY <1>3, <2>7, <4>2
        <5> QED  BY <1>1, <2>4, <5>1 DEF SymbolsOf
      <4> QED  BY <4>1, <4>2
    <3>3. FrameOf(k)' = [y \in VariablesOf(k) |-> ContentWith(mem', SymbolsOf(k)[y].addr)]
      BY <3>1, <3>2 DEF FrameOf, Content, ContentWith
    <3> QED  BY <2>13, <3>3
  <2>15. PICK old, new : old = FramesNow /\ new = FramesNow'
    OBVIOUS
  <2>16. /\ Frames!Depth = n + 1 /\ old = [k \in 1..(n + 1) |-> old[k]]
         /\ \A k \in 1..(n + 1) : old[k] = FrameOf(k - 1)
    BY <1>1, <1>3, <2>15, FramesHave DEF FramesNow
  <2>17. new = [k \in 1..n |-> new[k]] /\ \A k \in 1..n : new[k] = FrameOf(k - 1)'
    <3>1. FramesNow' = [k \in 1..(n - 1 + 1) |-> FrameOf(k - 1)']
      BY <2>4 DEF FramesNow
    <3> QED  BY <1>3, <2>15, <3>1
  <2>18. SubSeq(old, 1, n) = [k \in 1..n |-> old[k]]
    <3>1. PICK j \in Nat : j = n + 1 /\ n \in 0..j
      BY <1>3
    <3> QED  BY <2>16, <3>1, Prefix
  <2>19. ASSUME NEW k \in 1..n
         PROVE  new[k] = [SubSeq(old, 1, n) EXCEPT ![n][x] = v][k]
    <3>1. PICK j \in 0..m : j = k - 1
      BY <1>3, <2>7
    <3>2. new[k] = [y \in VariablesOf(j) |-> IF j = m /\ y = x THEN v ELSE FrameOf(j)[y]]
      BY <2>14, <2>17, <3>1
    <3>3. old[k] = FrameOf(j) /\ FrameOf(j) = [y \in VariablesOf(j) |-> FrameOf(j)[y]]
      BY <1>3, <2>16, <3>1 DEF FrameOf
    <3>4. j = m <=> k = n
      BY <1>3, <2>7, <3>1
    <3>5. SubSeq(old, 1, n)[k] = old[k] /\ n \in 1..n
      BY <1>3, <2>3, <2>18
    <3>6. CASE k = n
      <4>1. [SubSeq(old, 1, n) EXCEPT ![n][x] = v][k] = [old[k] EXCEPT ![x] = v]
        BY <2>18, <3>5, <3>6
      <4>2. x \in VariablesOf(j)
        BY <2>6, <2>7, <3>4, <3>6
      <4> QED  BY <3>2, <3>3, <3>4, <3>6, <4>1, <4>2
    <3>7. CASE k # n
      BY <2>18, <3>2, <3>3, <3>4, <3>5, <3>7
    <3> QED  BY <3>6, <3>7
  <2>20. new = [SubSeq(old, 1, n) EXCEPT ![n][x] = v]
    BY <2>17, <2>18, <2>19
  <2>21. Frames!Execute(l)
    <3>1. PICK back : back = CallsNow[Len(CallsNow)] /\ back = [ip |-> c.ip, target |-> c.target]
      BY <1>4, <2>1, <2>3
    <3>2. FramesNow' = [SubSeq(FramesNow, 1, Frames!Depth - 1)
                          EXCEPT ![Frames!Depth - 1][c.target.var] = Frames!Value(l.x)]
      <4>1. Frames!Depth - 1 = n
        BY <1>3, <2>16
      <4> QED  BY <2>2, <2>15, <2>20, <4>1
    <3>3. ip' = back.ip /\ back.target.var = c.target.var
      BY <2>10, <3>1
    <3>4. FramesNow' = [SubSeq(FramesNow, 1, Frames!Depth - 1)
                          EXCEPT ![Frames!Depth - 1][back.target.var] = Frames!Value(l.x)]
      BY <3>2, <3>3
    <3>5. UNCHANGED <<argumentStack, console>>
      BY <2>10
    <3> QED  BY <1>2, <2>11, <2>12, <3>1, <3>3, <3>4, <3>5 DEF Frames!Execute
  <2> QED  BY <1>2, <2>21
<1> QED  BY <1>5, <1>6

-----------------------------------------------------------------------------
(* The refinement                                                           *)

LEMMA ExecuteRefines ==
  ASSUME Fits, Displayable'
  PROVE  Phase = "ready" /\ Frames!Execute(Frames!LineAt(ip))
<1>1. Execute /\ Displayable /\ slot \in {"run", "step"} /\ result = "none"
  BY FitsFacts DEF Fits
<1>2. Phase = "ready"
  BY <1>1 DEF Phase
<1>3. Simple \/ Call \/ Return
  BY <1>1 DEF Execute, ExecuteCode, Simple
<1> QED  BY <1>2, <1>3, SimpleExecutes, CallExecutes, ReturnExecutes

\* When a run begins or is stopped, memory is zero and no call is open.
LEMMA StopRefines ==
  ASSUME IInv, Displayable, Displayable', Stop \/ Run \/ StepFirst
  PROVE  Frames!Clear
<1>1. /\ callStack' = <<>> /\ argumentStack' = <<>> /\ console' = <<>> /\ mem' = Zeros
      /\ UNCHANGED program /\ slot = "none" /\ result' = result
  BY DEF Stop, Run, StepFirst, Stopped, Chooses
<1>2. result = "none"
  BY <1>1 DEF IInv, BaseInv, SlotsOK
<1>3. CallsNow' = <<>>
  BY <1>1 DEF CallsNow
<1>4. FrameOf(0)' = [x \in Frames!Own("main") |-> 0]
  <2>1. VariablesOf(0)' = Frames!Own("main")
    BY <1>1 DEF VariablesOf, Frames!Own, program
  <2>2. \A a : Content(a)' = 0
    BY <1>1 DEF Content, Zeros, Memory
  <2> QED  BY <2>1, <2>2 DEF FrameOf
<1>5. FramesNow' = <<[x \in Frames!Own("main") |-> 0]>>
  <2>1. FramesNow' = [k \in 1..1 |-> FrameOf(k - 1)']
    BY <1>1 DEF FramesNow
  <2>2. PICK F : F = FrameOf(0)'
    OBVIOUS
  <2>3. \A k \in 1..1 : k - 1 = 0
    OBVIOUS
  <2>4. FramesNow' = [k \in 1..1 |-> F]
    BY <2>1, <2>2, <2>3
  <2> QED  BY <1>4, <2>2, <2>4
<1>6. \/ ip' = entranceIP /\ slot' \in {"run", "step"}
      \/ ip' = -1 /\ slot' = "none"
  BY <1>1 DEF Stop, Run, StepFirst, window
<1>7. \/ ip' = entranceIP /\ Phase' = "ready"
      \/ ip' = -1 /\ Frames!Done
  BY <1>1, <1>2, <1>6 DEF Phase, Frames!Done
<1> QED  BY <1>1, <1>3, <1>5, <1>7 DEF Frames!Clear

\* What a handler does that leaves program, memory and calls alone
LEMMA WindowRefines ==
  ASSUME IInv, FramesInv, Frames!Plain, Displayable, Displayable',
         \/ Ask \/ CannotAsk \/ Answer \/ StepOn \/ Raised \/ RunOn \/ RunEnds \/ StepEnds
  PROVE  Frames!Advance \/ Frames!Leave \/ UNCHANGED Frames!state
<1>1. /\ UNCHANGED <<program, tables, mem, callStack, homes>>
      /\ UNCHANGED <<argumentStack, console>>
  BY DEF Ask, CannotAsk, Answer, StepOn, Raised, RunOn, RunEnds, StepEnds, machine
<1>2. UNCHANGED <<FramesNow, CallsNow, argumentStack, console>>
  BY <1>1, FramesKept
<1>3. BaseInv /\ SlotsOK /\ TypeOK
  BY DEF IInv, BaseInv
<1>4. CASE Ask \/ CannotAsk \/ Answer \/ StepOn
  <2>1. slot \notin {"run", "step"} /\ result = "none" /\ Phase = "done"
    BY <1>3, <1>4 DEF Ask, CannotAsk, Answer, StepOn, Chooses, SlotsOK, Phase
  <2>2. CASE ip' \in {ip, -1} /\ slot' \notin {"run", "step"}
    <3>1. result' = "none"
      BY <1>4, <2>1 DEF Ask, CannotAsk, Answer, StepOn, Escapes, machine
    <3>2. Phase' = "done"
      BY <2>2, <3>1 DEF Phase
    <3> QED  BY <1>2, <2>1, <2>2, <3>2 DEF Frames!Leave, Frames!Done, Frames!state
  <2>3. CASE ~(ip' \in {ip, -1} /\ slot' \notin {"run", "step"})
    <3>1. /\ ip' = ip + 1 /\ slot' = "step" /\ result' = "none" /\ InRange(ip)
      BY <1>4, <2>1, <2>3 DEF Ask, CannotAsk, Answer, StepOn, Escapes, Chooses, machine
    <3>2. Phase' = "ready" /\ ip >= 0
      BY <1>3, <3>1 DEF Phase, InRange, TypeOK
    <3> QED  BY <1>2, <2>1, <3>1, <3>2 DEF Frames!Advance
  <2> QED  BY <2>2, <2>3
<1>5. CASE Raised
  <2>1. Phase = "done" /\ Phase' = "done" /\ ip' = ip
    BY <1>5 DEF Raised, Escapes, Phase
  <2> QED  BY <1>2, <2>1 DEF Frames!state
<1>6. CASE RunOn
  <2>1. slot = "run" /\ slot' = "run"
    BY <1>6 DEF RunOn, window
  <2>2. CASE result = "next"
    <3>1. ip' = ip + 1 /\ result' = "none" /\ InRange(ip)
      BY <1>3, <1>6, <2>2 DEF RunOn, SlotsOK
    <3>2. Phase = "done" /\ Phase' = "ready" /\ ip >= 0
      BY <1>3, <2>1, <2>2, <3>1 DEF Phase, InRange, TypeOK
    <3> QED  BY <1>2, <3>1, <3>2 DEF Frames!Advance
  <2>3. CASE result # "next"
    <3>1. ~InRange(ip) /\ ip # -1
      BY <1>3, <1>6, <2>1, <2>3 DEF RunOn, SlotsOK
    <3>2. Belongs(ip, Len(callStack))
      BY <3>1 DEF FramesInv, ControlOK
    <3> QED  BY <3>1, <3>2 DEF Belongs
  <2> QED  BY <2>2, <2>3
<1>7. CASE RunEnds \/ StepEnds
  <2>1. slot' = "none" /\ result' = "none" /\ Phase' = "done"
    BY <1>7 DEF RunEnds, StepEnds, Returns, Escapes, Phase
  <2>2. Phase \in {"done", "over"} /\ ip' \in {ip, -1} /\ (Phase = "done" \/ ip' = -1)
    BY <1>7 DEF RunEnds, StepEnds, Phase
  <2> QED  BY <1>2, <2>1, <2>2 DEF Frames!Leave, Frames!Done, Frames!state
<1> QED  BY <1>4, <1>5, <1>6, <1>7

\* The tables are set up, no call is open: nothing changes that IRFrames knows.
LEMMA LoadEndsRefines ==
  ASSUME IInv, Displayable, Displayable', LoadEnds
  PROVE  UNCHANGED Frames!state
<1>1. /\ slot = "load" /\ result = "none" /\ callStack = <<>> /\ callStack' = <<>>
      /\ slot' = "none" /\ result' = "none"
      /\ UNCHANGED <<program, tables, ip, mem, argumentStack, console>>
  BY DEF IInv, BaseInv, SlotsOK, CallsOK, LoadEnds, Returns
<1>2. Phase = "done" /\ Phase' = "done"
  BY <1>1 DEF Phase
<1>3. VariablesOf(0)' = VariablesOf(0) /\ SymbolsOf(0)' = SymbolsOf(0) /\ \A a : Content(a)' = Content(a)
  BY <1>1 DEF VariablesOf, SymbolsOf, Content, program, tables
<1>4. FrameOf(0)' = FrameOf(0)
  BY <1>3 DEF FrameOf
<1>5. FramesNow' = FramesNow /\ CallsNow' = CallsNow
  <2>1. \A k \in 1..(Len(callStack) + 1) : k - 1 = 0
    BY <1>1
  <2>2. FramesNow = [k \in 1..1 |-> FrameOf(0)]
    BY <1>1, <2>1 DEF FramesNow
  <2>3. FramesNow' = [k \in 1..1 |-> FrameOf(0)']
    BY <1>1, <2>1 DEF FramesNow
  <2> QED  BY <1>1, <1>4, <2>2, <2>3 DEF CallsNow
<1> QED  BY <1>1, <1>2, <1>5 DEF Frames!state

LEMMA StepRefines ==
  ASSUME IInv, FramesInv, [Next]_vars
  PROVE  [Frames!Next]_(Frames!state)
<1>1. SUFFICES ASSUME Frames!Plain, Frames!Plain', Displayable, Displayable'
               PROVE  [Frames!Next]_(Frames!state)
  <2>1. ASSUME ~Displayable
        PROVE  Phase = "lost"
    BY <2>1 DEF Phase
  <2>2. ASSUME ~Displayable'
        PROVE  Phase' = "lost"
    BY <2>2 DEF Phase
  <2> QED  BY <1>1, <2>1, <2>2 DEF Frames!Next, Frames!Exempt
<1>2. lineNo = Len(file) /\ lineNo' = Len(file') /\ lineNo' > 0
  BY <1>1 DEF Frames!Plain
<1>3. CASE LoadLine \/ LoadWord \/ LoadFails \/ \E f \in Files : Open(f)
  <2>1. CASE LoadLine \/ LoadWord
    BY <1>2, <2>1 DEF LoadLine, LoadWord, IInv, BaseInv, TypeOK
  <2>2. CASE LoadFails \/ \E f \in Files : Open(f)
    BY <1>2, <2>2 DEF LoadFails, Open, Forgotten
  <2> QED  BY <1>3, <2>1, <2>2
<1>4. CASE LoadEnds
  BY <1>1, <1>4, LoadEndsRefines
<1>5. CASE Execute
  BY <1>1, <1>5, ExecuteRefines DEF Fits, Frames!Next
<1>6. CASE Stop \/ Run \/ StepFirst
  BY <1>1, <1>6, StopRefines DEF Frames!Next
<1>7. CASE \/ Ask \/ CannotAsk \/ Answer \/ StepOn \/ Raised \/ RunOn \/ RunEnds \/ StepEnds
  BY <1>1, <1>7, WindowRefines DEF Frames!Next
<1>8. CASE CannotStop \/ UNCHANGED vars
  <2>1. /\ UNCHANGED <<program, tables, mem, callStack, homes, ip, argumentStack, console>>
        /\ (slot = "none" /\ slot' = "none") \/ slot' = slot
        /\ slot = "none" => result = "none"
        /\ slot' = "none" => result' = "none"
        /\ slot # "none" => result' = result
    BY <1>1, <1>8 DEF CannotStop, Chooses, Escapes, vars, machine, window, IInv, BaseInv, SlotsOK
  <2>2. Phase' = Phase
    BY <1>1, <2>1 DEF Phase
  <2>3. UNCHANGED <<FramesNow, CallsNow>>
    BY <2>1, FramesKept
  <2> QED  BY <2>1, <2>2, <2>3 DEF Frames!state
<1> QED  BY <1>3, <1>4, <1>5, <1>6, <1>7, <1>8 DEF Next, Opening

\* Whatever file is opened, run, stepped through and stopped, and however large memory is:
\* as long as it suffices, a program whose functions keep to their own words computes
\* what it would compute if every call had variables of its own.  The addresses that a call
\* gives to variables and a return gives back, and the values in the same flat memory,
\* never let one call see what is another's.
THEOREM Refinement == Spec => ImplementsFrames
<1>1. Init => Frames!Init
  <2> SUFFICES ASSUME Init
               PROVE  Frames!Init
    OBVIOUS
  <2>1. Displayable
    BY DEF Init, Displayable
  <2>2. Phase = "done"
    BY <2>1 DEF Init, Phase
  <2> QED  BY <2>2 DEF Init, Frames!Init
<1>2. IInv /\ FramesInv /\ [Next]_vars => [Frames!Next]_(Frames!state)
  BY StepRefines
<1> QED  BY <1>1, <1>2, Invariance, FramesHold, PTL DEF Spec, ImplementsFrames, Frames!Spec
=============================================================================
