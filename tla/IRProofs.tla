------------------------------ MODULE IRProofs ------------------------------
(***************************************************************************)
(* What holds of the IR simulator whatever the files, the user and the     *)
(* size of memory: IInv of IRSim is inductive.  It implies that calls give *)
(* back the tables they found, and that variables never overlap if no DEC  *)
(* has a negative size.                                                    *)
(***************************************************************************)
EXTENDS IRSim, SequenceTheorems, TLAPS

-----------------------------------------------------------------------------
(* Sequences                                                                *)

\* A sequence of anything is one of its own elements.
LEMMA OwnElements ==
  ASSUME NEW S, NEW s \in Seq(S)
  PROVE  IsSequence(s)
BY DEF IsSequence

LEMMA SequenceGrows ==
  ASSUME NEW s, IsSequence(s), NEW e
  PROVE  /\ IsSequence(Append(s, e)) /\ Len(s) \in Nat
         /\ Len(Append(s, e)) = Len(s) + 1 /\ Append(s, e)[Len(s) + 1] = e
         /\ \A k \in 1..Len(s) : Append(s, e)[k] = s[k]
<1> DEFINE S == {s[k] : k \in 1..Len(s)} \cup {e}
<1>1. s \in Seq(S)
  BY SMT DEF IsSequence
<1>a. e \in S
  OBVIOUS
<1> HIDE DEF S
<1>2. Append(s, e) \in Seq(S)
  BY <1>1, <1>a
<1>3. IsSequence(Append(s, e))
  BY <1>2, OwnElements, Zenon
<1> QED  BY <1>1, <1>3

LEMMA SequenceShrinks ==
  ASSUME NEW s, IsSequence(s), NEW n \in Nat, n <= Len(s)
  PROVE  /\ IsSequence(SubSeq(s, 1, n)) /\ Len(SubSeq(s, 1, n)) = n
         /\ \A k \in 1..n : SubSeq(s, 1, n)[k] = s[k]
<1> DEFINE S == {s[k] : k \in 1..Len(s)}
<1>1. s \in Seq(S)
  BY DEF IsSequence
<1>2. \A i \in 1..n : s[i] \in S
  BY <1>1
<1> HIDE DEF S
<1>3. /\ SubSeq(s, 1, n) \in Seq(S)
      /\ Len(SubSeq(s, 1, n)) = IF 1 <= n THEN n - 1 + 1 ELSE 0
      /\ \A i \in 1..(n - 1 + 1) : SubSeq(s, 1, n)[i] = s[1 + i - 1]
  BY <1>2, SubSeqProperties
<1>4. IsSequence(SubSeq(s, 1, n))
  BY <1>3, OwnElements, Zenon
<1>5. Len(SubSeq(s, 1, n)) = n
  BY <1>3
<1> QED  BY <1>3, <1>4, <1>5

-----------------------------------------------------------------------------
(* What most steps leave alone                                              *)

Layout == <<file, lineNo, currentFunction, labelTable, functionDict, symbolTable, offset,
            callStack, homes>>

\* The parts of the invariant that speak of the layout of memory and of loading
LayoutOK == ViewsOK /\ CallsOK /\ LoadedOK

LEMMA LayoutKept ==
  ASSUME LayoutOK, UNCHANGED Layout
  PROVE  LayoutOK'
<1>1. ViewsOK'
  BY DEF Layout, LayoutOK, ViewsOK, View, Count, Tables, ViewOK, Later, Forward, Stacked
<1>2. CallsOK'
  BY SMTT(30) DEF Layout, LayoutOK, CallsOK, CallOK, View, Count, Tables, InRange
<1>3. LoadedOK'
  BY DEF Layout, LayoutOK, LoadedOK, LineOK, Known, FrameOK, Forward, Framed
<1> QED  BY <1>1, <1>2, <1>3 DEF LayoutOK

\* At first there is nothing.
LEMMA Start ==
  ASSUME Init
  PROVE  BaseInv
<1> USE DEF Init
<1>1. TypeOK
  <2>1. Tables \in TypeOfTables
    BY DEF Tables, TypeOfTables
  <2>2. IsSequence(callStack)
    BY DEF IsSequence
  <2>3. mem \in [Memory -> Int]
    BY DEF Zeros
  <2>4. alive \in BOOLEAN /\ enabled \in BOOLEAN
    BY Zenon
  <2>5. /\ file \in Seq(Line) /\ lineNo \in 0..Len(file) /\ entranceIP \in -1..(Len(file) - 1)
        /\ ip \in -1..Len(file) /\ homes \in Seq(TypeOfTables)
    OBVIOUS
  <2>6. DOMAIN labelTable = {} /\ DOMAIN functionDict = {}
    OBVIOUS
  <2> QED  BY <2>1, <2>2, <2>3, <2>4, <2>5, <2>6 DEF TypeOK
<1>2. Count = 1 /\ View(1) = [symbolTable |-> <<>>, offset |-> 0]
  BY DEF Count, View, Tables
<1>3. ViewsOK
  BY <1>2 DEF ViewsOK, ViewOK, Later, Stacked
<1>4. CallsOK
  BY DEF CallsOK
<1>5. LoadedOK
  BY DEF LoadedOK
<1>6. SlotsOK
  BY DEF SlotsOK
<1> QED  BY <1>1, <1>3, <1>4, <1>5, <1>6 DEF BaseInv

-----------------------------------------------------------------------------
(* Instructions                                                             *)

\* The line at ip, and what is known of it
LEMMA InstructionOK ==
  ASSUME BaseInv, InRange(ip), slot \in {"run", "step"}
  PROVE  Instruction \in Line /\ LineOK(Instruction)
<1>1. ip + 1 \in 1..Len(file) /\ lineNo = Len(file)
  BY DEF BaseInv, TypeOK, InRange, SlotsOK
<1>2. file[ip + 1] \in Line
  BY <1>1 DEF BaseInv, TypeOK
<1> QED  BY <1>1, <1>2 DEF BaseInv, LoadedOK, Instruction

\* The address of a variable, and the word of an index
LEMMA AddressType ==
  ASSUME TypeOK, NEW x \in DOMAIN symbolTable
  PROVE  symbolTable[x].addr \in Int /\ IndexOf(x, symbolTable) \in Int
BY DEF TypeOK, Tables, TypeOfTables, Symbol, IndexOf

LEMMA WordInMemory ==
  ASSUME NEW i \in Int, IsIndex(i)
  PROVE  Word(i) \in Memory
BY CodeAssumption DEF IsIndex, Word, Memory

\* What is read is a number.
LEMMA ValueType ==
  ASSUME TypeOK, NEW o \in Operand, Known(o), Readable(o)
  PROVE  GetValue(o) \in Int
<1>1. CASE o.mode = "imm"
  BY <1>1 DEF GetValue, Operand
<1>2. CASE o.mode = "addr"
  BY <1>2, AddressType DEF GetValue, Known
<1>3. CASE o.mode \in {"var", "deref"}
  <2>1. o.var \in DOMAIN symbolTable /\ Accessible(o)
    BY <1>3 DEF Known, Readable
  <2>2. IndexOf(o.var, symbolTable) \in Int /\ IsIndex(IndexOf(o.var, symbolTable))
    BY <2>1, AddressType DEF Accessible
  <2>3. mem[Word(IndexOf(o.var, symbolTable))] \in Int
    BY <2>2, WordInMemory DEF TypeOK
  <2>4. Index(o) \in Int /\ IsIndex(Index(o))
    BY <1>3, <2>1, <2>2, <2>3 DEF Index, Accessible
  <2>5. mem[Word(Index(o))] \in Int
    BY <2>4, WordInMemory DEF TypeOK
  <2> QED  BY <1>3, <2>5 DEF GetValue
<1> QED  BY <1>1, <1>2, <1>3 DEF Operand

LEMMA StoreType ==
  ASSUME TypeOK, NEW o, NEW v \in Int
  PROVE  Store(o, v) \in [Memory -> Int]
BY DEF TypeOK, Store

LEMMA ComputeType ==
  ASSUME NEW a \in Int, NEW b \in Int, NEW sym \in Arithops, sym = "/" => b # 0
  PROVE  Compute(a, sym, b) \in Int
<1>1. CASE sym = "/"
  <2>1. CASE b > 0
    <3>1. a \div b \in Int
      BY <2>1
    <3> QED  BY <1>1, <2>1, <3>1 DEF Compute
  <2>2. CASE ~(b > 0)
    <3> DEFINE c == -b
               d == -a
    <3>1. c \in Int /\ c > 0 /\ d \in Int
      BY <1>1, <2>2
    <3> HIDE DEF c, d
    <3>2. d \div c \in Int
      BY <3>1
    <3> QED  BY <1>1, <2>2, <3>2 DEF Compute, c, d
  <2> QED  BY <2>1, <2>2
<1>2. CASE sym # "/"
  BY <1>2 DEF Compute, Arithops
<1> QED  BY <1>1, <1>2

\* The types, when the program and the names of variables stay.
LayoutTypes == Tables \in TypeOfTables /\ homes \in Seq(TypeOfTables) /\ IsSequence(callStack)

LEMMA TypeKept ==
  ASSUME TypeOK, UNCHANGED <<program, version>>, DOMAIN symbolTable' = DOMAIN symbolTable,
         LayoutTypes',
         ip' \in -1..Len(file), result' \in {"none", "next", "finish", "memory", "pc", "raise"},
         mem' \in [Memory -> Int], argumentStack' \in Seq(Int), console' \in Seq(Int),
         alive' \in BOOLEAN, enabled' \in BOOLEAN,
         slot' \in {"none", "ask", "load", "run", "step"}
  PROVE  TypeOK'
<1>1. /\ file' \in Seq(Line) /\ lineNo' \in 0..Len(file') /\ entranceIP' \in -1..(Len(file') - 1)
      /\ (\A l \in DOMAIN labelTable : InRange(labelTable[l]))'
  BY DEF TypeOK, program, InRange
<1>2. (\A f \in DOMAIN functionDict :
        functionDict[f].size \in Int /\ \A x \in DOMAIN functionDict[f].place : x \in DOMAIN symbolTable)'
  BY DEF TypeOK, program
<1>3. ip' \in -1..Len(file') /\ version' \in Versions
  BY DEF TypeOK, program
<1> QED  BY <1>1, <1>2, <1>3 DEF TypeOK, Memory, LayoutTypes

LEMMA LayoutTypesKept ==
  ASSUME TypeOK, UNCHANGED Layout
  PROVE  LayoutTypes' /\ DOMAIN symbolTable' = DOMAIN symbolTable
<1>1. Tables' = Tables /\ TypeOfTables' = TypeOfTables /\ homes' = homes
  BY DEF Tables, TypeOfTables, Layout
<1>2. IsSequence(callStack')
  BY DEF TypeOK, Layout
<1> QED  BY <1>1, <1>2 DEF TypeOK, LayoutTypes, Layout

\* The effect of an instruction that calls and returns nothing.
Simple == Read \/ Write \/ Goto \/ If \/ Mov \/ Arith \/ Arg \/ Param \/ Nothing

Worked ==
  /\ UNCHANGED <<tables, callStack, homes>>
  /\ ip' \in 0..(Len(file) - 1) /\ result' \in {"next", "finish", "memory", "raise"}
  /\ mem' \in [Memory -> Int] /\ argumentStack' \in Seq(Int) /\ console' \in Seq(Int)

LEMMA FailsWorked ==
  ASSUME TypeOK, InRange(ip), NEW res \in {"next", "finish", "memory", "raise"}, Fails(res)
  PROVE  Worked
BY DEF TypeOK, Worked, Fails, tables, InRange

LEMMA JumpWorked ==
  ASSUME TypeOK, InRange(ip), Jump
  PROVE  Worked
<1>1. CASE Instruction.name \in DOMAIN labelTable
  BY <1>1 DEF TypeOK, Worked, Jump, tables, InRange
<1>2. CASE Instruction.name \notin DOMAIN labelTable
  BY <1>2, FailsWorked DEF Jump
<1> QED  BY <1>1, <1>2

LEMMA SimpleWorked ==
  ASSUME BaseInv, InRange(ip), slot \in {"run", "step"}, Simple
  PROVE  Worked
<1> DEFINE l == Instruction
<1>1. /\ l \in Line /\ l.x \in Operand /\ l.y \in Operand /\ l.z \in Operand
      /\ LineOK(l) /\ TypeOK
  BY InstructionOK DEF Line, BaseInv
<1>2. l.op \notin {"FUNCTION", "LABEL"} => Known(l.x) /\ Known(l.y) /\ Known(l.z)
  BY <1>1 DEF LineOK
<1>3. \A o \in Operand : Known(o) /\ Readable(o) => GetValue(o) \in Int
  BY <1>1, ValueType
<1>4. \A o : \A v \in Int : Store(o, v) \in [Memory -> Int]
  BY <1>1, StoreType
<1>5. \A res \in {"next", "finish", "memory", "raise"} : Fails(res) => Worked
  BY <1>1, FailsWorked
<1>6. mem \in [Memory -> Int] /\ argumentStack \in Seq(Int) /\ console \in Seq(Int)
  BY <1>1 DEF TypeOK
<1>7. CASE Read
  <2>1. Fails("next") \/ Fails("memory") => Worked
    BY <1>5
  <2>2. ASSUME ~Fails("next"), ~Fails("memory")
        PROVE  \E v \in Int : mem' = Store(l.x, v) /\ result' = "next"
                 /\ UNCHANGED <<tables, ip, callStack, argumentStack, console, homes>>
    BY <1>7, <2>2, ReadAssumption DEF Read
  <2> QED  BY <2>1, <2>2, <1>4, <1>6 DEF Worked, InRange
<1>8. CASE Write
  <2>1. CASE Readable(l.x)
    <3>1. GetValue(l.x) \in Int
      BY <1>1, <1>2, <1>3, <1>8, <2>1 DEF Write, At
    <3>2. \A s \in Seq(Int) : \A i \in Int : Append(s, i) \in Seq(Int)
      OBVIOUS
    <3>3. Append(console, GetValue(l.x)) \in Seq(Int)
      BY <1>6, <3>1, <3>2
    <3> QED  BY <1>6, <1>8, <2>1, <3>3 DEF Write, Worked, InRange
  <2>2. CASE ~Readable(l.x)
    BY <1>5, <1>8, <2>2 DEF Write
  <2> QED  BY <2>1, <2>2
<1>9. CASE Goto
  BY <1>1, <1>9, JumpWorked DEF Goto
<1>10. CASE If
  BY <1>1, <1>5, <1>10, JumpWorked DEF If
<1>11. CASE Mov
  <2>1. CASE Readable(l.y) /\ Accessible(l.x)
    <3>1. GetValue(l.y) \in Int
      BY <1>1, <1>2, <1>3, <1>11, <2>1 DEF Mov, At
    <3> QED  BY <1>4, <1>6, <1>11, <2>1, <3>1 DEF Mov, Worked, InRange
  <2>2. CASE ~(Readable(l.y) /\ Accessible(l.x))
    BY <1>5, <1>11, <2>2 DEF Mov
  <2> QED  BY <2>1, <2>2
<1>12. CASE Arith
  <2>1. CASE Fails("memory") \/ Fails("raise")
    BY <1>5, <2>1
  <2>2. CASE ~Fails("memory") /\ ~Fails("raise")
    <3>1. /\ Readable(l.y) /\ Readable(l.z) /\ ~(l.sym = "/" /\ GetValue(l.z) = 0)
          /\ mem' = Store(l.x, Compute(GetValue(l.y), l.sym, GetValue(l.z)))
          /\ result' = "next"
          /\ UNCHANGED <<tables, ip, callStack, argumentStack, console, homes>>
      BY <1>12, <2>2 DEF Arith
    <3>2. l.op = "ARITH"
      BY <1>12 DEF Arith, At
    <3>3. GetValue(l.y) \in Int /\ GetValue(l.z) \in Int /\ l.sym \in Arithops
      BY <1>1, <1>2, <1>3, <3>1, <3>2 DEF LineOK
    <3>4. Compute(GetValue(l.y), l.sym, GetValue(l.z)) \in Int
      BY <3>1, <3>3, ComputeType
    <3> QED  BY <1>4, <1>6, <3>1, <3>4 DEF Worked, InRange
  <2> QED  BY <2>1, <2>2
<1>13. CASE Arg
  <2>1. CASE Readable(l.x)
    <3>1. GetValue(l.x) \in Int
      BY <1>1, <1>2, <1>3, <1>13, <2>1 DEF Arg, At
    <3>2. \A s \in Seq(Int) : \A i \in Int : Append(s, i) \in Seq(Int)
      OBVIOUS
    <3>3. Append(argumentStack, GetValue(l.x)) \in Seq(Int)
      BY <1>6, <3>1, <3>2
    <3> QED  BY <1>6, <1>13, <2>1, <3>3 DEF Arg, Worked, InRange
  <2>2. CASE ~Readable(l.x)
    BY <1>5, <1>13, <2>2 DEF Arg
  <2> QED  BY <2>1, <2>2
<1>14. CASE Param
  <2> DEFINE last == Len(argumentStack)
  <2>1. CASE last = 0
    BY <1>5, <1>14, <2>1 DEF Param
  <2>2. CASE last # 0
    <3>1. argumentStack[last] \in Int /\ SubSeq(argumentStack, 1, last - 1) \in Seq(Int)
      BY <1>6, <2>2
    <3>2. mem' \in [Memory -> Int] /\ result' \in {"next", "memory"}
      BY <1>4, <1>6, <1>14, <2>2, <3>1 DEF Param
    <3> QED  BY <1>14, <2>2, <3>1, <3>2, <1>6 DEF Param, Worked, InRange
  <2> QED  BY <2>1, <2>2
<1>15. CASE Nothing
  BY <1>5, <1>15 DEF Nothing
<1> QED  BY <1>7, <1>8, <1>9, <1>10, <1>11, <1>12, <1>13, <1>14, <1>15 DEF Simple

-----------------------------------------------------------------------------
(* Calls                                                                    *)

\* What is said of names and sizes, when only addresses change.
LEMMA OnlyAddresses ==
  ASSUME NEW s, NEW t, DOMAIN s = DOMAIN t, \A x \in DOMAIN s : s[x].size = t[x].size
  PROVE  /\ \A v : ViewOK(v, s) => ViewOK(v, t)
         /\ \A f : FrameOK(f, s) => FrameOK(f, t)
         /\ Forward(t) => Forward(s)
<1>1. Forward(t) => Forward(s)
  BY DEF Forward
<1>2. ASSUME NEW v, ViewOK(v, s)  PROVE ViewOK(v, t)
  BY <1>1, <1>2 DEF ViewOK
<1>3. ASSUME NEW f, FrameOK(f, s)  PROVE FrameOK(f, t)
  <2>1. Framed(f, s) => Framed(f, t)
    BY <1>3 DEF FrameOK, Framed
  <2> QED  BY <1>1, <1>3, <2>1 DEF FrameOK
<1> QED  BY <1>1, <1>2, <1>3

LEMMA LoadedKept ==
  ASSUME LoadedOK, UNCHANGED program, DOMAIN symbolTable' = DOMAIN symbolTable,
         \A x \in DOMAIN symbolTable : symbolTable[x].size = symbolTable'[x].size
  PROVE  LoadedOK'
<1>1. \A f : FrameOK(f, symbolTable) => FrameOK(f, symbolTable')
  BY OnlyAddresses
<1>2. \A l : LineOK(l) => LineOK(l)'
  BY DEF LineOK, Known
<1>3. (\A i \in 1..lineNo : LineOK(file[i]))'
  BY <1>2 DEF LoadedOK, program
<1>4. (\A f \in DOMAIN functionDict : f \in DOMAIN labelTable /\ FrameOK(functionDict[f], symbolTable))'
  BY <1>1 DEF LoadedOK, program
<1> QED  BY <1>3, <1>4 DEF LoadedOK, program

\* A frame above the offset: the variables that move there, and the others
Moved(new, symbols, off, f) ==
  \A x \in DOMAIN symbols :
    new[x] = IF x \in DOMAIN f.place
             THEN [symbols[x] EXCEPT !.addr = off + f.place[x]] ELSE symbols[x]

LEMMA NewFrame ==
  ASSUME NEW symbols, NEW off \in Int, NEW f, FrameOK(f, symbols),
         ViewOK([symbolTable |-> symbols, offset |-> off], symbols),
         NEW new, DOMAIN new = DOMAIN symbols,
         Moved(new, symbols, off, f)
  PROVE  /\ DOMAIN new = DOMAIN symbols
         /\ \A x \in DOMAIN symbols :
              /\ new[x] \in Symbol /\ new[x].size = symbols[x].size
              /\ Forward(symbols) => new[x] = symbols[x] \/ new[x].addr >= off
         /\ ViewOK([symbolTable |-> new, offset |-> off + f.size], new)
<1>1. \A x \in DOMAIN symbols : symbols[x] \in Symbol
  BY DEF ViewOK
<1>2. f.size \in Int /\ \A x \in DOMAIN f.place :
        /\ x \in DOMAIN symbols /\ f.place[x] \in Int
        /\ new[x].addr = off + f.place[x] /\ new[x].size = symbols[x].size
        /\ new[x] \in Symbol
  BY <1>1 DEF FrameOK, Symbol, Moved
<1>3. \A x \in DOMAIN symbols : x \notin DOMAIN f.place => new[x] = symbols[x]
  BY DEF Moved
<1>4. \A x \in DOMAIN symbols : new[x] \in Symbol /\ new[x].size = symbols[x].size
  BY <1>1, <1>2, <1>3
<1>5. ASSUME Forward(symbols)
      PROVE  /\ \A x \in DOMAIN symbols : new[x] = symbols[x] \/ new[x].addr >= off
             /\ Stacked([symbolTable |-> new, offset |-> off + f.size])
  <2>1. /\ off >= 0
        /\ \A x \in DOMAIN symbols :
             /\ symbols[x].addr >= 0 => symbols[x].addr + symbols[x].size <= off
             /\ \A y \in DOMAIN symbols :
                  x # y /\ symbols[x].addr >= 0 /\ symbols[y].addr >= 0 => Apart(symbols[x], symbols[y])
    BY <1>5 DEF ViewOK, Stacked
  <2>2. Framed(f, symbols) /\ f.size >= 0
    BY <1>5 DEF FrameOK, Framed
  <2>3. \A x \in DOMAIN f.place : f.place[x] >= 0 /\ f.place[x] + symbols[x].size <= f.size
    BY <2>2 DEF Framed
  <2>4. ASSUME NEW x \in DOMAIN symbols
        PROVE  /\ new[x] = symbols[x] \/ new[x].addr >= off
               /\ new[x].addr >= 0 => new[x].addr + new[x].size <= off + f.size
    BY <1>1, <1>2, <1>3, <2>1, <2>2, <2>3 DEF Symbol
  <2>5. ASSUME NEW x \in DOMAIN symbols, NEW y \in DOMAIN symbols, x # y,
               new[x].addr >= 0, new[y].addr >= 0
        PROVE  Apart(new[x], new[y])
    <3>1. CASE x \in DOMAIN f.place /\ y \in DOMAIN f.place
      <4>1. \/ f.place[x] + symbols[x].size <= f.place[y]
            \/ f.place[y] + symbols[y].size <= f.place[x]
        BY <2>2, <2>5, <3>1 DEF Framed
      <4> QED  BY <1>1, <1>2, <3>1, <4>1 DEF Apart, Symbol
    <3>2. CASE x \in DOMAIN f.place /\ y \notin DOMAIN f.place
      BY <1>1, <1>2, <1>3, <2>1, <2>3, <2>5, <3>2 DEF Apart, Symbol
    <3>3. CASE x \notin DOMAIN f.place /\ y \in DOMAIN f.place
      BY <1>1, <1>2, <1>3, <2>1, <2>3, <2>5, <3>3 DEF Apart, Symbol
    <3>4. CASE x \notin DOMAIN f.place /\ y \notin DOMAIN f.place
      BY <1>3, <2>1, <2>5, <3>4
    <3> QED  BY <3>1, <3>2, <3>3, <3>4
  <2>6. off + f.size >= 0
    BY <1>2, <2>1, <2>2
  <2> QED  BY <2>4, <2>5, <2>6 DEF Stacked
<1>6. Forward(new) => Forward(symbols)
  BY <1>4 DEF Forward
<1>7. ViewOK([symbolTable |-> new, offset |-> off + f.size], new)
  BY <1>2, <1>4, <1>5, <1>6 DEF ViewOK
<1> QED  BY <1>4, <1>5, <1>7

\* The views while a program is loaded
LEMMA Views ==
  ASSUME BaseInv, homes # <<>>
  PROVE  /\ IsSequence(homes) /\ IsSequence(callStack)
         /\ Len(callStack) \in Nat /\ Len(homes) = Len(callStack) + 1
         /\ Count = Len(callStack) + 2
         /\ View(Count) = Tables
         /\ \A k \in 1..Len(homes) : View(k) = homes[k] /\ homes[k] \in TypeOfTables
<1>1. homes \in Seq(TypeOfTables) /\ IsSequence(callStack) /\ Len(homes) = Len(callStack) + 1
  BY DEF BaseInv, TypeOK, CallsOK
<1>2. IsSequence(homes)
  BY <1>1, OwnElements, Zenon
<1>3. Len(callStack) \in Nat
  BY <1>1 DEF IsSequence
<1>4. Count = Len(callStack) + 2 /\ View(Count) = Tables
  BY <1>1, <1>3 DEF Count, View
<1>5. \A k \in 1..Len(homes) : View(k) = homes[k] /\ homes[k] \in TypeOfTables
  BY <1>1, <1>3 DEF View
<1> QED  BY <1>1, <1>2, <1>3, <1>4, <1>5

\* What a call does to the layout, and what it keeps
Opened(f) == [ip |-> ip, target |-> Instruction.x, old |-> Replaced(f), offset |-> offset]
Calls(f) ==
  /\ UNCHANGED program
  /\ symbolTable' = Renewed(f)
  /\ offset' = offset + functionDict[f].size
  /\ callStack' = Append(callStack, Opened(f))
  /\ homes' = Append(homes, Tables)

LEMMA CallViews ==
  ASSUME BaseInv, homes # <<>>, NEW f, Calls(f), NEW n, n = Len(callStack), NEW c, c = Opened(f)
  PROVE  /\ IsSequence(homes) /\ n \in Nat /\ Len(homes) = n + 1
         /\ Count = n + 2 /\ View(n + 2) = Tables /\ View(n + 2) \in TypeOfTables
         /\ \A k \in 1..(n + 1) : View(k) = homes[k] /\ homes[k] \in TypeOfTables
         /\ Len(homes') = n + 2 /\ homes'[n + 2] = Tables
         /\ \A k \in 1..(n + 1) : homes'[k] = homes[k]
         /\ Len(callStack') = n + 1 /\ callStack'[n + 1] = c /\ IsSequence(callStack')
         /\ \A k \in 1..n : callStack'[k] = callStack[k]
         /\ Count' = n + 3 /\ (\A k \in 1..(n + 2) : View(k)' = View(k)) /\ View(n + 3)' = Tables'
<1>1. /\ IsSequence(homes) /\ IsSequence(callStack) /\ n \in Nat /\ Len(homes) = n + 1
      /\ Count = n + 2 /\ View(n + 2) = Tables /\ View(n + 2) \in TypeOfTables
      /\ \A k \in 1..(n + 1) : View(k) = homes[k] /\ homes[k] \in TypeOfTables
  BY Views DEF BaseInv, TypeOK
<1>2. /\ Len(homes') = n + 2 /\ homes'[n + 2] = Tables
      /\ \A k \in 1..(n + 1) : homes'[k] = homes[k]
  <2>1. homes' = Append(homes, Tables)
    BY DEF Calls
  <2>2. /\ Len(Append(homes, Tables)) = Len(homes) + 1
        /\ Append(homes, Tables)[Len(homes) + 1] = Tables
        /\ \A k \in 1..Len(homes) : Append(homes, Tables)[k] = homes[k]
    BY <1>1, SequenceGrows
  <2> QED  BY <1>1, <2>1, <2>2
<1>3. /\ Len(callStack') = n + 1 /\ callStack'[n + 1] = c /\ IsSequence(callStack')
      /\ \A k \in 1..n : callStack'[k] = callStack[k]
  <2>1. callStack' = Append(callStack, c)
    BY DEF Calls
  <2> QED  BY <1>1, <2>1, SequenceGrows
<1>4. Count' = n + 3 /\ (\A k \in 1..(n + 2) : View(k)' = View(k)) /\ View(n + 3)' = Tables'
  BY <1>1, <1>2 DEF Count, View
<1> QED  BY <1>1, <1>2, <1>3, <1>4

LEMMA CallKeepsLayout ==
  ASSUME BaseInv, homes # <<>>, NEW f \in DOMAIN functionDict, Calls(f), InRange(ip),
         Instruction.x \in Operand, Instruction.x.var \in DOMAIN symbolTable,
         NEW n, n = Len(callStack),
         NEW c, c = Opened(f)
  PROVE  LayoutOK' /\ LayoutTypes' /\ DOMAIN symbolTable' = DOMAIN symbolTable
<1> DEFINE F == functionDict[f]
<1>1. /\ IsSequence(homes) /\ n \in Nat /\ Len(homes) = n + 1
      /\ Count = n + 2 /\ View(n + 2) = Tables /\ View(n + 2) \in TypeOfTables
      /\ \A k \in 1..(n + 1) : View(k) = homes[k] /\ homes[k] \in TypeOfTables
  BY CallViews
<1>2. /\ Len(homes') = n + 2 /\ homes'[n + 2] = Tables
      /\ \A k \in 1..(n + 1) : homes'[k] = homes[k]
  BY CallViews
<1>3. /\ Len(callStack') = n + 1 /\ callStack'[n + 1] = c /\ IsSequence(callStack')
      /\ \A k \in 1..n : callStack'[k] = callStack[k]
  BY CallViews
<1>4. Count' = n + 3 /\ (\A k \in 1..(n + 2) : View(k)' = View(k)) /\ View(n + 3)' = Tables'
  BY CallViews
<1>5. /\ ViewOK([symbolTable |-> symbolTable, offset |-> offset], symbolTable)
      /\ FrameOK(F, symbolTable) /\ offset \in Int /\ F.size \in Int
      /\ Forward(symbolTable) => F.size >= 0
  BY <1>1 DEF BaseInv, ViewsOK, Tables, LoadedOK, TypeOfTables, FrameOK, Framed
<1>6. /\ DOMAIN symbolTable' = DOMAIN symbolTable
      /\ symbolTable' = [x \in DOMAIN symbolTable |-> symbolTable'[x]]
      /\ \A x \in DOMAIN symbolTable :
           symbolTable'[x] = IF x \in DOMAIN F.place
                             THEN [symbolTable[x] EXCEPT !.addr = offset + F.place[x]] ELSE symbolTable[x]
  BY DEF Calls, Renewed
<1>7. /\ DOMAIN symbolTable' = DOMAIN symbolTable
      /\ \A x \in DOMAIN symbolTable :
           /\ symbolTable'[x] \in Symbol /\ symbolTable'[x].size = symbolTable[x].size
           /\ Forward(symbolTable) => symbolTable'[x] = symbolTable[x] \/ symbolTable'[x].addr >= offset
      /\ ViewOK([symbolTable |-> symbolTable', offset |-> offset + F.size], symbolTable')
  <2> HIDE DEF F
  <2>1. Moved(symbolTable', symbolTable, offset, F)
    BY <1>6 DEF Moved
  <2> QED  BY <1>5, <1>6, <2>1, NewFrame
<1>8. Tables' = [symbolTable |-> symbolTable', offset |-> offset + F.size]
  BY DEF Calls, Tables
<1>9. LayoutTypes'
  <2>1. TypeOfTables' = TypeOfTables
    BY <1>7 DEF TypeOfTables
  <2>2. Tables' \in TypeOfTables'
    <3>1. symbolTable' \in [DOMAIN symbolTable -> Symbol]
      BY <1>6, <1>7
    <3> QED  BY <2>1, <3>1, <1>5, <1>8 DEF TypeOfTables
  <2>3. homes' \in Seq(TypeOfTables')
    BY <2>1, <1>1 DEF Calls, BaseInv, TypeOK
  <2> QED  BY <1>3, <2>2, <2>3 DEF LayoutTypes
<1>10. ViewsOK'
  <2>1. /\ \A v : ViewOK(v, symbolTable) => ViewOK(v, symbolTable')
        /\ Forward(symbolTable') => Forward(symbolTable)
    BY <1>7, OnlyAddresses
  <2>2. ASSUME NEW k \in 1..(n + 3)
        PROVE  ViewOK(View(k)', symbolTable')
    BY <1>1, <1>4, <1>7, <1>8, <2>1 DEF BaseInv, ViewsOK
  <2>3. ASSUME Forward(symbolTable), NEW i \in 1..(n + 2), NEW j \in 1..(n + 2), i < j
        PROVE  Later(View(i), View(j))'
    <3>1. Later(View(i), View(j))
      BY <1>1, <2>3 DEF BaseInv, ViewsOK
    <3> QED  BY <1>4, <1>7, <3>1 DEF Later
  <2>4. ASSUME Forward(symbolTable), NEW i \in 1..(n + 2)
        PROVE  Later(View(i), View(n + 3))'
    <3>1. View(i).offset <= offset /\ View(i).offset \in Int
          /\ \A x \in DOMAIN symbolTable :
               symbolTable[x] = View(i).symbolTable[x] \/ symbolTable[x].addr >= View(i).offset
      <4>1. CASE i = n + 2
        BY <1>1, <4>1, <1>5 DEF Tables
      <4>2. CASE i # n + 2
        <5>1. Later(View(i), View(n + 2)) /\ View(i).offset \in Int
          BY <1>1, <2>4, <4>2 DEF BaseInv, ViewsOK, ViewOK
        <5> QED  BY <1>1, <5>1 DEF Later, Tables
      <4> QED  BY <4>1, <4>2
    <3>2. View(n + 3)'.offset = offset + F.size /\ View(n + 3)'.symbolTable = symbolTable'
      BY <1>4, <1>8
    <3>3. View(i)' = View(i)
      BY <1>4
    <3>4. \A x \in DOMAIN symbolTable : symbolTable'[x] = symbolTable[x] \/ symbolTable'[x].addr >= View(i).offset
      BY <1>5, <1>7, <2>4, <3>1 DEF Symbol
    <3>5. F.size >= 0
      BY <1>5, <2>4
    <3> QED  BY <1>5, <1>7, <3>1, <3>2, <3>3, <3>4, <3>5, SMTT(30) DEF Later
  <2>5. \A k \in 1..(n + 3) : ViewOK(View(k), symbolTable)'
    BY <2>2
  <2>6. Forward(symbolTable)' => \A j \in 1..(n + 3) : \A i \in 1..(j - 1) : Later(View(i), View(j))'
    BY <1>1, <2>1, <2>3, <2>4
  <2> QED  BY <1>4, <2>5, <2>6 DEF ViewsOK
<1>11. CallsOK'
  <2>1. homes' # <<>>
    BY <1>1, <1>2
  <2>2. View(1)' = View(2)'
    BY <1>1, <1>4 DEF BaseInv, CallsOK
  <2>3. ASSUME NEW k \in 1..n
        PROVE  CallOK(k)'
    <3>1. CallOK(k)
      BY <2>3 DEF BaseInv, CallsOK
    <3>2. callStack'[k] = callStack[k] /\ View(k + 1)' = View(k + 1) /\ View(k + 2)' = View(k + 2)
      BY <1>1, <1>3, <1>4
    <3> QED  BY <1>7, <3>1, <3>2 DEF CallOK, InRange, Calls, program
  <2>4. CallOK(n + 1)'
    <3>1. /\ c.ip = ip /\ c.target = Instruction.x /\ c.offset = offset
          /\ c.old = [x \in DOMAIN F.place |-> symbolTable[x]]
      BY DEF Opened, Replaced
    <3>2. callStack'[n + 1] = c /\ View(n + 1 + 1)' = Tables /\ View(n + 1 + 2)' = Tables'
      BY <1>1, <1>3, <1>4
    <3>3. symbolTable = [x \in DOMAIN symbolTable |-> IF x \in DOMAIN c.old THEN c.old[x] ELSE symbolTable'[x]]
      <4>1. symbolTable = [x \in DOMAIN symbolTable |-> symbolTable[x]]
        BY DEF BaseInv, TypeOK, Tables, TypeOfTables
      <4>2. \A x \in DOMAIN symbolTable :
              symbolTable[x] = IF x \in DOMAIN c.old THEN c.old[x] ELSE symbolTable'[x]
        BY <1>6, <3>1
      <4> QED  BY <4>1, <4>2
    <3>4. Tables.offset = offset /\ Tables.symbolTable = symbolTable /\ Tables'.symbolTable = symbolTable'
      BY DEF Tables
    <3>5. InRange(c.ip)'
      BY <3>1 DEF Calls, program, InRange
    <3>6. c.target \in Operand /\ c.target.var \in DOMAIN symbolTable' /\ c.offset = Tables.offset
      BY <1>7, <3>1, <3>4
    <3>7. Tables.symbolTable =
            [x \in DOMAIN symbolTable' |-> IF x \in DOMAIN c.old THEN c.old[x] ELSE Tables'.symbolTable[x]]
      BY <1>7, <3>3, <3>4
    <3> QED  BY <3>2, <3>5, <3>6, <3>7 DEF CallOK
  <2>5. \A k \in 1..(n + 1) : CallOK(k)'
    BY <1>1, <2>3, <2>4
  <2> QED  BY <1>1, <1>2, <1>3, <2>1, <2>2, <2>5 DEF CallsOK
<1>12. LoadedOK'
  <2>1. LoadedOK /\ UNCHANGED program
    BY DEF BaseInv, Calls
  <2> QED  BY <1>7, <2>1, LoadedKept
<1> QED  BY <1>7, <1>9, <1>10, <1>11, <1>12 DEF LayoutOK

\* What a return does to the layout
Gives(top, n) ==
  /\ UNCHANGED program
  /\ symbolTable' = Restored(top.old)
  /\ offset' = top.offset
  /\ callStack' = SubSeq(callStack, 1, n - 1)
  /\ homes' = SubSeq(homes, 1, n)

LEMMA ReturnViews ==
  ASSUME BaseInv, homes # <<>>, NEW n \in Nat \ {0}, n = Len(callStack), Gives(callStack[n], n)
  PROVE  /\ Len(homes) = n + 1 /\ Count = n + 2 /\ View(n + 2) = Tables
         /\ \A k \in 1..(n + 1) : View(k) = homes[k] /\ homes[k] \in TypeOfTables
         /\ Len(homes') = n /\ \A k \in 1..n : homes'[k] = homes[k]
         /\ Len(callStack') = n - 1 /\ IsSequence(callStack')
         /\ \A k \in 1..(n - 1) : callStack'[k] = callStack[k]
         /\ Tables' = homes[n + 1]
         /\ Count' = n + 1 /\ \A k \in 1..(n + 1) : View(k)' = View(k)
<1>1. /\ IsSequence(homes) /\ IsSequence(callStack) /\ Len(homes) = n + 1
      /\ Count = n + 2 /\ View(n + 2) = Tables
      /\ \A k \in 1..(n + 1) : View(k) = homes[k] /\ homes[k] \in TypeOfTables
  BY Views
<1>2. /\ Len(homes') = n /\ IsSequence(homes') /\ \A k \in 1..n : homes'[k] = homes[k]
  BY <1>1, SequenceShrinks DEF Gives
<1>3. /\ Len(callStack') = n - 1 /\ IsSequence(callStack')
      /\ \A k \in 1..(n - 1) : callStack'[k] = callStack[k]
  <2>1. n - 1 \in Nat /\ n - 1 <= Len(callStack) /\ callStack' = SubSeq(callStack, 1, n - 1)
    BY DEF Gives
  <2> QED  BY <1>1, <2>1, SequenceShrinks
<1>4. Tables' = homes[n + 1]
  <2>1. /\ CallOK(n) /\ n + 1 \in 1..(n + 1)
    BY DEF BaseInv, CallsOK
  <2>2. View(n + 1) = homes[n + 1] /\ View(n + 2) = Tables /\ homes[n + 1] \in TypeOfTables
    BY <1>1, <2>1
  <2>3. offset' = homes[n + 1].offset
    BY <2>1, <2>2 DEF CallOK, Gives
  <2>4. symbolTable' = homes[n + 1].symbolTable
    BY <2>1, <2>2 DEF CallOK, Gives, Restored, Tables
  <2> QED  BY <2>2, <2>3, <2>4 DEF TypeOfTables, Tables
<1>5. Count' = n + 1 /\ \A k \in 1..(n + 1) : View(k)' = View(k)
  BY <1>1, <1>2, <1>4 DEF Count, View
<1> QED  BY <1>1, <1>2, <1>3, <1>4, <1>5

LEMMA ReturnKeepsLayout ==
  ASSUME BaseInv, homes # <<>>, NEW n \in Nat \ {0}, n = Len(callStack), Gives(callStack[n], n)
  PROVE  /\ LayoutOK' /\ LayoutTypes' /\ DOMAIN symbolTable' = DOMAIN symbolTable
         /\ Tables' = homes[n + 1]
<1>1. /\ Len(homes) = n + 1 /\ Count = n + 2 /\ View(n + 2) = Tables
      /\ \A k \in 1..(n + 1) : View(k) = homes[k] /\ homes[k] \in TypeOfTables
  BY ReturnViews
<1>2. Len(homes') = n /\ \A k \in 1..n : homes'[k] = homes[k]
  BY ReturnViews
<1>3. /\ Len(callStack') = n - 1 /\ IsSequence(callStack')
      /\ \A k \in 1..(n - 1) : callStack'[k] = callStack[k]
  BY ReturnViews
<1>4. Tables' = homes[n + 1]
  BY ReturnViews
<1>5. /\ DOMAIN symbolTable' = DOMAIN symbolTable
      /\ \A x \in DOMAIN symbolTable : symbolTable[x].size = symbolTable'[x].size
  <2>1. ViewOK(View(n + 1), symbolTable) /\ View(n + 1).symbolTable = symbolTable'
    BY <1>1, <1>4 DEF BaseInv, ViewsOK, Tables
  <2> QED  BY <2>1 DEF ViewOK
<1>6. Count' = n + 1 /\ \A k \in 1..(n + 1) : View(k)' = View(k)
  BY ReturnViews
<1>7. LayoutTypes'
  <2>1. TypeOfTables' = TypeOfTables /\ Tables' \in TypeOfTables
    BY <1>1, <1>4, <1>5 DEF TypeOfTables
  <2>2. homes \in Seq(TypeOfTables) /\ homes' = SubSeq(homes, 1, n)
    BY DEF Gives, BaseInv, TypeOK
  <2>3. homes' \in Seq(TypeOfTables)
    BY <1>1, <2>2
  <2> QED  BY <1>3, <2>1, <2>3 DEF LayoutTypes
<1>8. ViewsOK'
  <2>1. /\ \A v : ViewOK(v, symbolTable) => ViewOK(v, symbolTable')
        /\ Forward(symbolTable') => Forward(symbolTable)
    BY <1>5, OnlyAddresses
  <2>2. ASSUME NEW k \in 1..(n + 1)
        PROVE  ViewOK(View(k)', symbolTable')
    BY <1>1, <1>6, <2>1 DEF BaseInv, ViewsOK
  <2>3. ASSUME Forward(symbolTable), NEW i \in 1..(n + 1), NEW j \in 1..(n + 1), i < j
        PROVE  Later(View(i), View(j))'
    <3>1. Later(View(i), View(j))
      BY <1>1, <2>3 DEF BaseInv, ViewsOK
    <3> QED  BY <1>5, <1>6, <3>1 DEF Later
  <2>4. \A k \in 1..(n + 1) : ViewOK(View(k), symbolTable)'
    BY <2>2
  <2>5. Forward(symbolTable)' => \A j \in 1..(n + 1) : \A i \in 1..(j - 1) : Later(View(i), View(j))'
    BY <2>1, <2>3
  <2> QED  BY <1>6, <2>4, <2>5 DEF ViewsOK
<1>9. CallsOK'
  <2>1. homes' # <<>>
    BY <1>2
  <2>2. View(1)' = View(2)'
    BY <1>6 DEF BaseInv, CallsOK
  <2>3. ASSUME NEW k \in 1..(n - 1)
        PROVE  CallOK(k)'
    <3>1. CallOK(k)
      BY <2>3 DEF BaseInv, CallsOK
    <3>2. callStack'[k] = callStack[k] /\ View(k + 1)' = View(k + 1) /\ View(k + 2)' = View(k + 2)
      BY <1>3, <1>6
    <3> QED  BY <1>5, <3>1, <3>2 DEF CallOK, InRange, Gives, program
  <2> QED  BY <1>2, <1>3, <2>1, <2>2, <2>3 DEF CallsOK
<1>10. LoadedOK'
  <2>1. LoadedOK /\ UNCHANGED program
    BY DEF BaseInv, Gives
  <2> QED  BY <1>5, <2>1, LoadedKept
<1> QED  BY <1>4, <1>5, <1>7, <1>8, <1>9, <1>10 DEF LayoutOK

\* An instruction
LEMMA ExecuteKeeps ==
  ASSUME BaseInv, Execute
  PROVE  BaseInv'
<1>1. /\ TypeOK /\ LayoutOK /\ SlotsOK /\ InRange(ip) /\ slot \in {"run", "step"} /\ homes # <<>>
      /\ UNCHANGED <<program, version, window>>
  BY DEF BaseInv, LayoutOK, SlotsOK, Execute
<1>2. /\ Instruction \in Line /\ LineOK(Instruction) /\ Instruction.x \in Operand
  BY <1>1, InstructionOK DEF Line
<1>3. SUFFICES /\ LayoutOK' /\ LayoutTypes' /\ DOMAIN symbolTable' = DOMAIN symbolTable /\ homes' # <<>>
               /\ ip' \in 0..(Len(file) - 1)
               /\ result' \in {"next", "finish", "memory", "raise"}
               /\ mem' \in [Memory -> Int] /\ argumentStack' \in Seq(Int) /\ console' \in Seq(Int)
  <2>1. TypeOK'
    <3>1. /\ alive' \in BOOLEAN /\ enabled' \in BOOLEAN /\ slot' \in {"none", "ask", "load", "run", "step"}
      BY <1>1 DEF TypeOK, window
    <3>2. UNCHANGED <<program, version>>
      BY <1>1
    <3>3. ip' \in -1..Len(file)
      BY <1>1, <1>3 DEF TypeOK
    <3> QED  BY <1>1, <1>3, <3>1, <3>2, <3>3, TypeKept
  <2>2. SlotsOK'
    BY <1>1, <1>3 DEF SlotsOK, window, program, InRange
  <2> QED  BY <1>3, <2>1, <2>2 DEF BaseInv, LayoutOK
<1>4. CASE Worked
  <2>1. UNCHANGED Layout
    BY <1>1, <1>4 DEF Worked, Layout, program, tables
  <2>2. LayoutOK' /\ LayoutTypes' /\ DOMAIN symbolTable' = DOMAIN symbolTable
    BY <1>1, <2>1, LayoutKept, LayoutTypesKept
  <2> QED  BY <1>1, <1>4, <2>2 DEF Worked
<1>5. CASE Simple
  BY <1>1, <1>4, <1>5, SimpleWorked
<1>6. CASE Call
  <2>1. CASE Instruction.name \notin DOMAIN functionDict
    BY <1>1, <1>4, <1>6, <2>1, FailsWorked DEF Call
  <2>2. CASE Instruction.name \in DOMAIN functionDict
    <3>1. PICK f : f = Instruction.name
      OBVIOUS
    <3>2. /\ Calls(f) /\ ip' = labelTable[f] /\ homes' = Append(homes, Tables) /\ result' = "next"
          /\ UNCHANGED <<mem, argumentStack, console>>
      BY <1>1, <1>6, <2>2, <3>1 DEF Call, Calls, Opened
    <3>3. Instruction.x.var \in DOMAIN symbolTable
      BY <1>2, <1>6 DEF Call, At, LineOK, Known
    <3>4. LayoutOK' /\ LayoutTypes' /\ DOMAIN symbolTable' = DOMAIN symbolTable
      BY <1>1, <1>2, <2>2, <3>1, <3>2, <3>3, CallKeepsLayout
    <3>5. homes' # <<>>
      <4>1. IsSequence(homes) /\ Len(homes) \in Nat
        BY <1>1, Views
      <4> QED  BY <3>2, <4>1, SequenceGrows
    <3>6. ip' \in 0..(Len(file) - 1)
      BY <1>1, <2>2, <3>1, <3>2 DEF LayoutOK, LoadedOK, TypeOK, InRange
    <3> QED  BY <1>1, <3>2, <3>4, <3>5, <3>6 DEF TypeOK
  <2> QED  BY <2>1, <2>2
<1>7. CASE Return
  <2>1. PICK n : n = Len(callStack)
    OBVIOUS
  <2>2. n \in Nat /\ Len(homes) = n + 1
    BY <1>1, <2>1, Views
  <2>3. CASE n = 0
    BY <1>1, <1>4, <1>7, <2>1, <2>3, FailsWorked DEF Return
  <2>4. CASE n # 0 /\ ~Readable(Instruction.x)
    BY <1>1, <1>4, <1>7, <2>1, <2>4, FailsWorked DEF Return
  <2>5. CASE n # 0 /\ Readable(Instruction.x)
    <3>1. /\ Gives(callStack[n], n) /\ ip' = callStack[n].ip
          /\ UNCHANGED <<argumentStack, console>>
      BY <1>1, <1>7, <2>1, <2>5 DEF Return, Gives
    <3>2. LayoutOK' /\ LayoutTypes' /\ DOMAIN symbolTable' = DOMAIN symbolTable
      BY <1>1, <2>1, <2>2, <2>5, <3>1, ReturnKeepsLayout
    <3>3. homes' # <<>>
      <4>1. homes' = SubSeq(homes, 1, n) /\ IsSequence(homes)
        BY <1>1, <3>1, Views DEF Gives
      <4>2. Len(homes') = n
        BY <2>2, <4>1, SequenceShrinks
      <4> QED  BY <2>5, <4>2
    <3>4. ip' \in 0..(Len(file) - 1)
      <4>1. CallOK(n)
        BY <1>1, <2>1, <2>2, <2>5 DEF LayoutOK, CallsOK
      <4> QED  BY <3>1, <4>1 DEF CallOK, InRange
    <3>5. result' \in {"next", "memory", "raise"} /\ mem' \in [Memory -> Int]
      <4>1. GetValue(Instruction.x) \in Int
        BY <1>1, <1>2, <1>7, <2>5, ValueType DEF Return, At, LineOK
      <4> QED  BY <1>1, <1>7, <2>1, <2>5, <4>1 DEF Return, TypeOK
    <3> QED  BY <1>1, <3>1, <3>2, <3>3, <3>4, <3>5 DEF TypeOK
  <2> QED  BY <2>3, <2>4, <2>5
<1> QED  BY <1>1, <1>5, <1>6, <1>7 DEF Execute, ExecuteCode, Simple

-----------------------------------------------------------------------------
(* The window                                                               *)

\* Handlers that end, with or without an exception
LEMMA HandlerEnds ==
  ASSUME TypeOK, Escapes \/ Returns
  PROVE  slot' = "none" /\ result' = "none" /\ alive' \in BOOLEAN /\ UNCHANGED version
BY DEF TypeOK, Escapes, Returns

\* Steps that leave layout and contents alone
LEMMA WindowKeeps ==
  ASSUME BaseInv, UNCHANGED <<program, tables, mem, callStack, argumentStack, console, homes, version, enabled>>,
         ip' \in -1..Len(file), result' \in {"none", "next", "finish", "memory", "pc", "raise"},
         alive' \in BOOLEAN, slot' \in {"none", "ask", "load", "run", "step"},
         SlotsOK'
  PROVE  BaseInv'
<1>1. TypeOK /\ LayoutOK
  BY DEF BaseInv, LayoutOK
<1>2. UNCHANGED Layout
  BY DEF Layout, program, tables
<1>3. LayoutOK' /\ LayoutTypes' /\ DOMAIN symbolTable' = DOMAIN symbolTable
  BY <1>1, <1>2, LayoutKept, LayoutTypesKept
<1>4. /\ mem' \in [Memory -> Int] /\ argumentStack' \in Seq(Int) /\ console' \in Seq(Int)
      /\ enabled' \in BOOLEAN /\ UNCHANGED <<program, version>>
  BY <1>1 DEF TypeOK
<1>5. TypeOK'
  BY <1>1, <1>3, <1>4, TypeKept
<1> QED  BY <1>3, <1>5 DEF BaseInv, LayoutOK

LEMMA NoInstruction ==
  ASSUME BaseInv,
         \/ Ask \/ CannotAsk \/ Answer \/ StepOn \/ Raised \/ RunOn \/ RunEnds \/ StepEnds \/ LoadWord
  PROVE  BaseInv'
<1>1. TypeOK /\ SlotsOK
  BY DEF BaseInv
<1>2. Escapes \/ Returns => slot' = "none" /\ result' = "none" /\ alive' \in BOOLEAN /\ UNCHANGED version
  BY <1>1, HandlerEnds
<1>3. SUFFICES /\ UNCHANGED <<program, tables, mem, callStack, argumentStack, console, homes, version, enabled>>
               /\ ip' \in -1..Len(file)
               /\ result' \in {"none", "next", "finish", "memory", "pc", "raise"}
               /\ alive' \in BOOLEAN /\ slot' \in {"none", "ask", "load", "run", "step"}
               /\ enabled' \/ slot' \in {"run", "step"} => enabled /\ slot' # "load"
               /\ slot' = "load" => slot = "load" /\ ip' = -1
               /\ slot' \in {"run", "step"} => ip' # -1
               /\ result' # "none" => slot' \in {"run", "step"}
               /\ result' = "next" => InRange(ip')
  <2>1. SlotsOK'
    BY <1>1, <1>3 DEF SlotsOK, program, InRange
  <2> QED  BY <1>3, <2>1, WindowKeeps
<1>4. CASE Ask
  BY <1>1, <1>4 DEF Ask, Chooses, machine, TypeOK, SlotsOK
<1>5. CASE CannotAsk
  BY <1>1, <1>2, <1>5 DEF CannotAsk, Chooses, TypeOK, SlotsOK
<1>6. CASE Answer
  BY <1>1, <1>6 DEF Answer, TypeOK, SlotsOK
<1>7. CASE StepOn
  BY <1>1, <1>7 DEF StepOn, Chooses, TypeOK, SlotsOK, InRange
<1>8. CASE Raised
  BY <1>1, <1>2, <1>8 DEF Raised, TypeOK, SlotsOK
<1>9. CASE RunOn
  BY <1>1, <1>9 DEF RunOn, window, TypeOK, SlotsOK, InRange
<1>10. CASE RunEnds
  BY <1>1, <1>2, <1>10 DEF RunEnds, TypeOK, SlotsOK
<1>11. CASE StepEnds
  BY <1>1, <1>2, <1>11 DEF StepEnds, TypeOK, SlotsOK
<1>12. CASE LoadWord
  BY <1>1, <1>2, <1>12 DEF LoadWord, TypeOK, SlotsOK
<1> QED  BY <1>4, <1>5, <1>6, <1>7, <1>8, <1>9, <1>10, <1>11, <1>12

\* After a step, no call is open, and the tables are at home or no program is loaded.
LEMMA AtHome ==
  ASSUME ViewOK(Tables', symbolTable'), Tables' \in TypeOfTables', callStack' = <<>>,
         homes' = <<>> \/ homes' = <<Tables'>>
  PROVE  ViewsOK' /\ CallsOK' /\ LayoutTypes'
<1>1. IsSequence(callStack')
  BY DEF IsSequence
<1>2. <<>> \in Seq(TypeOfTables') /\ <<Tables'>> \in Seq(TypeOfTables')
  OBVIOUS
<1>3. homes' \in Seq(TypeOfTables')
  BY <1>2
<1>4. LayoutTypes'
  BY <1>1, <1>3 DEF LayoutTypes
<1>5. CASE homes' = <<>>
  <2>1. Count' = 1 /\ View(1)' = Tables'
    BY <1>5 DEF Count, View
  <2> QED  BY <1>4, <1>5, <2>1 DEF ViewsOK, CallsOK
<1>6. CASE homes' = <<Tables'>>
  <2>1. Count' = 2 /\ View(1)' = Tables' /\ View(2)' = Tables'
    BY <1>6 DEF Count, View
  <2>2. Later(Tables, Tables)'
    BY DEF Later, TypeOfTables, Tables
  <2>3. Later(View(1), View(2))'
    BY <2>1, <2>2 DEF Later
  <2>4. ViewsOK'
    BY <2>1, <2>3 DEF ViewsOK
  <2>5. CallsOK'
    BY <1>6, <2>1 DEF CallsOK
  <2> QED  BY <1>4, <2>4, <2>5
<1> QED  BY <1>5, <1>6

\* stop()
LEMMA StoppedKeeps ==
  ASSUME BaseInv, homes # <<>>, Stopped, UNCHANGED <<program, tables>>
  PROVE  /\ LayoutOK' /\ LayoutTypes' /\ DOMAIN symbolTable' = DOMAIN symbolTable /\ homes' # <<>>
         /\ mem' \in [Memory -> Int] /\ argumentStack' \in Seq(Int)
<1>1. mem' \in [Memory -> Int] /\ argumentStack' \in Seq(Int)
  BY DEF Stopped, Zeros
<1>2. CASE callStack = <<>>
  <2>1. UNCHANGED Layout
    BY <1>2 DEF Stopped, Layout, program, tables
  <2> QED  BY <1>1, <2>1, LayoutKept, LayoutTypesKept DEF BaseInv, LayoutOK, Layout
<1>3. CASE callStack # <<>>
  <2>1. homes' = <<Tables>> /\ callStack' = <<>> /\ Tables' = Tables /\ UNCHANGED <<symbolTable, program>>
    BY <1>3 DEF Stopped, Tables, tables
  <2>2. ViewOK(Tables, symbolTable) /\ Tables \in TypeOfTables
    <3>1. TypeOK /\ ViewsOK
      BY DEF BaseInv
    <3>2. View(Count) = Tables /\ Count = Len(callStack) + 2 /\ Len(callStack) \in Nat
      BY Views, Zenon
    <3>3. ViewOK(View(Count), symbolTable)
      BY <3>1, <3>2 DEF ViewsOK
    <3> QED  BY <3>1, <3>2, <3>3 DEF TypeOK
  <2>3. TypeOfTables' = TypeOfTables
    BY <2>1 DEF TypeOfTables
  <2>4. ViewsOK' /\ CallsOK' /\ LayoutTypes'
    BY <2>1, <2>2, <2>3, AtHome
  <2>5. LoadedOK'
    BY <2>1, LoadedKept DEF BaseInv
  <2> QED  BY <1>1, <2>1, <2>4, <2>5 DEF LayoutOK
<1> QED  BY <1>2, <1>3

\* The steps that begin with stop()
LEMMA StopKeeps ==
  ASSUME BaseInv, CannotStop \/ Stop \/ Run \/ StepFirst
  PROVE  BaseInv'
<1>1. /\ TypeOK /\ SlotsOK /\ LayoutOK /\ enabled /\ slot = "none" /\ homes # <<>>
      /\ UNCHANGED <<program, tables, version, enabled>>
  BY DEF BaseInv, LayoutOK, SlotsOK, CannotStop, Stop, Run, StepFirst, Chooses, Escapes, window
<1>2. CASE Stopped
  <2>1. /\ LayoutOK' /\ LayoutTypes' /\ DOMAIN symbolTable' = DOMAIN symbolTable /\ homes' # <<>>
        /\ mem' \in [Memory -> Int] /\ argumentStack' \in Seq(Int)
    BY <1>1, <1>2, StoppedKeeps
  <2>2. /\ ip' \in {-1, entranceIP, ip} /\ alive' \in BOOLEAN /\ result' = "none"
        /\ slot' \in {"none", "run", "step"}
        /\ slot' # "none" => ip' = entranceIP
        /\ console' \in Seq(Int)
    <3>1. CASE CannotStop
      BY <1>1, <3>1, HandlerEnds DEF CannotStop, StopItem, SlotsOK, Stopped, TypeOK
    <3>2. CASE Stop \/ Run \/ StepFirst
      <4>1. console' = <<>>
        BY <3>2 DEF Stop, Run, StepFirst
      <4>2. console' \in Seq(Int)
        BY <4>1
      <4> QED  BY <1>1, <3>2, <4>2 DEF Stop, Run, StepFirst, window, TypeOK, SlotsOK
    <3> QED  BY <3>1, <3>2
  <2>3. ip' \in -1..Len(file)
    BY <1>1, <2>2 DEF TypeOK
  <2>4. TypeOK'
    <3>1. UNCHANGED <<program, version>> /\ enabled' \in BOOLEAN
      BY <1>1 DEF TypeOK
    <3> QED  BY <1>1, <2>1, <2>2, <2>3, <3>1, TypeKept
  <2>5. SlotsOK'
    BY <1>1, <2>1, <2>2 DEF SlotsOK, program, TypeOK
  <2> QED  BY <2>1, <2>4, <2>5 DEF BaseInv, LayoutOK
<1>3. CASE ~Stopped
  <2>1. /\ UNCHANGED <<program, tables, ip, mem, callStack, argumentStack, console, homes, version, enabled>>
        /\ Escapes
    BY <1>3 DEF CannotStop, Stop, Run, StepFirst, Escapes
  <2>2. slot' = "none" /\ result' = "none" /\ alive' \in BOOLEAN
    BY <1>1, <2>1, HandlerEnds
  <2>3. SlotsOK'
    BY <1>1, <2>1, <2>2 DEF SlotsOK, program
  <2>4. ip' \in -1..Len(file)
    BY <1>1, <2>1 DEF TypeOK
  <2> QED  BY <2>1, <2>2, <2>3, <2>4, WindowKeeps
<1> QED  BY <1>2, <1>3

-----------------------------------------------------------------------------
(* Loading                                                                  *)

\* The tables that sanityCheck builds
Good(t) ==
  /\ t.symbolTable \in [DOMAIN t.symbolTable -> Symbol] /\ t.offset \in Int
  /\ ViewOK([symbolTable |-> t.symbolTable, offset |-> t.offset], t.symbolTable)
  /\ currentFunction \in DOMAIN t.functionDict
  /\ \A f \in DOMAIN t.functionDict : FrameOK(t.functionDict[f], t.symbolTable)

Knows(symbols, o) == o.mode = "imm" \/ o.var \in DOMAIN symbols

\* A variable is added to a frame.
LEMMA FrameGrows ==
  ASSUME NEW symbols, NEW new, NEW x, x \notin DOMAIN symbols, NEW size \in Int,
         \A y \in DOMAIN symbols : y \in DOMAIN new /\ new[y] = symbols[y] /\ symbols[y].size \in Int,
         x \in DOMAIN new, new[x].size = size,
         NEW f, FrameOK(f, symbols)
  PROVE  /\ FrameOK(f, new)
         /\ FrameOK([place |-> With(f.place, x, f.size), size |-> f.size + size], new)
<1>1. Forward(new) => Forward(symbols) /\ size >= 0
  BY DEF Forward
<1>2. FrameOK(f, new)
  <2>1. Framed(f, symbols) => Framed(f, new)
    BY DEF FrameOK, Framed
  <2> QED  BY <1>1, <2>1 DEF FrameOK
<1>3. PICK g : g = [place |-> With(f.place, x, f.size), size |-> f.size + size]
  OBVIOUS
<1>4. /\ f.size \in Int /\ g.size = f.size + size /\ DOMAIN g.place = DOMAIN f.place \cup {x}
      /\ x \notin DOMAIN f.place /\ g.place[x] = f.size
      /\ \A y \in DOMAIN f.place : g.place[y] = f.place[y] /\ y # x
  BY <1>3 DEF With, FrameOK
<1>5. \A y \in DOMAIN g.place :
        /\ y \in DOMAIN new /\ g.place[y] \in Int /\ new[y].size \in Int
        /\ y # x => y \in DOMAIN f.place
  BY <1>4 DEF FrameOK
<1>6. ASSUME Forward(new)
      PROVE  Framed(g, new)
  <2>1. Framed(f, new) /\ f.size >= 0 /\ size >= 0
    BY <1>1, <1>2, <1>6 DEF FrameOK, Framed
  <2>2. \A y \in DOMAIN g.place :
          /\ g.place[y] >= 0 /\ g.place[y] + new[y].size <= g.size
          /\ y # x => g.place[y] + new[y].size <= f.size
    BY <1>4, <1>5, <2>1 DEF Framed
  <2>3. ASSUME NEW y \in DOMAIN g.place, NEW z \in DOMAIN g.place, y # z
        PROVE  g.place[y] + new[y].size <= g.place[z] \/ g.place[z] + new[z].size <= g.place[y]
    <3>1. CASE y = x
      BY <1>4, <2>2, <2>3, <3>1
    <3>2. CASE z = x
      BY <1>4, <2>2, <2>3, <3>2
    <3>3. CASE y # x /\ z # x
      BY <1>4, <1>5, <2>1, <2>3, <3>3 DEF Framed
    <3> QED  BY <3>1, <3>2, <3>3
  <2>4. g.size >= 0
    BY <1>4, <2>1
  <2> QED  BY <2>2, <2>3, <2>4 DEF Framed
<1>7. g.size \in Int
  BY <1>4
<1>8. FrameOK(g, new)
  BY <1>5, <1>6, <1>7 DEF FrameOK
<1> QED  BY <1>2, <1>3, <1>8

\* A variable gets an address at the offset, or none.
LEMMA ViewGrows ==
  ASSUME NEW symbols, NEW new, NEW x, x \notin DOMAIN symbols, NEW off \in Int, NEW top \in Int,
         ViewOK([symbolTable |-> symbols, offset |-> off], symbols),
         DOMAIN new = DOMAIN symbols \cup {x}, \A y \in DOMAIN symbols : new[y] = symbols[y],
         new[x] \in Symbol,
         (new[x].addr < 0 /\ top = off) \/ (new[x].addr = off /\ top = off + new[x].size)
  PROVE  ViewOK([symbolTable |-> new, offset |-> top], new)
<1>1. \A y \in DOMAIN symbols : symbols[y] \in Symbol
  BY DEF ViewOK
<1>2. \A y \in DOMAIN new : new[y] \in Symbol
  BY <1>1
<1>3. ASSUME Forward(new)
      PROVE  Stacked([symbolTable |-> new, offset |-> top])
  <2>1. Forward(symbols) /\ new[x].size >= 0
    BY <1>3 DEF Forward
  <2>2. /\ off >= 0
        /\ \A y \in DOMAIN symbols :
             /\ symbols[y].addr >= 0 => symbols[y].addr + symbols[y].size <= off
             /\ \A z \in DOMAIN symbols :
                  y # z /\ symbols[y].addr >= 0 /\ symbols[z].addr >= 0 => Apart(symbols[y], symbols[z])
    BY <2>1 DEF ViewOK, Stacked
  <2>3. top >= off
    BY <2>1 DEF Symbol
  <2>4. ASSUME NEW y \in DOMAIN new
        PROVE  new[y].addr >= 0 => new[y].addr + new[y].size <= top
    BY <1>1, <2>2, <2>3 DEF Symbol
  <2>5. ASSUME NEW y \in DOMAIN new, NEW z \in DOMAIN new, y # z, new[y].addr >= 0, new[z].addr >= 0
        PROVE  Apart(new[y], new[z])
    <3>1. CASE y = x
      <4>1. z \in DOMAIN symbols /\ new[z] = symbols[z]
        BY <2>5, <3>1
      <4> QED  BY <1>1, <2>2, <2>5, <3>1, <4>1 DEF Apart, Symbol
    <3>2. CASE z = x
      <4>1. y \in DOMAIN symbols /\ new[y] = symbols[y]
        BY <2>5, <3>2
      <4> QED  BY <1>1, <2>2, <2>5, <3>2, <4>1 DEF Apart, Symbol
    <3>3. CASE y # x /\ z # x
      BY <2>2, <2>5, <3>3
    <3> QED  BY <3>1, <3>2, <3>3
  <2>6. top >= 0
    BY <2>2, <2>3
  <2> QED  BY <2>4, <2>5, <2>6 DEF Stacked
<1> QED  BY <1>2, <1>3 DEF ViewOK

LEMMA InsertGood ==
  ASSUME NEW t, Good(t), NEW o \in Operand, NEW size \in Int, NEW u, u = Insert(t, o, size)
  PROVE  /\ Good(u) /\ Knows(u.symbolTable, o)
         /\ DOMAIN t.symbolTable \subseteq DOMAIN u.symbolTable
         /\ DOMAIN u.functionDict = DOMAIN t.functionDict
<1>1. CASE o.mode = "imm" \/ o.var \in DOMAIN t.symbolTable
  BY <1>1 DEF Insert, Knows
<1>2. CASE ~(o.mode = "imm" \/ o.var \in DOMAIN t.symbolTable)
  <2> DEFINE x == o.var
             main == currentFunction = "main"
             s == [addr |-> IF main THEN t.offset ELSE -1, size |-> size]
             F == t.functionDict[currentFunction]
             G == [place |-> With(F.place, x, F.size), size |-> F.size + size]
  <2>1. /\ u.symbolTable = With(t.symbolTable, x, s)
        /\ u.functionDict = [t.functionDict EXCEPT ![currentFunction] = G]
        /\ u.offset = IF main THEN t.offset + size ELSE t.offset
    BY <1>2 DEF Insert
  <2>2. /\ DOMAIN u.symbolTable = DOMAIN t.symbolTable \cup {x} /\ x \notin DOMAIN t.symbolTable
        /\ u.symbolTable[x] = s /\ s \in Symbol /\ s.size = size
        /\ \A y \in DOMAIN t.symbolTable : u.symbolTable[y] = t.symbolTable[y] /\ t.symbolTable[y].size \in Int
        /\ t.offset \in Int /\ u.offset \in Int
    BY <1>2, <2>1 DEF With, Good, Symbol
  <2>3. \/ u.symbolTable[x].addr < 0 /\ u.offset = t.offset
        \/ u.symbolTable[x].addr = t.offset /\ u.offset = t.offset + u.symbolTable[x].size
    BY <2>1, <2>2
  <2>4. u.symbolTable \in [DOMAIN u.symbolTable -> Symbol]
    <3>1. u.symbolTable = [y \in DOMAIN u.symbolTable |-> u.symbolTable[y]]
      BY <2>1 DEF With
    <3>2. \A y \in DOMAIN u.symbolTable : u.symbolTable[y] \in Symbol
      BY <2>2 DEF Good
    <3> QED  BY <3>1, <3>2
  <2> HIDE DEF s
  <2>5. ViewOK([symbolTable |-> u.symbolTable, offset |-> u.offset], u.symbolTable)
    <3>1. ViewOK([symbolTable |-> t.symbolTable, offset |-> t.offset], t.symbolTable)
      BY DEF Good
    <3> HIDE DEF x
    <3> QED  BY <2>2, <2>3, <3>1, ViewGrows, SMTT(30)
  <2>6. ASSUME NEW f \in DOMAIN t.functionDict
        PROVE  FrameOK(u.functionDict[f], u.symbolTable)
    <3>1. FrameOK(t.functionDict[f], t.symbolTable)
      BY DEF Good
    <3>2. /\ FrameOK(t.functionDict[f], u.symbolTable)
          /\ FrameOK([place |-> With(t.functionDict[f].place, x, t.functionDict[f].size),
                      size |-> t.functionDict[f].size + size], u.symbolTable)
      <4> HIDE DEF x
      <4> QED  BY <2>2, <3>1, FrameGrows
    <3> QED  BY <2>1, <3>2
  <2>7. DOMAIN u.functionDict = DOMAIN t.functionDict
    BY <2>1
  <2> QED  BY <2>2, <2>4, <2>5, <2>6, <2>7 DEF Good, Knows
<1> QED  BY <1>1, <1>2

LEMMA LoadingGood ==
  ASSUME BaseInv, slot = "load", NEW line, ~Rejected(line), line.op \notin {"FUNCTION", "LABEL"},
         NEW t0, t0 = [symbolTable |-> symbolTable, functionDict |-> functionDict, offset |-> offset]
  PROVE  Good(t0)
<1>1. Tables \in TypeOfTables /\ LoadedOK /\ homes = <<>>
  BY DEF BaseInv, TypeOK, SlotsOK
<1>2. ViewOK([symbolTable |-> symbolTable, offset |-> offset], symbolTable)
  <2>1. Count = 1 /\ View(1) = Tables
    BY <1>1 DEF Count, View
  <2>2. ViewOK(Tables, symbolTable)
    BY <2>1 DEF BaseInv, ViewsOK
  <2> QED  BY <2>2 DEF Tables
<1>3. currentFunction \in DOMAIN functionDict
  BY <1>1 DEF LoadedOK, Rejected
<1>4. symbolTable \in [DOMAIN symbolTable -> Symbol] /\ offset \in Int
  BY <1>1 DEF Tables, TypeOfTables
<1>5. \A f \in DOMAIN functionDict : FrameOK(functionDict[f], symbolTable)
  BY <1>1 DEF LoadedOK
<1>6. t0.symbolTable = symbolTable /\ t0.functionDict = functionDict /\ t0.offset = offset
  OBVIOUS
<1> QED  BY <1>2, <1>3, <1>4, <1>5, <1>6 DEF Good

\* An instruction and its operands
LEMMA InstructionAccepted ==
  ASSUME BaseInv, slot = "load", NEW line \in Line, AcceptInstruction(line), ~Rejected(line),
         line.op \notin {"FUNCTION", "LABEL"}
  PROVE  /\ Good([symbolTable |-> symbolTable', functionDict |-> functionDict', offset |-> offset'])
         /\ DOMAIN symbolTable \subseteq DOMAIN symbolTable' /\ DOMAIN functionDict' = DOMAIN functionDict
         /\ LineOK(line)'
<1>1. PICK t0 : t0 = [symbolTable |-> symbolTable, functionDict |-> functionDict, offset |-> offset]
  OBVIOUS
<1>2. PICK t1 : t1 = Insert(t0, line.x, SizeOf(line))
  OBVIOUS
<1>3. PICK t2 : t2 = Insert(t1, line.y, 4)
  OBVIOUS
<1>4. PICK t3 : t3 = Insert(t2, line.z, 4)
  OBVIOUS
<1>5. Good(t0)
  BY <1>1, LoadingGood
<1>6. line.x \in Operand /\ line.y \in Operand /\ line.z \in Operand /\ SizeOf(line) \in Int
  BY DEF Line, SizeOf
<1>7. /\ Good(t1) /\ Knows(t1.symbolTable, line.x)
      /\ DOMAIN t0.symbolTable \subseteq DOMAIN t1.symbolTable
      /\ DOMAIN t1.functionDict = DOMAIN t0.functionDict
  <2>1. Good(t0) /\ line.x \in Operand /\ SizeOf(line) \in Int /\ t1 = Insert(t0, line.x, SizeOf(line))
    BY <1>2, <1>5, <1>6
  <2> QED  BY <2>1, InsertGood
<1>8. /\ Good(t2) /\ Knows(t2.symbolTable, line.y)
      /\ DOMAIN t1.symbolTable \subseteq DOMAIN t2.symbolTable
      /\ DOMAIN t2.functionDict = DOMAIN t1.functionDict
  <2>1. Good(t1) /\ line.y \in Operand /\ 4 \in Int /\ t2 = Insert(t1, line.y, 4)
    BY <1>3, <1>6, <1>7
  <2> QED  BY <2>1, InsertGood
<1>9. /\ Good(t3) /\ Knows(t3.symbolTable, line.z)
      /\ DOMAIN t2.symbolTable \subseteq DOMAIN t3.symbolTable
      /\ DOMAIN t3.functionDict = DOMAIN t2.functionDict
  <2>1. Good(t2) /\ line.z \in Operand /\ 4 \in Int /\ t3 = Insert(t2, line.z, 4)
    BY <1>4, <1>6, <1>8
  <2> QED  BY <2>1, InsertGood
<1>10. symbolTable' = t3.symbolTable /\ functionDict' = t3.functionDict /\ offset' = t3.offset
  BY <1>1, <1>2, <1>3, <1>4 DEF AcceptInstruction, Mentioned
<1>11. Good([symbolTable |-> symbolTable', functionDict |-> functionDict', offset |-> offset'])
  BY <1>9, <1>10 DEF Good
<1>12. DOMAIN symbolTable \subseteq DOMAIN symbolTable' /\ DOMAIN functionDict' = DOMAIN functionDict
  BY <1>1, <1>7, <1>8, <1>9, <1>10
<1>13. LineOK(line)'
  <2>1. Known(line.x)' /\ Known(line.y)' /\ Known(line.z)'
    BY <1>7, <1>8, <1>9, <1>10 DEF Known, Knows
  <2>2. line.op = "ARITH" => line.sym \in Arithops
    BY DEF Rejected
  <2>3. line.op \in {"READ", "PARAM", "MOV", "ARITH", "CALL"} => line.x.mode \in {"var", "deref"}
    BY <1>6 DEF Rejected, Operand
  <2> QED  BY <2>1, <2>2, <2>3 DEF LineOK
<1> QED  BY <1>11, <1>12, <1>13

LEMMA LoadLineKeeps ==
  ASSUME BaseInv, LoadLine
  PROVE  BaseInv'
<1>1. /\ TypeOK /\ SlotsOK /\ LoadedOK /\ homes = <<>> /\ callStack = <<>> /\ slot = "load"
      /\ lineNo' = lineNo + 1 /\ lineNo \in 0..(Len(file) - 1)
      /\ Len(file) \in Nat /\ UNCHANGED <<file, machine, version, window>>
  BY DEF BaseInv, SlotsOK, CallsOK, LoadLine, Accept, TypeOK
<1>2. PICK line : line = file[lineNo + 1]
  OBVIOUS
<1>3. line \in Line /\ ~Rejected(line)
  BY <1>1, <1>2 DEF TypeOK, LoadLine, Accept
<1>4. SUFFICES /\ Tables' \in TypeOfTables' /\ ViewOK(Tables', symbolTable')
               /\ DOMAIN symbolTable \subseteq DOMAIN symbolTable'
               /\ entranceIP' \in -1..(Len(file) - 1)
               /\ \A l \in DOMAIN labelTable' : labelTable'[l] \in 0..(Len(file) - 1)
               /\ currentFunction' \in DOMAIN functionDict' \cup {None} /\ None \notin DOMAIN functionDict'
               /\ \A f \in DOMAIN functionDict' : f \in DOMAIN labelTable' /\ FrameOK(functionDict'[f], symbolTable')
               /\ LineOK(line)'
  <2>1. UNCHANGED <<homes, callStack, ip, result, mem, argumentStack, console, alive, slot, enabled, version, file>>
    BY <1>1 DEF machine, window
  <2>2. ViewsOK' /\ CallsOK' /\ LayoutTypes'
    <3>1. homes' = <<>> /\ callStack' = <<>>
      BY <1>1, <2>1
    <3> QED  BY <1>4, <3>1, AtHome
  <2>3. LoadedOK'
    <3>1. ASSUME NEW i \in 1..(lineNo + 1)
          PROVE  LineOK(file[i])'
      <4>1. CASE i = lineNo + 1
        BY <1>1, <1>2, <1>4, <4>1
      <4>2. CASE i # lineNo + 1
        <5>1. LineOK(file[i]) /\ file'[i] = file[i]
          BY <1>1, <4>2 DEF LoadedOK
        <5> QED  BY <1>4, <5>1 DEF LineOK, Known
      <4> QED  BY <4>1, <4>2
    <3>2. (\A i \in 1..lineNo : LineOK(file[i]))'
      BY <1>1, <3>1
    <3> QED  BY <1>4, <3>2 DEF LoadedOK
  <2>4. SlotsOK'
    BY <1>1, <2>1 DEF SlotsOK, InRange
  <2>5. TypeOK'
    <3>1. /\ file' \in Seq(Line) /\ lineNo' \in 0..Len(file') /\ entranceIP' \in -1..(Len(file') - 1)
          /\ (\A l \in DOMAIN labelTable : InRange(labelTable[l]))'
      BY <1>1, <1>4, <2>1 DEF TypeOK, InRange
    <3>2. (\A f \in DOMAIN functionDict :
            functionDict[f].size \in Int /\ \A x \in DOMAIN functionDict[f].place : x \in DOMAIN symbolTable)'
      BY <1>4 DEF FrameOK
    <3>3. /\ ip' \in -1..Len(file') /\ result' \in {"none", "next", "finish", "memory", "pc", "raise"}
          /\ slot' \in {"none", "ask", "load", "run", "step"} /\ version' \in Versions
      BY <1>1, <2>1 DEF TypeOK
    <3>4. (mem \in [Memory -> Int] /\ argumentStack \in Seq(Int) /\ console \in Seq(Int))'
      BY <1>1, <2>1 DEF TypeOK, Memory
    <3>5. alive' \in BOOLEAN /\ enabled' \in BOOLEAN
      BY <1>1, <2>1 DEF TypeOK
    <3> QED  BY <2>2, <3>1, <3>2, <3>3, <3>4, <3>5 DEF TypeOK, LayoutTypes
  <2> QED  BY <2>2, <2>3, <2>4, <2>5 DEF BaseInv
<1>5. CASE line.op \in {"FUNCTION", "LABEL"}
  <2>1. AcceptLabel(line) /\ UNCHANGED tables
    BY <1>2, <1>5 DEF LoadLine, Accept, AcceptLabel
  <2>2. Tables' \in TypeOfTables' /\ ViewOK(Tables', symbolTable')
    <3>1. Count = 1 /\ View(1) = Tables
      BY <1>1 DEF Count, View
    <3>2. ViewOK(Tables, symbolTable) /\ Tables \in TypeOfTables
      BY <3>1 DEF BaseInv, ViewsOK, TypeOK
    <3> QED  BY <2>1, <3>2 DEF tables, Tables, TypeOfTables
  <2>3. /\ labelTable' = With(labelTable, line.name, lineNo)
        /\ \A l \in DOMAIN labelTable : labelTable[l] \in 0..(Len(file) - 1)
    BY <1>1, <2>1 DEF AcceptLabel, LineOfLabel, TypeOK, InRange
  <2>4. \A l \in DOMAIN labelTable' : labelTable'[l] \in 0..(Len(file) - 1)
    BY <1>1, <2>3 DEF With
  <2>5. DOMAIN labelTable' = DOMAIN labelTable \cup {line.name} /\ line.name # None
    BY <1>3, <2>3 DEF With, Line
  <2>6. LineOK(line)'
    BY <1>5 DEF LineOK
  <2>7. CASE line.op = "FUNCTION"
    <3>1. /\ functionDict' = With(functionDict, line.name, [place |-> <<>>, size |-> 0])
          /\ currentFunction' = line.name
          /\ entranceIP' \in {lineNo, entranceIP}
      BY <2>1, <2>7 DEF AcceptLabel
    <3>2. FrameOK([place |-> <<>>, size |-> 0], symbolTable')
      BY DEF FrameOK, Framed
    <3>3. \A f \in DOMAIN functionDict : f \in DOMAIN labelTable /\ FrameOK(functionDict[f], symbolTable')
      BY <1>1, <2>1 DEF LoadedOK, tables
    <3>4. \A f \in DOMAIN functionDict' :
            f \in DOMAIN labelTable' /\ FrameOK(functionDict'[f], symbolTable')
      BY <2>5, <3>1, <3>2, <3>3 DEF With
    <3>5. DOMAIN functionDict' = DOMAIN functionDict \cup {line.name}
      BY <3>1 DEF With
    <3>6. entranceIP' \in -1..(Len(file) - 1)
      BY <1>1, <3>1 DEF TypeOK
    <3>7. None \notin DOMAIN functionDict
      BY <1>1 DEF LoadedOK
    <3> QED  BY <2>1, <2>2, <2>4, <2>5, <2>6, <3>1, <3>4, <3>5, <3>6, <3>7 DEF tables
  <2>8. CASE line.op # "FUNCTION"
    <3>1. UNCHANGED <<currentFunction, entranceIP, functionDict>>
      BY <2>1, <2>8 DEF AcceptLabel
    <3>2. \A f \in DOMAIN functionDict' :
            f \in DOMAIN labelTable' /\ FrameOK(functionDict'[f], symbolTable')
      BY <1>1, <2>1, <2>5, <3>1 DEF LoadedOK, tables
    <3> QED  BY <1>1, <2>1, <2>2, <2>4, <2>6, <3>1, <3>2 DEF LoadedOK, tables, TypeOK
  <2> QED  BY <2>7, <2>8
<1>6. CASE line.op \notin {"FUNCTION", "LABEL"}
  <2>1. AcceptInstruction(line) /\ UNCHANGED <<labelTable, currentFunction, entranceIP>>
    BY <1>2, <1>6 DEF LoadLine, Accept, AcceptInstruction
  <2>2. /\ Good([symbolTable |-> symbolTable', functionDict |-> functionDict', offset |-> offset'])
        /\ DOMAIN symbolTable \subseteq DOMAIN symbolTable' /\ DOMAIN functionDict' = DOMAIN functionDict
        /\ LineOK(line)'
    BY <1>1, <1>3, <1>6, <2>1, InstructionAccepted
  <2>3. /\ symbolTable' \in [DOMAIN symbolTable' -> Symbol] /\ offset' \in Int
        /\ ViewOK([symbolTable |-> symbolTable', offset |-> offset'], symbolTable')
        /\ \A f \in DOMAIN functionDict' : FrameOK(functionDict'[f], symbolTable')
    BY <2>2 DEF Good
  <2>4. Tables' \in TypeOfTables' /\ ViewOK(Tables', symbolTable')
    BY <2>3 DEF Tables, TypeOfTables
  <2>5. \A l \in DOMAIN labelTable' : labelTable'[l] \in 0..(Len(file) - 1)
    BY <1>1, <2>1 DEF TypeOK, InRange
  <2> QED  BY <1>1, <2>1, <2>2, <2>3, <2>4, <2>5 DEF LoadedOK, TypeOK
<1> QED  BY <1>5, <1>6

\* A new file, or none
LEMMA ForgottenKeeps ==
  ASSUME BaseInv, Forgotten, file' \in Seq(Line), homes' = <<>>, callStack' = <<>>, ip' = -1,
         result' = "none", ~enabled', slot' \in {"none", "load"}, alive' \in BOOLEAN,
         enabled' \in BOOLEAN, mem' \in [Memory -> Int], argumentStack' \in Seq(Int),
         console' \in Seq(Int), version' = version
  PROVE  BaseInv'
<1>1. /\ symbolTable' = <<>> /\ offset' = 0 /\ functionDict' = <<>> /\ labelTable' = <<>>
      /\ currentFunction' = None /\ lineNo' = 0 /\ entranceIP' = -1
  BY DEF Forgotten
<1>2. Tables' \in TypeOfTables'
  BY <1>1 DEF Tables, TypeOfTables
<1>3. ViewOK(Tables', symbolTable')
  BY <1>1 DEF Tables, ViewOK, Stacked
<1>4. ViewsOK' /\ CallsOK' /\ LayoutTypes'
  BY <1>2, <1>3, AtHome
<1>5. DOMAIN labelTable' = {} /\ DOMAIN functionDict' = {}
  BY <1>1
<1>6. LoadedOK'
  BY <1>1, <1>5 DEF LoadedOK
<1>7. SlotsOK'
  BY DEF SlotsOK
<1>8. TypeOK'
  <2>1. lineNo' \in 0..Len(file') /\ entranceIP' \in -1..(Len(file') - 1) /\ ip' \in -1..Len(file')
    <3>1. Len(file') \in Nat
      OBVIOUS
    <3> QED  BY <1>1, <3>1
  <2>2. version' \in Versions
    BY DEF BaseInv, TypeOK
  <2> QED  BY <1>4, <1>5, <2>1, <2>2 DEF TypeOK, LayoutTypes, Memory
<1> QED  BY <1>4, <1>6, <1>7, <1>8 DEF BaseInv

LEMMA LoadEndsKeeps ==
  ASSUME BaseInv, LoadEnds
  PROVE  BaseInv'
<1>1. /\ TypeOK /\ SlotsOK /\ LoadedOK /\ homes = <<>> /\ callStack = <<>> /\ ~enabled /\ ip = -1
      /\ lineNo = Len(file) /\ entranceIP # -1
      /\ UNCHANGED <<program, tables, ip, mem, callStack, argumentStack, console>>
      /\ homes' = <<Tables>> /\ enabled' \in {TRUE, enabled}
  BY DEF BaseInv, SlotsOK, CallsOK, LoadEnds, Loads
<1>2. slot' = "none" /\ result' = "none" /\ alive' \in BOOLEAN /\ UNCHANGED version
  BY <1>1, HandlerEnds DEF LoadEnds
<1>3. Tables' = Tables /\ TypeOfTables' = TypeOfTables /\ UNCHANGED symbolTable
  BY <1>1 DEF tables, Tables, TypeOfTables
<1>4. ViewsOK' /\ CallsOK' /\ LayoutTypes'
  <2>1. Count = 1 /\ View(1) = Tables
    BY <1>1 DEF Count, View
  <2>2. ViewOK(Tables, symbolTable) /\ Tables \in TypeOfTables
    BY <1>1, <2>1 DEF BaseInv, ViewsOK, TypeOK
  <2>3. callStack' = <<>> /\ homes' = <<Tables'>>
    BY <1>1, <1>3
  <2> QED  BY <1>3, <2>2, <2>3, AtHome
<1>5. LoadedOK'
  BY <1>1, <1>3, LoadedKept
<1>6. SlotsOK'
  BY <1>1, <1>2 DEF SlotsOK, program
<1>7. TypeOK'
  <2>1. /\ ip' \in -1..Len(file) /\ mem' \in [Memory -> Int] /\ argumentStack' \in Seq(Int)
        /\ console' \in Seq(Int)
    BY <1>1 DEF TypeOK
  <2>2. enabled' \in BOOLEAN
    BY <1>1 DEF TypeOK
  <2>3. UNCHANGED <<program, version>> /\ DOMAIN symbolTable' = DOMAIN symbolTable
    BY <1>1, <1>2, <1>3
  <2> QED  BY <1>1, <1>2, <1>4, <2>1, <2>2, <2>3, TypeKept
<1> QED  BY <1>4, <1>5, <1>6, <1>7 DEF BaseInv

-----------------------------------------------------------------------------
(* All steps                                                                *)

LEMMA BaseKept ==
  ASSUME BaseInv, [Next]_vars
  PROVE  BaseInv'
<1>1. CASE Opening
  <2>1. CASE Ask \/ CannotAsk \/ Answer \/ LoadWord
    BY <2>1, NoInstruction
  <2>2. CASE LoadLine
    BY <2>2, LoadLineKeeps
  <2>3. CASE LoadFails
    <3>1. /\ slot' = "none" /\ result' = "none" /\ alive' \in BOOLEAN /\ version' = version
          /\ Forgotten /\ file' = <<>> /\ slot = "load"
          /\ UNCHANGED <<ip, mem, callStack, argumentStack, console, homes, enabled>>
      BY <2>3, HandlerEnds DEF LoadFails, BaseInv
    <3>2. /\ homes = <<>> /\ callStack = <<>> /\ ip = -1 /\ ~enabled
          /\ mem \in [Memory -> Int] /\ argumentStack \in Seq(Int) /\ console \in Seq(Int)
      BY <3>1 DEF BaseInv, SlotsOK, CallsOK, TypeOK
    <3>3. enabled' \in BOOLEAN
      BY <3>1 DEF BaseInv, TypeOK
    <3> QED  BY <3>1, <3>2, <3>3, ForgottenKeeps
  <2>4. CASE LoadEnds
    BY <2>4, LoadEndsKeeps
  <2>5. CASE \E f \in Files : Open(f)
    <3>1. PICK f \in Files : Open(f)
      BY <2>5
    <3>2. /\ Forgotten /\ file' \in Seq(Line) /\ homes' = <<>> /\ callStack' = <<>> /\ ip' = -1
          /\ slot' = "load" /\ argumentStack' = <<>> /\ console' = <<>> /\ mem' = Zeros
          /\ UNCHANGED <<result, version, alive>> /\ slot = "none"
      BY <3>1, CodeAssumption DEF Open, Chooses
    <3>3. enabled' = FALSE
      BY <3>1 DEF Open
    <3>4. result' = "none"
      BY <3>2 DEF BaseInv, SlotsOK
    <3>5. alive' \in BOOLEAN /\ enabled' \in BOOLEAN
      BY <3>2, <3>3, Zenon DEF BaseInv, TypeOK
    <3>6. mem' \in [Memory -> Int] /\ argumentStack' \in Seq(Int) /\ console' \in Seq(Int)
      BY <3>2 DEF Zeros
    <3> QED  BY <3>2, <3>3, <3>4, <3>5, <3>6, ForgottenKeeps
  <2> QED  BY <1>1, <2>1, <2>2, <2>3, <2>4, <2>5 DEF Opening
<1>2. CASE CannotStop \/ Stop \/ Run \/ StepFirst
  BY <1>2, StopKeeps
<1>3. CASE StepOn \/ Raised \/ RunOn \/ RunEnds \/ StepEnds
  BY <1>3, NoInstruction
<1>4. CASE Execute
  BY <1>4, ExecuteKeeps
<1>5. CASE UNCHANGED vars
  <2>1. UNCHANGED <<program, tables, ip, result, mem, callStack, argumentStack, console, homes, version, alive, slot, enabled>>
    BY <1>5 DEF vars, machine, window
  <2>2. TypeOK /\ SlotsOK
    BY DEF BaseInv
  <2>3. SlotsOK'
    BY <2>1, <2>2 DEF SlotsOK, program, InRange
  <2>4. /\ ip' \in -1..Len(file) /\ result' \in {"none", "next", "finish", "memory", "pc", "raise"}
        /\ alive' \in BOOLEAN /\ slot' \in {"none", "ask", "load", "run", "step"}
    BY <2>1, <2>2 DEF TypeOK
  <2> QED  BY <2>1, <2>3, <2>4, WindowKeeps
<1> QED  BY <1>1, <1>2, <1>3, <1>4, <1>5 DEF Next

-----------------------------------------------------------------------------
(* Jumps and errors                                                         *)

\* Steps of a loaded program that execute nothing
LEMMA JumpsKept ==
  ASSUME IInv, UNCHANGED <<program, version>>, homes' # <<>> => homes # <<>> \/ LabelsFound(version),
         callStack' = <<>> \/ callStack' = callStack, result' # "raise"
  PROVE  JumpsOK'
<1>1. homes' # <<>> => LabelsFound(version)'
  BY DEF IInv, JumpsOK, LabelsFound, program
<1>2. (\A k \in 1..Len(callStack) : FromCall(callStack[k]))'
  BY DEF IInv, JumpsOK, FromCall, program
<1>3. OnlyKnownErrors'
  BY DEF OnlyKnownErrors
<1> QED  BY <1>1, <1>2, <1>3 DEF JumpsOK

\* Steps of loading
LEMMA JumpsForgotten ==
  ASSUME homes' = <<>>, callStack' = <<>>, result' # "raise"
  PROVE  JumpsOK'
BY DEF JumpsOK, OnlyKnownErrors

\* An exception is one of those that are known.
LEMMA RaisedKnown ==
  ASSUME IInv, Execute, result' = "raise", UNCHANGED ip, Instruction.op # "RETURN"
  PROVE  OnlyKnownErrors'
<1> DEFINE l == Instruction
<1>1. /\ homes # <<>> /\ InRange(ip) /\ lineNo = Len(file) /\ TypeOK /\ LoadedOK
      /\ UNCHANGED <<program, version>>
  BY DEF IInv, BaseInv, SlotsOK, Execute
<1>2. LabelsFound(version) /\ version \in {"1.0.2", "1.1.0"}
  BY <1>1, VersionsAssumption DEF IInv, JumpsOK, TypeOK
<1>3. l.op \in Checked(version) => l.name \in DOMAIN labelTable
  BY <1>1, <1>2 DEF LabelsFound, Instruction, InRange, TypeOK
<1>4. ~At("FUNCTION") /\ ~At("LABEL") /\ ~At("DEC") /\ ~At("READ") /\ ~At("WRITE") /\ ~At("MOV")
      /\ ~At("ARG") /\ ~At("PARAM") /\ ~At("RETURN")
  BY DEF At, Execute, ExecuteCode, Read, Write, Goto, If, Mov, Arith, Arg, Param, Nothing, Call, Return, Fails
<1>5. \/ l.op = "ARITH" /\ (l.sym = "/" \/ l.x.mode = "deref")
      \/ l.op = "CALL" /\ l.name \notin DOMAIN functionDict
      \/ l.op \in {"GOTO", "IF"} /\ l.name \notin DOMAIN labelTable
  BY <1>4 DEF At, Execute, ExecuteCode, Read, Write, Goto, If, Mov, Arith, Arg, Param, Nothing, Call, Return, Fails, Jump
<1>6. /\ Instruction' = l /\ UNCHANGED <<labelTable, functionDict, version>>
  BY <1>1 DEF Instruction, program
<1>7. \/ l.op = "ARITH" /\ (l.sym = "/" \/ l.x.mode = "deref")
      \/ l.op = "CALL" /\ l.name \in DOMAIN labelTable \ DOMAIN functionDict
      \/ l.op \in {"IF", "CALL"} /\ l.name \notin DOMAIN labelTable /\ version = "1.1.0"
  BY <1>2, <1>3, <1>5 DEF Checked
<1> HIDE DEF l
<1> QED  BY <1>6, <1>7 DEF OnlyKnownErrors

LEMMA ExecuteKnown ==
  ASSUME IInv, Execute
  PROVE  JumpsOK'
<1>1. /\ homes # <<>> /\ InRange(ip) /\ UNCHANGED <<program, version>> /\ IsSequence(callStack)
      /\ JumpsOK /\ Len(callStack) \in Nat
  BY Views DEF IInv, BaseInv, SlotsOK, Execute
<1>2. LabelsFound(version)'
  BY <1>1 DEF JumpsOK, LabelsFound, program
<1>3. SUFFICES (\A k \in 1..Len(callStack) : FromCall(callStack[k]))' /\ OnlyKnownErrors'
  BY <1>2, <1>3 DEF JumpsOK
<1>4. CASE UNCHANGED callStack
  <2>1. (\A k \in 1..Len(callStack) : FromCall(callStack[k]))'
    BY <1>1, <1>4 DEF JumpsOK, FromCall, program
  <2>2. OnlyKnownErrors'
    <3>1. CASE result' # "raise"
      BY <3>1 DEF OnlyKnownErrors
    <3>2. CASE result' = "raise"
      <4>1. UNCHANGED ip /\ Instruction.op # "RETURN"
        BY <1>1, <1>4, <3>2 DEF Execute, ExecuteCode, At, Read, Write, Goto, If, Mov, Arith, Arg, Param,
           Nothing, Call, Return, Fails, Jump
      <4> QED  BY <3>2, <4>1, RaisedKnown
    <3> QED  BY <3>1, <3>2
  <2> QED  BY <2>1, <2>2
<1>5. CASE Call /\ Instruction.name \in DOMAIN functionDict
  <2>1. PICK c : c = [ip |-> ip, target |-> Instruction.x, old |-> Replaced(Instruction.name), offset |-> offset]
    OBVIOUS
  <2>2. callStack' = Append(callStack, c) /\ result' = "next" /\ Instruction.op = "CALL"
    BY <1>5, <2>1 DEF Call, At
  <2>3. /\ Len(callStack') = Len(callStack) + 1 /\ callStack'[Len(callStack) + 1] = c
        /\ \A k \in 1..Len(callStack) : callStack'[k] = callStack[k]
    BY <1>1, <2>2, SequenceGrows
  <2>4. FromCall(c)'
    BY <1>1, <2>1, <2>2 DEF FromCall, Instruction, program
  <2>5. (\A k \in 1..Len(callStack) : FromCall(callStack[k]))'
    BY <1>1, <2>3, <2>4 DEF JumpsOK, FromCall, program
  <2> QED  BY <2>2, <2>5 DEF OnlyKnownErrors
<1>6. CASE Return /\ callStack' = SubSeq(callStack, 1, Len(callStack) - 1) /\ Len(callStack) # 0
  <2>1. PICK n : n = Len(callStack)
    OBVIOUS
  <2>2. n \in Nat \ {0} /\ n - 1 \in Nat /\ n - 1 <= Len(callStack)
    BY <1>1, <1>6, <2>1
  <2>3. Len(callStack') = n - 1 /\ \A k \in 1..(n - 1) : callStack'[k] = callStack[k]
    BY <1>1, <1>6, <2>1, <2>2, SequenceShrinks
  <2>4. (\A k \in 1..Len(callStack) : FromCall(callStack[k]))'
    BY <1>1, <2>1, <2>2, <2>3 DEF JumpsOK, FromCall, program
  <2>5. OnlyKnownErrors'
    <3>1. CASE result' # "raise"
      BY <3>1 DEF OnlyKnownErrors
    <3>2. CASE result' = "raise" /\ UNCHANGED callStack
      <4>1. n - 1 = n
        BY <2>1, <2>3, <3>2
      <4> QED  BY <2>2, <4>1
    <3>3. CASE result' = "raise" /\ ~UNCHANGED callStack
      <4>1. ip' = callStack[n].ip /\ callStack[n].target.mode = "deref"
        BY <1>1, <1>6, <2>1, <3>3 DEF Return, Fails
      <4>2. FromCall(callStack[n])
        BY <1>1, <2>1, <2>2 DEF JumpsOK
      <4>3. Instruction'.op = "CALL" /\ Instruction'.x = callStack[n].target
        BY <1>1, <4>1, <4>2 DEF FromCall, Instruction, program
      <4> QED  BY <4>1, <4>3 DEF OnlyKnownErrors
    <3> QED  BY <3>1, <3>2, <3>3
  <2> QED  BY <2>4, <2>5
<1> QED
  BY <1>1, <1>4, <1>5, <1>6 DEF Execute, ExecuteCode, Read, Write, Goto, If, Mov, Arith, Arg, Param,
     Nothing, Call, Return, Fails, Jump

LEMMA StepKeeps ==
  ASSUME IInv, [Next]_vars
  PROVE  IInv'
<1>1. BaseInv'
  BY BaseKept DEF IInv
<1>2. /\ TypeOK /\ SlotsOK /\ CallsOK /\ BaseInv /\ JumpsOK
  BY DEF IInv, BaseInv
<1>3. JumpsOK'
  <2>1. CASE Execute
    BY <2>1, ExecuteKnown
  <2>2. CASE LoadLine
    <3>1. homes' = <<>> /\ callStack' = <<>> /\ result' # "raise"
      BY <1>2, <2>2 DEF LoadLine, machine, SlotsOK, CallsOK
    <3> QED  BY <3>1, JumpsForgotten
  <2>3. CASE LoadFails
    <3>1. homes' = <<>> /\ callStack' = <<>> /\ result' # "raise"
      BY <1>2, <2>3 DEF LoadFails, Returns, SlotsOK, CallsOK
    <3> QED  BY <3>1, JumpsForgotten
  <2>4. CASE \E f \in Files : Open(f)
    <3>1. homes' = <<>> /\ callStack' = <<>> /\ result' # "raise"
      BY <1>2, <2>4 DEF Open, Chooses, SlotsOK
    <3> QED  BY <3>1, JumpsForgotten
  <2>5. CASE LoadEnds
    <3>1. UNCHANGED <<program, version, callStack>> /\ LabelsFound(version) /\ result' # "raise"
      BY <2>5 DEF LoadEnds, Loads, Returns, Escapes
    <3> QED  BY <3>1, JumpsKept
  <2>6. CASE CannotStop \/ Stop \/ Run \/ StepFirst
    <3>1. UNCHANGED <<program, version>> /\ homes # <<>> /\ result' # "raise"
      BY <1>2, <2>6 DEF CannotStop, Stop, Run, StepFirst, Escapes, window, Chooses, SlotsOK
    <3>2. callStack' = <<>> \/ callStack' = callStack
      BY <2>6 DEF CannotStop, Stop, Run, StepFirst, Stopped
    <3> QED  BY <3>1, <3>2, JumpsKept
  <2>7. CASE Ask \/ CannotAsk \/ Answer \/ LoadWord \/ StepOn \/ Raised \/ RunOn \/ RunEnds \/ StepEnds
    <3>1. UNCHANGED <<program, version, homes, callStack>>
      BY <2>7 DEF Ask, CannotAsk, Answer, LoadWord, StepOn, Raised, RunOn, RunEnds, StepEnds, Escapes, Returns, machine, window
    <3>2. result' # "raise"
      BY <1>2, <2>7 DEF Ask, CannotAsk, Answer, LoadWord, StepOn, Raised, RunOn, RunEnds, StepEnds,
         Escapes, Returns, machine, Chooses, SlotsOK
    <3> QED  BY <3>1, <3>2, JumpsKept
  <2>8. CASE UNCHANGED vars
    <3>1. UNCHANGED <<program, version, homes, callStack, result, ip>>
      BY <2>8 DEF vars, machine
    <3>2. OnlyKnownErrors'
      BY <1>2, <3>1 DEF JumpsOK, OnlyKnownErrors, Instruction, program
    <3> QED  BY <1>2, <3>1, <3>2 DEF JumpsOK, LabelsFound, FromCall, program
  <2> QED  BY <2>1, <2>2, <2>3, <2>4, <2>5, <2>6, <2>7, <2>8 DEF Next, Opening
<1> QED  BY <1>1, <1>3 DEF IInv

-----------------------------------------------------------------------------
(* Theorems                                                                 *)

\* IInv always holds, of files with a DEC of a negative size as well: what each open call
\* has kept leads from one view of the tables to the one before, every error is one of
\* those known, and without such a DEC the views lie above one another.
THEOREM Invariance == Spec => []IInv
<1>1. Init => IInv
  <2> SUFFICES ASSUME Init
               PROVE  IInv
    OBVIOUS
  <2>1. JumpsOK
    BY DEF Init, JumpsOK, OnlyKnownErrors
  <2> QED  BY <2>1, Start DEF IInv
<1>2. IInv /\ [Next]_vars => IInv'
  BY StepKeeps
<1> QED  BY <1>1, <1>2, PTL DEF Spec

\* The tables, stacks and memory keep their types, whatever is loaded and typed.
THEOREM TypeCorrect == Spec => []TypeOK
<1>1. IInv => TypeOK
  BY DEF IInv, BaseInv
<1> QED  BY <1>1, Invariance, PTL

\* What execute_code may raise and nobody catches: in version 1.0.2, loading has ruled
\* out every other error.
THEOREM ErrorsKnown == Spec => []OnlyKnownErrors
<1>1. IInv => OnlyKnownErrors
  BY DEF IInv, JumpsOK
<1> QED  BY <1>1, Invariance, PTL

LEMMA DisjointFrames ==
  ASSUME BaseInv
  PROVE  FramesDisjoint
<1> SUFFICES ASSUME Forward(symbolTable),
                    NEW j \in 1..Count, NEW i \in 1..j,
                    NEW x \in DOMAIN symbolTable, NEW y \in DOMAIN symbolTable,
                    View(i).symbolTable[x].addr >= 0, View(j).symbolTable[y].addr >= 0
             PROVE  \/ x = y /\ View(i).symbolTable[x] = View(j).symbolTable[y]
                    \/ Apart(View(i).symbolTable[x], View(j).symbolTable[y])
  BY DEF FramesDisjoint
<1> DEFINE a == View(i).symbolTable[x]
           b == View(j).symbolTable[y]
<1>1. Count \in Nat /\ i \in 1..Count
  BY DEF BaseInv, TypeOK, Count
<1>2. /\ ViewOK(View(i), symbolTable) /\ ViewOK(View(j), symbolTable)
      /\ i < j => Later(View(i), View(j))
  BY <1>1 DEF BaseInv, ViewsOK
<1>3. /\ a \in Symbol /\ b \in Symbol /\ View(i).offset \in Int /\ a.addr + a.size <= View(i).offset
      /\ View(i).symbolTable[y] = b => x = y \/ Apart(a, b)
  BY <1>2 DEF ViewOK, Stacked
<1>4. CASE i = j
  BY <1>3, <1>4
<1>5. CASE i < j
  <2>1. b = View(i).symbolTable[y] \/ b.addr >= View(i).offset
    BY <1>2, <1>5 DEF Later
  <2>2. CASE b = View(i).symbolTable[y]
    BY <1>3, <2>2
  <2>3. CASE b.addr >= View(i).offset
    BY <1>3, <2>3 DEF Apart, Symbol
  <2> QED  BY <2>1, <2>2, <2>3
<1> QED  BY <1>1, <1>4, <1>5

\* As long as no variable has a negative size, no two of them ever overlap in memory,
\* neither of one call nor of different calls, however deep a recursion goes and however
\* it is stopped.  (A DEC of a negative size is let through and does make them overlap.)
THEOREM NeverOverlap == Spec => []FramesDisjoint
<1>1. IInv => FramesDisjoint
  BY DisjointFrames DEF IInv
<1> QED  BY <1>1, Invariance, PTL

\* When all calls have returned, the tables are as when the run began.
THEOREM HomeAgain == Spec => []AlwaysHome
<1>1. IInv => AlwaysHome
  <2> SUFFICES ASSUME IInv, callStack = <<>>, homes # <<>>
               PROVE  Tables = homes[1]
    BY DEF AlwaysHome
  <2>1. Len(homes) = 1 /\ View(1) = View(2) /\ View(1) = homes[1] /\ View(2) = Tables
    BY Views DEF IInv, BaseInv, CallsOK
  <2> QED  BY <2>1
<1> QED  BY <1>1, Invariance, PTL

=============================================================================
