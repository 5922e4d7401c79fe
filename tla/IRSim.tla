------------------------------- MODULE IRSim -------------------------------
(***************************************************************************)
(* The IR simulator with its interface: the user opens a file, runs the    *)
(* program, steps through it, stops it.  A handler blocks the interface    *)
(* until it returns; slot is the one that is at work.  An exception that   *)
(* leaves a handler ends it where it is.  PyQt 4 (version 1.0.2) then goes *)
(* on; PyQt 5 (version 1.1.0) may end the process.                         *)
(***************************************************************************)
EXTENDS IRMachine

CONSTANT Versions   \* the versions of the simulator that are looked at

ASSUME VersionsAssumption == Versions \subseteq {"1.0.2", "1.1.0"}

VARIABLES
  version,   \* which simulator it is
  alive,     \* its process runs
  slot,      \* "none", "ask" (okToContinue), "load", "run" or "step"
  enabled    \* Run, Step and Stop can be chosen

window == <<alive, slot, enabled>>
vars == <<program, tables, machine, version, window>>

Init ==
  /\ file = <<>> /\ lineNo = 0 /\ currentFunction = None /\ entranceIP = -1
  /\ labelTable = <<>> /\ functionDict = <<>> /\ symbolTable = <<>> /\ offset = 0
  /\ ip = -1 /\ result = "none" /\ mem = Zeros
  /\ callStack = <<>> /\ argumentStack = <<>> /\ console = <<>> /\ homes = <<>>
  /\ version \in Versions /\ alive = TRUE /\ slot = "none" /\ enabled = FALSE

InRange(i) == i \in 0..(Len(file) - 1)

\* An exception leaves the handler.
Escapes ==
  /\ slot' = "none" /\ result' = "none"
  /\ alive' \in (IF version = "1.1.0" THEN BOOLEAN ELSE {TRUE})
  /\ UNCHANGED version

Returns == slot' = "none" /\ result' = "none" /\ UNCHANGED <<version, alive>>

Chooses == alive /\ slot = "none"

-----------------------------------------------------------------------------
(* Opening a file                                                           *)

\* While a program runs, okToContinue of 1.1.0 fails on a method that Qt does not
\* have; that of 1.0.2 asks.
MayOpen(v) == v = "1.0.2"

Ask ==
  /\ Chooses /\ ip # -1 /\ MayOpen(version)
  /\ slot' = "ask"
  /\ UNCHANGED <<program, tables, machine, version, alive, enabled>>

CannotAsk ==
  /\ Chooses /\ ip # -1 /\ ~MayOpen(version)
  /\ Escapes
  /\ UNCHANGED <<program, tables, ip, mem, callStack, argumentStack, console, homes, enabled>>

\* No, or yes: nothing is stopped, ip is -1 again, and the file dialog follows.
Answer ==
  /\ slot = "ask"
  /\ ip' \in {ip, -1}
  /\ slot' = "none"
  /\ UNCHANGED <<program, tables, result, mem, callStack, argumentStack, console, homes,
                 version, alive, enabled>>

\* A file is chosen: initialize, and loading begins.
Open(f) ==
  /\ Chooses /\ ip = -1
  /\ Forgotten /\ file' = f
  /\ ip' = -1 /\ mem' = Zeros /\ callStack' = <<>> /\ argumentStack' = <<>>
  /\ console' = <<>> /\ homes' = <<>>
  /\ slot' = "load" /\ enabled' = FALSE
  /\ UNCHANGED <<result, version, alive>>

\* loadFile takes the lines one by one.
LoadLine ==
  /\ slot = "load" /\ lineNo < Len(file)
  /\ Accept(file[lineNo + 1])
  /\ UNCHANGED <<machine, version, window>>

\* A word alone: the code looks for the second word, and nobody catches the IndexError.
LoadWord ==
  /\ slot = "load" /\ lineNo < Len(file)
  /\ file[lineNo + 1].op = "WORD" /\ ~Rejected(file[lineNo + 1])
  /\ Escapes
  /\ UNCHANGED <<program, tables, ip, mem, callStack, argumentStack, console, homes, enabled>>

Loads(v) == LabelsFound(v) /\ offset <= 4 * MemWords /\ entranceIP # -1

LoadFails ==
  /\ slot = "load"
  /\ IF lineNo < Len(file) THEN Rejected(file[lineNo + 1]) ELSE ~Loads(version)
  /\ Forgotten /\ file' = <<>>
  /\ Returns
  /\ UNCHANGED <<ip, mem, callStack, argumentStack, console, homes, enabled>>

\* displayWatchTable reads a word for each variable with an address, its first, or
\* all of an array (where Python cuts off what is not there).
Displayable ==
  \A x \in DOMAIN symbolTable :
    LET s == symbolTable[x] IN s.addr >= 0 /\ s.size <= 4 => IsIndex(s.addr \div 4)

LoadEnds ==
  /\ slot = "load" /\ lineNo = Len(file) /\ Loads(version)
  /\ homes' = <<Tables>>
  /\ IF Displayable THEN Returns /\ enabled' = TRUE ELSE Escapes /\ UNCHANGED enabled
  /\ UNCHANGED <<program, tables, ip, mem, callStack, argumentStack, console>>

-----------------------------------------------------------------------------
(* Stop, Run, Step                                                          *)

\* stop() is also how Run and Step begin.  It forgets the open calls, but not the
\* tables they changed; the console is cleared last, after the tables are shown.
Stopped ==
  /\ mem' = Zeros /\ callStack' = <<>> /\ argumentStack' = <<>>
  /\ homes' = IF callStack = <<>> THEN homes ELSE <<Tables>>

\* The item of the line at ip is not there, or the tables cannot be displayed.
StopItem == ip = -1 \/ InRange(ip)

CannotStop ==
  /\ Chooses /\ enabled
  /\ IF StopItem THEN ~Displayable /\ ip' = -1 /\ Stopped
     ELSE UNCHANGED <<ip, mem, callStack, argumentStack, homes>>
  /\ Escapes
  /\ UNCHANGED <<program, tables, console, enabled>>

Stop ==
  /\ Chooses /\ enabled /\ StopItem /\ Displayable
  /\ Stopped /\ console' = <<>> /\ ip' = -1
  /\ UNCHANGED <<program, tables, result, version, window>>

Run ==
  /\ Chooses /\ enabled /\ StopItem /\ Displayable
  /\ Stopped /\ console' = <<>> /\ ip' = entranceIP
  /\ slot' = "run"
  /\ UNCHANGED <<program, tables, result, version, alive, enabled>>

StepFirst ==
  /\ Chooses /\ enabled /\ ip = -1 /\ Displayable
  /\ Stopped /\ console' = <<>> /\ ip' = entranceIP
  /\ slot' = "step"
  /\ UNCHANGED <<program, tables, result, version, alive, enabled>>

\* Past the last line the program is over.
StepOn ==
  /\ Chooses /\ enabled /\ ip # -1 /\ InRange(ip)
  /\ IF InRange(ip + 1) THEN ip' = ip + 1 /\ slot' = "step" ELSE ip' = -1 /\ UNCHANGED slot
  /\ UNCHANGED <<program, tables, result, mem, callStack, argumentStack, console, homes,
                 version, alive, enabled>>

\* The instruction at ip, in either handler
Execute ==
  /\ slot \in {"run", "step"} /\ InRange(ip)
  /\ ExecuteCode
  /\ UNCHANGED <<program, version, window>>

Raised ==
  /\ slot \in {"run", "step"} /\ result = "raise"
  /\ Escapes
  /\ UNCHANGED <<program, tables, ip, mem, callStack, argumentStack, console, homes, enabled>>

RunOn ==
  /\ slot = "run"
  /\ \/ result = "next" /\ ip' = ip + 1 /\ result' = "none"
     \/ result = "none" /\ ~InRange(ip) /\ result' = "pc" /\ UNCHANGED ip
  /\ UNCHANGED <<program, tables, mem, callStack, argumentStack, console, homes, version, window>>

\* The tables are shown before ip is set back.
RunEnds ==
  /\ slot = "run" /\ result \in {"finish", "memory", "pc"}
  /\ IF Displayable THEN ip' = -1 /\ Returns ELSE UNCHANGED ip /\ Escapes
  /\ UNCHANGED <<program, tables, mem, callStack, argumentStack, console, homes, enabled>>

\* Here after it.
StepEnds ==
  /\ slot = "step" /\ result \in {"next", "finish", "memory"}
  /\ ip' = IF result = "next" THEN ip ELSE -1
  /\ IF Displayable THEN Returns ELSE Escapes
  /\ UNCHANGED <<program, tables, mem, callStack, argumentStack, console, homes, enabled>>

Opening ==
  \/ Ask \/ CannotAsk \/ Answer \/ LoadLine \/ LoadWord \/ LoadFails \/ LoadEnds
  \/ \E f \in Files : Open(f)

Next ==
  \/ Opening
  \/ CannotStop \/ Stop \/ Run \/ StepFirst \/ StepOn
  \/ Execute \/ Raised \/ RunOn \/ RunEnds \/ StepEnds

Spec == Init /\ [][Next]_vars

-----------------------------------------------------------------------------
(* Types                                                                    *)

Symbol == [addr : Int, size : Int]
TypeOfTables == [symbolTable : [DOMAIN symbolTable -> Symbol], offset : Int]
IsSequence(s) == s \in Seq({s[k] : k \in 1..Len(s)})

\* The shape of everything a file, a program and the user leave behind.
TypeOK ==
  /\ file \in Seq(Line) /\ lineNo \in 0..Len(file) /\ entranceIP \in -1..(Len(file) - 1)
  /\ \A l \in DOMAIN labelTable : InRange(labelTable[l])
  /\ \A f \in DOMAIN functionDict :
       functionDict[f].size \in Int /\ \A x \in DOMAIN functionDict[f].place : x \in DOMAIN symbolTable
  /\ Tables \in TypeOfTables /\ homes \in Seq(TypeOfTables) /\ IsSequence(callStack)
  /\ ip \in -1..Len(file) /\ result \in {"none", "next", "finish", "memory", "pc", "raise"}
  /\ mem \in [Memory -> Int] /\ argumentStack \in Seq(Int) /\ console \in Seq(Int)
  /\ version \in Versions /\ alive \in BOOLEAN /\ enabled \in BOOLEAN
  /\ slot \in {"none", "ask", "load", "run", "step"}

-----------------------------------------------------------------------------
(* Safety                                                                   *)

\* The tables when the run began, at every open call, and now.
Count == Len(homes) + 1
View(k) == IF k <= Len(homes) THEN homes[k] ELSE Tables

\* A DEC of a negative size is let through, and moves offset back.
Forward(symbols) == \A x \in DOMAIN symbols : symbols[x].size >= 0

\* Without one, no two variables overlap: not now, and not with those that the open calls
\* have replaced, which come back when these return.
Apart(a, b) == a.addr + a.size <= b.addr \/ b.addr + b.size <= a.addr
FramesDisjoint ==
  Forward(symbolTable) =>
  \A j \in 1..Count : \A i \in 1..j : \A x, y \in DOMAIN symbolTable :
    LET a == View(i).symbolTable[x]
        b == View(j).symbolTable[y]
    IN a.addr >= 0 /\ b.addr >= 0 => (x = y /\ a = b) \/ Apart(a, b)

\* When every call has returned, the tables are as when the run began: a run that ends
\* by itself leaves nothing behind for the next one, however its calls were nested.
AlwaysHome ==
  callStack = <<>> /\ homes # <<>> => Tables = homes[1]

\* What nobody catches is a division by zero, a value for *x, or a call of a label; no
\* missing target of a jump in 1.0.2, which has looked for them at loading.
OnlyKnownErrors ==
  LET l == Instruction IN
  result = "raise" =>
    \/ l.op = "ARITH" /\ (l.sym = "/" \/ l.x.mode = "deref")
    \/ l.op = "CALL" /\ (l.x.mode = "deref" \/ l.name \in DOMAIN labelTable \ DOMAIN functionDict)
    \/ l.op \in {"IF", "CALL"} /\ l.name \notin DOMAIN labelTable /\ version = "1.1.0"

\* Undefined labels are reported when a file is loaded (irsim.py:418): what Run and Step
\* may execute has a target for every jump and call.
LabelsDefined ==
  enabled => \A i \in 1..Len(file) :
    file[i].op \in {"GOTO", "IF", "CALL"} => file[i].name \in DOMAIN labelTable

-----------------------------------------------------------------------------
(* The inductive invariant                                                  *)

\* The variables of a function lie one after the other in its frame, if sizes are natural.
Framed(f, symbols) ==
  LET place == f.place IN
  /\ f.size >= 0
  /\ \A x \in DOMAIN place : place[x] >= 0 /\ place[x] + symbols[x].size <= f.size
  /\ \A x, y \in DOMAIN place :
       x # y => \/ place[x] + symbols[x].size <= place[y]
                \/ place[y] + symbols[y].size <= place[x]

FrameOK(f, symbols) ==
  /\ f.size \in Int /\ \A x \in DOMAIN f.place : x \in DOMAIN symbols /\ f.place[x] \in Int
  /\ Forward(symbols) => Framed(f, symbols)

\* A view of the tables: addresses below its offset, and apart, if sizes are natural.
Stacked(v) ==
  /\ v.offset >= 0
  /\ \A x \in DOMAIN v.symbolTable :
       LET s == v.symbolTable[x] IN
       /\ s.addr >= 0 => s.addr + s.size <= v.offset
       /\ \A y \in DOMAIN v.symbolTable :
            x # y /\ s.addr >= 0 /\ v.symbolTable[y].addr >= 0 => Apart(s, v.symbolTable[y])

ViewOK(v, symbols) ==
  /\ v.offset \in Int /\ DOMAIN v.symbolTable = DOMAIN symbols
  /\ \A x \in DOMAIN symbols : v.symbolTable[x] \in Symbol /\ v.symbolTable[x].size = symbols[x].size
  /\ Forward(symbols) => Stacked(v)

\* What a later view has of its own lies above all that an earlier one has.
Later(v, w) ==
  /\ v.offset <= w.offset
  /\ \A x \in DOMAIN symbolTable :
       w.symbolTable[x] = v.symbolTable[x] \/ w.symbolTable[x].addr >= v.offset

ViewsOK ==
  /\ \A k \in 1..Count : ViewOK(View(k), symbolTable)
  /\ Forward(symbolTable) => \A j \in 1..Count : \A i \in 1..(j - 1) : Later(View(i), View(j))

\* What the k-th open call has kept turns the tables after it into those before it.
CallOK(k) ==
  LET c == callStack[k] IN
  /\ InRange(c.ip) /\ c.target \in Operand /\ c.target.var \in DOMAIN symbolTable
  /\ c.offset = View(k + 1).offset
  /\ View(k + 1).symbolTable =
       [x \in DOMAIN symbolTable |-> IF x \in DOMAIN c.old THEN c.old[x] ELSE View(k + 2).symbolTable[x]]

CallsOK ==
  /\ homes = <<>> => callStack = <<>>
  /\ homes # <<>> => Len(homes) = Len(callStack) + 1 /\ View(1) = View(2)
  /\ \A k \in 1..Len(callStack) : CallOK(k)

\* A line that was let through has operators the code knows and operands with a symbol.
Known(o) == o.mode = "imm" \/ o.var \in DOMAIN symbolTable
LineOK(l) ==
  /\ l.op \notin {"FUNCTION", "LABEL"} => Known(l.x) /\ Known(l.y) /\ Known(l.z)
  /\ l.op = "ARITH" => l.sym \in Arithops
  /\ l.op \in {"READ", "PARAM", "MOV", "ARITH", "CALL"} => l.x.mode \in {"var", "deref"}

LoadedOK ==
  /\ \A i \in 1..lineNo : LineOK(file[i])
  /\ currentFunction \in DOMAIN functionDict \cup {None} /\ None \notin DOMAIN functionDict
  /\ \A f \in DOMAIN functionDict : f \in DOMAIN labelTable /\ FrameOK(functionDict[f], symbolTable)

SlotsOK ==
  /\ enabled \/ slot \in {"run", "step"} =>
       enabled /\ lineNo = Len(file) /\ entranceIP # -1 /\ homes # <<>> /\ slot # "load"
  /\ slot = "load" => ip = -1 /\ homes = <<>>
  /\ slot \in {"run", "step"} => ip # -1
  /\ result # "none" => slot \in {"run", "step"}
  /\ result = "next" => InRange(ip)

BaseInv == TypeOK /\ ViewsOK /\ CallsOK /\ LoadedOK /\ SlotsOK

\* Once a file is loaded, its jumps that were checked have targets.  An open call was
\* made by a CALL, which is at ip again when it returns.
FromCall(c) == file[c.ip + 1].op = "CALL" /\ file[c.ip + 1].x = c.target
JumpsOK ==
  /\ homes # <<>> => LabelsFound(version)
  /\ \A k \in 1..Len(callStack) : FromCall(callStack[k])
  /\ OnlyKnownErrors

IInv == BaseInv /\ JumpsOK

-----------------------------------------------------------------------------
(* Refinement                                                               *)

\* What main (level 0) and each open call see of their variables
SymbolsOf(k) == IF k = Len(callStack) THEN symbolTable ELSE homes[k + 2].symbolTable
VariablesOf(k) ==
  IF k > 0 THEN DOMAIN callStack[k].old
  ELSE IF "main" \in DOMAIN functionDict THEN DOMAIN functionDict["main"].place ELSE {}
Content(addr) == IF addr \div 4 \in Memory THEN mem[addr \div 4] ELSE 0
FrameOf(k) == [x \in VariablesOf(k) |-> Content(SymbolsOf(k)[x].addr)]

Phase ==
  IF ~Displayable THEN "lost"
  ELSE CASE result \in {"finish", "memory", "pc"} -> "over"
         [] slot \in {"run", "step"} /\ result = "none" -> "ready"
         [] OTHER -> "done"

FramesNow == [k \in 1..(Len(callStack) + 1) |-> FrameOf(k - 1)]
CallsNow == [k \in 1..Len(callStack) |-> [ip |-> callStack[k].ip, target |-> callStack[k].target]]

Frames == INSTANCE IRFrames WITH
  phase <- Phase, frames <- FramesNow, calls <- CallsNow, arguments <- argumentStack

\* A program whose functions keep to their own variables computes what it means.
ImplementsFrames == Frames!Spec

-----------------------------------------------------------------------------
(* Why it does so                                                           *)

\* Line i is in the function that begins with line h.
Heads(h, i) == file[h + 1].op = "FUNCTION" /\ \A k \in (h + 1)..i : file[k + 1].op # "FUNCTION"

\* Before the first function, in line b, there are only labels; every later line is in a
\* function; and labels and functions are found where they are defined.
FunctionsOK ==
  /\ \E b \in 0..lineNo :
       /\ currentFunction = None <=> b = lineNo
       /\ \A i \in 0..(b - 1) : file[i + 1].op = "LABEL"
       /\ \A i \in b..(lineNo - 1) : file[b + 1].op = "FUNCTION" /\ \E h \in b..i : Heads(h, i)
  /\ \A l \in DOMAIN labelTable :
       labelTable[l] < lineNo /\ file[labelTable[l] + 1].op \in {"FUNCTION", "LABEL"}
  /\ \A f \in DOMAIN functionDict :
       LET l == file[labelTable[f] + 1] IN l.op = "FUNCTION" /\ l.name = f
  /\ entranceIP # -1 => "main" \in DOMAIN functionDict /\ labelTable["main"] = entranceIP

\* Without a DEC every variable is a word.  If none has a negative size, those of main always
\* have an address, and those of an open call one above all that was there before the call.
AddressesOK ==
  /\ (\A i \in 1..lineNo : file[i].op # "DEC") => \A x \in DOMAIN symbolTable : symbolTable[x].size = 4
  /\ \A k \in 1..Len(callStack) : \A x \in VariablesOf(k) : x \in DOMAIN symbolTable
  /\ Forward(symbolTable) =>
       /\ \A k \in 1..Count : \A x \in VariablesOf(0) : View(k).symbolTable[x].addr >= 0
       /\ \A k \in 1..Len(callStack) : \A x \in VariablesOf(k) :
            View(k + 2).symbolTable[x].addr >= View(k + 1).offset

\* Line i is one of the function whose variables are those of level k.
Belongs(i, k) == InRange(i) /\ VariablesOf(k) = Frames!Own(file[Frames!FunctionOf(i) + 1].name)

Shown(v) ==
  \A x \in DOMAIN v.symbolTable :
    LET s == v.symbolTable[x] IN s.addr >= 0 /\ s.size <= 4 => IsIndex(s.addr \div 4)

\* As long as memory is large enough, control is in the function of the last call, and the
\* line after one that was executed belongs to it as well.
ControlOK ==
  /\ \A k \in 1..Len(callStack) : Shown(View(k + 1)) => Belongs(callStack[k].ip, k - 1)
  /\ Displayable /\ ip # -1 =>
       /\ Belongs(ip, Len(callStack))
       /\ slot \notin {"run", "step"} \/ result \in {"next", "raise"} =>
            file[ip + 1].op \notin {"RETURN", "GOTO"}

\* A run of such a program is always in the function whose variables it sees: it gets to
\* another only by CALL, and back only by RETURN.
FramesInv == FunctionsOK /\ AddressesOK /\ (Frames!Plain => ControlOK)
=============================================================================
