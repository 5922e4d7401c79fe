----------------------------- MODULE IRMachine -----------------------------
(***************************************************************************)
(* execute_code of the IR simulator: one action per instruction, on the    *)
(* line at ip.  Its result is left in result.  A variable is looked up by  *)
(* its address, and memory is a Python list: an index of -1 is its last    *)
(* word, and only an index beyond both ends is an IndexError.  Other       *)
(* errors are not caught ("raise").                                        *)
(***************************************************************************)
EXTENDS IRCode

CONSTANT ReadValues   \* what the user may type for a READ
ASSUME ReadAssumption == ReadValues \subseteq Int

VARIABLES
  ip,              \* the line executed, -1 when no program runs
  result,          \* "none" before the line at ip was executed; then error_code:
                   \* "next" 0, "finish" 1, "memory" 2, "pc" 3, or "raise"
  mem,             \* the words
  callStack,       \* of each open call: where it was, the variable for its value,
                   \* the symbols and the offset it replaced
  argumentStack,   \* values given by ARG and not yet taken by PARAM
  console,         \* what WRITE has written
  homes            \* history: the tables when the run began and at each open call

machine == <<ip, result, mem, callStack, argumentStack, console, homes>>

Memory == 0..(MemWords - 1)
Zeros == [i \in Memory |-> 0]
Tables == [symbolTable |-> symbolTable, offset |-> offset]
Instruction == file[ip + 1]

-----------------------------------------------------------------------------
(* Memory                                                                   *)

\* A Python index of mem, and the word it stands for
IsIndex(i) == i >= -MemWords /\ i < MemWords
Word(i) == IF i >= 0 THEN i ELSE i + MemWords

\* The index of a variable, and of what an operand stands for: *x, or x
IndexOf(x, symbols) == symbols[x].addr \div 4
Index(o) ==
  IF o.mode = "deref" THEN mem[Word(IndexOf(o.var, symbolTable))] \div 4
  ELSE IndexOf(o.var, symbolTable)
Accessible(o) ==
  /\ IsIndex(IndexOf(o.var, symbolTable))
  /\ o.mode = "deref" => IsIndex(Index(o))

\* getValue, which may be an IndexError
Readable(o) == o.mode \in {"var", "deref"} => Accessible(o)
GetValue(o) ==
  CASE o.mode = "imm"  -> o.val
    [] o.mode = "addr" -> symbolTable[o.var].addr
    [] OTHER -> mem[Word(Index(o))]

Store(o, value) == [mem EXCEPT ![Word(Index(o))] = value]

-----------------------------------------------------------------------------
(* The instructions                                                         *)

At(op) == result = "none" /\ Instruction.op = op
Fails(res) == result' = res /\ UNCHANGED <<tables, ip, mem, callStack, argumentStack, console, homes>>

Read ==
  /\ At("READ")
  /\ \/ Fails("next")   \* the dialog was cancelled
     \/ IF Accessible(Instruction.x)
        THEN /\ \E v \in ReadValues : mem' = Store(Instruction.x, v)
             /\ result' = "next"
             /\ UNCHANGED <<tables, ip, callStack, argumentStack, console, homes>>
        ELSE Fails("memory")

Write ==
  /\ At("WRITE")
  /\ IF Readable(Instruction.x)
     THEN /\ console' = Append(console, GetValue(Instruction.x))
          /\ result' = "next"
          /\ UNCHANGED <<tables, ip, mem, callStack, argumentStack, homes>>
     ELSE Fails("memory")

\* labelTable[name] may be a KeyError.
Jump ==
  IF Instruction.name \in DOMAIN labelTable
  THEN /\ ip' = labelTable[Instruction.name]
       /\ result' = "next"
       /\ UNCHANGED <<tables, mem, callStack, argumentStack, console, homes>>
  ELSE Fails("raise")

Goto == At("GOTO") /\ Jump

If ==
  LET l == Instruction IN
  /\ At("IF")
  /\ IF ~(Readable(l.x) /\ Readable(l.y)) THEN Fails("memory")
     ELSE IF Compare(GetValue(l.x), l.sym, GetValue(l.y)) THEN Jump
     ELSE Fails("next")

Mov ==
  LET l == Instruction IN
  /\ At("MOV")
  /\ IF Readable(l.y) /\ Accessible(l.x)
     THEN /\ mem' = Store(l.x, GetValue(l.y))
          /\ result' = "next"
          /\ UNCHANGED <<tables, ip, callStack, argumentStack, console, homes>>
     ELSE Fails("memory")

\* The right side comes first; a target *x is looked up by that name, a KeyError.
Arith ==
  LET l == Instruction IN
  /\ At("ARITH")
  /\ IF ~(Readable(l.y) /\ Readable(l.z)) THEN Fails("memory")
     ELSE IF l.x.mode = "deref" \/ (l.sym = "/" /\ GetValue(l.z) = 0) THEN Fails("raise")
     ELSE IF ~Accessible(l.x) THEN Fails("memory")
     ELSE /\ mem' = Store(l.x, Compute(GetValue(l.y), l.sym, GetValue(l.z)))
          /\ result' = "next"
          /\ UNCHANGED <<tables, ip, callStack, argumentStack, console, homes>>

Arg ==
  /\ At("ARG")
  /\ IF Readable(Instruction.x)
     THEN /\ argumentStack' = Append(argumentStack, GetValue(Instruction.x))
          /\ result' = "next"
          /\ UNCHANGED <<tables, ip, mem, callStack, console, homes>>
     ELSE Fails("memory")

Param ==
  LET last == Len(argumentStack) IN
  /\ At("PARAM")
  /\ IF last = 0 THEN Fails("memory")
     ELSE /\ argumentStack' = SubSeq(argumentStack, 1, last - 1)
          /\ IF Accessible(Instruction.x)
             THEN mem' = Store(Instruction.x, argumentStack[last]) /\ result' = "next"
             ELSE result' = "memory" /\ UNCHANGED mem
          /\ UNCHANGED <<tables, ip, callStack, console, homes>>

\* FUNCTION, LABEL and DEC do nothing.
Nothing == (At("FUNCTION") \/ At("LABEL") \/ At("DEC")) /\ Fails("next")

\* The variables of the function get new addresses, getNewAddr for each in turn.
\* What they had is kept, with the offset, until the call returns.
Renewed(f) ==
  [x \in DOMAIN symbolTable |->
     IF x \in DOMAIN functionDict[f].place
     THEN [symbolTable[x] EXCEPT !.addr = offset + functionDict[f].place[x]]
     ELSE symbolTable[x]]

\* A mutant: what is kept are the new addresses.
ReplacedLate(f) == [x \in DOMAIN functionDict[f].place |-> Renewed(f)[x]]
Replaced(f) == [x \in DOMAIN functionDict[f].place |-> symbolTable[x]]

Call ==
  LET l == Instruction IN
  /\ At("CALL")
  /\ IF l.name \notin DOMAIN functionDict THEN Fails("raise")
     ELSE /\ symbolTable' = Renewed(l.name)
          /\ offset' = offset + functionDict[l.name].size
          /\ callStack' = Append(callStack, [ip |-> ip, target |-> l.x,
                                             old |-> Replaced(l.name), offset |-> offset])
          /\ ip' = labelTable[l.name]
          /\ homes' = Append(homes, Tables)
          /\ result' = "next"
          /\ UNCHANGED <<mem, argumentStack, console>>

\* A mutant: the variables keep the addresses of the call.
RestoredNot(old) == symbolTable

\* Without an open call the program ends.  Otherwise the value is read, the tables
\* are as before the call, and only then is the value stored, which may fail.
Restored(old) == [x \in DOMAIN symbolTable |-> IF x \in DOMAIN old THEN old[x] ELSE symbolTable[x]]

Return ==
  LET depth == Len(callStack)
      top == callStack[depth]
      value == GetValue(Instruction.x)
      index == IndexOf(top.target.var, Restored(top.old))
  IN
  /\ At("RETURN")
  /\ IF depth = 0 THEN Fails("finish")
     ELSE IF ~Readable(Instruction.x) THEN Fails("memory")
     ELSE /\ callStack' = SubSeq(callStack, 1, depth - 1)
          /\ homes' = SubSeq(homes, 1, depth)
          /\ ip' = top.ip
          /\ symbolTable' = Restored(top.old)
          /\ offset' = top.offset
          /\ IF top.target.mode = "deref" THEN result' = "raise" /\ UNCHANGED mem
             ELSE IF ~IsIndex(index) THEN result' = "memory" /\ UNCHANGED mem
             ELSE result' = "next" /\ mem' = [mem EXCEPT ![Word(index)] = value]
          /\ UNCHANGED <<argumentStack, console>>

ExecuteCode ==
  \/ Read \/ Write \/ Goto \/ If \/ Mov \/ Arith \/ Arg \/ Param \/ Nothing
  \/ Call \/ Return
=============================================================================
