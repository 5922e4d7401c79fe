------------------------------- MODULE IRCode -------------------------------
(***************************************************************************)
(* What the IR simulator (src/CMMIRSimulator) makes of a file: sanityCheck *)
(* and tableInsert of one line, labelCheck of all lines.  Two versions     *)
(* differ in labelCheck: 1.0.2 (irsim/irsim.py) and 1.1.0 (irsim.py).      *)
(*                                                                         *)
(* A line is a record of what its words say.  x, y, z are its operands, in *)
(* the order in which the code looks at them; an operand the line does not *)
(* have is a constant, which leaves no trace.                              *)
(***************************************************************************)
EXTENDS Integers, Sequences

CONSTANTS
  Files,     \* the files there are to open: sequences of lines that are not blank
  MemWords   \* the words of memory, 262144 in the code

None == "(none)"   \* no name of a function

Operand == [mode : {"imm", "var", "addr", "deref"}, var : STRING, val : Int]

\* WORD: a line of one word that is no instruction.  BAD: any other syntax error.
\* sym is an operator, name a label or function, size the bytes of a DEC (every other
\* variable is a word), which may be negative: offset then goes back.
Ops == {"FUNCTION", "LABEL", "GOTO", "IF", "READ", "WRITE", "MOV", "ARITH",
        "RETURN", "CALL", "ARG", "PARAM", "DEC", "BAD", "WORD"}
Line == [op : Ops, x : Operand, y : Operand, z : Operand,
         sym : STRING, name : STRING \ {None}, size : Int]

Relops == {">", "<", ">=", "<=", "==", "!="}
Arithops == {"+", "-", "*", "/"}

ASSUME CodeAssumption ==
  /\ MemWords \in Nat \ {0}
  /\ \A file \in Files : file \in Seq(Line)

VARIABLES
  file,             \* the lines of the file, as codes and codeList come to have them
  lineNo,           \* how many of them sanityCheck has let through
  currentFunction,  \* the function of the lines that follow, None at first
  entranceIP,       \* the line of main, -1 at first
  labelTable,       \* the line of each label and function
  functionDict,     \* the variables of each function, and their size altogether
  symbolTable,      \* address (-1: none) and size of each variable, in bytes
  offset            \* the first byte not given to a variable

program == <<file, lineNo, currentFunction, entranceIP, labelTable, functionDict>>
tables == <<symbolTable, offset>>

Forgotten ==
  /\ lineNo' = 0 /\ currentFunction' = None /\ entranceIP' = -1
  /\ labelTable' = <<>> /\ functionDict' = <<>> /\ symbolTable' = <<>> /\ offset' = 0

-----------------------------------------------------------------------------
(* sanityCheck                                                              *)

\* A table (a dict) with one more entry
With(table, key, entry) ==
  [k \in DOMAIN table \cup {key} |-> IF k \in DOMAIN table THEN table[k] ELSE entry]

\* A mutant: in a frame, every variable has the size of a word.
InsertWord(t, o, size) ==
  IF o.mode = "imm" \/ o.var \in DOMAIN t.symbolTable THEN t
  ELSE LET main == currentFunction = "main" IN
       [symbolTable |->
          With(t.symbolTable, o.var, [addr |-> IF main THEN t.offset ELSE -1, size |-> size]),
        functionDict |-> [t.functionDict EXCEPT ![currentFunction] =
          [place |-> With(@.place, o.var, @.size), size |-> @.size + 4]],
        offset |-> IF main THEN t.offset + size ELSE t.offset]

\* tableInsert of an operand.  A variable belongs to the function that mentions it
\* first; CALL will lay out the variables of a function one after the other, so the
\* list functionDict[f] is kept as the place of each variable in such a frame.  Only
\* variables of main get an address now.
Insert(t, o, size) ==
  IF o.mode = "imm" \/ o.var \in DOMAIN t.symbolTable THEN t
  ELSE LET main == currentFunction = "main" IN
       [symbolTable |->
          With(t.symbolTable, o.var, [addr |-> IF main THEN t.offset ELSE -1, size |-> size]),
        functionDict |-> [t.functionDict EXCEPT ![currentFunction] =
          [place |-> With(@.place, o.var, @.size), size |-> @.size + size]],
        offset |-> IF main THEN t.offset + size ELSE t.offset]

SizeOf(line) == IF line.op = "DEC" THEN line.size ELSE 4
Mentioned(line) ==
  Insert(Insert(Insert(
    [symbolTable |-> symbolTable, functionDict |-> functionDict, offset |-> offset],
    line.x, SizeOf(line)), line.y, 4), line.z, 4)

\* The lines that sanityCheck reports, so that loading fails.
Rejected(line) ==
  IF line.op \in {"FUNCTION", "LABEL"}
  THEN line.name \in DOMAIN labelTable \/ (line.op = "LABEL" /\ line.name = "main")
  ELSE \/ currentFunction = None
       \/ line.op = "BAD"
       \/ line.op \in {"READ", "PARAM"} /\ line.x.mode # "var"
       \/ line.op = "IF" /\ line.sym \notin Relops
       \/ line.op = "ARITH" /\ line.sym \notin Arithops
       \/ line.op = "DEC" /\ (line.size % 4 # 0 \/ (line.x.mode = "var" /\ line.x.var \in DOMAIN symbolTable))
       \/ line.op \in {"MOV", "ARITH", "CALL"} /\ line.x.mode \in {"imm", "addr"}

\* A mutant: lines counted from 1
LineFromOne == lineNo + 1

\* Lines are counted from 0.
LineOfLabel == lineNo

AcceptLabel(line) ==
  /\ labelTable' = With(labelTable, line.name, LineOfLabel)
  /\ IF line.op = "FUNCTION"
     THEN /\ currentFunction' = line.name
          /\ entranceIP' = IF line.name = "main" THEN lineNo ELSE entranceIP
          /\ functionDict' = With(functionDict, line.name, [place |-> <<>>, size |-> 0])
     ELSE UNCHANGED <<currentFunction, entranceIP, functionDict>>
  /\ UNCHANGED tables

AcceptInstruction(line) ==
  LET t == Mentioned(line) IN
  /\ symbolTable' = t.symbolTable /\ functionDict' = t.functionDict /\ offset' = t.offset
  /\ UNCHANGED <<labelTable, currentFunction, entranceIP>>

\* A line that is let through, and its traces in the tables
Accept(line) ==
  /\ ~Rejected(line) /\ line.op # "WORD"
  /\ IF line.op \in {"FUNCTION", "LABEL"} THEN AcceptLabel(line) ELSE AcceptInstruction(line)
  /\ lineNo' = lineNo + 1
  /\ UNCHANGED file

-----------------------------------------------------------------------------
(* labelCheck                                                               *)

\* A mutant: 1.0.2 has the fault of 1.1.0.
CheckedGotoOnly(version) == {"GOTO"}

\* In 1.1.0 the tests of IF and CALL stand inside that of GOTO and are never made.
Checked(version) == IF version = "1.1.0" THEN {"GOTO"} ELSE {"GOTO", "IF", "CALL"}

LabelsFound(version) ==
  \A i \in 1..Len(file) : file[i].op \in Checked(version) => file[i].name \in DOMAIN labelTable

-----------------------------------------------------------------------------
\* The operators on numbers: Python's division is the floor of the quotient.
Compare(a, sym, b) ==
  CASE sym = ">" -> a > b [] sym = "<" -> a < b [] sym = ">=" -> a >= b
    [] sym = "<=" -> a <= b [] sym = "==" -> a = b [] OTHER -> a # b
Compute(a, sym, b) ==
  CASE sym = "+" -> a + b [] sym = "-" -> a - b [] sym = "*" -> a * b
    [] OTHER -> IF b > 0 THEN a \div b ELSE (-a) \div (-b)
=============================================================================
