------------------------------ MODULE IRSimMC ------------------------------
(***************************************************************************)
(* Small files for the simulator, in words: what a compiler of the course  *)
(* would write, and what a student would get wrong.                        *)
(***************************************************************************)
EXTENDS IRSim

Imm(n) == [mode |-> "imm", var |-> "", val |-> n]
Var(x) == [mode |-> "var", var |-> x, val |-> 0]
Addr(x) == [mode |-> "addr", var |-> x, val |-> 0]
Deref(x) == [mode |-> "deref", var |-> x, val |-> 0]

Words(op) == [op |-> op, x |-> Imm(0), y |-> Imm(0), z |-> Imm(0), sym |-> "", name |-> "", size |-> 4]
Function(f) == [Words("FUNCTION") EXCEPT !.name = f]
Label(l) == [Words("LABEL") EXCEPT !.name = l]
GotoL(l) == [Words("GOTO") EXCEPT !.name = l]
IfL(x, sym, y, l) == [Words("IF") EXCEPT !.x = x, !.sym = sym, !.y = y, !.name = l]
Unary(op, x) == [Words(op) EXCEPT !.x = x]
Dec(x, size) == [Words("DEC") EXCEPT !.x = Var(x), !.size = size]
Set(x, y) == [Words("MOV") EXCEPT !.x = x, !.y = y]
Calc(x, y, sym, z) == [Words("ARITH") EXCEPT !.x = x, !.y = y, !.sym = sym, !.z = z]
CallF(x, f) == [Words("CALL") EXCEPT !.x = x, !.name = f]

\* fact(n) by recursion, of a number the user types.  With 2 the memory is enough.
Factorial == <<
  Function("fact"), Unary("PARAM", Var("n")),
  IfL(Var("n"), ">", Imm(0), "more"), Unary("RETURN", Imm(1)),
  Label("more"), Calc(Var("m"), Var("n"), "-", Imm(1)),
  Unary("ARG", Var("m")), CallF(Var("r"), "fact"),
  Calc(Var("r"), Var("n"), "*", Var("r")), Unary("RETURN", Var("r")),
  Function("main"), Unary("READ", Var("k")), Unary("ARG", Var("k")),
  CallF(Var("f"), "fact"), Unary("WRITE", Var("f")), Unary("RETURN", Imm(0)) >>

\* An array that a function fills through its address, and a shared variable.
Array == <<
  Function("fill"), Unary("PARAM", Var("p")), Set(Deref("p"), Imm(7)),
  Calc(Var("p"), Var("p"), "+", Imm(4)), Set(Deref("p"), Imm(-7)),
  Set(Var("g"), Imm(1)), Unary("RETURN", Deref("p")),
  Function("main"), Dec("a", 8), Set(Var("g2"), Var("g")),
  Unary("ARG", Addr("a")), CallF(Var("v"), "fill"),
  Calc(Var("v"), Var("v"), "/", Imm(2)), Unary("WRITE", Var("v")), Unary("RETURN", Var("v")) >>

\* Two functions that call each other, one of them twice; a loop around it.
Mutual == <<
  Function("even"), Unary("PARAM", Var("e")), Calc(Var("d"), Var("e"), "/", Imm(2)),
  Unary("ARG", Var("d")), CallF(Var("d"), "odd"), Unary("RETURN", Var("d")),
  Function("odd"), Unary("PARAM", Var("o")),
  IfL(Var("o"), "<=", Imm(0), "zero"), Unary("ARG", Var("o")), CallF(Var("q"), "even"),
  Calc(Var("o"), Var("o"), "+", Var("q")), Label("zero"), Unary("RETURN", Var("o")),
  Function("main"), Set(Var("i"), Imm(2)), Label("again"),
  Unary("ARG", Var("i")), CallF(Var("s"), "odd"), Unary("WRITE", Var("s")),
  Calc(Var("i"), Var("i"), "-", Imm(1)), IfL(Var("i"), "!=", Imm(0), "again"),
  Unary("RETURN", Imm(0)) >>

\* An address beyond the memory, in each kind of line
Beyond(line) == << Function("main"), Unary("READ", Var("j")), line, Set(Var("h"), Imm(1)) >>
Lines == {Unary("WRITE", Deref("j")), IfL(Deref("j"), "<", Imm(0), "main"), Set(Var("h"), Deref("j")),
          Set(Deref("j"), Imm(5)), Unary("ARG", Deref("j")), Calc(Var("h"), Imm(6), "/", Deref("j")),
          Unary("PARAM", Var("h")), Calc(Var("h"), Imm(6), "%", Imm(4)), IfL(Imm(1), "=", Imm(1), "main")}
InCall == << Function("main"), Unary("READ", Var("j")), CallF(Var("x"), "f"), Unary("WRITE", Var("x")),
  Unary("RETURN", Imm(0)), Function("f"), Unary("RETURN", Deref("j")) >>

\* Memory that ends inside a frame: found when a variable there is used, when a call
\* there returns, and only when the tables are shown.
Full(lines) == << Function("main"), CallF(Var("x"), "f"), Function("g"), Unary("RETURN", Imm(1)),
  Function("f"), Dec("big", 44) >> \o lines
FullRead == Full(<<Unary("READ", Var("y")), Unary("RETURN", Imm(1))>>)
FullReturn == Full(<<CallF(Var("y"), "g"), Unary("RETURN", Imm(1))>>)
FullEnd == Full(<<Dec("y", 4)>>)

\* A value for *x, a call of a label, jumps without a target, one variable in two functions
StarTarget == << Function("f"), Unary("RETURN", Var("s")), Function("main"), Set(Var("s"), Imm(1)),
  CallF(Deref("x"), "f"), Calc(Deref("x"), Imm(1), "+", Imm(1)), CallF(Var("s"), "l"),
  Label("l"), GotoL("l2"), Label("l2") >>
NoTarget == << Function("main"), Unary("READ", Var("x")),
  IfL(Var("x"), "==", Imm(0), "nowhere"), CallF(Var("x"), "nobody"), Unary("RETURN", Imm(0)) >>

\* Things that go wrong at loading
Twice == << Function("main"), Label("main") >>
Alone == << Function("main"), Words("WORD") >>
NoMain == << Function("f"), Unary("RETURN", Imm(0)) >>
Big == << Function("main"), Dec("x", 48), Dec("y", 0), Unary("RETURN", Imm(0)) >>
TooBig == << Function("main"), Dec("x", 52) >>

\* A DEC of a negative size: c lies before the first word, k on a, and so do the variables
\* of f in its frame.  A second DEC, of &a, leaves no trace.
Back == << Function("main"), Dec("a", 8), Dec("b", -12), Set(Var("c"), Imm(3)), Unary("READ", Var("k")),
  [Dec("a", 4) EXCEPT !.x = Addr("a")], Unary("ARG", Var("k")), CallF(Var("k"), "f"), Unary("WRITE", Var("a")),
  Function("f"), Dec("d", -8), Unary("PARAM", Var("e")), Set(Var("g"), Var("c")), CallF(Var("e"), "f") >>

SomeFiles ==
  {Factorial, Array, Mutual, InCall, FullRead, FullReturn, FullEnd, StarTarget, NoTarget, Back,
   Twice, Alone, NoMain, Big, TooBig} \cup {Beyond(line) : line \in Lines}
Numbers == {0, 2, 100}
BothVersions == {"1.0.2", "1.1.0"}
=============================================================================
