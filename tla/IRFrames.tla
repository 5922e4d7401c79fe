------------------------------ MODULE IRFrames ------------------------------
(***************************************************************************)
(* What a program means whose variables are words and whose functions keep *)
(* to themselves, with no memory and no addresses: every open call has     *)
(* variables of its own, which nobody else sees or changes until it        *)
(* returns.  IRSim implements it as long as its memory is large enough.    *)
(***************************************************************************)
EXTENDS IRCode

CONSTANT ReadValues

VARIABLES
  ip,          \* the line being executed, -1: none
  phase,       \* "ready" for the line, "done" with it, "over"; "lost": memory is full
  frames,      \* the variables of main and of each open call
  calls,       \* of each open call, where it was made and which variable gets the value
  arguments,   \* values given and not yet taken
  console      \* values written

state == <<ip, phase, frames, calls, arguments, console>>

Depth == Len(frames)
Own(f) == IF f \in DOMAIN functionDict THEN DOMAIN functionDict[f].place ELSE {}
LineAt(i) == file[i + 1]

-----------------------------------------------------------------------------
(* The programs it speaks of                                                *)

\* The line that begins the function of line i
FunctionOf(i) == CHOOSE h \in 0..i : LineAt(h).op = "FUNCTION"
                                     /\ \A k \in (h + 1)..i : LineAt(k).op # "FUNCTION"

Private(i, o) ==
  o.mode = "imm" \/ (o.mode = "var" /\ o.var \in Own(LineAt(FunctionOf(i)).name))

Plain ==
  /\ lineNo > 0 /\ lineNo = Len(file)
  /\ \A i \in 0..(Len(file) - 1) :
       LET l == LineAt(i) IN
       /\ l.op # "DEC" /\ Private(i, l.x) /\ Private(i, l.y) /\ Private(i, l.z)
       /\ l.op = "CALL" => l.name \in DOMAIN functionDict
       /\ l.op \in {"GOTO", "IF"} =>
            l.name \in DOMAIN labelTable /\ FunctionOf(labelTable[l.name]) = FunctionOf(i)
       /\ i = Len(file) - 1 \/ LineAt(i + 1).op = "FUNCTION" => l.op \in {"RETURN", "GOTO"}

-----------------------------------------------------------------------------
(* The lines                                                                *)

Value(o) == IF o.mode = "imm" THEN o.val ELSE frames[Depth][o.var]
Assign(o, v) == frames' = [frames EXCEPT ![Depth][o.var] = v]
Done == phase' = "done"

Execute(l) ==
  \/ /\ l.op \in {"FUNCTION", "LABEL"} /\ Done
     /\ UNCHANGED <<ip, frames, calls, arguments, console>>
  \/ /\ l.op = "READ" /\ Done
     /\ UNCHANGED frames \/ \E v \in ReadValues : Assign(l.x, v)
     /\ UNCHANGED <<ip, calls, arguments, console>>
  \/ /\ l.op = "WRITE" /\ Done
     /\ console' = Append(console, Value(l.x))
     /\ UNCHANGED <<ip, frames, calls, arguments>>
  \/ /\ l.op = "GOTO" /\ Done
     /\ ip' = labelTable[l.name]
     /\ UNCHANGED <<frames, calls, arguments, console>>
  \/ /\ l.op = "IF" /\ Done
     /\ ip' = IF Compare(Value(l.x), l.sym, Value(l.y)) THEN labelTable[l.name] ELSE ip
     /\ UNCHANGED <<frames, calls, arguments, console>>
  \/ /\ l.op = "MOV" /\ Done
     /\ Assign(l.x, Value(l.y))
     /\ UNCHANGED <<ip, calls, arguments, console>>
  \/ /\ l.op = "ARITH" /\ Done
     /\ IF l.sym = "/" /\ Value(l.z) = 0 THEN UNCHANGED frames
        ELSE Assign(l.x, Compute(Value(l.y), l.sym, Value(l.z)))
     /\ UNCHANGED <<ip, calls, arguments, console>>
  \/ /\ l.op = "ARG" /\ Done
     /\ arguments' = Append(arguments, Value(l.x))
     /\ UNCHANGED <<ip, frames, calls, console>>
  \/ /\ l.op = "PARAM" /\ arguments # <<>> /\ Done
     /\ Assign(l.x, arguments[Len(arguments)])
     /\ arguments' = SubSeq(arguments, 1, Len(arguments) - 1)
     /\ UNCHANGED <<ip, calls, console>>
  \/ /\ l.op = "PARAM" /\ arguments = <<>> /\ phase' = "over"
     /\ UNCHANGED <<ip, frames, calls, arguments, console>>
  \/ /\ l.op = "CALL" /\ Done      \* new variables, with whatever values
     /\ calls' = Append(calls, [ip |-> ip, target |-> l.x])
     /\ Len(frames') = Depth + 1 /\ SubSeq(frames', 1, Depth) = frames
     /\ DOMAIN frames'[Depth + 1] = Own(l.name)
     /\ ip' = labelTable[l.name]
     /\ UNCHANGED <<arguments, console>>
  \/ /\ l.op = "RETURN" /\ calls # <<>> /\ Done
     /\ LET back == calls[Len(calls)] IN
        /\ ip' = back.ip
        /\ frames' = [SubSeq(frames, 1, Depth - 1)
                        EXCEPT ![Depth - 1][back.target.var] = Value(l.x)]
     /\ calls' = SubSeq(calls, 1, Len(calls) - 1)
     /\ UNCHANGED <<arguments, console>>
  \/ /\ l.op = "RETURN" /\ calls = <<>> /\ phase' = "over"
     /\ UNCHANGED <<ip, frames, calls, arguments, console>>

-----------------------------------------------------------------------------
\* A run begins, or is stopped: everything is forgotten.
Clear ==
  /\ frames' = <<[x \in Own("main") |-> 0]>>
  /\ calls' = <<>> /\ arguments' = <<>> /\ console' = <<>>
  /\ \/ ip' = entranceIP /\ phase' = "ready"
     \/ ip' = -1 /\ Done

Advance ==
  /\ phase = "done" /\ ip >= 0
  /\ ip' = ip + 1 /\ phase' = "ready"
  /\ UNCHANGED <<frames, calls, arguments, console>>

Leave ==
  /\ phase \in {"done", "over"}
  /\ ip' = -1 /\ phase' = "done"
  /\ UNCHANGED <<frames, calls, arguments, console>>

\* Nothing is promised of other programs, nor while memory is full.
Exempt == ~Plain \/ ~Plain' \/ phase = "lost" \/ phase' = "lost"

Next ==
  \/ Exempt
  \/ phase = "ready" /\ Execute(LineAt(ip))
  \/ Advance \/ Leave \/ Clear

Init == ip = -1 /\ phase = "done"

Spec == Init /\ [][Next]_state
=============================================================================
