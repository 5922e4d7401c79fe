----------------------------- MODULE StcpService -----------------------------
(***************************************************************************)
(* What an STCP connection promises to the two applications: a byte stream *)
(* from the client to the server.  The client may consider a byte done     *)
(* only when the server has it.                                            *)
(***************************************************************************)
EXTENDS Naturals, Sequences

CONSTANT ChunkLens  \* the lengths of what the client gives to the service at a time

VARIABLES
  sent,       \* how many bytes the client gave to the service
  taken,      \* the bytes that reached the server, in order
  confirmed   \* how many bytes the client was told have arrived

serviceVars == <<sent, taken, confirmed>>

\* The client's stream: its n-th byte is <<1, n>>, different from all others.
Stream(n) == [i \in 1..n |-> <<1, i>>]

ServiceInit == sent = 0 /\ taken = <<>> /\ confirmed = 0

Write == \E n \in ChunkLens : sent' = sent + n /\ UNCHANGED <<taken, confirmed>>

Take == \E n \in (Len(taken) + 1)..sent : taken' = Stream(n) /\ UNCHANGED <<sent, confirmed>>

Confirm == \E n \in (confirmed + 1)..Len(taken) : confirmed' = n /\ UNCHANGED <<sent, taken>>

ServiceNext == Write \/ Take \/ Confirm

ServiceSpec == ServiceInit /\ [][ServiceNext]_serviceVars
=============================================================================
