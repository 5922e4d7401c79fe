------------------------------- MODULE SipMC -------------------------------
(***************************************************************************)
(* Nodes and costs of topology/topology.dat.  The line 1 - 3 - 4, without *)
(* the link of 1 and 4.  The long line 1 - 3 - 4 - 2, where a notice has a *)
(* node to be forwarded to.                                                *)
(***************************************************************************)
EXTENDS Sip

Three == {1, 3, 4}
ThreeArray == <<1, 4, 3>>
Four == {1, 2, 3, 4}
FourArray == <<1, 4, 2, 3>>

Costs(nodes, links) == [n \in nodes |-> [d \in nodes |->
  IF \E l \in links : l[1] = {n, d} THEN (CHOOSE l \in links : l[1] = {n, d})[2] ELSE 999]]
LineLinks == {<<{1, 3}, 4>>, <<{3, 4}, 2>>}

LineCost == Costs(Three, LineLinks)
LongLineCost == Costs(Four, LineLinks \cup {<<{2, 4}, 3>>})

\* The lengths of the shortest paths, of the long line and of the line
LongLineShortest == << <<0, 9, 4, 6>>, <<9, 0, 5, 3>>, <<4, 5, 0, 2>>, <<6, 3, 2, 0>> >>
LineShortest == [n \in Three |-> [d \in Three |-> LongLineShortest[n][d]]]

\* Fewer interleavings: a pass of update_routingtable goes on before anything else
\* happens.  Its steps read and write what the locks protect, so they commute with
\* the steps of all threads but one of the same node that reads the routing table
\* without a lock, which sends notices; with such a thread there is no such order.
Hidden(n) == pass[n] # 0 /\ monitor[n].pc # "notify" /\ handler[n].pc # "forward"
PassFirst ==
  LET hidden == {n \in Nodes : Hidden(n)} IN
  hidden = {} \/ (LET n == CHOOSE n \in hidden : TRUE IN pass'[n] # pass[n])

\* A bound: one failure, which is either a stop or a neighbour taken for offline, and
\* then two updates.
OneFailure == suspects' = 0 \/ (stops' = 0 /\ updates' <= 2)
=============================================================================
