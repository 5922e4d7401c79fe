------------------------------ MODULE SipTables ------------------------------
(***************************************************************************)
(* The tables of the SIP processes of SimpleNet lab10, sip/dvtable.c,      *)
(* sip/routingtable.c and sip/nbrcosttable.c, and update_routingtable of   *)
(* sip/sip.c, which computes the routes.  Each table is a function of the  *)
(* node that owns it.  The topology is what topology/topology.c reads.     *)
(***************************************************************************)
EXTENDS Integers, Sequences, FiniteSets

CONSTANTS
  Nodes,          \* the nodes of topology.dat
  NodeArray,      \* topology_getNodeArray: the nodes in the order of the file
  LinkCost,       \* topology_getCost
  INFINITE_COST   \* constants.h

ASSUME TopologyAssumption ==
  /\ INFINITE_COST \in Nat \ {0}
  /\ Nodes \subseteq Nat
  /\ NodeArray \in [1..Len(NodeArray) -> Nodes]
  /\ \A n \in Nodes : \E k \in 1..Len(NodeArray) : NodeArray[k] = n
  /\ LinkCost \in [Nodes -> [Nodes -> 1..INFINITE_COST]]
  /\ \A n, d \in Nodes : LinkCost[n][d] = LinkCost[d][n]

VARIABLES
  cost,     \* distance vectors: cost[n][from][to] in the table of n
  online,   \* the onlineflag of n's own vector: the nodes n takes to be online
  next,     \* routing table of n: next[n][dest], NoHop for -1 and for no entry
  flag      \* flag of each neighbour in the neighbour cost table of n

tables == <<cost, online, next, flag>>

NoHop == -1

\* The nodes with a line of their own with n in topology.dat
Nbrs == [n \in Nodes |-> {d \in Nodes \ {n} : LinkCost[n][d] < INFINITE_COST}]

\* A node has vectors of itself and of its neighbours; the others read as infinite.
Rows == [n \in Nodes |-> Nbrs[n] \cup {n}]

\* A mutant: the cost from a node to itself is 0 in every row, known or not.
FreshCostSelf(n) == [from \in Nodes |-> [to \in Nodes |->
  IF to = from THEN 0 ELSE IF from # n THEN INFINITE_COST ELSE LinkCost[n][to]]]

\* dvtable_create, routingtable_create and nbrcosttable_create
FreshCost(n) == [from \in Nodes |-> [to \in Nodes |->
  IF from # n THEN INFINITE_COST ELSE IF to = n THEN 0 ELSE LinkCost[n][to]]]
FreshNext(n) == [to \in Nodes |-> IF to \in Nbrs[n] THEN to ELSE NoHop]
FreshFlag(n) == [nbr \in Nbrs[n] |-> 0]

TablesInit ==
  /\ cost = [n \in Nodes |-> FreshCost(n)]
  /\ online = [n \in Nodes |-> Nodes]
  /\ next = [n \in Nodes |-> FreshNext(n)]
  /\ flag = [n \in Nodes |-> FreshFlag(n)]

\* The tables of a process that starts anew.
ResetTables(n) ==
  /\ cost' = [cost EXCEPT ![n] = FreshCost(n)]
  /\ online' = [online EXCEPT ![n] = Nodes]
  /\ next' = [next EXCEPT ![n] = FreshNext(n)]
  /\ flag' = [flag EXCEPT ![n] = FreshFlag(n)]

\* A mutant: only the costs to n's own neighbours are stored.
WithVectorOfNbrs(n, on, src, vec) ==
  [cost[n] EXCEPT ![src] = [to \in Nodes |->
     IF to \in on \cap Nbrs[n] THEN vec[to] ELSE cost[n][src][to]]]

\* The vector of a neighbour is stored, but for nodes that n takes to be offline.
\* (Entries for n itself are stored or not by a flag that is never initialised;
\* nothing reads them, so they are left out.)
WithVector(n, on, src, vec) ==
  [cost[n] EXCEPT ![src] = [to \in Nodes |->
     IF to # n /\ to \in on THEN vec[to] ELSE cost[n][src][to]]]

\* A mutant: the vector of the node that is gone is cleared to 0.
CutToZero(n, dead) == [from \in Nodes |->
  IF from \notin Rows[n] THEN cost[n][from]
  ELSE IF from = dead THEN [to \in Nodes |-> 0]
  ELSE [cost[n][from] EXCEPT ![dead] = INFINITE_COST]]

\* A node is declared offline: its vector and every cost to it become infinite.
Cut(n, dead) == [from \in Nodes |->
  IF from \notin Rows[n] THEN cost[n][from]
  ELSE IF from = dead THEN [to \in Nodes |-> INFINITE_COST]
  ELSE [cost[n][from] EXCEPT ![dead] = INFINITE_COST]]

SetOffline(n, dead) ==
  /\ online' = [online EXCEPT ![n] = @ \ {dead}]
  /\ cost' = [cost EXCEPT ![n] = Cut(n, dead)]
  /\ next' = [next EXCEPT ![n][dead] = NoHop]

-----------------------------------------------------------------------------
(* update_routingtable, one turn of its outer loop: the route to d.         *)

\* A mutant: n's own way to mid is forgotten.
ViaOnly(n, mid, d) == cost[n][mid][d]

\* What going through mid costs: n's own idea of the way to mid, and mid's vector.
Via(n, mid, d) == cost[n][n][mid] + cost[n][mid][d]

\* A mutant: the direct link is forgotten.
WaysRound(n, d) == {Via(n, mid, d) : mid \in Nodes \ {n}}

\* The direct link and the ways through every other node, d itself included.
Ways(n, d) == {LinkCost[n][d]} \cup {Via(n, mid, d) : mid \in Nodes \ {n}}

\* The first node of the array that gives the cost c, when the link does not.
FirstVia(n, d, c, mid) ==
  \E k \in 1..Len(NodeArray) :
    /\ NodeArray[k] = mid /\ mid # n /\ Via(n, mid, d) = c
    /\ \A i \in 1..k-1 : NodeArray[i] # n => Via(n, NodeArray[i], d) # c

\* A mutant: an infinite direct link counts as a hop.
HopAlways(n, d, c, hop) ==
  \/ c = LinkCost[n][d] /\ hop = d
  \/ c # LinkCost[n][d] /\ hop \in Nodes /\ FirstVia(n, d, c, hop)

\* The next hop for the cost c.
Hop(n, d, c, hop) ==
  \/ c = LinkCost[n][d] /\ hop = IF c = INFINITE_COST THEN NoHop ELSE d
  \/ c # LinkCost[n][d] /\ hop \in Nodes /\ FirstVia(n, d, c, hop)

\* A mutant: whether the node is online does not matter.
UpdateRouteAnyway(n, d) ==
  IF d = n THEN UNCHANGED <<cost, next>>
  ELSE LET ways == Ways(n, d) IN
       \E c \in ways :
         /\ \A w \in ways : c <= w
         /\ cost' = [cost EXCEPT ![n][n][d] = c]
         /\ \E hop \in Nodes \cup {NoHop} :
              Hop(n, d, c, hop) /\ next' = [next EXCEPT ![n][d] = hop]

UpdateRoute(n, d) ==
  IF d = n THEN UNCHANGED <<cost, next>>
  ELSE IF d \notin online[n]
  THEN /\ cost' = [cost EXCEPT ![n][n][d] = INFINITE_COST]
       /\ next' = [next EXCEPT ![n][d] = NoHop]
  ELSE LET ways == Ways(n, d) IN
       \E c \in ways :
         /\ \A w \in ways : c <= w
         /\ cost' = [cost EXCEPT ![n][n][d] = c]
         /\ \E hop \in Nodes \cup {NoHop} :
              Hop(n, d, c, hop) /\ next' = [next EXCEPT ![n][d] = hop]
=============================================================================
