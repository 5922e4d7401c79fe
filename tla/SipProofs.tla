----------------------------- MODULE SipProofs -----------------------------
(***************************************************************************)
(* What holds of the SIP processes for every topology, any number of route *)
(* updates, of neighbours taken for offline and of stopped processes:      *)
(* IInv(D) of Sip is inductive for every distance D, and so, with it, is   *)
(* the agreement of a node's routes with its costs and with who is offline.*)
(***************************************************************************)
EXTENDS Sip, TLAPS

-----------------------------------------------------------------------------
(* The topology and packets.                                                *)

\* Being a neighbour is mutual.
LEMMA NbrsFacts ==
  /\ NoHop \notin Nodes
  /\ \A n \in Nodes : /\ Nbrs[n] \subseteq Nodes /\ n \notin Nbrs[n]
                      /\ \A m \in Nbrs[n] : n \in Nbrs[m]
                      /\ Rows[n] = Nbrs[n] \cup {n}
<1>1. NoHop \notin Nodes
  BY TopologyAssumption DEF NoHop
<1>2. ASSUME NEW n \in Nodes
      PROVE  /\ Nbrs[n] \subseteq Nodes /\ n \notin Nbrs[n]
             /\ \A m \in Nbrs[n] : n \in Nbrs[m]
             /\ Rows[n] = Nbrs[n] \cup {n}
  BY <1>2, TopologyAssumption DEF Nbrs, Rows
<1> QED  BY <1>1, <1>2

\* The fields of a packet.
LEMMA PacketFields ==
  ASSUME NEW p \in Packet
  PROVE  /\ p.type \in {"ROUTE_UPDATE", "ROUTE_UPDATE_1", "ROUTE_UPDATE_2", "SIP"}
         /\ p.type = "ROUTE_UPDATE" => p.src \in Nodes /\ p.vec \in [Nodes -> Cost]
         /\ p.type \in {"ROUTE_UPDATE_1", "ROUTE_UPDATE_2"} =>
              p.node \in Nodes /\ p.got \in SUBSET Nodes
         /\ p.type = "SIP" => p.dest \in Nodes
BY DEF Packet

\* A notice is a packet, also with more nodes on its list.
LEMMA NoticeType ==
  ASSUME NEW type \in {"ROUTE_UPDATE_1", "ROUTE_UPDATE_2"}, NEW node \in Nodes,
         NEW got \in SUBSET Nodes
  PROVE  /\ Notice(type, node, got) \in Packet
         /\ \A n, D : GoodPacket(n, Notice(type, node, got), D)
BY DEF Notice, Packet, GoodPacket

LEMMA ListGrows ==
  ASSUME NEW p \in Packet, p.type \in {"ROUTE_UPDATE_1", "ROUTE_UPDATE_2"}, NEW n \in Nodes
  PROVE  /\ [p EXCEPT !.got = @ \cup {n}] \in Packet
         /\ [p EXCEPT !.got = @ \cup {n}].type = p.type
         /\ \A D : GoodPacket(n, [p EXCEPT !.got = @ \cup {n}], D)
<1>1. p \in [type : {"ROUTE_UPDATE_1", "ROUTE_UPDATE_2"}, node : Nodes, got : SUBSET Nodes]
  BY DEF Packet
<1> QED  BY <1>1 DEF Packet, GoodPacket

-----------------------------------------------------------------------------
(* What SON carries.                                                        *)

\* A packet is appended.
LEMMA Pushed ==
  ASSUME NEW D, NEW q, GoodQueues(q, D), NEW n \in Nodes, NEW hop \in Nbrs[n],
         NEW pkt \in Packet, GoodPacket(n, pkt, D)
  PROVE  GoodQueues([q EXCEPT ![n][hop] = Append(@, pkt)], D)
<1> DEFINE r == [q EXCEPT ![n][hop] = Append(@, pkt)]
<1>1. q[n] \in [Nbrs[n] -> Seq(Packet)] /\ q[n][hop] \in Seq(Packet) /\ DOMAIN q = Nodes
  BY DEF GoodQueues, QueuesOK
<1>2. /\ r[n][hop] = Append(q[n][hop], pkt) /\ DOMAIN r = Nodes
      /\ \A a \in Nodes : \A m \in Nbrs[a] : a # n \/ m # hop => r[a][m] = q[a][m]
      /\ \A a \in Nodes : a # n => r[a] = q[a]
  BY <1>1
<1>3. r[n] \in [Nbrs[n] -> Seq(Packet)]
  BY <1>1
<1>4. QueuesOK(r)
  BY <1>2, <1>3 DEF GoodQueues, QueuesOK
<1>5. \A k \in 1..Len(r[n][hop]) : r[n][hop][k] = pkt \/ (k \in 1..Len(q[n][hop]) /\ r[n][hop][k] = q[n][hop][k])
  BY <1>1, <1>2
<1> HIDE DEF r
<1>6. \A k \in 1..Len(r[n][hop]) : GoodPacket(n, r[n][hop][k], D)
  BY <1>5 DEF GoodQueues
<1>7. ASSUME NEW a \in Nodes, NEW m \in Nbrs[a], NEW k \in 1..Len(r[a][m])
      PROVE  GoodPacket(a, r[a][m][k], D)
  <2>1. CASE a = n /\ m = hop
    BY <2>1, <1>6, <1>7
  <2>2. CASE a # n \/ m # hop
    BY <2>2, <1>2, <1>7 DEF GoodQueues
  <2> QED  BY <2>1, <2>2
<1>8. GoodQueues(r, D)
  BY <1>4, <1>7 DEF GoodQueues
<1> QED  BY <1>8 DEF r

\* What son_sendpkt leaves under way.
LEMMA Sent ==
  ASSUME NEW D, GoodQueues(queue, D), NEW n \in Nodes, NEW hop,
         NEW pkt \in Packet, GoodPacket(n, pkt, D)
  PROVE  GoodQueues(SonSend(n, hop, pkt), D)
BY Pushed DEF SonSend

\* The first packet of a queue is taken.
LEMMA Popped ==
  ASSUME NEW D, NEW q, GoodQueues(q, D), NEW n \in Nodes, NEW m \in Nbrs[n],
         q[n][m] # << >>
  PROVE  /\ GoodQueues([q EXCEPT ![n][m] = Tail(@)], D)
         /\ Head(q[n][m]) \in Packet /\ GoodPacket(n, Head(q[n][m]), D)
<1> DEFINE r == [q EXCEPT ![n][m] = Tail(@)]
<1>1. q[n] \in [Nbrs[n] -> Seq(Packet)] /\ q[n][m] \in Seq(Packet) /\ DOMAIN q = Nodes
  BY DEF GoodQueues, QueuesOK
<1>2. /\ r[n][m] = Tail(q[n][m]) /\ DOMAIN r = Nodes
      /\ \A a \in Nodes : \A b \in Nbrs[a] : a # n \/ b # m => r[a][b] = q[a][b]
      /\ \A a \in Nodes : a # n => r[a] = q[a]
  BY <1>1
<1>3. r[n] \in [Nbrs[n] -> Seq(Packet)]
  BY <1>1
<1>4. QueuesOK(r)
  BY <1>2, <1>3 DEF GoodQueues, QueuesOK
<1>5. \A k \in 1..Len(r[n][m]) : k + 1 \in 1..Len(q[n][m]) /\ r[n][m][k] = q[n][m][k + 1]
  BY <1>1, <1>2
<1> HIDE DEF r
<1>6. \A k \in 1..Len(r[n][m]) : GoodPacket(n, r[n][m][k], D)
  BY <1>5 DEF GoodQueues
<1>7. ASSUME NEW a \in Nodes, NEW b \in Nbrs[a], NEW k \in 1..Len(r[a][b])
      PROVE  GoodPacket(a, r[a][b][k], D)
  <2>1. CASE a = n /\ b = m
    BY <2>1, <1>6, <1>7
  <2>2. CASE a # n \/ b # m
    BY <2>2, <1>2, <1>7 DEF GoodQueues
  <2> QED  BY <2>1, <2>2
<1>8. GoodQueues(r, D)
  BY <1>4, <1>7 DEF GoodQueues
<1>9. Head(q[n][m]) \in Packet /\ GoodPacket(n, Head(q[n][m]), D)
  <2>1. 1 \in 1..Len(q[n][m]) /\ Head(q[n][m]) = q[n][m][1] /\ q[n][m][1] \in Packet
    BY <1>1
  <2> QED  BY <2>1 DEF GoodQueues
<1> QED  BY <1>8, <1>9 DEF r

-----------------------------------------------------------------------------
(* The tables.                                                              *)

\* The part of the invariant about the tables
GoodTables(D) ==
  TablesOK /\ HopIsNeighbour /\ \A n \in Nodes : GoodCosts(n, cost[n], D)

\* A node changes its costs and its routes.
LEMMA TablesStep ==
  ASSUME NEW D, GoodTables(D), NEW n \in Nodes,
         NEW c, GoodCosts(n, c, D), cost' = [cost EXCEPT ![n] = c],
         NEW h \in [Nodes -> Nbrs[n] \cup {NoHop}], next' = [next EXCEPT ![n] = h],
         online' \in [Nodes -> SUBSET Nodes],
         DOMAIN flag' = Nodes /\ \A a \in Nodes : flag'[a] \in [Nbrs[a] -> 0..2]
  PROVE  GoodTables(D)'
<1>1. /\ cost' \in [Nodes -> [Nodes -> [Nodes -> Cost]]]
      /\ cost'[n] = c /\ \A a \in Nodes : a # n => cost'[a] = cost[a]
  BY DEF GoodTables, TablesOK, GoodCosts
<1>2. \A a \in Nodes : GoodCosts(a, cost'[a], D)
  BY <1>1 DEF GoodTables
<1>3. /\ next' \in [Nodes -> [Nodes -> Nodes \cup {NoHop}]]
      /\ next'[n] = h /\ \A a \in Nodes : a # n => next'[a] = next[a]
  <2>1. h \in [Nodes -> Nodes \cup {NoHop}]
    BY NbrsFacts
  <2> QED  BY <2>1 DEF GoodTables, TablesOK
<1>4. HopIsNeighbour'
  BY <1>3 DEF GoodTables, HopIsNeighbour
<1> QED  BY <1>1, <1>2, <1>3, <1>4 DEF GoodTables, TablesOK

\* The routes of a node are to neighbours.
LEMMA RoutesType ==
  ASSUME NEW D, GoodTables(D), NEW n \in Nodes
  PROVE  next[n] \in [Nodes -> Nbrs[n] \cup {NoHop}] /\ next = [next EXCEPT ![n] = next[n]]
BY DEF GoodTables, TablesOK, HopIsNeighbour

\* One entry of the routes changes.
LEMMA RouteChange ==
  ASSUME NEW D, GoodTables(D), NEW n \in Nodes, NEW d, NEW hop \in Nbrs[n] \cup {NoHop}
  PROVE  /\ [next EXCEPT ![n][d] = hop] = [next EXCEPT ![n] = [next[n] EXCEPT ![d] = hop]]
         /\ [next[n] EXCEPT ![d] = hop] \in [Nodes -> Nbrs[n] \cup {NoHop}]
<1>1. next \in [Nodes -> [Nodes -> Nodes \cup {NoHop}]] /\ next[n] \in [Nodes -> Nbrs[n] \cup {NoHop}]
  BY RoutesType DEF GoodTables, TablesOK
<1> QED  BY <1>1

\* A distance is at most any cost a table may hold of a link.
LEMMA DistanceFacts ==
  ASSUME NEW D, IsDistance(D)
  PROVE  \A x, y \in Nodes : D[x][y] \in Nat /\ D[x][y] <= LinkCost[x][y]
                             /\ D[x][y] <= INFINITE_COST /\ D[x][x] = 0
                             /\ LinkCost[x][y] \in Cost
BY TopologyAssumption DEF IsDistance, Cost

\* The tables of a process that starts.
LEMMA FreshTables ==
  ASSUME NEW D, IsDistance(D), NEW n \in Nodes
  PROVE  /\ GoodCosts(n, FreshCost(n), D)
         /\ FreshNext(n) \in [Nodes -> Nbrs[n] \cup {NoHop}]
         /\ FreshFlag(n) \in [Nbrs[n] -> 0..2]
<1>1. FreshCost(n) \in [Nodes -> [Nodes -> Cost]]
  BY DistanceFacts, TopologyAssumption DEF FreshCost, Cost
<1>2. \A from \in Nodes \ Rows[n], to \in Nodes : FreshCost(n)[from][to] = INFINITE_COST
  BY NbrsFacts DEF FreshCost
<1>3. \A from, to \in Nodes : FreshCost(n)[from][to] >= D[from][to]
  BY DistanceFacts, TopologyAssumption DEF FreshCost
<1> QED  BY <1>1, <1>2, <1>3 DEF GoodCosts, FreshNext, FreshFlag

\* A neighbour's vector is stored.
LEMMA VectorStored ==
  ASSUME NEW D, GoodTables(D), NEW n \in Nodes, NEW on, NEW src \in Nbrs[n],
         NEW vec \in [Nodes -> Cost], \A to \in Nodes : vec[to] >= D[src][to]
  PROVE  GoodCosts(n, WithVector(n, on, src, vec), D)
<1>1. /\ cost[n] \in [Nodes -> [Nodes -> Cost]] /\ GoodCosts(n, cost[n], D) /\ src \in Nodes
      /\ src \in Rows[n]
  BY NbrsFacts DEF GoodTables, TablesOK
<1> DEFINE c == WithVector(n, on, src, vec)
<1>2. /\ c \in [Nodes -> [Nodes -> Cost]]
      /\ \A from \in Nodes : from # src => c[from] = cost[n][from]
      /\ \A to \in Nodes : c[src][to] = vec[to] \/ c[src][to] = cost[n][src][to]
  BY <1>1 DEF WithVector
<1> HIDE DEF c
<1>3. \A from \in Nodes \ Rows[n], to \in Nodes : c[from][to] = INFINITE_COST
  BY <1>1, <1>2 DEF GoodCosts
<1>4. ASSUME NEW from \in Nodes, NEW to \in Nodes PROVE c[from][to] >= D[from][to]
  <2>1. cost[n][from][to] >= D[from][to]
    BY <1>1 DEF GoodCosts
  <2>2. CASE from = src
    BY <2>1, <2>2, <1>2
  <2>3. CASE from # src
    BY <2>1, <2>3, <1>2
  <2> QED  BY <2>2, <2>3
<1>5. GoodCosts(n, c, D)
  BY <1>2, <1>3, <1>4 DEF GoodCosts
<1> QED  BY <1>5 DEF c

\* One entry of a node's own vector changes.
LEMMA OwnCostChange ==
  ASSUME NEW D, NEW n \in Nodes, NEW d \in Nodes, NEW c, GoodCosts(n, c, D),
         NEW w \in Cost, w >= D[n][d]
  PROVE  GoodCosts(n, [c EXCEPT ![n][d] = w], D)
<1>1. n \in Rows[n]
  BY NbrsFacts
<1> DEFINE e == [c EXCEPT ![n][d] = w]
<1>2. /\ e \in [Nodes -> [Nodes -> Cost]]
      /\ \A from \in Nodes : from # n => e[from] = c[from]
      /\ \A to \in Nodes : to # d => e[n][to] = c[n][to]
      /\ e[n][d] = w
  BY DEF GoodCosts
<1> HIDE DEF e
<1>3. GoodCosts(n, e, D)
  BY <1>1, <1>2 DEF GoodCosts
<1> QED  BY <1>3 DEF e

\* A node is declared offline.
LEMMA CutIsGood ==
  ASSUME NEW D, IsDistance(D), GoodTables(D), NEW n \in Nodes, NEW dead \in Nodes
  PROVE  GoodCosts(n, Cut(n, dead), D)
<1>1. cost[n] \in [Nodes -> [Nodes -> Cost]] /\ GoodCosts(n, cost[n], D)
  BY DEF GoodTables, TablesOK
<1>2. INFINITE_COST \in Cost
  BY TopologyAssumption DEF Cost
<1> DEFINE c == Cut(n, dead)
<1>3. /\ c \in [Nodes -> [Nodes -> Cost]]
      /\ \A from, to \in Nodes : c[from][to] = INFINITE_COST \/ c[from][to] = cost[n][from][to]
      /\ \A from \in Nodes \ Rows[n] : c[from] = cost[n][from]
  BY <1>1, <1>2 DEF Cut
<1> HIDE DEF c
<1>4. \A from \in Nodes \ Rows[n], to \in Nodes : c[from][to] = INFINITE_COST
  BY <1>1, <1>3 DEF GoodCosts
<1>5. ASSUME NEW from \in Nodes, NEW to \in Nodes PROVE c[from][to] >= D[from][to]
  <2>1. cost[n][from][to] >= D[from][to]
    BY <1>1 DEF GoodCosts
  <2>2. INFINITE_COST >= D[from][to]
    BY DistanceFacts, TopologyAssumption
  <2> QED  BY <1>3, <2>1, <2>2
<1>6. GoodCosts(n, c, D)
  BY <1>3, <1>4, <1>5 DEF GoodCosts
<1> QED  BY <1>6 DEF c

LEMMA SetOfflineStep ==
  ASSUME NEW D, IsDistance(D), GoodTables(D), NEW n \in Nodes, NEW dead \in Nodes,
         SetOffline(n, dead), flag' = flag
  PROVE  GoodTables(D)'
<1>1. GoodCosts(n, Cut(n, dead), D) /\ cost' = [cost EXCEPT ![n] = Cut(n, dead)]
  BY CutIsGood DEF SetOffline
<1>2. /\ next' = [next EXCEPT ![n] = [next[n] EXCEPT ![dead] = NoHop]]
      /\ [next[n] EXCEPT ![dead] = NoHop] \in [Nodes -> Nbrs[n] \cup {NoHop}]
  BY RouteChange DEF SetOffline
<1>3. /\ online' \in [Nodes -> SUBSET Nodes]
      /\ DOMAIN flag' = Nodes /\ \A a \in Nodes : flag'[a] \in [Nbrs[a] -> 0..2]
  BY DEF SetOffline, GoodTables, TablesOK
<1> QED  BY <1>1, <1>2, <1>3, TablesStep

\* A way through a node costs no less than the distance; one that is not infinite
\* goes through a neighbour.
LEMMA ViaFacts ==
  ASSUME NEW D, IsDistance(D), GoodTables(D), NEW n \in Nodes, NEW d \in Nodes,
         NEW mid \in Nodes \ {n}
  PROVE  /\ Via(n, mid, d) \in Nat /\ Via(n, mid, d) >= D[n][d]
         /\ Via(n, mid, d) < INFINITE_COST => mid \in Nbrs[n]
<1>1. GoodCosts(n, cost[n], D)
  BY DEF GoodTables
<1>2. /\ cost[n][n][mid] \in Nat /\ cost[n][mid][d] \in Nat
      /\ cost[n][n][mid] >= D[n][mid] /\ cost[n][mid][d] >= D[mid][d]
  BY <1>1 DEF GoodCosts, Cost
<1>3. D[n][d] <= D[n][mid] + D[mid][d]
  BY DEF IsDistance
<1>4. D[n][d] \in Nat /\ D[n][mid] \in Nat /\ D[mid][d] \in Nat
  BY DistanceFacts
<1>5. mid \notin Nbrs[n] => cost[n][mid][d] = INFINITE_COST
  BY <1>1, NbrsFacts DEF GoodCosts
<1>6. INFINITE_COST \in Nat
  BY TopologyAssumption
<1> QED  BY <1>2, <1>3, <1>4, <1>5, <1>6 DEF Via

\* One turn of update_routingtable.
LEMMA UpdateRouteStep ==
  ASSUME NEW D, IsDistance(D), GoodTables(D), NEW n \in Nodes, NEW d \in Nodes,
         UpdateRoute(n, d), UNCHANGED <<online, flag>>
  PROVE  GoodTables(D)'
<1>1. GoodCosts(n, cost[n], D) /\ cost \in [Nodes -> [Nodes -> [Nodes -> Cost]]]
  BY DEF GoodTables, TablesOK
<1>2. /\ online' \in [Nodes -> SUBSET Nodes]
      /\ DOMAIN flag' = Nodes /\ \A a \in Nodes : flag'[a] \in [Nbrs[a] -> 0..2]
  BY DEF GoodTables, TablesOK
<1>3. ASSUME NEW w \in Cost, w >= D[n][d], cost' = [cost EXCEPT ![n][n][d] = w],
             NEW hop \in Nbrs[n] \cup {NoHop}, next' = [next EXCEPT ![n][d] = hop]
      PROVE  GoodTables(D)'
  <2>1. GoodCosts(n, [cost[n] EXCEPT ![n][d] = w], D)
    BY <1>1, <1>3, OwnCostChange
  <2>2. cost' = [cost EXCEPT ![n] = [cost[n] EXCEPT ![n][d] = w]]
    BY <1>1, <1>3
  <2>3. /\ next' = [next EXCEPT ![n] = [next[n] EXCEPT ![d] = hop]]
        /\ [next[n] EXCEPT ![d] = hop] \in [Nodes -> Nbrs[n] \cup {NoHop}]
    BY <1>3, RouteChange
  <2> QED  BY <2>1, <2>2, <2>3, <1>2, TablesStep
<1>4. CASE d = n
  <2>1. UNCHANGED <<cost, next, online, flag>>
    BY <1>4 DEF UpdateRoute
  <2> QED  BY <2>1 DEF GoodTables, TablesOK, HopIsNeighbour
<1>5. CASE d # n /\ d \notin online[n]
  <2>1. INFINITE_COST \in Cost /\ INFINITE_COST >= D[n][d]
    BY DistanceFacts, TopologyAssumption DEF Cost
  <2>2. cost' = [cost EXCEPT ![n][n][d] = INFINITE_COST] /\ next' = [next EXCEPT ![n][d] = NoHop]
    BY <1>5 DEF UpdateRoute
  <2> QED  BY <2>1, <2>2, <1>3
<1>6. CASE d # n /\ d \in online[n]
  <2>1. PICK c \in Ways(n, d), hop \in Nodes \cup {NoHop} :
          /\ \A w \in Ways(n, d) : c <= w
          /\ cost' = [cost EXCEPT ![n][n][d] = c]
          /\ Hop(n, d, c, hop) /\ next' = [next EXCEPT ![n][d] = hop]
    BY <1>6 DEF UpdateRoute
  <2>2. /\ LinkCost[n][d] \in Ways(n, d) /\ LinkCost[n][d] \in Cost /\ LinkCost[n][d] >= D[n][d]
        /\ LinkCost[n][d] <= INFINITE_COST
    BY DistanceFacts DEF Ways, Cost
  <2>3. c \in Nat /\ c >= D[n][d]
    BY <2>1, <2>2, ViaFacts DEF Ways, Cost
  <2>4. c <= LinkCost[n][d] /\ LinkCost[n][d] \in Nat /\ INFINITE_COST \in Nat
    BY <2>1, <2>2, TopologyAssumption DEF Cost
  <2>6. c \in Cost
    BY <2>2, <2>3, <2>4 DEF Cost
  <2>5. hop \in Nbrs[n] \cup {NoHop}
    <3>1. CASE c = LinkCost[n][d]
      <4>1. hop = IF c = INFINITE_COST THEN NoHop ELSE d
        BY <2>1, <3>1 DEF Hop
      <4>2. c # INFINITE_COST => d \in Nbrs[n]
        BY <3>1, <2>2, <1>6, TopologyAssumption DEF Nbrs, Cost
      <4> QED  BY <4>1, <4>2
    <3>2. CASE c # LinkCost[n][d]
      <4>1. c < INFINITE_COST
        BY <3>2, <2>2, <2>3, <2>4
      <4>2. hop \in Nodes \ {n} /\ Via(n, hop, d) = c
        BY <3>2, <2>1 DEF Hop, FirstVia
      <4> QED  BY <4>1, <4>2, ViaFacts
    <3> QED  BY <3>1, <3>2
  <2> QED  BY <2>1, <2>3, <2>5, <2>6, <1>3
<1> QED  BY <1>4, <1>5, <1>6

-----------------------------------------------------------------------------
(* The threads.                                                             *)

\* What pkthandler (h), monitor_route_update (m) and the pass (p) of n may be
Fits(n, h, m, p) ==
  /\ h \in [pc : {"idle", "update", "forward"}, pkt : Packet \cup {NoPacket}, todo : SUBSET Nodes]
  /\ m \in [pc : {"scan", "want", "update", "notify"}, nbr : Nodes \cup {NoHop}, todo : SUBSET Nodes]
  /\ p \in 0..Len(NodeArray)
  /\ ~(h.pc = "update" /\ m.pc = "update")
  /\ p # 0 => h.pc = "update" \/ m.pc = "update"
  /\ h.pc # "idle" => h.pkt \in Packet
  /\ h.pc = "update" => \/ h.pkt.type = "ROUTE_UPDATE" /\ h.pkt.src \in Nbrs[n]
                        \/ h.pkt.type = "ROUTE_UPDATE_1"
  /\ h.pc = "forward" => h.pkt.type \in {"ROUTE_UPDATE_1", "ROUTE_UPDATE_2"}
  /\ m.pc # "scan" => m.nbr \in Nbrs[n]

GoodThreads == ThreadsOK /\ OneWriter /\ ThreadsKnow

\* The threads of one node.
LEMMA ThreadsOf ==
  ASSUME GoodThreads, NEW n \in Nodes
  PROVE  /\ Fits(n, handler[n], monitor[n], pass[n])
         /\ handler = [handler EXCEPT ![n] = handler[n]]
         /\ monitor = [monitor EXCEPT ![n] = monitor[n]]
         /\ pass = [pass EXCEPT ![n] = pass[n]]
<1>1. /\ handler[n] \in [pc : {"idle", "update", "forward"}, pkt : Packet \cup {NoPacket}, todo : SUBSET Nodes]
      /\ monitor[n] \in [pc : {"scan", "want", "update", "notify"}, nbr : Nodes \cup {NoHop}, todo : SUBSET Nodes]
      /\ pass[n] \in 0..Len(NodeArray)
      /\ handler = [handler EXCEPT ![n] = handler[n]]
      /\ monitor = [monitor EXCEPT ![n] = monitor[n]]
      /\ pass = [pass EXCEPT ![n] = pass[n]]
  BY DEF GoodThreads, ThreadsOK
<1>2. /\ ~(handler[n].pc = "update" /\ monitor[n].pc = "update")
      /\ pass[n] # 0 => handler[n].pc = "update" \/ monitor[n].pc = "update"
  BY DEF GoodThreads, OneWriter, Free
<1> QED  BY <1>1, <1>2 DEF GoodThreads, ThreadsKnow, Fits

\* A node's threads take a step.
LEMMA ThreadsStep ==
  ASSUME GoodThreads, NEW n \in Nodes, NEW h, NEW m, NEW p, Fits(n, h, m, p),
         handler' = [handler EXCEPT ![n] = h], monitor' = [monitor EXCEPT ![n] = m],
         pass' = [pass EXCEPT ![n] = p], up' \subseteq Nodes
  PROVE  GoodThreads'
<1>1. ThreadsOK'
  BY DEF GoodThreads, ThreadsOK, Fits
<1>2. /\ handler'[n] = h /\ monitor'[n] = m /\ pass'[n] = p
      /\ \A a \in Nodes : a # n =>
           handler'[a] = handler[a] /\ monitor'[a] = monitor[a] /\ pass'[a] = pass[a]
  BY DEF GoodThreads, ThreadsOK
<1>3. \A a \in Nodes : Fits(a, handler'[a], monitor'[a], pass'[a])
  BY <1>2, ThreadsOf
<1>4. OneWriter'
  BY <1>3 DEF Fits, OneWriter, Free
<1>5. ThreadsKnow'
  BY <1>3 DEF Fits, ThreadsKnow
<1> QED  BY <1>1, <1>4, <1>5 DEF GoodThreads

-----------------------------------------------------------------------------
(* The whole state, part by part.                                           *)

Good(D) == GoodTables(D) /\ GoodQueues(queue, D) /\ GoodThreads /\ CountersOK

\* The inductive invariant is made of these parts.
LEMMA Parts == \A D : IInv(D) <=> Good(D)
BY DEF IInv, Good, GoodTables, GoodThreads, TypeOK, GoodQueues

\* Tables, queues, threads and counters that stay as they are stay good.
LEMMA Kept ==
  ASSUME NEW D, Good(D)
  PROVE  /\ UNCHANGED tables => GoodTables(D)'
         /\ UNCHANGED queue => GoodQueues(queue, D)'
         /\ UNCHANGED threads => GoodThreads'
         /\ UNCHANGED counters => CountersOK'
<1>1. UNCHANGED tables => GoodTables(D)'
  BY DEF Good, tables, GoodTables, TablesOK, HopIsNeighbour
<1>2. UNCHANGED queue => GoodQueues(queue, D)'
  BY DEF Good
<1>3. UNCHANGED threads => GoodThreads'
  BY DEF Good, threads, GoodThreads, ThreadsOK, OneWriter, ThreadsKnow, Free
<1>4. UNCHANGED counters => CountersOK'
  BY DEF Good, counters, CountersOK
<1> QED  BY <1>1, <1>2, <1>3, <1>4

\* Only the flag of a neighbour changes.
LEMMA FlagStep ==
  ASSUME NEW D, GoodTables(D), NEW n \in Nodes, NEW m \in Nbrs[n], NEW v \in 0..2,
         UNCHANGED <<cost, online, next>>, flag' = [flag EXCEPT ![n][m] = v]
  PROVE  GoodTables(D)'
<1>1. DOMAIN flag' = Nodes /\ \A a \in Nodes : flag'[a] \in [Nbrs[a] -> 0..2]
  BY DEF GoodTables, TablesOK
<1> QED  BY <1>1 DEF GoodTables, TablesOK, HopIsNeighbour

-----------------------------------------------------------------------------
(* The daemon and waitSTCP.                                                 *)

\* A route update tells what the sender's vector is.
LEMMA OwnUpdate ==
  ASSUME NEW D, GoodTables(D), NEW n \in Nodes
  PROVE  RouteUpdate(n) \in Packet /\ GoodPacket(n, RouteUpdate(n), D)
<1>1. cost[n][n] \in [Nodes -> Cost] /\ \A to \in Nodes : cost[n][n][to] >= D[n][to]
  BY DEF GoodTables, TablesOK, GoodCosts
<1> QED  BY <1>1 DEF RouteUpdate, Packet, GoodPacket

\* A packet is appended to all queues of a node.
LEMMA PushedToAll ==
  ASSUME NEW D, GoodQueues(queue, D), NEW n \in Nodes, NEW pkt \in Packet, GoodPacket(n, pkt, D),
         queue' = [queue EXCEPT ![n] = [m \in Nbrs[n] |-> Append(@[m], pkt)]]
  PROVE  GoodQueues(queue, D)'
<1>1. queue[n] \in [Nbrs[n] -> Seq(Packet)] /\ DOMAIN queue = Nodes
  BY DEF GoodQueues, QueuesOK
<1>2. /\ queue'[n] = [m \in Nbrs[n] |-> Append(queue[n][m], pkt)]
      /\ DOMAIN queue' = Nodes
      /\ \A a \in Nodes : a # n => queue'[a] = queue[a]
  BY <1>1
<1>3. QueuesOK(queue)'
  BY <1>1, <1>2 DEF GoodQueues, QueuesOK
<1>4. ASSUME NEW a \in Nodes, NEW m \in Nbrs[a], NEW k \in 1..Len(queue'[a][m])
      PROVE  GoodPacket(a, queue'[a][m][k], D)
  <2>1. CASE a = n
    <3>1. queue[n][m] \in Seq(Packet) /\ queue'[n][m] = Append(queue[n][m], pkt)
      BY <1>1, <1>2, <2>1
    <3>2. queue'[n][m][k] = pkt
          \/ (k \in 1..Len(queue[n][m]) /\ queue'[n][m][k] = queue[n][m][k])
      BY <3>1, <2>1, <1>4
    <3> QED  BY <3>2, <2>1 DEF GoodQueues
  <2>2. CASE a # n
    BY <2>2, <1>2, <1>4 DEF GoodQueues
  <2> QED  BY <2>1, <2>2
<1> QED  BY <1>3, <1>4 DEF GoodQueues

LEMMA BroadcastStep ==
  ASSUME NEW D, Good(D), NEW n \in Nodes, Broadcast(n)
  PROVE  Good(D)'
<1>1. GoodTables(D)' /\ GoodThreads'
  BY Kept DEF Broadcast
<1>2. GoodQueues(queue, D)'
  BY OwnUpdate, PushedToAll DEF Good, Broadcast
<1>3. CountersOK'
  BY BoundsAssumption DEF Good, Broadcast, CountersOK
<1> QED  BY <1>1, <1>2, <1>3 DEF Good

\* A data packet is a packet.
LEMMA DataType ==
  ASSUME NEW dest \in Nodes
  PROVE  Data(dest) \in Packet /\ \A n, D : GoodPacket(n, Data(dest), D)
BY DEF Data, Packet, GoodPacket

LEMMA SendDataStep ==
  ASSUME NEW D, Good(D), NEW n \in Nodes, NEW dest \in Nodes, SendData(n, dest)
  PROVE  Good(D)'
<1>1. GoodTables(D)' /\ GoodThreads'
  BY Kept DEF SendData
<1>2. GoodQueues(queue, D)'
  <2>1. GoodQueues(SonSend(n, next[n][dest], Data(dest)), D)
    BY DataType, Sent DEF Good
  <2> QED  BY <2>1 DEF SendData
<1>3. CountersOK'
  BY BoundsAssumption DEF Good, SendData, CountersOK
<1> QED  BY <1>1, <1>2, <1>3 DEF Good

-----------------------------------------------------------------------------
(* pkthandler.                                                              *)

\* What taking a packet leaves under way, and the packet.
LEMMA TakeStep ==
  ASSUME NEW D, Good(D), NEW n \in Nodes, NEW from \in Nbrs[n], queue[from][n] # <<>>
  PROVE  /\ GoodQueues([queue EXCEPT ![from][n] = Tail(@)], D)
         /\ Head(queue[from][n]) \in Packet
         /\ GoodPacket(from, Head(queue[from][n]), D)
         /\ from \in Nodes
BY NbrsFacts, Popped DEF Good

LEMMA DeliverStep ==
  ASSUME NEW D, Good(D), NEW n \in Nodes, NEW from \in Nbrs[n], Deliver(n, from) \/ Drop(n, from)
  PROVE  Good(D)'
<1>1. GoodTables(D)' /\ GoodThreads' /\ CountersOK'
  BY Kept DEF Deliver, Drop
<1>2. GoodQueues(queue, D)'
  BY TakeStep DEF Deliver, Drop, Take
<1> QED  BY <1>1, <1>2 DEF Good

LEMMA ForwardStep ==
  ASSUME NEW D, Good(D), NEW n \in Nodes, NEW from \in Nbrs[n], Forward(n, from)
  PROVE  Good(D)'
<1>1. GoodTables(D)' /\ GoodThreads' /\ CountersOK'
  BY Kept DEF Forward
<1> DEFINE pkt == Head(queue[from][n])
           rest == [queue EXCEPT ![from][n] = Tail(@)]
           hop == next[n][pkt.dest]
<1>2. GoodQueues(rest, D) /\ pkt \in Packet
  BY TakeStep DEF Forward
<1>3. /\ pkt.type = "SIP"
      /\ hop \in Nbrs[n] => queue' = [rest EXCEPT ![n][hop] = Append(@, pkt)]
      /\ hop \notin Nbrs[n] => queue' = rest
  BY DEF Forward
<1>4. GoodPacket(n, pkt, D)
  BY <1>3 DEF GoodPacket
<1> HIDE DEF pkt, rest, hop
<1>5. GoodQueues(queue', D)
  BY <1>2, <1>3, <1>4, Pushed
<1> QED  BY <1>1, <1>5 DEF Good

\* The handler takes the locks: no pass is going on, and the monitor is outside.
LEMMA FreeFacts ==
  ASSUME NEW n \in Nodes, Free(n), GoodThreads
  PROVE  pass[n] = 0 /\ monitor[n].pc # "update"
BY DEF GoodThreads, OneWriter, Free

LEMMA HandleUpdateStep ==
  ASSUME NEW D, IsDistance(D), Good(D), NEW n \in Nodes, NEW from \in Nbrs[n],
         HandleUpdate(n, from)
  PROVE  Good(D)'
<1> DEFINE pkt == Head(queue[from][n])
           src == pkt.src
           on == online[n] \cup {src}
           known == WithVector(n, on, src, pkt.vec)
           back == src \notin online[n]
           c == IF back THEN [known EXCEPT ![n][src] = LinkCost[n][src]] ELSE known
           h == [pc |-> "update", pkt |-> pkt, todo |-> IF back THEN Nbrs[n] \ {src} ELSE {}]
<1>1. /\ GoodQueues(queue, D)' /\ pkt \in Packet /\ pkt.type = "ROUTE_UPDATE"
      /\ src = from /\ src \in Nodes /\ pkt.vec \in [Nodes -> Cost]
      /\ \A to \in Nodes : pkt.vec[to] >= D[src][to]
  BY TakeStep, PacketFields DEF HandleUpdate, Take, GoodPacket
<1>2. /\ online' = [online EXCEPT ![n] = on] /\ cost' = [cost EXCEPT ![n] = c]
      /\ next' = IF back THEN [next EXCEPT ![n][src] = src] ELSE next
      /\ handler' = [handler EXCEPT ![n] = h] /\ pass' = [pass EXCEPT ![n] = 1]
      /\ UNCHANGED <<flag, up, monitor, counters>> /\ Free(n)
  BY DEF HandleUpdate
<1>3. GoodTables(D) /\ GoodThreads
  BY DEF Good
<1>4. GoodTables(D)'
  <2>1. GoodCosts(n, known, D)
    BY <1>1, <1>3, VectorStored
  <2>2. GoodCosts(n, c, D)
    <3>1. LinkCost[n][src] \in Cost /\ LinkCost[n][src] >= D[n][src]
      BY <1>1, DistanceFacts
    <3>2. GoodCosts(n, [known EXCEPT ![n][src] = LinkCost[n][src]], D)
      BY <1>1, <2>1, <3>1, OwnCostChange
    <3> QED  BY <2>1, <3>2
  <2>3. PICK g \in [Nodes -> Nbrs[n] \cup {NoHop}] : next' = [next EXCEPT ![n] = g]
    <3>1. CASE back
      BY <1>1, <1>2, <1>3, <3>1, RouteChange
    <3>2. CASE ~back
      BY <1>2, <1>3, <3>2, RoutesType
    <3> QED  BY <3>1, <3>2
  <2>4. /\ online' \in [Nodes -> SUBSET Nodes]
        /\ DOMAIN flag' = Nodes /\ \A a \in Nodes : flag'[a] \in [Nbrs[a] -> 0..2]
    BY <1>1, <1>2, <1>3 DEF GoodTables, TablesOK
  <2> HIDE DEF c
  <2> QED  BY <1>2, <1>3, <2>2, <2>3, <2>4, TablesStep
<1>5. GoodThreads'
  <2>1. /\ Fits(n, handler[n], monitor[n], pass[n])
        /\ monitor = [monitor EXCEPT ![n] = monitor[n]]
    BY <1>3, ThreadsOf
  <2>2. monitor[n].pc # "update" /\ Nbrs[n] \subseteq Nodes /\ 1 \in 0..Len(NodeArray)
    <3>1. Free(n) /\ GoodThreads
      BY <1>2, <1>3
    <3>2. monitor[n].pc # "update"
      BY <3>1, FreeFacts
    <3>3. NodeArray \in Seq(Nodes) /\ Len(NodeArray) >= 1
      BY TopologyAssumption
    <3>4. 1 \in 0..Len(NodeArray)
      BY <3>3
    <3> QED  BY <3>2, <3>4, NbrsFacts
  <2>3. Fits(n, h, monitor[n], 1)
    BY <1>1, <2>1, <2>2 DEF Fits
  <2>4. up' \subseteq Nodes
    BY <1>2, <1>3 DEF GoodThreads, ThreadsOK
  <2> HIDE DEF h
  <2> QED  BY <1>2, <1>3, <2>1, <2>3, <2>4, ThreadsStep
<1>6. CountersOK'
  BY <1>2, Kept
<1> QED  BY <1>1, <1>4, <1>5, <1>6 DEF Good

\* Only pkthandler takes a step, or only the monitor does.
LEMMA OneThread ==
  ASSUME GoodThreads, NEW n \in Nodes, NEW t, up' = up, pass' = pass
  PROVE  /\ Fits(n, t, monitor[n], pass[n])
            /\ handler' = [handler EXCEPT ![n] = t] /\ monitor' = monitor => GoodThreads'
         /\ Fits(n, handler[n], t, pass[n])
            /\ monitor' = [monitor EXCEPT ![n] = t] /\ handler' = handler => GoodThreads'
<1>1. up' \subseteq Nodes
  BY DEF GoodThreads, ThreadsOK
<1> QED  BY <1>1, ThreadsOf, ThreadsStep

\* Less to do for a thread, and the notice on its list.
LEMMA LessToDo ==
  ASSUME GoodThreads, NEW n \in Nodes, NEW m
  PROVE  /\ Fits(n, [handler[n] EXCEPT !.todo = @ \ {m}], monitor[n], pass[n])
         /\ [handler EXCEPT ![n].todo = @ \ {m}]
              = [handler EXCEPT ![n] = [handler[n] EXCEPT !.todo = @ \ {m}]]
         /\ Fits(n, handler[n], [monitor[n] EXCEPT !.todo = @ \ {m}], pass[n])
         /\ [monitor EXCEPT ![n].todo = @ \ {m}]
              = [monitor EXCEPT ![n] = [monitor[n] EXCEPT !.todo = @ \ {m}]]
<1>1. Fits(n, handler[n], monitor[n], pass[n])
  BY ThreadsOf
<1>2. Fits(n, [handler[n] EXCEPT !.todo = @ \ {m}], monitor[n], pass[n])
  BY <1>1 DEF Fits
<1>3. Fits(n, handler[n], [monitor[n] EXCEPT !.todo = @ \ {m}], pass[n])
  BY <1>1 DEF Fits
<1>4. /\ [handler EXCEPT ![n].todo = @ \ {m}]
           = [handler EXCEPT ![n] = [handler[n] EXCEPT !.todo = @ \ {m}]]
      /\ [monitor EXCEPT ![n].todo = @ \ {m}]
           = [monitor EXCEPT ![n] = [monitor[n] EXCEPT !.todo = @ \ {m}]]
  BY DEF GoodThreads, ThreadsOK
<1> QED  BY <1>2, <1>3, <1>4

LEMMA NotifyBackStep ==
  ASSUME NEW D, Good(D), NEW n \in Nodes, NEW m \in Nbrs[n], NotifyBack(n, m)
  PROVE  Good(D)'
<1>1. GoodTables(D)' /\ CountersOK'
  BY Kept DEF NotifyBack
<1>2. GoodThreads'
  BY LessToDo, OneThread DEF Good, NotifyBack
<1>3. handler[n].pkt.src \in Nodes
  <2>1. handler[n].pc = "update" /\ handler[n].pkt.type = "ROUTE_UPDATE"
    BY DEF NotifyBack, Updated
  <2> QED  BY <2>1, ThreadsOf, NbrsFacts DEF Good, Fits
<1>4. GoodQueues(queue, D)'
  <2> DEFINE pkt == Notice("ROUTE_UPDATE_2", handler[n].pkt.src, {n})
  <2>1. pkt \in Packet /\ GoodPacket(n, pkt, D)
    BY <1>3, NoticeType
  <2>2. queue' = SonSend(n, next[n][m], pkt) \/ queue' = queue
    BY DEF NotifyBack
  <2> HIDE DEF pkt
  <2>3. GoodQueues(queue', D)
    BY <2>1, <2>2, Sent DEF Good
  <2> QED  BY <2>3
<1> QED  BY <1>1, <1>2, <1>4 DEF Good

\* A thread that is idle, or scanning, fits with any other.
LEMMA AtRest ==
  ASSUME NEW n \in Nodes, NEW h, NEW m, NEW p, Fits(n, h, m, p)
  PROVE  /\ p = 0 \/ m.pc = "update" => Fits(n, Idle, m, p)
         /\ p = 0 \/ h.pc = "update" => Fits(n, h, Scanning, p)
BY DEF Fits, Idle, Scanning

LEMMA SetFlagStep ==
  ASSUME NEW D, Good(D), NEW n \in Nodes, SetFlag(n)
  PROVE  Good(D)'
<1>1. /\ handler[n].pkt.src \in Nbrs[n] /\ pass[n] = 0
      /\ Fits(n, handler[n], monitor[n], pass[n])
  BY ThreadsOf DEF SetFlag, Updated, Good, Fits
<1>2. GoodTables(D)'
  <2>1. /\ UNCHANGED <<cost, online, next>> /\ 1 \in 0..2
        /\ flag' = [flag EXCEPT ![n][handler[n].pkt.src] = 1]
    BY DEF SetFlag
  <2>2. GoodTables(D)
    BY DEF Good
  <2> QED  BY <1>1, <2>1, <2>2, FlagStep
<1>3. GoodThreads'
  BY <1>1, AtRest, OneThread DEF Good, SetFlag
<1>4. GoodQueues(queue, D)' /\ CountersOK'
  BY Kept DEF SetFlag
<1> QED  BY <1>2, <1>3, <1>4 DEF Good

LEMMA HandleOfflineStep ==
  ASSUME NEW D, IsDistance(D), Good(D), NEW n \in Nodes, NEW from \in Nbrs[n],
         HandleOffline(n, from)
  PROVE  Good(D)'
<1> DEFINE pkt == Head(queue[from][n])
           h == [pc |-> "update", pkt |-> pkt, todo |-> {}]
<1>1. /\ GoodQueues(queue, D)' /\ pkt \in Packet /\ pkt.type = "ROUTE_UPDATE_1"
      /\ pkt.node \in Nodes
  BY TakeStep, PacketFields DEF HandleOffline, Take
<1>2. /\ SetOffline(n, pkt.node) /\ flag' = flag
      /\ handler' = [handler EXCEPT ![n] = h] /\ pass' = [pass EXCEPT ![n] = 1]
      /\ UNCHANGED <<up, monitor, counters>> /\ Free(n)
  BY DEF HandleOffline
<1>3. GoodTables(D)'
  BY <1>1, <1>2, SetOfflineStep DEF Good
<1>4. GoodThreads'
  <2>1. /\ Fits(n, handler[n], monitor[n], pass[n])
        /\ monitor = [monitor EXCEPT ![n] = monitor[n]]
    BY ThreadsOf DEF Good
  <2>2. monitor[n].pc # "update" /\ 1 \in 0..Len(NodeArray)
    BY <1>2, FreeFacts, TopologyAssumption DEF Good
  <2>3. Fits(n, h, monitor[n], 1)
    BY <1>1, <2>1, <2>2 DEF Fits
  <2>4. up' \subseteq Nodes
    BY <1>2 DEF Good, GoodThreads, ThreadsOK
  <2> HIDE DEF h
  <2> QED  BY <1>2, <2>1, <2>3, <2>4, ThreadsStep DEF Good
<1>5. CountersOK'
  BY <1>2, Kept
<1> QED  BY <1>1, <1>3, <1>4, <1>5 DEF Good

LEMMA StartForwardingStep ==
  ASSUME NEW D, Good(D), NEW n \in Nodes, StartForwarding(n)
  PROVE  Good(D)'
<1>1. GoodTables(D)' /\ GoodQueues(queue, D)' /\ CountersOK'
  BY Kept DEF StartForwarding
<1> DEFINE h == [handler[n] EXCEPT !.pc = "forward", !.todo = Nbrs[n]]
<1>2. handler' = [handler EXCEPT ![n] = h]
  BY DEF StartForwarding, Good, GoodThreads, ThreadsOK
<1>3. /\ Fits(n, handler[n], monitor[n], pass[n]) /\ pass[n] = 0
      /\ handler[n].pc = "update" /\ handler[n].pkt.type = "ROUTE_UPDATE_1"
      /\ Nbrs[n] \subseteq Nodes
  BY ThreadsOf, NbrsFacts DEF StartForwarding, Updated, Good
<1>4. Fits(n, h, monitor[n], pass[n])
  BY <1>3 DEF Fits
<1> HIDE DEF h
<1>5. GoodThreads'
  BY <1>2, <1>4, OneThread DEF Good, StartForwarding
<1> QED  BY <1>1, <1>5 DEF Good

LEMMA HandleOnlineStep ==
  ASSUME NEW D, Good(D), NEW n \in Nodes, NEW from \in Nbrs[n], HandleOnline(n, from)
  PROVE  Good(D)'
<1> DEFINE pkt == Head(queue[from][n])
           h == [pc |-> "forward", pkt |-> pkt, todo |-> Nbrs[n] \ {pkt.node}]
<1>1. /\ GoodQueues(queue, D)' /\ pkt \in Packet /\ pkt.type = "ROUTE_UPDATE_2"
      /\ pkt.node \in Nodes
  BY TakeStep, PacketFields DEF HandleOnline, Take
<1>2. GoodTables(D)'
  <2>1. online' \in [Nodes -> SUBSET Nodes]
    BY <1>1 DEF HandleOnline, Good, GoodTables, TablesOK
  <2> QED  BY <2>1 DEF HandleOnline, Good, GoodTables, TablesOK, HopIsNeighbour
<1>3. GoodThreads'
  <2>1. Fits(n, handler[n], monitor[n], pass[n]) /\ Nbrs[n] \subseteq Nodes
    BY ThreadsOf, NbrsFacts DEF Good
  <2>2. pass[n] = 0 /\ monitor[n].pc # "update"
    BY FreeFacts DEF HandleOnline, Good
  <2>3. Fits(n, h, monitor[n], pass[n])
    BY <1>1, <2>1, <2>2 DEF Fits
  <2>4. handler' = [handler EXCEPT ![n] = h] /\ UNCHANGED <<up, monitor, pass>>
    BY DEF HandleOnline
  <2> HIDE DEF h
  <2> QED  BY <2>3, <2>4, OneThread DEF Good
<1>4. CountersOK'
  BY Kept DEF HandleOnline
<1> QED  BY <1>1, <1>2, <1>3, <1>4 DEF Good

LEMMA ForwardNoticeStep ==
  ASSUME NEW D, Good(D), NEW n \in Nodes, NEW m \in Nbrs[n], ForwardNotice(n, m)
  PROVE  Good(D)'
<1>1. GoodTables(D)' /\ CountersOK'
  BY Kept DEF ForwardNotice
<1> DEFINE pkt == [handler[n].pkt EXCEPT !.got = @ \cup {n}]
           h == [handler[n] EXCEPT !.pkt = pkt, !.todo = @ \ {m}]
<1>2. /\ Fits(n, handler[n], monitor[n], pass[n]) /\ handler[n].pc = "forward"
      /\ handler[n].pkt \in Packet
      /\ handler[n].pkt.type \in {"ROUTE_UPDATE_1", "ROUTE_UPDATE_2"}
  BY ThreadsOf DEF ForwardNotice, Good, Fits
<1>3. pkt \in Packet /\ pkt.type = handler[n].pkt.type /\ GoodPacket(n, pkt, D)
  BY <1>2, ListGrows
<1>4. CASE m \in online[n] /\ m \notin handler[n].pkt.got
  <2>1. /\ queue' = SonSend(n, next[n][m], pkt)
        /\ handler' = [handler EXCEPT ![n].pkt = pkt, ![n].todo = @ \ {m}]
        /\ UNCHANGED <<up, monitor, pass>>
    BY <1>4 DEF ForwardNotice
  <2> HIDE DEF pkt
  <2>2. GoodQueues(queue', D)
    BY <1>3, <2>1, Sent DEF Good
  <2>3. handler' = [handler EXCEPT ![n] = h]
    BY <2>1 DEF Good, GoodThreads, ThreadsOK
  <2>4. Fits(n, h, monitor[n], pass[n])
    BY <1>2, <1>3 DEF Fits
  <2> HIDE DEF h
  <2>5. GoodThreads'
    BY <2>1, <2>3, <2>4, OneThread DEF Good
  <2> QED  BY <1>1, <2>2, <2>5 DEF Good
<1>5. CASE ~(m \in online[n] /\ m \notin handler[n].pkt.got)
  <2>1. /\ handler' = [handler EXCEPT ![n].todo = @ \ {m}]
        /\ UNCHANGED <<up, monitor, pass, queue>>
    BY <1>5 DEF ForwardNotice
  <2>2. GoodThreads'
    BY <2>1, LessToDo, OneThread DEF Good
  <2> QED  BY <1>1, <2>1, <2>2, Kept DEF Good
<1> QED  BY <1>4, <1>5

LEMMA EndForwardingStep ==
  ASSUME NEW D, Good(D), NEW n \in Nodes, EndForwarding(n)
  PROVE  Good(D)'
<1>1. GoodTables(D)' /\ GoodQueues(queue, D)' /\ CountersOK'
  BY Kept DEF EndForwarding
<1>2. Fits(n, Idle, monitor[n], pass[n])
  BY ThreadsOf, AtRest DEF EndForwarding, Good, Fits
<1>3. GoodThreads'
  BY <1>2, OneThread DEF Good, EndForwarding
<1> QED  BY <1>1, <1>3 DEF Good

-----------------------------------------------------------------------------
(* update_routingtable and monitor_route_update.                            *)

LEMMA UpdateTurnStep ==
  ASSUME NEW D, IsDistance(D), Good(D), NEW n \in Nodes, UpdateTurn(n)
  PROVE  Good(D)'
<1>1. Fits(n, handler[n], monitor[n], pass[n]) /\ pass[n] # 0
  BY ThreadsOf DEF UpdateTurn, Good
<1>2. pass[n] \in 1..Len(NodeArray) /\ Len(NodeArray) \in Nat
  <2>1. Len(NodeArray) \in Nat
    BY TopologyAssumption
  <2> QED  BY <1>1, <2>1 DEF Fits
<1>3. GoodTables(D)'
  <2>1. NodeArray[pass[n]] \in Nodes
    BY <1>2, TopologyAssumption
  <2> QED  BY <2>1, UpdateRouteStep DEF UpdateTurn, Good
<1>4. GoodThreads'
  <2> DEFINE p == IF pass[n] = Len(NodeArray) THEN 0 ELSE pass[n] + 1
  <2>1. p \in 0..Len(NodeArray)
    BY <1>2
  <2>2. Fits(n, handler[n], monitor[n], p)
    BY <1>1, <2>1 DEF Fits
  <2>3. /\ pass' = [pass EXCEPT ![n] = p] /\ handler' = handler /\ monitor' = monitor
        /\ up' = up
    BY DEF UpdateTurn
  <2>4. up' \subseteq Nodes
    BY <2>3 DEF Good, GoodThreads, ThreadsOK
  <2>5. handler' = [handler EXCEPT ![n] = handler[n]] /\ monitor' = [monitor EXCEPT ![n] = monitor[n]]
    BY <2>3, ThreadsOf DEF Good
  <2> HIDE DEF p
  <2> QED  BY <2>2, <2>3, <2>4, <2>5, ThreadsStep DEF Good
<1>5. GoodQueues(queue, D)' /\ CountersOK'
  BY Kept DEF UpdateTurn
<1> QED  BY <1>3, <1>4, <1>5 DEF Good

LEMMA LookStep ==
  ASSUME NEW D, Good(D), NEW n \in Nodes, NEW nbr \in Nbrs[n], Look(n, nbr)
  PROVE  Good(D)'
<1>1. GoodQueues(queue, D)'
  BY Kept DEF Look
<1>2. CASE UNCHANGED <<monitor, suspects>> /\ flag' = [flag EXCEPT ![n][nbr] = 0]
  <2>1. GoodThreads' /\ CountersOK'
    BY <1>2, Kept DEF Look, threads, counters
  <2>2. UNCHANGED <<cost, online, next>> /\ 0 \in 0..2 /\ GoodTables(D)
    BY DEF Look, Good
  <2>3. GoodTables(D)'
    BY <1>2, <2>2, FlagStep
  <2> QED  BY <1>1, <2>1, <2>3 DEF Good
<1> DEFINE m == [pc |-> "want", nbr |-> nbr, todo |-> {}]
<1>3. CASE /\ suspects < MaxSuspects /\ suspects' = suspects + 1 /\ UNCHANGED flag
           /\ monitor' = [monitor EXCEPT ![n] = m]
  <2>1. GoodTables(D)'
    BY <1>3, Kept DEF Look, tables
  <2>2. CountersOK'
    BY <1>3, BoundsAssumption DEF Look, Good, CountersOK
  <2>3. Fits(n, handler[n], monitor[n], pass[n]) /\ monitor[n].pc = "scan" /\ Nbrs[n] \subseteq Nodes
    BY ThreadsOf, NbrsFacts DEF Look, Good
  <2>4. Fits(n, handler[n], m, pass[n])
    BY <2>3 DEF Fits
  <2> HIDE DEF m
  <2>5. GoodThreads'
    BY <1>3, <2>4, OneThread DEF Look, Good
  <2> QED  BY <1>1, <2>1, <2>2, <2>5 DEF Good
<1> QED  BY <1>2, <1>3 DEF Look

LEMMA MarkOfflineStep ==
  ASSUME NEW D, IsDistance(D), Good(D), NEW n \in Nodes, MarkOffline(n)
  PROVE  Good(D)'
<1>1. /\ Fits(n, handler[n], monitor[n], pass[n])
      /\ handler = [handler EXCEPT ![n] = handler[n]]
  BY ThreadsOf DEF Good
<1>2. /\ monitor[n].pc = "want" /\ monitor[n].nbr \in Nbrs[n] /\ monitor[n].nbr \in Nodes
      /\ handler[n].pc # "update"
  BY <1>1, NbrsFacts DEF MarkOffline, Free, Fits
<1>3. GoodTables(D)'
  BY <1>2, SetOfflineStep DEF MarkOffline, Good
<1>4. GoodThreads'
  <2> DEFINE m == [monitor[n] EXCEPT !.pc = "update"]
  <2>1. 1 \in 0..Len(NodeArray)
    BY <1>2, TopologyAssumption
  <2>2. Fits(n, handler[n], m, 1)
    BY <1>1, <1>2, <2>1 DEF Fits
  <2>3. /\ monitor' = [monitor EXCEPT ![n] = m] /\ pass' = [pass EXCEPT ![n] = 1]
        /\ handler' = handler
    BY DEF MarkOffline, Good, GoodThreads, ThreadsOK
  <2>4. up' \subseteq Nodes
    BY DEF MarkOffline, Good, GoodThreads, ThreadsOK
  <2> HIDE DEF m
  <2> QED  BY <1>1, <2>2, <2>3, <2>4, ThreadsStep DEF Good
<1>5. GoodQueues(queue, D)' /\ CountersOK'
  BY Kept DEF MarkOffline
<1> QED  BY <1>3, <1>4, <1>5 DEF Good

LEMMA StartNotifyingStep ==
  ASSUME NEW D, Good(D), NEW n \in Nodes, StartNotifying(n)
  PROVE  Good(D)'
<1>1. GoodTables(D)' /\ GoodQueues(queue, D)' /\ CountersOK'
  BY Kept DEF StartNotifying
<1> DEFINE m == [monitor[n] EXCEPT !.pc = "notify", !.todo = Nbrs[n]]
<1>2. monitor' = [monitor EXCEPT ![n] = m]
  BY DEF StartNotifying, Good, GoodThreads, ThreadsOK
<1>3. /\ Fits(n, handler[n], monitor[n], pass[n]) /\ pass[n] = 0 /\ monitor[n].pc = "update"
      /\ Nbrs[n] \subseteq Nodes
  BY ThreadsOf, NbrsFacts DEF StartNotifying, Good
<1>4. Fits(n, handler[n], m, pass[n])
  BY <1>3 DEF Fits
<1> HIDE DEF m
<1>5. GoodThreads'
  BY <1>2, <1>4, OneThread DEF Good, StartNotifying
<1> QED  BY <1>1, <1>5 DEF Good

LEMMA NotifyOfflineStep ==
  ASSUME NEW D, Good(D), NEW n \in Nodes, NEW m \in Nbrs[n], NotifyOffline(n, m)
  PROVE  Good(D)'
<1>1. GoodTables(D)' /\ CountersOK'
  BY Kept DEF NotifyOffline
<1>2. GoodThreads'
  BY LessToDo, OneThread DEF Good, NotifyOffline
<1>3. monitor[n].nbr \in Nodes
  <2>1. monitor[n].pc = "notify"
    BY DEF NotifyOffline
  <2> QED  BY <2>1, ThreadsOf, NbrsFacts DEF Good, Fits
<1>4. GoodQueues(queue, D)'
  <2> DEFINE pkt == Notice("ROUTE_UPDATE_1", monitor[n].nbr, {n})
  <2>1. pkt \in Packet /\ GoodPacket(n, pkt, D)
    BY <1>3, NoticeType
  <2>2. queue' = SonSend(n, next[n][m], pkt) \/ queue' = queue
    BY DEF NotifyOffline
  <2> HIDE DEF pkt
  <2>3. GoodQueues(queue', D)
    BY <2>1, <2>2, Sent DEF Good
  <2> QED  BY <2>3
<1> QED  BY <1>1, <1>2, <1>4 DEF Good

LEMMA EndNotifyingStep ==
  ASSUME NEW D, Good(D), NEW n \in Nodes, EndNotifying(n)
  PROVE  Good(D)'
<1>1. Fits(n, handler[n], monitor[n], pass[n]) /\ monitor[n].pc = "notify"
  BY ThreadsOf DEF EndNotifying, Good
<1>2. monitor[n].nbr \in Nbrs[n]
  BY <1>1 DEF Fits
<1>3. GoodTables(D)'
  <2>1. /\ UNCHANGED <<cost, online, next>> /\ 2 \in 0..2
        /\ flag' = [flag EXCEPT ![n][monitor[n].nbr] = 2]
    BY DEF EndNotifying
  <2>2. GoodTables(D)
    BY DEF Good
  <2> QED  BY <1>2, <2>1, <2>2, FlagStep
<1>4. Fits(n, handler[n], Scanning, pass[n])
  BY <1>1, AtRest DEF Fits
<1>5. GoodThreads'
  BY <1>4, OneThread DEF Good, EndNotifying
<1>6. GoodQueues(queue, D)' /\ CountersOK'
  BY Kept DEF EndNotifying
<1> QED  BY <1>3, <1>5, <1>6 DEF Good

-----------------------------------------------------------------------------
(* The process.                                                             *)

LEMMA Fresh ==
  ASSUME NEW n \in Nodes
  PROVE  Fits(n, Idle, Scanning, 0)
BY TopologyAssumption DEF Fits, Idle, Scanning

LEMMA StopStep ==
  ASSUME NEW D, IsDistance(D), Good(D), NEW n \in Nodes, Stop(n)
  PROVE  Good(D)'
<1>1. GoodTables(D)'
  <2>1. /\ GoodCosts(n, FreshCost(n), D) /\ FreshNext(n) \in [Nodes -> Nbrs[n] \cup {NoHop}]
        /\ FreshFlag(n) \in [Nbrs[n] -> 0..2]
    BY FreshTables
  <2>2. /\ cost' = [cost EXCEPT ![n] = FreshCost(n)] /\ next' = [next EXCEPT ![n] = FreshNext(n)]
        /\ online' = [online EXCEPT ![n] = Nodes] /\ flag' = [flag EXCEPT ![n] = FreshFlag(n)]
    BY DEF Stop, ResetTables
  <2>3. /\ online' \in [Nodes -> SUBSET Nodes]
        /\ DOMAIN flag' = Nodes /\ \A a \in Nodes : flag'[a] \in [Nbrs[a] -> 0..2]
    BY <2>1, <2>2 DEF Good, GoodTables, TablesOK
  <2> QED  BY <2>1, <2>2, <2>3, TablesStep DEF Good
<1>2. GoodThreads'
  <2>1. up' \subseteq Nodes
    BY DEF Stop, Good, GoodThreads, ThreadsOK
  <2> QED  BY <2>1, Fresh, ThreadsStep DEF Stop, Good
<1>3. GoodQueues(queue, D)'
  BY Kept DEF Stop
<1>4. CountersOK'
  BY BoundsAssumption DEF Stop, Good, CountersOK
<1> QED  BY <1>1, <1>2, <1>3, <1>4 DEF Good

LEMMA StartStep ==
  ASSUME NEW D, Good(D), NEW n \in Nodes, Start(n)
  PROVE  Good(D)'
<1>1. GoodTables(D)' /\ GoodQueues(queue, D)' /\ CountersOK'
  BY Kept DEF Start
<1>2. GoodThreads'
  BY DEF Start, Good, GoodThreads, ThreadsOK, OneWriter, ThreadsKnow, Free
<1> QED  BY <1>1, <1>2 DEF Good

-----------------------------------------------------------------------------
(* The invariant.                                                           *)

LEMMA InitGood ==
  ASSUME NEW D, IsDistance(D), Init
  PROVE  Good(D)
<1>1. GoodTables(D)
  <2>1. TablesOK
    BY FreshTables, NbrsFacts DEF Init, TablesInit, TablesOK, GoodCosts
  <2>2. HopIsNeighbour
    BY FreshTables DEF Init, TablesInit, HopIsNeighbour
  <2>3. \A n \in Nodes : GoodCosts(n, cost[n], D)
    BY FreshTables DEF Init, TablesInit
  <2> QED  BY <2>1, <2>2, <2>3 DEF GoodTables
<1>2. GoodQueues(queue, D)
  <2>1. QueuesOK(queue)
    BY DEF Init, QueuesOK
  <2>2. ASSUME NEW n \in Nodes, NEW m \in Nbrs[n], NEW k \in 1..Len(queue[n][m]) PROVE FALSE
    <3>1. queue[n][m] = <<>>
      BY DEF Init
    <3> QED  BY <2>2, <3>1
  <2> QED  BY <2>1, <2>2 DEF GoodQueues
<1>3. GoodThreads
  <2>1. \A n \in Nodes : Fits(n, handler[n], monitor[n], pass[n])
    BY Fresh DEF Init
  <2>2. ThreadsOK
    BY TopologyAssumption DEF Init, ThreadsOK, Idle, Scanning
  <2> QED  BY <2>1, <2>2 DEF GoodThreads, Fits, OneWriter, ThreadsKnow, Free
<1>4. CountersOK
  BY BoundsAssumption DEF Init, CountersOK
<1> QED  BY <1>1, <1>2, <1>3, <1>4 DEF Good

LEMMA NextGood ==
  ASSUME NEW D, IsDistance(D), Good(D), [Next]_vars
  PROVE  Good(D)'
<1>1. CASE UNCHANGED vars
  BY <1>1, Kept DEF vars, Good
<1>2. ASSUME NEW n \in Nodes, NEW from \in Nbrs[n], Receive(n, from) \/ Drop(n, from)
      PROVE  Good(D)'
  BY <1>2, DeliverStep, ForwardStep, HandleUpdateStep, HandleOfflineStep, HandleOnlineStep
     DEF Receive
<1>3. ASSUME NEW n \in Nodes, Finish(n)
      PROVE  Good(D)'
  BY <1>3, SetFlagStep, StartForwardingStep, EndForwardingStep, NotifyBackStep, ForwardNoticeStep
     DEF Finish
<1>4. ASSUME NEW n \in Nodes, Monitor(n)
      PROVE  Good(D)'
  BY <1>4, LookStep, NotifyOfflineStep, MarkOfflineStep, StartNotifyingStep, EndNotifyingStep
     DEF Monitor
<1>5. ASSUME NEW n \in Nodes,
             Broadcast(n) \/ (\E dest \in Nodes : SendData(n, dest)) \/ UpdateTurn(n)
               \/ Stop(n) \/ Start(n)
      PROVE  Good(D)'
  BY <1>5, BroadcastStep, SendDataStep, UpdateTurnStep, StopStep, StartStep
<1> QED  BY <1>1, <1>2, <1>3, <1>4, <1>5 DEF Next

LEMMA Inductiveness ==
  ASSUME NEW D, IsDistance(D)
  PROVE  (Init => IInv(D)) /\ (IInv(D) /\ [Next]_vars => IInv(D)')
<1>1. Init => IInv(D)
  BY InitGood, Parts
<1>2. ASSUME IInv(D), [Next]_vars PROVE IInv(D)'
  <2>1. Good(D)'
    BY <1>2, NextGood, Parts
  <2> QED  BY <2>1 DEF Good, IInv, GoodTables, GoodThreads, TypeOK, GoodQueues
<1> QED  BY <1>1, <1>2

\* The inductive invariant holds, for every distance.
THEOREM Invariance ==
  ASSUME NEW CONSTANT D, IsDistance(D)
  PROVE  Spec => []IInv(D)
<1>1. (Init => IInv(D)) /\ (IInv(D) /\ [Next]_vars => IInv(D)')
  BY Inductiveness
<1> QED  BY <1>1, PTL DEF Spec

\* Whatever fails and comes back, no table and no route update under way says that a
\* node is nearer than it is (dvtable.c, update_routingtable): for every function D
\* that no link and no detour undercuts, the costs never drop below D.
THEOREM CostsNeverTooLow ==
  ASSUME NEW CONSTANT D, IsDistance(D)
  PROVE  Spec => []NotBelow(D)
<1>1. IInv(D) => NotBelow(D)
  BY DEF IInv, NotBelow, GoodCosts, GoodQueues, GoodPacket
<1> QED  BY <1>1, Invariance, PTL

\* The same of the distance Dist: the invariant, ...
THEOREM InductiveHolds == Spec => []Inductive
<1>1. (Init => Inductive) /\ (Inductive /\ [Next]_vars => Inductive')
  BY Inductiveness, DistAssumption DEF Inductive
<1> QED  BY <1>1, PTL DEF Spec

\* ... and that no table and no route update says that a node is nearer than Dist.
THEOREM NeverTooLow == Spec => []CostsAreReal
<1>1. Inductive => CostsAreReal
  BY DEF Inductive, CostsAreReal, IInv, NotBelow, GoodCosts, GoodQueues, GoodPacket
<1> QED  BY <1>1, InductiveHolds, PTL

\* What does not need a distance follows from the trivial one.
Zero == [x \in Nodes |-> [y \in Nodes |-> 0]]

LEMMA ZeroIsDistance == IsDistance(Zero)
BY TopologyAssumption DEF IsDistance, Zero, Cost

LEMMA ZeroInvariance == Spec => []IInv(Zero)
<1>1. (Init => IInv(Zero)) /\ (IInv(Zero) /\ [Next]_vars => IInv(Zero)')
  BY Inductiveness, ZeroIsDistance
<1> QED  BY <1>1, PTL DEF Spec

\* Tables, threads, packets and counters keep their shape: costs stay at most
\* INFINITE_COST although update_routingtable adds them.
THEOREM TypeCorrect == Spec => []TypeOK
<1>1. IInv(Zero) => TypeOK
  BY DEF IInv
<1> QED  BY <1>1, ZeroInvariance, PTL

\* pkthandler and monitor_route_update are never both between the change of a table
\* and the end of update_routingtable.
THEOREM TablesHaveOneWriter == Spec => []OneWriter
<1>1. IInv(Zero) => OneWriter
  BY DEF IInv
<1> QED  BY <1>1, ZeroInvariance, PTL

\* The next hop of every route is a neighbour: SON, which drops what it gets for another
\* node without a word, has a connection for every route of SIP.
THEOREM HopsAreNeighbours == Spec => []HopIsNeighbour
<1>1. IInv(Zero) => HopIsNeighbour
  BY DEF IInv
<1> QED  BY <1>1, ZeroInvariance, PTL

-----------------------------------------------------------------------------
(* The routes agree with the costs and with who is offline, pass by pass.   *)

\* Where update_routingtable has come to: the turn of d is over.
TurnOver(p, d) == p = 0 \/ \E k \in 1..p-1 : NodeArray[k] = d

\* The costs c, the nodes on that are online, the routes h and the turn p of n
\* agree.  A node offline has no route and no vector; a route whose turn is over
\* is there exactly for a finite cost, and uses no node that is offline.
Agree(n, c, on, h, p) ==
  /\ h[n] = NoHop
  /\ \A d \in Nodes :
       /\ d \notin on => h[d] = NoHop
       /\ d \notin on /\ d # n => \A x \in Nodes : c[d][x] = INFINITE_COST
       /\ TurnOver(p, d) /\ d # n => (h[d] = NoHop <=> c[n][d] = INFINITE_COST)
       /\ TurnOver(p, d) => \A x \in Nodes : x \notin on => h[d] # x

TablesAgree == \A n \in Nodes : Agree(n, cost[n], online[n], next[n], pass[n])

\* A node's tables change, and agree.
LEMMA AgreeStep ==
  ASSUME NEW D, Good(D), TablesAgree, NEW n \in Nodes, NEW c, NEW on, NEW h, NEW p,
         Agree(n, c, on, h, p),
         cost' = [cost EXCEPT ![n] = c], online' = [online EXCEPT ![n] = on],
         next' = [next EXCEPT ![n] = h], pass' = [pass EXCEPT ![n] = p]
  PROVE  TablesAgree'
<1>1. /\ cost'[n] = c /\ online'[n] = on /\ next'[n] = h /\ pass'[n] = p
      /\ \A a \in Nodes : a # n => /\ cost'[a] = cost[a] /\ online'[a] = online[a]
                                   /\ next'[a] = next[a] /\ pass'[a] = pass[a]
  BY DEF Good, GoodTables, TablesOK, GoodThreads, ThreadsOK
<1> QED  BY <1>1 DEF TablesAgree, Agree, TurnOver

\* The tables and the turn of a node, as they are.
LEMMA AsIs ==
  ASSUME NEW D, Good(D), NEW n \in Nodes
  PROVE  /\ cost[n] \in [Nodes -> [Nodes -> Cost]] /\ cost = [cost EXCEPT ![n] = cost[n]]
         /\ online[n] \in SUBSET Nodes /\ online = [online EXCEPT ![n] = online[n]]
         /\ next[n] \in [Nodes -> Nodes \cup {NoHop}] /\ next = [next EXCEPT ![n] = next[n]]
         /\ pass[n] \in 0..Len(NodeArray) /\ pass = [pass EXCEPT ![n] = pass[n]]
         /\ GoodCosts(n, cost[n], D)
BY DEF Good, GoodTables, TablesOK, GoodThreads, ThreadsOK

\* In the first turn, none is over.
LEMMA FirstTurn == \A d : ~TurnOver(1, d)
BY DEF TurnOver

LEMMA HandleUpdateAgrees ==
  ASSUME NEW D, Good(D), TablesAgree, NEW n \in Nodes, NEW from \in Nbrs[n], HandleUpdate(n, from)
  PROVE  TablesAgree'
<1> DEFINE pkt == Head(queue[from][n])
           src == pkt.src
           on == online[n] \cup {src}
           known == WithVector(n, on, src, pkt.vec)
           back == src \notin online[n]
           c == IF back THEN [known EXCEPT ![n][src] = LinkCost[n][src]] ELSE known
           h == IF back THEN [next[n] EXCEPT ![src] = src] ELSE next[n]
<1>1. src = from /\ src \in Nodes /\ src # n
  <2>1. GoodPacket(from, pkt, D) /\ pkt.type = "ROUTE_UPDATE"
    BY TakeStep DEF HandleUpdate, Take
  <2> QED  BY <2>1, NbrsFacts DEF GoodPacket
<1>2. /\ online' = [online EXCEPT ![n] = on] /\ cost' = [cost EXCEPT ![n] = c]
      /\ next' = [next EXCEPT ![n] = h] /\ pass' = [pass EXCEPT ![n] = 1]
  BY <1>1, AsIs DEF HandleUpdate
<1>3. Agree(n, cost[n], online[n], next[n], pass[n])
  BY DEF TablesAgree
<1>4. /\ \A d \in Nodes : d # n /\ d # src => c[d] = cost[n][d]
      /\ h[n] = next[n][n] /\ \A d \in Nodes : d # src => h[d] = next[n][d]
  BY <1>1, AsIs, ZenonT(30) DEF WithVector
<1> HIDE DEF c, h
<1>5. Agree(n, c, on, h, 1)
  BY <1>1, <1>3, <1>4, FirstTurn DEF Agree
<1> HIDE DEF on
<1> QED  BY <1>2, <1>5, AgreeStep

LEMMA HandleOnlineAgrees ==
  ASSUME NEW D, Good(D), TablesAgree, NEW n \in Nodes, NEW from \in Nbrs[n], HandleOnline(n, from)
  PROVE  TablesAgree'
<1> DEFINE on == online[n] \cup {Head(queue[from][n]).node}
<1>1. online' = [online EXCEPT ![n] = on]
  BY DEF HandleOnline
<1>2. Agree(n, cost[n], online[n], next[n], pass[n])
  BY DEF TablesAgree
<1>3. Agree(n, cost[n], on, next[n], pass[n])
  BY <1>2 DEF Agree
<1>4. /\ cost' = [cost EXCEPT ![n] = cost[n]] /\ next' = [next EXCEPT ![n] = next[n]]
      /\ pass' = [pass EXCEPT ![n] = pass[n]]
  BY AsIs DEF HandleOnline
<1> HIDE DEF on
<1> QED  BY <1>1, <1>3, <1>4, AgreeStep

LEMMA SetOfflineAgrees ==
  ASSUME NEW D, Good(D), TablesAgree, NEW n \in Nodes, NEW dead \in Nodes,
         SetOffline(n, dead), pass' = [pass EXCEPT ![n] = 1]
  PROVE  TablesAgree'
<1> DEFINE c == Cut(n, dead)
           on == online[n] \ {dead}
           h == [next[n] EXCEPT ![dead] = NoHop]
<1>1. /\ online' = [online EXCEPT ![n] = on] /\ cost' = [cost EXCEPT ![n] = c]
      /\ next' = [next EXCEPT ![n] = h]
  BY AsIs DEF SetOffline
<1>2. Agree(n, cost[n], online[n], next[n], pass[n])
  BY DEF TablesAgree
<1>3. h[n] = NoHop /\ \A d \in Nodes : d \notin on => h[d] = NoHop
  BY <1>2, AsIs DEF Agree
<1>4. ASSUME NEW d \in Nodes, NEW x \in Nodes, d \notin on, d # n
      PROVE  c[d][x] = INFINITE_COST
  <2>1. CASE d \notin Rows[n]
    BY <2>1, AsIs DEF GoodCosts, Cut
  <2>2. CASE d \in Rows[n] /\ d = dead
    BY <2>2 DEF Cut
  <2>3. CASE d \in Rows[n] /\ d # dead
    <3>1. cost[n][d][x] = INFINITE_COST /\ c[d] = [cost[n][d] EXCEPT ![dead] = INFINITE_COST]
      BY <2>3, <1>2, <1>4 DEF Agree, Cut
    <3> QED  BY <3>1, AsIs
  <2> QED  BY <2>1, <2>2, <2>3
<1> HIDE DEF c, h
<1>5. Agree(n, c, on, h, 1)
  BY <1>3, <1>4, FirstTurn DEF Agree
<1> HIDE DEF on
<1> QED  BY <1>1, <1>5, AgreeStep

LEMMA ArrayLength == Len(NodeArray) \in Nat
BY TopologyAssumption

\* After the turn of d the turns of the others are over that were, and that of d.
LEMMA NextTurn ==
  ASSUME NEW p \in 1..Len(NodeArray), NEW d \in Nodes, d # NodeArray[p],
         TurnOver(IF p = Len(NodeArray) THEN 0 ELSE p + 1, d)
  PROVE  TurnOver(p, d)
<1>1. Len(NodeArray) \in Nat
  BY ArrayLength
<1>2. PICK k \in 1..Len(NodeArray) : NodeArray[k] = d
  BY TopologyAssumption
<1> QED  BY <1>1, <1>2 DEF TurnOver

\* What a turn writes for a node that is online: the cost is no more than any way,
\* there is a hop exactly for a finite cost, and it is the node itself or a neighbour
\* through which the way goes.
LEMMA RouteFound ==
  ASSUME NEW D, IsDistance(D), GoodTables(D), NEW n \in Nodes, NEW d \in Nodes \ {n},
         d \in online[n], UpdateRoute(n, d)
  PROVE  \E c \in Ways(n, d) : \E hop \in Nodes \cup {NoHop} :
           /\ c \in Nat /\ \A w \in Ways(n, d) : c <= w
           /\ cost' = [cost EXCEPT ![n][n][d] = c] /\ next' = [next EXCEPT ![n][d] = hop]
           /\ hop = NoHop <=> c = INFINITE_COST
           /\ hop \notin {NoHop, d} =>
                hop \in Nbrs[n] /\ c = Via(n, hop, d) /\ c < INFINITE_COST
<1>1. PICK c \in Ways(n, d), hop \in Nodes \cup {NoHop} :
        /\ \A w \in Ways(n, d) : c <= w
        /\ cost' = [cost EXCEPT ![n][n][d] = c]
        /\ Hop(n, d, c, hop) /\ next' = [next EXCEPT ![n][d] = hop]
  BY DEF UpdateRoute
<1>2. /\ LinkCost[n][d] \in Ways(n, d) /\ LinkCost[n][d] \in Nat /\ INFINITE_COST \in Nat
      /\ LinkCost[n][d] <= INFINITE_COST
  BY TopologyAssumption DEF Ways
<1>3. c \in Nat
  BY <1>2, ViaFacts DEF Ways
<1>4. c <= LinkCost[n][d]
  BY <1>1, <1>2
<1>5. CASE c = LinkCost[n][d]
  <2>1. hop = IF c = INFINITE_COST THEN NoHop ELSE d
    BY <1>1, <1>5 DEF Hop
  <2> QED  BY <1>1, <1>3, <2>1, NbrsFacts
<1>6. CASE c # LinkCost[n][d]
  <2>1. c < INFINITE_COST
    BY <1>2, <1>3, <1>4, <1>6
  <2>2. hop \in Nodes \ {n} /\ Via(n, hop, d) = c
    BY <1>1, <1>6 DEF Hop, FirstVia
  <2>3. hop \in Nbrs[n] /\ hop # NoHop
    BY <2>1, <2>2, ViaFacts, NbrsFacts
  <2>4. c # INFINITE_COST
    BY <1>2, <1>3, <2>1
  <2> QED  BY <1>1, <1>3, <2>1, <2>2, <2>3, <2>4
<1> QED  BY <1>5, <1>6

LEMMA UpdateTurnAgrees ==
  ASSUME NEW D, IsDistance(D), Good(D), TablesAgree, NEW n \in Nodes, UpdateTurn(n)
  PROVE  TablesAgree'
<1> DEFINE d == NodeArray[pass[n]]
           p == IF pass[n] = Len(NodeArray) THEN 0 ELSE pass[n] + 1
<1>1. /\ pass[n] \in 1..Len(NodeArray) /\ d \in Nodes
      /\ pass' = [pass EXCEPT ![n] = p] /\ online' = online
  <2>1. pass[n] \in 0..Len(NodeArray) /\ Len(NodeArray) \in Nat /\ pass[n] # 0
    BY AsIs, TopologyAssumption DEF UpdateTurn
  <2> QED  BY <2>1, TopologyAssumption DEF UpdateTurn
<1>2. Agree(n, cost[n], online[n], next[n], pass[n])
  BY DEF TablesAgree
<1>3. \A x \in Nodes : x # d /\ TurnOver(p, x) => TurnOver(pass[n], x)
  BY <1>1, NextTurn
<1>4. UpdateRoute(n, d)
  BY DEF UpdateTurn
<1> HIDE DEF d, p
<1>5. ASSUME NEW c \in Nat, NEW hop \in Nodes \cup {NoHop}, d # n,
             cost' = [cost EXCEPT ![n][n][d] = c], next' = [next EXCEPT ![n][d] = hop],
             hop = NoHop <=> c = INFINITE_COST,
             \A x \in Nodes : x \notin online[n] => hop # x,
             d \notin online[n] => hop = NoHop
      PROVE  TablesAgree'
  <2> DEFINE e == [cost[n] EXCEPT ![n][d] = c]
             h == [next[n] EXCEPT ![d] = hop]
  <2>1. cost' = [cost EXCEPT ![n] = e] /\ next' = [next EXCEPT ![n] = h]
    BY <1>5
  <2>2. /\ h[d] = hop /\ e[n][d] = c
        /\ \A x \in Nodes : x # d => h[x] = next[n][x] /\ e[n][x] = cost[n][n][x]
        /\ \A x \in Nodes : x # n => e[x] = cost[n][x]
    BY <1>1, AsIs
  <2> HIDE DEF e, h
  <2>3. Agree(n, e, online[n], h, p)
    <3>1. h[n] = NoHop
      BY <1>2, <1>5, <2>2 DEF Agree
    <3>2. ASSUME NEW x \in Nodes
          PROVE  /\ x \notin online[n] => h[x] = NoHop
                 /\ x \notin online[n] /\ x # n => \A y \in Nodes : e[x][y] = INFINITE_COST
                 /\ TurnOver(p, x) /\ x # n => (h[x] = NoHop <=> e[n][x] = INFINITE_COST)
                 /\ TurnOver(p, x) => \A y \in Nodes : y \notin online[n] => h[x] # y
      <4>1. CASE x = d
        BY <4>1, <1>2, <1>5, <2>2 DEF Agree
      <4>2. CASE x # d
        BY <4>2, <1>2, <1>3, <2>2 DEF Agree
      <4> QED  BY <4>1, <4>2
    <3> QED  BY <3>1, <3>2 DEF Agree
  <2>4. online' = [online EXCEPT ![n] = online[n]]
    BY <1>1, AsIs
  <2> QED  BY <1>1, <2>1, <2>3, <2>4, AgreeStep
<1>6. CASE d = n
  <2>1. /\ cost' = [cost EXCEPT ![n] = cost[n]] /\ next' = [next EXCEPT ![n] = next[n]]
        /\ online' = [online EXCEPT ![n] = online[n]]
    BY <1>1, <1>4, <1>6, AsIs DEF UpdateRoute
  <2>2. Agree(n, cost[n], online[n], next[n], p)
    BY <1>2, <1>3, <1>6, NbrsFacts DEF Agree
  <2> QED  BY <1>1, <2>1, <2>2, AgreeStep
<1>7. CASE d # n /\ d \notin online[n]
  <2>1. cost' = [cost EXCEPT ![n][n][d] = INFINITE_COST] /\ next' = [next EXCEPT ![n][d] = NoHop]
    BY <1>4, <1>7 DEF UpdateRoute
  <2>2. INFINITE_COST \in Nat /\ \A x \in Nodes : NoHop # x
    BY NbrsFacts, TopologyAssumption
  <2> QED  BY <1>5, <1>7, <2>1, <2>2
<1>8. CASE d # n /\ d \in online[n]
  <2>1. PICK c \in Ways(n, d), hop \in Nodes \cup {NoHop} :
          /\ c \in Nat
          /\ cost' = [cost EXCEPT ![n][n][d] = c] /\ next' = [next EXCEPT ![n][d] = hop]
          /\ hop = NoHop <=> c = INFINITE_COST
          /\ hop \notin {NoHop, d} =>
               hop \in Nbrs[n] /\ c = Via(n, hop, d) /\ c < INFINITE_COST
    BY <1>1, <1>4, <1>8, RouteFound DEF Good
  <2>2. ASSUME NEW x \in Nodes, x \notin online[n], hop = x PROVE FALSE
    <3>1. hop # d /\ hop # NoHop /\ hop # n
      BY <1>8, <2>1, <2>2, NbrsFacts
    <3>2. cost[n][hop][d] = INFINITE_COST /\ cost[n][n][hop] \in Nat
      BY <1>1, <1>2, <2>2, <3>1, AsIs DEF Agree, Cost
    <3>3. c = cost[n][n][hop] + cost[n][hop][d] /\ c < INFINITE_COST /\ INFINITE_COST \in Nat
      BY <2>1, <3>1, TopologyAssumption DEF Via
    <3> QED  BY <2>1, <3>2, <3>3
  <2> QED  BY <1>5, <1>8, <2>1, <2>2
<1> QED  BY <1>6, <1>7, <1>8

\* The tables of a process that starts anew agree.
LEMMA FreshAgrees ==
  ASSUME NEW n \in Nodes
  PROVE  Agree(n, FreshCost(n), Nodes, FreshNext(n), 0)
<1>1. \A d \in Nodes : d # n => (d \in Nbrs[n] <=> LinkCost[n][d] # INFINITE_COST)
  BY TopologyAssumption DEF Nbrs
<1>2. \A d \in Nodes : d # n => FreshCost(n)[n][d] = LinkCost[n][d]
  BY DEF FreshCost
<1>3. n \notin Nbrs[n] /\ Nbrs[n] \subseteq Nodes /\ NoHop \notin Nodes
  BY NbrsFacts
<1> QED  BY <1>1, <1>2, <1>3 DEF Agree, FreshNext

LEMMA NextAgrees ==
  ASSUME NEW D, IsDistance(D), Good(D), TablesAgree, [Next]_vars
  PROVE  TablesAgree'
<1>1. CASE UNCHANGED <<cost, online, next, pass>>
  BY <1>1 DEF TablesAgree, Agree, TurnOver
<1>2. CASE UNCHANGED vars
  BY <1>1, <1>2 DEF vars, tables, threads
<1>3. ASSUME NEW n \in Nodes, NEW from \in Nbrs[n], Receive(n, from) \/ Drop(n, from)
      PROVE  TablesAgree'
  <2>1. CASE Deliver(n, from) \/ Forward(n, from) \/ Drop(n, from)
    BY <1>1, <2>1 DEF Deliver, Forward, Drop, tables, threads
  <2>2. CASE HandleUpdate(n, from)
    BY <2>2, HandleUpdateAgrees
  <2>3. CASE HandleOffline(n, from)
    <3>1. /\ SetOffline(n, Head(queue[from][n]).node) /\ pass' = [pass EXCEPT ![n] = 1]
          /\ Head(queue[from][n]).node \in Nodes
      BY <2>3, TakeStep, PacketFields DEF HandleOffline, Take
    <3> QED  BY <3>1, SetOfflineAgrees
  <2>4. CASE HandleOnline(n, from)
    BY <2>4, HandleOnlineAgrees
  <2> QED  BY <1>3, <2>1, <2>2, <2>3, <2>4 DEF Receive
<1>4. ASSUME NEW n \in Nodes, Finish(n) PROVE TablesAgree'
  BY <1>1, <1>4
     DEF Finish, SetFlag, StartForwarding, EndForwarding, NotifyBack, ForwardNotice, tables
<1>5. ASSUME NEW n \in Nodes, Monitor(n) PROVE TablesAgree'
  <2>1. CASE MarkOffline(n)
    <3>1. monitor[n].nbr \in Nodes
      BY <2>1, ThreadsOf, NbrsFacts DEF MarkOffline, Good, Fits
    <3> QED  BY <2>1, <3>1, SetOfflineAgrees DEF MarkOffline
  <2>2. CASE ~MarkOffline(n)
    BY <1>1, <1>5, <2>2 DEF Monitor, Look, NotifyOffline, StartNotifying, EndNotifying, tables
  <2> QED  BY <2>1, <2>2
<1>6. ASSUME NEW n \in Nodes, Stop(n) PROVE TablesAgree'
  BY <1>6, FreshAgrees, AgreeStep DEF Stop, ResetTables
<1>7. ASSUME NEW n \in Nodes, Broadcast(n) \/ (\E dest \in Nodes : SendData(n, dest)) \/ Start(n)
      PROVE  TablesAgree'
  BY <1>1, <1>7 DEF Broadcast, SendData, Start, tables, threads
<1> QED  BY <1>2, <1>3, <1>4, <1>5, <1>6, <1>7, UpdateTurnAgrees DEF Next

LEMMA AgreeInvariance == Spec => [](IInv(Zero) /\ TablesAgree)
<1>1. Init => IInv(Zero) /\ TablesAgree
  <2>1. Init => TablesAgree
    BY FreshAgrees DEF Init, TablesInit, TablesAgree
  <2> QED  BY <2>1, Inductiveness, ZeroIsDistance
<1>2. IInv(Zero) /\ TablesAgree /\ [Next]_vars => (IInv(Zero) /\ TablesAgree)'
  <2>1. IInv(Zero) /\ [Next]_vars => IInv(Zero)'
    BY Inductiveness, ZeroIsDistance
  <2>2. IInv(Zero) /\ TablesAgree /\ [Next]_vars => TablesAgree'
    BY NextAgrees, ZeroIsDistance, Parts
  <2> QED  BY <2>1, <2>2
<1> QED  BY <1>1, <1>2, PTL DEF Spec

\* When nobody holds the tables, every turn is over.
LEMMA AllOver ==
  ASSUME OneWriter, NEW n \in Nodes, NEW d, Free(n)
  PROVE  TurnOver(pass[n], d)
BY DEF OneWriter, TurnOver

\* There is a hop exactly for the nodes whose cost is not infinite (routingtable.c and
\* dvtable.c after update_routingtable), whatever failed and came back before.
THEOREM HopsFollowCosts == Spec => []HopIffReachable
<1>1. IInv(Zero) /\ TablesAgree => HopIffReachable
  BY AllOver DEF IInv, TablesAgree, Agree, HopIffReachable
<1> QED  BY <1>1, AgreeInvariance, PTL

\* A node taken for offline (sip.c:259, sip.c:360) has no route and is the hop of none,
\* whatever vectors arrive afterwards.
THEOREM OfflineNotUsed == Spec => []OfflineUnused
<1>1. IInv(Zero) /\ TablesAgree => OfflineUnused
  BY AllOver DEF IInv, TablesAgree, Agree, OfflineUnused
<1> QED  BY <1>1, AgreeInvariance, PTL
=============================================================================
