---------------------------- MODULE SipLoopProofs ----------------------------
(***************************************************************************)
(* While nothing fails the routes have no loops, for every topology.  Own  *)
(* costs only fall; so what is stored of a neighbour, and what it has sent *)
(* since, is no lower than what its cost is now.                           *)
(***************************************************************************)
EXTENDS SipProofs

\* Nothing fails.
Calm == MaxSuspects = 0 /\ MaxStops = 0

-----------------------------------------------------------------------------
(* Vectors under way.                                                       *)

\* To m is under way the sequence s, from a neighbour whose vector is own and of which
\* m has stored the vector copy: the vectors fall, from the stored one to the present.
\* (The cost of m itself is not stored.)
Falls(s, m, copy, own) ==
  \A d \in Nodes \ {m} :
    /\ copy[d] >= own[d]
    /\ \A k \in 1..Len(s) : s[k].type = "ROUTE_UPDATE" =>
         /\ copy[d] >= s[k].vec[d] /\ s[k].vec[d] >= own[d]
         /\ \A j \in k..Len(s) : s[j].type = "ROUTE_UPDATE" => s[k].vec[d] >= s[j].vec[d]

Vector == [Nodes -> Cost]

\* A vector that is sent is the present one; other packets do not matter.
LEMMA FallsPushed ==
  ASSUME NEW s \in Seq(Packet), NEW m, NEW copy \in Vector, NEW own \in Vector,
         Falls(s, m, copy, own), NEW pkt \in Packet,
         pkt.type = "ROUTE_UPDATE" => pkt.vec = own
  PROVE  Falls(Append(s, pkt), m, copy, own)
<1> DEFINE t == Append(s, pkt)
<1>1. /\ Len(s) \in Nat /\ Len(t) = Len(s) + 1 /\ t[Len(s) + 1] = pkt
      /\ \A k \in 1..Len(s) : t[k] = s[k]
  OBVIOUS
<1>2. \A d \in Nodes : own[d] \in Nat /\ copy[d] \in Nat
  BY DEF Vector, Cost
<1> HIDE DEF t
<1>3. ASSUME NEW d \in Nodes \ {m}, NEW k \in 1..Len(t), t[k].type = "ROUTE_UPDATE"
      PROVE  /\ copy[d] >= t[k].vec[d] /\ t[k].vec[d] >= own[d]
             /\ \A j \in k..Len(t) : t[j].type = "ROUTE_UPDATE" => t[k].vec[d] >= t[j].vec[d]
  <2>1. CASE k = Len(s) + 1
    <3>1. t[k].vec = own /\ copy[d] >= own[d] /\ own[d] >= own[d]
      BY <1>1, <1>2, <1>3, <2>1 DEF Falls
    <3>2. \A j \in k..Len(t) : j = k
      BY <1>1, <2>1
    <3> QED  BY <3>1, <3>2
  <2>2. CASE k # Len(s) + 1
    <3>1. k \in 1..Len(s) /\ t[k] = s[k]
      BY <1>1, <1>3, <2>2
    <3>2. /\ copy[d] >= s[k].vec[d] /\ s[k].vec[d] >= own[d]
          /\ \A j \in k..Len(s) : s[j].type = "ROUTE_UPDATE" => s[k].vec[d] >= s[j].vec[d]
      BY <1>3, <3>1 DEF Falls
    <3>3. ASSUME NEW j \in k..Len(t), t[j].type = "ROUTE_UPDATE" PROVE s[k].vec[d] >= t[j].vec[d]
      <4>1. CASE j = Len(s) + 1
        BY <4>1, <1>1, <3>2, <3>3
      <4>2. CASE j # Len(s) + 1
        <5>1. j \in k..Len(s) /\ t[j] = s[j]
          BY <4>2, <1>1, <3>1
        <5> QED  BY <5>1, <3>2, <3>3
      <4> QED  BY <4>1, <4>2
    <3> QED  BY <3>1, <3>2, <3>3
  <2> QED  BY <2>1, <2>2
<1>4. Falls(t, m, copy, own)
  BY <1>3 DEF Falls
<1> QED  BY <1>4 DEF t

\* The first packet is taken, and stored if it is a vector.
LEMMA FallsPopped ==
  ASSUME NEW s \in Seq(Packet), s # <<>>, NEW m, NEW copy, NEW own,
         Falls(s, m, copy, own), NEW copy2,
         \/ copy2 = copy
         \/ /\ Head(s).type = "ROUTE_UPDATE"
            /\ \A d \in Nodes \ {m} : copy2[d] = Head(s).vec[d]
  PROVE  /\ Falls(Tail(s), m, copy2, own)
         /\ \A d \in Nodes \ {m} : copy[d] >= copy2[d] \/ copy[d] = copy2[d]
<1> DEFINE t == Tail(s)
<1>1. /\ Len(s) \in Nat \ {0} /\ Len(t) = Len(s) - 1 /\ Head(s) = s[1]
      /\ \A k \in 1..Len(t) : t[k] = s[k + 1]
  OBVIOUS
<1> HIDE DEF t
<1>2. ASSUME NEW d \in Nodes \ {m}, NEW k \in 1..Len(t), t[k].type = "ROUTE_UPDATE"
      PROVE  /\ copy2[d] >= t[k].vec[d] /\ t[k].vec[d] >= own[d]
             /\ \A j \in k..Len(t) : t[j].type = "ROUTE_UPDATE" => t[k].vec[d] >= t[j].vec[d]
  <2>1. k + 1 \in 1..Len(s) /\ t[k] = s[k + 1] /\ k + 1 \in 1..Len(s) /\ 1 \in 1..Len(s)
    BY <1>1
  <2>2. copy2[d] >= t[k].vec[d]
    <3>1. CASE copy2 = copy
      BY <3>1, <2>1, <1>2 DEF Falls
    <3>2. CASE Head(s).type = "ROUTE_UPDATE" /\ copy2[d] = Head(s).vec[d]
      <4>1. k + 1 \in 1..Len(s) /\ s[1].type = "ROUTE_UPDATE" /\ copy2[d] = s[1].vec[d]
        BY <3>2, <1>1, <2>1
      <4> QED  BY <4>1, <2>1, <1>2 DEF Falls
    <3> QED  BY <3>1, <3>2
  <2>3. ASSUME NEW j \in k..Len(t), t[j].type = "ROUTE_UPDATE" PROVE t[k].vec[d] >= t[j].vec[d]
    <3>1. j + 1 \in (k + 1)..Len(s) /\ t[j] = s[j + 1]
      BY <1>1
    <3> QED  BY <3>1, <2>1, <2>3, <1>2 DEF Falls
  <2> QED  BY <2>1, <2>2, <2>3, <1>2 DEF Falls
<1>3. ASSUME NEW d \in Nodes \ {m}
      PROVE  copy2[d] >= own[d] /\ (copy[d] >= copy2[d] \/ copy[d] = copy2[d])
  <2>1. 1 \in 1..Len(s)
    BY <1>1
  <2> QED  BY <1>1, <2>1 DEF Falls
<1>4. Falls(t, m, copy2, own)
  BY <1>2, <1>3 DEF Falls
<1> QED  BY <1>3, <1>4 DEF t

\* The sender's own costs fall.
LEMMA FallsFurther ==
  ASSUME NEW s \in Seq(Packet), NEW m, NEW copy \in Vector, NEW own \in Vector,
         NEW own2 \in Vector, \A d \in Nodes : own2[d] <= own[d], Falls(s, m, copy, own)
  PROVE  Falls(s, m, copy, own2)
<1>1. \A d \in Nodes : own[d] \in Nat /\ own2[d] \in Nat /\ copy[d] \in Nat
  BY DEF Vector, Cost
<1>2. ASSUME NEW k \in 1..Len(s), s[k].type = "ROUTE_UPDATE", NEW d \in Nodes
      PROVE  s[k].vec[d] \in Nat
  <2>1. s[k] \in Packet
    OBVIOUS
  <2> QED  BY <1>2, <2>1, PacketFields DEF Cost
<1>3. ASSUME NEW d \in Nodes \ {m} PROVE copy[d] >= own2[d]
  <2>1. copy[d] >= own[d] /\ own2[d] <= own[d]
    BY DEF Falls
  <2> QED  BY <1>1, <2>1
<1>4. ASSUME NEW d \in Nodes \ {m}, NEW k \in 1..Len(s), s[k].type = "ROUTE_UPDATE"
      PROVE  s[k].vec[d] >= own2[d]
  <2>1. s[k].vec[d] >= own[d] /\ own2[d] <= own[d] /\ s[k].vec[d] \in Nat
    BY <1>2, <1>4 DEF Falls
  <2> QED  BY <1>1, <2>1
<1> QED  BY <1>3, <1>4 DEF Falls

-----------------------------------------------------------------------------
(* The invariant.                                                           *)

\* Nobody is or was offline; no notices, and nothing to do about them.
AllWell ==
  \A n \in Nodes :
    /\ online[n] = Nodes /\ monitor[n].pc = "scan"
    /\ \/ handler[n].pc = "idle"
       \/ handler[n].pc = "update" /\ handler[n].pkt.type = "ROUTE_UPDATE" /\ handler[n].todo = {}
    /\ \A m \in Nbrs[n] : \A k \in 1..Len(queue[n][m]) :
         queue[n][m][k].type \in {"ROUTE_UPDATE", "SIP"}

\* The vectors a node has of its neighbours fall.
VectorsFall ==
  \A n \in Nodes : \A m \in Nbrs[n] : Falls(queue[n][m], m, cost[m][n], cost[n][n])

\* No own cost is below every way: the next turn can only lower it.
WayThere ==
  \A n, d \in Nodes : d # n => \E w \in Ways(n, d) : w <= cost[n][n][d]

\* The distance that is 1 between different nodes: every cost is at least that.
One == [x \in Nodes |-> [y \in Nodes |-> IF x = y THEN 0 ELSE 1]]

LEMMA OneIsDistance == IsDistance(One)
BY TopologyAssumption DEF IsDistance, One, Cost

LoopFree == AllWell /\ VectorsFall /\ WayThere /\ HopIsNearer

LEMMA LoopTypes ==
  ASSUME NEW D, Good(D), NEW n \in Nodes
  PROVE  /\ \A x \in Nodes : cost[n][x] \in Vector
         /\ \A m \in Nbrs[n] : m \in Nodes /\ m # n /\ n \in Nbrs[m] /\ queue[n][m] \in Seq(Packet)
BY NbrsFacts DEF Good, GoodTables, TablesOK, GoodQueues, QueuesOK, Vector

-----------------------------------------------------------------------------
(* The steps.                                                               *)

\* While nothing fails, only these can be taken.
LEMMA CalmSteps ==
  ASSUME NEW D, Good(D), AllWell, Calm, Next
  PROVE  \E n \in Nodes :
           \/ Broadcast(n) \/ \E dest \in Nodes : SendData(n, dest)
           \/ \E from \in Nbrs[n] :
                Deliver(n, from) \/ Forward(n, from) \/ HandleUpdate(n, from) \/ Drop(n, from)
           \/ SetFlag(n) \/ UpdateTurn(n) \/ Start(n)
           \/ \E nbr \in Nbrs[n] : Look(n, nbr) /\ UNCHANGED monitor
<1>1. suspects = 0 /\ stops = 0 /\ MaxSuspects = 0 /\ MaxStops = 0
  BY DEF Good, CountersOK, Calm
<1>2. ASSUME NEW n \in Nodes, NEW from \in Nbrs[n], HandleOffline(n, from) \/ HandleOnline(n, from)
      PROVE  FALSE
  <2>1. /\ queue[from][n] \in Seq(Packet) /\ queue[from][n] # <<>> /\ from \in Nodes /\ n \in Nbrs[from]
        /\ Head(queue[from][n]).type \in {"ROUTE_UPDATE_1", "ROUTE_UPDATE_2"}
    BY <1>2, LoopTypes DEF HandleOffline, HandleOnline, Take
  <2>2. 1 \in 1..Len(queue[from][n]) /\ Head(queue[from][n]) = queue[from][n][1]
    BY <2>1
  <2> QED  BY <2>1, <2>2 DEF AllWell
<1>3. ASSUME NEW n \in Nodes, Finish(n) PROVE SetFlag(n)
  BY <1>3 DEF Finish, StartForwarding, EndForwarding, NotifyBack, ForwardNotice, Updated, AllWell
<1>4. ASSUME NEW n \in Nodes, Monitor(n) PROVE \E nbr \in Nbrs[n] : Look(n, nbr) /\ UNCHANGED monitor
  <2>1. PICK nbr \in Nbrs[n] : Look(n, nbr)
    BY <1>4 DEF Monitor, NotifyOffline, MarkOffline, StartNotifying, EndNotifying, AllWell
  <2> QED  BY <1>1, <2>1 DEF Look
<1>5. ASSUME NEW n \in Nodes, Stop(n) PROVE FALSE
  BY <1>1, <1>5 DEF Stop
<1> QED  BY <1>2, <1>3, <1>4, <1>5 DEF Next, Receive

\* What SON carries from one node to another may change by one packet: taken, or sent.
Moved(s, t, own) ==
  \/ t = s
  \/ s # <<>> /\ t = Tail(s)
  \/ \E pkt \in Packet : /\ pkt.type = "SIP" \/ (pkt.type = "ROUTE_UPDATE" /\ pkt.vec = own)
                         /\ t = Append(s, pkt)

LEMMA MovedOn ==
  ASSUME NEW s, NEW own, NEW pkt \in Packet,
         pkt.type = "SIP" \/ (pkt.type = "ROUTE_UPDATE" /\ pkt.vec = own)
  PROVE  Moved(s, Append(s, pkt), own)
BY DEF Moved

LEMMA MovedTypes ==
  ASSUME NEW s \in Seq(Packet), NEW t, NEW own, Moved(s, t, own),
         \A k \in 1..Len(s) : s[k].type \in {"ROUTE_UPDATE", "SIP"}
  PROVE  \A k \in 1..Len(t) : t[k].type \in {"ROUTE_UPDATE", "SIP"}
<1>1. CASE t = s
  BY <1>1
<1>2. CASE s # <<>> /\ t = Tail(s)
  <2>1. \A k \in 1..Len(t) : k + 1 \in 1..Len(s) /\ t[k] = s[k + 1]
    BY <1>2
  <2> QED  BY <2>1
<1>3. CASE \E pkt \in Packet : /\ pkt.type = "SIP" \/ (pkt.type = "ROUTE_UPDATE" /\ pkt.vec = own)
                               /\ t = Append(s, pkt)
  <2>1. PICK pkt \in Packet : pkt.type \in {"ROUTE_UPDATE", "SIP"} /\ t = Append(s, pkt)
    BY <1>3
  <2>2. \A k \in 1..Len(t) : t[k] = pkt \/ (k \in 1..Len(s) /\ t[k] = s[k])
    BY <2>1
  <2> QED  BY <2>1, <2>2
<1> QED  BY <1>1, <1>2, <1>3 DEF Moved

\* Costs and routes stay, packets move.
LEMMA CarryStep ==
  ASSUME NEW D, Good(D), LoopFree, UNCHANGED <<cost, next, online>>,
         \A n \in Nodes : \A m \in Nbrs[n] : Moved(queue[n][m], queue'[n][m], cost[n][n]),
         \A n \in Nodes : /\ handler'[n] = handler[n] \/ handler'[n].pc = "idle"
                          /\ monitor'[n].pc = "scan"
  PROVE  LoopFree'
<1>1. AllWell'
  <2>1. ASSUME NEW n \in Nodes, NEW m \in Nbrs[n]
        PROVE  \A k \in 1..Len(queue'[n][m]) : queue'[n][m][k].type \in {"ROUTE_UPDATE", "SIP"}
    BY LoopTypes, MovedTypes DEF LoopFree, AllWell
  <2> QED  BY <2>1 DEF LoopFree, AllWell
<1>2. VectorsFall'
  <2>1. ASSUME NEW n \in Nodes, NEW m \in Nbrs[n]
        PROVE  Falls(queue'[n][m], m, cost[m][n], cost[n][n])
    <3>1. /\ queue[n][m] \in Seq(Packet) /\ cost[m][n] \in Vector /\ cost[n][n] \in Vector
          /\ Falls(queue[n][m], m, cost[m][n], cost[n][n])
          /\ Moved(queue[n][m], queue'[n][m], cost[n][n])
      BY LoopTypes DEF LoopFree, VectorsFall
    <3>2. CASE queue[n][m] # <<>> /\ queue'[n][m] = Tail(queue[n][m])
      BY <3>1, <3>2, FallsPopped
    <3>3. ASSUME NEW pkt \in Packet, pkt.type = "SIP" \/ (pkt.type = "ROUTE_UPDATE" /\ pkt.vec = cost[n][n]),
                 queue'[n][m] = Append(queue[n][m], pkt)
          PROVE  Falls(queue'[n][m], m, cost[m][n], cost[n][n])
      BY <3>1, <3>3, FallsPushed
    <3> QED  BY <3>1, <3>2, <3>3 DEF Moved
  <2> QED  BY <2>1 DEF VectorsFall
<1>3. WayThere' /\ HopIsNearer'
  BY DEF LoopFree, WayThere, Ways, Via, HopIsNearer
<1> QED  BY <1>1, <1>2, <1>3 DEF LoopFree

\* One queue is left shorter, or longer.
LEMMA OneMoved ==
  ASSUME NEW D, Good(D), NEW n \in Nodes, NEW m \in Nbrs[n], NEW s,
         Moved(queue[n][m], s, cost[n][n])
  PROVE  \A a \in Nodes : \A b \in Nbrs[a] :
           /\ Moved(queue[a][b], [queue EXCEPT ![n][m] = s][a][b], cost[a][a])
           /\ a # n \/ b # m => [queue EXCEPT ![n][m] = s][a][b] = queue[a][b]
<1>1. DOMAIN queue = Nodes /\ queue[n] \in [Nbrs[n] -> Seq(Packet)]
  BY DEF Good, GoodQueues, QueuesOK
<1> DEFINE r == [queue EXCEPT ![n][m] = s]
<1>2. r[n][m] = s /\ \A a \in Nodes : \A b \in Nbrs[a] : a # n \/ b # m => r[a][b] = queue[a][b]
  BY <1>1
<1> HIDE DEF r
<1>3. \A a \in Nodes : \A b \in Nbrs[a] :
        Moved(queue[a][b], r[a][b], cost[a][a]) /\ (a # n \/ b # m => r[a][b] = queue[a][b])
  <2> TAKE a \in Nodes
  <2> TAKE b \in Nbrs[a]
  <2>1. CASE a = n /\ b = m
    BY <2>1, <1>2
  <2>2. CASE a # n \/ b # m
    BY <2>2, <1>2 DEF Moved
  <2> QED  BY <2>1, <2>2
<1> QED  BY <1>3 DEF r

LEMMA BroadcastLoopFree ==
  ASSUME NEW D, Good(D), LoopFree, NEW n \in Nodes, Broadcast(n)
  PROVE  LoopFree'
<1>1. RouteUpdate(n) \in Packet /\ RouteUpdate(n).type = "ROUTE_UPDATE" /\ RouteUpdate(n).vec = cost[n][n]
  BY OwnUpdate DEF Good, RouteUpdate
<1>2. \A a \in Nodes : \A b \in Nbrs[a] :
        queue'[a][b] = IF a = n THEN Append(queue[a][b], RouteUpdate(n)) ELSE queue[a][b]
  BY DEF Broadcast, Good, GoodQueues, QueuesOK
<1>3. \A a \in Nodes : \A b \in Nbrs[a] : Moved(queue[a][b], queue'[a][b], cost[a][a])
  BY <1>1, <1>2 DEF Moved
<1> QED  BY <1>3, CarryStep DEF Broadcast, tables, threads, LoopFree, AllWell

LEMMA SendDataLoopFree ==
  ASSUME NEW D, Good(D), LoopFree, NEW n \in Nodes, NEW dest \in Nodes, SendData(n, dest)
  PROVE  LoopFree'
<1>1. Data(dest) \in Packet /\ Data(dest).type = "SIP"
  BY DataType DEF Data
<1> DEFINE hop == next[n][dest]
<1>2. \A a \in Nodes : \A b \in Nbrs[a] : Moved(queue[a][b], queue'[a][b], cost[a][a])
  <2>1. CASE hop \in Nbrs[n]
    <3>1. queue' = [queue EXCEPT ![n][hop] = Append(queue[n][hop], Data(dest))]
      BY <2>1 DEF SendData, SonSend
    <3>2. Moved(queue[n][hop], Append(queue[n][hop], Data(dest)), cost[n][n])
      BY <1>1, MovedOn
    <3> QED  BY <2>1, <3>1, <3>2, OneMoved
  <2>2. CASE hop \notin Nbrs[n]
    BY <2>2 DEF SendData, SonSend, Moved
  <2> QED  BY <2>1, <2>2
<1> QED  BY <1>2, CarryStep DEF SendData, tables, threads, LoopFree, AllWell

LEMMA PassOnLoopFree ==
  ASSUME NEW D, Good(D), LoopFree, NEW n \in Nodes, NEW from \in Nbrs[n],
         Deliver(n, from) \/ Drop(n, from) \/ Forward(n, from)
  PROVE  LoopFree'
<1> DEFINE s == queue[from][n]
           pkt == Head(s)
           rest == [queue EXCEPT ![from][n] = Tail(@)]
           hop == next[n][pkt.dest]
<1>1. from \in Nodes /\ n \in Nbrs[from] /\ s # <<>> /\ s \in Seq(Packet) /\ pkt \in Packet
  BY LoopTypes, TakeStep DEF Deliver, Drop, Forward, Take
<1>2. \A a \in Nodes : \A b \in Nbrs[a] :
        /\ Moved(queue[a][b], rest[a][b], cost[a][a])
        /\ a # from \/ b # n => rest[a][b] = queue[a][b]
  <2>1. Moved(s, Tail(s), cost[from][from])
    BY <1>1 DEF Moved
  <2>2. PICK t : t = Tail(s)
    OBVIOUS
  <2>3. rest = [queue EXCEPT ![from][n] = t]
    BY <2>2
  <2>4. Moved(queue[from][n], t, cost[from][from])
    BY <2>1, <2>2
  <2>5. \A a \in Nodes : \A b \in Nbrs[a] :
          /\ Moved(queue[a][b], [queue EXCEPT ![from][n] = t][a][b], cost[a][a])
          /\ a # from \/ b # n => [queue EXCEPT ![from][n] = t][a][b] = queue[a][b]
    <3> HIDE DEF rest, s, pkt, hop
    <3> QED  BY <1>1, <2>4, OneMoved
  <2> HIDE DEF rest, s
  <2> QED  BY <2>3, <2>5
<1>3. \/ queue' = rest
      \/ pkt.type = "SIP" /\ hop \in Nbrs[n] /\ queue' = [rest EXCEPT ![n][hop] = Append(@, pkt)]
  BY DEF Deliver, Drop, Forward, Take
<1>4. \A a \in Nodes : \A b \in Nbrs[a] : Moved(queue[a][b], queue'[a][b], cost[a][a])
  <2>1. CASE queue' = rest
    BY <2>1, <1>2
  <2>2. CASE pkt.type = "SIP" /\ hop \in Nbrs[n] /\ queue' = [rest EXCEPT ![n][hop] = Append(@, pkt)]
    <3>1. DOMAIN rest = Nodes /\ rest[n] = queue[n] /\ DOMAIN queue[n] = Nbrs[n]
      BY <1>1, LoopTypes DEF Good, GoodQueues, QueuesOK
    <3> HIDE DEF rest, hop, pkt
    <3>2. /\ queue'[n][hop] = Append(queue[n][hop], pkt)
          /\ \A a \in Nodes : \A b \in Nbrs[a] : a # n \/ b # hop => queue'[a][b] = rest[a][b]
      BY <2>2, <3>1
    <3>3. Moved(queue[n][hop], Append(queue[n][hop], pkt), cost[n][n])
      BY <1>1, <2>2, MovedOn
    <3> QED  BY <1>2, <3>2, <3>3
  <2> QED  BY <1>3, <2>1, <2>2
<1>5. UNCHANGED <<cost, next, online, handler, monitor>>
  BY DEF Deliver, Drop, Forward, tables, threads
<1>6. \A a \in Nodes : /\ handler'[a] = handler[a] \/ handler'[a].pc = "idle"
                       /\ monitor'[a].pc = "scan"
  BY <1>5 DEF LoopFree, AllWell
<1> QED  BY <1>4, <1>5, <1>6, CarryStep

\* SetFlag, Look and Start change nothing that matters.
LEMMA OthersLoopFree ==
  ASSUME NEW D, Good(D), LoopFree, NEW n \in Nodes,
         SetFlag(n) \/ Start(n) \/ \E nbr \in Nbrs[n] : Look(n, nbr) /\ UNCHANGED monitor
  PROVE  LoopFree'
<1>1. \A a \in Nodes : \A b \in Nbrs[a] : Moved(queue[a][b], queue'[a][b], cost[a][a])
  BY DEF SetFlag, Start, Look, Moved
<1>2. \A a \in Nodes : handler'[a] = handler[a] \/ handler'[a].pc = "idle"
  BY DEF SetFlag, Start, Look, Idle, Good, GoodThreads, ThreadsOK
<1>3. \A a \in Nodes : monitor'[a].pc = "scan"
  BY DEF SetFlag, Start, Look, LoopFree, AllWell
<1>4. UNCHANGED <<cost, next, online>>
  BY DEF SetFlag, Start, Look, tables
<1> QED  BY <1>1, <1>2, <1>3, <1>4, CarryStep

\* A vector is stored: what is left under way is no higher, and the ways only get shorter.
LEMMA HandleUpdateLoopFree ==
  ASSUME NEW D, Good(D), LoopFree, NEW n \in Nodes, NEW from \in Nbrs[n], HandleUpdate(n, from)
  PROVE  LoopFree'
<1> DEFINE s == queue[from][n]
           pkt == Head(s)
           t == Tail(s)
           c == WithVector(n, Nodes, from, pkt.vec)
<1>1. /\ from \in Nodes /\ n \in Nbrs[from] /\ s # <<>> /\ s \in Seq(Packet) /\ from # n
      /\ pkt.type = "ROUTE_UPDATE" /\ pkt.src = from /\ pkt.vec \in Vector
      /\ queue' = [queue EXCEPT ![from][n] = t]
  BY LoopTypes, TakeStep, PacketFields DEF HandleUpdate, Take, GoodPacket, Vector
<1>2. online[n] = Nodes /\ online[n] \cup {from} = Nodes
  BY <1>1 DEF LoopFree, AllWell
<1>3. /\ cost' = [cost EXCEPT ![n] = c] /\ next' = next /\ online' = [online EXCEPT ![n] = Nodes]
      /\ handler' = [handler EXCEPT ![n] = [pc |-> "update", pkt |-> pkt, todo |-> {}]]
      /\ UNCHANGED <<up, monitor>>
  BY <1>1, <1>2 DEF HandleUpdate
<1>4. /\ DOMAIN cost = Nodes
      /\ \A a, x \in Nodes : cost[a][x] \in Vector
      /\ \A x \in Nodes : x # from => c[x] = cost[n][x]
      /\ \A d \in Nodes \ {n} : c[from][d] = pkt.vec[d]
  <2>1. DOMAIN cost = Nodes /\ cost[n] \in [Nodes -> [Nodes -> Cost]]
    BY DEF Good, GoodTables, TablesOK
  <2> QED  BY <1>1, <2>1, LoopTypes DEF WithVector
<1>5. /\ cost'[n] = c /\ \A a \in Nodes : a # n => cost'[a] = cost[a]
  BY <1>3, <1>4
<1> HIDE DEF c
<1>6. /\ Falls(t, n, c[from], cost[from][from])
      /\ \A d \in Nodes \ {n} : cost[n][from][d] >= c[from][d] \/ cost[n][from][d] = c[from][d]
  <2>1. Falls(s, n, cost[n][from], cost[from][from])
    BY <1>1 DEF LoopFree, VectorsFall
  <2>2. Head(s).type = "ROUTE_UPDATE" /\ \A d \in Nodes \ {n} : c[from][d] = Head(s).vec[d]
    BY <1>1, <1>4
  <2>3. s \in Seq(Packet) /\ s # <<>>
    BY <1>1
  <2> HIDE DEF s
  <2> QED  BY <2>1, <2>2, <2>3, FallsPopped
<1>7. \A a \in Nodes : \A b \in Nbrs[a] :
        /\ a # from \/ b # n => queue'[a][b] = queue[a][b]
        /\ a = from /\ b = n => queue'[a][b] = t
  <2>1. Moved(queue[from][n], t, cost[from][from])
    BY <1>1 DEF Moved
  <2>2. DOMAIN queue = Nodes /\ DOMAIN queue[from] = Nbrs[from]
    BY <1>1 DEF Good, GoodQueues, QueuesOK
  <2> HIDE DEF s, t
  <2> QED  BY <1>1, <2>1, <2>2
<1>8. AllWell'
  <2>1. \A k \in 1..Len(t) : t[k].type \in {"ROUTE_UPDATE", "SIP"}
    <3>1. Moved(s, t, cost[from][from]) /\ \A k \in 1..Len(s) : s[k].type \in {"ROUTE_UPDATE", "SIP"}
      BY <1>1 DEF Moved, LoopFree, AllWell
    <3> QED  BY <1>1, <3>1, MovedTypes
  <2>2. ASSUME NEW a \in Nodes, NEW b \in Nbrs[a]
        PROVE  \A k \in 1..Len(queue'[a][b]) : queue'[a][b][k].type \in {"ROUTE_UPDATE", "SIP"}
    <3>1. CASE a = from /\ b = n
      BY <1>7, <2>1, <3>1
    <3>2. CASE a # from \/ b # n
      BY <1>7, <3>2 DEF LoopFree, AllWell
    <3> QED  BY <3>1, <3>2
  <2>3. ASSUME NEW a \in Nodes
        PROVE  /\ online'[a] = Nodes /\ monitor'[a].pc = "scan"
               /\ \/ handler'[a].pc = "idle"
                  \/ handler'[a].pc = "update" /\ handler'[a].pkt.type = "ROUTE_UPDATE" /\ handler'[a].todo = {}
    <3>1. DOMAIN handler = Nodes /\ DOMAIN online = Nodes
      BY DEF Good, GoodThreads, ThreadsOK, GoodTables, TablesOK
    <3> HIDE DEF pkt
    <3> QED  BY <1>1, <1>3, <3>1 DEF LoopFree, AllWell
  <2> QED  BY <2>2, <2>3 DEF AllWell
<1>9. VectorsFall'
  <2>1. ASSUME NEW a \in Nodes, NEW m \in Nbrs[a]
        PROVE  Falls(queue'[a][m], m, cost'[m][a], cost'[a][a])
    <3>1. m \in Nodes /\ m # a /\ Falls(queue[a][m], m, cost[m][a], cost[a][a])
      BY LoopTypes DEF LoopFree, VectorsFall
    <3>2. cost'[a][a] = cost[a][a]
      BY <1>1, <1>4, <1>5
    <3>3. CASE a = from /\ m = n
      BY <1>5, <1>6, <1>7, <3>2, <3>3
    <3>4. CASE a # from \/ m # n
      BY <1>4, <1>5, <1>7, <3>1, <3>2, <3>4
    <3> QED  BY <3>3, <3>4
  <2> QED  BY <2>1 DEF VectorsFall
<1>10. WayThere'
  <2>1. ASSUME NEW a \in Nodes, NEW d \in Nodes, d # a
        PROVE  \E w \in Ways(a, d)' : w <= cost'[a][a][d]
    <3>1. PICK w \in Ways(a, d) : w <= cost[a][a][d]
      BY <2>1 DEF LoopFree, WayThere
    <3>2. cost'[a][a] = cost[a][a] /\ cost[a][a][d] \in Nat
      <4>1. cost'[a][a] = cost[a][a]
        BY <1>1, <1>4, <1>5
      <4>2. cost[a][a][d] \in Nat
        BY <1>4 DEF Vector, Cost
      <4> QED  BY <4>1, <4>2
    <3>3. CASE w = LinkCost[a][d]
      BY <3>1, <3>2, <3>3 DEF Ways
    <3>4. ASSUME NEW mid \in Nodes \ {a}, w = Via(a, mid, d)
          PROVE  Via(a, mid, d)' <= cost'[a][a][d]
      <4>1. /\ cost'[a][a][mid] = cost[a][a][mid] /\ cost[a][a][mid] \in Nat /\ cost[a][mid][d] \in Nat
            /\ cost[a][a][mid] + cost[a][mid][d] <= cost[a][a][d]
        BY <1>4, <3>1, <3>2, <3>4 DEF Via, Vector, Cost
      <4>2. cost'[a][mid][d] \in Nat /\ cost'[a][mid][d] <= cost[a][mid][d]
        <5>1. CASE a = n /\ mid = from
          <6>1. /\ cost'[a][mid][d] = pkt.vec[d] /\ pkt.vec[d] \in Nat
                /\ cost[a][mid][d] >= pkt.vec[d] \/ cost[a][mid][d] = pkt.vec[d]
            BY <1>1, <1>4, <1>5, <1>6, <2>1, <5>1 DEF Vector, Cost
          <6> QED  BY <4>1, <6>1
        <5>2. CASE a # n \/ mid # from
          BY <1>4, <1>5, <4>1, <5>2
        <5> QED  BY <5>1, <5>2
      <4> QED  BY <3>2, <4>1, <4>2 DEF Via
    <3> QED  BY <3>1, <3>3, <3>4 DEF Ways
  <2> QED  BY <2>1 DEF WayThere
<1>11. HopIsNearer'
  <2>1. \A a \in Nodes : cost'[a][a] = cost[a][a]
    BY <1>1, <1>4, <1>5
  <2> QED  BY <1>3, <2>1, NbrsFacts DEF LoopFree, HopIsNearer
<1> QED  BY <1>8, <1>9, <1>10, <1>11 DEF LoopFree

\* The own cost of n to d becomes c, that of a way of the least cost.
SetToLeast(n, d, c) ==
  /\ c \in Ways(n, d) /\ c \in Nat /\ \A w \in Ways(n, d) : c <= w
  /\ cost' = [cost EXCEPT ![n][n][d] = c]

\* No cost rises, and none but that one changes.
OnlyFalls(n, d, c) ==
  /\ \A a, x, y \in Nodes : /\ cost'[a][x][y] \in Nat /\ cost[a][x][y] \in Nat
                            /\ cost'[a][x][y] <= cost[a][x][y]
                            /\ a # n \/ x # n \/ y # d => cost'[a][x][y] = cost[a][x][y]
  /\ cost'[n][n][d] = c

LEMMA OwnCostFalls ==
  ASSUME Good(One), LoopFree, NEW n \in Nodes, NEW d \in Nodes \ {n}, NEW c, SetToLeast(n, d, c)
  PROVE  OnlyFalls(n, d, c)
<1> USE DEF SetToLeast
<1>1. /\ cost \in [Nodes -> [Nodes -> [Nodes -> Cost]]] /\ Cost \subseteq Nat
  BY DEF Good, GoodTables, TablesOK, Cost
<1>2. cost'[n][n][d] = c
  BY <1>1
<1>3. ASSUME NEW a \in Nodes, NEW x \in Nodes, NEW y \in Nodes, a # n \/ x # n \/ y # d
      PROVE  cost'[a][x][y] = cost[a][x][y]
  BY <1>1, <1>3
<1>5. \A a, x, y \in Nodes : cost[a][x][y] \in Nat
  BY LoopTypes DEF Vector, Cost
<1>4. c <= cost[n][n][d]
  <2>1. PICK w \in Ways(n, d) : w <= cost[n][n][d]
    BY DEF LoopFree, WayThere
  <2>2. \A v \in Ways(n, d) : c <= v
    OBVIOUS
  <2>3. w \in Nat /\ cost[n][n][d] \in Nat
    <3>1. \A mid \in Nodes \ {n} : Via(n, mid, d) \in Nat
      BY ONLY <1>5, n \in Nodes, d \in Nodes DEF Via
    <3>2. LinkCost[n][d] \in Nat
      BY TopologyAssumption
    <3>3. w = LinkCost[n][d] \/ \E mid \in Nodes \ {n} : w = Via(n, mid, d)
      BY <2>1 DEF Ways
    <3>4. w \in Nat
      BY ONLY <3>1, <3>2, <3>3
    <3> QED  BY ONLY <1>5, <3>4, n \in Nodes, d \in Nodes
  <2> QED  BY <2>1, <2>2, <2>3
<1>6. ASSUME NEW a \in Nodes, NEW x \in Nodes, NEW y \in Nodes
      PROVE  cost'[a][x][y] \in Nat /\ cost'[a][x][y] <= cost[a][x][y]
  <2>1. CASE a = n /\ x = n /\ y = d
    BY <1>2, <1>4, <2>1
  <2>2. CASE a # n \/ x # n \/ y # d
    BY <1>3, <1>5, <2>2
  <2> QED  BY <2>1, <2>2
<1> QED  BY <1>2, <1>3, <1>5, <1>6 DEF OnlyFalls

\* A turn of update_routingtable: the costs of n fall, and a new hop is nearer.
LEMMA UpdateTurnLoopFree ==
  ASSUME Good(One), Good(One)', LoopFree, NEW n \in Nodes, UpdateTurn(n)
  PROVE  LoopFree'
<1> DEFINE d == NodeArray[pass[n]]
<1>1. /\ d \in Nodes /\ UpdateRoute(n, d) /\ UNCHANGED <<online, monitor, handler, queue>>
  <2>1. pass[n] \in 0..Len(NodeArray) /\ Len(NodeArray) \in Nat /\ pass[n] # 0
    BY AsIs, ArrayLength DEF UpdateTurn
  <2> QED  BY <2>1, TopologyAssumption DEF UpdateTurn
<1> HIDE DEF d
<1>2. AllWell'
  BY <1>1 DEF LoopFree, AllWell
<1>3. CASE d = n
  <2>1. cost' = cost /\ next' = next
    BY <1>1, <1>3 DEF UpdateRoute
  <2> QED  BY <1>1, <1>2, <2>1 DEF LoopFree, VectorsFall, WayThere, Ways, Via, HopIsNearer
<1>4. CASE d # n
  <2>1. d \in online[n] /\ GoodTables(One)
    BY <1>1 DEF LoopFree, AllWell, Good
  <2>2. PICK c \in Ways(n, d), hop \in Nodes \cup {NoHop} :
          /\ c \in Nat /\ \A w \in Ways(n, d) : c <= w
          /\ cost' = [cost EXCEPT ![n][n][d] = c] /\ next' = [next EXCEPT ![n][d] = hop]
          /\ hop \notin {NoHop, d} => hop \in Nbrs[n] /\ c = Via(n, hop, d)
    BY <1>1, <1>4, <2>1, OneIsDistance, RouteFound
  <2>3. /\ \A a, x, y \in Nodes : /\ cost'[a][x][y] \in Nat /\ cost[a][x][y] \in Nat
                                  /\ cost'[a][x][y] <= cost[a][x][y]
                                  /\ a # n \/ x # n \/ y # d => cost'[a][x][y] = cost[a][x][y]
        /\ cost'[n][n][d] = c
    <3>1. d \in Nodes \ {n} /\ SetToLeast(n, d, c)
      BY <1>1, <1>4, <2>2 DEF SetToLeast
    <3>2. OnlyFalls(n, d, c)
      BY <3>1, OwnCostFalls
    <3> QED  BY <3>2 DEF OnlyFalls
  <2>4. VectorsFall'
    <3>1. ASSUME NEW a \in Nodes, NEW m \in Nbrs[a]
          PROVE  Falls(queue[a][m], m, cost'[m][a], cost'[a][a])
      <4>1. /\ m \in Nodes /\ m # a /\ queue[a][m] \in Seq(Packet)
            /\ cost[m][a] \in Vector /\ cost[a][a] \in Vector
            /\ Falls(queue[a][m], m, cost[m][a], cost[a][a])
        BY LoopTypes DEF LoopFree, VectorsFall
      <4>2. cost'[a][a] \in Vector /\ cost'[m][a] \in Vector
        BY <4>1 DEF Good, GoodTables, TablesOK, Vector
      <4>3. cost'[m][a] = cost[m][a]
        <5>1. \A y \in Nodes : cost'[m][a][y] = cost[m][a][y]
          BY <2>3, <4>1
        <5> QED  BY <4>1, <4>2, <5>1 DEF Vector
      <4>4. \A y \in Nodes : cost'[a][a][y] <= cost[a][a][y]
        BY <2>3
      <4> QED  BY <4>1, <4>2, <4>3, <4>4, FallsFurther
    <3> QED  BY <1>1, <3>1 DEF VectorsFall
  <2>5. WayThere'
    <3>1. ASSUME NEW a \in Nodes, NEW y \in Nodes, y # a
          PROVE  \E w \in Ways(a, y)' : w <= cost'[a][a][y]
      <4>1. \A mid \in Nodes \ {a} : /\ Via(a, mid, y)' \in Nat /\ Via(a, mid, y) \in Nat
                                     /\ Via(a, mid, y)' <= Via(a, mid, y)
        BY <2>3 DEF Via
      <4>2. \A w \in Ways(a, y) : \E v \in Ways(a, y)' : v <= w
        <5>1. LinkCost[a][y] \in Nat
          BY TopologyAssumption
        <5> QED  BY <4>1, <5>1 DEF Ways
      <4>3. CASE a # n \/ y # d
        <5>1. cost'[a][a][y] = cost[a][a][y]
          BY <2>3, <4>3
        <5>2. PICK w \in Ways(a, y) : w <= cost[a][a][y]
          BY <3>1 DEF LoopFree, WayThere
        <5>3. PICK v \in Ways(a, y)' : v <= w
          BY <4>2
        <5>4. LinkCost[a][y] \in Nat /\ cost[a][a][y] \in Nat
          BY <2>3, TopologyAssumption
        <5>5. w \in Nat
          BY <4>1, <5>2, <5>4 DEF Ways
        <5>6. v \in Nat
          BY <4>1, <5>3, <5>4 DEF Ways
        <5>7. v <= cost'[a][a][y]
          BY <5>1, <5>2, <5>3, <5>4, <5>5, <5>6
        <5> QED  BY <5>7
      <4>4. CASE a = n /\ y = d
        <5>1. c \in Ways(a, y) /\ cost'[a][a][y] = c
          BY <2>2, <2>3, <4>4
        <5> QED  BY <4>2, <5>1
      <4> QED  BY <4>3, <4>4
    <3> QED  BY <3>1 DEF WayThere
  <2>6. HopIsNearer'
    <3>1. ASSUME NEW a \in Nodes, NEW y \in Nodes, next'[a][y] \in Nbrs[a] \ {y}
          PROVE  cost'[next'[a][y]][next'[a][y]][y] < cost'[a][a][y]
      <4> DEFINE h == next'[a][y]
      <4>1. h \in Nodes /\ h # a
        BY <3>1, NbrsFacts
      <4>2. CASE a # n \/ y # d
        <5>1. h = next[a][y] /\ cost'[a][a][y] = cost[a][a][y]
          BY <2>2, <2>3, <4>2 DEF Good, GoodTables, TablesOK
        <5>2. cost[h][h][y] < cost[a][a][y]
          BY <3>1, <5>1 DEF LoopFree, HopIsNearer
        <5> HIDE DEF h
        <5>3. cost'[h][h][y] <= cost[h][h][y] /\ cost'[h][h][y] \in Nat /\ cost[h][h][y] \in Nat
              /\ cost[a][a][y] \in Nat
          BY <2>3, <4>1
        <5>4. cost'[h][h][y] < cost'[a][a][y]
          BY <5>1, <5>2, <5>3
        <5> QED  BY <5>4 DEF h
      <4>3. CASE a = n /\ y = d
        <5>1. h = hop /\ hop \in Nbrs[n] /\ hop # d /\ hop # NoHop
          BY <2>2, <3>1, <4>1, <4>3, NbrsFacts DEF Good, GoodTables, TablesOK
        <5>2. c = cost[n][n][hop] + cost[n][hop][d]
          BY <2>2, <5>1 DEF Via
        <5>3. cost[n][n][hop] >= 1
          BY <4>1, <5>1, <4>3 DEF Good, GoodTables, GoodCosts, One
        <5>4. cost[n][hop][d] >= cost[hop][hop][d]
          <6>1. n \in Nbrs[hop] /\ hop \in Nodes
            BY <5>1, LoopTypes
          <6> QED  BY <1>1, <1>4, <6>1 DEF LoopFree, VectorsFall, Falls
        <5>5. /\ cost'[hop][hop][d] = cost[hop][hop][d] /\ cost[hop][hop][d] \in Nat
              /\ cost[n][n][hop] \in Nat /\ cost[n][hop][d] \in Nat
          BY <1>1, <2>3, <4>1, <4>3, <5>1
        <5>6. cost'[hop][hop][d] < c
          BY <5>2, <5>3, <5>4, <5>5
        <5> QED  BY <2>3, <4>3, <5>1, <5>6
      <4> QED  BY <4>2, <4>3
    <3> QED  BY <3>1 DEF HopIsNearer
  <2> QED  BY <1>2, <2>4, <2>5, <2>6 DEF LoopFree
<1> QED  BY <1>3, <1>4

-----------------------------------------------------------------------------
(* The theorem.                                                             *)

LEMMA FreshCosts ==
  ASSUME NEW n \in Nodes, NEW x \in Nodes, NEW y \in Nodes
  PROVE  FreshCost(n)[x][y] =
           IF x # n THEN INFINITE_COST ELSE IF y = n THEN 0 ELSE LinkCost[n][y]
BY DEF FreshCost

LEMMA InitLoopFree ==
  ASSUME Init
  PROVE  LoopFree
<1>1. /\ \A n \in Nodes : cost[n] = FreshCost(n) /\ next[n] = FreshNext(n) /\ online[n] = Nodes
      /\ \A n \in Nodes : \A m \in Nbrs[n] : queue[n][m] = <<>>
      /\ \A n \in Nodes : handler[n] = Idle /\ monitor[n] = Scanning
  BY DEF Init, TablesInit
<1>2. AllWell
  BY <1>1 DEF AllWell, Idle, Scanning
<1>3. VectorsFall
  <2>1. ASSUME NEW n \in Nodes, NEW m \in Nbrs[n], NEW d \in Nodes \ {m}
        PROVE  cost[m][n][d] >= cost[n][n][d]
    <3>1. m \in Nodes /\ m # n
      BY NbrsFacts
    <3>2. cost[m][n][d] = INFINITE_COST
      BY <1>1, <3>1, FreshCosts
    <3>3. cost[n][n][d] = IF d = n THEN 0 ELSE LinkCost[n][d]
      BY <1>1, FreshCosts
    <3> QED  BY <3>2, <3>3, TopologyAssumption
  <2>2. \A n \in Nodes : \A m \in Nbrs[n] : Len(queue[n][m]) = 0
    BY <1>1
  <2> QED  BY <2>1, <2>2 DEF VectorsFall, Falls
<1>4. WayThere
  <2>1. ASSUME NEW n \in Nodes, NEW d \in Nodes, d # n PROVE cost[n][n][d] = LinkCost[n][d]
    BY <1>1, <2>1, FreshCosts
  <2>2. \A n, d \in Nodes : LinkCost[n][d] \in Ways(n, d) /\ LinkCost[n][d] <= LinkCost[n][d]
    BY TopologyAssumption DEF Ways
  <2> QED  BY <2>1, <2>2 DEF WayThere
<1>5. HopIsNearer
  <2>1. ASSUME NEW n \in Nodes, NEW d \in Nodes PROVE next[n][d] \in {d, NoHop}
    BY <1>1 DEF FreshNext
  <2>2. \A n \in Nodes : NoHop \notin Nbrs[n]
    BY NbrsFacts
  <2> QED  BY <2>1, <2>2 DEF HopIsNearer
<1> QED  BY <1>2, <1>3, <1>4, <1>5 DEF LoopFree

LEMMA NextLoopFree ==
  ASSUME Calm, Good(One), Good(One)', LoopFree, [Next]_vars
  PROVE  LoopFree'
<1>1. CASE UNCHANGED vars
  BY <1>1 DEF vars, tables, threads, LoopFree, AllWell, VectorsFall, WayThere, Ways, Via, HopIsNearer
<1>2. CASE Next
  BY <1>2, CalmSteps, BroadcastLoopFree, SendDataLoopFree, PassOnLoopFree, HandleUpdateLoopFree,
     OthersLoopFree, UpdateTurnLoopFree DEF LoopFree
<1> QED  BY <1>1, <1>2

\* While no node is taken for offline and no process stops, every hop towards a node is
\* nearer to it than the node before, by the hop's own cost at that moment
\* (update_routingtable, which works with copies of vectors that may be old): whatever
\* the topology and the order of the updates, the routes have no loops.
THEOREM RoutesHaveNoLoops ==
  ASSUME Calm
  PROVE  Spec => []HopIsNearer
<1>1. Init => IInv(One) /\ LoopFree
  BY Inductiveness, OneIsDistance, InitLoopFree
<1>2. IInv(One) /\ LoopFree /\ [Next]_vars => (IInv(One) /\ LoopFree)'
  <2>1. IInv(One) /\ [Next]_vars => IInv(One)'
    BY Inductiveness, OneIsDistance
  <2>2. ASSUME IInv(One), IInv(One)', LoopFree, [Next]_vars PROVE LoopFree'
    <3>1. Good(One) /\ Good(One)'
      BY <2>2 DEF Good, IInv, GoodTables, GoodThreads, TypeOK, GoodQueues
    <3> QED  BY <2>2, <3>1, NextLoopFree
  <2> QED  BY <2>1, <2>2
<1>3. LoopFree => HopIsNearer
  BY DEF LoopFree
<1> QED  BY <1>1, <1>2, <1>3, PTL DEF Spec
=============================================================================
