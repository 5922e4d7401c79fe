-------------------------------- MODULE Sip --------------------------------
(***************************************************************************)
(* The SIP processes of SimpleNet lab10, sip/sip.c, and the overlay that   *)
(* joins them (son/son.c): on every node the threads pkthandler,           *)
(* routeupdate_daemon, monitor_route_update and waitSTCP around the tables *)
(* of SipTables.  A thread holds dv_mutex and routingtable_mutex together, *)
(* so they are one lock here.  It is held from the change of a table to    *)
(* the end of update_routingtable, whose turns are steps of their own.     *)
(***************************************************************************)
EXTENDS SipTables

CONSTANTS
  QueueCap,     \* bound: packets under way from a node to a neighbour
  MaxUpdates,   \* bound: route updates broadcast in all, 0 for no bound
  Watchers,     \* bound: the nodes whose monitor_route_update gets to run
  MaxSuspects,  \* bound: how often monitors declare a node offline
  Stoppers,     \* bound: the nodes whose SIP process gets stopped
  MaxStops,     \* bound: how often
  MaxData,      \* bound: segments that STCP processes hand to SIP
  Dist          \* what the costs are compared with: a distance of the topology

ASSUME BoundsAssumption ==
  /\ Watchers \subseteq Nodes
  /\ QueueCap \in Nat /\ MaxUpdates \in Nat
  /\ MaxSuspects \in Nat /\ MaxStops \in Nat /\ MaxData \in Nat

VARIABLES
  up,        \* the nodes whose SIP process runs
  handler,   \* the thread pkthandler of each node
  monitor,   \* the thread monitor_route_update
  pass,      \* update_routingtable: the turn to do next, 0 when nobody is in it
  queue,     \* queue[a][b]: packets SON carries from a to its neighbour b
  updates, suspects, stops, data   \* counters for the bounds

threads == <<up, handler, monitor, pass>>
counters == <<updates, suspects, stops, data>>
vars == <<tables, threads, queue, counters>>

(***************************************************************************)
(* Packets.  vec: the sender's vector; node, got: route_change_t, with the *)
(* nodes that have had the notice as a set.  A data packet is its dest.    *)
(***************************************************************************)
RouteUpdate(n) == [type |-> "ROUTE_UPDATE", src |-> n, vec |-> cost[n][n]]
Notice(type, node, got) == [type |-> type, node |-> node, got |-> got]
Data(dest) == [type |-> "SIP", dest |-> dest]
NoPacket == [type |-> "none"]

\* son_sendpkt, and SON: a packet for a next hop that is no neighbour is dropped.
SonSend(n, hop, pkt) ==
  IF hop \in Nbrs[n] THEN [queue EXCEPT ![n][hop] = Append(@, pkt)] ELSE queue

\* A bound: SON takes a packet only when it has room.
Room(n, hop) == hop \in Nbrs[n] => Len(queue[n][hop]) < QueueCap

Idle == [pc |-> "idle", pkt |-> NoPacket, todo |-> {}]
Scanning == [pc |-> "scan", nbr |-> NoHop, todo |-> {}]

Init ==
  /\ TablesInit
  /\ up = Nodes /\ pass = [n \in Nodes |-> 0]
  /\ handler = [n \in Nodes |-> Idle] /\ monitor = [n \in Nodes |-> Scanning]
  /\ queue = [n \in Nodes |-> [m \in Nbrs[n] |-> <<>>]]
  /\ updates = 0 /\ suspects = 0 /\ stops = 0 /\ data = 0

\* Nobody holds dv_mutex and routingtable_mutex of n.
Free(n) == handler[n].pc # "update" /\ monitor[n].pc # "update"

\* monitor_route_update holds the flag_mutex of a neighbour while it deals with it.
FlagFree(n, nbr) == ~(monitor[n].pc \in {"want", "update", "notify"} /\ monitor[n].nbr = nbr)

-----------------------------------------------------------------------------
(* routeupdate_daemon and waitSTCP                                          *)

Broadcast(n) ==
  /\ n \in up /\ Free(n) /\ (MaxUpdates = 0 \/ updates < MaxUpdates)
  /\ updates' = IF MaxUpdates = 0 THEN 0 ELSE updates + 1
  /\ \A m \in Nbrs[n] : Room(n, m)
  /\ queue' = [queue EXCEPT ![n] = [m \in Nbrs[n] |-> Append(@[m], RouteUpdate(n))]]
  /\ UNCHANGED <<tables, threads, suspects, stops, data>>

\* A segment of the local STCP process for dest goes to the next hop, if any.
SendData(n, dest) ==
  /\ n \in up /\ Free(n) /\ n # dest /\ data < MaxData
  /\ Room(n, next[n][dest])
  /\ queue' = SonSend(n, next[n][dest], Data(dest))
  /\ data' = data + 1
  /\ UNCHANGED <<tables, threads, updates, suspects, stops>>

-----------------------------------------------------------------------------
(* pkthandler                                                               *)

\* The handler takes the first packet of a neighbour.
Take(n, from) ==
  /\ n \in up /\ handler[n].pc = "idle"
  /\ queue[from][n] # <<>>
  /\ queue' = [queue EXCEPT ![from][n] = Tail(@)]

\* A data packet for n itself goes to its STCP process, without the lock.
Deliver(n, from) ==
  /\ Take(n, from)
  /\ Head(queue[from][n]) = Data(n)
  /\ UNCHANGED <<tables, threads, counters>>

\* A mutant: the packet takes the route to where it came from.
ForwardBack(n, from) ==
  /\ n \in up /\ handler[n].pc = "idle" /\ Free(n)
  /\ queue[from][n] # <<>>
  /\ LET pkt == Head(queue[from][n])
         rest == [queue EXCEPT ![from][n] = Tail(@)]
     IN /\ pkt.type = "SIP" /\ pkt.dest # n
        /\ LET hop == next[n][from] IN
           IF hop \in Nbrs[n]
           THEN Room(n, hop) /\ queue' = [rest EXCEPT ![n][hop] = Append(@, pkt)]
           ELSE queue' = rest
  /\ UNCHANGED <<tables, threads, counters>>

\* A data packet for another node goes on to the next hop, if there is one.
Forward(n, from) ==
  /\ n \in up /\ handler[n].pc = "idle" /\ Free(n)
  /\ queue[from][n] # <<>>
  /\ LET pkt == Head(queue[from][n])
         rest == [queue EXCEPT ![from][n] = Tail(@)]
     IN /\ pkt.type = "SIP" /\ pkt.dest # n
        /\ LET hop == next[n][pkt.dest] IN
           IF hop \in Nbrs[n]
           THEN Room(n, hop) /\ queue' = [rest EXCEPT ![n][hop] = Append(@, pkt)]
           ELSE queue' = rest
  /\ UNCHANGED <<tables, threads, counters>>

\* ROUTE_UPDATE.  The vector of the sender is stored.  A sender that was offline
\* is online again, one hop away, and the other neighbours are to hear of it.
HandleUpdate(n, from) ==
  /\ Take(n, from) /\ Free(n)
  /\ LET pkt == Head(queue[from][n])
         on == online[n] \cup {pkt.src}
         known == WithVector(n, on, pkt.src, pkt.vec)
         back == pkt.src \notin online[n]
     IN /\ pkt.type = "ROUTE_UPDATE"
        /\ online' = [online EXCEPT ![n] = on]
        /\ cost' = [cost EXCEPT ![n] =
             IF back THEN [known EXCEPT ![n][pkt.src] = LinkCost[n][pkt.src]] ELSE known]
        /\ next' = IF back THEN [next EXCEPT ![n][pkt.src] = pkt.src] ELSE next
        /\ handler' = [handler EXCEPT ![n] =
             [pc |-> "update", pkt |-> pkt, todo |-> IF back THEN Nbrs[n] \ {pkt.src} ELSE {}]]
  /\ pass' = [pass EXCEPT ![n] = 1]
  /\ UNCHANGED <<flag, up, monitor, counters>>

Updated(n, type) == handler[n].pc = "update" /\ handler[n].pkt.type = type /\ pass[n] = 0

\* After the pass a neighbour that is online hears (ROUTE_UPDATE_2) of the sender.
NotifyBack(n, m) ==
  /\ Updated(n, "ROUTE_UPDATE") /\ m \in handler[n].todo
  /\ handler' = [handler EXCEPT ![n].todo = @ \ {m}]
  /\ IF m \in online[n]
     THEN /\ Room(n, next[n][m])
          /\ queue' = SonSend(n, next[n][m], Notice("ROUTE_UPDATE_2", handler[n].pkt.src, {n}))
     ELSE UNCHANGED queue
  /\ UNCHANGED <<tables, up, monitor, pass, counters>>

\* Still holding the tables, it takes the sender's flag_mutex to set its flag.
SetFlag(n) ==
  /\ Updated(n, "ROUTE_UPDATE") /\ handler[n].todo = {}
  /\ FlagFree(n, handler[n].pkt.src)
  /\ flag' = [flag EXCEPT ![n][handler[n].pkt.src] = 1]
  /\ handler' = [handler EXCEPT ![n] = Idle]
  /\ UNCHANGED <<cost, online, next, up, monitor, pass, queue, counters>>

\* ROUTE_UPDATE_1: a node is offline.
HandleOffline(n, from) ==
  /\ Take(n, from) /\ Free(n)
  /\ LET pkt == Head(queue[from][n]) IN
     /\ pkt.type = "ROUTE_UPDATE_1"
     /\ SetOffline(n, pkt.node)
     /\ handler' = [handler EXCEPT ![n] =
          [pc |-> "update", pkt |-> pkt, todo |-> {}]]
     /\ pass' = [pass EXCEPT ![n] = 1]
  /\ UNCHANGED <<flag, up, monitor, counters>>

StartForwarding(n) ==
  /\ Updated(n, "ROUTE_UPDATE_1")
  /\ handler' = [handler EXCEPT ![n].pc = "forward", ![n].todo = Nbrs[n]]
  /\ UNCHANGED <<tables, up, monitor, pass, queue, counters>>

\* ROUTE_UPDATE_2: a node is online again.  The routes are not computed.
HandleOnline(n, from) ==
  /\ Take(n, from) /\ Free(n)
  /\ LET pkt == Head(queue[from][n]) IN
     /\ pkt.type = "ROUTE_UPDATE_2"
     /\ online' = [online EXCEPT ![n] = @ \cup {pkt.node}]
     /\ handler' = [handler EXCEPT ![n] =
          [pc |-> "forward", pkt |-> pkt, todo |-> Nbrs[n] \ {pkt.node}]]
  /\ UNCHANGED <<cost, next, flag, up, monitor, pass, counters>>

\* The notice goes on, without the lock, to the neighbours online that are not yet
\* on its list, to which n adds itself.
ForwardNotice(n, m) ==
  /\ handler[n].pc = "forward" /\ m \in handler[n].todo
  /\ IF m \in online[n] /\ m \notin handler[n].pkt.got
     THEN LET pkt == [handler[n].pkt EXCEPT !.got = @ \cup {n}] IN
          /\ Room(n, next[n][m])
          /\ queue' = SonSend(n, next[n][m], pkt)
          /\ handler' = [handler EXCEPT ![n].pkt = pkt, ![n].todo = @ \ {m}]
     ELSE /\ handler' = [handler EXCEPT ![n].todo = @ \ {m}]
          /\ UNCHANGED queue
  /\ UNCHANGED <<tables, up, monitor, pass, counters>>

EndForwarding(n) ==
  /\ handler[n].pc = "forward" /\ handler[n].todo = {}
  /\ handler' = [handler EXCEPT ![n] = Idle]
  /\ UNCHANGED <<tables, up, monitor, pass, queue, counters>>

-----------------------------------------------------------------------------
(* update_routingtable, in the thread that holds the tables                 *)

UpdateTurn(n) ==
  /\ pass[n] # 0
  /\ UpdateRoute(n, NodeArray[pass[n]])
  /\ pass' = [pass EXCEPT ![n] = IF @ = Len(NodeArray) THEN 0 ELSE @ + 1]
  /\ UNCHANGED <<online, flag, up, handler, monitor, queue, counters>>

-----------------------------------------------------------------------------
(* monitor_route_update                                                     *)

\* It looks at a neighbour's flag: 1, heard of since the last look; 0, not heard
\* of, so it is taken for offline and the thread goes on holding its flag_mutex;
\* 2, offline already.
Look(n, nbr) ==
  /\ n \in up \cap Watchers /\ monitor[n].pc = "scan"
  /\ \/ /\ flag[n][nbr] = 1
        /\ flag' = [flag EXCEPT ![n][nbr] = 0]
        /\ UNCHANGED <<monitor, suspects>>
     \/ /\ flag[n][nbr] = 0 /\ suspects < MaxSuspects
        /\ monitor' = [monitor EXCEPT ![n] = [pc |-> "want", nbr |-> nbr, todo |-> {}]]
        /\ suspects' = suspects + 1
        /\ UNCHANGED flag
  /\ UNCHANGED <<cost, online, next, up, handler, pass, queue, updates, stops, data>>

\* A mutant: it does not take the locks of the tables.
MarkOfflineUnlocked(n) ==
  /\ monitor[n].pc = "want"
  /\ SetOffline(n, monitor[n].nbr)
  /\ monitor' = [monitor EXCEPT ![n].pc = "update"]
  /\ pass' = [pass EXCEPT ![n] = 1]
  /\ UNCHANGED <<flag, up, handler, queue, counters>>

\* It takes the locks of the tables and marks the neighbour offline.
MarkOffline(n) ==
  /\ monitor[n].pc = "want" /\ Free(n)
  /\ SetOffline(n, monitor[n].nbr)
  /\ monitor' = [monitor EXCEPT ![n].pc = "update"]
  /\ pass' = [pass EXCEPT ![n] = 1]
  /\ UNCHANGED <<flag, up, handler, queue, counters>>

StartNotifying(n) ==
  /\ monitor[n].pc = "update" /\ pass[n] = 0
  /\ monitor' = [monitor EXCEPT ![n].pc = "notify", ![n].todo = Nbrs[n]]
  /\ UNCHANGED <<tables, up, handler, pass, queue, counters>>

\* For each neighbour it tests whether the offline node (not the neighbour) is
\* online: a notice is sent only when that node has come back in the meantime.
NotifyOffline(n, m) ==
  /\ monitor[n].pc = "notify" /\ m \in monitor[n].todo
  /\ monitor' = [monitor EXCEPT ![n].todo = @ \ {m}]
  /\ IF monitor[n].nbr \in online[n]
     THEN /\ Room(n, next[n][m])
          /\ queue' = SonSend(n, next[n][m], Notice("ROUTE_UPDATE_1", monitor[n].nbr, {n}))
     ELSE UNCHANGED queue
  /\ UNCHANGED <<tables, up, handler, pass, counters>>

EndNotifying(n) ==
  /\ monitor[n].pc = "notify" /\ monitor[n].todo = {}
  /\ flag' = [flag EXCEPT ![n][monitor[n].nbr] = 2]
  /\ monitor' = [monitor EXCEPT ![n] = Scanning]
  /\ UNCHANGED <<cost, online, next, up, handler, pass, queue, counters>>

-----------------------------------------------------------------------------
(* The process                                                              *)

\* sip_stop.  SON goes on; what it has for the process is lost.
Stop(n) ==
  /\ n \in up \cap Stoppers /\ stops < MaxStops
  /\ up' = up \ {n} /\ stops' = stops + 1
  /\ ResetTables(n)
  /\ handler' = [handler EXCEPT ![n] = Idle]
  /\ monitor' = [monitor EXCEPT ![n] = Scanning]
  /\ pass' = [pass EXCEPT ![n] = 0]
  /\ UNCHANGED <<queue, updates, suspects, data>>

Start(n) ==
  /\ n \notin up /\ up' = up \cup {n}
  /\ UNCHANGED <<tables, handler, monitor, pass, queue, counters>>

Drop(n, from) ==
  /\ n \notin up /\ queue[from][n] # <<>>
  /\ queue' = [queue EXCEPT ![from][n] = Tail(@)]
  /\ UNCHANGED <<tables, threads, counters>>

\* What pkthandler does with a packet of a neighbour, and what is left to do of it
Receive(n, from) ==
  \/ Deliver(n, from) \/ Forward(n, from)
  \/ HandleUpdate(n, from) \/ HandleOffline(n, from) \/ HandleOnline(n, from)

Finish(n) ==
  \/ SetFlag(n) \/ StartForwarding(n) \/ EndForwarding(n)
  \/ \E m \in Nbrs[n] : NotifyBack(n, m) \/ ForwardNotice(n, m)

Monitor(n) ==
  \/ \E nbr \in Nbrs[n] : Look(n, nbr) \/ NotifyOffline(n, nbr)
  \/ MarkOffline(n) \/ StartNotifying(n) \/ EndNotifying(n)

Next ==
  \E n \in Nodes :
    \/ Broadcast(n) \/ \E dest \in Nodes : SendData(n, dest)
    \/ \E from \in Nbrs[n] : Receive(n, from) \/ Drop(n, from)
    \/ Finish(n) \/ UpdateTurn(n) \/ Monitor(n)
    \/ Stop(n) \/ Start(n)

Spec == Init /\ [][Next]_vars

\* Threads go on, and the daemon wakes up again and again.  SON hands over the
\* packets of all neighbours in one stream, so none of them is passed over for
\* ever.  A monitor is not bound to find a neighbour silent.
Fairness ==
  \A n \in Nodes :
    /\ SF_vars(Broadcast(n)) /\ \A from \in Nbrs[n] : SF_vars(Receive(n, from))
    /\ WF_vars(Finish(n)) /\ WF_vars(UpdateTurn(n))
    /\ WF_vars(Monitor(n) /\ UNCHANGED suspects)

FairSpec == Spec /\ Fairness

-----------------------------------------------------------------------------
(* Types                                                                    *)

Cost == 0..INFINITE_COST
Packet ==
  [type : {"ROUTE_UPDATE"}, src : Nodes, vec : [Nodes -> Cost]]
    \cup [type : {"ROUTE_UPDATE_1", "ROUTE_UPDATE_2"}, node : Nodes, got : SUBSET Nodes]
    \cup [type : {"SIP"}, dest : Nodes]

TablesOK ==
  /\ cost \in [Nodes -> [Nodes -> [Nodes -> Cost]]]
  /\ online \in [Nodes -> SUBSET Nodes]
  /\ next \in [Nodes -> [Nodes -> Nodes \cup {NoHop}]]
  /\ DOMAIN flag = Nodes /\ \A n \in Nodes : flag[n] \in [Nbrs[n] -> 0..2]

ThreadsOK ==
  /\ up \subseteq Nodes /\ pass \in [Nodes -> 0..Len(NodeArray)]
  /\ handler \in [Nodes -> [pc : {"idle", "update", "forward"},
                            pkt : Packet \cup {NoPacket}, todo : SUBSET Nodes]]
  /\ monitor \in [Nodes -> [pc : {"scan", "want", "update", "notify"},
                            nbr : Nodes \cup {NoHop}, todo : SUBSET Nodes]]

QueuesOK(q) == DOMAIN q = Nodes /\ \A n \in Nodes : q[n] \in [Nbrs[n] -> Seq(Packet)]

CountersOK ==
  /\ updates \in 0..MaxUpdates /\ suspects \in 0..MaxSuspects
  /\ stops \in 0..MaxStops /\ data \in 0..MaxData

\* The shape of the tables, the threads and the packets under way.
TypeOK == TablesOK /\ ThreadsOK /\ QueuesOK(queue) /\ CountersOK

-----------------------------------------------------------------------------
(* Safety                                                                   *)

\* The tables have one writer: pkthandler and monitor_route_update are never
\* both between the change of a table and the end of update_routingtable, and a
\* pass goes on only in a thread that holds the locks.
OneWriter ==
  \A n \in Nodes :
    /\ ~(handler[n].pc = "update" /\ monitor[n].pc = "update")
    /\ pass[n] # 0 => ~Free(n)

\* SON drops what it is given for a node that is no neighbour (son.c:184-195),
\* without a word: the hop of every route, at every moment, is a neighbour.
HopIsNeighbour ==
  \A n, d \in Nodes : next[n][d] \in Nbrs[n] \cup {NoHop}

\* What a table of costs says, when nobody is changing it, agrees with the
\* routing table: there is a hop exactly for the nodes that can be reached.
HopIffReachable ==
  \A n, d \in Nodes :
    Free(n) /\ d # n => (next[n][d] = NoHop <=> cost[n][n][d] = INFINITE_COST)

\* A node that n takes to be offline is neither a destination of n's routes nor
\* the hop of one, when nobody is changing the tables.
OfflineUnused ==
  \A n, d \in Nodes :
    Free(n) /\ d \notin online[n] =>
      /\ next[n][d] = NoHop
      /\ \A x \in Nodes : next[n][x] # d

\* While nothing fails, every hop towards a node is nearer to it than the node
\* before (or is the node itself), though each goes by a copy of the other's
\* vector that may be old: the routes have no loops, not even for a moment.
HopIsNearer ==
  \A n, d \in Nodes :
    next[n][d] \in Nbrs[n] \ {d} => cost[next[n][d]][next[n][d]][d] < cost[n][n][d]

\* D is a distance: no link is shorter, no detour gives less.
IsDistance(D) ==
  /\ D \in [Nodes -> [Nodes -> Cost]]
  /\ \A x, y \in Nodes : D[x][y] <= LinkCost[x][y]
  /\ \A x, y, z \in Nodes : D[x][z] <= D[x][y] + D[y][z]
  /\ \A x \in Nodes : D[x][x] = 0

ASSUME DistAssumption == IsDistance(Dist)

\* No table and no route update says that a node is nearer than it is, whatever
\* fails and comes back: the costs never drop below a distance.
NotBelow(D) ==
  \A n \in Nodes :
    /\ \A from, to \in Nodes : cost[n][from][to] >= D[from][to]
    /\ \A m \in Nbrs[n] : \A k \in 1..Len(queue[n][m]) :
         queue[n][m][k].type = "ROUTE_UPDATE" =>
           \A to \in Nodes : queue[n][m][k].vec[to] >= D[n][to]

\* The same of Dist: when it is the lengths of the shortest paths, no cost is ever
\* lower than that of a real path.
CostsAreReal == NotBelow(Dist)

-----------------------------------------------------------------------------
(* The inductive invariant, for a distance D.                               *)

\* A node has vectors of itself and its neighbours only, and none is below D.
GoodCosts(n, c, D) ==
  /\ c \in [Nodes -> [Nodes -> Cost]]
  /\ \A from \in Nodes \ Rows[n], to \in Nodes : c[from][to] = INFINITE_COST
  /\ \A from, to \in Nodes : c[from][to] >= D[from][to]

\* A route update that n sent is about n, and not below D.
GoodPacket(n, pkt, D) ==
  pkt.type = "ROUTE_UPDATE" => pkt.src = n /\ \A to \in Nodes : pkt.vec[to] >= D[n][to]

GoodQueues(q, D) ==
  /\ QueuesOK(q)
  /\ \A n \in Nodes : \A m \in Nbrs[n] : \A k \in 1..Len(q[n][m]) : GoodPacket(n, q[n][m][k], D)

\* What a thread works on fits where it is: the packet to pkthandler, which holds the
\* tables for two kinds only, and a neighbour to the monitor.
ThreadsKnow ==
  \A n \in Nodes :
    LET h == handler[n] IN
    /\ h.pc # "idle" => h.pkt \in Packet
    /\ h.pc = "update" => \/ h.pkt.type = "ROUTE_UPDATE" /\ h.pkt.src \in Nbrs[n]
                          \/ h.pkt.type = "ROUTE_UPDATE_1"
    /\ h.pc = "forward" => h.pkt.type \in {"ROUTE_UPDATE_1", "ROUTE_UPDATE_2"}
    /\ monitor[n].pc # "scan" => monitor[n].nbr \in Nbrs[n]

IInv(D) ==
  /\ TypeOK /\ OneWriter /\ ThreadsKnow /\ HopIsNeighbour
  /\ \A n \in Nodes : GoodCosts(n, cost[n], D)
  /\ GoodQueues(queue, D)

\* It holds for Dist.
Inductive == IInv(Dist)

-----------------------------------------------------------------------------
(* Liveness                                                                 *)

\* While nothing fails, the vectors become the distances and stay so.
FindsDistances == <>[](\A n \in Nodes : cost[n][n] = Dist[n])

\* While nothing fails, what STCP gave to SIP does not stay under way for ever.
DataSettles ==
  []<>(\A n \in Nodes : \A m \in Nbrs[n] :
         \A k \in 1..Len(queue[n][m]) : queue[n][m][k].type # "SIP")

\* routeupdate_daemon can take dv_mutex again and again.
DaemonNotStuck == \A n \in Nodes : []<>Free(n)
=============================================================================
