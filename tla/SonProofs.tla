----------------------------- MODULE SonProofs -----------------------------
(***************************************************************************)
(* Theorems about Son, for every topology and all bounds: types, and that  *)
(* the table of neighbours is right while one party's descriptor moves.     *)
(***************************************************************************)
EXTENDS Son, FiniteSetTheorems, TLAPS

-----------------------------------------------------------------------------
(* The inductive invariant.                                                 *)

\* What waits at a port of n comes from a neighbour, or from the SIP process of n.
BacklogsOK ==
  \A n \in Nodes :
    /\ \A k \in 1..Len(backlog[n]) : backlog[n][k].to = n /\ backlog[n][k].from \in Nbrs[n]
    /\ \A k \in 1..Len(sipBacklog[n]) : sipBacklog[n][k].to = n /\ sipBacklog[n][k].from = SIP

\* No thread before Join, no connection to SIP before Listen.
PhaseAt(n) ==
  /\ main[n] \in {"off", "sleep", "connect", "join"} =>
       moved[n] = {} /\ \A m \in Nbrs[n] : listener[n][m].pc = "none"
  /\ main[n] \notin {"accept", "recv"} => sip_conn[n] = NoFd
  /\ todo[n] \subseteq Nbrs[n]
  /\ \A m \in Nbrs[n] : /\ listener[n][m].pc = "accept" => m \in moved[n]
                        /\ listener[n][m].pc # "recv" => listener[n][m].conn = NoFd
PhasesOK == \A n \in Nodes : PhaseAt(n)

\* Of the descriptors F of n, f is none, or a connection with m; or it is not in use, and
\* m's is the one that moved.
Mine(F, f, n, m, x) ==
  f \in Fds => \/ F[f] = Free /\ x = m
               \/ F[f] \in Conns /\ Party(n, F[f]) = m

\* Every number that n keeps is right, but for x's.
RightAt(n, x) ==
  /\ \A m \in Nbrs[n] : /\ Mine(fd[n], conn[n][m], n, m, x)
                        /\ Mine(fd[n], listener[n][m].conn, n, m, x)
  /\ Mine(fd[n], sip_conn[n], n, SIP, x)

OneMoves ==
  \A n \in Nodes, x \in Nodes \cup {SIP} : moved[n] \subseteq {x} => RightAt(n, x)

IInv == TypeOK /\ BacklogsOK /\ PhasesOK /\ OneMoves

USE DEF SIP

LEMMA Constants ==
  /\ SIP \notin Nodes /\ Nodes \subseteq Nat /\ NoFd \notin Fds /\ Fds \subseteq Nat
  /\ Free \notin Conns /\ Socket \notin Conns /\ Free # Socket
  /\ \A n \in Nodes : Nbrs[n] \subseteq Nodes \ {n}
BY SonAssumption DEF Fds

LEMMA LargerFinite == \A n \in Nodes : Cardinality(Larger(n)) \in Nat
BY SonAssumption, FS_Subset, FS_CardinalityType DEF Larger

LEMMA InitInv == Init => IInv
<1> SUFFICES ASSUME Init PROVE IInv
  OBVIOUS
<1> USE DEF Init
<1>1. TypeOK
  BY Constants DEF TypeOK, NoThread
<1>2. BacklogsOK
  BY DEF BacklogsOK
<1>3. PhasesOK
  BY DEF PhasesOK, PhaseAt, NoThread
<1>4. OneMoves
  BY Constants DEF OneMoves, RightAt, Mine, NoThread
<1> QED  BY <1>1, <1>2, <1>3, <1>4 DEF IInv

-----------------------------------------------------------------------------
(* The steps.                                                               *)

\* The first connection that waits is a neighbour's.
LEMMA FirstPending ==
  ASSUME TypeOK, BacklogsOK, NEW n \in Nodes
  PROVE  /\ backlog[n] # <<>> => /\ Head(backlog[n]) \in Conns /\ Tail(backlog[n]) \in Seq(Conns)
                                 /\ Head(backlog[n]).to = n /\ Head(backlog[n]).from \in Nbrs[n]
         /\ sipBacklog[n] # <<>> => /\ Head(sipBacklog[n]) \in Conns
                                    /\ Tail(sipBacklog[n]) \in Seq(Conns)
                                    /\ Head(sipBacklog[n]).to = n /\ Head(sipBacklog[n]).from = SIP
<1>1. backlog[n] \in Seq(Conns) /\ sipBacklog[n] \in Seq(Conns)
  BY DEF TypeOK
<1>2. ASSUME NEW s \in Seq(Conns), s # <<>>
      PROVE  Head(s) = s[1] /\ 1 \in 1..Len(s) /\ Head(s) \in Conns /\ Tail(s) \in Seq(Conns)
  BY <1>2
<1>3. CASE backlog[n] # <<>>
  BY <1>1, <1>2, <1>3 DEF BacklogsOK
<1>4. CASE sipBacklog[n] # <<>>
  BY <1>1, <1>2, <1>4 DEF BacklogsOK
<1> QED  BY <1>3, <1>4

LEMMA Steps ==
  ASSUME [Next]_vars
  PROVE  \/ UNCHANGED vars
         \/ \E n \in Nodes :
              \/ Start(n) \/ WaitNbrs(n) \/ Wake(n) \/ Join(n) \/ Listen(n) \/ AcceptSip(n)
              \/ SipEnded(n) \/ SipConnects(n) \/ SipStops(n)
              \/ Exit(n) /\ stops' \in {stops, stops + 1} /\ deaths' \in {deaths, deaths + 1}
              \/ \E m \in Nbrs[n] : \/ ConnectNbr(n, m) \/ ListenerStart(n, m)
                                    \/ ListenerEnded(n, m) \/ ListenerAccept(n, m)
BY Zenon DEF Next, MainStep, SendKills, ForwardKills, Stop

\* The table of n, with one entry changed.
LEMMA EntryChanged ==
  ASSUME TypeOK, NEW n \in Nodes, NEW m \in Nbrs[n], NEW f \in Fds \cup {NoFd},
         conn' = [conn EXCEPT ![n][m] = f]
  PROVE  /\ DOMAIN conn' = Nodes /\ \A k \in Nodes : conn'[k] \in [Nbrs[k] -> Fds \cup {NoFd}]
         /\ conn'[n][m] = f
         /\ \A a \in Nodes : \A b \in Nbrs[a] : a # n \/ b # m => conn'[a][b] = conn[a][b]
BY DEF TypeOK

Thread == [pc : {"none", "start", "recv", "accept"}, conn : Fds \cup {NoFd}]

LEMMA ThreadChanged ==
  ASSUME TypeOK, NEW n \in Nodes, NEW m \in Nbrs[n], NEW t \in Thread,
         listener' = [listener EXCEPT ![n][m] = t]
  PROVE  /\ DOMAIN listener' = Nodes /\ \A k \in Nodes : listener'[k] \in [Nbrs[k] -> Thread]
         /\ listener'[n][m] = t
         /\ \A a \in Nodes : \A b \in Nbrs[a] : a # n \/ b # m => listener'[a][b] = listener[a][b]
BY DEF TypeOK, Thread

\* TypeOK in parts
ProcessTypes ==
  /\ main \in [Nodes -> {"off", "sleep", "connect", "join", "socket", "accept", "recv"}]
  /\ run \in [Nodes -> Nat] /\ left \in [Nodes -> Nat]
  /\ todo \in [Nodes -> SUBSET Nodes]
  /\ sip_conn \in [Nodes -> Fds \cup {NoFd}]
  /\ sip \in [Nodes -> Nat] /\ sips \in [Nodes -> Nat]
  /\ stops \in Nat /\ deaths \in Nat
FdTypes == fd \in [Nodes -> [Fds -> Conns \cup {Free, Socket}]]
TableTypes == DOMAIN conn = Nodes /\ \A n \in Nodes : conn[n] \in [Nbrs[n] -> Fds \cup {NoFd}]
ThreadTypes == DOMAIN listener = Nodes /\ \A n \in Nodes : listener[n] \in [Nbrs[n] -> Thread]
BacklogTypes == backlog \in [Nodes -> Seq(Conns)] /\ sipBacklog \in [Nodes -> Seq(Conns)]
MovedTypes == moved \in [Nodes -> SUBSET (Nodes \cup {SIP})]

LEMMA TypeParts ==
  TypeOK <=> /\ ProcessTypes /\ FdTypes /\ TableTypes /\ ThreadTypes /\ BacklogTypes /\ MovedTypes
BY DEF TypeOK, ProcessTypes, FdTypes, TableTypes, ThreadTypes, BacklogTypes, MovedTypes, Thread

LEMMA AcceptTypes ==
  ASSUME TypeOK, BacklogsOK, NEW n \in Nodes, NEW f \in Fds, Accept(n, f),
         UNCHANGED sipBacklog
  PROVE  FdTypes' /\ TableTypes' /\ BacklogTypes'
<1>1. Head(backlog[n]) \in Conns /\ Tail(backlog[n]) \in Seq(Conns) /\ Head(backlog[n]).from \in Nbrs[n]
  BY FirstPending DEF Accept
<1>2. FdTypes'
  BY <1>1 DEF Accept, TypeOK, FdTypes
<1>3. TableTypes'
  BY <1>1, EntryChanged DEF Accept, TableTypes
<1>4. BacklogTypes'
  BY <1>1 DEF Accept, TypeOK, BacklogTypes
<1> QED  BY <1>2, <1>3, <1>4

\* What a step does not change keeps its type.
LEMMA SameTypes ==
  ASSUME TypeOK
  PROVE  /\ UNCHANGED fd => FdTypes'
         /\ UNCHANGED conn => TableTypes'
         /\ UNCHANGED listener => ThreadTypes'
         /\ UNCHANGED <<backlog, sipBacklog>> => BacklogTypes'
         /\ UNCHANGED moved => MovedTypes'
<1>1. UNCHANGED fd => FdTypes'
  BY TypeParts DEF FdTypes
<1>2. UNCHANGED conn => TableTypes'
  BY TypeParts DEF TableTypes
<1>3. UNCHANGED listener => ThreadTypes'
  BY TypeParts DEF ThreadTypes
<1>4. UNCHANGED <<backlog, sipBacklog>> => BacklogTypes'
  BY TypeParts DEF BacklogTypes
<1>5. UNCHANGED moved => MovedTypes'
  BY TypeParts DEF MovedTypes
<1> QED  BY <1>1, <1>2, <1>3, <1>4, <1>5

\* A descriptor, or the table of one node, gets a value of its type.
LEMMA FdSet ==
  ASSUME TypeOK, NEW n \in Nodes, NEW f \in Fds, NEW c \in Conns \cup {Free, Socket},
         fd' = [fd EXCEPT ![n][f] = c]
  PROVE  FdTypes'
BY DEF TypeOK, FdTypes

LEMMA FdClosed ==
  ASSUME TypeOK, NEW n \in Nodes, NEW f, fd' = Closed(n, f)
  PROVE  FdTypes'
BY DEF TypeOK, FdTypes, Closed

LEMMA MovedSet ==
  ASSUME TypeOK, NEW n \in Nodes, NEW x \in Nodes \cup {SIP},
         moved' = Moves(n, x) \/ moved' = MovesLater(n, x)
  PROVE  MovedTypes'
<1>1. MovedTypes
  BY TypeParts
<1>2. [moved EXCEPT ![n] = @ \cup {x}] \in [Nodes -> SUBSET (Nodes \cup {SIP})]
  BY <1>1 DEF MovedTypes
<1>3. moved' = moved \/ moved' = [moved EXCEPT ![n] = @ \cup {x}]
  BY DEF Moves, MovesLater
<1> QED  BY <1>1, <1>2, <1>3 DEF MovedTypes

Types == ProcessTypes /\ FdTypes /\ TableTypes /\ ThreadTypes /\ BacklogTypes /\ MovedTypes

LEMMA TypesKept ==
  ASSUME TypeOK, BacklogsOK, [Next]_vars
  PROVE  TypeOK'
<1> USE Constants
<1>0. ProcessTypes
  BY TypeParts
<1>1. ASSUME UNCHANGED vars PROVE Types'
  <2>1. ProcessTypes'
    BY <1>0, <1>1 DEF vars, ProcessTypes
  <2> QED  BY <1>1, <2>1, SameTypes DEF vars, Types
<1>2. ASSUME NEW n \in Nodes, Start(n) PROVE Types'
  <2>1. Cardinality(Larger(n)) \in Nat /\ Smaller(n) \subseteq Nodes
    BY LargerFinite DEF Smaller
  <2>2. ProcessTypes'
    BY <1>0, <1>2, <2>1 DEF Start, ProcessTypes
  <2> QED  BY <1>2, <2>2, SameTypes DEF Start, Types
<1>3. ASSUME NEW n \in Nodes, WaitNbrs(n) PROVE Types'
  <2>1. FdTypes' /\ TableTypes' /\ BacklogTypes'
    BY <1>3, AcceptTypes DEF WaitNbrs
  <2>2. ProcessTypes'
    BY <1>0, <1>3 DEF WaitNbrs, ProcessTypes
  <2> QED  BY <1>3, <2>1, <2>2, SameTypes DEF WaitNbrs, Types
<1>4. ASSUME NEW n \in Nodes, Wake(n) PROVE Types'
  <2>1. ProcessTypes'
    BY <1>0, <1>4 DEF Wake, ProcessTypes
  <2> QED  BY <1>4, <2>1, SameTypes DEF Wake, Types
<1>5. ASSUME NEW n \in Nodes, Join(n) PROVE Types'
  <2>1. ProcessTypes'
    BY <1>0, <1>5 DEF Join, ProcessTypes
  <2>2. [m \in Nbrs[n] |-> [NoThread EXCEPT !.pc = "start"]] \in [Nbrs[n] -> Thread]
    BY DEF NoThread, Thread
  <2>3. ThreadTypes'
    BY <1>5, <2>2, TypeParts DEF Join, ThreadTypes
  <2> QED  BY <1>5, <2>1, <2>3, SameTypes DEF Join, Types
<1>6. ASSUME NEW n \in Nodes, Listen(n) PROVE Types'
  <2>1. ProcessTypes'
    BY <1>0, <1>6 DEF Listen, ProcessTypes
  <2>2. FdTypes'
    BY <1>6, FdSet DEF Listen
  <2>3. MovedTypes'
    BY <1>6, MovedSet DEF Listen
  <2> QED  BY <1>6, <2>1, <2>2, <2>3, SameTypes DEF Listen, Types
<1>7. ASSUME NEW n \in Nodes, AcceptSip(n) PROVE Types'
  <2>1. Head(sipBacklog[n]) \in Conns /\ Tail(sipBacklog[n]) \in Seq(Conns)
    BY <1>7, FirstPending DEF AcceptSip
  <2>2. ProcessTypes'
    BY <1>0, <1>7 DEF AcceptSip, ProcessTypes
  <2>3. FdTypes'
    BY <1>7, <2>1, FdSet DEF AcceptSip
  <2>4. MovedTypes'
    BY <1>7, MovedSet DEF AcceptSip
  <2>5. BacklogTypes'
    BY <1>7, <2>1, TypeParts DEF AcceptSip, BacklogTypes
  <2> QED  BY <1>7, <2>2, <2>3, <2>4, <2>5, SameTypes DEF AcceptSip, Types
<1>8. ASSUME NEW n \in Nodes, SipEnded(n) PROVE Types'
  <2>1. ProcessTypes'
    BY <1>0, <1>8 DEF SipEnded, ProcessTypes
  <2>2. FdTypes' /\ MovedTypes'
    BY <1>8, FdClosed, MovedSet DEF SipEnded
  <2> QED  BY <1>8, <2>1, <2>2, SameTypes DEF SipEnded, Types
<1>9. ASSUME NEW n \in Nodes, SipConnects(n) PROVE Types'
  <2>1. [from |-> SIP, run |-> sips[n] + 1, to |-> n] \in Conns
    BY <1>0 DEF Conns, ProcessTypes
  <2>2. ProcessTypes'
    BY <1>0, <1>9 DEF SipConnects, ProcessTypes
  <2>3. BacklogTypes'
    BY <1>9, <2>1, TypeParts DEF SipConnects, BacklogTypes
  <2> QED  BY <1>9, <2>2, <2>3, SameTypes DEF SipConnects, Types
<1>10. ASSUME NEW n \in Nodes, SipStops(n) PROVE Types'
  <2>1. ProcessTypes'
    BY <1>0, <1>10 DEF SipStops, ProcessTypes
  <2> QED  BY <1>10, <2>1, SameTypes DEF SipStops, Types
<1>11. ASSUME NEW n \in Nodes, Exit(n), stops' \in {stops, stops + 1}, deaths' \in {deaths, deaths + 1}
       PROVE  Types'
  <2>1. ProcessTypes'
    BY <1>0, <1>11, SMTT(30) DEF Exit, ProcessTypes
  <2>2. FdTypes'
    BY <1>11, TypeParts DEF Exit, FdTypes
  <2>3. TableTypes'
    <3>1. [m \in Nbrs[n] |-> NoFd] \in [Nbrs[n] -> Fds \cup {NoFd}]
      OBVIOUS
    <3> QED  BY <1>11, <3>1, TypeParts DEF Exit, TableTypes
  <2>4. ThreadTypes'
    <3>1. [m \in Nbrs[n] |-> NoThread] \in [Nbrs[n] -> Thread]
      BY DEF NoThread, Thread
    <3> QED  BY <1>11, <3>1, TypeParts DEF Exit, ThreadTypes
  <2>5. BacklogTypes'
    BY <1>11, TypeParts DEF Exit, BacklogTypes
  <2>6. MovedTypes'
    BY <1>11, TypeParts DEF Exit, MovedTypes
  <2> QED  BY <2>1, <2>2, <2>3, <2>4, <2>5, <2>6 DEF Types
<1>12. ASSUME NEW n \in Nodes, NEW m \in Nbrs[n], ConnectNbr(n, m) PROVE Types'
  <2> DEFINE c == [from |-> n, run |-> run[n], to |-> m]
  <2>1. c \in Conns /\ m \in Nodes
    BY <1>0 DEF Conns, ProcessTypes
  <2>2. PICK f \in Fds :
          IF main[m] # "off"
          THEN /\ fd' = [fd EXCEPT ![n][f] = c]
               /\ conn' = [conn EXCEPT ![n][m] = f]
               /\ backlog' = [backlog EXCEPT ![m] = Append(@, c)]
               /\ todo' = [todo EXCEPT ![n] = @ \ {m}]
               /\ main' = [main EXCEPT ![n] = IF todo[n] = {m} THEN "join" ELSE @]
          ELSE /\ fd' = [fd EXCEPT ![n][f] = Socket]
               /\ todo' = [todo EXCEPT ![n] = {}]
               /\ main' = [main EXCEPT ![n] = "join"]
               /\ UNCHANGED <<conn, backlog>>
    BY <1>12 DEF ConnectNbr
  <2> HIDE DEF c
  <2>3. FdTypes'
    BY <2>1, <2>2, FdSet
  <2>4. TableTypes'
    BY <2>2, EntryChanged, SameTypes DEF TableTypes
  <2>5. BacklogTypes'
    <3>1. sipBacklog' = sipBacklog /\ BacklogTypes
      BY <1>12, TypeParts DEF ConnectNbr
    <3>2. Append(backlog[m], c) \in Seq(Conns)
      BY <2>1, <3>1 DEF BacklogTypes
    <3>3. [backlog EXCEPT ![m] = Append(@, c)] \in [Nodes -> Seq(Conns)]
      BY <2>1, <3>1, <3>2 DEF BacklogTypes
    <3> QED  BY <2>2, <3>1, <3>3 DEF BacklogTypes
  <2>6. ProcessTypes'
    <3>1. UNCHANGED <<run, left, sip_conn, sip, sips, stops, deaths>>
      BY <1>12 DEF ConnectNbr
    <3>2. todo[n] \ {m} \in SUBSET Nodes /\ main[n] \in {"off", "sleep", "connect", "join", "socket", "accept", "recv"}
      BY <1>0 DEF ProcessTypes
    <3>3. todo' \in [Nodes -> SUBSET Nodes]
      <4>1. todo \in [Nodes -> SUBSET Nodes]
        BY <1>0 DEF ProcessTypes
      <4>2. \A z \in SUBSET Nodes : [todo EXCEPT ![n] = z] \in [Nodes -> SUBSET Nodes]
        BY <4>1
      <4>3. todo' = [todo EXCEPT ![n] = todo[n] \ {m}] \/ todo' = [todo EXCEPT ![n] = {}]
        BY <2>2
      <4>4. {} \in SUBSET Nodes
        OBVIOUS
      <4> QED  BY <3>2, <4>2, <4>3, <4>4
    <3>4. main' \in [Nodes -> {"off", "sleep", "connect", "join", "socket", "accept", "recv"}]
      BY <1>0, <2>2, <3>2, ZenonT(30) DEF ProcessTypes
    <3> QED  BY <1>0, <3>1, <3>3, <3>4 DEF ProcessTypes
  <2> QED  BY <1>12, <2>3, <2>4, <2>5, <2>6, SameTypes DEF ConnectNbr, Types
<1>13. ASSUME NEW n \in Nodes, NEW m \in Nbrs[n], ListenerStart(n, m) PROVE Types'
  <2>1. [pc |-> "recv", conn |-> conn[n][m]] \in Thread
    BY TypeParts DEF Thread, TableTypes
  <2>2. ThreadTypes'
    BY <1>13, <2>1, ThreadChanged DEF ListenerStart, ThreadTypes
  <2>3. ProcessTypes'
    BY <1>0, <1>13 DEF ListenerStart, ProcessTypes
  <2> QED  BY <1>13, <2>2, <2>3, SameTypes DEF ListenerStart, Types
<1>14. ASSUME NEW n \in Nodes, NEW m \in Nbrs[n], ListenerEnded(n, m) PROVE Types'
  <2>1. [pc |-> "accept", conn |-> NoFd] \in Thread
    BY DEF Thread
  <2>2. ThreadTypes'
    BY <1>14, <2>1, ThreadChanged DEF ListenerEnded, ThreadTypes
  <2>3. ProcessTypes'
    BY <1>0, <1>14 DEF ListenerEnded, ProcessTypes
  <2>4. FdTypes' /\ MovedTypes'
    BY <1>14, FdClosed, MovedSet DEF ListenerEnded
  <2> QED  BY <1>14, <2>2, <2>3, <2>4, SameTypes DEF ListenerEnded, Types
<1>15. ASSUME NEW n \in Nodes, NEW m \in Nbrs[n], ListenerAccept(n, m) PROVE Types'
  <2>1. PICK f \in Fds : /\ Accept(n, f)
                         /\ listener' = [listener EXCEPT ![n][m] = [pc |-> "recv", conn |-> f]]
    BY <1>15 DEF ListenerAccept
  <2>2. FdTypes' /\ TableTypes' /\ BacklogTypes'
    BY <1>15, <2>1, AcceptTypes DEF ListenerAccept
  <2>3. [pc |-> "recv", conn |-> f] \in Thread
    BY DEF Thread
  <2>4. ThreadTypes'
    BY <2>1, <2>3, ThreadChanged DEF ThreadTypes
  <2>5. Head(backlog[n]).from \in Nodes
    BY <2>1, FirstPending DEF Accept
  <2>6. MovedTypes'
    BY <1>15, <2>5, MovedSet DEF ListenerAccept
  <2>7. ProcessTypes'
    BY <1>0, <1>15 DEF ListenerAccept, ProcessTypes
  <2> QED  BY <2>2, <2>4, <2>6, <2>7 DEF Types
<1>16. Types'
  BY <1>1, <1>2, <1>3, <1>4, <1>5, <1>6, <1>7, <1>8, <1>9, <1>10, <1>11, <1>12, <1>13, <1>14, <1>15,
     Steps
<1>17. Types' => TypeOK'
  BY DEF Types, TypeOK, ProcessTypes, FdTypes, TableTypes, ThreadTypes, BacklogTypes, MovedTypes, Thread
<1> QED  BY <1>16, <1>17

-----------------------------------------------------------------------------
(* What waits at the ports, and the phases of main.                         *)

LEMMA Elements ==
  ASSUME NEW S, NEW s \in Seq(S), NEW c
  PROVE  /\ s # <<>> => \A k \in 1..Len(Tail(s)) : k + 1 \in 1..Len(s) /\ Tail(s)[k] = s[k + 1]
         /\ \A k \in 1..Len(Append(s, c)) :
              \/ Append(s, c)[k] = c
              \/ k \in 1..Len(s) /\ Append(s, c)[k] = s[k]
OBVIOUS

LEMMA BacklogsKept ==
  ASSUME TypeOK, BacklogsOK, [Next]_vars
  PROVE  BacklogsOK'
<1> DEFINE FromNbrs(n, b) == \A k \in 1..Len(b) : b[k].to = n /\ b[k].from \in Nbrs[n]
           FromSip(n, b) == \A k \in 1..Len(b) : b[k].to = n /\ b[k].from = SIP
           Was(n) == backlog'[n] = backlog[n] /\ sipBacklog'[n] = sipBacklog[n]
           OK == \A n \in Nodes : FromNbrs(n, backlog'[n]) /\ FromSip(n, sipBacklog'[n])
<1>0. /\ \A n \in Nodes : FromNbrs(n, backlog[n]) /\ FromSip(n, sipBacklog[n])
      /\ backlog \in [Nodes -> Seq(Conns)] /\ sipBacklog \in [Nodes -> Seq(Conns)]
  BY DEF BacklogsOK, TypeOK
<1>1. ASSUME UNCHANGED <<backlog, sipBacklog>> PROVE OK
  BY <1>0, <1>1
<1>2. ASSUME NEW n \in Nodes, NEW f \in Fds, Accept(n, f), UNCHANGED sipBacklog PROVE OK
  <2>1. backlog[n] # <<>> /\ backlog' = [backlog EXCEPT ![n] = Tail(@)]
    BY <1>2 DEF Accept
  <2>2. FromNbrs(n, Tail(backlog[n]))
    <3>1. \A k \in 1..Len(Tail(backlog[n])) :
            k + 1 \in 1..Len(backlog[n]) /\ Tail(backlog[n])[k] = backlog[n][k + 1]
      BY <1>0, <2>1, Elements
    <3> QED  BY <1>0, <3>1
  <2> QED  BY <1>0, <1>2, <2>1, <2>2
<1>3. ASSUME NEW n \in Nodes, AcceptSip(n) PROVE OK
  <2>1. sipBacklog[n] # <<>> /\ sipBacklog' = [sipBacklog EXCEPT ![n] = Tail(@)] /\ backlog' = backlog
    BY <1>3 DEF AcceptSip
  <2>2. FromSip(n, Tail(sipBacklog[n]))
    BY <1>0, <2>1, Elements
  <2> QED  BY <1>0, <2>1, <2>2
<1>4. ASSUME NEW n \in Nodes, SipConnects(n) PROVE OK
  <2> DEFINE c == [from |-> SIP, run |-> sips[n] + 1, to |-> n]
  <2>1. sipBacklog' = [sipBacklog EXCEPT ![n] = Append(@, c)] /\ backlog' = backlog
    BY <1>4 DEF SipConnects
  <2>2. c.from = SIP /\ c.to = n
    OBVIOUS
  <2> HIDE DEF c
  <2>3. FromSip(n, Append(sipBacklog[n], c))
    BY <1>0, <2>2, Elements
  <2> QED  BY <1>0, <2>1, <2>3
<1>5. ASSUME NEW n \in Nodes, Exit(n) PROVE OK
  <2>1. backlog' = [backlog EXCEPT ![n] = <<>>] /\ sipBacklog' = [sipBacklog EXCEPT ![n] = <<>>]
    BY <1>5 DEF Exit
  <2> QED  BY <1>0, <2>1
<1>6. ASSUME NEW n \in Nodes, NEW m \in Nbrs[n], ConnectNbr(n, m) PROVE OK
  <2> DEFINE c == [from |-> n, run |-> run[n], to |-> m]
  <2>1. /\ sipBacklog' = sipBacklog
        /\ backlog' = backlog \/ backlog' = [backlog EXCEPT ![m] = Append(@, c)]
    BY <1>6 DEF ConnectNbr
  <2>2. c.from = n /\ c.to = m /\ m \in Nodes /\ n \in Nbrs[m]
    BY SonAssumption
  <2> HIDE DEF c
  <2>3. FromNbrs(m, Append(backlog[m], c))
    BY <1>0, <2>2, Elements
  <2>4. CASE backlog' = backlog
    BY <1>1, <2>1, <2>4
  <2>5. CASE backlog' = [backlog EXCEPT ![m] = Append(@, c)]
    <3>1. m \in Nodes
      BY <2>2
    <3>2. \A a \in Nodes : sipBacklog'[a] = sipBacklog[a] /\ (a # m => backlog'[a] = backlog[a])
      BY <1>0, <2>1, <2>5
    <3>3. backlog'[m] = Append(backlog[m], c)
      BY <1>0, <2>5, <3>1
    <3>4. \A a \in Nodes : FromSip(a, sipBacklog'[a])
      BY <1>0, <3>2
    <3>5. \A a \in Nodes : a # m => FromNbrs(a, backlog'[a])
      BY <1>0, <3>2
    <3>6. FromNbrs(m, backlog'[m])
      BY <2>3, <3>3
    <3> HIDE DEF FromNbrs, FromSip
    <3> QED  BY <3>4, <3>5, <3>6
  <2> QED  BY <2>1, <2>4, <2>5
<1>7. OK
  <2>1. CASE UNCHANGED <<backlog, sipBacklog>>
    BY <1>1, <2>1
  <2>2. CASE \E n \in Nodes : WaitNbrs(n)
    BY <1>2, <2>2 DEF WaitNbrs
  <2>3. CASE \E n \in Nodes : \E m \in Nbrs[n] : ListenerAccept(n, m)
    BY <1>2, <2>3 DEF ListenerAccept
  <2>4. CASE \E n \in Nodes : \/ AcceptSip(n) \/ SipConnects(n) \/ Exit(n)
                              \/ \E m \in Nbrs[n] : ConnectNbr(n, m)
    BY <1>3, <1>4, <1>5, <1>6, <2>4
  <2> HIDE DEF OK
  <2> QED
    BY <2>1, <2>2, <2>3, <2>4, Steps
    DEF vars, Start, Wake, Join, Listen, SipEnded, SipStops, ListenerStart, ListenerEnded
<1> QED  BY <1>7 DEF BacklogsOK

LEMMA PhasesOfOthers ==
  ASSUME TypeOK, PhasesOK, NEW n \in Nodes, PhaseAt(n)',
         \A a \in Nodes \ {n} : UNCHANGED <<main[a], moved[a], listener[a], sip_conn[a], todo[a]>>
  PROVE  PhasesOK'
BY DEF PhasesOK, PhaseAt

LEMMA PhasesKept ==
  ASSUME TypeOK, PhasesOK, [Next]_vars
  PROVE  PhasesOK'
<1> DEFINE Others(n) ==
             \A a \in Nodes \ {n} : UNCHANGED <<main[a], moved[a], listener[a], sip_conn[a], todo[a]>>
<1>0. ASSUME NEW n \in Nodes PROVE PhaseAt(n)
  BY DEF PhasesOK
<1>1. ASSUME UNCHANGED <<main, moved, listener, sip_conn, todo>> PROVE PhasesOK'
  BY <1>1 DEF PhasesOK, PhaseAt
<1>2. ASSUME NEW n \in Nodes, Start(n) PROVE PhaseAt(n)' /\ Others(n)
  BY <1>0, <1>2 DEF Start, PhaseAt, TypeOK, Smaller
<1>3. ASSUME NEW n \in Nodes, Wake(n) PROVE PhaseAt(n)' /\ Others(n)
  BY <1>0, <1>3 DEF Wake, PhaseAt, TypeOK
<1>4. ASSUME NEW n \in Nodes, Join(n) PROVE PhaseAt(n)' /\ Others(n)
  BY <1>0, <1>4 DEF Join, PhaseAt, TypeOK, NoThread
<1>5. ASSUME NEW n \in Nodes, Listen(n) PROVE PhaseAt(n)' /\ Others(n)
  BY <1>0, <1>5 DEF Listen, PhaseAt, TypeOK, Moves, MovesLater
<1>6. ASSUME NEW n \in Nodes, AcceptSip(n) PROVE PhaseAt(n)' /\ Others(n)
  BY <1>0, <1>6 DEF AcceptSip, PhaseAt, TypeOK, Moves, MovesLater
<1>7. ASSUME NEW n \in Nodes, SipEnded(n) PROVE PhaseAt(n)' /\ Others(n)
  BY <1>0, <1>7 DEF SipEnded, PhaseAt, TypeOK, Moves
<1>8. ASSUME NEW n \in Nodes, Exit(n) PROVE PhaseAt(n)' /\ Others(n)
  BY <1>0, <1>8 DEF Exit, PhaseAt, TypeOK, NoThread
<1>9. ASSUME NEW n \in Nodes, NEW m \in Nbrs[n], ConnectNbr(n, m) PROVE PhaseAt(n)' /\ Others(n)
  <2>1. UNCHANGED <<moved, listener, sip_conn>> /\ main[n] = "connect"
    BY <1>9 DEF ConnectNbr
  <2>2. PICK z \in {todo[n] \ {m}, {}}, y \in {"connect", "join"} :
          todo' = [todo EXCEPT ![n] = z] /\ main' = [main EXCEPT ![n] = y]
    BY <1>9, <2>1 DEF ConnectNbr
  <2> QED  BY <1>0, <2>1, <2>2 DEF PhaseAt, TypeOK
<1>10. ASSUME NEW n \in Nodes, NEW m \in Nbrs[n], ListenerStart(n, m) PROVE PhaseAt(n)' /\ Others(n)
  BY <1>0, <1>10 DEF ListenerStart, PhaseAt, TypeOK
<1>11. ASSUME NEW n \in Nodes, NEW m \in Nbrs[n], ListenerEnded(n, m) PROVE PhaseAt(n)' /\ Others(n)
  BY <1>0, <1>11 DEF ListenerEnded, PhaseAt, TypeOK, Moves
<1>12. ASSUME NEW n \in Nodes, NEW m \in Nbrs[n], ListenerAccept(n, m) PROVE PhaseAt(n)' /\ Others(n)
  <2>1. /\ UNCHANGED <<main, sip_conn, todo>> /\ listener[n][m].pc = "accept"
        /\ moved' = MovesLater(n, Head(backlog[n]).from)
    BY <1>12 DEF ListenerAccept
  <2>2. PICK f \in Fds : listener' = [listener EXCEPT ![n][m] = [pc |-> "recv", conn |-> f]]
    BY <1>12 DEF ListenerAccept
  <2> QED  BY <1>0, <2>1, <2>2 DEF PhaseAt, TypeOK, Moves, MovesLater
<1>13. CASE \E n \in Nodes : \/ Start(n) \/ Wake(n) \/ Join(n) \/ Listen(n) \/ AcceptSip(n) \/ SipEnded(n)
                             \/ Exit(n)
                             \/ \E m \in Nbrs[n] : \/ ConnectNbr(n, m) \/ ListenerStart(n, m)
                                                   \/ ListenerEnded(n, m) \/ ListenerAccept(n, m)
  <2>1. PICK n \in Nodes : PhaseAt(n)' /\ Others(n)
    <3> HIDE DEF Others
    <3> QED  BY <1>2, <1>3, <1>4, <1>5, <1>6, <1>7, <1>8, <1>9, <1>10, <1>11, <1>12, <1>13
  <2> QED  BY <2>1, PhasesOfOthers
<1>14. CASE \E n \in Nodes : SipConnects(n) \/ SipStops(n) \/ WaitNbrs(n)
  BY <1>1, <1>14 DEF SipConnects, SipStops, WaitNbrs
<1>15. CASE UNCHANGED vars
  BY <1>1, <1>15 DEF vars
<1> QED  BY <1>13, <1>14, <1>15, Steps

-----------------------------------------------------------------------------
(* The numbers that are kept.                                               *)

\* A free number gets a new meaning: whoever's did not move keeps another one.
LEMMA MineTaken ==
  ASSUME NEW F, NEW f \in Fds, F[f] = Free, NEW c, NEW g, NEW n, NEW m, NEW x, NEW y,
         DOMAIN F = Fds, Mine(F, g, n, m, y), y # m
  PROVE  Mine([F EXCEPT ![f] = c], g, n, m, x)
BY Constants DEF Mine

LEMMA MineNew ==
  ASSUME NEW F, NEW f \in Fds, DOMAIN F = Fds, NEW c \in Conns, NEW n, NEW m, NEW x, Party(n, c) = m
  PROVE  Mine([F EXCEPT ![f] = c], f, n, m, x)
BY DEF Mine

\* x's number is closed.
LEMMA MineClosed ==
  ASSUME NEW F, NEW f \in Fds, DOMAIN F = Fds, NEW g, NEW n, NEW m, NEW x,
         Mine(F, g, n, m, x), Mine(F, f, n, x, x)
  PROVE  Mine([F EXCEPT ![f] = Free], g, n, m, x)
BY Constants DEF Mine

LEMMA MineNoFd ==
  ASSUME NEW F, NEW n, NEW m, NEW x
  PROVE  Mine(F, NoFd, n, m, x)
BY Constants DEF Mine

LEMMA RightOfOthers ==
  ASSUME TypeOK, OneMoves, NEW n \in Nodes,
         \A a \in Nodes \ {n} : UNCHANGED <<fd[a], conn[a], listener[a], sip_conn[a], moved[a]>>,
         \A x \in Nodes \cup {SIP} : moved'[n] \subseteq {x} => RightAt(n, x)'
  PROVE  OneMoves'
<1> SUFFICES ASSUME NEW a \in Nodes, NEW x \in Nodes \cup {SIP}, moved'[a] \subseteq {x}
             PROVE  RightAt(a, x)'
  BY DEF OneMoves
<1>1. CASE a = n
  BY <1>1
<1>2. CASE a # n
  BY <1>2 DEF OneMoves, RightAt
<1> QED  BY <1>1, <1>2

\* Nothing has moved: right for whoever.
LEMMA RightForAll ==
  ASSUME OneMoves, NEW n \in Nodes, moved[n] = {}
  PROVE  \A x \in Nodes \cup {SIP} : RightAt(n, x)
BY DEF OneMoves

\* No entry has the number that the next descriptor gets, but for x's.
LEMMA RightTaken ==
  ASSUME TypeOK, OneMoves, NEW n \in Nodes, NEW f \in Fds, fd[n][f] = Free, NEW c,
         NEW x \in Nodes \cup {SIP}, moved[n] \subseteq {x}, NEW F, F = [fd[n] EXCEPT ![f] = c]
  PROVE  /\ \A m \in Nbrs[n] : moved[n] = {} \/ x # m =>
              Mine(F, conn[n][m], n, m, x) /\ Mine(F, listener[n][m].conn, n, m, x)
         /\ moved[n] = {} \/ x # SIP => Mine(F, sip_conn[n], n, SIP, x)
<1>1. DOMAIN fd[n] = Fds
  BY DEF TypeOK
<1>2. ASSUME NEW m \in Nbrs[n], moved[n] = {} \/ x # m
      PROVE  Mine(F, conn[n][m], n, m, x) /\ Mine(F, listener[n][m].conn, n, m, x)
  <2>1. PICK y \in Nodes \cup {SIP} : y # m /\ RightAt(n, y)
    <3>1. CASE x # m
      BY <3>1 DEF OneMoves
    <3>2. CASE moved[n] = {}
      BY <3>2, Constants, RightForAll
    <3> QED  BY <1>2, <3>1, <3>2
  <2>2. Mine(fd[n], conn[n][m], n, m, y) /\ Mine(fd[n], listener[n][m].conn, n, m, y)
    BY <2>1 DEF RightAt
  <2>3. Mine([fd[n] EXCEPT ![f] = c], conn[n][m], n, m, x)
    BY <1>1, <2>1, <2>2, MineTaken
  <2>4. Mine([fd[n] EXCEPT ![f] = c], listener[n][m].conn, n, m, x)
    BY <1>1, <2>1, <2>2, MineTaken
  <2> QED  BY <2>3, <2>4
<1>3. ASSUME moved[n] = {} \/ x # SIP PROVE Mine(F, sip_conn[n], n, SIP, x)
  <2>1. PICK y \in Nodes \cup {SIP} : y # SIP /\ RightAt(n, y)
    <3>1. CASE x # SIP
      BY <3>1 DEF OneMoves
    <3>2. CASE moved[n] = {}
      BY <3>2, Constants, RightForAll
    <3> QED  BY <1>3, <3>1, <3>2
  <2>2. Mine(fd[n], sip_conn[n], n, SIP, y)
    BY <2>1 DEF RightAt
  <2>3. Mine([fd[n] EXCEPT ![f] = c], sip_conn[n], n, SIP, x)
    BY <1>1, <2>1, <2>2, MineTaken
  <2> QED  BY <2>3
<1> QED  BY <1>2, <1>3

\* accept at CONNECTION_PORT is right for everybody.
LEMMA RightAccepted ==
  ASSUME TypeOK, BacklogsOK, OneMoves, NEW n \in Nodes, NEW f \in Fds, Accept(n, f),
         NEW x \in Nodes \cup {SIP}, moved[n] \subseteq {x},
         moved[n] = {} \/ x = Head(backlog[n]).from
  PROVE  /\ \A m \in Nbrs[n] :
              /\ Mine(fd'[n], conn'[n][m], n, m, x)
              /\ moved[n] = {} \/ x # m => Mine(fd'[n], listener[n][m].conn, n, m, x)
         /\ Mine(fd'[n], sip_conn[n], n, SIP, x)
         /\ Mine(fd'[n], f, n, Head(backlog[n]).from, x)
<1> DEFINE h == Head(backlog[n])
<1>1. h \in Conns /\ h.to = n /\ h.from \in Nbrs[n] /\ h.from # n /\ Party(n, h) = h.from
  BY FirstPending, Constants DEF Accept, Party
<1> HIDE DEF h
<1>2. fd[n][f] = Free /\ DOMAIN fd[n] = Fds /\ fd'[n] = [fd[n] EXCEPT ![f] = h]
  BY DEF Accept, Lowest, TypeOK, h
<1>3. conn' = [conn EXCEPT ![n][h.from] = f]
  BY DEF Accept, h
<1>4. conn'[n][h.from] = f /\ \A m \in Nbrs[n] : m # h.from => conn'[n][m] = conn[n][m]
  <2>1. PICK k \in Nbrs[n] : k = h.from
    BY <1>1
  <2>2. conn' = [conn EXCEPT ![n][k] = f]
    BY <1>3, <2>1
  <2>3. conn'[n][k] = f /\ \A m \in Nbrs[n] : m # k => conn'[n][m] = conn[n][m]
    BY <2>2 DEF TypeOK
  <2> QED  BY <2>1, <2>3
<1>5. Mine(fd'[n], f, n, h.from, x)
  BY <1>1, <1>2, MineNew
<1>6. /\ \A m \in Nbrs[n] : moved[n] = {} \/ x # m =>
           Mine(fd'[n], conn[n][m], n, m, x) /\ Mine(fd'[n], listener[n][m].conn, n, m, x)
      /\ moved[n] = {} \/ x # SIP => Mine(fd'[n], sip_conn[n], n, SIP, x)
  BY <1>2, RightTaken, ZenonT(30)
<1>7. moved[n] = {} \/ x = h.from
  BY DEF h
<1>8. h.from # SIP
  BY <1>1, Constants
<1>9. ASSUME NEW m \in Nbrs[n] PROVE Mine(fd'[n], conn'[n][m], n, m, x)
  <2>1. CASE m = h.from
    BY <1>4, <1>5, <2>1
  <2>2. CASE m # h.from
    BY <1>4, <1>6, <1>7, <2>2
  <2> QED  BY <2>1, <2>2
<1> QED  BY <1>5, <1>6, <1>7, <1>8, <1>9 DEF h

\* A connection ends: its party's number is closed.
LEMMA RightClosed ==
  ASSUME TypeOK, NEW n \in Nodes, NEW f \in Fds \cup {NoFd}, NEW x \in Nodes \cup {SIP},
         RightAt(n, x), Mine(fd[n], f, n, x, x), fd' = Closed(n, f)
  PROVE  /\ \A m \in Nbrs[n] : /\ Mine(fd'[n], conn[n][m], n, m, x)
                               /\ Mine(fd'[n], listener[n][m].conn, n, m, x)
         /\ Mine(fd'[n], sip_conn[n], n, SIP, x)
<1>0. DOMAIN fd[n] = Fds /\ fd \in [Nodes -> [Fds -> Conns \cup {Free, Socket}]]
  BY DEF TypeOK
<1>1. CASE f \in Fds
  <2>1. fd'[n] = [fd[n] EXCEPT ![f] = Free]
    BY <1>0, <1>1 DEF Closed
  <2>2. ASSUME NEW m \in Nbrs[n]
        PROVE  Mine(fd'[n], conn[n][m], n, m, x) /\ Mine(fd'[n], listener[n][m].conn, n, m, x)
    <3>1. Mine(fd[n], conn[n][m], n, m, x) /\ Mine(fd[n], listener[n][m].conn, n, m, x)
      BY DEF RightAt
    <3>2. Mine([fd[n] EXCEPT ![f] = Free], conn[n][m], n, m, x)
      BY <1>0, <1>1, <3>1, MineClosed
    <3>3. Mine([fd[n] EXCEPT ![f] = Free], listener[n][m].conn, n, m, x)
      BY <1>0, <1>1, <3>1, MineClosed
    <3> QED  BY <2>1, <3>2, <3>3
  <2>3. Mine(fd'[n], sip_conn[n], n, SIP, x)
    <3>1. Mine(fd[n], sip_conn[n], n, SIP, x)
      BY DEF RightAt
    <3>2. Mine([fd[n] EXCEPT ![f] = Free], sip_conn[n], n, SIP, x)
      BY <1>0, <1>1, <3>1, MineClosed
    <3> QED  BY <2>1, <3>2
  <2> QED  BY <2>2, <2>3
<1>2. CASE f \notin Fds
  <2>1. fd' = fd
    BY <1>2 DEF Closed
  <2> QED  BY <2>1 DEF RightAt
<1> QED  BY <1>1, <1>2

LEMMA OneMovesKept ==
  ASSUME TypeOK, BacklogsOK, PhasesOK, OneMoves, [Next]_vars
  PROVE  OneMoves'
<1> DEFINE Others(n) ==
             \A a \in Nodes \ {n} : UNCHANGED <<fd[a], conn[a], listener[a], sip_conn[a], moved[a]>>
           Right(n) == \A x \in Nodes \cup {SIP} : moved'[n] \subseteq {x} => RightAt(n, x)'
<1>0. /\ fd \in [Nodes -> [Fds -> Conns \cup {Free, Socket}]]
      /\ sip_conn \in [Nodes -> Fds \cup {NoFd}]
      /\ moved \in [Nodes -> SUBSET (Nodes \cup {SIP})]
      /\ DOMAIN conn = Nodes /\ DOMAIN listener = Nodes
      /\ \A n \in Nodes : \A m \in Nbrs[n] : listener[n][m].conn \in Fds \cup {NoFd}
  BY DEF TypeOK
<1>1. ASSUME UNCHANGED <<fd, conn, listener, sip_conn, moved>> PROVE OneMoves'
  BY <1>1 DEF OneMoves, RightAt
<1>2. ASSUME NEW n \in Nodes, WaitNbrs(n) PROVE Right(n) /\ Others(n)
  <2>1. PICK f \in Fds : Accept(n, f)
    BY <1>2 DEF WaitNbrs
  <2>2. moved[n] = {} /\ UNCHANGED <<listener, sip_conn, moved>>
    BY <1>2 DEF WaitNbrs, PhasesOK, PhaseAt
  <2>3. Others(n)
    BY <1>0, <2>1, <2>2 DEF Accept
  <2>4. ASSUME NEW x \in Nodes \cup {SIP} PROVE RightAt(n, x)'
    BY <2>1, <2>2, RightAccepted DEF RightAt
  <2> QED  BY <2>3, <2>4
<1>3. ASSUME NEW n \in Nodes, Join(n) PROVE Right(n) /\ Others(n)
  <2>1. /\ UNCHANGED <<fd, conn, sip_conn, moved>>
        /\ listener' = [listener EXCEPT ![n] = [m \in Nbrs[n] |-> [NoThread EXCEPT !.pc = "start"]]]
    BY <1>3 DEF Join
  <2>2. \A m \in Nbrs[n] : listener'[n][m].conn = NoFd
    BY <1>0, <2>1 DEF NoThread
  <2>3. ASSUME NEW x \in Nodes \cup {SIP}, moved[n] \subseteq {x} PROVE RightAt(n, x)'
    BY <2>1, <2>2, <2>3, MineNoFd DEF RightAt, OneMoves
  <2> QED  BY <1>0, <2>1, <2>3
<1>4. ASSUME NEW n \in Nodes, Listen(n) PROVE Right(n) /\ Others(n)
  <2>1. PICK f \in Fds : fd[n][f] = Free /\ fd' = [fd EXCEPT ![n][f] = Socket]
    BY <1>4 DEF Listen, Lowest
  <2>2. /\ UNCHANGED <<conn, listener, sip_conn>> /\ moved' = MovesLater(n, SIP)
        /\ sip_conn[n] = NoFd
    BY <1>4 DEF Listen, PhasesOK, PhaseAt
  <2>3. ASSUME NEW x \in Nodes \cup {SIP}, moved'[n] \subseteq {x} PROVE RightAt(n, x)'
    <3>1. moved[n] \subseteq {x} /\ (moved[n] = {} \/ x = SIP)
      BY <1>0, <2>2, <2>3 DEF MovesLater, Moves
    <3>2. fd'[n] = [fd[n] EXCEPT ![f] = Socket]
      BY <1>0, <2>1
    <3>3. \A m \in Nbrs[n] : moved[n] = {} \/ x # m
      BY <3>1, Constants
    <3>4. \A m \in Nbrs[n] : Mine(fd'[n], conn[n][m], n, m, x) /\ Mine(fd'[n], listener[n][m].conn, n, m, x)
      BY <2>1, <3>1, <3>2, <3>3, RightTaken, ZenonT(30)
    <3> QED  BY <2>2, <3>4, MineNoFd DEF RightAt
  <2> QED  BY <1>0, <2>1, <2>2, <2>3 DEF MovesLater, Moves
<1>5. ASSUME NEW n \in Nodes, AcceptSip(n) PROVE Right(n) /\ Others(n)
  <2> DEFINE h == Head(sipBacklog[n])
  <2>1. PICK f \in Fds : /\ fd[n][f] = Free /\ fd' = [fd EXCEPT ![n][f] = h]
                         /\ sip_conn' = [sip_conn EXCEPT ![n] = f]
    BY <1>5 DEF AcceptSip, Lowest
  <2>2. UNCHANGED <<conn, listener>> /\ moved' = MovesLater(n, SIP)
    BY <1>5 DEF AcceptSip
  <2>3. h \in Conns /\ Party(n, h) = SIP
    BY <1>5, FirstPending, Constants DEF AcceptSip, Party
  <2> HIDE DEF h
  <2>4. ASSUME NEW x \in Nodes \cup {SIP}, moved'[n] \subseteq {x} PROVE RightAt(n, x)'
    <3>1. moved[n] \subseteq {x} /\ (moved[n] = {} \/ x = SIP)
      BY <1>0, <2>2, <2>4 DEF MovesLater, Moves
    <3>2. fd'[n] = [fd[n] EXCEPT ![f] = h] /\ sip_conn'[n] = f /\ DOMAIN fd[n] = Fds
      BY <1>0, <2>1
    <3>3. \A m \in Nbrs[n] : moved[n] = {} \/ x # m
      BY <3>1, Constants
    <3>4. \A m \in Nbrs[n] : Mine(fd'[n], conn[n][m], n, m, x) /\ Mine(fd'[n], listener[n][m].conn, n, m, x)
      BY <2>1, <3>1, <3>2, <3>3, RightTaken, ZenonT(30)
    <3>5. Mine(fd'[n], sip_conn'[n], n, SIP, x)
      BY <2>3, <3>2, MineNew
    <3> QED  BY <2>2, <3>4, <3>5 DEF RightAt
  <2> QED  BY <1>0, <2>1, <2>2, <2>4 DEF MovesLater, Moves
<1>6. ASSUME NEW n \in Nodes, SipEnded(n) PROVE Right(n) /\ Others(n)
  <2>1. /\ fd' = Closed(n, sip_conn[n]) /\ moved' = Moves(n, SIP)
        /\ UNCHANGED <<conn, listener, sip_conn>> /\ sip_conn[n] \in Fds \cup {NoFd}
    BY <1>0, <1>6 DEF SipEnded
  <2>2. ASSUME NEW x \in Nodes \cup {SIP}, moved'[n] \subseteq {x} PROVE RightAt(n, x)'
    <3>1. moved[n] \subseteq {x} /\ x = SIP
      BY <1>0, <2>1, <2>2 DEF Moves
    <3>2. RightAt(n, x) /\ Mine(fd[n], sip_conn[n], n, x, x)
      BY <3>1 DEF OneMoves, RightAt
    <3> QED  BY <2>1, <3>2, RightClosed DEF RightAt
  <2> QED  BY <1>0, <2>1, <2>2 DEF Closed, Moves
<1>7. ASSUME NEW n \in Nodes, Exit(n) PROVE Right(n) /\ Others(n)
  <2>1. /\ \A m \in Nbrs[n] : conn'[n][m] = NoFd /\ listener'[n][m].conn = NoFd
        /\ sip_conn'[n] = NoFd
    BY <1>0, <1>7 DEF Exit, NoThread
  <2>2. ASSUME NEW x \in Nodes \cup {SIP} PROVE RightAt(n, x)'
    BY <2>1, MineNoFd DEF RightAt
  <2> QED  BY <1>0, <1>7, <2>2 DEF Exit
<1>8. ASSUME NEW n \in Nodes, NEW m \in Nbrs[n], ConnectNbr(n, m) PROVE Right(n) /\ Others(n)
  <2> DEFINE c == [from |-> n, run |-> run[n], to |-> m]
  <2>1. c \in Conns /\ Party(n, c) = m
    BY Constants DEF Conns, Party, TypeOK
  <2>2. moved[n] = {} /\ UNCHANGED <<listener, sip_conn, moved>>
    BY <1>8 DEF ConnectNbr, PhasesOK, PhaseAt
  <2>3. PICK f \in Fds : /\ fd[n][f] = Free
                         /\ \/ fd' = [fd EXCEPT ![n][f] = c] /\ conn' = [conn EXCEPT ![n][m] = f]
                            \/ fd' = [fd EXCEPT ![n][f] = Socket] /\ conn' = conn
    BY <1>8 DEF ConnectNbr, Lowest
  <2> HIDE DEF c
  <2>4. ASSUME NEW x \in Nodes \cup {SIP} PROVE RightAt(n, x)'
    <3>1. PICK d \in {c, Socket} : /\ fd'[n] = [fd[n] EXCEPT ![f] = d]
                                   /\ \/ d = c /\ conn' = [conn EXCEPT ![n][m] = f]
                                      \/ conn' = conn
      BY <1>0, <2>3
    <3>2. /\ \A k \in Nbrs[n] : /\ Mine(fd'[n], conn[n][k], n, k, x)
                                /\ Mine(fd'[n], listener[n][k].conn, n, k, x)
          /\ Mine(fd'[n], sip_conn[n], n, SIP, x)
      BY <2>2, <2>3, <3>1, RightTaken
    <3>3. CASE conn' = conn
      BY <2>2, <3>2, <3>3 DEF RightAt
    <3>4. CASE d = c /\ conn' = [conn EXCEPT ![n][m] = f]
      <4>1. conn'[n][m] = f /\ \A k \in Nbrs[n] : k # m => conn'[n][k] = conn[n][k]
        BY <3>4 DEF TypeOK
      <4>2. DOMAIN fd[n] = Fds
        BY <1>0
      <4>3. Mine(fd'[n], f, n, m, x)
        BY <2>1, <3>1, <3>4, <4>2, MineNew
      <4> QED  BY <2>2, <3>2, <4>1, <4>3 DEF RightAt
    <3> QED  BY <3>1, <3>3, <3>4
  <2> QED  BY <1>0, <2>2, <2>3, <2>4
<1>9. ASSUME NEW n \in Nodes, NEW m \in Nbrs[n], ListenerStart(n, m) PROVE Right(n) /\ Others(n)
  <2>1. /\ UNCHANGED <<fd, conn, sip_conn, moved>>
        /\ listener' = [listener EXCEPT ![n][m] = [pc |-> "recv", conn |-> conn[n][m]]]
    BY <1>9 DEF ListenerStart
  <2>2. /\ listener'[n][m].conn = conn[n][m]
        /\ \A k \in Nbrs[n] : k # m => listener'[n][k] = listener[n][k]
    BY <1>0, <2>1 DEF TypeOK
  <2>3. ASSUME NEW x \in Nodes \cup {SIP}, moved[n] \subseteq {x} PROVE RightAt(n, x)'
    BY <2>1, <2>2, <2>3 DEF RightAt, OneMoves
  <2> QED  BY <1>0, <2>1, <2>3
<1>10. ASSUME NEW n \in Nodes, NEW m \in Nbrs[n], ListenerEnded(n, m) PROVE Right(n) /\ Others(n)
  <2>1. /\ fd' = Closed(n, listener[n][m].conn) /\ moved' = Moves(n, m)
        /\ UNCHANGED <<conn, sip_conn>> /\ listener[n][m].conn \in Fds \cup {NoFd}
        /\ listener' = [listener EXCEPT ![n][m] = [pc |-> "accept", conn |-> NoFd]]
    BY <1>0, <1>10 DEF ListenerEnded
  <2>2. /\ listener'[n][m].conn = NoFd
        /\ \A k \in Nbrs[n] : k # m => listener'[n][k] = listener[n][k]
    BY <2>1 DEF TypeOK
  <2>3. ASSUME NEW x \in Nodes \cup {SIP}, moved'[n] \subseteq {x} PROVE RightAt(n, x)'
    <3>1. moved[n] \subseteq {x} /\ x = m
      BY <1>0, <2>1, <2>3 DEF Moves
    <3>2. RightAt(n, x) /\ Mine(fd[n], listener[n][m].conn, n, x, x)
      BY <3>1 DEF OneMoves, RightAt
    <3>3. /\ \A k \in Nbrs[n] : /\ Mine(fd'[n], conn[n][k], n, k, x)
                                /\ Mine(fd'[n], listener[n][k].conn, n, k, x)
          /\ Mine(fd'[n], sip_conn[n], n, SIP, x)
      BY <2>1, <3>2, RightClosed
    <3> QED  BY <2>1, <2>2, <3>3, MineNoFd DEF RightAt
  <2> QED  BY <1>0, <2>1, <2>3 DEF Closed, Moves
<1>11. ASSUME NEW n \in Nodes, NEW m \in Nbrs[n], ListenerAccept(n, m) PROVE Right(n) /\ Others(n)
  <2>1. PICK f \in Fds : /\ Accept(n, f)
                         /\ listener' = [listener EXCEPT ![n][m] = [pc |-> "recv", conn |-> f]]
    BY <1>11 DEF ListenerAccept
  <2>2. /\ UNCHANGED sip_conn /\ moved' = MovesLater(n, Head(backlog[n]).from)
        /\ m \in moved[n]
    BY <1>11 DEF ListenerAccept, PhasesOK, PhaseAt
  <2>3. /\ listener'[n][m].conn = f
        /\ \A k \in Nbrs[n] : k # m => listener'[n][k] = listener[n][k]
    BY <2>1 DEF TypeOK
  <2>4. ASSUME NEW x \in Nodes \cup {SIP}, moved'[n] \subseteq {x} PROVE RightAt(n, x)'
    <3>1. moved[n] \subseteq {x} /\ x = m /\ x = Head(backlog[n]).from
      BY <1>0, <2>2, <2>4 DEF Moves, MovesLater
    <3>2. /\ \A k \in Nbrs[n] : /\ Mine(fd'[n], conn'[n][k], n, k, x)
                                /\ x # k => Mine(fd'[n], listener[n][k].conn, n, k, x)
          /\ Mine(fd'[n], sip_conn[n], n, SIP, x)
          /\ Mine(fd'[n], f, n, m, x)
      BY <2>1, <3>1, RightAccepted
    <3> QED  BY <2>2, <2>3, <3>1, <3>2 DEF RightAt
  <2> QED  BY <1>0, <2>1, <2>2, <2>4 DEF Accept, Moves, MovesLater
<1>12. CASE \E n \in Nodes : \/ WaitNbrs(n) \/ Join(n) \/ Listen(n) \/ AcceptSip(n) \/ SipEnded(n)
                             \/ Exit(n)
                             \/ \E m \in Nbrs[n] : \/ ConnectNbr(n, m) \/ ListenerStart(n, m)
                                                   \/ ListenerEnded(n, m) \/ ListenerAccept(n, m)
  <2>1. PICK n \in Nodes : Right(n) /\ Others(n)
    <3> HIDE DEF Right, Others
    <3> QED  BY <1>2, <1>3, <1>4, <1>5, <1>6, <1>7, <1>8, <1>9, <1>10, <1>11, <1>12
  <2> QED  BY <2>1, RightOfOthers
<1>13. CASE \E n \in Nodes : Start(n) \/ Wake(n) \/ SipConnects(n) \/ SipStops(n)
  BY <1>1, <1>13 DEF Start, Wake, SipConnects, SipStops
<1>14. CASE UNCHANGED vars
  BY <1>1, <1>14 DEF vars
<1> QED  BY <1>12, <1>13, <1>14, Steps

-----------------------------------------------------------------------------
LEMMA Invariance == Spec => []IInv
<1>1. IInv /\ [Next]_vars => IInv'
  BY TypesKept, BacklogsKept, PhasesKept, OneMovesKept DEF IInv
<1> QED  BY InitInv, <1>1, PTL DEF Spec

\* Variables and descriptors keep their types, whatever the topology.
THEOREM TypeCorrect == Spec => []TypeOK
<1>1. IInv => TypeOK
  BY DEF IInv
<1> QED  BY Invariance, <1>1, PTL

\* A packet for a neighbour goes to that neighbour or nowhere, and so does one for the
\* SIP process, while at most one party's descriptor has moved (son.c:134).
THEOREM EntriesAreRight == Spec => []EntriesRight
<1>1. IInv => EntriesRight
  <2> SUFFICES ASSUME IInv, NEW n \in Nodes, NEW x \in Nodes \cup {SIP}, moved[n] \subseteq {x}
               PROVE  /\ \A m \in Nbrs[n] : LET c == At(n, conn[n][m]) IN
                           c # Free => c \in Conns /\ Party(n, c) = m
                      /\ LET c == At(n, sip_conn[n]) IN c # Free => c \in Conns /\ c.from = SIP
    BY DEF EntriesRight
  <2>1. RightAt(n, x)
    BY DEF IInv, OneMoves
  <2>2. \A m \in Nbrs[n] : At(n, conn[n][m]) # Free =>
           At(n, conn[n][m]) \in Conns /\ Party(n, At(n, conn[n][m])) = m
    BY <2>1 DEF RightAt, Mine, At
  <2>3. At(n, sip_conn[n]) # Free => At(n, sip_conn[n]) \in Conns /\ Party(n, At(n, sip_conn[n])) = SIP
    BY <2>1 DEF RightAt, Mine, At
  <2>4. ASSUME NEW c \in Conns, Party(n, c) = SIP PROVE c.from = SIP
    BY <2>4, Constants DEF Party, Conns
  <2> QED  BY <2>2, <2>3, <2>4
<1> QED  BY Invariance, <1>1, PTL
=============================================================================
