-------------------------------- MODULE Son --------------------------------
(***************************************************************************)
(* The SON processes of SimpleNet lab10, son/son.c and                     *)
(* son/neighbortable.c: who connects to whom, the threads that read the    *)
(* connections, and the table of neighbours, which holds descriptors.  A   *)
(* descriptor is a number that the system gives anew once it is closed, so *)
(* an entry may come to mean another connection.  What packets say is left *)
(* out: one may be there whenever there is a connection to read from.      *)
(***************************************************************************)
EXTENDS Integers, Sequences, FiniteSets

CONSTANTS
  Nodes,      \* the nodes of topology.dat
  Nbrs,       \* the neighbours of each
  NoFd,       \* -1
  Free,       \* a descriptor that is not in use
  Socket,     \* a socket that is no connection: SON_PORT, or a connect that failed
  Runs,       \* bound: how often the SON process of each node is started
  MaxStops,   \* bound: how often a SON process is stopped
  Sips,       \* bound: how often its SIP process connects
  MaxFd       \* bound: descriptors of a process

SIP == 0
Fds == 1..MaxFd

\* A connection, by who opened it, in which of his runs, and to whom
Conns == [from : Nodes \cup {SIP}, run : Nat, to : Nodes]

ASSUME SonAssumption ==
  /\ Nodes \subseteq Nat \ {SIP} /\ IsFiniteSet(Nodes)
  /\ Nbrs \in [Nodes -> SUBSET Nodes]
  /\ \A n \in Nodes : n \notin Nbrs[n] /\ \A m \in Nbrs[n] : n \in Nbrs[m]
  /\ NoFd \notin Nat
  /\ Free \notin Conns /\ Socket \notin Conns /\ Free # Socket
  /\ Runs \in [Nodes -> Nat] /\ Sips \in [Nodes -> Nat] /\ MaxStops \in Nat /\ MaxFd \in Nat

VARIABLES
  main,       \* where main is; "off": no process.  waitSIP is "accept" and "recv"
  run,        \* how often the process was started
  left,       \* the connections waitNbrs has still to accept
  todo,       \* the neighbours connectNbrs has still to connect to
  fd,         \* the descriptors of the process
  conn,       \* nt: the descriptor in the entry of each neighbour
  sip_conn,   \* the connection to SIP
  listener,   \* the threads listen_to_neighbor
  backlog,    \* connections nobody has accepted yet, at CONNECTION_PORT
  sipBacklog, \* at SON_PORT
  sip,        \* the SIP process of the node that is connected, 0: none
  sips, stops, deaths, \* counters: SIP processes; SON processes stopped; killed by SIGPIPE
  moved       \* history: whose connection has ended, and who got a descriptor since then

vars == <<main, run, left, todo, fd, conn, sip_conn, listener, backlog, sipBacklog,
          sip, sips, stops, deaths, moved>>

Larger(n) == {m \in Nbrs[n] : m > n}
Smaller(n) == {m \in Nbrs[n] : m < n}

NoThread == [pc |-> "none", conn |-> NoFd]

Init ==
  /\ main = [n \in Nodes |-> "off"] /\ run = [n \in Nodes |-> 0]
  /\ left = [n \in Nodes |-> 0] /\ todo = [n \in Nodes |-> {}]
  /\ fd = [n \in Nodes |-> [f \in Fds |-> Free]]
  /\ conn = [n \in Nodes |-> [m \in Nbrs[n] |-> NoFd]]
  /\ sip_conn = [n \in Nodes |-> NoFd]
  /\ listener = [n \in Nodes |-> [m \in Nbrs[n] |-> NoThread]]
  /\ backlog = [n \in Nodes |-> <<>>] /\ sipBacklog = [n \in Nodes |-> <<>>]
  /\ sip = [n \in Nodes |-> 0] /\ sips = [n \in Nodes |-> 0]
  /\ stops = 0 /\ deaths = 0
  /\ moved = [n \in Nodes |-> {}]

-----------------------------------------------------------------------------
(* Descriptors and connections.                                             *)

Held(n) == {fd[n][f] : f \in Fds}
Pending(n) == {backlog[n][k] : k \in 1..Len(backlog[n])}
                \cup {sipBacklog[n][k] : k \in 1..Len(sipBacklog[n])}

\* The end of c that n does not have is closed.
Gone(n, c) ==
  CASE c.from = n -> c \notin Held(c.to) \cup Pending(c.to)
    [] c.from = SIP -> sip[n] # c.run
    [] OTHER -> c \notin Held(c.from)

\* What descriptor f of n is, NoFd being none
At(n, f) == IF f \in Fds THEN fd[n][f] ELSE Free

\* recv on f returns 0 or an error.
Ended(n, f) == At(n, f) \in Conns => Gone(n, At(n, f))

\* send on f raises SIGPIPE, or may: the other end is closed, or there is none.
\* (On a number that is not in use it returns an error, which nobody looks at.)
Breaks(n, f) == At(n, f) = Socket \/ (At(n, f) \in Conns /\ Gone(n, At(n, f)))

\* A new descriptor is the lowest one that is not in use.
Lowest(n, f) ==
  /\ f \in Fds /\ fd[n][f] = Free
  /\ \A g \in Fds : fd[n][g] = Free => f <= g

\* History: the party whose descriptor moved
Moves(n, who) == [moved EXCEPT ![n] = @ \cup {who}]
MovesLater(n, who) == IF moved[n] = {} THEN moved ELSE Moves(n, who)

\* close
Closed(n, f) == IF f \in Fds THEN [fd EXCEPT ![n][f] = Free] ELSE fd

\* A mutant: the entries are filled in the order in which connections come.
AcceptInOrder(n, f) ==
  /\ backlog[n] # <<>> /\ Lowest(n, f)
  /\ fd' = [fd EXCEPT ![n][f] = Head(backlog[n])]
  /\ \E m \in Nbrs[n] :
       /\ \A k \in Larger(n) : k < m => conn[n][k] # NoFd
       /\ conn' = [conn EXCEPT ![n][m] = f]
  /\ backlog' = [backlog EXCEPT ![n] = Tail(@)]

\* accept at CONNECTION_PORT, and nt_addconn: the connection gets descriptor f, and so
\* does the entry of the neighbour it comes from.
Accept(n, f) ==
  /\ backlog[n] # <<>> /\ Lowest(n, f)
  /\ fd' = [fd EXCEPT ![n][f] = Head(backlog[n])]
  /\ conn' = [conn EXCEPT ![n][Head(backlog[n]).from] = f]
  /\ backlog' = [backlog EXCEPT ![n] = Tail(@)]

\* The process ends: all its descriptors are closed.
Exit(n) ==
  /\ main' = [main EXCEPT ![n] = "off"]
  /\ left' = [left EXCEPT ![n] = 0] /\ todo' = [todo EXCEPT ![n] = {}]
  /\ fd' = [fd EXCEPT ![n] = [f \in Fds |-> Free]]
  /\ conn' = [conn EXCEPT ![n] = [m \in Nbrs[n] |-> NoFd]]
  /\ sip_conn' = [sip_conn EXCEPT ![n] = NoFd]
  /\ listener' = [listener EXCEPT ![n] = [m \in Nbrs[n] |-> NoThread]]
  /\ backlog' = [backlog EXCEPT ![n] = <<>>]
  /\ sipBacklog' = [sipBacklog EXCEPT ![n] = <<>>]
  /\ moved' = [moved EXCEPT ![n] = {}]
  /\ UNCHANGED <<run, sip, sips>>

-----------------------------------------------------------------------------
(* Starting: main, waitNbrs, connectNbrs.                                   *)

\* A mutant: waitNbrs counts all neighbours.
StartForAll(n) ==
  /\ main[n] = "off" /\ run[n] < Runs[n]
  /\ main' = [main EXCEPT ![n] = "sleep"]
  /\ run' = [run EXCEPT ![n] = @ + 1]
  /\ left' = [left EXCEPT ![n] = Cardinality(Nbrs[n])]
  /\ todo' = [todo EXCEPT ![n] = Smaller(n)]
  /\ UNCHANGED <<fd, conn, sip_conn, listener, backlog, sipBacklog, sip, sips, stops, deaths, moved>>

\* waitNbrs listens long before main has slept SON_START_DELAY.
Start(n) ==
  /\ main[n] = "off" /\ run[n] < Runs[n]
  /\ main' = [main EXCEPT ![n] = "sleep"]
  /\ run' = [run EXCEPT ![n] = @ + 1]
  /\ left' = [left EXCEPT ![n] = Cardinality(Larger(n))]
  /\ todo' = [todo EXCEPT ![n] = Smaller(n)]
  /\ UNCHANGED <<fd, conn, sip_conn, listener, backlog, sipBacklog, sip, sips, stops, deaths, moved>>

\* A mutant: one more than it should.
WaitNbrsLonger(n) ==
  /\ main[n] \in {"sleep", "connect", "join"} /\ left[n] >= 0
  /\ \E f \in Fds : Accept(n, f)
  /\ left' = [left EXCEPT ![n] = @ - 1]
  /\ UNCHANGED <<main, run, todo, sip_conn, listener, sipBacklog, sip, sips, stops, deaths, moved>>

\* waitNbrs counts connections, whoever they come from.
WaitNbrs(n) ==
  /\ main[n] \in {"sleep", "connect", "join"} /\ left[n] > 0
  /\ \E f \in Fds : Accept(n, f)
  /\ left' = [left EXCEPT ![n] = @ - 1]
  /\ UNCHANGED <<main, run, todo, sip_conn, listener, sipBacklog, sip, sips, stops, deaths, moved>>

\* SON_START_DELAY is over.
Wake(n) ==
  /\ main[n] = "sleep"
  /\ main' = [main EXCEPT ![n] = IF todo[n] = {} THEN "join" ELSE "connect"]
  /\ UNCHANGED <<run, left, todo, fd, conn, sip_conn, listener, backlog, sipBacklog, sip, sips,
                 stops, deaths, moved>>

\* connectNbrs connects to m.  When m is not there, the others are not tried either.
ConnectNbr(n, m) ==
  /\ main[n] = "connect" /\ m \in todo[n]
  /\ LET c == [from |-> n, run |-> run[n], to |-> m] IN
     \E f \in Fds :
       /\ Lowest(n, f)
       /\ IF main[m] # "off"
          THEN /\ fd' = [fd EXCEPT ![n][f] = c]
               /\ conn' = [conn EXCEPT ![n][m] = f]
               /\ backlog' = [backlog EXCEPT ![m] = Append(@, c)]
               /\ todo' = [todo EXCEPT ![n] = @ \ {m}]
               /\ main' = [main EXCEPT ![n] = IF todo[n] = {m} THEN "join" ELSE @]
          ELSE /\ fd' = [fd EXCEPT ![n][f] = Socket]
               /\ todo' = [todo EXCEPT ![n] = {}]
               /\ main' = [main EXCEPT ![n] = "join"]
               /\ UNCHANGED <<conn, backlog>>
  /\ UNCHANGED <<run, left, sip_conn, listener, sipBacklog, sip, sips, stops, deaths, moved>>

\* waitNbrs has returned, and a thread is created for each neighbour.
Join(n) ==
  /\ main[n] = "join" /\ left[n] = 0
  /\ main' = [main EXCEPT ![n] = "socket"]
  /\ listener' = [listener EXCEPT ![n] = [m \in Nbrs[n] |-> [NoThread EXCEPT !.pc = "start"]]]
  /\ UNCHANGED <<run, left, todo, fd, conn, sip_conn, backlog, sipBacklog, sip, sips, stops, deaths,
                 moved>>

-----------------------------------------------------------------------------
(* waitSIP                                                                  *)

\* A mutant: one variable for the socket of SON_PORT and for the connection.
ListenAsConn(n) ==
  /\ main[n] = "socket"
  /\ \E f \in Fds : /\ Lowest(n, f)
                    /\ fd' = [fd EXCEPT ![n][f] = Socket]
                    /\ sip_conn' = [sip_conn EXCEPT ![n] = f]
  /\ main' = [main EXCEPT ![n] = "accept"]
  /\ moved' = MovesLater(n, SIP)
  /\ UNCHANGED <<run, left, todo, conn, listener, backlog, sipBacklog, sip, sips, stops, deaths>>

\* The socket of SON_PORT takes a descriptor like any other.
Listen(n) ==
  /\ main[n] = "socket"
  /\ \E f \in Fds : Lowest(n, f) /\ fd' = [fd EXCEPT ![n][f] = Socket]
  /\ main' = [main EXCEPT ![n] = "accept"]
  /\ moved' = MovesLater(n, SIP)
  /\ UNCHANGED <<run, left, todo, conn, sip_conn, listener, backlog, sipBacklog, sip, sips, stops,
                 deaths>>

AcceptSip(n) ==
  /\ main[n] = "accept" /\ sipBacklog[n] # <<>>
  /\ \E f \in Fds : /\ Lowest(n, f)
                    /\ fd' = [fd EXCEPT ![n][f] = Head(sipBacklog[n])]
                    /\ sip_conn' = [sip_conn EXCEPT ![n] = f]
  /\ sipBacklog' = [sipBacklog EXCEPT ![n] = Tail(@)]
  /\ main' = [main EXCEPT ![n] = "recv"]
  /\ moved' = MovesLater(n, SIP)
  /\ UNCHANGED <<run, left, todo, conn, listener, backlog, sip, sips, stops, deaths>>

\* A packet of SIP is sent on, to a neighbour that is not there: the process is killed.
SendKills(n, m) ==
  /\ main[n] = "recv" /\ At(n, sip_conn[n]) \in Conns
  /\ Breaks(n, conn[n][m])
  /\ Exit(n)
  /\ deaths' = deaths + 1
  /\ UNCHANGED stops

SipEnded(n) ==
  /\ main[n] = "recv" /\ Ended(n, sip_conn[n])
  /\ fd' = Closed(n, sip_conn[n])
  /\ main' = [main EXCEPT ![n] = "accept"]
  /\ moved' = Moves(n, SIP)
  /\ UNCHANGED <<run, left, todo, conn, sip_conn, listener, backlog, sipBacklog, sip, sips, stops,
                 deaths>>

-----------------------------------------------------------------------------
(* listen_to_neighbor, for the entry of m                                   *)

\* The thread reads its entry when it starts, not when it is created.
ListenerStart(n, m) ==
  /\ listener[n][m].pc = "start"
  /\ listener' = [listener EXCEPT ![n][m] = [pc |-> "recv", conn |-> conn[n][m]]]
  /\ UNCHANGED <<main, run, left, todo, fd, conn, sip_conn, backlog, sipBacklog, sip, sips, stops,
                 deaths, moved>>

\* A packet is forwarded to SIP, which is not there: the process is killed.
ForwardKills(n, m) ==
  /\ listener[n][m].pc = "recv" /\ At(n, listener[n][m].conn) \in Conns
  /\ Breaks(n, sip_conn[n])
  /\ Exit(n)
  /\ deaths' = deaths + 1
  /\ UNCHANGED stops

\* A mutant: the thread returns.
ListenerReturns(n, m) ==
  /\ listener[n][m].pc = "recv" /\ Ended(n, listener[n][m].conn)
  /\ fd' = Closed(n, listener[n][m].conn)
  /\ listener' = [listener EXCEPT ![n][m] = NoThread]
  /\ moved' = Moves(n, m)
  /\ UNCHANGED <<main, run, left, todo, conn, sip_conn, backlog, sipBacklog, sip, sips, stops, deaths>>

\* The connection has ended: the thread closes it and waits for the next.
ListenerEnded(n, m) ==
  /\ listener[n][m].pc = "recv" /\ Ended(n, listener[n][m].conn)
  /\ fd' = Closed(n, listener[n][m].conn)
  /\ listener' = [listener EXCEPT ![n][m] = [pc |-> "accept", conn |-> NoFd]]
  /\ moved' = Moves(n, m)
  /\ UNCHANGED <<main, run, left, todo, conn, sip_conn, backlog, sipBacklog, sip, sips, stops, deaths>>

\* The next connection may be any neighbour's.
ListenerAccept(n, m) ==
  /\ listener[n][m].pc = "accept"
  /\ \E f \in Fds :
       /\ Accept(n, f)
       /\ listener' = [listener EXCEPT ![n][m] = [pc |-> "recv", conn |-> f]]
  /\ moved' = MovesLater(n, Head(backlog[n]).from)
  /\ UNCHANGED <<main, run, left, todo, sip_conn, sipBacklog, sip, sips, stops, deaths>>

-----------------------------------------------------------------------------
(* The SIP processes, and the user.                                         *)

SipConnects(n) ==
  /\ main[n] \in {"accept", "recv"} /\ sip[n] = 0 /\ sips[n] < Sips[n]
  /\ sips' = [sips EXCEPT ![n] = @ + 1] /\ sip' = [sip EXCEPT ![n] = sips[n] + 1]
  /\ sipBacklog' = [sipBacklog EXCEPT ![n] =
       Append(@, [from |-> SIP, run |-> sips[n] + 1, to |-> n])]
  /\ UNCHANGED <<main, run, left, todo, fd, conn, sip_conn, listener, backlog, stops, deaths, moved>>

SipStops(n) ==
  /\ sip[n] # 0
  /\ sip' = [sip EXCEPT ![n] = 0]
  /\ UNCHANGED <<main, run, left, todo, fd, conn, sip_conn, listener, backlog, sipBacklog, sips, stops,
                 deaths, moved>>

\* son_stop, or a crash
Stop(n) ==
  /\ main[n] # "off" /\ stops < MaxStops
  /\ Exit(n)
  /\ stops' = stops + 1
  /\ UNCHANGED deaths

MainStep(n) ==
  \/ WaitNbrs(n) \/ Wake(n) \/ Join(n)
  \/ \E m \in Nbrs[n] : ConnectNbr(n, m)
  \/ Listen(n) \/ AcceptSip(n) \/ SipEnded(n)

Next ==
  \E n \in Nodes :
    \/ Start(n) \/ MainStep(n) \/ Stop(n) \/ SipConnects(n) \/ SipStops(n)
    \/ \E m \in Nbrs[n] :
         \/ SendKills(n, m) \/ ForwardKills(n, m)
         \/ ListenerStart(n, m) \/ ListenerEnded(n, m) \/ ListenerAccept(n, m)

Spec == Init /\ [][Next]_vars

-----------------------------------------------------------------------------
(* Fairness: the threads of a process get to run, and what is left to read  *)
(* of a closed connection comes to an end.  Nobody has to start or stop.    *)

ThreadGoesOn(n, m) ==
  WF_vars(ListenerStart(n, m) \/ ListenerEnded(n, m) \/ ListenerAccept(n, m))
FairSpec ==
  /\ Spec
  /\ \A n \in Nodes :
       /\ WF_vars(WaitNbrs(n)) /\ WF_vars(MainStep(n))
       /\ \A m \in Nbrs[n] : ThreadGoesOn(n, m)

-----------------------------------------------------------------------------
(* Properties                                                               *)

Parties(n) == Nbrs[n] \cup {SIP}

\* The other end of c, for n
Party(n, c) == IF c.from = n THEN c.to ELSE c.from

\* Variables and descriptors keep their types.
TypeOK ==
  /\ main \in [Nodes -> {"off", "sleep", "connect", "join", "socket", "accept", "recv"}]
  /\ run \in [Nodes -> Nat] /\ left \in [Nodes -> Nat]
  /\ todo \in [Nodes -> SUBSET Nodes]
  /\ fd \in [Nodes -> [Fds -> Conns \cup {Free, Socket}]]
  /\ DOMAIN conn = Nodes /\ \A n \in Nodes : conn[n] \in [Nbrs[n] -> Fds \cup {NoFd}]
  /\ sip_conn \in [Nodes -> Fds \cup {NoFd}]
  /\ DOMAIN listener = Nodes
  /\ \A n \in Nodes : listener[n] \in
       [Nbrs[n] -> [pc : {"none", "start", "recv", "accept"}, conn : Fds \cup {NoFd}]]
  /\ backlog \in [Nodes -> Seq(Conns)] /\ sipBacklog \in [Nodes -> Seq(Conns)]
  /\ sip \in [Nodes -> Nat] /\ sips \in [Nodes -> Nat]
  /\ stops \in Nat /\ deaths \in Nat
  /\ moved \in [Nodes -> SUBSET (Nodes \cup {SIP})]

\* Nothing but a connection with the party itself is behind its entry, if anything, as
\* long as at most one party's descriptor has moved: a packet for a neighbour goes to
\* that neighbour or nowhere.  (close in listen_to_neighbor leaves the number in the
\* table, and the next socket gets it.)
EntriesRight ==
  \A n \in Nodes, x \in Nodes \cup {SIP} : moved[n] \subseteq {x} =>
    /\ \A m \in Nbrs[n] : LET c == At(n, conn[n][m]) IN
         c # Free => c \in Conns /\ Party(n, c) = m
    /\ LET c == At(n, sip_conn[n]) IN c # Free => c \in Conns /\ c.from = SIP

\* No SON process is killed unless one was stopped, or a SIP process: whoever starts
\* late, or finds a neighbour not there, sends on numbers that are not in use, which
\* is no more than an error that sendpkt does not look at.
\* (sips[n] = sip[n] <= 1: the first SIP process of n is still there, or to come.)
DiesOnlyAfterStop ==
  stops = 0 /\ (\A n \in Nodes : sips[n] = sip[n] /\ sips[n] <= 1) => deaths = 0

\* The node is connected with its neighbour, both entries say so, and it listens.
Linked(n, m) ==
  /\ At(n, conn[n][m]) \in Conns
  /\ At(n, conn[n][m]) = At(m, conn[m][n])
  /\ \E k \in Nbrs[n] : listener[n][k] = [pc |-> "recv", conn |-> conn[n][m]]

\* No node has slept SON_START_DELAY before all are started (son.c:29).
InTime == \A n \in Nodes : main[n] \notin {"off", "sleep"} => \A m \in Nodes : run[m] > 0

\* When all nodes are started in time and nothing stops, all get connected with all
\* their neighbours, and stay so: nobody waits in waitNbrs for ever.
StartsTogether ==
  [](stops = 0 /\ deaths = 0 /\ InTime) /\ <>(\A n \in Nodes : run[n] > 0)
    => <>[](\A n \in Nodes : \A m \in Nbrs[n] : Linked(n, m))

\* The connection that m opened to n in its last run
Opened(n, m) == [from |-> m, run |-> run[m], to |-> n]

\* Every thread of n has read its entry before one of them lost its connection.
Prompt(n) == moved[n] = {} \/ \A m \in Nbrs[n] : listener[n][m].pc # "start"

\* A neighbour that stopped, was started anew and has connected is in the table of n
\* in the end, whichever thread accepts it and whatever stale numbers there were.
Relinks ==
  \A n \in Nodes : \A m \in Larger(n) :
    []Prompt(n) /\ <>[](Opened(n, m) \in Held(m) /\ ~Gone(m, Opened(n, m)))
      => <>[](At(n, conn[n][m]) = Opened(n, m))
=============================================================================
