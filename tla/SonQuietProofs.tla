--------------------------- MODULE SonQuietProofs ---------------------------
(***************************************************************************)
(* A theorem about Son: nobody is killed while nothing stops.  Until then  *)
(* every connection has two ends, and every number that is kept is one.    *)
(***************************************************************************)
EXTENDS SonProofs

USE DEF SIP

\* No SON process has stopped, and no SIP process.
Quiet == stops = 0 /\ \A n \in Nodes : sips[n] = sip[n] /\ sips[n] <= 1

Has(n) == Held(n) \cup Pending(n)

\* No connection has lost its other end.
Alive ==
  \A n \in Nodes, c \in Conns :
    /\ c \in Held(n) /\ c.from = n => c \in Has(c.to)
    /\ c \in Has(n) /\ c.from = SIP => c.run = sip[n] /\ c.run # 0
    /\ c \in Has(n) /\ c.from \notin {n, SIP} => c \in Held(c.from)

\* Of the descriptors F, f is a connection, or none.
Connected(F, f) == f \in Fds => F[f] \in Conns

NumbersAt(n) ==
  /\ \A m \in Nbrs[n] : Connected(fd[n], conn[n][m]) /\ Connected(fd[n], listener[n][m].conn)
  /\ Connected(fd[n], sip_conn[n])
  /\ main[n] = "recv" => sip_conn[n] \in Fds
NumbersOK == \A n \in Nodes : NumbersAt(n)

SipOK == \A n \in Nodes : sip[n] \in {0, sips[n]}

QInv == SipOK /\ (Quiet => deaths = 0 /\ Alive /\ NumbersOK)

LEMMA QInit == Init => QInv
<1> SUFFICES ASSUME Init PROVE SipOK /\ deaths = 0 /\ Alive /\ NumbersOK
  BY DEF QInv
<1> USE DEF Init
<1>1. SipOK /\ deaths = 0
  BY DEF SipOK
<1>2. \A n \in Nodes : \A c \in Conns : c \notin Held(n) /\ c \notin Pending(n)
  BY Constants DEF Held, Pending
<1>3. Alive
  BY <1>2 DEF Alive, Has
<1>4. NumbersOK
  BY Constants DEF NumbersOK, NumbersAt, Connected, NoThread
<1> QED  BY <1>1, <1>3, <1>4

-----------------------------------------------------------------------------
(* What a node holds, and what waits at it.                                 *)

LEMMA TailElements ==
  ASSUME NEW S, NEW s \in Seq(S), s # <<>>
  PROVE  {s[k] : k \in 1..Len(s)} = {Head(s)} \cup {Tail(s)[k] : k \in 1..Len(Tail(s))}
<1>1. /\ Len(Tail(s)) = Len(s) - 1 /\ Len(s) \in Nat /\ Len(s) > 0 /\ Head(s) = s[1]
      /\ \A k \in 1..Len(Tail(s)) : Tail(s)[k] = s[k + 1]
  OBVIOUS
<1>2. \A k \in 1..Len(s) : k = 1 \/ (k - 1 \in 1..Len(Tail(s)) /\ Tail(s)[k - 1] = s[k])
  BY <1>1
<1>3. 1 \in 1..Len(s) /\ \A k \in 1..Len(Tail(s)) : k + 1 \in 1..Len(s)
  BY <1>1
<1> QED  BY <1>1, <1>2, <1>3

LEMMA AppendElements ==
  ASSUME NEW S, NEW s \in Seq(S), NEW c
  PROVE  {Append(s, c)[k] : k \in 1..Len(Append(s, c))} = {s[k] : k \in 1..Len(s)} \cup {c}
<1>1. /\ Len(Append(s, c)) = Len(s) + 1 /\ Len(s) \in Nat
      /\ Append(s, c)[Len(s) + 1] = c
      /\ \A k \in 1..Len(s) : Append(s, c)[k] = s[k]
  OBVIOUS
<1>2. \A k \in 1..Len(Append(s, c)) : k = Len(s) + 1 \/ k \in 1..Len(s)
  BY <1>1
<1>3. Len(s) + 1 \in 1..Len(Append(s, c)) /\ \A k \in 1..Len(s) : k \in 1..Len(Append(s, c))
  BY <1>1
<1> QED  BY <1>1, <1>2, <1>3

\* A descriptor that was free is v now.
LEMMA HeldTaken ==
  ASSUME TypeOK, NEW n \in Nodes, NEW f \in Fds, fd[n][f] = Free, NEW v, fd' = [fd EXCEPT ![n][f] = v]
  PROVE  /\ \A c \in Conns : c \in Held(n)' <=> c \in Held(n) \/ c = v
         /\ \A a \in Nodes \ {n} : Held(a)' = Held(a)
<1>1. /\ fd'[n] = [fd[n] EXCEPT ![f] = v] /\ DOMAIN fd[n] = Fds
      /\ \A a \in Nodes \ {n} : fd'[a] = fd[a]
  BY DEF TypeOK
<1>2. \A c \in Conns : c # fd[n][f]
  BY Constants
<1> QED  BY <1>1, <1>2 DEF Held

LEMMA PendingSame ==
  ASSUME NEW n, UNCHANGED <<backlog[n], sipBacklog[n]>>
  PROVE  Pending(n)' = Pending(n)
BY DEF Pending

LEMMA HeldSame ==
  ASSUME UNCHANGED fd
  PROVE  \A n : Held(n)' = Held(n)
BY DEF Held

\* Nothing is lost, and what is new has two ends.
Grows ==
  \A a \in Nodes, c \in Conns :
    /\ c \in Held(a) => c \in Held(a)'
    /\ c \in Has(a) => c \in Has(a)'
    /\ c \in Has(a) /\ c.from = SIP => sip'[a] = sip[a]
    /\ c \in Held(a)' => c \in Held(a) \/ (c.from = a => c \in Has(c.to)')
    /\ c \in Has(a)' => \/ c \in Has(a)
                        \/ /\ c.from = SIP => c.run = sip'[a] /\ c.run # 0
                           /\ c.from \notin {a, SIP} => c \in Held(c.from)'

LEMMA AliveKept ==
  ASSUME Alive, Grows
  PROVE  Alive'
<1> SUFFICES ASSUME NEW a \in Nodes, NEW c \in Conns
             PROVE  /\ c \in Held(a)' /\ c.from = a => c \in Has(c.to)'
                    /\ c \in Has(a)' /\ c.from = SIP => c.run = sip'[a] /\ c.run # 0
                    /\ c \in Has(a)' /\ c.from \notin {a, SIP} => c \in Held(c.from)'
  BY DEF Alive
<1>0. c.from \in Nodes \cup {SIP} /\ c.to \in Nodes
  BY DEF Conns
<1>1. c \in Held(a)' /\ c.from = a => c \in Has(c.to)'
  BY <1>0 DEF Alive, Grows
<1>2. c \in Has(a)' /\ c.from = SIP => c.run = sip'[a] /\ c.run # 0
  BY <1>0 DEF Alive, Grows
<1>3. c \in Has(a)' /\ c.from \notin {a, SIP} => c \in Held(c.from)'
  BY <1>0 DEF Alive, Grows
<1> QED  BY <1>1, <1>2, <1>3

\* The same, when connections stay where they are.
LEMMA AliveSame ==
  ASSUME Alive, UNCHANGED sip,
         \A a \in Nodes, c \in Conns : (c \in Held(a)' <=> c \in Held(a)) /\ (c \in Has(a)' <=> c \in Has(a))
  PROVE  Alive'
BY AliveKept DEF Grows

LEMMA AliveAccepted ==
  ASSUME TypeOK, BacklogsOK, Alive, NEW n \in Nodes, NEW f \in Fds, Accept(n, f),
         UNCHANGED <<sipBacklog, sip>>
  PROVE  Alive'
<1> DEFINE h == Head(backlog[n])
<1>1. h \in Conns /\ h.from \in Nbrs[n] /\ h.from # n
  BY FirstPending, Constants DEF Accept
<1>2. /\ fd[n][f] = Free /\ fd' = [fd EXCEPT ![n][f] = h]
      /\ backlog[n] # <<>> /\ backlog' = [backlog EXCEPT ![n] = Tail(@)]
  BY DEF Accept, Lowest
<1>3. /\ \A c \in Conns : c \in Held(n)' <=> c \in Held(n) \/ c = h
      /\ \A a \in Nodes \ {n} : Held(a)' = Held(a)
  BY <1>2, HeldTaken
<1>4. /\ Pending(n) = {h} \cup Pending(n)'
      /\ \A a \in Nodes \ {n} : Pending(a)' = Pending(a)
  <2>1. backlog \in [Nodes -> Seq(Conns)]
    BY DEF TypeOK
  <2>2. {backlog[n][k] : k \in 1..Len(backlog[n])} =
          {h} \cup {Tail(backlog[n])[k] : k \in 1..Len(Tail(backlog[n]))}
    <3>1. backlog[n] \in Seq(Conns)
      BY <2>1
    <3> QED  BY <1>2, <3>1, TailElements
  <2>3. backlog'[n] = Tail(backlog[n]) /\ \A a \in Nodes \ {n} : backlog'[a] = backlog[a]
    BY <1>2, <2>1
  <2> HIDE DEF h
  <2> QED  BY <2>2, <2>3 DEF Pending
<1> HIDE DEF h
<1>5. \A a \in Nodes, c \in Conns : c \in Has(a)' <=> c \in Has(a)
  BY <1>3, <1>4 DEF Has
<1>6. h \in Has(n)
  BY <1>4 DEF Has
<1> QED  BY <1>1, <1>3, <1>5, AliveKept DEF Grows

LEMMA AliveAcceptedSip ==
  ASSUME TypeOK, BacklogsOK, Alive, NEW n \in Nodes, AcceptSip(n)
  PROVE  Alive'
<1> DEFINE h == Head(sipBacklog[n])
<1>1. h \in Conns /\ h.from # n /\ sipBacklog[n] # <<>>
  BY FirstPending, Constants DEF AcceptSip
<1>2. PICK f \in Fds : fd[n][f] = Free /\ fd' = [fd EXCEPT ![n][f] = h]
  BY DEF AcceptSip, Lowest
<1>3. sipBacklog' = [sipBacklog EXCEPT ![n] = Tail(@)] /\ UNCHANGED <<backlog, sip>>
  BY DEF AcceptSip
<1>4. /\ \A c \in Conns : c \in Held(n)' <=> c \in Held(n) \/ c = h
      /\ \A a \in Nodes \ {n} : Held(a)' = Held(a)
  BY <1>2, HeldTaken
<1>5. /\ Pending(n) = {h} \cup Pending(n)'
      /\ \A a \in Nodes \ {n} : Pending(a)' = Pending(a)
  <2>1. sipBacklog \in [Nodes -> Seq(Conns)]
    BY DEF TypeOK
  <2>2. {sipBacklog[n][k] : k \in 1..Len(sipBacklog[n])} =
          {h} \cup {Tail(sipBacklog[n])[k] : k \in 1..Len(Tail(sipBacklog[n]))}
    <3>1. sipBacklog[n] \in Seq(Conns)
      BY <2>1
    <3> QED  BY <1>1, <3>1, TailElements
  <2>3. sipBacklog'[n] = Tail(sipBacklog[n]) /\ \A a \in Nodes \ {n} : sipBacklog'[a] = sipBacklog[a]
    BY <1>3, <2>1
  <2> HIDE DEF h
  <2> QED  BY <1>3, <2>2, <2>3, ZenonT(30) DEF Pending
<1> HIDE DEF h
<1>6. \A a \in Nodes, c \in Conns : c \in Has(a)' <=> c \in Has(a)
  BY <1>4, <1>5 DEF Has
<1> QED  BY <1>1, <1>3, <1>4, <1>6, AliveKept DEF Grows

LEMMA AliveConnected ==
  ASSUME TypeOK, Alive, NEW n \in Nodes, NEW m \in Nbrs[n], ConnectNbr(n, m)
  PROVE  Alive'
<1> DEFINE c == [from |-> n, run |-> run[n], to |-> m]
<1>1. c \in Conns /\ c.from = n /\ c.to = m /\ m \in Nodes /\ m # n /\ n # SIP
  BY Constants DEF Conns, TypeOK
<1>2. PICK f \in Fds :
        /\ fd[n][f] = Free
        /\ \/ fd' = [fd EXCEPT ![n][f] = c] /\ backlog' = [backlog EXCEPT ![m] = Append(@, c)]
           \/ fd' = [fd EXCEPT ![n][f] = Socket] /\ backlog' = backlog
  BY DEF ConnectNbr, Lowest
<1>3. UNCHANGED <<sipBacklog, sip>>
  BY DEF ConnectNbr
<1> HIDE DEF c
<1>4. CASE fd' = [fd EXCEPT ![n][f] = Socket] /\ backlog' = backlog
  <2>1. \A a \in Nodes, d \in Conns : d \in Held(a)' <=> d \in Held(a)
    BY <1>2, <1>4, HeldTaken, Constants
  <2>2. \A a \in Nodes : Pending(a)' = Pending(a)
    BY <1>3, <1>4, PendingSame
  <2> QED  BY <1>3, <2>1, <2>2, AliveSame DEF Has
<1>5. CASE fd' = [fd EXCEPT ![n][f] = c] /\ backlog' = [backlog EXCEPT ![m] = Append(@, c)]
  <2>1. /\ \A d \in Conns : d \in Held(n)' <=> d \in Held(n) \/ d = c
        /\ \A a \in Nodes \ {n} : Held(a)' = Held(a)
    BY <1>2, <1>5, HeldTaken
  <2>2. Pending(m)' = Pending(m) \cup {c} /\ \A a \in Nodes \ {m} : Pending(a)' = Pending(a)
    <3>1. backlog \in [Nodes -> Seq(Conns)]
      BY DEF TypeOK
    <3>2. {Append(backlog[m], c)[k] : k \in 1..Len(Append(backlog[m], c))} =
            {backlog[m][k] : k \in 1..Len(backlog[m])} \cup {c}
      BY <1>1, <3>1, AppendElements
    <3>3. backlog'[m] = Append(backlog[m], c) /\ \A a \in Nodes \ {m} : backlog'[a] = backlog[a]
      BY <1>1, <1>5, <3>1
    <3> QED  BY <1>3, <3>2, <3>3 DEF Pending
  <2>3. \A a \in Nodes, d \in Conns : /\ d \in Held(a) => d \in Held(a)'
                                      /\ d \in Has(a) => d \in Has(a)'
    BY <2>1, <2>2 DEF Has
  <2>4. c \in Held(n)' /\ c \in Has(m)'
    BY <1>1, <2>1, <2>2 DEF Has
  <2>5. \A a \in Nodes, d \in Conns : d \in Held(a)' => d \in Held(a) \/ (d = c /\ a = n)
    BY <2>1
  <2>6. \A a \in Nodes, d \in Conns : d \in Has(a)' => d \in Has(a) \/ d = c
    BY <2>1, <2>2 DEF Has
  <2>7. \A a \in Nodes, d \in Conns : d \in Held(a)' => d \in Held(a) \/ (d.from = a => d \in Has(d.to)')
    BY <1>1, <2>4, <2>5
  <2>8. \A a \in Nodes, d \in Conns :
          d \in Has(a)' => \/ d \in Has(a)
                           \/ /\ d.from = SIP => d.run = sip'[a] /\ d.run # 0
                              /\ d.from \notin {a, SIP} => d \in Held(d.from)'
    BY <1>1, <2>4, <2>6
  <2>9. Grows
    BY <1>3, <2>3, <2>7, <2>8 DEF Grows
  <2> QED  BY <2>9, AliveKept
<1> QED  BY <1>2, <1>4, <1>5

\* The first SIP process of n
LEMMA AliveSipConnected ==
  ASSUME TypeOK, Alive, NEW n \in Nodes, SipConnects(n), sips[n] = 0
  PROVE  Alive'
<1> DEFINE c == [from |-> SIP, run |-> sips[n] + 1, to |-> n]
<1>1. /\ sip[n] = 0 /\ sip' = [sip EXCEPT ![n] = sips[n] + 1]
      /\ sipBacklog' = [sipBacklog EXCEPT ![n] = Append(@, c)] /\ UNCHANGED <<fd, backlog>>
  BY DEF SipConnects
<1>2. c.from = SIP /\ c.run = 1 /\ sip'[n] = 1 /\ \A a \in Nodes \ {n} : sip'[a] = sip[a]
  BY <1>1 DEF TypeOK
<1> HIDE DEF c
<1>3. \A a \in Nodes : Held(a)' = Held(a)
  BY <1>1, HeldSame
<1>4. Pending(n)' = Pending(n) \cup {c} /\ \A a \in Nodes \ {n} : Pending(a)' = Pending(a)
  <2>1. sipBacklog \in [Nodes -> Seq(Conns)]
    BY DEF TypeOK
  <2>2. {Append(sipBacklog[n], c)[k] : k \in 1..Len(Append(sipBacklog[n], c))} =
          {sipBacklog[n][k] : k \in 1..Len(sipBacklog[n])} \cup {c}
    <3>1. sipBacklog[n] \in Seq(Conns)
      BY <2>1
    <3> QED  BY <3>1, AppendElements
  <2>3. sipBacklog'[n] = Append(sipBacklog[n], c) /\ \A a \in Nodes \ {n} : sipBacklog'[a] = sipBacklog[a]
    BY <1>1, <2>1
  <2> QED  BY <1>1, <2>2, <2>3 DEF Pending
<1>5. \A a \in Nodes, d \in Conns : d \in Has(a) /\ d.from = SIP => sip'[a] = sip[a]
  BY <1>1, <1>2 DEF Alive
<1>6. \A a \in Nodes, d \in Conns : /\ d \in Has(a) => d \in Has(a)'
                                    /\ d \in Has(a)' => d \in Has(a) \/ (d = c /\ a = n)
  BY <1>3, <1>4 DEF Has
<1>7. \A a \in Nodes, d \in Conns :
        d \in Has(a)' => \/ d \in Has(a)
                         \/ /\ d.from = SIP => d.run = sip'[a] /\ d.run # 0
                            /\ d.from \notin {a, SIP} => d \in Held(d.from)'
  BY <1>2, <1>6
<1>8. Grows
  BY <1>3, <1>5, <1>6, <1>7 DEF Grows
<1> QED  BY <1>8, AliveKept

-----------------------------------------------------------------------------
(* The numbers that are kept.                                               *)

LEMMA NumbersOfOthers ==
  ASSUME NumbersOK, NEW n \in Nodes, NumbersAt(n)',
         \A a \in Nodes \ {n} : UNCHANGED <<fd[a], conn[a], listener[a], sip_conn[a], main[a]>>
  PROVE  NumbersOK'
BY DEF NumbersOK, NumbersAt

LEMMA ConnectedTaken ==
  ASSUME NEW F, NEW f \in Fds, DOMAIN F = Fds, F[f] = Free, NEW v
  PROVE  /\ \A g : Connected(F, g) => Connected([F EXCEPT ![f] = v], g)
         /\ v \in Conns => Connected([F EXCEPT ![f] = v], f)
BY Constants DEF Connected

\* What n keeps when a free descriptor becomes v
LEMMA NumbersTaken ==
  ASSUME TypeOK, NumbersOK, NEW n \in Nodes, NEW f \in Fds, fd[n][f] = Free, NEW v,
         fd' = [fd EXCEPT ![n][f] = v]
  PROVE  /\ \A m \in Nbrs[n] : Connected(fd'[n], conn[n][m]) /\ Connected(fd'[n], listener[n][m].conn)
         /\ Connected(fd'[n], sip_conn[n])
         /\ v \in Conns => Connected(fd'[n], f)
         /\ \A a \in Nodes \ {n} : fd'[a] = fd[a]
<1>1. /\ fd'[n] = [fd[n] EXCEPT ![f] = v] /\ DOMAIN fd[n] = Fds
      /\ \A a \in Nodes \ {n} : fd'[a] = fd[a]
  BY DEF TypeOK
<1>2. /\ \A g : Connected(fd[n], g) => Connected(fd'[n], g)
      /\ v \in Conns => Connected(fd'[n], f)
  BY <1>1, ConnectedTaken
<1> QED  BY <1>1, <1>2 DEF NumbersOK, NumbersAt

LEMMA NumbersAccepted ==
  ASSUME TypeOK, BacklogsOK, NumbersOK, NEW n \in Nodes, NEW f \in Fds, Accept(n, f)
  PROVE  /\ \A m \in Nbrs[n] : /\ Connected(fd'[n], conn'[n][m])
                               /\ Connected(fd'[n], listener[n][m].conn)
         /\ Connected(fd'[n], sip_conn[n]) /\ Connected(fd'[n], f)
         /\ \A a \in Nodes \ {n} : fd'[a] = fd[a] /\ conn'[a] = conn[a]
<1> DEFINE h == Head(backlog[n])
<1>1. h \in Conns /\ h.from \in Nbrs[n]
  BY FirstPending DEF Accept
<1>2. fd[n][f] = Free /\ fd' = [fd EXCEPT ![n][f] = h] /\ conn' = [conn EXCEPT ![n][h.from] = f]
  BY DEF Accept, Lowest
<1> HIDE DEF h
<1>3. PICK k \in Nbrs[n] : k = h.from
  BY <1>1
<1>4. /\ \A m \in Nbrs[n] : conn'[n][m] \in {conn[n][m], f}
      /\ \A a \in Nodes \ {n} : conn'[a] = conn[a]
  BY <1>2, <1>3 DEF TypeOK
<1>5. /\ \A m \in Nbrs[n] : Connected(fd'[n], conn[n][m]) /\ Connected(fd'[n], listener[n][m].conn)
      /\ Connected(fd'[n], sip_conn[n]) /\ Connected(fd'[n], f)
      /\ \A a \in Nodes \ {n} : fd'[a] = fd[a]
  BY <1>1, <1>2, NumbersTaken
<1> QED  BY <1>4, <1>5

\* A connection that is alive has not ended, and does not break.
LEMMA NotGone ==
  ASSUME TypeOK, Alive, NEW n \in Nodes, NEW f \in Fds \cup {NoFd}, Connected(fd[n], f)
  PROVE  /\ Ended(n, f) => f = NoFd
         /\ ~Breaks(n, f)
<1>1. CASE f = NoFd
  BY <1>1, Constants DEF Ended, Breaks, At
<1>2. CASE f \in Fds
  <2> DEFINE c == fd[n][f]
  <2>1. c \in Conns /\ At(n, f) = c /\ c \in Held(n) /\ c \in Has(n) /\ c # Socket
    BY <1>2, Constants DEF Connected, At, Held, Has
  <2> HIDE DEF c
  <2>2. ~Gone(n, c)
    BY <2>1, Constants DEF Gone, Alive, Has
  <2> QED  BY <2>1, <2>2 DEF Ended, Breaks
<1> QED  BY <1>1, <1>2

-----------------------------------------------------------------------------
(* The steps.                                                               *)

LEMMA SipKept ==
  ASSUME TypeOK, SipOK, [Next]_vars
  PROVE  SipOK' /\ (Quiet' => Quiet /\ UNCHANGED stops)
<1> DEFINE OK == SipOK' /\ (Quiet' => Quiet /\ UNCHANGED stops)
<1>0. stops \in Nat /\ sip \in [Nodes -> Nat] /\ sips \in [Nodes -> Nat]
  BY DEF TypeOK
<1>1. ASSUME UNCHANGED <<sip, sips>>, stops' \in {stops, stops + 1} PROVE OK
  BY <1>0, <1>1 DEF SipOK, Quiet
<1>2. ASSUME NEW n \in Nodes, SipConnects(n) PROVE OK
  <2>1. /\ sip[n] = 0 /\ stops' = stops
        /\ sips' = [sips EXCEPT ![n] = @ + 1] /\ sip' = [sip EXCEPT ![n] = sips[n] + 1]
    BY <1>2 DEF SipConnects
  <2>2. sips'[n] = sips[n] + 1 /\ sip'[n] = sips[n] + 1
    BY <1>0, <2>1
  <2>3. \A a \in Nodes \ {n} : sips'[a] = sips[a] /\ sip'[a] = sip[a]
    BY <1>0, <2>1
  <2>4. sips'[n] <= 1 => sips[n] = 0
    BY <1>0, <2>2
  <2>5. SipOK'
    BY <2>2, <2>3 DEF SipOK
  <2>6. Quiet' => Quiet
    BY <1>0, <2>1, <2>2, <2>3, <2>4 DEF Quiet
  <2> QED  BY <2>1, <2>5, <2>6
<1>3. ASSUME NEW n \in Nodes, SipStops(n) PROVE OK
  <2>1. sip[n] # 0 /\ sip' = [sip EXCEPT ![n] = 0] /\ UNCHANGED <<sips, stops>>
    BY <1>3 DEF SipStops
  <2>2. sip'[n] = 0 /\ \A a \in Nodes \ {n} : sip'[a] = sip[a]
    BY <1>0, <2>1
  <2>3. SipOK' /\ sips'[n] # sip'[n]
    BY <2>1, <2>2 DEF SipOK
  <2> QED  BY <2>3 DEF Quiet
<1>4. CASE \E n \in Nodes : SipConnects(n) \/ SipStops(n)
  BY <1>2, <1>3, <1>4
<1>5. CASE UNCHANGED vars
  BY <1>0, <1>1, <1>5 DEF vars
<1>6. CASE \E n \in Nodes :
        \/ Start(n) \/ WaitNbrs(n) \/ Wake(n) \/ Join(n) \/ Listen(n) \/ AcceptSip(n) \/ SipEnded(n)
        \/ Exit(n) /\ stops' \in {stops, stops + 1}
  BY <1>0, <1>1, <1>6 DEF Start, WaitNbrs, Wake, Join, Listen, AcceptSip, SipEnded, Exit
<1>7. CASE \E n \in Nodes : \E m \in Nbrs[n] :
        \/ ConnectNbr(n, m) \/ ListenerStart(n, m) \/ ListenerEnded(n, m) \/ ListenerAccept(n, m)
  BY <1>0, <1>1, <1>7 DEF ConnectNbr, ListenerStart, ListenerEnded, ListenerAccept
<1> QED  BY <1>4, <1>5, <1>6, <1>7, Steps, Zenon

LEMMA QuietKept ==
  ASSUME IInv, SipOK, Quiet, Quiet', deaths = 0, Alive, NumbersOK, [Next]_vars, UNCHANGED stops
  PROVE  deaths' = 0 /\ Alive' /\ NumbersOK'
<1> DEFINE Others(n) == \A a \in Nodes \ {n} :
                          UNCHANGED <<fd[a], conn[a], listener[a], sip_conn[a], main[a]>>
           Goal == deaths' = 0 /\ Alive' /\ NumbersOK'
<1>0. /\ TypeOK /\ BacklogsOK
      /\ main \in [Nodes -> {"off", "sleep", "connect", "join", "socket", "accept", "recv"}]
      /\ sip_conn \in [Nodes -> Fds \cup {NoFd}]
      /\ DOMAIN listener = Nodes
      /\ \A n \in Nodes : \A m \in Nbrs[n] : /\ listener[n][m].conn \in Fds \cup {NoFd}
                                             /\ conn[n][m] \in Fds \cup {NoFd}
  BY DEF IInv, TypeOK
<1>1. ASSUME NEW n \in Nodes PROVE NumbersAt(n)
  BY DEF NumbersOK
<1>2. ASSUME UNCHANGED <<fd, backlog, sipBacklog, sip>> PROVE Alive'
  <2>1. \A a \in Nodes : Held(a)' = Held(a) /\ Pending(a)' = Pending(a)
    BY <1>2, HeldSame, PendingSame
  <2> QED  BY <1>2, <2>1, AliveSame DEF Has
<1>3. ASSUME UNCHANGED <<fd, conn, listener, sip_conn, main>> PROVE NumbersOK'
  BY <1>3 DEF NumbersOK, NumbersAt
<1>4. ASSUME NEW n \in Nodes, Start(n) \/ Wake(n) PROVE Goal
  <2>1. UNCHANGED <<fd, conn, listener, sip_conn, backlog, sipBacklog, sip, deaths>>
    BY <1>4 DEF Start, Wake
  <2>2. PICK y \in {"sleep", "connect", "join"} : main' = [main EXCEPT ![n] = y]
    BY <1>4 DEF Start, Wake
  <2>3. NumbersAt(n)' /\ Others(n)
    BY <1>0, <1>1, <2>1, <2>2 DEF NumbersAt
  <2> QED  BY <1>2, <2>1, <2>3, NumbersOfOthers
<1>5. ASSUME NEW n \in Nodes, WaitNbrs(n) PROVE Goal
  <2>1. PICK f \in Fds : Accept(n, f)
    BY <1>5 DEF WaitNbrs
  <2>2. UNCHANGED <<listener, sip_conn, main, sipBacklog, sip, deaths>>
    BY <1>5 DEF WaitNbrs
  <2>3. NumbersAt(n)' /\ Others(n)
    BY <1>0, <1>1, <2>1, <2>2, NumbersAccepted DEF NumbersAt
  <2>4. Alive'
    BY <1>0, <2>1, <2>2, AliveAccepted
  <2> QED  BY <2>2, <2>3, <2>4, NumbersOfOthers
<1>6. ASSUME NEW n \in Nodes, Join(n) PROVE Goal
  <2>1. UNCHANGED <<fd, conn, sip_conn, backlog, sipBacklog, sip, deaths>>
    BY <1>6 DEF Join
  <2>2. /\ main' = [main EXCEPT ![n] = "socket"]
        /\ listener' = [listener EXCEPT ![n] = [m \in Nbrs[n] |-> [NoThread EXCEPT !.pc = "start"]]]
    BY <1>6 DEF Join
  <2>3. main'[n] = "socket" /\ \A m \in Nbrs[n] : listener'[n][m].conn = NoFd
    BY <1>0, <2>2 DEF NoThread
  <2>4. NumbersAt(n)'
    BY <1>1, <2>1, <2>3, Constants DEF NumbersAt, Connected
  <2>5. Others(n)
    BY <1>0, <2>1, <2>2
  <2> QED  BY <1>2, <2>1, <2>4, <2>5, NumbersOfOthers
<1>7. ASSUME NEW n \in Nodes, Listen(n) PROVE Goal
  <2>1. PICK f \in Fds : fd[n][f] = Free /\ fd' = [fd EXCEPT ![n][f] = Socket]
    BY <1>7 DEF Listen, Lowest
  <2>2. /\ main' = [main EXCEPT ![n] = "accept"]
        /\ UNCHANGED <<conn, listener, sip_conn, backlog, sipBacklog, sip, deaths>>
    BY <1>7 DEF Listen
  <2>3. \A a \in Nodes, d \in Conns : d \in Held(a)' <=> d \in Held(a)
    <3>1. /\ \A d \in Conns : d \in Held(n)' <=> d \in Held(n) \/ d = Socket
          /\ \A a \in Nodes \ {n} : Held(a)' = Held(a)
      BY <1>0, <2>1, HeldTaken
    <3>2. \A d \in Conns : d # Socket
      BY Constants
    <3> QED  BY <3>1, <3>2
  <2>4. \A a \in Nodes : Pending(a)' = Pending(a)
    BY <2>2, PendingSame
  <2>5. Alive'
    BY <2>2, <2>3, <2>4, AliveSame DEF Has
  <2>6. /\ \A m \in Nbrs[n] : Connected(fd'[n], conn[n][m]) /\ Connected(fd'[n], listener[n][m].conn)
        /\ Connected(fd'[n], sip_conn[n]) /\ \A a \in Nodes \ {n} : fd'[a] = fd[a]
    BY <1>0, <2>1, NumbersTaken
  <2>7. NumbersAt(n)' /\ Others(n)
    BY <1>0, <2>2, <2>6 DEF NumbersAt
  <2> QED  BY <2>2, <2>5, <2>7, NumbersOfOthers
<1>8. ASSUME NEW n \in Nodes, AcceptSip(n) PROVE Goal
  <2> DEFINE h == Head(sipBacklog[n])
  <2>1. PICK f \in Fds : /\ fd[n][f] = Free /\ fd' = [fd EXCEPT ![n][f] = h]
                         /\ sip_conn' = [sip_conn EXCEPT ![n] = f]
    BY <1>8 DEF AcceptSip, Lowest
  <2>2. h \in Conns /\ UNCHANGED <<conn, listener, deaths>> /\ main' = [main EXCEPT ![n] = "recv"]
    BY <1>0, <1>8, FirstPending DEF AcceptSip
  <2> HIDE DEF h
  <2>3. /\ \A m \in Nbrs[n] : Connected(fd'[n], conn[n][m]) /\ Connected(fd'[n], listener[n][m].conn)
        /\ Connected(fd'[n], f) /\ \A a \in Nodes \ {n} : fd'[a] = fd[a]
    BY <1>0, <2>1, <2>2, NumbersTaken
  <2>4. NumbersAt(n)' /\ Others(n)
    BY <1>0, <2>1, <2>2, <2>3 DEF NumbersAt
  <2>5. Alive'
    BY <1>0, <1>8, AliveAcceptedSip
  <2> QED  BY <2>2, <2>4, <2>5, NumbersOfOthers
<1>9. ASSUME NEW n \in Nodes, SipEnded(n) PROVE FALSE
  <2>1. sip_conn[n] \in Fds /\ Connected(fd[n], sip_conn[n])
    BY <1>1, <1>9 DEF SipEnded, NumbersAt
  <2>2. ~Ended(n, sip_conn[n])
    BY <1>0, <2>1, NotGone, Constants
  <2> QED  BY <1>9, <2>2 DEF SipEnded
<1>10. ASSUME NEW n \in Nodes, SipConnects(n) PROVE Goal
  <2>1. UNCHANGED <<fd, conn, listener, sip_conn, main, deaths>> /\ sips' = [sips EXCEPT ![n] = @ + 1]
    BY <1>10 DEF SipConnects
  <2>2. sips[n] = 0
    BY <1>0, <2>1 DEF Quiet, TypeOK
  <2>3. Alive'
    BY <1>0, <1>10, <2>2, AliveSipConnected
  <2> QED  BY <1>3, <2>1, <2>3
<1>11. ASSUME NEW n \in Nodes, SipStops(n) PROVE FALSE
  BY <1>0, <1>11 DEF SipStops, Quiet, TypeOK
<1>12. ASSUME NEW n \in Nodes, NEW m \in Nbrs[n], SendKills(n, m) PROVE FALSE
  <2>1. ~Breaks(n, conn[n][m])
    BY <1>0, <1>1, NotGone DEF NumbersAt
  <2> QED  BY <1>12, <2>1 DEF SendKills
<1>13. ASSUME NEW n \in Nodes, NEW m \in Nbrs[n], ForwardKills(n, m) PROVE FALSE
  <2>1. ~Breaks(n, sip_conn[n])
    BY <1>0, <1>1, NotGone DEF NumbersAt
  <2> QED  BY <1>13, <2>1 DEF ForwardKills
<1>14. ASSUME NEW n \in Nodes, Stop(n) PROVE FALSE
  BY <1>0, <1>14 DEF Stop, TypeOK
<1>15. ASSUME NEW n \in Nodes, NEW m \in Nbrs[n], ConnectNbr(n, m) PROVE Goal
  <2> DEFINE c == [from |-> n, run |-> run[n], to |-> m]
  <2>1. c \in Conns
    BY <1>0, Constants DEF Conns, TypeOK
  <2>2. UNCHANGED <<listener, sip_conn, deaths>>
    BY <1>15 DEF ConnectNbr
  <2>3. PICK f \in Fds, d \in {c, Socket}, y \in {"connect", "join"} :
          /\ fd[n][f] = Free /\ fd' = [fd EXCEPT ![n][f] = d] /\ main' = [main EXCEPT ![n] = y]
          /\ \/ d = c /\ conn' = [conn EXCEPT ![n][m] = f]
             \/ conn' = conn
    BY <1>15 DEF ConnectNbr, Lowest
  <2> HIDE DEF c
  <2>4. /\ \A k \in Nbrs[n] : Connected(fd'[n], conn[n][k]) /\ Connected(fd'[n], listener[n][k].conn)
        /\ Connected(fd'[n], sip_conn[n]) /\ (d \in Conns => Connected(fd'[n], f))
        /\ \A a \in Nodes \ {n} : fd'[a] = fd[a]
    BY <1>0, <2>3, NumbersTaken
  <2>5. /\ \A k \in Nbrs[n] : conn'[n][k] = conn[n][k] \/ (d = c /\ conn'[n][k] = f)
        /\ \A a \in Nodes \ {n} : conn'[a] = conn[a]
    BY <1>0, <2>3 DEF TypeOK
  <2>6. NumbersAt(n)'
    BY <1>0, <2>1, <2>2, <2>3, <2>4, <2>5 DEF NumbersAt
  <2>7. Others(n)
    BY <1>0, <2>2, <2>3, <2>4, <2>5
  <2>8. Alive'
    BY <1>0, <1>15, AliveConnected
  <2> QED  BY <2>2, <2>6, <2>7, <2>8, NumbersOfOthers
<1>16. ASSUME NEW n \in Nodes, NEW m \in Nbrs[n], ListenerStart(n, m) PROVE Goal
  <2>1. /\ UNCHANGED <<fd, conn, sip_conn, main, backlog, sipBacklog, sip, deaths>>
        /\ listener' = [listener EXCEPT ![n][m] = [pc |-> "recv", conn |-> conn[n][m]]]
    BY <1>16 DEF ListenerStart
  <2>2. /\ listener'[n][m].conn = conn[n][m]
        /\ \A k \in Nbrs[n] : k # m => listener'[n][k] = listener[n][k]
    BY <1>0, <2>1 DEF TypeOK
  <2>3. NumbersAt(n)'
    BY <1>1, <2>1, <2>2 DEF NumbersAt
  <2>4. Others(n)
    BY <1>0, <2>1
  <2> QED  BY <1>2, <2>1, <2>3, <2>4, NumbersOfOthers
<1>17. ASSUME NEW n \in Nodes, NEW m \in Nbrs[n], ListenerEnded(n, m) PROVE Goal
  <2>1. /\ Ended(n, listener[n][m].conn) /\ fd' = Closed(n, listener[n][m].conn)
        /\ listener' = [listener EXCEPT ![n][m] = [pc |-> "accept", conn |-> NoFd]]
        /\ UNCHANGED <<conn, sip_conn, main, backlog, sipBacklog, sip, deaths>>
    BY <1>17 DEF ListenerEnded
  <2>2. listener[n][m].conn = NoFd
    BY <1>0, <1>1, <2>1, NotGone DEF NumbersAt
  <2>3. fd' = fd
    BY <2>1, <2>2, Constants DEF Closed
  <2>4. /\ listener'[n][m].conn = NoFd
        /\ \A k \in Nbrs[n] : k # m => listener'[n][k] = listener[n][k]
    BY <1>0, <2>1 DEF TypeOK
  <2>5. Connected(fd[n], NoFd)
    BY Constants DEF Connected
  <2>6. NumbersAt(n)'
    BY <1>1, <2>1, <2>3, <2>4, <2>5 DEF NumbersAt
  <2>7. Others(n)
    BY <1>0, <2>1, <2>3
  <2> QED  BY <1>2, <2>1, <2>3, <2>6, <2>7, NumbersOfOthers
<1>18. ASSUME NEW n \in Nodes, NEW m \in Nbrs[n], ListenerAccept(n, m) PROVE Goal
  <2>1. PICK f \in Fds : /\ Accept(n, f)
                         /\ listener' = [listener EXCEPT ![n][m] = [pc |-> "recv", conn |-> f]]
    BY <1>18 DEF ListenerAccept
  <2>2. UNCHANGED <<sip_conn, main, sipBacklog, sip, deaths>>
    BY <1>18 DEF ListenerAccept
  <2>3. /\ listener'[n][m].conn = f
        /\ \A k \in Nbrs[n] : k # m => listener'[n][k] = listener[n][k]
    BY <1>0, <2>1 DEF TypeOK
  <2>4. /\ \A k \in Nbrs[n] : Connected(fd'[n], conn'[n][k]) /\ Connected(fd'[n], listener[n][k].conn)
        /\ Connected(fd'[n], sip_conn[n]) /\ Connected(fd'[n], f)
        /\ \A a \in Nodes \ {n} : fd'[a] = fd[a] /\ conn'[a] = conn[a]
    BY <1>0, <2>1, NumbersAccepted
  <2>5. NumbersAt(n)'
    BY <1>1, <2>2, <2>3, <2>4 DEF NumbersAt
  <2>6. Others(n)
    BY <1>0, <2>1, <2>2, <2>4
  <2>7. Alive'
    BY <1>0, <2>1, <2>2, AliveAccepted
  <2> QED  BY <2>2, <2>5, <2>6, <2>7, NumbersOfOthers
<1>19. ASSUME UNCHANGED vars PROVE Goal
  BY <1>2, <1>3, <1>19 DEF vars
<1> HIDE DEF Goal
<1>20. Goal
  BY <1>4, <1>5, <1>6, <1>7, <1>8, <1>9, <1>10, <1>11, <1>12, <1>13, <1>14, <1>15, <1>16, <1>17, <1>18,
     <1>19, Zenon
  DEF Next, MainStep
<1> QED  BY <1>20 DEF Goal

\* No SON process is killed unless one was stopped, or a SIP process (pkt.c:201).
THEOREM QuietNobodyDies == Spec => []DiesOnlyAfterStop
<1>1. IInv /\ QInv /\ [Next]_vars => QInv'
  <2> SUFFICES ASSUME IInv, QInv, [Next]_vars PROVE QInv'
    OBVIOUS
  <2>1. SipOK' /\ (Quiet' => Quiet /\ UNCHANGED stops)
    BY SipKept DEF IInv, QInv
  <2>2. ASSUME Quiet' PROVE deaths' = 0 /\ Alive' /\ NumbersOK'
    BY <2>1, <2>2, QuietKept DEF QInv
  <2> QED  BY <2>1, <2>2 DEF QInv
<1>2. QInv => DiesOnlyAfterStop
  BY DEF QInv, Quiet, DiesOnlyAfterStop
<1> QED  BY Invariance, QInit, <1>1, <1>2, PTL DEF Spec
=============================================================================
