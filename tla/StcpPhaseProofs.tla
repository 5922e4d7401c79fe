-------------------------- MODULE StcpPhaseProofs --------------------------
(***************************************************************************)
(* The phases of an STCP connection, for every value of the constants: in  *)
(* which state one end is while the other connects, sends or disconnects,  *)
(* when a process may die, and in which line bytes of several client       *)
(* processes arrive.  PhaseInv and LineInv of Stcp are inductive relative  *)
(* to IInv of StcpProofs.                                                  *)
(***************************************************************************)
EXTENDS StcpProofs

-----------------------------------------------------------------------------
(* Each end by itself.                                                      *)

\* The types of what the phases are about.
LEMMA PhaseTypes ==
  ASSUME IInv
  PROVE  /\ cpc \in ClientPcs /\ cstate \in ClientStates /\ chold \in ClientHold
         /\ spc \in ServerPcs /\ sstate \in ServerStates /\ shold \in ServerHold
         /\ run \in Nat /\ chold.seg \in Segment /\ shold.seg \in Segment
         /\ toServer \in Seq(Segment) /\ toClient \in Seq(Segment)
BY DEF IInv, TypeOK, ClientHold, ServerHold

LEMMA ServerPhaseStep ==
  ASSUME IInv, ServerPhase, ServerNext
  PROVE  ServerPhase'
<1> USE PhaseTypes DEF ServerPhase
<1>0. ServerNoHold.st = "idle" /\ ServerNoHold.seg.type = "SYN"
  BY DEF ServerNoHold, Control
<1>1. CASE ServerSock
  BY <1>0, <1>1 DEF ServerSock, IInv, ServerStream
<1>2. CASE Accept \/ Accepted \/ ServerClose \/ \E length \in RecvLens : Recv(length)
  BY <1>2 DEF Accept, Accepted, ServerClose, Recv, ServerHandles
<1>3. CASE Received
  BY <1>3 DEF Received
<1>4. CASE \E i \in Arriving(toServer), rslt \in RecvResults : ServerRecv(i, rslt)
  <2>1. PICK i \in Arriving(toServer), rslt \in RecvResults : ServerRecv(i, rslt)
    BY <1>4
  <2>2. sstate' = sstate /\ (spc' = spc \/ (spc' = "crashed" /\ sstate = "NULL"))
    BY <2>1 DEF ServerRecv
  <2>3. \/ shold' = ServerNoHold
        \/ /\ shold'.st = sstate /\ ServerHandles(sstate, shold'.seg.type)
    BY <2>1 DEF ServerRecv
  <2> QED  BY <1>0, <2>2, <2>3 DEF ServerHandles
<1>5. CASE ServerSyn
  <2>1. shold # ServerNoHold /\ shold.seg.type = "SYN" /\ sstate' = "CONNECTED" /\ spc' = spc
        /\ shold' = ServerNoHold
    BY <1>5 DEF ServerSyn, Reply
  <2>2. shold.st \in {"LISTENING", "CONNECTED"}
    BY <2>1 DEF ServerHandles
  <2> QED  BY <1>0, <2>1, <2>2 DEF ServerPcs
<1>6. CASE ServerFin
  <2>1. shold # ServerNoHold /\ shold.seg.type = "FIN" /\ shold' = ServerNoHold
        /\ \/ sstate = "NULL" /\ sstate' = sstate /\ spc' = "crashed"
           \/ sstate # "NULL" /\ sstate' = "CLOSEWAIT" /\ spc' = spc
    BY <1>6 DEF ServerFin, Reply
  <2>2. shold.st \in {"CONNECTED", "CLOSEWAIT"}
    BY <2>1 DEF ServerHandles
  <2> QED  BY <1>0, <2>1, <2>2 DEF ServerPcs
<1>7. CASE ServerData
  <2>1. sstate' = sstate /\ spc' = spc /\ shold' = ServerNoHold
    BY <1>7 DEF ServerData, Reply
  <2> QED  BY <1>0, <2>1
<1> QED  BY <1>1, <1>2, <1>3, <1>4, <1>5, <1>6, <1>7 DEF ServerNext

LEMMA ServerPhaseStays ==
  ASSUME ServerPhase, UNCHANGED serverVars
  PROVE  ServerPhase'
BY DEF ServerPhase, serverVars

\* What seghandler of the client holds is a segment its state had a case for.
LEMMA ClientHolds ==
  ASSUME IInv, ClientPhase
  PROVE  /\ chold.st = "SYNSENT" => chold.seg.type = "SYNACK"
         /\ chold.st = "CONNECTED" => chold.seg.type = "DATAACK"
         /\ chold.st = "FINWAIT" => chold.seg.type = "FINACK"
         /\ chold.seg.type = "SYNACK" => chold.st = "SYNSENT"
         /\ chold.seg.type = "FINACK" => chold.st = "FINWAIT"
         /\ NoHold.st = "idle" /\ NoHold.seg.type = "SYN"
<1>1. NoHold.st = "idle" /\ NoHold.seg.type = "SYN"
  BY DEF NoHold, Control
<1>2. chold # NoHold => ClientHandles(chold.st, chold.seg.type)
  BY DEF IInv, HoldOK
<1> QED  BY <1>1, <1>2 DEF ClientHandles

LEMMA ClientPhaseStep ==
  ASSUME IInv, ClientPhase, ClientNext
  PROVE  ClientPhase'
<1> USE PhaseTypes, ClientHolds DEF ClientPhase
<1>1. CASE ClientStart \/ ClientSock
  BY <1>1 DEF ClientStart, ClientSock
<1>2. CASE Connect \/ SendSyn \/ SynTimeout \/ Connected \/ ConnectFails
  BY <1>2 DEF Connect, SendSyn, SynTimeout, Connected, ConnectFails
<1>3. CASE \E len \in SegLens : ClientSend(len) \/ StcpSend(len)
  BY <1>3 DEF ClientSend, StcpSend, AppendBuf
<1>4. CASE Disconnect \/ Drained \/ SendFin \/ FinTimeout \/ Disconnected \/ DisconnectFails
  BY <1>4 DEF Disconnect, Drained, SendFin, FinTimeout, Disconnected, DisconnectFails
<1>5. CASE ClientClose \/ TimerOnFreed \/ TimerResend
  BY <1>5 DEF ClientClose, TimerOnFreed, TimerResend, clientVars
<1>6. CASE \E i \in Arriving(toClient), rslt \in RecvResults : ClientRecv(i, rslt)
  <2>1. UNCHANGED <<cpc, cstate>> /\ (\/ chold' = NoHold
                                      \/ chold'.st = cstate /\ cstate \in {"SYNSENT", "CONNECTED", "FINWAIT"})
    BY <1>6 DEF ClientRecv, ClientHandles
  <2> QED  BY <2>1 DEF ClientPcs
<1>7. CASE ClientActOnFreed \/ ClientSynAck \/ ClientFinAck
  BY <1>7 DEF ClientActOnFreed, ClientSynAck, ClientFinAck, ClientPcs
<1>8. CASE ClientDataAck
  BY <1>8 DEF ClientDataAck
<1> QED  BY <1>1, <1>2, <1>3, <1>4, <1>5, <1>6, <1>7, <1>8 DEF ClientNext

LEMMA ClientPhaseStays ==
  ASSUME ClientPhase, UNCHANGED clientVars
  PROVE  ClientPhase'
BY DEF ClientPhase, clientVars

-----------------------------------------------------------------------------
(* What the client sends.                                                   *)

\* Data segments with bytes of one process.
DataOf(r, segs) ==
  \A j \in 1..Len(segs) :
    segs[j].type = "DATA" /\ \A i \in 1..Len(segs[j].data) : segs[j].data[i][1] = r

\* The bytes of a buffered segment are of the process that buffers it.
BufferOf(r, bufs) ==
  \A j \in 1..Len(bufs) : \A i \in 1..Len(bufs[j].data) : bufs[j].data[i][1] = r

LEMMA SendAllOf ==
  ASSUME NEW bufs \in Seq(SegBuf), NEW r, BufferOf(r, bufs),
         NEW a \in 0..Len(bufs), NEW b \in a..Len(bufs)
  PROVE  LET new == SendAll(SubSeq(bufs, a + 1, b))
         IN  new \in Seq(Segment) /\ DataOf(r, new)
<1> DEFINE part == SubSeq(bufs, a + 1, b)
           new == SendAll(part)
<1>1. /\ part \in Seq(SegBuf) /\ Len(part) = b - a
      /\ \A i \in 1..(b - a) : a + i \in 1..Len(bufs) /\ part[i] = bufs[a + i]
  BY SubSeqElements
<1> HIDE DEF part
<1>2. /\ new \in Seq(Segment) /\ Len(new) = Len(part)
      /\ \A i \in 1..Len(part) : new[i] = DataSeg(part[i])
  BY <1>1, SendAllType
<1> HIDE DEF new
<1>3. ASSUME NEW j \in 1..Len(new)
      PROVE  new[j].type = "DATA" /\ \A i \in 1..Len(new[j].data) : new[j].data[i][1] = r
  <2>1. PICK k \in 1..Len(bufs) : new[j] = DataSeg(bufs[k])
    BY <1>1, <1>2
  <2>2. new[j].type = "DATA" /\ new[j].data = bufs[k].data
    BY <2>1 DEF DataSeg
  <2> QED  BY <2>2 DEF BufferOf
<1>4. new \in Seq(Segment) /\ DataOf(r, new)
  BY <1>2, <1>3 DEF DataOf
<1> QED  BY <1>4 DEF new, part

\* Every byte in the send buffer is of the client process that runs.
LEMMA BufferOfRun ==
  ASSUME IInv, IInv'
  PROVE  BufferOf(run, sendBuf) /\ BufferOf(run', sendBuf')
<1>1. ASSUME NEW j \in 1..Len(sendBuf), NEW i \in 1..Len(sendBuf[j].data)
      PROVE  sendBuf[j].data[i][1] = run
  <2> DEFINE n == Len(sendBuf[j].data)
             first == sendBuf[j].seq
  <2>1. sendBuf[j].data = Bytes(first, n)
    BY DEF IInv, BufferIsStream
  <2> HIDE DEF first
  <2>2. i \in 1..n
    OBVIOUS
  <2> HIDE DEF n
  <2>3. Bytes(first, n)[i] = <<run, first + i>>
    BY <2>2 DEF Bytes
  <2> QED  BY <2>1, <2>3
<1>2. ASSUME NEW j \in 1..Len(sendBuf'), NEW i \in 1..Len(sendBuf'[j].data)
      PROVE  sendBuf'[j].data[i][1] = run'
  <2> DEFINE n == Len(sendBuf'[j].data)
             first == sendBuf'[j].seq
  <2>1. sendBuf'[j].data = [k \in 1..n |-> <<run', first + k>>]
    BY DEF IInv, BufferIsStream, Bytes
  <2> HIDE DEF first
  <2>2. i \in 1..n
    OBVIOUS
  <2> HIDE DEF n
  <2>3. sendBuf'[j].data[i] = <<run', first + i>>
    BY <2>1, <2>2
  <2> QED  BY <2>3
<1> QED  BY <1>1, <1>2 DEF BufferOf

\* The segments of one call, handed to SIP: all of them are on the path, or none.
Sends(new) == toServer' = toServer \/ toServer' = toServer \o new

\* What a step of the client may send.
Sendable(new) ==
  \/ DataOf(run', new)
  \/ \E type \in {"SYN", "FIN"} :
       /\ \A j \in 1..Len(new) : new[j].type = type /\ new[j].data = <<>>
       /\ type = "FIN" => cpc = "fin"

LEMMA ClientSends ==
  ASSUME IInv, IInv', ClientNext
  PROVE  \E new \in Seq(Segment) : Sends(new) /\ Sendable(new)
<1> USE PhaseTypes
<1>0. sendBuf \in Seq(SegBuf) /\ sendBuf' \in Seq(SegBuf)
  BY DEF IInv, TypeOK
<1>1. CASE UNCHANGED toServer
  <2>1. <<>> \in Seq(Segment) /\ Sends(<<>>) /\ Sendable(<<>>)
    BY <1>1 DEF Sends, Sendable, DataOf
  <2> QED  BY <2>1
<1>2. ASSUME NEW type \in {"SYN", "FIN"}, type = "FIN" => cpc = "fin",
             toServer' = SipSend(toServer, <<Control(type, next_seqNum, 0)>>)
      PROVE  \E new \in Seq(Segment) : Sends(new) /\ Sendable(new)
  <2> DEFINE new == <<Control(type, next_seqNum, 0)>>
  <2>1. Control(type, next_seqNum, 0) \in Segment
    BY DEF Control, Segment, SegTypes, IInv, TypeOK
  <2>2. /\ new \in Seq(Segment)
        /\ \A j \in 1..Len(new) : new[j].type = type /\ new[j].data = <<>>
    BY <2>1 DEF Control
  <2>3. Sends(new)
    BY <1>2 DEF Sends, SipSend
  <2> HIDE DEF new
  <2>4. Sendable(new)
    BY <1>2, <2>2 DEF Sendable
  <2> QED  BY <2>2, <2>3, <2>4
<1>3. ASSUME NEW bufs \in {sendBuf, sendBuf'}, run' = run,
             NEW a \in 0..Len(bufs), NEW b \in a..Len(bufs),
             Sends(SendAll(SubSeq(bufs, a + 1, b)))
      PROVE  \E new \in Seq(Segment) : Sends(new) /\ Sendable(new)
  <2> DEFINE new == SendAll(SubSeq(bufs, a + 1, b))
  <2>1. bufs \in Seq(SegBuf) /\ BufferOf(run', bufs)
    BY <1>0, <1>3, BufferOfRun
  <2>2. new \in Seq(Segment) /\ DataOf(run', new)
    BY <2>1, SendAllOf
  <2>3. Sends(new)
    BY <1>3
  <2> HIDE DEF new
  <2> QED  BY <2>2, <2>3 DEF Sendable
<1>4. CASE SendSyn
  BY <1>2, <1>4 DEF SendSyn
<1>5. CASE SendFin
  BY <1>2, <1>5 DEF SendFin
<1>6. ASSUME NEW len \in SegLens, AppendBuf(len),
             toServer' = SipSend(toServer, <<DataSeg(NewBuf(len))>>)
      PROVE  \E new \in Seq(Segment) : Sends(new) /\ Sendable(new)
  <2> DEFINE m == DataSeg(NewBuf(len))
             new == <<m>>
  <2>1. m \in Segment
    BY NewBufType DEF IInv
  <2>2. m.type = "DATA" /\ \A i \in 1..Len(m.data) : m.data[i][1] = run'
    <3>1. m.type = "DATA" /\ m.data = Bytes(next_seqNum, len) /\ len \in Nat /\ Len(m.data) = len
      BY NewBufType DEF DataSeg, IInv
    <3>2. run' = run
      BY <1>6 DEF AppendBuf
    <3> HIDE DEF m
    <3> QED  BY <3>1, <3>2 DEF Bytes
  <2>3. Sends(new)
    BY <1>6 DEF Sends, SipSend
  <2> HIDE DEF m
  <2>4. new \in Seq(Segment) /\ DataOf(run', new)
    BY <2>1, <2>2 DEF DataOf
  <2> HIDE DEF new
  <2> QED  BY <2>3, <2>4 DEF Sendable
<1>7. CASE \E len \in SegLens : ClientSend(len)
  BY <1>1, <1>6, <1>7 DEF ClientSend
<1>8. CASE \E len \in SegLens : StcpSend(len)
  <2>1. PICK len \in SegLens : StcpSend(len)
    BY <1>8
  <2>2. AppendBuf(len)
    BY <2>1 DEF StcpSend
  <2>3. CASE sendBuf = <<>>
    BY <2>1, <2>2, <2>3, <1>6 DEF StcpSend
  <2>4. CASE sendBuf # <<>>
    <3> DEFINE first == IF unSent = 0 THEN Len(sendBuf) + 1 ELSE unSent
               last  == Len(sendBuf) + 1
               room  == IF WindowOpen THEN GBN_WINDOW - unAck_segNum ELSE 0
               n     == IF last - first + 1 <= room THEN last - first + 1 ELSE room
    <3>1. toServer' = SipSend(toServer, SendAll(SubSeq(sendBuf', first, first + n - 1)))
      BY <2>1, <2>4 DEF StcpSend
    <3>2. /\ Len(sendBuf') = last /\ first \in 1..last /\ room \in Nat
      BY <2>2, AppendBufFacts, WindowFacts DEF WindowOpen
    <3>3. n \in 0..(last - first + 1)
      <4> HIDE DEF last, first, room
      <4> QED  BY <3>2
    <3> HIDE DEF n, last, first, room
    <3> DEFINE a == first - 1
               b == first + n - 1
    <3>4. last \in Nat
      BY WindowFacts DEF last
    <3>5. a \in 0..Len(sendBuf') /\ b \in a..Len(sendBuf') /\ a + 1 = first
      BY <3>2, <3>3, <3>4
    <3>6. Sends(SendAll(SubSeq(sendBuf', a + 1, b)))
      BY <3>1, <3>5 DEF Sends, SipSend
    <3>7. run' = run
      BY <2>2 DEF AppendBuf
    <3> HIDE DEF a, b
    <3> QED  BY <3>5, <3>6, <3>7, <1>3
  <2> QED  BY <2>3, <2>4
<1>9. CASE ClientDataAck
  <2>1. PICK k \in 0..Len(sendBuf) :
          LET n == IF k <= UnsentCount THEN k ELSE UnsentCount IN
          toServer' = SipSend(toServer, SendAll(SubSeq(sendBuf, SentCount + 1, SentCount + n)))
    BY <1>9 DEF ClientDataAck
  <2> DEFINE n == IF k <= UnsentCount THEN k ELSE UnsentCount
             a == SentCount
             b == SentCount + n
  <2>2. SentCount \in 0..Len(sendBuf) /\ UnsentCount = Len(sendBuf) - SentCount /\ Len(sendBuf) \in Nat
    BY WindowFacts DEF SentCount, UnsentCount
  <2>3. a \in 0..Len(sendBuf) /\ b \in a..Len(sendBuf)
    BY <2>2
  <2>4. Sends(SendAll(SubSeq(sendBuf, a + 1, b)))
    BY <2>1 DEF Sends, SipSend
  <2>5. run' = run
    BY <1>9 DEF ClientDataAck
  <2> HIDE DEF a, b
  <2> QED  BY <2>3, <2>4, <2>5, <1>3
<1>10. CASE TimerResend
  <2> DEFINE a == 0
             b == SentCount
  <2>1. a \in 0..Len(sendBuf) /\ b \in a..Len(sendBuf)
    BY WindowFacts DEF SentCount
  <2>2. Sends(SendAll(SubSeq(sendBuf, a + 1, b)))
    BY <1>10 DEF TimerResend, Sends
  <2>3. run' = run
    BY <1>10 DEF TimerResend, clientVars
  <2> HIDE DEF a, b
  <2> QED  BY <2>1, <2>2, <2>3, <1>3
<1> QED  BY <1>1, <1>4, <1>5, <1>7, <1>8, <1>9, <1>10 DEF ClientNext,
     ClientStart, ClientSock, Connect, SynTimeout, Connected, ConnectFails, Disconnect, Drained,
     FinTimeout, Disconnected, DisconnectFails, ClientClose, TimerOnFreed, ClientRecv,
     ClientActOnFreed, ClientSynAck, ClientFinAck

-----------------------------------------------------------------------------
(* Both ends.                                                               *)

\* A FIN on the path was there, or is sent by stcp_client_disconnect.
LEMMA FinOnPath ==
  ASSUME IInv, IInv', ClientNext, NEW i \in 1..Len(toServer'), toServer'[i].type = "FIN"
  PROVE  cpc = "fin" \/ \E j \in 1..Len(toServer) : toServer[j].type = "FIN"
<1>1. PICK new \in Seq(Segment) : Sends(new) /\ Sendable(new)
  BY ClientSends
<1>2. toServer \in Seq(Segment)
  BY PhaseTypes
<1>3. CASE toServer' = toServer
  BY <1>3
<1>4. CASE toServer' = toServer \o new
  <2> DEFINE p == toServer \o new
  <2>1. \A k \in 1..Len(p) : \/ k \in 1..Len(toServer) /\ p[k] = toServer[k]
                             \/ k - Len(toServer) \in 1..Len(new) /\ p[k] = new[k - Len(toServer)]
    BY <1>2, ConcatElements
  <2> HIDE DEF p
  <2>2. toServer' = p
    BY <1>4 DEF p
  <2>3. \A j \in 1..Len(new) : new[j].type = "FIN" => cpc = "fin"
    BY <1>1 DEF Sendable, DataOf
  <2> QED  BY <2>1, <2>2, <2>3
<1> QED  BY <1>1, <1>3, <1>4 DEF Sends

\* What the client takes from its path or holds was an answer before.
LEMMA AnsweredBefore ==
  ASSUME IInv, ClientPhase, ClientNext, NEW type \in {"SYNACK", "FINACK"}, Answered(type)'
  PROVE  Answered(type)
<1> USE PhaseTypes
<1>0. NoHold.seg.type # type
  BY DEF NoHold, Control
<1>1. CASE \E i \in Arriving(toClient), rslt \in RecvResults : ClientRecv(i, rslt)
  <2>1. PICK i \in Arriving(toClient), rslt \in RecvResults : ClientRecv(i, rslt)
    BY <1>1
  <2>2. i \in 1..Len(toClient)
    BY DEF Arriving
  <2>3. \A k \in 1..Len(toClient') : \E j \in 1..Len(toClient) : toClient'[k] = toClient[j]
    BY <2>1, <2>2, RemoveAtType DEF ClientRecv
  <2>4. chold' = NoHold \/ chold'.seg = toClient[i]
    BY <2>1 DEF ClientRecv
  <2> QED  BY <1>0, <2>2, <2>3, <2>4 DEF Answered
<1>2. CASE toClient' = toClient /\ (chold' = chold \/ chold' = NoHold)
  BY <1>0, <1>2 DEF Answered
<1> QED  BY <1>1, <1>2 DEF ClientNext, clientVars, AppendBuf, ClientSend, StcpSend,
     ClientStart, ClientSock, Connect, SendSyn, SynTimeout, Connected, ConnectFails,
     Disconnect, Drained, SendFin, FinTimeout, Disconnected, DisconnectFails, ClientClose,
     ClientActOnFreed, ClientSynAck, ClientFinAck, ClientDataAck, TimerResend, TimerOnFreed

\* How a client step moves through the phases.
LEMMA ClientMoves ==
  ASSUME IInv, ClientPhase, ClientNext
  PROVE  /\ \/ run' = run
            \/ run' = run + 1 /\ cpc' = "init" /\ cstate' = "NULL"
         /\ run' = run =>
              /\ cpc' \in BeforeFin => cpc \in BeforeFin
              /\ cstate' = "CONNECTED" => cstate = "CONNECTED" \/ Answered("SYNACK")
              /\ cpc' = "done" =>
                   cpc = "done" \/ (cpc \in {"fin", "finWait"} /\ cstate = "CLOSED")
              /\ cpc' \in {"fin", "finWait"} /\ cstate' = "CLOSED" =>
                   \/ cpc \in {"fin", "finWait"} /\ cstate = "CLOSED"
                   \/ Answered("FINACK")
<1> USE PhaseTypes, ClientHolds DEF ClientPhase, BeforeFin
<1>1. CASE ClientStart
  BY <1>1 DEF ClientStart
<1>2. CASE ClientSock \/ Connect \/ SendSyn \/ SynTimeout \/ Connected \/ ConnectFails
  BY <1>2 DEF ClientSock, Connect, SendSyn, SynTimeout, Connected, ConnectFails
<1>3. CASE \E len \in SegLens : ClientSend(len) \/ StcpSend(len)
  BY <1>3 DEF ClientSend, StcpSend, AppendBuf
<1>4. CASE Disconnect \/ Drained \/ SendFin \/ FinTimeout \/ Disconnected \/ DisconnectFails
  BY <1>4 DEF Disconnect, Drained, SendFin, FinTimeout, Disconnected, DisconnectFails
<1>5. CASE ClientClose \/ TimerOnFreed \/ TimerResend
  BY <1>5 DEF ClientClose, TimerOnFreed, TimerResend, clientVars
<1>6. CASE \E i \in Arriving(toClient), rslt \in RecvResults : ClientRecv(i, rslt)
  BY <1>6 DEF ClientRecv
<1>7. CASE ClientActOnFreed
  BY <1>7 DEF ClientActOnFreed
<1>8. CASE ClientSynAck
  BY <1>8 DEF ClientSynAck, Answered
<1>9. CASE ClientFinAck
  BY <1>9 DEF ClientFinAck, Answered
<1>10. CASE ClientDataAck
  BY <1>10 DEF ClientDataAck
<1> QED  BY <1>1, <1>2, <1>3, <1>4, <1>5, <1>6, <1>7, <1>8, <1>9, <1>10 DEF ClientNext

LEMMA EndsAgreeClient ==
  ASSUME IInv, IInv', ClientPhase, ServerPhase, EndsAgree, ClientNext, UNCHANGED serverVars
  PROVE  EndsAgree'
<1>1. UNCHANGED <<spc, sstate, shold>> /\ run \in Nat
  BY PhaseTypes DEF serverVars
<1>2. \A type \in {"SYNACK", "FINACK"} : Answered(type)' => Answered(type)
  BY AnsweredBefore
<1>3. CASE run' = run
  <2>1. cpc' \in BeforeFin /\ run <= 1 => \A i \in 1..Len(toServer') : toServer'[i].type # "FIN"
    BY <1>3, FinOnPath, ClientMoves DEF EndsAgree, BeforeFin
  <2> QED  BY <1>1, <1>2, <1>3, <2>1, ClientMoves DEF EndsAgree, BeforeFin
<1>4. CASE run' = run + 1 /\ cpc' = "init" /\ cstate' = "NULL"
  <2> SUFFICES ASSUME run' <= 1 PROVE EndsAgree'
    BY DEF EndsAgree
  <2>1. run = 0 /\ cpc = "down" /\ cpc' # "done"
    BY <1>1, <1>4 DEF IInv, BufferByPhase
  <2>2. \A i \in 1..Len(toServer') : toServer'[i].type # "FIN"
    BY <2>1, FinOnPath DEF EndsAgree, BeforeFin
  <2> QED  BY <1>1, <1>2, <1>4, <2>1, <2>2 DEF EndsAgree, BeforeFin
<1> QED  BY <1>3, <1>4, ClientMoves

\* How a server step moves through the phases, and what it answers.
LEMMA ServerMoves ==
  ASSUME IInv, ServerPhase, ServerNext, UNCHANGED clientVars
  PROVE  /\ \A k \in 1..Len(toServer') : \E j \in 1..Len(toServer) : toServer'[k] = toServer[j]
         /\ shold'.seg.type = "FIN" =>
              shold.seg.type = "FIN" \/ \E j \in 1..Len(toServer) : toServer[j].type = "FIN"
         /\ sstate' = "CLOSEWAIT" => sstate = "CLOSEWAIT" \/ shold.seg.type = "FIN"
         /\ sstate = "CONNECTED" => sstate' = "CONNECTED" \/ shold.seg.type = "FIN"
         /\ sstate = "CLOSEWAIT" \/ spc \in {"closed", "crashed"} =>
              sstate' = "CLOSEWAIT" \/ spc' \in {"closed", "crashed"}
         /\ Answered("SYNACK")' => Answered("SYNACK") \/ sstate' = "CONNECTED"
         /\ Answered("FINACK")' => Answered("FINACK") \/ sstate' = "CLOSEWAIT"
<1> USE PhaseTypes DEF ServerPhase
<1>0. ServerNoHold.st = "idle" /\ ServerNoHold.seg.type = "SYN"
  BY DEF ServerNoHold, Control
<1>a. UNCHANGED chold
  BY DEF clientVars
<1>1. CASE ServerSock \/ Accept \/ Accepted \/ ServerClose \/ Received \/ \E length \in RecvLens : Recv(length)
  <2>1. UNCHANGED <<toServer, toClient, shold>>
    BY <1>1 DEF ServerSock, Accept, Accepted, ServerClose, Received, Recv
  <2> QED  BY <1>1, <1>a, <2>1 DEF Answered, ServerSock, Accept, Accepted, ServerClose, Received, Recv
<1>2. CASE \E i \in Arriving(toServer), rslt \in RecvResults : ServerRecv(i, rslt)
  <2>1. PICK i \in Arriving(toServer), rslt \in RecvResults : ServerRecv(i, rslt)
    BY <1>2
  <2>2. i \in 1..Len(toServer)
    BY DEF Arriving
  <2>3. \A k \in 1..Len(toServer') : \E j \in 1..Len(toServer) : toServer'[k] = toServer[j]
    BY <2>1, <2>2, RemoveAtType DEF ServerRecv
  <2>4. /\ UNCHANGED <<toClient, sstate>> /\ (spc' = spc \/ spc' = "crashed")
        /\ shold' = ServerNoHold \/ shold'.seg = toServer[i]
    BY <2>1 DEF ServerRecv
  <2> QED  BY <1>0, <1>a, <2>2, <2>3, <2>4 DEF Answered
<1>3. CASE ServerSyn \/ ServerFin \/ ServerData
  <2>1. UNCHANGED toServer /\ shold' = ServerNoHold /\ shold # ServerNoHold /\ spc # "crashed"
    BY <1>3 DEF ServerSyn, ServerFin, ServerData, Reply
  <2>2. ServerHandles(shold.st, shold.seg.type)
    BY <2>1
  <2>a. shold.seg.ack \in Nat /\ TypeOK /\ "SYNACK" \in SegTypes /\ "FINACK" \in SegTypes
    BY DEF Segment, SegTypes, IInv
  <2>3. CASE ServerSyn
    <3>1. sstate' = "CONNECTED" /\ spc' = spc /\ shold.seg.type = "SYN" /\ Reply("SYNACK", shold.seg.ack)
      BY <2>3 DEF ServerSyn
    <3>2. \A k \in 1..Len(toClient') : (\E j \in 1..Len(toClient) : toClient'[k] = toClient[j])
                                       \/ toClient'[k].type = "SYNACK"
      BY <2>a, <3>1, ReplyFacts
    <3> QED  BY <1>0, <1>a, <2>1, <2>2, <3>1, <3>2 DEF Answered, ServerHandles
  <2>4. CASE ServerFin
    <3>1. /\ shold.seg.type = "FIN"
          /\ \/ sstate' = "NULL" /\ spc' = "crashed" /\ toClient' = toClient /\ sstate = "NULL"
             \/ sstate' = "CLOSEWAIT" /\ spc' = spc /\ Reply("FINACK", shold.seg.ack)
      BY <2>4 DEF ServerFin
    <3>2. \A k \in 1..Len(toClient') : (\E j \in 1..Len(toClient) : toClient'[k] = toClient[j])
                                       \/ (toClient'[k].type = "FINACK" /\ sstate' = "CLOSEWAIT")
      <4>1. CASE toClient' = toClient
        BY <4>1
      <4>2. CASE sstate' = "CLOSEWAIT" /\ Reply("FINACK", shold.seg.ack)
        BY <2>a, <4>2, ReplyFacts
      <4> QED  BY <3>1, <4>1, <4>2
    <3> QED  BY <1>0, <1>a, <2>1, <3>1, <3>2 DEF Answered
  <2>5. CASE ServerData
    <3> DEFINE x == expect_seqNum'
    <3>1. UNCHANGED <<spc, sstate>> /\ Reply("DATAACK", x)
      BY <2>5 DEF ServerData
    <3> HIDE DEF x
    <3>2. \A k \in 1..Len(toClient') : (\E j \in 1..Len(toClient) : toClient'[k] = toClient[j])
                                       \/ toClient'[k].type = "DATAACK"
      BY <3>1, ConcatElements DEF Reply, Control
    <3> QED  BY <1>0, <1>a, <2>1, <3>1, <3>2 DEF Answered
  <2> QED  BY <1>3, <2>3, <2>4, <2>5
<1> QED  BY <1>1, <1>2, <1>3 DEF ServerNext

LEMMA EndsAgreeServer ==
  ASSUME IInv, ServerPhase, EndsAgree, ServerNext, UNCHANGED clientVars
  PROVE  EndsAgree'
<1>1. UNCHANGED <<run, cpc, cstate>>
  BY DEF clientVars
<1> QED  BY <1>1, ServerMoves DEF EndsAgree

LEMMA InitPhaseInv == Init => PhaseInv
BY DEF Init, ClientInit, ServerInit, PhaseInv, ServerPhase, ClientPhase, EndsAgree, BeforeFin,
       Answered, NoHold, ServerNoHold, Control

LEMMA NextPhaseInv == IInv /\ IInv' /\ PhaseInv /\ [Next]_vars => PhaseInv'
<1> SUFFICES ASSUME IInv, IInv', PhaseInv, [Next]_vars PROVE PhaseInv'
  OBVIOUS
<1> USE DEF PhaseInv
<1>1. CASE ClientNext /\ UNCHANGED serverVars
  BY <1>1, ServerPhaseStays, ClientPhaseStep, EndsAgreeClient
<1>2. CASE ServerNext /\ UNCHANGED clientVars
  BY <1>2, ServerPhaseStep, ClientPhaseStays, EndsAgreeServer
<1>3. CASE UNCHANGED vars
  <2>1. UNCHANGED <<toServer, toClient, clientVars, serverVars>>
    BY <1>3 DEF vars
  <2>2. UNCHANGED <<toServer, toClient, run, cpc, cstate, chold, spc, sstate, shold>>
    BY <2>1 DEF clientVars, serverVars
  <2>3. EndsAgree'
    BY <2>2 DEF EndsAgree, Answered
  <2> QED  BY <2>1, <2>3, ServerPhaseStays, ClientPhaseStays
<1> QED  BY <1>1, <1>2, <1>3 DEF Next

\* Both ends stay in the phases PhaseInv allows.
THEOREM Phases == Spec => []PhaseInv
BY Invariance, InitPhaseInv, NextPhaseInv, PTL DEF Spec

\* While the client's application thinks the connection open, the server's TCB is
\* CONNECTED.
THEOREM OpenConnected == Spec => []OpenMeansConnected
<1>1. PhaseInv => OpenMeansConnected
  BY DEF PhaseInv, ClientPhase, EndsAgree, BeforeFin, OpenMeansConnected
<1> QED  BY <1>1, Phases, PTL

\* When stcp_client_disconnect returns 1, the server has closed as well.
THEOREM ClosesBoth == Spec => []DisconnectClosesBoth
<1>1. IInv /\ PhaseInv => DisconnectClosesBoth
  BY DEF PhaseInv, ServerPhase, EndsAgree, DisconnectClosesBoth
<1> QED  BY <1>1, Phases, Invariance, PTL

\* When a FIN closes the server's TCB, every byte the client was given to send has
\* been taken, and none waits to be resent.
THEOREM ClosedAfterData == Spec => []CloseAfterAllData
<1>1. IInv /\ PhaseInv => CloseAfterAllData
  <2> SUFFICES ASSUME IInv, PhaseInv, run <= 1, sstate = "CLOSEWAIT"
               PROVE  sendBuf = <<>> /\ Len(taken) = next_seqNum
    BY DEF CloseAfterAllData
  <2>1. cpc \notin {"open", "drain"}
    BY DEF PhaseInv, EndsAgree, BeforeFin
  <2>2. sendBuf = <<>> /\ acked = next_seqNum
    BY <2>1 DEF IInv, BufferByPhase, acked
  <2>3. acked <= expect_seqNum /\ expect_seqNum <= next_seqNum
    BY DEF IInv, StreamsAgree
  <2>4. expect_seqNum \in Nat /\ next_seqNum \in Nat
    BY DEF IInv, TypeOK
  <2> QED  BY <2>2, <2>3, <2>4, TakenElements
<1> QED  BY <1>1, Phases, Invariance, PTL

-----------------------------------------------------------------------------
(* When a process dies.                                                     *)

\* Without a restart an acknowledgement never passes the end of the list.
LEMMA NoOverrun ==
  ASSUME IInv, run <= 1, chold.st = "CONNECTED"
  PROVE  ~Overrun(chold.seg.ack)
<1> SUFFICES ASSUME Overrun(chold.seg.ack) PROVE FALSE
  OBVIOUS
<1>1. chold # NoHold
  BY DEF NoHold
<1>2. chold.seg.type = "DATAACK"
  BY <1>1 DEF IInv, HoldOK, ClientHandles
<1>3. chold.seg.ack <= expect_seqNum
  BY <1>2 DEF IInv, SegmentsOK, AckOK
<1>4. expect_seqNum <= next_seqNum
  BY DEF IInv, StreamsAgree
<1> DEFINE last == Len(sendBuf)
<1>5. last \in 1..Len(sendBuf)
  BY DEF Overrun, IInv, TypeOK
<1>6. EndOf(sendBuf[last]) = next_seqNum /\ EndOf(sendBuf[last]) < chold.seg.ack
  BY <1>5 DEF IInv, BufferIsStream, EndOf, Overrun
<1>7. chold.seg.ack \in Nat /\ expect_seqNum \in Nat /\ next_seqNum \in Nat
  BY DEF IInv, TypeOK, ClientHold, Segment
<1> QED  BY <1>3, <1>4, <1>6, <1>7

LEMMA DiesAfterCloseStep ==
  ASSUME IInv, ClientPhase, ClientNext, run <= 1, cpc # "crashed", cpc' = "crashed"
  PROVE  cpc = "closed"
<1>1. CASE ClientActOnFreed
  <2>1. cstate = "NULL" /\ chold # NoHold
    BY <1>1 DEF ClientActOnFreed
  <2> QED  BY <2>1 DEF IInv, BufferByPhase, ClientPhase
<1>2. CASE TimerOnFreed
  BY <1>2 DEF TimerOnFreed
<1>3. CASE ClientDataAck
  <2>1. chold.st = "CONNECTED" /\ cpc' = IF Overrun(chold.seg.ack) THEN "crashed" ELSE cpc
    BY <1>3 DEF ClientDataAck
  <2> QED  BY <2>1, NoOverrun
<1> QED  BY <1>1, <1>2, <1>3 DEF ClientNext, clientVars, AppendBuf, ClientSend, StcpSend,
     ClientStart, ClientSock, Connect, SendSyn, SynTimeout, Connected, ConnectFails,
     Disconnect, Drained, SendFin, FinTimeout, Disconnected, DisconnectFails, ClientClose,
     ClientRecv, ClientSynAck, ClientFinAck, TimerResend

LEMMA DiesWithoutTcbStep ==
  ASSUME IInv, ServerPhase, ServerNext, spc # "crashed", spc' = "crashed"
  PROVE  spc \in {"init", "closed"}
<1>1. sstate = "NULL"
  BY DEF ServerNext, ServerSock, Accept, Accepted, Recv, Received, ServerClose, ServerRecv,
         ServerSyn, ServerFin, ServerData
<1> QED  BY <1>1, PhaseTypes DEF ServerPhase, ServerPcs

\* A client process that is not restarted dies only of what its threads do after
\* stcp_client_close: never of an acknowledgement.
THEOREM ClientDies == Spec => DiesAfterClose
<1>1. IInv /\ PhaseInv /\ [Next]_vars =>
        [run <= 1 /\ cpc # "crashed" /\ cpc' = "crashed" => cpc = "closed"]_vars
  BY DiesAfterCloseStep DEF PhaseInv, Next, clientVars, vars
<1> QED  BY <1>1, Phases, Invariance, PTL DEF Spec, DiesAfterClose

\* The server process dies only when it has no TCB: before stcp_server_sock and
\* after stcp_server_close.
THEOREM ServerDies == Spec => DiesWithoutTcb
<1>1. IInv /\ PhaseInv /\ [Next]_vars =>
        [spc # "crashed" /\ spc' = "crashed" => spc \in {"init", "closed"}]_vars
  BY DiesWithoutTcbStep DEF PhaseInv, Next, serverVars, vars
<1> QED  BY <1>1, Phases, Invariance, PTL DEF Spec, DiesWithoutTcb

-----------------------------------------------------------------------------
(* The line in which bytes arrive.                                          *)

\* What the line is made of.
LEMMA LineTypes ==
  ASSUME IInv
  PROVE  /\ run \in Nat /\ taken \in Seq(Byte) /\ shold.seg.data \in Seq(Byte)
         /\ \A k \in 1..Len(toServer) : toServer[k].data \in Seq(Byte)
         /\ \A r \in RunsOf(taken) : r \in Nat /\ r <= run
<1>1. run \in Nat /\ shold.seg.data \in Seq(Byte)
  BY PhaseTypes DEF Segment
<1>2. ASSUME NEW k \in 1..Len(toServer) PROVE toServer[k].data \in Seq(Byte)
  <2>1. toServer[k] \in Segment
    BY PhaseTypes
  <2> QED  BY <2>1 DEF Segment
<1> QED  BY <1>1, <1>2, TakenElements DEF RunsOf

\* The runs of a sequence of bytes are numbers.
LEMMA RunsAreNat ==
  ASSUME NEW s \in Seq(Byte)
  PROVE  RunsOf(s) \subseteq Nat
<1> SUFFICES ASSUME NEW j \in 1..Len(s) PROVE s[j][1] \in Nat
  BY DEF RunsOf
<1>1. s[j] \in Byte
  OBVIOUS
<1> QED  BY <1>1 DEF Byte

\* A client step appends bytes of the process that runs, the last of all.
LEMMA LineClientStep ==
  ASSUME IInv, IInv', ClientPhase, LineInv, ClientNext, UNCHANGED serverVars
  PROVE  LineInv'
<1>1. UNCHANGED <<taken, shold>>
  BY DEF taken, serverVars
<1>2. RunsInOrder'
  BY <1>1 DEF LineInv, RunsInOrder
<1> SUFFICES ASSUME ~Overtaking PROVE RunsInLine'
  BY <1>2 DEF LineInv, RunsInLine
<1>3. run \in Nat /\ run' \in Nat /\ run <= run'
  BY PhaseTypes, ClientMoves
<1>4. PICK new \in Seq(Segment) : Sends(new) /\ Sendable(new)
  BY ClientSends
<1>5. \A j \in 1..Len(new) : RunsOf(new[j].data) \subseteq {run'}
  BY <1>4 DEF Sendable, DataOf, RunsOf
<1>6. ASSUME NEW k \in 1..Len(toServer')
      PROVE  \/ k \in 1..Len(toServer) /\ toServer'[k] = toServer[k]
             \/ k \notin 1..Len(toServer) /\ RunsOf(toServer'[k].data) \subseteq {run'}
  <2>1. CASE toServer' = toServer
    BY <2>1
  <2>2. CASE toServer' = toServer \o new
    <3> DEFINE p == toServer \o new
    <3>1. toServer \in Seq(Segment)
      BY PhaseTypes
    <3>2. \A i \in 1..Len(p) : \/ i \in 1..Len(toServer) /\ p[i] = toServer[i]
                               \/ /\ i - Len(toServer) \in 1..Len(new)
                                  /\ p[i] = new[i - Len(toServer)]
      BY <3>1, ConcatElements
    <3> HIDE DEF p
    <3>3. toServer' = p
      BY <2>2 DEF p
    <3>4. k - Len(toServer) \in 1..Len(new) => k \notin 1..Len(toServer)
      BY <3>1
    <3> QED  BY <3>2, <3>3, <3>4, <1>5
  <2> QED  BY <1>4, <2>1, <2>2 DEF Sends
<1>7. /\ NotAfter(taken, shold.seg.data) /\ NotAfter(shold.seg.data, shold.seg.data)
      /\ \A k \in 1..Len(toServer) :
           /\ NotAfter(taken, toServer[k].data) /\ NotAfter(shold.seg.data, toServer[k].data)
           /\ \A l \in k..Len(toServer) : NotAfter(toServer[k].data, toServer[l].data)
      /\ \A k \in 1..Len(toServer) : \A r \in RunsOf(toServer[k].data) : r <= run
      /\ \A r \in RunsOf(shold.seg.data) : r <= run
  BY DEF LineInv, RunsInLine
<1>8. /\ \A r \in RunsOf(taken) : r <= run'
      /\ \A r \in RunsOf(shold.seg.data) : r <= run'
      /\ \A k \in 1..Len(toServer') : \A r \in RunsOf(toServer'[k].data) : r <= run'
  <2>1. \A r \in RunsOf(taken) : r \in Nat /\ r <= run
    BY LineTypes
  <2>2. \A r \in RunsOf(shold.seg.data) : r \in Nat
    BY LineTypes, RunsAreNat
  <2>3. \A k \in 1..Len(toServer) : \A r \in RunsOf(toServer[k].data) : r \in Nat
    BY LineTypes, RunsAreNat
  <2>4. ASSUME NEW r \in Nat, r <= run PROVE r <= run'
    BY <1>3, <2>4
  <2>5. (\A r \in RunsOf(taken) : r <= run') /\ (\A r \in RunsOf(shold.seg.data) : r <= run')
    BY <1>7, <2>1, <2>2, <2>4
  <2>6. ASSUME NEW k \in 1..Len(toServer'), NEW r \in RunsOf(toServer'[k].data)
        PROVE  r <= run'
    <3>1. CASE k \in 1..Len(toServer) /\ toServer'[k] = toServer[k]
      BY <1>7, <2>3, <2>4, <3>1
    <3>2. CASE RunsOf(toServer'[k].data) \subseteq {run'}
      BY <1>3, <3>2
    <3> QED  BY <1>6, <3>1, <3>2
  <2> QED  BY <2>5, <2>6
<1>9. ASSUME NEW k \in 1..Len(toServer')
      PROVE  /\ NotAfter(taken, toServer'[k].data) /\ NotAfter(shold.seg.data, toServer'[k].data)
             /\ \A l \in k..Len(toServer') : NotAfter(toServer'[k].data, toServer'[l].data)
  <2>1. ASSUME NEW s, \A r \in RunsOf(s) : r <= run', k \notin 1..Len(toServer)
        PROVE  NotAfter(s, toServer'[k].data)
    BY <2>1, <1>6 DEF NotAfter
  <2>2. NotAfter(taken, toServer'[k].data) /\ NotAfter(shold.seg.data, toServer'[k].data)
    BY <2>1, <1>6, <1>7, <1>8
  <2>3. ASSUME NEW l \in k..Len(toServer')
        PROVE  NotAfter(toServer'[k].data, toServer'[l].data)
    <3>1. l \in 1..Len(toServer')
      OBVIOUS
    <3>2. CASE l \in 1..Len(toServer)
      <4>1. k \in 1..Len(toServer) /\ l \in k..Len(toServer)
        BY <3>2
      <4> QED  BY <3>1, <3>2, <4>1, <1>6, <1>7
    <3>3. CASE l \notin 1..Len(toServer)
      BY <3>1, <3>3, <1>6, <1>8 DEF NotAfter
    <3> QED  BY <3>2, <3>3
  <2> QED  BY <2>2, <2>3
<1> QED  BY <1>1, <1>7, <1>8, <1>9 DEF RunsInLine

\* Steps of the server that neither take a byte nor a segment from the path.
LEMMA LineStays ==
  ASSUME LineInv, UNCHANGED <<taken, toServer, run>>,
         shold' = shold \/ shold' = ServerNoHold
  PROVE  LineInv'
<1>1. RunsOf(ServerNoHold.seg.data) = {}
  BY DEF RunsOf, ServerNoHold, Control
<1>2. RunsInOrder'
  BY DEF LineInv, RunsInOrder
<1> QED  BY <1>1, <1>2 DEF LineInv, RunsInLine, NotAfter

\* stcp_server_recv does not change what was taken.
LEMMA ReceivedTakes ==
  ASSUME IInv, Received
  PROVE  taken' = taken
<1> DEFINE out == SubSeq(recvBuf, 1, want)
           rest == SubSeq(recvBuf, want + 1, Len(recvBuf))
<1>1. read' = read \o out /\ recvBuf' = rest
  BY DEF Received, usedBufLen
<1>2. recvBuf \in Seq(Byte) /\ read \in Seq(Byte) /\ want \in 0..Len(recvBuf)
  BY DEF Received, usedBufLen, IInv, TypeOK
<1>3. out \in Seq(Byte) /\ rest \in Seq(Byte) /\ out \o rest = recvBuf
  <2> DEFINE n == Len(recvBuf)
  <2>1. 1 \in 1..(n + 1) /\ want \in (1 - 1)..n /\ n \in want..n
    BY <1>2
  <2>2. out \o rest = SubSeq(recvBuf, 1, n)
    BY <1>2, <2>1, ConcatAdjacentSubSeq, Zenon
  <2>3. SubSeq(recvBuf, 1, n) = recvBuf
    BY <1>2, SubSeqFull, Zenon
  <2>4. out \in Seq(Byte) /\ rest \in Seq(Byte)
    BY <1>2
  <2> QED  BY <2>2, <2>3, <2>4
<1> HIDE DEF out, rest
<1>4. (read \o out) \o rest = read \o (out \o rest)
  <2>1. read \in Seq(Byte) /\ out \in Seq(Byte) /\ rest \in Seq(Byte)
    BY <1>2, <1>3
  <2> QED  BY <2>1
<1> QED  BY <1>1, <1>3, <1>4 DEF taken

\* seghandler appends the whole segment it holds, or nothing.
LEMMA DataTakes ==
  ASSUME IInv, ServerData
  PROVE  taken' = taken \/ taken' = taken \o shold.seg.data
<1>1. recvBuf \in Seq(Byte) /\ read \in Seq(Byte) /\ shold.seg.data \in Seq(Byte)
  BY LineTypes DEF IInv, TypeOK
<1>2. read' = read /\ (recvBuf' = recvBuf \/ recvBuf' = recvBuf \o shold.seg.data)
  BY DEF ServerData, Reply
<1>3. read \o (recvBuf \o shold.seg.data) = (read \o recvBuf) \o shold.seg.data
  <2> DEFINE d == shold.seg.data
  <2>1. d \in Seq(Byte)
    BY <1>1
  <2> HIDE DEF d
  <2>2. read \o (recvBuf \o d) = (read \o recvBuf) \o d
    BY <1>1, <2>1
  <2> QED  BY <2>2 DEF d
<1> QED  BY <1>2, <1>3 DEF taken

LEMMA LineDataStep ==
  ASSUME IInv, LineInv, ServerData, UNCHANGED clientVars
  PROVE  LineInv'
<1>1. UNCHANGED <<toServer, run>> /\ shold' = ServerNoHold
  BY DEF ServerData, Reply, clientVars
<1>2. CASE taken' = taken
  BY <1>1, <1>2, LineStays
<1>3. CASE taken' = taken \o shold.seg.data
  <2> SUFFICES ASSUME ~Overtaking PROVE LineInv'
    BY DEF LineInv, RunsInLine, RunsInOrder
  <2> DEFINE d == shold.seg.data
             t == taken \o d
  <2>1. /\ t \in Seq(Byte) /\ Len(t) = Len(taken) + Len(d)
        /\ \A i \in 1..Len(t) : \/ i \in 1..Len(taken) /\ t[i] = taken[i]
                                \/ i - Len(taken) \in 1..Len(d) /\ t[i] = d[i - Len(taken)]
    BY LineTypes, ConcatElements
  <2>2. taken \in Seq(Byte) /\ d \in Seq(Byte) /\ taken' = t
    BY <1>3, LineTypes
  <2>3. /\ NotAfter(taken, d) /\ NotAfter(d, d)
        /\ \A k \in 1..Len(toServer) :
             NotAfter(taken, toServer[k].data) /\ NotAfter(d, toServer[k].data)
    BY DEF LineInv, RunsInLine
  <2> HIDE DEF t, d
  <2>4. RunsOf(t) \subseteq RunsOf(taken) \cup RunsOf(d)
    BY <2>1 DEF RunsOf
  <2>5. RunsOf(ServerNoHold.seg.data) = {}
    BY DEF RunsOf, ServerNoHold, Control
  <2>6. RunsInLine'
    <3>1. \A k \in 1..Len(toServer) : NotAfter(t, toServer[k].data)
      BY <2>3, <2>4 DEF NotAfter
    <3> QED  BY <1>1, <2>2, <2>5, <3>1 DEF LineInv, RunsInLine, NotAfter
  <2>7. ASSUME NEW i \in 1..Len(t), NEW j \in 1..Len(t), i < j
        PROVE  t[i][1] <= t[j][1]
    <3>1. CASE j \in 1..Len(taken)
      <4>1. i \in 1..Len(taken)
        BY <2>7, <3>1
      <4>2. t[i] = taken[i] /\ t[j] = taken[j]
        BY <2>1, <2>2, <3>1, <4>1
      <4> QED  BY <2>7, <3>1, <4>1, <4>2 DEF LineInv, RunsInOrder
    <3>2. CASE j - Len(taken) \in 1..Len(d) /\ t[j] = d[j - Len(taken)]
      <4>1. t[j][1] \in RunsOf(d)
        BY <3>2 DEF RunsOf
      <4>2. t[i][1] \in RunsOf(taken) \cup RunsOf(d)
        BY <2>1 DEF RunsOf
      <4> QED  BY <2>3, <4>1, <4>2 DEF NotAfter
    <3> QED  BY <2>1, <3>1, <3>2
  <2> QED  BY <2>2, <2>6, <2>7 DEF LineInv, RunsInOrder
<1> QED  BY <1>2, <1>3, DataTakes

\* Without overtaking seghandler takes the first segment of the path.
LEMMA LineRecvStep ==
  ASSUME IInv, LineInv, UNCHANGED clientVars,
         NEW i \in Arriving(toServer), NEW rslt \in RecvResults, ServerRecv(i, rslt)
  PROVE  LineInv'
<1>1. UNCHANGED <<taken, run>>
  BY DEF ServerRecv, taken, clientVars
<1>2. RunsInOrder'
  BY <1>1 DEF LineInv, RunsInOrder
<1> SUFFICES ASSUME ~Overtaking PROVE RunsInLine'
  BY <1>2 DEF LineInv, RunsInLine
<1>3. i = 1 /\ 1 \in 1..Len(toServer) /\ toServer \in Seq(Segment)
  BY PhaseTypes DEF Arriving
<1>4. /\ toServer' \in Seq(Segment) /\ Len(toServer') = Len(toServer) - 1
      /\ \A k \in 1..Len(toServer') : k + 1 \in 1..Len(toServer) /\ toServer'[k] = toServer[k + 1]
  <2> DEFINE front == SubSeq(toServer, 1, 0)
             rest == SubSeq(toServer, 2, Len(toServer))
  <2>1. toServer' = front \o rest
    BY <1>3 DEF ServerRecv, RemoveAt
  <2>2. front = <<>>
    OBVIOUS
  <2>3. /\ rest \in Seq(Segment) /\ Len(rest) = Len(toServer) - 1
        /\ \A k \in 1..Len(rest) : k + 1 \in 1..Len(toServer) /\ rest[k] = toServer[k + 1]
    <3> DEFINE a == 1
               b == Len(toServer)
    <3>1. a \in 0..Len(toServer) /\ b \in a..Len(toServer) /\ rest = SubSeq(toServer, a + 1, b)
      BY <1>3
    <3> HIDE DEF a, b, rest
    <3>2. /\ rest \in Seq(Segment) /\ Len(rest) = b - a
          /\ \A k \in 1..(b - a) : a + k \in 1..Len(toServer) /\ rest[k] = toServer[a + k]
      BY <1>3, <3>1, SubSeqElements
    <3> QED  BY <3>2 DEF a, b
  <2> HIDE DEF front, rest
  <2>4. <<>> \o rest = rest
    BY <2>3, ConcatEmptySeq
  <2> QED  BY <2>1, <2>2, <2>3, <2>4
<1>5. shold' = ServerNoHold \/ shold'.seg = toServer[1]
  BY <1>3 DEF ServerRecv
<1>6. RunsOf(ServerNoHold.seg.data) = {}
  BY DEF RunsOf, ServerNoHold, Control
<1>7. /\ \A k \in 1..Len(toServer) :
           /\ NotAfter(taken, toServer[k].data)
           /\ \A l \in k..Len(toServer) : NotAfter(toServer[k].data, toServer[l].data)
      /\ \A k \in 1..Len(toServer) : \A r \in RunsOf(toServer[k].data) : r <= run
  BY DEF LineInv, RunsInLine
<1>8. ASSUME NEW k \in 1..Len(toServer')
      PROVE  /\ NotAfter(taken, toServer'[k].data) /\ NotAfter(toServer[1].data, toServer'[k].data)
             /\ \A l \in k..Len(toServer') : NotAfter(toServer'[k].data, toServer'[l].data)
             /\ \A r \in RunsOf(toServer'[k].data) : r <= run
  <2>1. k + 1 \in 1..Len(toServer) /\ toServer'[k] = toServer[k + 1] /\ k + 1 \in 1..Len(toServer)
    BY <1>4
  <2>2. ASSUME NEW l \in k..Len(toServer')
        PROVE  NotAfter(toServer'[k].data, toServer'[l].data)
    <3>1. l \in 1..Len(toServer') /\ l + 1 \in (k + 1)..Len(toServer)
      BY <1>3, <1>4
    <3>2. toServer'[l] = toServer[l + 1]
      BY <1>4, <3>1
    <3> QED  BY <1>7, <2>1, <3>1, <3>2
  <2> QED  BY <1>3, <1>7, <2>1, <2>2
<1>9. NotAfter(toServer[1].data, toServer[1].data)
  BY <1>3, <1>7
<1> QED  BY <1>1, <1>3, <1>5, <1>6, <1>7, <1>8, <1>9 DEF RunsInLine, NotAfter

LEMMA LineServerStep ==
  ASSUME IInv, LineInv, ServerNext, UNCHANGED clientVars
  PROVE  LineInv'
<1>0. run' = run
  BY DEF clientVars
<1>1. CASE ServerSock \/ Accept \/ Accepted \/ ServerClose \/ \E length \in RecvLens : Recv(length)
  <2>1. CASE ServerSock
    <3>1. UNCHANGED <<read, recvBuf, toServer, shold>>
      BY <2>1 DEF ServerSock, IInv, ServerStream
    <3>2. UNCHANGED taken
      BY <3>1 DEF taken
    <3> QED  BY <1>0, <3>1, <3>2, LineStays
  <2>2. CASE Accept \/ Accepted \/ ServerClose \/ \E length \in RecvLens : Recv(length)
    <3>1. UNCHANGED <<read, recvBuf, toServer, shold>>
      BY <2>2 DEF Accept, Accepted, ServerClose, Recv
    <3>2. UNCHANGED taken
      BY <3>1 DEF taken
    <3> QED  BY <1>0, <3>1, <3>2, LineStays
  <2> QED  BY <1>1, <2>1, <2>2
<1>2. CASE Received
  <2>1. UNCHANGED <<toServer, shold>>
    BY <1>2 DEF Received
  <2> QED  BY <1>0, <1>2, <2>1, ReceivedTakes, LineStays
<1>3. CASE \E i \in Arriving(toServer), rslt \in RecvResults : ServerRecv(i, rslt)
  BY <1>3, LineRecvStep
<1>4. CASE ServerSyn \/ ServerFin
  <2>1. UNCHANGED <<read, recvBuf, toServer>> /\ shold' = ServerNoHold
    BY <1>4 DEF ServerSyn, ServerFin, Reply
  <2>2. UNCHANGED taken
    BY <2>1 DEF taken
  <2> QED  BY <1>0, <2>1, <2>2, LineStays
<1>5. CASE ServerData
  BY <1>5, LineDataStep
<1> QED  BY <1>1, <1>2, <1>3, <1>4, <1>5 DEF ServerNext

LEMMA InitLineInv == Init => LineInv
<1> SUFFICES ASSUME Init PROVE LineInv
  OBVIOUS
<1>1. toServer = <<>> /\ read = <<>> /\ recvBuf = <<>> /\ shold.seg.data = <<>>
  BY DEF Init, ServerInit, ServerNoHold, Control
<1>2. taken = <<>>
  BY <1>1 DEF taken
<1>3. Len(taken) = 0 /\ Len(toServer) = 0 /\ RunsOf(<<>>) = {}
  BY <1>1, <1>2 DEF RunsOf
<1>4. RunsInLine
  BY <1>1, <1>2, <1>3 DEF RunsInLine, NotAfter
<1>5. RunsInOrder
  BY <1>3 DEF RunsInOrder
<1> QED  BY <1>4, <1>5 DEF LineInv

LEMMA NextLineInv == IInv /\ IInv' /\ PhaseInv /\ LineInv /\ [Next]_vars => LineInv'
<1> SUFFICES ASSUME IInv, IInv', PhaseInv, LineInv, [Next]_vars PROVE LineInv'
  OBVIOUS
<1>1. CASE ClientNext /\ UNCHANGED serverVars
  BY <1>1, LineClientStep DEF PhaseInv
<1>2. CASE ServerNext /\ UNCHANGED clientVars
  BY <1>2, LineServerStep
<1>3. CASE UNCHANGED vars
  BY <1>3, LineStays DEF vars, clientVars, serverVars, taken
<1> QED  BY <1>1, <1>2, <1>3 DEF Next

\* Bytes stay in line from the client process that sends them to the server.
THEOREM Line == Spec => []LineInv
BY Invariance, Phases, InitLineInv, NextLineInv, PTL DEF Spec

\* What the properties of the phases and of the line rest on.
THEOREM Connection == Spec => []ConnInv
<1>1. PhaseInv /\ LineInv => ConnInv
  BY DEF ConnInv
<1> QED  BY <1>1, Phases, Line, PTL

\* On a path without overtaking, the server never goes back from the bytes of one
\* client process to those of an earlier one.
THEOREM NeverBack == Spec => []RunsInOrder
<1>1. LineInv => RunsInOrder
  BY DEF LineInv
<1> QED  BY <1>1, Line, PTL

=============================================================================
