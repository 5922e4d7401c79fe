----------------------------- MODULE StcpProofs -----------------------------
(***************************************************************************)
(* What holds of an STCP connection for every window, buffer size, number  *)
(* of retries, number of client processes and length of path, with and     *)
(* without overtaking: IInv of Stcp is inductive, and implies the safety   *)
(* properties below.                                                       *)
(***************************************************************************)
EXTENDS Stcp, SequenceTheorems, TLAPS

-----------------------------------------------------------------------------
(* The paths and the send buffer.                                           *)

\* What sip_sendseg leaves on a path was on it or was just sent.
LEMMA SipSendType ==
  ASSUME NEW path \in Seq(Segment), NEW segs \in Seq(Segment)
  PROVE  /\ SipSend(path, segs) \in Seq(Segment)
         /\ \A i \in 1..Len(SipSend(path, segs)) :
              \/ \E j \in 1..Len(path) : SipSend(path, segs)[i] = path[j]
              \/ \E j \in 1..Len(segs) : SipSend(path, segs)[i] = segs[j]
<1>1. \A i \in 1..Len(path \o segs) :
        \/ i \in 1..Len(path) /\ (path \o segs)[i] = path[i]
        \/ i - Len(path) \in 1..Len(segs) /\ (path \o segs)[i] = segs[i - Len(path)]
  OBVIOUS
<1> QED  BY <1>1 DEF SipSend

\* A part of a sequence.
LEMMA SubSeqElements ==
  ASSUME NEW S, NEW s \in Seq(S), NEW a \in 0..Len(s), NEW b \in a..Len(s)
  PROVE  /\ SubSeq(s, a + 1, b) \in Seq(S) /\ Len(SubSeq(s, a + 1, b)) = b - a
         /\ \A i \in 1..(b - a) : a + i \in 1..Len(s) /\ SubSeq(s, a + 1, b)[i] = s[a + i]
OBVIOUS

\* Two sequences, one after the other.
LEMMA ConcatElements ==
  ASSUME NEW S, NEW s \in Seq(S), NEW t \in Seq(S)
  PROVE  /\ s \o t \in Seq(S) /\ Len(s \o t) = Len(s) + Len(t)
         /\ \A i \in 1..Len(s \o t) : \/ i \in 1..Len(s) /\ (s \o t)[i] = s[i]
                                      \/ i - Len(s) \in 1..Len(t) /\ (s \o t)[i] = t[i - Len(s)]
OBVIOUS

\* A buffered segment ends at or after its beginning.
LEMMA EndOfNat ==
  ASSUME NEW b \in SegBuf
  PROVE  EndOf(b) \in Nat /\ b.seq \in Nat /\ b.seq <= EndOf(b)
BY DEF EndOf, SegBuf

\* What sip_recvseg leaves on a path was on it.
LEMMA RemoveAtType ==
  ASSUME NEW path \in Seq(Segment), NEW i \in 1..Len(path)
  PROVE  /\ RemoveAt(path, i) \in Seq(Segment)
         /\ \A k \in 1..Len(RemoveAt(path, i)) :
              \E j \in 1..Len(path) : RemoveAt(path, i)[k] = path[j]
<1> DEFINE front == SubSeq(path, 1, i - 1)
           back == SubSeq(path, i + 1, Len(path))
<1>1. front \in Seq(Segment) /\ Len(front) = i - 1
      /\ \A k \in 1..Len(front) : front[k] = path[k]
  OBVIOUS
<1>2. back \in Seq(Segment) /\ Len(back) = Len(path) - i
      /\ \A k \in 1..Len(back) : back[k] = path[k + i]
  OBVIOUS
<1> HIDE DEF front, back
<1>3. \A k \in 1..Len(front \o back) :
        \/ k \in 1..Len(front) /\ (front \o back)[k] = front[k]
        \/ k - Len(front) \in 1..Len(back) /\ (front \o back)[k] = back[k - Len(front)]
  BY <1>1, <1>2
<1>4. front \o back \in Seq(Segment)
  BY <1>1, <1>2
<1>5. RemoveAt(path, i) = front \o back
  BY DEF RemoveAt, front, back
<1>6. ASSUME NEW k \in 1..Len(front \o back)
      PROVE  \E j \in 1..Len(path) : (front \o back)[k] = path[j]
  <2>1. CASE k \in 1..Len(front) /\ (front \o back)[k] = front[k]
    BY <2>1, <1>1
  <2>2. CASE k - Len(front) \in 1..Len(back) /\ (front \o back)[k] = back[k - Len(front)]
    <3>1. (k - Len(front)) + i \in 1..Len(path)
      BY <2>2, <1>1, <1>2
    <3>2. (front \o back)[k] = path[(k - Len(front)) + i]
      BY <2>2, <1>2
    <3> QED  BY <3>1, <3>2
  <2> QED  BY <1>3, <2>1, <2>2
<1> QED  BY <1>4, <1>5, <1>6

\* The segments made from a part of the send buffer.
LEMMA SendAllType ==
  ASSUME NEW bufs \in Seq(SegBuf)
  PROVE  /\ SendAll(bufs) \in Seq(Segment)
         /\ Len(SendAll(bufs)) = Len(bufs)
         /\ \A i \in 1..Len(bufs) : SendAll(bufs)[i] = DataSeg(bufs[i])
<1>1. ASSUME NEW i \in 1..Len(bufs) PROVE DataSeg(bufs[i]) \in Segment
  <2>1. bufs[i] \in SegBuf
    OBVIOUS
  <2> QED  BY <2>1 DEF SegBuf, Segment, SegTypes, DataSeg
<1> QED  BY <1>1 DEF SendAll

\* The segment that takes the next bytes of the application.
LEMMA NewBufType ==
  ASSUME TypeOK, NEW len \in SegLens
  PROVE  /\ NewBuf(len) \in SegBuf
         /\ NewBuf(len).seq = next_seqNum /\ NewBuf(len).data = Bytes(next_seqNum, len)
         /\ Len(Bytes(next_seqNum, len)) = len /\ len \in Nat /\ len > 0
         /\ DataSeg(NewBuf(len)) \in Segment
<1>1. len \in Nat /\ len > 0
  BY ConstantsAssumption
<1>2. \A i \in 1..len : <<run, next_seqNum + i>> \in Byte
  BY <1>1 DEF TypeOK, Byte
<1>3. Bytes(next_seqNum, len) \in Seq(Byte) /\ Len(Bytes(next_seqNum, len)) = len
  BY <1>1, <1>2 DEF Bytes
<1> QED  BY <1>1, <1>3 DEF NewBuf, SegBuf, DataSeg, Segment, SegTypes, TypeOK

-----------------------------------------------------------------------------
(* Steps that leave the stream, the paths and the server alone.             *)

\* The parts of the invariant about the stream.
StreamInv == /\ BufferIsStream /\ WindowBookkeeping /\ SegmentsOK /\ HoldOK /\ ServerStream
             /\ FitsStaysTrue /\ BufferFits /\ StreamsAgree

LEMMA ControlStep ==
  ASSUME IInv, UNCHANGED <<run, tcbVars, toServer, toClient, serverVars>>,
         chold' = chold \/ chold' = NoHold
  PROVE  StreamInv'
<1>1. AckOK(NoHold.seg)'
  BY DEF AckOK, NoHold, Control
<1>2. AckOK(chold.seg)'
  BY <1>1 DEF AckOK, NotInside, EndOf, IInv, SegmentsOK, tcbVars, serverVars
<1>3. SegmentsOK'
  BY <1>2 DEF SegmentsOK, DataOK, AckOK, NotInside, EndOf, IInv, tcbVars, serverVars
<1>4. BufferIsStream' /\ WindowBookkeeping' /\ StreamsAgree'
  BY DEF IInv, BufferIsStream, WindowBookkeeping, StreamsAgree, SentCount, UnsentCount,
         acked, NotInside, EndOf, Bytes, tcbVars, serverVars
<1>5. HoldOK' /\ ServerStream' /\ FitsStaysTrue' /\ BufferFits'
  BY DEF IInv, HoldOK, ClientHandles, NoHold, Control, ServerStream, FitsStaysTrue,
         BufferFits, usedBufLen, tcbVars, serverVars
<1> QED  BY <1>3, <1>4, <1>5 DEF StreamInv
\* The application thread between the calls that touch the stream.
LEMMA ClientControlStep ==
  ASSUME IInv, UNCHANGED serverVars,
         \/ Connect \/ SynTimeout \/ Connected \/ ConnectFails \/ Disconnect \/ Drained
         \/ FinTimeout \/ Disconnected \/ DisconnectFails \/ ClientClose \/ TimerOnFreed
         \/ ClientActOnFreed \/ ClientSynAck \/ ClientFinAck
  PROVE  IInv'
<1> USE DEF IInv
<1>1. StreamInv'
  <2>1. UNCHANGED <<run, tcbVars, toServer, toClient, serverVars>>
    BY DEF Connect, SynTimeout, Connected, ConnectFails, Disconnect, Drained, FinTimeout,
           Disconnected, DisconnectFails, ClientClose, TimerOnFreed,
           ClientActOnFreed, ClientSynAck, ClientFinAck
  <2>2. chold' = chold \/ chold' = NoHold
    BY DEF Connect, SynTimeout, Connected, ConnectFails, Disconnect, Drained, FinTimeout,
           Disconnected, DisconnectFails, ClientClose, TimerOnFreed,
           ClientActOnFreed, ClientSynAck, ClientFinAck
  <2> QED  BY <2>1, <2>2, ControlStep
<1>2. NoHold \in ClientHold
  BY DEF NoHold, ClientHold, RecvResults, Control, Segment, SegTypes
<1>3. TypeOK'
  <2>1. CASE Connect \/ SynTimeout \/ Connected \/ ConnectFails \/ Disconnect
    BY <1>2, <2>1, SMTT(30) DEF TypeOK, ClientPcs, ClientStates, tcbVars, serverVars,
           Connect, SynTimeout, Connected, ConnectFails, Disconnect
  <2>2. CASE Drained \/ FinTimeout \/ Disconnected \/ DisconnectFails \/ ClientClose
    BY <1>2, <2>2, SMTT(30) DEF TypeOK, ClientPcs, ClientStates, tcbVars, serverVars,
           Drained, FinTimeout, Disconnected, DisconnectFails, ClientClose
  <2>3. CASE TimerOnFreed \/ ClientActOnFreed \/ ClientSynAck \/ ClientFinAck
    BY <1>2, <2>3 DEF TypeOK, ClientPcs, ClientStates, tcbVars, serverVars,
           TimerOnFreed, ClientActOnFreed, ClientSynAck, ClientFinAck
  <2> QED  BY <2>1, <2>2, <2>3
<1>4. BufferByPhase'
  BY DEF TypeOK, ClientPcs, BufferByPhase, tcbVars, serverVars, ClientAlive,
         Connect, SynTimeout, Connected, ConnectFails, Disconnect, Drained, FinTimeout,
         Disconnected, DisconnectFails, ClientClose, TimerOnFreed,
         ClientActOnFreed, ClientSynAck, ClientFinAck
<1> QED  BY <1>1, <1>3, <1>4 DEF StreamInv
-----------------------------------------------------------------------------
(* Steps that send segments the client has already cut.                     *)

\* A segment made from the send buffer is one the invariant allows on the path.
LEMMA BufferedDataOK ==
  ASSUME IInv, NEW j \in 1..Len(sendBuf)
  PROVE  DataOK(DataSeg(sendBuf[j]))
<1> DEFINE b == sendBuf[j]
<1>0. \A i \in 1..Len(sendBuf) : /\ sendBuf[i] \in SegBuf /\ sendBuf[i].seq \in Nat
                                  /\ Len(sendBuf[i].data) \in Nat
  <2>1. ASSUME NEW i \in 1..Len(sendBuf) PROVE sendBuf[i] \in SegBuf
    BY DEF IInv, TypeOK
  <2> QED  BY <2>1 DEF SegBuf
<1>1. /\ b \in SegBuf /\ b.seq \in Nat /\ Len(b.data) \in Nat
      /\ b.data = Bytes(b.seq, Len(b.data))
      /\ EndOf(b) <= next_seqNum
  BY <1>0 DEF IInv, BufferIsStream
<1>2. run \in Nat /\ run # 0
  <2>1. cpc \in {"open", "drain"}
    BY DEF IInv, BufferByPhase
  <2> QED  BY <2>1 DEF IInv, TypeOK, BufferByPhase
<1>3. \A k \in 1..Len(b.data) : b.data[k] = <<run, b.seq + k>>
  BY <1>1 DEF Bytes
<1>4. NotInside(EndOf(b))
  <2> SUFFICES ASSUME NEW i \in 1..Len(sendBuf)
               PROVE  EndOf(b) <= sendBuf[i].seq \/ EndOf(sendBuf[i]) <= EndOf(b)
    BY DEF NotInside
  <2>1. sendBuf[i].seq \in Nat /\ Len(sendBuf[i].data) \in Nat
    BY <1>0
  <2>2. CASE i < j
    <3>1. EndOf(sendBuf[i]) <= b.seq
      BY <2>2 DEF IInv, BufferIsStream
    <3> QED  BY <3>1, <2>1, <1>1 DEF EndOf
  <2>3. CASE j < i
    BY <2>3 DEF IInv, BufferIsStream
  <2>4. CASE i = j
    BY <2>4, <2>1 DEF EndOf
  <2> QED  BY <2>2, <2>3, <2>4
<1>5. DataSeg(b).type = "DATA" /\ DataSeg(b).seq = b.seq /\ DataSeg(b).data = b.data
  BY DEF DataSeg
<1> HIDE DEF b
<1>6. EndOf(DataSeg(b)) = EndOf(b)
  BY <1>5 DEF EndOf
<1>7. DataOK(DataSeg(b))
  BY <1>1, <1>2, <1>3, <1>4, <1>5, <1>6 DEF DataOK
<1> QED  BY <1>7 DEF b

\* SYN, FIN and the resend of the timer: the path gains control segments and
\* segments of the send buffer.
LEMMA SendStep ==
  ASSUME IInv, UNCHANGED <<run, tcbVars, toClient, chold, serverVars>>,
         \A i \in 1..Len(toServer') :
           \/ \E j \in 1..Len(toServer) : toServer'[i] = toServer[j]
           \/ toServer'[i].type # "DATA"
           \/ \E j \in 1..Len(sendBuf) : toServer'[i] = DataSeg(sendBuf[j])
  PROVE  StreamInv'
<1>2. ASSUME NEW i \in 1..Len(toServer') PROVE DataOK(toServer'[i])
  <2>1. CASE \E j \in 1..Len(toServer) : toServer'[i] = toServer[j]
    BY <2>1 DEF IInv, SegmentsOK
  <2>2. CASE toServer'[i].type # "DATA"
    BY <2>2 DEF DataOK
  <2>3. CASE \E j \in 1..Len(sendBuf) : toServer'[i] = DataSeg(sendBuf[j])
    BY <2>3, BufferedDataOK
  <2> QED  BY <2>1, <2>2, <2>3
<1>3. SegmentsOK'
  <2>1. (\A i \in 1..Len(toServer) : DataOK(toServer[i]))'
    BY <1>2 DEF DataOK, NotInside, EndOf, tcbVars, serverVars
  <2>2. DataOK(shold.seg)'
    BY DEF IInv, SegmentsOK, DataOK, NotInside, EndOf, tcbVars, serverVars
  <2>3. (\A i \in 1..Len(toClient) : AckOK(toClient[i]))'
    BY DEF IInv, SegmentsOK, AckOK, NotInside, EndOf, tcbVars, serverVars
  <2>4. AckOK(chold.seg)'
    BY DEF IInv, SegmentsOK, AckOK, NotInside, EndOf, tcbVars, serverVars
  <2> QED  BY <2>1, <2>2, <2>3, <2>4 DEF SegmentsOK
<1>4. BufferIsStream' /\ WindowBookkeeping' /\ StreamsAgree'
  BY DEF IInv, BufferIsStream, WindowBookkeeping, StreamsAgree, SentCount, UnsentCount,
         acked, NotInside, EndOf, Bytes, tcbVars, serverVars
<1>5. HoldOK' /\ ServerStream' /\ FitsStaysTrue' /\ BufferFits'
  BY DEF IInv, HoldOK, ClientHandles, NoHold, Control, ServerStream, FitsStaysTrue,
         BufferFits, usedBufLen, tcbVars, serverVars
<1> QED  BY <1>3, <1>4, <1>5 DEF StreamInv

\* One segment on the path: it is the last, or everything was there before.
LEMMA SendOne ==
  ASSUME TypeOK, NEW m \in Segment
  PROVE  /\ SipSend(toServer, <<m>>) \in Seq(Segment)
         /\ \A i \in 1..Len(SipSend(toServer, <<m>>)) :
              \/ \E j \in 1..Len(toServer) : SipSend(toServer, <<m>>)[i] = toServer[j]
              \/ SipSend(toServer, <<m>>)[i] = m
<1> DEFINE ms == <<m>>
<1>1. ms \in Seq(Segment) /\ \A j \in 1..Len(ms) : ms[j] = m
  OBVIOUS
<1>2. toServer \in Seq(Segment)
  BY DEF TypeOK
<1> HIDE DEF ms
<1>3. /\ SipSend(toServer, ms) \in Seq(Segment)
      /\ \A i \in 1..Len(SipSend(toServer, ms)) :
           \/ \E j \in 1..Len(toServer) : SipSend(toServer, ms)[i] = toServer[j]
           \/ SipSend(toServer, ms)[i] = m
  BY <1>1, <1>2, SipSendType
<1> QED  BY <1>3 DEF ms

LEMMA SendSynFinStep ==
  ASSUME IInv, UNCHANGED serverVars, SendSyn \/ SendFin
  PROVE  IInv'
<1> DEFINE syn == Control("SYN", next_seqNum, 0)
           fin == Control("FIN", next_seqNum, 0)
<1>1. syn \in Segment /\ fin \in Segment /\ syn.type # "DATA" /\ fin.type # "DATA"
  BY DEF IInv, TypeOK, Control, Segment, SegTypes
<1>2. PICK m \in {syn, fin} : toServer' = SipSend(toServer, <<m>>)
  BY DEF SendSyn, SendFin
<1> HIDE DEF syn, fin
<1>3. /\ toServer' \in Seq(Segment)
      /\ \A i \in 1..Len(toServer') :
           \/ \E j \in 1..Len(toServer) : toServer'[i] = toServer[j]
           \/ toServer'[i].type # "DATA"
  <2>1. m \in Segment /\ m.type # "DATA" /\ TypeOK
    BY <1>1, <1>2 DEF IInv
  <2>2. /\ toServer' \in Seq(Segment)
        /\ \A i \in 1..Len(toServer') :
             (\E j \in 1..Len(toServer) : toServer'[i] = toServer[j]) \/ toServer'[i] = m
    BY <2>1, <1>2, SendOne
  <2> QED  BY <2>1, <2>2
<1>4. UNCHANGED <<run, tcbVars, toClient, chold, serverVars>>
  BY DEF SendSyn, SendFin
<1>5. StreamInv'
  BY <1>3, <1>4, SendStep
<1>6. TypeOK'
  BY <1>3, <1>4 DEF IInv, TypeOK, ClientPcs, ClientStates, tcbVars, serverVars, SendSyn, SendFin
<1>7. BufferByPhase'
  BY <1>4 DEF IInv, BufferByPhase, tcbVars, serverVars, SendSyn, SendFin
<1> QED  BY <1>5, <1>6, <1>7 DEF IInv, StreamInv

LEMMA TimerResendStep ==
  ASSUME IInv, UNCHANGED serverVars, TimerResend
  PROVE  IInv'
<1> DEFINE sent == SubSeq(sendBuf, 1, SentCount)
<1>1. SentCount \in 0..Len(sendBuf)
  BY DEF IInv, TypeOK, SentCount
<1>2. /\ sent \in Seq(SegBuf)
      /\ \A i \in 1..Len(sent) : i \in 1..Len(sendBuf) /\ sent[i] = sendBuf[i]
  BY <1>1 DEF IInv, TypeOK
<1> HIDE DEF sent
<1>3. /\ SendAll(sent) \in Seq(Segment)
      /\ \A i \in 1..Len(SendAll(sent)) :
           \E j \in 1..Len(sendBuf) : SendAll(sent)[i] = DataSeg(sendBuf[j])
  BY <1>2, SendAllType
<1>4. toServer' = toServer \o SendAll(sent)
  BY DEF TimerResend, sent
<1>5. toServer' \in Seq(Segment)
  BY <1>3, <1>4 DEF IInv, TypeOK
<1>6. ASSUME NEW i \in 1..Len(toServer')
      PROVE  \/ \E j \in 1..Len(toServer) : toServer'[i] = toServer[j]
             \/ \E j \in 1..Len(sendBuf) : toServer'[i] = DataSeg(sendBuf[j])
  <2>1. \/ i \in 1..Len(toServer) /\ toServer'[i] = toServer[i]
        \/ /\ i - Len(toServer) \in 1..Len(SendAll(sent))
           /\ toServer'[i] = SendAll(sent)[i - Len(toServer)]
    BY <1>3, <1>4 DEF IInv, TypeOK
  <2> QED  BY <2>1, <1>3
<1>7. UNCHANGED <<run, tcbVars, toClient, chold, cpc, retry, cstate, timers, serverVars>>
  BY DEF TimerResend, clientVars, tcbVars
<1>8. StreamInv'
  BY <1>6, <1>7, SendStep
<1>9. TypeOK' /\ BufferByPhase'
  BY <1>5, <1>7 DEF IInv, TypeOK, BufferByPhase, tcbVars, serverVars
<1> QED  BY <1>8, <1>9 DEF IInv, StreamInv
-----------------------------------------------------------------------------
(* A client process starts, and creates its TCB.                            *)

LEMMA ClientStartStep ==
  ASSUME IInv, UNCHANGED serverVars, ClientStart
  PROVE  IInv'
<1> USE DEF IInv, ClientStart
<1>1. run \in Nat /\ (run = 0 => next_seqNum = 0 /\ sendBuf = <<>>)
  BY DEF TypeOK, BufferByPhase
<1>2. TypeOK'
  <2>1. NoHold \in ClientHold /\ <<>> \in Seq(SegBuf) /\ Len(<<>>) = 0
    BY DEF NoHold, ClientHold, RecvResults, Control, Segment, SegTypes
  <2> QED  BY <2>1 DEF TypeOK, ClientPcs, ClientStates, serverVars
<1>3. BufferIsStream' /\ WindowBookkeeping'
  <2>1. Len(sendBuf') = 0
    OBVIOUS
  <2> QED  BY <2>1, ConstantsAssumption
           DEF BufferIsStream, WindowBookkeeping, SentCount, UnsentCount
<1>4. BufferByPhase'
  BY <1>1 DEF BufferByPhase
<1>5. SegmentsOK'
  <2>3. (\A i \in 1..Len(toServer) : DataOK(toServer[i]))'
    BY <1>1 DEF SegmentsOK, DataOK, NotInside
  <2>4. DataOK(shold.seg)'
    BY <1>1 DEF SegmentsOK, DataOK, NotInside, serverVars
  <2>5. (\A i \in 1..Len(toClient) : AckOK(toClient[i]))'
    BY <1>1 DEF SegmentsOK, AckOK, NotInside, serverVars
  <2>6. AckOK(chold.seg)'
    BY DEF AckOK, NoHold, Control
  <2> QED  BY <2>3, <2>4, <2>5, <2>6 DEF SegmentsOK
<1>6. HoldOK' /\ FitsStaysTrue' /\ BufferFits'
  BY DEF HoldOK, FitsStaysTrue, BufferFits, usedBufLen, serverVars
<1>7. ServerStream'
  BY <1>1 DEF ServerStream, serverVars
<1>8. StreamsAgree'
  BY <1>1 DEF StreamsAgree, acked, NotInside, serverVars, TypeOK
<1> QED  BY <1>2, <1>3, <1>4, <1>5, <1>6, <1>7, <1>8

LEMMA ClientSockStep ==
  ASSUME IInv, UNCHANGED serverVars, ClientSock
  PROVE  IInv'
<1> USE DEF IInv, ClientSock
<1>1. UNCHANGED <<run, tcbVars, toServer, toClient, chold, serverVars>>
  BY DEF BufferByPhase, WindowBookkeeping, SentCount, UnsentCount, TypeOK, tcbVars
<1>2. StreamInv'
  BY <1>1, ControlStep
<1>3. TypeOK' /\ BufferByPhase'
  BY <1>1 DEF TypeOK, BufferByPhase, ClientPcs, ClientStates, tcbVars, serverVars
<1> QED  BY <1>2, <1>3 DEF StreamInv

-----------------------------------------------------------------------------
(* seghandler of the client takes a segment.                                *)

LEMMA ClientRecvStep ==
  ASSUME IInv, UNCHANGED serverVars,
         NEW i \in Arriving(toClient), NEW rslt \in RecvResults, ClientRecv(i, rslt)
  PROVE  IInv'
<1> USE DEF IInv
<1>1. i \in 1..Len(toClient) /\ toClient \in Seq(Segment)
  BY DEF Arriving, TypeOK
<1>2. /\ toClient' \in Seq(Segment)
      /\ \A k \in 1..Len(toClient') : \E j \in 1..Len(toClient) : toClient'[k] = toClient[j]
  BY <1>1, RemoveAtType DEF ClientRecv
<1>3. toClient[i] \in Segment /\ AckOK(toClient[i])
  BY <1>1 DEF SegmentsOK
<1>4. UNCHANGED <<run, cpc, retry, cstate, timers, tcbVars, toServer, serverVars>>
  BY DEF ClientRecv
<1>5. \/ chold' = NoHold
      \/ /\ chold'.seg = toClient[i] /\ chold'.st = cstate
         /\ ClientHandles(cstate, toClient[i].type)
         /\ chold' = [st |-> cstate, rslt |-> rslt, seg |-> toClient[i]]
  BY DEF ClientRecv
<1>6. TypeOK' /\ HoldOK'
  <2>1. CASE chold' = NoHold
    <3>1. NoHold \in ClientHold
      BY DEF NoHold, ClientHold, RecvResults, Control, Segment, SegTypes
    <3> QED  BY <2>1, <3>1, <1>2, <1>4 DEF TypeOK, HoldOK, tcbVars, serverVars
  <2>2. CASE chold' # NoHold
    <3>1. cstate \in {"SYNSENT", "CONNECTED", "FINWAIT"}
      BY <2>2, <1>5 DEF ClientHandles
    <3>2. chold' \in ClientHold
      BY <3>1, <2>2, <1>5, <1>3 DEF ClientHold
    <3> QED  BY <3>2, <2>2, <1>2, <1>4, <1>5 DEF TypeOK, HoldOK, ClientHandles, tcbVars, serverVars
  <2> QED  BY <2>1, <2>2
<1>7. SegmentsOK'
  <2>1. AckOK(chold'.seg)
    BY <1>3, <1>5 DEF AckOK, NoHold, Control
  <2>2. \A k \in 1..Len(toClient') : AckOK(toClient'[k])
    BY <1>2 DEF SegmentsOK
  <2>3. (\A k \in 1..Len(toServer) : DataOK(toServer[k]))' /\ DataOK(shold.seg)'
    BY <1>4 DEF SegmentsOK, DataOK, NotInside, EndOf, tcbVars, serverVars
  <2>4. (\A k \in 1..Len(toClient) : AckOK(toClient[k]))'
    BY <2>2, <1>4 DEF AckOK, NotInside, EndOf, tcbVars, serverVars
  <2>5. AckOK(chold.seg)'
    BY <2>1, <1>4 DEF AckOK, NotInside, EndOf, tcbVars, serverVars
  <2> QED  BY <2>3, <2>4, <2>5 DEF SegmentsOK
<1>8. BufferIsStream' /\ WindowBookkeeping' /\ StreamsAgree' /\ BufferByPhase'
  BY <1>4 DEF BufferIsStream, WindowBookkeeping, StreamsAgree, SentCount, UnsentCount,
         BufferByPhase, acked, NotInside, EndOf, Bytes, tcbVars, serverVars
<1>9. ServerStream' /\ FitsStaysTrue' /\ BufferFits'
  BY <1>4 DEF ServerStream, FitsStaysTrue, BufferFits, usedBufLen, tcbVars, serverVars
<1> QED  BY <1>6, <1>7, <1>8, <1>9
-----------------------------------------------------------------------------
(* seghandler of the client acts on an acknowledgement.                     *)

\* The fields of a buffered segment.
LEMMA BufFields ==
  ASSUME TypeOK
  PROVE  \A i \in 1..Len(sendBuf) : /\ sendBuf[i] \in SegBuf /\ sendBuf[i].seq \in Nat
                                    /\ Len(sendBuf[i].data) \in Nat
<1>1. ASSUME NEW i \in 1..Len(sendBuf) PROVE sendBuf[i] \in SegBuf
  BY DEF TypeOK
<1> QED  BY <1>1 DEF SegBuf

\* k turns of the loop leave the segments after the k-th, and send what the
\* window has room for again.
LEMMA ClientDataAckStep ==
  ASSUME IInv, UNCHANGED serverVars, ClientDataAck
  PROVE  IInv'
<1> USE DEF IInv
<1> DEFINE ack == chold.seg.ack
           L == Len(sendBuf)
<1>0. ack \in Nat /\ L \in Nat /\ sendBuf \in Seq(SegBuf)
  BY DEF TypeOK, ClientHold, Segment
<1>1. PICK k \in 0..L :
        LET n == IF k <= UnsentCount THEN k ELSE UnsentCount IN
        /\ AckLoops(k, ack)
        /\ toServer' = SipSend(toServer, SendAll(SubSeq(sendBuf, SentCount + 1, SentCount + n)))
        /\ unAck_segNum' = unAck_segNum + n - k
        /\ unSent' = UnsentAfter(k, n)
        /\ sendBuf' = SubSeq(sendBuf, k + 1, L)
  BY DEF ClientDataAck
<1> DEFINE n == IF k <= UnsentCount THEN k ELSE UnsentCount
           out == SubSeq(sendBuf, SentCount + 1, SentCount + n)
<1>2. UNCHANGED <<run, retry, cstate, next_seqNum, timers, toClient, serverVars>>
      /\ chold' = NoHold /\ cpc' \in {cpc, "crashed"} /\ cstate # "NULL"
  BY DEF ClientDataAck
<1>3. /\ unSent \in 0..L /\ SentCount = IF unSent = 0 THEN L ELSE unSent - 1
      /\ SentCount \in 0..L /\ UnsentCount = L - SentCount
      /\ SentCount = unAck_segNum /\ SentCount <= GBN_WINDOW
      /\ UnsentCount > 0 => SentCount = GBN_WINDOW
      /\ GBN_WINDOW \in Nat /\ GBN_WINDOW > 0
  <2>1. unSent \in 0..L
    BY DEF TypeOK
  <2>2. SentCount = (IF unSent = 0 THEN L ELSE unSent - 1) /\ UnsentCount = L - SentCount
    BY DEF SentCount, UnsentCount
  <2>3. /\ unAck_segNum = SentCount /\ unAck_segNum <= GBN_WINDOW
        /\ UnsentCount > 0 => unAck_segNum = GBN_WINDOW
    BY DEF WindowBookkeeping
  <2>4. GBN_WINDOW \in Nat /\ GBN_WINDOW > 0
    BY ConstantsAssumption
  <2> HIDE DEF L, n, out, ack
  <2> QED  BY <2>1, <2>2, <2>3, <2>4, <1>0
<1>a. k \in 0..L /\ n \in 0..k /\ n <= UnsentCount /\ (n = k \/ n = UnsentCount)
  <2> HIDE DEF L
  <2> QED  BY <1>0, <1>3 DEF n
<1>4. /\ sendBuf' \in Seq(SegBuf) /\ Len(sendBuf') = L - k
      /\ \A i \in 1..Len(sendBuf') : i + k \in 1..L /\ sendBuf'[i] = sendBuf[i + k]
  BY <1>0, <1>1
<1>5. /\ out \in Seq(SegBuf)
      /\ \A i \in 1..Len(out) : SentCount + i \in 1..L /\ out[i] = sendBuf[SentCount + i]
  <2> DEFINE first == SentCount
             last == SentCount + n
  <2>1. first \in 0..L /\ last \in first..L
    <3> HIDE DEF L, n
    <3> QED  BY <1>0, <1>3, <1>a
  <2>2. out = SubSeq(sendBuf, first + 1, last)
    OBVIOUS
  <2> HIDE DEF first, last, out, L
  <2>3. first \in 0..Len(sendBuf) /\ last \in first..Len(sendBuf)
    BY <2>1 DEF L
  <2>4. /\ out \in Seq(SegBuf) /\ Len(out) = last - first
        /\ \A i \in 1..(last - first) : first + i \in 1..Len(sendBuf) /\ out[i] = sendBuf[first + i]
    BY <2>2, <2>3, <1>0, SubSeqElements
  <2> QED  BY <2>4 DEF first, L
<1>6. toServer' = SipSend(toServer, SendAll(out))
  BY <1>1
<1>7. /\ unSent' = (IF n = UnsentCount THEN 0 ELSE unSent + n - k)
      /\ unAck_segNum' = unAck_segNum + n - k
  BY <1>1 DEF UnsentAfter
<1>8. AckLoops(k, ack)
  BY <1>1
<1> HIDE DEF n, out, L, ack
<1>9. /\ toServer' \in Seq(Segment)
      /\ \A i \in 1..Len(toServer') :
           \/ \E j \in 1..Len(toServer) : toServer'[i] = toServer[j]
           \/ \E j \in 1..Len(sendBuf) : toServer'[i] = DataSeg(sendBuf[j])
  <2>1. /\ SendAll(out) \in Seq(Segment) /\ Len(SendAll(out)) = Len(out)
        /\ \A i \in 1..Len(out) : SendAll(out)[i] = DataSeg(out[i])
    BY <1>5, SendAllType
  <2>2. \A i \in 1..Len(SendAll(out)) :
          \E j \in 1..Len(sendBuf) : SendAll(out)[i] = DataSeg(sendBuf[j])
    BY <2>1, <1>5 DEF L
  <2>3. toServer \in Seq(Segment)
    BY DEF TypeOK
  <2>4. /\ toServer' \in Seq(Segment)
        /\ \A i \in 1..Len(toServer') :
             \/ \E j \in 1..Len(toServer) : toServer'[i] = toServer[j]
             \/ \E j \in 1..Len(SendAll(out)) : toServer'[i] = SendAll(out)[j]
    BY <2>1, <2>3, <1>6, SipSendType
  <2> QED  BY <2>2, <2>4
<1>10. /\ unSent' \in 0..(L - k) /\ unAck_segNum' \in Nat
       /\ unAck_segNum' = (IF unSent' = 0 THEN L - k ELSE unSent' - 1)
       /\ unAck_segNum' <= GBN_WINDOW
       /\ (L - k) - unAck_segNum' > 0 => unAck_segNum' = GBN_WINDOW
  <2>1. CASE n = UnsentCount
    <3>1. unSent' = 0 /\ unAck_segNum' = L - k
      BY <2>1, <1>0, <1>3, <1>7, <1>a
    <3> QED  BY <3>1, <2>1, <1>0, <1>3, <1>a
  <2>2. CASE n # UnsentCount
    <3>1. n = k /\ k < UnsentCount /\ unSent \in 2..L
      BY <2>2, <1>0, <1>3, <1>a
    <3>2. unSent' = unSent /\ unAck_segNum' = SentCount
      BY <2>2, <3>1, <1>0, <1>3, <1>7
    <3> QED  BY <3>1, <3>2, <1>0, <1>3
  <2> QED  BY <2>1, <2>2
<1>11. TypeOK'
  <2>1. NoHold \in ClientHold
    BY DEF NoHold, ClientHold, RecvResults, Control, Segment, SegTypes
  <2> QED  BY <2>1, <1>2, <1>4, <1>9, <1>10 DEF TypeOK, ClientPcs, serverVars
<1>12. WindowBookkeeping'
  BY <1>4, <1>10 DEF WindowBookkeeping, SentCount, UnsentCount
<1>13. BufferIsStream'
  <2>1. ASSUME NEW i \in 1..Len(sendBuf')
        PROVE  /\ Len(sendBuf'[i].data) > 0
               /\ sendBuf'[i].data = Bytes(sendBuf'[i].seq, Len(sendBuf'[i].data))
               /\ EndOf(sendBuf'[i]) = (IF i = Len(sendBuf') THEN next_seqNum
                                        ELSE sendBuf'[i + 1].seq)
               /\ EndOf(sendBuf'[i]) <= next_seqNum
    <3>1. i + k \in 1..L /\ sendBuf'[i] = sendBuf[i + k]
          /\ (i = Len(sendBuf') <=> i + k = L)
          /\ (i # Len(sendBuf') => sendBuf'[i + 1] = sendBuf[(i + k) + 1])
      BY <1>0, <1>4
    <3> QED  BY <3>1 DEF BufferIsStream, L
  <2>2. ASSUME NEW i \in 1..Len(sendBuf'), NEW j \in 1..Len(sendBuf'), i < j
        PROVE  EndOf(sendBuf'[i]) <= sendBuf'[j].seq
    <3>1. /\ i + k \in 1..L /\ sendBuf'[i] = sendBuf[i + k]
          /\ j + k \in 1..L /\ sendBuf'[j] = sendBuf[j + k] /\ i + k < j + k
      BY <2>2, <1>0, <1>4, SMTT(30)
    <3> QED  BY <3>1 DEF BufferIsStream, L
  <2> QED  BY <2>1, <2>2, <1>2 DEF BufferIsStream, EndOf, Bytes
<1>14. ASSUME NEW x, NotInside(x)
       PROVE  \A i \in 1..Len(sendBuf') : x <= sendBuf'[i].seq \/ EndOf(sendBuf'[i]) <= x
  BY <1>14, <1>4 DEF NotInside, L
<1>15. SegmentsOK'
  <2>1. ASSUME NEW i \in 1..Len(toServer') PROVE DataOK(toServer'[i])
    BY <1>9, BufferedDataOK DEF SegmentsOK
  <2>2. (\A i \in 1..Len(toServer) : DataOK(toServer[i]))'
    BY <2>1, <1>2, <1>14 DEF DataOK, NotInside, EndOf
  <2>3. DataOK(shold.seg)'
    BY <1>2, <1>14 DEF SegmentsOK, DataOK, NotInside, EndOf, serverVars
  <2>4. (\A i \in 1..Len(toClient) : AckOK(toClient[i]))'
    BY <1>2, <1>14 DEF SegmentsOK, AckOK, NotInside, EndOf, serverVars
  <2>5. AckOK(chold.seg)'
    BY <1>2 DEF AckOK, NoHold, Control
  <2> QED  BY <2>2, <2>3, <2>4, <2>5 DEF SegmentsOK
<1>16. HoldOK' /\ ServerStream' /\ FitsStaysTrue' /\ BufferFits'
  BY <1>2 DEF HoldOK, ServerStream, FitsStaysTrue, BufferFits, usedBufLen, serverVars
<1>17. ASSUME run <= 1 PROVE acked' <= expect_seqNum
  <2>1. ack <= expect_seqNum /\ NotInside(ack)
    <3>1. chold # NoHold /\ chold.st = "CONNECTED"
      BY DEF ClientDataAck, NoHold
    <3>2. chold.seg.type = "DATAACK"
      BY <3>1 DEF HoldOK, ClientHandles
    <3> QED  BY <3>2, <1>17 DEF SegmentsOK, AckOK, ack
  <2>2. CASE k = 0
    <3>1. sendBuf' = sendBuf
      BY <2>2, <1>0, <1>4 DEF L
    <3>2. acked' = acked
      BY <3>1, <1>2 DEF acked
    <3> QED  BY <3>2, <1>17 DEF StreamsAgree
  <2>3. CASE k > 0
    <3>1. k \in 1..L /\ sendBuf[k].seq < ack
      BY <2>3, <1>0, <1>8 DEF AckLoops
    <3>2. sendBuf[k].seq \in Nat /\ Len(sendBuf[k].data) \in Nat
      BY <3>1, BufFields DEF L
    <3>3. EndOf(sendBuf[k]) <= ack
      BY <3>1, <3>2, <2>1, <1>0 DEF NotInside, L
    <3>4. acked' = EndOf(sendBuf[k])
      <4>1. EndOf(sendBuf[k]) = IF k = L THEN next_seqNum ELSE sendBuf[k + 1].seq
        BY <3>1 DEF BufferIsStream, L
      <4>2. CASE k = L
        BY <4>1, <4>2, <1>0, <1>2, <1>4 DEF acked
      <4>3. CASE k # L
        <5>1. sendBuf' # <<>> /\ sendBuf'[1] = sendBuf[1 + k] /\ 1 + k = k + 1
          BY <4>3, <3>1, <1>0, <1>4
        <5> QED  BY <5>1, <4>1, <4>3 DEF acked
      <4> QED  BY <4>2, <4>3
    <3> QED  BY <3>2, <3>3, <3>4, <2>1, <1>0 DEF EndOf, TypeOK
  <2> QED  BY <2>2, <2>3, <1>0
<1>18. StreamsAgree'
  BY <1>2, <1>14, <1>17 DEF StreamsAgree, NotInside, EndOf, serverVars
<1>19. Overrun(ack) => sendBuf' = <<>>
  <2> SUFFICES ASSUME Overrun(ack) PROVE k = L
    BY <1>0, <1>4
  <2>1. L > 0 /\ EndOf(sendBuf[L]) < ack
    BY <1>0 DEF Overrun, EndOf, L
  <2>2. ASSUME k < L PROVE FALSE
    <3>1. sendBuf[k + 1].seq >= ack /\ k + 1 \in 1..L
      BY <2>2, <1>0, <1>8 DEF AckLoops, L
    <3>2. /\ sendBuf[k + 1].seq \in Nat /\ Len(sendBuf[k + 1].data) \in Nat
          /\ sendBuf[L].seq \in Nat /\ Len(sendBuf[L].data) \in Nat
      BY <3>1, <2>1, BufFields DEF L
    <3>3. k + 1 # L => EndOf(sendBuf[k + 1]) <= sendBuf[L].seq
      BY <3>1, <2>1, <1>0 DEF BufferIsStream, L
    <3>4. /\ EndOf(sendBuf[k + 1]) \in Nat /\ sendBuf[k + 1].seq <= EndOf(sendBuf[k + 1])
          /\ EndOf(sendBuf[L]) \in Nat /\ sendBuf[L].seq <= EndOf(sendBuf[L])
      <4>1. sendBuf[k + 1] \in SegBuf /\ sendBuf[L] \in SegBuf
        BY <3>1, <2>1, BufFields, <1>0 DEF L
      <4> QED  BY <4>1, EndOfNat
    <3> QED  BY <3>1, <3>2, <3>3, <3>4, <2>1, <1>0
  <2> QED  BY <2>2, <1>0
<1>20. BufferByPhase'
  <2>1. cpc' = IF Overrun(ack) THEN "crashed" ELSE cpc
    BY DEF ClientDataAck, ack
  <2>2. sendBuf = <<>> => sendBuf' = <<>>
    BY <1>0, <1>4 DEF L
  <2>3. run = 0 => cpc' = cpc
    <3>1. run = 0 => sendBuf = <<>>
      BY DEF BufferByPhase
    <3> QED  BY <3>1, <2>1 DEF Overrun
  <2> QED  BY <2>1, <2>2, <2>3, <1>2, <1>19 DEF BufferByPhase
<1> QED  BY <1>11, <1>12, <1>13, <1>15, <1>16, <1>18, <1>20
-----------------------------------------------------------------------------
(* The two ways to send.                                                    *)

\* The send buffer with one more segment.
LEMMA AppendBufFacts ==
  ASSUME IInv, NEW len \in SegLens, AppendBuf(len)
  PROVE  /\ sendBuf' \in Seq(SegBuf) /\ Len(sendBuf') = Len(sendBuf) + 1
         /\ \A i \in 1..Len(sendBuf) : sendBuf'[i] = sendBuf[i]
         /\ sendBuf'[Len(sendBuf) + 1] = NewBuf(len)
         /\ next_seqNum' = next_seqNum + len /\ len \in Nat /\ len > 0
         /\ next_seqNum \in Nat /\ run \in Nat /\ run # 0
<1>1. NewBuf(len) \in SegBuf /\ len \in Nat /\ len > 0 /\ TypeOK
  BY NewBufType DEF IInv
<1>2. sendBuf \in Seq(SegBuf) /\ sendBuf' = Append(sendBuf, NewBuf(len))
  BY DEF IInv, TypeOK, AppendBuf
<1>3. cpc = "open" /\ next_seqNum' = next_seqNum + len
  BY DEF AppendBuf
<1> HIDE DEF NewBuf
<1> QED  BY <1>1, <1>2, <1>3 DEF IInv, TypeOK, BufferByPhase

LEMMA AppendBufIsStream ==
  ASSUME IInv, NEW len \in SegLens, AppendBuf(len)
  PROVE  /\ BufferIsStream' /\ acked' = acked
         /\ \A x \in Nat : x <= next_seqNum /\ NotInside(x) =>
              \A i \in 1..Len(sendBuf') : x <= sendBuf'[i].seq \/ EndOf(sendBuf'[i]) <= x
<1> DEFINE L == Len(sendBuf)
           b == NewBuf(len)
<1>1. /\ b \in SegBuf /\ b.seq = next_seqNum /\ Len(b.data) = len
      /\ b.data = Bytes(b.seq, Len(b.data)) /\ EndOf(b) = next_seqNum + len
  BY NewBufType DEF IInv, EndOf
<1>2. /\ sendBuf' \in Seq(SegBuf) /\ Len(sendBuf') = L + 1 /\ L \in Nat
      /\ \A i \in 1..L : sendBuf'[i] = sendBuf[i]
      /\ sendBuf'[L + 1] = b
      /\ next_seqNum' = next_seqNum + len /\ len \in Nat /\ len > 0 /\ next_seqNum \in Nat
  BY AppendBufFacts DEF IInv, TypeOK
<1>3. run' = run
  BY DEF AppendBuf
<1>4. \A i \in 1..L : /\ sendBuf[i] \in SegBuf /\ EndOf(sendBuf[i]) \in Nat
                      /\ sendBuf[i].seq \in Nat /\ EndOf(sendBuf[i]) <= next_seqNum
  <2>1. \A i \in 1..L : sendBuf[i] \in SegBuf
    BY BufFields DEF IInv
  <2> QED  BY <2>1, EndOfNat DEF IInv, BufferIsStream
<1> HIDE DEF L, b
<1>5. ASSUME NEW i \in 1..Len(sendBuf')
      PROVE  /\ Len(sendBuf'[i].data) > 0
             /\ sendBuf'[i].data = Bytes(sendBuf'[i].seq, Len(sendBuf'[i].data))
             /\ EndOf(sendBuf'[i]) = (IF i = Len(sendBuf') THEN next_seqNum'
                                      ELSE sendBuf'[i + 1].seq)
             /\ EndOf(sendBuf'[i]) <= next_seqNum'
  <2>1. CASE i = L + 1
    BY <2>1, <1>1, <1>2
  <2>2. CASE i = L
    <3>1. i \in 1..L /\ sendBuf'[i] = sendBuf[i] /\ sendBuf'[i + 1] = b /\ i # Len(sendBuf')
      BY <2>2, <1>2
    <3>2. EndOf(sendBuf[i]) = next_seqNum /\ EndOf(sendBuf[i]) <= next_seqNum'
      BY <3>1, <2>2, <1>2, <1>4 DEF IInv, BufferIsStream, L
    <3> QED  BY <3>1, <3>2, <1>1 DEF IInv, BufferIsStream, L
  <2>3. CASE i < L
    <3>1. /\ i \in 1..L /\ sendBuf'[i] = sendBuf[i] /\ sendBuf'[i + 1] = sendBuf[i + 1]
          /\ i # Len(sendBuf') /\ i # L
      BY <2>3, <1>2
    <3>2. EndOf(sendBuf[i]) <= next_seqNum'
      BY <3>1, <1>2, <1>4
    <3> QED  BY <3>1, <3>2 DEF IInv, BufferIsStream, L
  <2> QED  BY <2>1, <2>2, <2>3, <1>2
<1>6. ASSUME NEW i \in 1..Len(sendBuf'), NEW j \in 1..Len(sendBuf'), i < j
      PROVE  EndOf(sendBuf'[i]) <= sendBuf'[j].seq
  <2>1. i \in 1..L /\ sendBuf'[i] = sendBuf[i]
    BY <1>6, <1>2
  <2>2. CASE j = L + 1
    BY <2>1, <2>2, <1>1, <1>2, <1>4
  <2>3. CASE j \in 1..L
    BY <1>6, <2>1, <2>3, <1>2 DEF IInv, BufferIsStream, L
  <2> QED  BY <2>2, <2>3, <1>2
<1>7. BufferIsStream'
  BY <1>3, <1>5, <1>6 DEF BufferIsStream, EndOf, Bytes
<1>8. acked' = acked
  <2>0. sendBuf \in Seq(SegBuf) /\ L = Len(sendBuf) /\ sendBuf' # <<>>
    BY <1>2 DEF L, IInv, TypeOK
  <2>1. CASE L = 0
    <3>1. sendBuf = <<>>
      BY <2>0, <2>1, EmptySeq
    <3>2. sendBuf'[1] = b
      BY <2>1, <1>2
    <3> QED  BY <2>0, <3>1, <3>2, <1>1 DEF acked
  <2>2. CASE L # 0
    <3>1. sendBuf # <<>> /\ sendBuf'[1] = sendBuf[1]
      BY <2>0, <2>2, <1>2
    <3> QED  BY <2>0, <3>1 DEF acked
  <2> QED  BY <2>1, <2>2
<1>9. ASSUME NEW x \in Nat, x <= next_seqNum, NotInside(x), NEW i \in 1..Len(sendBuf')
      PROVE  x <= sendBuf'[i].seq \/ EndOf(sendBuf'[i]) <= x
  <2>1. CASE i = L + 1
    BY <2>1, <1>1, <1>2, <1>9
  <2>2. CASE i \in 1..L
    BY <2>2, <1>2, <1>9 DEF NotInside, L
  <2> QED  BY <2>1, <2>2, <1>2
<1> QED  BY <1>7, <1>8, <1>9

\* Segments of the buffer may be sent, the new one included.
LEMMA AppendDataOK ==
  ASSUME IInv, NEW len \in SegLens, AppendBuf(len)
  PROVE  /\ \A m \in Segment : DataOK(m) => DataOK(m)'
         /\ \A m : (\E j \in 1..Len(sendBuf') : m = DataSeg(sendBuf'[j])) => DataOK(m)'
<1>1. ASSUME NEW m \in Segment, DataOK(m), m.type = "DATA", run <= 1
      PROVE  /\ EndOf(m) <= next_seqNum'
             /\ \A i \in 1..Len(sendBuf') : EndOf(m) <= sendBuf'[i].seq \/ EndOf(sendBuf'[i]) <= EndOf(m)
  <2>1. m.seq \in Nat /\ Len(m.data) \in Nat
    BY DEF Segment
  <2>2. EndOf(m) \in Nat
    BY <2>1 DEF EndOf
  <2>3. EndOf(m) <= next_seqNum /\ NotInside(EndOf(m))
    BY <1>1 DEF DataOK
  <2> QED  BY <2>2, <2>3, AppendBufIsStream, AppendBufFacts
<1>2. run' = run
  BY DEF AppendBuf
<1>3. ASSUME NEW m \in Segment, DataOK(m) PROVE DataOK(m)'
  BY <1>1, <1>2, <1>3 DEF DataOK, NotInside, EndOf
<1>4. ASSUME NEW m, NEW j \in 1..Len(sendBuf), m = DataSeg(sendBuf'[j]) PROVE DataOK(m)'
  <2>1. sendBuf'[j] = sendBuf[j] /\ sendBuf[j] \in SegBuf
    BY AppendBufFacts, BufFields DEF IInv
  <2>2. m \in Segment
    BY <1>4, <2>1 DEF SegBuf, Segment, SegTypes, DataSeg
  <2>3. DataOK(m)
    BY <1>4, <2>1, BufferedDataOK
  <2> QED  BY <2>2, <2>3, <1>3
<1>5. ASSUME NEW m, m = DataSeg(NewBuf(len)) PROVE DataOK(m)'
  <2>1. m.type = "DATA" /\ m.seq = next_seqNum /\ m.data = Bytes(next_seqNum, len)
    BY <1>5 DEF DataSeg, NewBuf
  <2>2. /\ next_seqNum' = next_seqNum + len /\ len \in Nat /\ next_seqNum \in Nat
        /\ run \in Nat /\ run # 0
    BY AppendBufFacts
  <2>3. /\ Len(m.data) = len
        /\ \A j \in 1..len : m.data[j][1] \in 1..run /\ m.data[j][2] = m.seq + j
    BY <2>1, <2>2 DEF Bytes
  <2>4. EndOf(m) = next_seqNum'
    BY <2>1, <2>2, <2>3 DEF EndOf
  <2>5. \A i \in 1..Len(sendBuf') : EndOf(sendBuf'[i]) <= EndOf(m)
    BY <2>4, AppendBufIsStream DEF BufferIsStream, EndOf
  <2> QED  BY <2>1, <2>2, <2>3, <2>4, <2>5, <1>2 DEF DataOK, NotInside, EndOf
<1>6. ASSUME NEW m, NEW j \in 1..Len(sendBuf'), m = DataSeg(sendBuf'[j]) PROVE DataOK(m)'
  <2>1. j \in 1..Len(sendBuf) \/ (j = Len(sendBuf) + 1 /\ sendBuf'[j] = NewBuf(len))
    BY AppendBufFacts DEF IInv, TypeOK
  <2> QED  BY <2>1, <1>4, <1>5, <1>6
<1> QED  BY <1>3, <1>6

\* What both ways to send have in common.
LEMMA SendDataStep ==
  ASSUME IInv, UNCHANGED serverVars, NEW len \in SegLens, AppendBuf(len),
         toServer' \in Seq(Segment),
         \A i \in 1..Len(toServer') :
           \/ \E j \in 1..Len(toServer) : toServer'[i] = toServer[j]
           \/ \E j \in 1..Len(sendBuf') : toServer'[i] = DataSeg(sendBuf'[j]),
         unSent' \in 0..Len(sendBuf'), unAck_segNum' \in Nat, WindowBookkeeping'
  PROVE  IInv'
<1> USE DEF IInv
<1>1. UNCHANGED <<run, cpc, retry, cstate, chold, toClient>> /\ cpc = "open" /\ timers' \in Nat
  BY DEF AppendBuf, TypeOK
<1>2. TypeOK'
  BY <1>1, AppendBufFacts, SMTT(30) DEF TypeOK, serverVars
<1>3. BufferIsStream' /\ acked' = acked
  BY AppendBufIsStream
<1>4. BufferByPhase'
  BY <1>1 DEF BufferByPhase
<1>5. HoldOK' /\ ServerStream' /\ FitsStaysTrue' /\ BufferFits'
  BY <1>1 DEF HoldOK, ServerStream, FitsStaysTrue, BufferFits, usedBufLen, serverVars
<1>0. /\ next_seqNum' = next_seqNum + len /\ len \in Nat /\ next_seqNum \in Nat
      /\ expect_seqNum \in Nat
  BY AppendBufFacts DEF TypeOK
<1>6. ASSUME NEW x \in Nat, x <= next_seqNum, NotInside(x) PROVE NotInside(x)'
  BY <1>6, AppendBufIsStream DEF NotInside, EndOf
<1>7. StreamsAgree'
  <2>1. run <= 1 => expect_seqNum \in Nat /\ expect_seqNum <= next_seqNum' /\ NotInside(expect_seqNum)
        /\ expect_seqNum <= next_seqNum /\ acked <= expect_seqNum
    <3>1. run <= 1 => /\ expect_seqNum <= next_seqNum /\ NotInside(expect_seqNum)
                      /\ acked <= expect_seqNum
      BY DEF StreamsAgree
    <3> QED  BY <3>1, <1>0
  <2>2. run <= 1 => \A i \in 1..Len(sendBuf') : expect_seqNum <= sendBuf'[i].seq
                                              \/ EndOf(sendBuf'[i]) <= expect_seqNum
    BY <2>1, AppendBufIsStream
  <2> QED  BY <1>1, <1>3, <2>1, <2>2 DEF StreamsAgree, NotInside, EndOf, serverVars
<1>8. ASSUME NEW m \in Segment, AckOK(m) PROVE AckOK(m)'
  <2>1. run <= 1 /\ m.type = "DATAACK" =>
          m.ack \in Nat /\ m.ack <= expect_seqNum /\ NotInside(m.ack)
    BY <1>8 DEF AckOK, Segment
  <2>2. run <= 1 /\ m.type = "DATAACK" => m.ack <= next_seqNum
    <3>1. run <= 1 => expect_seqNum <= next_seqNum
      BY DEF StreamsAgree
    <3> QED  BY <2>1, <3>1, <1>0
  <2> QED  BY <2>1, <2>2, <1>1, <1>6 DEF AckOK, serverVars
<1>9. SegmentsOK'
  <2>1. ASSUME NEW i \in 1..Len(toServer') PROVE DataOK(toServer[i])'
    <3>1. CASE \E j \in 1..Len(toServer) : toServer'[i] = toServer[j]
      <4>1. PICK m \in Segment : toServer'[i] = m /\ DataOK(m)
        BY <3>1 DEF TypeOK, SegmentsOK
      <4>2. DataOK(m)'
        BY <4>1, AppendDataOK
      <4> QED  BY <4>1, <4>2
    <3>2. CASE \E j \in 1..Len(sendBuf') : toServer'[i] = DataSeg(sendBuf'[j])
      <4>1. PICK m : toServer'[i] = m /\ \E j \in 1..Len(sendBuf') : m = DataSeg(sendBuf'[j])
        BY <3>2
      <4>2. DataOK(m)'
        BY <4>1, AppendDataOK
      <4> QED  BY <4>1, <4>2
    <3> QED  BY <3>1, <3>2
  <2>2. DataOK(shold.seg)'
    <3>1. PICK m \in Segment : shold.seg = m /\ DataOK(m)
      BY DEF TypeOK, ServerHold, SegmentsOK
    <3>2. DataOK(m)' /\ shold'.seg = m
      BY <3>1, AppendDataOK DEF serverVars
    <3> QED  BY <3>2
  <2>3. ASSUME NEW i \in 1..Len(toClient) PROVE AckOK(toClient[i])'
    <3>1. PICK m \in Segment : toClient[i] = m /\ AckOK(m)
      BY DEF TypeOK, SegmentsOK
    <3>2. AckOK(m)' /\ toClient'[i] = m
      BY <3>1, <1>1, <1>8
    <3> QED  BY <3>2
  <2>4. AckOK(chold.seg)'
    <3>1. PICK m \in Segment : chold.seg = m /\ AckOK(m)
      BY DEF TypeOK, ClientHold, SegmentsOK
    <3>2. AckOK(m)' /\ chold'.seg = m
      BY <3>1, <1>1, <1>8
    <3> QED  BY <3>2
  <2>5. (\A i \in 1..Len(toServer) : DataOK(toServer[i]))'
    BY <2>1
  <2>6. (\A i \in 1..Len(toClient) : AckOK(toClient[i]))'
    BY <2>3, <1>1
  <2> QED  BY <2>2, <2>4, <2>5, <2>6 DEF SegmentsOK
<1> QED  BY <1>2, <1>3, <1>4, <1>5, <1>7, <1>9

\* What the invariant says of the window, in numbers.
LEMMA WindowFacts ==
  ASSUME IInv
  PROVE  /\ Len(sendBuf) \in Nat /\ unSent \in 0..Len(sendBuf)
         /\ unAck_segNum = (IF unSent = 0 THEN Len(sendBuf) ELSE unSent - 1)
         /\ unAck_segNum \in 0..GBN_WINDOW /\ GBN_WINDOW \in Nat /\ GBN_WINDOW > 0
         /\ unSent # 0 => unAck_segNum = GBN_WINDOW
<1>1. Len(sendBuf) \in Nat /\ unSent \in 0..Len(sendBuf) /\ unAck_segNum \in Nat
  BY DEF IInv, TypeOK
<1>2. /\ unAck_segNum = SentCount /\ unAck_segNum <= GBN_WINDOW
      /\ UnsentCount > 0 => unAck_segNum = GBN_WINDOW
  BY DEF IInv, WindowBookkeeping
<1>3. GBN_WINDOW \in Nat /\ GBN_WINDOW > 0
  BY ConstantsAssumption
<1> QED  BY <1>1, <1>2, <1>3 DEF SentCount, UnsentCount

LEMMA WindowBookkeepingNext ==
  ASSUME Len(sendBuf') \in Nat, unSent' \in 0..Len(sendBuf'),
         unAck_segNum' = (IF unSent' = 0 THEN Len(sendBuf') ELSE unSent' - 1),
         unAck_segNum' <= GBN_WINDOW,
         unSent' # 0 => unAck_segNum' = GBN_WINDOW
  PROVE  WindowBookkeeping'
<1>2. SentCount' = unAck_segNum'
  BY DEF SentCount
<1>3. UnsentCount' = Len(sendBuf') - unAck_segNum'
  BY <1>2 DEF UnsentCount
<1>4. unSent' = 0 => ~(UnsentCount' > 0)
  BY <1>3
<1> QED  BY <1>2, <1>4 DEF WindowBookkeeping

\* The new segment on the path.
LEMMA SendNew ==
  ASSUME IInv, NEW len \in SegLens, AppendBuf(len),
         toServer' = SipSend(toServer, <<DataSeg(NewBuf(len))>>)
  PROVE  /\ toServer' \in Seq(Segment)
         /\ \A i \in 1..Len(toServer') :
              \/ \E j \in 1..Len(toServer) : toServer'[i] = toServer[j]
              \/ \E j \in 1..Len(sendBuf') : toServer'[i] = DataSeg(sendBuf'[j])
<1> DEFINE m == DataSeg(NewBuf(len))
           j == Len(sendBuf) + 1
<1>1. m \in Segment /\ TypeOK
  BY NewBufType DEF IInv
<1>2. j \in 1..Len(sendBuf') /\ sendBuf'[j] = NewBuf(len)
  BY AppendBufFacts, WindowFacts
<1>3. DataSeg(sendBuf'[j]) = m
  BY <1>2
<1> DEFINE p == SipSend(toServer, <<m>>)
<1>4. toServer' = p
  OBVIOUS
<1> HIDE DEF m
<1>5. /\ p \in Seq(Segment)
      /\ \A i \in 1..Len(p) : (\E q \in 1..Len(toServer) : p[i] = toServer[q]) \/ p[i] = m
  BY <1>1, SendOne
<1> HIDE DEF p, j
<1> QED  BY <1>2, <1>3, <1>4, <1>5

LEMMA ClientSendStep ==
  ASSUME IInv, UNCHANGED serverVars, NEW len \in SegLens, ClientSend(len)
  PROVE  IInv'
<1> DEFINE L == Len(sendBuf)
<1>1. AppendBuf(len) /\ Len(sendBuf') = L + 1
  BY AppendBufFacts DEF ClientSend
<1>2. /\ L \in Nat /\ unSent \in 0..L
      /\ unAck_segNum = (IF unSent = 0 THEN L ELSE unSent - 1)
      /\ unAck_segNum \in 0..GBN_WINDOW /\ GBN_WINDOW \in Nat
      /\ unSent # 0 => unAck_segNum = GBN_WINDOW
  BY WindowFacts
<1>3. CASE WindowOpen
  <2>1. /\ toServer' = SipSend(toServer, <<DataSeg(NewBuf(len))>>)
        /\ unAck_segNum' = unAck_segNum + 1 /\ unSent' = unSent
        /\ unAck_segNum < GBN_WINDOW
    BY <1>3 DEF ClientSend, WindowOpen
  <2> HIDE DEF L
  <2>2. /\ unSent' \in 0..Len(sendBuf') /\ unAck_segNum' \in Nat
        /\ unSent' = 0 /\ unAck_segNum' = Len(sendBuf') /\ unAck_segNum' <= GBN_WINDOW
    BY <2>1, <1>1, <1>2
  <2>3. WindowBookkeeping'
    BY <2>2 DEF WindowBookkeeping, SentCount, UnsentCount
  <2> QED  BY <1>1, <2>1, <2>2, <2>3, SendNew, SendDataStep
<1>4. CASE ~WindowOpen
  <2>1. /\ toServer' = toServer /\ unAck_segNum' = unAck_segNum
        /\ unSent' = IF unSent = 0 THEN L + 1 ELSE unSent
        /\ ~(unAck_segNum < GBN_WINDOW)
    BY <1>4 DEF ClientSend, WindowOpen
  <2> HIDE DEF L
  <2>2. /\ unSent' \in 0..Len(sendBuf') /\ unAck_segNum' <= GBN_WINDOW /\ unSent' # 0
        /\ unAck_segNum' = unSent' - 1 /\ unAck_segNum' = GBN_WINDOW
        /\ Len(sendBuf') \in Nat /\ unAck_segNum' \in Nat
    BY <2>1, <1>1, <1>2
  <2>3. WindowBookkeeping'
    BY <2>2, WindowBookkeepingNext
  <2>4. toServer' \in Seq(Segment)
    BY <2>1 DEF IInv, TypeOK
  <2> QED  BY <1>1, <2>1, <2>2, <2>3, <2>4, SendDataStep
<1> QED  BY <1>3, <1>4

\* stcp_send finds a segment that waits only while the window is full, so it
\* sends the new segment or none.
LEMMA StcpSendStep ==
  ASSUME IInv, UNCHANGED serverVars, NEW len \in SegLens, StcpSend(len)
  PROVE  IInv'
<1> DEFINE L == Len(sendBuf)
<1>1. AppendBuf(len) /\ Len(sendBuf') = L + 1
  BY AppendBufFacts DEF StcpSend
<1>2. /\ L \in Nat /\ unSent \in 0..L
      /\ unAck_segNum = (IF unSent = 0 THEN L ELSE unSent - 1)
      /\ unAck_segNum \in 0..GBN_WINDOW /\ GBN_WINDOW \in Nat /\ GBN_WINDOW > 0
      /\ unSent # 0 => unAck_segNum = GBN_WINDOW
  BY WindowFacts
<1>3. CASE sendBuf = <<>>
  <2>1. /\ toServer' = SipSend(toServer, <<DataSeg(NewBuf(len))>>)
        /\ unAck_segNum' = unAck_segNum + 1 /\ unSent' = unSent /\ L = 0
    BY <1>3 DEF StcpSend
  <2> HIDE DEF L
  <2>2. /\ unSent' \in 0..Len(sendBuf') /\ unAck_segNum' \in Nat
        /\ unSent' = 0 /\ unAck_segNum' = Len(sendBuf') /\ unAck_segNum' <= GBN_WINDOW
    BY <2>1, <1>1, <1>2
  <2>3. WindowBookkeeping'
    BY <2>2 DEF WindowBookkeeping, SentCount, UnsentCount
  <2> QED  BY <1>1, <2>1, <2>2, <2>3, SendNew, SendDataStep
<1>4. CASE sendBuf # <<>>
  <2> DEFINE first == IF unSent = 0 THEN L + 1 ELSE unSent
             room  == IF WindowOpen THEN GBN_WINDOW - unAck_segNum ELSE 0
             n     == IF (L + 1) - first + 1 <= room THEN (L + 1) - first + 1 ELSE room
             out   == SubSeq(sendBuf', first, first + n - 1)
  <2>1. /\ toServer' = SipSend(toServer, SendAll(out))
        /\ unAck_segNum' = unAck_segNum + n
        /\ unSent' = IF first + n <= L + 1 THEN first + n ELSE 0
    BY <1>4 DEF StcpSend
  <2>2. \/ first = L + 1 /\ n = 1 /\ unSent = 0 /\ unAck_segNum < GBN_WINDOW
        \/ first \in 1..(L + 1) /\ n = 0 /\ unAck_segNum = GBN_WINDOW /\ unAck_segNum = first - 1
    <3> HIDE DEF L
    <3>1. CASE unSent = 0 /\ unAck_segNum < GBN_WINDOW
      <4>1. WindowOpen /\ first = L + 1 /\ room >= 1
        BY <3>1, <1>2 DEF WindowOpen
      <4> HIDE DEF first, room
      <4>2. (L + 1) - first + 1 = 1
        BY <4>1, <1>2
      <4> QED  BY <3>1, <4>1, <4>2
    <3>2. CASE unAck_segNum = GBN_WINDOW
      <4>1. ~WindowOpen
        BY <3>2, <1>2 DEF WindowOpen
      <4>2. room = 0
        BY <4>1
      <4>3. first \in 1..(L + 1) /\ unAck_segNum = first - 1
        BY <1>2
      <4> HIDE DEF first, room
      <4>4. n = 0
        BY <4>2, <4>3, <1>2
      <4> QED  BY <3>2, <4>3, <4>4
    <3> QED  BY <3>1, <3>2, <1>2
  <2> HIDE DEF L, first, n
  <2>3. /\ unSent' \in 0..Len(sendBuf') /\ unAck_segNum' \in Nat /\ Len(sendBuf') \in Nat
        /\ unAck_segNum' = (IF unSent' = 0 THEN Len(sendBuf') ELSE unSent' - 1)
        /\ unAck_segNum' <= GBN_WINDOW
        /\ unSent' # 0 => unAck_segNum' = GBN_WINDOW
    BY <2>1, <2>2, <1>1, <1>2
  <2>4. WindowBookkeeping'
    BY <2>3, WindowBookkeepingNext
  <2>5. /\ out \in Seq(SegBuf)
        /\ \A i \in 1..Len(out) : \E j \in 1..Len(sendBuf') : out[i] = sendBuf'[j]
    <3> DEFINE a == first - 1
               b == first + n - 1
    <3>1. a \in 0..Len(sendBuf') /\ b \in a..Len(sendBuf') /\ a + 1 = first
      BY <2>2, <1>1, <1>2
    <3>2. out = SubSeq(sendBuf', a + 1, b)
      BY <3>1
    <3>3. sendBuf' \in Seq(SegBuf)
      BY <1>1, AppendBufFacts
    <3> HIDE DEF a, b, out
    <3>4. /\ out \in Seq(SegBuf) /\ Len(out) = b - a
          /\ \A i \in 1..(b - a) : a + i \in 1..Len(sendBuf') /\ out[i] = sendBuf'[a + i]
      BY <3>1, <3>2, <3>3, SubSeqElements
    <3> QED  BY <3>4
  <2> HIDE DEF out
  <2>6. /\ SendAll(out) \in Seq(Segment) /\ Len(SendAll(out)) = Len(out)
        /\ \A i \in 1..Len(out) : SendAll(out)[i] = DataSeg(out[i])
    BY <2>5, SendAllType
  <2>7. \A i \in 1..Len(SendAll(out)) :
          \E j \in 1..Len(sendBuf') : SendAll(out)[i] = DataSeg(sendBuf'[j])
    BY <2>5, <2>6
  <2>8. /\ toServer' \in Seq(Segment)
        /\ \A i \in 1..Len(toServer') :
             \/ \E j \in 1..Len(toServer) : toServer'[i] = toServer[j]
             \/ \E j \in 1..Len(SendAll(out)) : toServer'[i] = SendAll(out)[j]
    <3>1. toServer \in Seq(Segment)
      BY DEF IInv, TypeOK
    <3> QED  BY <3>1, <2>1, <2>6, SipSendType
  <2>9. \A i \in 1..Len(toServer') :
             \/ \E j \in 1..Len(toServer) : toServer'[i] = toServer[j]
             \/ \E j \in 1..Len(sendBuf') : toServer'[i] = DataSeg(sendBuf'[j])
    BY <2>7, <2>8
  <2> QED  BY <1>1, <2>3, <2>4, <2>8, <2>9, SendDataStep
<1> QED  BY <1>3, <1>4

-----------------------------------------------------------------------------
(* The server.                                                              *)

\* The server's steps leave the client alone, and what the invariant says of it.
LEMMA ClientUnchanged ==
  ASSUME IInv, UNCHANGED clientVars
  PROVE  /\ UNCHANGED <<run, cpc, retry, cstate, tcbVars, timers, chold>>
         /\ BufferIsStream' /\ BufferByPhase' /\ WindowBookkeeping' /\ HoldOK' /\ acked' = acked
         /\ \A m : DataOK(m) => DataOK(m)'
         /\ \A x : NotInside(x) => NotInside(x)'
<1>1. UNCHANGED <<run, cpc, retry, cstate, tcbVars, timers, chold>>
  BY DEF clientVars, tcbVars
<1>2. BufferIsStream' /\ BufferByPhase' /\ WindowBookkeeping' /\ HoldOK' /\ acked' = acked
  BY <1>1 DEF IInv, BufferIsStream, WindowBookkeeping, BufferByPhase, HoldOK, NoHold, Control,
         ClientHandles, SentCount, UnsentCount, acked, EndOf, Bytes, tcbVars
<1>3. ASSUME NEW m, DataOK(m) PROVE DataOK(m)'
  BY <1>1, <1>3 DEF DataOK, NotInside, EndOf, tcbVars
<1>4. ASSUME NEW x, NotInside(x) PROVE NotInside(x)'
  BY <1>1, <1>4 DEF NotInside, EndOf, tcbVars
<1> QED  BY <1>1, <1>2, <1>3, <1>4

LEMMA NoHoldType == ServerNoHold \in ServerHold /\ DataOK(ServerNoHold.seg) /\ DataOK(ServerNoHold.seg)'
<1>1. ServerNoHold \in ServerHold
  BY DEF ServerNoHold, ServerHold, Control, Segment, SegTypes
<1>2. ServerNoHold.seg.type # "DATA"
  BY DEF ServerNoHold, Control
<1> QED  BY <1>1, <1>2 DEF DataOK, ServerNoHold, Control

\* Steps that leave the server's stream alone; they may send a reply that
\* acknowledges nothing.
LEMMA ServerControlStep ==
  ASSUME IInv, UNCHANGED <<clientVars, toServer, expect_seqNum, recvBuf, read>>,
         shold' = shold \/ shold' = ServerNoHold,
         toClient' \in Seq(Segment),
         \A i \in 1..Len(toClient') : \/ \E j \in 1..Len(toClient) : toClient'[i] = toClient[j]
                                      \/ toClient'[i].type # "DATAACK",
         spc' \in ServerPcs, want' \in Nat, sstate' \in ServerStates,
         spc' # "init"
  PROVE  IInv'
<1> USE DEF IInv
<1>1. UNCHANGED <<run, cpc, retry, cstate, tcbVars, timers, chold>>
  BY ClientUnchanged
<1>2. TypeOK'
  BY <1>1, NoHoldType DEF TypeOK, tcbVars
<1>3. BufferIsStream' /\ BufferByPhase' /\ WindowBookkeeping' /\ HoldOK' /\ acked' = acked
  BY ClientUnchanged
<1>4. ServerStream' /\ BufferFits'
  BY <1>1 DEF ServerStream, BufferFits, usedBufLen
<1>5. FitsStaysTrue'
  <2>1. CASE shold' = shold
    BY <2>1 DEF FitsStaysTrue, usedBufLen
  <2>2. CASE shold' = ServerNoHold
    BY <2>2 DEF FitsStaysTrue, ServerNoHold
  <2> QED  BY <2>1, <2>2
<1>6. StreamsAgree'
  BY <1>1, <1>3 DEF StreamsAgree, NotInside, EndOf, tcbVars
<1>7. SegmentsOK'
  <2>1. DataOK(shold.seg)'
    <3>1. CASE shold' = shold
      BY <3>1, <1>1 DEF SegmentsOK, DataOK, NotInside, EndOf, tcbVars
    <3>2. CASE shold' = ServerNoHold
      BY <3>2 DEF DataOK, ServerNoHold, Control
    <3> QED  BY <3>1, <3>2
  <2>2. (\A i \in 1..Len(toServer) : DataOK(toServer[i]))'
    BY <1>1 DEF SegmentsOK, DataOK, NotInside, EndOf, tcbVars
  <2>3. (\A i \in 1..Len(toClient) : AckOK(toClient[i]))'
    BY <1>1 DEF SegmentsOK, AckOK, NotInside, EndOf, tcbVars
  <2>4. AckOK(chold.seg)'
    BY <1>1 DEF SegmentsOK, AckOK, NotInside, EndOf, tcbVars
  <2> QED  BY <2>1, <2>2, <2>3, <2>4 DEF SegmentsOK
<1> QED  BY <1>2, <1>3, <1>4, <1>5, <1>6, <1>7

LEMMA ServerAppStep ==
  ASSUME IInv, UNCHANGED clientVars,
         ServerSock \/ Accept \/ Accepted \/ (\E length \in RecvLens : Recv(length)) \/ ServerClose
  PROVE  IInv'
<1>1. UNCHANGED <<toServer, toClient, expect_seqNum, recvBuf, read, shold>>
  <2>1. CASE ServerSock
    <3>1. spc = "init" /\ expect_seqNum' = 0 /\ recvBuf' = <<>> /\ read' = read
          /\ UNCHANGED <<toServer, toClient, shold>>
      BY <2>1 DEF ServerSock
    <3>2. read = <<>> /\ recvBuf = <<>> /\ Len(read) + Len(recvBuf) = expect_seqNum
      BY <3>1 DEF IInv, ServerStream
    <3> QED  BY <3>1, <3>2
  <2> QED  BY <2>1 DEF Accept, Accepted, Recv, ServerClose
<1>2. toClient' \in Seq(Segment)
      /\ \A i \in 1..Len(toClient') : \E j \in 1..Len(toClient) : toClient'[i] = toClient[j]
  BY <1>1 DEF IInv, TypeOK
<1>3. /\ spc' \in ServerPcs /\ want' \in Nat /\ sstate' \in ServerStates
      /\ spc' # "init"
  BY ConstantsAssumption DEF IInv, TypeOK, ServerPcs, ServerStates,
     ServerSock, Accept, Accepted, Recv, ServerClose
<1> QED  BY <1>1, <1>2, <1>3, ServerControlStep

\* A reply on the path to the client.
LEMMA ReplyFacts ==
  ASSUME TypeOK, NEW type \in SegTypes, NEW ack \in Nat, Reply(type, ack)
  PROVE  /\ toClient' \in Seq(Segment) /\ UNCHANGED <<want, read, toServer>>
         /\ shold' = ServerNoHold
         /\ \A i \in 1..Len(toClient') :
              \/ \E j \in 1..Len(toClient) : toClient'[i] = toClient[j]
              \/ toClient'[i].type = type /\ toClient'[i].ack = ack
<1> DEFINE m == Control(type, 0, ack)
<1>1. m \in Segment /\ m.type = type /\ m.ack = ack
  BY DEF Control, Segment
<1>2. toClient' = Append(toClient, m) /\ UNCHANGED <<want, read, toServer>> /\ shold' = ServerNoHold
  BY DEF Reply
<1>3. toClient \in Seq(Segment)
  BY DEF TypeOK
<1> HIDE DEF m
<1> QED  BY <1>1, <1>2, <1>3

LEMMA ServerSynFinStep ==
  ASSUME IInv, UNCHANGED clientVars, ServerSyn \/ ServerFin
  PROVE  IInv'
<1>0. shold.seg.ack \in Nat /\ TypeOK
  BY DEF IInv, TypeOK, ServerHold, Segment
<1>1. CASE ServerFin /\ sstate = "NULL"
  <2>1. UNCHANGED <<toServer, toClient, expect_seqNum, recvBuf, read, want, sstate>>
        /\ shold' = ServerNoHold /\ spc' = "crashed"
    BY <1>1 DEF ServerFin
  <2>2. toClient' \in Seq(Segment) /\ spc' \in ServerPcs /\ want' \in Nat /\ sstate' \in ServerStates
        /\ \A i \in 1..Len(toClient') : \E j \in 1..Len(toClient) : toClient'[i] = toClient[j]
    BY <1>0, <2>1 DEF TypeOK, ServerPcs
  <2> QED  BY <2>1, <2>2, ServerControlStep
<1>2. CASE ServerSyn \/ (ServerFin /\ sstate # "NULL")
  <2>1. PICK type \in {"SYNACK", "FINACK"} : Reply(type, shold.seg.ack)
    BY <1>2 DEF ServerSyn, ServerFin
  <2>2. type \in SegTypes
    BY <2>1 DEF SegTypes
  <2>3. /\ UNCHANGED <<expect_seqNum, recvBuf, spc>> /\ sstate' \in {"CONNECTED", "CLOSEWAIT"}
        /\ spc # "init"
    BY <1>2 DEF ServerSyn, ServerFin, IInv, ServerStream
  <2>4. /\ toClient' \in Seq(Segment) /\ UNCHANGED <<want, read, toServer>>
        /\ shold' = ServerNoHold
        /\ \A i \in 1..Len(toClient') : \/ \E j \in 1..Len(toClient) : toClient'[i] = toClient[j]
                                        \/ toClient'[i].type = type /\ toClient'[i].ack = shold.seg.ack
    BY <1>0, <2>1, <2>2, ReplyFacts
  <2>5. spc' \in ServerPcs /\ want' \in Nat /\ sstate' \in ServerStates
    BY <1>0, <2>3, <2>4 DEF TypeOK, ServerStates
  <2> QED  BY <2>3, <2>4, <2>5, ServerControlStep
<1> QED  BY <1>1, <1>2

\* stcp_server_recv moves bytes from the buffer to the application.
LEMMA ReceivedStep ==
  ASSUME IInv, UNCHANGED clientVars, Received
  PROVE  IInv'
<1> USE DEF IInv
<1> DEFINE out == SubSeq(recvBuf, 1, want)
           rest == SubSeq(recvBuf, want + 1, Len(recvBuf))
<1>1. /\ UNCHANGED <<run, cpc, retry, cstate, tcbVars, timers, chold>>
      /\ UNCHANGED <<toServer, toClient, sstate, expect_seqNum, shold>>
      /\ spc' = "open" /\ want' = 0 /\ read' = read \o out /\ recvBuf' = rest
  BY ClientUnchanged DEF Received, usedBufLen
<1>2. /\ recvBuf \in Seq(Byte) /\ read \in Seq(Byte) /\ want \in 0..Len(recvBuf)
  BY DEF Received, usedBufLen, TypeOK
<1>3. /\ out \in Seq(Byte) /\ Len(out) = want
      /\ \A i \in 1..want : i \in 1..Len(recvBuf) /\ out[i] = recvBuf[i]
  BY <1>2
<1>4. /\ rest \in Seq(Byte) /\ Len(rest) = Len(recvBuf) - want
      /\ \A i \in 1..(Len(recvBuf) - want) : want + i \in 1..Len(recvBuf) /\ rest[i] = recvBuf[want + i]
  BY <1>2
<1> HIDE DEF out, rest
<1>5. /\ read' \in Seq(Byte) /\ Len(read') = Len(read) + want
      /\ \A i \in 1..Len(read') : \/ i \in 1..Len(read) /\ read'[i] = read[i]
                                  \/ i - Len(read) \in 1..want /\ read'[i] = out[i - Len(read)]
  <2> DEFINE r == read \o out
  <2>1. /\ r \in Seq(Byte) /\ Len(r) = Len(read) + Len(out)
        /\ \A i \in 1..Len(r) : \/ i \in 1..Len(read) /\ r[i] = read[i]
                                \/ i - Len(read) \in 1..Len(out) /\ r[i] = out[i - Len(read)]
    BY <1>2, <1>3, ConcatElements
  <2> HIDE DEF r
  <2>2. read' = r
    BY <1>1 DEF r
  <2> QED  BY <2>1, <2>2, <1>3
<1>6. TypeOK'
  BY <1>1, <1>4, <1>5 DEF TypeOK, ServerPcs, tcbVars
<1>7. BufferIsStream' /\ BufferByPhase' /\ WindowBookkeeping' /\ HoldOK' /\ acked' = acked
  BY ClientUnchanged
<1>8. ServerStream'
  <2>1. Len(read') + Len(recvBuf') = expect_seqNum
    BY <1>1, <1>2, <1>4, <1>5 DEF ServerStream
  <2>2. ASSUME NEW i \in 1..Len(read') PROVE read'[i][1] \in 1..run /\ read'[i][2] = i
    <3>1. CASE i \in 1..Len(read) /\ read'[i] = read[i]
      BY <3>1 DEF ServerStream
    <3>2. CASE i - Len(read) \in 1..want /\ read'[i] = out[i - Len(read)]
      <4> DEFINE j == i - Len(read)
      <4>1. j \in 1..want /\ read'[i] = out[j] /\ i = Len(read) + j
        BY <3>2, <1>2
      <4> HIDE DEF j
      <4>2. j \in 1..Len(recvBuf) /\ read'[i] = recvBuf[j]
        BY <4>1, <1>3
      <4> QED  BY <4>1, <4>2 DEF ServerStream
    <3> QED  BY <3>1, <3>2, <1>5
  <2>3. ASSUME NEW i \in 1..Len(recvBuf')
        PROVE  recvBuf'[i][1] \in 1..run /\ recvBuf'[i][2] = Len(read') + i
    <3>1. want + i \in 1..Len(recvBuf) /\ recvBuf'[i] = recvBuf[want + i]
      BY <1>1, <1>4
    <3>2. Len(read) + (want + i) = Len(read') + i
      BY <1>2, <1>5
    <3> QED  BY <3>1, <3>2 DEF ServerStream
  <2> QED  BY <2>1, <2>2, <2>3, <1>1 DEF ServerStream
<1>9. FitsStaysTrue' /\ BufferFits'
  <2>1. Len(recvBuf') \in Nat /\ Len(recvBuf) \in Nat /\ Len(recvBuf') <= Len(recvBuf)
    BY <1>1, <1>2, <1>4
  <2>2. RECEIVE_BUF_SIZE \in Nat /\ Len(shold.seg.data) \in Nat
    BY ConstantsAssumption DEF TypeOK, ServerHold, Segment
  <2> QED  BY <2>1, <2>2, <1>1 DEF FitsStaysTrue, BufferFits, usedBufLen
<1>10. SegmentsOK' /\ StreamsAgree'
  BY <1>1, <1>7 DEF SegmentsOK, StreamsAgree, DataOK, AckOK, NotInside, EndOf, tcbVars
<1> QED  BY <1>6, <1>7, <1>8, <1>9, <1>10

\* seghandler of the server takes a segment.
LEMMA ServerRecvStep ==
  ASSUME IInv, UNCHANGED clientVars,
         NEW i \in Arriving(toServer), NEW rslt \in RecvResults, ServerRecv(i, rslt)
  PROVE  IInv'
<1> USE DEF IInv
<1>1. i \in 1..Len(toServer) /\ toServer \in Seq(Segment)
  BY DEF Arriving, TypeOK
<1>2. /\ toServer' \in Seq(Segment)
      /\ \A k \in 1..Len(toServer') : \E j \in 1..Len(toServer) : toServer'[k] = toServer[j]
  BY <1>1, RemoveAtType DEF ServerRecv
<1> DEFINE m == toServer[i]
<1>3. m \in Segment /\ DataOK(m)
  BY <1>1 DEF SegmentsOK
<1>4. /\ UNCHANGED <<run, cpc, retry, cstate, tcbVars, timers, chold>>
      /\ UNCHANGED <<want, sstate, expect_seqNum, recvBuf, read, toClient>>
      /\ spc' \in {spc, "crashed"}
  BY ClientUnchanged DEF ServerRecv
<1>5. \/ shold' = ServerNoHold
      \/ /\ ServerHandles(sstate, m.type)
         /\ shold' = [st |-> sstate, seg |-> m, fits |-> m.type = "DATA" /\ Fits(m)]
  BY DEF ServerRecv
<1> HIDE DEF m
<1>6. shold' \in ServerHold
  <2>1. CASE shold' = ServerNoHold
    BY <2>1, NoHoldType
  <2>2. CASE shold' # ServerNoHold
    <3>1. sstate \in {"LISTENING", "CONNECTED", "CLOSEWAIT"}
      BY <2>2, <1>5 DEF ServerHandles
    <3> DEFINE f == m.type = "DATA" /\ Fits(m)
    <3>2. f \in BOOLEAN /\ shold' = [st |-> sstate, seg |-> m, fits |-> f]
      BY <2>2, <1>5
    <3> HIDE DEF f
    <3> QED  BY <3>1, <3>2, <1>3 DEF ServerHold
  <2> QED  BY <2>1, <2>2
<1>7. TypeOK'
  BY <1>2, <1>4, <1>6 DEF TypeOK, ServerPcs, tcbVars
<1>8. BufferIsStream' /\ BufferByPhase' /\ WindowBookkeeping' /\ HoldOK' /\ acked' = acked
  BY ClientUnchanged
<1>a. spc' = "init" => spc = "init" /\ shold' = ServerNoHold
  BY <1>4, <1>5 DEF ServerStream, ServerHandles
<1>9. ServerStream' /\ BufferFits' /\ StreamsAgree'
  BY <1>4, <1>8, <1>a DEF ServerStream, BufferFits, usedBufLen, StreamsAgree, NotInside, EndOf, tcbVars
<1>10. FitsStaysTrue'
  <2>1. CASE shold' = ServerNoHold
    BY <2>1 DEF FitsStaysTrue, ServerNoHold
  <2>2. CASE shold' # ServerNoHold
    <3>1. shold'.seg = m /\ shold'.fits = (m.type = "DATA" /\ Fits(m))
      BY <2>2, <1>5
    <3>2. ASSUME Fits(m) PROVE m.seq = expect_seqNum /\ Len(m.data) + usedBufLen <= RECEIVE_BUF_SIZE
      <4>1. Len(m.data) \in Nat /\ usedBufLen \in Nat /\ RECEIVE_BUF_SIZE \in Nat
        BY <1>3, ConstantsAssumption DEF Segment, usedBufLen, TypeOK
      <4> QED  BY <3>2, <4>1 DEF Fits
    <3> QED  BY <3>1, <3>2, <1>4 DEF FitsStaysTrue, usedBufLen
  <2> QED  BY <2>1, <2>2
<1>11. SegmentsOK'
  <2>1. (DataOK(shold.seg))'
    <3>1. CASE shold' = ServerNoHold
      BY <3>1 DEF DataOK, ServerNoHold, Control
    <3>2. CASE shold' # ServerNoHold
      <4>1. shold'.seg = m
        BY <3>2, <1>5
      <4> QED  BY <4>1, <1>3, <1>4 DEF DataOK, NotInside, EndOf, tcbVars
    <3> QED  BY <3>1, <3>2
  <2>2. \A k \in 1..Len(toServer') : DataOK(toServer'[k])
    BY <1>2 DEF SegmentsOK
  <2>3. (\A k \in 1..Len(toServer) : DataOK(toServer[k]))'
    BY <2>2, <1>4 DEF DataOK, NotInside, EndOf, tcbVars
  <2>4. (\A k \in 1..Len(toClient) : AckOK(toClient[k]))' /\ AckOK(chold.seg)'
    BY <1>4 DEF SegmentsOK, AckOK, NotInside, EndOf, tcbVars
  <2> QED  BY <2>1, <2>3, <2>4 DEF SegmentsOK
<1> QED  BY <1>7, <1>8, <1>9, <1>10, <1>11

\* seghandler of the server acts on a data segment: what it appends is what the
\* client's buffer holds next, and ends between two segments.
LEMMA ServerDataStep ==
  ASSUME IInv, UNCHANGED clientVars, ServerData
  PROVE  IInv'
<1> USE DEF IInv
<1> DEFINE m == shold.seg
<1>1. m \in Segment /\ m.type = "DATA" /\ m.seq \in Nat /\ m.data \in Seq(Byte) /\ DataOK(m)
  BY DEF ServerData, TypeOK, ServerHold, Segment, SegmentsOK
<1>2. /\ expect_seqNum \in Nat /\ recvBuf \in Seq(Byte) /\ read \in Seq(Byte)
      /\ next_seqNum \in Nat /\ run \in Nat /\ RECEIVE_BUF_SIZE \in Nat
  BY ConstantsAssumption DEF TypeOK
<1>3. /\ UNCHANGED <<run, cpc, retry, cstate, tcbVars, timers, chold, next_seqNum>>
      /\ UNCHANGED <<spc, sstate>>
      /\ Reply("DATAACK", expect_seqNum')
      /\ \/ UNCHANGED <<recvBuf, expect_seqNum>>
         \/ shold.fits /\ recvBuf' = recvBuf \o m.data /\ expect_seqNum' = expect_seqNum + Len(m.data)
  BY ClientUnchanged DEF ServerData, tcbVars
<1> HIDE DEF m
<1>4. /\ recvBuf' \in Seq(Byte) /\ Len(recvBuf') <= RECEIVE_BUF_SIZE
      /\ expect_seqNum' \in Nat /\ expect_seqNum <= expect_seqNum'
      /\ run <= 1 => expect_seqNum' <= next_seqNum /\ NotInside(expect_seqNum')
      /\ Len(read) + Len(recvBuf') = expect_seqNum'
      /\ \A i \in 1..Len(recvBuf') : recvBuf'[i][1] \in 1..run /\ recvBuf'[i][2] = Len(read) + i
  <2>1. CASE shold.fits /\ recvBuf' = recvBuf \o m.data /\ expect_seqNum' = expect_seqNum + Len(m.data)
    <3>1. m.seq = expect_seqNum /\ Len(m.data) + Len(recvBuf) <= RECEIVE_BUF_SIZE
      BY <2>1 DEF FitsStaysTrue, usedBufLen, m
    <3>2. /\ recvBuf' \in Seq(Byte) /\ Len(recvBuf') = Len(recvBuf) + Len(m.data)
          /\ \A i \in 1..Len(recvBuf') :
               \/ i \in 1..Len(recvBuf) /\ recvBuf'[i] = recvBuf[i]
               \/ i - Len(recvBuf) \in 1..Len(m.data) /\ recvBuf'[i] = m.data[i - Len(recvBuf)]
      <4> DEFINE r == recvBuf \o m.data
      <4>1. /\ r \in Seq(Byte) /\ Len(r) = Len(recvBuf) + Len(m.data)
            /\ \A i \in 1..Len(r) : \/ i \in 1..Len(recvBuf) /\ r[i] = recvBuf[i]
                                   \/ /\ i - Len(recvBuf) \in 1..Len(m.data)
                                      /\ r[i] = m.data[i - Len(recvBuf)]
        BY <1>1, <1>2, ConcatElements
      <4> HIDE DEF r
      <4>2. recvBuf' = r
        BY <2>1 DEF r
      <4> QED  BY <4>1, <4>2
    <3>3. expect_seqNum' \in Nat /\ expect_seqNum <= expect_seqNum' /\ expect_seqNum' = EndOf(m)
      BY <1>1, <1>2, <2>1, <3>1 DEF EndOf
    <3>4. run <= 1 => expect_seqNum' <= next_seqNum /\ NotInside(expect_seqNum')
      BY <3>3, <1>1 DEF DataOK
    <3>5. Len(recvBuf') <= RECEIVE_BUF_SIZE
      BY <1>1, <1>2, <3>1, <3>2
    <3>6. ASSUME NEW i \in 1..Len(recvBuf')
          PROVE  recvBuf'[i][1] \in 1..run /\ recvBuf'[i][2] = Len(read) + i
      <4>1. CASE i \in 1..Len(recvBuf) /\ recvBuf'[i] = recvBuf[i]
        BY <4>1 DEF ServerStream
      <4>2. CASE i - Len(recvBuf) \in 1..Len(m.data) /\ recvBuf'[i] = m.data[i - Len(recvBuf)]
        <5> DEFINE j == i - Len(recvBuf)
        <5>1. j \in 1..Len(m.data) /\ recvBuf'[i] = m.data[j]
          BY <4>2
        <5>2. Len(read) + Len(recvBuf) = expect_seqNum
          BY DEF ServerStream
        <5>3. Len(read) + i = m.seq + j
          <6>1. i \in Nat /\ Len(read) \in Nat /\ Len(recvBuf) \in Nat
            BY <1>2, <3>2
          <6> QED  BY <5>2, <6>1, <3>1, <1>2
        <5> HIDE DEF j
        <5>4. m.data[j][1] \in 1..run /\ m.data[j][2] = m.seq + j
          BY <5>1, <1>1 DEF DataOK
        <5> QED  BY <5>1, <5>3, <5>4
      <4> QED  BY <4>1, <4>2, <3>2
    <3>7. Len(read) + Len(recvBuf') = expect_seqNum'
      BY <1>1, <1>2, <2>1, <3>2 DEF ServerStream
    <3> QED  BY <3>2, <3>3, <3>4, <3>5, <3>6, <3>7
  <2>2. CASE UNCHANGED <<recvBuf, expect_seqNum>>
    BY <2>2, <1>2 DEF ServerStream, BufferFits, usedBufLen, StreamsAgree
  <2> QED  BY <2>1, <2>2, <1>3
<1>5. /\ toClient' \in Seq(Segment) /\ UNCHANGED <<want, read, toServer>>
      /\ shold' = ServerNoHold
      /\ \A i \in 1..Len(toClient') :
           \/ \E j \in 1..Len(toClient) : toClient'[i] = toClient[j]
           \/ toClient'[i].type = "DATAACK" /\ toClient'[i].ack = expect_seqNum'
  <2> DEFINE x == expect_seqNum'
  <2>1. x \in Nat /\ Reply("DATAACK", x) /\ "DATAACK" \in SegTypes /\ TypeOK
    BY <1>3, <1>4 DEF SegTypes
  <2> HIDE DEF x
  <2>2. /\ toClient' \in Seq(Segment) /\ UNCHANGED <<want, read, toServer>>
        /\ shold' = ServerNoHold
        /\ \A i \in 1..Len(toClient') :
             \/ \E j \in 1..Len(toClient) : toClient'[i] = toClient[j]
             \/ toClient'[i].type = "DATAACK" /\ toClient'[i].ack = x
    BY <2>1, ReplyFacts
  <2> QED  BY <2>2 DEF x
<1>6. TypeOK'
  BY <1>3, <1>4, <1>5, NoHoldType DEF TypeOK, tcbVars
<1>7. BufferIsStream' /\ BufferByPhase' /\ WindowBookkeeping' /\ HoldOK' /\ acked' = acked
  BY ClientUnchanged
<1>8. ServerStream'
  <2>1. spc' # "init"
    BY <1>3 DEF ServerData, ServerStream
  <2> QED  BY <2>1, <1>3, <1>4, <1>5 DEF ServerStream
<1>9. FitsStaysTrue' /\ BufferFits'
  BY <1>4, <1>5 DEF FitsStaysTrue, BufferFits, usedBufLen, ServerNoHold
<1>10. StreamsAgree'
  <2>1. run <= 1 => acked \in Nat /\ acked <= expect_seqNum
    <3>1. acked \in Nat
      <4>1. CASE sendBuf = <<>>
        BY <4>1, <1>2 DEF acked
      <4>2. CASE sendBuf # <<>>
        <5>1. 1 \in 1..Len(sendBuf)
          BY <4>2 DEF TypeOK
        <5> QED  BY <4>2, <5>1, BufFields DEF acked
      <4> QED  BY <4>1, <4>2
    <3> QED  BY <3>1 DEF StreamsAgree
  <2> QED  BY <2>1, <1>2, <1>3, <1>4, <1>7 DEF StreamsAgree, NotInside, EndOf, tcbVars
<1>11. ASSUME NEW a \in Segment, AckOK(a) PROVE AckOK(a)'
  <2>1. run <= 1 /\ a.type = "DATAACK" => a.ack <= expect_seqNum' /\ NotInside(a.ack)
    BY <1>2, <1>4, <1>11 DEF AckOK, Segment
  <2> QED  BY <2>1, <1>3 DEF AckOK, NotInside, EndOf, tcbVars
<1>12. SegmentsOK'
  <2>1. ASSUME NEW i \in 1..Len(toClient') PROVE AckOK(toClient[i])'
    <3>1. CASE \E j \in 1..Len(toClient) : toClient'[i] = toClient[j]
      <4>1. PICK a \in Segment : toClient'[i] = a /\ AckOK(a)
        BY <3>1 DEF TypeOK, SegmentsOK
      <4>2. AckOK(a)'
        BY <4>1, <1>11
      <4> QED  BY <4>1, <4>2
    <3>2. CASE toClient'[i].type = "DATAACK" /\ toClient'[i].ack = expect_seqNum'
      BY <3>2, <1>3, <1>4 DEF AckOK, NotInside, EndOf, tcbVars
    <3> QED  BY <3>1, <3>2, <1>5
  <2>2. AckOK(chold.seg)'
    <3>1. PICK a \in Segment : chold.seg = a /\ AckOK(a)
      BY DEF TypeOK, ClientHold, SegmentsOK
    <3>2. AckOK(a)' /\ chold'.seg = a
      BY <3>1, <1>3, <1>11
    <3> QED  BY <3>2
  <2>3. DataOK(shold.seg)'
    BY <1>5 DEF DataOK, ServerNoHold, Control
  <2>4. (\A i \in 1..Len(toServer) : DataOK(toServer[i]))'
    BY <1>3, <1>5 DEF SegmentsOK, DataOK, NotInside, EndOf, tcbVars
  <2>5. (\A i \in 1..Len(toClient) : AckOK(toClient[i]))'
    BY <2>1
  <2> QED  BY <2>2, <2>3, <2>4, <2>5 DEF SegmentsOK
<1> QED  BY <1>6, <1>7, <1>8, <1>9, <1>10, <1>12

-----------------------------------------------------------------------------
(* The theorems.                                                            *)

LEMMA InitIInv == Init => IInv
<1> SUFFICES ASSUME Init PROVE IInv
  OBVIOUS
<1> USE DEF Init, ClientInit, ServerInit
<1>1. NoHold \in ClientHold /\ ServerNoHold \in ServerHold /\ Len(<<>>) = 0
  BY NoHoldType DEF NoHold, ClientHold, RecvResults, Control, Segment, SegTypes
<1>2. TypeOK
  BY <1>1 DEF TypeOK, ClientPcs, ClientStates, ServerPcs, ServerStates
<1>3. BufferIsStream /\ BufferByPhase /\ HoldOK /\ ServerStream
  BY DEF BufferIsStream, BufferByPhase, HoldOK, ServerStream
<1>4. WindowBookkeeping /\ BufferFits
  BY ConstantsAssumption DEF WindowBookkeeping, SentCount, UnsentCount, BufferFits, usedBufLen
<1>5. SegmentsOK /\ FitsStaysTrue /\ StreamsAgree
  BY DEF SegmentsOK, DataOK, AckOK, FitsStaysTrue, StreamsAgree, NotInside, acked,
         NoHold, ServerNoHold, Control
<1> QED  BY <1>2, <1>3, <1>4, <1>5 DEF IInv

LEMMA NextIInv == IInv /\ [Next]_vars => IInv'
<1> SUFFICES ASSUME IInv, [Next]_vars PROVE IInv'
  OBVIOUS
<1>1. CASE ClientNext /\ UNCHANGED serverVars
  <2>1. CASE ClientStart \/ ClientSock
    BY <2>1, <1>1, ClientStartStep, ClientSockStep
  <2>2. CASE \/ Connect \/ SynTimeout \/ Connected \/ ConnectFails \/ Disconnect \/ Drained
             \/ FinTimeout \/ Disconnected \/ DisconnectFails \/ ClientClose \/ TimerOnFreed
             \/ ClientActOnFreed \/ ClientSynAck \/ ClientFinAck
    BY <2>2, <1>1, ClientControlStep
  <2>3. CASE SendSyn \/ SendFin
    BY <2>3, <1>1, SendSynFinStep
  <2>4. CASE \E len \in SegLens : ClientSend(len) \/ StcpSend(len)
    BY <2>4, <1>1, ClientSendStep, StcpSendStep
  <2>5. CASE \E i \in Arriving(toClient), rslt \in RecvResults : ClientRecv(i, rslt)
    BY <2>5, <1>1, ClientRecvStep
  <2>6. CASE ClientDataAck
    BY <2>6, <1>1, ClientDataAckStep
  <2>7. CASE TimerResend
    BY <2>7, <1>1, TimerResendStep
  <2> QED  BY <1>1, <2>1, <2>2, <2>3, <2>4, <2>5, <2>6, <2>7 DEF ClientNext
<1>2. CASE ServerNext /\ UNCHANGED clientVars
  <2>1. CASE \/ ServerSock \/ Accept \/ Accepted \/ ServerClose
             \/ \E length \in RecvLens : Recv(length)
    BY <2>1, <1>2, ServerAppStep
  <2>2. CASE Received
    BY <2>2, <1>2, ReceivedStep
  <2>3. CASE \E i \in Arriving(toServer), rslt \in RecvResults : ServerRecv(i, rslt)
    BY <2>3, <1>2, ServerRecvStep
  <2>4. CASE ServerSyn \/ ServerFin
    BY <2>4, <1>2, ServerSynFinStep
  <2>5. CASE ServerData
    BY <2>5, <1>2, ServerDataStep
  <2> QED  BY <1>2, <2>1, <2>2, <2>3, <2>4, <2>5 DEF ServerNext
<1>3. CASE UNCHANGED vars
  <2>1. UNCHANGED <<toServer, toClient, clientVars, serverVars>>
    BY <1>3 DEF vars
  <2>2. StreamInv'
    BY <2>1, ControlStep DEF clientVars, tcbVars
  <2>3. TypeOK' /\ BufferByPhase'
    BY <2>1 DEF IInv, TypeOK, BufferByPhase, clientVars, serverVars
  <2> QED  BY <2>2, <2>3 DEF IInv, StreamInv
<1> QED  BY <1>1, <1>2, <1>3 DEF Next

\* The inductive invariant holds of every reachable state.
THEOREM Invariance == Spec => []IInv
BY InitIInv, NextIInv, PTL DEF Spec

\* Every variable keeps its type.
THEOREM TypeCorrect == Spec => []TypeOK
<1>1. IInv => TypeOK
  BY DEF IInv
<1> QED  BY <1>1, Invariance, PTL

\* unAck_segNum counts the segments sent and not acknowledged, never more than
\* GBN_WINDOW, and a segment waits only while the window is full.
THEOREM Window == Spec => []WindowBookkeeping
<1>1. IInv => WindowBookkeeping
  BY DEF IInv
<1> QED  BY <1>1, Invariance, PTL

\* The receive buffer never holds more than RECEIVE_BUF_SIZE bytes.
THEOREM Buffer == Spec => []BufferFits
<1>1. IInv => BufferFits
  BY DEF IInv
<1> QED  BY <1>1, Invariance, PTL

\* The bytes the server has taken, one by one.
LEMMA TakenElements ==
  ASSUME IInv
  PROVE  /\ taken \in Seq(Byte) /\ Len(taken) = expect_seqNum
         /\ \A i \in 1..Len(taken) : /\ taken[i] = <<taken[i][1], i>>
                                     /\ taken[i][1] \in 1..run /\ taken[i][2] = i
<1>1. read \in Seq(Byte) /\ recvBuf \in Seq(Byte) /\ expect_seqNum \in Nat
  BY DEF IInv, TypeOK
<1> DEFINE t == read \o recvBuf
<1>2. /\ t \in Seq(Byte) /\ Len(t) = Len(read) + Len(recvBuf)
      /\ \A i \in 1..Len(t) : \/ i \in 1..Len(read) /\ t[i] = read[i]
                              \/ i - Len(read) \in 1..Len(recvBuf) /\ t[i] = recvBuf[i - Len(read)]
  BY <1>1, ConcatElements
<1> HIDE DEF t
<1>3. Len(t) = expect_seqNum
  BY <1>2 DEF IInv, ServerStream
<1>4. ASSUME NEW i \in 1..Len(t) PROVE t[i][1] \in 1..run /\ t[i][2] = i
  <2>1. CASE i \in 1..Len(read) /\ t[i] = read[i]
    BY <2>1 DEF IInv, ServerStream
  <2>2. CASE i - Len(read) \in 1..Len(recvBuf) /\ t[i] = recvBuf[i - Len(read)]
    <3> DEFINE j == i - Len(read)
    <3>1. j \in 1..Len(recvBuf) /\ t[i] = recvBuf[j] /\ Len(read) + j = i
      BY <2>2, <1>1, <1>2
    <3> HIDE DEF j
    <3> QED  BY <3>1 DEF IInv, ServerStream
  <2> QED  BY <2>1, <2>2, <1>2
<1>5. ASSUME NEW i \in 1..Len(t) PROVE t[i] = <<t[i][1], i>>
  <2>1. t[i] \in Byte
    BY <1>2
  <2>2. t[i] = <<t[i][1], t[i][2]>>
    BY <2>1 DEF Byte
  <2> QED  BY <2>2, <1>4
<1>6. taken = t
  BY DEF taken, t
<1> QED  BY <1>2, <1>3, <1>4, <1>5, <1>6

\* The client process was not restarted.
OneRun == run <= 1

StreamTaken ==
  /\ Len(taken) = expect_seqNum /\ Len(taken) \in Nat /\ Len(taken) <= next_seqNum
  /\ taken = Bytes(0, Len(taken)) /\ taken = Service!Stream(Len(taken))

LEMMA StreamOfTaken == IInv /\ OneRun => StreamTaken
<1> SUFFICES ASSUME IInv, run <= 1 PROVE StreamTaken
  BY DEF OneRun
<1>1. run \in Nat
  BY DEF IInv, TypeOK
<1>2. Len(taken) <= next_seqNum
  BY TakenElements DEF IInv, StreamsAgree
<1>3. \A i \in 1..Len(taken) : taken[i] = <<run, i>> /\ run = 1
  <2> SUFFICES ASSUME NEW i \in 1..Len(taken) PROVE taken[i] = <<run, i>> /\ run = 1
    OBVIOUS
  <2>1. taken[i] = <<taken[i][1], i>> /\ taken[i][1] \in 1..run
    BY TakenElements
  <2>2. taken[i][1] = 1 /\ run = 1
    BY <2>1, <1>1
  <2> QED  BY <2>1, <2>2
<1>4. taken = [i \in 1..Len(taken) |-> taken[i]]
  BY TakenElements
<1>5. taken = Bytes(0, Len(taken))
  <2> DEFINE n == Len(taken)
  <2>1. n \in Nat
    BY TakenElements
  <2>2. taken = [i \in 1..n |-> <<run, i>>]
    BY <1>3, <1>4
  <2> HIDE DEF n
  <2>3. Bytes(0, n) = [i \in 1..n |-> <<run, i>>]
    BY <2>1 DEF Bytes
  <2> QED  BY <2>2, <2>3 DEF n
<1>6. taken = Service!Stream(Len(taken))
  BY <1>3, <1>4 DEF Service!Stream
<1> QED  BY <1>2, <1>5, <1>6, TakenElements DEF StreamTaken

\* What stcp_server_recv returns is what stcp_client_send was given, each byte
\* once and in order.
THEOREM Reliable == Spec => []ReliableStream
<1>1. IInv => ReliableStream
  BY StreamOfTaken DEF ReliableStream, StreamTaken, OneRun
<1> QED  BY <1>1, Invariance, PTL

\* What the client frees the server has taken.
THEOREM Acknowledged == Spec => []AckedIsTaken
<1>1. IInv => AckedIsTaken
  BY TakenElements DEF AckedIsTaken, IInv, StreamsAgree
<1> QED  BY <1>1, Invariance, PTL

\* However often the client process is restarted, positions match.
THEOREM Positions == Spec => []PositionsInOrder
<1>1. IInv => PositionsInOrder
  BY TakenElements DEF PositionsInOrder
<1> QED  BY <1>1, Invariance, PTL

-----------------------------------------------------------------------------
(* While the client process runs once, the connection implements the service. *)

LEMMA OneRunStep == MaxRuns <= 1 /\ IInv /\ OneRun /\ [Next]_vars => OneRun'
<1> SUFFICES ASSUME MaxRuns <= 1, IInv, OneRun, [Next]_vars PROVE OneRun'
  OBVIOUS
<1>1. run \in Nat /\ MaxRuns \in Nat
  BY ConstantsAssumption DEF IInv, TypeOK
<1>2. CASE ClientStart
  BY <1>1, <1>2 DEF ClientStart, OneRun
<1>3. CASE run' = run
  BY <1>3 DEF OneRun
<1> QED  BY <1>2, <1>3 DEF Next, ClientNext, ServerNext, vars, clientVars,
            ClientSock, Connect, SendSyn, SynTimeout, Connected, ConnectFails, ClientSend, StcpSend,
            AppendBuf, Disconnect, Drained, SendFin, FinTimeout, Disconnected, DisconnectFails,
            ClientClose, ClientRecv, ClientActOnFreed, ClientSynAck, ClientFinAck, ClientDataAck,
            TimerResend, TimerOnFreed

\* A step that leaves the three variables of the service alone.
LEMMA ServiceStutters ==
  ASSUME UNCHANGED <<next_seqNum, sendBuf, read, recvBuf>>
  PROVE  UNCHANGED <<next_seqNum, taken, acked>>
BY DEF taken, acked

LEMMA SendIsWrite ==
  ASSUME IInv, UNCHANGED serverVars, NEW len \in SegLens, AppendBuf(len)
  PROVE  Service!Write
<1>1. acked' = acked
  BY AppendBufIsStream
<1>2. taken' = taken /\ next_seqNum' = next_seqNum + len
  BY DEF taken, serverVars, AppendBuf
<1> QED  BY <1>1, <1>2 DEF Service!Write

LEMMA AckIsConfirm ==
  ASSUME IInv, IInv', OneRun, UNCHANGED serverVars, ClientDataAck
  PROVE  Service!Confirm \/ UNCHANGED <<next_seqNum, taken, acked>>
<1>1. taken' = taken /\ next_seqNum' = next_seqNum /\ run' = run /\ expect_seqNum' = expect_seqNum
  BY DEF taken, serverVars, ClientDataAck
<1>2. acked' <= Len(taken) /\ Len(taken) \in Nat
  BY <1>1, TakenElements DEF IInv, StreamsAgree, OneRun, TypeOK
<1>3. acked \in Nat /\ acked' \in Nat
  <2>1. acked \in Nat
    <3>1. sendBuf # <<>> => 1 \in 1..Len(sendBuf)
      BY SMTT(30) DEF IInv, TypeOK
    <3> QED  BY <3>1, BufFields DEF acked, IInv, TypeOK
  <2>2. acked' \in Nat
    <3>1. sendBuf' \in Seq(SegBuf) /\ next_seqNum' \in Nat
      BY DEF IInv, TypeOK
    <3>2. sendBuf' # <<>> => sendBuf'[1] \in SegBuf
      BY <3>1
    <3> QED  BY <3>1, <3>2 DEF acked, SegBuf
  <2> QED  BY <2>1, <2>2
<1>4. acked <= acked'
  <2>1. PICK k \in 0..Len(sendBuf) : sendBuf' = SubSeq(sendBuf, k + 1, Len(sendBuf))
    BY DEF ClientDataAck
  <2>2. sendBuf \in Seq(SegBuf) /\ Len(sendBuf) \in Nat
    BY DEF IInv, TypeOK
  <2>3. CASE sendBuf = <<>>
    <3>1. sendBuf' = <<>>
      BY <2>1, <2>2, <2>3
    <3> QED  BY <2>3, <3>1, <1>1, <1>3 DEF acked
  <2>4. CASE sendBuf # <<>>
    <3>1. 1 \in 1..Len(sendBuf) /\ acked = sendBuf[1].seq /\ sendBuf[1] \in SegBuf
      BY <2>2, <2>4 DEF acked
    <3>2. EndOf(sendBuf[1]) \in Nat /\ acked <= EndOf(sendBuf[1]) /\ EndOf(sendBuf[1]) <= next_seqNum
      BY <3>1, EndOfNat DEF IInv, BufferIsStream
    <3>3. CASE k = Len(sendBuf)
      <4>1. sendBuf' = <<>>
        BY <3>3, <2>1, <2>2
      <4>2. acked' = next_seqNum
        BY <4>1, <1>1 DEF acked
      <4> QED  BY <4>2, <3>2, <1>3
    <3>4. CASE k # Len(sendBuf)
      <4>1. k + 1 \in 1..Len(sendBuf) /\ sendBuf' # <<>> /\ sendBuf'[1] = sendBuf[k + 1]
        <5> DEFINE last == Len(sendBuf)
                   out == SubSeq(sendBuf, k + 1, last)
        <5>1. k \in 0..Len(sendBuf) /\ last \in k..Len(sendBuf) /\ last - k > 0 /\ k < last
          BY <3>4, <2>2
        <5> HIDE DEF last, out
        <5>2. /\ out \in Seq(SegBuf) /\ Len(out) = last - k
              /\ \A i \in 1..(last - k) : k + i \in 1..Len(sendBuf) /\ out[i] = sendBuf[k + i]
          BY <5>1, <2>2, SubSeqElements DEF out
        <5>3. 1 \in 1..(last - k)
          BY <5>1, <2>2 DEF last
        <5>4. out # <<>> /\ k + 1 \in 1..Len(sendBuf) /\ out[1] = sendBuf[k + 1]
          BY <5>2, <5>3
        <5>5. sendBuf' = out
          BY <2>1 DEF out, last
        <5> QED  BY <5>4, <5>5
      <4>2. acked' = sendBuf[k + 1].seq
        BY <4>1 DEF acked
      <4>3. k + 1 # 1 => EndOf(sendBuf[1]) <= sendBuf[k + 1].seq
        BY <3>1, <4>1 DEF IInv, BufferIsStream
      <4> QED  BY <4>2, <4>3, <3>1, <3>2, <1>3
    <3> QED  BY <3>3, <3>4
  <2> QED  BY <2>3, <2>4
<1>5. CASE acked' = acked
  BY <1>1, <1>5
<1>6. CASE acked' # acked
  <2>1. acked' \in (acked + 1)..Len(taken)
    BY <1>6, <1>2, <1>3, <1>4
  <2> QED  BY <2>1, <1>1 DEF Service!Confirm
<1> QED  BY <1>5, <1>6

LEMMA ReceivedStutters ==
  ASSUME IInv, IInv', OneRun, OneRun', UNCHANGED clientVars, Received
  PROVE  UNCHANGED <<next_seqNum, taken, acked>>
<1>1. StreamTaken /\ StreamTaken'
  BY StreamOfTaken, PTL
<1>2. expect_seqNum' = expect_seqNum
  BY DEF Received
<1>3. taken' = taken
  BY <1>1, <1>2 DEF StreamTaken, Service!Stream
<1> QED  BY <1>3, ClientUnchanged DEF clientVars

LEMMA DataIsTake ==
  ASSUME IInv, IInv', OneRun, OneRun', UNCHANGED clientVars, ServerData
  PROVE  Service!Take \/ UNCHANGED <<next_seqNum, taken, acked>>
<1>1. UNCHANGED <<next_seqNum, acked>>
  BY ClientUnchanged DEF clientVars
<1>2. StreamTaken /\ StreamTaken'
  BY StreamOfTaken, PTL
<1> DEFINE n == Len(taken')
<1>3. taken' = Service!Stream(n) /\ n \in Nat /\ n <= next_seqNum /\ n = expect_seqNum'
  BY <1>1, <1>2 DEF StreamTaken, Service!Stream
<1>4. expect_seqNum <= expect_seqNum' /\ expect_seqNum \in Nat
  <2>1. Len(shold.seg.data) \in Nat /\ expect_seqNum \in Nat
    <3>1. shold \in ServerHold /\ expect_seqNum \in Nat
      BY DEF IInv, TypeOK
    <3>2. shold.seg \in Segment
      BY <3>1 DEF ServerHold
    <3> QED  BY <3>1, <3>2 DEF Segment
  <2>2. \/ expect_seqNum' = expect_seqNum
        \/ expect_seqNum' = expect_seqNum + Len(shold.seg.data)
    BY DEF ServerData, Received
  <2> QED  BY <2>1, <2>2
<1> HIDE DEF n
<1>5. CASE n = expect_seqNum
  <2>1. taken' = taken
    BY <1>5, <1>2, <1>3 DEF StreamTaken
  <2> QED  BY <2>1, <1>1
<1>6. CASE n # expect_seqNum
  <2>1. n \in (Len(taken) + 1)..next_seqNum
    BY <1>6, <1>2, <1>3, <1>4 DEF StreamTaken, IInv, TypeOK
  <2> QED  BY <2>1, <1>1, <1>3 DEF Service!Take
<1> QED  BY <1>5, <1>6

LEMMA ServiceStep ==
  ASSUME IInv, IInv', OneRun, OneRun', MaxRuns <= 1, [Next]_vars
  PROVE  [Service!ServiceNext]_(Service!serviceVars)
<1>0. SUFFICES Service!ServiceNext \/ UNCHANGED <<next_seqNum, taken, acked>>
  BY DEF Service!serviceVars
<1>1. CASE ClientNext /\ UNCHANGED serverVars
  <2>1. CASE ClientStart
    <3>1. run = 0
      BY <2>1, ConstantsAssumption DEF ClientStart, IInv, TypeOK
    <3>2. next_seqNum = 0 /\ sendBuf = <<>>
      BY <3>1 DEF IInv, BufferByPhase
    <3> QED  BY <1>1, <2>1, <3>2, ServiceStutters DEF ClientStart, serverVars
  <2>2. CASE ClientSock
    <3>1. next_seqNum = 0 /\ sendBuf = <<>>
      BY <2>2 DEF ClientSock, IInv, BufferByPhase
    <3> QED  BY <1>1, <2>2, <3>1, ServiceStutters DEF ClientSock, serverVars
  <2>3. CASE \E len \in SegLens : ClientSend(len) \/ StcpSend(len)
    <3>1. PICK len \in SegLens : AppendBuf(len)
      BY <2>3 DEF ClientSend, StcpSend
    <3> QED  BY <1>1, <3>1, SendIsWrite DEF Service!ServiceNext
  <2>4. CASE ClientDataAck
    BY <1>1, <2>4, AckIsConfirm DEF Service!ServiceNext
  <2>5. CASE UNCHANGED <<next_seqNum, sendBuf>>
    BY <1>1, <2>5, ServiceStutters DEF serverVars
  <2> QED  BY <1>1, <2>1, <2>2, <2>3, <2>4, <2>5 DEF ClientNext, tcbVars, clientVars,
            Connect, SendSyn, SynTimeout, Connected, ConnectFails,
            Disconnect, Drained, SendFin, FinTimeout, Disconnected, DisconnectFails,
            ClientClose, ClientRecv, ClientActOnFreed, ClientSynAck, ClientFinAck,
            TimerResend, TimerOnFreed
<1>2. CASE ServerNext /\ UNCHANGED clientVars
  <2>1. CASE ServerSock
    <3>1. read' = read /\ recvBuf' = recvBuf
      BY <2>1 DEF ServerSock, IInv, ServerStream
    <3> QED  BY <1>2, <3>1, ServiceStutters DEF clientVars
  <2>2. CASE Received
    BY <1>2, <2>2, ReceivedStutters
  <2>3. CASE ServerData
    BY <1>2, <2>3, DataIsTake DEF Service!ServiceNext
  <2>4. CASE UNCHANGED <<read, recvBuf>>
    BY <1>2, <2>4, ServiceStutters DEF clientVars
  <2> QED  BY <1>2, <2>1, <2>2, <2>3, <2>4 DEF ServerNext, Accept, Accepted, Recv, ServerClose,
            ServerRecv, ServerSyn, ServerFin, Reply
<1>3. CASE UNCHANGED vars
  BY <1>3, ServiceStutters DEF vars, clientVars, serverVars
<1> QED  BY <1>1, <1>2, <1>3 DEF Next

\* With one client process, the connection is the byte stream of StcpService:
\* each of its steps is a write, a delivery, a confirmation, or none of them.
THEOREM Refinement == ASSUME MaxRuns <= 1 PROVE Spec => ImplementsService
<1>1. Init => OneRun /\ Service!ServiceInit
  BY DEF Init, ClientInit, ServerInit, OneRun, Service!ServiceInit, taken, acked
<1>2. Spec => []OneRun
  BY <1>1, OneRunStep, Invariance, PTL DEF Spec
<1>3. IInv /\ IInv' /\ OneRun /\ OneRun' /\ [Next]_vars => [Service!ServiceNext]_(Service!serviceVars)
  BY ServiceStep
<1> QED  BY <1>1, <1>2, <1>3, Invariance, PTL DEF Spec, ImplementsService, Service!ServiceSpec

=============================================================================
