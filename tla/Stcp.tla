-------------------------------- MODULE Stcp --------------------------------
(***************************************************************************)
(* An STCP connection of SimpleNet lab10: the client of StcpClient and the *)
(* server of StcpServer over the two paths of StcpNet.                     *)
(***************************************************************************)
EXTENDS StcpClient, StcpServer

vars == <<toServer, toClient, clientVars, serverVars>>

Init == ClientInit /\ ServerInit /\ toServer = <<>> /\ toClient = <<>>

Next == \/ ClientNext /\ UNCHANGED serverVars
        \/ ServerNext /\ UNCHANGED clientVars

Spec == Init /\ [][Next]_vars

TypeOK ==
  /\ toServer \in Seq(Segment) /\ toClient \in Seq(Segment)
  /\ run \in Nat /\ cpc \in ClientPcs /\ retry \in Nat /\ cstate \in ClientStates
  /\ next_seqNum \in Nat /\ sendBuf \in Seq(SegBuf)
  /\ unSent \in 0..Len(sendBuf) /\ unAck_segNum \in Nat
  /\ timers \in Nat /\ chold \in ClientHold
  /\ spc \in ServerPcs /\ want \in Nat /\ sstate \in ServerStates
  /\ expect_seqNum \in Nat /\ recvBuf \in Seq(Byte) /\ read \in Seq(Byte)
  /\ shold \in ServerHold

-----------------------------------------------------------------------------
(* Safety.                                                                  *)

\* Every byte the server has taken into its buffer, in order.
taken == read \o recvBuf

\* How far the client's application may believe its stream has arrived: the
\* segments before the head of the buffer were acknowledged and freed.
acked == IF sendBuf = <<>> THEN next_seqNum ELSE sendBuf[1].seq

\* The bytes stcp_server_recv returns are the bytes given to stcp_client_send,
\* each once and in order, whatever is lost, corrupted, resent or overtaken, as
\* long as the client process was not restarted.
ReliableStream ==
  run <= 1 => /\ Len(taken) <= next_seqNum
              /\ taken = Bytes(0, Len(taken))

\* A segment leaves the send buffer only when the server has taken its data:
\* the comment of seghandler, "<=ack: all received, need not be sent again".
AckedIsTaken == run <= 1 => acked <= Len(taken)

\* unAck_segNum counts the segments from sendBufHead up to sendBufunSent, never
\* more than the window, and a segment waits only while the window is full.
\* Both ways to send, the acknowledgements and the timer rely on it.
WindowBookkeeping ==
  /\ unAck_segNum = SentCount
  /\ unAck_segNum <= GBN_WINDOW
  /\ UnsentCount > 0 => unAck_segNum = GBN_WINDOW

\* seghandler tests the room before it takes the lock, and another thread takes
\* bytes out in between: the buffer still never holds more than it can.
BufferFits == usedBufLen <= RECEIVE_BUF_SIZE

\* The client may only believe to be connected to a server that is: from the
\* return of stcp_client_connect to the FIN, the server's TCB is CONNECTED.
OpenMeansConnected ==
  run <= 1 /\ cpc \in {"open", "drain"} => sstate = "CONNECTED"

\* The server leaves CONNECTED only once the whole stream was taken and no
\* segment waits to be resent: closing loses nothing.
CloseAfterAllData ==
  run <= 1 /\ sstate = "CLOSEWAIT" => sendBuf = <<>> /\ Len(taken) = next_seqNum

\* A stcp_client_disconnect that returns 1 has closed both ends.
DisconnectClosesBoth ==
  run <= 1 /\ cpc = "done" => sstate \in {"CLOSEWAIT", "NULL"}

\* After a restart of the client the server may mix the streams of two processes
\* (see AckedIsTakenAlways), but never positions: the n-th byte it takes was the
\* n-th byte of some process.
PositionsInOrder == \A i \in 1..Len(taken) : taken[i][2] = i

\* On a path without overtaking, the server takes no byte of an earlier process
\* after one of a later process, although both use the same sequence numbers.
RunsInOrder ==
  ~Overtaking => \A i, j \in 1..Len(taken) : i < j => taken[i][1] <= taken[j][1]

\* seghandler of the client follows the list of segments for as long as an
\* acknowledgement says, without looking where it ends, and the threads outlive the
\* TCB: the process dies only of what they do after stcp_client_close.
DiesAfterClose ==
  [][run <= 1 /\ cpc # "crashed" /\ cpc' = "crashed" => cpc = "closed"]_vars

\* seghandler of the server dereferences table entries that are NULL: a segment kills
\* the process, but never while it has a TCB, nor between the search for the TCB and
\* what is done with it, whatever clients are started and killed.
DiesWithoutTcb ==
  [][spc # "crashed" /\ spc' = "crashed" => spc \in {"init", "closed"}]_vars

-----------------------------------------------------------------------------
(* The inductive invariant behind ReliableStream, AckedIsTaken,             *)
(* WindowBookkeeping and BufferFits.                                        *)

\* The stream position after the last byte of a buffered segment.
EndOf(b) == b.seq + Len(b.data)

\* The send buffer holds the last part of the stream, cut into segments that
\* follow each other without a gap.
BufferIsStream ==
  /\ \A i \in 1..Len(sendBuf) :
       /\ Len(sendBuf[i].data) > 0
       /\ sendBuf[i].data = Bytes(sendBuf[i].seq, Len(sendBuf[i].data))
       /\ EndOf(sendBuf[i]) = IF i = Len(sendBuf) THEN next_seqNum ELSE sendBuf[i + 1].seq
       /\ EndOf(sendBuf[i]) <= next_seqNum
  /\ \A i, j \in 1..Len(sendBuf) : i < j => EndOf(sendBuf[i]) <= sendBuf[j].seq

\* Outside of a connection nothing is buffered, and before it nothing was sent.
BufferByPhase ==
  /\ cpc \notin {"open", "drain"} => sendBuf = <<>>
  /\ cpc \in {"down", "init", "ready"} => next_seqNum = 0
  /\ cstate = "NULL" => cpc \in {"down", "init", "closed", "crashed"}
  /\ run = 0 => cpc = "down"

\* No segment of the send buffer has only a part of its bytes before x.
NotInside(x) == \A i \in 1..Len(sendBuf) : x <= sendBuf[i].seq \/ EndOf(sendBuf[i]) <= x

\* A data segment carries consecutive bytes of one process's stream; without a
\* restart, bytes that were sent, cut as in the send buffer.
DataOK(m) ==
  m.type = "DATA" =>
    /\ \A j \in 1..Len(m.data) : m.data[j][1] \in 1..run /\ m.data[j][2] = m.seq + j
    /\ run <= 1 => EndOf(m) <= next_seqNum /\ NotInside(EndOf(m))

\* Without a restart, what is acknowledged was taken, in whole segments.
AckOK(m) == run <= 1 /\ m.type = "DATAACK" => m.ack <= expect_seqNum /\ NotInside(m.ack)

\* seghandler holds only a segment that the state it read has a case for.
HoldOK == chold # NoHold => ClientHandles(chold.st, chold.seg.type)

SegmentsOK ==
  /\ \A i \in 1..Len(toServer) : DataOK(toServer[i])
  /\ DataOK(shold.seg)
  /\ \A i \in 1..Len(toClient) : AckOK(toClient[i])
  /\ AckOK(chold.seg)

\* What the server holds; before stcp_server_sock, nothing, and no segment either.
ServerStream ==
  /\ Len(read) + Len(recvBuf) = expect_seqNum
  /\ \A i \in 1..Len(read) : read[i][1] \in 1..run /\ read[i][2] = i
  /\ \A i \in 1..Len(recvBuf) : recvBuf[i][1] \in 1..run /\ recvBuf[i][2] = Len(read) + i
  /\ spc = "init" => read = <<>> /\ recvBuf = <<>> /\ sstate = "NULL" /\ shold = ServerNoHold

\* Between the test of the room and the append only stcp_server_recv can run.
FitsStaysTrue ==
  shold.fits => /\ shold.seg.type = "DATA" /\ shold.seg.seq = expect_seqNum
                /\ Len(shold.seg.data) + usedBufLen <= RECEIVE_BUF_SIZE

\* Without a restart the server has taken a part of the stream that ends between
\* two segments, and everything the client freed.
StreamsAgree ==
  run <= 1 => /\ acked <= expect_seqNum /\ expect_seqNum <= next_seqNum
              /\ NotInside(expect_seqNum)

IInv ==
  /\ TypeOK /\ BufferIsStream /\ BufferByPhase /\ WindowBookkeeping
  /\ SegmentsOK /\ HoldOK /\ ServerStream /\ FitsStaysTrue /\ BufferFits /\ StreamsAgree

-----------------------------------------------------------------------------
(* The phases of a connection, behind OpenMeansConnected, CloseAfterAllData, *)
(* DisconnectClosesBoth and the two properties about crashes.               *)

\* The server's application thread, the state of its TCB and what seghandler holds.
ServerPhase ==
  /\ spc \in {"init", "closed", "crashed"} => sstate = "NULL"
  /\ spc = "ready" => sstate = "CLOSED"
  /\ spc = "accepting" => sstate \in {"LISTENING", "CONNECTED", "CLOSEWAIT"}
  /\ spc \in {"open", "recv"} => sstate \in {"CONNECTED", "CLOSEWAIT"}
  /\ shold # ServerNoHold => ServerHandles(shold.st, shold.seg.type)
  /\ shold.st \in {"LISTENING", "CONNECTED"} => sstate = shold.st
  /\ shold.st = "CLOSEWAIT" => sstate \in {"CLOSEWAIT", "NULL"}

\* The same of the client: whose state may be CONNECTED although connect has failed.
ClientPhase ==
  /\ cpc \in {"down", "init", "closed"} => cstate = "NULL"
  /\ cpc \in {"ready", "done", "finFailed"} => cstate = "CLOSED"
  /\ cpc = "syn" => cstate \in {"CLOSED", "SYNSENT", "CONNECTED"}
  /\ cpc = "synWait" => cstate \in {"SYNSENT", "CONNECTED"}
  /\ cpc = "failed" => cstate \in {"CLOSED", "CONNECTED"}
  /\ cpc \in {"open", "drain"} => cstate = "CONNECTED"
  /\ cpc \in {"fin", "finWait"} => cstate \in {"FINWAIT", "CLOSED"}
  /\ cpc \in {"down", "init", "ready"} => chold = NoHold
  /\ chold.st = "SYNSENT" =>
       \/ cpc \in {"syn", "synWait"} /\ cstate = "SYNSENT"
       \/ cpc \in {"failed", "closed", "crashed"}
  /\ chold.st = "FINWAIT" =>
       \/ cpc \in {"fin", "finWait"} /\ cstate = "FINWAIT"
       \/ cpc \in {"finFailed", "closed", "crashed"}

\* The places before stcp_client_disconnect sends FIN.
BeforeFin == {"down", "init", "ready", "syn", "synWait", "open", "failed", "drain"}

\* An answer of this type is on its way or being worked on.
Answered(type) ==
  chold.seg.type = type \/ \E i \in 1..Len(toClient) : toClient[i].type = type

\* Without a restart: no FIN before its time, and SYNACK comes from a server that is
\* connected until then; FINACK from one that has closed, or is gone.
EndsAgree ==
  run <= 1 =>
    /\ cpc \in BeforeFin =>
         /\ sstate # "CLOSEWAIT" /\ shold.seg.type # "FIN"
         /\ \A i \in 1..Len(toServer) : toServer[i].type # "FIN"
         /\ cstate = "CONNECTED" \/ Answered("SYNACK") => sstate = "CONNECTED"
    /\ \/ Answered("FINACK") \/ cpc = "done"
       \/ cpc \in {"fin", "finWait"} /\ cstate = "CLOSED"
       => sstate = "CLOSEWAIT" \/ spc \in {"closed", "crashed"}

PhaseInv == ServerPhase /\ ClientPhase /\ EndsAgree

-----------------------------------------------------------------------------
(* The line in which bytes arrive, behind RunsInOrder.                      *)

RunsOf(s) == {s[j][1] : j \in 1..Len(s)}
NotAfter(s, t) == \A r \in RunsOf(s), q \in RunsOf(t) : r <= q

\* What was taken, what seghandler holds and what is under way, in this order, is
\* never from an earlier process; a segment is of one process, at most the last.
RunsInLine ==
  ~Overtaking =>
    /\ NotAfter(taken, shold.seg.data) /\ NotAfter(shold.seg.data, shold.seg.data)
    /\ \A k \in 1..Len(toServer) :
         LET s == toServer[k].data IN
         /\ NotAfter(taken, s) /\ NotAfter(shold.seg.data, s)
         /\ \A l \in k..Len(toServer) : NotAfter(s, toServer[l].data)
    /\ \A k \in 1..Len(toServer) : \A r \in RunsOf(toServer[k].data) : r <= run
    /\ \A r \in RunsOf(shold.seg.data) : r <= run

LineInv == RunsInLine /\ RunsInOrder

\* The two together, inductive relative to IInv.
ConnInv == PhaseInv /\ LineInv

-----------------------------------------------------------------------------
(* The connection implements the service while the client runs once.        *)

Service == INSTANCE StcpService
  WITH ChunkLens <- SegLens, sent <- next_seqNum, confirmed <- acked

ImplementsService == Service!ServiceSpec

-----------------------------------------------------------------------------
(* Liveness.                                                                *)

\* The threads of the processes are scheduled: what they wait for with a poll or
\* a timeout they eventually see.  The applications are free to stop calling
\* send and disconnect, but the server keeps reading.
ClientThreads ==
  \/ Connect \/ SendSyn \/ SynTimeout \/ Connected \/ ConnectFails
  \/ Drained \/ SendFin \/ FinTimeout \/ Disconnected \/ DisconnectFails
ClientHandler ==
  \/ \E i \in Arriving(toClient), rslt \in RecvResults : ClientRecv(i, rslt)
  \/ ClientSynAck \/ ClientFinAck \/ ClientDataAck
ServerApp ==
  \/ ServerSock \/ Accept \/ Accepted
  \/ \E length \in RecvLens : Recv(length)
  \/ Received
ServerHandler ==
  \/ \E i \in Arriving(toServer), rslt \in RecvResults : ServerRecv(i, rslt)
  \/ ServerSyn \/ ServerFin \/ ServerData

\* A segment sent again and again is not lost or corrupted every time: loss is
\* independent, PKT_LOSS_RATE per segment.
DataArrives(seq) ==
  \E i \in Arriving(toServer) :
    toServer[i].type = "DATA" /\ toServer[i].seq = seq /\ ServerRecv(i, 1)
AckArrives(ack) ==
  \E i \in Arriving(toClient) :
    toClient[i].type = "DATAACK" /\ toClient[i].ack = ack /\ ClientRecv(i, 1)

Fairness ==
  /\ WF_vars(ClientThreads /\ UNCHANGED serverVars)
  /\ WF_vars(ClientHandler /\ UNCHANGED serverVars)
  /\ WF_vars(TimerResend /\ UNCHANGED serverVars)
  /\ WF_vars(ServerApp /\ UNCHANGED clientVars)
  /\ WF_vars(ServerHandler /\ UNCHANGED clientVars)
  /\ \A n \in 0..MaxSeq : /\ SF_vars(DataArrives(n) /\ UNCHANGED clientVars)
                          /\ SF_vars(AckArrives(n) /\ UNCHANGED serverVars)

FairSpec == Spec /\ Fairness

\* Every byte the client sends is eventually acknowledged.
SentIsAcked == \A n \in 1..MaxSeq : next_seqNum >= n ~> acked >= n

\* stcp_server_recv returns when the bytes it waits for were sent.
RecvReturns == (spc = "recv" /\ Len(read) + want <= next_seqNum) ~> spc # "recv"

\* stcp_client_disconnect returns.
DisconnectReturns == cpc = "drain" ~> cpc \in {"done", "finFailed"}

-----------------------------------------------------------------------------
(* What comments of the code say and the code does not do.                  *)

\* stcp_client_connect: on failure it "moves state to CLOSED and returns -1".
ConnectFailureIsClosed == cpc = "failed" => cstate = "CLOSED"

\* seghandler of the client, on acknowledgements: "all received, need not be
\* sent again", also after a restart of the client process.
AckedIsTakenAlways == \A i \in 1..acked : <<run, i>> \in ToSet(taken)
=============================================================================
