----------------------------- MODULE StcpClient -----------------------------
(***************************************************************************)
(* The client side of an STCP connection, client/stcp_client.c: one TCB,   *)
(* the application thread that calls the API (the order of calls is that   *)
(* of app_simple_client.c and app_stress_client.c), the seghandler thread  *)
(* and the sendBuf_timer threads.  The TCB's state field has no lock, so   *)
(* seghandler is two steps: it takes a segment and reads the state, then   *)
(* acts on what it read.  Time is abstract: a timeout may occur whenever   *)
(* the code waits for it.                                                  *)
(***************************************************************************)
EXTENDS StcpNet

VARIABLES
  run,           \* client processes started so far; the last one is alive
  cpc,           \* where the application thread is
  retry,         \* local variable of connect and disconnect
  cstate,        \* TCB state, "NULL" when client_tcb_table has no TCB
  next_seqNum,   \* TCB field
  sendBuf,       \* the list sendBufHead .. sendBufTail
  unSent,        \* the place of sendBufunSent in that list, 0 for NULL
  unAck_segNum,  \* TCB field
  timers,        \* sendBuf_timer threads of this process
  chold          \* the segment seghandler works on

clientVars == <<run, cpc, retry, cstate, next_seqNum, sendBuf, unSent,
                unAck_segNum, timers, chold>>
tcbVars == <<next_seqNum, sendBuf, unSent, unAck_segNum>>

ClientStates == {"NULL", "CLOSED", "SYNSENT", "CONNECTED", "FINWAIT"}
ClientPcs == {"down", "init", "ready", "syn", "synWait", "open", "failed",
              "drain", "fin", "finWait", "done", "finFailed", "closed", "crashed"}

\* A buffered segment, and the bytes of the application's stream it carries.
SegBuf == [seq : Nat, data : Seq(Byte)]
Bytes(first, len) == [i \in 1..len |-> <<run, first + i>>]
DataSeg(b) == [type |-> "DATA", seq |-> b.seq, ack |-> 0, data |-> b.data]
SendAll(bufs) == [i \in 1..Len(bufs) |-> DataSeg(bufs[i])]

\* The first segments of the list have been sent, the others wait for the window.
SentCount == IF unSent = 0 THEN Len(sendBuf) ELSE unSent - 1
UnsentCount == Len(sendBuf) - SentCount

\* seghandler between two segments, and when it holds one (st: the state it read).
NoHold == [st |-> "idle", rslt |-> 1, seg |-> Control("SYN", 0, 0)]
ClientHold == [st : {"idle", "SYNSENT", "CONNECTED", "FINWAIT"},
               rslt : RecvResults, seg : Segment]

ClientInit ==
  /\ run = 0 /\ cpc = "down" /\ retry = 0 /\ cstate = "NULL"
  /\ next_seqNum = 0 /\ sendBuf = <<>> /\ unSent = 0 /\ unAck_segNum = 0
  /\ timers = 0 /\ chold = NoHold

-----------------------------------------------------------------------------
(* The application thread.                                                  *)

\* A client process starts (again): stcp_client_init.  The previous one, if
\* any, exited or was killed wherever it was, and its memory is gone.
ClientStart ==
  /\ run < MaxRuns
  /\ run' = run + 1 /\ cpc' = "init" /\ retry' = 0 /\ cstate' = "NULL"
  /\ next_seqNum' = 0 /\ sendBuf' = <<>> /\ unSent' = 0 /\ unAck_segNum' = 0
  /\ timers' = 0 /\ chold' = NoHold
  /\ UNCHANGED <<toServer, toClient>>

\* stcp_client_sock
ClientSock ==
  /\ cpc = "init"
  /\ cpc' = "ready" /\ cstate' = "CLOSED"
  /\ next_seqNum' = 0 /\ sendBuf' = <<>> /\ unSent' = 0 /\ unAck_segNum' = 0
  /\ UNCHANGED <<run, retry, timers, chold, toServer, toClient>>

\* stcp_client_connect, up to its loop
Connect ==
  /\ cpc = "ready"
  /\ cpc' = "syn" /\ retry' = 0
  /\ UNCHANGED <<run, cstate, tcbVars, timers, chold, toServer, toClient>>

\* one turn of its loop: the state is set again, whatever it is by now
SendSyn ==
  /\ cpc = "syn" /\ retry < SYN_MAX_RETRY
  /\ cpc' = "synWait" /\ retry' = retry + 1 /\ cstate' = "SYNSENT"
  /\ toServer' = SipSend(toServer, <<Control("SYN", next_seqNum, 0)>>)
  /\ UNCHANGED <<run, tcbVars, timers, chold, toClient>>

\* the inner loop looks at the clock first, then at the state
SynTimeout ==
  /\ cpc = "synWait" /\ cpc' = "syn"
  /\ UNCHANGED <<run, retry, cstate, tcbVars, timers, chold, toServer, toClient>>

\* A mutant: returns 1 without looking at the state.
ConnectedUnchecked ==
  /\ cpc = "synWait" /\ cpc' = "open"
  /\ UNCHANGED <<run, retry, cstate, tcbVars, timers, chold, toServer, toClient>>

\* returns 1
Connected ==
  /\ cpc = "synWait" /\ cstate = "CONNECTED" /\ cpc' = "open"
  /\ UNCHANGED <<run, retry, cstate, tcbVars, timers, chold, toServer, toClient>>

\* returns -1
ConnectFails ==
  /\ cpc = "syn" /\ retry = SYN_MAX_RETRY
  /\ cpc' = "failed" /\ cstate' = "CLOSED"
  /\ UNCHANGED <<run, retry, tcbVars, timers, chold, toServer, toClient>>

\* A mutant: one segment more than the window.
WindowOpenTooLong == unAck_segNum <= GBN_WINDOW

\* The window has room for a segment.
WindowOpen == unAck_segNum < GBN_WINDOW

\* The segment the application's next len bytes go into.
NewBuf(len) == [seq |-> next_seqNum, data |-> Bytes(next_seqNum, len)]

\* Both ways to send append one segment, and start a timer thread when the
\* buffer was empty.
AppendBuf(len) ==
  /\ cpc = "open" /\ next_seqNum + len <= MaxSeq
  /\ next_seqNum' = next_seqNum + len
  /\ sendBuf' = Append(sendBuf, NewBuf(len))
  /\ timers' = IF sendBuf = <<>> THEN timers + 1 ELSE timers
  /\ UNCHANGED <<run, cpc, retry, cstate, chold, toClient>>

\* one turn of the loop of stcp_client_send: the new segment is sent when
\* the window has room, else it waits, the first to be sent if none waits yet
ClientSend(len) ==
  /\ AppendBuf(len)
  /\ \/ /\ WindowOpen
        /\ toServer' = SipSend(toServer, <<DataSeg(NewBuf(len))>>)
        /\ unAck_segNum' = unAck_segNum + 1
        /\ UNCHANGED unSent
     \/ /\ ~WindowOpen
        /\ unSent' = IF unSent = 0 THEN Len(sendBuf) + 1 ELSE unSent
        /\ UNCHANGED <<toServer, unAck_segNum>>

\* stcp_send: into an empty buffer the segment is sent at once, else as many
\* of the waiting segments as the window has room for, the oldest first
StcpSend(len) ==
  /\ AppendBuf(len)
  /\ \/ /\ sendBuf = <<>>
        /\ toServer' = SipSend(toServer, <<DataSeg(NewBuf(len))>>)
        /\ unAck_segNum' = unAck_segNum + 1
        /\ UNCHANGED unSent
     \/ /\ sendBuf # <<>>
        /\ LET first == IF unSent = 0 THEN Len(sendBuf) + 1 ELSE unSent
               last  == Len(sendBuf) + 1
               room  == IF WindowOpen THEN GBN_WINDOW - unAck_segNum ELSE 0
               n     == IF last - first + 1 <= room THEN last - first + 1 ELSE room
           IN /\ toServer' = SipSend(toServer, SendAll(SubSeq(sendBuf', first, first + n - 1)))
              /\ unAck_segNum' = unAck_segNum + n
              /\ unSent' = IF first + n <= last THEN first + n ELSE 0

\* stcp_client_disconnect waits until every segment is acknowledged, ...
Disconnect ==
  /\ cpc = "open" /\ cpc' = "drain"
  /\ UNCHANGED <<run, retry, cstate, tcbVars, timers, chold, toServer, toClient>>

\* (a mutant: does not wait)
DrainedAtOnce ==
  /\ cpc = "drain"
  /\ cpc' = "fin" /\ retry' = 0 /\ cstate' = "FINWAIT"
  /\ UNCHANGED <<run, tcbVars, timers, chold, toServer, toClient>>

Drained ==
  /\ cpc = "drain" /\ sendBuf = <<>>
  /\ cpc' = "fin" /\ retry' = 0 /\ cstate' = "FINWAIT"
  /\ UNCHANGED <<run, tcbVars, timers, chold, toServer, toClient>>

\* ... then sends FIN until seghandler has closed the connection: returns 1, ...
SendFin ==
  /\ cpc = "fin" /\ retry < FIN_MAX_RETRY
  /\ cpc' = "finWait" /\ retry' = retry + 1
  /\ toServer' = SipSend(toServer, <<Control("FIN", next_seqNum, 0)>>)
  /\ UNCHANGED <<run, cstate, tcbVars, timers, chold, toClient>>

FinTimeout ==
  /\ cpc = "finWait" /\ cpc' = "fin"
  /\ UNCHANGED <<run, retry, cstate, tcbVars, timers, chold, toServer, toClient>>

\* (a mutant: returns 1 without looking at the state)
DisconnectedUnchecked ==
  /\ cpc = "finWait" /\ cpc' = "done"
  /\ UNCHANGED <<run, retry, cstate, tcbVars, timers, chold, toServer, toClient>>

Disconnected ==
  /\ cpc = "finWait" /\ cstate = "CLOSED" /\ cpc' = "done"
  /\ UNCHANGED <<run, retry, cstate, tcbVars, timers, chold, toServer, toClient>>

\* ... or gives up and returns -1
DisconnectFails ==
  /\ cpc = "fin" /\ retry = FIN_MAX_RETRY
  /\ cpc' = "finFailed" /\ cstate' = "CLOSED"
  /\ UNCHANGED <<run, retry, tcbVars, timers, chold, toServer, toClient>>

\* stcp_client_close frees the TCB; in another state it returns -1 and does
\* nothing
ClientClose ==
  /\ cpc \in {"done", "failed", "finFailed"} /\ cstate = "CLOSED"
  /\ cpc' = "closed" /\ cstate' = "NULL"
  /\ UNCHANGED <<run, retry, tcbVars, timers, chold, toServer, toClient>>

-----------------------------------------------------------------------------
(* The seghandler thread.                                                   *)

ClientAlive == cpc \notin {"down", "crashed"}

\* The segments a state has a case for.
ClientHandles(st, type) ==
  <<st, type>> \in {<<"SYNSENT", "SYNACK">>, <<"CONNECTED", "DATAACK">>, <<"FINWAIT", "FINACK">>}

\* sip_recvseg, the checksum test, the search for the TCB and the switch on its
\* state.  A segment chosen to be lost (rslt = 3) passes the tests of seghandler.
ClientRecv(i, rslt) ==
  /\ ClientAlive /\ chold = NoHold
  /\ toClient' = RemoveAt(toClient, i)
  /\ chold' = IF rslt # 2 /\ ClientHandles(cstate, toClient[i].type)
              THEN [st |-> cstate, rslt |-> rslt, seg |-> toClient[i]] ELSE NoHold
  /\ UNCHANGED <<run, cpc, retry, cstate, tcbVars, timers, toServer>>

\* The application thread freed the TCB in between: the table entry
\* dereferenced is NULL.
ClientActOnFreed ==
  /\ ClientAlive /\ chold # NoHold /\ cstate = "NULL"
  /\ cpc' = "crashed" /\ chold' = NoHold
  /\ UNCHANGED <<run, retry, cstate, tcbVars, timers, toServer, toClient>>

ClientSynAck ==
  /\ ClientAlive /\ chold.st = "SYNSENT" /\ cstate # "NULL"
  /\ cstate' = "CONNECTED" /\ chold' = NoHold
  /\ UNCHANGED <<run, cpc, retry, tcbVars, timers, toServer, toClient>>

ClientFinAck ==
  /\ ClientAlive /\ chold.st = "FINWAIT" /\ cstate # "NULL"
  /\ cstate' = "CLOSED" /\ chold' = NoHold
  /\ UNCHANGED <<run, cpc, retry, tcbVars, timers, toServer, toClient>>

\* A mutant: the loop runs once more, for n = 0.
AckLoopsTooOften(k, ack) ==
  /\ k <= Len(sendBuf)
  /\ \A i \in 1..k : sendBuf[i].seq <= ack
  /\ k < Len(sendBuf) => sendBuf[k + 1].seq > ack

\* The loop over the acknowledged segments runs k times: n = ack - seq of the
\* segment at the head is positive before each turn and not after the last.
AckLoops(k, ack) ==
  /\ k <= Len(sendBuf)
  /\ \A i \in 1..k : sendBuf[i].seq < ack
  /\ k < Len(sendBuf) => sendBuf[k + 1].seq >= ack

\* n is still positive when the list is empty: the loop dereferences NULL.
Overrun(ack) ==
  /\ sendBuf # <<>>
  /\ LET tail == sendBuf[Len(sendBuf)] IN tail.seq + Len(tail.data) < ack

\* A mutant: sendBufunSent is not NULL after the last segment.
UnsentAfterNoNull(k, n) == unSent + n - k

\* The place of sendBufunSent after k turns that sent n segments.
UnsentAfter(k, n) == IF n = UnsentCount THEN 0 ELSE unSent + n - k

\* Each turn frees the head, and sends the first waiting segment if there is one.
ClientDataAck ==
  /\ ClientAlive /\ chold.st = "CONNECTED" /\ cstate # "NULL"
  /\ \E k \in 0..Len(sendBuf) :
       /\ AckLoops(k, chold.seg.ack)
       /\ LET n == IF k <= UnsentCount THEN k ELSE UnsentCount IN
          /\ toServer' = SipSend(toServer,
                           SendAll(SubSeq(sendBuf, SentCount + 1, SentCount + n)))
          /\ unAck_segNum' = unAck_segNum + n - k
          /\ unSent' = UnsentAfter(k, n)
       /\ sendBuf' = SubSeq(sendBuf, k + 1, Len(sendBuf))
  /\ chold' = NoHold
  /\ cpc' = IF Overrun(chold.seg.ack) THEN "crashed" ELSE cpc
  /\ UNCHANGED <<run, retry, cstate, next_seqNum, timers, toClient>>

-----------------------------------------------------------------------------
(* The sendBuf_timer threads.                                               *)

\* A mutant: looks for a timeout only when no segment waits.
TimerResendIfNoneWaits ==
  /\ ClientAlive /\ timers > 0 /\ cstate # "NULL"
  /\ sendBuf # <<>> /\ unSent = 0
  /\ Len(toServer) + SentCount <= ChanCap
  /\ toServer' = toServer \o SendAll(sendBuf)
  /\ UNCHANGED <<clientVars, toClient>>

\* A timeout resends every segment sent and not acknowledged.  The guard on the
\* path is the bound ChanCap: the resend waits for room.
TimerResend ==
  /\ ClientAlive /\ timers > 0 /\ cstate # "NULL"
  /\ sendBuf # <<>> /\ unSent # 1
  /\ Len(toServer) + SentCount <= ChanCap
  /\ toServer' = toServer \o SendAll(SubSeq(sendBuf, 1, SentCount))
  /\ UNCHANGED <<clientVars, toClient>>

\* The threads never end, so after stcp_client_close they poll a TCB that was
\* freed, through a mutex that was destroyed: the process may crash.
TimerOnFreed ==
  /\ ClientAlive /\ timers > 0 /\ cpc = "closed"
  /\ cpc' = "crashed"
  /\ UNCHANGED <<run, retry, cstate, tcbVars, timers, chold, toServer, toClient>>

ClientNext ==
  \/ ClientStart \/ ClientSock
  \/ Connect \/ SendSyn \/ SynTimeout \/ Connected \/ ConnectFails
  \/ \E len \in SegLens : ClientSend(len) \/ StcpSend(len)
  \/ Disconnect \/ Drained \/ SendFin \/ FinTimeout \/ Disconnected \/ DisconnectFails
  \/ ClientClose
  \/ \E i \in Arriving(toClient), rslt \in RecvResults : ClientRecv(i, rslt)
  \/ ClientActOnFreed \/ ClientSynAck \/ ClientFinAck \/ ClientDataAck
  \/ TimerResend \/ TimerOnFreed
=============================================================================
