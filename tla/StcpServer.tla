----------------------------- MODULE StcpServer -----------------------------
(***************************************************************************)
(* The server side of an STCP connection, server/stcp_server.c: one TCB,   *)
(* the application thread and the seghandler thread.  The server process   *)
(* is past stcp_server_init: its seghandler runs, its table has no TCB.    *)
(* seghandler is two steps, as on the client: it reads the TCB state, and  *)
(* for a data segment the room left in the buffer, before it takes the     *)
(* buffer's lock.                                                          *)
(***************************************************************************)
EXTENDS StcpNet

VARIABLES
  spc,            \* where the application thread is
  want,           \* length argument of the stcp_server_recv in progress
  sstate,         \* TCB state, "NULL" when tcbtable has no TCB
  expect_seqNum,  \* TCB field
  recvBuf,        \* the first usedBufLen bytes of the TCB's buffer
  read,           \* every byte stcp_server_recv has returned, in order
  shold           \* the segment seghandler works on

serverVars == <<spc, want, sstate, expect_seqNum, recvBuf, read, shold>>

ServerStates == {"NULL", "CLOSED", "LISTENING", "CONNECTED", "CLOSEWAIT"}
ServerPcs == {"init", "ready", "accepting", "open", "recv", "closed", "crashed"}

usedBufLen == Len(recvBuf)

\* st: the state seghandler read; fits: the data is expected and has room
ServerNoHold == [st |-> "idle", fits |-> FALSE, seg |-> Control("SYN", 0, 0)]
ServerHold == [st : {"idle", "LISTENING", "CONNECTED", "CLOSEWAIT"},
               fits : BOOLEAN, seg : Segment]

ServerInit ==
  /\ spc = "init" /\ want = 0 /\ sstate = "NULL" /\ expect_seqNum = 0
  /\ recvBuf = <<>> /\ read = <<>> /\ shold = ServerNoHold

-----------------------------------------------------------------------------
(* The application thread.                                                  *)

\* stcp_server_sock: the TCB is zeroed
ServerSock ==
  /\ spc = "init"
  /\ spc' = "ready" /\ sstate' = "CLOSED"
  /\ expect_seqNum' = 0 /\ recvBuf' = <<>>
  /\ UNCHANGED <<want, read, shold, toServer, toClient>>

\* stcp_server_accept listens, ...
Accept ==
  /\ spc = "ready"
  /\ spc' = "accepting" /\ sstate' = "LISTENING"
  /\ UNCHANGED <<want, expect_seqNum, recvBuf, read, shold, toServer, toClient>>

\* ... and returns 1 when a poll finds the state CONNECTED
Accepted ==
  /\ spc = "accepting" /\ sstate = "CONNECTED" /\ spc' = "open"
  /\ UNCHANGED <<want, sstate, expect_seqNum, recvBuf, read, shold, toServer, toClient>>

\* stcp_server_recv(length) polls the buffer until it holds length bytes, ...
Recv(length) ==
  /\ spc = "open"
  /\ spc' = "recv" /\ want' = length
  /\ UNCHANGED <<sstate, expect_seqNum, recvBuf, read, shold, toServer, toClient>>

\* A mutant: waits for one byte more than asked.
ReceivedLate ==
  /\ spc = "recv" /\ usedBufLen > want
  /\ spc' = "open" /\ want' = 0
  /\ read' = read \o SubSeq(recvBuf, 1, want)
  /\ recvBuf' = SubSeq(recvBuf, want + 1, usedBufLen)
  /\ UNCHANGED <<sstate, expect_seqNum, shold, toServer, toClient>>

\* ... then takes them from its front and returns 1
Received ==
  /\ spc = "recv" /\ usedBufLen >= want
  /\ spc' = "open" /\ want' = 0
  /\ read' = read \o SubSeq(recvBuf, 1, want)
  /\ recvBuf' = SubSeq(recvBuf, want + 1, usedBufLen)
  /\ UNCHANGED <<sstate, expect_seqNum, shold, toServer, toClient>>

\* stcp_server_close frees the TCB; in the states LISTENING and CONNECTED it
\* returns -1 and does nothing
ServerClose ==
  /\ spc = "open" /\ sstate \notin {"LISTENING", "CONNECTED"}
  /\ spc' = "closed" /\ sstate' = "NULL"
  /\ UNCHANGED <<want, expect_seqNum, recvBuf, read, shold, toServer, toClient>>

-----------------------------------------------------------------------------
(* The seghandler thread.                                                   *)

\* The segments a state has a case for.
ServerHandles(st, type) ==
  <<st, type>> \in {<<"LISTENING", "SYN">>, <<"CONNECTED", "FIN">>, <<"CONNECTED", "SYN">>,
                    <<"CONNECTED", "DATA">>, <<"CLOSEWAIT", "FIN">>}

\* A mutant: the test of the sequence number is dropped.
FitsInAnyOrder(seg) == Len(seg.data) <= RECEIVE_BUF_SIZE - usedBufLen

\* A mutant: the test of the room left is dropped.
FitsWithoutRoom(seg) == seg.seq = expect_seqNum

\* A mutant: data that fills the buffer exactly is refused.
FitsStrictly(seg) ==
  seg.seq = expect_seqNum /\ Len(seg.data) < RECEIVE_BUF_SIZE - usedBufLen

\* The data segment expected next, when it fits in the buffer as a whole.
Fits(seg) ==
  seg.seq = expect_seqNum /\ Len(seg.data) <= RECEIVE_BUF_SIZE - usedBufLen

\* sip_recvseg, the search for the TCB and the switch on its state.  Only an
\* intact segment is looked at.  The search dereferences the table's NULL
\* entries: an intact segment kills a server that has no TCB for its port.
ServerRecv(i, rslt) ==
  /\ spc # "crashed" /\ shold = ServerNoHold
  /\ toServer' = RemoveAt(toServer, i)
  /\ LET seg == toServer[i] IN
     /\ spc' = IF rslt = 1 /\ sstate = "NULL" THEN "crashed" ELSE spc
     /\ shold' = IF rslt = 1 /\ ServerHandles(sstate, seg.type)
                 THEN [st |-> sstate, seg |-> seg, fits |-> seg.type = "DATA" /\ Fits(seg)]
                 ELSE ServerNoHold
  /\ UNCHANGED <<want, sstate, expect_seqNum, recvBuf, read, toClient>>

\* The segment just received goes back as the reply; the client reads no seq_num,
\* which is left out.  The guard on the path is the bound ChanCap: seghandler
\* waits for room.
Reply(type, ack) ==
  /\ Len(toClient) < ChanCap
  /\ toClient' = Append(toClient, Control(type, 0, ack))
  /\ shold' = ServerNoHold
  /\ UNCHANGED <<want, read, toServer>>

ServerSyn ==
  /\ spc # "crashed" /\ shold # ServerNoHold /\ shold.seg.type = "SYN"
  /\ sstate' = "CONNECTED"
  /\ Reply("SYNACK", shold.seg.ack)
  /\ UNCHANGED <<spc, expect_seqNum, recvBuf>>

\* A mutant: FIN frees the TCB at once.
ServerFinFrees ==
  /\ spc # "crashed" /\ shold # ServerNoHold /\ shold.seg.type = "FIN"
  /\ sstate' = "NULL" /\ Reply("FINACK", shold.seg.ack)
  /\ UNCHANGED <<spc, expect_seqNum, recvBuf>>

\* The application may have freed the TCB since its state was read.
ServerFin ==
  /\ spc # "crashed" /\ shold # ServerNoHold /\ shold.seg.type = "FIN"
  /\ IF sstate = "NULL"
     THEN /\ spc' = "crashed" /\ shold' = ServerNoHold
          /\ UNCHANGED <<want, sstate, read, toServer, toClient>>
     ELSE /\ sstate' = "CLOSEWAIT" /\ Reply("FINACK", shold.seg.ack) /\ UNCHANGED spc
  /\ UNCHANGED <<expect_seqNum, recvBuf>>

\* Data that is expected and fits is appended; the reply acknowledges what has
\* been appended so far in every case.
ServerData ==
  /\ spc # "crashed" /\ shold # ServerNoHold /\ shold.seg.type = "DATA"
  /\ IF shold.fits
     THEN /\ recvBuf' = recvBuf \o shold.seg.data
          /\ expect_seqNum' = expect_seqNum + Len(shold.seg.data)
     ELSE UNCHANGED <<recvBuf, expect_seqNum>>
  /\ Reply("DATAACK", expect_seqNum')
  /\ UNCHANGED <<spc, sstate>>

ServerNext ==
  \/ ServerSock \/ Accept \/ Accepted
  \/ \E length \in RecvLens : Recv(length)
  \/ Received \/ ServerClose
  \/ \E i \in Arriving(toServer), rslt \in RecvResults : ServerRecv(i, rslt)
  \/ ServerSyn \/ ServerFin \/ ServerData
=============================================================================
