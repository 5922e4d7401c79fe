------------------------------ MODULE StcpNet ------------------------------
(***************************************************************************)
(* STCP segments and the path between the two STCP processes of SimpleNet  *)
(* lab10: common/seg.h and common/seg.c, the SIP and SON processes seen    *)
(* from above.                                                             *)
(*                                                                         *)
(* One connection.  A segment keeps the header fields the protocol reads   *)
(* (type, seq_num, ack_num, length = Len(data)); ports and node ids are    *)
(* those of the connection, and the checksum is abstracted to the outcome  *)
(* of sip_recvseg (see the receive actions of StcpClient and StcpServer).  *)
(* A byte of application data is the pair <<run, position>>: the client    *)
(* process that wrote it and its place in the stream, so that two bytes    *)
(* are equal only when they are the same byte.                             *)
(***************************************************************************)
EXTENDS Integers, Sequences, SequencesExt

CONSTANTS
  GBN_WINDOW,        \* constants.h: segments sent and not acknowledged, at most
  SYN_MAX_RETRY,     \* constants.h: SYN transmissions of one stcp_client_connect
  FIN_MAX_RETRY,     \* constants.h: FIN transmissions of one stcp_client_disconnect
  RECEIVE_BUF_SIZE,  \* constants.h: bytes in the receive buffer of a server TCB
  SegLens,           \* lengths of the segments the application sends
  RecvLens,          \* lengths the server application passes to stcp_server_recv
  MaxSeq,            \* bound: bytes one client process sends
  MaxRuns,           \* bound: client processes started one after the other
  ChanCap,           \* bound: segments in flight in each direction
  Overtaking         \* may a segment overtake an earlier one (SIP changes its route)?

ASSUME ConstantsAssumption ==
  /\ GBN_WINDOW \in Nat \ {0}
  /\ SYN_MAX_RETRY \in Nat /\ FIN_MAX_RETRY \in Nat
  /\ RECEIVE_BUF_SIZE \in Nat
  /\ SegLens \subseteq Nat \ {0} /\ RecvLens \subseteq Nat
  /\ MaxSeq \in Nat /\ MaxRuns \in Nat /\ ChanCap \in Nat
  /\ Overtaking \in BOOLEAN

VARIABLES
  toServer,  \* segments on their way from the client's node to the server's
  toClient   \* segments on their way back

SegTypes == {"SYN", "SYNACK", "FIN", "FINACK", "DATA", "DATAACK"}

Byte == Nat \X Nat

Segment == [type : SegTypes, seq : Nat, ack : Nat, data : Seq(Byte)]

\* A segment without data: control segments and acknowledgements.
Control(type, seq, ack) == [type |-> type, seq |-> seq, ack |-> ack, data |-> <<>>]

(***************************************************************************)
(* sip_sendseg hands segments to the SIP process and returns 1 whatever    *)
(* becomes of them: segments that find the path full are lost on it.       *)
(***************************************************************************)
SipSend(path, segs) ==
  IF Len(path) + Len(segs) <= ChanCap THEN path \o segs ELSE path

\* A mutant: SIP reorders the segments of a path.
ArrivingInAnyOrder(path) == 1..Len(path)

\* The positions of a path whose segment the next sip_recvseg may return.
Arriving(path) == {i \in 1..Len(path) : i = 1 \/ Overtaking}

(***************************************************************************)
(* What sip_recvseg returns for a segment that arrives: 1, intact; 2, a    *)
(* bit was flipped and the checksum does not match; 3, seglost chose the   *)
(* segment to be lost (it is nevertheless stored in the caller's buffer).  *)
(***************************************************************************)
RecvResults == {1, 2, 3}
=============================================================================
