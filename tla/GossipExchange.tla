--------------------------- MODULE GossipExchange ---------------------------
(***************************************************************************)
(* One gossip exchange at the level of its TCP connection: send_and_ack at *)
(* the sender, handle_inbound at the peer (gossip/manager.rs), and the     *)
(* frames of gossip/protocol.rs between them.                              *)
(*                                                                         *)
(* A frame is one unit of header and size units of payload.  The stream    *)
(* carries units in order; the socket buffers hold Buffer of them for a    *)
(* reader that is not reading.  The ack is a few dozen bytes and always    *)
(* fits.  Either end may disappear in the middle.                          *)
(***************************************************************************)
EXTENDS Integers, Sequences

CONSTANTS
  LenModulus,         \* 2^32: the header is a u32
  MAX_MESSAGE_BYTES,  \* the largest payload read_message accepts
  Buffer,             \* what the socket buffers hold
  MaxSize             \* bound: the largest payload sent

ASSUME ExchangeAssumption ==
  /\ {LenModulus, MAX_MESSAGE_BYTES, Buffer, MaxSize} \subseteq Nat \ {0}
  /\ MAX_MESSAGE_BYTES < LenModulus

VARIABLES
  size,     \* length of the bincode payload
  send,     \* where send_and_ack is, or how it ended
  written,  \* units the sender has put into the stream
  inbound,  \* where handle_inbound is, or how it ended
  len,      \* the length that the header announced
  taken,    \* units the handler has taken out of the stream
  stalled,  \* the peer has stopped running without closing anything
  merges    \* history: what the handler has passed to merge_delta

vars == <<size, send, written, inbound, len, taken, stalled, merges>>
sender == <<size, send, written>>
peer   == <<inbound, len, taken, stalled, merges>>

\* "gone": the sender's host disappeared, and nothing says so to the peer.
Sending   == {"connect", "write", "await"}
SendEnd   == {"ok", "err", "gone"}
Handling  == {"len", "body", "ack"}
HandleEnd == {"done", "failed"}

\* The sender has dropped its TcpStream.
Closed == send \in {"ok", "err"}

-----------------------------------------------------------------------------
(***************************************************************************)
(* Framing.                                                                *)
(***************************************************************************)
\* payload.len() as u32
frame_len(s) == s % LenModulus

\* Fault: a payload that is cut short decodes.
Decodes_Short(n) == n > 0

\* bincode::deserialize of the first n units of the payload: the message ends
\* with a fixed-width field, so nothing shorter than all of it decodes.
Decodes(n) == n = size

-----------------------------------------------------------------------------
(***************************************************************************)
(* send_and_ack.                                                           *)
(***************************************************************************)
\* The kernel of a stalled peer still completes the connection.
Connect ==
  /\ send = "connect" /\ inbound # "failed"
  /\ send' = "write"
  /\ UNCHANGED <<size, written, peer>>

\* Refused, unreachable, or no answer within five seconds.
ConnectFails ==
  /\ send = "connect"
  /\ send' = "err"
  /\ UNCHANGED <<size, written, peer>>

\* write_message: header and payload go out as far as the buffers allow, with
\* no time limit.
WriteSome ==
  /\ send = "write" /\ written < 1 + size
  /\ written - taken < Buffer
  /\ written' = written + 1
  /\ UNCHANGED <<size, send, peer>>

WriteEnds ==
  /\ send = "write" /\ written = 1 + size
  /\ send' = "await"
  /\ UNCHANGED <<size, written, peer>>

WriteFails ==
  /\ send = "write" /\ inbound = "failed"
  /\ send' = "err"
  /\ UNCHANGED <<size, written, peer>>

AckArrives ==
  /\ send = "await" /\ inbound = "done"
  /\ send' = "ok"
  /\ UNCHANGED <<size, written, peer>>

\* The peer closed the connection without an ack.
AckFails ==
  /\ send = "await" /\ inbound = "failed"
  /\ send' = "err"
  /\ UNCHANGED <<size, written, peer>>

\* Fault: the ack is waited for without a time limit.
AckTimesOut_Never == FALSE /\ UNCHANGED vars

AckTimesOut ==
  /\ send = "await"
  /\ send' = "err"
  /\ UNCHANGED <<size, written, peer>>

\* The sender's host dies; what it had not got onto the network is lost.
SenderVanishes ==
  /\ send \in Sending
  /\ send' = "gone"
  /\ written' \in taken .. written
  /\ UNCHANGED <<size, peer>>

-----------------------------------------------------------------------------
(***************************************************************************)
(* The peer: accept, then handle_inbound.                                  *)
(***************************************************************************)
Accept ==
  /\ ~stalled /\ inbound = "none" /\ send # "connect"
  /\ inbound' = "len"
  /\ UNCHANGED <<sender, len, taken, stalled, merges>>

\* read_message: the header.  A length above the limit ends the handler.
ReadLen ==
  /\ ~stalled /\ inbound = "len" /\ taken < written
  /\ taken' = 1
  /\ len' = frame_len(size)
  /\ inbound' = IF len' > MAX_MESSAGE_BYTES THEN "failed" ELSE "body"
  /\ UNCHANGED <<sender, stalled, merges>>

\* Fault: read in place of read_exact, so that the buffer counts as filled after
\* the first piece.
ReadBody_Once ==
  /\ ~stalled /\ inbound = "body" /\ taken < 1 + len
  /\ taken < written
  /\ taken' = 1 + len
  /\ UNCHANGED <<sender, inbound, len, stalled, merges>>

\* read_message: read_exact takes what is there until it has len units.
ReadBody ==
  /\ ~stalled /\ inbound = "body" /\ taken < 1 + len
  /\ taken < written
  /\ taken' = taken + 1
  /\ UNCHANGED <<sender, inbound, len, stalled, merges>>

\* Fault: the end of the stream is taken for "nothing there yet".
ReadEof_Waits == FALSE /\ UNCHANGED vars

\* read_exact fails at the end of the stream.
ReadEof ==
  /\ ~stalled /\ Closed /\ taken = written
  /\ inbound = "len" \/ (inbound = "body" /\ taken < 1 + len)
  /\ inbound' = "failed"
  /\ UNCHANGED <<sender, len, taken, stalled, merges>>

\* Fault: the ack is written first.
HandleMessage_AckFirst ==
  /\ ~stalled
  /\ \/ /\ inbound = "body" /\ taken = 1 + len
        /\ inbound' = IF Decodes(len) THEN "done" ELSE "failed"
        /\ UNCHANGED merges
     \/ /\ inbound = "done" /\ merges = <<>>
        /\ merges' = <<"whole">>
        /\ UNCHANGED inbound
  /\ UNCHANGED <<sender, len, taken, stalled>>

\* The whole payload is there: decode it, merge_delta, mark_seen.
HandleMessage ==
  /\ ~stalled /\ inbound = "body" /\ taken = 1 + len
  /\ IF Decodes(len)
     THEN /\ merges' = Append(merges, IF len = size THEN "whole" ELSE "part")
          /\ inbound' = "ack"
     ELSE inbound' = "failed" /\ UNCHANGED merges
  /\ UNCHANGED <<sender, len, taken, stalled>>

WriteAck ==
  /\ ~stalled /\ inbound = "ack"
  /\ inbound' = "done"
  /\ UNCHANGED <<sender, len, taken, stalled, merges>>

WriteAckFails ==
  /\ ~stalled /\ inbound = "ack" /\ Closed
  /\ inbound' = "failed"
  /\ UNCHANGED <<sender, len, taken, stalled, merges>>

\* The process dies and its kernel resets the connection, or nobody listens.
PeerDies ==
  /\ ~stalled /\ inbound \notin HandleEnd
  /\ inbound' = "failed"
  /\ UNCHANGED <<sender, len, taken, stalled, merges>>

\* The process stops being scheduled while its connections stay up.
PeerStalls ==
  /\ ~stalled /\ inbound \notin HandleEnd
  /\ stalled' = TRUE
  /\ UNCHANGED <<sender, inbound, len, taken, merges>>

-----------------------------------------------------------------------------
Init ==
  /\ size \in 1 .. MaxSize
  /\ send = "connect" /\ written = 0
  /\ inbound = "none" /\ len = 0 /\ taken = 0
  /\ stalled = FALSE
  /\ merges = <<>>

SendAndAck ==
  \/ Connect \/ ConnectFails
  \/ WriteSome \/ WriteEnds \/ WriteFails
  \/ AckArrives \/ AckFails \/ AckTimesOut

HandleInbound ==
  \/ Accept
  \/ ReadLen \/ ReadBody \/ ReadEof
  \/ HandleMessage
  \/ WriteAck \/ WriteAckFails

Next ==
  \/ SendAndAck
  \/ HandleInbound
  \/ SenderVanishes \/ PeerDies \/ PeerStalls

Spec == Init /\ [][Next]_vars

\* Each task goes on whenever it can; nobody has to die or to stall.
FairSpec == Spec /\ WF_vars(SendAndAck) /\ WF_vars(HandleInbound)

-----------------------------------------------------------------------------
(***************************************************************************)
(* Properties                                                              *)
(***************************************************************************)

\* Every variable keeps its type: the header's length fits its width, and no
\* end takes out of the stream more than was put into it.
TypeOK ==
  /\ size \in 1 .. MaxSize
  /\ send \in Sending \cup SendEnd
  /\ written \in 0 .. 1 + size
  /\ inbound \in {"none"} \cup Handling \cup HandleEnd
  /\ len \in 0 .. LenModulus - 1
  /\ taken \in 0 .. written
  /\ stalled \in BOOLEAN
  /\ merges \in Seq({"whole", "part"})

\* However the stream is cut, and even when the length has wrapped around in
\* the header and passes the limit, the store is given a message only whole
\* and only within the limit, and success is never reported for another.
OnlyWholeMerged ==
  (merges # <<>> \/ send = "ok") =>
    size =< MAX_MESSAGE_BYTES /\ taken = 1 + size /\ merges = <<"whole">>

outcome == CASE send \in Sending -> "pending"
             [] send = "ok" -> "ok"
             [] OTHER -> "err"

\* The exchange keeps the promise of module Delivery, which is what module
\* Gossip takes an exchange to be.
Abstract == INSTANCE Delivery
ImplementsDelivery == Abstract!Spec

\* The sender fills the buffers of a peer that does not take anything out.
Blocked == send = "write" /\ written < 1 + size /\ written - taken >= Buffer

\* A send task ends, however its peer behaves, with one exception: the write
\* has no time limit, and a peer that stalls may block it for ever.
SendEnds == <>(send \in SendEnd) \/ <>[](stalled /\ Blocked)

\* While its own process runs, an inbound handler ends, with one exception:
\* nothing limits the time it waits for a sender that vanished without closing.
HandlerEnds ==
  [](inbound \in Handling =>
       <>(inbound \in HandleEnd) \/ <>[](stalled \/ send = "gone"))
=============================================================================
