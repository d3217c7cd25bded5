--------------------------- MODULE ExchangeProofs ---------------------------
(***************************************************************************)
(* Theorems about one gossip exchange, for every size of payload, limit,   *)
(* width of the header and size of the socket buffers.                     *)
(***************************************************************************)
EXTENDS GossipExchange, TLAPS

LEMMA Constants ==
  /\ LenModulus \in Nat \ {0} /\ MAX_MESSAGE_BYTES \in Nat \ {0}
  /\ Buffer \in Nat \ {0} /\ MaxSize \in Nat \ {0}
  /\ MAX_MESSAGE_BYTES < LenModulus
BY ExchangeAssumption

\* The header's length is within its width (protocol.rs: payload.len() as u32).
LEMMA FrameLen ==
  ASSUME NEW s \in Nat
  PROVE  /\ frame_len(s) \in 0 .. LenModulus - 1
         /\ frame_len(s) =< s
         /\ s =< MAX_MESSAGE_BYTES => frame_len(s) = s
BY Constants, SMT DEF frame_len

\* The stream, the two tasks and the header keep their types; in particular
\* nothing is read that was not written.
THEOREM ExchangeTypes == Spec => []TypeOK
<1>1. Init => TypeOK
  <2> SUFFICES ASSUME Init PROVE TypeOK
    OBVIOUS
  <2>1. merges \in Seq({"whole", "part"})
    BY DEF Init
  <2>2. /\ written \in 0 .. 1 + size /\ taken \in 0 .. written
        /\ len \in 0 .. LenModulus - 1
    BY Constants DEF Init
  <2> QED BY <2>1, <2>2 DEF Init, TypeOK, Sending, SendEnd, Handling, HandleEnd
<1>2. TypeOK /\ [Next]_vars => TypeOK'
  <2> SUFFICES ASSUME TypeOK, [Next]_vars PROVE TypeOK'
    OBVIOUS
  <2> USE Constants DEF TypeOK, Sending, SendEnd, Handling, HandleEnd, sender, peer
  <2>1. CASE SendAndAck
    BY <2>1 DEF SendAndAck, Connect, ConnectFails, WriteSome, WriteEnds, WriteFails,
                AckArrives, AckFails, AckTimesOut
  <2>2. CASE ReadLen
    BY <2>2, FrameLen DEF ReadLen
  <2>3. CASE HandleMessage
    <3> DEFINE what == IF len = size THEN "whole" ELSE "part"
    <3>1. merges' = merges \/ merges' = Append(merges, what)
      BY <2>3 DEF HandleMessage
    <3>2. what \in {"whole", "part"}
      OBVIOUS
    <3> HIDE DEF what
    <3>3. merges' \in Seq({"whole", "part"})
      BY <3>1, <3>2
    <3> QED BY <2>3, <3>3 DEF HandleMessage
  <2>4. CASE Accept \/ ReadBody \/ ReadEof \/ WriteAck \/ WriteAckFails
    BY <2>4 DEF Accept, ReadBody, ReadEof, WriteAck, WriteAckFails
  <2>5. CASE SenderVanishes
    <3>1. written' \in 0 .. 1 + size /\ taken \in 0 .. written'
      BY <2>5 DEF SenderVanishes
    <3> QED BY <2>5, <3>1 DEF SenderVanishes
  <2>6. CASE PeerDies \/ PeerStalls
    BY <2>6 DEF PeerDies, PeerStalls
  <2>7. CASE UNCHANGED vars
    BY <2>7 DEF vars
  <2> QED BY <2>1, <2>2, <2>3, <2>4, <2>5, <2>6, <2>7 DEF Next, HandleInbound
<1> QED BY <1>1, <1>2, PTL DEF Spec

-----------------------------------------------------------------------------
(***************************************************************************)
(* Only whole messages.  A handler that is past the header knows the       *)
(* length modulo the header's width, and that it is within the limit; only *)
(* the decoder tells a wrapped length from the real one.  The ack is       *)
(* written after the merge, so an ack at the sender means a merge.         *)
(***************************************************************************)
HeaderRead ==
  inbound \in {"body", "ack", "done"} =>
    len = frame_len(size) /\ len =< MAX_MESSAGE_BYTES

Merged ==
  /\ size =< MAX_MESSAGE_BYTES
  /\ taken = 1 + size
  /\ merges = <<"whole">>

\* What the handler has merged, by where it stands.
MergedByPhase ==
  /\ inbound \in {"none", "len", "body"} => merges = <<>>
  /\ inbound \in {"ack", "done"} => Merged
  /\ inbound = "failed" => merges = <<>> \/ Merged
  /\ send = "ok" => inbound = "done"

WholeInv == TypeOK /\ HeaderRead /\ MergedByPhase

LEMMA WholeInvariant == Spec => []WholeInv
<1>1. Init => HeaderRead /\ MergedByPhase
  BY DEF Init, HeaderRead, MergedByPhase
<1>2. TypeOK /\ HeaderRead /\ MergedByPhase /\ [Next]_vars
        => HeaderRead' /\ MergedByPhase'
  <2> SUFFICES ASSUME TypeOK, HeaderRead, MergedByPhase, [Next]_vars
               PROVE  HeaderRead' /\ MergedByPhase'
    OBVIOUS
  <2> USE DEF HeaderRead, MergedByPhase, Merged, sender, peer
  <2>1. CASE SendAndAck
    BY <2>1 DEF SendAndAck, Connect, ConnectFails, WriteSome, WriteEnds, WriteFails,
                AckArrives, AckFails, AckTimesOut
  <2>2. CASE ReadLen
    BY <2>2, FrameLen, Constants DEF ReadLen, TypeOK
  <2>3. CASE HandleMessage
    <3>1. CASE Decodes(len)
      <4>1. len = size /\ taken = 1 + size /\ size =< MAX_MESSAGE_BYTES
        BY <2>3, <3>1 DEF HandleMessage, Decodes
      <4>2. merges' = <<"whole">>
        BY <2>3, <3>1, <4>1 DEF HandleMessage
      <4> QED BY <2>3, <3>1, <4>1, <4>2 DEF HandleMessage
    <3>2. CASE ~Decodes(len)
      BY <2>3, <3>2 DEF HandleMessage
    <3> QED BY <3>1, <3>2
  <2>4. CASE Accept \/ ReadBody \/ ReadEof \/ WriteAck \/ WriteAckFails
    BY <2>4 DEF Accept, ReadBody, ReadEof, WriteAck, WriteAckFails, Closed
  <2>5. CASE SenderVanishes \/ PeerDies \/ PeerStalls
    BY <2>5 DEF SenderVanishes, PeerDies, PeerStalls, Sending, Handling, HandleEnd, TypeOK
  <2>6. CASE UNCHANGED vars
    BY <2>6 DEF vars
  <2> QED BY <2>1, <2>2, <2>3, <2>4, <2>5, <2>6 DEF Next, HandleInbound
<1> QED BY <1>1, <1>2, ExchangeTypes, PTL DEF Spec, WholeInv

\* However the stream is cut and whatever wraps around in the header, the store
\* is given whole messages within the limit and no others, and send_and_ack
\* succeeds for no others.
THEOREM OnlyWholeMessagesMerged == Spec => []OnlyWholeMerged
<1>1. WholeInv => OnlyWholeMerged
  BY DEF WholeInv, TypeOK, MergedByPhase, Merged, OnlyWholeMerged, Handling, HandleEnd
<1> QED BY <1>1, WholeInvariant, PTL

-----------------------------------------------------------------------------
\* The exchange on its connection implements the push that module Gossip
\* assumes: merged at most once and whole, success only after that.
THEOREM ExchangeImplementsDelivery == Spec => ImplementsDelivery
<1>1. Init => Abstract!Init
  BY DEF Init, Abstract!Init, outcome, Sending
<1>2. WholeInv /\ [Next]_vars => [Abstract!Next]_<<outcome, merges>>
  <2> SUFFICES ASSUME WholeInv, [Next]_vars
               PROVE  [Abstract!Next]_<<outcome, merges>>
    OBVIOUS
  <2> USE DEF WholeInv, outcome, Sending, SendEnd, sender, peer
  <2>1. CASE HandleMessage
    <3>1. UNCHANGED outcome
      BY <2>1 DEF HandleMessage
    <3>2. CASE Decodes(len)
      <4>1. merges = <<>> /\ merges' = <<"whole">>
        BY <2>1, <3>2 DEF HandleMessage, Decodes, MergedByPhase
      <4> QED BY <3>1, <4>1 DEF Abstract!Next, Abstract!Merge
    <3>3. CASE ~Decodes(len)
      BY <2>1, <3>1, <3>3 DEF HandleMessage
    <3> QED BY <3>2, <3>3
  <2>2. CASE AckArrives
    BY <2>2 DEF AckArrives, MergedByPhase, Merged, Abstract!Next, Abstract!Succeed
  <2>3. CASE ConnectFails \/ WriteFails \/ AckFails \/ AckTimesOut \/ SenderVanishes
    BY <2>3 DEF ConnectFails, WriteFails, AckFails, AckTimesOut, SenderVanishes,
                Abstract!Next, Abstract!GiveUp
  <2>4. CASE Connect \/ WriteSome \/ WriteEnds
    BY <2>4 DEF Connect, WriteSome, WriteEnds
  <2>5. CASE Accept \/ ReadLen \/ ReadBody \/ ReadEof \/ WriteAck \/ WriteAckFails
             \/ PeerDies \/ PeerStalls
    BY <2>5 DEF Accept, ReadLen, ReadBody, ReadEof, WriteAck, WriteAckFails, PeerDies,
                PeerStalls
  <2>6. CASE UNCHANGED vars
    BY <2>6 DEF vars
  <2> QED BY <2>1, <2>2, <2>3, <2>4, <2>5, <2>6 DEF Next, SendAndAck, HandleInbound
<1> QED BY <1>1, <1>2, WholeInvariant, PTL DEF Spec, ImplementsDelivery, Abstract!Spec
=============================================================================
