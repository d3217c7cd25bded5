-------------------------- MODULE WatermarkProofs --------------------------
(***************************************************************************)
(* Theorems about what the watermarks of module Gossip hide and stand for. *)
(***************************************************************************)
EXTENDS GossipProofs

(***************************************************************************)
(* The inductive invariant.                                                *)
(***************************************************************************)

\* Every timestamp is above the watermark a peer starts with.
PositiveStamps ==
  /\ now > 0
  /\ \A n \in Node : \A w \in pending[n] : w.incoming.timestamp > 0
  /\ \A w \in written : w[2].timestamp > 0

\* A key of a peer table leads to the node it names; what a round cloned is an
\* older version of what the table has; an exchange goes where its key leads.
TablesLead ==
  \A n \in Node, p \in PeerKey :
    /\ peers[n][p] # None => peers[n][p].gossip_addr = p[2]
    /\ round[n][p] # None => /\ peers[n][p] # None
                             /\ round[n][p].gossip_addr = p[2]
                             /\ round[n][p].last_sync_ts =< peers[n][p].last_sync_ts

ExchangesLead ==
  \A t \in Task : exch[t] # None =>
    /\ exch[t].to = exch[t].peer_id[2]
    /\ exch[t].phase # "orphaned" => peers[exch[t].from_node_id][exch[t].peer_id] # None

\* n's entry of k is known to p's node.
Reached(n, p, k) == Covers(store[p[2]][k], store[n][k])

\* An entry at or below p's watermark that did not come late has reached p.
BelowWatermark ==
  \A n \in Node, p \in PeerKey, k \in Key :
    (/\ peers[n][p] # None /\ store[n][k] # None
     /\ store[n][k].timestamp =< peers[n][p].last_sync_ts
     /\ k \notin late[n][p]) => Reached(n, p, k)

\* So will, or has, an entry at or below the max_sent_ts of an exchange whose
\* ack still counts.
BelowSent ==
  \A t \in Task, k \in Key :
    LET x == exch[t]
        n == x.from_node_id
        p == x.peer_id
    IN  (/\ x # None /\ x.phase # "orphaned" /\ store[n][k] # None
         /\ store[n][k].timestamp =< x.max_sent_ts
         /\ k \notin late[n][p]) =>
           \/ Reached(n, p, k)
           \/ x.phase = "sent" /\ x.deltas[k] = store[n][k]

\* Node m's store reaches ts.
Reaches(m, ts) == \E k \in Key : store[m][k] # None /\ store[m][k].timestamp >= ts

SentBacked ==
  \A t \in Task : (exch[t] # None /\ exch[t].max_sent_ts > 0) =>
    /\ \E k \in Key : /\ exch[t].deltas[k] # None
                      /\ exch[t].deltas[k].timestamp >= exch[t].max_sent_ts
    /\ exch[t].phase = "merged" => Reaches(exch[t].to, exch[t].max_sent_ts)

\* A node that merged a message has its sender in its table; so has a seed that
\* an exchange succeeded with; and seeds stay in the table.
Acquainted ==
  /\ \A t \in Task : (exch[t] # None /\ exch[t].phase = "merged") =>
       peers[exch[t].to][<<"id", exch[t].from_node_id>>] # None
  /\ \A n, m \in Node :
       (peers[n][<<"addr", m>>] # None /\ peers[n][<<"addr", m>>].exchange_count > 0)
         => peers[m][<<"id", n>>] # None
  /\ \A n \in Node : \A m \in Seeds[n] : peers[n][<<"addr", m>>] # None

PeerInv == PositiveStamps /\ TablesLead /\ ExchangesLead
WatermarkInv == BelowWatermark /\ BelowSent

LinkInv == WrittenInv /\ PeerInv

-----------------------------------------------------------------------------
(***************************************************************************)
(* What a step does to one exchange, one table entry and one late mark.    *)
(***************************************************************************)
LEMMA PhaseKept ==
  ASSUME TypeOK, NEW t \in Task, ExchangeStep(t), NEW s \in Task, exch'[s] # None
  PROVE  /\ exch'[s].phase # "orphaned" => exch[s].phase # "orphaned"
         /\ exch'[s].phase = "sent" => exch[s].phase = "sent"
         /\ exch'[s].phase = "merged" =>
              \/ exch[s].phase = "merged"
              \/ s = t /\ HandleInbound(t) /\ exch[s].phase = "sent"
<1>1. exch[t] # None
  BY DEF ExchangeStep, HandleInbound, RejectInbound, ReceiveAck, SendFails, AckTimesOut
<1>2. exch[t] \in Exchange
  BY <1>1, ExchangeFields
<1>3. \/ exch' = [exch EXCEPT ![t] = None]
      \/ /\ HandleInbound(t) /\ exch[t].phase = "sent"
         /\ exch' = [exch EXCEPT ![t] = [exch[t] EXCEPT !.phase = "merged"]]
      \/ exch' = [exch EXCEPT ![t] = [exch[t] EXCEPT !.phase = "orphaned"]]
  <2>1. CASE HandleInbound(t)
    BY <2>1 DEF HandleInbound
  <2>2. CASE AckTimesOut(t)
    BY <2>2 DEF AckTimesOut, TypeOK
  <2>3. CASE RejectInbound(t) \/ ReceiveAck(t) \/ SendFails(t)
    BY <2>3 DEF RejectInbound, ReceiveAck, SendFails
  <2> QED BY <2>1, <2>2, <2>3 DEF ExchangeStep
<1>4. CASE s = t
  BY <1>2, <1>3, <1>4 DEF TypeOK, Exchange
<1>5. CASE s # t
  BY <1>3, <1>5 DEF TypeOK
<1> QED BY <1>4, <1>5

\* Where an exchange that is under way after a step comes from.
LEMMA ExchangeOrigin ==
  ASSUME TypeOK, [Next]_vars, NEW s \in Task, exch'[s] # None
  PROVE  \/ exch'[s] = exch[s]
         \/ \E n \in Node, p \in PeerKey : SpawnSend(n, p, s)
         \/ \E t \in Task : ExchangeStep(t)
<1>1. ASSUME NEW n \in Node, NEW p \in PeerKey, NEW t \in Task, SpawnSend(n, p, t),
             t # s
      PROVE  exch'[s] = exch[s]
  BY <1>1 DEF SpawnSend, TypeOK
<1> QED BY <1>1 DEF Next, ClientStep, RoundStep, AdvanceTime, StampSet, CommitSet,
                    BeginRound, SkipPeer, vars

LEMMA EntryStep ==
  ASSUME TypeOK, ExchangesLead, [Next]_vars, NEW n \in Node, NEW p \in PeerKey,
         peers'[n][p] # None
  PROVE  \/ /\ peers[n][p] # None
            /\ peers'[n][p].last_sync_ts = peers[n][p].last_sync_ts
            /\ peers'[n][p].gossip_addr = peers[n][p].gossip_addr
            /\ p[1] = "addr" => peers'[n][p].exchange_count = peers[n][p].exchange_count
         \/ /\ peers[n][p] = None
            /\ peers'[n][p].last_sync_ts = 0
            /\ peers'[n][p].gossip_addr = p[2]
            /\ p[1] = "id"
         \/ /\ peers[n][p] # None
            /\ peers'[n][p].gossip_addr = peers[n][p].gossip_addr
            /\ UNCHANGED <<store, late>>
            /\ \E t \in Task :
                 /\ exch[t] # None /\ exch[t].phase = "merged"
                 /\ exch[t].from_node_id = n /\ exch[t].peer_id = p
                 /\ \/ peers'[n][p].last_sync_ts = peers[n][p].last_sync_ts
                    \/ peers'[n][p].last_sync_ts = exch[t].max_sent_ts
<1>1. CASE peers'[n][p] = peers[n][p]
  BY <1>1
<1>2. ASSUME NEW t \in Task, HandleInbound(t), peers'[n][p] # peers[n][p]
      PROVE  /\ p[1] = "id"
             /\ \/ /\ peers[n][p] # None
                   /\ peers'[n][p].last_sync_ts = peers[n][p].last_sync_ts
                   /\ peers'[n][p].gossip_addr = peers[n][p].gossip_addr
                \/ /\ peers[n][p] = None
                   /\ peers'[n][p].last_sync_ts = 0
                   /\ peers'[n][p].gossip_addr = p[2]
  <2> DEFINE q == <<"id", exch[t].from_node_id>>
  <2>1. exch[t].from_node_id \in Node /\ exch[t].to \in Node
    BY <1>2, ExchangeFields DEF HandleInbound
  <2>2. q \in PeerKey
    BY <2>1, PeerTypes
  <2>3. peers' = [peers EXCEPT ![exch[t].to][q] =
                    mark_seen(OrInsert(peers[exch[t].to], q, exch[t].from_node_id))]
    BY <1>2 DEF HandleInbound
  <2>4. n = exch[t].to /\ p = q
        /\ peers'[n][p] = mark_seen(OrInsert(peers[n], p, exch[t].from_node_id))
    BY <1>2, <2>1, <2>2, <2>3 DEF TypeOK, PeerTable
  <2>5. OrInsert(peers[n], p, exch[t].from_node_id) \in PeerInfo
    BY <2>1, TableTypes DEF TypeOK
  <2>6. /\ peers'[n][p].last_sync_ts = OrInsert(peers[n], p, exch[t].from_node_id).last_sync_ts
        /\ peers'[n][p].gossip_addr = OrInsert(peers[n], p, exch[t].from_node_id).gossip_addr
    BY <2>4, <2>5 DEF mark_seen, PeerInfo
  <2> QED BY <2>4, <2>6 DEF OrInsert, NewPeer
<1>3. ASSUME NEW t \in Task, ReceiveAck(t), peers'[n][p] # peers[n][p]
      PROVE  /\ exch[t] # None /\ exch[t].phase = "merged"
             /\ exch[t].from_node_id = n /\ exch[t].peer_id = p
             /\ peers[n][p] # None
             /\ peers'[n][p].gossip_addr = peers[n][p].gossip_addr
             /\ UNCHANGED <<store, late>>
             /\ \/ peers'[n][p].last_sync_ts = peers[n][p].last_sync_ts
                \/ peers'[n][p].last_sync_ts = exch[t].max_sent_ts
  <2>1. exch[t] # None /\ exch[t].phase = "merged" /\ UNCHANGED <<store, late>>
    BY <1>3 DEF ReceiveAck, history
  <2>2. exch[t].from_node_id \in Node /\ exch[t].peer_id \in PeerKey
        /\ exch[t].max_sent_ts \in Nat
    BY <2>1, ExchangeFields
  <2>3. exch[t].from_node_id = n /\ exch[t].peer_id = p
        /\ peers'[n][p] = record_exchange(OrInsert(peers[n], p, exch[t].to),
                                          exch[t].max_sent_ts)
    BY <1>3, <2>2 DEF ReceiveAck, TypeOK, PeerTable
  <2>4. peers[n][p] # None
    BY <2>1, <2>3 DEF ExchangesLead
  <2>5. peers[n][p] \in PeerInfo
        /\ peers'[n][p] = record_exchange(peers[n][p], exch[t].max_sent_ts)
    BY <2>3, <2>4 DEF OrInsert, TypeOK, PeerTable
  <2>6. /\ peers'[n][p].gossip_addr = peers[n][p].gossip_addr
        /\ \/ peers'[n][p].last_sync_ts = peers[n][p].last_sync_ts
           \/ peers'[n][p].last_sync_ts = exch[t].max_sent_ts
    BY <2>5 DEF record_exchange, PeerInfo
  <2> QED BY <2>1, <2>3, <2>4, <2>6
<1>4. \/ peers' = peers
      \/ \E t \in Task : HandleInbound(t) \/ ReceiveAck(t)
  BY DEF Next, ClientStep, RoundStep, ExchangeStep, AdvanceTime, StampSet, CommitSet,
         BeginRound, SkipPeer, SpawnSend, RejectInbound, SendFails, AckTimesOut, vars
<1>5. ASSUME NEW t \in Task, HandleInbound(t), peers'[n][p] # peers[n][p]
      PROVE  p[1] # "addr"
  BY <1>2, <1>5
<1> QED BY <1>1, <1>2, <1>3, <1>4, <1>5

\* A late mark is set or cleared exactly when the entry changes.
LEMMA LateStep ==
  ASSUME TypeOK, [Next]_vars, NEW n \in Node, NEW p \in PeerKey, NEW k \in Key
  PROVE  /\ store'[n][k] = store[n][k] => (k \in late'[n][p] <=> k \in late[n][p])
         /\ store'[n][k] # store[n][k] =>
              (k \in late'[n][p] <=> AlreadySent(n, p, store'[n][k].timestamp))
<1>1. ASSUME NEW j \in Node, NEW m, NoteArrivals(j, m), store' = [store EXCEPT ![j] = m]
      PROVE  /\ store'[n][k] = store[n][k] => (k \in late'[n][p] <=> k \in late[n][p])
             /\ store'[n][k] # store[n][k] =>
                  (k \in late'[n][p] <=> AlreadySent(n, p, store'[n][k].timestamp))
  <2>1. CASE n = j
    <3>1. store'[n] = m
      BY <1>1, <2>1 DEF TypeOK
    <3>2. late'[n][p] = {i \in Key : IF m[i] = store[n][i] THEN i \in late[n][p]
                                     ELSE AlreadySent(n, p, m[i].timestamp)}
      BY <1>1, <2>1 DEF NoteArrivals, TypeOK
    <3> QED BY <3>1, <3>2
  <2>2. CASE n # j
    BY <1>1, <2>2 DEF NoteArrivals, TypeOK
  <2> QED BY <2>1, <2>2
<1>2. ASSUME NEW j \in Node, NEW w \in pending[j], CommitSet(j, w)
      PROVE  \E m : NoteArrivals(j, m) /\ store' = [store EXCEPT ![j] = m]
  BY <1>2 DEF CommitSet
<1>3. ASSUME NEW t \in Task, HandleInbound(t)
      PROVE  exch[t].to \in Node
             /\ \E m : NoteArrivals(exch[t].to, m)
                       /\ store' = [store EXCEPT ![exch[t].to] = m]
  <2>1. exch[t].to \in Node
    BY <1>3, ExchangeFields DEF HandleInbound
  <2> QED BY <1>3, <2>1 DEF HandleInbound
<1>4. \/ UNCHANGED <<store, late>>
      \/ \E j \in Node : \E w \in pending[j] : CommitSet(j, w)
      \/ \E t \in Task : HandleInbound(t)
  BY DEF Next, ClientStep, RoundStep, ExchangeStep, AdvanceTime, StampSet, BeginRound,
         SkipPeer, SpawnSend, RejectInbound, ReceiveAck, SendFails, AckTimesOut, vars,
         history
<1>5. CASE UNCHANGED <<store, late>>
  BY <1>5
<1> QED BY <1>1, <1>2, <1>3, <1>4, <1>5

-----------------------------------------------------------------------------
(***************************************************************************)
(* PeerInv.                                                                *)
(***************************************************************************)
LEMMA PositiveKept ==
  ASSUME TypeOK, PositiveStamps, [Next]_vars
  PROVE  PositiveStamps'
<1>1. CASE AdvanceTime
  BY <1>1 DEF AdvanceTime, PositiveStamps, TypeOK, history
<1>2. ASSUME NEW n \in Node, NEW k \in Key, NEW v \in Value, StampSet(n, k, v)
      PROVE  PositiveStamps'
  <2>1. PICK ts \in now_micros :
          pending' = [pending EXCEPT ![n] = @ \cup
            {[key |-> k, incoming |-> [value |-> v, timestamp |-> ts, node_id |-> n]]}]
    BY <1>2 DEF StampSet
  <2>2. ts > 0
    BY BoundTypes DEF now_micros, PositiveStamps, TypeOK
  <2>3. \A j \in Node : \A w \in pending'[j] : w.incoming.timestamp > 0
    BY <2>1, <2>2 DEF PositiveStamps, TypeOK
  <2> QED BY <1>2, <2>3 DEF StampSet, PositiveStamps, history
<1>3. ASSUME NEW n \in Node, NEW w \in pending[n], CommitSet(n, w)
      PROVE  PositiveStamps'
  <2>1. \A j \in Node : pending'[j] \subseteq pending[j]
    BY <1>3 DEF CommitSet, TypeOK
  <2>2. w.incoming.timestamp > 0
    BY <1>3 DEF PositiveStamps
  <2>3. \A u \in written' : u \in written \/ u = <<w.key, w.incoming>>
    BY <1>3 DEF CommitSet
  <2>4. now' = now
    BY <1>3 DEF CommitSet
  <2> QED BY <2>1, <2>2, <2>3, <2>4 DEF PositiveStamps
<1>4. CASE UNCHANGED <<now, pending, written>>
  BY <1>4 DEF PositiveStamps
<1>5. ASSUME NEW n \in Node, RoundStep(n)
      PROVE  UNCHANGED <<now, pending, written>>
  BY <1>5 DEF RoundStep, BeginRound, SkipPeer, SpawnSend, history
<1>6. ASSUME NEW t \in Task, ExchangeStep(t)
      PROVE  UNCHANGED <<now, pending, written>>
  BY <1>6 DEF ExchangeStep, HandleInbound, RejectInbound, ReceiveAck, SendFails,
              AckTimesOut, history
<1>7. CASE UNCHANGED vars
  BY <1>4, <1>7 DEF vars, history
<1> QED BY <1>1, <1>2, <1>3, <1>4, <1>5, <1>6, <1>7 DEF Next, ClientStep

\* What a round has cloned is in the table, or was cloned already.
LEMMA RoundOrigin ==
  ASSUME TypeOK, [Next]_vars, NEW n \in Node, NEW p \in PeerKey, round'[n][p] # None
  PROVE  \/ round'[n][p] = round[n][p]
         \/ round'[n][p] = peers[n][p] /\ peers[n][p] # None
<1>1. ASSUME NEW j \in Node, NEW targets \in SUBSET Known(j), BeginRound(j, targets)
      PROVE  \/ round'[n][p] = round[n][p]
             \/ round'[n][p] = peers[n][p] /\ peers[n][p] # None
  BY <1>1 DEF BeginRound, TypeOK
<1>2. ASSUME NEW j \in Node, NEW q \in PeerKey,
             round' = [round EXCEPT ![j][q] = None]
      PROVE  round'[n][p] = round[n][p]
  BY <1>2 DEF TypeOK, PeerTable
<1>3. \/ round' = round
      \/ \E j \in Node : \E targets \in SUBSET Known(j) : BeginRound(j, targets)
      \/ \E j \in Node, q \in PeerKey : round' = [round EXCEPT ![j][q] = None]
  BY DEF Next, ClientStep, RoundStep, ExchangeStep, AdvanceTime, StampSet, CommitSet,
         SkipPeer, SpawnSend, HandleInbound, RejectInbound, ReceiveAck, SendFails,
         AckTimesOut, vars
<1> QED BY <1>1, <1>2, <1>3

LEMMA TablesKept ==
  ASSUME TypeOK, TablesLead, ExchangesLead, [Next]_vars
  PROVE  TablesLead'
<1> SUFFICES ASSUME NEW n \in Node, NEW p \in PeerKey
             PROVE  /\ peers'[n][p] # None => peers'[n][p].gossip_addr = p[2]
                    /\ round'[n][p] # None =>
                         /\ peers'[n][p] # None
                         /\ round'[n][p].gossip_addr = p[2]
                         /\ round'[n][p].last_sync_ts =< peers'[n][p].last_sync_ts
  BY DEF TablesLead
<1>1. peers'[n][p] # None => peers'[n][p].gossip_addr = p[2]
  BY EntryStep DEF TablesLead
<1>2. ASSUME round'[n][p] # None
      PROVE  /\ peers'[n][p] # None
             /\ round'[n][p].gossip_addr = p[2]
             /\ round'[n][p].last_sync_ts =< peers'[n][p].last_sync_ts
  <2>0. TypeOK'
    BY NextType
  <2>1. /\ peers[n][p] # None
        /\ round'[n][p].gossip_addr = p[2]
        /\ round'[n][p].last_sync_ts =< peers[n][p].last_sync_ts
    <3>1. peers[n][p] # None => peers[n][p] \in PeerInfo
      BY DEF TypeOK, PeerTable
    <3>2. peers[n][p] # None => peers[n][p].last_sync_ts \in Nat
      BY <3>1 DEF PeerInfo
    <3> QED BY <1>2, <3>2, RoundOrigin DEF TablesLead
  <2>2. peers'[n][p] # None
        /\ peers'[n][p].last_sync_ts >= peers[n][p].last_sync_ts
    BY <2>1, WatermarkForward
  <2>3. peers[n][p] \in PeerInfo /\ peers'[n][p] \in PeerInfo /\ round'[n][p] \in PeerInfo
    BY <1>2, <2>0, <2>1, <2>2 DEF TypeOK, PeerTable
  <2>4. peers[n][p].last_sync_ts \in Nat /\ peers'[n][p].last_sync_ts \in Nat
        /\ round'[n][p].last_sync_ts \in Nat
    BY <2>3 DEF PeerInfo
  <2> QED BY <2>1, <2>2, <2>4
<1> QED BY <1>1, <1>2

\* The exchange a SpawnSend starts.
LEMMA Spawned ==
  ASSUME TypeOK, NEW n \in Node, NEW p \in PeerKey, NEW t \in Task, SpawnSend(n, p, t)
  PROVE  /\ round[n][p] # None
         /\ exch'[t].from_node_id = n /\ exch'[t].peer_id = p
         /\ exch'[t].to = round[n][p].gossip_addr
         /\ exch'[t].deltas = RoundDelta(n, p)
         /\ exch'[t].phase = "sent"
         /\ IsMaxTimestamp(RoundDelta(n, p), exch'[t].max_sent_ts)
         /\ UNCHANGED <<store, peers, late>>
<1>1. PICK ts \in Time :
        /\ IsMaxTimestamp(RoundDelta(n, p), ts)
        /\ exch' = [exch EXCEPT ![t] =
             [from_node_id |-> n, peer_id |-> p, to |-> round[n][p].gossip_addr,
              deltas |-> RoundDelta(n, p), max_sent_ts |-> ts, phase |-> "sent"]]
  BY DEF SpawnSend
<1>2. exch'[t] = [from_node_id |-> n, peer_id |-> p, to |-> round[n][p].gossip_addr,
                  deltas |-> RoundDelta(n, p), max_sent_ts |-> ts, phase |-> "sent"]
  BY <1>1 DEF TypeOK
<1>3. round[n][p] # None /\ UNCHANGED <<store, peers, late>>
  BY DEF SpawnSend, history
<1> QED BY <1>1, <1>2, <1>3

LEMMA ExchangesKept ==
  ASSUME TypeOK, TablesLead, ExchangesLead, [Next]_vars
  PROVE  ExchangesLead'
<1> SUFFICES ASSUME NEW s \in Task, exch'[s] # None
             PROVE  /\ exch'[s].to = exch'[s].peer_id[2]
                    /\ exch'[s].phase # "orphaned" =>
                         peers'[exch'[s].from_node_id][exch'[s].peer_id] # None
  BY DEF ExchangesLead
<1>1. ASSUME NEW n \in Node, NEW p \in PeerKey, SpawnSend(n, p, s)
      PROVE  /\ exch'[s].to = exch'[s].peer_id[2]
             /\ peers'[exch'[s].from_node_id][exch'[s].peer_id] # None
  BY <1>1, Spawned DEF TablesLead
<1>2. ASSUME exch[s] # None, SameMessage(exch[s], exch'[s]),
             exch'[s].phase # "orphaned" => exch[s].phase # "orphaned"
      PROVE  /\ exch'[s].to = exch'[s].peer_id[2]
             /\ exch'[s].phase # "orphaned" =>
                  peers'[exch'[s].from_node_id][exch'[s].peer_id] # None
  <2>1. exch[s].from_node_id \in Node /\ exch[s].peer_id \in PeerKey
    BY <1>2, ExchangeFields
  <2>2. /\ exch[s].to = exch[s].peer_id[2]
        /\ exch[s].phase # "orphaned" => peers[exch[s].from_node_id][exch[s].peer_id] # None
    BY <1>2 DEF ExchangesLead
  <2>3. exch[s].phase # "orphaned" => peers'[exch[s].from_node_id][exch[s].peer_id] # None
    BY <2>1, <2>2, WatermarkForward
  <2> QED BY <1>2, <2>2, <2>3 DEF SameMessage
<1>3. ASSUME NEW t \in Task, ExchangeStep(t)
      PROVE  /\ exch[s] # None /\ SameMessage(exch[s], exch'[s])
             /\ exch'[s].phase # "orphaned" => exch[s].phase # "orphaned"
  BY <1>3, MessagesKept, PhaseKept
<1>4. CASE exch'[s] = exch[s]
  BY <1>2, <1>4 DEF SameMessage
<1> QED BY <1>1, <1>2, <1>3, <1>4, ExchangeOrigin

LEMMA LinkInvariant == Spec => []LinkInv
<1>1. Init => PeerInv
  <2> SUFFICES ASSUME Init PROVE PeerInv
    OBVIOUS
  <2>1. PositiveStamps
    BY DEF Init, PositiveStamps
  <2>2. TablesLead
    <3> SUFFICES ASSUME NEW n \in Node, NEW p \in PeerKey
                 PROVE  /\ peers[n][p] # None => peers[n][p].gossip_addr = p[2]
                        /\ round[n][p] = None
      BY DEF TablesLead
    <3>1. peers[n][p] = NewPeer(p[2]) \/ peers[n][p] = None
      BY DEF Init, SeedTable
    <3>2. round[n][p] = None
      BY DEF Init, NoPeers
    <3> QED BY <3>1, <3>2 DEF NewPeer
  <2>3. ExchangesLead
    BY DEF Init, ExchangesLead
  <2> QED BY <2>1, <2>2, <2>3 DEF PeerInv
<1>2. WrittenInv /\ PeerInv /\ [Next]_vars => PeerInv'
  BY PositiveKept, TablesKept, ExchangesKept DEF PeerInv, WrittenInv
<1> QED BY <1>1, <1>2, WrittenInvariant, PTL DEF Spec, LinkInv

-----------------------------------------------------------------------------
(***************************************************************************)
(* WatermarkInv: an entry that is new in n's store is late, or its stamp   *)
(* is above whatever was shipped; an old one stays where it has reached.   *)
(***************************************************************************)
LEMMA StorePositive ==
  ASSUME LinkInv, NEW n \in Node, NEW k \in Key, store[n][k] # None
  PROVE  store[n][k] \in LwwValue /\ store[n][k].timestamp \in Nat
         /\ store[n][k].timestamp > 0
<1>1. store[n][k] \in LwwValue
  BY DEF LinkInv, WrittenInv, TypeOK, StateMap, Entry
<1>2. <<k, store[n][k]>> \in written
  BY DEF LinkInv, WrittenInv, Genuine, NothingInvented
<1>3. store[n][k].timestamp > 0
  BY <1>2 DEF LinkInv, PeerInv, PositiveStamps
<1> QED BY <1>1, <1>3 DEF LwwValue

LEMMA ReachedKept ==
  ASSUME TypeOK, [Next]_vars, NEW n \in Node, NEW p \in PeerKey, NEW k \in Key,
         store'[n][k] = store[n][k], Reached(n, p, k)
  PROVE  Reached(n, p, k)'
<1>1. p[2] \in Node
  BY PeerTypes
<1>2. /\ store[n][k] \in Entry /\ store[p[2]][k] \in Entry /\ store'[p[2]][k] \in Entry
      /\ Covers(store'[p[2]][k], store[p[2]][k])
  BY <1>1, StoreForward
<1>3. Covers(store'[p[2]][k], store[n][k])
  BY <1>2, CoversIsOrder DEF Reached
<1> QED BY <1>3 DEF Reached

LEMMA BelowWatermarkKept ==
  ASSUME LinkInv, LinkInv', WatermarkInv, [Next]_vars
  PROVE  BelowWatermark'
<1> SUFFICES ASSUME NEW n \in Node, NEW p \in PeerKey, NEW k \in Key,
                    peers'[n][p] # None, store'[n][k] # None,
                    store'[n][k].timestamp =< peers'[n][p].last_sync_ts,
                    k \notin late'[n][p]
             PROVE  Reached(n, p, k)'
  BY DEF BelowWatermark
<1>t. TypeOK /\ TypeOK' /\ ExchangesLead
  BY DEF LinkInv, WrittenInv, PeerInv
<1>1. store'[n][k].timestamp \in Nat /\ store'[n][k].timestamp > 0
  <2>1. store'[n][k] \in LwwValue
    BY <1>t DEF TypeOK, StateMap, Entry
  <2>2. <<k, store'[n][k]>> \in written'
    BY DEF LinkInv, WrittenInv, Genuine, NothingInvented
  <2>3. store'[n][k].timestamp > 0
    BY <2>2 DEF LinkInv, PeerInv, PositiveStamps
  <2> QED BY <2>1, <2>3 DEF LwwValue
<1>2. peers[n][p] # None
  BY <1>t, <1>1, EntryStep
<1>3. peers[n][p].last_sync_ts \in Nat
  BY <1>t, <1>2 DEF TypeOK, PeerTable, PeerInfo
<1>4. store'[n][k] = store[n][k]
  <2> SUFFICES ASSUME store'[n][k] # store[n][k] PROVE FALSE
    OBVIOUS
  <2>1. ~AlreadySent(n, p, store'[n][k].timestamp)
    BY <1>t, LateStep
  <2>2. store' # store
    OBVIOUS
  <2>3. peers'[n][p].last_sync_ts = peers[n][p].last_sync_ts
    BY <1>t, <1>2, <2>2, EntryStep
  <2> QED BY <1>1, <1>2, <1>3, <2>1, <2>3 DEF AlreadySent
<1>5. k \notin late[n][p]
  BY <1>t, <1>4, LateStep
<1>6. Reached(n, p, k)
  <2>1. CASE store[n][k].timestamp =< peers[n][p].last_sync_ts
    BY <1>2, <1>4, <1>5, <2>1 DEF WatermarkInv, BelowWatermark
  <2>2. CASE ~(store[n][k].timestamp =< peers[n][p].last_sync_ts)
    <3>1. PICK t \in Task :
            /\ exch[t] # None /\ exch[t].phase = "merged"
            /\ exch[t].from_node_id = n /\ exch[t].peer_id = p
            /\ peers'[n][p].last_sync_ts = exch[t].max_sent_ts
      BY <1>t, <1>2, <1>4, <2>2, EntryStep
    <3> QED BY <1>4, <1>5, <3>1 DEF WatermarkInv, BelowSent
  <2> QED BY <2>1, <2>2
<1> QED BY <1>t, <1>4, <1>6, ReachedKept

\* Merging a message leaves its receiver with everything in it.
LEMMA InboundReaches ==
  ASSUME WrittenInv, NEW t \in Task, HandleInbound(t), NEW k \in Key
  PROVE  Covers(store'[exch[t].to][k], exch[t].deltas[k])
<1> DEFINE r == exch[t].to
           d == exch[t].deltas
<1>1. exch[t] # None /\ r \in Node
  BY ExchangeFields DEF HandleInbound, WrittenInv
<1>2. ASSUME store[r][k] # None, d[k] # None, SameStamp(store[r][k], d[k])
      PROVE  store[r][k] = d[k]
  <2>1. <<k, store[r][k]>> \in written
    BY <1>1, <1>2 DEF WrittenInv, Genuine, NothingInvented
  <2>2. <<k, d[k]>> \in written
    BY <1>1, <1>2 DEF WrittenInv, Genuine, MessagesGenuine
  <2>3. <<k, store[r][k]>> = <<k, d[k]>>
    BY <1>2, <2>1, <2>2 DEF WrittenInv, Authored, OneWritePerStamp
  <2> QED BY <2>3
<1> QED BY <1>1, <1>2, InboundSlot DEF WrittenInv

LEMMA BelowSentKept ==
  ASSUME LinkInv, LinkInv', WatermarkInv, [Next]_vars
  PROVE  BelowSent'
<1>t. TypeOK /\ TypeOK' /\ WrittenInv /\ TablesLead /\ ExchangesLead
  BY DEF LinkInv, WrittenInv, PeerInv
<1> SUFFICES ASSUME NEW s \in Task, NEW k \in Key, exch'[s] # None,
                    exch'[s].phase # "orphaned",
                    store'[exch'[s].from_node_id][k] # None,
                    store'[exch'[s].from_node_id][k].timestamp =< exch'[s].max_sent_ts,
                    k \notin late'[exch'[s].from_node_id][exch'[s].peer_id]
             PROVE  \/ Covers(store'[exch'[s].peer_id[2]][k], store'[exch'[s].from_node_id][k])
                    \/ /\ exch'[s].phase = "sent"
                       /\ exch'[s].deltas[k] = store'[exch'[s].from_node_id][k]
  BY DEF BelowSent, Reached
<1> DEFINE n == exch'[s].from_node_id
           p == exch'[s].peer_id
<1>0. n \in Node /\ p \in PeerKey /\ p[2] \in Node /\ exch'[s].max_sent_ts \in Nat
  <2>1. exch'[s] \in Exchange
    BY <1>t DEF TypeOK
  <2>2. n \in Node /\ p \in PeerKey /\ exch'[s].max_sent_ts \in Nat
    BY <2>1 DEF Exchange
  <2> QED BY <2>2, PeerTypes
<1> HIDE DEF n, p
<1>1. ASSUME NEW j \in Node, NEW q \in PeerKey, SpawnSend(j, q, s)
      PROVE  \/ Covers(store'[p[2]][k], store'[n][k])
             \/ exch'[s].phase = "sent" /\ exch'[s].deltas[k] = store'[n][k]
  <2>1. /\ round[j][q] # None /\ n = j /\ p = q /\ exch'[s].phase = "sent"
        /\ exch'[s].deltas = RoundDelta(j, q)
        /\ UNCHANGED <<store, peers, late>>
    BY <1>t, <1>1, Spawned DEF n, p
  <2>2. round[j][q] \in PeerInfo /\ peers[j][q] \in PeerInfo
        /\ round[j][q].last_sync_ts =< peers[j][q].last_sync_ts
    BY <1>t, <2>1 DEF TypeOK, PeerTable, TablesLead
  <2>3. round[j][q].last_sync_ts \in Nat /\ peers[j][q].last_sync_ts \in Nat
    BY <2>2 DEF PeerInfo
  <2>4. store[j][k] # None /\ store[j][k].timestamp \in Nat
    BY <2>1, StorePositive DEF n
  <2>5. CASE store[j][k].timestamp > round[j][q].last_sync_ts
    <3>1. RoundDelta(j, q)[k] = store[j][k]
      BY <2>4, <2>5 DEF RoundDelta, delta_since
    <3> QED BY <2>1, <3>1
  <2>6. CASE ~(store[j][k].timestamp > round[j][q].last_sync_ts)
    <3>1. store[j][k].timestamp =< peers[j][q].last_sync_ts
      BY <2>2, <2>3, <2>4, <2>6
    <3>2. k \notin late[j][q]
      BY <2>1 DEF n, p
    <3>3. peers[j][q] # None
      BY <1>t, <2>1 DEF TablesLead
    <3>4. Covers(store[q[2]][k], store[j][k])
      BY <2>4, <3>1, <3>2, <3>3 DEF WatermarkInv, BelowWatermark, Reached
    <3> QED BY <2>1, <3>4
  <2> QED BY <2>5, <2>6
<1>2. ASSUME exch[s] # None, SameMessage(exch[s], exch'[s]), exch[s].phase # "orphaned",
             \/ exch[s].phase = exch'[s].phase
             \/ HandleInbound(s) /\ exch[s].phase = "sent" /\ exch'[s].phase = "merged"
      PROVE  \/ Covers(store'[p[2]][k], store'[n][k])
             \/ exch'[s].phase = "sent" /\ exch'[s].deltas[k] = store'[n][k]
  <2>1. /\ exch[s].from_node_id = n /\ exch[s].peer_id = p
        /\ exch[s].deltas = exch'[s].deltas /\ exch[s].max_sent_ts = exch'[s].max_sent_ts
    BY <1>2 DEF SameMessage, n, p
  <2>2. store'[n][k] = store[n][k]
    <3> SUFFICES ASSUME store'[n][k] # store[n][k] PROVE FALSE
      OBVIOUS
    <3>1. ~AlreadySent(n, p, store'[n][k].timestamp)
      BY <1>t, <1>0, LateStep DEF n, p
    <3> QED BY <1>2, <2>1, <3>1 DEF AlreadySent, n
  <2>3. k \notin late[n][p]
    BY <1>t, <1>0, <2>2, LateStep DEF n, p
  <2>4. \/ Reached(n, p, k)
        \/ exch[s].phase = "sent" /\ exch[s].deltas[k] = store[n][k]
    BY <1>2, <2>1, <2>2, <2>3 DEF WatermarkInv, BelowSent, n
  <2>5. CASE Reached(n, p, k)
    BY <1>t, <1>0, <2>2, <2>5, ReachedKept DEF Reached
  <2>6. CASE exch[s].phase = "sent" /\ exch[s].deltas[k] = store[n][k]
    <3>1. CASE exch'[s].phase = "sent"
      BY <2>1, <2>2, <2>6, <3>1
    <3>2. CASE HandleInbound(s)
      <4>1. exch[s].to = p[2]
        BY <1>2, <1>t, <2>1 DEF ExchangesLead
      <4> QED BY <1>t, <2>2, <2>6, <3>2, <4>1, InboundReaches
    <3> QED BY <1>2, <2>6, <3>1, <3>2
  <2> QED BY <2>4, <2>5, <2>6
<1>3. ASSUME NEW t \in Task, ExchangeStep(t)
      PROVE  /\ exch[s] # None /\ SameMessage(exch[s], exch'[s])
             /\ exch[s].phase # "orphaned"
             /\ \/ exch[s].phase = exch'[s].phase
                \/ HandleInbound(s) /\ exch[s].phase = "sent" /\ exch'[s].phase = "merged"
  <2>1. exch'[s].phase \in {"sent", "merged"}
    <3>1. exch'[s] \in Exchange
      BY <1>t DEF TypeOK
    <3> QED BY <3>1 DEF Exchange
  <2> QED BY <1>t, <1>3, <2>1, MessagesKept, PhaseKept
<1>4. ASSUME exch'[s] = exch[s]
      PROVE  /\ exch[s] # None /\ SameMessage(exch[s], exch'[s])
             /\ exch[s].phase # "orphaned" /\ exch[s].phase = exch'[s].phase
  BY <1>4 DEF SameMessage
<1>5. \/ Covers(store'[p[2]][k], store'[n][k])
      \/ exch'[s].phase = "sent" /\ exch'[s].deltas[k] = store'[n][k]
  BY <1>t, <1>1, <1>2, <1>3, <1>4, ExchangeOrigin
<1> QED BY <1>5 DEF n, p

LEMMA WatermarkInvariant == Spec => []WatermarkInv
<1>1. Init => WatermarkInv
  BY DEF Init, WatermarkInv, BelowWatermark, BelowSent, EmptyMap
<1>2. LinkInv /\ LinkInv' /\ WatermarkInv /\ [Next]_vars => WatermarkInv'
  BY BelowWatermarkKept, BelowSentKept DEF WatermarkInv
<1> QED BY <1>1, <1>2, LinkInvariant, PTL DEF Spec

\* The only entries a watermark hides from a peer that lacks them are those
\* that reached the store after something at least as recent had been shipped
\* to that peer (gossip_round: delta_since, max_sent_ts, record_exchange).
THEOREM OnlyLateIsSkipped == Spec => []OnlyLateSkipped
<1>1. LinkInv /\ WatermarkInv => OnlyLateSkipped
  BY DEF LinkInv, PeerInv, TablesLead, WatermarkInv, BelowWatermark, Reached,
         OnlyLateSkipped, Skipped
<1> QED BY <1>1, LinkInvariant, WatermarkInvariant, PTL

-----------------------------------------------------------------------------
(***************************************************************************)
(* What a watermark stands for.                                            *)
(***************************************************************************)
LEMMA SentBackedKept ==
  ASSUME LinkInv, LinkInv', SentBacked, [Next]_vars
  PROVE  SentBacked'
<1>t. TypeOK /\ TypeOK' /\ WrittenInv
  BY DEF LinkInv, WrittenInv
<1> SUFFICES ASSUME NEW s \in Task, exch'[s] # None, exch'[s].max_sent_ts > 0
             PROVE  /\ \E k \in Key :
                         /\ exch'[s].deltas[k] # None
                         /\ exch'[s].deltas[k].timestamp >= exch'[s].max_sent_ts
                    /\ exch'[s].phase = "merged" =>
                         \E k \in Key :
                           /\ store'[exch'[s].to][k] # None
                           /\ store'[exch'[s].to][k].timestamp >= exch'[s].max_sent_ts
  BY DEF SentBacked, Reaches
<1> DEFINE Stored(k) == /\ store'[exch'[s].to][k] # None
                        /\ store'[exch'[s].to][k].timestamp >= exch'[s].max_sent_ts
<1>0. exch'[s].max_sent_ts \in Nat /\ exch'[s].deltas \in StateMap /\ exch'[s].to \in Node
  <2>1. exch'[s] \in Exchange
    BY <1>t DEF TypeOK
  <2> QED BY <2>1 DEF Exchange
<1>1. ASSUME NEW n \in Node, NEW p \in PeerKey, SpawnSend(n, p, s)
      PROVE  /\ exch'[s].phase = "sent"
             /\ \E k \in Key :
                  /\ exch'[s].deltas[k] # None
                  /\ exch'[s].deltas[k].timestamp >= exch'[s].max_sent_ts
  <2>1. exch'[s].phase = "sent" /\ IsMaxTimestamp(exch'[s].deltas, exch'[s].max_sent_ts)
    BY <1>t, <1>1, Spawned
  <2>2. PICK k \in Key : /\ exch'[s].deltas[k] # None
                         /\ exch'[s].deltas[k].timestamp = exch'[s].max_sent_ts
    BY <1>0, <2>1 DEF IsMaxTimestamp
  <2> QED BY <1>0, <2>1, <2>2
<1>2. ASSUME exch[s] # None, SameMessage(exch[s], exch'[s]),
             exch'[s].phase = "merged" => exch[s].phase = "merged" \/ HandleInbound(s)
      PROVE  /\ \E k \in Key :
                  /\ exch'[s].deltas[k] # None
                  /\ exch'[s].deltas[k].timestamp >= exch'[s].max_sent_ts
             /\ exch'[s].phase = "merged" => \E k \in Key : Stored(k)
  <2>1. /\ exch[s].to = exch'[s].to /\ exch[s].deltas = exch'[s].deltas
        /\ exch[s].max_sent_ts = exch'[s].max_sent_ts
    BY <1>2 DEF SameMessage
  <2>2. PICK k \in Key : /\ exch'[s].deltas[k] # None
                         /\ exch'[s].deltas[k].timestamp >= exch'[s].max_sent_ts
    BY <1>2, <2>1 DEF SentBacked
  <2>3. CASE exch[s].phase = "merged"
    <3>1. Reaches(exch[s].to, exch[s].max_sent_ts)
      BY <1>2, <2>1, <2>3 DEF SentBacked
    <3>2. PICK i \in Key : /\ store[exch[s].to][i] # None
                           /\ store[exch[s].to][i].timestamp >= exch[s].max_sent_ts
      BY <3>1 DEF Reaches
    <3>3. /\ store[exch[s].to][i] \in Entry /\ store'[exch[s].to][i] \in Entry
          /\ Covers(store'[exch[s].to][i], store[exch[s].to][i])
      BY <1>t, <1>0, <2>1, StoreForward
    <3>4. /\ store'[exch[s].to][i] # None
          /\ store'[exch[s].to][i].timestamp >= exch[s].max_sent_ts
      BY <1>0, <2>1, <3>2, <3>3, NodeIsInt DEF Covers, StampLess, Entry, LwwValue
    <3> QED BY <2>1, <2>2, <3>4
  <2>4. CASE HandleInbound(s)
    <3>1. Covers(store'[exch[s].to][k], exch[s].deltas[k])
      BY <1>t, <2>4, InboundReaches
    <3>2. store'[exch[s].to][k] \in Entry /\ exch[s].deltas[k] \in Entry
      BY <1>t, <1>0, <2>1 DEF TypeOK, StateMap
    <3>3. /\ store'[exch[s].to][k] # None
          /\ store'[exch[s].to][k].timestamp >= exch[s].max_sent_ts
      BY <1>0, <2>1, <2>2, <3>1, <3>2, NodeIsInt DEF Covers, StampLess, Entry, LwwValue
    <3> QED BY <2>1, <2>2, <3>3
  <2> QED BY <1>2, <2>2, <2>3, <2>4
<1>3. ASSUME NEW t \in Task, ExchangeStep(t)
      PROVE  /\ exch[s] # None /\ SameMessage(exch[s], exch'[s])
             /\ exch'[s].phase = "merged" => exch[s].phase = "merged" \/ HandleInbound(s)
  BY <1>t, <1>3, MessagesKept, PhaseKept
<1>4. ASSUME exch'[s] = exch[s]
      PROVE  exch[s] # None /\ SameMessage(exch[s], exch'[s])
  BY <1>4 DEF SameMessage
<1>5. CASE \E n \in Node, p \in PeerKey : SpawnSend(n, p, s)
  BY <1>1, <1>5
<1>6. CASE exch'[s] = exch[s] \/ \E t \in Task : ExchangeStep(t)
  BY <1>2, <1>3, <1>4, <1>6
<1> QED BY <1>t, <1>5, <1>6, ExchangeOrigin

LEMMA BackedKept ==
  ASSUME LinkInv, LinkInv', SentBacked, WatermarkBacked, [Next]_vars
  PROVE  WatermarkBacked'
<1>t. TypeOK /\ TypeOK' /\ TablesLead /\ TablesLead' /\ ExchangesLead
  BY DEF LinkInv, WrittenInv, PeerInv
<1> SUFFICES ASSUME NEW n \in Node, NEW p \in PeerKey, peers'[n][p] # None,
                    peers'[n][p].last_sync_ts > 0
             PROVE  \E k \in Key :
                      /\ store'[peers'[n][p].gossip_addr][k] # None
                      /\ store'[peers'[n][p].gossip_addr][k].timestamp
                           >= peers'[n][p].last_sync_ts
  BY DEF WatermarkBacked
<1>1. peers'[n][p].gossip_addr = p[2] /\ p[2] \in Node
      /\ peers'[n][p].last_sync_ts \in Nat
  BY <1>t, PeerTypes DEF TablesLead, TypeOK, PeerTable, PeerInfo
<1>2. peers[n][p] # None
  BY <1>t, EntryStep
<1>3. peers[n][p].gossip_addr = p[2]
  BY <1>t, <1>2 DEF TablesLead
<1>4. Reaches(p[2], peers'[n][p].last_sync_ts)
  <2>1. CASE peers'[n][p].last_sync_ts = peers[n][p].last_sync_ts
    BY <1>2, <1>3, <2>1 DEF WatermarkBacked, Reaches
  <2>2. CASE peers'[n][p].last_sync_ts # peers[n][p].last_sync_ts
    <3>1. PICK t \in Task :
            /\ exch[t] # None /\ exch[t].phase = "merged"
            /\ exch[t].from_node_id = n /\ exch[t].peer_id = p
            /\ peers'[n][p].last_sync_ts = exch[t].max_sent_ts
      BY <1>t, <1>2, <2>2, EntryStep
    <3>2. exch[t].to = p[2]
      BY <1>t, <3>1 DEF ExchangesLead
    <3> QED BY <3>1, <3>2 DEF SentBacked
  <2> QED BY <2>1, <2>2
<1>5. PICK k \in Key : /\ store[p[2]][k] # None
                       /\ store[p[2]][k].timestamp >= peers'[n][p].last_sync_ts
  BY <1>4 DEF Reaches
<1>6. /\ store[p[2]][k] \in Entry /\ store'[p[2]][k] \in Entry
      /\ Covers(store'[p[2]][k], store[p[2]][k])
  BY <1>t, <1>1, StoreForward
<1>7. store'[p[2]][k] # None
      /\ store'[p[2]][k].timestamp >= peers'[n][p].last_sync_ts
  BY <1>1, <1>5, <1>6, NodeIsInt DEF Covers, StampLess, Entry, LwwValue
<1> QED BY <1>1, <1>7

\* A watermark never runs ahead of the peer's store: some entry there is at
\* least as recent (gossip_round: "advance only to what we SENT").
THEOREM WatermarksAreBacked == Spec => []WatermarkBacked
<1>1. Init => SentBacked /\ WatermarkBacked
  <2> SUFFICES ASSUME Init PROVE SentBacked /\ WatermarkBacked
    OBVIOUS
  <2>1. SentBacked
    BY DEF Init, SentBacked
  <2>2. ASSUME NEW n \in Node, NEW p \in PeerKey
        PROVE  peers[n][p] = NewPeer(p[2]) \/ peers[n][p] = None
    BY DEF Init, SeedTable
  <2>3. ASSUME NEW n \in Node, NEW p \in PeerKey, peers[n][p] # None
        PROVE  ~(peers[n][p].last_sync_ts > 0)
    <3>1. NewPeer(p[2]).last_sync_ts = 0
      BY DEF NewPeer
    <3>2. peers[n][p].last_sync_ts = 0
      BY <2>2, <2>3, <3>1
    <3> QED BY <3>2
  <2> QED BY <2>1, <2>3 DEF WatermarkBacked
<1>2. LinkInv /\ LinkInv' /\ SentBacked /\ WatermarkBacked /\ [Next]_vars
        => SentBacked' /\ WatermarkBacked'
  BY SentBackedKept, BackedKept
<1> QED BY <1>1, <1>2, LinkInvariant, PTL DEF Spec

-----------------------------------------------------------------------------
(***************************************************************************)
(* Silence.                                                                *)
(***************************************************************************)
LEMMA SeedsAreNodes == \A n \in Node : \A m \in Seeds[n] : m \in Node
BY GossipAssumption

LEMMA AcquaintedKept ==
  ASSUME LinkInv, LinkInv', Acquainted, [Next]_vars
  PROVE  Acquainted'
<1>t. TypeOK /\ TypeOK' /\ ExchangesLead
  BY DEF LinkInv, WrittenInv, PeerInv
<1>k. \A n \in Node : <<"id", n>> \in PeerKey /\ <<"addr", n>> \in PeerKey
  BY PeerTypes
<1>1. ASSUME NEW s \in Task, exch'[s] # None, exch'[s].phase = "merged"
      PROVE  peers'[exch'[s].to][<<"id", exch'[s].from_node_id>>] # None
  <2>0. exch'[s].to \in Node /\ exch'[s].from_node_id \in Node
    <3>1. exch'[s] \in Exchange
      BY <1>t, <1>1 DEF TypeOK
    <3> QED BY <3>1 DEF Exchange
  <2>1. ASSUME exch[s] # None, SameMessage(exch[s], exch'[s]), exch[s].phase = "merged"
        PROVE  peers'[exch'[s].to][<<"id", exch'[s].from_node_id>>] # None
    <3>1. exch[s].to = exch'[s].to /\ exch[s].from_node_id = exch'[s].from_node_id
      BY <2>1 DEF SameMessage
    <3>2. peers[exch[s].to][<<"id", exch[s].from_node_id>>] # None
      BY <2>1 DEF Acquainted
    <3> QED BY <1>t, <1>k, <2>0, <3>1, <3>2, WatermarkForward
  <2>2. ASSUME HandleInbound(s), SameMessage(exch[s], exch'[s])
        PROVE  peers'[exch'[s].to][<<"id", exch'[s].from_node_id>>] # None
    <3> DEFINE n == exch[s].from_node_id
               r == exch[s].to
               i == mark_seen(OrInsert(peers[r], <<"id", n>>, n))
    <3>1. r = exch'[s].to /\ n = exch'[s].from_node_id
      BY <2>2 DEF SameMessage
    <3>2. peers' = [peers EXCEPT ![r][<<"id", n>>] = i]
      BY <2>2 DEF HandleInbound
    <3>3. i \in PeerInfo /\ i # None
      BY <1>t, <1>k, <2>0, <3>1, PeerTypes, TableTypes DEF TypeOK
    <3> HIDE DEF n, r, i
    <3>4. peers'[r][<<"id", n>>] = i
      BY <1>t, <1>k, <2>0, <3>1, <3>2 DEF TypeOK, PeerTable
    <3> QED BY <3>1, <3>3, <3>4
  <2>3. CASE \E t \in Task : ExchangeStep(t)
    BY <1>t, <1>1, <2>1, <2>2, <2>3, MessagesKept, PhaseKept
  <2>4. CASE exch'[s] = exch[s]
    BY <1>1, <2>1, <2>4 DEF SameMessage
  <2>5. ASSUME NEW n \in Node, NEW p \in PeerKey, SpawnSend(n, p, s)
        PROVE  FALSE
    BY <1>t, <1>1, <2>5, Spawned
  <2> QED BY <1>t, <1>1, <2>3, <2>4, <2>5, ExchangeOrigin
<1>2. ASSUME NEW n \in Node, NEW m \in Node, peers'[n][<<"addr", m>>] # None,
             peers'[n][<<"addr", m>>].exchange_count > 0
      PROVE  peers'[m][<<"id", n>>] # None
  <2> DEFINE p == <<"addr", m>>
  <2>0. p \in PeerKey /\ p[1] = "addr" /\ p[1] # "id" /\ p[2] = m
    BY <1>k
  <2> HIDE DEF p
  <2>1. CASE peers[n][p] # None
             /\ peers'[n][p].exchange_count = peers[n][p].exchange_count
    <3>1. peers[m][<<"id", n>>] # None
      BY <1>2, <2>1 DEF Acquainted, p
    <3> QED BY <1>t, <1>k, <3>1, WatermarkForward
  <2>2. ASSUME NEW t \in Task, exch[t] # None, exch[t].phase = "merged",
               exch[t].from_node_id = n, exch[t].peer_id = p
        PROVE  peers'[m][<<"id", n>>] # None
    <3>1. exch[t].to = m
      BY <1>t, <2>0, <2>2 DEF ExchangesLead
    <3>2. peers[m][<<"id", n>>] # None
      BY <2>2, <3>1 DEF Acquainted
    <3> QED BY <1>t, <1>k, <3>2, WatermarkForward
  <2>3. peers'[n][p] # None
    BY <1>2 DEF p
  <2> QED BY <1>t, <2>0, <2>1, <2>2, <2>3, EntryStep
<1>3. ASSUME NEW n \in Node, NEW m \in Seeds[n]
      PROVE  peers'[n][<<"addr", m>>] # None
  <2>1. m \in Node /\ peers[n][<<"addr", m>>] # None
    BY SeedsAreNodes DEF Acquainted
  <2> QED BY <1>t, <1>k, <2>1, WatermarkForward
<1> QED BY <1>1, <1>2, <1>3 DEF Acquainted

\* In silence, with nothing skipped, n's entries have all reached a known peer.
LEMMA SilentReached ==
  ASSUME LinkInv, Settled, WatermarkExact, NEW n \in Node, NEW p \in PeerKey,
         peers[n][p] # None, NEW k \in Key
  PROVE  Covers(store[p[2]][k], store[n][k])
<1>1. CASE store[n][k] = None
  BY <1>1 DEF Covers
<1>2. CASE store[n][k] # None
  <2>1. is_empty(delta_since(store[n], peers[n][p].last_sync_ts))
    BY DEF Settled, Known
  <2>2. delta_since(store[n], peers[n][p].last_sync_ts)[k] = None
    BY <2>1 DEF is_empty
  <2>3. ~(store[n][k].timestamp > peers[n][p].last_sync_ts)
    BY <1>2, <2>2 DEF delta_since
  <2>4. store[n][k].timestamp \in Nat /\ peers[n][p].last_sync_ts \in Nat
    BY <1>2, StorePositive DEF LinkInv, WrittenInv, TypeOK, PeerTable, PeerInfo
  <2>5. store[n][k].timestamp =< peers[n][p].last_sync_ts
    BY <2>3, <2>4
  <2>6. peers[n][p].gossip_addr = p[2]
    BY DEF LinkInv, PeerInv, TablesLead
  <2> QED BY <1>2, <2>5, <2>6 DEF WatermarkExact, Skipped
<1> QED BY <1>1, <1>2

\* When gossip has fallen silent and nothing is skipped, a node and its seeds
\* hold the same state: the seed could push its own entries because the node
\* introduced itself (gossip_round, handle_inbound).
THEOREM SilenceMeansAgreement == Spec => []SilentSeedsAgree
<1>1. Init => Acquainted
  <2> SUFFICES ASSUME Init PROVE Acquainted
    OBVIOUS
  <2>1. ASSUME NEW n \in Node, NEW m \in Node
        PROVE  /\ m \in Seeds[n] => peers[n][<<"addr", m>>] # None
               /\ peers[n][<<"addr", m>>] # None =>
                    ~(peers[n][<<"addr", m>>].exchange_count > 0)
    <3>1. <<"addr", m>> \in PeerKey
      BY PeerTypes
    <3>2. peers[n][<<"addr", m>>] = IF m \in Seeds[n] THEN NewPeer(m) ELSE None
      BY <3>1 DEF Init, SeedTable
    <3>3. NewPeer(m) # None /\ NewPeer(m).exchange_count = 0
      BY PeerTypes DEF NewPeer
    <3> QED BY <3>2, <3>3
  <2>2. \A t \in Task : exch[t] = None
    BY DEF Init
  <2> QED BY <2>1, <2>2, SeedsAreNodes DEF Acquainted
<1>2. LinkInv /\ LinkInv' /\ Acquainted /\ [Next]_vars => Acquainted'
  BY AcquaintedKept
<1>3. ASSUME LinkInv, Acquainted
      PROVE  SilentSeedsAgree
  <2> SUFFICES ASSUME Settled, WatermarkExact, NEW n \in Node, NEW m \in Seeds[n]
               PROVE  store[n] = store[m]
    BY DEF SilentSeedsAgree
  <2>0. m \in Node /\ <<"addr", m>> \in PeerKey /\ <<"id", n>> \in PeerKey
    BY SeedsAreNodes, PeerTypes
  <2>1. peers[n][<<"addr", m>>] # None
    BY <1>3 DEF Acquainted
  <2>2. peers[n][<<"addr", m>>].exchange_count > 0
    BY <2>0, <2>1 DEF Settled, Known
  <2>3. peers[m][<<"id", n>>] # None
    BY <1>3, <2>0, <2>1, <2>2 DEF Acquainted
  <2>4. ASSUME NEW k \in Key PROVE store[n][k] = store[m][k]
    <3>1. Covers(store[m][k], store[n][k])
      BY <1>3, <2>0, <2>1, SilentReached
    <3>2. Covers(store[n][k], store[m][k])
      BY <1>3, <2>0, <2>3, SilentReached
    <3>3. store[n][k] \in Entry /\ store[m][k] \in Entry
      BY <1>3, <2>0 DEF LinkInv, WrittenInv, TypeOK, StateMap
    <3> QED BY <3>1, <3>2, <3>3, CoversIsOrder
  <2>5. store[n] \in StateMap /\ store[m] \in StateMap
    BY <1>3, <2>0 DEF LinkInv, WrittenInv, TypeOK
  <2> QED BY <2>4, <2>5 DEF StateMap
<1> QED BY <1>1, <1>2, <1>3, LinkInvariant, PTL DEF Spec
=============================================================================
