---------------------------- MODULE GossipProofs ----------------------------
(***************************************************************************)
(* Theorems about the cluster, for every set of nodes, keys, values and    *)
(* tasks and every value of the bounds.                                    *)
(***************************************************************************)
EXTENDS Gossip, LwwProofs

(***************************************************************************)
(* Typing of the helpers.                                                  *)
(***************************************************************************)
LEMMA BoundTypes ==
  /\ Fanout \in Nat /\ MaxFrame \in Nat /\ MaxTime \in Nat /\ MaxSkew \in Nat
  /\ MaxWrites \in Nat /\ MaxRestarts \in Nat
  /\ \A ts \in Time : ts \in Nat
BY GossipAssumption, SMT DEF Time

LEMMA EmptyMapType == EmptyMap \in StateMap /\ is_empty(EmptyMap)
BY DEF EmptyMap, StateMap, Entry, is_empty

LEMMA PeerTypes ==
  /\ \A p \in PeerKey : p[2] \in Node
  /\ \A n \in Node : <<"id", n>> \in PeerKey /\ <<"addr", n>> \in PeerKey
  /\ \A a \in Node : NewPeer(a) \in PeerInfo /\ NewPeer(a) # None
  /\ \A i \in PeerInfo : i # None /\ mark_seen(i) \in PeerInfo
  /\ \A i \in PeerInfo, ts \in Nat : record_exchange(i, ts) \in PeerInfo
<1>1. (\A p \in PeerKey : p[2] \in Node)
      /\ (\A n \in Node : <<"id", n>> \in PeerKey /\ <<"addr", n>> \in PeerKey)
  BY DEF PeerKey
<1>2. \A i \in PeerInfo : i # None
  BY NoneIsNoRecord
<1>3. \A a \in Node : NewPeer(a) \in PeerInfo
  BY DEF NewPeer, PeerInfo
<1>4. \A i \in PeerInfo : mark_seen(i) \in PeerInfo
  BY DEF mark_seen, PeerInfo
<1>5. \A i \in PeerInfo, ts \in Nat : record_exchange(i, ts) \in PeerInfo
  BY DEF record_exchange, PeerInfo
<1> QED BY <1>1, <1>2, <1>3, <1>4, <1>5

LEMMA TableTypes ==
  /\ NoPeers \in PeerTable
  /\ \A n \in Node : SeedTable(n) \in PeerTable
  /\ \A tb \in PeerTable, p \in PeerKey, a \in Node : OrInsert(tb, p, a) \in PeerInfo
<1>1. NoPeers \in PeerTable
  BY DEF NoPeers, PeerTable
<1>2. ASSUME NEW n \in Node PROVE SeedTable(n) \in PeerTable
  <2>1. ASSUME NEW p \in PeerKey PROVE NewPeer(p[2]) \in PeerInfo
    BY PeerTypes
  <2> QED BY <2>1 DEF SeedTable, PeerTable
<1>3. ASSUME NEW tb \in PeerTable, NEW p \in PeerKey, NEW a \in Node
      PROVE  OrInsert(tb, p, a) \in PeerInfo
  BY PeerTypes DEF OrInsert, PeerTable
<1> QED BY <1>1, <1>2, <1>3

-----------------------------------------------------------------------------
(***************************************************************************)
(* Type correctness.                                                       *)
(***************************************************************************)
LEMMA InitType == Init => TypeOK
BY EmptyMapType, TableTypes DEF Init, TypeOK

LEMMA StampSetType ==
  ASSUME TypeOK, NEW n \in Node, NEW k \in Key, NEW v \in Value, StampSet(n, k, v)
  PROVE  TypeOK'
<1>1. PICK ts \in now_micros :
        pending' = [pending EXCEPT ![n] = @ \cup
          {[key |-> k, incoming |-> [value |-> v, timestamp |-> ts, node_id |-> n]]}]
  BY DEF StampSet
<1>2. ts \in Nat
  BY BoundTypes DEF now_micros, TypeOK
<1>3. [key |-> k, incoming |-> [value |-> v, timestamp |-> ts, node_id |-> n]]
        \in PendingWrite
  BY <1>2 DEF PendingWrite, LwwValue
<1>4. pending' \in [Node -> SUBSET PendingWrite]
  BY <1>1, <1>3 DEF TypeOK
<1>5. writes' \in Nat
  BY DEF StampSet, TypeOK
<1> QED BY <1>4, <1>5 DEF StampSet, TypeOK, history

LEMMA NoteArrivalsType ==
  ASSUME TypeOK, NEW n \in Node, NEW m, NoteArrivals(n, m)
  PROVE  late' \in [Node -> [PeerKey -> SUBSET Key]]
BY DEF NoteArrivals, TypeOK

LEMMA CommitSetType ==
  ASSUME TypeOK, NEW n \in Node, NEW w \in pending[n], CommitSet(n, w)
  PROVE  TypeOK'
<1> DEFINE m == set(store[n], w.key, w.incoming)
<1>1. w.key \in Key /\ w.incoming \in LwwValue
  BY DEF TypeOK, PendingWrite
<1>2. store[n] \in StateMap
  BY DEF TypeOK
<1>3. m \in StateMap
  BY <1>1, <1>2, SetSlot
<1> HIDE DEF m
<1>4. store' \in [Node -> StateMap]
  BY <1>3 DEF CommitSet, TypeOK, m
<1>5. late' \in [Node -> [PeerKey -> SUBSET Key]]
  BY NoteArrivalsType DEF CommitSet
<1>6. pending' \in [Node -> SUBSET PendingWrite]
  BY DEF CommitSet, TypeOK
<1>7. written' \in SUBSET (Key \X LwwValue)
  BY <1>1 DEF CommitSet, TypeOK
<1> QED BY <1>4, <1>5, <1>6, <1>7 DEF CommitSet, TypeOK, bounds

LEMMA RoundDeltaType ==
  ASSUME TypeOK, NEW n \in Node, NEW p \in PeerKey, round[n][p] # None
  PROVE  round[n][p] \in PeerInfo /\ RoundDelta(n, p) \in StateMap
<1>1. round[n][p] \in PeerInfo /\ store[n] \in StateMap
  BY DEF TypeOK, PeerTable
<1>2. round[n][p].last_sync_ts \in Nat
  BY <1>1 DEF PeerInfo
<1> QED BY <1>1, <1>2, DeltaSinceSlot DEF RoundDelta

LEMMA RoundStepType ==
  ASSUME TypeOK, NEW n \in Node, RoundStep(n)
  PROVE  TypeOK'
<1>1. ASSUME NEW targets \in SUBSET Known(n), BeginRound(n, targets)
      PROVE  TypeOK'
  <2>1. round' \in [Node -> PeerTable]
    BY <1>1 DEF BeginRound, TypeOK, PeerTable
  <2> QED BY <1>1, <2>1 DEF BeginRound, TypeOK, bounds, history
<1>2. ASSUME NEW p \in PeerKey, SkipPeer(n, p)
      PROVE  TypeOK'
  <2>1. round' \in [Node -> PeerTable]
    BY <1>2 DEF SkipPeer, TypeOK, PeerTable
  <2> QED BY <1>2, <2>1 DEF SkipPeer, TypeOK, bounds, history
<1>3. ASSUME NEW p \in PeerKey, NEW t \in Task, SpawnSend(n, p, t)
      PROVE  TypeOK'
  <2>1. round' \in [Node -> PeerTable]
    BY <1>3 DEF SpawnSend, TypeOK, PeerTable
  <2>2. PICK ts \in Time :
          exch' = [exch EXCEPT ![t] =
            [from_node_id |-> n, peer_id |-> p, to |-> round[n][p].gossip_addr,
             deltas |-> RoundDelta(n, p), max_sent_ts |-> ts, phase |-> "sent"]]
    BY <1>3 DEF SpawnSend
  <2>3. round[n][p] \in PeerInfo /\ RoundDelta(n, p) \in StateMap
    BY <1>3, RoundDeltaType DEF SpawnSend
  <2>4. round[n][p].gossip_addr \in Node /\ ts \in Nat
    BY <2>3, BoundTypes DEF PeerInfo
  <2>5. [from_node_id |-> n, peer_id |-> p, to |-> round[n][p].gossip_addr,
         deltas |-> RoundDelta(n, p), max_sent_ts |-> ts, phase |-> "sent"]
          \in Exchange
    BY <2>3, <2>4 DEF Exchange
  <2>6. exch' \in [Task -> Exchange \cup {None}]
    BY <2>2, <2>5 DEF TypeOK
  <2> QED BY <1>3, <2>1, <2>6 DEF SpawnSend, TypeOK, bounds, history
<1> QED BY <1>1, <1>2, <1>3 DEF RoundStep

LEMMA ExchangeFields ==
  ASSUME TypeOK, NEW t \in Task, exch[t] # None
  PROVE  /\ exch[t] \in Exchange
         /\ exch[t].from_node_id \in Node /\ exch[t].peer_id \in PeerKey
         /\ exch[t].to \in Node /\ exch[t].deltas \in StateMap
         /\ exch[t].max_sent_ts \in Nat
         /\ exch[t].phase \in {"sent", "merged", "orphaned"}
         /\ \A ph \in {"sent", "merged", "orphaned"} :
              [exch[t] EXCEPT !.phase = ph] \in Exchange
<1>1. exch[t] \in Exchange
  BY DEF TypeOK
<1> QED BY <1>1 DEF Exchange

LEMMA ExchangeStepType ==
  ASSUME TypeOK, NEW t \in Task, ExchangeStep(t)
  PROVE  TypeOK'
<1> DEFINE x == exch[t]
           n == x.from_node_id
           r == x.to
<1>0. exch[t] # None
  BY DEF ExchangeStep, HandleInbound, RejectInbound, ReceiveAck, SendFails, AckTimesOut
<1>x. x \in Exchange /\ n \in Node /\ r \in Node /\ x.deltas \in StateMap
      /\ x.peer_id \in PeerKey /\ x.max_sent_ts \in Nat
      /\ \A ph \in {"sent", "merged", "orphaned"} : [x EXCEPT !.phase = ph] \in Exchange
  BY <1>0, ExchangeFields
<1>1. CASE HandleInbound(t)
  <2> DEFINE m == merge_delta(store[r], x.deltas)
             i == mark_seen(OrInsert(peers[r], <<"id", n>>, n))
  <2>1. store[r] \in StateMap /\ peers[r] \in PeerTable
    BY <1>x DEF TypeOK
  <2>2. m \in StateMap
    BY <1>x, <2>1, MergeDeltaSlot DEF merge_delta, StateMap
  <2>3. i \in PeerInfo /\ <<"id", n>> \in PeerKey
    BY <1>x, <2>1, PeerTypes, TableTypes
  <2>4. /\ store' = [store EXCEPT ![r] = m]
        /\ peers' = [peers EXCEPT ![r][<<"id", n>>] = i]
        /\ exch' = [exch EXCEPT ![t] =
             IF x.phase = "sent" THEN [x EXCEPT !.phase = "merged"] ELSE None]
        /\ NoteArrivals(r, m)
        /\ UNCHANGED <<now, pending, round, bounds, written>>
    BY <1>1 DEF HandleInbound
  <2> HIDE DEF m, i
  <2>5. store' \in [Node -> StateMap]
    BY <2>2, <2>4 DEF TypeOK
  <2>6. peers' \in [Node -> PeerTable]
    BY <1>x, <2>1, <2>3, <2>4 DEF TypeOK, PeerTable
  <2>7. exch' \in [Task -> Exchange \cup {None}]
    BY <1>x, <2>4 DEF TypeOK
  <2>8. late' \in [Node -> [PeerKey -> SUBSET Key]]
    BY <1>x, <2>4, NoteArrivalsType
  <2> QED BY <2>4, <2>5, <2>6, <2>7, <2>8 DEF TypeOK, bounds
<1>2. CASE ReceiveAck(t)
  <2> DEFINE i == record_exchange(OrInsert(peers[n], x.peer_id, x.to), x.max_sent_ts)
  <2>1. i \in PeerInfo
    BY <1>x, PeerTypes, TableTypes DEF TypeOK
  <2>2. /\ peers' = [peers EXCEPT ![n][x.peer_id] = i]
        /\ exch' = [exch EXCEPT ![t] = None]
        /\ UNCHANGED <<now, store, pending, round, bounds, history>>
    BY <1>2 DEF ReceiveAck
  <2> HIDE DEF i
  <2>3. peers' \in [Node -> PeerTable]
    BY <1>x, <2>1, <2>2 DEF TypeOK, PeerTable
  <2>4. exch' \in [Task -> Exchange \cup {None}]
    BY <2>2 DEF TypeOK
  <2> QED BY <2>2, <2>3, <2>4 DEF TypeOK, bounds, history
<1>3. CASE RejectInbound(t) \/ SendFails(t)
  <2>1. exch' \in [Task -> Exchange \cup {None}]
    BY <1>3 DEF TypeOK, RejectInbound, SendFails
  <2> QED BY <1>3, <2>1 DEF TypeOK, RejectInbound, SendFails, bounds, history
<1>4. CASE AckTimesOut(t)
  <2>1. exch' \in [Task -> Exchange \cup {None}]
    BY <1>4, <1>x DEF TypeOK, AckTimesOut
  <2> QED BY <1>4, <2>1 DEF TypeOK, AckTimesOut, bounds, history
<1> QED BY <1>1, <1>2, <1>3, <1>4 DEF ExchangeStep

LEMMA AdvanceTimeType == TypeOK /\ AdvanceTime => TypeOK'
BY DEF TypeOK, AdvanceTime, bounds, history

LEMMA StutterType == TypeOK /\ UNCHANGED vars => TypeOK'
BY DEF TypeOK, vars, bounds, history

LEMMA NextType == TypeOK /\ [Next]_vars => TypeOK'
BY AdvanceTimeType, StampSetType, CommitSetType, RoundStepType, ExchangeStepType,
   StutterType DEF Next, ClientStep

LEMMA RestartType ==
  ASSUME TypeOK, NEW n \in Node, Restart(n)
  PROVE  TypeOK'
<1>1. exch' \in [Task -> Exchange \cup {None}]
  <2>1. ASSUME NEW t \in Task, exch[t] # None
        PROVE  [exch[t] EXCEPT !.phase = "orphaned"] \in Exchange
    BY <2>1, ExchangeFields
  <2> QED BY <2>1 DEF Restart, TypeOK
<1>2. store' \in [Node -> StateMap]
  BY EmptyMapType DEF Restart, TypeOK
<1>3. peers' \in [Node -> PeerTable] /\ round' \in [Node -> PeerTable]
  BY TableTypes DEF Restart, TypeOK
<1>4. restarts' \in Nat
  BY DEF Restart, TypeOK
<1> QED BY <1>1, <1>2, <1>3, <1>4 DEF Restart, TypeOK

\* Every behaviour of the cluster, restarts included, is type correct: tables,
\* exchanges and stores stay well formed (gossip/manager.rs, state/store.rs).
THEOREM TypeCorrect == CrashSpec => []TypeOK
<1>1. TypeOK /\ [CrashNext]_vars => TypeOK'
  BY NextType, RestartType, StutterType DEF CrashNext
<1> QED BY InitType, <1>1, PTL DEF CrashSpec

-----------------------------------------------------------------------------
(***************************************************************************)
(* What the entries in stores and messages are.  Genuine holds even when   *)
(* nodes restart; Authored needs a node's memory to last.                  *)
(***************************************************************************)
MessagesGenuine ==
  \A t \in Task : exch[t] # None =>
    \A k \in Key : exch[t].deltas[k] # None => <<k, exch[t].deltas[k]>> \in written

Genuine == NothingInvented /\ MessagesGenuine

\* A stamp belongs to one write of a key.
OneWritePerStamp ==
  \A u, w \in written : (u[1] = w[1] /\ SameStamp(u[2], w[2])) => u = w

\* A node still has every write of its own that took effect, or a newer entry.
AuthorKeeps ==
  \A w \in written : Covers(store[w[2].node_id][w[1]], w[2])

PendingOwn == \A n \in Node : \A w \in pending[n] : w.incoming.node_id = n

Authored == OneWritePerStamp /\ AuthorKeeps /\ PendingOwn

WrittenInv == TypeOK /\ Genuine /\ Authored

\* The messages in flight: every step but SpawnSend keeps what it does not end.
SameMessage(x, y) ==
  /\ x.from_node_id = y.from_node_id /\ x.peer_id = y.peer_id /\ x.to = y.to
  /\ x.deltas = y.deltas /\ x.max_sent_ts = y.max_sent_ts

LEMMA MessagesKept ==
  ASSUME TypeOK, NEW t \in Task, ExchangeStep(t), NEW s \in Task, exch'[s] # None
  PROVE  exch[s] # None /\ SameMessage(exch[s], exch'[s])
<1>1. exch[t] # None
  BY DEF ExchangeStep, HandleInbound, RejectInbound, ReceiveAck, SendFails, AckTimesOut
<1>2. exch[t] \in Exchange
  BY <1>1, ExchangeFields
<1>3. \/ exch' = [exch EXCEPT ![t] = None]
      \/ exch' = [exch EXCEPT ![t] = [exch[t] EXCEPT !.phase = "merged"]]
      \/ exch' = [exch EXCEPT ![t] = [exch[t] EXCEPT !.phase = "orphaned"]]
  <2>1. CASE HandleInbound(t)
    BY <2>1 DEF HandleInbound
  <2>2. CASE AckTimesOut(t)
    BY <2>2 DEF AckTimesOut, TypeOK
  <2>3. CASE RejectInbound(t) \/ ReceiveAck(t) \/ SendFails(t)
    BY <2>3 DEF RejectInbound, ReceiveAck, SendFails
  <2> QED BY <2>1, <2>2, <2>3 DEF ExchangeStep
<1>4. CASE s = t
  BY <1>1, <1>2, <1>3, <1>4 DEF SameMessage, TypeOK, Exchange
<1>5. CASE s # t
  BY <1>3, <1>5 DEF SameMessage, TypeOK
<1> QED BY <1>4, <1>5

\* How one entry of one store changes when a message is merged.
LEMMA InboundSlot ==
  ASSUME TypeOK, NEW t \in Task, HandleInbound(t), NEW n \in Node, NEW k \in Key
  PROVE  /\ store[n][k] \in Entry /\ store'[n][k] \in Entry
         /\ Covers(store'[n][k], store[n][k])
         /\ store'[n][k] # store[n][k] =>
              /\ n = exch[t].to
              /\ exch[t].deltas[k] # None
              /\ store'[n][k] = exch[t].deltas[k]
              /\ ~Covers(store[n][k], store'[n][k])
         /\ (/\ n = exch[t].to
             /\ (/\ store[n][k] # None /\ exch[t].deltas[k] # None
                 /\ SameStamp(store[n][k], exch[t].deltas[k]))
                  => store[n][k] = exch[t].deltas[k])
              => Covers(store'[n][k], exch[t].deltas[k])
<1> DEFINE d == exch[t].deltas
           r == exch[t].to
<1>1. exch[t] # None /\ d \in StateMap /\ r \in Node
  BY ExchangeFields DEF HandleInbound
<1>2. store' = [store EXCEPT ![r] = merge_delta(store[r], d)]
  BY DEF HandleInbound
<1>3. store[n] \in StateMap /\ store[n][k] \in Entry /\ d[k] \in Entry
  BY <1>1 DEF TypeOK, StateMap
<1>4. CASE n # r
  <2>1. store'[n] = store[n]
    BY <1>2, <1>4 DEF TypeOK
  <2> QED BY <1>3, <1>4, <2>1, CoversIsOrder
<1>5. CASE n = r
  <2>1. store'[n] = merge_delta(store[n], d)
    BY <1>1, <1>2, <1>5 DEF TypeOK
  <2> HIDE DEF d
  <2>2. store'[n][k] # store[n][k] => d[k] # None
    BY <2>1 DEF merge_delta
  <2>3. /\ store'[n][k] \in Entry
        /\ store'[n][k] = store[n][k] \/ store'[n][k] = d[k]
        /\ Covers(store'[n][k], store[n][k])
        /\ store'[n][k] # store[n][k] => ~Covers(store[n][k], store'[n][k])
        /\ (store[n][k] # None /\ d[k] # None /\ SameStamp(store[n][k], d[k])
              => store[n][k] = d[k]) => Covers(store'[n][k], d[k])
    BY <1>1, <1>3, <2>1, MergeDeltaSlot
  <2> QED BY <1>3, <1>5, <2>2, <2>3 DEF d
<1> QED BY <1>4, <1>5

\* How one entry of one store changes when a write is committed.
LEMMA CommitSlot ==
  ASSUME TypeOK, NEW n \in Node, NEW w \in pending[n], CommitSet(n, w),
         NEW j \in Node, NEW k \in Key
  PROVE  /\ w.key \in Key /\ w.incoming \in LwwValue
         /\ store[j][k] \in Entry /\ store'[j][k] \in Entry
         /\ Covers(store'[j][k], store[j][k])
         /\ store'[j][k] # store[j][k] =>
              /\ j = n /\ k = w.key
              /\ store'[j][k] = w.incoming
              /\ store[j][k] = None \/ StampLess(store[j][k], w.incoming)
              /\ ~Covers(store[j][k], store'[j][k])
              /\ written' = written \cup {<<k, w.incoming>>}
         /\ written \subseteq written'
<1> DEFINE m == set(store[n], w.key, w.incoming)
<1>1. w.key \in Key /\ w.incoming \in LwwValue
  BY DEF TypeOK, PendingWrite
<1>2. /\ store' = [store EXCEPT ![n] = m]
      /\ written' = IF m = store[n] THEN written
                    ELSE written \cup {<<w.key, w.incoming>>}
  BY DEF CommitSet
<1>3. store[n] \in StateMap /\ store[j] \in StateMap /\ store[j][k] \in Entry
  BY DEF TypeOK, StateMap
<1>4. m \in StateMap /\ m[w.key] = Winner(store[n][w.key], w.incoming)
      /\ \A i \in Key : i # w.key => m[i] = store[n][i]
  BY <1>1, <1>3, SetSlot
<1> HIDE DEF m
<1>5. CASE j = n /\ k = w.key
  <2>1. store'[j][k] = Winner(store[j][k], w.incoming)
    BY <1>2, <1>4, <1>5 DEF TypeOK
  <2>2. store'[j][k] # store[j][k] => m # store[n]
    BY <1>2, <1>5 DEF TypeOK
  <2>3. store'[j][k] \in Entry
    BY <1>1, <1>3, <2>1, WinnerPicks DEF Entry
  <2>4. /\ Covers(store'[j][k], store[j][k])
        /\ store'[j][k] # store[j][k] =>
              /\ store'[j][k] = w.incoming
              /\ store[j][k] = None \/ StampLess(store[j][k], w.incoming)
              /\ ~Covers(store[j][k], store'[j][k])
    BY <1>1, <1>3, <2>1, WinnerPicks, WinnerCovers
  <2> QED BY <1>1, <1>2, <1>3, <1>5, <2>2, <2>3, <2>4
<1>6. CASE ~(j = n /\ k = w.key)
  <2>1. store'[j][k] = store[j][k]
    BY <1>2, <1>4, <1>6 DEF TypeOK
  <2> QED BY <1>1, <1>2, <1>3, <2>1, CoversIsOrder
<1> QED BY <1>5, <1>6

-----------------------------------------------------------------------------
LEMMA GenuineKept ==
  ASSUME TypeOK, Genuine, [CrashNext]_vars
  PROVE  Genuine'
<1>1. ASSUME NEW n \in Node, NEW w \in pending[n], CommitSet(n, w)
      PROVE  Genuine'
  <2>1. ASSUME NEW j \in Node, NEW k \in Key, store'[j][k] # None
        PROVE  <<k, store'[j][k]>> \in written'
    BY <1>1, <2>1, CommitSlot DEF Genuine, NothingInvented
  <2>2. written \subseteq written' /\ exch' = exch
    BY <1>1 DEF CommitSet
  <2> QED BY <2>1, <2>2 DEF Genuine, NothingInvented, MessagesGenuine
<1>2. ASSUME NEW n \in Node, NEW p \in PeerKey, NEW t \in Task, SpawnSend(n, p, t)
      PROVE  Genuine'
  <2>1. PICK ts \in Time :
          exch' = [exch EXCEPT ![t] =
            [from_node_id |-> n, peer_id |-> p, to |-> round[n][p].gossip_addr,
             deltas |-> RoundDelta(n, p), max_sent_ts |-> ts, phase |-> "sent"]]
    BY <1>2 DEF SpawnSend
  <2>2. \A k \in Key : RoundDelta(n, p)[k] = None \/ RoundDelta(n, p)[k] = store[n][k]
    BY DEF RoundDelta, delta_since
  <2>3. store' = store /\ written' = written
    BY <1>2 DEF SpawnSend, history
  <2>4. ASSUME NEW s \in Task, NEW k \in Key, exch'[s] # None, exch'[s].deltas[k] # None
        PROVE  <<k, exch'[s].deltas[k]>> \in written
    <3>1. CASE s = t
      <4>1. exch'[s].deltas[k] = store[n][k]
        BY <2>1, <2>2, <2>4, <3>1 DEF TypeOK
      <4> QED BY <2>4, <4>1 DEF Genuine, NothingInvented
    <3>2. CASE s # t
      BY <2>1, <2>4, <3>2 DEF TypeOK, Genuine, MessagesGenuine
    <3> QED BY <3>1, <3>2
  <2> QED BY <2>3, <2>4 DEF Genuine, NothingInvented, MessagesGenuine
<1>3. ASSUME NEW t \in Task, ExchangeStep(t)
      PROVE  Genuine'
  <2>1. written' = written
    BY <1>3 DEF ExchangeStep, HandleInbound, RejectInbound, ReceiveAck, SendFails,
                AckTimesOut, history
  <2>2. ASSUME NEW n \in Node, NEW k \in Key, store'[n][k] # None
        PROVE  <<k, store'[n][k]>> \in written
    <3>1. CASE HandleInbound(t)
      <4>1. exch[t] # None
        BY <3>1 DEF HandleInbound
      <4> QED BY <2>2, <3>1, <4>1, InboundSlot DEF Genuine, NothingInvented, MessagesGenuine
    <3>2. CASE store' = store
      BY <2>2, <3>2 DEF Genuine, NothingInvented
    <3> QED BY <1>3, <3>1, <3>2 DEF ExchangeStep, RejectInbound, ReceiveAck, SendFails,
                                    AckTimesOut
  <2>3. ASSUME NEW s \in Task, NEW k \in Key, exch'[s] # None, exch'[s].deltas[k] # None
        PROVE  <<k, exch'[s].deltas[k]>> \in written
    BY <1>3, <2>3, MessagesKept DEF SameMessage, Genuine, MessagesGenuine
  <2> QED BY <2>1, <2>2, <2>3 DEF Genuine, NothingInvented, MessagesGenuine
<1>4. ASSUME NEW n \in Node, Restart(n)
      PROVE  Genuine'
  <2>1. written' = written
    BY <1>4 DEF Restart
  <2>2. ASSUME NEW j \in Node, NEW k \in Key, store'[j][k] # None
        PROVE  <<k, store'[j][k]>> \in written
    <3>1. store'[j] = EmptyMap \/ store'[j] = store[j]
      BY <1>4 DEF Restart, TypeOK
    <3> QED BY <2>2, <3>1 DEF EmptyMap, Genuine, NothingInvented
  <2>3. ASSUME NEW s \in Task, NEW k \in Key, exch'[s] # None, exch'[s].deltas[k] # None
        PROVE  <<k, exch'[s].deltas[k]>> \in written
    <3>1. exch[s] # None
      BY <1>4, <2>3 DEF Restart
    <3>2. exch[s] \in Exchange
      BY <3>1, ExchangeFields
    <3>3. exch'[s] = exch[s] \/ exch'[s] = [exch[s] EXCEPT !.phase = "orphaned"]
      BY <1>4, <2>3 DEF Restart
    <3>4. exch'[s].deltas = exch[s].deltas
      BY <3>2, <3>3 DEF Exchange
    <3> QED BY <2>3, <3>1, <3>4 DEF Genuine, MessagesGenuine
  <2> QED BY <2>1, <2>2, <2>3 DEF Genuine, NothingInvented, MessagesGenuine
<1>5. CASE store' = store /\ exch' = exch /\ written' = written
  BY <1>5 DEF Genuine, NothingInvented, MessagesGenuine
<1>6. CASE \/ AdvanceTime \/ UNCHANGED vars
           \/ \E n \in Node, k \in Key, v \in Value : StampSet(n, k, v)
           \/ \E n \in Node, targets \in SUBSET PeerKey : BeginRound(n, targets)
           \/ \E n \in Node, p \in PeerKey : SkipPeer(n, p)
  BY <1>5, <1>6 DEF AdvanceTime, StampSet, BeginRound, SkipPeer, vars, history
<1>7. ASSUME NEW n \in Node, NEW targets \in SUBSET Known(n), BeginRound(n, targets)
      PROVE  Genuine'
  BY <1>5, <1>7 DEF BeginRound, history
<1> QED BY <1>1, <1>2, <1>3, <1>4, <1>6, <1>7
        DEF CrashNext, Next, ClientStep, RoundStep

\* Whatever is lost, late or restarted, no store ever holds an entry that no
\* client wrote at the node whose id it carries (handle_inbound, merge_delta).
THEOREM NothingIsInvented == CrashSpec => []NothingInvented
<1>1. Init => Genuine
  BY DEF Init, Genuine, NothingInvented, MessagesGenuine, EmptyMap
<1>2. TypeOK /\ Genuine /\ [CrashNext]_vars => Genuine'
  BY GenuineKept
<1>3. Genuine => NothingInvented
  BY DEF Genuine
<1> QED BY <1>1, <1>2, <1>3, TypeCorrect, PTL DEF CrashSpec

-----------------------------------------------------------------------------
(***************************************************************************)
(* While no process dies: a commit that takes effect beats everything its  *)
(* author ever wrote to the key, so its stamp is new.                      *)
(***************************************************************************)
LEMMA FreshStamp ==
  ASSUME WrittenInv, NEW n \in Node, NEW w \in pending[n], CommitSet(n, w),
         store'[n][w.key] # store[n][w.key]
  PROVE  \A u \in written : u[1] = w.key => ~SameStamp(u[2], w.incoming)
<1> SUFFICES ASSUME NEW u \in written, u[1] = w.key, SameStamp(u[2], w.incoming)
             PROVE  FALSE
  OBVIOUS
<1>1. w.key \in Key /\ w.incoming \in LwwValue /\ w.incoming.node_id = n
  BY DEF WrittenInv, TypeOK, PendingWrite, Authored, PendingOwn
<1>2. u[1] \in Key /\ u[2] \in LwwValue
  BY DEF WrittenInv, TypeOK
<1>3. u[2].node_id = n
  BY <1>1 DEF SameStamp
<1>4. Covers(store[n][w.key], u[2])
  BY <1>3 DEF WrittenInv, Authored, AuthorKeeps
<1>5. store[n][w.key] = None \/ StampLess(store[n][w.key], w.incoming)
  BY <1>1, CommitSlot DEF WrittenInv
<1>6. store[n][w.key] \in Entry
  BY <1>1 DEF WrittenInv, TypeOK, StateMap
<1>7. StampLess(u[2], w.incoming)
  BY <1>1, <1>2, <1>4, <1>5, <1>6, StampOrder, NoneAssumption DEF Covers, Entry
<1> QED BY <1>1, <1>2, <1>7, StampOrder

\* Stores only move forward.
LEMMA StoreForward ==
  ASSUME TypeOK, [Next]_vars, NEW n \in Node, NEW k \in Key
  PROVE  /\ store[n][k] \in Entry /\ store'[n][k] \in Entry
         /\ Covers(store'[n][k], store[n][k])
         /\ store'[n][k] # store[n][k] => ~Covers(store[n][k], store'[n][k])
<1>0. store[n][k] \in Entry
  BY DEF TypeOK, StateMap
<1>1. CASE store' = store
  BY <1>0, <1>1, CoversIsOrder
<1>2. ASSUME NEW j \in Node, NEW w \in pending[j], CommitSet(j, w)
      PROVE  /\ store'[n][k] \in Entry
             /\ Covers(store'[n][k], store[n][k])
             /\ store'[n][k] # store[n][k] => ~Covers(store[n][k], store'[n][k])
  BY <1>2, CommitSlot
<1>3. ASSUME NEW t \in Task, HandleInbound(t)
      PROVE  /\ store'[n][k] \in Entry
             /\ Covers(store'[n][k], store[n][k])
             /\ store'[n][k] # store[n][k] => ~Covers(store[n][k], store'[n][k])
  BY <1>3, InboundSlot
<1>4. \/ store' = store
      \/ \E j \in Node : \E w \in pending[j] : CommitSet(j, w)
      \/ \E t \in Task : HandleInbound(t)
  BY DEF Next, ClientStep, RoundStep, ExchangeStep, AdvanceTime, StampSet, BeginRound,
         SkipPeer, SpawnSend, RejectInbound, ReceiveAck, SendFails, AckTimesOut, vars
<1> QED BY <1>0, <1>1, <1>2, <1>3, <1>4

LEMMA AuthoredKept ==
  ASSUME WrittenInv, [Next]_vars
  PROVE  Authored'
<1>t. TypeOK /\ TypeOK'
  BY NextType DEF WrittenInv
<1>1. ASSUME written' = written
      PROVE  OneWritePerStamp' /\ AuthorKeeps'
  <2>1. ASSUME NEW u \in written
        PROVE  Covers(store'[u[2].node_id][u[1]], u[2])
    <3>1. u[1] \in Key /\ u[2] \in LwwValue /\ u[2].node_id \in Node /\ u[2] \in Entry
      BY <1>t DEF TypeOK, LwwValue, Entry
    <3>2. Covers(store[u[2].node_id][u[1]], u[2])
      BY DEF WrittenInv, Authored, AuthorKeeps
    <3> QED BY <1>t, <3>1, <3>2, StoreForward, CoversIsOrder
  <2> QED BY <1>1, <2>1 DEF WrittenInv, Authored, OneWritePerStamp, AuthorKeeps
<1>2. ASSUME pending' = pending
      PROVE  PendingOwn'
  BY <1>2 DEF WrittenInv, Authored, PendingOwn
<1>3. ASSUME NEW n \in Node, NEW k \in Key, NEW v \in Value, StampSet(n, k, v)
      PROVE  Authored'
  <2>1. written' = written
    BY <1>3 DEF StampSet, history
  <2>2. PICK ts \in now_micros :
          pending' = [pending EXCEPT ![n] = @ \cup
            {[key |-> k, incoming |-> [value |-> v, timestamp |-> ts, node_id |-> n]]}]
    BY <1>3 DEF StampSet
  <2>3. PendingOwn'
    BY <1>t, <2>2 DEF WrittenInv, Authored, PendingOwn, TypeOK
  <2> QED BY <1>1, <2>1, <2>3 DEF Authored
<1>4. ASSUME NEW n \in Node, NEW w \in pending[n], CommitSet(n, w)
      PROVE  Authored'
  <2>0. w.key \in Key /\ w.incoming \in LwwValue /\ w.incoming.node_id = n
    BY DEF WrittenInv, TypeOK, PendingWrite, Authored, PendingOwn
  <2>1. PendingOwn'
    BY <1>t, <1>4 DEF CommitSet, WrittenInv, Authored, PendingOwn, TypeOK
  <2>2. CASE store'[n][w.key] = store[n][w.key]
    <3> DEFINE m == set(store[n], w.key, w.incoming)
    <3>a. store[n] \in StateMap /\ store'[n] = m
      BY <1>t, <1>4 DEF CommitSet, TypeOK
    <3>b. m \in StateMap /\ \A j \in Key : j # w.key => m[j] = store[n][j]
      BY <2>0, <3>a, SetSlot
    <3> HIDE DEF m
    <3>c. \A j \in Key : m[j] = store[n][j]
      BY <2>2, <3>a, <3>b
    <3>1. m = store[n]
      BY <3>a, <3>b, <3>c DEF StateMap
    <3>2. set(store[n], w.key, w.incoming) = store[n]
      BY <3>1 DEF m
    <3>3. written' = written
      BY <1>4, <3>2 DEF CommitSet
    <3> QED BY <1>1, <2>1, <3>3 DEF Authored
  <2>3. CASE store'[n][w.key] # store[n][w.key]
    <3>1. written' = written \cup {<<w.key, w.incoming>>}
          /\ store'[n][w.key] = w.incoming
      BY <1>t, <1>4, <2>0, <2>3, CommitSlot
    <3>2. \A u \in written : u[1] = w.key => ~SameStamp(u[2], w.incoming)
      BY <1>4, <2>3, FreshStamp
    <3>3. OneWritePerStamp'
      BY <3>1, <3>2 DEF WrittenInv, Authored, OneWritePerStamp, SameStamp
    <3>4. ASSUME NEW u \in written
          PROVE  Covers(store'[u[2].node_id][u[1]], u[2])
      <4>1. u[1] \in Key /\ u[2] \in LwwValue /\ u[2].node_id \in Node /\ u[2] \in Entry
        BY <1>t DEF TypeOK, LwwValue, Entry
      <4>2. Covers(store[u[2].node_id][u[1]], u[2])
        BY DEF WrittenInv, Authored, AuthorKeeps
      <4> QED BY <1>t, <4>1, <4>2, StoreForward, CoversIsOrder
    <3>5. Covers(store'[n][w.key], w.incoming)
      BY <2>0, <3>1, NoneAssumption DEF Covers
    <3>6. AuthorKeeps'
      BY <2>0, <3>1, <3>4, <3>5 DEF AuthorKeeps
    <3> QED BY <2>1, <3>3, <3>6 DEF Authored
  <2> QED BY <2>2, <2>3
<1>5. CASE UNCHANGED <<pending, written>>
  BY <1>1, <1>2, <1>5 DEF Authored
<1>6. ASSUME NEW n \in Node, RoundStep(n)
      PROVE  UNCHANGED <<pending, written>>
  BY <1>6 DEF RoundStep, BeginRound, SkipPeer, SpawnSend, history
<1>7. ASSUME NEW t \in Task, ExchangeStep(t)
      PROVE  UNCHANGED <<pending, written>>
  BY <1>7 DEF ExchangeStep, HandleInbound, RejectInbound, ReceiveAck, SendFails,
              AckTimesOut, history
<1>8. CASE AdvanceTime \/ UNCHANGED vars
  BY <1>5, <1>8 DEF AdvanceTime, vars, history
<1> QED BY <1>3, <1>4, <1>5, <1>6, <1>7, <1>8 DEF Next, ClientStep

LEMMA WrittenInvariant == Spec => []WrittenInv
<1>1. Init => WrittenInv
  <2>1. Init => Genuine /\ Authored
    BY DEF Init, Genuine, NothingInvented, MessagesGenuine, EmptyMap, Authored,
           OneWritePerStamp, AuthorKeeps, PendingOwn
  <2> QED BY <2>1, InitType DEF WrittenInv
<1>2. WrittenInv /\ [Next]_vars => WrittenInv'
  BY NextType, GenuineKept, AuthoredKept DEF WrittenInv, CrashNext
<1> QED BY <1>1, <1>2, PTL DEF Spec

\* Two stores that hold a key under one stamp hold the same value: no node can
\* be the one that merge's tie rule leaves with a different winner (crdt.rs).
THEOREM StoresAgree == Spec => []Agreement
<1>1. WrittenInv => Agreement
  BY DEF WrittenInv, Genuine, NothingInvented, Authored, OneWritePerStamp, Agreement
<1> QED BY <1>1, WrittenInvariant, PTL

\* An entry held anywhere is held or superseded at the node that wrote it.
THEOREM AuthorsAreAhead == Spec => []AuthorIsAhead
<1>1. WrittenInv => AuthorIsAhead
  BY DEF WrittenInv, Genuine, NothingInvented, Authored, AuthorKeeps, AuthorIsAhead
<1> QED BY <1>1, WrittenInvariant, PTL

-----------------------------------------------------------------------------
(***************************************************************************)
(* Nothing goes back.                                                      *)
(***************************************************************************)
LEMMA WatermarkForward ==
  ASSUME TypeOK, [Next]_vars, NEW n \in Node, NEW p \in PeerKey, peers[n][p] # None
  PROVE  /\ peers'[n][p] # None
         /\ peers'[n][p].last_sync_ts >= peers[n][p].last_sync_ts
         /\ peers'[n][p].gossip_addr = peers[n][p].gossip_addr
         /\ peers'[n][p].exchange_count >= peers[n][p].exchange_count
<1>0. peers[n][p] \in PeerInfo /\ peers[n] \in PeerTable
  BY DEF TypeOK, PeerTable
<1>1. CASE peers' = peers
  BY <1>0, <1>1 DEF PeerInfo
<1>2. ASSUME NEW t \in Task, HandleInbound(t), peers'[n][p] # peers[n][p]
      PROVE  peers'[n][p] = mark_seen(peers[n][p])
  <2>1. exch[t].from_node_id \in Node /\ exch[t].to \in Node
    BY <1>2, ExchangeFields DEF HandleInbound
  <2>2. <<"id", exch[t].from_node_id>> \in PeerKey
    BY <2>1, PeerTypes
  <2> QED BY <1>2, <2>1, <2>2 DEF HandleInbound, OrInsert, TypeOK, PeerTable
<1>3. ASSUME NEW t \in Task, ReceiveAck(t), peers'[n][p] # peers[n][p]
      PROVE  peers'[n][p] = record_exchange(peers[n][p], exch[t].max_sent_ts)
             /\ exch[t].max_sent_ts \in Nat
  <2>1. exch[t].from_node_id \in Node /\ exch[t].peer_id \in PeerKey
        /\ exch[t].max_sent_ts \in Nat
    BY <1>3, ExchangeFields DEF ReceiveAck
  <2> QED BY <1>3, <2>1 DEF ReceiveAck, OrInsert, TypeOK, PeerTable
<1>4. mark_seen(peers[n][p]) # None
      /\ mark_seen(peers[n][p]).last_sync_ts = peers[n][p].last_sync_ts
      /\ mark_seen(peers[n][p]).gossip_addr = peers[n][p].gossip_addr
      /\ mark_seen(peers[n][p]).exchange_count >= peers[n][p].exchange_count
      /\ peers[n][p].last_sync_ts \in Nat /\ peers[n][p].exchange_count \in Nat
  <2>1. mark_seen(peers[n][p]) # None
    BY <1>0, PeerTypes
  <2> QED BY <1>0, <2>1 DEF mark_seen, PeerInfo
<1>5. ASSUME NEW ts \in Nat
      PROVE  LET i == record_exchange(peers[n][p], ts) IN
             /\ i # None
             /\ i.last_sync_ts >= peers[n][p].last_sync_ts
             /\ i.gossip_addr = peers[n][p].gossip_addr
             /\ i.exchange_count >= peers[n][p].exchange_count
  <2>1. record_exchange(peers[n][p], ts) # None
    BY <1>0, PeerTypes
  <2> QED BY <1>0, <2>1 DEF record_exchange, PeerInfo
<1>6. \/ peers' = peers
      \/ \E t \in Task : HandleInbound(t) \/ ReceiveAck(t)
  BY DEF Next, ClientStep, RoundStep, ExchangeStep, AdvanceTime, StampSet, CommitSet,
         BeginRound, SkipPeer, SpawnSend, RejectInbound, SendFails, AckTimesOut, vars
<1>7. CASE peers'[n][p] = peers[n][p]
  BY <1>4, <1>7
<1>8. CASE peers'[n][p] # peers[n][p]
  BY <1>2, <1>3, <1>4, <1>5, <1>6, <1>8
<1> QED BY <1>7, <1>8

\* No step of the cluster takes an entry back or moves a watermark back, however
\* late an ack or a message is ("a delayed ack can never roll back our sync
\* pointer", peer.rs record_exchange).
THEOREM NothingRegresses == Spec => NoRegress
<1>1. TypeOK /\ [Next]_vars =>
        [\A n \in Node :
           /\ \A k \in Key : Covers(store'[n][k], store[n][k])
           /\ \A p \in PeerKey : peers[n][p] # None =>
                /\ peers'[n][p] # None
                /\ peers'[n][p].last_sync_ts >= peers[n][p].last_sync_ts]_vars
  BY StoreForward, WatermarkForward
<1>2. Spec => []TypeOK
  BY WrittenInvariant, PTL DEF WrittenInv
<1> QED BY <1>1, <1>2, PTL DEF Spec, NoRegress

-----------------------------------------------------------------------------
(***************************************************************************)
(* The refinement: a commit that takes effect is an abstract Write, an     *)
(* inbound merge that changes something is an abstract Join, every other   *)
(* step leaves the replicas alone.                                         *)
(***************************************************************************)
LEMMA SameOrder ==
  ASSUME NEW e, NEW f
  PROVE  /\ StampLess(e, f) <=> Abstract!StampLess(e, f)
         /\ SameStamp(e, f) <=> Abstract!SameStamp(e, f)
BY DEF StampLess, Abstract!StampLess, SameStamp, Abstract!SameStamp

LEMMA CommitIsWrite ==
  ASSUME WrittenInv, NEW n \in Node, NEW w \in pending[n], CommitSet(n, w),
         store'[n][w.key] # store[n][w.key]
  PROVE  Abstract!Write(n, w.key)
<1> DEFINE k == w.key
<1>t. TypeOK
  BY DEF WrittenInv
<1>1. k \in Key /\ w.incoming \in LwwValue /\ w.incoming.node_id = n
  BY DEF WrittenInv, TypeOK, PendingWrite, Authored, PendingOwn
<1>2. /\ store'[n][k] = w.incoming
      /\ store[n][k] = None \/ StampLess(store[n][k], w.incoming)
      /\ written' = written \cup {<<k, w.incoming>>}
  BY <1>t, <1>1, CommitSlot
<1>3. \A u \in written : u[1] = k => ~SameStamp(u[2], w.incoming)
  BY FreshStamp
<1>4. Abstract!Newer(store[n][k], store'[n][k])
  BY <1>1, <1>2, SameOrder, NoneAssumption DEF Abstract!Newer
<1>5. store' = [store EXCEPT ![n][k] = store'[n][k]]
  <2>1. store' = [store EXCEPT ![n] = set(store[n], k, w.incoming)]
    BY DEF CommitSet
  <2>2. store'[n] = set(store[n], k, w.incoming)
    BY <1>t, <2>1 DEF TypeOK
  <2>3. store'[n][k] = Winner(store[n][k], w.incoming)
    BY <1>t, <1>1, <2>2, SetSlot DEF TypeOK
  <2> QED BY <2>1, <2>3 DEF set
<1> QED BY <1>1, <1>2, <1>3, <1>4, <1>5, SameOrder DEF Abstract!Write

LEMMA InboundIsJoin ==
  ASSUME WrittenInv, NEW t \in Task, HandleInbound(t)
  PROVE  Abstract!Join(exch[t].to)
<1> DEFINE r == exch[t].to
<1>t. TypeOK
  BY DEF WrittenInv
<1>1. exch[t] # None /\ r \in Node
  BY <1>t, ExchangeFields DEF HandleInbound
<1>2. store' = [store EXCEPT ![r] = store'[r]]
  <2>1. store' = [store EXCEPT ![r] = merge_delta(store[r], exch[t].deltas)]
    BY DEF HandleInbound
  <2> QED BY <1>t, <1>1, <2>1 DEF TypeOK
<1>3. ASSUME NEW k \in Key, store'[r][k] # store[r][k]
      PROVE  /\ Abstract!Newer(store[r][k], store'[r][k])
             /\ <<k, store'[r][k]>> \in written
  <2>1. /\ store'[r][k] = exch[t].deltas[k]
        /\ exch[t].deltas[k] # None
        /\ Covers(store'[r][k], store[r][k])
    BY <1>t, <1>1, <1>3, InboundSlot
  <2>2. <<k, store'[r][k]>> \in written
    BY <1>1, <2>1 DEF WrittenInv, Genuine, MessagesGenuine
  <2> QED BY <1>3, <2>1, <2>2, SameOrder DEF Covers, Abstract!Newer
<1>4. written' = written
  BY DEF HandleInbound
<1> HIDE DEF r
<1>5. Abstract!Join(r)
  BY <1>2, <1>3, <1>4 DEF Abstract!Join
<1> QED BY <1>5 DEF r

\* The cluster, with its watermarks, rounds, lost messages and late ones,
\* implements the replicated map of module ReplicatedMap: a replica changes
\* only by a client's fresh write or by taking over writes that are newer than
\* what it has.
THEOREM Refinement == Spec => ImplementsReplicatedMap
<1>1. Init => Abstract!Init
  BY DEF Init, Abstract!Init, EmptyMap, Abstract!EmptyMap
<1>2. WrittenInv /\ [Next]_vars => [Abstract!Next]_<<store, written>>
  <2> SUFFICES ASSUME WrittenInv, [Next]_vars
               PROVE  [Abstract!Next]_<<store, written>>
    OBVIOUS
  <2>1. ASSUME NEW n \in Node, NEW w \in pending[n], CommitSet(n, w)
        PROVE  [Abstract!Next]_<<store, written>>
    <3>0. w.key \in Key /\ w.incoming \in LwwValue /\ store[n] \in StateMap
      BY DEF WrittenInv, TypeOK, PendingWrite
    <3>1. CASE store'[n][w.key] # store[n][w.key]
      BY <2>1, <3>0, <3>1, CommitIsWrite DEF Abstract!Next
    <3>2. CASE store'[n][w.key] = store[n][w.key]
      <4> DEFINE m == set(store[n], w.key, w.incoming)
      <4>1. m \in StateMap /\ \A j \in Key : j # w.key => m[j] = store[n][j]
        BY <3>0, SetSlot
      <4>2. store' = [store EXCEPT ![n] = m]
            /\ (m = store[n] => written' = written)
        BY <2>1 DEF CommitSet
      <4> HIDE DEF m
      <4>3. \A j \in Key : m[j] = store[n][j]
        BY <3>2, <4>1, <4>2 DEF WrittenInv, TypeOK
      <4>4. m = store[n]
        BY <3>0, <4>1, <4>3 DEF StateMap
      <4>5. store' = store
        BY <4>2, <4>4 DEF WrittenInv, TypeOK
      <4> QED BY <4>2, <4>4, <4>5
    <3> QED BY <3>1, <3>2
  <2>2. ASSUME NEW t \in Task, HandleInbound(t)
        PROVE  [Abstract!Next]_<<store, written>>
    <3>1. exch[t].to \in Node
      BY <2>2, ExchangeFields DEF HandleInbound, WrittenInv
    <3> QED BY <2>2, <3>1, InboundIsJoin DEF Abstract!Next
  <2>3. \/ UNCHANGED <<store, written>>
        \/ \E j \in Node : \E w \in pending[j] : CommitSet(j, w)
        \/ \E t \in Task : HandleInbound(t)
    BY DEF Next, ClientStep, RoundStep, ExchangeStep, AdvanceTime, StampSet, BeginRound,
           SkipPeer, SpawnSend, RejectInbound, ReceiveAck, SendFails, AckTimesOut, vars,
           history
  <2> QED BY <2>1, <2>2, <2>3
<1> QED BY <1>1, <1>2, WrittenInvariant, PTL DEF Spec, ImplementsReplicatedMap, Abstract!Spec
=============================================================================
