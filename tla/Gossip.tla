------------------------------- MODULE Gossip -------------------------------
(***************************************************************************)
(* A cluster of nodes that replicate their stores by gossip:               *)
(* gossip/manager.rs, gossip/peer.rs and the framing limit of              *)
(* gossip/protocol.rs, over the store operations of module Lww.            *)
(*                                                                         *)
(* Every node runs a scheduler (run_scheduler, which takes one round at a  *)
(* time), any number of send tasks spawned by its rounds, any number of    *)
(* inbound handlers and any number of client writes, all interleaved.      *)
(*                                                                         *)
(* A node is reached at the address it was started with, so an address is  *)
(* the node that listens there.  A peer table is keyed by node id or, for  *)
(* a seed, by address: <<"id", m>> and <<"addr", m>> are different entries *)
(* that lead to the same node, each with a watermark of its own.           *)
(***************************************************************************)
EXTENDS Lww, FiniteSets

CONSTANTS
  Writer,     \* the nodes that clients write to
  Restarter,  \* the nodes whose process may die and be started again
  Seeds,      \* Seeds[n]: the addresses in node n's --seed-peers
  Fanout,     \* --gossip-fanout
  MaxFrame,   \* entries that fit in MAX_MESSAGE_BYTES
  Task,       \* bound: send tasks in flight in the whole cluster
  MaxTime,    \* bound: how far real time advances
  MaxSkew,    \* bound: how far a clock reading may be ahead of real time
  MaxWrites,  \* bound: client writes in a behaviour
  MaxRestarts \* bound: process restarts in a behaviour

ASSUME GossipAssumption ==
  /\ Writer \subseteq Node /\ Restarter \subseteq Node
  /\ Seeds \in [Node -> SUBSET Node]
  /\ {Fanout, MaxFrame, MaxTime, MaxSkew, MaxWrites, MaxRestarts} \subseteq Nat
  /\ Task # {}

VARIABLES
  now,          \* real time
  store,        \* store[n]: the HashMap in n's StateStore
  pending,      \* pending[n]: writes stamped by set() and not yet under the lock
  peers,        \* peers[n]: the DashMap of PeerInfo
  round,        \* round[n]: targets, with the PeerInfo cloned for them, still to serve
  exch,         \* exch[t]: the exchange that send task t is in, None before and after
  writes, restarts,  \* counters for the bounds
  written,      \* history: <<key, entry>> for every write that won at its author
  late          \* history: late[n][p], see NoteArrivals

bounds    == <<writes, restarts>>
history   == <<written, late>>
vars == <<now, store, pending, peers, round, exch, bounds, history>>

-----------------------------------------------------------------------------
(***************************************************************************)
(* PeerInfo.  exchange_count is only ever compared with 0, so it saturates *)
(* at 1; last_seen is read by nothing but a node.peers reply.              *)
(***************************************************************************)
PeerKey   == {"id", "addr"} \X Node
PeerInfo  == [gossip_addr : Node, last_sync_ts : Nat, exchange_count : {0, 1}]
PeerTable == [PeerKey -> PeerInfo \cup {None}]

NewPeer(addr) == [gossip_addr |-> addr, last_sync_ts |-> 0, exchange_count |-> 0]

\* Fault: the watermark is overwritten, not raised.
record_exchange_Overwrites(p, sync_ts) ==
  [p EXCEPT !.last_sync_ts = sync_ts, !.exchange_count = 1]

record_exchange(p, sync_ts) ==
  [p EXCEPT !.last_sync_ts = IF sync_ts > @ THEN sync_ts ELSE @,
            !.exchange_count = 1]

mark_seen(p) == [p EXCEPT !.exchange_count = 1]

\* Fault: a new peer is entered without an address.
OrInsert_NoAddr(table, key, addr) ==
  IF table[key] = None THEN NewPeer(None) ELSE table[key]

\* peers.entry(key).or_insert_with(|| PeerInfo::new(addr))
OrInsert(table, key, addr) ==
  IF table[key] = None THEN NewPeer(addr) ELSE table[key]

NoPeers == [p \in PeerKey |-> None]

SeedTable(n) ==
  [p \in PeerKey |-> IF p[1] = "addr" /\ p[2] \in Seeds[n]
                     THEN NewPeer(p[2]) ELSE None]

(***************************************************************************)
(* One exchange: send_and_ack on the sender's side, handle_inbound on the  *)
(* receiver's.  It is "sent" until the receiver has merged it, "merged"    *)
(* until the sender has the ack; it is "orphaned" when the sender has      *)
(* given up and the bytes it wrote may still be read by the receiver.      *)
(***************************************************************************)
Exchange == [from_node_id : Node, peer_id : PeerKey, to : Node,
             deltas : StateMap, max_sent_ts : Nat,
             phase : {"sent", "merged", "orphaned"}]

ASSUME NoneIsNoRecord == None \notin PeerInfo \cup Exchange

Time == 0 .. (MaxTime + MaxSkew)

-----------------------------------------------------------------------------
(***************************************************************************)
(* History only.  An entry that reaches n's store is late for peer p when  *)
(* its timestamp is not above everything n has already shipped to p: below *)
(* the watermark, or below the max_sent_ts of an exchange still under way. *)
(***************************************************************************)
AlreadySent(n, p, ts) ==
  \/ peers[n][p] # None /\ ts =< peers[n][p].last_sync_ts
  \/ \E t \in Task : /\ exch[t] # None
                     /\ exch[t].from_node_id = n
                     /\ exch[t].peer_id = p
                     /\ exch[t].phase # "orphaned"
                     /\ ts =< exch[t].max_sent_ts

NoteArrivals(n, m) ==
  late' = [late EXCEPT ![n] = [p \in PeerKey |->
    {k \in Key : IF m[k] = store[n][k] THEN k \in late[n][p]
                                       ELSE AlreadySent(n, p, m[k].timestamp)}]]

-----------------------------------------------------------------------------
(***************************************************************************)
(* The wall clock.  SystemTime is not monotonic and every host has its     *)
(* own: a read returns some time within MaxSkew of real time, whatever     *)
(* earlier reads returned.                                                 *)
(***************************************************************************)
now_micros == now .. (now + MaxSkew)

AdvanceTime ==
  /\ now < MaxTime
  /\ now' = now + 1
  /\ UNCHANGED <<store, pending, peers, round, exch, bounds, history>>

(***************************************************************************)
(* StateStore::set.  LwwValue::new reads the clock before the write lock   *)
(* is taken, so a write is stamped in one step and committed in another.   *)
(***************************************************************************)
StampSet(n, k, v) ==
  /\ n \in Writer
  /\ writes < MaxWrites
  /\ writes' = writes + 1
  /\ \E ts \in now_micros :
       pending' = [pending EXCEPT ![n] = @ \cup
         {[key |-> k,
           incoming |-> [value |-> v, timestamp |-> ts, node_id |-> n]]}]
  /\ UNCHANGED <<now, store, peers, round, exch, restarts, history>>

CommitSet(n, w) ==
  LET m == set(store[n], w.key, w.incoming) IN
  /\ w \in pending[n]
  /\ pending' = [pending EXCEPT ![n] = @ \ {w}]
  /\ store' = [store EXCEPT ![n] = m]
  /\ written' = IF m = store[n] THEN written
                ELSE written \cup {<<w.key, w.incoming>>}
  /\ NoteArrivals(n, m)
  /\ UNCHANGED <<now, peers, round, exch, bounds>>

\* Fault: a round only picks seeds.
Known_SeedsOnly(n) == {p \in PeerKey : p[1] = "addr" /\ peers[n][p] # None}

(***************************************************************************)
(* gossip_round, step 1: clone the table, shuffle, keep fanout of it.      *)
(***************************************************************************)
Known(n) == {p \in PeerKey : peers[n][p] # None}

BeginRound(n, targets) ==
  /\ round[n] = NoPeers
  /\ targets \subseteq Known(n)
  /\ targets # {}
  /\ LET all == Cardinality(Known(n))
     IN  Cardinality(targets) = IF Fanout < all THEN Fanout ELSE all
  /\ round' = [round EXCEPT ![n] =
       [p \in PeerKey |-> IF p \in targets THEN peers[n][p] ELSE None]]
  /\ UNCHANGED <<now, store, pending, peers, exch, bounds, history>>

(***************************************************************************)
(* gossip_round, the loop over the targets.  The watermark used is the one *)
(* cloned in step 1, the store is read now.                                *)
(***************************************************************************)
RoundDelta(n, p) == delta_since(store[n], round[n][p].last_sync_ts)

\* Fault: a node with nothing to say does not introduce itself.
NothingToSend_NoIntroduction(n, p) == is_empty(RoundDelta(n, p))

NothingToSend(n, p) ==
  is_empty(RoundDelta(n, p)) /\ round[n][p].exchange_count > 0

SkipPeer(n, p) ==
  /\ round[n][p] # None
  /\ NothingToSend(n, p)
  /\ round' = [round EXCEPT ![n][p] = None]
  /\ UNCHANGED <<now, store, pending, peers, exch, bounds, history>>

SpawnSend(n, p, t) ==
  /\ round[n][p] # None
  /\ ~NothingToSend(n, p)
  /\ exch[t] = None
  /\ \E ts \in Time :
       /\ IsMaxTimestamp(RoundDelta(n, p), ts)
       /\ exch' = [exch EXCEPT ![t] =
            [from_node_id |-> n, peer_id |-> p, to |-> round[n][p].gossip_addr,
             deltas |-> RoundDelta(n, p), max_sent_ts |-> ts, phase |-> "sent"]]
  /\ round' = [round EXCEPT ![n][p] = None]
  /\ UNCHANGED <<now, store, pending, peers, bounds, history>>

(***************************************************************************)
(* handle_inbound: merge_delta, then mark_seen on the sender's entry, then *)
(* the ack.  read_message refuses a frame above the limit first, which     *)
(* closes the connection and fails the sender's task.                      *)
(***************************************************************************)
Fits(deltas) == Cardinality({k \in Key : deltas[k] # None}) =< MaxFrame

HandleInbound(t) ==
  /\ exch[t] # None
  /\ LET x == exch[t]
         n == x.from_node_id
         r == x.to
         m == merge_delta(store[r], x.deltas)
     IN  /\ x.phase \in {"sent", "orphaned"}
         /\ Fits(x.deltas)
         /\ store' = [store EXCEPT ![r] = m]
         /\ peers' = [peers EXCEPT ![r][<<"id", n>>] =
                        mark_seen(OrInsert(peers[r], <<"id", n>>, n))]
         /\ exch' = [exch EXCEPT ![t] =
              IF x.phase = "sent" THEN [x EXCEPT !.phase = "merged"] ELSE None]
         /\ NoteArrivals(r, m)
  /\ UNCHANGED <<now, pending, round, bounds, written>>

RejectInbound(t) ==
  /\ exch[t] # None
  /\ exch[t].phase \in {"sent", "orphaned"}
  /\ ~Fits(exch[t].deltas)
  /\ exch' = [exch EXCEPT ![t] = None]
  /\ UNCHANGED <<now, store, pending, peers, round, bounds, history>>

\* Fault: the ack moves the watermark to what the store holds by then.
ReceiveAck_StoreMax(t) ==
  /\ exch[t] # None
  /\ exch[t].phase = "merged"
  /\ LET x == exch[t]
         n == x.from_node_id
     IN  \E ts \in Time :
           /\ IsMaxTimestamp(store[n], ts)
           /\ peers' = [peers EXCEPT ![n][x.peer_id] =
                record_exchange(OrInsert(peers[n], x.peer_id, x.to), ts)]
  /\ exch' = [exch EXCEPT ![t] = None]
  /\ UNCHANGED <<now, store, pending, round, bounds, history>>

(***************************************************************************)
(* The end of a send task.  Ok(ack): record_exchange with what was sent.   *)
(* Err: connect or write failed, or the ack did not come in five seconds;  *)
(* nothing is recorded, and a message already written may still arrive.    *)
(***************************************************************************)
ReceiveAck(t) ==
  /\ exch[t] # None
  /\ exch[t].phase = "merged"
  /\ LET x == exch[t]
         n == x.from_node_id
     IN  peers' = [peers EXCEPT ![n][x.peer_id] =
           record_exchange(OrInsert(peers[n], x.peer_id, x.to), x.max_sent_ts)]
  /\ exch' = [exch EXCEPT ![t] = None]
  /\ UNCHANGED <<now, store, pending, round, bounds, history>>

SendFails(t) ==
  /\ exch[t] # None
  /\ exch' = [exch EXCEPT ![t] = None]
  /\ UNCHANGED <<now, store, pending, peers, round, bounds, history>>

AckTimesOut(t) ==
  /\ exch[t] # None
  /\ exch[t].phase = "sent"
  /\ exch' = [exch EXCEPT ![t].phase = "orphaned"]
  /\ UNCHANGED <<now, store, pending, peers, round, bounds, history>>

(***************************************************************************)
(* The process dies and is started again with the same configuration: all  *)
(* state is in memory.  What it had written to a socket may still arrive.  *)
(***************************************************************************)
Restart(n) ==
  /\ n \in Restarter
  /\ restarts < MaxRestarts
  /\ restarts' = restarts + 1
  /\ store'   = [store EXCEPT ![n] = EmptyMap]
  /\ pending' = [pending EXCEPT ![n] = {}]
  /\ peers'   = [peers EXCEPT ![n] = SeedTable(n)]
  /\ round'   = [round EXCEPT ![n] = NoPeers]
  /\ exch'    = [t \in Task |->
                   IF exch[t] = None \/ exch[t].from_node_id # n THEN exch[t]
                   ELSE IF exch[t].phase = "merged" THEN None
                   ELSE [exch[t] EXCEPT !.phase = "orphaned"]]
  /\ late'    = [late EXCEPT ![n] = [p \in PeerKey |-> {}]]
  /\ UNCHANGED <<now, writes, written>>

-----------------------------------------------------------------------------
Init ==
  /\ now = 1
  /\ store = [n \in Node |-> EmptyMap]
  /\ pending = [n \in Node |-> {}]
  /\ peers = [n \in Node |-> SeedTable(n)]
  /\ round = [n \in Node |-> NoPeers]
  /\ exch = [t \in Task |-> None]
  /\ writes = 0 /\ restarts = 0
  /\ written = {}
  /\ late = [n \in Node |-> [p \in PeerKey |-> {}]]

ClientStep(n) ==
  \/ \E k \in Key, v \in Value : StampSet(n, k, v)
  \/ \E w \in pending[n] : CommitSet(n, w)

RoundStep(n) ==
  \/ \E targets \in SUBSET Known(n) : BeginRound(n, targets)
  \/ \E p \in PeerKey : SkipPeer(n, p)
  \/ \E p \in PeerKey, t \in Task : SpawnSend(n, p, t)

ExchangeStep(t) ==
  \/ HandleInbound(t)
  \/ RejectInbound(t)
  \/ ReceiveAck(t)
  \/ SendFails(t)
  \/ AckTimesOut(t)

\* The cluster while no process dies.
Next ==
  \/ AdvanceTime
  \/ \E n \in Node : ClientStep(n) \/ RoundStep(n)
  \/ \E t \in Task : ExchangeStep(t)

CrashNext == Next \/ \E n \in Node : Restart(n)

Spec == Init /\ [][Next]_vars
CrashSpec == Init /\ [][CrashNext]_vars

(***************************************************************************)
(* Fairness.  The ticker never stops and a round's loop always goes on     *)
(* (strongly, because the bound on tasks may make it wait); a shuffled     *)
(* table selects every other node in it again and again, be it always      *)
(* under the same one of its two entries; a stamped write gets the lock;   *)
(* and a link is not dead for ever: of the messages sent to another node   *)
(* not all are lost, nor all the acks of those it merged.                  *)
(***************************************************************************)
Serve(n, p) == SkipPeer(n, p) \/ \E t \in Task : SpawnSend(n, p, t)

Selects(T, m) == \E p \in T : p[2] = m

Link(n, m, t) ==
  exch[t] # None /\ exch[t].from_node_id = n /\ exch[t].to = m

Fairness ==
  /\ \A n \in Node :
       /\ WF_vars(\E w \in pending[n] : CommitSet(n, w))
       /\ SF_vars(\E p \in PeerKey : Serve(n, p))
       /\ \A m \in Node \ {n} :
            /\ SF_vars(\E T \in SUBSET Known(n) : Selects(T, m) /\ BeginRound(n, T))
            /\ SF_vars(\E t \in Task : Link(n, m, t) /\ HandleInbound(t))
            /\ SF_vars(\E t \in Task : Link(n, m, t) /\ ReceiveAck(t))

FairSpec == Spec /\ Fairness
FairCrashSpec == CrashSpec /\ Fairness

-----------------------------------------------------------------------------
(***************************************************************************)
(* Properties                                                              *)
(***************************************************************************)
PendingWrite == [key : Key, incoming : LwwValue]

\* Every variable keeps its type: a table entry is absent or a PeerInfo with an
\* address to call, and a send task holds nothing or a whole exchange.
TypeOK ==
  /\ now \in Nat
  /\ store \in [Node -> StateMap]
  /\ pending \in [Node -> SUBSET PendingWrite]
  /\ peers \in [Node -> PeerTable]
  /\ round \in [Node -> PeerTable]
  /\ exch \in [Task -> Exchange \cup {None}]
  /\ writes \in Nat /\ restarts \in Nat
  /\ written \in SUBSET (Key \X LwwValue)
  /\ late \in [Node -> [PeerKey -> SUBSET Key]]

\* Any two stores that hold the same key with the same stamp hold the same
\* value.  merge cannot tell two such registers apart (crdt.rs: on equal stamps
\* the first argument wins), so convergence rests on this.
Agreement ==
  \A n, m \in Node, k \in Key :
    (store[n][k] # None /\ store[m][k] # None /\ SameStamp(store[n][k], store[m][k]))
      => store[n][k] = store[m][k]

\* No replica is ahead of the author: a write that any store holds is held, or
\* has been superseded, at the node whose id it carries.
AuthorIsAhead ==
  \A n \in Node, k \in Key :
    store[n][k] # None => Covers(store[store[n][k].node_id][k], store[n][k])

\* Peer p's watermark at n hides the entry of key k from p, which lacks it:
\* delta_since will never ship that entry to p again.
Skipped(n, p, k) ==
  /\ peers[n][p] # None
  /\ store[n][k] # None
  /\ store[n][k].timestamp =< peers[n][p].last_sync_ts
  /\ ~Covers(store[peers[n][p].gossip_addr][k], store[n][k])

\* The only entries a watermark can hide from a peer that lacks them are those
\* that reached the store after something at least as recent had been shipped
\* to that peer: whatever fails, is retried, overlaps or arrives twice, an
\* entry that was in the store in time is never skipped.
OnlyLateSkipped ==
  \A n \in Node, p \in PeerKey, k \in Key : Skipped(n, p, k) => k \in late[n][p]

\* A watermark is never beyond what the peer's own store reaches: it advances
\* to what was sent and acknowledged, not to what the sender has meanwhile.
WatermarkBacked ==
  \A n \in Node, p \in PeerKey :
    (peers[n][p] # None /\ peers[n][p].last_sync_ts > 0) =>
      \E k \in Key :
        LET e == store[peers[n][p].gossip_addr][k]
        IN  e # None /\ e.timestamp >= peers[n][p].last_sync_ts

\* No step of the cluster takes a key away or replaces an entry by one that is
\* not strictly newer in merge's order, and no watermark moves back.
NoRegress ==
  [][\A n \in Node :
       /\ \A k \in Key : Covers(store'[n][k], store[n][k])
       /\ \A p \in PeerKey : peers[n][p] # None =>
            /\ peers'[n][p] # None
            /\ peers'[n][p].last_sync_ts >= peers[n][p].last_sync_ts]_vars

Converged == \A n, m \in Node : store[n] = store[m]

\* All nodes end up with the same state (README, design decision 1).
Convergence == <>[]Converged

\* Entries skipped by a watermark are all that stands between the cluster and
\* convergence: when none stays skipped, introductions, retries and echoes
\* bring every store to the same state and keep it there.
ConvergesUnlessSkipped ==
  []<>(\E n \in Node, p \in PeerKey, k \in Key : Skipped(n, p, k)) \/ <>[]Converged

\* last_sync_ts is "the highest state timestamp we have confirmed this peer has
\* received" (peer.rs): nothing up to it is missing at the peer.
WatermarkExact ==
  \A n \in Node, p \in PeerKey, k \in Key : ~Skipped(n, p, k)

\* Nothing is under way and no round would send anything, whichever peers it
\* picks: until a client writes again, no store can change.
Settled ==
  /\ \A n \in Node : pending[n] = {} /\ round[n] = NoPeers
  /\ \A t \in Task : exch[t] = None
  /\ \A n \in Node : \A p \in Known(n) :
       /\ is_empty(delta_since(store[n], peers[n][p].last_sync_ts))
       /\ peers[n][p].exchange_count > 0

\* When gossip has fallen silent and no entry is skipped, a node and each of its
\* seeds hold the same state.  It takes both directions: the seed can only have
\* pushed its own entries because an introduction told it who the node is.
SilentSeedsAgree ==
  (Settled /\ WatermarkExact) =>
    \A n \in Node : \A m \in Seeds[n] : store[n] = store[m]

\* When gossip has fallen silent every node holds the same state, "without any
\* coordination" (README, design decision 1).
SilentConverged == Settled => Converged

\* Across losses, late deliveries and restarts, every entry any store holds is,
\* value, stamp and author together, one that a client wrote at that author.
NothingInvented ==
  \A n \in Node, k \in Key : store[n][k] # None => <<k, store[n][k]>> \in written

-----------------------------------------------------------------------------
\* The cluster implements a replicated map whose replicas only ever accept
\* fresh writes of their own and join writes made elsewhere.
Abstract == INSTANCE ReplicatedMap WITH rep <- store, written <- written
ImplementsReplicatedMap == Abstract!Spec
=============================================================================
