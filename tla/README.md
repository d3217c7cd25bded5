# A TLA+ model of the state-sync engine

The engine is a process that keeps a key-value map of last-write-wins registers,
replicates it by push gossip and serves it over JSON-RPC.  This directory models
what can go wrong between its tasks, its nodes and its clients.  It is read next
to the source; paths below are relative to the crate's `src/`.

## 1. The system

| Component | State | Operations | Hard because |
|---|---|---|---|
| LWW register, `state/crdt.rs` | value, timestamp, node id | `new`, `merge`, `is_dominated_by` | wall clocks: ties, skew, steps back |
| State store, `state/store.rs` | `RwLock<HashMap>`, broadcast sender | `set`, `merge_delta`, `delta_since`, `subscribe` | the clock is read before the lock, events are sent after it |
| Peer table, `gossip/peer.rs` | per peer: address, watermark `last_sync_ts`, `exchange_count` | `new`, `record_exchange`, `mark_seen` | shared by rounds, send tasks and inbound handlers |
| Gossip manager, `gossip/manager.rs` | peer table, one scheduler, many tasks | `gossip_round`, the send task, `handle_inbound` | overlapping exchanges, lost acks, late messages, restarts |
| Framing, `gossip/protocol.rs` | none | `write_message`, `read_message` | a stream that is cut or stops anywhere, a `u32` length, frames above 16 MiB refused whole |
| RPC connection, `rpc/server.rs` | read buffer, subscription, one write at a time | a `select!` loop with three arms | slow clients, requests in pieces, cancellation |
| RPC handler, `rpc/handler.rs`, `rpc/types.rs` | none | `dispatch` and one function per method | notifications, subscriptions |
| Lifecycle, `main.rs`, `config.rs` | cancellation token | start, bind, accept, Ctrl-C, join | ports that cannot be bound, tasks that nobody joins |
| `state/snapshot.rs`, `error.rs` | none | helpers nothing uses | not modelled |

How they interact.  A client's `state.set` reaches `StateStore::set`; the winner
is broadcast to every subscribed connection.  Once per interval a round clones
the peer table, picks `fanout` peers at random, builds for each the delta above
its watermark and spawns a task that sends it and waits for an ack.  The
receiver merges the delta, registers the sender and acks; the ack moves the
sender's watermark for that peer.  A client that keeps a copy of the state
subscribes, merges the updates and calls `sync.delta` when told that it lagged.
`main` starts the RPC server and the gossip manager, waits for Ctrl-C, cancels
the token and joins the two; connections, inbound handlers and send tasks are
spawned and joined by nobody.  All state is in memory.

What makes each part correct:

- register: `merge` picks one winner whatever the order, and two values never
  come under one stamp;
- store: no entry is replaced by an older one; every entry the store ends up
  with is announced, and nothing else is;
- gossip: a watermark hides nothing that the peer lacks and could have been
  sent; replicas converge; no replica invents anything;
- exchange: a message is merged whole or not at all, success means merged, and
  neither end waits for ever;
- connection: replies and updates in order, losses counted, every request
  answered, shutdown noticed;
- client copy: never ahead of the store, and in the end equal to it;
- lifecycle: after Ctrl-C the process ends whatever hangs, and one part that
  cannot start does not stop the others.

## 2. The modules

| Module | Contents |
|---|---|
| `Lww` | registers, maps and what the store's operations compute; no state |
| `Gossip` | the cluster: stores, pending writes, peer tables, rounds, exchanges, restarts |
| `ReplicatedMap` | the abstract map that the cluster implements |
| `StateStore` | one store's `set` and `merge_delta`, cut at the clock, the lock and the sends |
| `GossipExchange` | one exchange on its TCP connection: frames, limits, timeouts, ends that die |
| `Delivery` | what one push promises; `GossipExchange` implements it |
| `RpcConnection` | one connection, its client and the broadcast channel |
| `Mirror` | `StateStore` composed with the channel and a client that copies the store |
| `SyncStatus` | `Mirror` with a client that also polls `sync.status`, which reads under two locks |
| `Lifecycle` | one process from start to exit |
| `MCGossip`, `MCRpcConnection`, `MCMirror` | seeds, symmetry, request sets and a narrower client for TLC |
| `LwwProofs`; `GossipProofs`, `WatermarkProofs`; `StateStoreProofs` | theorems about `Lww`, `Gossip` and `StateStore` |
| `ExchangeProofs`, `MirrorProofs`, `ConnectionProofs`, `LifecycleProofs` | theorems about `GossipExchange`, `Mirror` with `SyncStatus`, `RpcConnection` and `Lifecycle` |

Definitions keep the source's names; `PROJECT.json` maps each to its lines.
Definitions marked *Fault* are deliberate errors, such as an off-by-one, a
dropped condition or a missing field.  No specification uses them: each shows
that some property fails when that error is made.

### Gossip

| Code | Model |
|---|---|
| `set`: stamp, then lock and merge | `StampSet`, `CommitSet` |
| `SystemTime::now` | `now_micros`: any time from `now` to `now + MaxSkew`, not monotonic |
| `gossip_round`: clone and pick | `BeginRound`; the clones stay in `round[n]` |
| one turn of its loop | `SkipPeer` or `SpawnSend`, with the watermark cloned earlier and the store of now |
| `handle_inbound` | `HandleInbound`, or `RejectInbound` when the frame is too large |
| `Ok(ack)` / `Err` of the send task | `ReceiveAck` / `SendFails`, `AckTimesOut` |
| crash and start | `Restart`: store, table, round and pending writes are gone |

A peer is known by its address until it calls, and by its id after that, so a
node may have two table entries with two watermarks for one peer; the model
keeps both.  An exchange whose sender has given up stays `orphaned` and may
still be merged.  Inbound handling takes the merge and the registration of the
sender in one step: a round that ran between the two could only miss the new
peer, as a round that ran before both does.  For the same reason the clone of the
peer table is one step, although the `DashMap` is walked entry by entry: each
clone is one that a later round could have made, and what a round does with one
entry does not depend on the others.  `exchange_count` saturates at 1
because the code only compares it with 0.  A delta names a key at most once (it
is filtered from a map), so a delta has the shape of a map.  The frame limit is
counted in entries.  `written` and `late` are history.

### StateStore

`Gossip` takes the store's operations whole; `StateStore` cuts them where other
tasks can run.  `set` is `SetStamp`, `SetMerge`, `SetSend`; `merge_delta` is
`MergeDelta` (the critical section), then `MergeRead` and `MergeSend` for every
updated key.  A delta that arrives carries entries of other nodes, or entries
this store had before; that one stamp never comes with two values is `Agreement`,
proved of `Gossip`.  That is `CanArrive`, an assumption about the peers; a restart
breaks it (see section 4).

### GossipExchange and Delivery

`Gossip` takes an exchange to be a message that is sent, perhaps merged, and
perhaps acknowledged.  `GossipExchange` shows why that is right, on a stream of
units: one unit of header, then `size` units of payload.

| Code | Model |
|---|---|
| `send_and_ack`: connect, 5 s | `Connect`, `ConnectFails` |
| `write_message` | `WriteSome` unit by unit, `WriteEnds`, `WriteFails` |
| wait for the ack, 5 s | `AckArrives`, `AckFails`, `AckTimesOut` |
| accept; `read_message` | `Accept`; `ReadLen`, `ReadBody`, `ReadEof` |
| decode, `merge_delta`, `mark_seen`; the ack | `HandleMessage`; `WriteAck`, `WriteAckFails` |
| either end disappears | `SenderVanishes`, `PeerDies`, `PeerStalls` |

A closed sender leaves an end of stream; a vanished one leaves nothing, so the
handler waits.  A stalled peer's kernel still accepts and buffers.  External:
bincode decodes nothing shorter than the whole message.  The phases of `Gossip`
are those of `Delivery`: *sent* is pending and unmerged, *merged* is pending and
merged, *orphaned* is given up and unmerged.

### RpcConnection

Each arm of `select!` is an action or a few: `ReadPart`, `ReadLine`,
`ReadLastLine`, `ReadEof`, `ReadError`; `RecvEvent`, `RecvLagged`; `Cancel`.
`write_line` runs inside an arm, so while `writing` holds a line no arm is
polled.  The socket holds `OutCap` lines for a client that does not read.
External and modelled from its use: tokio's broadcast channel keeps the last
`Capacity` events, and a receiver further behind is moved to the oldest and
told how many it missed; `read_line` loses what it has taken when its future is
dropped, that is, when another arm wins.  A request is cut inside its JSON text
or just before its newline, or not at all.  A line that is no request, or what is
left of one that was cut, may hold bytes that are not UTF-8: then `read_line`
fails and the connection ends, also for a client that is still there.  Update
lines carry the position of
their event in the channel, which the real ones do not: it identifies them.

### Mirror

The client follows the protocol that the server's comments and the crate's
README describe: subscribe, merge every `state.update`, ask `sync.delta` after
subscribing and after every `state.lag`.  `Subscribe` may be taken again at any
time: that is a reconnection, and events waiting for the old receiver are lost.
`sync.delta` has a connection of its own, so its reply and the updates overtake
each other.  A notification is forwarded and taken in one step; a slow client
is one whose events wait in the channel (`RpcConnection` has the socket in
between).  `state_get` is an operator, applied to the store by the properties.

### SyncStatus

`StatusCall`, two `StatusRead`s and `StatusReply` are one call of `sync.status`: the
handler reads the size and then the highest timestamp, each under its own lock, and
any step of the store, the server or the client may come between them.  `known` is
what the client had seen of each field when it asked, from its copy or from
earlier replies; `counted` is history, the highest timestamp at the moment of the
count.  The reply's `node_id`, which is constant, and its `peer_count`, a number
taken from the peer table, are left out.

### Lifecycle

The ports are a choice of the initial state and may be equal, since the code
does not compare them.  A bind may fail for that or for any other reason.  A
spawned task is `idle` between pieces of work or `busy` in one.  `CtrlC` cancels
the token; the loops end at their `cancelled()` arm; `Join` needs all three; when
`main` returns, the runtime drops every task where it is.  `Drop` is how the
process ends a task, at the cancellation as at the exit, and records in `torn` the
ones that were busy.  An `accept` error is logged and retried, a stuttering step.

## 3. What is checked

| Run | Instance | Shows |
|---|---|---|
| `gossip_conflicts` | 2 nodes, 1 key, 2 values, skew 1 | `Agreement`, `AuthorIsAhead`, `NoRegress`, refinement of `ReplicatedMap` |
| `gossip_watermarks` | 2 nodes, 2 keys, 2 exchanges at once, skew 1 | `OnlyLateSkipped`, `WatermarkBacked`, `SilentSeedsAgree`, `NoRegress` |
| `gossip_convergence` | 2 nodes, both write, time advances, fair | `ConvergesUnlessSkipped` |
| `gossip_restarts` | 2 nodes, 2 keys, 1 restart, frames of 1 entry, time advances | `NothingInvented` |
| `exchange` | payloads of 1 to 6 units, limit 2, lengths modulo 4, buffers of 2 units, fair | `OnlyWholeMerged`, refinement of `Delivery`, `SendEnds`, `HandlerEnds` |
| `mirror` | 2 tasks, 2 calls, 2 keys, a clock that steps back, capacity 1, fair | the store: `StateAnnounced`, `EventsWereState`, `AnnouncedInTheEnd`, `ReadsNeverGoBack`; the client: `NoGap`, `MirrorBehind`, `MirrorCatchesUp`, `StatusConsistent` |
| `connection` | 2 requests of 6 kinds, 2 events besides the client's own, capacity 1, socket of 1 line, fair | order of updates and replies, `LagAddsUp`, three liveness properties |
| `lifecycle` | 2 ports, 2 connections, 1 inbound handler, 2 send tasks, fair | `ShutdownCompletes`, `PartsIndependent` |

Why these bounds.  A conflict needs two writers or one writer twice in a
microsecond, and two values to be seen; a skipped entry needs two keys, and a
race between acks, or an ack that comes late and would move a watermark back,
needs two tasks; a late message needs one orphaned exchange.  Convergence needs two
times: a write of the second is above a watermark that the first has moved, and has
to be shipped past it, while two writes of one time are either shipped together or
one of them is skipped.  A reply of `sync.status` goes wrong, if it does, with one
write between its two reads; in this run (`MCMirror`) a client polls `sync.status`
or keeps a copy and never does both, and the theorem `StatusIsConsistent` is about
one that does both.
Lag needs `Capacity + 1` unread events, and a discarded receiver needs two
subscriptions.  Payloads of 1 to 6 units, with a limit of 2 and lengths modulo 4,
are accepted (1, 2), refused (3), or wrapped to a length that the limit lets
through (4, 5, 6), and buffers of 2 units block the writer of a longer one.  Two
calls on two tasks already announce one key out of order and overflow a channel
of one event.  Larger instances repeat these situations; for the safety
properties the theorems below remove the bounds.  Symmetry
(keys, values, tasks) is used only in runs without liveness.  The connection run
does not check deadlock: a client may stop, and a closed connection stops.  Nor
do `exchange` and `lifecycle`: an exchange ends, and a process exits.

Fairness.  In `Gossip`: the interval ticker and the round's loop go on; a
shuffled table picks each other node again and again (strong fairness on rounds
that contain one of its entries, possibly always the same one of two); a stamped write gets the lock; of the exchanges over a link not all
fail.  The last one is an assumption about the network, and nothing promises
that any given message arrives.  In `StateStore` a task inside a call goes on,
because no lock is held across an `.await`; `Mirror` adds that the server
forwards and answers and that the client reads.  In `GossipExchange` each task
goes on when it can, and no one is obliged to die or to stall.  In `Lifecycle` a
bind returns and a loop reaches its `cancelled()` arm, because `select!` tries its
arms in random order; nothing is assumed of spawned tasks.  In `RpcConnection` the task runs
when an arm or its write can go on, and the client reads what it is sent; it is
weak fairness of the loop as a whole and not of each arm.  So the liveness
properties of a connection say nothing of a client that never reads: its task stays
in `write_line`, sees no cancellation, and ends when `main` returns, which does not
wait for it (`ShutdownCompletes` assumes nothing of clients).

## 4. Where the program disagrees with its documentation

Four runs look for a counterexample to something a document or a comment says,
and find one.

- `silent_divergence`.  Node 1 stamps two writes of different keys, commits and
  ships the first, and then commits the second, which is not above the
  watermark.  Gossip falls silent with the two stores different, although the
  clock is perfect.
- `convergence_restart`.  Only node 2 may restart, and only node 1 is written to:
  node 2 comes back empty under its old id and introduces itself, and node 1's
  watermark for it stays where it was.
- `silent_miss`.  A second `state.subscribe` on one connection drops the events
  that were waiting for the first, without a `state.lag`.
- `torn_request`.  A request in two pieces, with an event between them, gets no
  reply.

The first two have one cause: the watermark is a timestamp made by the
*author* of an entry, and is used as a position in what the *sender* received.
`OnlyLateSkipped` says exactly which entries suffer, and
`ConvergesUnlessSkipped` that nothing else stands in the way.

Seen while modelling, and not kept as runs:

- "The client knows exactly how many events it missed" (`README.md:315`): with a
  prefix, `state.lag` also counts events that the client did not ask for, since the
  prefix is applied to delivered events only (`server.rs:147-158`).  TLC refutes
  `LagExact` of `RpcConnection` with one such subscription and two events.
  `LagAddsUp` says within which limits the count is right, and the theorem
  `ExactWithoutPrefix` that it is exact when there is no prefix;
- "Wait for all subsystems to drain and exit cleanly" (`main.rs:79`): the accept
  loops and the scheduler are waited for, spawned tasks are not (`server.rs:69`), so
  a request that has been applied may go unanswered.  TLC refutes `DrainsCleanly`
  of `Lifecycle` with one connection;
- with a frame limit below the size of the state, the convergence property fails (the sender never splits a delta);
- around a hub, what the hub learns from one spoke is not relayed to another to
  which it has already sent something as recent: the same cause as above, and
  `OnlyLateSkipped` covers it;
- after a restart within one clock reading, or with the clock stepped back, two
  values can share a stamp, so `Agreement` holds for processes that do not
  restart;
- `gossip/manager.rs:258` says of the connect and the ack that both have a time
  limit "to prevent tasks from hanging on dead peers", but the write between them
  has none: `SendEnds` states the exception, and `HandlerEnds` the like one for
  the inbound handler, which reads without a limit;
- `sync.status` is called a snapshot (`README.md:186`, `handler.rs:181`), but its size
  and its timestamp may belong to no single state of the store;
  `StatusConsistent` says what remains true;
- with equal RPC and gossip ports the second bind fails, and the node runs on
  with one of its two listeners;
- `sync.delta` since the newest timestamp a client holds does not fill the gap
  after a lag, for the reason that watermarks skip entries; called without
  `since` it does, which is what `NoGap` shows;
- `set` also sends an event when the write lost; an intermediate entry may never
  be announced, since `merge_delta` announces what it finds after the unlock; a
  `state.subscribe` without an id is answered.

## 5. What is proved

Every safety property and every action property that a passing run checks, for
every set of nodes, keys, values, requests and tasks and every capacity and bound:

- `LwwProofs`: `merge` is associative and idempotent, and commutes exactly when
  equal stamps mean equal registers; what a slot and a map hold after a merge.
- `GossipProofs`: `TypeCorrect` and `NothingIsInvented` (with restarts);
  `StoresAgree`, `AuthorsAreAhead`, `NothingRegresses`, `Refinement` (without).
- `WatermarkProofs`: `OnlyLateIsSkipped`, `WatermarksAreBacked`,
  `SilenceMeansAgreement`.
- `StateStoreProofs`: `StoreTypes`, `EventsWereInState`,
  `CurrentStateIsAnnounced`.
- `ExchangeProofs`: `ExchangeTypes`, `OnlyWholeMessagesMerged`, and
  `ExchangeImplementsDelivery`, the refinement.
- `MirrorProofs`: `MirroredStoreIsStore` (the store beside a client is the store
  of `StateStore`), `ReadsDoNotGoBack`; `MirrorTypes`,
  `MirrorNeverAhead`, `MirrorHasNoGap`, and `QuietMirrorIsExact`: when nothing is
  on its way, the copy *equals* the store; `StatusIsConsistent`.
- `ConnectionProofs`: `ConnectionTypes`, `UpdatesAreInOrder`,
  `RepliesAreInOrder`, `LagNoticesAddUp`, and its corollaries `NoNoticeNoLoss` (no
  loss told since the latest subscribe means that no wanted event was passed over)
  and `ExactWithoutPrefix`.
- `LifecycleProofs`: `LifecycleTypes`, `PartsAreIndependent`.

The argument for gossip.  Agreement between stores is not inductive, because a
disagreeing value could be in flight.  `WrittenInv` adds that every entry in a
store or a message was written (`NothingInvented`, `MessagesGenuine`), that no
two writes share a stamp (`OneWritePerStamp`), and, to keep that so, that an
author's store covers all it wrote (`AuthorKeeps`): a new write with a used
stamp then loses the merge at its author and is never counted as written.

The argument for watermarks.  `OnlyLateSkipped` is about acknowledged exchanges
and has to be carried through the unacknowledged ones.  `BelowSent` says of an
exchange the peer has merged that each entry up to its `max_sent_ts` is at the
peer or late; `BelowWatermark` says it of the table; the clones in `round` are
bounded by the table (`TablesLead`, `ExchangesLead`).  `SentBacked` and
`Acquainted` carry the other two theorems: the highest entry sent is at the
peer, and who was contacted knows the caller.

The argument for the store.  A value that a task is about to announce is in
`seen` and covered by the map; a key whose entry changed is owed by the task
that changed it, and a task that finds a newer entry takes over the debt.

The argument for an exchange.  `HeaderRead` ties what the handler is doing to
what it has taken from the stream: from `body` on, `len` is the length that
`write_message` put in the header, which is the size modulo the header's width.
`MergedByPhase` ties `merges` to the phase.  A length that wrapped differs from
the size, so the decoder refuses what was read as a message.

The argument for the client's copy.  `MirrorNeverAhead` needs that a stamp once
held never returns with another value (`OneEntryPerStamp`), even when the clock is
stepped back onto it: an entry is replaced only by one with a higher stamp.
`sync.delta` since 0 returns everything because no entry has timestamp 0
(`StampsInRange`).  For `MirrorHasNoGap` an event that a task owes passes to the
channel when it is sent, from there to the copy when it is forwarded, and to a
`sync.delta` that the client knows to be due when the channel overflows.

The argument for a connection.  `Effects` reduces the steps to six: nothing new
for the client, a reply, a new subscription, an event passed, a lag, the end.
Updates: the receiver's position is at or past every update sent, also those of
earlier subscriptions, because a new receiver starts at the end of the channel
(`UpdatesPassed`).  Replies: what is in the stream, half read or half written
belongs to requests above all the answered ones (`AnswersBehind`), which holds
because the stream carries requests in order and a segment that ends a line is
the last of its request (`StreamOrdered`, `LastUnfinished`).  Lag notices: each
notice adds to the total exactly the events between the receiver's old and new
position, none of which has been or will be delivered.  `Told` is a recursive
function; the invariant carries a function that satisfies its recursion
(`ComesTo`), each line extends it by one value, and a least counterexample shows
that there is only one (`TotalsUnique`).

The argument for `sync.status`.  A map that covers another has at least its size and
its highest timestamp (`StatusFollows`).  The store only ever covers what it was,
and covers the client's copy (`BehindInv`), so each field that has been read lies
between what the client knew and the store of now; the highest timestamp at the
count is below the one that is read after it.

The argument for the process.  `PartsAreIndependent` needs that the token is not cancelled while `main` waits
for Ctrl-C (`BeforeCtrlC`), since the loops end only at their `cancelled()` arm.

The assumptions are those stated in the modules.  Node ids are numbers (only
their order is used); `None` is no record, map, call or line; the bounds are
naturals, the capacities positive; the frame limit fits the header's width; the
tasks of a process are distinct; the store's set of keys is finite, because a
`HashMap` has a length, which `sync.status` reports.

Only model-checked: the liveness properties, since fairness is outside what the
proof system handles, and the disagreements of section 4, which are
counterexamples.

## 6. Not modelled, and the plan

Left out, and why:

- byte-level encoding, `state/snapshot.rs` and error texts: calls into serde and
  bincode that no control depends on;
- `last_seen` and `is_stale` (nothing acts on them), the content of `node.peers`,
  logging, command-line parsing, the benchmarks;
- a bind address of `0.0.0.0`, which is also what peers are told to call: that
  would need addresses that mean a different host to each node;
- a restart under a fresh node id: its peers keep the old id's entry, with its
  watermark, beside a new one that starts at 0.  Two entries for one address are
  already there, for seeds; a set of ids that grows is not;
- `accept` failing for ever for want of descriptors: it spins, and the model has
  no notion of work without a state change.

Order of work:

1. done: `Lww`, `Gossip`, `ReplicatedMap`, `StateStore`, `RpcConnection`,
   `GossipExchange`, `Delivery`, `Mirror`, `SyncStatus`, `Lifecycle`, and the theorems of
   section 5;
2. the safety part of each liveness property, as a theorem: what stands in the
   way of the result whenever it has not come yet.  For `EventsDelivered`: a
   wanted event that the receiver has gone past was delivered, is being written,
   or is counted by a notice.  For `WholeRequestsAnswered`: a request that came in
   one piece is still in the stream, or its reply is out;
3. what of `Gossip`'s agreement survives restarts, when the clock has moved on
   between the crash and the first new write.
