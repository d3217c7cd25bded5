------------------------------- MODULE Mirror -------------------------------
(***************************************************************************)
(* A client that keeps a copy of the store, the way rpc/server.rs and the  *)
(* README tell it to: subscribe, merge every state.update, and call        *)
(* sync.delta after subscribing and after every state.lag.  Composed of    *)
(* module StateStore, the broadcast channel, the connection's event arm    *)
(* and the sync.delta handler.  Module SyncStatus adds sync.status.        *)
(*                                                                         *)
(* sync.delta goes over a connection of its own, so its reply and the      *)
(* updates reach the client in any order.  A notification is forwarded and *)
(* taken in one step: a client that reads late is one whose events wait in *)
(* the channel.  The client may reconnect at any time, and loses them.     *)
(***************************************************************************)
EXTENDS StateStore

CONSTANT Capacity  \* event_channel_capacity

ASSUME CapacityAssumption == Capacity \in Nat \ {0}

ASSUME NoneIsNoMap == None \notin StateMap

VARIABLES
  next,    \* the receiver's position in event_tx, None before the subscription
  due,     \* the client has a sync.delta request to make or under way
  reply,   \* the entries of a sync.delta reply on its way, None when there is none
  mirror   \* the client's copy

client == <<next, due, reply, mirror>>
mvars  == <<vars, client>>

tail == Len(event_tx)

-----------------------------------------------------------------------------
\* Fault: the receiver starts one event too late.
Subscribe_Late ==
  /\ next' = tail + 1
  /\ due' = TRUE
  /\ UNCHANGED <<vars, reply, mirror>>

\* StateStore::subscribe: the receiver starts behind the newest event.
Subscribe ==
  /\ next' = tail
  /\ due' = TRUE
  /\ UNCHANGED <<vars, reply, mirror>>

\* The event arm of handle_connection: a state.update, which the client merges.
ForwardEvent ==
  /\ next # None
  /\ next < tail /\ tail - next =< Capacity
  /\ next' = next + 1
  /\ mirror' = set(mirror, event_tx[next'].key, event_tx[next'].value)
  /\ UNCHANGED <<vars, due, reply>>

\* Fault: the receiver is moved on and the client is not told.
ForwardLag_Silent ==
  /\ next # None
  /\ tail - next > Capacity
  /\ next' = tail - Capacity
  /\ UNCHANGED <<vars, due, reply, mirror>>

\* The same for a receiver that has lagged: a state.lag.
ForwardLag ==
  /\ next # None
  /\ tail - next > Capacity
  /\ next' = tail - Capacity
  /\ due' = TRUE
  /\ UNCHANGED <<vars, reply, mirror>>

\* Fault: sync.delta is called with the newest timestamp the client has.
SyncDelta_SinceNewest ==
  /\ due /\ reply = None
  /\ \E ts \in 0 .. MaxTime :
       IsMaxTimestamp(mirror, ts) /\ reply' = delta_since(state, ts)
  /\ due' = FALSE
  /\ UNCHANGED <<vars, next, mirror>>

\* handle_sync_delta, called without "since".
SyncDelta ==
  /\ due /\ reply = None
  /\ reply' = delta_since(state, 0)
  /\ due' = FALSE
  /\ UNCHANGED <<vars, next, mirror>>

TakeReply ==
  /\ reply # None
  /\ mirror' = merge_delta(mirror, reply)
  /\ reply' = None
  /\ UNCHANGED <<vars, next, due>>

\* handle_state_get, which the properties apply to the store of the moment.
state_get(m, k) == m[k]

-----------------------------------------------------------------------------
MirrorInit ==
  /\ Init
  /\ next = None /\ due = FALSE /\ reply = None
  /\ mirror = EmptyMap

Serve == ForwardEvent \/ ForwardLag

MirrorNext ==
  \/ Next /\ UNCHANGED client
  \/ Subscribe
  \/ Serve
  \/ SyncDelta
  \/ TakeReply

MirrorSpec == MirrorInit /\ [][MirrorNext]_mvars

\* A call of the store waits for nothing but the lock, which is never held across
\* a suspension point, so a task inside one gets on; the server forwards and
\* answers, and the client reads.
MirrorFairness ==
  /\ \A t \in Task : WF_mvars(Proceed(t) /\ UNCHANGED client)
  /\ WF_mvars(Serve) /\ WF_mvars(SyncDelta)
  /\ WF_mvars(TakeReply)

-----------------------------------------------------------------------------
(***************************************************************************)
(* Properties                                                              *)
(***************************************************************************)

\* The client's variables keep their types; the receiver is never ahead of the
\* channel.
MirrorTypeOK ==
  /\ next \in 0 .. tail \cup {None}
  /\ due \in BOOLEAN
  /\ reply \in StateMap \cup {None}
  /\ mirror \in StateMap

\* The current entry of k is on its way to the client, or the client is about
\* to learn that it has to ask.
Coming(k) ==
  \/ \E t \in Task : Owes(t, k)
  \/ \E i \in next + 1 .. tail : event_tx[i] = [key |-> k, value |-> state[k]]
  \/ tail - next > Capacity
  \/ due
  \/ reply # None /\ Covers(reply[k], state[k])

\* Whatever is overwritten in the channel, lost in a reconnection or announced
\* out of order, the client of a subscription has every current entry or has it
\* coming: sync.delta after a state.lag really fills the gap.
NoGap == next # None => \A k \in Key : Covers(mirror[k], state[k]) \/ Coming(k)

\* The copy is never ahead of the store and holds nothing the store never held.
MirrorBehind ==
  \A k \in Key : mirror[k] # None =>
    Covers(state[k], mirror[k]) /\ <<k, mirror[k]>> \in seen

\* A subscribed client ends with exactly the store's state.
MirrorCatchesUp == (next # None) ~> [](mirror = state)

\* Reads never go back: whatever a reply to set, get or sync.delta, or an event,
\* has ever shown of a key, state.get now returns that entry or one that beats it.
ReadsNeverGoBack == \A s \in seen : Covers(state_get(state, s[1]), s[2])
=============================================================================
