----------------------------- MODULE StateStore -----------------------------
(***************************************************************************)
(* One node's StateStore (state/store.rs): the map behind the RwLock, the  *)
(* broadcast channel, and the tasks that run set() and merge_delta() at    *)
(* the same time.                                                          *)
(*                                                                         *)
(* A step is a critical section or a send: the lock is released between    *)
(* the merge and the events it causes, and set() reads the clock before it *)
(* takes the lock, so other tasks run in between.                          *)
(***************************************************************************)
EXTENDS Lww, Sequences

CONSTANTS
  Self,     \* inner.node_id
  Task,     \* the tasks that call the store
  MaxTime,  \* bound: clock readings are 1 .. MaxTime
  MaxOps    \* bound: calls of set() and merge_delta() in a behaviour

ASSUME StoreAssumption ==
  /\ Self \in Node
  /\ MaxTime \in Nat /\ MaxOps \in Nat

VARIABLES
  clock,     \* what SystemTime::now() returns
  state,     \* the HashMap
  task,      \* task[t]: where t stands in set() or merge_delta(), None outside
  event_tx,  \* the StateEvents sent so far, in the order subscribers get them
  ops,       \* counter for the bound
  seen       \* history: <<key, entry>> for every entry that was ever in state

vars == <<clock, state, task, event_tx, ops, seen>>

StateEvent == [key : Key, value : LwwValue]

(***************************************************************************)
(* A task inside set(): "stamped" has incoming and waits for the lock,     *)
(* "set_send" holds the winner to send.  A task inside merge_delta():      *)
(* "read" still has updated_keys to look up, "merge_send" holds the value  *)
(* it read for the first of them.                                          *)
(***************************************************************************)
Stamped   == [pc : {"stamped"}, key : Key, value : LwwValue]
SetSends  == [pc : {"set_send"}, key : Key, value : LwwValue]
Reads     == [pc : {"read"}, updated : SUBSET Key]
MergeSends ==
  [pc : {"merge_send"}, key : Key, value : LwwValue, updated : SUBSET Key]

Calls == Stamped \cup SetSends \cup Reads \cup MergeSends

ASSUME NoneIsNoCall == None \notin Calls

At(t, pc) == task[t] # None /\ task[t].pc = pc

-----------------------------------------------------------------------------
(***************************************************************************)
(* SystemTime may be stepped to any value, back as well as forward.        *)
(***************************************************************************)
StepClock ==
  /\ \E c \in 1 .. MaxTime : c # clock /\ clock' = c
  /\ UNCHANGED <<state, task, event_tx, ops, seen>>

(***************************************************************************)
(* set: LwwValue::new, the critical section, the event.  The event is sent *)
(* whether or not the write won, with the winner read under the lock.      *)
(***************************************************************************)
SetStamp(t, k, v) ==
  /\ task[t] = None
  /\ ops < MaxOps
  /\ ops' = ops + 1
  /\ task' = [task EXCEPT ![t] =
       [pc |-> "stamped", key |-> k,
        value |-> [value |-> v, timestamp |-> clock, node_id |-> Self]]]
  /\ UNCHANGED <<clock, state, event_tx, seen>>

\* Faults to test the properties with: the event carries the entry before the
\* write; the event carries what was written, not what won.
SetMerge_OldEntry(t) ==
  /\ At(t, "stamped")
  /\ LET k == task[t].key IN
     /\ state' = set(state, k, task[t].value)
     /\ task' = [task EXCEPT ![t] =
          [pc |-> "set_send", key |-> k, value |-> state[k]]]
     /\ seen' = seen \cup {<<k, state'[k]>>}
  /\ UNCHANGED <<clock, event_tx, ops>>

SetMerge_Incoming(t) ==
  /\ At(t, "stamped")
  /\ LET k == task[t].key IN
     /\ state' = set(state, k, task[t].value)
     /\ task' = [task EXCEPT ![t].pc = "set_send"]
     /\ seen' = seen \cup {<<k, state'[k]>>}
  /\ UNCHANGED <<clock, event_tx, ops>>

SetMerge(t) ==
  /\ At(t, "stamped")
  /\ LET k == task[t].key IN
     /\ state' = set(state, k, task[t].value)
     /\ task' = [task EXCEPT ![t] =
          [pc |-> "set_send", key |-> k, value |-> state'[k]]]
     /\ seen' = seen \cup {<<k, state'[k]>>}
  /\ UNCHANGED <<clock, event_tx, ops>>

SetSend(t) ==
  /\ At(t, "set_send")
  /\ event_tx' = Append(event_tx, [key |-> task[t].key, value |-> task[t].value])
  /\ task' = [task EXCEPT ![t] = None]
  /\ UNCHANGED <<clock, state, ops, seen>>

(***************************************************************************)
(* merge_delta.  An entry arrives from its author, or comes back from a    *)
(* peer: it is one this store had before, or another node's, and no stamp  *)
(* comes with two values (Agreement in module Gossip).                     *)
(***************************************************************************)
CanArrive(k, e) ==
  \/ <<k, e>> \in seen
  \/ e.node_id # Self /\ \A s \in seen : s[1] = k => ~SameStamp(s[2], e)

MergeDelta(t, delta) ==
  LET updated == updated_keys(state, delta) IN
  /\ task[t] = None
  /\ ops < MaxOps
  /\ ops' = ops + 1
  /\ \A k \in Key : delta[k] # None => CanArrive(k, delta[k])
  /\ state' = merge_delta(state, delta)
  /\ task' = [task EXCEPT ![t] =
       IF updated = {} THEN None ELSE [pc |-> "read", updated |-> updated]]
  /\ seen' = seen \cup {<<k, state'[k]>> : k \in updated}
  /\ UNCHANGED <<clock, event_tx>>

(***************************************************************************)
(* After the lock is released merge_delta looks each updated key up again: *)
(* what it announces is what the store holds by then.  No key is ever      *)
(* removed, so the lookup finds something.                                 *)
(***************************************************************************)
MergeRead(t, k) ==
  /\ At(t, "read")
  /\ k \in task[t].updated
  /\ state[k] # None
  /\ task' = [task EXCEPT ![t] =
       [pc |-> "merge_send", key |-> k, value |-> state[k],
        updated |-> task[t].updated \ {k}]]
  /\ UNCHANGED <<clock, state, event_tx, ops, seen>>

MergeSend(t) ==
  /\ At(t, "merge_send")
  /\ event_tx' = Append(event_tx, [key |-> task[t].key, value |-> task[t].value])
  /\ task' = [task EXCEPT ![t] =
       IF task[t].updated = {} THEN None
       ELSE [pc |-> "read", updated |-> task[t].updated]]
  /\ UNCHANGED <<clock, state, ops, seen>>

-----------------------------------------------------------------------------
Init ==
  /\ clock = 1
  /\ state = EmptyMap
  /\ task = [t \in Task |-> None]
  /\ event_tx = <<>>
  /\ ops = 0
  /\ seen = {}

\* The steps a task takes once it is inside a call.
Proceed(t) ==
  \/ SetMerge(t)
  \/ SetSend(t)
  \/ \E k \in Key : MergeRead(t, k)
  \/ MergeSend(t)

Arrivals ==
  [Key -> {None} \cup [value : Value, timestamp : 1 .. MaxTime, node_id : Node]]

Next ==
  \/ StepClock
  \/ \E t \in Task :
       \/ \E k \in Key, v \in Value : SetStamp(t, k, v)
       \/ \E delta \in Arrivals : MergeDelta(t, delta)
       \/ Proceed(t)

Spec == Init /\ [][Next]_vars

-----------------------------------------------------------------------------
(***************************************************************************)
(* Properties                                                              *)
(***************************************************************************)

\* Every variable keeps its type; in particular a task never announces None.
TypeOK ==
  /\ clock \in Nat
  /\ state \in StateMap
  /\ task \in [Task -> Calls \cup {None}]
  /\ event_tx \in Seq(StateEvent)
  /\ ops \in Nat
  /\ seen \in SUBSET (Key \X LwwValue)

Sent(k, e) == \E i \in DOMAIN event_tx : event_tx[i] = [key |-> k, value |-> e]

\* Task t is about to announce the current entry of k: it carries it, or will
\* look it up.
Owes(t, k) ==
  \/ (At(t, "set_send") \/ At(t, "merge_send"))
       /\ task[t].key = k /\ task[t].value = state[k]
  \/ (At(t, "read") \/ At(t, "merge_send")) /\ k \in task[t].updated

\* However set() and merge_delta() interleave, the current entry of every key
\* has been broadcast or some task still owes the event: the lookup that
\* merge_delta makes after the unlock can lose an intermediate entry, never the
\* final one.
StateAnnounced ==
  \A k \in Key : state[k] # None => Sent(k, state[k]) \/ \E t \in Task : Owes(t, k)

\* An event never announces an entry the store did not hold, nor one that still
\* beats what the store holds: a subscriber that merges events is never ahead.
EventsWereState ==
  \A i \in DOMAIN event_tx :
    LET ev == event_tx[i] IN
    /\ <<ev.key, ev.value>> \in seen
    /\ Covers(state[ev.key], ev.value)

\* Whatever the store holds is announced in the end, exactly: not only something
\* older, and not only something the announcing task saw before it was replaced.
AnnouncedInTheEnd ==
  []<>(\A k \in Key : state[k] # None => Sent(k, state[k]))
=============================================================================
