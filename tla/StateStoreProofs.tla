-------------------------- MODULE StateStoreProofs --------------------------
(***************************************************************************)
(* Theorems about one node's store and the events it broadcasts, for every *)
(* number of tasks, keys and values and every clock.                       *)
(***************************************************************************)
EXTENDS StateStore, LwwProofs

LEMMA TaskTypes ==
  ASSUME TypeOK, NEW t \in Task
  PROVE  /\ At(t, "stamped") => task[t] \in Stamped
         /\ At(t, "set_send") => task[t] \in SetSends
         /\ At(t, "read") => task[t] \in Reads
         /\ At(t, "merge_send") => task[t] \in MergeSends
BY DEF At, TypeOK, Calls, Stamped, SetSends, Reads, MergeSends

LEMMA CallTypes ==
  ASSUME NEW k \in Key, NEW e \in LwwValue, NEW u \in SUBSET Key
  PROVE  /\ [pc |-> "stamped", key |-> k, value |-> e] \in Calls
         /\ [pc |-> "set_send", key |-> k, value |-> e] \in Calls
         /\ [pc |-> "read", updated |-> u] \in Calls
         /\ [pc |-> "merge_send", key |-> k, value |-> e, updated |-> u] \in Calls
BY DEF Calls, Stamped, SetSends, Reads, MergeSends

LEMMA CallsAreSome == \A c \in Calls : c # None
BY NoneIsNoCall

LEMMA SetMergeSlot ==
  ASSUME TypeOK, NEW t \in Task, SetMerge(t)
  PROVE  /\ task[t] \in Stamped /\ task[t].key \in Key /\ task[t].value \in LwwValue
         /\ state' \in StateMap
         /\ state'[task[t].key] = Winner(state[task[t].key], task[t].value)
         /\ state'[task[t].key] \in LwwValue
         /\ \A j \in Key : j # task[t].key => state'[j] = state[j]
         /\ task' = [task EXCEPT ![t] = [pc |-> "set_send", key |-> task[t].key,
                                         value |-> state'[task[t].key]]]
         /\ seen' = seen \cup {<<task[t].key, state'[task[t].key]>>}
         /\ UNCHANGED <<clock, event_tx, ops>>
<1>1. task[t] \in Stamped
  BY TaskTypes DEF SetMerge
<1>2. task[t].key \in Key /\ task[t].value \in LwwValue
  BY <1>1 DEF Stamped
<1>3. state' = set(state, task[t].key, task[t].value)
      /\ task' = [task EXCEPT ![t] = [pc |-> "set_send", key |-> task[t].key,
                                      value |-> state'[task[t].key]]]
      /\ seen' = seen \cup {<<task[t].key, state'[task[t].key]>>}
      /\ UNCHANGED <<clock, event_tx, ops>>
  BY DEF SetMerge
<1>4. state \in StateMap
  BY DEF TypeOK
<1>5. /\ state' \in StateMap
      /\ state'[task[t].key] = Winner(state[task[t].key], task[t].value)
      /\ \A j \in Key : j # task[t].key => state'[j] = state[j]
  BY <1>2, <1>3, <1>4, SetSlot
<1>6. state'[task[t].key] \in LwwValue
  BY <1>2, <1>4, <1>5, WinnerPicks DEF StateMap
<1> QED BY <1>1, <1>2, <1>3, <1>5, <1>6

LEMMA MergeDeltaStep ==
  ASSUME TypeOK, NEW t \in Task, NEW delta \in Arrivals, MergeDelta(t, delta)
  PROVE  /\ delta \in StateMap /\ state' \in StateMap
         /\ state' = merge_delta(state, delta)
         /\ updated_keys(state, delta) = {k \in Key : state'[k] # state[k]}
         /\ \A k \in Key : state'[k] # state[k] => state'[k] \in LwwValue
<1>1. delta \in StateMap
  BY DEF Arrivals, StateMap, Entry, LwwValue, StoreAssumption
<1>2. state \in StateMap /\ state' = merge_delta(state, delta)
  BY DEF TypeOK, MergeDelta
<1>3. state' \in StateMap
  BY <1>1, <1>2, MergeDeltaSlot DEF merge_delta, StateMap
<1>4. ASSUME NEW k \in Key, state'[k] # state[k]
      PROVE  state'[k] \in LwwValue
  <2>1. delta[k] # None /\ state'[k] = Winner(state[k], delta[k])
    BY <1>2, <1>4 DEF merge_delta
  <2>2. delta[k] \in LwwValue /\ state[k] \in Entry
    BY <1>1, <1>2, <2>1 DEF StateMap, Entry
  <2> QED BY <2>1, <2>2, WinnerPicks
<1> QED BY <1>1, <1>2, <1>3, <1>4 DEF updated_keys

\* The store, its tasks and its events keep their types; no event is None.
THEOREM StoreTypes == Spec => []TypeOK
<1>1. Init => TypeOK
  BY DEF Init, TypeOK, EmptyMap, StateMap, Entry
<1>2. TypeOK /\ [Next]_vars => TypeOK'
  <2> SUFFICES ASSUME TypeOK, [Next]_vars PROVE TypeOK'
    OBVIOUS
  <2>1. CASE StepClock
    <3>1. clock' \in Nat
      BY <2>1, StoreAssumption DEF StepClock
    <3> QED BY <2>1, <3>1 DEF StepClock, TypeOK
  <2>2. ASSUME NEW t \in Task, NEW k \in Key, NEW v \in Value, SetStamp(t, k, v)
        PROVE  TypeOK'
    <3>1. [value |-> v, timestamp |-> clock, node_id |-> Self] \in LwwValue
      BY StoreAssumption DEF LwwValue, TypeOK
    <3>2. task' \in [Task -> Calls \cup {None}]
      BY <2>2, <3>1, CallTypes DEF SetStamp, TypeOK
    <3> QED BY <2>2, <3>2 DEF SetStamp, TypeOK
  <2>3. ASSUME NEW t \in Task, NEW delta \in Arrivals, MergeDelta(t, delta)
        PROVE  TypeOK'
    <3> DEFINE u == updated_keys(state, delta)
    <3>1. /\ state' \in StateMap /\ u \in SUBSET Key
          /\ \A k \in u : state'[k] \in LwwValue
      BY <2>3, MergeDeltaStep
    <3>2. /\ task' = [task EXCEPT ![t] =
               IF u = {} THEN None ELSE [pc |-> "read", updated |-> u]]
          /\ seen' = seen \cup {<<k, state'[k]>> : k \in u}
          /\ UNCHANGED <<clock, event_tx>> /\ ops' = ops + 1
      BY <2>3 DEF MergeDelta
    <3> HIDE DEF u
    <3>3. [pc |-> "read", updated |-> u] \in Calls
      BY <3>1 DEF Calls, Reads
    <3>4. task' \in [Task -> Calls \cup {None}]
      BY <3>2, <3>3 DEF TypeOK
    <3>5. seen' \in SUBSET (Key \X LwwValue)
      BY <3>1, <3>2 DEF TypeOK
    <3> QED BY <3>1, <3>2, <3>4, <3>5 DEF TypeOK
  <2>4. ASSUME NEW t \in Task, SetMerge(t)
        PROVE  TypeOK'
    <3>0. [pc |-> "set_send", key |-> task[t].key, value |-> state'[task[t].key]]
            \in Calls
      BY <2>4, SetMergeSlot DEF Calls, SetSends
    <3>1. task' \in [Task -> Calls \cup {None}]
      BY <2>4, <3>0, SetMergeSlot DEF TypeOK
    <3> QED BY <2>4, <3>1, SetMergeSlot DEF TypeOK
  <2>5. ASSUME NEW t \in Task, SetSend(t)
        PROVE  TypeOK'
    <3>1. [key |-> task[t].key, value |-> task[t].value] \in StateEvent
      BY <2>5, TaskTypes DEF SetSend, SetSends, StateEvent
    <3>2. task' \in [Task -> Calls \cup {None}]
      BY <2>5 DEF SetSend, TypeOK
    <3>3. event_tx' \in Seq(StateEvent)
      BY <2>5, <3>1 DEF SetSend, TypeOK
    <3> QED BY <2>5, <3>2, <3>3 DEF SetSend, TypeOK
  <2>6. ASSUME NEW t \in Task, NEW k \in Key, MergeRead(t, k)
        PROVE  TypeOK'
    <3>1. state[k] \in LwwValue
      BY <2>6 DEF MergeRead, TypeOK, StateMap, Entry
    <3>2. task[t].updated \ {k} \in SUBSET Key
      BY <2>6, TaskTypes DEF MergeRead, Reads
    <3>3. task' \in [Task -> Calls \cup {None}]
      BY <2>6, <3>1, <3>2, CallTypes DEF MergeRead, TypeOK
    <3> QED BY <2>6, <3>3 DEF MergeRead, TypeOK
  <2>7. ASSUME NEW t \in Task, MergeSend(t)
        PROVE  TypeOK'
    <3>1. task[t] \in MergeSends
      BY <2>7, TaskTypes DEF MergeSend
    <3>2. /\ [key |-> task[t].key, value |-> task[t].value] \in StateEvent
          /\ [pc |-> "read", updated |-> task[t].updated] \in Calls
      BY <3>1 DEF MergeSends, StateEvent, Calls, Reads
    <3>3. task' \in [Task -> Calls \cup {None}]
      BY <2>7, <3>2 DEF MergeSend, TypeOK
    <3>4. event_tx' \in Seq(StateEvent)
      BY <2>7, <3>2 DEF MergeSend, TypeOK
    <3> QED BY <2>7, <3>3, <3>4 DEF MergeSend, TypeOK
  <2>8. CASE UNCHANGED vars
    BY <2>8 DEF vars, TypeOK
  <2> QED BY <2>1, <2>2, <2>3, <2>4, <2>5, <2>6, <2>7, <2>8 DEF Next, Proceed
<1> QED BY <1>1, <1>2, PTL DEF Spec

-----------------------------------------------------------------------------
(***************************************************************************)
(* What is announced was state.                                            *)
(***************************************************************************)
Carries(t) == At(t, "set_send") \/ At(t, "merge_send")

Announceable(k, e) == <<k, e>> \in seen /\ Covers(state[k], e)

EventsInv ==
  /\ \A k \in Key : state[k] # None => <<k, state[k]>> \in seen
  /\ \A t \in Task : Carries(t) => Announceable(task[t].key, task[t].value)
  /\ \A i \in DOMAIN event_tx : Announceable(event_tx[i].key, event_tx[i].value)

\* The map only moves forward, and seen keeps up with it.
LEMMA StateStep ==
  ASSUME TypeOK, [Next]_vars, \A j \in Key : state[j] # None => <<j, state[j]>> \in seen,
         NEW k \in Key
  PROVE  /\ state[k] \in Entry /\ state'[k] \in Entry
         /\ Covers(state'[k], state[k])
         /\ seen \subseteq seen'
         /\ state'[k] # None => <<k, state'[k]>> \in seen'
<1>0. state \in StateMap /\ state[k] \in Entry
  BY DEF TypeOK, StateMap
<1>1. ASSUME NEW t \in Task, SetMerge(t)
      PROVE  /\ state'[k] \in Entry
             /\ Covers(state'[k], state[k])
             /\ seen \subseteq seen'
             /\ state'[k] # None => <<k, state'[k]>> \in seen'
  <2>1. CASE k = task[t].key
    BY <1>0, <1>1, <2>1, SetMergeSlot, WinnerCovers DEF Entry
  <2>2. CASE k # task[t].key
    BY <1>0, <1>1, <2>2, SetMergeSlot, CoversIsOrder
  <2> QED BY <2>1, <2>2
<1>2. ASSUME NEW t \in Task, NEW delta \in Arrivals, MergeDelta(t, delta)
      PROVE  /\ state'[k] \in Entry
             /\ Covers(state'[k], state[k])
             /\ seen \subseteq seen'
             /\ state'[k] # None => <<k, state'[k]>> \in seen'
  <2>1. seen' = seen \cup {<<j, state'[j]>> : j \in updated_keys(state, delta)}
    BY <1>2 DEF MergeDelta
  <2>2. state'[k] # None => <<k, state'[k]>> \in seen'
    BY <1>2, <2>1, MergeDeltaStep
  <2>3. Covers(state'[k], state[k]) /\ state'[k] \in Entry
    BY <1>0, <1>2, MergeDeltaStep, MergeDeltaSlot
  <2> QED BY <2>1, <2>2, <2>3
<1>3. CASE UNCHANGED <<state, seen>>
  BY <1>0, <1>3, CoversIsOrder
<1>4. \/ UNCHANGED <<state, seen>>
      \/ \E t \in Task : SetMerge(t)
      \/ \E t \in Task, delta \in Arrivals : MergeDelta(t, delta)
  BY DEF Next, Proceed, StepClock, SetStamp, SetSend, MergeRead, MergeSend, vars
<1> QED BY <1>0, <1>1, <1>2, <1>3, <1>4

LEMMA AnnounceableKept ==
  ASSUME TypeOK, [Next]_vars, \A j \in Key : state[j] # None => <<j, state[j]>> \in seen,
         NEW k \in Key, NEW e \in LwwValue, Announceable(k, e)
  PROVE  <<k, e>> \in seen' /\ Covers(state'[k], e)
<1>1. e \in Entry
  BY DEF Entry
<1> QED BY <1>1, StateStep, CoversIsOrder DEF Announceable

\* What one step does to the task that takes it and to the channel.
LEMMA TaskStep ==
  ASSUME TypeOK, [Next]_vars, NEW s \in Task, Carries(s)'
  PROVE  \/ task'[s] = task[s]
         \/ /\ task'[s].key \in Key
            /\ task'[s].value = state'[task'[s].key]
            /\ task'[s].value # None
<1>1. ASSUME NEW t \in Task, SetMerge(t), t = s
      PROVE  /\ task'[s].key \in Key
             /\ task'[s].value = state'[task'[s].key]
             /\ task'[s].value # None
  <2>1. task'[s] = [pc |-> "set_send", key |-> task[t].key, value |-> state'[task[t].key]]
    BY <1>1, SetMergeSlot DEF TypeOK
  <2> QED BY <1>1, <2>1, SetMergeSlot, NoneAssumption
<1>2. ASSUME NEW t \in Task, NEW k \in Key, MergeRead(t, k), t = s
      PROVE  /\ task'[s].key \in Key
             /\ task'[s].value = state'[task'[s].key]
             /\ task'[s].value # None
  <2>1. task'[s] = [pc |-> "merge_send", key |-> k, value |-> state[k],
                    updated |-> task[t].updated \ {k}]
    BY <1>2 DEF MergeRead, TypeOK
  <2>2. state' = state /\ state[k] # None
    BY <1>2 DEF MergeRead
  <2> QED BY <2>1, <2>2
<1>3. ASSUME NEW t \in Task, t = s,
             \/ SetSend(t) \/ MergeSend(t)
             \/ \E k \in Key, v \in Value : SetStamp(t, k, v)
             \/ \E delta \in Arrivals : MergeDelta(t, delta)
      PROVE  FALSE
  <2>1. task'[s] = None \/ task'[s].pc \in {"stamped", "read"}
    BY <1>3 DEF SetSend, MergeSend, SetStamp, MergeDelta, TypeOK
  <2> QED BY <2>1 DEF Carries, At
<1>4. ASSUME NEW t \in Task, t # s,
             \/ SetMerge(t) \/ SetSend(t) \/ MergeSend(t)
             \/ \E k \in Key : MergeRead(t, k)
             \/ \E k \in Key, v \in Value : SetStamp(t, k, v)
             \/ \E delta \in Arrivals : MergeDelta(t, delta)
      PROVE  task'[s] = task[s]
  BY <1>4 DEF SetMerge, SetSend, MergeSend, MergeRead, SetStamp, MergeDelta, TypeOK
<1>5. CASE StepClock \/ UNCHANGED vars
  BY <1>5 DEF StepClock, vars
<1> QED BY <1>1, <1>2, <1>3, <1>4, <1>5 DEF Next, Proceed

LEMMA ChannelStep ==
  ASSUME TypeOK, [Next]_vars
  PROVE  \/ event_tx' = event_tx
         \/ \E t \in Task :
              /\ SetSend(t) \/ MergeSend(t)
              /\ Carries(t) /\ task[t].key \in Key /\ task[t].value \in LwwValue
              /\ [key |-> task[t].key, value |-> task[t].value] \in StateEvent
              /\ event_tx' = Append(event_tx, [key |-> task[t].key, value |-> task[t].value])
              /\ state' = state
<1>1. ASSUME NEW t \in Task, SetSend(t) \/ MergeSend(t)
      PROVE  /\ Carries(t) /\ task[t].key \in Key /\ task[t].value \in LwwValue
             /\ [key |-> task[t].key, value |-> task[t].value] \in StateEvent
             /\ event_tx' = Append(event_tx, [key |-> task[t].key, value |-> task[t].value])
             /\ state' = state
  <2>1. Carries(t)
    BY <1>1 DEF SetSend, MergeSend, Carries
  <2>2. task[t].key \in Key /\ task[t].value \in LwwValue
    BY <2>1, TaskTypes DEF Carries, SetSends, MergeSends
  <2> QED BY <1>1, <2>1, <2>2 DEF SetSend, MergeSend, StateEvent
<1>2. \/ event_tx' = event_tx
      \/ \E t \in Task : SetSend(t) \/ MergeSend(t)
  BY DEF Next, Proceed, StepClock, SetStamp, SetMerge, MergeDelta, MergeRead, vars
<1> QED BY <1>1, <1>2

LEMMA EventsKept ==
  ASSUME TypeOK, TypeOK', EventsInv, [Next]_vars
  PROVE  EventsInv'
<1>0. \A j \in Key : state[j] # None => <<j, state[j]>> \in seen
  BY DEF EventsInv
<1>1. ASSUME NEW k \in Key, state'[k] # None
      PROVE  <<k, state'[k]>> \in seen'
  BY <1>0, <1>1, StateStep
<1>2. ASSUME NEW t \in Task, Carries(t)'
      PROVE  <<task'[t].key, task'[t].value>> \in seen'
             /\ Covers(state'[task'[t].key], task'[t].value)
  <2>1. CASE task'[t] = task[t]
    <3>1. Carries(t)
      BY <1>2, <2>1 DEF Carries, At
    <3>2. task[t].key \in Key /\ task[t].value \in LwwValue
      BY <3>1, TaskTypes DEF Carries, SetSends, MergeSends
    <3> QED BY <1>0, <2>1, <3>1, <3>2, AnnounceableKept DEF EventsInv
  <2>2. CASE /\ task'[t].key \in Key
             /\ task'[t].value = state'[task'[t].key]
             /\ task'[t].value # None
    <3>1. state'[task'[t].key] \in Entry
      BY <2>2 DEF TypeOK, StateMap
    <3> QED BY <1>1, <2>2, <3>1, CoversIsOrder
  <2> QED BY <1>2, <2>1, <2>2, TaskStep
<1>3. ASSUME NEW i \in DOMAIN event_tx'
      PROVE  <<event_tx'[i].key, event_tx'[i].value>> \in seen'
             /\ Covers(state'[event_tx'[i].key], event_tx'[i].value)
  <2>1. ASSUME i \in DOMAIN event_tx, event_tx'[i] = event_tx[i]
        PROVE  <<event_tx'[i].key, event_tx'[i].value>> \in seen'
               /\ Covers(state'[event_tx'[i].key], event_tx'[i].value)
    <3>1. event_tx[i] \in StateEvent
      BY <2>1 DEF TypeOK
    <3>2. event_tx[i].key \in Key /\ event_tx[i].value \in LwwValue
      BY <3>1 DEF StateEvent
    <3> QED BY <1>0, <2>1, <3>2, AnnounceableKept DEF EventsInv
  <2>2. CASE event_tx' = event_tx
    BY <1>3, <2>1, <2>2
  <2>3. ASSUME NEW t \in Task, Carries(t), task[t].key \in Key, task[t].value \in LwwValue,
               [key |-> task[t].key, value |-> task[t].value] \in StateEvent,
               event_tx' = Append(event_tx, [key |-> task[t].key, value |-> task[t].value])
        PROVE  <<event_tx'[i].key, event_tx'[i].value>> \in seen'
               /\ Covers(state'[event_tx'[i].key], event_tx'[i].value)
    <3>1. \/ i \in DOMAIN event_tx /\ event_tx'[i] = event_tx[i]
          \/ event_tx'[i] = [key |-> task[t].key, value |-> task[t].value]
      BY <1>3, <2>3 DEF TypeOK
    <3>2. CASE event_tx'[i] = [key |-> task[t].key, value |-> task[t].value]
      BY <1>0, <2>3, <3>2, AnnounceableKept DEF EventsInv
    <3> QED BY <2>1, <3>1, <3>2
  <2> QED BY <2>2, <2>3, ChannelStep
<1> QED BY <1>1, <1>2, <1>3 DEF EventsInv, Announceable

LEMMA EventsInvariant == Spec => []EventsInv
<1>1. Init => EventsInv
  BY NoneAssumption DEF Init, EventsInv, EmptyMap, Carries, At
<1>2. TypeOK /\ TypeOK' /\ EventsInv /\ [Next]_vars => EventsInv'
  BY EventsKept
<1> QED BY <1>1, <1>2, StoreTypes, PTL DEF Spec

\* An event announces an entry the store held, and never one that would still
\* win against the store (set and merge_delta send after the unlock).
THEOREM EventsWereInState == Spec => []EventsWereState
<1>1. EventsInv => EventsWereState
  BY DEF EventsInv, EventsWereState, Announceable
<1> QED BY <1>1, EventsInvariant, PTL

-----------------------------------------------------------------------------
(***************************************************************************)
(* What is state is announced.  StateAnnounced is inductive: whoever makes *)
(* an entry current owes it, and pays by sending it or by finding that a   *)
(* later entry has taken its place, which someone else owes.               *)
(***************************************************************************)
LEMMA SentKept ==
  ASSUME TypeOK, TypeOK', [Next]_vars, NEW k \in Key, NEW e \in LwwValue, Sent(k, e)
  PROVE  Sent(k, e)'
<1>1. PICK i \in DOMAIN event_tx : event_tx[i] = [key |-> k, value |-> e]
  BY DEF Sent
<1>2. i \in DOMAIN event_tx' /\ event_tx'[i] = event_tx[i]
  <2>1. CASE event_tx' = event_tx
    BY <2>1
  <2>2. ASSUME NEW ev \in StateEvent, event_tx' = Append(event_tx, ev)
        PROVE  i \in DOMAIN event_tx' /\ event_tx'[i] = event_tx[i]
    BY <2>2 DEF TypeOK
  <2> QED BY <2>1, <2>2, ChannelStep
<1> QED BY <1>1, <1>2 DEF Sent

\* A task that made the new entry of k current owes it.
LEMMA ChangeIsOwed ==
  ASSUME TypeOK, [Next]_vars, NEW k \in Key, state'[k] # state[k]
  PROVE  \E t \in Task : Owes(t, k)'
<1>1. ASSUME NEW t \in Task, SetMerge(t)
      PROVE  Owes(t, k)'
  <2>1. k = task[t].key
    BY <1>1, SetMergeSlot
  <2>2. task'[t] = [pc |-> "set_send", key |-> k, value |-> state'[k]]
    BY <1>1, <2>1, SetMergeSlot DEF TypeOK
  <2>3. [pc |-> "set_send", key |-> k, value |-> state'[k]] \in Calls
    BY <1>1, <2>1, SetMergeSlot DEF Calls, SetSends
  <2>4. task'[t] # None
    BY <2>2, <2>3, CallsAreSome
  <2> QED BY <2>2, <2>4 DEF Owes, At
<1>2. ASSUME NEW t \in Task, NEW delta \in Arrivals, MergeDelta(t, delta)
      PROVE  Owes(t, k)'
  <2> DEFINE u == updated_keys(state, delta)
  <2>1. k \in u /\ u \subseteq Key
    BY <1>2, MergeDeltaStep
  <2>2. task' = [task EXCEPT ![t] =
                   IF u = {} THEN None ELSE [pc |-> "read", updated |-> u]]
    BY <1>2 DEF MergeDelta
  <2> HIDE DEF u
  <2>3. task'[t] = [pc |-> "read", updated |-> u]
    BY <2>1, <2>2 DEF TypeOK
  <2>4. [pc |-> "read", updated |-> u] \in Calls
    BY <2>1 DEF Calls, Reads
  <2>5. task'[t] # None
    BY <2>3, <2>4, CallsAreSome
  <2> QED BY <2>1, <2>3, <2>5 DEF Owes, At
<1>3. \/ \E t \in Task : SetMerge(t)
      \/ \E t \in Task, delta \in Arrivals : MergeDelta(t, delta)
  BY DEF Next, Proceed, StepClock, SetStamp, SetSend, MergeRead, MergeSend, vars
<1> QED BY <1>1, <1>2, <1>3

\* A debt stays or is paid, by the newest event.
LEMMA DebtKept ==
  ASSUME TypeOK, TypeOK', [Next]_vars, NEW k \in Key, state'[k] = state[k],
         NEW t \in Task, Owes(t, k)
  PROVE  \/ Owes(t, k)'
         \/ event_tx' = Append(event_tx, [key |-> k, value |-> state'[k]])
<1>1. CASE task'[t] = task[t]
  BY <1>1 DEF Owes, At
<1>2. CASE SetSend(t)
  <2>1. task[t].key = k /\ task[t].value = state[k]
    BY <1>2 DEF SetSend, Owes, At
  <2>2. event_tx' = Append(event_tx, [key |-> k, value |-> state[k]])
    BY <1>2, <2>1 DEF SetSend
  <2> QED BY <2>2
<1>3. ASSUME NEW j \in Key, MergeRead(t, j)
      PROVE  Owes(t, k)'
  <2>1. task'[t] = [pc |-> "merge_send", key |-> j, value |-> state[j],
                    updated |-> task[t].updated \ {j}]
        /\ state' = state
    BY <1>3 DEF MergeRead, TypeOK
  <2>2. k \in task[t].updated /\ task[t].updated \in SUBSET Key
    BY <1>3, TaskTypes DEF MergeRead, Owes, At, Reads
  <2>3. state[j] \in LwwValue
    BY <1>3 DEF MergeRead, TypeOK, StateMap, Entry
  <2>4. [pc |-> "merge_send", key |-> j, value |-> state[j],
         updated |-> task[t].updated \ {j}] \in Calls
    BY <2>2, <2>3 DEF Calls, MergeSends
  <2>5. task'[t] # None
    BY <2>1, <2>4, CallsAreSome
  <2>6. CASE j = k
    BY <2>1, <2>5, <2>6 DEF Owes, At
  <2>7. CASE j # k
    BY <2>1, <2>2, <2>5, <2>7 DEF Owes, At
  <2> QED BY <2>6, <2>7
<1>4. CASE MergeSend(t)
  <2>0. task[t] \in MergeSends
    BY <1>4, TaskTypes DEF MergeSend
  <2>1. CASE k \in task[t].updated
    <3>1. task'[t] = [pc |-> "read", updated |-> task[t].updated]
      BY <1>4, <2>1 DEF MergeSend, TypeOK
    <3>2. [pc |-> "read", updated |-> task[t].updated] \in Calls
      BY <2>0 DEF MergeSends, Calls, Reads
    <3>3. task'[t] # None
      BY <3>1, <3>2, CallsAreSome
    <3> QED BY <2>1, <3>1, <3>3 DEF Owes, At
  <2>2. CASE k \notin task[t].updated
    <3>1. task[t].key = k /\ task[t].value = state[k]
      BY <2>2 DEF Owes
    <3>2. event_tx' = Append(event_tx, [key |-> k, value |-> state[k]])
      BY <1>4, <3>1 DEF MergeSend
    <3> QED BY <3>2
  <2> QED BY <2>1, <2>2
<1>5. ASSUME \/ SetMerge(t)
             \/ \E j \in Key, v \in Value : SetStamp(t, j, v)
             \/ \E delta \in Arrivals : MergeDelta(t, delta)
      PROVE  FALSE
  BY <1>5 DEF SetMerge, SetStamp, MergeDelta, Owes, At
<1>6. ASSUME NEW s \in Task, s # t,
             \/ SetMerge(s) \/ SetSend(s) \/ MergeSend(s)
             \/ \E j \in Key : MergeRead(s, j)
             \/ \E j \in Key, v \in Value : SetStamp(s, j, v)
             \/ \E delta \in Arrivals : MergeDelta(s, delta)
      PROVE  task'[t] = task[t]
  BY <1>6 DEF SetMerge, SetSend, MergeSend, MergeRead, SetStamp, MergeDelta, TypeOK
<1>7. CASE StepClock \/ UNCHANGED vars
  BY <1>1, <1>7 DEF StepClock, vars
<1> QED BY <1>1, <1>2, <1>3, <1>4, <1>5, <1>6, <1>7 DEF Next, Proceed

\* The current entry of every key has been broadcast or is still owed by a task
\* inside set or merge_delta, although the events are sent after the unlock.
THEOREM CurrentStateIsAnnounced == Spec => []StateAnnounced
<1>1. Init => StateAnnounced
  BY DEF Init, StateAnnounced, EmptyMap
<1>2. TypeOK /\ TypeOK' /\ StateAnnounced /\ [Next]_vars => StateAnnounced'
  <2> SUFFICES ASSUME TypeOK, TypeOK', StateAnnounced, [Next]_vars, NEW k \in Key,
                      state'[k] # None
               PROVE  Sent(k, state[k])' \/ \E t \in Task : Owes(t, k)'
    BY DEF StateAnnounced
  <2>1. CASE state'[k] # state[k]
    BY <2>1, ChangeIsOwed
  <2>2. CASE state'[k] = state[k]
    <3>1. state[k] \in LwwValue
      BY <2>2 DEF TypeOK, StateMap, Entry
    <3>2. CASE Sent(k, state[k])
      BY <2>2, <3>1, <3>2, SentKept DEF Sent
    <3>3. ASSUME NEW t \in Task, Owes(t, k)
          PROVE  Owes(t, k)' \/ Sent(k, state[k])'
      <4>1. CASE event_tx' = Append(event_tx, [key |-> k, value |-> state'[k]])
        <5>1. event_tx'[Len(event_tx) + 1] = [key |-> k, value |-> state'[k]]
              /\ Len(event_tx) + 1 \in DOMAIN event_tx'
          BY <4>1 DEF TypeOK
        <5> QED BY <5>1 DEF Sent
      <4> QED BY <2>2, <3>3, <4>1, DebtKept
    <3> QED BY <2>2, <3>2, <3>3 DEF StateAnnounced
  <2> QED BY <2>1, <2>2
<1> QED BY <1>1, <1>2, StoreTypes, PTL DEF Spec
=============================================================================
