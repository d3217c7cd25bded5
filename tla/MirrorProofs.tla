---------------------------- MODULE MirrorProofs ----------------------------
(***************************************************************************)
(* Theorems about a client that copies the store from events and           *)
(* sync.delta, for every number of tasks and keys, every capacity of the   *)
(* channel and every clock.                                                *)
(***************************************************************************)
EXTENDS SyncStatus, StateStoreProofs, FiniteSetTheorems

(***************************************************************************)
(* The client's steps are stuttering steps of the store.                   *)
(***************************************************************************)
LEMMA MirrorSteps ==
  ASSUME [MirrorNext]_mvars
  PROVE  \/ [Next]_vars /\ UNCHANGED client
         \/ Subscribe \/ ForwardEvent \/ ForwardLag \/ SyncDelta \/ TakeReply
BY DEF MirrorNext, Serve, mvars

\* Whatever its clients do, a store that is mirrored behaves as a store: what is
\* proved of StateStore's Spec holds beside any client.
THEOREM MirroredStoreIsStore == MirrorSpec => Spec
<1>1. MirrorInit => Init
  BY DEF MirrorInit
<1>2. [MirrorNext]_mvars => [Next]_vars
  <2> SUFFICES ASSUME [MirrorNext]_mvars PROVE [Next]_vars
    OBVIOUS
  <2> QED BY MirrorSteps DEF Subscribe, ForwardEvent, ForwardLag, SyncDelta, TakeReply
<1> QED BY <1>1, <1>2, PTL DEF MirrorSpec, Spec

-----------------------------------------------------------------------------
(***************************************************************************)
(* What the copy relies on in the store.  An entry is only replaced by one *)
(* with a higher stamp, so a stamp that a key has had never comes back     *)
(* with another value, even when the clock is stepped back onto it; and no *)
(* entry has timestamp 0, so sync.delta since 0 returns everything.        *)
(***************************************************************************)
OneEntryPerStamp ==
  \A r, s \in seen : r[1] = s[1] /\ SameStamp(r[2], s[2]) => r[2] = s[2]

Time == 1 .. MaxTime + 1

StampsInRange ==
  /\ clock \in Time
  /\ \A t \in Task : At(t, "stamped") => task[t].value.timestamp \in Time
  /\ \A k \in Key : state[k] # None => state[k].timestamp \in Time

StoreInv ==
  /\ TypeOK /\ EventsInv
  /\ ReadsNeverGoBack
  /\ OneEntryPerStamp
  /\ StampsInRange

\* A slot changes only for a higher stamp, and seen grows only by such changes.
LEMMA SeenStep ==
  ASSUME TypeOK, TypeOK', EventsInv, [Next]_vars
  PROVE  /\ \A k \in Key : state'[k] # state[k] => ~Covers(state[k], state'[k])
         /\ \A s \in seen' : \/ s \in seen
                             \/ /\ s[1] \in Key /\ s[2] = state'[s[1]]
                                /\ state'[s[1]] # state[s[1]]
<1>0. state \in StateMap /\ \A k \in Key : state[k] \in Entry
  BY DEF TypeOK, StateMap
<1>1. ASSUME NEW t \in Task, SetMerge(t)
      PROVE  /\ \A k \in Key : state'[k] # state[k] => ~Covers(state[k], state'[k])
             /\ \A s \in seen' : \/ s \in seen
                                 \/ /\ s[1] \in Key /\ s[2] = state'[s[1]]
                                    /\ state'[s[1]] # state[s[1]]
  <2> DEFINE key == task[t].key
  <2>1. /\ key \in Key /\ task[t].value \in LwwValue
        /\ state'[key] = Winner(state[key], task[t].value)
        /\ state'[key] \in LwwValue
        /\ \A j \in Key : j # key => state'[j] = state[j]
        /\ seen' = seen \cup {<<key, state'[key]>>}
    BY <1>1, SetMergeSlot
  <2> HIDE DEF key
  <2>2. state'[key] # state[key] => ~Covers(state[key], state'[key])
    BY <1>0, <2>1, WinnerCovers
  <2>3. state'[key] = state[key] => <<key, state'[key]>> \in seen
    BY <2>1, NoneAssumption DEF EventsInv
  <2> QED BY <2>1, <2>2, <2>3
<1>2. ASSUME NEW t \in Task, NEW delta \in Arrivals, MergeDelta(t, delta)
      PROVE  /\ \A k \in Key : state'[k] # state[k] => ~Covers(state[k], state'[k])
             /\ \A s \in seen' : \/ s \in seen
                                 \/ /\ s[1] \in Key /\ s[2] = state'[s[1]]
                                    /\ state'[s[1]] # state[s[1]]
  <2>1. /\ delta \in StateMap /\ state' = merge_delta(state, delta)
        /\ updated_keys(state, delta) = {k \in Key : state'[k] # state[k]}
    BY <1>2, MergeDeltaStep
  <2>2. seen' = seen \cup {<<k, state'[k]>> : k \in updated_keys(state, delta)}
    BY <1>2 DEF MergeDelta
  <2>3. \A k \in Key : state'[k] # state[k] => ~Covers(state[k], state'[k])
    BY <1>0, <2>1, MergeDeltaSlot
  <2> QED BY <2>1, <2>2, <2>3
<1>3. \/ UNCHANGED <<state, seen>>
      \/ \E t \in Task : SetMerge(t)
      \/ \E t \in Task, delta \in Arrivals : MergeDelta(t, delta)
  BY DEF Next, Proceed, StepClock, SetStamp, SetSend, MergeRead, MergeSend, vars
<1> QED BY <1>1, <1>2, <1>3

LEMMA ReadsKept ==
  ASSUME TypeOK, TypeOK', EventsInv, ReadsNeverGoBack, [Next]_vars
  PROVE  ReadsNeverGoBack'
<1> SUFFICES ASSUME NEW s \in seen' PROVE Covers(state'[s[1]], s[2])
  BY DEF ReadsNeverGoBack, state_get
<1>0. s[1] \in Key /\ s[2] \in LwwValue /\ s[2] \in Entry
  BY DEF TypeOK, Entry
<1>1. state[s[1]] \in Entry /\ state'[s[1]] \in Entry /\ Covers(state'[s[1]], state[s[1]])
  BY <1>0, StateStep DEF EventsInv
<1>2. CASE s \in seen
  BY <1>0, <1>1, <1>2, CoversIsOrder DEF ReadsNeverGoBack, state_get
<1>3. CASE s[2] = state'[s[1]]
  BY <1>0, <1>1, <1>3, CoversIsOrder
<1> QED BY <1>2, <1>3, SeenStep

LEMMA OneEntryKept ==
  ASSUME TypeOK, TypeOK', EventsInv, ReadsNeverGoBack, OneEntryPerStamp, [Next]_vars
  PROVE  OneEntryPerStamp'
<1>1. ASSUME NEW r \in seen, NEW k \in Key, r[1] = k, state'[k] # state[k],
             state'[k] \in LwwValue
      PROVE  ~SameStamp(r[2], state'[k]) /\ ~SameStamp(state'[k], r[2])
  <2>1. r[2] \in LwwValue /\ state[k] \in Entry
    BY DEF TypeOK, StateMap
  <2>2. Covers(state[k], r[2]) /\ r[2] # None
    BY <1>1, <2>1, NoneAssumption DEF ReadsNeverGoBack, state_get
  <2>3. state[k] \in LwwValue
    BY <2>1, <2>2 DEF Covers, Entry
  <2>4. ~Covers(state[k], state'[k]) /\ Covers(state'[k], state[k])
    BY <1>1, SeenStep, StateStep DEF EventsInv
  <2>5. StampLess(state[k], state'[k])
    BY <1>1, <2>3, <2>4, NoneAssumption DEF Covers
  <2>6. r[2] = state[k] \/ StampLess(r[2], state[k])
    BY <2>2 DEF Covers
  <2>7. StampLess(r[2], state'[k])
    BY <1>1, <2>1, <2>3, <2>5, <2>6, StampOrder
  <2> QED BY <1>1, <2>1, <2>7, StampOrder DEF SameStamp
<1>2. ASSUME NEW r \in seen', NEW s \in seen', r[1] = s[1], SameStamp(r[2], s[2])
      PROVE  r[2] = s[2]
  <2>1. r[1] \in Key /\ r[2] \in LwwValue /\ s[2] \in LwwValue
    BY DEF TypeOK
  <2>2. CASE r \in seen /\ s \in seen
    BY <1>2, <2>2 DEF OneEntryPerStamp
  <2>3. CASE r \in seen /\ s[2] = state'[s[1]] /\ state'[s[1]] # state[s[1]]
    BY <1>1, <1>2, <2>1, <2>3
  <2>4. CASE s \in seen /\ r[2] = state'[r[1]] /\ state'[r[1]] # state[r[1]]
    BY <1>1, <1>2, <2>1, <2>4
  <2>5. CASE r[2] = state'[r[1]] /\ s[2] = state'[s[1]]
    BY <1>2, <2>5
  <2> QED BY <2>2, <2>3, <2>4, <2>5, SeenStep
<1> QED BY <1>2 DEF OneEntryPerStamp

LEMMA StampsKept ==
  ASSUME TypeOK, TypeOK', StampsInRange, [Next]_vars
  PROVE  StampsInRange'
<1>0. MaxTime \in Nat /\ 1 .. MaxTime \subseteq Time
  BY StoreAssumption DEF Time
<1>1. clock' \in Time
  BY <1>0 DEF StampsInRange, Next, Proceed, StepClock, SetStamp, SetMerge, SetSend, MergeDelta,
     MergeRead, MergeSend, vars
<1>2. ASSUME NEW t \in Task, At(t, "stamped")'
      PROVE  task'[t].value.timestamp \in Time
  <2>1. CASE task'[t] = task[t]
    BY <1>2, <2>1 DEF At, StampsInRange
  <2>2. ASSUME NEW k \in Key, NEW v \in Value, SetStamp(t, k, v)
        PROVE  task'[t].value.timestamp \in Time
    BY <2>2 DEF SetStamp, TypeOK, StampsInRange
  <2>3. ASSUME \/ SetMerge(t) \/ SetSend(t) \/ MergeSend(t)
               \/ \E k \in Key : MergeRead(t, k)
               \/ \E delta \in Arrivals : MergeDelta(t, delta)
        PROVE  FALSE
    <3>1. task'[t] = None \/ task'[t].pc \in {"set_send", "merge_send", "read"}
      BY <2>3 DEF SetMerge, SetSend, MergeSend, MergeRead, MergeDelta, TypeOK
    <3> QED BY <1>2, <3>1 DEF At
  <2>4. ASSUME NEW s \in Task, s # t,
               \/ SetMerge(s) \/ SetSend(s) \/ MergeSend(s)
               \/ \E k \in Key : MergeRead(s, k)
               \/ \E k \in Key, v \in Value : SetStamp(s, k, v)
               \/ \E delta \in Arrivals : MergeDelta(s, delta)
        PROVE  task'[t] = task[t]
    BY <2>4 DEF SetMerge, SetSend, MergeSend, MergeRead, SetStamp, MergeDelta, TypeOK
  <2>5. CASE StepClock \/ UNCHANGED vars
    BY <2>1, <2>5 DEF StepClock, vars
  <2> QED BY <2>1, <2>2, <2>3, <2>4, <2>5 DEF Next, Proceed
<1>3. ASSUME NEW k \in Key, state'[k] # None
      PROVE  state'[k].timestamp \in Time
  <2>1. CASE state'[k] = state[k]
    BY <1>3, <2>1 DEF StampsInRange
  <2>2. ASSUME NEW t \in Task, SetMerge(t), state'[k] # state[k]
        PROVE  state'[k].timestamp \in Time
    <3>1. state'[k] = task[t].value
      BY <2>2, SetMergeSlot, WinnerPicks DEF TypeOK, StateMap
    <3> QED BY <2>2, <3>1 DEF SetMerge, StampsInRange
  <2>3. ASSUME NEW t \in Task, NEW delta \in Arrivals, MergeDelta(t, delta),
               state'[k] # state[k]
        PROVE  state'[k].timestamp \in Time
    <3>1. state'[k] = delta[k]
      BY <2>3, MergeDeltaStep, MergeDeltaSlot DEF TypeOK
    <3>2. delta[k].timestamp \in 1 .. MaxTime
      BY <1>3, <3>1 DEF Arrivals
    <3> QED BY <1>0, <3>1, <3>2
  <2>4. \/ UNCHANGED state
        \/ \E t \in Task : SetMerge(t)
        \/ \E t \in Task, delta \in Arrivals : MergeDelta(t, delta)
    BY DEF Next, Proceed, StepClock, SetStamp, SetSend, MergeRead, MergeSend, vars
  <2> QED BY <2>1, <2>2, <2>3, <2>4
<1> QED BY <1>1, <1>2, <1>3 DEF StampsInRange

LEMMA StoreInvariant == Spec => []StoreInv
<1>1. Init => ReadsNeverGoBack /\ OneEntryPerStamp /\ StampsInRange
  <2> SUFFICES ASSUME Init PROVE ReadsNeverGoBack /\ OneEntryPerStamp /\ StampsInRange
    OBVIOUS
  <2>1. clock \in Time
    BY StoreAssumption DEF Init, Time
  <2> QED BY <2>1 DEF Init, EmptyMap, At, ReadsNeverGoBack, OneEntryPerStamp, StampsInRange
<1>2. TypeOK /\ TypeOK' /\ EventsInv /\ ReadsNeverGoBack /\ OneEntryPerStamp /\ StampsInRange
        /\ [Next]_vars => ReadsNeverGoBack' /\ OneEntryPerStamp' /\ StampsInRange'
  BY ReadsKept, OneEntryKept, StampsKept
<1> QED BY <1>1, <1>2, StoreTypes, EventsInvariant, PTL DEF Spec, StoreInv

\* Reads never go back: state.get returns every entry that was ever seen under its
\* key, or one that beats it, although the clock may step back.
THEOREM ReadsDoNotGoBack == MirrorSpec => []ReadsNeverGoBack
<1>1. StoreInv => ReadsNeverGoBack
  BY DEF StoreInv
<1> QED BY <1>1, StoreInvariant, MirroredStoreIsStore, PTL

-----------------------------------------------------------------------------
(***************************************************************************)
(* The client.                                                             *)
(***************************************************************************)
LEMMA ClientTypes ==
  ASSUME MirrorTypeOK
  PROVE  /\ next # None => next \in 0 .. tail
         /\ reply # None => reply \in StateMap
         /\ mirror \in StateMap
BY DEF MirrorTypeOK

\* The channel only grows, at its end.
LEMMA ChannelGrows ==
  ASSUME TypeOK, [Next]_vars
  PROVE  /\ tail \in Nat /\ tail' \in Nat /\ tail =< tail'
         /\ \A i \in 1 .. tail : event_tx'[i] = event_tx[i]
<1>1. CASE event_tx' = event_tx
  BY <1>1 DEF TypeOK, tail
<1>2. ASSUME NEW e \in StateEvent, event_tx' = Append(event_tx, e)
      PROVE  /\ tail \in Nat /\ tail' \in Nat /\ tail =< tail'
             /\ \A i \in 1 .. tail : event_tx'[i] = event_tx[i]
  BY <1>2 DEF TypeOK, tail
<1> QED BY <1>1, <1>2, ChannelStep

\* The entry that the client takes next.
LEMMA NextEvent ==
  ASSUME TypeOK, MirrorTypeOK, ForwardEvent
  PROVE  LET ev == event_tx[next + 1] IN
         /\ next \in Nat /\ next + 1 \in DOMAIN event_tx /\ next + 1 =< tail
         /\ ev \in StateEvent /\ ev.key \in Key /\ ev.value \in LwwValue
         /\ next' = next + 1
         /\ mirror' = set(mirror, ev.key, ev.value)
         /\ UNCHANGED <<vars, due, reply>>
<1>1. /\ next \in 0 .. tail /\ next < tail /\ next' = next + 1
      /\ mirror' = set(mirror, event_tx[next'].key, event_tx[next'].value)
      /\ UNCHANGED <<vars, due, reply>>
  BY ClientTypes DEF ForwardEvent
<1>2. tail \in Nat /\ DOMAIN event_tx = 1 .. tail
  BY DEF TypeOK, tail
<1>3. next \in Nat /\ next + 1 \in DOMAIN event_tx /\ next + 1 =< tail
  BY <1>1, <1>2
<1>4. event_tx[next + 1] \in StateEvent
  BY <1>3 DEF TypeOK
<1>5. event_tx[next + 1].key \in Key /\ event_tx[next + 1].value \in LwwValue
  BY <1>4 DEF StateEvent
<1> QED BY <1>1, <1>3, <1>4, <1>5

\* A sync.delta reply is a copy of the whole store, because no timestamp is 0.
LEMMA ReplyIsState ==
  ASSUME StoreInv, SyncDelta
  PROVE  reply' = state
<1>1. \A k \in Key : state[k] # None => state[k].timestamp > 0
  BY StoreAssumption DEF StoreInv, StampsInRange, Time
<1>2. state \in [Key -> Entry]
  BY DEF StoreInv, TypeOK, StateMap
<1> DEFINE e(k) == IF state[k] # None /\ state[k].timestamp > 0 THEN state[k] ELSE None
<1>3. \A k \in Key : e(k) = state[k]
  BY <1>1
<1>4. reply' = [k \in Key |-> e(k)]
  BY DEF SyncDelta, delta_since
<1> HIDE DEF e
<1> QED BY <1>2, <1>3, <1>4

\* The client's variables keep their types; the receiver is never ahead of the
\* channel, whatever it skips.
THEOREM MirrorTypes == MirrorSpec => []MirrorTypeOK
<1>1. MirrorInit => MirrorTypeOK
  BY DEF MirrorInit, MirrorTypeOK, EmptyMap, StateMap, Entry
<1>2. StoreInv /\ StoreInv' /\ MirrorTypeOK /\ [MirrorNext]_mvars => MirrorTypeOK'
  <2> SUFFICES ASSUME StoreInv, StoreInv', MirrorTypeOK, [MirrorNext]_mvars
               PROVE  MirrorTypeOK'
    OBVIOUS
  <2>0. TypeOK /\ tail \in Nat
    BY DEF StoreInv, TypeOK, tail
  <2>1. CASE [Next]_vars /\ UNCHANGED client
    <3>1. next \in 0 .. tail' \cup {None}
      BY <2>0, <2>1, ChannelGrows, ClientTypes
    <3> QED BY <2>1, <3>1 DEF MirrorTypeOK, client
  <2>2. CASE Subscribe
    <3>1. tail' = tail /\ next' = tail
      BY <2>2 DEF Subscribe, vars, tail
    <3>2. next' \in 0 .. tail' \cup {None}
      BY <2>0, <3>1
    <3> QED BY <2>2, <3>2 DEF Subscribe, MirrorTypeOK
  <2>3. CASE ForwardEvent
    <3>1. tail' = tail
      BY <2>3 DEF ForwardEvent, vars, tail
    <3>2. next' \in 0 .. tail' \cup {None}
      BY <2>0, <2>3, <3>1, NextEvent
    <3>3. mirror' \in StateMap
      BY <2>0, <2>3, NextEvent, SetSlot, ClientTypes
    <3> QED BY <2>3, <3>2, <3>3 DEF ForwardEvent, MirrorTypeOK
  <2>4. CASE ForwardLag
    <3>1. tail' = tail /\ next' = tail - Capacity /\ next # None
          /\ tail - next > Capacity
      BY <2>4 DEF ForwardLag, vars, tail
    <3>2. next' \in 0 .. tail' \cup {None}
      BY <2>0, <3>1, ClientTypes, CapacityAssumption
    <3> QED BY <2>4, <3>2 DEF ForwardLag, MirrorTypeOK
  <2>5. CASE SyncDelta
    <3>1. tail' = tail /\ reply' \in StateMap
      BY <2>5, ReplyIsState DEF SyncDelta, vars, tail, StoreInv, TypeOK
    <3> QED BY <2>5, <3>1 DEF SyncDelta, MirrorTypeOK
  <2>6. CASE TakeReply
    <3>1. tail' = tail /\ reply \in StateMap /\ mirror \in StateMap
          /\ mirror' = merge_delta(mirror, reply)
      BY <2>6, ClientTypes DEF TakeReply, vars, tail
    <3>2. mirror' \in StateMap
      BY <3>1, MergeDeltaSlot DEF StateMap, merge_delta
    <3> QED BY <2>6, <3>1, <3>2 DEF TakeReply, MirrorTypeOK
  <2> QED BY <2>1, <2>2, <2>3, <2>4, <2>5, <2>6, MirrorSteps
<1> QED BY <1>1, <1>2, StoreInvariant, MirroredStoreIsStore, PTL DEF MirrorSpec

-----------------------------------------------------------------------------
(***************************************************************************)
(* The copy is behind the store.  So is a reply on its way, and an event   *)
(* that waits in the channel (EventsInv), which the copy may take next.    *)
(***************************************************************************)
ReplyBehind ==
  reply # None => \A k \in Key : reply[k] # None => Announceable(k, reply[k])

BehindInv == StoreInv /\ MirrorTypeOK /\ MirrorBehind /\ ReplyBehind

\* What was announceable stays so.
LEMMA StillAnnounceable ==
  ASSUME StoreInv, [Next]_vars, NEW k \in Key, NEW e \in Entry, e # None, Announceable(k, e)
  PROVE  <<k, e>> \in seen' /\ Covers(state'[k], e)
BY AnnounceableKept DEF StoreInv, EventsInv, Entry

LEMMA BehindInvariant == MirrorSpec => []BehindInv
<1>1. MirrorInit => MirrorBehind /\ ReplyBehind
  BY DEF MirrorInit, MirrorBehind, ReplyBehind, EmptyMap
<1>2. StoreInv /\ StoreInv' /\ MirrorTypeOK /\ MirrorTypeOK' /\ MirrorBehind /\ ReplyBehind
        /\ [MirrorNext]_mvars => MirrorBehind' /\ ReplyBehind'
  <2> SUFFICES ASSUME StoreInv, StoreInv', MirrorTypeOK, MirrorTypeOK', MirrorBehind,
                      ReplyBehind, [MirrorNext]_mvars
               PROVE  MirrorBehind' /\ ReplyBehind'
    OBVIOUS
  <2>0. TypeOK /\ mirror \in StateMap /\ \A k \in Key : mirror[k] \in Entry
    BY ClientTypes DEF StoreInv, StateMap
  <2>1. CASE [Next]_vars /\ UNCHANGED client
    <3>1. UNCHANGED <<next, due, reply, mirror>>
      BY <2>1 DEF client
    <3>2. ASSUME NEW k \in Key, mirror[k] # None
          PROVE  Covers(state'[k], mirror[k]) /\ <<k, mirror[k]>> \in seen'
      BY <2>0, <2>1, <3>2, StillAnnounceable DEF MirrorBehind, Announceable
    <3>3. ASSUME reply # None, NEW k \in Key, reply[k] # None
          PROVE  Covers(state'[k], reply[k]) /\ <<k, reply[k]>> \in seen'
      <4>1. reply[k] \in Entry
        BY <3>3, ClientTypes DEF StateMap
      <4> QED BY <2>1, <3>3, <4>1, StillAnnounceable DEF ReplyBehind
    <3> QED BY <3>1, <3>2, <3>3 DEF MirrorBehind, ReplyBehind, Announceable
  <2>2. CASE Subscribe \/ ForwardLag
    BY <2>2 DEF Subscribe, ForwardLag, vars, MirrorBehind, ReplyBehind, Announceable
  <2>3. CASE ForwardEvent
    <3> DEFINE ev == event_tx[next + 1]
    <3>1. /\ next + 1 \in DOMAIN event_tx
          /\ ev.key \in Key /\ ev.value \in LwwValue
          /\ mirror' = set(mirror, ev.key, ev.value)
          /\ UNCHANGED <<vars, due, reply>>
      BY <2>0, <2>3, NextEvent
    <3>2. Announceable(ev.key, ev.value)
      BY <3>1 DEF StoreInv, EventsInv
    <3> HIDE DEF ev
    <3>3. UNCHANGED <<state, seen, reply>>
      BY <3>1 DEF vars
    <3>4. ASSUME NEW k \in Key
          PROVE  mirror'[k] = mirror[k] \/ (k = ev.key /\ mirror'[k] = ev.value)
      BY <2>0, <3>1, SetSlot, WinnerPicks
    <3>5. MirrorBehind'
      BY <3>2, <3>3, <3>4 DEF MirrorBehind, Announceable
    <3>6. ReplyBehind'
      BY <3>3 DEF ReplyBehind, Announceable
    <3> QED BY <3>5, <3>6
  <2>4. CASE SyncDelta
    <3>1. reply' = state /\ UNCHANGED <<state, seen, mirror>>
      BY <2>4, ReplyIsState DEF SyncDelta, vars
    <3>2. \A k \in Key : state[k] # None => Announceable(k, state[k])
      BY CoversIsOrder DEF StoreInv, EventsInv, Announceable, TypeOK, StateMap
    <3> QED BY <3>1, <3>2 DEF MirrorBehind, ReplyBehind, Announceable
  <2>5. CASE TakeReply
    <3>1. /\ reply # None /\ reply \in StateMap /\ reply' = None
          /\ mirror' = merge_delta(mirror, reply)
          /\ UNCHANGED <<state, seen>>
      BY <2>5, ClientTypes DEF TakeReply, vars
    <3>2. \A k \in Key : mirror'[k] = mirror[k] \/ mirror'[k] = reply[k]
      BY <2>0, <3>1, MergeDeltaSlot
    <3>3. MirrorBehind'
      BY <3>1, <3>2 DEF MirrorBehind, ReplyBehind, Announceable
    <3> QED BY <3>1, <3>3 DEF ReplyBehind
  <2> QED BY <2>1, <2>2, <2>3, <2>4, <2>5, MirrorSteps
<1> QED BY <1>1, <1>2, StoreInvariant, MirroredStoreIsStore, MirrorTypes, PTL
        DEF MirrorSpec, BehindInv

\* Events out of order, replies that updates overtake and reconnections never put
\* the client's copy ahead of the store, nor anything into it that was no entry.
THEOREM MirrorNeverAhead == MirrorSpec => []MirrorBehind
<1>1. BehindInv => MirrorBehind
  BY DEF BehindInv
<1> QED BY <1>1, BehindInvariant, PTL

-----------------------------------------------------------------------------
(***************************************************************************)
(* No gap.  NoGap is inductive on top of BehindInv.  A new entry is owed   *)
(* by the task that made it current; the debt is paid by the newest event, *)
(* which is above the receiver's position; an event that is taken or a     *)
(* reply that is merged covers the entry, because one stamp never comes    *)
(* with two values; an event that is overwritten leads to a state.lag, and *)
(* that to a sync.delta, which returns the current entry.                  *)
(***************************************************************************)
\* The copy takes over what covers an entry of the store.
LEMMA WinnerIsEnough ==
  ASSUME BehindInv, NEW k \in Key, NEW e \in LwwValue, Announceable(k, e)
  PROVE  /\ Covers(Winner(mirror[k], e), e)
         /\ Covers(Winner(mirror[k], e), mirror[k])
<1>1. mirror[k] \in Entry
  BY DEF BehindInv, MirrorTypeOK, StateMap
<1>2. ASSUME mirror[k] # None, SameStamp(mirror[k], e)
      PROVE  mirror[k] = e
  <2>1. <<k, mirror[k]>> \in seen /\ <<k, e>> \in seen
    BY <1>2 DEF BehindInv, MirrorBehind, Announceable
  <2> DEFINE r == <<k, mirror[k]>>
             s == <<k, e>>
  <2>2. r[1] = s[1] /\ SameStamp(r[2], s[2])
    BY <1>2
  <2>3. r[2] = s[2]
    BY <2>1, <2>2 DEF BehindInv, StoreInv, OneEntryPerStamp
  <2> QED BY <2>3
<1> QED BY <1>1, <1>2, WinnerCovers

LEMMA GapKeptByStore ==
  ASSUME BehindInv, StoreInv', NoGap, [Next]_vars, UNCHANGED client
  PROVE  NoGap'
<1> SUFFICES ASSUME next # None, NEW k \in Key
             PROVE  Covers(mirror[k], state'[k]) \/ Coming(k)'
  BY DEF NoGap, client
<1>0. /\ TypeOK /\ TypeOK' /\ UNCHANGED <<next, due, reply, mirror>>
      /\ next \in 0 .. tail
  BY ClientTypes DEF BehindInv, StoreInv, client
<1>1. CASE state'[k] # state[k]
  BY <1>0, <1>1, ChangeIsOwed DEF Coming
<1>2. CASE state'[k] = state[k]
  <2>1. CASE Covers(mirror[k], state[k])
    BY <1>2, <2>1
  <2>2. ASSUME NEW t \in Task, Owes(t, k)
        PROVE  Coming(k)'
    <3>1. CASE Owes(t, k)'
      BY <3>1 DEF Coming
    <3>2. CASE event_tx' = Append(event_tx, [key |-> k, value |-> state'[k]])
      <4>1. /\ tail \in Nat /\ tail' = tail + 1
            /\ event_tx'[tail + 1] = [key |-> k, value |-> state'[k]]
        BY <1>0, <3>2 DEF TypeOK, tail
      <4>2. tail + 1 \in next' + 1 .. tail'
        BY <1>0, <4>1
      <4> QED BY <4>1, <4>2 DEF Coming
    <3> QED BY <1>0, <1>2, <2>2, <3>1, <3>2, DebtKept
  <2>3. ASSUME NEW i \in next + 1 .. tail, event_tx[i] = [key |-> k, value |-> state[k]]
        PROVE  Coming(k)'
    <3>1. i \in next' + 1 .. tail' /\ event_tx'[i] = event_tx[i]
      BY <1>0, ChannelGrows
    <3> QED BY <1>2, <2>3, <3>1 DEF Coming
  <2>4. CASE tail - next > Capacity
    <3>1. tail' - next' > Capacity
      BY <1>0, <2>4, ChannelGrows, CapacityAssumption
    <3> QED BY <3>1 DEF Coming
  <2>5. CASE due \/ (reply # None /\ Covers(reply[k], state[k]))
    BY <1>0, <1>2, <2>5 DEF Coming
  <2> QED BY <2>1, <2>2, <2>3, <2>4, <2>5 DEF NoGap, Coming
<1> QED BY <1>1, <1>2

\* A step that leaves the store alone and lets the copy grow keeps the coming
\* entries coming, as far as the part of Coming it does not touch.
LEMMA GapKeptByEvent ==
  ASSUME BehindInv, MirrorTypeOK', NoGap, ForwardEvent
  PROVE  NoGap'
<1> SUFFICES ASSUME next # None, NEW k \in Key
             PROVE  Covers(mirror'[k], state[k]) \/ Coming(k)'
  BY NextEvent DEF NoGap, ForwardEvent, vars
<1> DEFINE ev == event_tx[next + 1]
<1>1. /\ next \in Nat /\ next + 1 \in DOMAIN event_tx /\ next + 1 =< tail
      /\ ev.key \in Key /\ ev.value \in LwwValue /\ ev \in StateEvent
      /\ next' = next + 1
      /\ mirror' = set(mirror, ev.key, ev.value)
      /\ UNCHANGED <<clock, state, task, event_tx, ops, seen, due, reply>>
  BY NextEvent DEF BehindInv, StoreInv, vars
<1>2. Announceable(ev.key, ev.value)
  BY <1>1 DEF BehindInv, StoreInv, EventsInv
<1>3. tail - next =< Capacity
  BY DEF ForwardEvent
<1>4. mirror \in StateMap /\ mirror[k] \in Entry /\ mirror'[k] \in Entry /\ state[k] \in Entry
  BY DEF BehindInv, MirrorTypeOK, StoreInv, TypeOK, StateMap
<1>5. Covers(mirror'[k], mirror[k]) /\ (k = ev.key => Covers(mirror'[k], ev.value))
  <2> HIDE DEF ev
  <2>1. CASE k = ev.key
    BY <1>1, <1>2, <1>4, <2>1, SetSlot, WinnerIsEnough
  <2>2. CASE k # ev.key
    BY <1>1, <1>4, <2>2, SetSlot, CoversIsOrder
  <2> QED BY <2>1, <2>2
<1>6. CASE Covers(mirror[k], state[k])
  BY <1>4, <1>5, <1>6, CoversIsOrder
<1>7. ASSUME NEW t \in Task, Owes(t, k)
      PROVE  Coming(k)'
  BY <1>1, <1>7 DEF Coming, Owes, At
<1>8. ASSUME NEW i \in next + 1 .. tail, event_tx[i] = [key |-> k, value |-> state[k]]
      PROVE  Covers(mirror'[k], state[k]) \/ Coming(k)'
  <2>1. CASE i = next + 1
    BY <1>5, <1>8, <2>1
  <2>2. CASE i # next + 1
    <3>1. i \in next' + 1 .. tail'
      BY <1>1, <2>2 DEF tail
    <3> QED BY <1>1, <1>8, <3>1 DEF Coming
  <2> QED BY <2>1, <2>2
<1>9. CASE due \/ (reply # None /\ Covers(reply[k], state[k]))
  BY <1>1, <1>9 DEF Coming
<1>10. tail \in Nat /\ ~(tail - next > Capacity)
  BY <1>1, <1>3, CapacityAssumption DEF BehindInv, StoreInv, TypeOK, tail
<1> QED BY <1>6, <1>7, <1>8, <1>9, <1>10 DEF NoGap, Coming

LEMMA GapKeptByReply ==
  ASSUME BehindInv, MirrorTypeOK', NoGap, TakeReply
  PROVE  NoGap'
<1> SUFFICES ASSUME next # None, NEW k \in Key
             PROVE  Covers(mirror'[k], state[k]) \/ Coming(k)'
  BY DEF NoGap, TakeReply, vars
<1>1. /\ reply # None /\ reply \in StateMap /\ mirror \in StateMap
      /\ mirror' = merge_delta(mirror, reply)
      /\ UNCHANGED <<clock, state, task, event_tx, ops, seen, due, next>>
  BY ClientTypes DEF BehindInv, TakeReply, vars
<1>2. mirror[k] \in Entry /\ mirror'[k] \in Entry /\ state[k] \in Entry /\ reply[k] \in Entry
  BY <1>1 DEF BehindInv, MirrorTypeOK, StoreInv, TypeOK, StateMap
<1>3. Covers(mirror'[k], mirror[k])
  BY <1>1, MergeDeltaSlot
<1>4. Covers(mirror'[k], reply[k])
  <2>1. CASE reply[k] = None
    BY <2>1 DEF Covers
  <2>2. CASE reply[k] # None
    <3>1. mirror'[k] = Winner(mirror[k], reply[k])
      BY <1>1, <2>2 DEF merge_delta
    <3>2. reply[k] \in LwwValue /\ Announceable(k, reply[k])
      BY <1>1, <1>2, <2>2 DEF BehindInv, ReplyBehind, Entry
    <3> QED BY <3>1, <3>2, WinnerIsEnough
  <2> QED BY <2>1, <2>2
<1>5. CASE Covers(mirror[k], state[k]) \/ Covers(reply[k], state[k])
  BY <1>2, <1>3, <1>4, <1>5, CoversIsOrder
<1>6. CASE \/ \E t \in Task : Owes(t, k)
           \/ \E i \in next + 1 .. tail : event_tx[i] = [key |-> k, value |-> state[k]]
           \/ tail - next > Capacity
           \/ due
  BY <1>1, <1>6 DEF Coming, Owes, At, tail
<1> QED BY <1>5, <1>6 DEF NoGap, Coming

\* A subscribed client has every current entry, or has it coming: nothing is lost
\* to lag, to a reconnection, or between sync.delta and the events around it.
THEOREM MirrorHasNoGap == MirrorSpec => []NoGap
<1>1. MirrorInit => NoGap
  BY DEF MirrorInit, NoGap
<1>2. BehindInv /\ BehindInv' /\ NoGap /\ [MirrorNext]_mvars => NoGap'
  <2> SUFFICES ASSUME BehindInv, BehindInv', NoGap, [MirrorNext]_mvars PROVE NoGap'
    OBVIOUS
  <2>1. CASE [Next]_vars /\ UNCHANGED client
    BY <2>1, GapKeptByStore DEF BehindInv
  <2>2. CASE Subscribe \/ ForwardLag
    <3>1. due'
      BY <2>2 DEF Subscribe, ForwardLag
    <3> QED BY <3>1 DEF NoGap, Coming
  <2>3. CASE ForwardEvent
    BY <2>3, GapKeptByEvent DEF BehindInv
  <2>4. CASE SyncDelta
    <3>1. reply' = state /\ state' = state /\ state \in StateMap
      BY <2>4, ReplyIsState DEF BehindInv, StoreInv, TypeOK, SyncDelta, vars
    <3>2. reply' # None
      BY <3>1, NoneIsNoMap
    <3>3. \A k \in Key : Covers(reply'[k], state'[k])
      BY <3>1, CoversIsOrder DEF StateMap
    <3> QED BY <3>2, <3>3 DEF NoGap, Coming
  <2>5. CASE TakeReply
    BY <2>5, GapKeptByReply DEF BehindInv
  <2> QED BY <2>1, <2>2, <2>3, <2>4, <2>5, MirrorSteps
<1> QED BY <1>1, <1>2, BehindInvariant, PTL DEF MirrorSpec

-----------------------------------------------------------------------------
\* Nothing is on its way: no task owes an event, the receiver has taken all of
\* them, and no sync.delta is due or under way.
Quiet ==
  /\ next # None /\ next = tail
  /\ ~due /\ reply = None
  /\ \A t \in Task, k \in Key : ~Owes(t, k)

\* A client that waits until nothing is on its way has exactly the store's state;
\* it need not compare anything, and no entry stays behind silently.
THEOREM QuietMirrorIsExact == MirrorSpec => [](Quiet => mirror = state)
<1>1. BehindInv /\ NoGap => (Quiet => mirror = state)
  <2> SUFFICES ASSUME BehindInv, NoGap, Quiet PROVE mirror = state
    OBVIOUS
  <2>1. mirror \in StateMap /\ state \in StateMap /\ tail \in Nat
    BY DEF BehindInv, MirrorTypeOK, StoreInv, TypeOK, tail
  <2>2. ASSUME NEW k \in Key PROVE mirror[k] = state[k]
    <3>1. mirror[k] \in Entry /\ state[k] \in Entry
      BY <2>1 DEF StateMap
    <3>2. ~Coming(k)
      BY <2>1, CapacityAssumption DEF Quiet, Coming
    <3>3. Covers(mirror[k], state[k])
      BY <3>2 DEF Quiet, NoGap
    <3>4. Covers(state[k], mirror[k])
      BY DEF BehindInv, MirrorBehind, Covers
    <3> QED BY <3>1, <3>3, <3>4, CoversIsOrder
  <2> QED BY <2>1, <2>2 DEF StateMap
<1> QED BY <1>1, BehindInvariant, MirrorHasNoGap, PTL

-----------------------------------------------------------------------------
(***************************************************************************)
(* sync.status.                                                            *)
(***************************************************************************)
\* A bounded set of naturals has a maximum, and Max picks it.
LEMMA MaxOfBounded ==
  ASSUME NEW n \in Nat, NEW S \in SUBSET (0 .. n), S # {}
  PROVE  Max(S) \in S /\ \A y \in S : y =< Max(S)
<1> DEFINE R == OpToRel(<, Nat)
           T == {n - y : y \in S}
<1>0. PICK z \in S : TRUE
  OBVIOUS
<1>1. T \subseteq Nat /\ T # {}
  <2>1. n - z \in T
    OBVIOUS
  <2>2. \A y \in S : n - y \in Nat
    OBVIOUS
  <2> QED BY <2>1, <2>2
<1>2. IsWellFoundedOn(R, Nat)
  BY NatLessThanWellFounded, Zenon
<1>3. \A x, y \in Nat : <<y, x>> \in R <=> y < x
  BY DEF OpToRel
<1> HIDE DEF R
<1>4. PICK x \in T : \A y \in T : ~(<<y, x>> \in R)
  <2> HIDE DEF T
  <2> QED BY <1>1, <1>2, WFMin
<1>5. PICK m \in S : x = n - m
  OBVIOUS
<1>6. ASSUME NEW y \in S PROVE m >= y
  <2>1. n - y \in T /\ n - y \in Nat /\ x \in Nat
    BY <1>1
  <2>2. ~(n - y < x)
    BY <1>3, <1>4, <2>1
  <2> QED BY <1>5, <2>2
<1>7. Max(S) \in S /\ \A y \in S : Max(S) >= y
  BY <1>6 DEF Max
<1> QED BY <1>7

LEMMA MaxTimestampBounds ==
  ASSUME NEW m \in StateMap, \A k \in state_keys(m) : m[k].timestamp =< MaxTime + 1
  PROVE  /\ max_timestamp(m) \in Nat
         /\ max_timestamp(m) = 0 \/ \E k \in state_keys(m) : max_timestamp(m) = m[k].timestamp
         /\ \A k \in state_keys(m) : m[k].timestamp =< max_timestamp(m)
<1> DEFINE S == {0} \cup {m[k].timestamp : k \in state_keys(m)}
<1>1. MaxTime + 1 \in Nat /\ S \in SUBSET (0 .. MaxTime + 1) /\ S # {}
  BY StoreAssumption DEF state_keys, StateMap, Entry, LwwValue
<1>2. max_timestamp(m) = Max(S)
  BY DEF max_timestamp
<1>3. Max(S) \in S /\ \A y \in S : y =< Max(S)
  <2> HIDE DEF S
  <2> QED BY <1>1, MaxOfBounded
<1>4. Max(S) \in Nat
  BY <1>1, <1>3
<1>5. Max(S) = 0 \/ \E k \in state_keys(m) : Max(S) = m[k].timestamp
  BY <1>3
<1>6. \A k \in state_keys(m) : m[k].timestamp \in S
  OBVIOUS
<1> HIDE DEF S
<1> QED BY <1>2, <1>3, <1>4, <1>5, <1>6

\* A map that covers another one has at least its size and its highest timestamp.
LEMMA StatusFollows ==
  ASSUME NEW m \in StateMap, NEW w \in StateMap,
         \A k \in state_keys(w) : w[k].timestamp =< MaxTime + 1,
         \A k \in Key : Covers(w[k], m[k])
  PROVE  \A f \in Field : /\ sync_status(m)[f] \in Nat /\ sync_status(w)[f] \in Nat
                          /\ sync_status(m)[f] =< sync_status(w)[f]
<1>1. ASSUME NEW k \in state_keys(m)
      PROVE  /\ k \in state_keys(w)
             /\ m[k].timestamp \in Nat /\ w[k].timestamp \in Nat
             /\ m[k].timestamp =< w[k].timestamp
  <2>1. k \in Key /\ m[k] # None /\ m[k] \in LwwValue
    BY DEF state_keys, StateMap, Entry
  <2>2. w[k] # None /\ (m[k] = w[k] \/ StampLess(m[k], w[k]))
    BY <2>1 DEF Covers
  <2>3. w[k] \in LwwValue
    BY <2>1, <2>2 DEF StateMap, Entry
  <2> QED BY <2>1, <2>2, <2>3 DEF state_keys, StampLess, LwwValue
<1>2. len(m) \in Nat /\ len(w) \in Nat /\ len(m) =< len(w)
  <2>1. state_keys(m) \in SUBSET Key /\ state_keys(w) \in SUBSET Key
    BY DEF state_keys
  <2>2. IsFiniteSet(state_keys(m)) /\ IsFiniteSet(state_keys(w))
    BY <2>1, KeysAreFinite, FS_Subset
  <2>3. state_keys(m) \subseteq state_keys(w)
    BY <1>1
  <2> QED BY <2>2, <2>3, FS_Subset, FS_CardinalityType DEF len
<1>3. max_timestamp(m) \in Nat /\ max_timestamp(w) \in Nat /\ max_timestamp(m) =< max_timestamp(w)
  <2>1. ASSUME NEW k \in state_keys(m) PROVE m[k].timestamp =< MaxTime + 1
    <3>1. w[k].timestamp =< MaxTime + 1
      BY <1>1
    <3> QED BY <1>1, <3>1, StoreAssumption
  <2>2. /\ max_timestamp(m) \in Nat
        /\ max_timestamp(m) = 0 \/ \E k \in state_keys(m) : max_timestamp(m) = m[k].timestamp
    BY <2>1, MaxTimestampBounds
  <2>3. /\ max_timestamp(w) \in Nat
        /\ \A k \in state_keys(w) : w[k].timestamp =< max_timestamp(w)
    BY MaxTimestampBounds
  <2>4. CASE max_timestamp(m) = 0
    BY <2>2, <2>3, <2>4
  <2>5. ASSUME NEW k \in state_keys(m), max_timestamp(m) = m[k].timestamp
        PROVE  max_timestamp(m) =< max_timestamp(w)
    BY <1>1, <2>3, <2>5
  <2> QED BY <2>2, <2>3, <2>4, <2>5
<1> QED BY <1>2, <1>3 DEF sync_status, Field

\* A client that polls sync.status is a client of module Mirror.
LEMMA PollingClient == StatusSpec => MirrorSpec
<1>1. StatusInit => MirrorInit
  BY DEF StatusInit
<1>2. [StatusNext]_svars => [MirrorNext]_mvars
  BY DEF StatusNext, StatusCall, StatusRead, StatusReply, svars
<1> QED BY <1>1, <1>2, PTL DEF StatusSpec, MirrorSpec

(***************************************************************************)
(* Each field that has been read lies between what the client knew and the *)
(* store of now, and the highest timestamp at the moment of the count is   *)
(* below the store's, so it is below what the later read returns.          *)
(***************************************************************************)
Now(f) == sync_status(state)[f]

ReadSoFar ==
  /\ status \in [Field -> Nat \cup {None}]
  /\ \A f \in Field : status[f] # None =>
       status[f] \in Nat /\ known[f] =< status[f] /\ status[f] =< Now(f)
  /\ status["max_timestamp"] # None => status["state_size"] # None
  /\ status["state_size"] # None => counted =< Now("max_timestamp")
  /\ status["max_timestamp"] # None => counted =< status["max_timestamp"]

StatusInv ==
  /\ known \in [Field -> Nat] /\ counted \in Nat
  /\ \A f \in Field : known[f] =< Now(f)
  /\ status # None => ReadSoFar

LEMMA StoreStatusGrows ==
  ASSUME BehindInv, BehindInv', [Next]_vars
  PROVE  \A f \in Field : Now(f) \in Nat /\ Now(f)' \in Nat /\ Now(f) =< Now(f)'
<1>1. state \in StateMap /\ state' \in StateMap
  BY DEF BehindInv, StoreInv, TypeOK
<1>2. \A k \in state_keys(state') : state'[k].timestamp =< MaxTime + 1
  BY StoreAssumption DEF BehindInv, StoreInv, StampsInRange, Time, state_keys
<1>3. \A k \in Key : Covers(state'[k], state[k])
  BY StateStep DEF BehindInv, StoreInv, EventsInv
<1>4. \A f \in Field : /\ sync_status(state)[f] \in Nat /\ sync_status(state')[f] \in Nat
                       /\ sync_status(state)[f] =< sync_status(state')[f]
  BY <1>1, <1>2, <1>3, StatusFollows
<1> QED BY <1>4 DEF Now

LEMMA CopyStatusBelow ==
  ASSUME BehindInv
  PROVE  \A f \in Field : /\ sync_status(mirror)[f] \in Nat /\ Now(f) \in Nat
                          /\ sync_status(mirror)[f] =< Now(f)
<1>1. state \in StateMap /\ mirror \in StateMap
  BY DEF BehindInv, StoreInv, TypeOK, MirrorTypeOK
<1>2. ASSUME NEW k \in state_keys(state) PROVE state[k].timestamp =< MaxTime + 1
  <2>1. k \in Key /\ state[k] # None
    BY DEF state_keys
  <2>2. state[k].timestamp \in 1 .. MaxTime + 1
    BY <2>1 DEF BehindInv, StoreInv, StampsInRange, Time
  <2> QED BY <2>2, StoreAssumption
<1>3. \A k \in Key : Covers(state[k], mirror[k])
  BY DEF BehindInv, MirrorBehind, Covers
<1> QED BY <1>1, <1>2, <1>3, StatusFollows DEF Now

LEMMA StatusInvariant == StatusSpec => []StatusInv
<1>1. BehindInv /\ StatusInit => StatusInv
  BY CopyStatusBelow DEF StatusInit, StatusInv, Field, NothingKnown
<1>2. BehindInv /\ BehindInv' /\ StatusInv /\ [StatusNext]_svars => StatusInv'
  <2> SUFFICES ASSUME BehindInv, BehindInv', StatusInv, [StatusNext]_svars PROVE StatusInv'
    OBVIOUS
  <2>0. \A f \in Field : Now(f) \in Nat
    BY CopyStatusBelow
  <2>1. CASE [MirrorNext]_mvars /\ UNCHANGED call
    <3>1. [Next]_vars
      BY <2>1, MirrorSteps DEF Subscribe, ForwardEvent, ForwardLag, SyncDelta, TakeReply
    <3>2. \A f \in Field : Now(f) \in Nat /\ Now(f)' \in Nat /\ Now(f) =< Now(f)'
      BY <3>1, StoreStatusGrows
    <3>3. UNCHANGED <<status, known, counted>>
      BY <2>1 DEF call
    <3> HIDE DEF Now
    <3> QED BY <3>2, <3>3 DEF StatusInv, ReadSoFar, Field
  <2>2. CASE StatusCall
    <3>1. /\ status' = Unread /\ known' = Larger(known, sync_status(mirror))
          /\ state' = state /\ counted' = counted
      BY <2>2 DEF StatusCall, mvars, vars
    <3>2. \A f \in Field : Now(f)' = Now(f)
      BY <3>1 DEF Now
    <3> HIDE DEF Now
    <3>3. known' \in [Field -> Nat] /\ \A f \in Field : known'[f] =< Now(f)
      BY <2>0, <3>1, CopyStatusBelow DEF Larger, StatusInv
    <3>4. ReadSoFar'
      BY <3>1 DEF ReadSoFar, Unread, Field
    <3> QED BY <3>1, <3>2, <3>3, <3>4 DEF StatusInv
  <2>3. ASSUME NEW f \in Field, StatusRead(f) PROVE StatusInv'
    <3>1. /\ status # None /\ status[f] = None /\ \A g \in ReadBefore(f) : status[g] # None
          /\ status' = [status EXCEPT ![f] = Now(f)]
          /\ counted' = IF f = "state_size" THEN Now("max_timestamp") ELSE counted
          /\ state' = state /\ known' = known
      BY <2>3 DEF StatusRead, mvars, vars, Now, sync_status
    <3>2. \A g \in Field : Now(g)' = Now(g)
      BY <3>1 DEF Now
    <3> HIDE DEF Now
    <3>3. counted' \in Nat
      BY <2>0, <3>1 DEF StatusInv, Field
    <3>4. status' \in [Field -> Nat \cup {None}] /\ status'[f] = Now(f)
          /\ \A g \in Field : g # f => status'[g] = status[g]
      BY <2>0, <3>1 DEF StatusInv, ReadSoFar
    <3>5. CASE f = "state_size"
      <4>1. status["max_timestamp"] = None
        BY <3>1, <3>5 DEF StatusInv, ReadSoFar
      <4> QED BY <2>0, <3>1, <3>2, <3>3, <3>4, <3>5, <4>1 DEF StatusInv, ReadSoFar, Field
    <3>6. CASE f = "max_timestamp"
      <4>1. status["state_size"] # None
        BY <3>1, <3>6 DEF ReadBefore
      <4> QED BY <2>0, <3>1, <3>2, <3>3, <3>4, <3>6, <4>1 DEF StatusInv, ReadSoFar, Field
    <3> QED BY <3>5, <3>6 DEF Field
  <2>4. CASE StatusReply
    <3>1. /\ status # None /\ \A f \in Field : status[f] # None
          /\ status' = None /\ known' = Larger(known, status)
          /\ state' = state /\ counted' = counted
      BY <2>4 DEF StatusReply, Complete, mvars, vars
    <3>2. \A f \in Field : Now(f)' = Now(f)
      BY <3>1 DEF Now
    <3> HIDE DEF Now
    <3>3. known' \in [Field -> Nat] /\ \A f \in Field : known'[f] =< Now(f)
      BY <2>0, <3>1 DEF Larger, StatusInv, ReadSoFar
    <3> QED BY <3>1, <3>2, <3>3 DEF StatusInv
  <2> QED BY <2>1, <2>2, <2>3, <2>4 DEF StatusNext, svars
<1> QED BY <1>1, <1>2, PollingClient, BehindInvariant, PTL DEF StatusSpec

\* The two locks of sync.status do not show: whatever is written between the reads,
\* no counted entry is newer than the reported max_timestamp, and a reply is never
\* below what the client had seen nor ahead of the store.
THEOREM StatusIsConsistent == StatusSpec => []StatusConsistent
<1>1. StatusInv => StatusConsistent
  BY DEF StatusInv, ReadSoFar, StatusConsistent, Complete, Field, Now
<1> QED BY <1>1, StatusInvariant, PTL
=============================================================================
