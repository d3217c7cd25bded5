-------------------------------- MODULE Lww --------------------------------
(***************************************************************************)
(* The data of the engine: the last-write-wins register of state/crdt.rs   *)
(* and what the operations of state/store.rs compute on the key-value map. *)
(*                                                                         *)
(* A map is a function on Key whose value is a register or None (the key   *)
(* is absent).  A StateDelta is built by filtering a HashMap, so it names  *)
(* a key at most once and has the shape of a map.                          *)
(***************************************************************************)
EXTENDS Integers

CONSTANTS
  Key,     \* the keys clients use
  Value,   \* the values clients write
  Node,    \* node ids, as numbers: only their lexicographic order matters
  None     \* "no entry"

LwwValue == [value : Value, timestamp : Nat, node_id : Node]

ASSUME NodeAssumption == Node \subseteq Nat
ASSUME NoneAssumption == None \notin LwwValue

Entry    == LwwValue \cup {None}
StateMap == [Key -> Entry]
EmptyMap == [k \in Key |-> None]

\* Faults to test the properties with (here and below): on equal stamps the
\* second argument wins; timestamp and node id are joined one by one.
merge_TieToSecond(a, b) ==
  IF a.timestamp > b.timestamp THEN a
  ELSE IF a.timestamp < b.timestamp THEN b
  ELSE IF a.node_id > b.node_id THEN a ELSE b

merge_FieldByField(a, b) ==
  [value |-> a.value,
   timestamp |-> IF a.timestamp > b.timestamp THEN a.timestamp ELSE b.timestamp,
   node_id |-> IF a.node_id > b.node_id THEN a.node_id ELSE b.node_id]

(***************************************************************************)
(* LwwValue::merge.  On equal stamps the first argument wins.              *)
(***************************************************************************)
merge(a, b) ==
  IF a.timestamp > b.timestamp THEN a
  ELSE IF a.timestamp < b.timestamp THEN b
  ELSE IF a.node_id >= b.node_id THEN a ELSE b

is_dominated_by(self, incoming) == merge(self, incoming) # self

(***************************************************************************)
(* What one incoming register does to one slot of the map: it fills an     *)
(* absent slot and is merged into an occupied one.  Both StateStore::set   *)
(* (or_insert, then merge) and StateStore::merge_delta do this.            *)
(***************************************************************************)
Winner(existing, incoming) ==
  IF existing = None THEN incoming ELSE merge(existing, incoming)

\* Fault: set overwrites without merging.
set_Overwrites(m, key, incoming) == [m EXCEPT ![key] = incoming]

set(m, key, incoming) == [m EXCEPT ![key] = Winner(@, incoming)]

merge_delta(m, delta) ==
  [k \in Key |-> IF delta[k] = None THEN m[k] ELSE Winner(m[k], delta[k])]

\* Fault: a key the store did not have before is not reported.
updated_keys_ReplacedOnly(m, delta) ==
  {k \in Key : m[k] # None /\ merge_delta(m, delta)[k] # m[k]}

updated_keys(m, delta) == {k \in Key : merge_delta(m, delta)[k] # m[k]}

delta_since(m, since) ==
  [k \in Key |-> IF m[k] # None /\ m[k].timestamp > since THEN m[k] ELSE None]

is_empty(m) == \A k \in Key : m[k] = None

(***************************************************************************)
(* ts is the highest timestamp in m, 0 when m is empty.                    *)
(***************************************************************************)
IsMaxTimestamp(m, ts) ==
  /\ \A k \in Key : m[k] # None => m[k].timestamp =< ts
  /\ IF is_empty(m) THEN ts = 0
     ELSE \E k \in Key : m[k] # None /\ m[k].timestamp = ts

(***************************************************************************)
(* The order that merge decides by, and what it means for an entry to make *)
(* another one redundant.  These are used to state properties.             *)
(***************************************************************************)
StampLess(a, b) ==
  \/ a.timestamp < b.timestamp
  \/ a.timestamp = b.timestamp /\ a.node_id < b.node_id

SameStamp(a, b) == a.timestamp = b.timestamp /\ a.node_id = b.node_id

\* f makes e redundant: e is absent, is f itself, or lost to f.
Covers(f, e) == e = None \/ (f # None /\ (e = f \/ StampLess(e, f)))
=============================================================================
