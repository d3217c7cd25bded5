----------------------------- MODULE LwwProofs -----------------------------
(***************************************************************************)
(* The algebra of LwwValue::merge, for every set of nodes and values, and  *)
(* the facts about the store operations that the other proofs cite.        *)
(***************************************************************************)
EXTENDS Lww, TLAPS

LEMMA NodeIsInt == \A n \in Node : n \in Int
BY NodeAssumption

(***************************************************************************)
(* The order by stamps.                                                    *)
(***************************************************************************)
LEMMA StampOrder ==
  ASSUME NEW a \in LwwValue, NEW b \in LwwValue, NEW c \in LwwValue
  PROVE  /\ ~StampLess(a, a)
         /\ StampLess(a, b) => ~SameStamp(a, b) /\ ~StampLess(b, a) /\ a # b
         /\ StampLess(a, b) \/ StampLess(b, a) \/ SameStamp(a, b)
         /\ StampLess(a, b) /\ StampLess(b, c) => StampLess(a, c)
BY NodeIsInt, SMT DEF StampLess, SameStamp, LwwValue

\* What merge picks, in terms of that order: the second register exactly when
\* it is strictly newer (crdt.rs, LwwValue::merge).
LEMMA MergePicks ==
  ASSUME NEW a \in LwwValue, NEW b \in LwwValue
  PROVE  /\ StampLess(a, b) => merge(a, b) = b
         /\ ~StampLess(a, b) => merge(a, b) = a
         /\ merge(a, b) \in LwwValue
BY NodeIsInt, SMT DEF merge, StampLess, LwwValue

\* Merging a register with itself changes nothing, and how merges are grouped
\* does not matter (crdt.rs: "associative, and idempotent").
THEOREM MergeAssociativeIdempotent ==
  ASSUME NEW a \in LwwValue, NEW b \in LwwValue, NEW c \in LwwValue
  PROVE  /\ merge(a, a) = a
         /\ merge(merge(a, b), c) = merge(a, merge(b, c))
<1>1. merge(a, a) = a
  BY MergePicks, StampOrder
<1>2. merge(merge(a, b), c) = merge(a, merge(b, c))
  BY NodeIsInt, SMT DEF merge, LwwValue
<1> QED BY <1>1, <1>2

\* merge is commutative on registers whose stamps tell them apart, and on no
\* others: two values under one stamp are kept in the order they come in.
THEOREM MergeCommutes ==
  ASSUME NEW a \in LwwValue, NEW b \in LwwValue
  PROVE  merge(a, b) = merge(b, a) <=> (SameStamp(a, b) => a = b)
<1>1. CASE SameStamp(a, b)
  <2>1. ~StampLess(a, b) /\ ~StampLess(b, a)
    BY <1>1, NodeIsInt, SMT DEF StampLess, SameStamp, LwwValue
  <2> QED BY <1>1, <2>1, MergePicks
<1>2. CASE ~SameStamp(a, b)
  BY <1>2, MergePicks, StampOrder
<1> QED BY <1>1, <1>2

\* is_dominated_by holds exactly for a strictly newer register (crdt.rs).
THEOREM DominatedMeansNewer ==
  ASSUME NEW a \in LwwValue, NEW b \in LwwValue
  PROVE  is_dominated_by(a, b) <=> StampLess(a, b)
BY MergePicks, StampOrder DEF is_dominated_by

-----------------------------------------------------------------------------
(***************************************************************************)
(* Slots and maps.                                                         *)
(***************************************************************************)
LEMMA WinnerPicks ==
  ASSUME NEW e \in Entry, NEW f \in LwwValue
  PROVE  /\ Winner(e, f) \in LwwValue
         /\ Winner(e, f) # None
         /\ Winner(e, f) = e \/ Winner(e, f) = f
         /\ Winner(e, f) # e => (e = None \/ StampLess(e, f))
         /\ Winner(e, f) = e => (e # None /\ ~StampLess(e, f))
<1>1. CASE e = None
  BY <1>1, NoneAssumption DEF Winner
<1>2. CASE e # None
  <2>1. e \in LwwValue /\ Winner(e, f) = merge(e, f)
    BY <1>2 DEF Entry, Winner
  <2> QED BY <1>2, <2>1, MergePicks, StampOrder, NoneAssumption
<1> QED BY <1>1, <1>2

LEMMA CoversIsOrder ==
  ASSUME NEW e \in Entry, NEW f \in Entry, NEW g \in Entry
  PROVE  /\ Covers(e, e)
         /\ Covers(e, None)
         /\ Covers(g, f) /\ Covers(f, e) => Covers(g, e)
         /\ Covers(f, e) /\ Covers(e, f) => e = f
BY StampOrder, NoneAssumption DEF Covers, Entry

\* A slot never goes back.
LEMMA WinnerCovers ==
  ASSUME NEW e \in Entry, NEW f \in LwwValue
  PROVE  /\ Covers(Winner(e, f), e)
         /\ (e # None /\ SameStamp(e, f) => e = f) => Covers(Winner(e, f), f)
         /\ Winner(e, f) # e => ~Covers(e, Winner(e, f))
<1>1. f # None /\ f \in Entry
  BY NoneAssumption DEF Entry
<1>2. CASE e = None
  BY <1>1, <1>2, WinnerPicks DEF Covers, Winner
<1>3. CASE e # None
  <2>1. e \in LwwValue
    BY <1>3 DEF Entry
  <2>2. Winner(e, f) = e \/ (Winner(e, f) = f /\ StampLess(e, f))
    BY <1>3, WinnerPicks
  <2>3. Winner(e, f) = e => StampLess(f, e) \/ SameStamp(e, f)
    BY <2>1, WinnerPicks, StampOrder
  <2> QED BY <1>1, <1>3, <2>1, <2>2, <2>3, StampOrder DEF Covers
<1> QED BY <1>2, <1>3

LEMMA MergeDeltaSlot ==
  ASSUME NEW m \in StateMap, NEW d \in StateMap, NEW k \in Key
  PROVE  /\ merge_delta(m, d) \in StateMap
         /\ merge_delta(m, d)[k] \in Entry
         /\ merge_delta(m, d)[k] = m[k] \/ merge_delta(m, d)[k] = d[k]
         /\ Covers(merge_delta(m, d)[k], m[k])
         /\ merge_delta(m, d)[k] # m[k] => ~Covers(m[k], merge_delta(m, d)[k])
         /\ (m[k] # None /\ d[k] # None /\ SameStamp(m[k], d[k]) => m[k] = d[k])
              => Covers(merge_delta(m, d)[k], d[k])
<1> DEFINE w(j) == IF d[j] = None THEN m[j] ELSE Winner(m[j], d[j])
<1>1. merge_delta(m, d) = [j \in Key |-> w(j)]
  BY DEF merge_delta
<1>2. ASSUME NEW j \in Key PROVE m[j] \in Entry /\ d[j] \in Entry
  BY DEF StateMap
<1>3. ASSUME NEW j \in Key PROVE w(j) \in Entry
  <2>1. CASE d[j] = None
    BY <1>2, <2>1
  <2>2. CASE d[j] # None
    <3>1. d[j] \in LwwValue
      BY <1>2, <2>2 DEF Entry
    <3> QED BY <1>2, <2>2, <3>1, WinnerPicks DEF Entry
  <2> QED BY <2>1, <2>2
<1>4. merge_delta(m, d) \in StateMap /\ merge_delta(m, d)[k] = w(k)
  BY <1>1, <1>3 DEF StateMap
<1>5. CASE d[k] = None
  BY <1>2, <1>4, <1>5, CoversIsOrder DEF Entry
<1>6. CASE d[k] # None
  <2>1. d[k] \in LwwValue /\ w(k) = Winner(m[k], d[k])
    BY <1>2, <1>6 DEF Entry
  <2> HIDE DEF w
  <2> QED BY <1>2, <1>3, <1>4, <1>6, <2>1, WinnerPicks, WinnerCovers
<1> QED BY <1>5, <1>6

LEMMA SetSlot ==
  ASSUME NEW m \in StateMap, NEW k \in Key, NEW e \in LwwValue
  PROVE  /\ set(m, k, e) \in StateMap
         /\ set(m, k, e)[k] = Winner(m[k], e)
         /\ \A j \in Key : j # k => set(m, k, e)[j] = m[j]
<1>1. m[k] \in Entry
  BY DEF StateMap
<1>2. Winner(m[k], e) \in Entry
  BY <1>1, WinnerPicks DEF Entry
<1> QED BY <1>1, <1>2 DEF set, StateMap

LEMMA DeltaSinceSlot ==
  ASSUME NEW m \in StateMap, NEW ts \in Nat
  PROVE  /\ delta_since(m, ts) \in StateMap
         /\ \A k \in Key : delta_since(m, ts)[k] = None
                             \/ delta_since(m, ts)[k] = m[k]
         /\ \A k \in Key : m[k] # None /\ m[k].timestamp > ts
                             => delta_since(m, ts)[k] = m[k]
BY DEF delta_since, StateMap, Entry
=============================================================================
