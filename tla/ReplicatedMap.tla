--------------------------- MODULE ReplicatedMap ---------------------------
(***************************************************************************)
(* What replication promises, without peers, watermarks or messages: a map *)
(* of last-write-wins registers with one replica per node.  It is meant to *)
(* be implemented, not run: a step is described by the change it makes.    *)
(***************************************************************************)
EXTENDS Lww

VARIABLES
  rep,     \* rep[n]: the state a client of node n sees
  written  \* <<key, entry>> for every write that took effect at its author

Newer(e, f) == f # None /\ (e = None \/ StampLess(e, f))

Init ==
  /\ rep = [n \in Node |-> EmptyMap]
  /\ written = {}

(***************************************************************************)
(* A client's write takes effect at node n: it beats what the replica has, *)
(* and its stamp belongs to no other write of that key.                    *)
(***************************************************************************)
Write(n, k) ==
  /\ rep' = [rep EXCEPT ![n][k] = rep'[n][k]]
  /\ Newer(rep[n][k], rep'[n][k])
  /\ rep'[n][k].node_id = n
  /\ \A w \in written : w[1] = k => ~SameStamp(w[2], rep'[n][k])
  /\ written' = written \cup {<<k, rep'[n][k]>>}

(***************************************************************************)
(* Replica n learns of writes, in any order: each key keeps its entry or   *)
(* takes a newer one that some client wrote.                               *)
(***************************************************************************)
Join(n) ==
  /\ rep' = [rep EXCEPT ![n] = rep'[n]]
  /\ \A k \in Key : \/ rep'[n][k] = rep[n][k]
                    \/ /\ Newer(rep[n][k], rep'[n][k])
                       /\ <<k, rep'[n][k]>> \in written
  /\ UNCHANGED written

Next == \E n \in Node : Join(n) \/ \E k \in Key : Write(n, k)

Spec == Init /\ [][Next]_<<rep, written>>
=============================================================================
