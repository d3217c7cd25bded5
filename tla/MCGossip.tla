------------------------------ MODULE MCGossip ------------------------------
(***************************************************************************)
(* Small clusters for TLC.  Seeds are functions, which a .cfg cannot name. *)
(***************************************************************************)
EXTENDS Gossip, TLC

\* Node 1 is started without seeds, every other node with node 1's address.
StarSeeds == [n \in Node |-> IF n = 1 THEN {} ELSE {1}]

\* Nothing distinguishes two keys, two values or two tasks.
Interchangeable ==
  Permutations(Key) \cup Permutations(Value) \cup Permutations(Task)
=============================================================================
