------------------------------ MODULE MCMirror ------------------------------
(***************************************************************************)
(* A small instance of SyncStatus, and of Mirror inside it, for TLC.       *)
(*                                                                         *)
(* A client either keeps a copy or polls sync.status.  The two share only  *)
(* the store, and both at once is beyond TLC at these bounds: a client     *)
(* that compares the replies with its copy is left to MirrorProofs.        *)
(***************************************************************************)
EXTENDS SyncStatus

Apart == next = None \/ call = <<None, NothingKnown, 0>>

MCSpec ==
  /\ StatusInit
  /\ [][StatusNext /\ Apart']_svars
  /\ MirrorFairness
=============================================================================
