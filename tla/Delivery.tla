------------------------------ MODULE Delivery ------------------------------
(***************************************************************************)
(* What one push of a delta promises, whatever the network does: the       *)
(* message is merged at most once, and whole; the sender reports success   *)
(* only after that; and when it reports an error the message may have been *)
(* merged, or may yet be.                                                  *)
(*                                                                         *)
(* An exchange of module Gossip is "sent" while pending and not merged,    *)
(* "merged" while pending and merged, and "orphaned" when the sender has   *)
(* given up on a message that is not merged.                               *)
(***************************************************************************)
VARIABLES
  outcome,  \* what send_and_ack has returned
  merges    \* how often the receiver has merged the message, or a part of it

Init == outcome = "pending" /\ merges = <<>>

Merge ==
  /\ merges = <<>>
  /\ merges' = <<"whole">>
  /\ UNCHANGED outcome

Succeed ==
  /\ outcome = "pending"
  /\ merges = <<"whole">>
  /\ outcome' = "ok"
  /\ UNCHANGED merges

GiveUp ==
  /\ outcome = "pending"
  /\ outcome' = "err"
  /\ UNCHANGED merges

Next == Merge \/ Succeed \/ GiveUp

Spec == Init /\ [][Next]_<<outcome, merges>>
=============================================================================
