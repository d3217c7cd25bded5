----------------------------- MODULE SyncStatus -----------------------------
(***************************************************************************)
(* sync.status (rpc/handler.rs), called again and again by the client of   *)
(* module Mirror, which compares each reply with its copy and with the     *)
(* reply before.  The handler takes the store's read lock once for each    *)
(* field, so tasks write between the two reads and a reply may belong to   *)
(* no single state of the store.  The number of peers, which it takes from *)
(* the peer table, and the node id are left out.                           *)
(***************************************************************************)
EXTENDS Mirror, FiniteSetsExt

\* A HashMap has a length.
ASSUME KeysAreFinite == IsFiniteSet(Key)

VARIABLES
  status,  \* the fields of the reply read so far, None when no call is under way
  known,   \* what the client had seen of each field when it made the call
  counted  \* history: the highest timestamp among the entries that were counted

call  == <<status, known, counted>>
svars == <<mvars, call>>

-----------------------------------------------------------------------------
Field == {"state_size", "max_timestamp"}

state_keys(m) == {k \in Key : m[k] # None}

len(m) == Cardinality(state_keys(m))

max_timestamp(m) == Max({0} \cup {m[k].timestamp : k \in state_keys(m)})

\* What each field of the reply is computed from a map.
sync_status(m) == [state_size |-> len(m), max_timestamp |-> max_timestamp(m)]

\* Fault: the fields are read in the opposite order.
ReadBefore_Swapped(f) == {"max_timestamp"} \ {f}

\* json! evaluates the fields in the order in which they are written: those that
\* have been read when f is.
ReadBefore(f) == {"state_size"} \ {f}

Unread == [f \in Field |-> None]

NothingKnown == [f \in Field |-> 0]

Complete == status # None /\ \A f \in Field : status[f] # None

Larger(r, s) == [f \in Field |-> IF r[f] < s[f] THEN s[f] ELSE r[f]]

\* The client calls sync.status, knowing its copy and the replies before.
StatusCall ==
  /\ status = None
  /\ status' = Unread
  /\ known' = Larger(known, sync_status(mirror))
  /\ UNCHANGED <<mvars, counted>>

\* handle_sync_status reads one more field, under a lock of its own.
StatusRead(f) ==
  /\ status # None
  /\ status[f] = None
  /\ \A g \in ReadBefore(f) : status[g] # None
  /\ status' = [status EXCEPT ![f] = sync_status(state)[f]]
  /\ counted' = IF f = "state_size" THEN max_timestamp(state) ELSE counted
  /\ UNCHANGED <<mvars, known>>

StatusReply ==
  /\ Complete
  /\ status' = None
  /\ known' = Larger(known, status)
  /\ UNCHANGED <<mvars, counted>>

-----------------------------------------------------------------------------
StatusInit ==
  /\ MirrorInit
  /\ status = None
  /\ known = NothingKnown
  /\ counted = 0

StatusNext ==
  \/ MirrorNext /\ UNCHANGED call
  \/ StatusCall
  \/ \E f \in Field : StatusRead(f)
  \/ StatusReply

StatusSpec == StatusInit /\ [][StatusNext]_svars

-----------------------------------------------------------------------------
(***************************************************************************)
(* Properties                                                              *)
(***************************************************************************)

\* A reply is as good as one read under one lock for what a client does with it,
\* however tasks write between the two reads (handler.rs reads the size first):
\* no entry that was counted is newer than the reported max_timestamp; neither
\* field is below the client's copy or an earlier reply, as they were when it
\* asked; and neither is ahead of the store.
StatusConsistent ==
  Complete =>
    /\ counted =< status.max_timestamp
    /\ \A f \in Field :
         known[f] =< status[f] /\ status[f] =< sync_status(state)[f]
=============================================================================
