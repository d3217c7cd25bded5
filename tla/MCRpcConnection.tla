-------------------------- MODULE MCRpcConnection --------------------------
(***************************************************************************)
(* Small instances of RpcConnection for TLC.                               *)
(***************************************************************************)
EXTENDS RpcConnection

CONSTANTS k1, k2

Ask(method, prefix, id) == [method |-> method, key |-> k1, prefix |-> prefix, id |-> id]

SubscribeAll == Ask("subscribe", Key, TRUE)
SubscribeOne == Ask("subscribe", {k1}, TRUE)

\* Every kind of line a client can send; the write is sent as a notification.
AllKinds == {SubscribeAll, SubscribeOne, Ask("read", Key, TRUE),
             Ask("set", Key, FALSE), Ask("malformed", Key, TRUE),
             Ask("blank", Key, TRUE)}

\* A subscription and a plain call.
SubscribeAndRead == {SubscribeAll, Ask("read", Key, TRUE)}
=============================================================================
