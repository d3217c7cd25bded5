-------------------------- MODULE LifecycleProofs --------------------------
(***************************************************************************)
(* Theorems about one process from start to exit, for every number of      *)
(* connections, inbound handlers and send tasks, and all ports.            *)
(***************************************************************************)
EXTENDS Lifecycle, TLAPS

\* The steps of Next, one disjunct for each action.
LEMMA Actions ==
  ASSUME [Next]_vars
  PROVE  \/ RpcBind \/ RpcBindFails \/ RpcStops
         \/ ListenerBind \/ ListenerBindFails \/ ListenerStops
         \/ SchedulerStops
         \/ \E t \in Conn : RpcAccept(t)
         \/ \E t \in Inbound : ListenerAccept(t)
         \/ \E targets \in SUBSET Send : GossipRound(targets)
         \/ \E t \in Spawned : BeginWork(t)
         \/ \E t \in Spawned : EndWork(t)
         \/ \E t \in Spawned : TaskFails(t)
         \/ \E t \in Spawned : ConnCancelled(t)
         \/ CtrlC \/ CtrlCFails \/ Join
         \/ UNCHANGED vars
BY DEF Next, Subsystems, Tasks

\* The configuration, the three loops and the spawned tasks keep their types; a
\* send task never waits for a second exchange.
THEOREM LifecycleTypes == Spec => []TypeOK
<1>1. Init => TypeOK
  <2> SUFFICES ASSUME Init PROVE TypeOK
    OBVIOUS
  <2>1. task \in [Spawned -> Life] /\ \A t \in Send : task[t] # "idle"
    BY DEF Init, Life, Spawned
  <2>2. main \in {"ctrl_c", "join", "exited"} /\ rpc \in Loop /\ listener \in Loop
        /\ scheduler \in {"tick", "ended"}
    BY DEF Init, Loop
  <2> QED BY <2>1, <2>2 DEF Init, TypeOK
<1>2. TypeOK /\ [Next]_vars => TypeOK'
  <2> SUFFICES ASSUME TypeOK, [Next]_vars PROVE TypeOK'
    OBVIOUS
  <2> USE DEF TypeOK, Loop, Life, subsystems, children
  <2>1. CASE RpcBind \/ RpcBindFails \/ RpcStops
    BY <2>1 DEF RpcBind, RpcBindFails, RpcStops
  <2>2. CASE ListenerBind \/ ListenerBindFails \/ ListenerStops \/ SchedulerStops
    BY <2>2 DEF ListenerBind, ListenerBindFails, ListenerStops, SchedulerStops
  <2>3. ASSUME NEW t \in Spawned, NEW l \in Life, t \in Send => l # "idle",
               task' = [task EXCEPT ![t] = l],
               UNCHANGED <<config, main, cancelled, subsystems, torn>>
        PROVE  TypeOK'
    BY <2>3
  <2>4. ASSUME NEW t \in Conn, RpcAccept(t)
        PROVE  TypeOK'
    BY <2>3, <2>4, TasksAreDistinct DEF RpcAccept, Spawned
  <2>5. ASSUME NEW t \in Inbound, ListenerAccept(t)
        PROVE  TypeOK'
    BY <2>3, <2>5, TasksAreDistinct DEF ListenerAccept, Spawned
  <2>6. ASSUME NEW targets \in SUBSET Send, GossipRound(targets)
        PROVE  TypeOK'
    BY <2>6 DEF GossipRound, Spawned
  <2>7. ASSUME NEW t \in Spawned, BeginWork(t) \/ TaskFails(t)
        PROVE  TypeOK'
    BY <2>3, <2>7, TasksAreDistinct DEF BeginWork, TaskFails
  <2>8. ASSUME NEW t \in Spawned, EndWork(t)
        PROVE  TypeOK'
    <3>1. CASE t \in Conn
      BY <2>3, <2>8, <3>1, TasksAreDistinct DEF EndWork
    <3>2. CASE t \notin Conn
      BY <2>3, <2>8, <3>2 DEF EndWork
    <3> QED BY <3>1, <3>2
  <2>9. CASE CtrlC
    BY <2>9 DEF CtrlC
  <2>10. ASSUME NEW T \in SUBSET Spawned, Drop(T)
         PROVE  /\ task' \in [Spawned -> Life] /\ \A t \in Send : task'[t] # "idle"
                /\ torn' \in SUBSET Spawned
    BY <2>10 DEF Drop, Spawned
  <2>11. ASSUME NEW t \in Spawned, ConnCancelled(t)
         PROVE  TypeOK'
    BY <2>11, <2>10 DEF ConnCancelled
  <2>12. CASE CtrlCFails \/ Join
    <3>1. Exit /\ UNCHANGED cancelled
      BY <2>12 DEF CtrlCFails, Join
    <3> QED BY <2>10, <3>1 DEF Exit
  <2>13. CASE UNCHANGED vars
    BY <2>13 DEF vars
  <2> QED BY <2>1, <2>2, <2>4, <2>5, <2>6, <2>7, <2>8, <2>9, <2>11, <2>12,
         <2>13, Actions
<1> QED BY <1>1, <1>2, PTL DEF Spec

-----------------------------------------------------------------------------
(***************************************************************************)
(* Before Ctrl-C nothing is cancelled, and the rounds go on.               *)
(***************************************************************************)
BeforeCtrlC == main = "ctrl_c" => ~cancelled /\ scheduler = "tick"

LEMMA BeforeCtrlCInvariant == Spec => []BeforeCtrlC
<1>1. Init => BeforeCtrlC
  BY DEF Init, BeforeCtrlC
<1>2. BeforeCtrlC /\ [Next]_vars => BeforeCtrlC'
  BY Actions DEF BeforeCtrlC, subsystems, children, RpcBind, RpcBindFails, RpcStops,
     ListenerBind, ListenerBindFails, ListenerStops, SchedulerStops, RpcAccept,
     ListenerAccept, GossipRound, BeginWork, EndWork, TaskFails, ConnCancelled, CtrlC,
     CtrlCFails, Join, Exit, Drop, vars
<1> QED BY <1>1, <1>2, PTL DEF Spec

\* Whichever of the two binds fails, until Ctrl-C no part stops another: rounds
\* go on and a listener that has its port keeps it (main.rs, manager.rs run).
THEOREM PartsAreIndependent == Spec => PartsIndependent
<1> DEFINE Step == main = "ctrl_c" /\ main' # "exited" =>
                     /\ scheduler' = "tick"
                     /\ rpc = "accept" => rpc' = "accept"
                     /\ listener = "accept" => listener' = "accept"
<1>1. BeforeCtrlC /\ [Next]_vars => [Step]_vars
  BY Actions DEF BeforeCtrlC, subsystems, children, RpcBind, RpcBindFails, RpcStops,
     ListenerBind, ListenerBindFails, ListenerStops, SchedulerStops, RpcAccept,
     ListenerAccept, GossipRound, BeginWork, EndWork, TaskFails, ConnCancelled, CtrlC,
     CtrlCFails, Join, Exit, Drop, vars
<1> QED BY <1>1, BeforeCtrlCInvariant, PTL DEF Spec, PartsIndependent
=============================================================================
