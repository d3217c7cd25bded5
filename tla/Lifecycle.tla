----------------------------- MODULE Lifecycle -----------------------------
(***************************************************************************)
(* One process from start to exit: main.rs, rpc_server::run with its       *)
(* accept loop, GossipManager::run with its listener and scheduler, and    *)
(* the tasks they spawn and nobody joins.                                  *)
(*                                                                         *)
(* Gossip and requests are reduced to what the end of the process can      *)
(* interrupt: a spawned task is between two pieces of work ("idle"), or in *)
(* the middle of one ("busy": a request is applied and its reply not       *)
(* written, a delta is sent and its ack not recorded, a delta is merged    *)
(* and its ack not written).                                               *)
(***************************************************************************)
EXTENDS Integers, FiniteSets

CONSTANTS
  Port,    \* the ports in the configuration
  Conn,    \* RPC connection tasks
  Inbound, \* handle_inbound tasks
  Send     \* send tasks

Spawned == Conn \cup Inbound \cup Send

ASSUME TasksAreDistinct ==
  /\ Conn \cap Inbound = {}
  /\ (Conn \cup Inbound) \cap Send = {}

VARIABLES
  config,     \* rpc_port and gossip_port; both listeners bind the same host
  main,       \* "ctrl_c", "join" or "exited"
  cancelled,  \* the CancellationToken
  rpc,        \* rpc_server::run
  listener,   \* run_listener
  scheduler,  \* run_scheduler
  task,       \* task[t] for the spawned tasks
  torn        \* history: tasks the process itself cut in the middle of work

vars == <<config, main, cancelled, rpc, listener, scheduler, task, torn>>
subsystems == <<rpc, listener, scheduler>>
children   == <<task, torn>>

Loop == {"bind", "accept", "ended"}
Life == {"none", "idle", "busy", "ended"}
Alive(t) == task[t] \in {"idle", "busy"}
Running  == main # "exited"

Config == [rpc_port : Port, gossip_port : Port]

rpc_addr    == <<"host", config.rpc_port>>
gossip_addr == <<"host", config.gossip_port>>

\* The addresses this process listens on.
Bound == {a \in {rpc_addr} : rpc = "accept"} \cup {a \in {gossip_addr} : listener = "accept"}

-----------------------------------------------------------------------------
(***************************************************************************)
(* rpc_server::run.  It returns when it cannot bind, and otherwise when    *)
(* the cancelled() arm of its select! is chosen.                           *)
(***************************************************************************)
RpcBind ==
  /\ Running /\ rpc = "bind" /\ rpc_addr \notin Bound
  /\ rpc' = "accept"
  /\ UNCHANGED <<config, main, cancelled, listener, scheduler, children>>

\* The address is taken, by this process or by another one.
RpcBindFails ==
  /\ Running /\ rpc = "bind"
  /\ rpc' = "ended"
  /\ UNCHANGED <<config, main, cancelled, listener, scheduler, children>>

RpcAccept(t) ==
  /\ Running /\ rpc = "accept"
  /\ t \in Conn /\ task[t] = "none"
  /\ task' = [task EXCEPT ![t] = "idle"]
  /\ UNCHANGED <<config, main, cancelled, subsystems, torn>>

RpcStops ==
  /\ Running /\ rpc = "accept" /\ cancelled
  /\ rpc' = "ended"
  /\ UNCHANGED <<config, main, cancelled, listener, scheduler, children>>

(***************************************************************************)
(* GossipManager::run spawns the listener and the scheduler and joins      *)
(* them, so it has ended when both have.                                   *)
(***************************************************************************)
GossipEnded == listener = "ended" /\ scheduler = "ended"

ListenerBind ==
  /\ Running /\ listener = "bind" /\ gossip_addr \notin Bound
  /\ listener' = "accept"
  /\ UNCHANGED <<config, main, cancelled, rpc, scheduler, children>>

\* Fault: a listener that cannot bind takes the scheduler with it.
ListenerBindFails_Both ==
  /\ Running /\ listener = "bind"
  /\ listener' = "ended" /\ scheduler' = "ended"
  /\ UNCHANGED <<config, main, cancelled, rpc, children>>

ListenerBindFails ==
  /\ Running /\ listener = "bind"
  /\ listener' = "ended"
  /\ UNCHANGED <<config, main, cancelled, rpc, scheduler, children>>

ListenerAccept(t) ==
  /\ Running /\ listener = "accept"
  /\ t \in Inbound /\ task[t] = "none"
  /\ task' = [task EXCEPT ![t] = "idle"]
  /\ UNCHANGED <<config, main, cancelled, subsystems, torn>>

ListenerStops ==
  /\ Running /\ listener = "accept" /\ cancelled
  /\ listener' = "ended"
  /\ UNCHANGED <<config, main, cancelled, rpc, scheduler, children>>

\* gossip_round spawns a task for each target and awaits none of them.
GossipRound(targets) ==
  /\ Running /\ scheduler = "tick"
  /\ targets # {} /\ \A t \in targets : t \in Send /\ task[t] = "none"
  /\ task' = [t \in Spawned |-> IF t \in targets THEN "busy" ELSE task[t]]
  /\ UNCHANGED <<config, main, cancelled, subsystems, torn>>

\* Fault: a round waits for the send tasks it has spawned.
SchedulerStops_AwaitsSends ==
  /\ Running /\ scheduler = "tick" /\ cancelled
  /\ \A t \in Send : task[t] # "busy"
  /\ scheduler' = "ended"
  /\ UNCHANGED <<config, main, cancelled, rpc, listener, children>>

SchedulerStops ==
  /\ Running /\ scheduler = "tick" /\ cancelled
  /\ scheduler' = "ended"
  /\ UNCHANGED <<config, main, cancelled, rpc, listener, children>>

-----------------------------------------------------------------------------
(***************************************************************************)
(* The spawned tasks.                                                      *)
(***************************************************************************)
\* The process drops the tasks in T, each at the .await it has reached.
Drop(T) ==
  /\ task' = [t \in Spawned |-> IF t \in T /\ Alive(t) THEN "ended" ELSE task[t]]
  /\ torn' = torn \cup {t \in T : task[t] = "busy"}

\* A request is dispatched, or a delta read and merged.
BeginWork(t) ==
  /\ Running /\ t \in Conn \cup Inbound /\ task[t] = "idle"
  /\ task' = [task EXCEPT ![t] = "busy"]
  /\ UNCHANGED <<config, main, cancelled, subsystems, torn>>

\* Fault: every task waits for more work, as if gossip connections were kept.
EndWork_Waits(t) ==
  /\ Running /\ task[t] = "busy"
  /\ task' = [task EXCEPT ![t] = "idle"]
  /\ UNCHANGED <<config, main, cancelled, subsystems, torn>>

\* The reply is written, the ack is written, the exchange is recorded.  A
\* connection then waits for the next request, the others have ended.
EndWork(t) ==
  /\ Running /\ task[t] = "busy"
  /\ task' = [task EXCEPT ![t] = IF t \in Conn THEN "idle" ELSE "ended"]
  /\ UNCHANGED <<config, main, cancelled, subsystems, torn>>

\* The other end is gone, or the connect or ack times out.
TaskFails(t) ==
  /\ Running /\ Alive(t)
  /\ task' = [task EXCEPT ![t] = "ended"]
  /\ UNCHANGED <<config, main, cancelled, subsystems, torn>>

\* Only connection tasks hold the token, and they look at it between requests.
ConnCancelled(t) ==
  /\ Running /\ cancelled /\ t \in Conn /\ task[t] = "idle"
  /\ Drop({t})
  /\ UNCHANGED <<config, main, cancelled, subsystems>>

-----------------------------------------------------------------------------
(***************************************************************************)
(* main.  When it returns the runtime is dropped, and every task with it.  *)
(***************************************************************************)
Exit ==
  /\ main' = "exited"
  /\ rpc' = "ended" /\ listener' = "ended" /\ scheduler' = "ended"
  /\ Drop(Spawned)
  /\ UNCHANGED config

CtrlC ==
  /\ main = "ctrl_c"
  /\ main' = "join"
  /\ cancelled' = TRUE
  /\ UNCHANGED <<config, subsystems, children>>

\* The signal handler cannot be installed: `?` leaves main at once.
CtrlCFails == main = "ctrl_c" /\ Exit /\ UNCHANGED cancelled

Join == main = "join" /\ rpc = "ended" /\ GossipEnded /\ Exit /\ UNCHANGED cancelled

-----------------------------------------------------------------------------
Init ==
  /\ config \in Config
  /\ main = "ctrl_c" /\ cancelled = FALSE
  /\ rpc = "bind" /\ listener = "bind" /\ scheduler = "tick"
  /\ task = [t \in Spawned |-> "none"]
  /\ torn = {}

Subsystems ==
  \/ RpcBind \/ RpcBindFails \/ RpcStops
  \/ ListenerBind \/ ListenerBindFails \/ ListenerStops
  \/ SchedulerStops
  \/ \E t \in Conn : RpcAccept(t)
  \/ \E t \in Inbound : ListenerAccept(t)
  \/ \E targets \in SUBSET Send : GossipRound(targets)

Tasks ==
  \E t \in Spawned : BeginWork(t) \/ EndWork(t) \/ TaskFails(t) \/ ConnCancelled(t)

Next == Subsystems \/ Tasks \/ CtrlC \/ CtrlCFails \/ Join

Spec == Init /\ [][Next]_vars

(***************************************************************************)
(* Fairness.  A bind returns; select! tries its arms in random order, so   *)
(* the cancelled() arm is chosen in the end however many connections       *)
(* arrive; main goes on when its join is complete.  Nothing is assumed of  *)
(* the spawned tasks: a client may never read, a peer never answer.        *)
(***************************************************************************)
FairSpec ==
  /\ Spec
  /\ WF_vars(RpcBind \/ RpcBindFails) /\ WF_vars(RpcStops)
  /\ WF_vars(ListenerBind \/ ListenerBindFails) /\ WF_vars(ListenerStops)
  /\ WF_vars(SchedulerStops)
  /\ WF_vars(Join)

-----------------------------------------------------------------------------
(***************************************************************************)
(* Properties                                                              *)
(***************************************************************************)

\* Every variable keeps its type; a send task lives for one exchange.
TypeOK ==
  /\ config \in Config
  /\ main \in {"ctrl_c", "join", "exited"}
  /\ cancelled \in BOOLEAN
  /\ rpc \in Loop /\ listener \in Loop
  /\ scheduler \in {"tick", "ended"}
  /\ task \in [Spawned -> Life] /\ \A t \in Send : task[t] # "idle"
  /\ torn \in SUBSET Spawned

\* After Ctrl-C the process ends, whichever binds failed and whatever its
\* connections, inbound handlers and send tasks are stuck in.
ShutdownCompletes == cancelled ~> main = "exited"

\* Until Ctrl-C a part that fails takes no other with it: whichever port could
\* not be bound, the node goes on with its rounds, and a listener that got its
\* port keeps accepting.
PartsIndependent ==
  [][main = "ctrl_c" /\ main' # "exited" =>
       /\ scheduler' = "tick"
       /\ rpc = "accept" => rpc' = "accept"
       /\ listener = "accept" => listener' = "accept"]_vars

\* main waits "for all subsystems to drain and exit cleanly" (main.rs): a process
\* that was told to stop leaves no request or exchange half done.
DrainsCleanly == main = "exited" /\ cancelled => torn = {}
=============================================================================
