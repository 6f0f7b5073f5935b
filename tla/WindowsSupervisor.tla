-------------------------- MODULE WindowsSupervisor --------------------------
(***************************************************************************)
(* The Windows process manager of separan-gw: separan_gw_supervise_windows *)
(* of reference/c/src/separan_gw_supervisor.c with its children, the       *)
(* console events, and the controls of the service manager, which arrive   *)
(* on a thread of their own.                                               *)
(*                                                                         *)
(* A slot is `vacant', in its `backoff' (restart_at has not been reached)  *)
(* or has a process, which on the TCP transport first connects to a pipe   *)
(* to be handed the listener.  A process handle stays valid until it is    *)
(* closed, so pids do not matter here.  TerminateProcess and the wait      *)
(* after it are taken to end the process.                                  *)
(*                                                                         *)
(* An operator named X_Mistake is X with one mistake in it; no action uses *)
(* it, it shows which property would notice.                               *)
(***************************************************************************)
EXTENDS Naturals, FiniteSets

CONSTANT worker_count

ASSUME WorkerCountAssumption == worker_count \in 1..256

Indexes == 1..worker_count

VARIABLES
  where, index,      \* the step of the supervisor, and the slot its loop is at
  child,             \* slot -> its process, if any
  stop_requested, reload_requested,
  handler,           \* service_control_handler: "idle", or between its two exchanges
  service_status,    \* "running", "stop_pending", "stopped", or "none" on a console
  transport,         \* "pipe" or "tcp"
  deadline_over,     \* the deadline of the drain has passed
  \* history
  orphans            \* processes that were let go of while they ran

requests == <<stop_requested, reload_requested, handler, service_status>>
windowsVars == <<where, index, child, requests, transport, deadline_over, orphans>>

\* "lost": ended before it connected.  An overdue child has outlived its stop_at.
NoProcess   == {"vacant", "backoff"}
LiveProcess == {"connecting", "connected", "loading", "serving"}
Child(life, stopping) == [life |-> life, stopping |-> stopping]
NoChild == Child("vacant", "no")
BackingOff == Child("backoff", "no")

Serving  == {"start", "handover", "poll", "check", "limit", "restart", "rehandover"}
Emptying == {"stop", "sweep", "terminate", "close"}

HasProcess(i) == child[i].life \notin NoProcess
Put(i, c) == child' = [child EXCEPT ![i] = c]
Step(next, i) == where' = next /\ index' = i
NextSlot(loop, after) == IF index < worker_count THEN Step(loop, index + 1) ELSE Step(after, 1)

----------------------------------------------------------------------------
(* Starting and stopping a child.                                          *)

\* start_child up to CreateProcess: a child on TCP is then handed the listener.
Created == Child(IF transport = "tcp" THEN "connecting" ELSE "loading", "no")

\* ConnectNamedPipe, which waits without limit for the child, WSADuplicateSocket and
\* the write; the child is terminated if one of them fails.
Connected == child[index].life \in {"connected", "exited"}
HandedOver == Put(index, IF child[index].life = "connected" THEN Child("loading", "no") ELSE child[index])

\* CTRL_BREAK ends a child that has not installed its handler.
Broken(c) == Child(IF c.life = "loading" THEN "exited" ELSE c.life, "yes")
StopRequested(c) == IF c.life \in NoProcess \/ c.stopping # "no" THEN c ELSE Broken(c)

\* child_running is false: the handles are closed, and the caller's slot is empty.
Ended_Stopping(c) == c.life = "exited" \/ c.stopping # "no"
Ended(c) == c.life = "exited"
Empty(i, vacancy) ==
  IF Ended(child[i]) THEN /\ Put(i, vacancy)
                          /\ orphans' = IF child[i].life \in LiveProcess THEN orphans + 1 ELSE orphans
                     ELSE UNCHANGED <<child, orphans>>

----------------------------------------------------------------------------
(* separan_gw_supervise_windows, from the clearing of the stop flag.       *)

\* The listener or the console handler may not come about.
Enter ==
  /\ where = "reset"
  /\ \/ /\ Step("start", 1) /\ stop_requested' = FALSE
        /\ child' = [i \in Indexes |-> NoChild]
        /\ deadline_over' = FALSE
        /\ UNCHANGED <<reload_requested, handler, service_status>>
     \/ /\ Step("ended", 1) /\ UNCHANGED <<child, deadline_over, stop_requested, reload_requested, handler>>
        /\ service_status' = IF service_status = "none" THEN "none" ELSE "stopped"
  /\ UNCHANGED <<transport, orphans>>

StartupFails == /\ Put(index, NoChild) /\ Step("poll", 1)
                /\ stop_requested' = TRUE
                /\ UNCHANGED <<reload_requested, handler, service_status>>

StartChild ==
  /\ where = "start"
  /\ \/ /\ Put(index, Created) /\ UNCHANGED requests
        /\ IF transport = "tcp" THEN Step("handover", index) ELSE NextSlot("start", "poll")
     \/ StartupFails
  /\ UNCHANGED <<transport, deadline_over, orphans>>

HandOver ==
  /\ where = "handover" /\ Connected
  /\ \/ HandedOver /\ NextSlot("start", "poll") /\ UNCHANGED requests
     \/ StartupFails
  /\ UNCHANGED <<transport, deadline_over, orphans>>

PollFlag ==
  /\ where = "poll" /\ Step(IF stop_requested THEN "stop" ELSE "check", 1)
  /\ UNCHANGED <<child, requests, transport, deadline_over, orphans>>

CheckChild ==
  /\ where = "check" /\ Step("limit", index) /\ Empty(index, BackingOff)
  /\ UNCHANGED <<requests, transport, deadline_over>>

\* A child above the memory limit is asked to stop, one that is overdue terminated.
LimitChild ==
  /\ where = "limit" /\ Step("restart", index)
  /\ IF child[index].stopping = "overdue" THEN Put(index, BackingOff)
     ELSE child' = child \/ Put(index, StopRequested(child[index]))
  /\ UNCHANGED <<requests, transport, deadline_over, orphans>>

RestartFails == Put(index, BackingOff) /\ NextSlot("check", "poll")

RestartChild ==
  /\ where = "restart"
  /\ \/ child[index].life # "vacant" /\ NextSlot("check", "poll") /\ UNCHANGED child
     \/ /\ child[index].life = "vacant" /\ Put(index, Created)
        /\ IF transport = "tcp" THEN Step("rehandover", index) ELSE NextSlot("check", "poll")
     \/ child[index].life = "vacant" /\ RestartFails
  /\ UNCHANGED <<requests, transport, deadline_over, orphans>>

HandOverAgain ==
  /\ where = "rehandover" /\ Connected
  /\ \/ HandedOver /\ NextSlot("check", "poll")
     \/ RestartFails
  /\ UNCHANGED <<requests, transport, deadline_over, orphans>>

StopChild ==
  /\ where = "stop" /\ NextSlot("stop", "sweep") /\ Put(index, StopRequested(child[index]))
  /\ UNCHANGED <<requests, transport, deadline_over, orphans>>

\* The loop until no child is active or the deadline has passed.
SweepOver_NoDeadline == \A i \in Indexes : child'[i].life \in NoProcess
SweepOver == deadline_over \/ \A i \in Indexes : child'[i].life \in NoProcess
SweepChild ==
  /\ where = "sweep" /\ Empty(index, NoChild)
  /\ NextSlot("sweep", IF SweepOver THEN "terminate" ELSE "sweep")
  /\ UNCHANGED <<requests, transport, deadline_over>>

TerminateChild ==
  /\ where = "terminate" /\ NextSlot("terminate", "close") /\ Put(index, NoChild)
  /\ UNCHANGED <<requests, transport, deadline_over, orphans>>

\* The reload flag decides whether the supervisor begins anew; the stop flag is then
\* cleared, whoever has set it meanwhile.
Leave ==
  /\ where = "close" /\ reload_requested' = FALSE
  /\ IF reload_requested THEN Step("reset", 1) /\ UNCHANGED service_status
     ELSE /\ Step("ended", 1)
          /\ service_status' = IF service_status = "none" THEN "none" ELSE "stopped"
  /\ UNCHANGED <<child, stop_requested, handler, transport, deadline_over, orphans>>

SuperviseStep ==
  \/ Enter \/ StartChild \/ HandOver \/ PollFlag \/ CheckChild \/ LimitChild
  \/ RestartChild \/ HandOverAgain \/ StopChild \/ SweepChild \/ TerminateChild \/ Leave

----------------------------------------------------------------------------
(* Time, the children, the controls.                                       *)

DeadlinePassed ==
  /\ where = "sweep" /\ ~deadline_over /\ deadline_over' = TRUE
  /\ UNCHANGED <<where, index, child, requests, transport, orphans>>

ChildChanges(i, c) == Put(i, c) /\ UNCHANGED <<where, index, requests, transport, deadline_over, orphans>>

RestartDue(i) == child[i] = BackingOff /\ ChildChanges(i, NoChild)
StopOverdue(i) == child[i].stopping = "yes" /\ ChildChanges(i, [child[i] EXCEPT !.stopping = "overdue"])

\* separan_gw_receive_windows_tcp_socket, and the worker that installs its handler.
ChildConnects(i) == child[i].life = "connecting" /\ ChildChanges(i, [child[i] EXCEPT !.life = "connected"])
ChildServes(i) == child[i].life = "loading" /\ ChildChanges(i, [child[i] EXCEPT !.life = "serving"])

\* It ends by itself: a stop it was asked for, a limit, a configuration it cannot read.
ChildEnds(i) ==
  /\ child[i].life \in LiveProcess
  /\ ChildChanges(i, [child[i] EXCEPT !.life = IF @ = "connecting" THEN "lost" ELSE "exited"])

\* service_control_handler; a control is sent only while it is accepted.
ControlArrives == service_status = "running" /\ handler = "idle"
StopControl ==
  /\ ControlArrives /\ stop_requested' = TRUE /\ service_status' = "stop_pending"
  /\ UNCHANGED <<where, index, child, reload_requested, handler, transport, deadline_over, orphans>>
ParamChange ==
  /\ ControlArrives /\ reload_requested' = TRUE /\ handler' = "reload"
  /\ UNCHANGED <<where, index, child, stop_requested, service_status, transport, deadline_over, orphans>>
ParamChangeStops ==
  /\ handler = "reload" /\ stop_requested' = TRUE /\ handler' = "idle"
  /\ UNCHANGED <<where, index, child, reload_requested, service_status, transport, deadline_over, orphans>>

\* supervisor_console_handler, or the default action where it is not installed.
ConsoleEvent ==
  /\ service_status = "none" /\ where # "ended"
  /\ IF where \in {"reset", "close"} THEN Step("ended", 1) /\ UNCHANGED stop_requested
     ELSE stop_requested' = TRUE /\ UNCHANGED <<where, index>>
  /\ UNCHANGED <<child, reload_requested, handler, service_status, transport, deadline_over, orphans>>

----------------------------------------------------------------------------
WindowsInit ==
  /\ where = "reset" /\ index = 1 /\ child = [i \in Indexes |-> NoChild]
  /\ stop_requested = FALSE /\ reload_requested = FALSE /\ handler = "idle"
  /\ service_status \in {"running", "none"} /\ transport \in {"pipe", "tcp"}
  /\ deadline_over = FALSE /\ orphans = 0

WindowsNext ==
  \/ SuperviseStep \/ DeadlinePassed \/ StopControl \/ ParamChange \/ ParamChangeStops \/ ConsoleEvent
  \/ \E i \in Indexes : RestartDue(i) \/ StopOverdue(i) \/ ChildConnects(i) \/ ChildServes(i) \/ ChildEnds(i)

WindowsSpec == WindowsInit /\ [][WindowsNext]_windowsVars

----------------------------------------------------------------------------
\* Every variable has its type.
WindowsTypeOK ==
  /\ where \in Serving \cup Emptying \cup {"reset", "ended"} /\ index \in Indexes
  /\ child \in [Indexes -> [life : NoProcess \cup LiveProcess \cup {"exited", "lost"},
                            stopping : {"no", "yes", "overdue"}]]
  /\ stop_requested \in BOOLEAN /\ reload_requested \in BOOLEAN /\ handler \in {"idle", "reload"}
  /\ service_status \in {"running", "stop_pending", "stopped", "none"} /\ transport \in {"pipe", "tcp"}
  /\ deadline_over \in BOOLEAN /\ orphans \in Nat

\* The supervisor keeps the promise of WorkerPool: children that are stopped for their
\* memory, terminated or replaced in a slot never are more than configured, a drain gains
\* none, and it ends or begins anew with none left.
WindowsPool == INSTANCE WorkerPool WITH
  Workers <- worker_count,
  phase <- IF where \in Serving THEN "running" ELSE IF where \in Emptying THEN "draining" ELSE "down",
  live  <- Cardinality({i \in Indexes : child[i].life \in LiveProcess}) + orphans
WindowsPoolKept == []WindowsTypeOK /\ WindowsPool!Spec

\* As long as every handover ends, a stop or a reload completes, whatever the children
\* do; and a stop control that meets a pool with no reload requested ends the service
\* ("SCM stop and shutdown controls drain workers", docs/separan-gw.md).
HandoversEnd == []<>(where \notin {"handover", "rehandover"})
StopTaken == service_status = "stop_pending" /\ stop_requested /\ ~reload_requested /\ where # "reset"
WindowsStops == /\ stop_requested ~> where \in {"reset", "ended"}
                /\ StopTaken ~> service_status = "stopped"
WindowsStopCompletes == HandoversEnd => WindowsStops

\* Every stop control ends the service, also one that arrives during a reload.
ServiceStops == service_status = "stop_pending" ~> service_status = "stopped"
=============================================================================
