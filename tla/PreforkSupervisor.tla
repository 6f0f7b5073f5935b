-------------------------- MODULE PreforkSupervisor --------------------------
(***************************************************************************)
(* The POSIX process manager of separan-gw on a Unix-domain listener:      *)
(* supervise_socket_workers, start_socket_worker and                       *)
(* serve_socket_connections of reference/c/src/separan_gw_fastcgi.c, the   *)
(* signals they handle, fork, waitpid and kill.                            *)
(*                                                                         *)
(* The supervisor keeps a pid per slot in `children': 0 for none, -1 when  *)
(* fork failed.  waitpid(-1) and kill(-1) then mean "any child" and "every *)
(* process", which is why both values are kept apart here.  A pid that was *)
(* reaped may be given to another process.  Clocks are abstracted to two   *)
(* events: a backoff that elapses and a grace period that ends.            *)
(*                                                                         *)
(* An operator named X_Mistake is X with one mistake in it; no action uses *)
(* it, it shows which property would notice.                               *)
(***************************************************************************)
EXTENDS Integers, FiniteSets

CONSTANTS
  Workers,       \* workers of the configuration, 1..256
  Pids,          \* process ids the system hands out, more than Workers
  Bounds         \* bounds: pairs of forks that fail and times the image is executed
                 \* again, in one behaviour

ASSUME WorkersAssumption == Workers \in Nat \ {0}
ASSUME PidsAssumption == Pids \subseteq Nat \ {0} /\ IsFiniteSet(Pids)
ASSUME BoundsAssumption == Bounds \subseteq Nat \X Nat

Slots == 1..Workers

VARIABLES
  \* the supervisor
  pc, at,        \* where it is, and the slot its loop is at
  children,      \* slot -> pid, 0, or -1
  waiting,       \* slot -> its restart_at has not been reached
  supervisor_stop_requested, supervisor_reload_requested,
  startup_failed,
  grace_over,    \* the deadline of the drain has passed
  \* the system
  path,          \* the socket path exists
  proc,          \* pid -> the worker process that has it
  failures, reloads, \* so far
  \* history
  stray          \* a signal went to something that is not a worker of the pool

flags == <<supervisor_stop_requested, supervisor_reload_requested>>
slots == <<children, waiting>>
system == <<path, failures, reloads>>
vars == <<pc, at, slots, flags, startup_failed, grace_over, proc, system, stray>>

Running  == {"startup", "poll", "reap", "restart"}
Draining == {"term", "drain", "kill", "wait", "restore"}
Down     == {"boot", "bound", "close", "exited", "killed"}
Handled  == Running \cup Draining   \* where its signal handlers are installed

\* A worker: where it is in serve_socket_connections, its worker_stop_requested,
\* and (history) whether a SIGTERM was sent to it and the requests it has
\* finished since (since its handler took one, if it did), counted to 2.
Process(state, stop, termed, after) ==
  [state |-> state, stop |-> stop, termed |-> termed, after |-> after]
Free == Process("free", FALSE, FALSE, 0)
Live == {"new", "check", "accepting", "blocked", "idle", "request"}
Processes == [state : Live \cup {"free", "zombie"}, stop : BOOLEAN, termed : BOOLEAN, after : 0..2]

LiveWorkers == {p \in Pids : proc[p].state \in Live}
Children    == {p \in Pids : proc[p].state # "free"}
Zombies     == {p \in Pids : proc[p].state = "zombie"}

----------------------------------------------------------------------------
(* fork, waitpid and kill.                                                 *)

WithinBounds(f, l) == \E bound \in Bounds : f <= bound[1] /\ l <= bound[2]

NewWorker == Process("new", FALSE, FALSE, 0)

\* start_socket_worker in the parent: the slot takes the child, or -1.
Fork(i, failed) ==
  \/ \E p \in Pids \ Children :
       /\ proc' = [proc EXCEPT ![p] = NewWorker]
       /\ children' = [children EXCEPT ![i] = p]
       /\ ~failed /\ UNCHANGED failures
  \/ /\ failed /\ WithinBounds(failures + 1, reloads)
     /\ failures' = failures + 1
     /\ children' = [children EXCEPT ![i] = -1]
     /\ UNCHANGED proc

\* waitpid(c, WNOHANG) lets the caller clear its slot: it reaped c, or there
\* is no such child.  waitpid(-1) reaps any child, which is not what it asked.
Gone_AnyResult(c) == TRUE
Gone(c) == IF c = -1 THEN Children = {} ELSE c \notin LiveWorkers
Reaps(c) == IF c = -1
            THEN IF Zombies = {} THEN UNCHANGED proc
                 ELSE \E p \in Zombies : proc' = [proc EXCEPT ![p] = Free]
            ELSE IF c \in Zombies THEN proc' = [proc EXCEPT ![c] = Free] ELSE UNCHANGED proc

\* The SIGTERM handler a worker has: until start_socket_worker installs its
\* own, that of the supervisor, which sets a flag the worker never reads.  It
\* interrupts accept, after which the loop starts over.
Termed(w) ==
  CASE w.state \in {"free", "zombie"} -> w
    [] w.state = "new"     -> [w EXCEPT !.termed = TRUE]
    [] w.state \in Live \ {"new"} ->
         Process(IF w.state = "blocked" THEN "check" ELSE w.state, TRUE, TRUE,
                 IF w.stop THEN w.after ELSE 0)
Killed(w) == IF w.state \in Live THEN [w EXCEPT !.state = "zombie"] ELSE w

\* kill(c), where `after' is what each worker would become: it goes to a worker
\* not reaped yet, or to everything.
Kill(c, after) ==
  /\ proc' = [p \in Pids |-> IF c \in {p, -1} THEN after[p] ELSE proc[p]]
  /\ stray' = (stray \/ c \notin Children)

----------------------------------------------------------------------------
(* The supervisor.                                                         *)

Goto(label, i) == pc' = label /\ at' = i
Advance_PastEnd(label, after) == IF at <= Workers THEN Goto(label, at + 1) ELSE Goto(after, 1)
Advance(label, after) == IF at < Workers THEN Goto(label, at + 1) ELSE Goto(after, 1)

\* separan_gw_run_fastcgi_unix: a path that exists is refused.
Bind ==
  /\ pc = "boot"
  /\ IF path THEN Goto("exited", 1) ELSE Goto("bound", 1)
  /\ path' = TRUE
  /\ UNCHANGED <<slots, flags, startup_failed, grace_over, proc, failures, reloads, stray>>

\* The locals, the flags and the handlers of supervise_socket_workers.
InstallHandlers ==
  /\ pc = "bound" /\ Goto("startup", 1)
  /\ children' = [i \in Slots |-> 0] /\ waiting' = [i \in Slots |-> FALSE]
  /\ supervisor_stop_requested' = FALSE /\ supervisor_reload_requested' = FALSE
  /\ startup_failed' = FALSE /\ grace_over' = FALSE
  /\ UNCHANGED <<proc, system, stray>>

\* The forks of the start: one that fails ends them and stops the pool.
StartWorker ==
  /\ pc = "startup"
  /\ \/ Fork(at, FALSE) /\ Advance("startup", "poll") /\ UNCHANGED <<flags, startup_failed>>
     \/ /\ Fork(at, TRUE) /\ Goto("poll", 1)
        /\ startup_failed' = TRUE /\ supervisor_stop_requested' = TRUE
        /\ UNCHANGED supervisor_reload_requested
  /\ UNCHANGED <<waiting, grace_over, path, reloads, stray>>

\* while (!supervisor_stop_requested), tested after a sleep of 25 ms.
Poll ==
  /\ pc = "poll"
  /\ Goto(IF supervisor_stop_requested THEN "term" ELSE "reap", 1)
  /\ UNCHANGED <<slots, flags, startup_failed, grace_over, proc, system, stray>>

\* The slot of a worker that ended is cleared and its backoff starts.
PollSlot ==
  /\ pc = "reap" /\ Goto("restart", at)
  /\ IF children[at] = 0 THEN UNCHANGED <<slots, proc>>
     ELSE /\ Reaps(children[at])
          /\ IF Gone(children[at])
             THEN /\ children' = [children EXCEPT ![at] = 0]
                  /\ waiting' = [waiting EXCEPT ![at] = TRUE]
             ELSE UNCHANGED slots
  /\ UNCHANGED <<flags, startup_failed, grace_over, system, stray>>

\* if (!children[index] && now >= restart_at[index]).
Vacant_Backwards(i) == children[i] = 0 /\ waiting[i]
Vacant(i) == children[i] = 0 /\ ~waiting[i]

RestartSlot ==
  /\ pc = "restart" /\ Advance("reap", "poll")
  /\ \/ Vacant(at) /\ Fork(at, FALSE) /\ UNCHANGED waiting
     \/ Vacant(at) /\ Fork(at, TRUE) /\ waiting' = [waiting EXCEPT ![at] = TRUE]
     \/ ~Vacant(at) /\ UNCHANGED <<slots, proc, failures>>
  /\ UNCHANGED <<flags, startup_failed, grace_over, path, reloads, stray>>

BackoffElapses(i) ==
  /\ waiting[i] /\ waiting' = [waiting EXCEPT ![i] = FALSE]
  /\ UNCHANGED <<pc, at, children, flags, startup_failed, grace_over, proc, system, stray>>

\* if (children[index]).
Occupied_Always(i) == TRUE
Occupied_NotLast(i) == children[i] # 0 /\ i < Workers
Occupied(i) == children[i] # 0

\* SIGTERM to every worker; the grace period starts after the last.
TermSlot ==
  /\ pc = "term" /\ Advance("term", "drain")
  /\ IF Occupied(at) THEN Kill(children[at], [p \in Pids |-> Termed(proc[p])]) ELSE UNCHANGED <<proc, stray>>
  /\ UNCHANGED <<slots, flags, startup_failed, grace_over, system>>

GraceEnds ==
  /\ pc = "drain" /\ ~grace_over /\ grace_over' = TRUE
  /\ UNCHANGED <<pc, at, slots, flags, startup_failed, proc, system, stray>>

Remaining == {i \in Slots : children[i] # 0}
DrainOver_NoDeadline == Remaining' = {}
DrainOver == Remaining' = {} \/ grace_over

\* The sweep that waits for the workers to end.
DrainSlot ==
  /\ pc = "drain"
  /\ IF children[at] = 0 THEN UNCHANGED <<children, proc>>
     ELSE /\ Reaps(children[at])
          /\ IF Gone(children[at]) THEN children' = [children EXCEPT ![at] = 0]
                                   ELSE UNCHANGED children
  /\ IF at < Workers THEN Goto("drain", at + 1)
     ELSE Goto(IF DrainOver THEN "kill" ELSE "drain", 1)
  /\ UNCHANGED <<waiting, flags, startup_failed, grace_over, system, stray>>

\* SIGKILL to what is left, and waitpid for each.
KillSlot ==
  /\ pc = "kill"
  /\ IF Occupied(at) THEN /\ Kill(children[at], [p \in Pids |-> Killed(proc[p])])
          /\ Goto("wait", at)
     ELSE Advance("kill", "restore") /\ UNCHANGED <<proc, stray>>
  /\ UNCHANGED <<slots, flags, startup_failed, grace_over, system>>

\* waitpid(c, 0) returns: c ended, any child did, or there is none to wait for.
Waited(c) == IF c = -1 THEN Zombies # {} \/ Children = {} ELSE c \notin LiveWorkers
WaitSlot ==
  /\ pc = "wait" /\ Waited(children[at])
  /\ Reaps(children[at]) /\ Advance("kill", "restore")
  /\ UNCHANGED <<slots, flags, startup_failed, grace_over, system, stray>>

RestoreHandlers ==
  /\ pc = "restore" /\ Goto("close", 1)
  /\ UNCHANGED <<slots, flags, startup_failed, grace_over, proc, system, stray>>

\* unlink, then separan_gw_reload_process or the end; exec may fail.  The flags
\* are those of the new image.
Close ==
  /\ pc = "close" /\ path' = FALSE
  /\ \/ /\ supervisor_reload_requested /\ WithinBounds(failures, reloads + 1)
        /\ reloads' = reloads + 1 /\ Goto("boot", 1)
        /\ supervisor_stop_requested' = FALSE /\ supervisor_reload_requested' = FALSE
     \/ Goto("exited", 1) /\ UNCHANGED <<reloads, flags>>
  /\ UNCHANGED <<slots, startup_failed, grace_over, proc, failures, stray>>

\* request_supervisor_stop, or the default action while it is not installed.
Signal(hup) ==
  /\ pc \notin {"exited", "killed"}
  /\ IF pc \in Handled
     THEN /\ supervisor_stop_requested' = TRUE
          /\ supervisor_reload_requested' = (supervisor_reload_requested \/ hup)
          /\ UNCHANGED <<pc, at>>
     ELSE Goto("killed", 1) /\ UNCHANGED flags
  /\ UNCHANGED <<slots, startup_failed, grace_over, proc, system, stray>>

SupervisorStep ==
  \/ Bind \/ InstallHandlers \/ StartWorker \/ Poll \/ PollSlot \/ RestartSlot
  \/ TermSlot \/ DrainSlot \/ KillSlot \/ WaitSlot \/ RestoreHandlers \/ Close

----------------------------------------------------------------------------
(* The workers.                                                            *)

Become(p, w) ==
  /\ proc' = [proc EXCEPT ![p] = w]
  /\ UNCHANGED <<pc, at, slots, flags, startup_failed, grace_over, system, stray>>
Move(p, from, to) == /\ proc[p].state = from
                     /\ Become(p, [proc[p] EXCEPT !.state = to])

\* The child of start_socket_worker clears its flag and installs its handler.
WorkerBegins(p) == /\ proc[p].state = "new"
                   /\ Become(p, [proc[p] EXCEPT !.state = "check", !.stop = FALSE])

\* worker_should_recycle: the stop flag, or a limit reached at any time.
Recycles_LimitsOnly(p) == {TRUE, FALSE}
Recycles(p) == IF proc[p].stop THEN {TRUE} ELSE {TRUE, FALSE}

\* The top of serve_socket_connections; a worker between the test and accept is
\* not interrupted by a SIGTERM that arrives there.
WorkerChecks(p) == \E recycle \in Recycles(p) :
                     Move(p, "check", IF recycle THEN "zombie" ELSE "accepting")
WorkerBlocks(p)  == Move(p, "accepting", "blocked")
WorkerAccepts(p) == Move(p, "blocked", "idle")

\* run_fastcgi_stream: requests on one connection, recv restarted after EINTR.
RequestArrives(p) == Move(p, "idle", "request")
ClientLeaves(p)   == Move(p, "idle", "check")
RequestEnds(p) ==
  /\ proc[p].state = "request"
  /\ \E recycle \in Recycles(p) :
       Become(p, [proc[p] EXCEPT
                    !.state = IF recycle THEN "zombie" ELSE "idle",
                    !.after = IF proc[p].termed /\ @ < 2 THEN @ + 1 ELSE @])

\* A failed accept or connection, a diagnostic of the application, a crash.
WorkerDies(p) == /\ proc[p].state \in Live
                 /\ Become(p, [proc[p] EXCEPT !.state = "zombie"])

\* A SIGTERM from outside, as a service manager sends to the whole group.
OperatorTerms(p) == proc[p].state \in Live /\ Become(p, Termed(proc[p]))

WorkerStep(p) ==
  \/ WorkerBegins(p) \/ WorkerChecks(p) \/ WorkerBlocks(p) \/ WorkerAccepts(p)
  \/ RequestArrives(p) \/ ClientLeaves(p) \/ RequestEnds(p)
  \/ WorkerDies(p) \/ OperatorTerms(p)

----------------------------------------------------------------------------
Init ==
  /\ pc = "boot" /\ at = 1
  /\ children = [i \in Slots |-> 0] /\ waiting = [i \in Slots |-> FALSE]
  /\ supervisor_stop_requested = FALSE /\ supervisor_reload_requested = FALSE
  /\ startup_failed = FALSE /\ grace_over = FALSE
  /\ path = FALSE /\ failures = 0 /\ reloads = 0
  /\ proc = [p \in Pids |-> Free] /\ stray = FALSE

Next ==
  \/ SupervisorStep \/ GraceEnds
  \/ \E i \in Slots : BackoffElapses(i)
  \/ \E hup \in BOOLEAN : Signal(hup)
  \/ \E p \in Pids : WorkerStep(p)

Spec == Init /\ [][Next]_vars

\* The supervisor is scheduled and time passes.  Nothing is asked of a worker:
\* an application may never return, a client may never send.
Fairness == /\ WF_vars(SupervisorStep) /\ WF_vars(GraceEnds)
            /\ \A i \in Slots : WF_vars(BackoffElapses(i))
FairSpec == Spec /\ Fairness

----------------------------------------------------------------------------
\* Every variable has its type.
TypeOK ==
  /\ pc \in Running \cup Draining \cup Down /\ at \in Slots
  /\ children \in [Slots -> Pids \cup {0, -1}] /\ waiting \in [Slots -> BOOLEAN]
  /\ supervisor_stop_requested \in BOOLEAN /\ supervisor_reload_requested \in BOOLEAN
  /\ startup_failed \in BOOLEAN /\ grace_over \in BOOLEAN /\ path \in BOOLEAN
  /\ proc \in [Pids -> Processes]
  /\ failures \in Nat /\ reloads \in Nat /\ stray \in BOOLEAN

\* No process of the pool outlives it: where the supervisor may end, be killed
\* by a signal it does not handle or execute a new image, no worker is left,
\* not even one to reap (the SIGKILL loop waits for every slot).
NoWorkerLeft == pc \in Down \cup {"restore"} => Children = {}

\* Only workers are signalled: neither kill(0), kill(-1) nor a pid that was
\* reaped ("POSIX workers receive SIGTERM", docs/separan-gw.md).
SignalsOwnOnly == ~stray

\* The same as long as no fork has failed: a pid that was reaped, and perhaps given
\* to another worker, is in no slot.
SignalsOwnIfForked == failures = 0 => SignalsOwnOnly

\* A worker that took a SIGTERM with its own handler finishes at most one
\* request more, whether the signal met it before accept, in recv or in the
\* application.
HeardTermEnds == \A p \in Pids : proc[p].stop => proc[p].after <= 1

\* "POSIX workers receive SIGTERM, finish an in-flight request, then exit":
\* the same of every worker a SIGTERM was sent to.
SentTermEnds == \A p \in Pids : proc[p].termed => proc[p].after <= 1

\* The two of the signals that hold: they go to workers, and a worker heeds them.
SignalsKept == SignalsOwnIfForked /\ HeardTermEnds

\* While the pool is not being drained, every slot gets a worker again and
\* again, however often workers end ("the supervisor replaces them").
PoolRefilled ==
  \A i \in Slots : []<>(pc \notin Running \/ children[i] \in LiveWorkers)

\* The same as long as no fork fails: a failed one costs the pool a slot as long as
\* another worker lives.
RefilledIfForked == [](failures = 0) => PoolRefilled

\* A stop or a reload completes, even when no worker answers SIGTERM: the
\* gateway ends or starts over.
StopCompletes == supervisor_stop_requested ~> pc \in {"boot", "exited", "killed"}

\* The supervisor keeps the promise of WorkerPool.
Pool == INSTANCE WorkerPool WITH
  phase <- IF pc \in Running THEN "running" ELSE IF pc \in Draining THEN "draining" ELSE "down",
  live  <- Cardinality(LiveWorkers)
PoolKept == Pool!Spec
=============================================================================
