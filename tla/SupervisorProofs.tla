--------------------------- MODULE SupervisorProofs ---------------------------
(***************************************************************************)
(* Proofs about the two supervisors. Of PreforkSupervisor, for any number  *)
(* of workers and pids and any number of forks that fail: its types, that  *)
(* it leaves no process behind, whom it signals, and that a worker heeds a *)
(* SIGTERM it has heard. Of WindowsSupervisor, for any number of workers:  *)
(* its types, and that it lets go of no process that runs. Of both, that   *)
(* they keep the promise of WorkerPool.                                    *)
(***************************************************************************)
EXTENDS PreforkSupervisor, WindowsSupervisor, FiniteSetTheorems, TLAPS

----------------------------------------------------------------------------
(* What happens to a worker.                                               *)

\* HeardTermEnds says nothing of a worker that is alive and may finish more
\* requests; this does.
Heard(w) == w.stop => IF w.state \in Live THEN w.after = 0 ELSE w.after <= 1

LEMMA ProcessStates ==
  /\ Free \in Processes /\ Free.state = "free" /\ Heard(Free)
  /\ NewWorker \in Processes /\ NewWorker.state = "new" /\ Heard(NewWorker)
  BY DEF Free, NewWorker, Process, Processes, Live, Heard

LEMMA TermedWorker ==
  ASSUME NEW w \in Processes
  PROVE  /\ Termed(w) \in Processes
         /\ Termed(w).state = "free" <=> w.state = "free"
         /\ Termed(w).state \in Live <=> w.state \in Live
         /\ Heard(w) => Heard(Termed(w))
<1>1. CASE w.state \in {"free", "zombie"}
  <2>1. Termed(w) = w
    BY <1>1 DEF Termed, Live
  <2>. QED
    BY <2>1
<1>2. CASE w.state = "new"
  <2>1. Termed(w) = [w EXCEPT !.termed = TRUE]
    BY <1>2 DEF Termed, Live
  <2>. QED
    BY <2>1 DEF Processes, Heard
<1>3. CASE w.state \in Live \ {"new"}
  <2>1. Termed(w) = Process(IF w.state = "blocked" THEN "check" ELSE w.state, TRUE, TRUE,
                            IF w.stop THEN w.after ELSE 0)
    BY <1>3 DEF Termed, Live
  <2>2. /\ Termed(w) \in Processes /\ Termed(w).state \in Live
        /\ Termed(w).after = IF w.stop THEN w.after ELSE 0
    BY <1>3, <2>1 DEF Processes, Process, Live
  <2>. QED
    BY <1>3, <2>2 DEF Heard, Live
<1>. QED
  BY <1>1, <1>2, <1>3 DEF Processes

LEMMA KilledWorker ==
  ASSUME NEW w \in Processes
  PROVE  /\ Killed(w) \in Processes /\ Killed(w).state \notin Live
         /\ Killed(w).state = "free" <=> w.state = "free"
         /\ Heard(w) => Heard(Killed(w))
<1>1. CASE w.state \in Live
  <2>1. Killed(w) = [w EXCEPT !.state = "zombie"]
    BY <1>1 DEF Killed
  <2>. QED
    BY <1>1, <2>1 DEF Processes, Heard, Live
<1>2. CASE w.state \notin Live
  BY <1>2 DEF Killed
<1>. QED
  BY <1>1, <1>2

\* What any step of a worker comes to: it goes on, or it is a zombie.
LEMMA WorkerStepMeans ==
  ASSUME TypeOK, NEW p \in Pids, WorkerStep(p)
  PROVE  \E w \in Processes :
           /\ Become(p, w)
           /\ proc[p] \in Processes /\ proc[p].state \in Live /\ w.state \in Live \cup {"zombie"}
           /\ Heard(proc[p]) => Heard(w)
<1>1. proc[p] \in Processes
  BY DEF TypeOK
<1>2. ASSUME NEW to \in Live \cup {"zombie"}, proc[p].state \in Live,
             Become(p, [proc[p] EXCEPT !.state = to])
      PROVE  \E w \in Processes :
               /\ Become(p, w) /\ w.state \in Live \cup {"zombie"}
               /\ Heard(proc[p]) => Heard(w)
  <2>. DEFINE w == [proc[p] EXCEPT !.state = to]
  <2>1. w \in Processes /\ w.state = to /\ w.stop = proc[p].stop /\ w.after = proc[p].after
    BY <1>1, <1>2 DEF Processes
  <2>2. Heard(proc[p]) => Heard(w)
    BY <1>1, <1>2, <2>1 DEF Processes, Heard
  <2>. QED
    BY <1>2, <2>1, <2>2
<1>3. ASSUME NEW from \in Live, NEW to \in Live \cup {"zombie"}, Move(p, from, to)
      PROVE  /\ proc[p].state \in Live
             /\ \E w \in Processes :
                  /\ Become(p, w) /\ w.state \in Live \cup {"zombie"}
                  /\ Heard(proc[p]) => Heard(w)
  BY <1>2, <1>3 DEF Move
<1>4. CASE WorkerBegins(p)
  <2>. DEFINE w == [proc[p] EXCEPT !.state = "check", !.stop = FALSE]
  <2>1. w \in Processes /\ w.state = "check" /\ w.stop = FALSE
    BY <1>1 DEF Processes, Live
  <2>. QED
    BY <1>1, <1>4, <2>1 DEF WorkerBegins, Heard, Live
<1>5. CASE WorkerChecks(p)
  BY <1>1, <1>3, <1>5 DEF WorkerChecks, Live
<1>6. CASE WorkerBlocks(p) \/ WorkerAccepts(p) \/ RequestArrives(p) \/ ClientLeaves(p)
  BY <1>1, <1>3, <1>6 DEF WorkerBlocks, WorkerAccepts, RequestArrives, ClientLeaves, Live
<1>7. CASE RequestEnds(p)
  <2>1. PICK recycle \in Recycles(p) :
          Become(p, [proc[p] EXCEPT
                       !.state = IF recycle THEN "zombie" ELSE "idle",
                       !.after = IF proc[p].termed /\ @ < 2 THEN @ + 1 ELSE @])
    BY <1>7 DEF RequestEnds
  <2>. DEFINE to == IF recycle THEN "zombie" ELSE "idle"
              n  == IF proc[p].termed /\ proc[p].after < 2 THEN proc[p].after + 1 ELSE proc[p].after
              w  == [proc[p] EXCEPT !.state = to, !.after = n]
  <2>2. to \in Live \cup {"zombie"} /\ n \in 0..2
    BY <1>1 DEF Processes, Live
  <2>3. w \in Processes /\ w.state = to /\ w.stop = proc[p].stop /\ w.after = n
    <3>. HIDE DEF to, n
    <3>. QED
      BY <1>1, <2>2 DEF Processes
  <2>4. Become(p, w)
    BY <2>1
  <2>5. proc[p].stop => recycle
    BY <2>1 DEF Recycles
  <2>6. Heard(proc[p]) => Heard(w)
    <3>. HIDE DEF w
    <3>. QED
      BY <1>1, <1>7, <2>3, <2>5 DEF Processes, Heard, Live, RequestEnds
  <2>. QED
    <3>. HIDE DEF w
    <3>. QED
      BY <1>1, <1>7, <2>2, <2>3, <2>4, <2>6 DEF RequestEnds, Live
<1>8. CASE WorkerDies(p)
  BY <1>1, <1>2, <1>8 DEF WorkerDies
<1>9. CASE OperatorTerms(p)
  BY <1>1, <1>9, TermedWorker DEF OperatorTerms
<1>. QED
  BY <1>1, <1>4, <1>5, <1>6, <1>7, <1>8, <1>9 DEF WorkerStep

----------------------------------------------------------------------------
(* What fork, waitpid and kill do to the processes: which pids are taken,  *)
(* and which of them are alive.                                            *)

AllHeard == \A p \in Pids : Heard(proc[p])

\* The processes are typed, those with a child are `kids', those alive `alive'.
ProcessesAre(kids, alive) ==
  /\ proc' \in [Pids -> Processes]
  /\ Children' = kids /\ LiveWorkers' = alive
  /\ AllHeard => AllHeard'

LEMMA ProcUnchanged ==
  ASSUME TypeOK, UNCHANGED proc
  PROVE  ProcessesAre(Children, LiveWorkers)
  BY DEF TypeOK, ProcessesAre, Children, LiveWorkers, AllHeard

\* One process changes.
LEMMA OneProcess ==
  ASSUME TypeOK, NEW p \in Pids, NEW w \in Processes, proc' = [proc EXCEPT ![p] = w],
         Heard(proc[p]) => Heard(w)
  PROVE  ProcessesAre(IF w.state = "free" THEN Children \ {p} ELSE Children \cup {p},
                      IF w.state \in Live THEN LiveWorkers \cup {p} ELSE LiveWorkers \ {p})
<1>1. proc' \in [Pids -> Processes] /\ \A q \in Pids : proc'[q] = IF q = p THEN w ELSE proc[q]
  BY DEF TypeOK
<1>2. AllHeard => AllHeard'
  BY <1>1 DEF AllHeard
<1>3. Children' = IF w.state = "free" THEN Children \ {p} ELSE Children \cup {p}
  BY <1>1 DEF Children
<1>4. LiveWorkers' = IF w.state \in Live THEN LiveWorkers \cup {p} ELSE LiveWorkers \ {p}
  BY <1>1 DEF LiveWorkers
<1>. QED
  BY <1>1, <1>2, <1>3, <1>4 DEF ProcessesAre

LEMMA Sets ==
  /\ LiveWorkers \cap Zombies = {} /\ Zombies \subseteq Children /\ LiveWorkers \subseteq Children
  /\ Children \subseteq Pids
  /\ TypeOK => Children = LiveWorkers \cup Zombies
<1>1. LiveWorkers \cap Zombies = {} /\ Zombies \subseteq Children /\ LiveWorkers \subseteq Children
  BY DEF LiveWorkers, Zombies, Children, Live
<1>2. ASSUME TypeOK PROVE Children = LiveWorkers \cup Zombies
  <2>1. \A p \in Pids : proc[p].state \in Live \cup {"free", "zombie"}
    BY <1>2 DEF TypeOK, Processes
  <2>. QED
    BY <1>1, <2>1 DEF LiveWorkers, Zombies, Children
<1>. QED
  BY <1>1, <1>2 DEF Children

\* A step of a worker: it lives on or is a zombie, and has its pid.
LEMMA WorkerStepSets ==
  ASSUME TypeOK, NEW p \in Pids, WorkerStep(p)
  PROVE  /\ UNCHANGED <<pc, at, slots, flags, startup_failed, grace_over, system, stray>>
         /\ \/ ProcessesAre(Children, LiveWorkers)
            \/ ProcessesAre(Children, LiveWorkers \ {p})
<1>1. PICK w \in Processes :
        /\ Become(p, w)
        /\ proc[p] \in Processes /\ proc[p].state \in Live /\ w.state \in Live \cup {"zombie"}
        /\ Heard(proc[p]) => Heard(w)
  BY WorkerStepMeans
<1>2. p \in LiveWorkers /\ p \in Children
  BY <1>1, Sets DEF LiveWorkers
<1>3. w.state # "free" /\ (w.state \in Live \/ w.state \notin Live)
  BY <1>1 DEF Live
<1>4. ProcessesAre(Children \cup {p}, IF w.state \in Live THEN LiveWorkers \cup {p} ELSE LiveWorkers \ {p})
  BY <1>1, <1>3, OneProcess DEF Become
<1>5. Children \cup {p} = Children /\ LiveWorkers \cup {p} = LiveWorkers
  BY <1>2
<1>. QED
  BY <1>1, <1>4, <1>5 DEF Become

LEMMA ForkSets ==
  ASSUME TypeOK, NEW i \in Slots, Fork(i, FALSE)
  PROVE  \E p \in Pids \ Children :
           /\ children' = [children EXCEPT ![i] = p] /\ UNCHANGED failures
           /\ ProcessesAre(Children \cup {p}, LiveWorkers \cup {p})
<1>1. PICK p \in Pids \ Children :
        /\ proc' = [proc EXCEPT ![p] = NewWorker] /\ children' = [children EXCEPT ![i] = p]
        /\ UNCHANGED failures
  BY DEF Fork
<1>2. "new" \in Live /\ "new" # "free"
  BY DEF Live
<1>. QED
  BY <1>1, <1>2, ProcessStates, OneProcess

LEMMA ForkFails ==
  ASSUME TypeOK, NEW i \in Slots, Fork(i, TRUE)
  PROVE  /\ children' = [children EXCEPT ![i] = -1] /\ failures' = failures + 1
         /\ ProcessesAre(Children, LiveWorkers)
  BY ProcUnchanged DEF Fork

\* waitpid frees zombies only: the one it was asked for, if that is a pid.
LEMMA ReapSets ==
  ASSUME TypeOK, NEW c \in Pids \cup {0, -1}, Reaps(c)
  PROVE  \E reaped \in SUBSET Zombies :
           /\ ProcessesAre(Children \ reaped, LiveWorkers)
           /\ c # -1 => reaped = Zombies \cap {c}
<1>1. ASSUME NEW p \in Zombies, proc' = [proc EXCEPT ![p] = Free]
      PROVE  ProcessesAre(Children \ {p}, LiveWorkers)
  <2>1. p \in Pids /\ p \notin LiveWorkers /\ "free" \notin Live
    BY <1>1, Sets DEF Zombies, Live
  <2>2. ProcessesAre(Children \ {p}, LiveWorkers \ {p})
    BY <1>1, <2>1, ProcessStates, OneProcess
  <2>. QED
    BY <2>1, <2>2
<1>2. ASSUME UNCHANGED proc PROVE ProcessesAre(Children \ {}, LiveWorkers)
  BY <1>2, ProcUnchanged
<1>3. CASE c = -1 /\ Zombies # {}
  <2>1. PICK p \in Zombies : proc' = [proc EXCEPT ![p] = Free]
    BY <1>3 DEF Reaps
  <2>2. {p} \in SUBSET Zombies /\ ProcessesAre(Children \ {p}, LiveWorkers)
    BY <1>1, <2>1
  <2>. QED
    BY <1>3, <2>2
<1>4. CASE c # -1 /\ c \in Zombies
  BY <1>1, <1>4 DEF Reaps
<1>5. CASE ~(c = -1 /\ Zombies # {}) /\ ~(c # -1 /\ c \in Zombies)
  BY <1>2, <1>5 DEF Reaps
<1>. QED
  BY <1>3, <1>4, <1>5

LEMMA TermSets ==
  ASSUME TypeOK, NEW c, Kill(c, [p \in Pids |-> Termed(proc[p])])
  PROVE  ProcessesAre(Children, LiveWorkers) /\ stray' = (stray \/ c \notin Children)
<1>1. proc \in [Pids -> Processes]
  BY DEF TypeOK
<1>2. \A p \in Pids : proc'[p] \in {proc[p], Termed(proc[p])}
  BY DEF Kill
<1>3. proc' = [p \in Pids |-> proc'[p]]
  BY DEF Kill
<1>4. \A p \in Pids : /\ proc'[p] \in Processes
                      /\ proc'[p].state = "free" <=> proc[p].state = "free"
                      /\ proc'[p].state \in Live <=> proc[p].state \in Live
                      /\ Heard(proc[p]) => Heard(proc'[p])
  BY <1>1, <1>2, TermedWorker
<1>5. proc' \in [Pids -> Processes]
  BY <1>3, <1>4
<1>6. Children' = Children /\ LiveWorkers' = LiveWorkers /\ (AllHeard => AllHeard')
  BY <1>4 DEF Children, LiveWorkers, AllHeard
<1>. QED
  BY <1>5, <1>6 DEF Kill, ProcessesAre

LEMMA KillSets ==
  ASSUME TypeOK, NEW c, Kill(c, [p \in Pids |-> Killed(proc[p])])
  PROVE  /\ \E alive \in SUBSET LiveWorkers : ProcessesAre(Children, alive) /\ c \notin alive
         /\ stray' = (stray \/ c \notin Children)
<1>1. proc \in [Pids -> Processes]
  BY DEF TypeOK
<1>2. \A p \in Pids : proc'[p] \in {proc[p], Killed(proc[p])} /\ (p = c => proc'[p] = Killed(proc[p]))
  BY DEF Kill
<1>3. proc' = [p \in Pids |-> proc'[p]]
  BY DEF Kill
<1>4. \A p \in Pids : /\ proc'[p] \in Processes
                      /\ proc'[p].state = "free" <=> proc[p].state = "free"
                      /\ proc'[p].state \in Live => proc[p].state \in Live /\ p # c
                      /\ Heard(proc[p]) => Heard(proc'[p])
  BY <1>1, <1>2, KilledWorker
<1>5. proc' \in [Pids -> Processes]
  BY <1>3, <1>4
<1>6. /\ Children' = Children /\ LiveWorkers' \subseteq LiveWorkers /\ c \notin LiveWorkers'
      /\ AllHeard => AllHeard'
  BY <1>4 DEF Children, LiveWorkers, AllHeard
<1>. QED
  BY <1>5, <1>6 DEF Kill, ProcessesAre


----------------------------------------------------------------------------
(* Types.                                                                  *)

LEMMA AdvanceType ==
  ASSUME TypeOK, NEW label, NEW after, Advance(label, after)
  PROVE  /\ pc' \in {label, after} /\ at' \in Slots
         /\ \/ at < Workers /\ pc' = label /\ at' = at + 1
            \/ at = Workers /\ pc' = after /\ at' = 1
  BY WorkersAssumption DEF TypeOK, Advance, Goto, Slots

LEMMA TypeStep ==
  ASSUME TypeOK, [Next]_vars
  PROVE  TypeOK'
<1>. USE DEF Running, Draining, Down
<1>o. 1 \in Slots /\ at \in Slots /\ children[at] \in Pids \cup {0, -1}
  BY WorkersAssumption DEF TypeOK, Slots
<1>p. \A kids, alive : ProcessesAre(kids, alive) => proc' \in [Pids -> Processes]
  BY DEF ProcessesAre
<1>1. CASE Bind
  BY <1>1, <1>o DEF Bind, TypeOK, Goto, slots, flags
<1>2. CASE InstallHandlers
  BY <1>2, <1>o DEF InstallHandlers, TypeOK, Goto, system
<1>3. CASE StartWorker
  <2>1. CASE Fork(at, FALSE) /\ Advance("startup", "poll") /\ UNCHANGED <<flags, startup_failed>>
    <3>1. children' \in [Slots -> Pids \cup {0, -1}] /\ UNCHANGED failures
      BY <1>o, <2>1, ForkSets DEF TypeOK
    <3>2. proc' \in [Pids -> Processes]
      BY <1>o, <1>p, <2>1, ForkSets
    <3>. QED
      BY <1>3, <2>1, <3>1, <3>2, AdvanceType DEF StartWorker, TypeOK, flags
  <2>2. CASE /\ Fork(at, TRUE) /\ Goto("poll", 1)
             /\ startup_failed' = TRUE /\ supervisor_stop_requested' = TRUE
             /\ UNCHANGED supervisor_reload_requested
    <3>1. /\ children' = [children EXCEPT ![at] = -1] /\ failures' = failures + 1
          /\ proc' \in [Pids -> Processes]
      BY <1>o, <1>p, <2>2, ForkFails
    <3>2. children' \in [Slots -> Pids \cup {0, -1}] /\ failures' \in Nat
      BY <1>o, <3>1 DEF TypeOK
    <3>. QED
      BY <1>3, <1>o, <2>2, <3>1, <3>2 DEF StartWorker, TypeOK, Goto
  <2>. QED
    BY <1>3, <2>1, <2>2 DEF StartWorker
<1>4. CASE Poll
  BY <1>4, <1>o DEF Poll, TypeOK, Goto, slots, flags, system
<1>5. CASE PollSlot
  <2>1. proc' \in [Pids -> Processes]
    BY <1>5, <1>o, <1>p, ReapSets, ProcUnchanged DEF PollSlot
  <2>2. children' \in [Slots -> Pids \cup {0, -1}] /\ waiting' \in [Slots -> BOOLEAN]
    BY <1>5, <1>o DEF PollSlot, TypeOK, slots
  <2>. QED
    BY <1>5, <1>o, <2>1, <2>2 DEF PollSlot, TypeOK, Goto, flags, system
<1>6. CASE RestartSlot
  <2>1. CASE Fork(at, FALSE) /\ UNCHANGED waiting
    <3>1. children' \in [Slots -> Pids \cup {0, -1}] /\ UNCHANGED failures
      BY <1>o, <2>1, ForkSets DEF TypeOK
    <3>2. proc' \in [Pids -> Processes]
      BY <1>o, <1>p, <2>1, ForkSets
    <3>. QED
      BY <1>6, <2>1, <3>1, <3>2, AdvanceType DEF RestartSlot, TypeOK, flags
  <2>2. CASE Fork(at, TRUE) /\ waiting' = [waiting EXCEPT ![at] = TRUE]
    <3>1. /\ children' = [children EXCEPT ![at] = -1] /\ failures' = failures + 1
          /\ proc' \in [Pids -> Processes]
      BY <1>o, <1>p, <2>2, ForkFails
    <3>2. /\ children' \in [Slots -> Pids \cup {0, -1}] /\ waiting' \in [Slots -> BOOLEAN]
          /\ failures' \in Nat
      BY <1>o, <2>2, <3>1 DEF TypeOK
    <3>. QED
      BY <1>6, <3>1, <3>2, AdvanceType DEF RestartSlot, TypeOK, flags
  <2>3. CASE UNCHANGED <<slots, proc, failures>>
    BY <1>6, <2>3, AdvanceType DEF RestartSlot, TypeOK, flags, slots
  <2>. QED
    BY <1>6, <2>1, <2>2, <2>3 DEF RestartSlot
<1>7. ASSUME NEW i \in Slots, BackoffElapses(i) PROVE TypeOK'
  BY <1>7 DEF BackoffElapses, TypeOK, flags, system
<1>8. CASE TermSlot
  <2>1. proc' \in [Pids -> Processes] /\ stray' \in BOOLEAN
    BY <1>8, <1>p, TermSets DEF TermSlot, TypeOK
  <2>. QED
    BY <1>8, <2>1, AdvanceType DEF TermSlot, TypeOK, flags, slots, system
<1>9. CASE GraceEnds
  BY <1>9 DEF GraceEnds, TypeOK, slots, flags, system
<1>10. CASE DrainSlot
  <2>1. proc' \in [Pids -> Processes]
    BY <1>10, <1>o, <1>p, ReapSets, ProcUnchanged DEF DrainSlot
  <2>2. children' \in [Slots -> Pids \cup {0, -1}]
    BY <1>10, <1>o DEF DrainSlot, TypeOK
  <2>3. pc' \in {"drain", "kill"} /\ at' \in Slots
    BY <1>10, <1>o, WorkersAssumption DEF DrainSlot, Goto, Slots
  <2>. QED
    BY <1>10, <2>1, <2>2, <2>3 DEF DrainSlot, TypeOK, flags, system
<1>11. CASE KillSlot
  <2>1. proc' \in [Pids -> Processes] /\ stray' \in BOOLEAN
    BY <1>11, <1>p, KillSets DEF KillSlot, TypeOK
  <2>2. pc' \in {"kill", "wait", "restore"} /\ at' \in Slots
    BY <1>11, <1>o, AdvanceType DEF KillSlot, Goto
  <2>. QED
    BY <1>11, <2>1, <2>2 DEF KillSlot, TypeOK, flags, slots, system
<1>12. CASE WaitSlot
  <2>1. proc' \in [Pids -> Processes]
    BY <1>12, <1>o, <1>p, ReapSets DEF WaitSlot
  <2>. QED
    BY <1>12, <2>1, AdvanceType DEF WaitSlot, TypeOK, flags, slots, system
<1>13. CASE RestoreHandlers
  BY <1>13, <1>o DEF RestoreHandlers, TypeOK, Goto, slots, flags, system
<1>14. CASE Close
  <2>1. pc' \in {"boot", "exited"} /\ at' = 1 /\ reloads' \in Nat
    BY <1>14 DEF Close, TypeOK, Goto
  <2>2. supervisor_stop_requested' \in BOOLEAN /\ supervisor_reload_requested' \in BOOLEAN
    BY <1>14 DEF Close, TypeOK, flags
  <2>. QED
    BY <1>14, <1>o, <2>1, <2>2 DEF Close, TypeOK, slots
<1>15. ASSUME NEW hup \in BOOLEAN, Signal(hup) PROVE TypeOK'
  BY <1>15, <1>o DEF Signal, TypeOK, Goto, slots, flags, system
<1>16. ASSUME NEW p \in Pids, WorkerStep(p) PROVE TypeOK'
  BY <1>16, <1>p, WorkerStepSets DEF TypeOK, slots, flags, system
<1>17. CASE UNCHANGED vars
  BY <1>17 DEF TypeOK, vars, slots, flags, system
<1>. QED
  BY <1>1, <1>2, <1>3, <1>4, <1>5, <1>6, <1>7, <1>8, <1>9, <1>10, <1>11, <1>12, <1>13,
     <1>14, <1>15, <1>16, <1>17 DEF Next, SupervisorStep

----------------------------------------------------------------------------
(* The inductive invariant.                                                *)

\* While the handlers are installed the supervisor knows every child.
KnowsChildren == pc \in Handled => \A p \in Children : \E i \in Slots : children[i] = p

\* A start that is not over has left the slots ahead of it empty.
StartedSoFar == pc = "startup" => \A i \in Slots : i >= at => children[i] = 0

\* The SIGKILL loop leaves no child behind it.
KilledSoFar == pc \in {"kill", "wait"} => \A i \in Slots : i < at => children[i] \notin Children

\* The slots that may still be signalled: the SIGKILL loop does not come back.
Ahead(i) == pc \in {"kill", "wait"} => i >= at

\* No fork has failed: such a slot, unless it is empty, has a child of its own.
OwnsSlots == pc \in Handled \ {"restore"} =>
  \A i \in Slots : Ahead(i) /\ children[i] # 0 =>
    /\ children[i] \in Children
    /\ \A j \in Slots : Ahead(j) /\ children[j] = children[i] => j = i

Inv ==
  /\ TypeOK
  /\ NoWorkerLeft /\ KnowsChildren /\ StartedSoFar /\ KilledSoFar
  /\ failures = 0 => ~stray /\ OwnsSlots
  /\ AllHeard
LEMMA InvInit == Init => Inv
<1>. SUFFICES ASSUME Init PROVE Inv
  OBVIOUS
<1>1. TypeOK
  <2>1. proc \in [Pids -> Processes]
    BY ProcessStates DEF Init
  <2>2. at \in Slots
    BY WorkersAssumption DEF Init, Slots
  <2>. QED
    BY <2>1, <2>2 DEF Init, TypeOK, Down
<1>2. Children = {} /\ AllHeard
  BY ProcessStates DEF Init, Children, AllHeard
<1>. QED
  BY <1>1, <1>2 DEF Init, Inv, NoWorkerLeft, KnowsChildren, StartedSoFar, KilledSoFar, OwnsSlots,
     Handled, Running, Draining

LEMMA InvStep ==
  ASSUME Inv, [Next]_vars
  PROVE  Inv'
<1>. USE DEF Handled, Running, Draining, Down
<1>t. TypeOK /\ TypeOK'
  BY TypeStep DEF Inv
<1>o. /\ at \in Slots /\ 1 \in Slots /\ Slots = 1..Workers /\ Workers \in Nat \ {0}
      /\ children \in [Slots -> Pids \cup {0, -1}]
      /\ Children \subseteq Pids /\ Pids \subseteq Nat \ {0} /\ 0 \notin Children /\ -1 \notin Children
      /\ failures \in Nat /\ LiveWorkers \subseteq Children
      /\ pc \in Handled \cup Down
  BY <1>t, WorkersAssumption, PidsAssumption, Sets DEF TypeOK, Slots
<1>p. \A kids, alive : ProcessesAre(kids, alive) => Children' = kids /\ AllHeard'
  BY DEF ProcessesAre, Inv
<1>i. NoWorkerLeft /\ KnowsChildren /\ StartedSoFar /\ KilledSoFar /\ (failures = 0 => ~stray /\ OwnsSlots)
  BY DEF Inv
<1>u. ASSUME UNCHANGED proc PROVE Children' = Children /\ AllHeard'
  BY <1>p, <1>t, <1>u, ProcUnchanged
<1>s. ASSUME Children' = Children, AllHeard', UNCHANGED <<children, failures>>, failures = 0 => ~stray',
             \/ pc \notin Handled /\ pc' \in Down
             \/ pc = "restore" /\ pc' = "close"
             \/ pc' = pc /\ at' = at
             \/ pc \in Running /\ pc' \in {"poll", "reap", "restart", "term"}
             \/ pc = "term" /\ pc' \in {"term", "drain"}
             \/ pc = "drain" /\ (pc' = "drain" \/ (pc' = "kill" /\ at' = 1))
             \/ pc = "kill" /\ pc' = "wait" /\ at' = at
      PROVE  Inv'
  <2>1. NoWorkerLeft' /\ KnowsChildren' /\ StartedSoFar'
    BY <1>i, <1>o, <1>s DEF NoWorkerLeft, KnowsChildren, StartedSoFar
  <2>2. KilledSoFar'
    BY <1>i, <1>o, <1>s DEF KilledSoFar
  <2>3. failures = 0 => OwnsSlots'
    BY <1>i, <1>o, <1>s DEF OwnsSlots, Ahead
  <2>. QED
    BY <1>s, <1>t, <2>1, <2>2, <2>3 DEF Inv
\* Nothing but the place the supervisor is at, and what does not matter here.
<1>e. ASSUME UNCHANGED <<children, failures, stray>>
      PROVE  UNCHANGED <<children, failures>> /\ (failures = 0 => ~stray')
  BY <1>e, <1>i
<1>1. CASE Bind
  BY <1>1, <1>e, <1>s, <1>u DEF Bind, Goto, slots
<1>2. CASE InstallHandlers
  <2>1. /\ Children' = {} /\ AllHeard' /\ pc' = "startup" /\ at' = 1
        /\ \A i \in Slots : children'[i] = 0
        /\ failures' = failures /\ stray' = stray
    BY <1>2, <1>i, <1>u DEF InstallHandlers, Goto, NoWorkerLeft, system
  <2>2. NoWorkerLeft' /\ KnowsChildren' /\ StartedSoFar' /\ KilledSoFar' /\ OwnsSlots'
    BY <2>1 DEF NoWorkerLeft, KnowsChildren, StartedSoFar, KilledSoFar, OwnsSlots
  <2>. QED
    BY <1>i, <1>t, <2>1, <2>2 DEF Inv
<1>f. ASSUME pc \in {"startup", "restart"}, pc' \in {"startup", "reap", "poll"},
             pc' = "startup" => pc = "startup" /\ at' = at + 1,
             children[at] = 0, Fork(at, FALSE) \/ Fork(at, TRUE), UNCHANGED stray
      PROVE  Inv'
  <2>1. PICK c \in Pids \cup {-1} :
          /\ children' = [children EXCEPT ![at] = c]
          /\ c = -1 => failures' = failures + 1 /\ Children' = Children
          /\ c # -1 => failures' = failures /\ c \notin Children /\ Children' = Children \cup {c}
          /\ AllHeard'
    <3>1. CASE Fork(at, FALSE)
      <4>1. PICK c \in Pids \ Children :
              /\ children' = [children EXCEPT ![at] = c] /\ UNCHANGED failures
              /\ ProcessesAre(Children \cup {c}, LiveWorkers \cup {c})
        BY <1>o, <1>t, <3>1, ForkSets
      <4>2. c # -1 /\ Children' = Children \cup {c} /\ AllHeard'
        BY <1>o, <1>p, <4>1
      <4>. QED
        BY <4>1, <4>2
    <3>2. CASE Fork(at, TRUE)
      <4>1. /\ children' = [children EXCEPT ![at] = -1] /\ failures' = failures + 1
            /\ Children' = Children /\ AllHeard'
        BY <1>o, <1>p, <1>t, <3>2, ForkFails
      <4>. QED
        BY <1>o, <4>1
    <3>. QED
      BY <1>f, <3>1, <3>2
  <2>2. children'[at] = c /\ \A i \in Slots \ {at} : children'[i] = children[i]
    BY <1>o, <2>1
  <2>3. NoWorkerLeft' /\ KilledSoFar'
    BY <1>f DEF NoWorkerLeft, KilledSoFar
  <2>4. StartedSoFar'
    BY <1>f, <1>i, <1>o, <2>2 DEF StartedSoFar
  <2>5. KnowsChildren'
    <3>1. \A p \in Children : \E i \in Slots \ {at} : children[i] = p
      BY <1>f, <1>i, <1>o DEF KnowsChildren
    <3>2. Children' \subseteq Children \cup {c}
      BY <2>1
    <3>. QED
      BY <1>o, <2>2, <3>1, <3>2 DEF KnowsChildren
  <2>6. failures' = 0 => failures = 0 /\ OwnsSlots'
    BY <1>f, <1>i, <1>o, <2>1, <2>2 DEF OwnsSlots, Ahead
  <2>. QED
    BY <1>f, <1>i, <1>t, <2>1, <2>3, <2>4, <2>5, <2>6 DEF Inv
<1>3. CASE StartWorker
  <2>1. children[at] = 0
    BY <1>3, <1>i, <1>o DEF StartWorker, StartedSoFar
  <2>2. pc' \in {"startup", "poll"} /\ (pc' = "startup" => at' = at + 1)
    <3>1. Advance("startup", "poll") \/ Goto("poll", 1)
      BY <1>3 DEF StartWorker
    <3>. QED
      BY <1>t, <3>1, AdvanceType DEF Goto
  <2>3. pc = "startup" /\ (Fork(at, FALSE) \/ Fork(at, TRUE)) /\ UNCHANGED stray
    BY <1>3 DEF StartWorker
  <2>. QED
    BY <1>f, <2>1, <2>2, <2>3
<1>4. CASE Poll
  BY <1>4, <1>e, <1>s, <1>u DEF Poll, Goto, system, slots
\* A sweep of waitpid over the slot the loop is at.
<1>r. ASSUME pc \in {"reap", "drain"}, pc' \in {"restart", "drain", "kill"},
             pc' = "kill" => at' = 1, children[at] # 0, Reaps(children[at]),
             children' = IF Gone(children[at]) THEN [children EXCEPT ![at] = 0] ELSE children,
             UNCHANGED <<failures, stray>>
      PROVE  Inv'
  <2>. DEFINE c == children[at]
  <2>1. PICK reaped \in SUBSET Zombies :
          /\ Children' = Children \ reaped /\ AllHeard'
          /\ c # -1 => reaped = Zombies \cap {c}
    BY <1>o, <1>p, <1>r, <1>t, ReapSets
  <2>2. Gone(c) => c \notin Children'
    <3>1. CASE c = -1
      BY <1>o, <2>1, <3>1
    <3>2. CASE c # -1
      BY <1>t, <2>1, <3>2, Sets DEF Gone
    <3>. QED
      BY <3>1, <3>2
  <2>3. c # -1 /\ ~Gone(c) => Children' = Children
    BY <2>1, Sets DEF Gone
  <2>4. \A i \in Slots : children'[i] = IF Gone(c) /\ i = at THEN 0 ELSE children[i]
    BY <1>o, <1>r
  <2>. HIDE DEF c
  <2>5. NoWorkerLeft' /\ StartedSoFar'
    BY <1>r DEF NoWorkerLeft, StartedSoFar
  <2>6. KilledSoFar'
    BY <1>o, <1>r DEF KilledSoFar
  <2>7. KnowsChildren'
    BY <1>i, <1>o, <1>r, <2>1, <2>2, <2>4 DEF KnowsChildren, c
  <2>8. failures = 0 => OwnsSlots'
    <3>. SUFFICES ASSUME failures = 0, NEW i \in Slots, children'[i] # 0
                  PROVE  /\ children'[i] \in Children'
                         /\ \A j \in Slots : children'[j] = children'[i] => j = i
      BY DEF OwnsSlots
    <3>1. \A j, k \in Slots : children[j] # 0 =>
            children[j] \in Children /\ (children[k] = children[j] => k = j)
      BY <1>i, <1>r DEF OwnsSlots, Ahead
    <3>2. c # -1 /\ c = children[at]
      BY <1>o, <1>r, <3>1 DEF c
    <3>. QED
      BY <1>o, <2>1, <2>3, <2>4, <3>1, <3>2
  <2>. QED
    BY <1>i, <1>r, <1>t, <2>1, <2>5, <2>6, <2>7, <2>8 DEF Inv
<1>5. CASE PollSlot
  <2>1. CASE children[at] = 0
    BY <1>5, <1>e, <1>s, <1>u, <2>1 DEF PollSlot, system, slots, Goto
  <2>2. CASE children[at] # 0
    BY <1>5, <1>r, <2>2 DEF PollSlot, Goto, slots, system
  <2>. QED
    BY <2>1, <2>2
<1>6. CASE RestartSlot
  <2>1. CASE Vacant(at) /\ (Fork(at, FALSE) \/ Fork(at, TRUE))
    <3>1. pc' \in {"reap", "poll"}
      BY <1>6, <1>t, AdvanceType DEF RestartSlot
    <3>2. pc = "restart" /\ children[at] = 0 /\ UNCHANGED stray
      BY <1>6, <2>1 DEF RestartSlot, Vacant
    <3>. QED
      BY <1>f, <2>1, <3>1, <3>2
  <2>2. CASE UNCHANGED <<slots, proc, failures>>
    BY <1>6, <1>e, <1>s, <1>t, <1>u, <2>2, AdvanceType DEF RestartSlot, slots
  <2>. QED
    BY <1>6, <2>1, <2>2 DEF RestartSlot
<1>7. ASSUME NEW i \in Slots, BackoffElapses(i) PROVE Inv'
  BY <1>7, <1>e, <1>s, <1>u DEF BackoffElapses, system
<1>8. CASE TermSlot
  <2>1. CASE Occupied(at)
    <3>1. /\ Children' = Children /\ AllHeard'
          /\ stray' = (stray \/ children[at] \notin Children)
      BY <1>8, <1>p, <1>t, <2>1, TermSets DEF TermSlot
    <3>2. failures = 0 => children[at] \in Children
      BY <1>8, <1>i, <1>o, <2>1 DEF TermSlot, OwnsSlots, Ahead, Occupied
    <3>. QED
      BY <1>8, <1>i, <1>s, <1>t, <3>1, <3>2, AdvanceType DEF TermSlot, slots, system
  <2>2. CASE ~Occupied(at)
    BY <1>8, <1>e, <1>s, <1>t, <1>u, <2>2, AdvanceType DEF TermSlot, slots, system
  <2>. QED
    BY <2>1, <2>2
<1>9. CASE GraceEnds
  BY <1>9, <1>e, <1>s, <1>u DEF GraceEnds, slots, system
<1>10. CASE DrainSlot
  <2>1. pc = "drain" /\ (pc' = "drain" \/ (pc' = "kill" /\ at' = 1))
    <3>1. CASE at < Workers
      BY <1>10, <3>1 DEF DrainSlot, Goto
    <3>2. CASE ~(at < Workers)
      BY <1>10, <3>2 DEF DrainSlot, Goto
    <3>. QED
      BY <3>1, <3>2
  <2>2. CASE children[at] = 0
    BY <1>10, <1>e, <1>s, <1>u, <2>1, <2>2 DEF DrainSlot, system
  <2>3. CASE children[at] # 0
    BY <1>10, <1>r, <2>1, <2>3 DEF DrainSlot, system
  <2>. QED
    BY <2>2, <2>3
\* The SIGKILL loop leaves a slot.
<1>k. ASSUME pc \in {"kill", "wait"}, Advance("kill", "restore"), AllHeard',
             Children' \subseteq Children, children[at] \notin Children',
             failures = 0 => Children \subseteq Children' \cup {children[at]},
             UNCHANGED <<children, failures, stray>>
      PROVE  Inv'
  <2>1. \A i \in Slots : i < at \/ i = at => children[i] \notin Children'
    BY <1>i, <1>k DEF KilledSoFar
  <2>2. \/ at < Workers /\ pc' = "kill" /\ at' = at + 1
        \/ at = Workers /\ pc' = "restore"
    BY <1>k, <1>t, AdvanceType
  <2>3. KnowsChildren' /\ StartedSoFar' /\ KilledSoFar'
    BY <1>i, <1>k, <1>o, <2>1, <2>2 DEF KnowsChildren, StartedSoFar, KilledSoFar
  <2>4. NoWorkerLeft'
    BY <1>i, <1>k, <1>o, <2>1, <2>2 DEF KnowsChildren, NoWorkerLeft
  <2>5. failures = 0 => OwnsSlots'
    <3>. SUFFICES ASSUME failures = 0, pc' = "kill", NEW i \in Slots, i >= at', children[i] # 0
                  PROVE  /\ children[i] \in Children'
                         /\ \A j \in Slots : j >= at' /\ children[j] = children[i] => j = i
      BY <1>k, <2>2 DEF OwnsSlots, Ahead
    <3>1. \A k \in Slots : k >= at' => k >= at /\ k # at
      BY <1>o, <2>2
    <3>2. \A j, k \in Slots : j >= at /\ k >= at /\ children[j] # 0 =>
            children[j] \in Children /\ (children[k] = children[j] => k = j)
      BY <1>i, <1>k DEF OwnsSlots, Ahead
    <3>3. children[i] \in Children /\ children[i] # children[at]
      BY <1>o, <3>1, <3>2
    <3>. QED
      BY <1>k, <3>1, <3>2, <3>3
  <2>. QED
    BY <1>i, <1>k, <1>t, <2>3, <2>4, <2>5 DEF Inv
<1>11. CASE KillSlot
  <2>1. CASE Occupied(at)
    <3>1. /\ Children' = Children /\ AllHeard'
          /\ stray' = (stray \/ children[at] \notin Children)
      BY <1>11, <1>p, <1>t, <2>1, KillSets DEF KillSlot
    <3>2. failures = 0 => children[at] \in Children
      BY <1>11, <1>i, <1>o, <2>1 DEF KillSlot, OwnsSlots, Ahead, Occupied
    <3>. QED
      BY <1>11, <1>i, <1>s, <2>1, <3>1, <3>2 DEF KillSlot, Goto, slots, system
  <2>2. CASE ~Occupied(at)
    BY <1>11, <1>k, <1>o, <1>u, <2>2 DEF KillSlot, Occupied, slots, system
  <2>. QED
    BY <2>1, <2>2
<1>12. CASE WaitSlot
  <2>. DEFINE c == children[at]
  <2>1. PICK reaped \in SUBSET Zombies :
          /\ Children' = Children \ reaped /\ AllHeard'
          /\ c # -1 => reaped = Zombies \cap {c}
    BY <1>12, <1>o, <1>p, <1>t, ReapSets DEF WaitSlot
  <2>2. c \notin Children'
    BY <1>12, <1>o, <1>t, <2>1, Sets DEF WaitSlot, Waited
  <2>3. failures = 0 => c # -1
    BY <1>12, <1>i, <1>o DEF WaitSlot, OwnsSlots, Ahead
  <2>. QED
    BY <1>12, <1>k, <2>1, <2>2, <2>3 DEF WaitSlot, slots, system
<1>13. CASE RestoreHandlers
  BY <1>13, <1>e, <1>s, <1>u DEF RestoreHandlers, Goto, slots, system
<1>14. CASE Close
  BY <1>14, <1>e, <1>s, <1>u DEF Close, Goto, slots
<1>15. ASSUME NEW hup \in BOOLEAN, Signal(hup) PROVE Inv'
  BY <1>15, <1>e, <1>s, <1>u DEF Signal, Goto, slots, system
<1>16. ASSUME NEW p \in Pids, WorkerStep(p) PROVE Inv'
  BY <1>16, <1>e, <1>p, <1>s, <1>t, WorkerStepSets DEF slots, system
<1>17. CASE UNCHANGED vars
  BY <1>17, <1>e, <1>s, <1>u DEF vars, slots, system
<1>. QED
  BY <1>1, <1>2, <1>3, <1>4, <1>5, <1>6, <1>7, <1>8, <1>9, <1>10, <1>11, <1>12, <1>13,
     <1>14, <1>15, <1>16, <1>17 DEF Next, SupervisorStep

\* Every variable of the POSIX supervisor, its slots and its workers has its
\* type, at every step of supervise_socket_workers and of its children.
THEOREM TypeCorrect == Spec => []TypeOK
<1>1. Init => TypeOK
  BY InvInit DEF Inv
<1>2. TypeOK /\ [Next]_vars => TypeOK'
  BY TypeStep
<1>. QED
  BY <1>1, <1>2, PTL DEF Spec

THEOREM Invariance == Spec => []Inv
<1>1. Inv /\ [Next]_vars => Inv'
  BY InvStep
<1>. QED
  BY <1>1, InvInit, PTL DEF Spec

\* supervise_socket_workers leaves no child, not even a zombie: neither where it
\* returns nor where a signal it does not handle may end it.
THEOREM NothingLeftBehind == Spec => []NoWorkerLeft
<1>1. Inv => NoWorkerLeft
  BY DEF Inv
<1>. QED
  BY <1>1, Invariance, PTL

\* As long as no fork has failed, kill goes to children that were not reaped; and
\* a worker whose handler took a SIGTERM finishes one request more at most.
THEOREM SignalsAreKept == Spec => []SignalsKept
<1>1. Inv => SignalsKept
  <2>. SUFFICES ASSUME Inv PROVE SignalsKept
    OBVIOUS
  <2>1. HeardTermEnds
    <3>. SUFFICES ASSUME NEW p \in Pids, proc[p].stop PROVE proc[p].after <= 1
      BY DEF HeardTermEnds
    <3>1. Heard(proc[p])
      BY DEF Inv, AllHeard
    <3>. QED
      BY <3>1 DEF Heard
  <2>2. SignalsOwnIfForked
    BY DEF Inv, SignalsOwnIfForked, SignalsOwnOnly
  <2>. QED
    BY <2>1, <2>2 DEF SignalsKept
<1>. QED
  BY <1>1, Invariance, PTL

----------------------------------------------------------------------------
(* The promise of WorkerPool.                                              *)

LEMMA SlotCount ==
  ASSUME NEW i \in Slots
  PROVE  IsFiniteSet(Slots \ {i}) /\ Cardinality(Slots \ {i}) = Workers - 1
<1>1. IsFiniteSet(Slots) /\ Cardinality(Slots) = Workers
  BY WorkersAssumption, FS_Interval DEF Slots
<1>. QED
  BY <1>1, FS_RemoveElement

\* Where the slot that forks is empty, there is room for the worker it gets.
LEMMA RoomForOne ==
  ASSUME Inv, pc \in {"startup", "restart"}, children[at] = 0
  PROVE  Cardinality(LiveWorkers) < Workers
<1>1. at \in Slots /\ Workers \in Nat \ {0}
  BY WorkersAssumption DEF Inv, TypeOK
<1>. DEFINE Others == Slots \ {at}
            Held   == {children[i] : i \in Others}
<1>2. IsFiniteSet(Others) /\ Cardinality(Others) = Workers - 1
  BY <1>1, SlotCount
<1>3. IsFiniteSet(Held) /\ Cardinality(Held) <= Workers - 1
  <2>. DEFINE held == [i \in Others |-> children[i]]
  <2>1. held \in Surjection(Others, Held)
    BY DEF Surjection
  <2>. QED
    BY <1>2, <2>1, FS_Surjection
<1>4. LiveWorkers \subseteq Held
  <2>. SUFFICES ASSUME NEW p \in LiveWorkers PROVE p \in Held
    OBVIOUS
  <2>1. p \in Children /\ p # 0
    BY Sets, PidsAssumption
  <2>2. PICK i \in Slots : children[i] = p
    BY <2>1 DEF Inv, KnowsChildren, Handled, Running
  <2>. QED
    BY <2>1, <2>2
<1>5. Cardinality(LiveWorkers) <= Cardinality(Held) /\ Cardinality(LiveWorkers) \in Nat
  BY <1>3, <1>4, FS_Subset, FS_CardinalityType
<1>6. Cardinality(Held) \in Nat
  BY <1>3, FS_CardinalityType
<1>. QED
  BY <1>1, <1>3, <1>5, <1>6

\* The workers never multiply but by a fork, and only a pool that runs forks.
LEMMA NoMoreWorkers ==
  ASSUME Inv, LiveWorkers' \subseteq LiveWorkers
  PROVE  \/ UNCHANGED Cardinality(LiveWorkers)
         \/ Cardinality(LiveWorkers)' \in 0..(Cardinality(LiveWorkers) - 1)
<1>1. IsFiniteSet(LiveWorkers)
  BY PidsAssumption, FS_Subset DEF LiveWorkers
<1>2. Cardinality(LiveWorkers') <= Cardinality(LiveWorkers) /\ IsFiniteSet(LiveWorkers')
  BY <1>1, FS_Subset
<1>3. Cardinality(LiveWorkers') \in Nat /\ Cardinality(LiveWorkers) \in Nat
  BY <1>1, <1>2, FS_CardinalityType
<1>. QED
  BY <1>2, <1>3

LEMMA PoolStep ==
  ASSUME Inv, Inv', [Next]_vars
  PROVE  [Pool!Next]_(Pool!vars)
<1>. USE DEF Handled, Running, Draining, Down
<1>o. /\ TypeOK /\ at \in Slots /\ children[at] \in Pids \cup {0, -1}
      /\ pc \in Handled \cup Down
  BY DEF Inv, TypeOK
<1>p. ASSUME NEW kids, NEW alive \in SUBSET LiveWorkers, ProcessesAre(kids, alive)
      PROVE  LiveWorkers' \subseteq LiveWorkers
  BY <1>p DEF ProcessesAre
<1>u. ASSUME UNCHANGED proc PROVE LiveWorkers' = LiveWorkers
  BY <1>u DEF LiveWorkers
\* Steps that end workers, or none.
<1>d. ASSUME LiveWorkers' \subseteq LiveWorkers,
             \/ pc \in Running /\ pc' \in Running
             \/ pc \in Draining /\ pc' \in Draining
             \/ pc \in Down /\ pc' \in Down
      PROVE  [Pool!Next]_(Pool!vars)
  BY <1>d, NoMoreWorkers DEF Pool!Next, Pool!vars, Pool!Down
\* Steps from one phase to the next.
<1>m. ASSUME LiveWorkers' = LiveWorkers,
             \/ pc = "bound" /\ pc' = "startup"
             \/ pc = "poll" /\ pc' = "term"
             \/ pc = "restore" /\ pc' = "close"
      PROVE  [Pool!Next]_(Pool!vars)
  <2>1. UNCHANGED Cardinality(LiveWorkers)
    BY <1>m
  <2>2. pc = "restore" => Cardinality(LiveWorkers) = 0
    <3>1. pc = "restore" => LiveWorkers = {}
      BY Sets DEF Inv, NoWorkerLeft
    <3>. QED
      BY <3>1, FS_EmptySet
  <2>. QED
    BY <1>m, <2>1, <2>2 DEF Pool!Next, Pool!Start, Pool!Drain, Pool!Stop
<1>f. ASSUME pc \in {"startup", "restart"}, children[at] = 0, pc' \in Running,
             Fork(at, FALSE) \/ Fork(at, TRUE)
      PROVE  [Pool!Next]_(Pool!vars)
  <2>1. CASE Fork(at, TRUE)
    BY <1>d, <1>f, <1>o, <1>p, <2>1, ForkFails
  <2>2. CASE Fork(at, FALSE)
    <3>1. PICK p \in Pids \ Children : LiveWorkers' = LiveWorkers \cup {p}
      BY <1>o, <2>2, ForkSets DEF ProcessesAre
    <3>2. IsFiniteSet(LiveWorkers) /\ p \notin LiveWorkers
      BY <3>1, PidsAssumption, FS_Subset, Sets DEF LiveWorkers
    <3>3. Cardinality(LiveWorkers') = Cardinality(LiveWorkers) + 1
      BY <3>1, <3>2, FS_AddElement
    <3>4. Cardinality(LiveWorkers) < Workers
      BY <1>f, RoomForOne
    <3>. QED
      BY <1>f, <3>3, <3>4 DEF Pool!Next, Pool!Up
  <2>. QED
    BY <1>f, <2>1, <2>2
<1>1. CASE Bind
  BY <1>1, <1>d, <1>u DEF Bind, Goto
<1>2. CASE InstallHandlers
  BY <1>2, <1>m, <1>u DEF InstallHandlers, Goto
<1>3. CASE StartWorker
  <2>1. children[at] = 0
    BY <1>3, <1>o, WorkersAssumption DEF StartWorker, Inv, StartedSoFar, Slots
  <2>2. pc' \in Running
    <3>1. Advance("startup", "poll") \/ Goto("poll", 1)
      BY <1>3 DEF StartWorker
    <3>. QED
      BY <1>o, <3>1, AdvanceType DEF Goto
  <2>3. pc = "startup" /\ (Fork(at, FALSE) \/ Fork(at, TRUE))
    BY <1>3 DEF StartWorker
  <2>. QED
    BY <1>f, <2>1, <2>2, <2>3
<1>4. CASE Poll
  BY <1>4, <1>d, <1>m, <1>u DEF Poll, Goto
<1>5. CASE PollSlot
  <2>1. LiveWorkers' \subseteq LiveWorkers
    BY <1>5, <1>o, <1>p, <1>u, ReapSets DEF PollSlot
  <2>. QED
    BY <1>5, <1>d, <2>1 DEF PollSlot, Goto
<1>6. CASE RestartSlot
  <2>1. pc = "restart" /\ pc' \in Running
    BY <1>6, <1>o, AdvanceType DEF RestartSlot
  <2>2. CASE Vacant(at) /\ (Fork(at, FALSE) \/ Fork(at, TRUE))
    BY <1>f, <2>1, <2>2 DEF Vacant
  <2>3. CASE UNCHANGED proc
    BY <1>d, <1>u, <2>1, <2>3
  <2>. QED
    BY <1>6, <2>2, <2>3 DEF RestartSlot
<1>7. ASSUME NEW i \in Slots, BackoffElapses(i) PROVE [Pool!Next]_(Pool!vars)
  BY <1>7, <1>d, <1>o, <1>u DEF BackoffElapses
<1>8. CASE TermSlot
  <2>1. LiveWorkers' \subseteq LiveWorkers
    BY <1>8, <1>o, <1>p, <1>u, TermSets DEF TermSlot
  <2>2. pc = "term" /\ pc' \in {"term", "drain"}
    BY <1>8, <1>o, AdvanceType DEF TermSlot
  <2>. QED
    BY <1>d, <2>1, <2>2
<1>9. CASE GraceEnds
  BY <1>9, <1>d, <1>u DEF GraceEnds
<1>10. CASE DrainSlot
  <2>1. LiveWorkers' \subseteq LiveWorkers
    BY <1>10, <1>o, <1>p, <1>u, ReapSets DEF DrainSlot
  <2>2. pc = "drain" /\ pc' \in {"drain", "kill"}
    BY <1>10 DEF DrainSlot, Goto
  <2>. QED
    BY <1>d, <2>1, <2>2
<1>11. CASE KillSlot
  <2>1. LiveWorkers' \subseteq LiveWorkers
    BY <1>11, <1>o, <1>p, <1>u, KillSets DEF KillSlot
  <2>2. pc = "kill" /\ pc' \in {"kill", "wait", "restore"}
    BY <1>11, <1>o, AdvanceType DEF KillSlot, Goto
  <2>. QED
    BY <1>d, <2>1, <2>2
<1>12. CASE WaitSlot
  <2>1. LiveWorkers' \subseteq LiveWorkers
    BY <1>12, <1>o, <1>p, ReapSets DEF WaitSlot
  <2>2. pc = "wait" /\ pc' \in {"kill", "restore"}
    BY <1>12, <1>o, AdvanceType DEF WaitSlot
  <2>. QED
    BY <1>d, <2>1, <2>2
<1>13. CASE RestoreHandlers
  BY <1>13, <1>m, <1>u DEF RestoreHandlers, Goto
<1>14. CASE Close
  BY <1>14, <1>d, <1>u DEF Close, Goto
<1>15. ASSUME NEW hup \in BOOLEAN, Signal(hup) PROVE [Pool!Next]_(Pool!vars)
  BY <1>15, <1>d, <1>o, <1>u DEF Signal, Goto
<1>16. ASSUME NEW p \in Pids, WorkerStep(p) PROVE [Pool!Next]_(Pool!vars)
  <2>1. LiveWorkers' \subseteq LiveWorkers /\ UNCHANGED pc
    BY <1>16, <1>o, <1>p, WorkerStepSets
  <2>. QED
    BY <1>d, <1>o, <2>1
<1>17. CASE UNCHANGED vars
  BY <1>17, <1>d, <1>o, <1>u DEF vars
<1>. QED
  BY <1>1, <1>2, <1>3, <1>4, <1>5, <1>6, <1>7, <1>8, <1>9, <1>10, <1>11, <1>12, <1>13,
     <1>14, <1>15, <1>16, <1>17 DEF Next, SupervisorStep

\* The supervisor keeps the promise of WorkerPool, whatever fork does: no more
\* workers than configured, none gained in a drain, down only when none is left.
THEOREM PromiseKept == Spec => PoolKept
<1>1. Init => Pool!Init
  <2>. SUFFICES ASSUME Init PROVE Pool!Init
    OBVIOUS
  <2>1. Cardinality(LiveWorkers) = 0
    <3>1. LiveWorkers = {}
      BY DEF Init, LiveWorkers, Free, Process, Live
    <3>. QED
      BY <3>1, FS_EmptySet
  <2>. QED
    BY <2>1 DEF Init, Pool!Init, Running, Draining
<1>2. Inv /\ Inv' /\ [Next]_vars => [Pool!Next]_(Pool!vars)
  BY PoolStep
<1>. QED
  BY <1>1, <1>2, Invariance, PTL DEF Spec, PoolKept, Pool!Spec

----------------------------------------------------------------------------
(* WindowsSupervisor: what its slots hold.                                 *)

Lives   == NoProcess \cup LiveProcess \cup {"exited", "lost"}
Childs  == [life : Lives, stopping : {"no", "yes", "overdue"}]
Wheres  == Serving \cup Emptying \cup {"reset", "ended"}
Working == {i \in Indexes : child[i].life \in LiveProcess}
Unused(i) == child[i].life = "vacant"

\* The slots that are vacant at a step of the supervisor: those a start has not
\* reached, those the last loop has left, all of them where it may end or begin anew.
Cleared(step, slot) ==
  {i \in Indexes : \/ step = "start" /\ i >= slot
                   \/ step = "handover" /\ i > slot
                   \/ step = "terminate" /\ i < slot
                   \/ step \in {"close", "reset", "ended"}}

WindowsInv == WindowsTypeOK /\ orphans = 0 /\ \A i \in Cleared(where, index) : Unused(i)

----------------------------------------------------------------------------
(* What a step does to the slots.                                          *)

\* Every slot keeps its type and its vacancy, and nothing starts to run.
Quiet == /\ child' \in [Indexes -> Childs] /\ orphans' = 0
         /\ Working' \subseteq Working
         /\ \A i \in Indexes : Unused(i) => Unused(i)'

\* As Quiet, but the slot of the loop may be filled or emptied.
AtIndex(c) == /\ child' \in [Indexes -> Childs] /\ orphans' = 0
              /\ child'[index] = c /\ \A i \in Indexes \ {index} : child'[i] = child[i]
              /\ Working' = IF c.life \in LiveProcess THEN Working \cup {index} ELSE Working \ {index}

LEMMA ChildTypes ==
  ASSUME WindowsTypeOK
  PROVE  /\ index \in Indexes /\ 1 \in Indexes /\ worker_count \in Nat /\ where \in Wheres
         /\ child \in [Indexes -> Childs] /\ \A i \in Indexes : child[i] \in Childs
         /\ NoChild \in Childs /\ BackingOff \in Childs /\ Created \in Childs
         /\ NoChild.life = "vacant" /\ BackingOff.life = "backoff"
         /\ Created.life \in LiveProcess /\ Child("loading", "no") \in Childs
         /\ Child("loading", "no").life \in LiveProcess
<1>1. /\ index \in Indexes /\ where \in Wheres /\ child \in [Indexes -> Childs]
  BY DEF WindowsTypeOK, Wheres, Childs, Lives
<1>2. 1 \in Indexes /\ worker_count \in Nat
  BY WorkerCountAssumption DEF Indexes
<1>3. /\ NoChild \in Childs /\ BackingOff \in Childs /\ Created \in Childs
      /\ NoChild.life = "vacant" /\ BackingOff.life = "backoff"
      /\ Created.life \in LiveProcess /\ Child("loading", "no") \in Childs
      /\ Child("loading", "no").life \in LiveProcess
  BY DEF NoChild, BackingOff, Created, Child, Childs, Lives, NoProcess, LiveProcess
<1>. QED
  BY <1>1, <1>2, <1>3

LEMMA SlotPut ==
  ASSUME WindowsInv, NEW c \in Childs, Put(index, c), UNCHANGED orphans
  PROVE  AtIndex(c)
<1>1. index \in Indexes /\ child \in [Indexes -> Childs] /\ orphans' = 0
  BY ChildTypes DEF WindowsInv
<1>2. /\ child' \in [Indexes -> Childs]
      /\ child'[index] = c /\ \A i \in Indexes \ {index} : child'[i] = child[i]
  BY <1>1 DEF Put
<1>3. Working' = IF c.life \in LiveProcess THEN Working \cup {index} ELSE Working \ {index}
  BY <1>1, <1>2 DEF Working
<1>. QED
  BY <1>1, <1>2, <1>3 DEF AtIndex

LEMMA QuietUnchanged ==
  ASSUME WindowsInv, UNCHANGED <<child, orphans>>
  PROVE  Quiet
  BY ChildTypes DEF WindowsInv, Quiet, Working, Unused

\* A slot changes, and nothing starts to run in it.
LEMMA QuietPut ==
  ASSUME WindowsInv, NEW i \in Indexes, NEW c \in Childs, Put(i, c), UNCHANGED orphans,
         child[i].life = "vacant" => c.life = "vacant",
         c.life \in LiveProcess => child[i].life \in LiveProcess
  PROVE  Quiet
<1>1. child \in [Indexes -> Childs] /\ orphans' = 0
  BY ChildTypes DEF WindowsInv
<1>2. child' \in [Indexes -> Childs] /\ child'[i] = c /\ \A j \in Indexes \ {i} : child'[j] = child[j]
  BY <1>1 DEF Put
<1>3. Working' \subseteq Working
  BY <1>2 DEF Working
<1>4. \A j \in Indexes : Unused(j) => Unused(j)'
  BY <1>2 DEF Unused
<1>. QED
  BY <1>1, <1>2, <1>3, <1>4 DEF Quiet

LEMMA StopRequestedChild ==
  ASSUME NEW c \in Childs
  PROVE  /\ StopRequested(c) \in Childs
         /\ c.life = "vacant" => StopRequested(c).life = "vacant"
         /\ StopRequested(c).life \in LiveProcess => c.life \in LiveProcess
  BY DEF StopRequested, Broken, Child, Childs, Lives, NoProcess, LiveProcess

LEMMA QuietStop ==
  ASSUME WindowsInv, Put(index, StopRequested(child[index])), UNCHANGED orphans
  PROVE  Quiet
<1>1. index \in Indexes /\ child[index] \in Childs
  BY ChildTypes DEF WindowsInv
<1>. QED
  BY <1>1, StopRequestedChild, QuietPut

\* A process is let go of only when it has exited.
LEMMA QuietEmpty ==
  ASSUME WindowsInv, NEW vacancy \in {NoChild, BackingOff}, Empty(index, vacancy)
  PROVE  Quiet
<1>1. /\ index \in Indexes /\ vacancy \in Childs /\ orphans = 0
      /\ vacancy.life \in {"vacant", "backoff"}
  BY ChildTypes DEF WindowsInv
<1>2. CASE Ended(child[index])
  <2>1. child[index].life = "exited" /\ Put(index, vacancy) /\ orphans' = orphans
    BY <1>2 DEF Ended, Empty, LiveProcess
  <2>. QED
    BY <1>1, <2>1, QuietPut DEF LiveProcess
<1>3. CASE ~Ended(child[index])
  BY <1>3, QuietUnchanged DEF Empty
<1>. QED
  BY <1>2, <1>3

----------------------------------------------------------------------------
(* The steps.                                                              *)

LEMMA NextSlotStep ==
  ASSUME WindowsInv, NEW loop, NEW after, NextSlot(loop, after)
  PROVE  /\ index' \in Indexes
         /\ \/ where' = loop /\ index' = index + 1
            \/ where' = after /\ index' = 1 /\ index = worker_count
<1>1. index \in Indexes /\ 1 \in Indexes /\ worker_count \in Nat
  BY ChildTypes DEF WindowsInv
<1>. QED
  BY <1>1 DEF NextSlot, Step, Indexes

\* The variables of the supervisor and of the controls.
ControlTypes == /\ where \in Wheres /\ index \in Indexes
                /\ stop_requested \in BOOLEAN /\ reload_requested \in BOOLEAN
                /\ handler \in {"idle", "reload"}
                /\ service_status \in {"running", "stop_pending", "stopped", "none"}
                /\ transport \in {"pipe", "tcp"} /\ deadline_over \in BOOLEAN

LEMMA TypeParts ==
  WindowsTypeOK <=> ControlTypes /\ child \in [Indexes -> Childs] /\ orphans \in Nat
  BY DEF WindowsTypeOK, ControlTypes, Wheres, Childs, Lives

LEMMA ControlTypesKept ==
  ASSUME WindowsInv, WindowsNext, where' \in Wheres, index' \in Indexes
  PROVE  ControlTypes'
<1>. USE DEF ControlTypes
<1>1. ControlTypes
  BY TypeParts DEF WindowsInv
<1>2. CASE UNCHANGED <<requests, transport, deadline_over>>
  BY <1>1, <1>2 DEF requests
<1>3. CASE Enter
  BY <1>1, <1>3 DEF Enter
<1>4. CASE StartChild \/ HandOver
  BY <1>1, <1>4 DEF StartChild, HandOver, StartupFails, requests
<1>5. CASE Leave
  BY <1>1, <1>5 DEF Leave
<1>6. CASE DeadlinePassed
  BY <1>1, <1>6 DEF DeadlinePassed, requests
<1>7. CASE StopControl \/ ParamChange \/ ParamChangeStops \/ ConsoleEvent
  BY <1>1, <1>7 DEF StopControl, ParamChange, ParamChangeStops, ConsoleEvent
<1>8. ASSUME PollFlag \/ CheckChild \/ LimitChild \/ RestartChild \/ HandOverAgain
             \/ StopChild \/ SweepChild \/ TerminateChild
      PROVE  UNCHANGED <<requests, transport, deadline_over>>
  BY <1>8 DEF PollFlag, CheckChild, LimitChild, RestartChild, HandOverAgain,
              StopChild, SweepChild, TerminateChild
<1>9. ASSUME NEW i \in Indexes,
             RestartDue(i) \/ StopOverdue(i) \/ ChildConnects(i) \/ ChildServes(i) \/ ChildEnds(i)
      PROVE  UNCHANGED <<requests, transport, deadline_over>>
  BY <1>9 DEF RestartDue, StopOverdue, ChildConnects, ChildServes, ChildEnds, ChildChanges
<1>. QED
  BY <1>2, <1>3, <1>4, <1>5, <1>6, <1>7, <1>8, <1>9 DEF WindowsNext, SuperviseStep

\* The invariant after a step, from what it does to the slots.
LEMMA AfterQuiet ==
  ASSUME WindowsInv, WindowsNext, Quiet, where' \in Wheres, index' \in Indexes,
         Cleared(where', index') \subseteq Cleared(where, index)
  PROVE  WindowsInv'
<1>1. ControlTypes' /\ child' \in [Indexes -> Childs] /\ orphans' = 0
  BY ControlTypesKept DEF Quiet
<1>2. \A i \in Cleared(where', index') : Unused(i)'
  BY DEF WindowsInv, Quiet, Cleared
<1>. QED
  BY <1>1, <1>2 DEF WindowsInv, WindowsTypeOK, ControlTypes, Wheres, Childs, Lives

LEMMA AfterAtIndex ==
  ASSUME WindowsInv, WindowsNext, NEW c, AtIndex(c), where' \in Wheres, index' \in Indexes,
         Cleared(where', index') \subseteq Cleared(where, index) \cup {index},
         index \in Cleared(where', index') => c.life = "vacant"
  PROVE  WindowsInv'
<1>1. ControlTypes' /\ child' \in [Indexes -> Childs] /\ orphans' = 0
  BY ControlTypesKept DEF AtIndex
<1>2. \A i \in Cleared(where', index') : Unused(i)'
  BY DEF WindowsInv, AtIndex, Cleared, Unused
<1>. QED
  BY <1>1, <1>2 DEF WindowsInv, WindowsTypeOK, ControlTypes, Wheres, Childs, Lives

----------------------------------------------------------------------------
(* Every step of the program is of one of three kinds.                     *)

Last == {"reset", "ended"}
Moves == /\ where' \in Wheres /\ index' \in Indexes
         /\ \/ where \in Serving /\ where' \in Serving
            \/ where \in Emptying /\ where' \in Emptying
            \/ where \in Last /\ where' \in Last
            \/ /\ UNCHANGED Working
               /\ \/ where = "reset" /\ where' = "start"
                  \/ where = "poll" /\ where' = "stop"
                  \/ where = "close" /\ where' \in Last

\* Nothing starts; a slot of the loop is emptied; a vacant slot gets a process.
Nothing == Quiet /\ Cleared(where', index') \subseteq Cleared(where, index)
Empties == \E c \in {NoChild, BackingOff} :
             /\ AtIndex(c) /\ Cleared(where', index') \subseteq Cleared(where, index) \cup {index}
             /\ index \in Cleared(where', index') => c = NoChild
Fills   == /\ AtIndex(Created) /\ Unused(index) /\ where \in Serving /\ where' \in Serving
           /\ Cleared(where', index') \subseteq Cleared(where, index) \ {index}
Kind == Moves /\ (Nothing \/ Empties \/ Fills)

LEMMA EnterKind == ASSUME WindowsInv, Enter PROVE Kind
<1>1. where = "reset" /\ orphans' = 0 /\ 1 \in Indexes /\ \A i \in Indexes : Unused(i)
  BY ChildTypes DEF WindowsInv, Cleared, Enter
<1>2. /\ child' \in [Indexes -> Childs] /\ \A i \in Indexes : Unused(i)'
      /\ UNCHANGED Working
  BY <1>1, ChildTypes DEF WindowsInv, Enter, Unused, Working, LiveProcess
<1>3. where' \in {"start", "ended"} /\ index' = 1
  BY DEF Enter, Step
<1>4. Quiet
  BY <1>1, <1>2 DEF WindowsInv, Quiet
<1>. QED
  BY <1>1, <1>2, <1>3, <1>4 DEF Kind, Moves, Nothing, Cleared, Wheres, Serving, Last

LEMMA StartKind == ASSUME WindowsInv, StartChild PROVE Kind
<1>1. /\ where = "start" /\ UNCHANGED orphans /\ 1 \in Indexes
      /\ index \in Indexes /\ worker_count \in Nat
  BY ChildTypes DEF WindowsInv, StartChild
<1>2. index \in Cleared(where, index)
  BY <1>1 DEF Cleared, Indexes
<1>3. CASE StartupFails
  <2>1. AtIndex(NoChild) /\ where' = "poll" /\ index' = 1
    BY <1>1, <1>3, ChildTypes, SlotPut DEF WindowsInv, StartupFails, Step
  <2>. QED
    BY <1>1, <2>1 DEF Kind, Moves, Empties, Cleared, Wheres, Serving
<1>4. CASE ~StartupFails
  <2>1. AtIndex(Created)
    BY <1>1, <1>4, ChildTypes, SlotPut DEF WindowsInv, StartChild
  <2>2. /\ index' \in Indexes
        /\ \/ where' = "handover" /\ index' = index
           \/ where' = "start" /\ index' = index + 1
           \/ where' = "poll"
    BY <1>1, <1>4, NextSlotStep DEF StartChild, Step
  <2>3. Cleared(where', index') \subseteq Cleared(where, index) \ {index}
    BY <1>1, <2>2 DEF Cleared, Indexes
  <2>. QED
    BY <1>1, <1>2, <2>1, <2>2, <2>3 DEF WindowsInv, Kind, Moves, Fills, Wheres, Serving
<1>. QED
  BY <1>3, <1>4

LEMMA HandOverQuiet == ASSUME WindowsInv, Connected, HandedOver, UNCHANGED orphans PROVE Quiet
<1>1. index \in Indexes /\ child[index] \in Childs
  BY ChildTypes DEF WindowsInv
<1>2. CASE child[index].life = "connected"
  <2>1. Put(index, Child("loading", "no"))
    BY <1>2 DEF HandedOver
  <2>. QED
    BY <1>1, <1>2, <2>1, ChildTypes, QuietPut DEF WindowsInv, LiveProcess
<1>3. CASE child[index].life # "connected"
  BY <1>1, <1>3, QuietPut DEF HandedOver
<1>. QED
  BY <1>2, <1>3

LEMMA HandOverKind == ASSUME WindowsInv, HandOver PROVE Kind
<1>1. /\ where = "handover" /\ UNCHANGED orphans /\ 1 \in Indexes /\ Connected
      /\ index \in Indexes /\ worker_count \in Nat
  BY ChildTypes DEF WindowsInv, HandOver
<1>2. CASE StartupFails
  <2>1. AtIndex(NoChild) /\ where' = "poll" /\ index' = 1
    BY <1>1, <1>2, ChildTypes, SlotPut DEF WindowsInv, StartupFails, Step
  <2>. QED
    BY <1>1, <2>1 DEF Kind, Moves, Empties, Cleared, Wheres, Serving
<1>3. CASE ~StartupFails
  <2>1. Quiet
    BY <1>1, <1>3, HandOverQuiet DEF HandOver
  <2>2. /\ index' \in Indexes
        /\ (where' = "start" /\ index' = index + 1) \/ where' = "poll"
    BY <1>3, NextSlotStep DEF HandOver
  <2>3. Cleared(where', index') \subseteq Cleared(where, index)
    BY <1>1, <2>2 DEF Cleared, Indexes
  <2>. QED
    BY <1>1, <2>1, <2>2, <2>3 DEF Kind, Moves, Nothing, Wheres, Serving
<1>. QED
  BY <1>2, <1>3

LEMMA PollKind == ASSUME WindowsInv, PollFlag PROVE Kind
<1>1. where = "poll" /\ where' \in {"stop", "check"} /\ index' = 1 /\ 1 \in Indexes /\ Quiet
  BY ChildTypes, QuietUnchanged DEF WindowsInv, PollFlag, Step
<1>2. UNCHANGED Working
  BY DEF PollFlag, Working
<1>. QED
  BY <1>1, <1>2 DEF Kind, Moves, Nothing, Cleared, Wheres, Serving, Emptying

LEMMA CheckKind == ASSUME WindowsInv, CheckChild PROVE Kind
<1>1. where = "check" /\ where' = "limit" /\ index' = index /\ index \in Indexes /\ Quiet
  BY ChildTypes, QuietEmpty DEF WindowsInv, CheckChild, Step
<1>. QED
  BY <1>1 DEF Kind, Moves, Nothing, Cleared, Wheres, Serving

LEMMA LimitKind == ASSUME WindowsInv, LimitChild PROVE Kind
<1>1. /\ where = "limit" /\ where' = "restart" /\ index' = index /\ index \in Indexes
      /\ UNCHANGED orphans /\ Cleared(where', index') = {}
  BY ChildTypes DEF WindowsInv, LimitChild, Step, Cleared
<1>2. CASE Put(index, BackingOff)
  <2>1. AtIndex(BackingOff)
    BY <1>1, <1>2, ChildTypes, SlotPut DEF WindowsInv
  <2>. QED
    BY <1>1, <2>1 DEF Kind, Moves, Empties, Wheres, Serving
<1>3. CASE UNCHANGED child \/ Put(index, StopRequested(child[index]))
  <2>1. Quiet
    BY <1>1, <1>3, QuietUnchanged, QuietStop
  <2>. QED
    BY <1>1, <2>1 DEF Kind, Moves, Nothing, Wheres, Serving
<1>. QED
  BY <1>2, <1>3 DEF LimitChild

LEMMA RestartKind == ASSUME WindowsInv, RestartChild PROVE Kind
<1>1. /\ where = "restart" /\ UNCHANGED orphans /\ index \in Indexes
      /\ \/ RestartFails
         \/ where' = "rehandover" /\ index' = index
         \/ NextSlot("check", "poll")
  BY ChildTypes DEF WindowsInv, RestartChild, Step
<1>2. /\ index' \in Indexes /\ where' \in {"check", "poll", "rehandover"}
  BY <1>1, NextSlotStep DEF RestartFails
<1>3. Cleared(where', index') = {} /\ where \in Serving /\ where' \in Serving /\ where' \in Wheres
  BY <1>1, <1>2 DEF Cleared, Serving, Wheres
<1>4. CASE UNCHANGED child
  BY <1>1, <1>2, <1>3, <1>4, QuietUnchanged DEF Kind, Moves, Nothing
<1>5. CASE Unused(index) /\ Put(index, Created)
  <2>1. AtIndex(Created)
    BY <1>1, <1>5, ChildTypes, SlotPut DEF WindowsInv
  <2>2. Cleared(where', index') \subseteq Cleared(where, index) \ {index}
    BY <1>3
  <2>. QED
    BY <1>2, <1>3, <1>5, <2>1, <2>2 DEF Kind, Moves, Fills
<1>6. CASE RestartFails
  <2>1. AtIndex(BackingOff)
    BY <1>1, <1>6, ChildTypes, SlotPut DEF WindowsInv, RestartFails
  <2>. QED
    BY <1>2, <1>3, <2>1 DEF Kind, Moves, Empties
<1>. QED
  BY <1>4, <1>5, <1>6 DEF RestartChild, Unused

LEMMA HandOverAgainKind == ASSUME WindowsInv, HandOverAgain PROVE Kind
<1>1. where = "rehandover" /\ UNCHANGED orphans /\ Connected /\ index \in Indexes
  BY ChildTypes DEF WindowsInv, HandOverAgain
<1>2. index' \in Indexes /\ where' \in {"check", "poll"}
  BY NextSlotStep DEF HandOverAgain, RestartFails
<1>3. Cleared(where', index') = {} /\ where \in Serving /\ where' \in Serving /\ where' \in Wheres
  BY <1>1, <1>2 DEF Cleared, Serving, Wheres
<1>4. CASE HandedOver
  BY <1>1, <1>2, <1>3, <1>4, HandOverQuiet DEF Kind, Moves, Nothing
<1>5. CASE RestartFails
  <2>1. AtIndex(BackingOff)
    BY <1>1, <1>5, ChildTypes, SlotPut DEF WindowsInv, RestartFails
  <2>. QED
    BY <1>2, <1>3, <2>1 DEF Kind, Moves, Empties
<1>. QED
  BY <1>4, <1>5 DEF HandOverAgain

LEMMA StopKind == ASSUME WindowsInv, StopChild PROVE Kind
<1>1. /\ where = "stop" /\ where' \in {"stop", "sweep"} /\ index' \in Indexes /\ Quiet
  BY NextSlotStep, QuietStop DEF StopChild
<1>. QED
  BY <1>1 DEF Kind, Moves, Nothing, Cleared, Wheres, Emptying

LEMMA SweepKind == ASSUME WindowsInv, SweepChild PROVE Kind
<1>1. /\ where = "sweep" /\ index' \in Indexes /\ Quiet
      /\ where' = "sweep" \/ (where' = "terminate" /\ index' = 1)
  BY NextSlotStep, QuietEmpty DEF SweepChild
<1>2. Cleared(where', index') = {}
  BY <1>1 DEF Cleared, Indexes
<1>. QED
  BY <1>1, <1>2 DEF Kind, Moves, Nothing, Wheres, Emptying

LEMMA TerminateKind == ASSUME WindowsInv, TerminateChild PROVE Kind
<1>1. /\ where = "terminate" /\ worker_count \in Nat /\ index \in Indexes /\ index' \in Indexes
      /\ \/ where' = "terminate" /\ index' = index + 1
         \/ where' = "close" /\ index = worker_count
      /\ AtIndex(NoChild)
  BY NextSlotStep, ChildTypes, SlotPut DEF WindowsInv, TerminateChild
<1>2. Cleared(where', index') \subseteq Cleared(where, index) \cup {index}
  BY <1>1 DEF Cleared, Indexes
<1>. QED
  BY <1>1, <1>2 DEF Kind, Moves, Empties, Wheres, Emptying

LEMMA LeaveKind == ASSUME WindowsInv, Leave PROVE Kind
<1>1. /\ where = "close" /\ where' \in Last /\ index' = 1 /\ 1 \in Indexes /\ Quiet
  BY ChildTypes, QuietUnchanged DEF WindowsInv, Leave, Step, Last
<1>2. UNCHANGED Working
  BY DEF Leave, Working
<1>. QED
  BY <1>1, <1>2 DEF Kind, Moves, Nothing, Cleared, Wheres, Last

LEMMA ControlKind ==
  ASSUME WindowsInv, DeadlinePassed \/ StopControl \/ ParamChange \/ ParamChangeStops
  PROVE  Kind
<1>1. UNCHANGED <<where, index, child, orphans>>
  BY DEF DeadlinePassed, StopControl, ParamChange, ParamChangeStops
<1>2. Quiet /\ index \in Indexes /\ where \in Wheres
  BY <1>1, ChildTypes, QuietUnchanged DEF WindowsInv
<1>. QED
  BY <1>1, <1>2 DEF Kind, Moves, Nothing, Wheres, Serving, Emptying, Last

LEMMA ConsoleKind == ASSUME WindowsInv, ConsoleEvent PROVE Kind
<1>1. UNCHANGED <<child, orphans>> /\ UNCHANGED Working
  BY DEF ConsoleEvent, Working
<1>2. Quiet /\ index \in Indexes /\ 1 \in Indexes /\ where \in Wheres
  BY <1>1, ChildTypes, QuietUnchanged DEF WindowsInv
<1>3. \/ where \in {"reset", "close"} /\ where' = "ended" /\ index' = 1
      \/ where \notin {"reset", "close"} /\ UNCHANGED <<where, index>>
  BY DEF ConsoleEvent, Step
<1>. QED
  BY <1>1, <1>2, <1>3 DEF Kind, Moves, Nothing, Cleared, Wheres, Serving, Emptying, Last

LEMMA ChildKind ==
  ASSUME WindowsInv, NEW i \in Indexes,
         RestartDue(i) \/ StopOverdue(i) \/ ChildConnects(i) \/ ChildServes(i) \/ ChildEnds(i)
  PROVE  Kind
<1>. USE DEF ChildChanges
<1>0. /\ child[i] \in Childs /\ index \in Indexes /\ where \in Wheres
      /\ UNCHANGED <<where, index, orphans>>
  BY ChildTypes DEF WindowsInv, RestartDue, StopOverdue, ChildConnects, ChildServes, ChildEnds
<1>. SUFFICES Quiet
  BY <1>0 DEF Kind, Moves, Nothing, Wheres, Serving, Emptying, Last
<1>l. ASSUME NEW life \in Lives, Put(i, [child[i] EXCEPT !.life = life]),
             child[i].life = "vacant" => life = "vacant",
             life \in LiveProcess => child[i].life \in LiveProcess
      PROVE  Quiet
  <2>. DEFINE c == [child[i] EXCEPT !.life = life]
  <2>1. c \in Childs /\ c.life = life /\ Put(i, c)
    BY <1>0, <1>l DEF Childs
  <2>. HIDE DEF c
  <2>. QED
    BY <1>0, <1>l, <2>1, QuietPut
<1>1. CASE RestartDue(i)
  BY <1>0, <1>1, ChildTypes, QuietPut DEF WindowsInv, RestartDue, LiveProcess
<1>2. CASE StopOverdue(i)
  <2>. DEFINE c == [child[i] EXCEPT !.stopping = "overdue"]
  <2>1. c \in Childs /\ c.life = child[i].life /\ Put(i, c)
    BY <1>0, <1>2 DEF Childs, StopOverdue
  <2>. HIDE DEF c
  <2>. QED
    BY <1>0, <2>1, QuietPut
<1>3. CASE ChildConnects(i)
  BY <1>3, <1>l DEF ChildConnects, Lives, LiveProcess
<1>4. CASE ChildServes(i)
  BY <1>4, <1>l DEF ChildServes, Lives, LiveProcess
<1>5. CASE ChildEnds(i)
  <2>1. PICK life \in {"lost", "exited"} : Put(i, [child[i] EXCEPT !.life = life])
    BY <1>5 DEF ChildEnds
  <2>2. child[i].life # "vacant"
    BY <1>5 DEF ChildEnds, LiveProcess
  <2>. QED
    BY <1>l, <2>1, <2>2 DEF Lives, LiveProcess
<1>. QED
  BY <1>1, <1>2, <1>3, <1>4, <1>5

LEMMA StepKind == ASSUME WindowsInv, WindowsNext PROVE Kind
  BY EnterKind, StartKind, HandOverKind, PollKind, CheckKind, LimitKind, RestartKind,
     HandOverAgainKind, StopKind, SweepKind, TerminateKind, LeaveKind, ControlKind,
     ConsoleKind, ChildKind DEF WindowsNext, SuperviseStep

----------------------------------------------------------------------------
(* The invariant and the promise.                                          *)

LEMMA WindowsInvInit == ASSUME WindowsInit PROVE WindowsInv
<1>1. NoChild \in Childs /\ NoChild.life = "vacant" /\ 1 \in Indexes
  BY WorkerCountAssumption DEF NoChild, Child, Childs, Lives, NoProcess, LiveProcess, Indexes
<1>2. ControlTypes /\ child \in [Indexes -> Childs] /\ orphans = 0 /\ \A i \in Indexes : Unused(i)
  BY <1>1 DEF WindowsInit, ControlTypes, Wheres, Unused
<1>. QED
  BY <1>2, TypeParts DEF WindowsInv, Cleared

LEMMA WindowsInvStep == ASSUME WindowsInv, [WindowsNext]_windowsVars PROVE WindowsInv'
<1>1. CASE WindowsNext
  <2>1. Kind
    BY <1>1, StepKind
  <2>2. where' \in Wheres /\ index' \in Indexes
    BY <2>1 DEF Kind, Moves
  <2>3. CASE Nothing
    BY <1>1, <2>2, <2>3, AfterQuiet DEF Nothing
  <2>4. CASE Empties
    <3>1. PICK c \in {NoChild, BackingOff} :
             /\ AtIndex(c) /\ Cleared(where', index') \subseteq Cleared(where, index) \cup {index}
             /\ index \in Cleared(where', index') => c = NoChild
      BY <2>4 DEF Empties
    <3>2. NoChild.life = "vacant"
      BY DEF NoChild, Child
    <3>. QED
      BY <1>1, <2>2, <3>1, <3>2, AfterAtIndex
  <2>5. CASE Fills
    BY <1>1, <2>2, <2>5, AfterAtIndex DEF Fills
  <2>. QED
    BY <2>1, <2>3, <2>4, <2>5 DEF Kind
<1>2. CASE UNCHANGED windowsVars
  <2>1. UNCHANGED <<where, index, child, stop_requested, reload_requested, handler,
                    service_status, transport, deadline_over, orphans>>
    BY <1>2 DEF windowsVars, requests
  <2>. QED
    BY <2>1 DEF WindowsInv, WindowsTypeOK, Cleared, Unused
<1>. QED
  BY <1>1, <1>2

THEOREM WindowsInvariance == WindowsSpec => []WindowsInv
  BY WindowsInvInit, WindowsInvStep, PTL DEF WindowsSpec

\* Every variable of the supervisor keeps its type, for any number of workers.
THEOREM WindowsTypeCorrect == WindowsSpec => []WindowsTypeOK
<1>1. WindowsInv => WindowsTypeOK
  BY DEF WindowsInv
<1>. QED
  BY <1>1, WindowsInvariance, PTL

LEMMA WindowsPoolStep ==
  ASSUME WindowsInv, WindowsInv', [WindowsNext]_windowsVars
  PROVE  [WindowsPool!Next]_(WindowsPool!vars)
<1>1. /\ IsFiniteSet(Indexes) /\ Cardinality(Indexes) = worker_count
      /\ Working \subseteq Indexes /\ Working' \subseteq Indexes
      /\ orphans = 0 /\ orphans' = 0 /\ index \in Indexes
  <2>1. worker_count \in Nat /\ Indexes = 1..worker_count /\ index \in Indexes
    BY ChildTypes DEF WindowsInv, Indexes
  <2>. QED
    BY <2>1, FS_Interval DEF WindowsInv, Working
<1>2. /\ IsFiniteSet(Working) /\ IsFiniteSet(Working')
      /\ Cardinality(Working) \in Nat /\ Cardinality(Working') \in Nat
      /\ Cardinality(Working') <= worker_count
  BY <1>1, FS_Subset, FS_CardinalityType
<1>3. Working' \subseteq Working => Cardinality(Working') <= Cardinality(Working)
  BY <1>2, FS_Subset
<1>4. where = "close" => Cardinality(Working) = 0
  <2>1. where = "close" => Working = {}
    BY DEF WindowsInv, Working, Cleared, Unused, LiveProcess
  <2>. QED
    BY <2>1, FS_EmptySet
<1>. DEFINE phase == IF where \in Serving THEN "running" ELSE IF where \in Emptying THEN "draining" ELSE "down"
            live == Cardinality(Working) + orphans
<1>. USE DEF Serving, Emptying, Last
<1>p. /\ UNCHANGED WindowsPool!vars <=> UNCHANGED phase /\ UNCHANGED live
      /\ WindowsPool!Start <=> phase = "down" /\ phase' = "running" /\ UNCHANGED live
      /\ WindowsPool!Up <=> phase = "running" /\ live < worker_count /\ live' = live + 1 /\ UNCHANGED phase
      /\ WindowsPool!Down <=> live' \in 0..(live - 1) /\ UNCHANGED phase
      /\ WindowsPool!Drain <=> phase = "running" /\ phase' = "draining" /\ UNCHANGED live
      /\ WindowsPool!Stop <=> phase = "draining" /\ live = 0 /\ phase' = "down" /\ UNCHANGED live
  BY DEF WindowsPool!vars, WindowsPool!Start, WindowsPool!Up, WindowsPool!Down,
         WindowsPool!Drain, WindowsPool!Stop, Working
<1>l. live = Cardinality(Working) /\ live' = Cardinality(Working')
  BY <1>1, <1>2
<1>w. /\ where \in {"reset", "ended"} => phase = "down"
      /\ where \in Serving => phase = "running"
      /\ where \in Emptying => phase = "draining"
      /\ where' \in {"reset", "ended"} => phase' = "down"
      /\ where' \in Serving => phase' = "running"
      /\ where' \in Emptying => phase' = "draining"
  OBVIOUS
<1>v. UNCHANGED where => UNCHANGED phase
  OBVIOUS
<1>. HIDE DEF phase, live, Serving, Emptying
<1>s. /\ "start" \in Serving /\ "poll" \in Serving /\ "stop" \in Emptying /\ "close" \in Emptying
  BY DEF Serving, Emptying
<1>5. CASE UNCHANGED windowsVars
  <2>1. UNCHANGED <<where, Working>>
    BY <1>5 DEF windowsVars, Working
  <2>. QED
    BY <1>l, <1>p, <1>v, <2>1
<1>6. CASE WindowsNext
  <2>1. Kind
    BY <1>6, StepKind
  <2>m. Moves
    BY <2>1 DEF Kind
  <2>2. CASE Fills
    <3>1. index \notin Working /\ Working' = Working \cup {index} /\ UNCHANGED phase /\ phase = "running"
      BY <1>w, <2>2 DEF Fills, Unused, AtIndex, Working, LiveProcess, Created, Child
    <3>2. Cardinality(Working') = Cardinality(Working) + 1
      BY <1>2, <3>1, FS_AddElement
    <3>. QED
      BY <1>2, <1>l, <1>p, <3>1, <3>2, WorkerCountAssumption DEF WindowsPool!Next
  <2>3. CASE Working' \subseteq Working /\ UNCHANGED phase
    <3>1. live' = live \/ live' \in 0..(live - 1)
      BY <1>2, <1>3, <1>l, <2>3
    <3>. QED
      BY <1>p, <2>3, <3>1 DEF WindowsPool!Next
  <2>4. CASE Working' \subseteq Working /\ phase' # phase
    <3>1. UNCHANGED Working /\ \/ where = "reset" /\ where' = "start"
                               \/ where = "poll" /\ where' = "stop"
                               \/ where = "close" /\ where' \in Last
      BY <1>w, <2>m, <2>4 DEF Moves
    <3>. QED
      BY <1>4, <1>l, <1>p, <1>s, <1>w, <3>1 DEF WindowsPool!Next
  <2>5. Working' \subseteq Working \/ Fills
    BY <1>1, <2>1 DEF Kind, Nothing, Quiet, Empties, AtIndex, NoChild, BackingOff, Child, LiveProcess
  <2>. QED
    BY <2>2, <2>3, <2>4, <2>5
<1>. QED
  BY <1>5, <1>6

\* The supervisor keeps the promise of WorkerPool, whatever the children and the
\* controls do: no more processes than configured, none gained in a drain, and it
\* ends or begins anew when none is left; nor does it let go of one that runs.
THEOREM WindowsPromiseKept == WindowsSpec => WindowsPoolKept
<1>1. WindowsInit => WindowsPool!Init
  <2>. SUFFICES ASSUME WindowsInit PROVE WindowsPool!Init
    OBVIOUS
  <2>1. {i \in Indexes : child[i].life \in LiveProcess} = {}
    BY DEF WindowsInit, NoChild, Child, LiveProcess
  <2>2. Cardinality({i \in Indexes : child[i].life \in LiveProcess}) = 0
    BY <2>1, FS_EmptySet
  <2>. QED
    BY <2>2 DEF WindowsInit, WindowsPool!Init, Serving, Emptying
<1>2. WindowsInv /\ WindowsInv' /\ [WindowsNext]_windowsVars => [WindowsPool!Next]_(WindowsPool!vars)
  BY WindowsPoolStep
<1>. QED
  BY <1>1, <1>2, WindowsInvariance, WindowsTypeCorrect, PTL DEF WindowsSpec, WindowsPoolKept, WindowsPool!Spec
===============================================================================
