------------------------------ MODULE Processes ------------------------------
(***************************************************************************)
(* exec, exec_checked and shell_exec of reference/separan/processes.py:    *)
(* one command, the descendants it leaves behind, which keep its pipes     *)
(* open, and the timeout.                                                  *)
(*                                                                         *)
(* An operator named X_Mistake is X with one mistake in it; no action uses *)
(* it, it shows which property would notice.                               *)
(***************************************************************************)
EXTENDS Integers

CONSTANTS Timeout, OutputLimit, MaxOutput  \* ticks; units of output; bound: units written

ASSUME ProcessesAssumption == Timeout \in Nat \ {0} /\ OutputLimit \in Nat /\ MaxOutput \in Nat

VARIABLES
  phase,    \* idle, communicate (with a timeout), drain (communicate without one), done
  checked,  \* exec_checked
  child,    \* none, running, exited
  code,     \* exit code; Killed for SIGKILL
  held,     \* a descendant is alive and has the pipes
  wrote,    \* units of output
  elapsed,  \* ticks since the start, up to Timeout
  timedOut,
  outcome    \* none, result or the code of the error

processVars == <<phase, checked, child, code, held, wrote, elapsed, timedOut, outcome>>
commandVars == <<child, code, held, wrote>>
Killed == -9

ProcessesInit ==
  /\ phase = "idle" /\ checked \in BOOLEAN /\ child = "none" /\ code = 0 /\ held = FALSE /\ wrote = 0
  /\ elapsed = 0 /\ timedOut = FALSE /\ outcome = "none"

Popen == phase = "idle" /\ phase' = "communicate" /\ child' = "running" /\ UNCHANGED <<checked, code, held, wrote, elapsed, timedOut, outcome>>
PopenFails == phase = "idle" /\ phase' = "done" /\ outcome' = "E804" /\ UNCHANGED <<commandVars, checked, elapsed, timedOut>>

(* The command: it writes, leaves a descendant, exits; descendants write and end. *)
Writes == (child = "running" \/ held) /\ wrote < MaxOutput /\ wrote' = wrote + 1 /\ UNCHANGED <<phase, checked, child, code, held, elapsed, timedOut, outcome>>
Forks == child = "running" /\ ~held /\ held' = TRUE /\ UNCHANGED <<phase, checked, child, code, wrote, elapsed, timedOut, outcome>>
Exits ==
  /\ child = "running" /\ child' = "exited" /\ code' \in {0, 1}
  /\ UNCHANGED <<phase, checked, held, wrote, elapsed, timedOut, outcome>>
DescendantEnds == held /\ held' = FALSE /\ UNCHANGED <<phase, checked, child, code, wrote, elapsed, timedOut, outcome>>
Tick == phase = "communicate" /\ elapsed < Timeout /\ elapsed' = elapsed + 1 /\ UNCHANGED <<commandVars, phase, checked, timedOut, outcome>>

\* What is answered once the pipes are closed.
Answer_CodeOnly == IF wrote > OutputLimit THEN "E805" ELSE IF checked /\ code \notin {0, Killed} THEN "E808" ELSE "result"
Answer ==
  IF wrote > OutputLimit THEN "E805"
  ELSE IF checked /\ timedOut THEN "E809"
  ELSE IF checked /\ code # 0 THEN "E808"
  ELSE "result"
PipesClosed == child = "exited" /\ ~held
Communicated ==
  /\ phase \in {"communicate", "drain"} /\ PipesClosed
  /\ phase' = "done" /\ outcome' = Answer
  /\ UNCHANGED <<commandVars, checked, elapsed, timedOut>>
\* The kill reaches the child, if it is still there, and nothing else.
Kill_Forgotten == UNCHANGED <<child, code>>
Kill == IF child = "running" THEN child' = "exited" /\ code' = Killed ELSE UNCHANGED <<child, code>>
TimeoutExpired ==
  /\ phase = "communicate" /\ elapsed = Timeout /\ ~PipesClosed
  /\ phase' = "drain" /\ timedOut' = TRUE /\ Kill
  /\ UNCHANGED <<checked, held, wrote, elapsed, outcome>>

ProcessesNext ==
  \/ Popen \/ PopenFails \/ Writes \/ Forks \/ Exits \/ DescendantEnds \/ Tick
  \/ Communicated \/ TimeoutExpired

\* Time passes and the runtime goes on; what the command does is its own affair.
ProcessesFairness == WF_processVars(Tick) /\ WF_processVars(Communicated) /\ WF_processVars(TimeoutExpired)

----------------------------------------------------------------------------
\* A result is of a command that has ended, with all that has been written to its pipes
\* within the limit; one that was killed is said to have timed out; exec_checked only
\* returns what ended by itself, in time, with 0.
ResultHonest ==
  /\ outcome # "none" => child # "running" /\ ~held
  /\ outcome = "result" => wrote <= OutputLimit /\ (code = Killed => timedOut) /\ (checked => code = 0 /\ ~timedOut)
  /\ timedOut => elapsed = Timeout

\* exec() ends, whatever the command does, unless a descendant keeps the pipes open.
ExecEnds == []<>~held => (phase = "communicate" ~> phase = "done")

\* Both: a command is waited for to its end, and what is said of it is so.
ExecKept == []ResultHonest /\ ExecEnds
=============================================================================
