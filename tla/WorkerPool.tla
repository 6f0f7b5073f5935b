------------------------------ MODULE WorkerPool ------------------------------
(***************************************************************************)
(* What the process supervisor promises (docs/separan-gw.md, "Process      *)
(* model"): while it runs there are never more live workers than the       *)
(* configured number, a drained pool gains no worker, and it is down only  *)
(* when none is left, so that an image executed again starts from nothing. *)
(***************************************************************************)
EXTENDS Integers

CONSTANT Workers       \* the configured number of workers

VARIABLES phase, live  \* what the pool is doing, and its live workers
vars == <<phase, live>>

Init == phase = "down" /\ live = 0

Start == phase = "down" /\ phase' = "running" /\ UNCHANGED live
Up    == phase = "running" /\ live < Workers /\ live' = live + 1 /\ UNCHANGED phase
Down  == live' \in 0..(live - 1) /\ UNCHANGED phase  \* one worker ends, or several do
Drain == phase = "running" /\ phase' = "draining" /\ UNCHANGED live
Stop  == phase = "draining" /\ live = 0 /\ phase' = "down" /\ UNCHANGED live

Next == Start \/ Up \/ Down \/ Drain \/ Stop

Spec == Init /\ [][Next]_vars
=============================================================================
