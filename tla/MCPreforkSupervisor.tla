-------------------------- MODULE MCPreforkSupervisor --------------------------
(***************************************************************************)
(* The process managers on small pools.  The POSIX one has one pid more    *)
(* than workers, so that a slot may get a pid another slot had.  The two   *)
(* share no state: a check looks at the behaviours of each, with the other *)
(* at its start.                                                           *)
(***************************************************************************)
EXTENDS PreforkSupervisor, WindowsSupervisor

MCPids == 1..(Workers + 1)
\* One reload, or up to two forks that fail: one of each slot, or of the start.
MCBounds == {<<0, 1>>, <<2, 0>>}
MCOneFailure == {<<1, 0>>}

VARIABLE part  \* the module whose steps the behaviour takes
Posix == part = "posix"
Windows == part = "windows"

PoolInit ==
  /\ part \in {"posix", "windows"} /\ Init
  /\ WindowsInit /\ (part # "windows" => service_status = "none" /\ transport = "pipe")
PoolNext ==
  /\ UNCHANGED part
  /\ \/ Posix /\ Next /\ UNCHANGED windowsVars
     \/ Windows /\ WindowsNext /\ UNCHANGED vars
poolVars == <<part, vars, windowsVars>>
PoolSpec == PoolInit /\ [][PoolNext]_poolVars

PoolFairness ==
  /\ WF_vars(Posix /\ SupervisorStep) /\ WF_vars(Posix /\ GraceEnds)
  /\ \A i \in Slots : WF_vars(Posix /\ BackoffElapses(i))
  /\ WF_windowsVars(Windows /\ SuperviseStep) /\ WF_windowsVars(Windows /\ DeadlinePassed)
PoolFairSpec == PoolSpec /\ PoolFairness
=============================================================================
