-------------------------------- MODULE Lambda --------------------------------
(***************************************************************************)
(* The AWS Lambda host of reference/separan/lambda_runtime.py and          *)
(* lambda_aws.py: workers, each with its cached application, that handle   *)
(* one alert over and over as examples/monitor does (reserve, publish,     *)
(* release on failure), through the host functions; and two writers that   *)
(* put a configuration file "if absent" while an operator edits it.        *)
(*                                                                         *)
(* An operator named X_Mistake is X with one mistake in it; no action uses *)
(* it, it shows which property would notice.                               *)
(***************************************************************************)
EXTENDS Integers, Sequences

CONSTANTS
  LambdaWorkers,
  Window,       \* how long an alert is suppressed after it was sent
  TimeLimit,    \* an invocation that lasts longer is killed
  MaxClock      \* bound: time

ASSUME LambdaAssumption == Window \in Nat /\ TimeLimit \in Nat /\ TimeLimit < Window /\ MaxClock \in Nat

VARIABLES
  clock,
  stage,      \* idle, reserve, publish, release
  began,      \* when the worker read the time, at the start of an invocation
  expires,    \* expires_at of the reservation in the table, or NotReserved
  holder,     \* the worker that made it; "killed" if it was killed before it had sent
  deliveries, \* times at which the alert was sent
  suppressed, \* the worker has just taken the alert for a duplicate
  file,       \* the configuration file in S3: absent, default, edited
  fileEdits,  \* edits of it
  seen        \* per writer: edits it had seen when HEAD said that there was no file

lambdaVars == <<clock, stage, began, expires, holder, deliveries, suppressed, file, fileEdits, seen>>
configVars == <<file, fileEdits, seen>>
tableVars == <<expires, holder>>

NotReserved == -1
NotLooked == -1
Writers == {"writer 1", "writer 2"}

LambdaInit ==
  /\ clock = 0 /\ stage = [w \in LambdaWorkers |-> "idle"]
  /\ began = [w \in LambdaWorkers |-> 0] /\ expires = NotReserved /\ holder = "none" /\ deliveries = <<>>
  /\ suppressed = [w \in LambdaWorkers |-> FALSE]
  /\ file = "absent" /\ fileEdits = 0 /\ seen = [w \in Writers |-> NotLooked]

----------------------------------------------------------------------------
(* Invocations.                                                            *)

Invoke(w) ==
  /\ stage[w] = "idle" /\ stage' = [stage EXCEPT ![w] = "reserve"]
  /\ began' = [began EXCEPT ![w] = clock] /\ suppressed' = [suppressed EXCEPT ![w] = FALSE]
  /\ UNCHANGED <<clock, tableVars, deliveries, configVars>>

\* attribute_not_exists(pk) OR expires_at < :now, decided by the table.
Reservable_Inclusive(now) == expires = NotReserved \/ expires <= now
Reservable(now) == expires = NotReserved \/ expires < now
ReserveUntil(w) ==
  /\ stage[w] = "reserve"
  /\ IF Reservable(began[w])
     THEN /\ expires' = began[w] + Window /\ holder' = w /\ stage' = [stage EXCEPT ![w] = "publish"]
          /\ UNCHANGED suppressed
     ELSE /\ stage' = [stage EXCEPT ![w] = "idle"] /\ suppressed' = [suppressed EXCEPT ![w] = TRUE]
          /\ UNCHANGED tableVars
  /\ UNCHANGED <<clock, began, deliveries, configVars>>
\* Any other failure of the service is raised as E980, outside the try of the handler.
ReserveFails(w) ==
  /\ stage[w] = "reserve" /\ stage' = [stage EXCEPT ![w] = "idle"]
  /\ UNCHANGED <<clock, began, tableVars, deliveries, suppressed, configVars>>
SnsPublish(w) ==
  /\ stage[w] = "publish" /\ stage' = [stage EXCEPT ![w] = "idle"]
  /\ deliveries' = Append(deliveries, clock)
  /\ UNCHANGED <<clock, began, tableVars, suppressed, configVars>>
AfterPublishFailure_Nothing == "idle"
AfterPublishFailure == "release"
PublishFails(w) ==
  /\ stage[w] = "publish" /\ stage' = [stage EXCEPT ![w] = AfterPublishFailure]
  /\ UNCHANGED <<clock, began, tableVars, deliveries, suppressed, configVars>>
\* The deletion has no condition.
DynamodbDelete(w) ==
  /\ stage[w] = "release" /\ stage' = [stage EXCEPT ![w] = "idle"]
  /\ expires' = NotReserved /\ holder' = "none"
  /\ UNCHANGED <<clock, began, deliveries, suppressed, configVars>>
\* A worker is killed, and a new one takes its place: the reservation stays.
WorkerKilled(w) ==
  /\ stage[w] \in {"reserve", "publish", "release"} /\ stage' = [stage EXCEPT ![w] = "idle"]
  /\ holder' = IF holder = w /\ stage[w] # "reserve" THEN "killed" ELSE holder
  /\ UNCHANGED <<clock, began, expires, deliveries, suppressed, configVars>>
Pass ==
  /\ clock < MaxClock /\ clock' = clock + 1
  /\ \A w \in LambdaWorkers : stage[w] \in {"reserve", "publish", "release"} => clock < began[w] + TimeLimit
  /\ UNCHANGED <<stage, began, tableVars, deliveries, suppressed, configVars>>

----------------------------------------------------------------------------
(* s3_write_json_if_absent: HEAD, then PUT.                                *)
WhenThere_Overwrite(w) == fileEdits
WhenThere(w) == NotLooked
HeadObject(w) ==
  /\ seen[w] = NotLooked
  /\ seen' = [seen EXCEPT ![w] = IF file = "absent" THEN fileEdits ELSE WhenThere(w)]
  /\ UNCHANGED <<clock, stage, began, tableVars, deliveries, suppressed, file, fileEdits>>
PutObject(w) ==
  /\ seen[w] # NotLooked /\ file' = "default" /\ seen' = [seen EXCEPT ![w] = NotLooked]
  /\ UNCHANGED <<clock, stage, began, tableVars, deliveries, suppressed, fileEdits>>
EditFile ==
  /\ fileEdits < 1 /\ fileEdits' = fileEdits + 1 /\ file' = "edited"
  /\ UNCHANGED <<clock, stage, began, tableVars, deliveries, suppressed, seen>>

AlertNext ==
  \/ \E w \in LambdaWorkers :
       \/ Invoke(w) \/ ReserveUntil(w) \/ ReserveFails(w) \/ SnsPublish(w) \/ PublishFails(w) \/ DynamodbDelete(w) \/ WorkerKilled(w)
  \/ Pass
FileNext == EditFile \/ \E w \in Writers : HeadObject(w) \/ PutObject(w)
LambdaSpec == LambdaInit /\ [][AlertNext \/ FileNext]_lambdaVars

----------------------------------------------------------------------------
\* However many workers handle an alert, retry it, fail or are killed, it is not sent
\* again before the window, less the length of an invocation, has passed.
SentOnce == \A i \in 1..Len(deliveries) - 1 : deliveries[i + 1] - deliveries[i] > Window - TimeLimit

\* An alert is only taken for a duplicate of one that was sent within the window, that
\* is being sent (or released) at the time, or whose worker was killed.
SuppressedForReason ==
  [][\A w \in LambdaWorkers : ~suppressed[w] /\ suppressed'[w] =>
       \/ deliveries # <<>> /\ deliveries[Len(deliveries)] >= began[w] - Window
       \/ holder = "killed"
       \/ stage[holder] \in {"publish", "release"}]_lambdaVars

\* An edited file is only overwritten by a writer that had looked before it was edited.
EditsKept == [][file = "edited" /\ file' = "default" => \E w \in Writers : seen[w] # NotLooked /\ seen[w] < fileEdits]_lambdaVars

\* All three: an alert is sent once and suppressed for a reason, and edits stay.
LambdaKept == []SentOnce /\ SuppressedForReason /\ EditsKept
=============================================================================
