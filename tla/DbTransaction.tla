---------------------------- MODULE DbTransaction ----------------------------
(***************************************************************************)
(* A Separan program that uses one SQLite connection: the statements       *)
(* `transaction' and `try' of reference/separan/interpreter.py, the        *)
(* built-ins of reference/separan/db/core.py, the adapter of               *)
(* reference/separan/db/drivers/sqlite.py, and SQLite as the adapter uses  *)
(* it.                                                                     *)
(*                                                                         *)
(* The program is any program: at each step it runs one statement of its   *)
(* own choice, or leaves the innermost block.  What it is doing is a stack *)
(* of blocks and a mode: running, or unwinding with an error category, a   *)
(* return or an exception that is not a Separan error.  A host may invoke  *)
(* it again with the same connection, as an HTTP server does per request.  *)
(*                                                                         *)
(* SQLite itself ends a transaction when a write is interrupted, or fails  *)
(* under ON CONFLICT ROLLBACK; COMMIT may be refused (another writer, a    *)
(* deferred constraint) and leaves the transaction open.                   *)
(*                                                                         *)
(* An operator named X_Mistake is X with one mistake in it; no action uses *)
(* it, it shows which property would notice.                               *)
(***************************************************************************)
EXTENDS Naturals, Sequences, FiniteSets

CONSTANTS
  Programs,   \* what programs, and SQLite under them, may do
  MaxBlocks,  \* bound: transaction blocks a program enters
  MaxDepth    \* bound: blocks inside one another

ASSUME BoundsAssumption == MaxBlocks \in Nat /\ MaxDepth \in Nat
\* manual: it calls db_begin, db_commit and db_rollback; close: db_close; time: it
\* gives queries a timeout; refuse: SQLite may refuse a COMMIT; rollBack: a write that
\* fails may end the transaction; writes, blocks: bounds of these.
ASSUME ProgramsAssumption ==
  Programs \subseteq [manual : BOOLEAN, close : BOOLEAN, time : BOOLEAN, refuse : BOOLEAN,
                     rollBack : BOOLEAN, writes : Nat, blocks : 0..MaxBlocks]

Errors == {"db_query_error", "db_constraint_error", "db_timeout_error",
           "db_transaction_error", "db_connection_error"}
Modes  == Errors \cup {"run", "returned", "aborted"}
Blocks == 1..MaxBlocks

VARIABLES
  may,                \* of Programs: what is run
  stack,              \* the blocks the program is in, innermost last
  mode,
  \* DbConnectionValue
  closed, transaction_active,
  \* SQLite: a transaction is open, its writes, and the writes that last
  inTx, pending, durable,
  handler,            \* progress handler: none, armed, or past its deadline
  \* history
  entered, writes,    \* blocks and writes so far
  fate,               \* block -> how it ended
  exit,               \* how the last block was left, and the mode that came out
  last                \* the last statement, if it was interrupted: timed, its result

control    == <<stack, mode>>
connection == <<closed, transaction_active>>
engine     == <<inTx, pending, durable>>
counters   == <<entered, writes>>
vars == <<may, control, connection, engine, handler, counters, fate, exit, last>>

Transaction(b) == [kind |-> "transaction", block |-> b]
\* A try statement: the part it is in, what its catches take, and the mode its
\* finally holds back.
Try(part, catches, held) == [kind |-> "try", part |-> part, catches |-> catches, held |-> held]
CatchSets == {{}, {"db_constraint_error"}, Errors}  \* bound: none, one category, all
Frames == [kind : {"transaction"}, block : Blocks]
            \cup [kind : {"try"}, part : {"body", "catch", "finally"},
                  catches : CatchSets, held : Modes]

Top == stack[Len(stack)]
Popped == SubSeq(stack, 1, Len(stack) - 1)
Replaced(frame) == Append(Popped, frame)
Inner == IF \E k \in DOMAIN stack : stack[k].kind = "transaction"
         THEN LET k == CHOOSE k \in DOMAIN stack :
                         /\ stack[k].kind = "transaction"
                         /\ \A j \in DOMAIN stack : j > k => stack[j].kind # "transaction"
              IN  stack[k].block
         ELSE 0

----------------------------------------------------------------------------
(* begin, commit and rollback of db/core.py and the adapter; each ends in  *)
(* `result': the mode "run", or the category raised.                       *)

Refused(result, category) == /\ result = category
                             /\ UNCHANGED <<connection, engine>>
Flag(active) == transaction_active' = active /\ UNCHANGED closed

Begin(result) ==
  \/ closed /\ Refused(result, "db_connection_error")
  \/ ~closed /\ (transaction_active \/ inTx) /\ Refused(result, "db_transaction_error")
  \/ /\ ~closed /\ ~transaction_active /\ ~inTx /\ result = "run"
     /\ Flag(TRUE) /\ inTx' = TRUE /\ UNCHANGED <<pending, durable>>

Commit(result) ==
  \/ closed /\ Refused(result, "db_connection_error")
  \/ /\ ~closed /\ (~transaction_active \/ ~inTx \/ may.refuse)
     /\ Refused(result, "db_transaction_error")
  \/ /\ ~closed /\ transaction_active /\ inTx /\ result = "run"
     /\ Flag(FALSE)
     /\ inTx' = FALSE /\ pending' = {} /\ durable' = durable \cup pending

Rollback_FlagOnly(result) ==
  \/ closed /\ Refused(result, "db_connection_error")
  \/ ~closed /\ ~transaction_active /\ Refused(result, "db_transaction_error")
  \/ ~closed /\ transaction_active /\ result = "run" /\ Flag(FALSE) /\ UNCHANGED engine
Rollback(result) ==
  \/ closed /\ Refused(result, "db_connection_error")
  \/ ~closed /\ (~transaction_active \/ ~inTx) /\ Refused(result, "db_transaction_error")
  \/ /\ ~closed /\ transaction_active /\ inTx /\ result = "run"
     /\ Flag(FALSE) /\ inTx' = FALSE /\ pending' = {} /\ UNCHANGED durable

----------------------------------------------------------------------------
(* Statements.                                                             *)

Running == mode = "run"
NoStatement == [timed |-> FALSE, interrupted |-> FALSE, result |-> "run"]
Statement(timed, interrupted, result) ==
  [timed |-> timed, interrupted |-> interrupted, result |-> result]

NoExit == [cause |-> "run", result |-> "run"]

\* TransactionStmt up to its body; the error of db_begin is raised outside it.
EnterTransaction ==
  /\ Running /\ entered < may.blocks /\ Len(stack) < MaxDepth
  /\ \E result \in Modes :
       /\ Begin(result) /\ mode' = result
       /\ IF result = "run"
          THEN /\ stack' = Append(stack, Transaction(entered + 1))
               /\ entered' = entered + 1
               /\ fate' = [fate EXCEPT ![entered + 1] = "open"]
          ELSE UNCHANGED <<stack, entered, fate>>
  /\ exit' = NoExit
  /\ UNCHANGED <<handler, writes, last>>

EnterTry(catches) ==
  /\ Running /\ Len(stack) < MaxDepth
  /\ stack' = Append(stack, Try("body", catches, "run"))
  /\ UNCHANGED <<mode, connection, engine, handler, counters, fate, exit, last>>

\* A return, a throw, or an exception of the host language: an interrupt, a bug.
Leave(how) ==
  /\ Running /\ stack # <<>> /\ mode' = how
  /\ how \in {"returned", "aborted", "db_query_error"}
  /\ UNCHANGED <<stack, connection, engine, handler, counters, fate, exit, last>>

\* db_begin, db_commit, db_rollback.
Manual ==
  /\ may.manual /\ Running
  /\ \E result \in Modes : /\ Begin(result) \/ Commit(result) \/ Rollback(result)
                           /\ mode' = result
  /\ UNCHANGED <<stack, handler, counters, fate, exit, last>>

\* _close: what the open transaction wrote is gone.
Closed_KeepsFlag == closed' = TRUE /\ UNCHANGED transaction_active
Closed == closed' = TRUE /\ transaction_active' = FALSE
Close ==
  /\ may.close /\ Running /\ Closed
  /\ inTx' = FALSE /\ pending' = {} /\ UNCHANGED durable
  /\ UNCHANGED <<control, handler, counters, fate, exit, last>>

\* _run: execute sets the progress handler, and only the cursor clears it.
Armed(timed)    == IF timed THEN "armed" ELSE handler
Disarmed(timed) == IF timed THEN "none" ELSE handler

Finish(timed, interrupted, result) ==
  /\ mode' = result
  /\ last' = IF interrupted THEN Statement(timed, TRUE, result) ELSE NoStatement
  /\ UNCHANGED <<stack, connection, entered, fate, exit>>

OnClosed == /\ Running /\ closed
            /\ Finish(FALSE, FALSE, "db_connection_error")
            /\ UNCHANGED <<engine, handler, writes>>

\* Only a long statement meets the handler: its own once the deadline passes
\* while it runs, or one left behind that is past its deadline.
MayInterrupt(timed) == timed \/ handler = "expired"

RolledBack == inTx' = FALSE /\ pending' = {} /\ UNCHANGED durable

\* A statement that writes: done, failed or interrupted.
Write(timed) ==
  /\ Running /\ ~closed /\ writes < may.writes /\ (timed => may.time)
  /\ writes' = writes + 1
  /\ \/ /\ LET write == [number |-> writes + 1, block |-> Inner]
           IN  IF inTx THEN pending' = pending \cup {write} /\ UNCHANGED <<inTx, durable>>
               ELSE durable' = durable \cup {write} /\ UNCHANGED <<inTx, pending>>
        /\ handler' = Disarmed(timed)
        /\ Finish(timed, FALSE, "run")
     \/ /\ UNCHANGED engine \/ (may.rollBack /\ RolledBack)
        /\ handler' = Armed(timed)
        /\ Finish(timed, FALSE, "db_constraint_error")
     \/ /\ MayInterrupt(timed) /\ RolledBack
        /\ handler' = IF timed THEN "expired" ELSE handler
        /\ Finish(timed, TRUE, IF timed THEN "db_timeout_error" ELSE "db_query_error")

\* A query: the first row is computed by execute, the others by fetchall,
\* where an interruption is reported as any other error; it may fail in either,
\* and db_query_one fails on a second row.
Query(timed) ==
  /\ Running /\ ~closed /\ (timed => may.time)
  /\ \/ handler' = Disarmed(timed) /\ Finish(timed, FALSE, "run")
     \/ handler' \in {Armed(timed), Disarmed(timed)} /\ Finish(timed, FALSE, "db_query_error")
     \/ /\ MayInterrupt(timed)
        /\ \/ /\ handler' = IF timed THEN "expired" ELSE handler
              /\ Finish(timed, TRUE, IF timed THEN "db_timeout_error" ELSE "db_query_error")
           \/ handler' = Disarmed(timed) /\ Finish(timed, TRUE, "db_query_error")
  /\ UNCHANGED <<engine, writes>>

DeadlinePasses ==
  /\ handler = "armed" /\ handler' = "expired"
  /\ UNCHANGED <<control, connection, engine, counters, fate, exit, last>>

----------------------------------------------------------------------------
(* Leaving blocks: TransactionStmt and _execute_try.                       *)

\* The transaction block is left with `result' after its body ended with `cause'.
Left(cause, result) ==
  /\ stack' = Popped /\ mode' = result
  /\ exit' = [cause |-> cause, result |-> result]
  /\ fate' = [fate EXCEPT ![Top.block] =
                IF result \in {"run", "returned"} THEN "committed" ELSE "failed"]
  /\ UNCHANGED <<handler, counters, last>>

InTransaction == stack # <<>> /\ Top.kind = "transaction"
InTry         == stack # <<>> /\ Top.kind = "try"

\* How a body that ended with `cause' settles its transaction: an error or an
\* abort rolls back, the end or a return commits.
Settles_AbortCommits(cause) == IF cause \in Errors THEN "rollback" ELSE "commit"
Settles(cause) == IF cause \in {"run", "returned"} THEN "commit" ELSE "rollback"

\* What the block ends with: the error of commit or rollback replaces the rest.
Outcome_NotRaised(cause, settled) == settled
Outcome(cause, settled) == IF settled = "run" THEN cause ELSE settled

LeaveTransaction ==
  /\ InTransaction
  /\ \E settled \in Modes :
       /\ IF Settles(mode) = "commit" THEN Commit(settled) ELSE Rollback(settled)
       /\ Left(mode, Outcome(mode, settled))

\* The body or a catch ends, or an error finds no catch: the finally block runs
\* and holds the mode back; an error that finds its catch runs that.
LeaveTryPart ==
  /\ InTry /\ Top.part # "finally"
  /\ mode' = "run"
  /\ stack' = Replaced(IF Top.part = "body" /\ mode \in Top.catches
                       THEN Try("catch", Top.catches, "run")
                       ELSE Try("finally", Top.catches, mode))
  /\ UNCHANGED <<connection, engine, handler, counters, fate, exit, last>>

\* The end of finally resumes what it held back, unless it ended otherwise.
LeaveFinally ==
  /\ InTry /\ Top.part = "finally"
  /\ mode' = IF mode = "run" THEN Top.held ELSE mode
  /\ stack' = Popped
  /\ UNCHANGED <<connection, engine, handler, counters, fate, exit, last>>

\* The mode reaches the host, which may invoke the program again.
ReachHost ==
  /\ stack = <<>> /\ mode # "run" /\ mode' = "run"
  /\ exit' = NoExit /\ last' = NoStatement
  /\ UNCHANGED <<stack, connection, engine, handler, counters, fate>>

----------------------------------------------------------------------------
Init ==
  /\ may \in Programs
  /\ stack = <<>> /\ mode = "run"
  /\ closed = FALSE /\ transaction_active = FALSE
  /\ inTx = FALSE /\ pending = {} /\ durable = {} /\ handler = "none"
  /\ entered = 0 /\ writes = 0 /\ fate = [b \in Blocks |-> "not entered"]
  /\ exit = NoExit /\ last = NoStatement

Step ==
  \/ EnterTransaction \/ \E catches \in CatchSets : EnterTry(catches)
  \/ \E how \in Modes : Leave(how)
  \/ Manual \/ Close \/ OnClosed \/ DeadlinePasses
  \/ \E timed \in BOOLEAN : Write(timed) \/ Query(timed)
  \/ LeaveTransaction \/ LeaveTryPart \/ LeaveFinally \/ ReachHost
Next == Step /\ UNCHANGED may

Spec == Init /\ [][Next]_vars

----------------------------------------------------------------------------
\* Every variable has its type; the flag is never set on a closed connection.
TypeOK ==
  /\ may \in Programs
  /\ stack \in Seq(Frames) /\ mode \in Modes
  /\ closed \in BOOLEAN /\ transaction_active \in BOOLEAN /\ inTx \in BOOLEAN
  /\ pending \cup durable \subseteq [number : 1..may.writes, block : 0..MaxBlocks]
  /\ handler \in {"none", "armed", "expired"}
  /\ entered \in 0..may.blocks /\ writes \in 0..may.writes
  /\ fate \in [Blocks -> {"not entered", "open", "committed", "failed"}]
  /\ exit \in [cause : Modes, result : Modes]
  /\ last \in [timed : BOOLEAN, interrupted : BOOLEAN, result : Modes]
  /\ closed => ~transaction_active

\* transaction_active says whether SQLite has a transaction open: the checks of
\* begin, commit and rollback rest on it.
FlagAgrees == transaction_active = inTx

\* SQLite has no transaction open that the connection does not know of, whatever
\* SQLite ended by itself: the next block would run inside it.
NoHiddenTransaction == inTx => transaction_active

\* "Normal completion commits. An unhandled runtime error rolls back"
\* (spec/database.md): a block that failed has left nothing, one that was
\* committed has left everything, and while it is open nothing is visible yet.
BlockAtomic ==
  /\ \A w \in durable : w.block = 0 \/ fate[w.block] = "committed"
  /\ \A w \in pending : w.block = 0 \/ fate[w.block] \notin {"committed", "failed"}

\* A transaction that a block opened ends with the block: outside every block
\* none is open.
BlockCloses == Inner = 0 => ~inTx

\* ... "and propagates": what comes out of a block is what its body ended with,
\* unless a commit failed or the body closed the connection.
ErrorPropagates ==
  exit.cause \in Errors \cup {"aborted"} /\ ~closed => exit.result = exit.cause

\* They hold of programs that leave transactions to the blocks and set no timeout,
\* as long as SQLite neither refuses a COMMIT nor ends a transaction by itself,
\* whatever the blocks do inside one another and however they are left.
Undisturbed == ~(may.manual \/ may.time \/ may.refuse \/ may.rollBack)
FlagAgreesUndisturbed == Undisturbed => FlagAgrees
BlockKeptUndisturbed  == Undisturbed => BlockAtomic /\ BlockCloses /\ ErrorPropagates

\* A timeout limits its own query: no other statement is interrupted for it.
TimeoutOwn == last.interrupted => last.timed

\* A query that is interrupted for its timeout says so ("Catchable categories
\* are ... db_timeout_error").
TimeoutNamed == last.interrupted /\ last.timed => last.result = "db_timeout_error"
=============================================================================
