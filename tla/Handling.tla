------------------------------- MODULE Handling -------------------------------
(***************************************************************************)
(* throw, try, catch, finally and return of                                *)
(* reference/separan/interpreter.py (_execute_try, _error_category,        *)
(* _error_matches), in the body of one SEP.                                *)
(*                                                                         *)
(* A statement completes, raises an error of some category, returns or     *)
(* begins a try block.  An error or a return is in the air until a block   *)
(* takes it.  An operator named X_Mistake is X with one mistake in it; no  *)
(* action uses it, it shows which property would notice.                   *)
(***************************************************************************)
EXTENDS Naturals, Sequences, FiniteSets, SequencesExt, FiniteSetsExt, Functions

CONSTANTS Categories,  \* of errors
          KindOf,      \* categories that are kinds of another
          MaxNesting,  \* bound: try blocks in one another
          MaxTries     \* bound: try blocks executed

ASSUME HandlingAssumption ==
  /\ KindOf \in [DOMAIN KindOf -> Categories] /\ DOMAIN KindOf \subseteq Categories
  /\ MaxNesting \in Nat /\ MaxTries \in Nat

VARIABLES
  blocks,   \* the try blocks at work, the innermost last
  flow,     \* what is in the air
  tries,    \* try blocks begun
  promised, \* try blocks with a finally that were begun
  kept,     \* finallys that were executed
  caught,   \* where the last error was caught, and where it should have been
  finished  \* how the SEP ended

handlingVars == <<blocks, flow, tries, promised, kept, caught, finished>>

Requests == Categories \cup {"any", "runtime_error"}
Catches  == UNION {[1..n -> Requests] : n \in 0..1}
Calm     == [is |-> "calm", category |-> "none", due |-> 0]
Return   == [is |-> "return", category |-> "none", due |-> 0]

----------------------------------------------------------------------------
\* _error_matches: the category itself, or one that it is a kind of.
Lineage[n \in 0..Cardinality(Categories)] ==
  [c \in Categories |-> IF n = 0 \/ c \notin DOMAIN KindOf THEN {c} ELSE {c} \cup Lineage[n - 1][KindOf[c]]]
Matches(requested, actual) ==
  requested \in {"any", "runtime_error"} \cup Lineage[Cardinality(Categories)][actual]
Caught(block, category) == \E k \in DOMAIN block.catches : Matches(block.catches[k], category)

\* The innermost block that is to catch an error of this category; 0 is none.
Due(category) == Max({0} \cup {k \in DOMAIN blocks : blocks[k].part = "body" /\ Caught(blocks[k], category)})
Error(category) == [is |-> "error", category |-> category, due |-> Due(category)]

Innermost == Last(blocks)
Part(part, pending) == [blocks EXCEPT ![Len(blocks)].part = part, ![Len(blocks)].pending = pending]

----------------------------------------------------------------------------
(* Statements, while nothing is in the air.                                *)

Try(catches, last) ==
  /\ finished = "no" /\ flow = Calm /\ Len(blocks) < MaxNesting /\ tries < MaxTries
  /\ tries' = tries + 1
  /\ blocks' = Append(blocks, [catches |-> catches, finally |-> last, part |-> "body", pending |-> Calm])
  /\ promised' = promised + (IF last THEN 1 ELSE 0)
  /\ UNCHANGED <<flow, kept, caught, finished>>

Throw(category) ==
  /\ finished = "no" /\ flow = Calm /\ flow' = Error(category)
  /\ UNCHANGED <<blocks, tries, promised, kept, caught, finished>>

ReturnStmt ==
  /\ finished = "no" /\ flow = Calm /\ flow' = Return
  /\ UNCHANGED <<blocks, tries, promised, kept, caught, finished>>

\* A block is left with something in the air, or nothing: by its finally first.
FinallyNext_BodyOnly(block) == block.finally /\ block.part = "body"
FinallyNext(block) == block.finally /\ block.part # "finally"
Leaves(next) ==
  IF FinallyNext(Innermost) THEN blocks' = Part("finally", next) /\ flow' = Calm /\ kept' = kept + 1
  ELSE blocks' = Front(blocks) /\ flow' = next /\ UNCHANGED kept

\* The statements of the part are done: what waited for the finally goes on.
Complete ==
  /\ finished = "no" /\ flow = Calm /\ blocks # <<>>
  /\ Leaves(IF Innermost.part = "finally" THEN Innermost.pending ELSE Calm)
  /\ UNCHANGED <<tries, promised, caught, finished>>

\* What is in the air reaches the innermost block.
Handles_Anywhere(block) == flow.is = "error" /\ block.part # "finally" /\ Caught(block, flow.category)
Handles_SameCategory(block) ==
  flow.is = "error" /\ block.part = "body" /\ flow.category \in Range(block.catches)
Handles(block) == flow.is = "error" /\ block.part = "body" /\ Caught(block, flow.category)
Unwind ==
  /\ flow # Calm /\ blocks # <<>>
  /\ IF Handles(Innermost)
     THEN /\ blocks' = Part("catch", Calm) /\ flow' = Calm
          /\ caught' = [at |-> Len(blocks), due |-> flow.due] /\ UNCHANGED kept
     ELSE Leaves(flow) /\ UNCHANGED caught
  /\ UNCHANGED <<tries, promised, finished>>

\* The SEP is left.
Escape ==
  /\ finished = "no" /\ blocks = <<>> /\ flow.is \in {"return", "error"}
  /\ finished' = flow.is
  /\ caught' = IF flow.is = "error" THEN [at |-> 0, due |-> flow.due] ELSE caught
  /\ UNCHANGED <<blocks, flow, tries, promised, kept>>

----------------------------------------------------------------------------
HandlingInit ==
  /\ blocks = <<>> /\ flow = Calm /\ tries = 0 /\ promised = 0 /\ kept = 0
  /\ caught = [at |-> 0, due |-> 0] /\ finished = "no"

HandlingNext ==
  \/ \E catches \in Catches, last \in BOOLEAN : (catches # <<>> \/ last) /\ Try(catches, last)
  \/ \E category \in Categories : Throw(category)
  \/ ReturnStmt \/ Complete \/ Unwind \/ Escape

HandlingSpec == HandlingInit /\ [][HandlingNext]_handlingVars

----------------------------------------------------------------------------
\* Something waits only for a finally, and only the innermost block is left while
\* something is in the air.
HandlingTypeOK ==
  /\ \A k \in DOMAIN blocks : blocks[k].pending # Calm => blocks[k].part = "finally"
  /\ \A k \in DOMAIN blocks : blocks[k].part = "finally" => blocks[k].finally
  /\ flow.is \in {"calm", "return", "error"} /\ flow.due <= Len(blocks)

FinallyAhead(block) == block.finally /\ block.part \in {"body", "catch"}

\* However a try block is left - its statements done, by a return, an error, or an
\* error in a catch - its finally is executed, once.
FinallyExecuted == promised = kept + Cardinality({k \in DOMAIN blocks : FinallyAhead(blocks[k])})

\* An error is caught by the innermost try block around the statement that raised
\* it that has a branch for it, never by one that is in its catch already, and
\* leaves the SEP only if there is none.
CaughtWhereDue == caught.at = caught.due

\* All three: however control is passed on, finally and catch get their turn.
HandlingKept == HandlingTypeOK /\ FinallyExecuted /\ CaughtWhereDue
=============================================================================
