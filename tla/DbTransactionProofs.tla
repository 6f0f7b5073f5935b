------------------------- MODULE DbTransactionProofs -------------------------
(***************************************************************************)
(* Proofs about DbTransaction for any programs and bounds: its types, that *)
(* SQLite has no transaction the connection does not know of, and what the *)
(* transaction block keeps as long as nothing disturbs it.                 *)
(***************************************************************************)
EXTENDS DbTransaction, SequenceTheorems, WellFoundedInduction, TLAPS

----------------------------------------------------------------------------
(* The innermost transaction block.                                        *)

LEMMA LeastNatural ==
  ASSUME NEW S \in SUBSET Nat, S # {}
  PROVE  \E m \in S : \A n \in S : m <= n
<1>. DEFINE Less == {ss \in Nat \X Nat : ss[1] < ss[2]}
<1>1. IsWellFoundedOn(Less, Nat)
  BY NatLessThanWellFounded, Zenon DEF OpToRel
<1>2. \E m \in S : \A n \in S : <<n, m>> \notin Less
  <2>. HIDE DEF Less
  <2>. QED
    BY <1>1, WFMin, Zenon
<1>3. \A m, n \in Nat : <<n, m>> \in Less <=> n < m
  OBVIOUS
<1>4. PICK m \in S : \A n \in S : ~(n < m)
  <2>. HIDE DEF Less
  <2>. QED
    BY <1>2, <1>3
<1>. QED
  BY <1>4

LEMMA GreatestUpTo ==
  ASSUME NEW n \in Nat, NEW S \in SUBSET (1..n), S # {}
  PROVE  \E k \in S : \A j \in S : j <= k
<1>. DEFINE T == {n - k : k \in S}
<1>1. T \in SUBSET Nat /\ T # {}
  <2>1. \A k \in S : k \in 1..n /\ n - k \in Nat
    OBVIOUS
  <2>. QED
    BY <2>1
<1>2. PICK m \in T : \A x \in T : m <= x
  <2>. HIDE DEF T
  <2>. QED
    BY <1>1, LeastNatural
<1>3. PICK k \in S : m = n - k
  OBVIOUS
<1>4. \A j \in S : j \in 1..n /\ m <= n - j
  BY <1>2
<1>. QED
  BY <1>3, <1>4

\* The blocks the program is in that are transaction blocks.
Transactions == {k \in DOMAIN stack : stack[k].kind = "transaction"}

LEMMA InnerBlock ==
  ASSUME stack \in Seq(Frames)
  PROVE  /\ Transactions = {} => Inner = 0
         /\ Transactions # {} => \E k \in Transactions : Inner = stack[k].block /\ stack[k].block \in Blocks
<1>. DEFINE Innermost(k) == /\ k \in DOMAIN stack /\ stack[k].kind = "transaction"
                            /\ \A j \in DOMAIN stack : j > k => stack[j].kind # "transaction"
<1>1. CASE Transactions = {}
  BY <1>1 DEF Inner, Transactions
<1>2. CASE Transactions # {}
  <2>1. PICK k \in Transactions : \A j \in Transactions : j <= k
    <3>1. DOMAIN stack = 1..Len(stack) /\ Len(stack) \in Nat
      OBVIOUS
    <3>2. Transactions \in SUBSET (1..Len(stack))
      BY <3>1 DEF Transactions
    <3>. QED
      BY <1>2, <3>1, <3>2, GreatestUpTo
  <2>2. Innermost(k)
    <3>1. \A j \in DOMAIN stack : j \in Nat /\ (j > k => ~(j <= k))
      BY <2>1 DEF Transactions
    <3>. QED
      BY <2>1, <3>1 DEF Transactions
  <2>3. \E l \in Transactions : Inner = stack[l].block
    <3>. DEFINE l == CHOOSE l \in DOMAIN stack : 
                       /\ stack[l].kind = "transaction"
                       /\ \A j \in DOMAIN stack : j > l => stack[j].kind # "transaction"
    <3>1. l \in Transactions
      BY <2>2 DEF Transactions
    <3>2. Inner = stack[l].block
      BY <1>2 DEF Inner, Transactions
    <3>. QED
      BY <3>1, <3>2
  <2>4. \A l \in Transactions : stack[l].block \in Blocks
    <3>1. \A l \in DOMAIN stack : stack[l] \in Frames
      OBVIOUS
    <3>. QED
      BY <3>1 DEF Transactions, Frames
  <2>. QED
    BY <1>2, <2>3, <2>4
<1>. QED
  BY <1>1, <1>2

----------------------------------------------------------------------------
(* Types.                                                                  *)

\* The connection and SQLite, which Begin, Commit and Rollback change.
EngineOK ==
  /\ closed \in BOOLEAN /\ transaction_active \in BOOLEAN /\ inTx \in BOOLEAN
  /\ pending \cup durable \subseteq [number : 1..may.writes, block : 0..MaxBlocks]
  /\ closed => ~transaction_active

LEMMA MayTypes ==
  ASSUME TypeOK
  PROVE  may.blocks \in 0..MaxBlocks /\ may.writes \in Nat /\ MaxBlocks \in Nat
  BY ProgramsAssumption, BoundsAssumption DEF TypeOK

LEMMA EngineStep ==
  ASSUME EngineOK, UNCHANGED may, NEW result, Begin(result) \/ Commit(result) \/ Rollback(result)
  PROVE  EngineOK' /\ result \in Modes
<1>1. result \in Modes
  <2>1. result \in {"run", "db_connection_error", "db_transaction_error"}
    BY DEF Begin, Commit, Rollback, Refused
  <2>. QED
    BY <2>1 DEF Modes, Errors
<1>2. \/ UNCHANGED <<connection, engine>>
      \/ /\ ~closed /\ closed' = closed
         /\ transaction_active' \in {TRUE, FALSE} /\ inTx' \in {TRUE, FALSE}
         /\ pending' \cup durable' \subseteq pending \cup durable
  <2>1. CASE Begin(result)
    BY <2>1 DEF Begin, Refused, Flag
  <2>2. CASE Commit(result)
    BY <2>2 DEF Commit, Refused, Flag
  <2>3. CASE Rollback(result)
    BY <2>3 DEF Rollback, Refused, Flag
  <2>. QED
    BY <2>1, <2>2, <2>3
<1>3. CASE UNCHANGED <<connection, engine>>
  <2>1. /\ closed' = closed /\ transaction_active' = transaction_active /\ inTx' = inTx
        /\ pending' = pending /\ durable' = durable /\ may' = may
    BY <1>3 DEF connection, engine
  <2>. QED
    BY <1>1, <2>1 DEF EngineOK
<1>4. ASSUME ~closed, closed' = closed,
             transaction_active' \in {TRUE, FALSE}, inTx' \in {TRUE, FALSE},
             pending' \cup durable' \subseteq pending \cup durable
      PROVE  EngineOK'
  BY <1>4 DEF EngineOK
<1>. QED
  BY <1>1, <1>2, <1>3, <1>4

LEMMA TryFrame ==
  ASSUME NEW part \in {"body", "catch", "finally"}, NEW catches \in CatchSets, NEW held \in Modes
  PROVE  Try(part, catches, held) \in Frames /\ Try(part, catches, held).kind = "try"
  BY DEF Try, Frames

LEMMA TopFrame ==
  ASSUME stack \in Seq(Frames), stack # <<>>
  PROVE  /\ Top \in Frames /\ Popped \in Seq(Frames)
         /\ Len(stack) \in Nat \ {0} /\ Len(Popped) = Len(stack) - 1
         /\ \A k \in 1..(Len(stack) - 1) : Popped[k] = stack[k]
         /\ Top.kind = "transaction" => Top.block \in Blocks
         /\ Top.kind = "try" => Top.catches \in CatchSets /\ Top.held \in Modes
<1>1. Top \in Frames
  BY DEF Top
<1>2. /\ Popped \in Seq(Frames) /\ Len(Popped) = Len(stack) - 1 /\ Len(stack) \in Nat \ {0}
      /\ \A k \in 1..(Len(stack) - 1) : Popped[k] = stack[k]
  <2>1. Len(stack) \in Nat \ {0}
    OBVIOUS
  <2>2. \A k \in 1..(Len(stack) - 1) : stack[k] \in Frames
    OBVIOUS
  <2>. DEFINE n == Len(stack) - 1
  <2>3. n \in Int /\ 1 \in Int /\ Popped = SubSeq(stack, 1, n)
    BY <2>1 DEF Popped
  <2>4. /\ Popped \in Seq(Frames) /\ Len(Popped) = IF 1 <= n THEN n - 1 + 1 ELSE 0
        /\ \A k \in 1..(n - 1 + 1) : Popped[k] = stack[1 + k - 1]
    <3>. HIDE DEF n
    <3>. QED
      BY <2>2, <2>3, SubSeqProperties DEF n
  <2>. QED
    <3>1. Len(Popped) = n /\ n - 1 + 1 = n
      <4>1. n \in Nat
        BY <2>1
      <4>. HIDE DEF n
      <4>. QED
        BY <2>4, <4>1
    <3>2. \A k \in 1..n : 1 + k - 1 = k
      BY <2>1
    <3>. QED
      BY <2>1, <2>4, <3>1, <3>2
<1>3. CASE Top \in [kind : {"transaction"}, block : Blocks]
  <2>1. Top.kind = "transaction" /\ Top.block \in Blocks
    BY <1>3
  <2>. QED
    BY <1>1, <1>2, <2>1
<1>4. CASE Top \in [kind : {"try"}, part : {"body", "catch", "finally"},
                    catches : CatchSets, held : Modes]
  <2>1. Top.kind = "try" /\ Top.catches \in CatchSets /\ Top.held \in Modes
    BY <1>4
  <2>. QED
    BY <1>1, <1>2, <2>1
<1>. QED
  BY <1>1, <1>3, <1>4 DEF Frames

\* All of TypeOK but the connection, SQLite and the last exit.
ProgramOK ==
  /\ may \in Programs
  /\ stack \in Seq(Frames) /\ mode \in Modes
  /\ handler \in {"none", "armed", "expired"}
  /\ entered \in 0..may.blocks /\ writes \in 0..may.writes
  /\ fate \in [Blocks -> {"not entered", "open", "committed", "failed"}]
  /\ exit \in [cause : Modes, result : Modes]
  /\ last \in [timed : BOOLEAN, interrupted : BOOLEAN, result : Modes]

LEMMA TypeStep ==
  ASSUME TypeOK, [Next]_vars
  PROVE  TypeOK'
<1>. USE DEF control, connection, engine, counters
<1>t. ProgramOK /\ EngineOK /\ stack \in Seq(Frames) /\ mode \in Modes
  BY DEF TypeOK, ProgramOK, EngineOK
<1>q. ProgramOK' /\ EngineOK' => TypeOK'
  BY DEF TypeOK, ProgramOK, EngineOK
<1>m. may.blocks \in 0..MaxBlocks /\ may.writes \in Nat /\ MaxBlocks \in Nat
  BY MayTypes
<1>c. entered \in 0..may.blocks /\ writes \in 0..may.writes
  BY <1>t DEF ProgramOK
<1>o. /\ "run" \in Modes /\ Errors \subseteq Modes
      /\ {"returned", "aborted"} \subseteq Modes
      /\ {"db_query_error", "db_timeout_error", "db_constraint_error", "db_connection_error"} \subseteq Modes
  BY DEF Modes, Errors
<1>e. ASSUME UNCHANGED <<may, connection, engine>> PROVE EngineOK'
  BY <1>e, <1>t DEF EngineOK
<1>u. CASE UNCHANGED vars
  BY <1>u DEF vars, TypeOK
<1>n. CASE Step /\ UNCHANGED may
  <2>0. may' = may
    BY <1>n
  <2>1. CASE EnterTransaction
    <3>1. PICK result \in Modes :
            /\ Begin(result) /\ mode' = result
            /\ IF result = "run"
               THEN /\ stack' = Append(stack, Transaction(entered + 1))
                    /\ entered' = entered + 1
                    /\ fate' = [fate EXCEPT ![entered + 1] = "open"]
               ELSE UNCHANGED <<stack, entered, fate>>
      BY <2>1 DEF EnterTransaction
    <3>2. entered < may.blocks /\ exit' = NoExit /\ UNCHANGED <<handler, writes, last>>
      BY <2>1 DEF EnterTransaction
    <3>3. NoExit \in [cause : Modes, result : Modes]
      BY <1>o DEF NoExit
    <3>4. EngineOK'
      BY <1>t, <2>0, <3>1, EngineStep
    <3>5. CASE result = "run"
      <4>1. entered + 1 \in Blocks /\ entered + 1 \in 0..may.blocks
        BY <1>c, <1>m, <3>2 DEF Blocks
      <4>2. Transaction(entered + 1) \in Frames
        BY <4>1 DEF Transaction, Frames
      <4>3. stack' \in Seq(Frames)
        BY <1>t, <3>1, <3>5, <4>2
      <4>. QED
        BY <1>q, <1>t, <2>0, <3>1, <3>2, <3>3, <3>4, <3>5, <4>1, <4>3 DEF ProgramOK
    <3>6. CASE result # "run"
      BY <1>q, <1>t, <2>0, <3>1, <3>2, <3>3, <3>4, <3>6 DEF ProgramOK
    <3>. QED
      BY <3>5, <3>6
  <2>2. ASSUME NEW catches \in CatchSets, EnterTry(catches) PROVE TypeOK'
    <3>1. stack' \in Seq(Frames)
      BY <1>o, <1>t, <2>2, TryFrame DEF EnterTry
    <3>. QED
      BY <1>e, <1>q, <1>t, <2>0, <2>2, <3>1 DEF EnterTry, ProgramOK
  <2>3. ASSUME NEW how \in Modes, Leave(how) PROVE TypeOK'
    BY <1>e, <1>q, <1>t, <2>0, <2>3 DEF Leave, ProgramOK
  <2>4. CASE Manual
    <3>1. PICK result \in Modes : (Begin(result) \/ Commit(result) \/ Rollback(result)) /\ mode' = result
      BY <2>4 DEF Manual
    <3>2. EngineOK'
      BY <1>t, <2>0, <3>1, EngineStep
    <3>. QED
      BY <1>q, <1>t, <2>0, <2>4, <3>1, <3>2 DEF Manual, ProgramOK
  <2>5. CASE Close
    <3>1. EngineOK'
      BY <1>t, <2>0, <2>5 DEF Close, Closed, EngineOK
    <3>. QED
      BY <1>q, <1>t, <2>0, <2>5, <3>1 DEF Close, ProgramOK
  \* A statement.
  <2>f. ASSUME NEW timed \in BOOLEAN, NEW interrupted \in BOOLEAN, NEW result \in Modes,
               Finish(timed, interrupted, result), EngineOK',
               handler' \in {"none", "armed", "expired"}, writes' \in 0..may.writes
        PROVE  TypeOK'
    <3>1. last' \in [timed : BOOLEAN, interrupted : BOOLEAN, result : Modes]
      BY <1>o, <2>f DEF Finish, Statement, NoStatement
    <3>. QED
      BY <1>q, <1>t, <2>0, <2>f, <3>1 DEF Finish, ProgramOK
  <2>h. /\ handler \in {"none", "armed", "expired"}
        /\ \A timed \in BOOLEAN : Armed(timed) \in {"none", "armed", "expired"}
                                  /\ Disarmed(timed) \in {"none", "armed", "expired"}
    BY <1>t DEF Armed, Disarmed, ProgramOK
  <2>6. CASE OnClosed
    <3>1. EngineOK' /\ writes' \in 0..may.writes
      BY <1>e, <1>t, <2>0, <2>6 DEF OnClosed, Finish, ProgramOK
    <3>. QED
      BY <1>o, <2>6, <2>f, <2>h, <3>1 DEF OnClosed
  <2>7. CASE DeadlinePasses
    BY <1>e, <1>q, <1>t, <2>0, <2>7 DEF DeadlinePasses, ProgramOK
  <2>8. ASSUME NEW timed \in BOOLEAN, Write(timed) PROVE TypeOK'
    <3>. DEFINE write == [number |-> writes + 1, block |-> Inner]
    <3>1. writes' = writes + 1 /\ writes' \in 0..may.writes /\ writes + 1 \in 1..may.writes
      BY <1>c, <1>m, <2>8 DEF Write
    <3>2. write \in [number : 1..may.writes, block : 0..MaxBlocks]
      <4>1. Inner \in 0..MaxBlocks
        BY <1>m, <1>t, InnerBlock DEF Blocks
      <4>. QED
        BY <3>1, <4>1
    <3>3. CASE /\ IF inTx THEN pending' = pending \cup {write} /\ UNCHANGED <<inTx, durable>>
                  ELSE durable' = durable \cup {write} /\ UNCHANGED <<inTx, pending>>
               /\ handler' = Disarmed(timed)
               /\ Finish(timed, FALSE, "run")
      <4>1. EngineOK'
        <5>. HIDE DEF write
        <5>. QED
          BY <1>t, <2>0, <3>2, <3>3 DEF EngineOK, Finish
      <4>. QED
        BY <1>o, <2>f, <2>h, <3>1, <3>3, <4>1
    <3>4. ASSUME RolledBack, UNCHANGED connection PROVE EngineOK'
      BY <1>t, <2>0, <3>4 DEF EngineOK, RolledBack
    <3>5. CASE /\ UNCHANGED engine \/ (may.rollBack /\ RolledBack)
               /\ handler' = Armed(timed)
               /\ Finish(timed, FALSE, "db_constraint_error")
      <4>1. EngineOK'
        BY <1>e, <2>0, <3>4, <3>5 DEF Finish
      <4>. QED
        BY <1>o, <2>f, <2>h, <3>1, <3>5, <4>1
    <3>6. CASE /\ MayInterrupt(timed) /\ RolledBack
               /\ handler' = IF timed THEN "expired" ELSE handler
               /\ Finish(timed, TRUE, IF timed THEN "db_timeout_error" ELSE "db_query_error")
      <4>1. EngineOK'
        BY <3>4, <3>6 DEF Finish
      <4>. QED
        BY <1>o, <2>f, <2>h, <3>1, <3>6, <4>1
    <3>. QED
      BY <2>8, <3>3, <3>5, <3>6 DEF Write
  <2>9. ASSUME NEW timed \in BOOLEAN, Query(timed) PROVE TypeOK'
    <3>1. EngineOK' /\ writes' \in 0..may.writes
      <4>1. UNCHANGED <<may, connection, engine, writes>>
        BY <2>0, <2>9 DEF Query, Finish
      <4>. QED
        BY <1>e, <1>t, <4>1 DEF ProgramOK
    <3>2. handler' \in {"none", "armed", "expired"}
      BY <2>9, <2>h DEF Query
    <3>3. \E interrupted \in BOOLEAN, result \in Modes : Finish(timed, interrupted, result)
      BY <1>o, <2>9 DEF Query
    <3>. QED
      BY <2>f, <3>1, <3>2, <3>3
  <2>10. CASE LeaveTransaction
    <3>1. PICK settled \in Modes :
            /\ IF Settles(mode) = "commit" THEN Commit(settled) ELSE Rollback(settled)
            /\ Left(mode, Outcome(mode, settled))
      BY <2>10 DEF LeaveTransaction
    <3>2. EngineOK'
      BY <1>t, <2>0, <3>1, EngineStep
    <3>3. Outcome(mode, settled) \in Modes
      BY <1>t, <3>1 DEF Outcome
    <3>4. stack' \in Seq(Frames)
      BY <1>t, <2>10, <3>1, TopFrame DEF LeaveTransaction, InTransaction, Left
    <3>5. /\ exit' \in [cause : Modes, result : Modes]
          /\ fate' \in [Blocks -> {"not entered", "open", "committed", "failed"}]
      BY <1>t, <3>1, <3>3 DEF Left, ProgramOK
    <3>. QED
      BY <1>q, <1>t, <2>0, <3>1, <3>2, <3>3, <3>4, <3>5 DEF Left, ProgramOK
  <2>11. CASE LeaveTryPart
    <3>1. /\ stack # <<>> /\ Top.catches \in CatchSets
      BY <1>t, <2>11, TopFrame DEF LeaveTryPart, InTry
    <3>2. stack' \in Seq(Frames)
      <4>1. \/ stack' = Append(Popped, Try("catch", Top.catches, "run"))
            \/ stack' = Append(Popped, Try("finally", Top.catches, mode))
        BY <2>11 DEF LeaveTryPart, Replaced
      <4>2. Try("catch", Top.catches, "run") \in Frames /\ Try("finally", Top.catches, mode) \in Frames
        BY <1>o, <1>t, <3>1, TryFrame
      <4>. QED
        BY <1>t, <3>1, <4>1, <4>2, TopFrame
    <3>. QED
      BY <1>e, <1>o, <1>q, <1>t, <2>0, <2>11, <3>2 DEF LeaveTryPart, ProgramOK
  <2>12. CASE LeaveFinally
    <3>1. stack' \in Seq(Frames) /\ mode' \in Modes
      BY <1>t, <2>12, TopFrame DEF LeaveFinally, InTry
    <3>. QED
      BY <1>e, <1>q, <1>t, <2>0, <2>12, <3>1 DEF LeaveFinally, ProgramOK
  <2>13. CASE ReachHost
    <3>1. /\ NoExit \in [cause : Modes, result : Modes]
          /\ NoStatement \in [timed : BOOLEAN, interrupted : BOOLEAN, result : Modes]
      BY <1>o DEF NoExit, NoStatement
    <3>. QED
      BY <1>e, <1>o, <1>q, <1>t, <2>0, <2>13, <3>1 DEF ReachHost, ProgramOK
  <2>. QED
    BY <1>n, <2>1, <2>2, <2>3, <2>4, <2>5, <2>6, <2>7, <2>8, <2>9, <2>10, <2>11, <2>12, <2>13 DEF Step
<1>. QED
  BY <1>n, <1>u DEF Next

----------------------------------------------------------------------------
(* The inductive invariant.                                                *)

\* Of a program nothing disturbs: it is in one transaction block at most, and a
\* transaction is open when it is, unless the body closed the connection.
OneBlock   == \A j, k \in Transactions : j = k
OpenInside == inTx <=> ~closed /\ Transactions # {}

\* What is written and not committed is of the block the program is in.
PendingInside == \A w \in pending : inTx /\ \E k \in Transactions : stack[k].block = w.block

\* A block is open from where it is entered to where it is left, once.
FateOpen  == \A k \in Transactions : fate[stack[k].block] = "open"
FateFresh == \A b \in Blocks : b > entered => fate[b] = "not entered"

\* What lasts is of no block, or of one that was committed.
DurableCommitted == \A w \in durable : w.block = 0 \/ fate[w.block] = "committed"

\* No query has armed the progress handler.
NeverArmed == handler = "none"

Kept == /\ FlagAgrees /\ OneBlock /\ OpenInside /\ PendingInside
        /\ FateOpen /\ FateFresh /\ DurableCommitted /\ ErrorPropagates /\ NeverArmed

Inv == TypeOK /\ NoHiddenTransaction /\ (Undisturbed => Kept)

LEMMA HiddenStep ==
  ASSUME TypeOK, NoHiddenTransaction, [Next]_vars
  PROVE  NoHiddenTransaction'
<1>. USE DEF NoHiddenTransaction, connection, engine
<1>1. ASSUME NEW result, Begin(result) \/ Commit(result) \/ Rollback(result)
      PROVE  NoHiddenTransaction'
  BY <1>1 DEF Begin, Commit, Rollback, Refused, Flag
<1>2. CASE EnterTransaction \/ Manual
  BY <1>1, <1>2 DEF EnterTransaction, Manual
<1>3. CASE LeaveTransaction
  BY <1>1, <1>3 DEF LeaveTransaction
<1>4. CASE Close
  BY <1>4 DEF Close
<1>5. ASSUME NEW timed \in BOOLEAN, Write(timed) PROVE NoHiddenTransaction'
  <2>1. UNCHANGED connection
    BY <1>5 DEF Write, Finish
  <2>2. inTx' = inTx \/ inTx' = FALSE
    BY <1>5 DEF Write, RolledBack
  <2>. QED
    BY <2>1, <2>2
<1>6. ASSUME NEW timed \in BOOLEAN, Query(timed) PROVE NoHiddenTransaction'
  <2>1. UNCHANGED <<connection, engine>>
    BY <1>6 DEF Query, Finish
  <2>. QED
    BY <2>1
<1>7. CASE OnClosed \/ DeadlinePasses \/ LeaveTryPart \/ LeaveFinally \/ ReachHost
  BY <1>7 DEF OnClosed, Finish, DeadlinePasses, LeaveTryPart, LeaveFinally, ReachHost
<1>8. ASSUME NEW catches, EnterTry(catches) PROVE NoHiddenTransaction'
  BY <1>8 DEF EnterTry
<1>9. ASSUME NEW how, Leave(how) PROVE NoHiddenTransaction'
  BY <1>9 DEF Leave
<1>10. CASE UNCHANGED vars
  BY <1>10 DEF vars
<1>. QED
  BY <1>2, <1>3, <1>4, <1>5, <1>6, <1>7, <1>8, <1>9, <1>10 DEF Next, Step

----------------------------------------------------------------------------
(* What a program nothing disturbs keeps.                                  *)

\* The program is in the same transaction blocks.
SameBlocks == /\ Transactions' = Transactions
              /\ \A k \in Transactions : stack'[k].block = stack[k].block

LEMMA StackUnchanged ==
  ASSUME UNCHANGED stack
  PROVE  SameBlocks
  BY DEF SameBlocks, Transactions

LEMMA Pushed ==
  ASSUME stack \in Seq(Frames), NEW frame \in Frames, stack' = Append(stack, frame)
  PROVE  /\ DOMAIN stack = 1..Len(stack) /\ DOMAIN stack' = 1..(Len(stack) + 1)
         /\ stack'[Len(stack) + 1] = frame /\ \A k \in DOMAIN stack : stack'[k] = stack[k]
         /\ Len(stack) \in Nat
  OBVIOUS

LEMMA TriesKeepBlocks ==
  ASSUME TypeOK,
         \/ \E catches \in CatchSets : EnterTry(catches)
         \/ LeaveTryPart
         \/ LeaveFinally
  PROVE  SameBlocks
<1>t. stack \in Seq(Frames) /\ mode \in Modes /\ "run" \in Modes
  BY DEF TypeOK, Modes
<1>1. ASSUME NEW catches \in CatchSets, EnterTry(catches) PROVE SameBlocks
  <2>1. PICK frame \in Frames : stack' = Append(stack, frame) /\ frame.kind = "try"
    BY <1>t, <1>1, TryFrame DEF EnterTry
  <2>. QED
    BY <1>t, <2>1, Pushed DEF SameBlocks, Transactions
<1>2. CASE LeaveTryPart
  <2>1. stack # <<>> /\ Top.kind = "try" /\ Top.catches \in CatchSets
    BY <1>t, <1>2, TopFrame DEF LeaveTryPart, InTry
  <2>2. PICK frame \in Frames : stack' = Append(Popped, frame) /\ frame.kind = "try"
    <3>1. \/ stack' = Append(Popped, Try("catch", Top.catches, "run"))
          \/ stack' = Append(Popped, Try("finally", Top.catches, mode))
      BY <1>2 DEF LeaveTryPart, Replaced
    <3>. QED
      BY <1>t, <2>1, <3>1, TryFrame
  <2>3. /\ DOMAIN stack = 1..Len(stack) /\ DOMAIN stack' = 1..Len(stack) /\ Len(stack) \in Nat \ {0}
        /\ stack'[Len(stack)] = frame
        /\ \A k \in 1..(Len(stack) - 1) : stack'[k] = stack[k]
    BY <1>t, <2>1, <2>2, TopFrame
  <2>4. \A k \in 1..Len(stack) : /\ stack'[k].kind = "transaction" <=> stack[k].kind = "transaction"
                                 /\ k # Len(stack) => stack'[k] = stack[k]
    <3>1. \A k \in 1..Len(stack) : k # Len(stack) => k \in 1..(Len(stack) - 1)
      <4>1. \A n \in Nat : \A k \in 1..n : k # n => k \in 1..(n - 1)
        OBVIOUS
      <4>. QED
        BY <2>3, <4>1
    <3>2. stack[Len(stack)].kind = "try" /\ stack'[Len(stack)].kind = "try"
      BY <2>1, <2>2, <2>3 DEF Top
    <3>3. \A k \in 1..Len(stack) : k # Len(stack) => stack'[k] = stack[k]
      BY <2>3, <3>1
    <3>. QED
      BY <3>2, <3>3
  <2>. QED
    BY <2>1, <2>3, <2>4 DEF SameBlocks, Transactions, Top
<1>3. CASE LeaveFinally
  <2>1. stack # <<>> /\ Top.kind = "try" /\ stack' = Popped
    BY <1>3 DEF LeaveFinally, InTry
  <2>2. /\ DOMAIN stack = 1..Len(stack) /\ DOMAIN stack' = 1..(Len(stack) - 1)
        /\ Len(stack) \in Nat \ {0}
        /\ \A k \in 1..(Len(stack) - 1) : stack'[k] = stack[k]
    BY <1>t, <2>1, TopFrame
  <2>. QED
    BY <2>1, <2>2 DEF SameBlocks, Transactions, Top
<1>. QED
  BY <1>1, <1>2, <1>3

LEMMA EnteredBlock ==
  ASSUME TypeOK, NEW b \in Blocks, stack' = Append(stack, Transaction(b))
  PROVE  /\ Transactions' = Transactions \cup {Len(stack) + 1}
         /\ stack'[Len(stack) + 1].block = b
         /\ \A k \in Transactions : stack'[k].block = stack[k].block
<1>1. Transaction(b) \in Frames /\ Transaction(b).kind = "transaction" /\ Transaction(b).block = b
  BY DEF Transaction, Frames
<1>2. /\ DOMAIN stack = 1..Len(stack) /\ DOMAIN stack' = 1..(Len(stack) + 1)
      /\ stack'[Len(stack) + 1] = Transaction(b) /\ \A k \in DOMAIN stack : stack'[k] = stack[k]
      /\ Len(stack) \in Nat
  BY <1>1, Pushed DEF TypeOK
<1>3. 1..(Len(stack) + 1) = 1..Len(stack) \cup {Len(stack) + 1}
  BY <1>2
<1>. HIDE DEF Transaction
<1>4. Transactions' = Transactions \cup {Len(stack) + 1}
  BY <1>1, <1>2, <1>3 DEF Transactions
<1>5. \A k \in Transactions : stack'[k].block = stack[k].block
  BY <1>2 DEF Transactions
<1>. QED
  BY <1>1, <1>2, <1>4, <1>5

\* Where the program is in one block at most, leaving it leaves all.
LEMMA LeftBlock ==
  ASSUME TypeOK, OneBlock, InTransaction, stack' = Popped
  PROVE  Transactions' = {} /\ Transactions = {Len(stack)} /\ Top.block \in Blocks
<1>1. /\ stack \in Seq(Frames) /\ stack # <<>> /\ Top.kind = "transaction"
  BY DEF TypeOK, InTransaction
<1>2. /\ DOMAIN stack = 1..Len(stack) /\ DOMAIN Popped = 1..(Len(stack) - 1)
      /\ Len(stack) \in Nat \ {0} /\ Top.block \in Blocks
      /\ \A k \in 1..(Len(stack) - 1) : Popped[k] = stack[k]
  BY <1>1, TopFrame
<1>3. Len(stack) \in Transactions
  BY <1>1, <1>2 DEF Transactions, Top
<1>4. Transactions = {Len(stack)}
  BY <1>3 DEF OneBlock
<1>5. \A k \in 1..(Len(stack) - 1) : k \in DOMAIN stack /\ k # Len(stack)
  <2>1. \A n \in Nat : \A k \in 1..(n - 1) : k \in 1..n /\ k # n
    OBVIOUS
  <2>. QED
    BY <1>2, <2>1
<1>6. Transactions' = {}
  BY <1>2, <1>4, <1>5 DEF Transactions
<1>. QED
  BY <1>2, <1>4, <1>6

\* Steps that leave the blocks as they are, and what is written.
LEMMA KeptSame ==
  ASSUME Kept, SameBlocks, UNCHANGED <<connection, engine, handler, entered, fate>>,
         exit' = exit \/ exit' = NoExit
  PROVE  Kept'
<1>1. /\ closed' = closed /\ transaction_active' = transaction_active
      /\ inTx' = inTx /\ pending' = pending /\ durable' = durable
  BY DEF connection, engine
<1>2. FlagAgrees' /\ FateFresh' /\ DurableCommitted' /\ NeverArmed'
  BY <1>1 DEF Kept, FlagAgrees, FateFresh, DurableCommitted, NeverArmed
<1>3. OneBlock' /\ OpenInside' /\ PendingInside' /\ FateOpen'
  BY <1>1 DEF Kept, SameBlocks, OneBlock, OpenInside, PendingInside, FateOpen
<1>4. ErrorPropagates'
  BY <1>1 DEF Kept, ErrorPropagates, NoExit, Errors
<1>. QED
  BY <1>2, <1>3, <1>4 DEF Kept

LEMMA KeptStep ==
  ASSUME TypeOK, TypeOK', Undisturbed, Kept, [Next]_vars
  PROVE  Kept'
<1>u. CASE UNCHANGED vars
  BY <1>u, KeptSame, StackUnchanged DEF vars, control, counters
<1>n. CASE Step /\ UNCHANGED may
  <2>d. ~may.manual /\ ~may.time /\ ~may.refuse /\ ~may.rollBack
    BY DEF Undisturbed
  <2>t. /\ stack \in Seq(Frames) /\ inTx \in BOOLEAN /\ transaction_active \in BOOLEAN
        /\ closed \in BOOLEAN
        /\ mode \in Modes /\ fate \in [Blocks -> {"not entered", "open", "committed", "failed"}]
        /\ closed => ~transaction_active
    BY DEF TypeOK
  <2>b. entered \in 0..may.blocks /\ may.blocks \in 0..MaxBlocks /\ MaxBlocks \in Nat
    BY MayTypes DEF TypeOK
  <2>e. entered \in Nat /\ entered + 1 > entered /\ \A b \in Blocks : b > entered + 1 => b > entered
    <3>1. entered \in Nat
      BY <2>b
    <3>2. \A b \in Blocks : b \in Nat
      BY <2>b DEF Blocks
    <3>. QED
      BY <3>1, <3>2
  <2>w. \A w \in pending \cup durable : w.block = 0 \/ w.block \in Blocks
    <3>1. \A w \in pending \cup durable : w.block \in 0..MaxBlocks
      BY DEF TypeOK
    <3>. QED
      BY <2>b, <3>1 DEF Blocks
  <2>k. /\ transaction_active = inTx /\ OneBlock /\ OpenInside /\ PendingInside
        /\ FateOpen /\ FateFresh /\ DurableCommitted /\ ErrorPropagates /\ handler = "none"
    BY DEF Kept, FlagAgrees, NeverArmed
  <2>r. "run" \notin Errors /\ "aborted" \notin Errors /\ "returned" \notin Errors
        /\ "db_connection_error" \in Errors /\ "db_transaction_error" \in Errors
    BY DEF Errors
  <2>1. CASE EnterTransaction
    <3>1. PICK result \in Modes :
            /\ Begin(result)
            /\ IF result = "run"
               THEN /\ stack' = Append(stack, Transaction(entered + 1))
                    /\ entered' = entered + 1
                    /\ fate' = [fate EXCEPT ![entered + 1] = "open"]
               ELSE UNCHANGED <<stack, entered, fate>>
      BY <2>1 DEF EnterTransaction
    <3>2. entered < may.blocks /\ exit' = NoExit /\ UNCHANGED handler
      BY <2>1 DEF EnterTransaction
    <3>3. CASE result = "run"
      <4>1. /\ ~closed /\ ~inTx /\ closed' = closed /\ transaction_active' = TRUE /\ inTx' = TRUE
            /\ pending' = pending /\ durable' = durable
        BY <2>r, <3>1, <3>3 DEF Begin, Refused, Flag
      <4>2. entered + 1 \in Blocks
        BY <2>b, <3>2 DEF Blocks
      <4>. DEFINE n == Len(stack) + 1
      <4>3. Transactions' = {n} /\ stack'[n].block = entered + 1
        BY <2>k, <3>1, <3>3, <4>1, <4>2, EnteredBlock DEF OpenInside
      <4>4. pending' = {}
        BY <2>k, <4>1 DEF PendingInside
      <4>5. fate'[entered + 1] = "open" /\ \A b \in Blocks \ {entered + 1} : fate'[b] = fate[b]
        BY <2>t, <3>1, <3>3, <4>2
      <4>. HIDE DEF n
      <4>6. FlagAgrees' /\ OneBlock' /\ OpenInside' /\ PendingInside' /\ NeverArmed'
        BY <2>k, <3>2, <4>1, <4>3, <4>4
        DEF FlagAgrees, OneBlock, OpenInside, PendingInside, NeverArmed
      <4>7. FateOpen'
        BY <4>3, <4>5 DEF FateOpen
      <4>8. FateFresh'
        <5>1. \A b \in Blocks : b > entered + 1 => b # entered + 1
          BY <2>e, <2>b DEF Blocks
        <5>. QED
          BY <2>e, <2>k, <3>1, <3>3, <4>5, <5>1 DEF FateFresh
      <4>9. DurableCommitted'
        <5>. SUFFICES ASSUME NEW w \in durable, w.block # 0 PROVE fate'[w.block] = "committed"
          BY <4>1 DEF DurableCommitted
        <5>1. fate[w.block] = "committed" /\ w.block \in Blocks
          BY <2>k, <2>w DEF DurableCommitted
        <5>2. fate[entered + 1] = "not entered"
          BY <2>e, <2>k, <4>2 DEF FateFresh
        <5>. QED
          BY <4>5, <5>1, <5>2
      <4>10. ErrorPropagates'
        BY <2>r, <3>2 DEF ErrorPropagates, NoExit
      <4>. QED
        BY <4>6, <4>7, <4>8, <4>9, <4>10 DEF Kept
    <3>4. CASE result # "run"
      BY <3>1, <3>2, <3>4, KeptSame, StackUnchanged DEF Begin, Refused
    <3>. QED
      BY <3>3, <3>4
  <2>2. CASE (\E catches \in CatchSets : EnterTry(catches)) \/ LeaveTryPart \/ LeaveFinally
    BY <2>2, KeptSame, TriesKeepBlocks DEF EnterTry, LeaveTryPart, LeaveFinally, counters
  <2>3. ASSUME NEW how \in Modes, Leave(how) PROVE Kept'
    BY <2>3, KeptSame, StackUnchanged DEF Leave, counters
  <2>4. CASE Manual
    BY <2>4, <2>d DEF Manual
  <2>5. CASE Close
    <3>1. /\ closed' = TRUE /\ transaction_active' = FALSE /\ inTx' = FALSE /\ pending' = {}
          /\ durable' = durable /\ stack' = stack /\ fate' = fate /\ entered' = entered
          /\ handler' = handler
      BY <2>5 DEF Close, Closed, control, counters
    <3>2. SameBlocks
      BY <3>1, StackUnchanged
    <3>3. FlagAgrees' /\ OpenInside' /\ PendingInside' /\ ErrorPropagates' /\ NeverArmed'
      BY <2>k, <3>1 DEF FlagAgrees, OpenInside, PendingInside, ErrorPropagates, NeverArmed
    <3>4. OneBlock' /\ FateOpen' /\ FateFresh' /\ DurableCommitted'
      BY <2>k, <3>1, <3>2 DEF SameBlocks, OneBlock, FateOpen, FateFresh, DurableCommitted
    <3>. QED
      BY <3>3, <3>4 DEF Kept
  <2>6. CASE OnClosed \/ ReachHost
    BY <2>6, KeptSame, StackUnchanged DEF OnClosed, Finish, ReachHost, counters
  <2>7. CASE DeadlinePasses
    BY <2>7, <2>k DEF DeadlinePasses
  <2>8. ASSUME NEW timed \in BOOLEAN, Write(timed) PROVE Kept'
    <3>. DEFINE write == [number |-> writes + 1, block |-> Inner]
    <3>1. ~timed /\ ~closed /\ UNCHANGED <<stack, connection, entered, fate, exit>> /\ handler' = "none"
      BY <2>8, <2>d, <2>k DEF Write, Finish, Armed, Disarmed, MayInterrupt
    <3>2. SameBlocks
      BY <3>1, StackUnchanged
    <3>3. CASE UNCHANGED engine
      BY <2>k, <3>1, <3>2, <3>3, KeptSame
    <3>4. CASE IF inTx THEN pending' = pending \cup {write} /\ UNCHANGED <<inTx, durable>>
               ELSE durable' = durable \cup {write} /\ UNCHANGED <<inTx, pending>>
      <4>1. write.block = Inner
        OBVIOUS
      <4>. HIDE DEF write
      <4>2. PendingInside'
        <5>1. inTx => \E k \in Transactions : stack[k].block = Inner
          BY <2>k, <2>t, InnerBlock DEF OpenInside
        <5>. QED
          BY <2>k, <3>1, <3>2, <3>4, <4>1, <5>1 DEF PendingInside, SameBlocks
      <4>3. DurableCommitted'
        <5>1. ~inTx => Inner = 0
          BY <2>k, <2>t, <3>1, InnerBlock DEF OpenInside
        <5>. QED
          BY <2>k, <3>1, <3>4, <4>1, <5>1 DEF DurableCommitted
      <4>4. inTx' = inTx
        BY <3>4
      <4>5. FlagAgrees' /\ OpenInside' /\ ErrorPropagates' /\ NeverArmed'
        BY <2>k, <3>1, <3>2, <4>4
        DEF FlagAgrees, OpenInside, ErrorPropagates, NeverArmed, SameBlocks, connection
      <4>6. OneBlock' /\ FateOpen' /\ FateFresh'
        BY <2>k, <3>1, <3>2 DEF OneBlock, FateOpen, FateFresh, SameBlocks
      <4>. QED
        BY <4>2, <4>3, <4>5, <4>6 DEF Kept
    <3>. QED
      BY <2>8, <2>d, <2>k, <3>1, <3>3, <3>4 DEF Write, MayInterrupt
  <2>9. ASSUME NEW timed \in BOOLEAN, Query(timed) PROVE Kept'
    <3>1. UNCHANGED <<stack, connection, engine, entered, fate, exit>> /\ ~timed
      BY <2>9, <2>d DEF Query, Finish
    <3>2. handler' = handler
      BY <2>9, <2>k, <3>1 DEF Query, Armed, Disarmed, MayInterrupt
    <3>. QED
      BY <3>1, <3>2, KeptSame, StackUnchanged
  <2>10. CASE LeaveTransaction
    <3>1. PICK settled \in Modes :
            /\ IF Settles(mode) = "commit" THEN Commit(settled) ELSE Rollback(settled)
            /\ Left(mode, Outcome(mode, settled))
      BY <2>10 DEF LeaveTransaction
    <3>. DEFINE result == Outcome(mode, settled)
                b == Top.block
    <3>2. /\ stack' = Popped /\ exit' = [cause |-> mode, result |-> result]
          /\ fate' = [fate EXCEPT ![b] = IF result \in {"run", "returned"} THEN "committed" ELSE "failed"]
          /\ entered' = entered /\ handler' = handler
      BY <3>1 DEF Left, counters
    <3>3. Transactions' = {} /\ Transactions = {Len(stack)} /\ b \in Blocks
      BY <2>10, <2>k, <3>2, LeftBlock DEF LeaveTransaction
    <3>4. fate[b] = "open" /\ \A w \in pending : w.block = b
      BY <2>k, <3>3 DEF FateOpen, PendingInside, Top
    <3>5. /\ fate'[b] = IF result \in {"run", "returned"} THEN "committed" ELSE "failed"
          /\ \A c \in Blocks \ {b} : fate'[c] = fate[c]
      BY <2>t, <3>2, <3>3
    <3>6. closed' = closed /\ inTx' = FALSE /\ transaction_active' = FALSE /\ pending' = {}
      <4>1. CASE closed
        <5>1. ~inTx /\ pending = {}
          BY <2>k, <4>1 DEF OpenInside, PendingInside
        <5>. QED
          BY <2>k, <3>1, <4>1, <5>1 DEF Commit, Rollback, Refused, connection, engine
      <4>2. CASE ~closed
        <5>1. inTx
          BY <2>k, <3>3, <4>2 DEF OpenInside
        <5>. QED
          BY <2>d, <2>k, <3>1, <4>2, <5>1 DEF Commit, Rollback, Flag
      <4>. QED
        BY <4>1, <4>2
    <3>7. ~closed => settled = "run"
      <4>1. ~closed => inTx
        BY <2>k, <3>3 DEF OpenInside
      <4>. QED
        BY <2>d, <2>k, <3>1, <4>1 DEF Commit, Rollback
    <3>8. durable' = durable \/ (result \in {"run", "returned"} /\ durable' = durable \cup pending)
      BY <2>r, <3>1, <2>t DEF Commit, Rollback, Refused, engine, Settles, Outcome
    <3>9. result = IF settled = "run" THEN mode ELSE settled
      BY DEF Outcome
    <3>. HIDE DEF result, b
    <3>10. FlagAgrees' /\ OneBlock' /\ OpenInside' /\ PendingInside' /\ NeverArmed' /\ FateOpen'
      BY <2>k, <3>2, <3>3, <3>6
      DEF FlagAgrees, OneBlock, OpenInside, PendingInside, NeverArmed, FateOpen
    <3>11. FateFresh'
      BY <2>k, <3>2, <3>3, <3>4, <3>5 DEF FateFresh
    <3>12. DurableCommitted'
      <4>. SUFFICES ASSUME NEW w \in durable', w.block # 0 PROVE fate'[w.block] = "committed"
        BY DEF DurableCommitted
      <4>1. CASE w \in durable
        <5>1. fate[w.block] = "committed" /\ w.block \in Blocks
          BY <2>k, <2>w, <4>1 DEF DurableCommitted
        <5>. QED
          BY <3>4, <3>5, <5>1
      <4>2. CASE w \notin durable
        BY <3>4, <3>5, <3>8, <4>2
      <4>. QED
        BY <4>1, <4>2
    <3>13. ErrorPropagates'
      BY <3>2, <3>6, <3>7, <3>9 DEF ErrorPropagates
    <3>. QED
      BY <3>10, <3>11, <3>12, <3>13 DEF Kept
  <2>. QED
    BY <1>n, <2>1, <2>2, <2>3, <2>4, <2>5, <2>6, <2>7, <2>8, <2>9, <2>10 DEF Step
<1>. QED
  BY <1>n, <1>u DEF Next

----------------------------------------------------------------------------
(* The theorems.                                                           *)

LEMMA InvInit == Init => Inv
<1>. SUFFICES ASSUME Init PROVE Inv
  OBVIOUS
<1>1. may \in Programs /\ may.blocks \in Nat /\ may.writes \in Nat
  <2>1. may \in Programs /\ may.blocks \in 0..MaxBlocks /\ may.writes \in Nat
    BY ProgramsAssumption DEF Init
  <2>. QED
    BY <2>1, BoundsAssumption
<1>2. TypeOK
  <2>1. NoExit \in [cause : Modes, result : Modes] /\ "run" \in Modes
        /\ NoStatement \in [timed : BOOLEAN, interrupted : BOOLEAN, result : Modes]
    BY DEF NoExit, NoStatement, Modes
  <2>2. stack \in Seq(Frames) /\ 0 \in 0..may.blocks /\ 0 \in 0..may.writes
    <3>1. stack = <<>>
      BY DEF Init
    <3>. QED
      BY <1>1, <3>1, EmptySeq
  <2>3. EngineOK
    BY DEF Init, EngineOK
  <2>4. ProgramOK
    BY <1>1, <2>1, <2>2 DEF Init, ProgramOK
  <2>. QED
    BY <2>3, <2>4 DEF TypeOK, EngineOK, ProgramOK
<1>3. Transactions = {}
  <2>1. stack = <<>>
    BY DEF Init
  <2>2. stack \in Seq(Frames) /\ Len(stack) = 0
    BY <2>1, EmptySeq
  <2>3. DOMAIN stack = {}
    BY <2>2
  <2>. QED
    BY <2>3 DEF Transactions
<1>4. NoHiddenTransaction /\ Kept
  <2>1. NoHiddenTransaction /\ FlagAgrees /\ OpenInside /\ NeverArmed
    BY <1>3 DEF Init, NoHiddenTransaction, FlagAgrees, OpenInside, NeverArmed
  <2>2. OneBlock /\ PendingInside /\ FateOpen /\ FateFresh /\ DurableCommitted
    BY <1>3 DEF Init, OneBlock, PendingInside, FateOpen, FateFresh, DurableCommitted
  <2>3. ErrorPropagates
    BY DEF Init, ErrorPropagates, NoExit, Errors
  <2>. QED
    BY <2>1, <2>2, <2>3 DEF Kept
<1>. QED
  BY <1>2, <1>4 DEF Inv

LEMMA InvStep ==
  ASSUME Inv, [Next]_vars
  PROVE  Inv'
<1>1. TypeOK' /\ NoHiddenTransaction'
  BY TypeStep, HiddenStep DEF Inv
<1>2. ASSUME Undisturbed' PROVE Kept'
  <2>1. may' = may
    BY DEF Next, vars
  <2>2. Undisturbed
    BY <1>2, <2>1 DEF Undisturbed
  <2>. QED
    BY <1>1, <2>2, KeptStep DEF Inv
<1>. QED
  BY <1>1, <1>2 DEF Inv

THEOREM Invariance == Spec => []Inv
<1>1. Inv /\ [Next]_vars => Inv'
  BY InvStep
<1>. QED
  BY <1>1, InvInit, PTL DEF Spec

\* Every variable of the interpreter's blocks, the connection value and SQLite
\* has its type, and the flag is never set on a closed connection.
THEOREM TypeCorrect == Spec => []TypeOK
<1>1. Inv => TypeOK
  BY DEF Inv
<1>. QED
  BY <1>1, Invariance, PTL

\* Whatever the program does and SQLite ends or refuses, the adapter has
\* transaction_active set where SQLite has a transaction open.
THEOREM NothingHidden == Spec => []NoHiddenTransaction
<1>1. Inv => NoHiddenTransaction
  BY DEF Inv
<1>. QED
  BY <1>1, Invariance, PTL

\* The flag of the adapter and SQLite agree where only blocks begin and end
\* transactions, no query has a timeout and SQLite does as it is told.
THEOREM FlagRight == Spec => []FlagAgreesUndisturbed
<1>1. Inv => FlagAgreesUndisturbed
  BY DEF Inv, Kept, FlagAgreesUndisturbed
<1>. QED
  BY <1>1, Invariance, PTL

\* The transaction block of such a program is atomic, ends its transaction and
\* passes on the error of its body, however blocks and try statements nest.
THEOREM BlockRight == Spec => []BlockKeptUndisturbed
<1>1. Inv => BlockKeptUndisturbed
  <2>. SUFFICES ASSUME Inv, Undisturbed PROVE BlockAtomic /\ BlockCloses /\ ErrorPropagates
    BY DEF BlockKeptUndisturbed
  <2>1. Kept /\ stack \in Seq(Frames)
    BY DEF Inv, TypeOK
  <2>2. BlockAtomic
    <3>1. \A w \in pending : fate[w.block] = "open"
      BY <2>1 DEF Kept, PendingInside, FateOpen
    <3>. QED
      BY <2>1, <3>1 DEF Kept, DurableCommitted, BlockAtomic
  <2>3. BlockCloses
    <3>1. inTx => Inner \in Blocks
      BY <2>1, InnerBlock DEF Kept, OpenInside
    <3>2. 0 \notin Blocks
      BY BoundsAssumption DEF Blocks
    <3>. QED
      BY <3>1, <3>2 DEF BlockCloses
  <2>4. ErrorPropagates
    BY <2>1 DEF Kept
  <2>. QED
    BY <2>2, <2>3, <2>4
<1>. QED
  BY <1>1, Invariance, PTL
=============================================================================
