----------------------------- MODULE LanguageProofs -----------------------------
(***************************************************************************)
(* What holds of Handling, Imports, Blocks, Workspace, Embedded and        *)
(* EditorBlocks for every program: how an error or a return passes the try *)
(* blocks, how files import each other, what the parser makes of labelled  *)
(* blocks, what the language server says of several files and of the       *)
(* blocks of one, and what is done with the pins of a board.               *)
(***************************************************************************)
EXTENDS Handling, Imports, Workspace, Embedded, EditorBlocks, FiniteSetTheorems, SequenceTheorems,
        WellFoundedInduction, TLAPS

----------------------------------------------------------------------------
(* Handling: control passed through try blocks.                            *)

Flows  == [is : {"calm", "return", "error"}, category : Categories \cup {"none"}, due : Nat]
TryBlocks == [catches : Catches, finally : BOOLEAN, part : {"body", "catch", "finally"}, pending : Flows]

HandlingTyped ==
  /\ blocks \in Seq(TryBlocks) /\ flow \in Flows
  /\ tries \in Nat /\ promised \in Nat /\ kept \in Nat

\* The block may catch an error of this category that is raised in it.
May(block, category) == block.part = "body" /\ Caught(block, category)

\* What is in the air on top of the first n blocks is to be caught by the innermost
\* of them that may.
DueIn(s, n, f) ==
  IF f.is = "error"
  THEN /\ f.due \in 0..n /\ (f.due = 0 \/ May(s[f.due], f.category))
       /\ \A k \in 1..n : k > f.due => ~May(s[k], f.category)
  ELSE f.due = 0

\* It holds of what is in the air and of what waits for a finally, with the blocks
\* around that finally.
FlowDue    == DueIn(blocks, Len(blocks), flow)
PendingDue == \A k \in 1..Len(blocks) : DueIn(blocks, k - 1, blocks[k].pending)
Agrees(block) ==
  /\ block.pending # Calm => block.part = "finally"
  /\ block.part = "finally" => block.finally
PartsAgree == \A k \in 1..Len(blocks) : Agrees(blocks[k])
HandlingInv == HandlingTyped /\ FlowDue /\ PendingDue /\ PartsAgree /\ FinallyExecuted /\ CaughtWhereDue

Ahead == {k \in 1..Len(blocks) : FinallyAhead(blocks[k])}

\* A set of numbers has a least one, and if it is bounded a greatest one.
LEMMA LeastNatural ==
  ASSUME NEW S \in SUBSET Nat, S # {}
  PROVE  \E m \in S : \A n \in S : m <= n
<1>. DEFINE Less == {ss \in Nat \X Nat : ss[1] < ss[2]}
<1>1. IsWellFoundedOn(Less, Nat)
  BY NatLessThanWellFounded, Zenon DEF OpToRel
<1>2. \E m \in S : \A n \in S : <<n, m>> \notin Less
  <2>. HIDE DEF Less
  <2>. QED
    BY <1>1, WFMin, Zenon
<1>3. \A m, n \in Nat : <<n, m>> \in Less <=> n < m
  OBVIOUS
<1>4. PICK m \in S : \A n \in S : ~(n < m)
  <2>. HIDE DEF Less
  <2>. QED
    BY <1>2, <1>3
<1>. QED
  BY <1>4

LEMMA GreatestFrom ==
  ASSUME NEW n \in Nat, NEW S \in SUBSET (0..n), S # {}
  PROVE  \E k \in S : \A j \in S : j <= k
<1>. DEFINE T == {n - k : k \in S}
<1>1. T \in SUBSET Nat /\ T # {}
  <2>1. \A k \in S : k \in 0..n /\ n - k \in Nat
    OBVIOUS
  <2>. QED
    BY <2>1
<1>2. PICK m \in T : \A x \in T : m <= x
  <2>. HIDE DEF T
  <2>. QED
    BY <1>1, LeastNatural
<1>3. PICK k \in S : m = n - k
  OBVIOUS
<1>4. \A j \in S : j \in 0..n /\ m <= n - j
  BY <1>2
<1>. QED
  BY <1>3, <1>4

LEMMA CalmIs ==
  /\ Calm \in Flows /\ Return \in Flows /\ Calm.is = "calm" /\ Return.is = "return"
  /\ Calm.due = 0 /\ Return.due = 0
  BY DEF Calm, Return, Flows

LEMMA BlocksAre ==
  ASSUME HandlingTyped
  PROVE  /\ Len(blocks) \in Nat /\ DOMAIN blocks = 1..Len(blocks)
         /\ \A k \in 1..Len(blocks) : blocks[k] \in TryBlocks
         /\ blocks # <<>> => /\ Len(blocks) >= 1 /\ Len(blocks) \in 1..Len(blocks)
                             /\ Innermost = blocks[Len(blocks)]
         /\ IsFiniteSet(Ahead) /\ Cardinality(Ahead) \in Nat
         /\ {k \in DOMAIN blocks : FinallyAhead(blocks[k])} = Ahead
<1>1. blocks \in Seq(TryBlocks) /\ Len(blocks) \in Nat /\ DOMAIN blocks = 1..Len(blocks)
  BY LenProperties DEF HandlingTyped
<1>2. \A k \in 1..Len(blocks) : blocks[k] \in TryBlocks
  BY <1>1, ElementOfSeq
<1>3. IsFiniteSet(Ahead) /\ Cardinality(Ahead) \in Nat
  <2>1. IsFiniteSet(1..Len(blocks)) /\ Ahead \subseteq 1..Len(blocks)
    BY <1>1, FS_Interval DEF Ahead
  <2>. QED
    BY <2>1, FS_Subset, FS_CardinalityType
<1>4. {k \in DOMAIN blocks : FinallyAhead(blocks[k])} = Ahead
  BY <1>1 DEF Ahead
<1>5. blocks # <<>> => Len(blocks) >= 1
  BY <1>1, EmptySeq
<1>. QED
  BY <1>1, <1>2, <1>3, <1>4, <1>5 DEF Innermost, Last

\* What is due depends on the part and the branches of the blocks around it.
LEMMA DueInSame ==
  ASSUME NEW s, NEW t, NEW n \in Nat, NEW f \in Flows, DueIn(s, n, f),
         \A k \in 1..n : t[k] = s[k]
  PROVE  DueIn(t, n, f)
<1>1. CASE f.is = "error"
  <2>1. /\ f.due \in 0..n /\ (f.due = 0 \/ May(s[f.due], f.category))
        /\ \A k \in 1..n : k > f.due => ~May(s[k], f.category)
    BY <1>1 DEF DueIn
  <2>2. f.due = 0 \/ f.due \in 1..n
    BY <2>1
  <2>3. f.due = 0 \/ May(t[f.due], f.category)
    BY <2>1, <2>2
  <2>4. \A k \in 1..n : k > f.due => ~May(t[k], f.category)
    BY <2>1
  <2>. QED
    BY <1>1, <2>1, <2>3, <2>4 DEF DueIn
<1>2. CASE f.is # "error"
  BY <1>2 DEF DueIn
<1>. QED
  BY <1>1, <1>2

\* An error that the innermost block may not catch is due below it.
LEMMA DueBelow ==
  ASSUME NEW s, NEW n \in Nat \ {0}, NEW f \in Flows, DueIn(s, n, f),
         f.is = "error" => ~May(s[n], f.category)
  PROVE  DueIn(s, n - 1, f)
<1>1. CASE f.is = "error"
  <2>1. /\ f.due \in 0..n /\ (f.due = 0 \/ May(s[f.due], f.category))
        /\ \A k \in 1..n : k > f.due => ~May(s[k], f.category)
    BY <1>1 DEF DueIn
  <2>2. f.due # n
    BY <1>1, <2>1
  <2>3. f.due \in 0..(n - 1) /\ \A k \in 1..(n - 1) : k \in 1..n
    BY <2>1, <2>2
  <2>. QED
    BY <1>1, <2>1, <2>3 DEF DueIn
<1>2. CASE f.is # "error"
  BY <1>2 DEF DueIn
<1>. QED
  BY <1>1, <1>2

\* The innermost block changes its part.
LEMMA PartIs ==
  ASSUME HandlingTyped, blocks # <<>>, NEW part \in {"body", "catch", "finally"}, NEW pending \in Flows
  PROVE  /\ Part(part, pending) \in Seq(TryBlocks) /\ Len(Part(part, pending)) = Len(blocks)
         /\ \A k \in 1..(Len(blocks) - 1) : Part(part, pending)[k] = blocks[k]
         /\ LET block == Part(part, pending)[Len(blocks)]
            IN  /\ block.part = part /\ block.pending = pending
                /\ block.finally = Innermost.finally /\ block.catches = Innermost.catches
<1>. DEFINE n == Len(blocks)
            block == [blocks[n] EXCEPT !.part = part, !.pending = pending]
<1>1. /\ n \in Nat \ {0} /\ n \in 1..n /\ blocks[n] \in TryBlocks /\ Innermost = blocks[n]
      /\ DOMAIN blocks = 1..n /\ blocks \in Seq(TryBlocks)
  BY BlocksAre DEF HandlingTyped
<1>2. /\ block \in TryBlocks /\ block.part = part /\ block.pending = pending
      /\ block.finally = blocks[n].finally /\ block.catches = blocks[n].catches
  BY <1>1 DEF TryBlocks
<1>3. Part(part, pending) = [blocks EXCEPT ![n] = block]
  BY <1>1 DEF Part
<1>4. /\ [blocks EXCEPT ![n] = block] \in Seq(TryBlocks) /\ Len([blocks EXCEPT ![n] = block]) = n
      /\ \A k \in 1..(n - 1) : [blocks EXCEPT ![n] = block][k] = blocks[k]
      /\ [blocks EXCEPT ![n] = block][n] = block
  <2>1. PICK changed \in TryBlocks : changed = block
    BY <1>2
  <2>2. /\ [blocks EXCEPT ![n] = changed] \in Seq(TryBlocks) /\ Len([blocks EXCEPT ![n] = changed]) = n
        /\ \A k \in 1..n : [blocks EXCEPT ![n] = changed][k] = IF k = n THEN changed ELSE blocks[k]
    BY <1>1, ExceptSeq
  <2>3. \A k \in 1..(n - 1) : k \in 1..n /\ k # n
    <3>. HIDE DEF n
    <3>. QED
      BY <1>1
  <2>. QED
    BY <1>1, <2>1, <2>2, <2>3
<1>. QED
  BY <1>1, <1>2, <1>3, <1>4

\* One block fewer.
LEMMA FrontIs ==
  ASSUME HandlingTyped, blocks # <<>>
  PROVE  /\ Front(blocks) \in Seq(TryBlocks) /\ Len(Front(blocks)) = Len(blocks) - 1
         /\ \A k \in 1..(Len(blocks) - 1) : Front(blocks)[k] = blocks[k]
<1>. DEFINE n == Len(blocks)
<1>1. n \in Nat /\ n >= 1 /\ \A k \in 1..n : blocks[k] \in TryBlocks
  BY BlocksAre
<1>2. \A k \in 1..(n - 1) : blocks[k] \in TryBlocks
  BY <1>1
<1>3. /\ SubSeq(blocks, 1, n - 1) \in Seq(TryBlocks)
      /\ Len(SubSeq(blocks, 1, n - 1)) = IF 1 <= n - 1 THEN n - 1 - 1 + 1 ELSE 0
      /\ \A k \in 1..(n - 1 - 1 + 1) : SubSeq(blocks, 1, n - 1)[k] = blocks[1 + k - 1]
  <2>. HIDE DEF n
  <2>. QED
    BY <1>1, <1>2, SubSeqProperties
<1>4. n - 1 - 1 + 1 = n - 1 /\ (IF 1 <= n - 1 THEN n - 1 - 1 + 1 ELSE 0) = n - 1
      /\ \A k \in 1..(n - 1) : 1 + k - 1 = k
  <2>. HIDE DEF n
  <2>. QED
    BY <1>1
<1>. QED
  BY <1>3, <1>4 DEF Front

\* The innermost block is changed by a part or is gone; in either case those below it
\* are what they were.
LEMMA LowerDue ==
  ASSUME HandlingInv, blocks # <<>>, NEW s,
         \A k \in 1..(Len(blocks) - 1) : s[k] = blocks[k]
  PROVE  /\ \A k \in 1..(Len(blocks) - 1) : DueIn(s, k - 1, s[k].pending)
         /\ \A f \in Flows : DueIn(blocks, Len(blocks) - 1, f) => DueIn(s, Len(blocks) - 1, f)
<1>1. /\ Len(blocks) \in Nat /\ Len(blocks) >= 1
      /\ \A k \in 1..Len(blocks) : blocks[k] \in TryBlocks /\ blocks[k].pending \in Flows
  BY BlocksAre DEF HandlingInv, TryBlocks
<1>2. ASSUME NEW k \in 1..(Len(blocks) - 1) PROVE DueIn(s, k - 1, s[k].pending)
  <2>1. k \in 1..Len(blocks) /\ k - 1 \in Nat /\ s[k] = blocks[k] /\ blocks[k].pending \in Flows
    BY <1>1
  <2>2. DueIn(blocks, k - 1, blocks[k].pending)
    BY <2>1 DEF HandlingInv, PendingDue
  <2>3. \A j \in 1..(k - 1) : s[j] = blocks[j]
    BY <1>1
  <2>. QED
    BY <2>1, <2>2, <2>3, DueInSame
<1>3. ASSUME NEW f \in Flows, DueIn(blocks, Len(blocks) - 1, f) PROVE DueIn(s, Len(blocks) - 1, f)
  <2>1. Len(blocks) - 1 \in Nat
    BY <1>1
  <2>. QED
    BY <1>3, <2>1, DueInSame
<1>. QED
  BY <1>2, <1>3

\* A block is left with what was due below it.
LEMMA LeavesKeep ==
  ASSUME HandlingInv, blocks # <<>>, NEW next \in Flows, DueIn(blocks, Len(blocks) - 1, next),
         Innermost.part = "finally" \/ Innermost.pending = Calm,
         Leaves(next), UNCHANGED <<tries, promised>>, CaughtWhereDue'
  PROVE  HandlingInv'
<1>. DEFINE n == Len(blocks)
<1>0. /\ HandlingTyped /\ n \in Nat \ {0} /\ n \in 1..n /\ Innermost = blocks[n] /\ blocks[n] \in TryBlocks
  BY BlocksAre DEF HandlingInv
<1>1. /\ HandlingTyped /\ n \in Nat \ {0} /\ n \in 1..n /\ Innermost = blocks[n] /\ blocks[n] \in TryBlocks
      /\ \A k \in 1..n : k = n \/ k \in 1..(n - 1)
      /\ \A k \in 1..(n - 1) : k \in 1..n /\ k # n
  <2>. HIDE DEF n
  <2>. QED
    BY <1>0
<1>2. /\ IsFiniteSet(Ahead) /\ Cardinality(Ahead) \in Nat /\ Ahead \subseteq 1..n
      /\ promised = kept + Cardinality(Ahead) /\ kept \in Nat /\ promised \in Nat /\ tries \in Nat
  BY <1>1, BlocksAre DEF HandlingInv, FinallyExecuted, HandlingTyped, Ahead
<1>3. CASE FinallyNext(Innermost)
  <2>1. blocks' = Part("finally", next) /\ flow' = Calm /\ kept' = kept + 1
    BY <1>3 DEF Leaves
  <2>2. /\ blocks' \in Seq(TryBlocks) /\ Len(blocks') = n /\ \A k \in 1..(n - 1) : blocks'[k] = blocks[k]
        /\ blocks'[n].part = "finally" /\ blocks'[n].pending = next
        /\ blocks'[n].finally = Innermost.finally
    BY <1>1, <2>1, PartIs
  <2>3. HandlingTyped'
    BY <1>2, <2>1, <2>2, CalmIs DEF HandlingTyped
  <2>4. FlowDue'
    BY <2>1, CalmIs DEF FlowDue, DueIn
  <2>5. PendingDue'
    <3>1. /\ \A k \in 1..(n - 1) : DueIn(blocks', k - 1, blocks'[k].pending)
          /\ DueIn(blocks', n - 1, next)
      BY <2>2, LowerDue
    <3>. QED
      BY <1>1, <2>2, <3>1 DEF PendingDue
  <2>6. PartsAgree'
    <3>1. \A k \in 1..(n - 1) : Agrees(blocks'[k])
      BY <1>1, <2>2 DEF PartsAgree, HandlingInv
    <3>2. Agrees(blocks'[n])
      BY <1>3, <2>2 DEF FinallyNext, Agrees
    <3>. QED
      BY <1>1, <2>2, <3>1, <3>2 DEF PartsAgree
  <2>7. FinallyExecuted'
    <3>1. n \in Ahead
      BY <1>1, <1>3 DEF Ahead, FinallyNext, FinallyAhead, TryBlocks
    <3>2. Ahead' = Ahead \ {n}
      BY <1>1, <2>2 DEF Ahead, FinallyAhead
    <3>3. Cardinality(Ahead') = Cardinality(Ahead) - 1
      BY <1>2, <3>1, <3>2, FS_RemoveElement
    <3>4. {k \in DOMAIN blocks' : FinallyAhead(blocks'[k])} = Ahead'
      BY <2>2 DEF Ahead
    <3>5. FinallyExecuted' <=> promised' = kept' + Cardinality(Ahead')
      BY <3>4 DEF FinallyExecuted
    <3>. QED
      BY <1>2, <2>1, <3>3, <3>5
  <2>. QED
    BY <2>3, <2>4, <2>5, <2>6, <2>7 DEF HandlingInv
<1>4. CASE ~FinallyNext(Innermost)
  <2>1. blocks' = Front(blocks) /\ flow' = next /\ kept' = kept
    BY <1>4 DEF Leaves
  <2>2. blocks' \in Seq(TryBlocks) /\ Len(blocks') = n - 1 /\ \A k \in 1..(n - 1) : blocks'[k] = blocks[k]
    BY <1>1, <2>1, FrontIs
  <2>3. HandlingTyped'
    BY <1>2, <2>1, <2>2 DEF HandlingTyped
  <2>4. /\ \A k \in 1..(n - 1) : DueIn(blocks', k - 1, blocks'[k].pending)
        /\ DueIn(blocks', n - 1, next)
    BY <2>2, LowerDue
  <2>5. FlowDue' /\ PendingDue'
    BY <2>1, <2>2, <2>4 DEF FlowDue, PendingDue
  <2>6. PartsAgree'
    BY <1>1, <2>2 DEF PartsAgree, HandlingInv
  <2>7. FinallyExecuted'
    <3>1. n \notin Ahead
      BY <1>1, <1>4 DEF Ahead, FinallyNext, FinallyAhead
    <3>2. Ahead' = Ahead
      BY <1>1, <2>2, <3>1 DEF Ahead
    <3>3. {k \in DOMAIN blocks' : FinallyAhead(blocks'[k])} = Ahead'
      BY <2>2 DEF Ahead
    <3>. QED
      BY <1>2, <2>1, <3>2, <3>3 DEF FinallyExecuted
  <2>. QED
    BY <2>3, <2>5, <2>6, <2>7 DEF HandlingInv
<1>. QED
  BY <1>3, <1>4

\* An error is due at the innermost block that may catch it.
LEMMA ErrorIsDue ==
  ASSUME HandlingTyped, NEW category \in Categories
  PROVE  Error(category) \in Flows /\ DueIn(blocks, Len(blocks), Error(category))
<1>. DEFINE n == Len(blocks)
            S == {0} \cup {k \in DOMAIN blocks : blocks[k].part = "body" /\ Caught(blocks[k], category)}
<1>1. n \in Nat /\ DOMAIN blocks = 1..n
  BY BlocksAre
<1>2. PICK d \in S : \A k \in S : k <= d
  <2>1. S \in SUBSET (0..n) /\ S # {}
    BY <1>1
  <2>. HIDE DEF S, n
  <2>. QED
    BY <1>1, <2>1, GreatestFrom
<1>3. \A k \in S : k \in Nat
  BY <1>1
<1>4. Max(S) \in S /\ \A k \in S : Max(S) >= k
  <2>. HIDE DEF S
  <2>1. \E m \in S : \A k \in S : m >= k
    BY <1>2, <1>3
  <2>. QED
    BY <2>1 DEF Max
<1>5. Due(category) = Max(S)
  BY DEF Due
<1>6. Due(category) \in S /\ \A k \in S : Due(category) >= k
  BY <1>4, <1>5, Zenon
<1>7. /\ Due(category) \in 0..n /\ (Due(category) = 0 \/ May(blocks[Due(category)], category))
      /\ \A k \in 1..n : k > Due(category) => ~May(blocks[k], category)
  <2>1. \A k : k \in S <=> k = 0 \/ (k \in 1..n /\ May(blocks[k], category))
    BY <1>1 DEF May
  <2>. HIDE DEF S, n
  <2>. QED
    BY <1>1, <1>3, <1>6, <2>1
<1>8. Error(category) \in Flows /\ Error(category).is = "error" /\ Error(category).due = Due(category)
      /\ Error(category).category = category
  BY <1>1, <1>7 DEF Error, Flows
<1>. QED
  BY <1>7, <1>8 DEF DueIn

LEMMA TryKeeps ==
  ASSUME HandlingInv, NEW catches \in Catches, NEW last \in BOOLEAN, Try(catches, last)
  PROVE  HandlingInv'
<1>. DEFINE n == Len(blocks)
            block == [catches |-> catches, finally |-> last, part |-> "body", pending |-> Calm]
<1>1. /\ HandlingTyped /\ n \in Nat /\ block \in TryBlocks /\ blocks \in Seq(TryBlocks)
      /\ tries \in Nat /\ promised \in Nat /\ kept \in Nat /\ flow = Calm
      /\ \A k \in 1..n : blocks[k].pending \in Flows
  BY BlocksAre, CalmIs DEF HandlingInv, HandlingTyped, TryBlocks, Try
<1>2. /\ blocks' = Append(blocks, block) /\ tries' = tries + 1 /\ flow' = Calm /\ kept' = kept
      /\ promised' = promised + (IF last THEN 1 ELSE 0) /\ UNCHANGED caught
  BY <1>1 DEF Try
<1>3. /\ blocks' \in Seq(TryBlocks) /\ Len(blocks') = n + 1
      /\ \A k \in 1..n : blocks'[k] = blocks[k]
      /\ blocks'[n + 1] = block
  <2>. HIDE DEF block, n
  <2>1. Len(blocks) = n
    BY DEF n
  <2>. QED
    BY <1>1, <1>2, <2>1, AppendProperties
<1>4. /\ \A k \in 1..(n + 1) : k = n + 1 \/ k \in 1..n
      /\ \A k \in 1..n : k \in 1..(n + 1) /\ k # n + 1
      /\ n + 1 \in 1..(n + 1)
  <2>. HIDE DEF n
  <2>. QED
    BY <1>1
<1>5. HandlingTyped'
  BY <1>1, <1>2, <1>3 DEF HandlingTyped
<1>6. FlowDue' /\ CaughtWhereDue'
  BY <1>2, CalmIs DEF FlowDue, DueIn, HandlingInv, CaughtWhereDue
<1>7. PendingDue'
  <2>1. ASSUME NEW k \in 1..n PROVE DueIn(blocks', k - 1, blocks'[k].pending)
    <3>1. /\ DueIn(blocks, k - 1, blocks[k].pending) /\ blocks'[k] = blocks[k] /\ k - 1 \in Nat
          /\ \A j \in 1..(k - 1) : blocks'[j] = blocks[j]
      BY <1>1, <1>3 DEF HandlingInv, PendingDue
    <3>. QED
      BY <1>1, <3>1, DueInSame
  <2>2. DueIn(blocks', n, blocks'[n + 1].pending)
    BY <1>3, CalmIs DEF DueIn
  <2>3. n + 1 - 1 = n
    BY <1>1
  <2>. QED
    BY <1>3, <1>4, <2>1, <2>2, <2>3 DEF PendingDue
<1>8. PartsAgree'
  <2>1. Agrees(blocks'[n + 1])
    BY <1>3 DEF Agrees
  <2>. QED
    BY <1>3, <1>4, <2>1 DEF HandlingInv, PartsAgree
<1>9. FinallyExecuted'
  <2>1. /\ IsFiniteSet(Ahead) /\ Cardinality(Ahead) \in Nat /\ promised = kept + Cardinality(Ahead)
        /\ n + 1 \notin Ahead
    BY <1>1, <1>4, BlocksAre DEF HandlingInv, FinallyExecuted, Ahead
  <2>2. Ahead' = IF last THEN Ahead \cup {n + 1} ELSE Ahead
    <3>1. FinallyAhead(blocks'[n + 1]) <=> last
      BY <1>3 DEF FinallyAhead
    <3>. QED
      BY <1>3, <1>4, <3>1 DEF Ahead
  <2>3. Cardinality(Ahead') = Cardinality(Ahead) + (IF last THEN 1 ELSE 0)
    <3>1. Cardinality(Ahead \cup {n + 1}) = Cardinality(Ahead) + 1
      BY <2>1, FS_AddElement
    <3>. QED
      BY <2>1, <2>2, <3>1
  <2>4. {k \in DOMAIN blocks' : FinallyAhead(blocks'[k])} = Ahead'
    BY <1>3 DEF Ahead
  <2>5. FinallyExecuted' <=> promised' = kept' + Cardinality(Ahead')
    BY <2>4 DEF FinallyExecuted
  <2>6. PICK more \in {0, 1} : more = IF last THEN 1 ELSE 0
    OBVIOUS
  <2>7. /\ promised' = promised + more /\ kept' = kept /\ Cardinality(Ahead') = Cardinality(Ahead) + more
        /\ kept \in Nat
    BY <1>1, <1>2, <2>3, <2>6
  <2>8. promised' = kept' + Cardinality(Ahead')
    BY <2>1, <2>7
  <2>. QED
    BY <2>5, <2>8
<1>. QED
  BY <1>5, <1>6, <1>7, <1>8, <1>9 DEF HandlingInv

LEMMA FlowKeeps ==
  ASSUME HandlingInv, NEW f \in Flows, flow' = f, DueIn(blocks, Len(blocks), f),
         UNCHANGED <<blocks, tries, promised, kept, caught>>
  PROVE  HandlingInv'
<1>1. HandlingTyped' /\ FlowDue'
  BY DEF HandlingInv, HandlingTyped, FlowDue
<1>. QED
  BY <1>1 DEF HandlingInv, PendingDue, PartsAgree, FinallyExecuted, CaughtWhereDue

LEMMA CompleteKeeps ==
  ASSUME HandlingInv, Complete
  PROVE  HandlingInv'
<1>. DEFINE next == IF Innermost.part = "finally" THEN Innermost.pending ELSE Calm
            n    == Len(blocks)
<1>1. blocks # <<>> /\ Leaves(next) /\ UNCHANGED <<tries, promised, caught>>
  BY DEF Complete
<1>2. /\ n \in 1..n /\ n \in Nat /\ Innermost = blocks[n] /\ blocks[n] \in TryBlocks
      /\ blocks[n].pending \in Flows
  BY <1>1, BlocksAre DEF HandlingInv, TryBlocks
<1>3. next \in Flows /\ DueIn(blocks, n - 1, next)
  <2>1. DueIn(blocks, n - 1, blocks[n].pending)
    BY <1>2 DEF HandlingInv, PendingDue
  <2>2. DueIn(blocks, n - 1, Calm)
    BY CalmIs DEF DueIn
  <2>. QED
    BY <1>2, <2>1, <2>2, CalmIs
<1>4. Innermost.part = "finally" \/ Innermost.pending = Calm
  BY <1>2 DEF HandlingInv, PartsAgree, Agrees
<1>5. CaughtWhereDue'
  BY <1>1 DEF HandlingInv, CaughtWhereDue
<1>. QED
  <2>. HIDE DEF next
  <2>. QED
    BY <1>1, <1>3, <1>4, <1>5, LeavesKeep

\* The innermost block catches the error: it is the one at which it was due.
LEMMA CatchKeeps ==
  ASSUME HandlingInv, blocks # <<>>, Handles(Innermost), blocks' = Part("catch", Calm), flow' = Calm,
         caught' = [at |-> Len(blocks), due |-> flow.due], UNCHANGED <<tries, promised, kept>>
  PROVE  HandlingInv'
<1>. DEFINE n == Len(blocks)
<1>0. /\ HandlingTyped /\ n \in Nat \ {0} /\ n \in 1..n /\ Innermost = blocks[n] /\ blocks[n] \in TryBlocks
  BY BlocksAre DEF HandlingInv
<1>1. /\ \A k \in 1..n : k = n \/ k \in 1..(n - 1)
      /\ \A k \in 1..(n - 1) : k \in 1..n /\ k # n
  <2>. HIDE DEF n
  <2>. QED
    BY <1>0
<1>2. /\ blocks' \in Seq(TryBlocks) /\ Len(blocks') = n /\ \A k \in 1..(n - 1) : blocks'[k] = blocks[k]
      /\ blocks'[n].part = "catch" /\ blocks'[n].pending = Calm
      /\ blocks'[n].finally = Innermost.finally
  BY <1>0, CalmIs, PartIs
<1>3. HandlingTyped'
  BY <1>0, <1>2, CalmIs DEF HandlingTyped
<1>4. FlowDue'
  BY CalmIs DEF FlowDue, DueIn
<1>5. PendingDue'
  <2>1. \A k \in 1..(n - 1) : DueIn(blocks', k - 1, blocks'[k].pending)
    BY <1>2, LowerDue
  <2>2. DueIn(blocks', n - 1, Calm)
    BY CalmIs DEF DueIn
  <2>. QED
    BY <1>1, <1>2, <2>1, <2>2 DEF PendingDue
<1>6. PartsAgree'
  <2>1. \A k \in 1..(n - 1) : Agrees(blocks'[k])
    BY <1>1, <1>2 DEF PartsAgree, HandlingInv
  <2>2. Agrees(blocks'[n])
    BY <1>2 DEF Agrees
  <2>. QED
    BY <1>1, <1>2, <2>1, <2>2 DEF PartsAgree
<1>7. FinallyExecuted'
  <2>1. Innermost.part = "body"
    BY DEF Handles
  <2>2. Ahead' = Ahead
    BY <1>0, <1>1, <1>2, <2>1 DEF Ahead, FinallyAhead
  <2>3. {k \in DOMAIN blocks' : FinallyAhead(blocks'[k])} = Ahead'
    BY <1>2 DEF Ahead
  <2>4. promised = kept + Cardinality(Ahead)
    BY <1>0, BlocksAre DEF HandlingInv, FinallyExecuted
  <2>. QED
    BY <2>2, <2>3, <2>4 DEF FinallyExecuted
<1>8. CaughtWhereDue'
  <2>1. flow.is = "error" /\ May(blocks[n], flow.category)
    BY <1>0 DEF Handles, May
  <2>2. flow.due \in 0..n /\ \A k \in 1..n : k > flow.due => ~May(blocks[k], flow.category)
    BY <2>1 DEF HandlingInv, FlowDue, DueIn
  <2>3. flow.due = n
    BY <1>0, <2>1, <2>2
  <2>. QED
    BY <2>3 DEF CaughtWhereDue
<1>. QED
  BY <1>3, <1>4, <1>5, <1>6, <1>7, <1>8 DEF HandlingInv

LEMMA UnwindKeeps ==
  ASSUME HandlingInv, Unwind
  PROVE  HandlingInv'
<1>1. CASE Handles(Innermost)
  BY <1>1, CatchKeeps DEF Unwind
<1>2. CASE ~Handles(Innermost)
  <2>. DEFINE n == Len(blocks)
  <2>1. blocks # <<>> /\ Leaves(flow) /\ UNCHANGED <<tries, promised, caught>>
    BY <1>2 DEF Unwind
  <2>2. /\ n \in Nat \ {0} /\ n \in 1..n /\ Innermost = blocks[n] /\ flow \in Flows
    BY <2>1, BlocksAre DEF HandlingInv, HandlingTyped
  <2>3. flow.is = "error" => ~May(blocks[n], flow.category)
    BY <1>2, <2>2 DEF Handles, May
  <2>4. DueIn(blocks, n, flow)
    BY DEF HandlingInv, FlowDue
  <2>5. DueIn(blocks, n - 1, flow)
    <3>. HIDE DEF n
    <3>. QED
      BY <2>2, <2>3, <2>4, DueBelow
  <2>6. Innermost.part = "finally" \/ Innermost.pending = Calm
    BY <2>2 DEF HandlingInv, PartsAgree, Agrees
  <2>7. CaughtWhereDue'
    BY <2>1 DEF HandlingInv, CaughtWhereDue
  <2>. QED
    BY <2>1, <2>2, <2>5, <2>6, <2>7, LeavesKeep
<1>. QED
  BY <1>1, <1>2

LEMMA EscapeKeeps ==
  ASSUME HandlingInv, Escape
  PROVE  HandlingInv'
<1>1. UNCHANGED <<blocks, flow, tries, promised, kept>> /\ Len(blocks) = 0
  BY EmptySeq DEF Escape
<1>2. CaughtWhereDue'
  <2>1. flow.is = "error" => flow.due = 0
    BY <1>1 DEF HandlingInv, FlowDue, DueIn
  <2>. QED
    BY <2>1 DEF Escape, CaughtWhereDue, HandlingInv
<1>. QED
  BY <1>1, <1>2 DEF HandlingInv, HandlingTyped, FlowDue, PendingDue, PartsAgree, FinallyExecuted

\* However try, throw and return are nested in a body: every finally that was promised is
\* executed once or still ahead, and an error is caught by the innermost try block around
\* the statement that raised it that has a branch for it, or leaves the SEP if none has.
THEOREM HandlingAlwaysKept == HandlingSpec => []HandlingKept
<1>1. HandlingInit => HandlingInv
  <2>. SUFFICES ASSUME HandlingInit PROVE HandlingInv
    OBVIOUS
  <2>1. HandlingTyped /\ Len(blocks) = 0 /\ DOMAIN blocks = {}
    BY CalmIs, EmptySeq DEF HandlingInit, HandlingTyped
  <2>2. FlowDue
    BY CalmIs DEF HandlingInit, FlowDue, DueIn
  <2>3. FinallyExecuted
    <3>1. {k \in DOMAIN blocks : FinallyAhead(blocks[k])} = {}
      BY <2>1
    <3>. QED
      BY <3>1, FS_EmptySet DEF HandlingInit, FinallyExecuted
  <2>. QED
    BY <2>1, <2>2, <2>3 DEF HandlingInit, HandlingInv, PendingDue, PartsAgree, CaughtWhereDue
<1>2. HandlingInv /\ [HandlingNext]_handlingVars => HandlingInv'
  <2>. SUFFICES ASSUME HandlingInv, [HandlingNext]_handlingVars PROVE HandlingInv'
    OBVIOUS
  <2>1. ASSUME NEW category \in Categories, Throw(category) PROVE HandlingInv'
    BY <2>1, ErrorIsDue, FlowKeeps DEF Throw, HandlingInv
  <2>2. CASE ReturnStmt
    <3>1. DueIn(blocks, Len(blocks), Return)
      BY CalmIs DEF DueIn
    <3>. QED
      BY <2>2, <3>1, CalmIs, FlowKeeps DEF ReturnStmt
  <2>3. CASE UNCHANGED handlingVars
    BY <2>3 DEF handlingVars, HandlingInv, HandlingTyped, FlowDue, PendingDue, PartsAgree, FinallyExecuted,
       CaughtWhereDue
  <2>. QED
    BY <2>1, <2>2, <2>3, TryKeeps, CompleteKeeps, UnwindKeeps, EscapeKeeps DEF HandlingNext
<1>3. HandlingInv => HandlingKept
  <2>. SUFFICES ASSUME HandlingInv PROVE HandlingTypeOK
    BY DEF HandlingInv, HandlingKept
  <2>1. DOMAIN blocks = 1..Len(blocks) /\ Len(blocks) \in Nat /\ flow \in Flows
    BY BlocksAre DEF HandlingInv, HandlingTyped
  <2>2. flow.due <= Len(blocks)
    BY <2>1 DEF HandlingInv, FlowDue, DueIn
  <2>. QED
    BY <2>1, <2>2 DEF HandlingInv, PartsAgree, Agrees, HandlingTypeOK, Flows
<1>. QED
  BY <1>1, <1>2, <1>3, PTL DEF HandlingSpec

----------------------------------------------------------------------------
(* Imports: the stack of interpreters at work, and what they have run.     *)

Works    == [file : Files, next : Nat \ {0}]
Outcomes == {"none", "E701", "E705", "E100", "E210", "raised", "done"}
ImportsTyped ==
  /\ imports \in [Files -> Seq(Files)] /\ fault \in [Files -> Faults]
  /\ running \in Seq(Works) /\ importing \in Seq(Files) /\ cache \subseteq Files
  /\ ran \in Seq(Files) /\ outcome \in Outcomes

\* The interpreters at work are the root's and those of the files on the stack; all is
\* over when the program has ended.
AtWork ==
  /\ outcome = "none" => /\ Len(running) >= 1 /\ running[1].file = Root
                         /\ Len(importing) = Len(running) - 1
                         /\ \A k \in 1..Len(importing) : importing[k] = running[k + 1].file
  /\ outcome # "none" => Len(running) = 0 /\ Len(importing) = 0
OnStackOnce == \A j, k \in 1..Len(importing) : importing[j] = importing[k] => j = k
NotLoaded   == \A k \in 1..Len(importing) : importing[k] \notin cache

\* Each of them waits for the import of the one above it, and those before are loaded.
Waits ==
  \A k \in 1..(Len(running) - 1) :
    /\ running[k].next \in 1..Len(imports[running[k].file])
    /\ imports[running[k].file][running[k].next] = running[k + 1].file
BeforeLoaded ==
  \A k \in 1..Len(running) : \A j \in 1..Len(imports[running[k].file]) :
    j < running[k].next => imports[running[k].file][j] \in cache

\* A file is reached from every file below it.
ReachOf == [f \in Files |-> Reach(f)]
Chained ==
  \A j, k \in 1..Len(running) : j < k => running[k].file \in ReachOf[running[j].file]

\* The root may be imported, since it is not on the stack; but it comes no further than the
\* import it was left at.
RootWaits == \A k \in 2..Len(running) : running[k].file = Root => running[k].next <= running[1].next

\* What was run is what is loaded, and the root at last.
HasRun(f) == \E i \in 1..Len(ran) : ran[i] = f
RanLoaded == /\ outcome = "none" => Root \notin cache /\ \A f \in Files : f \in cache <=> HasRun(f)
             /\ outcome = "done" => HasRun(Root)
RanOnce   == \A i, j \in 1..Len(ran) : ran[i] = ran[j] => i = j
RanAfter  == \A i \in 1..Len(ran) : \A k \in 1..Len(imports[ran[i]]) :
               \E j \in 1..(i - 1) : ran[j] = imports[ran[i]][k]
RanReached == \A i \in 1..Len(ran) : ran[i] \in {Root} \cup ReachOf[Root]
RefusedCyclic == outcome = "E701" => \E f \in {Root} \cup ReachOf[Root] : f \in ReachOf[f]

ImportsInv == /\ ImportsTyped /\ AtWork /\ OnStackOnce /\ NotLoaded /\ Waits /\ BeforeLoaded /\ Chained
              /\ RootWaits /\ RanLoaded /\ RanOnce /\ RanAfter /\ RanReached /\ RefusedCyclic

LEMMA StackTypes ==
  ASSUME ImportsTyped
  PROVE  /\ Len(running) \in Nat /\ Len(importing) \in Nat /\ Len(ran) \in Nat /\ Root \in Files
         /\ DOMAIN running = 1..Len(running) /\ DOMAIN importing = 1..Len(importing)
         /\ DOMAIN ran = 1..Len(ran)
         /\ \A k \in 1..Len(running) : /\ running[k] \in Works
                                       /\ running[k].file \in Files
                                       /\ running[k].next \in Nat /\ running[k].next >= 1
         /\ \A k \in 1..Len(importing) : importing[k] \in Files
         /\ \A k \in 1..Len(ran) : ran[k] \in Files
<1>1. /\ Len(running) \in Nat /\ Len(importing) \in Nat /\ Len(ran) \in Nat
      /\ DOMAIN running = 1..Len(running) /\ DOMAIN importing = 1..Len(importing)
      /\ DOMAIN ran = 1..Len(ran)
  BY LenProperties DEF ImportsTyped
<1>2. /\ \A k \in 1..Len(running) : running[k] \in Works
      /\ \A k \in 1..Len(importing) : importing[k] \in Files
      /\ \A k \in 1..Len(ran) : ran[k] \in Files
  BY ElementOfSeq DEF ImportsTyped
<1>. QED
  BY <1>1, <1>2, ImportsAssumption DEF Works

LEMMA ListTypes ==
  ASSUME ImportsTyped, NEW f \in Files
  PROVE  /\ Len(imports[f]) \in Nat /\ DOMAIN imports[f] = 1..Len(imports[f])
         /\ \A j \in 1..Len(imports[f]) : imports[f][j] \in Files
         /\ \A g : g \in Targets(f) <=> \E j \in 1..Len(imports[f]) : imports[f][j] = g
<1>1. imports[f] \in Seq(Files)
  BY DEF ImportsTyped
<1>2. Len(imports[f]) \in Nat /\ DOMAIN imports[f] = 1..Len(imports[f])
  BY <1>1, LenProperties
<1>3. \A j \in 1..Len(imports[f]) : imports[f][j] \in Files
  BY <1>1, ElementOfSeq
<1>. QED
  BY <1>2, <1>3 DEF Targets, Range

----------------------------------------------------------------------------
\* What a file reaches.
LEMMA ReachDirect ==
  ASSUME ImportsTyped, NEW f \in Files, NEW j \in 1..Len(imports[f])
  PROVE  imports[f][j] \in ReachOf[f]
<1>1. imports[f][j] \in Files /\ imports[f][j] \in Targets(f)
  BY ListTypes
<1>2. imports[f][j] \in Reach(f)
  BY <1>1 DEF Reach
<1>. QED
  BY <1>2 DEF ReachOf

LEMMA ReachFurther ==
  ASSUME ImportsTyped, NEW f \in Files, NEW g \in ReachOf[f], NEW j \in 1..Len(imports[g])
  PROVE  g \in Files /\ imports[g][j] \in ReachOf[f]
<1>1. g \in Files /\ g \in Reach(f)
  BY DEF ReachOf, Reach
<1>2. imports[g][j] \in Files /\ imports[g][j] \in Targets(g)
  BY <1>1, ListTypes
<1>3. imports[g][j] \in Reach(f)
  BY <1>1, <1>2 DEF Reach, Closed
<1>. QED
  BY <1>1, <1>3 DEF ReachOf

LEMMA ReachLeast ==
  ASSUME NEW f \in Files, NEW set \in SUBSET Files, Targets(f) \subseteq set, Closed(set)
  PROVE  ReachOf[f] \subseteq set
  BY DEF ReachOf, Reach

LEMMA ReachSame ==
  ASSUME UNCHANGED imports
  PROVE  ReachOf' = ReachOf
  BY DEF ReachOf, Reach, Closed, Targets

----------------------------------------------------------------------------
(* The steps.                                                              *)

\* What was run is not touched while files are only opened or bound.
LEMMA RanSame ==
  ASSUME RanLoaded, RanOnce, RanAfter, RanReached, RefusedCyclic, ReachOf' = ReachOf,
         UNCHANGED <<imports, cache, ran, outcome>>
  PROVE  RanLoaded' /\ RanOnce' /\ RanAfter' /\ RanReached' /\ RefusedCyclic'
<1>1. imports' = imports /\ cache' = cache /\ ran' = ran /\ outcome' = outcome
  OBVIOUS
<1>2. RanLoaded'
  BY <1>1, Zenon DEF RanLoaded, HasRun
<1>3. RanOnce'
  BY <1>1, Zenon DEF RanOnce
<1>4. RanAfter'
  <2>1. SUFFICES ASSUME NEW i \in 1..Len(ran), NEW k \in 1..Len(imports[ran[i]])
                 PROVE  \E j \in 1..(i - 1) : ran[j] = imports[ran[i]][k]
    BY <1>1 DEF RanAfter
  <2>. QED
    BY DEF RanAfter
<1>5. RanReached'
  BY <1>1, Zenon DEF RanReached
<1>6. RefusedCyclic'
  BY <1>1, Zenon DEF RefusedCyclic
<1>. QED
  BY <1>2, <1>3, <1>4, <1>5, <1>6

LEMMA FailKeeps ==
  ASSUME ImportsInv, outcome = "none", NEW code \in Outcomes \ {"none", "done"}, Fail(code),
         code = "E701" => \E f \in {Root} \cup ReachOf[Root] : f \in ReachOf[f]
  PROVE  ImportsInv'
<1>1. /\ outcome' = code /\ running' = <<>> /\ importing' = <<>>
      /\ UNCHANGED <<imports, fault, cache, ran>>
  BY DEF Fail
<1>2. /\ running' \in Seq(Works) /\ importing' \in Seq(Files)
      /\ Len(running') = 0 /\ Len(importing') = 0
  BY <1>1, EmptySeq
<1>3. ReachOf' = ReachOf
  BY <1>1, ReachSame
<1>4. ImportsTyped'
  BY <1>1, <1>2 DEF ImportsInv, ImportsTyped
<1>5. AtWork' /\ OnStackOnce' /\ NotLoaded' /\ Waits' /\ BeforeLoaded' /\ Chained' /\ RootWaits'
  BY <1>1, <1>2 DEF AtWork, OnStackOnce, NotLoaded, Waits, BeforeLoaded, Chained, RootWaits
<1>6. RanLoaded' /\ RanOnce' /\ RanAfter' /\ RanReached'
  BY <1>1, <1>3 DEF ImportsInv, RanLoaded, RanOnce, RanAfter, RanReached, HasRun
<1>7. RefusedCyclic'
  BY <1>1, <1>3 DEF RefusedCyclic
<1>. QED
  BY <1>4, <1>5, <1>6, <1>7 DEF ImportsInv

\* The file whose import is next.
LEMMA NowIs ==
  ASSUME ImportsInv, running # <<>>
  PROVE  /\ outcome = "none" /\ Len(running) \in Nat /\ Len(running) >= 1
         /\ Len(running) \in 1..Len(running) /\ 1 \in 1..Len(running)
         /\ Now = running[Len(running)] /\ Now.file \in Files
         /\ Now.next \in Nat /\ Now.next >= 1
         /\ Len(imports[Now.file]) \in Nat
         /\ Len(importing) = Len(running) - 1
<1>1. Len(running) \in Nat /\ running \in Seq(Works)
  BY StackTypes DEF ImportsInv, ImportsTyped
<1>2. Len(running) # 0
  BY <1>1, EmptySeq
<1>3. outcome = "none" /\ Len(running) >= 1 /\ Len(importing) = Len(running) - 1
  BY <1>1, <1>2 DEF ImportsInv, AtWork
<1>4. Len(running) \in 1..Len(running) /\ 1 \in 1..Len(running)
  BY <1>1, <1>3
<1>5. /\ Now = running[Len(running)] /\ Now.file \in Files
      /\ Now.next \in Nat /\ Now.next >= 1
  BY <1>4, StackTypes DEF Now, Last, ImportsInv
<1>. QED
  BY <1>1, <1>3, <1>4, <1>5, ListTypes DEF ImportsInv

\* A file on the stack that is imported again reaches itself.
LEMMA CircleIsCyclic ==
  ASSUME ImportsInv, running # <<>>, NEW n \in 1..Len(imports[Now.file]),
         BeingImported(imports[Now.file][n])
  PROVE  \E f \in {Root} \cup ReachOf[Root] : f \in ReachOf[f]
<1>. DEFINE f == imports[Now.file][n]
<1>1. PICK j \in 1..Len(importing) : importing[j] = f
  BY StackTypes DEF BeingImported, Range, ImportsInv
<1>2. /\ running[j + 1].file = f /\ running[1].file = Root
      /\ Len(importing) = Len(running) - 1 /\ Len(running) \in Nat /\ Len(importing) \in Nat
  BY NowIs, StackTypes, <1>1 DEF ImportsInv, AtWork
<1>3. j + 1 \in 1..Len(running) /\ 1 < j + 1 /\ 1 \in 1..Len(running)
  BY <1>2
<1>4. f \in ReachOf[Root]
  BY <1>2, <1>3 DEF ImportsInv, Chained
<1>5. Now.file = f \/ Now.file \in ReachOf[f]
  <2>1. j + 1 = Len(running) \/ j + 1 < Len(running)
    BY <1>2, <1>3
  <2>2. Len(running) \in 1..Len(running) /\ Now = running[Len(running)]
    BY NowIs
  <2>3. ASSUME j + 1 < Len(running) PROVE running[Len(running)].file \in ReachOf[running[j + 1].file]
    BY <1>3, <2>2, <2>3 DEF ImportsInv, Chained
  <2>. HIDE DEF f
  <2>. QED
    BY <1>2, <2>1, <2>2, <2>3
<1>6. f \in ReachOf[f]
  <2>1. Now.file \in Files /\ f \in Files
    BY NowIs, ListTypes DEF ImportsInv
  <2>2. CASE Now.file = f
    <3>1. f \in ReachOf[Now.file]
      BY <2>1, ReachDirect DEF ImportsInv
    <3>. HIDE DEF f
    <3>. QED
      BY <2>2, <3>1
  <2>3. CASE Now.file \in ReachOf[f]
    <3>1. PICK g \in Files : g = f
      BY <2>1
    <3>2. imports[Now.file][n] \in ReachOf[g]
      BY <2>3, <3>1, ReachFurther DEF ImportsInv
    <3>. QED
      BY <3>1, <3>2
  <2>. QED
    BY <1>5, <2>2, <2>3
<1>. QED
  BY <1>4, <1>6

\* The import is done, since the module is loaded: its interpreter goes on to the next.
LEMMA BindKeeps ==
  ASSUME ImportsInv, running # <<>>, Now.next \in 1..Len(imports[Now.file]),
         imports[Now.file][Now.next] \in cache,
         running' = [running EXCEPT ![Len(running)].next = @ + 1],
         UNCHANGED <<imports, fault, importing, cache, ran, outcome>>
  PROVE  ImportsInv'
<1>. DEFINE n == Len(running)
<1>1. /\ outcome = "none" /\ n \in Nat /\ n >= 1 /\ n \in 1..n /\ 1 \in 1..n
      /\ Now = running[n] /\ Now.file \in Files /\ Now.next \in Nat /\ Now.next >= 1
      /\ Len(importing) = n - 1
  BY NowIs
<1>2. PICK changed : changed = [running[n] EXCEPT !.next = @ + 1]
  OBVIOUS
<1>3. running' = [running EXCEPT ![n] = changed]
  BY <1>2
<1>4. running[n] \in Works /\ running \in Seq(Works)
  BY <1>1, StackTypes DEF ImportsInv, ImportsTyped
<1>5. changed \in Works /\ changed.file = Now.file /\ changed.next = Now.next + 1
  BY <1>1, <1>2, <1>4 DEF Works
<1>6. /\ running' \in Seq(Works) /\ Len(running') = n
      /\ \A k \in 1..n : running'[k] = IF k = n THEN changed ELSE running[k]
  <2>1. n \in 1..Len(running) /\ n = Len(running)
    BY <1>1
  <2>. HIDE DEF n
  <2>2. /\ [running EXCEPT ![n] = changed] \in Seq(Works)
        /\ Len([running EXCEPT ![n] = changed]) = Len(running)
        /\ \A k \in 1..Len(running) :
             [running EXCEPT ![n] = changed][k] = IF k = n THEN changed ELSE running[k]
    BY <1>4, <1>5, <2>1, ExceptSeq
  <2>. QED
    BY <1>3, <2>1, <2>2
<1>. HIDE DEF n
<1>7. \A k \in 1..n : running'[k].file = running[k].file
  BY <1>1, <1>5, <1>6
<1>8. ReachOf' = ReachOf
  BY ReachSame
<1>9. ImportsTyped'
  BY <1>6 DEF ImportsInv, ImportsTyped
<1>10. AtWork'
  <2>1. \A k \in 1..Len(importing) : k + 1 \in 1..n
    BY <1>1, StackTypes DEF ImportsInv
  <2>. QED
    BY <1>1, <1>6, <1>7, <2>1 DEF ImportsInv, AtWork
<1>11. OnStackOnce' /\ NotLoaded'
  BY DEF ImportsInv, OnStackOnce, NotLoaded
<1>12. Waits'
  <2>1. ASSUME NEW k \in 1..(n - 1)
        PROVE  /\ running'[k].next \in 1..Len(imports[running'[k].file])
               /\ imports[running'[k].file][running'[k].next] = running'[k + 1].file
    <3>1. k \in 1..n /\ k # n /\ k + 1 \in 1..n
      BY <1>1
    <3>2. running'[k] = running[k] /\ running'[k + 1].file = running[k + 1].file
      BY <1>6, <1>7, <3>1
    <3>. QED
      BY <2>1, <3>2 DEF ImportsInv, Waits, n
  <2>. QED
    BY <1>6, <2>1 DEF Waits
<1>13. BeforeLoaded'
  <2>1. ASSUME NEW k \in 1..n, NEW j \in 1..Len(imports[running'[k].file]), j < running'[k].next
        PROVE  imports[running'[k].file][j] \in cache
    <3>1. running'[k].file = running[k].file
      BY <1>7
    <3>2. CASE j < running[k].next
      BY <2>1, <3>1, <3>2 DEF ImportsInv, BeforeLoaded, n
    <3>3. CASE ~(j < running[k].next)
      <4>1. k = n
        BY <1>6, <2>1, <3>3
      <4>2. running'[k].next = Now.next + 1 /\ running[k] = Now
        BY <1>1, <1>5, <1>6, <4>1
      <4>3. j \in Nat
        BY <3>1, ListTypes, StackTypes DEF ImportsInv, n
      <4>4. j = Now.next
        BY <1>1, <2>1, <3>3, <4>2, <4>3
      <4>. QED
        BY <3>1, <4>2, <4>4
    <3>. QED
      BY <3>2, <3>3
  <2>. QED
    BY <1>6, <2>1 DEF BeforeLoaded
<1>14. Chained'
  BY <1>6, <1>7, <1>8 DEF ImportsInv, Chained, n
<1>15. RootWaits'
  <2>1. ASSUME NEW k \in 2..n, running'[k].file = Root PROVE running'[k].next <= running'[1].next
    <3>1. /\ k \in 1..n /\ 1 # n /\ running'[1] = running[1]
          /\ running[k].file = Root /\ running[k].next <= running[1].next
          /\ running[k].next \in Nat /\ running[1].next \in Nat
      <4>1. k \in 1..n /\ 1 # n
        BY <1>1
      <4>2. running'[1] = running[1] /\ running[k].file = Root
        BY <1>1, <1>6, <1>7, <2>1, <4>1
      <4>3. running[k].next <= running[1].next
        BY <4>2 DEF ImportsInv, RootWaits, n
      <4>. QED
        BY <1>1, <4>1, <4>2, <4>3, StackTypes DEF ImportsInv, n
    <3>2. CASE k # n
      BY <1>6, <3>1, <3>2
    <3>3. CASE k = n
      <4>1. running'[k].next = Now.next + 1 /\ running[k] = Now
        BY <1>1, <1>5, <1>6, <3>3
      <4>2. Now.next # running[1].next
        <5>1. SUFFICES ASSUME Now.next = running[1].next PROVE FALSE
          OBVIOUS
        <5>2. running[1].file = Root /\ 1 \in 1..Len(importing) /\ 1 \in 1..(n - 1)
          BY <1>1, <3>1 DEF ImportsInv, AtWork
        <5>3. imports[Root][Now.next] = running[2].file
          <6>1. imports[running[1].file][running[1].next] = running[1 + 1].file
            BY <5>2 DEF ImportsInv, Waits, n
          <6>. QED
            BY <5>1, <5>2, <6>1
        <5>4. importing[1] = running[2].file
          <6>1. importing[1] = running[1 + 1].file
            BY <1>1, <5>2 DEF ImportsInv, AtWork
          <6>. QED
            BY <6>1
        <5>5. importing[1] \in cache
          BY <3>1, <4>1, <5>3, <5>4
        <5>. QED
          BY <5>2, <5>5 DEF ImportsInv, NotLoaded
      <4>. QED
        BY <1>1, <3>1, <4>1, <4>2
    <3>. QED
      BY <3>2, <3>3
  <2>. QED
    BY <1>6, <2>1 DEF RootWaits
<1>16. RanLoaded' /\ RanOnce' /\ RanAfter' /\ RanReached' /\ RefusedCyclic'
  BY <1>8, RanSame DEF ImportsInv
<1>. QED
  BY <1>9, <1>10, <1>11, <1>12, <1>13, <1>14, <1>15, <1>16 DEF ImportsInv

\* A file that is neither at work nor loaded gets an interpreter of its own.
LEMMA BeginKeeps ==
  ASSUME ImportsInv, running # <<>>, NEW m \in 1..Len(imports[Now.file]), m = Now.next,
         NEW file \in Files, file = imports[Now.file][m],
         ~BeingImported(file), file \notin cache,
         running' = Append(running, Work(file)), importing' = Append(importing, file),
         UNCHANGED <<imports, fault, cache, ran, outcome>>
  PROVE  ImportsInv'
<1>. DEFINE n == Len(running)
<1>1. /\ outcome = "none" /\ n \in Nat /\ n >= 1 /\ n \in 1..n /\ 1 \in 1..n
      /\ Now = running[n] /\ Now.file \in Files /\ Now.next \in Nat /\ Now.next >= 1
      /\ Len(importing) = n - 1
  BY NowIs
<1>2. PICK work : work = Work(file)
  OBVIOUS
<1>3. work \in Works /\ work.file = file /\ work.next = 1
  BY <1>2 DEF Work, Works
<1>4. running \in Seq(Works) /\ importing \in Seq(Files)
  BY DEF ImportsInv, ImportsTyped
<1>5. /\ running' \in Seq(Works) /\ Len(running') = n + 1
      /\ running'[n + 1] = work /\ \A k \in 1..n : running'[k] = running[k]
  BY <1>2, <1>3, <1>4, AppendProperties
<1>6. /\ importing' \in Seq(Files) /\ Len(importing') = n
      /\ importing'[n] = file /\ \A k \in 1..(n - 1) : importing'[k] = importing[k]
  <2>1. /\ Append(importing, file) \in Seq(Files) /\ Len(Append(importing, file)) = Len(importing) + 1
        /\ Append(importing, file)[Len(importing) + 1] = file
        /\ \A k \in 1..Len(importing) : Append(importing, file)[k] = importing[k]
    BY <1>4, AppendProperties
  <2>2. Len(importing) + 1 = n
    BY <1>1
  <2>. HIDE DEF n
  <2>. QED
    BY <1>1, <2>1, <2>2
<1>. HIDE DEF n
<1>7. ReachOf' = ReachOf
  BY ReachSame
<1>8. ImportsTyped'
  BY <1>5, <1>6 DEF ImportsInv, ImportsTyped
<1>9. AtWork'
  <2>1. running'[1].file = Root
    BY <1>1, <1>5 DEF ImportsInv, AtWork
  <2>2. ASSUME NEW k \in 1..n PROVE importing'[k] = running'[k + 1].file
    <3>1. CASE k = n
      BY <1>3, <1>5, <1>6, <3>1
    <3>2. CASE k # n
      <4>1. k \in 1..(n - 1) /\ k + 1 \in 1..n
        BY <1>1, <3>2
      <4>2. importing[k] = running[k + 1].file
        BY <1>1, <4>1 DEF ImportsInv, AtWork
      <4>. QED
        BY <1>5, <1>6, <4>1, <4>2
    <3>. QED
      BY <3>1, <3>2
  <2>3. Len(running') >= 1 /\ Len(importing') = n /\ Len(importing') = Len(running') - 1
    BY <1>1, <1>5, <1>6
  <2>4. outcome' = "none"
    BY <1>1
  <2>. QED
    BY <2>1, <2>2, <2>3, <2>4 DEF AtWork
<1>10. \A k \in 1..(n - 1) : importing[k] # file
  BY <1>1, StackTypes DEF BeingImported, Range, ImportsInv
<1>11. OnStackOnce'
  <2>1. ASSUME NEW j \in 1..n, NEW k \in 1..n, importing'[j] = importing'[k] PROVE j = k
    <3>1. (j = n \/ j \in 1..(n - 1)) /\ (k = n \/ k \in 1..(n - 1))
      BY <1>1
    <3>2. CASE j \in 1..(n - 1) /\ k \in 1..(n - 1)
      BY <1>1, <1>6, <2>1, <3>2 DEF ImportsInv, OnStackOnce
    <3>. QED
      BY <1>6, <1>10, <2>1, <3>1, <3>2
  <2>. QED
    BY <1>6, <2>1 DEF OnStackOnce
<1>12. NotLoaded'
  <2>1. ASSUME NEW k \in 1..n PROVE importing'[k] \notin cache
    <3>1. k = n \/ k \in 1..(n - 1)
      BY <1>1
    <3>. QED
      BY <1>1, <1>6, <3>1 DEF ImportsInv, NotLoaded
  <2>. QED
    BY <1>6, <2>1 DEF NotLoaded
<1>13. Waits'
  <2>1. ASSUME NEW k \in 1..n
        PROVE  /\ running'[k].next \in 1..Len(imports[running'[k].file])
               /\ imports[running'[k].file][running'[k].next] = running'[k + 1].file
    <3>1. CASE k = n
      BY <1>1, <1>3, <1>5, <3>1
    <3>2. CASE k # n
      <4>1. k \in 1..(n - 1) /\ k + 1 \in 1..n
        BY <1>1, <3>2
      <4>2. running'[k] = running[k] /\ running'[k + 1] = running[k + 1]
        BY <1>5, <4>1
      <4>. QED
        BY <4>1, <4>2 DEF ImportsInv, Waits, n
    <3>. QED
      BY <3>1, <3>2
  <2>2. Len(running') - 1 = n
    BY <1>1, <1>5
  <2>. QED
    BY <2>1, <2>2 DEF Waits
<1>14. \A k \in 1..(n + 1) : k \in 1..n \/ k = n + 1
  BY <1>1
<1>15. BeforeLoaded'
  <2>1. ASSUME NEW k \in 1..(n + 1), NEW j \in 1..Len(imports[running'[k].file]), j < running'[k].next
        PROVE  imports[running'[k].file][j] \in cache
    <3>1. CASE k \in 1..n
      BY <1>5, <2>1, <3>1 DEF ImportsInv, BeforeLoaded, n
    <3>2. CASE k = n + 1
      BY <1>3, <1>5, <2>1, <3>2
    <3>. QED
      BY <1>14, <3>1, <3>2
  <2>. QED
    BY <1>5, <2>1 DEF BeforeLoaded
<1>16. Chained'
  <2>1. ASSUME NEW j \in 1..(n + 1), NEW k \in 1..(n + 1), j < k
        PROVE  running'[k].file \in ReachOf[running'[j].file]
    <3>1. CASE k \in 1..n
      <4>1. j \in 1..n
        BY <1>1, <2>1, <3>1
      <4>. QED
        BY <1>5, <2>1, <3>1, <4>1 DEF ImportsInv, Chained, n
    <3>2. CASE k = n + 1
      <4>1. j \in 1..n /\ (j = n \/ j < n)
        BY <1>1, <2>1, <3>2
      <4>2. running'[k].file = file /\ running'[j] = running[j]
        BY <1>3, <1>5, <3>2, <4>1
      <4>3. CASE j = n
        <5>1. imports[Now.file][m] \in ReachOf[Now.file]
          BY <1>1, ReachDirect DEF ImportsInv
        <5>. QED
          BY <1>1, <4>2, <4>3, <5>1
      <4>4. CASE j < n
        <5>1. running[n].file \in ReachOf[running[j].file]
          BY <1>1, <4>1, <4>4 DEF ImportsInv, Chained, n
        <5>2. running[j].file \in Files
          BY <4>1, StackTypes DEF ImportsInv, n
        <5>3. imports[Now.file][m] \in ReachOf[running[j].file]
          BY <1>1, <5>1, <5>2, ReachFurther DEF ImportsInv
        <5>. QED
          BY <4>2, <5>3
      <4>. QED
        BY <4>1, <4>3, <4>4
    <3>. QED
      BY <1>14, <3>1, <3>2
  <2>. QED
    BY <1>5, <1>7, <2>1 DEF Chained
<1>17. RootWaits'
  <2>1. running'[1].next \in Nat /\ running'[1].next >= 1 /\ running'[1] = running[1]
    BY <1>1, <1>5, StackTypes DEF ImportsInv, n
  <2>2. ASSUME NEW k \in 2..(n + 1), running'[k].file = Root PROVE running'[k].next <= running'[1].next
    <3>1. k \in 2..n \/ k = n + 1
      BY <1>1
    <3>2. CASE k \in 2..n
      <4>1. k \in 1..n
        BY <1>1, <3>2
      <4>. QED
        BY <1>5, <2>1, <2>2, <3>2, <4>1 DEF ImportsInv, RootWaits, n
    <3>3. CASE k = n + 1
      BY <1>3, <1>5, <2>1, <3>3
    <3>. QED
      BY <3>1, <3>2, <3>3
  <2>. QED
    BY <1>5, <2>2 DEF RootWaits
<1>18. RanLoaded' /\ RanOnce' /\ RanAfter' /\ RanReached' /\ RefusedCyclic'
  BY <1>7, RanSame DEF ImportsInv
<1>. QED
  BY <1>8, <1>9, <1>11, <1>12, <1>13, <1>15, <1>16, <1>17, <1>18 DEF ImportsInv

\* All of an import.
LEMMA ImportKeeps ==
  ASSUME ImportsInv, Import
  PROVE  ImportsInv'
<1>1. running # <<>> /\ Now.next <= Len(imports[Now.file])
  BY DEF Import
<1>2. PICK file : file = imports[Now.file][Now.next]
  OBVIOUS
<1>3. /\ outcome = "none" /\ Now.file \in Files /\ Now.next \in 1..Len(imports[Now.file])
      /\ file \in Files
  <2>1. outcome = "none" /\ Now.file \in Files /\ Now.next \in 1..Len(imports[Now.file])
    BY <1>1, NowIs
  <2>. QED
    BY <1>2, <2>1, ListTypes DEF ImportsInv
<1>4. CASE BeingImported(file)
  <2>1. Fail("E701")
    BY <1>2, <1>4 DEF Import
  <2>2. \E f \in {Root} \cup ReachOf[Root] : f \in ReachOf[f]
    BY <1>1, <1>2, <1>3, <1>4, CircleIsCyclic
  <2>. QED
    BY <1>3, <2>1, <2>2, FailKeeps DEF Outcomes
<1>5. CASE ~BeingImported(file) /\ file \in cache
  <2>1. BindAlias
    BY <1>2, <1>5 DEF Import
  <2>2. CASE fault[Now.file] = "clash" /\ Now.next > 1
    <3>1. Fail("E210")
      BY <2>1, <2>2 DEF BindAlias
    <3>. QED
      BY <1>3, <3>1, FailKeeps DEF Outcomes
  <2>3. CASE ~(fault[Now.file] = "clash" /\ Now.next > 1)
    <3>1. /\ running' = [running EXCEPT ![Len(running)].next = @ + 1]
          /\ UNCHANGED <<imports, fault, importing, cache, ran, outcome>>
      BY <2>1, <2>3 DEF BindAlias
    <3>. QED
      BY <1>1, <1>2, <1>3, <1>5, <3>1, BindKeeps
  <2>. QED
    BY <2>2, <2>3
<1>6. CASE ~BeingImported(file) /\ file \notin cache
  <2>1. Begin(file)
    BY <1>2, <1>6 DEF Import
  <2>2. CASE fault[file] \in {"unreadable", "refused"}
    <3>1. Fail("E100") \/ Fail("E705")
      BY <2>1, <2>2 DEF Begin
    <3>. QED
      BY <1>3, <3>1, FailKeeps DEF Outcomes
  <2>3. CASE ~(fault[file] \in {"unreadable", "refused"})
    <3>1. /\ running' = Append(running, Work(file)) /\ importing' = Append(importing, file)
          /\ UNCHANGED <<imports, fault, cache, ran, outcome>>
      BY <2>1, <2>3 DEF Begin
    <3>. QED
      BY <1>1, <1>2, <1>3, <1>6, <3>1, BeginKeeps
  <2>. QED
    BY <2>2, <2>3
<1>. QED
  BY <1>4, <1>5, <1>6

\* A sequence that loses its last member.
LEMMA LosesLast ==
  ASSUME NEW S, NEW s \in Seq(S), s # <<>>
  PROVE  /\ Front(s) \in Seq(S) /\ Len(Front(s)) = Len(s) - 1
         /\ \A k \in 1..(Len(s) - 1) : Front(s)[k] = s[k]
<1>. DEFINE n == Len(s)
<1>1. n \in Nat /\ n >= 1 /\ \A k \in 1..n : s[k] \in S
  BY EmptySeq, LenProperties, ElementOfSeq
<1>2. \A k \in 1..(n - 1) : s[k] \in S
  BY <1>1
<1>3. /\ SubSeq(s, 1, n - 1) \in Seq(S)
      /\ Len(SubSeq(s, 1, n - 1)) = IF 1 <= n - 1 THEN n - 1 - 1 + 1 ELSE 0
      /\ \A k \in 1..(n - 1 - 1 + 1) : SubSeq(s, 1, n - 1)[k] = s[1 + k - 1]
  <2>. HIDE DEF n
  <2>. QED
    BY <1>1, <1>2, SubSeqProperties
<1>4. /\ n - 1 - 1 + 1 = n - 1 /\ (IF 1 <= n - 1 THEN n - 1 - 1 + 1 ELSE 0) = n - 1
      /\ \A k \in 1..(n - 1) : 1 + k - 1 = k
  <2>. HIDE DEF n
  <2>. QED
    BY <1>1
<1>. QED
  BY <1>3, <1>4 DEF Front

\* What was executed when a file is: all it imports, and not the file itself.
LEMMA RanGrows ==
  ASSUME ImportsInv, running # <<>>, Now.next > Len(imports[Now.file]),
         ran' = Append(ran, Now.file), UNCHANGED imports
  PROVE  /\ ran' \in Seq(Files) /\ RanOnce' /\ RanAfter' /\ RanReached'
         /\ Now.file \notin cache
         /\ \A f : HasRun(f)' <=> HasRun(f) \/ f = Now.file
<1>. DEFINE n == Len(running)
            m == Len(ran)
<1>1. /\ outcome = "none" /\ n \in Nat /\ n >= 1 /\ n \in 1..n /\ 1 \in 1..n
      /\ Now = running[n] /\ Now.file \in Files /\ Now.next \in Nat
      /\ Len(imports[Now.file]) \in Nat /\ Len(importing) = n - 1
  BY NowIs
<1>2. m \in Nat /\ ran \in Seq(Files)
  BY StackTypes DEF ImportsInv, ImportsTyped
<1>3. PICK file \in Files : file = Now.file
  BY <1>1
<1>4. /\ ran' \in Seq(Files) /\ Len(ran') = m + 1 /\ ran'[m + 1] = file
      /\ \A k \in 1..m : ran'[k] = ran[k]
  BY <1>2, <1>3, AppendProperties
<1>5. file \notin cache
  <2>1. CASE n = 1
    BY <1>1, <1>3, <2>1 DEF ImportsInv, AtWork, RanLoaded, n
  <2>2. CASE n # 1
    <3>1. n - 1 \in 1..Len(importing) /\ n - 1 + 1 = n
      <4>. HIDE DEF n
      <4>. QED
        BY <1>1, <2>2
    <3>2. importing[n - 1] = running[n].file
      <4>1. importing[n - 1] = running[n - 1 + 1].file
        BY <1>1, <3>1 DEF ImportsInv, AtWork
      <4>. QED
        BY <3>1, <4>1
    <3>. QED
      BY <1>1, <1>3, <3>1, <3>2 DEF ImportsInv, NotLoaded
  <2>. QED
    BY <2>1, <2>2
<1>. HIDE DEF n, m
<1>6. \A k \in 1..(m + 1) : k \in 1..m \/ k = m + 1
  BY <1>2
<1>7. \A k \in 1..m : k \in 1..(m + 1)
  BY <1>2
<1>8. m + 1 \in 1..(m + 1)
  BY <1>2
<1>9. \A i \in 1..m : ran[i] # file
  BY <1>1, <1>3, <1>5 DEF ImportsInv, RanLoaded, HasRun, m
<1>10. RanOnce'
  <2>1. ASSUME NEW i \in 1..(m + 1), NEW j \in 1..(m + 1), ran'[i] = ran'[j] PROVE i = j
    <3>1. CASE i \in 1..m /\ j \in 1..m
      BY <1>4, <2>1, <3>1 DEF ImportsInv, RanOnce, m
    <3>. QED
      BY <1>4, <1>6, <1>9, <2>1, <3>1
  <2>. QED
    BY <1>4, <2>1 DEF RanOnce
<1>11. RanAfter'
  <2>1. ASSUME NEW i \in 1..(m + 1), NEW k \in 1..Len(imports[ran'[i]])
        PROVE  \E j \in 1..(i - 1) : ran'[j] = imports[ran'[i]][k]
    <3>1. CASE i \in 1..m
      <4>1. ran'[i] = ran[i]
        BY <1>4, <3>1
      <4>2. PICK j \in 1..(i - 1) : ran[j] = imports[ran[i]][k]
        BY <2>1, <3>1, <4>1 DEF ImportsInv, RanAfter, m
      <4>3. j \in 1..m
        BY <1>2, <3>1, <4>2
      <4>. QED
        BY <1>4, <4>1, <4>2, <4>3
    <3>2. CASE i = m + 1
      <4>1. ran'[i] = file
        BY <1>4, <3>2
      <4>2. k \in 1..Len(imports[file]) /\ k < Now.next /\ imports[file][k] \in Files
        <5>1. k \in 1..Len(imports[file])
          BY <4>1
        <5>. QED
          BY <1>1, <1>3, <5>1, ListTypes DEF ImportsInv
      <4>3. imports[file][k] \in cache
        BY <1>1, <1>3, <4>2 DEF ImportsInv, BeforeLoaded, n
      <4>4. PICK j \in 1..m : ran[j] = imports[file][k]
        BY <1>1, <4>2, <4>3 DEF ImportsInv, RanLoaded, HasRun, m
      <4>5. j \in 1..(i - 1)
        BY <1>2, <3>2, <4>4
      <4>. QED
        BY <1>4, <4>1, <4>4, <4>5
    <3>. QED
      BY <1>6, <3>1, <3>2
  <2>. QED
    BY <1>4, <2>1 DEF RanAfter
<1>12. RanReached'
  <2>1. file \in {Root} \cup ReachOf[Root]
    <3>1. running[1].file = Root
      BY <1>1 DEF ImportsInv, AtWork, n
    <3>2. CASE n = 1
      BY <1>1, <1>3, <3>1, <3>2
    <3>3. CASE n # 1
      <4>1. 1 < n
        BY <1>1, <3>3
      <4>. QED
        BY <1>1, <1>3, <3>1, <4>1 DEF ImportsInv, Chained, n
    <3>. QED
      BY <3>2, <3>3
  <2>2. ReachOf' = ReachOf
    BY ReachSame
  <2>3. \A i \in 1..(m + 1) : ran'[i] \in {Root} \cup ReachOf[Root]
    BY <1>4, <1>6, <2>1 DEF ImportsInv, RanReached, m
  <2>. QED
    BY <1>4, <2>2, <2>3 DEF RanReached
<1>13. \A f : HasRun(f)' <=> HasRun(f) \/ f = Now.file
  <2>1. ASSUME NEW f
        PROVE  (\E i \in 1..(m + 1) : ran'[i] = f) <=> (\E i \in 1..m : ran[i] = f) \/ f = file
    BY <1>4, <1>6, <1>7, <1>8
  <2>. QED
    BY <1>3, <1>4, <2>1 DEF HasRun, m
<1>. QED
  BY <1>3, <1>4, <1>5, <1>10, <1>11, <1>12, <1>13

\* The statements of the root: the program has ended.
LEMMA RootEnds ==
  ASSUME ImportsInv, running # <<>>, Len(running) = 1, Now.next > Len(imports[Now.file]),
         ran' = Append(ran, Now.file), running' = Front(running), outcome' = "done",
         UNCHANGED <<imports, fault, importing, cache>>
  PROVE  ImportsInv'
<1>1. /\ outcome = "none" /\ Now = running[1] /\ Len(importing) = 0
      /\ Now.file = Root
  <2>1. outcome = "none" /\ Now = running[1] /\ Len(importing) = Len(running) - 1
    BY NowIs
  <2>. QED
    BY <2>1 DEF ImportsInv, AtWork
<1>2. running' \in Seq(Works) /\ Len(running') = 0
  <2>1. running \in Seq(Works)
    BY DEF ImportsInv, ImportsTyped
  <2>2. Front(running) \in Seq(Works) /\ Len(Front(running)) = Len(running) - 1
    BY <2>1, LosesLast
  <2>. QED
    BY <2>2
<1>3. /\ ran' \in Seq(Files) /\ RanOnce' /\ RanAfter' /\ RanReached'
      /\ \A f : HasRun(f)' <=> HasRun(f) \/ f = Now.file
  BY RanGrows
<1>4. ImportsTyped'
  BY <1>2, <1>3 DEF ImportsInv, ImportsTyped, Outcomes
<1>5. AtWork' /\ OnStackOnce' /\ NotLoaded' /\ Waits' /\ BeforeLoaded' /\ Chained' /\ RootWaits'
  BY <1>1, <1>2 DEF AtWork, OnStackOnce, NotLoaded, Waits, BeforeLoaded, Chained, RootWaits
<1>6. RanLoaded' /\ RefusedCyclic'
  <2>1. HasRun(Root)'
    BY <1>1, <1>3
  <2>. QED
    BY <2>1 DEF RanLoaded, RefusedCyclic
<1>. QED
  BY <1>3, <1>4, <1>5, <1>6 DEF ImportsInv

\* The statements of a module: it is loaded, and the one below goes on.
LEMMA ModuleEnds ==
  ASSUME ImportsInv, running # <<>>, Len(running) # 1, Now.next > Len(imports[Now.file]),
         ran' = Append(ran, Now.file), running' = Front(running),
         cache' = cache \cup {Now.file}, importing' = Front(importing),
         UNCHANGED <<imports, fault, outcome>>
  PROVE  ImportsInv'
<1>. DEFINE n == Len(running)
<1>1. /\ outcome = "none" /\ n \in Nat /\ n > 1 /\ n \in 1..n /\ 1 \in 1..n
      /\ Now = running[n] /\ Now.file \in Files /\ Now.next \in Nat
      /\ Len(imports[Now.file]) \in Nat /\ Len(importing) = n - 1
  BY NowIs
<1>2. PICK file \in Files : file = Now.file
  BY <1>1
<1>3. running \in Seq(Works) /\ importing \in Seq(Files)
  BY DEF ImportsInv, ImportsTyped
<1>4. /\ running' \in Seq(Works) /\ Len(running') = n - 1
      /\ \A k \in 1..(n - 1) : running'[k] = running[k]
  BY <1>3, LosesLast
<1>5. /\ importing' \in Seq(Files) /\ Len(importing') = n - 1 - 1
      /\ \A k \in 1..(n - 1 - 1) : importing'[k] = importing[k]
  <2>1. importing # <<>>
    BY <1>1, EmptySeq
  <2>2. /\ Front(importing) \in Seq(Files) /\ Len(Front(importing)) = Len(importing) - 1
        /\ \A k \in 1..(Len(importing) - 1) : Front(importing)[k] = importing[k]
    BY <1>3, <2>1, LosesLast
  <2>. HIDE DEF n
  <2>. QED
    BY <1>1, <2>2
<1>6. /\ ran' \in Seq(Files) /\ RanOnce' /\ RanAfter' /\ RanReached'
      /\ \A f : HasRun(f)' <=> HasRun(f) \/ f = file
  BY <1>2, RanGrows
<1>. HIDE DEF n
<1>7. /\ \A k \in 1..(n - 1) : k \in 1..n
      /\ \A k \in 1..(n - 1 - 1) : k \in 1..(n - 1) /\ k + 1 \in 1..(n - 1) /\ k # n - 1
      /\ n - 1 \in 1..(n - 1) /\ 1 \in 1..(n - 1) /\ n - 1 + 1 = n /\ n - 1 >= 1
  BY <1>1
<1>8. ReachOf' = ReachOf
  BY ReachSame
<1>9. importing[n - 1] = file
  <2>1. importing[n - 1] = running[n - 1 + 1].file
    BY <1>1, <1>7 DEF ImportsInv, AtWork
  <2>. QED
    BY <1>1, <1>2, <1>7, <2>1
<1>10. file # Root
  <2>1. SUFFICES ASSUME file = Root PROVE FALSE
    OBVIOUS
  <2>2. n \in 2..n
    BY <1>1
  <2>3. running[n].next <= running[1].next
    BY <1>1, <1>2, <2>1, <2>2 DEF ImportsInv, RootWaits, n
  <2>4. running[1].file = Root /\ running[1].next \in 1..Len(imports[Root])
    <3>1. running[1].file = Root
      BY <1>1 DEF ImportsInv, AtWork, n
    <3>. QED
      BY <1>7, <3>1 DEF ImportsInv, Waits, n
  <2>. QED
    BY <1>1, <1>2, <2>1, <2>3, <2>4
<1>11. ImportsTyped'
  BY <1>2, <1>4, <1>5, <1>6 DEF ImportsInv, ImportsTyped
<1>12. AtWork'
  <2>1. running'[1].file = Root
    BY <1>1, <1>4, <1>7 DEF ImportsInv, AtWork
  <2>2. \A k \in 1..(n - 1 - 1) : importing'[k] = running'[k + 1].file
    BY <1>1, <1>4, <1>5, <1>7 DEF ImportsInv, AtWork
  <2>. QED
    BY <1>1, <1>4, <1>5, <1>7, <2>1, <2>2 DEF AtWork
<1>13. OnStackOnce'
  BY <1>1, <1>5, <1>7 DEF ImportsInv, OnStackOnce
<1>14. NotLoaded'
  <2>1. \A k \in 1..(n - 1 - 1) : importing[k] # file
    BY <1>1, <1>7, <1>9 DEF ImportsInv, OnStackOnce
  <2>2. \A k \in 1..(n - 1 - 1) : importing'[k] \notin cache'
    BY <1>1, <1>2, <1>5, <1>7, <2>1 DEF ImportsInv, NotLoaded
  <2>. QED
    BY <1>5, <2>2 DEF NotLoaded
<1>15. Waits'
  <2>1. \A k \in 1..(n - 1 - 1) :
          /\ running'[k].next \in 1..Len(imports[running'[k].file])
          /\ imports[running'[k].file][running'[k].next] = running'[k + 1].file
    BY <1>1, <1>4, <1>7 DEF ImportsInv, Waits, n
  <2>. QED
    BY <1>4, <2>1 DEF Waits
<1>16. BeforeLoaded'
  <2>1. \A k \in 1..(n - 1) : \A j \in 1..Len(imports[running'[k].file]) :
          j < running'[k].next => imports[running'[k].file][j] \in cache'
    BY <1>4, <1>7 DEF ImportsInv, BeforeLoaded, n
  <2>. QED
    BY <1>4, <2>1 DEF BeforeLoaded
<1>17. Chained'
  BY <1>4, <1>7, <1>8 DEF ImportsInv, Chained, n
<1>18. RootWaits'
  <2>1. ASSUME NEW k \in 2..(n - 1), running'[k].file = Root PROVE running'[k].next <= running'[1].next
    <3>1. k \in 1..(n - 1) /\ k \in 2..n
      BY <1>1
    <3>. QED
      BY <1>4, <1>7, <2>1, <3>1 DEF ImportsInv, RootWaits, n
  <2>. QED
    BY <1>4, <2>1 DEF RootWaits
<1>19. RanLoaded'
  <2>1. outcome' = "none" /\ Root \notin cache'
    BY <1>1, <1>2, <1>10 DEF ImportsInv, RanLoaded
  <2>2. \A f \in Files : f \in cache' <=> HasRun(f)'
    BY <1>1, <1>2, <1>6 DEF ImportsInv, RanLoaded
  <2>. QED
    BY <2>1, <2>2 DEF RanLoaded
<1>20. RefusedCyclic'
  BY <1>1 DEF RefusedCyclic
<1>. QED
  BY <1>6, <1>11, <1>12, <1>13, <1>14, <1>15, <1>16, <1>17, <1>18, <1>19, <1>20 DEF ImportsInv

LEMMA StatementsKeep ==
  ASSUME ImportsInv, Statements
  PROVE  ImportsInv'
<1>1. running # <<>> /\ Now.next > Len(imports[Now.file])
  BY DEF Statements
<1>2. CASE fault[Now.file] = "raises"
  <2>1. Fail("raised")
    BY <1>2 DEF Statements
  <2>. QED
    BY <1>1, <2>1, NowIs, FailKeeps DEF Outcomes
<1>3. CASE fault[Now.file] # "raises"
  <2>1. CASE Len(running) = 1
    BY <1>1, <1>3, <2>1, RootEnds DEF Statements
  <2>2. CASE Len(running) # 1
    BY <1>1, <1>3, <2>2, ModuleEnds DEF Statements, Loaded
  <2>. QED
    BY <2>1, <2>2
<1>. QED
  BY <1>2, <1>3

LEMMA ImportsStart == ImportsInit => ImportsInv
<1>. SUFFICES ASSUME ImportsInit PROVE ImportsInv
  OBVIOUS
<1>1. PICK work : work = Work(Root)
  OBVIOUS
<1>2. work \in Works /\ work.file = Root /\ work.next = 1
  BY <1>1, ImportsAssumption DEF Work, Works
<1>3. running = <<work>> /\ importing = <<>> /\ cache = {} /\ ran = <<>> /\ outcome = "none"
  BY <1>1 DEF ImportsInit
<1>4. running \in Seq(Works) /\ Len(running) = 1 /\ running[1] = work
  BY <1>2, <1>3
<1>5. importing \in Seq(Files) /\ Len(importing) = 0 /\ ran \in Seq(Files) /\ Len(ran) = 0
  BY <1>3, EmptySeq
<1>6. imports \in [Files -> Seq(Files)]
  <2>1. imports \in [Files -> ImportLists]
    BY DEF ImportsInit
  <2>2. ImportLists \subseteq Seq(Files)
    BY ImportsAssumption DEF ImportLists
  <2>. QED
    BY <2>1, <2>2
<1>7. ImportsTyped
  BY <1>3, <1>4, <1>5, <1>6 DEF ImportsInit, ImportsTyped, Outcomes
<1>8. AtWork /\ OnStackOnce /\ NotLoaded /\ Waits /\ BeforeLoaded /\ Chained /\ RootWaits
  BY <1>2, <1>3, <1>4, <1>5 DEF AtWork, OnStackOnce, NotLoaded, Waits, BeforeLoaded, Chained, RootWaits
<1>9. RanLoaded /\ RanOnce /\ RanAfter /\ RanReached /\ RefusedCyclic
  BY <1>3, <1>5 DEF RanLoaded, RanOnce, RanAfter, RanReached, RefusedCyclic, HasRun
<1>. QED
  BY <1>7, <1>8, <1>9 DEF ImportsInv

----------------------------------------------------------------------------
(* What the invariant says of the stack, the order and the circles.        *)

LEMMA StackIsSound ==
  ASSUME ImportsInv
  PROVE  ImportsTypeOK
<1>1. /\ Len(running) \in Nat /\ Len(importing) \in Nat /\ DOMAIN importing = 1..Len(importing)
      /\ \A k \in 1..Len(importing) : importing[k] \in Files
  BY StackTypes DEF ImportsInv
<1>2. importing \in [1..Len(importing) -> Files]
  <2>1. importing \in Seq(Files)
    BY DEF ImportsInv, ImportsTyped
  <2>. QED
    BY <2>1, LenProperties
<1>3. IsInjective(importing)
  BY <1>1 DEF IsInjective, ImportsInv, OnStackOnce
<1>4. Range(importing) \cap cache = {}
  BY <1>1 DEF Range, ImportsInv, NotLoaded
<1>5. outcome = "none" => importing = [k \in 1..Len(running) - 1 |-> running[k + 1].file]
  <2>. SUFFICES ASSUME outcome = "none" PROVE importing = [k \in 1..Len(running) - 1 |-> running[k + 1].file]
    OBVIOUS
  <2>1. Len(importing) = Len(running) - 1 /\ \A k \in 1..Len(importing) : importing[k] = running[k + 1].file
    BY DEF ImportsInv, AtWork
  <2>. QED
    BY <1>2, <2>1
<1>6. Len(importing) <= Cardinality(Files)
  <2>1. importing \in Injection(1..Len(importing), Files)
    BY <1>2, <1>3 DEF Injection
  <2>2. Cardinality(1..Len(importing)) <= Cardinality(Files)
    BY <2>1, ImportsAssumption, FS_Injection
  <2>3. Len(importing) \in Int
    BY <1>1
  <2>4. PICK m \in Int : m = Len(importing)
    BY <2>3, Zenon
  <2>5. Cardinality(1..m) = IF 1 > m THEN 0 ELSE m - 1 + 1
    BY FS_Interval
  <2>. QED
    BY <1>1, <2>2, <2>4, <2>5
<1>7. Len(running) <= Cardinality(Files) + 1
  <2>1. Cardinality(Files) \in Nat
    BY ImportsAssumption, FS_CardinalityType
  <2>2. Len(running) = 0 \/ Len(importing) = Len(running) - 1
    <3>1. CASE outcome = "none"
      BY <3>1 DEF ImportsInv, AtWork
    <3>2. CASE outcome # "none"
      BY <3>2 DEF ImportsInv, AtWork
    <3>. QED
      BY <3>1, <3>2
  <2>. QED
    BY <1>1, <1>6, <2>1, <2>2
<1>. QED
  BY <1>3, <1>4, <1>5, <1>7 DEF ImportsTypeOK

\* The files executed before a place; with that, what they import.
Before(i) == {ran[j] : j \in 1..(i - 1)}

LEMMA BeforeIsClosed ==
  ASSUME ImportsInv, NEW i \in 1..(Len(ran) + 1)
  PROVE  /\ Before(i) \subseteq Files /\ Closed(Before(i))
         /\ i <= Len(ran) => Targets(ran[i]) \subseteq Before(i)
<1>1. Len(ran) \in Nat /\ \A j \in 1..Len(ran) : ran[j] \in Files
  BY StackTypes DEF ImportsInv
<1>2. \A j \in 1..(i - 1) : j \in 1..Len(ran)
  BY <1>1
<1>3. Before(i) \subseteq Files
  BY <1>1, <1>2 DEF Before
<1>4. ASSUME NEW j \in 1..Len(ran), j <= i PROVE Targets(ran[j]) \subseteq Before(i)
  <2>1. SUFFICES ASSUME NEW g \in Targets(ran[j]) PROVE g \in Before(i)
    OBVIOUS
  <2>2. PICK f \in Files : f = ran[j]
    BY <1>1
  <2>3. PICK k \in 1..Len(imports[f]) : imports[f][k] = g
    BY <2>1, <2>2, ListTypes DEF ImportsInv
  <2>4. PICK h \in 1..(j - 1) : ran[h] = g
    BY <2>2, <2>3 DEF ImportsInv, RanAfter
  <2>5. h \in 1..(i - 1)
    BY <1>1, <1>4, <2>4
  <2>. QED
    BY <2>4, <2>5 DEF Before
<1>5. Closed(Before(i))
  <2>1. ASSUME NEW f \in Before(i) PROVE Targets(f) \subseteq Before(i)
    <3>1. PICK j \in 1..(i - 1) : f = ran[j]
      BY DEF Before
    <3>2. j \in 1..Len(ran) /\ j <= i
      BY <1>1, <1>2, <3>1
    <3>. QED
      BY <1>4, <3>1, <3>2
  <2>. QED
    BY <1>3, <2>1 DEF Closed
<1>6. ASSUME i <= Len(ran) PROVE Targets(ran[i]) \subseteq Before(i)
  <2>1. i \in 1..Len(ran) /\ i <= i
    BY <1>1, <1>6
  <2>. QED
    BY <1>4, <2>1
<1>. QED
  BY <1>3, <1>5, <1>6

LEMMA OrderIsSound ==
  ASSUME ImportsInv
  PROVE  EachOnce
<1>1. /\ Len(ran) \in Nat /\ DOMAIN ran = 1..Len(ran)
      /\ \A j \in 1..Len(ran) : ran[j] \in Files
  BY StackTypes DEF ImportsInv
<1>2. \A i, j \in DOMAIN ran : i # j => ran[i] # ran[j]
  BY <1>1 DEF ImportsInv, RanOnce
<1>3. ASSUME NEW i \in DOMAIN ran PROVE Targets(ran[i]) \subseteq Range(SubSeq(ran, 1, i - 1))
  <2>1. i \in 1..Len(ran) /\ i \in 1..(Len(ran) + 1) /\ i <= Len(ran) /\ i - 1 \in Int /\ i \in Nat
    BY <1>1
  <2>2. \A j \in 1..(i - 1) : ran[j] \in Files
    BY <1>1, <2>1
  <2>3. /\ SubSeq(ran, 1, i - 1) \in Seq(Files)
        /\ Len(SubSeq(ran, 1, i - 1)) = IF 1 <= i - 1 THEN i - 1 - 1 + 1 ELSE 0
        /\ \A j \in 1..(i - 1 - 1 + 1) : SubSeq(ran, 1, i - 1)[j] = ran[1 + j - 1]
    BY <2>1, <2>2, SubSeqProperties
  <2>4. PICK before \in Seq(Files) : before = SubSeq(ran, 1, i - 1)
    BY <2>3
  <2>5. Len(before) = i - 1 /\ \A j \in 1..(i - 1) : before[j] = ran[j]
    <3>1. /\ i - 1 - 1 + 1 = i - 1 /\ (IF 1 <= i - 1 THEN i - 1 - 1 + 1 ELSE 0) = i - 1
          /\ \A j \in 1..(i - 1) : 1 + j - 1 = j
      BY <1>1, <2>1
    <3>. QED
      BY <2>3, <2>4, <3>1
  <2>6. DOMAIN before = 1..(i - 1)
    BY <2>4, <2>5, LenProperties
  <2>7. Range(before) = Before(i)
    BY <2>5, <2>6 DEF Range, Before
  <2>. QED
    BY <2>1, <2>4, <2>7, BeforeIsClosed
<1>. QED
  BY <1>2, <1>3 DEF EachOnce

LEMMA CirclesAreRefused ==
  ASSUME ImportsInv
  PROVE  CirclesRefused
<1>1. /\ Len(ran) \in Nat /\ DOMAIN ran = 1..Len(ran) /\ Root \in Files
      /\ \A j \in 1..Len(ran) : ran[j] \in Files
  BY StackTypes DEF ImportsInv
<1>2. \A f \in Files : ReachOf[f] = Reach(f) /\ Reach(f) \subseteq Files
  BY DEF ReachOf, Reach
<1>3. ASSUME NEW i \in 1..Len(ran) PROVE ran[i] \notin Reach(ran[i])
  <2>1. i \in 1..(Len(ran) + 1) /\ i <= Len(ran)
    BY <1>1
  <2>2. ReachOf[ran[i]] \subseteq Before(i)
    BY <1>1, <2>1, BeforeIsClosed, ReachLeast
  <2>3. ran[i] \notin Before(i)
    <3>1. SUFFICES ASSUME NEW j \in 1..(i - 1), ran[i] = ran[j] PROVE FALSE
      BY DEF Before
    <3>2. j \in 1..Len(ran) /\ j # i
      BY <1>1, <3>1
    <3>. QED
      BY <3>1, <3>2 DEF ImportsInv, RanOnce
  <2>. QED
    BY <1>1, <1>2, <2>2, <2>3
<1>4. Cyclic <=> \E f \in {Root} \cup ReachOf[Root] : f \in ReachOf[f]
  BY <1>1, <1>2 DEF Cyclic
<1>5. outcome = "E701" => Cyclic
  BY <1>4 DEF ImportsInv, RefusedCyclic
<1>6. ASSUME outcome = "done" PROVE ~Cyclic /\ Range(ran) = {Root} \cup Reach(Root)
  <2>1. PICK r \in 1..Len(ran) : ran[r] = Root
    BY <1>6 DEF ImportsInv, RanLoaded, HasRun
  <2>2. r \in 1..(Len(ran) + 1) /\ r <= Len(ran)
    BY <1>1
  <2>3. ReachOf[Root] \subseteq Before(r)
    BY <1>1, <2>1, <2>2, BeforeIsClosed, ReachLeast
  <2>4. Before(r) \subseteq Range(ran)
    <3>1. \A j \in 1..(r - 1) : j \in 1..Len(ran)
      BY <1>1
    <3>. QED
      BY <1>1, <3>1 DEF Before, Range
  <2>5. {Root} \cup Reach(Root) \subseteq Range(ran)
    BY <1>1, <1>2, <2>1, <2>3, <2>4 DEF Range
  <2>6. Range(ran) \subseteq {Root} \cup Reach(Root)
    BY <1>1, <1>2 DEF Range, ImportsInv, RanReached
  <2>7. ~Cyclic
    BY <1>1, <1>3, <2>5 DEF Cyclic, Range
  <2>. QED
    BY <2>5, <2>6, <2>7
<1>. QED
  BY <1>1, <1>3, <1>5, <1>6 DEF CirclesRefused

\* The stack, the cache and the order of execution agree with the imports, and every circle
\* of them is refused: _import and run_file of interpreter.py, for any files and imports.
THEOREM ImportsAlwaysKept == ImportsSpec => []ImportsKept
<1>1. ImportsInit => ImportsInv
  BY ImportsStart
<1>2. ImportsInv /\ [ImportsNext]_importVars => ImportsInv'
  <2>. SUFFICES ASSUME ImportsInv, [ImportsNext]_importVars PROVE ImportsInv'
    OBVIOUS
  <2>1. CASE UNCHANGED importVars
    <3>1. ReachOf' = ReachOf
      BY <2>1, ReachSame DEF importVars
    <3>2. /\ imports' = imports /\ fault' = fault /\ running' = running /\ importing' = importing
          /\ cache' = cache /\ ran' = ran /\ outcome' = outcome
      BY <2>1 DEF importVars
    <3>3. (ImportsTyped /\ AtWork /\ OnStackOnce /\ NotLoaded)'
      BY <3>2 DEF ImportsInv, ImportsTyped, AtWork, OnStackOnce, NotLoaded
    <3>4. (Waits /\ BeforeLoaded /\ Chained /\ RootWaits)'
      BY <3>1, <3>2 DEF ImportsInv, Waits, BeforeLoaded, Chained, RootWaits
    <3>5. (RanLoaded /\ RanOnce /\ RanAfter /\ RanReached /\ RefusedCyclic)'
      BY <3>1, <3>2 DEF ImportsInv, RanLoaded, RanOnce, RanAfter, RanReached, RefusedCyclic, HasRun
    <3>. QED
      BY <3>3, <3>4, <3>5 DEF ImportsInv
  <2>. QED
    BY <2>1, ImportKeeps, StatementsKeep DEF ImportsNext
<1>3. ImportsInv => ImportsKept
  BY StackIsSound, OrderIsSound, CirclesAreRefused DEF ImportsKept
<1>. QED
  BY <1>1, <1>2, <1>3, PTL DEF ImportsSpec

----------------------------------------------------------------------------
(* Blocks: what the parser has open, against what the author has.          *)

BlockRecs == [kind : Kinds, label : Labels, branch : Branches \cup {"body"}, seen : SUBSET Branches,
              used : SUBSET SepLocal]
AllLines  == Openers \cup Closers \cup BranchLines \cup {Plain}

BlocksTyped ==
  /\ stack \in Seq(BlockRecs) /\ intent \in Seq(BlockRecs)
  /\ skipping \in Kinds \cup {"nothing"} /\ stale \subseteq SUBSET SepLocal /\ mistakes \in Nat

\* No label is open twice, and what is outermost contains the rest.
Distinct(s) == \A j, k \in 1..Len(s) : s[j].label = s[k].label => j = k
Rooted(s)   == \A k \in 1..Len(s) : s[k].kind \in {"SEP", "http_route"} => k = 1
\* The branch a block is in is one of those it has had.
BranchKnown(b) == (b.branch = "body" <=> b.seen = {}) /\ (b.branch # "body" => b.branch \in b.seen)
Proper(s) == Distinct(s) /\ Rooted(s) /\ \A k \in 1..Len(s) : BranchKnown(s[k])

\* Two blocks that differ at most in the SEP-local labels that the parser remembers.
Alike(a, b) == a.kind = b.kind /\ a.label = b.label /\ a.branch = b.branch /\ a.seen = b.seen
Same(s, t)  == Len(s) = Len(t) /\ \A k \in 1..Len(t) : Alike(s[k], t[k])
\* The first has one block more, at this place; both have another block at this place.
Extra(s, t, p) ==
  /\ p \in 1..Len(s) /\ Len(s) = Len(t) + 1
  /\ \A k \in 1..Len(t) : /\ k < p => Alike(s[k], t[k])
                          /\ k >= p => Alike(s[k + 1], t[k])
Differs(s, t, p) ==
  /\ p \in 1..Len(t) /\ Len(s) = Len(t)
  /\ \A k \in 1..Len(t) : k # p => Alike(s[k], t[k])
  /\ s[p].kind # t[p].kind \/ s[p].label # t[p].label
OneOff(s, t) == \E p \in Nat : Extra(s, t, p) \/ Extra(t, s, p) \/ Differs(s, t, p)

\* Without a diagnostic nothing was dropped.
NoRecovery == ~diagnosed => skipping = "nothing" /\ stale = {}
\* Without a mistake parser and author agree; after one they are off by one block, or it
\* was noticed.
RightSoFar == mistakes = 0 => /\ ~diagnosed /\ Same(stack, intent)
                              /\ stack # <<>> => stack[1].used \subseteq local
OneMistake == mistakes # 0 /\ ~diagnosed => OneOff(stack, intent)
\* In a SEP without a mistake, and without a SEP-local label so far, they agree whatever
\* was wrong with those before.
CleanSep == clean /\ local = {} /\ intent # <<>> /\ intent[1].kind = "SEP" =>
              skipping = "nothing" /\ Same(stack, intent)

BlocksInv == /\ BlocksTyped /\ Proper(intent) /\ Distinct(stack) /\ Rooted(stack)
             /\ NoRecovery /\ RightSoFar /\ CleanSep /\ NextSepParsed

----------------------------------------------------------------------------
\* What a line does to blocks: one more, the innermost in another branch, one less.
Grows(line, s, u) ==
  /\ Len(u) = Len(s) + 1 /\ \A k \in 1..Len(s) : Alike(u[k], s[k])
  /\ u[Len(s) + 1].kind = line.kind /\ u[Len(s) + 1].label = line.label
  /\ u[Len(s) + 1].branch = "body" /\ u[Len(s) + 1].seen = {}
Marks(line, s, u) ==
  /\ Len(s) >= 1 /\ Len(u) = Len(s) /\ \A k \in 1..(Len(s) - 1) : Alike(u[k], s[k])
  /\ u[Len(s)].kind = s[Len(s)].kind /\ u[Len(s)].label = s[Len(s)].label
  /\ u[Len(s)].branch = line.kind /\ u[Len(s)].seen = s[Len(s)].seen \cup {line.kind}
Shrinks(s, u) ==
  Len(s) >= 1 /\ Len(u) = Len(s) - 1 /\ \A k \in 1..(Len(s) - 1) : Alike(u[k], s[k])
Does(line, s, u) ==
  /\ line.what = "open"   => Grows(line, s, u)
  /\ line.what = "branch" => Marks(line, s, u)
  /\ line.what = "close"  => Shrinks(s, u)
  /\ line = Plain         => u = s

LEMMA LineIs ==
  ASSUME NEW line \in AllLines
  PROVE  /\ line.what = "open" \/ line.what = "branch" \/ line.what = "close" \/ line = Plain
         /\ line = Plain => line.what = "plain" /\ line.kind = "none" /\ line.label = "none"
         /\ line.what \in {"open", "close"} => line.kind \in Kinds /\ line.label \in Labels
         /\ line.what = "branch" => line.kind \in Branches /\ line.label \in Labels
         /\ line = Line(line.what, line.kind, line.label)
<1>1. CASE line \in Openers
  BY <1>1 DEF Openers, Line, Plain
<1>2. CASE line \in Closers
  BY <1>2 DEF Closers, Line, Plain
<1>3. CASE line \in BranchLines
  BY <1>3 DEF BranchLines, Line, Plain
<1>4. CASE line = Plain
  BY <1>4 DEF Line, Plain
<1>. QED
  BY <1>1, <1>2, <1>3, <1>4 DEF AllLines

\* Blocks that agree still do after the same line.
LEMMA DoesSame ==
  ASSUME NEW line \in AllLines, NEW s, NEW t, NEW u, NEW v, Len(s) \in Nat, Len(t) \in Nat,
         Same(s, t), Does(line, s, u), Does(line, t, v)
  PROVE  Same(u, v)
<1>1. CASE line.what = "open"
  <2>1. Grows(line, s, u) /\ Grows(line, t, v)
    BY <1>1 DEF Does
  <2>2. Len(v) = Len(t) + 1 /\ Len(u) = Len(v)
    BY <2>1 DEF Grows, Same
  <2>3. ASSUME NEW k \in 1..(Len(t) + 1) PROVE Alike(u[k], v[k])
    <3>1. CASE k \in 1..Len(t)
      <4>1. Alike(u[k], s[k]) /\ Alike(v[k], t[k]) /\ Alike(s[k], t[k])
        BY <2>1, <3>1 DEF Grows, Same
      <4>. QED
        BY <4>1 DEF Alike
    <3>2. CASE k = Len(t) + 1
      BY <2>1, <3>2 DEF Grows, Same, Alike
    <3>. QED
      BY <3>1, <3>2
  <2>. QED
    BY <2>2, <2>3 DEF Same
<1>2. CASE line.what = "branch"
  <2>1. Marks(line, s, u) /\ Marks(line, t, v)
    BY <1>2 DEF Does
  <2>2. Len(v) = Len(t) /\ Len(u) = Len(v)
    BY <2>1 DEF Marks, Same
  <2>3. ASSUME NEW k \in 1..Len(t) PROVE Alike(u[k], v[k])
    <3>0. Alike(s[k], t[k])
      BY DEF Same
    <3>1. CASE k \in 1..(Len(t) - 1)
      <4>1. Alike(u[k], s[k]) /\ Alike(v[k], t[k])
        BY <2>1, <3>1 DEF Marks, Same
      <4>. QED
        BY <3>0, <4>1 DEF Alike
    <3>2. CASE k = Len(t)
      BY <2>1, <3>0, <3>2 DEF Marks, Same, Alike
    <3>. QED
      BY <3>1, <3>2
  <2>. QED
    BY <2>2, <2>3 DEF Same
<1>3. CASE line.what = "close"
  <2>2. Shrinks(s, u) /\ Shrinks(t, v)
    BY <1>3 DEF Does
  <2>. QED
    BY <2>2 DEF Shrinks, Same, Alike
<1>4. CASE line = Plain
  BY <1>4 DEF Does
<1>. QED
  BY <1>1, <1>2, <1>3, <1>4, LineIs

\* One block more stays one block more, as long as it is not what the line is about.
LEMMA DoesExtra ==
  ASSUME NEW line \in AllLines, NEW s, NEW t, NEW u, NEW v, NEW p \in Nat,
         Len(s) \in Nat, Len(t) \in Nat, Extra(s, t, p),
         line.what \in {"branch", "close"} => p # Len(s), Does(line, s, u), Does(line, t, v)
  PROVE  Extra(u, v, p)
<1>1. CASE line.what = "open"
  <2>1. /\ \A k \in 1..(Len(t) + 1) : k \in 1..Len(t) \/ k = Len(t) + 1
        /\ \A k \in 1..Len(t) : k \in 1..Len(s) /\ k + 1 \in 1..Len(s)
        /\ p \in 1..(Len(s) + 1) /\ Len(t) + 1 = Len(s) /\ Len(t) + 1 >= p
    BY DEF Extra
  <2>2. Grows(line, s, u) /\ Grows(line, t, v)
    BY <1>1 DEF Does
  <2>3. p \in 1..Len(u) /\ Len(u) = Len(v) + 1 /\ Len(v) = Len(t) + 1
    BY <2>1, <2>2 DEF Grows
  <2>4. ASSUME NEW k \in 1..(Len(t) + 1)
        PROVE  (k < p => Alike(u[k], v[k])) /\ (k >= p => Alike(u[k + 1], v[k]))
    <3>1. CASE k \in 1..Len(t)
      <4>1. Alike(u[k], s[k]) /\ Alike(u[k + 1], s[k + 1]) /\ Alike(v[k], t[k])
        BY <2>1, <2>2, <3>1 DEF Grows
      <4>2. (k < p => Alike(s[k], t[k])) /\ (k >= p => Alike(s[k + 1], t[k]))
        BY <3>1 DEF Extra
      <4>. QED
        BY <4>1, <4>2 DEF Alike
    <3>2. CASE k = Len(t) + 1
      <4>1. k = Len(s) /\ ~(k < p)
        BY <2>1, <3>2
      <4>2. Alike(u[Len(s) + 1], v[Len(t) + 1])
        BY <2>2 DEF Grows, Alike
      <4>. QED
        BY <3>2, <4>1, <4>2
    <3>. QED
      BY <2>1, <3>1, <3>2
  <2>. QED
    BY <2>3, <2>4 DEF Extra
<1>2. CASE line.what = "branch"
  <2>1. /\ \A k \in 1..Len(t) : k \in 1..(Len(t) - 1) \/ k = Len(t)
        /\ \A k \in 1..(Len(t) - 1) : k \in 1..Len(t) /\ k \in 1..(Len(s) - 1) /\ k + 1 \in 1..(Len(s) - 1)
        /\ Len(t) + 1 = Len(s) /\ Len(t) >= p
    BY <1>2 DEF Extra
  <2>2. Marks(line, s, u) /\ Marks(line, t, v)
    BY <1>2 DEF Does
  <2>3. p \in 1..Len(u) /\ Len(u) = Len(v) + 1 /\ Len(v) = Len(t)
    BY <2>1, <2>2 DEF Marks, Extra
  <2>4. ASSUME NEW k \in 1..Len(t)
        PROVE  (k < p => Alike(u[k], v[k])) /\ (k >= p => Alike(u[k + 1], v[k]))
    <3>0. (k < p => Alike(s[k], t[k])) /\ (k >= p => Alike(s[k + 1], t[k]))
      BY DEF Extra
    <3>1. CASE k \in 1..(Len(t) - 1)
      <4>1. Alike(u[k], s[k]) /\ Alike(u[k + 1], s[k + 1]) /\ Alike(v[k], t[k])
        BY <2>1, <2>2, <3>1 DEF Marks
      <4>. QED
        BY <3>0, <4>1 DEF Alike
    <3>2. CASE k = Len(t)
      <4>1. k + 1 = Len(s) /\ ~(k < p) /\ k >= p
        BY <2>1, <3>2
      <4>2. Alike(s[Len(s)], t[Len(t)])
        BY <3>0, <3>2, <4>1
      <4>3. Alike(u[Len(s)], v[Len(t)])
        BY <2>2, <4>2 DEF Marks, Alike
      <4>. QED
        BY <3>2, <4>1, <4>3
    <3>. QED
      BY <2>1, <3>1, <3>2
  <2>. QED
    BY <2>3, <2>4 DEF Extra
<1>3. CASE line.what = "close"
  <2>1. /\ \A k \in 1..(Len(t) - 1) : k \in 1..Len(t) /\ k \in 1..(Len(s) - 1) /\ k + 1 \in 1..(Len(s) - 1)
        /\ Len(t) + 1 = Len(s) /\ Len(t) >= p
    BY <1>3 DEF Extra
  <2>2. Shrinks(s, u) /\ Shrinks(t, v)
    BY <1>3 DEF Does
  <2>. QED
    BY <2>1, <2>2 DEF Shrinks, Extra, Alike
<1>4. CASE line = Plain
  BY <1>4 DEF Does
<1>. QED
  BY <1>1, <1>2, <1>3, <1>4, LineIs

LEMMA DoesDiffers ==
  ASSUME NEW line \in AllLines, NEW s, NEW t, NEW u, NEW v, NEW p \in Nat,
         Len(s) \in Nat, Len(t) \in Nat, Differs(s, t, p),
         line.what \in {"branch", "close"} => p # Len(t), Does(line, s, u), Does(line, t, v)
  PROVE  Differs(u, v, p)
<1>1. CASE line.what = "open"
  <2>1. /\ \A k \in 1..(Len(t) + 1) : k \in 1..Len(t) \/ k = Len(t) + 1
        /\ p \in 1..(Len(t) + 1)
    BY DEF Differs
  <2>2. Grows(line, s, u) /\ Grows(line, t, v)
    BY <1>1 DEF Does
  <2>3. p \in 1..Len(v) /\ Len(u) = Len(v) /\ Len(v) = Len(t) + 1
    BY <2>1, <2>2 DEF Grows, Differs
  <2>4. ASSUME NEW k \in 1..(Len(t) + 1), k # p PROVE Alike(u[k], v[k])
    <3>1. CASE k \in 1..Len(t)
      <4>1. Alike(u[k], s[k]) /\ Alike(v[k], t[k]) /\ Alike(s[k], t[k])
        BY <2>2, <2>4, <3>1 DEF Grows, Differs
      <4>. QED
        BY <4>1 DEF Alike
    <3>2. CASE k = Len(t) + 1
      BY <2>2, <3>2 DEF Grows, Differs, Alike
    <3>. QED
      BY <2>1, <3>1, <3>2
  <2>5. u[p].kind # v[p].kind \/ u[p].label # v[p].label
    <3>1. Alike(u[p], s[p]) /\ Alike(v[p], t[p])
      BY <2>2 DEF Grows, Differs
    <3>. QED
      BY <3>1 DEF Alike, Differs
  <2>. QED
    BY <2>3, <2>4, <2>5 DEF Differs
<1>2. CASE line.what = "branch"
  <2>1. /\ \A k \in 1..Len(t) : k \in 1..(Len(t) - 1) \/ k = Len(t)
        /\ \A k \in 1..(Len(t) - 1) : k \in 1..Len(t)
        /\ p \in 1..(Len(t) - 1)
    BY <1>2 DEF Differs
  <2>2. Marks(line, s, u) /\ Marks(line, t, v)
    BY <1>2 DEF Does
  <2>3. p \in 1..Len(v) /\ Len(u) = Len(v) /\ Len(v) = Len(t)
    BY <2>1, <2>2 DEF Marks, Differs
  <2>4. ASSUME NEW k \in 1..Len(t), k # p PROVE Alike(u[k], v[k])
    <3>0. Alike(s[k], t[k])
      BY <2>4 DEF Differs
    <3>1. CASE k \in 1..(Len(t) - 1)
      <4>1. Alike(u[k], s[k]) /\ Alike(v[k], t[k])
        BY <2>2, <3>1 DEF Marks, Differs
      <4>. QED
        BY <3>0, <4>1 DEF Alike
    <3>2. CASE k = Len(t)
      <4>1. /\ u[k].kind = s[k].kind /\ u[k].label = s[k].label
            /\ u[k].branch = line.kind /\ u[k].seen = s[k].seen \cup {line.kind}
        BY <2>2, <3>2 DEF Marks, Differs
      <4>2. /\ v[k].kind = t[k].kind /\ v[k].label = t[k].label
            /\ v[k].branch = line.kind /\ v[k].seen = t[k].seen \cup {line.kind}
        BY <2>2, <3>2 DEF Marks
      <4>. QED
        BY <3>0, <4>1, <4>2 DEF Alike
    <3>. QED
      BY <2>1, <3>1, <3>2
  <2>5. u[p].kind # v[p].kind \/ u[p].label # v[p].label
    <3>1. Alike(u[p], s[p]) /\ Alike(v[p], t[p])
      BY <2>1, <2>2 DEF Marks, Differs
    <3>. QED
      BY <3>1 DEF Alike, Differs
  <2>. QED
    BY <2>3, <2>4, <2>5 DEF Differs
<1>3. CASE line.what = "close"
  <2>1. /\ \A k \in 1..(Len(t) - 1) : k \in 1..Len(t)
        /\ p \in 1..(Len(t) - 1)
    BY <1>3 DEF Differs
  <2>2. Shrinks(s, u) /\ Shrinks(t, v)
    BY <1>3 DEF Does
  <2>. QED
    BY <2>1, <2>2 DEF Shrinks, Differs, Alike
<1>4. CASE line = Plain
  BY <1>4 DEF Does
<1>. QED
  BY <1>1, <1>2, <1>3, <1>4, LineIs

\* Labels stay distinct and the outermost block stays the only one of its kind.
LEMMA DoesProper ==
  ASSUME NEW line \in AllLines, NEW s, NEW u, Len(s) \in Nat, Distinct(s), Rooted(s), Does(line, s, u),
         line.what = "open" => \A k \in 1..Len(s) : s[k].label # line.label,
         line.what = "open" /\ line.kind \in {"SEP", "http_route"} => Len(s) = 0
  PROVE  /\ Distinct(u) /\ Rooted(u)
         /\ (\A k \in 1..Len(s) : BranchKnown(s[k])) => \A k \in 1..Len(u) : BranchKnown(u[k])
<1>1. CASE line.what = "open"
  <2>1. Grows(line, s, u)
    BY <1>1 DEF Does
  <2>2. \A k \in 1..Len(u) : k \in 1..Len(s) \/ k = Len(s) + 1
    BY <2>1 DEF Grows
  <2>3. ASSUME NEW k \in 1..Len(s)
        PROVE u[k].kind = s[k].kind /\ u[k].label = s[k].label /\ u[k].branch = s[k].branch /\ u[k].seen = s[k].seen
    BY <2>1 DEF Grows, Alike
  <2>4. /\ u[Len(s) + 1].kind = line.kind /\ u[Len(s) + 1].label = line.label
        /\ u[Len(s) + 1].branch = "body" /\ u[Len(s) + 1].seen = {}
    BY <2>1 DEF Grows
  <2>5. Distinct(u)
    <3>1. ASSUME NEW j \in 1..Len(u), NEW k \in 1..Len(u), u[j].label = u[k].label PROVE j = k
      <4>1. CASE j \in 1..Len(s) /\ k \in 1..Len(s)
        BY <2>3, <3>1, <4>1 DEF Distinct
      <4>2. CASE j \in 1..Len(s) /\ k = Len(s) + 1
        BY <1>1, <2>3, <2>4, <3>1, <4>2
      <4>3. CASE j = Len(s) + 1 /\ k \in 1..Len(s)
        BY <1>1, <2>3, <2>4, <3>1, <4>3
      <4>. QED
        BY <2>2, <4>1, <4>2, <4>3
    <3>. QED
      BY <3>1 DEF Distinct
  <2>6. Rooted(u)
    BY <1>1, <2>2, <2>3, <2>4 DEF Rooted
  <2>7. (\A k \in 1..Len(s) : BranchKnown(s[k])) => \A k \in 1..Len(u) : BranchKnown(u[k])
    BY <2>2, <2>3, <2>4 DEF BranchKnown
  <2>. QED
    BY <2>5, <2>6, <2>7
<1>2. CASE line.what = "branch"
  <2>1. Marks(line, s, u)
    BY <1>2 DEF Does
  <2>2. Len(u) = Len(s) /\ \A k \in 1..Len(u) : k \in 1..(Len(s) - 1) \/ k = Len(s)
    BY <2>1 DEF Marks
  <2>3. ASSUME NEW k \in 1..Len(s) PROVE u[k].kind = s[k].kind /\ u[k].label = s[k].label
    BY <2>1, <2>2 DEF Marks, Alike
  <2>4. Distinct(u)
    BY <2>2, <2>3 DEF Distinct
  <2>5. Rooted(u)
    BY <2>2, <2>3 DEF Rooted
  <2>6. ASSUME \A k \in 1..Len(s) : BranchKnown(s[k]), NEW k \in 1..Len(u) PROVE BranchKnown(u[k])
    <3>1. CASE k \in 1..(Len(s) - 1)
      BY <2>1, <2>2, <2>6, <3>1 DEF Marks, Alike, BranchKnown
    <3>2. CASE k = Len(s)
      <4>1. line.kind # "body"
        BY <1>2, LineIs DEF Branches
      <4>2. u[k].branch = line.kind /\ line.kind \in u[k].seen
        BY <2>1, <3>2 DEF Marks
      <4>. QED
        BY <4>1, <4>2 DEF BranchKnown
    <3>. QED
      BY <2>2, <3>1, <3>2
  <2>. QED
    BY <2>4, <2>5, <2>6
<1>3. CASE line.what = "close"
  <2>1. Shrinks(s, u)
    BY <1>3 DEF Does
  <2>2. Len(u) = Len(s) - 1 /\ \A k \in 1..Len(u) : k \in 1..Len(s)
    BY <2>1 DEF Shrinks
  <2>3. ASSUME NEW k \in 1..Len(u)
        PROVE u[k].kind = s[k].kind /\ u[k].label = s[k].label /\ u[k].branch = s[k].branch /\ u[k].seen = s[k].seen
    BY <2>1, <2>2 DEF Shrinks, Alike
  <2>4. Distinct(u)
    BY <2>2, <2>3 DEF Distinct
  <2>5. Rooted(u)
    BY <2>2, <2>3 DEF Rooted
  <2>6. (\A k \in 1..Len(s) : BranchKnown(s[k])) => \A k \in 1..Len(u) : BranchKnown(u[k])
    BY <2>2, <2>3 DEF BranchKnown
  <2>. QED
    BY <2>4, <2>5, <2>6
<1>4. CASE line = Plain
  BY <1>4 DEF Does
<1>. QED
  BY <1>1, <1>2, <1>3, <1>4, LineIs

\* A branch or a closer that fits both is about a block that both have.
LEMMA BothHave ==
  ASSUME NEW s, NEW t, NEW p \in Nat, Len(s) \in Nat, Len(t) \in Nat, Len(t) >= 1, Extra(s, t, p), Distinct(s),
         s[Len(s)].label = t[Len(t)].label
  PROVE  p # Len(s)
<1>. SUFFICES ASSUME p = Len(s) PROVE FALSE
  OBVIOUS
<1>1. /\ Len(t) \in 1..Len(t) /\ Len(t) < p /\ Len(t) \in 1..Len(s) /\ Len(s) \in 1..Len(s)
      /\ Len(t) # Len(s)
  BY DEF Extra
<1>2. Alike(s[Len(t)], t[Len(t)])
  BY <1>1 DEF Extra
<1>3. s[Len(t)].label = s[Len(s)].label
  BY <1>2 DEF Alike
<1>. QED
  BY <1>1, <1>3 DEF Distinct

----------------------------------------------------------------------------
\* What the parser and the author do to their blocks.
LEMMA FrontDoes ==
  ASSUME NEW s \in Seq(BlockRecs), s # <<>>
  PROVE  Front(s) \in Seq(BlockRecs) /\ Shrinks(s, Front(s))
<1>1. /\ Front(s) \in Seq(BlockRecs) /\ Len(Front(s)) = Len(s) - 1
      /\ \A k \in 1..(Len(s) - 1) : Front(s)[k] = s[k]
  BY LosesLast
<1>2. Len(s) \in Nat /\ Len(s) >= 1
  BY EmptySeq
<1>. QED
  BY <1>1, <1>2 DEF Shrinks, Alike

LEMMA BranchedDoes ==
  ASSUME NEW s \in Seq(BlockRecs), s # <<>>, NEW line \in AllLines, line.what = "branch"
  PROVE  Branched(line, s) \in Seq(BlockRecs) /\ Marks(line, s, Branched(line, s))
<1>. DEFINE n == Len(s)
            block == [s[n] EXCEPT !.branch = line.kind, !.seen = @ \cup {line.kind}]
<1>1. n \in Nat /\ n >= 1 /\ n \in 1..n /\ s[n] \in BlockRecs /\ DOMAIN s = 1..n
  <2>1. n \in Nat /\ n >= 1 /\ DOMAIN s = 1..n
    BY EmptySeq, LenProperties
  <2>. QED
    BY <2>1, ElementOfSeq
<1>2. line.kind \in Branches
  BY LineIs
<1>3. /\ block \in BlockRecs /\ block.branch = line.kind /\ block.seen = s[n].seen \cup {line.kind}
      /\ block.kind = s[n].kind /\ block.label = s[n].label
  BY <1>1, <1>2 DEF BlockRecs
<1>4. Branched(line, s) = [s EXCEPT ![n] = block]
  BY <1>1 DEF Branched
<1>5. PICK changed \in BlockRecs : changed = block
  BY <1>3
<1>6. Branched(line, s) = [s EXCEPT ![n] = changed]
  BY <1>4, <1>5
<1>7. /\ [s EXCEPT ![n] = changed] \in Seq(BlockRecs) /\ Len([s EXCEPT ![n] = changed]) = n
      /\ \A k \in 1..n : [s EXCEPT ![n] = changed][k] = IF k = n THEN changed ELSE s[k]
  BY <1>1, ExceptSeq
<1>8. \A k \in 1..(n - 1) : k \in 1..n /\ k # n
  <2>. HIDE DEF n
  <2>. QED
    BY <1>1
<1>9. PICK u \in Seq(BlockRecs) : u = Branched(line, s)
  BY <1>6, <1>7
<1>10. /\ Len(u) = n /\ u[n] = changed /\ \A k \in 1..(n - 1) : u[k] = s[k]
  BY <1>1, <1>6, <1>7, <1>8, <1>9
<1>11. Marks(line, s, u)
  BY <1>1, <1>3, <1>5, <1>10 DEF Marks, Alike
<1>. QED
  BY <1>9, <1>11

LEMMA ContinuedDoes ==
  ASSUME NEW s \in Seq(BlockRecs), NEW line \in AllLines, line.what # "open", line.what # "plain" => s # <<>>
  PROVE  Continued(line, s) \in Seq(BlockRecs) /\ Does(line, s, Continued(line, s))
<1>1. CASE line.what = "branch"
  BY <1>1, BranchedDoes, LineIs DEF Continued, Does
<1>2. CASE line.what = "close"
  BY <1>2, FrontDoes, LineIs DEF Continued, Does
<1>3. CASE line = Plain
  BY <1>3, LineIs DEF Continued, Does
<1>. QED
  BY <1>1, <1>2, <1>3, LineIs

LEMMA BlockIs ==
  ASSUME NEW kind \in Kinds, NEW label \in Labels, NEW used \in SUBSET SepLocal
  PROVE  /\ Block(kind, label, used) \in BlockRecs /\ Block(kind, label, used).used = used
         /\ Block(kind, label, used).kind = kind /\ Block(kind, label, used).label = label
         /\ Block(kind, label, used).branch = "body" /\ Block(kind, label, used).seen = {}
  BY DEF Block, BlockRecs

LEMMA MovedDoes ==
  ASSUME NEW s \in Seq(BlockRecs), NEW line \in AllLines, line.what \in {"branch", "close"} => s # <<>>
  PROVE  Moved(line, s) \in Seq(BlockRecs) /\ Does(line, s, Moved(line, s))
<1>1. CASE line.what = "open"
  <2>1. PICK block \in BlockRecs :
          /\ block = Block(line.kind, line.label, {}) /\ block.kind = line.kind /\ block.label = line.label
          /\ block.branch = "body" /\ block.seen = {}
    BY <1>1, LineIs, BlockIs
  <2>2. Moved(line, s) = Append(s, block)
    BY <1>1, <2>1 DEF Moved
  <2>3. /\ Append(s, block) \in Seq(BlockRecs) /\ Len(Append(s, block)) = Len(s) + 1
        /\ \A k \in 1..Len(s) : Append(s, block)[k] = s[k]
        /\ Append(s, block)[Len(s) + 1] = block
    BY AppendProperties
  <2>4. Grows(line, s, Append(s, block))
    BY <2>1, <2>3 DEF Grows, Alike
  <2>. QED
    BY <1>1, <2>2, <2>3, <2>4, LineIs DEF Does
<1>2. CASE line.what # "open"
  <2>1. line.what # "plain" => s # <<>>
    BY <1>2, LineIs
  <2>. QED
    BY <1>2, <2>1, ContinuedDoes DEF Moved
<1>. QED
  BY <1>1, <1>2

LEMMA AfterDoes ==
  ASSUME NEW s \in Seq(BlockRecs), NEW line \in AllLines, NEW leftover \in SUBSET SepLocal,
         line.what \in {"branch", "close"} => s # <<>>,
         line.what = "open" /\ line.label \in SepLocal => s # <<>>
  PROVE  /\ After(line, s, leftover) \in Seq(BlockRecs) /\ Does(line, s, After(line, s, leftover))
         /\ s # <<>> /\ After(line, s, leftover) # <<>> =>
              After(line, s, leftover)[1].used \subseteq s[1].used \cup ({line.label} \cap SepLocal)
         /\ s = <<>> /\ After(line, s, leftover) # <<>> => After(line, s, leftover)[1].used = leftover
<1>0. Len(s) \in Nat /\ (s # <<>> <=> Len(s) >= 1) /\ DOMAIN s = 1..Len(s)
  BY EmptySeq, LenProperties
<1>1. CASE line.what = "open"
  <2>1. PICK block \in BlockRecs :
          /\ block = Block(line.kind, line.label, leftover) /\ block.kind = line.kind /\ block.label = line.label
          /\ block.branch = "body" /\ block.seen = {} /\ block.used = leftover
    BY <1>1, LineIs, BlockIs
  <2>2. PICK r \in Seq(BlockRecs) :
          /\ After(line, s, leftover) = Append(r, block) /\ Len(r) = Len(s)
          /\ \A k \in 1..Len(s) : Alike(r[k], s[k])
          /\ s # <<>> => r[1].used \subseteq s[1].used \cup ({line.label} \cap SepLocal)
    <3>1. CASE line.label \notin SepLocal
      <4>1. After(line, s, leftover) = Append(s, block)
        BY <1>1, <2>1, <3>1 DEF After, Opened
      <4>. QED
        BY <4>1 DEF Alike
    <3>2. CASE line.label \in SepLocal
      <4>1. 1 \in 1..Len(s) /\ s[1] \in BlockRecs
        <5>1. 1 \in 1..Len(s)
          BY <1>0, <1>1, <3>2
        <5>. QED
          BY <5>1, ElementOfSeq
      <4>2. PICK first : first = [s[1] EXCEPT !.used = @ \cup {line.label}]
        OBVIOUS
      <4>3. /\ first \in BlockRecs /\ first.used = s[1].used \cup {line.label}
            /\ first.kind = s[1].kind /\ first.label = s[1].label
            /\ first.branch = s[1].branch /\ first.seen = s[1].seen
        BY <3>2, <4>1, <4>2 DEF BlockRecs
      <4>4. PICK r : r = [s EXCEPT ![1] = first]
        OBVIOUS
      <4>5. /\ r \in Seq(BlockRecs) /\ Len(r) = Len(s)
            /\ \A k \in 1..Len(s) : r[k] = IF k = 1 THEN first ELSE s[k]
        BY <4>1, <4>3, <4>4, ExceptSeq
      <4>6. After(line, s, leftover) = Append(r, block)
        BY <1>0, <1>1, <2>1, <3>2, <4>1, <4>2, <4>4 DEF After, Opened
      <4>7. \A k \in 1..Len(s) : Alike(r[k], s[k])
        BY <4>3, <4>5 DEF Alike
      <4>8. r[1].used \subseteq s[1].used \cup ({line.label} \cap SepLocal)
        BY <3>2, <4>1, <4>3, <4>5
      <4>. QED
        BY <4>5, <4>6, <4>7, <4>8
    <3>. QED
      BY <3>1, <3>2
  <2>3. /\ Append(r, block) \in Seq(BlockRecs) /\ Len(Append(r, block)) = Len(r) + 1
        /\ \A k \in 1..Len(r) : Append(r, block)[k] = r[k]
        /\ Append(r, block)[Len(r) + 1] = block
    BY AppendProperties
  <2>4. Grows(line, s, Append(r, block))
    BY <2>1, <2>2, <2>3 DEF Grows, Alike
  <2>5. s # <<>> => Append(r, block)[1] = r[1]
    BY <1>0, <2>2, <2>3
  <2>6. s = <<>> => Append(r, block)[1] = block
    BY <1>0, <2>2, <2>3
  <2>7. Does(line, s, Append(r, block))
    BY <1>1, <2>4, LineIs DEF Does
  <2>. QED
    BY <2>1, <2>2, <2>3, <2>5, <2>6, <2>7
<1>2. CASE line.what # "open"
  <2>1. line.what # "plain" => s # <<>>
    BY <1>2, LineIs
  <2>2. After(line, s, leftover) = Continued(line, s)
    BY <1>2 DEF After
  <2>3. Continued(line, s) \in Seq(BlockRecs) /\ Does(line, s, Continued(line, s))
    BY <1>2, <2>1, ContinuedDoes
  <2>4. s = <<>> => Continued(line, s) = <<>>
    BY <1>2, <2>1, <2>3, LineIs DEF Does
  <2>5. s # <<>> /\ Continued(line, s) # <<>> => Continued(line, s)[1].used = s[1].used
    <3>1. CASE line.what = "branch"
      BY <1>0, <3>1 DEF Continued, Branched
    <3>2. CASE line.what = "close"
      <4>1. SUFFICES ASSUME s # <<>>, Front(s) # <<>> PROVE Front(s)[1] = s[1]
        BY <3>2, LineIs DEF Continued
      <4>2. Len(Front(s)) = Len(s) - 1 /\ Front(s) \in Seq(BlockRecs) /\ \A k \in 1..(Len(s) - 1) : Front(s)[k] = s[k]
        BY <4>1, LosesLast
      <4>3. Len(s) - 1 >= 1
        BY <1>0, <4>1, <4>2, EmptySeq
      <4>. QED
        BY <1>0, <4>2, <4>3
    <3>3. CASE line = Plain
      BY <3>3, LineIs DEF Continued
    <3>. QED
      BY <1>2, <3>1, <3>2, <3>3, LineIs
  <2>. QED
    BY <2>2, <2>3, <2>4, <2>5
<1>. QED
  BY <1>1, <1>2

----------------------------------------------------------------------------
\* What is known of a line that is right, ...
LEMMA LegalIs ==
  ASSUME NEW line \in Legal
  PROVE  /\ line \in AllLines
         /\ line.what = "open" =>
              /\ line.kind \in Openable(intent) /\ line.label \notin LabelsOf(intent)
              /\ line.label \in SepLocal => intent # <<>> /\ intent[1].kind = "SEP" /\ line.label \notin local
         /\ line.what = "branch" =>
              intent # <<>> /\ line.label = Last(intent).label /\ MayFollow(line.kind, Last(intent))
         /\ line.what = "close" =>
              /\ intent # <<>> /\ line.kind = Last(intent).kind /\ line.label = Last(intent).label
              /\ line.kind = "try" => Last(intent).seen # {}
<1>1. CASE line \in Openers
  <2>1. line \in AllLines /\ line.what = "open"
    BY <1>1 DEF AllLines, Openers, Line
  <2>2. line \notin BranchLines /\ line \notin Closers /\ line # Plain
    BY <2>1 DEF BranchLines, Closers, Plain, Line
  <2>. QED
    BY <2>1, <2>2 DEF Legal
<1>2. CASE line \in BranchLines
  <2>1. line \in AllLines /\ line.what = "branch"
    BY <1>2 DEF AllLines, BranchLines, Line
  <2>2. line \notin Openers /\ line \notin Closers /\ line # Plain
    BY <2>1 DEF Openers, Closers, Plain, Line
  <2>. QED
    BY <2>1, <2>2 DEF Legal
<1>3. CASE line \in Closers
  <2>1. line \in AllLines /\ line.what = "close"
    BY <1>3 DEF AllLines, Closers, Line
  <2>2. line \notin Openers /\ line \notin BranchLines /\ line # Plain
    BY <2>1 DEF Openers, BranchLines, Plain, Line
  <2>. QED
    BY <2>1, <2>2 DEF Legal
<1>4. CASE line = Plain
  BY <1>4 DEF AllLines, Plain, Line
<1>. QED
  BY <1>1, <1>2, <1>3, <1>4 DEF Legal

\* The innermost block, and the labels.
LEMMA TopIs ==
  ASSUME NEW s \in Seq(BlockRecs)
  PROVE  /\ Len(s) \in Nat /\ (s # <<>> <=> Len(s) >= 1) /\ (s # <<>> <=> Len(s) # 0) /\ (s = <<>> <=> Len(s) = 0)
         /\ s # <<>> => /\ Last(s) = s[Len(s)] /\ Top(s) = s[Len(s)] /\ Len(s) \in 1..Len(s) /\ 1 \in 1..Len(s)
                        /\ s[Len(s)] \in BlockRecs /\ s[1] \in BlockRecs
         /\ s = <<>> => Top(s).kind = "none"
         /\ \A label : label \notin LabelsOf(s) <=> \A k \in 1..Len(s) : s[k].label # label
<1>1. Len(s) \in Nat /\ (s # <<>> <=> Len(s) >= 1) /\ (s = <<>> <=> Len(s) = 0) /\ DOMAIN s = 1..Len(s)
  BY EmptySeq, LenProperties
<1>2. ASSUME s # <<>> PROVE Len(s) \in 1..Len(s) /\ 1 \in 1..Len(s)
  BY <1>1, <1>2
<1>3. ASSUME s # <<>> PROVE s[Len(s)] \in BlockRecs /\ s[1] \in BlockRecs
  BY <1>2, <1>3, ElementOfSeq
<1>4. \A label : label \notin LabelsOf(s) <=> \A k \in 1..Len(s) : s[k].label # label
  BY <1>1 DEF LabelsOf
<1>5. s = <<>> => Top(s).kind = "none"
  BY DEF Top, Block
<1>6. s # <<>> => Last(s) = s[Len(s)] /\ Top(s) = s[Len(s)]
  BY DEF Top, Last
<1>. QED
  BY <1>1, <1>2, <1>3, <1>4, <1>5, <1>6

\* ... of one that the author may mean, ...
LEMMA LegalMoves ==
  ASSUME BlocksTyped, Proper(intent), NEW line \in Legal
  PROVE  /\ intent' = Moved(line, intent) =>
              intent' \in Seq(BlockRecs) /\ Does(line, intent, intent') /\ Proper(intent')
         /\ line.what \in {"branch", "close"} => intent # <<>> /\ line.label = intent[Len(intent)].label
         /\ line.what = "close" => line.kind = intent[Len(intent)].kind
         /\ line.what = "open" /\ intent = <<>> => line.kind \in {"SEP", "http_route", "object"}
         /\ line.what = "open" => /\ \A k \in 1..Len(intent) : intent[k].label # line.label
                                  /\ line.kind \in {"SEP", "http_route"} => Len(intent) = 0
<1>1. line \in AllLines /\ intent \in Seq(BlockRecs)
  BY LegalIs DEF BlocksTyped
<1>2. line.what \in {"branch", "close"} => intent # <<>> /\ line.label = intent[Len(intent)].label
  BY <1>1, LegalIs, TopIs
<1>3. line.what = "close" => line.kind = intent[Len(intent)].kind
  BY <1>1, LegalIs, TopIs
<1>4. line.what = "open" /\ intent = <<>> => line.kind \in {"SEP", "http_route", "object"}
  BY LegalIs DEF Openable
<1>5. ASSUME line.what = "open"
      PROVE  /\ \A k \in 1..Len(intent) : intent[k].label # line.label
             /\ line.kind \in {"SEP", "http_route"} => Len(intent) = 0
  <2>1. \A k \in 1..Len(intent) : intent[k].label # line.label
    BY <1>1, <1>5, LegalIs, TopIs
  <2>2. ASSUME line.kind \in {"SEP", "http_route"}, intent # <<>> PROVE FALSE
    BY <1>5, <2>2, LegalIs DEF Openable
  <2>. QED
    BY <1>1, <2>1, <2>2, TopIs
<1>6. Moved(line, intent) \in Seq(BlockRecs) /\ Does(line, intent, Moved(line, intent))
  BY <1>1, <1>2, MovedDoes
<1>7. Len(intent) \in Nat
  BY <1>1, TopIs
<1>8. PICK moved \in Seq(BlockRecs) : moved = Moved(line, intent) /\ Does(line, intent, moved)
  BY <1>6
<1>9. Proper(moved)
  BY <1>1, <1>5, <1>7, <1>8, DoesProper DEF Proper
<1>. QED
  BY <1>2, <1>3, <1>4, <1>5, <1>8, <1>9

\* ... and of one that the parser accepts.
LEMMA AcceptsIs ==
  ASSUME NEW s \in Seq(BlockRecs), NEW line \in AllLines, Accepts(line, s)
  PROVE  /\ line.what \in {"branch", "close"} => s # <<>> /\ line.label = s[Len(s)].label
         /\ line.what = "close" => line.kind = s[Len(s)].kind
         /\ line.what = "open" =>
              /\ \A k \in 1..Len(s) : s[k].label # line.label
              /\ line.kind \in {"SEP", "http_route"} => Len(s) = 0 /\ s = <<>>
              /\ line.label \in SepLocal => s # <<>>
<1>1. CASE line.what = "open"
  <2>1. MayOpen(line.kind, s) /\ MayPush(line.label, s)
    BY <1>1 DEF Accepts
  <2>. QED
    BY <1>1, <2>1, TopIs DEF MayOpen, MayPush, MayPush_Again
<1>2. CASE line.what = "branch"
  <2>1. MayBranch(line.kind, Top(s)) /\ line.label = Top(s).label
    BY <1>2 DEF Accepts
  <2>2. Top(s).kind \in {"if", "try"}
    BY <2>1 DEF MayBranch, MayBranch_CatchFirst
  <2>3. s # <<>>
    BY <2>2, TopIs
  <2>. QED
    BY <1>2, <2>1, <2>3, TopIs
<1>3. CASE line.what = "close"
  <2>1. Top(s).kind = line.kind /\ Top(s).label = line.label
    BY <1>3 DEF Accepts, MayClose
  <2>2. line.kind \in Kinds
    BY <1>3, LineIs
  <2>3. s # <<>>
    BY <2>1, <2>2, TopIs DEF Kinds
  <2>. QED
    BY <1>3, <2>1, <2>3, TopIs
<1>. QED
  BY <1>1, <1>2, <1>3, LineIs

\* What is right is accepted where parser and author agree.
LEMMA LegalIsAccepted ==
  ASSUME BlocksTyped, Proper(intent), Same(stack, intent), NEW line \in Legal,
         line.what = "open" /\ line.label \in SepLocal => line.label \notin stack[1].used
  PROVE  Accepts(line, stack)
<1>1. stack \in Seq(BlockRecs) /\ intent \in Seq(BlockRecs) /\ line \in AllLines
  BY LegalIs DEF BlocksTyped
<1>2. Len(stack) = Len(intent) /\ (stack = <<>> <=> intent = <<>>)
  BY <1>1, TopIs DEF Same
<1>3. intent # <<>> => /\ Alike(stack[Len(intent)], intent[Len(intent)]) /\ Alike(stack[1], intent[1])
                       /\ BranchKnown(intent[Len(intent)])
                       /\ Top(stack) = stack[Len(intent)] /\ Last(intent) = intent[Len(intent)]
  BY <1>1, <1>2, TopIs DEF Same, Proper
<1>4. CASE line.what = "open"
  <2>1. /\ line.kind \in Openable(intent) /\ line.label \notin LabelsOf(intent)
        /\ line.label \in SepLocal => intent # <<>> /\ intent[1].kind = "SEP"
    BY <1>4, LegalIs
  <2>2. line.label \notin LabelsOf(stack)
    <3>1. \A k \in 1..Len(intent) : intent[k].label # line.label
      BY <1>1, <2>1, TopIs
    <3>2. \A k \in 1..Len(stack) : stack[k].label # line.label
      BY <1>2, <3>1 DEF Same, Alike
    <3>. QED
      BY <1>1, <3>2, TopIs
  <2>3. MayPush(line.label, stack)
    BY <1>2, <1>3, <1>4, <2>1, <2>2 DEF MayPush, MayPush_Again, Alike
  <2>4. MayOpen(line.kind, stack)
    <3>1. CASE intent = <<>>
      <4>1. line.kind \in {"SEP", "http_route", "object"} /\ Top(stack).kind = "none"
        BY <1>1, <1>2, <2>1, <3>1, TopIs DEF Openable
      <4>. QED
        BY <1>2, <3>1, <4>1 DEF MayOpen
    <3>2. CASE intent # <<>>
      <4>1. line.kind \in IF intent[Len(intent)].kind = "object" THEN {"object"} ELSE {"object", "if", "try", "while"}
        BY <1>3, <2>1, <3>2 DEF Openable
      <4>2. Top(stack).kind = intent[Len(intent)].kind
        BY <1>3, <3>2 DEF Alike
      <4>. QED
        BY <1>2, <3>2, <4>1, <4>2 DEF MayOpen
    <3>. QED
      BY <3>1, <3>2
  <2>. QED
    BY <1>4, <2>3, <2>4 DEF Accepts
<1>5. CASE line.what = "branch"
  <2>1. intent # <<>> /\ line.label = Last(intent).label /\ MayFollow(line.kind, Last(intent))
    BY <1>5, LegalIs
  <2>2. PICK b \in BlockRecs : b = intent[Len(intent)]
    BY <1>1, <2>1, TopIs
  <2>3. PICK t : t = Top(stack) /\ t.kind = b.kind /\ t.label = b.label /\ t.branch = b.branch /\ t.seen = b.seen
    BY <1>3, <2>1, <2>2 DEF Alike
  <2>4. BranchKnown(b) /\ MayFollow(line.kind, b) /\ line.label = b.label
    BY <1>3, <2>1, <2>2
  <2>5. MayBranch(line.kind, t)
    BY <2>3, <2>4 DEF BranchKnown, MayFollow, MayBranch, MayBranch_CatchFirst
  <2>. QED
    BY <1>5, <2>3, <2>4, <2>5 DEF Accepts
<1>6. CASE line.what = "close"
  <2>1. /\ intent # <<>> /\ line.kind = Last(intent).kind /\ line.label = Last(intent).label
        /\ line.kind = "try" => Last(intent).seen # {}
    BY <1>6, LegalIs
  <2>. QED
    BY <1>3, <1>6, <2>1 DEF Accepts, MayClose, Handled, Alike, BranchKnown
<1>7. CASE line = Plain
  BY <1>1, <1>7, LineIs DEF Accepts
<1>. QED
  BY <1>1, <1>4, <1>5, <1>6, <1>7, LineIs

----------------------------------------------------------------------------
\* What the parser makes of a line: it is accepted, ...
LEMMA TakeIs ==
  ASSUME NEW s \in Seq(BlockRecs), Distinct(s), Rooted(s), NEW leftovers \in SUBSET (SUBSET SepLocal),
         NEW line \in AllLines, Accepts(line, s), Take(line, s, leftovers)
  PROVE  /\ stack' \in Seq(BlockRecs) /\ Does(line, s, stack') /\ Distinct(stack') /\ Rooted(stack')
         /\ skipping' = "nothing" /\ stale' \subseteq SUBSET SepLocal /\ (leftovers = {} => stale' = {})
         /\ s # <<>> /\ stack' # <<>> => stack'[1].used \subseteq s[1].used \cup ({line.label} \cap SepLocal)
         /\ s = <<>> /\ stack' # <<>> /\ leftovers = {} => stack'[1].used = {}
<1>1. PICK leftover \in {{}} \cup (IF StopsAt(line) THEN leftovers ELSE {}) :
        stack' = After(line, s, leftover) /\ stale' \in {leftovers, leftovers \ {leftover}}
  BY Zenon DEF Take
<1>2. leftover \in SUBSET SepLocal /\ (leftovers = {} => leftover = {})
  BY <1>1
<1>3. /\ line.what \in {"branch", "close"} => s # <<>>
      /\ line.what = "open" /\ line.label \in SepLocal => s # <<>>
      /\ line.what = "open" => /\ \A k \in 1..Len(s) : s[k].label # line.label
                               /\ line.kind \in {"SEP", "http_route"} => Len(s) = 0
  BY AcceptsIs
<1>4. /\ After(line, s, leftover) \in Seq(BlockRecs) /\ Does(line, s, After(line, s, leftover))
      /\ s # <<>> /\ After(line, s, leftover) # <<>> =>
           After(line, s, leftover)[1].used \subseteq s[1].used \cup ({line.label} \cap SepLocal)
      /\ s = <<>> /\ After(line, s, leftover) # <<>> => After(line, s, leftover)[1].used = leftover
  BY <1>2, <1>3, AfterDoes
<1>5. PICK after \in Seq(BlockRecs) : after = After(line, s, leftover) /\ Does(line, s, after)
  BY <1>4
<1>6. Len(s) \in Nat
  BY TopIs
<1>7. Distinct(after) /\ Rooted(after)
  BY <1>3, <1>5, <1>6, DoesProper
<1>8. skipping' = "nothing"
  BY DEF Take
<1>9. stale' \subseteq SUBSET SepLocal /\ (leftovers = {} => stale' = {})
  BY <1>1
<1>. QED
  BY <1>1, <1>2, <1>4, <1>5, <1>7, <1>8, <1>9

\* ... or everything that is open is dropped.
LEMMA DropIs ==
  ASSUME BlocksTyped, NEW line \in AllLines, Drop(line)
  PROVE  /\ stack' = <<>> /\ stack' \in Seq(BlockRecs) /\ Distinct(stack') /\ Rooted(stack')
         /\ skipping' \in Kinds \cup {"nothing"}
<1>1. stack \in Seq(BlockRecs)
  BY DEF BlocksTyped
<1>2. stack # <<>> => stack[1].kind \in Kinds
  BY <1>1, TopIs DEF BlockRecs
<1>3. line.what = "open" => line.kind \in Kinds
  BY LineIs
<1>4. Outermost(line) \in Kinds \cup {"nothing"}
  BY <1>2, <1>3 DEF Outermost
<1>5. Recovering(line) \in Kinds \cup {"nothing"}
  BY <1>4 DEF Recovering
<1>6. stack' = <<>> /\ skipping' \in Kinds \cup {"nothing"}
  BY <1>5 DEF Drop
<1>7. stack' \in Seq(BlockRecs) /\ Len(stack') = 0
  BY <1>6, EmptySeq
<1>8. Distinct(stack') /\ Rooted(stack')
  BY <1>7 DEF Distinct, Rooted
<1>. QED
  BY <1>6, <1>7, <1>8

LEMMA LeftoverIs ==
  ASSUME BlocksTyped
  PROVE  stale \cup Leftover \in SUBSET (SUBSET SepLocal) /\ stale \in SUBSET (SUBSET SepLocal)
<1>1. stack \in Seq(BlockRecs) /\ DOMAIN stack = 1..Len(stack)
  BY LenProperties DEF BlocksTyped
<1>2. ASSUME NEW k \in DOMAIN stack PROVE stack[k].used \in SUBSET SepLocal
  <2>1. stack[k] \in BlockRecs
    BY <1>1, ElementOfSeq
  <2>. QED
    BY <2>1 DEF BlockRecs
<1>. QED
  BY <1>2 DEF Leftover, BlocksTyped

LEMMA ReadIs ==
  ASSUME BlocksTyped, Distinct(stack), Rooted(stack), NoRecovery, NEW line \in AllLines, Read(line)
  PROVE  /\ stack' \in Seq(BlockRecs) /\ Distinct(stack') /\ Rooted(stack')
         /\ skipping' \in Kinds \cup {"nothing"} /\ stale' \subseteq SUBSET SepLocal
         /\ NoRecovery'
         /\ ~diagnosed' => ~diagnosed /\ Accepts(line, stack) /\ Does(line, stack, stack')
<1>0. /\ stack \in Seq(BlockRecs) /\ stale \in SUBSET (SUBSET SepLocal)
      /\ stale \cup Leftover \in SUBSET (SUBSET SepLocal) /\ skipping \in Kinds \cup {"nothing"}
  BY LeftoverIs DEF BlocksTyped
<1>1. CASE skipping # "nothing" /\ ~StopsAt(line)
  <2>1. Skip(line)
    BY <1>1 DEF Read
  <2>2. stack' = stack /\ stale' = stale /\ diagnosed' = diagnosed /\ skipping' \in Kinds \cup {"nothing"}
    BY <1>0, <2>1 DEF Skip
  <2>3. diagnosed
    BY <1>1 DEF NoRecovery
  <2>4. diagnosed'
    BY <2>2, <2>3
  <2>. QED
    BY <1>0, <2>2, <2>4 DEF NoRecovery
<1>2. CASE ~(skipping # "nothing" /\ ~StopsAt(line)) /\ Accepts(line, stack)
  <2>1. Take(line, stack, stale) /\ diagnosed' = diagnosed
    BY <1>2 DEF Read
  <2>2. /\ stack' \in Seq(BlockRecs) /\ Does(line, stack, stack') /\ Distinct(stack') /\ Rooted(stack')
        /\ skipping' = "nothing" /\ stale' \subseteq SUBSET SepLocal /\ (stale = {} => stale' = {})
    BY <1>0, <1>2, <2>1, TakeIs
  <2>3. NoRecovery'
    BY <2>1, <2>2 DEF NoRecovery
  <2>. QED
    BY <1>2, <2>1, <2>2, <2>3
<1>3. CASE ~(skipping # "nothing" /\ ~StopsAt(line)) /\ ~Accepts(line, stack)
  <2>1. Refuse(line)
    BY <1>3 DEF Read
  <2>2. diagnosed' = TRUE
    BY <2>1 DEF Refuse
  <2>3. NoRecovery'
    BY <2>2 DEF NoRecovery
  <2>4. CASE StopsAt(line) /\ stack # <<>> /\ Accepts(line, <<>>)
    <3>1. Take(line, <<>>, stale \cup Leftover)
      BY <2>1, <2>4 DEF Refuse
    <3>2. <<>> \in Seq(BlockRecs) /\ Distinct(<<>>) /\ Rooted(<<>>)
      BY EmptySeq DEF Distinct, Rooted
    <3>3. /\ stack' \in Seq(BlockRecs) /\ Distinct(stack') /\ Rooted(stack')
          /\ skipping' = "nothing" /\ stale' \subseteq SUBSET SepLocal
      BY <1>0, <2>4, <3>1, <3>2, TakeIs
    <3>. QED
      BY <2>2, <2>3, <3>3
  <2>5. CASE ~(StopsAt(line) /\ stack # <<>> /\ Accepts(line, <<>>))
    <3>1. Drop(line)
      BY <2>1, <2>5 DEF Refuse
    <3>2. stale' = stale \cup Leftover
      BY <3>1 DEF Drop
    <3>. QED
      BY <1>0, <2>2, <2>3, <3>1, <3>2, DropIs
  <2>. QED
    BY <2>4, <2>5
<1>. QED
  BY <1>1, <1>2, <1>3

\* A SEP begins as its first line is read, whatever was open.
LEMMA SepBegins ==
  ASSUME BlocksTyped, Distinct(stack), Rooted(stack), NEW label \in Labels, label \notin SepLocal,
         NEW line \in AllLines, line.what = "open", line.kind = "SEP", line.label = label, Read(line)
  PROVE  skipping' = "nothing" /\ Does(line, <<>>, stack')
<1>0. /\ stack \in Seq(BlockRecs) /\ stale \in SUBSET (SUBSET SepLocal)
      /\ stale \cup Leftover \in SUBSET (SUBSET SepLocal)
  BY LeftoverIs DEF BlocksTyped
<1>1. StopsAt(line)
  BY DEF StopsAt
<1>2. Accepts(line, <<>>)
  <2>1. PICK none \in Seq(BlockRecs) : none = <<>>
    BY EmptySeq
  <2>2. line.label \notin LabelsOf(none)
    <3>1. Len(none) = 0
      BY <2>1, TopIs
    <3>2. \A k \in 1..Len(none) : none[k].label # line.label
      BY <3>1
    <3>. QED
      BY <3>2, TopIs
  <2>3. Top(none).kind = "none"
    BY <2>1, TopIs
  <2>. QED
    BY <2>1, <2>2, <2>3 DEF Accepts, MayOpen, MayPush, MayPush_Again
<1>3. <<>> \in Seq(BlockRecs) /\ Distinct(<<>>) /\ Rooted(<<>>)
  BY EmptySeq DEF Distinct, Rooted
<1>4. CASE Accepts(line, stack)
  <2>1. stack = <<>>
    BY <1>0, <1>4, AcceptsIs
  <2>2. Take(line, stack, stale)
    BY <1>1, <1>4 DEF Read
  <2>. QED
    BY <1>0, <1>2, <1>3, <2>1, <2>2, TakeIs
<1>5. CASE ~Accepts(line, stack)
  <2>1. stack # <<>>
    BY <1>2, <1>5
  <2>2. Refuse(line)
    BY <1>1, <1>5 DEF Read
  <2>3. Take(line, <<>>, stale \cup Leftover)
    BY <1>1, <1>2, <2>1, <2>2 DEF Refuse
  <2>. QED
    BY <1>0, <1>2, <1>3, <2>3, TakeIs
<1>. QED
  BY <1>4, <1>5

----------------------------------------------------------------------------
\* A right line.
LEMMA WriteAgrees ==
  ASSUME BlocksInv, NEW line \in Legal, Write(line)
  PROVE  RightSoFar'
<1>1. /\ stack \in Seq(BlockRecs) /\ intent \in Seq(BlockRecs) /\ line \in AllLines
      /\ Len(stack) \in Nat /\ Len(intent) \in Nat
  BY LegalIs, TopIs DEF BlocksInv, BlocksTyped
<1>2. SUFFICES ASSUME mistakes = 0
               PROVE  /\ ~diagnosed' /\ Same(stack', intent')
                      /\ stack' # <<>> => stack'[1].used \subseteq local'
  BY DEF RightSoFar, Write
<1>3. /\ ~diagnosed /\ Same(stack, intent) /\ (stack # <<>> => stack[1].used \subseteq local)
      /\ skipping = "nothing" /\ stale = {}
  BY <1>2 DEF BlocksInv, RightSoFar, NoRecovery
<1>4. stack = <<>> <=> intent = <<>>
  BY <1>1, <1>3, TopIs DEF Same
<1>5. Accepts(line, stack)
  <2>1. line.what = "open" /\ line.label \in SepLocal => intent # <<>> /\ line.label \notin local
    BY LegalIs DEF BlocksInv
  <2>2. line.what = "open" /\ line.label \in SepLocal => line.label \notin stack[1].used
    BY <1>3, <1>4, <2>1
  <2>. QED
    BY <1>3, <2>2, LegalIsAccepted DEF BlocksInv
<1>6. Take(line, stack, stale) /\ diagnosed' = diagnosed
  BY <1>3, <1>5 DEF Write, Read
<1>7. /\ stack' \in Seq(BlockRecs) /\ Does(line, stack, stack')
      /\ stack # <<>> /\ stack' # <<>> => stack'[1].used \subseteq stack[1].used \cup ({line.label} \cap SepLocal)
      /\ stack = <<>> /\ stack' # <<>> => stack'[1].used = {}
  <2>1. {} \in SUBSET (SUBSET SepLocal) /\ Distinct(stack) /\ Rooted(stack)
    BY DEF BlocksInv
  <2>. QED
    BY <1>1, <1>3, <1>5, <1>6, <2>1, TakeIs
<1>8. /\ intent' = Moved(line, intent)
      /\ intent # <<>> => local' = local \cup ({line.label} \cap SepLocal)
  BY DEF Write, Means
<1>9. Does(line, intent, intent')
  BY <1>8, LegalMoves DEF BlocksInv
<1>10. Same(stack', intent')
  BY <1>1, <1>3, <1>7, <1>9, DoesSame
<1>11. stack' # <<>> => stack'[1].used \subseteq local'
  BY <1>3, <1>4, <1>7, <1>8
<1>. QED
  BY <1>3, <1>6, <1>10, <1>11

LEMMA WriteClean ==
  ASSUME BlocksInv, NEW line \in Legal, Write(line)
  PROVE  CleanSep' /\ NextSepParsed'
<1>1. /\ stack \in Seq(BlockRecs) /\ intent \in Seq(BlockRecs) /\ line \in AllLines
      /\ Len(stack) \in Nat /\ Len(intent) \in Nat /\ stale \in SUBSET (SUBSET SepLocal)
      /\ BlocksTyped /\ Proper(intent) /\ Distinct(stack) /\ Rooted(stack)
  BY LegalIs, TopIs DEF BlocksInv, BlocksTyped
<1>2. /\ intent' = Moved(line, intent) /\ Read(line)
      /\ clean' = (clean \/ (line.what = "open" /\ intent = <<>>))
      /\ local' = (IF line.what = "open" /\ intent = <<>> THEN {} ELSE local) \cup ({line.label} \cap SepLocal)
  BY Zenon DEF Write, Means
<1>3. intent' \in Seq(BlockRecs) /\ Does(line, intent, intent')
  BY <1>1, <1>2, LegalMoves
<1>4. CleanSep'
  <2>1. SUFFICES ASSUME clean', local' = {}, intent' # <<>>, intent'[1].kind = "SEP"
                 PROVE  skipping' = "nothing" /\ Same(stack', intent')
    BY DEF CleanSep
  <2>2. line.label \notin SepLocal
    BY <1>2, <2>1
  <2>3. CASE line.what = "open" /\ intent = <<>>
    <3>1. PICK none : none = <<>> /\ none = intent
      BY <2>3
    <3>2. Grows(line, none, intent') /\ Len(none) = 0
      BY <1>1, <1>3, <2>3, <3>1, TopIs DEF Does
    <3>3. line.kind = "SEP" /\ line.label \in Labels
      BY <1>1, <2>1, <2>3, <3>2, LineIs DEF Grows
    <3>4. skipping' = "nothing" /\ Does(line, none, stack')
      BY <1>1, <1>2, <2>2, <2>3, <3>1, <3>3, SepBegins
    <3>5. Same(none, none)
      BY <3>2 DEF Same
    <3>. QED
      BY <1>1, <1>3, <3>1, <3>2, <3>4, <3>5, DoesSame
  <2>4. CASE ~(line.what = "open" /\ intent = <<>>)
    <3>1. clean /\ local = {}
      BY <1>2, <2>1, <2>4
    <3>2. intent # <<>>
      <4>1. SUFFICES ASSUME intent = <<>> PROVE FALSE
        OBVIOUS
      <4>2. line = Plain
        BY <1>1, <2>4, <4>1, LegalMoves, LineIs
      <4>. QED
        BY <1>3, <2>1, <4>1, <4>2 DEF Does
    <3>3. intent[1].kind = "SEP"
      <4>1. Len(intent) >= 1 /\ Len(intent') >= 1
        BY <1>1, <1>3, <2>1, <3>2, TopIs
      <4>2. line.what = "open" => Alike(intent'[1], intent[1])
        BY <1>1, <1>3, <4>1 DEF Does, Grows
      <4>3. line.what = "branch" => intent'[1].kind = intent[1].kind
        <5>1. SUFFICES ASSUME Marks(line, intent, intent') PROVE intent'[1].kind = intent[1].kind
          BY <1>3 DEF Does
        <5>2. CASE Len(intent) = 1
          BY <5>1, <5>2 DEF Marks
        <5>3. CASE Len(intent) # 1
          <6>1. Len(intent) \in Nat
            BY <1>1
          <6>2. PICK n \in Nat : n = Len(intent)
            BY <6>1
          <6>3. 1 \in 1..(n - 1)
            BY <4>1, <5>3, <6>2
          <6>. QED
            BY <5>1, <6>2, <6>3 DEF Marks, Alike
        <5>. QED
          BY <5>2, <5>3
      <4>4. line.what = "close" => Alike(intent'[1], intent[1])
        BY <1>1, <1>3, <4>1 DEF Does, Shrinks
      <4>5. line = Plain => intent' = intent
        BY <1>3 DEF Does
      <4>. QED
        BY <1>1, <2>1, <4>2, <4>3, <4>4, <4>5, LineIs DEF Alike
    <3>4. skipping = "nothing" /\ Same(stack, intent)
      BY <3>1, <3>2, <3>3 DEF BlocksInv, CleanSep
    <3>5. Accepts(line, stack)
      BY <1>1, <2>2, <3>4, LegalIsAccepted
    <3>6. Take(line, stack, stale)
      BY <1>2, <3>4, <3>5 DEF Read
    <3>7. skipping' = "nothing" /\ Does(line, stack, stack')
      BY <1>1, <3>5, <3>6, TakeIs
    <3>. QED
      BY <1>1, <1>3, <3>4, <3>7, DoesSame
  <2>. QED
    BY <2>3, <2>4
<1>5. NextSepParsed'
  <2>1. SUFFICES ASSUME EndsRecovery(line, "SEP"), clean, skipping # "nothing" \/ ~Accepts(line, stack), local = {}
                 PROVE  FALSE
    <3>1. lost' = IF EndsRecovery(line, "SEP") /\ clean /\ (skipping # "nothing" \/ ~Accepts(line, stack))
                  THEN IF local = {} THEN "plain" ELSE "local" ELSE lost
      BY DEF Write
    <3>2. lost # "plain"
      BY DEF BlocksInv, NextSepParsed
    <3>. QED
      BY <3>1, <3>2 DEF NextSepParsed
  <2>2. line.what = "close" /\ line.kind = "SEP"
    BY <2>1 DEF EndsRecovery
  <2>3. intent # <<>> /\ intent[Len(intent)].kind = "SEP"
    BY <1>1, <2>2, LegalMoves
  <2>4. Len(intent) = 1
    <3>1. Len(intent) \in 1..Len(intent)
      BY <1>1, <2>3, TopIs
    <3>. QED
      BY <1>1, <2>3, <3>1 DEF Proper, Rooted
  <2>5. skipping = "nothing" /\ Same(stack, intent)
    BY <2>1, <2>3, <2>4 DEF BlocksInv, CleanSep
  <2>6. Accepts(line, stack)
    BY <1>1, <2>2, <2>5, LegalIsAccepted
  <2>. QED
    BY <2>1, <2>5, <2>6
<1>. QED
  BY <1>4, <1>5

\* Any line, whatever was meant.
LEMMA LineKeeps ==
  ASSUME BlocksInv, NEW line \in AllLines, NEW meant \in Legal, Means(meant), Read(line)
  PROVE  /\ stack' \in Seq(BlockRecs) /\ intent' \in Seq(BlockRecs)
         /\ skipping' \in Kinds \cup {"nothing"} /\ stale' \subseteq SUBSET SepLocal
         /\ Proper(intent') /\ Distinct(stack') /\ Rooted(stack') /\ NoRecovery'
         /\ Does(meant, intent, intent')
         /\ ~diagnosed' => ~diagnosed /\ Accepts(line, stack) /\ Does(line, stack, stack')
<1>1. BlocksTyped /\ Proper(intent) /\ Distinct(stack) /\ Rooted(stack) /\ NoRecovery
  BY DEF BlocksInv
<1>2. intent' = Moved(meant, intent)
  BY DEF Means
<1>3. intent' \in Seq(BlockRecs) /\ Does(meant, intent, intent') /\ Proper(intent')
  BY <1>1, <1>2, LegalMoves
<1>. QED
  BY <1>1, <1>3, ReadIs

LEMMA WriteKeeps ==
  ASSUME BlocksInv, NEW line \in Legal, Write(line)
  PROVE  BlocksInv'
<1>1. line \in AllLines /\ Means(line) /\ Read(line) /\ mistakes' = mistakes /\ mistakes \in Nat
  BY LegalIs DEF Write, BlocksInv, BlocksTyped
<1>2. /\ stack' \in Seq(BlockRecs) /\ intent' \in Seq(BlockRecs)
      /\ skipping' \in Kinds \cup {"nothing"} /\ stale' \subseteq SUBSET SepLocal
      /\ Proper(intent') /\ Distinct(stack') /\ Rooted(stack') /\ NoRecovery'
  BY <1>1, LineKeeps
<1>3. RightSoFar' /\ CleanSep' /\ NextSepParsed'
  BY WriteAgrees, WriteClean
<1>. QED
  BY <1>1, <1>2, <1>3 DEF BlocksInv, BlocksTyped

\* A mistake.
LEMMA ErrsKeeps ==
  ASSUME BlocksInv, NEW line \in AllLines, NEW meant \in Legal, Errs(line, meant)
  PROVE  BlocksInv'
<1>1. /\ Means(meant) /\ Read(line) /\ mistakes' = mistakes + 1 /\ mistakes \in Nat
      /\ clean' = FALSE /\ lost' = lost
  BY DEF Errs, BlocksInv, BlocksTyped
<1>2. /\ stack' \in Seq(BlockRecs) /\ intent' \in Seq(BlockRecs)
      /\ skipping' \in Kinds \cup {"nothing"} /\ stale' \subseteq SUBSET SepLocal
      /\ Proper(intent') /\ Distinct(stack') /\ Rooted(stack') /\ NoRecovery'
  BY <1>1, LineKeeps
<1>3. mistakes' \in Nat /\ mistakes' # 0
  BY <1>1
<1>4. RightSoFar'
  BY <1>3 DEF RightSoFar
<1>5. CleanSep'
  BY <1>1 DEF CleanSep
<1>6. NextSepParsed'
  BY <1>1 DEF BlocksInv, NextSepParsed
<1>. QED
  BY <1>2, <1>3, <1>4, <1>5, <1>6 DEF BlocksInv, BlocksTyped

LEMMA EofKeeps ==
  ASSUME BlocksInv, EndOfFile
  PROVE  BlocksInv'
<1>1. /\ intent = <<>> /\ stack' = <<>> /\ intent' = intent /\ skipping' = skipping /\ stale' = stale
      /\ mistakes' = mistakes /\ local' = local /\ clean' = clean /\ lost' = lost
  BY DEF EndOfFile
<1>2. (diagnosed' <=> diagnosed \/ stack # <<>>)
  BY Zenon DEF EndOfFile
<1>3. stack' \in Seq(BlockRecs) /\ Len(stack') = 0
  BY <1>1, EmptySeq
<1>4. Distinct(stack') /\ Rooted(stack')
  BY <1>3 DEF Distinct, Rooted
<1>5. BlocksTyped'
  BY <1>1, <1>3 DEF BlocksInv, BlocksTyped
<1>6. Proper(intent')
  BY <1>1 DEF BlocksInv
<1>7. NoRecovery'
  BY <1>1, <1>2 DEF BlocksInv, NoRecovery
<1>8. RightSoFar'
  <2>1. SUFFICES ASSUME mistakes = 0 PROVE ~diagnosed' /\ Same(stack', intent')
    BY <1>1 DEF RightSoFar
  <2>2. ~diagnosed /\ Same(stack, intent)
    BY <2>1 DEF BlocksInv, RightSoFar
  <2>3. stack = <<>>
    <3>1. stack \in Seq(BlockRecs) /\ Len(intent) = 0
      BY <1>1, TopIs DEF BlocksInv, BlocksTyped
    <3>. QED
      BY <2>2, <3>1, TopIs DEF Same
  <2>. QED
    BY <1>1, <1>2, <2>2, <2>3
<1>9. CleanSep'
  BY <1>1 DEF CleanSep
<1>10. NextSepParsed'
  BY <1>1 DEF BlocksInv, NextSepParsed
<1>. QED
  BY <1>4, <1>5, <1>6, <1>7, <1>8, <1>9, <1>10 DEF BlocksInv

----------------------------------------------------------------------------
\* After one mistake they are off by one block, until it is noticed.
LEMMA SameSymmetric ==
  ASSUME NEW s, NEW t, Same(s, t)
  PROVE  Same(t, s)
  BY DEF Same, Alike

LEMMA OneAdded ==
  ASSUME NEW s, NEW t, NEW u, NEW line, Len(s) \in Nat, Len(t) \in Nat, Same(s, t), Grows(line, s, u)
  PROVE  Len(s) + 1 \in Nat /\ Extra(u, t, Len(s) + 1)
<1>1. PICK n \in Nat : n = Len(s) /\ n = Len(t) /\ n + 1 = Len(u)
  BY DEF Same, Grows
<1>2. n + 1 \in Nat /\ n + 1 \in 1..(n + 1) /\ \A k \in 1..n : k < n + 1 /\ ~(k >= n + 1)
  OBVIOUS
<1>3. \A k \in 1..n : Alike(u[k], s[k]) /\ Alike(s[k], t[k])
  BY <1>1 DEF Same, Grows
<1>4. \A k \in 1..n : Alike(u[k], t[k])
  BY <1>3 DEF Alike
<1>. QED
  BY <1>1, <1>2, <1>4 DEF Extra

LEMMA OneTaken ==
  ASSUME NEW s, NEW t, NEW u, Len(s) \in Nat, Len(t) \in Nat, Same(s, t), Shrinks(s, u)
  PROVE  Len(s) \in Nat /\ Extra(t, u, Len(s))
<1>1. PICK n \in Nat : n = Len(s) /\ n = Len(t) /\ n >= 1 /\ n - 1 = Len(u)
  BY DEF Same, Shrinks
<1>2. n \in 1..n /\ n = n - 1 + 1 /\ \A k \in 1..(n - 1) : k < n /\ ~(k >= n) /\ k \in 1..n
  BY <1>1
<1>3. \A k \in 1..(n - 1) : Alike(u[k], s[k]) /\ Alike(s[k], t[k])
  BY <1>1, <1>2 DEF Same, Shrinks
<1>4. \A k \in 1..(n - 1) : Alike(t[k], u[k])
  BY <1>3 DEF Alike
<1>. QED
  BY <1>1, <1>2, <1>4 DEF Extra

\* The first mistake.
LEMMA FirstMistake ==
  ASSUME BlocksInv, mistakes = 0, NEW line \in AllLines, NEW meant \in Legal, Means(meant), Read(line), ~diagnosed',
         \/ line = Plain /\ Structural(meant)
         \/ meant = Plain /\ Structural(line)
         \/ line # meant /\ line.what = meant.what /\ Structural(meant)
  PROVE  OneOff(stack', intent')
<1>1. /\ stack \in Seq(BlockRecs) /\ intent \in Seq(BlockRecs) /\ BlocksTyped /\ Proper(intent)
      /\ Len(stack) \in Nat /\ Len(intent) \in Nat
      /\ Same(stack, intent) /\ Same(intent, stack) /\ meant \in AllLines
  BY LegalIs, TopIs, SameSymmetric DEF BlocksInv, BlocksTyped, RightSoFar
<1>2. Does(meant, intent, intent') /\ Accepts(line, stack) /\ Does(line, stack, stack')
  BY LineKeeps
<1>3. CASE line = Plain /\ Structural(meant)
  <2>1. stack' = stack
    BY <1>2, <1>3 DEF Does
  <2>2. CASE meant.what = "open"
    <3>1. Extra(intent', stack, Len(intent) + 1) /\ Len(intent) + 1 \in Nat
      BY <1>1, <1>2, <2>2, OneAdded DEF Does
    <3>. QED
      BY <2>1, <3>1 DEF OneOff
  <2>3. CASE meant.what = "close"
    <3>1. Extra(stack, intent', Len(intent))
      BY <1>1, <1>2, <2>3, OneTaken DEF Does
    <3>. QED
      BY <1>1, <2>1, <3>1 DEF OneOff
  <2>. QED
    BY <1>3, <2>2, <2>3 DEF Structural
<1>4. CASE meant = Plain /\ Structural(line)
  <2>1. intent' = intent
    BY <1>2, <1>4 DEF Does
  <2>2. CASE line.what = "open"
    <3>1. Extra(stack', intent, Len(stack) + 1) /\ Len(stack) + 1 \in Nat
      BY <1>1, <1>2, <2>2, OneAdded DEF Does
    <3>. QED
      BY <2>1, <3>1 DEF OneOff
  <2>3. CASE line.what = "close"
    <3>1. Extra(intent, stack', Len(stack))
      BY <1>1, <1>2, <2>3, OneTaken DEF Does
    <3>. QED
      BY <1>1, <2>1, <3>1 DEF OneOff
  <2>. QED
    BY <1>4, <2>2, <2>3 DEF Structural
<1>5. CASE line # meant /\ line.what = meant.what /\ Structural(meant)
  <2>1. line.kind # meant.kind \/ line.label # meant.label
    BY <1>1, <1>5, LineIs
  <2>2. CASE meant.what = "open"
    <3>1. Grows(line, stack, stack') /\ Grows(meant, intent, intent')
      BY <1>2, <1>5, <2>2 DEF Does
    <3>2. PICK n \in Nat : n = Len(stack) /\ n = Len(intent)
      BY <1>1 DEF Same
    <3>3. /\ Len(stack') = n + 1 /\ Len(intent') = n + 1
          /\ \A k \in 1..n : Alike(stack'[k], stack[k]) /\ Alike(intent'[k], intent[k]) /\ Alike(stack[k], intent[k])
          /\ stack'[n + 1].kind # intent'[n + 1].kind \/ stack'[n + 1].label # intent'[n + 1].label
      BY <1>1, <2>1, <3>1, <3>2 DEF Grows, Same
    <3>4. \A k \in 1..n : Alike(stack'[k], intent'[k])
      BY <3>3 DEF Alike
    <3>5. n + 1 \in Nat /\ n + 1 \in 1..(n + 1) /\ \A k \in 1..(n + 1) : k # n + 1 => k \in 1..n
      OBVIOUS
    <3>6. Differs(stack', intent', n + 1)
      BY <3>3, <3>4, <3>5 DEF Differs
    <3>. QED
      BY <3>5, <3>6 DEF OneOff
  <2>3. CASE meant.what = "close"
    <3>1. stack # <<>> /\ line.label = stack[Len(stack)].label /\ line.kind = stack[Len(stack)].kind
      BY <1>1, <1>2, <1>5, <2>3, AcceptsIs
    <3>2. intent # <<>> /\ meant.label = intent[Len(intent)].label /\ meant.kind = intent[Len(intent)].kind
      BY <1>1, <2>3, LegalMoves
    <3>3. Alike(stack[Len(intent)], intent[Len(intent)]) /\ Len(stack) = Len(intent)
      BY <1>1, <3>2, TopIs DEF Same
    <3>. QED
      BY <2>1, <3>1, <3>2, <3>3 DEF Alike
  <2>. QED
    BY <1>5, <2>2, <2>3 DEF Structural
<1>. QED
  BY <1>3, <1>4, <1>5

\* A right line after it.
LEMMA AfterMistake ==
  ASSUME BlocksInv, OneOff(stack, intent), NEW line \in Legal, Means(line), Read(line), ~diagnosed'
  PROVE  OneOff(stack', intent')
<1>1. /\ stack \in Seq(BlockRecs) /\ intent \in Seq(BlockRecs) /\ line \in AllLines /\ BlocksTyped
      /\ Len(stack) \in Nat /\ Len(intent) \in Nat /\ Distinct(stack) /\ Proper(intent) /\ Distinct(intent)
  BY LegalIs, TopIs DEF BlocksInv, BlocksTyped, Proper
<1>2. Does(line, intent, intent') /\ Accepts(line, stack) /\ Does(line, stack, stack')
  BY <1>1, LineKeeps
<1>3. line.what \in {"branch", "close"} =>
        /\ Len(stack) >= 1 /\ line.label = stack[Len(stack)].label
        /\ Len(intent) >= 1 /\ line.label = intent[Len(intent)].label
  BY <1>1, <1>2, AcceptsIs, LegalMoves, TopIs
<1>4. PICK p \in Nat : Extra(stack, intent, p) \/ Extra(intent, stack, p) \/ Differs(stack, intent, p)
  BY DEF OneOff
<1>5. CASE Extra(stack, intent, p)
  <2>1. line.what \in {"branch", "close"} => p # Len(stack)
    BY <1>1, <1>3, <1>5, BothHave
  <2>2. Extra(stack', intent', p)
    BY <1>1, <1>2, <1>5, <2>1, DoesExtra
  <2>. QED
    BY <2>2 DEF OneOff
<1>6. CASE Extra(intent, stack, p)
  <2>1. line.what \in {"branch", "close"} => p # Len(intent)
    BY <1>1, <1>3, <1>6, BothHave
  <2>2. Extra(intent', stack', p)
    BY <1>1, <1>2, <1>6, <2>1, DoesExtra
  <2>. QED
    BY <2>2 DEF OneOff
<1>7. CASE Differs(stack, intent, p)
  <2>1. ASSUME line.what \in {"branch", "close"}, p = Len(intent) PROVE FALSE
    <3>1. Len(stack) = p /\ stack # <<>> /\ intent # <<>>
      BY <1>1, <1>3, <1>7, <2>1, TopIs DEF Differs
    <3>2. stack[p].kind # intent[p].kind
      BY <1>3, <1>7, <2>1, <3>1 DEF Differs
    <3>3. CASE line.what = "close"
      BY <1>1, <1>2, <2>1, <3>1, <3>2, <3>3, AcceptsIs, LegalMoves
    <3>4. CASE line.what = "branch"
      <4>1. MayBranch(line.kind, stack[p]) /\ MayFollow(line.kind, intent[p])
        BY <1>1, <1>2, <2>1, <3>1, <3>4, LegalIs, TopIs DEF Accepts
      <4>. QED
        BY <3>2, <4>1 DEF MayBranch, MayBranch_CatchFirst, MayFollow
    <3>. QED
      BY <2>1, <3>3, <3>4
  <2>2. Differs(stack', intent', p)
    BY <1>1, <1>2, <1>7, <2>1, DoesDiffers
  <2>. QED
    BY <2>2 DEF OneOff
<1>. QED
  BY <1>4, <1>5, <1>6, <1>7

----------------------------------------------------------------------------
(* The theorems.                                                           *)

LEMMA StepKeeps ==
  ASSUME BlocksInv, BlocksNext
  PROVE  BlocksInv'
<1>1. CASE EndOfFile
  BY <1>1, EofKeeps
<1>2. ASSUME NEW line \in Legal, Write(line) PROVE BlocksInv'
  BY <1>2, WriteKeeps
<1>3. ASSUME NEW line \in {l \in Legal : Structural(l)}, LeaveOut(line) PROVE BlocksInv'
  <2>1. Plain \in AllLines
    BY DEF AllLines
  <2>. QED
    BY <1>3, <2>1, ErrsKeeps DEF LeaveOut
<1>4. ASSUME NEW line \in Openers \cup Closers, AddLine(line) PROVE BlocksInv'
  <2>1. Plain \in Legal /\ line \in AllLines
    BY DEF Legal, AllLines
  <2>. QED
    BY <1>4, <2>1, ErrsKeeps DEF AddLine
<1>5. ASSUME NEW meant \in {l \in Legal : Structural(l)}, NEW line \in Openers \cup Closers, Mistake(line, meant)
      PROVE  BlocksInv'
  <2>1. line \in AllLines
    BY DEF AllLines
  <2>. QED
    BY <1>5, <2>1, ErrsKeeps DEF Mistake
<1>. QED
  BY <1>1, <1>2, <1>3, <1>4, <1>5, Zenon DEF BlocksNext

\* ended: the file is read, and both have closed all.
MistakeInv == OneMistake /\ (ended => stack = <<>> /\ intent = <<>>)

LEMMA StepKeepsOne ==
  ASSUME MaxMistakes \in 0..1, BlocksInv, MistakeInv, BlocksNext
  PROVE  MistakeInv'
<1>1. CASE EndOfFile
  <2>1. /\ intent = <<>> /\ stack' = <<>> /\ intent' = intent /\ mistakes' = mistakes
        /\ (diagnosed' <=> diagnosed \/ stack # <<>>)
    BY <1>1, Zenon DEF EndOfFile
  <2>. QED
    BY <2>1 DEF MistakeInv, OneMistake
<1>2. CASE ~EndOfFile
  <2>0. ~ended'
    BY <1>2, Zenon DEF BlocksNext
  <2>1. SUFFICES ASSUME mistakes' # 0, ~diagnosed' PROVE OneOff(stack', intent')
    BY <2>0 DEF MistakeInv, OneMistake
  <2>2. ASSUME NEW line \in Legal, Write(line) PROVE OneOff(stack', intent')
    <3>1. mistakes' = mistakes /\ Means(line) /\ Read(line) /\ line \in AllLines
      BY <2>2, LegalIs DEF Write, BlocksInv
    <3>2. ~diagnosed
      BY <2>1, <3>1, LineKeeps
    <3>3. OneOff(stack, intent)
      BY <2>1, <3>1, <3>2 DEF MistakeInv, OneMistake
    <3>. QED
      BY <2>1, <3>1, <3>3, AfterMistake
  <2>3. ASSUME NEW line, NEW meant, Errs(line, meant) PROVE mistakes = 0 /\ Means(meant) /\ Read(line)
    <3>1. mistakes < MaxMistakes /\ mistakes \in Nat /\ Means(meant) /\ Read(line)
      BY <2>3 DEF Errs, BlocksInv, BlocksTyped
    <3>. QED
      BY <3>1
  <2>4. ASSUME NEW line \in {l \in Legal : Structural(l)}, LeaveOut(line) PROVE OneOff(stack', intent')
    <3>1. Plain \in AllLines /\ line \in Legal /\ Structural(line)
      BY DEF AllLines
    <3>. QED
      BY <2>1, <2>3, <2>4, <3>1, FirstMistake DEF LeaveOut
  <2>5. ASSUME NEW line \in Openers \cup Closers, AddLine(line) PROVE OneOff(stack', intent')
    <3>1. Plain \in Legal /\ line \in AllLines /\ Structural(line)
      BY DEF Legal, AllLines, Openers, Closers, Line, Structural
    <3>. QED
      BY <2>1, <2>3, <2>5, <3>1, FirstMistake DEF AddLine
  <2>6. ASSUME NEW meant \in {l \in Legal : Structural(l)}, NEW line \in Openers \cup Closers, Mistake(line, meant)
        PROVE  OneOff(stack', intent')
    <3>1. line \in AllLines /\ meant \in Legal /\ Structural(meant)
      BY DEF AllLines
    <3>. QED
      BY <2>1, <2>3, <2>6, <3>1, FirstMistake DEF Mistake
  <2>. QED
    BY <1>2, <2>2, <2>4, <2>5, <2>6, Zenon DEF BlocksNext
<1>. QED
  BY <1>1, <1>2

LEMMA InitIsBlocks ==
  BlocksInit => BlocksInv /\ MistakeInv
<1>. SUFFICES ASSUME BlocksInit PROVE BlocksInv /\ MistakeInv
  OBVIOUS
<1>1. /\ stack = <<>> /\ skipping = "nothing" /\ stale = {} /\ diagnosed = FALSE
      /\ intent = <<>> /\ mistakes = 0 /\ lost = "none" /\ ended = FALSE
  BY DEF BlocksInit
<1>2. <<>> \in Seq(BlockRecs) /\ Len(<<>>) = 0
  BY EmptySeq
<1>3. Distinct(<<>>) /\ Rooted(<<>>) /\ Proper(<<>>) /\ Same(<<>>, <<>>)
  BY <1>2 DEF Distinct, Rooted, Proper, Same
<1>4. BlocksTyped
  BY <1>1, <1>2 DEF BlocksTyped
<1>5. NoRecovery /\ RightSoFar
  BY <1>1, <1>3 DEF NoRecovery, RightSoFar
<1>6. CleanSep /\ NextSepParsed
  BY <1>1 DEF CleanSep, NextSepParsed
<1>7. MistakeInv
  BY <1>1 DEF MistakeInv, OneMistake
<1>. QED
  BY <1>1, <1>3, <1>4, <1>5, <1>6, <1>7 DEF BlocksInv

LEMMA BlocksInvMeans ==
  ASSUME BlocksInv
  PROVE  BlocksTypeOK /\ RightIsAccepted /\ NextSepParsed
<1>1. /\ stack \in Seq(BlockRecs) /\ DOMAIN stack = 1..Len(stack)
      /\ Distinct(stack) /\ Rooted(stack) /\ skipping \in Kinds \cup {"nothing"}
  BY LenProperties DEF BlocksInv, BlocksTyped
<1>2. ASSUME NEW k \in DOMAIN stack PROVE stack[k].kind \in Kinds /\ stack[k].used \subseteq SepLocal
  <2>1. stack[k] \in BlockRecs
    BY <1>1, ElementOfSeq
  <2>. QED
    BY <2>1 DEF BlockRecs
<1>3. IsInjective([k \in DOMAIN stack |-> stack[k].label])
  BY <1>1 DEF Distinct, IsInjective
<1>4. \A k \in DOMAIN stack : stack[k].kind \in {"SEP", "http_route"} => k = 1
  BY <1>1 DEF Rooted
<1>5. BlocksTypeOK
  BY <1>1, <1>2, <1>3, <1>4 DEF BlocksTypeOK
<1>6. RightIsAccepted /\ NextSepParsed
  BY DEF BlocksInv, RightSoFar, RightIsAccepted
<1>. QED
  BY <1>5, <1>6

LEMMA MistakeInvMeans ==
  ASSUME BlocksInv, MistakeInv
  PROVE  MistakeIsFound
<1>1. SUFFICES ASSUME ended, mistakes > 0, ~diagnosed PROVE FALSE
  BY DEF MistakeIsFound
<1>2. mistakes # 0
  BY <1>1 DEF BlocksInv, BlocksTyped
<1>3. OneOff(<<>>, <<>>)
  BY <1>1, <1>2 DEF MistakeInv, OneMistake
<1>4. Len(<<>>) = 0
  BY EmptySeq
<1>. QED
  BY <1>3, <1>4 DEF OneOff, Extra, Differs

\* Whatever mistakes there are: what is open is what may be open, a right program has no
\* diagnostic, and a SEP without a mistake is parsed after the broken ones before it.
THEOREM BlocksAlwaysSound ==
  BlocksSpec => [](BlocksTypeOK /\ RightIsAccepted /\ NextSepParsed)
<1>1. BlocksInit => BlocksInv
  BY InitIsBlocks
<1>2. BlocksInv /\ [BlocksNext]_blockVars => BlocksInv'
  <2>1. ASSUME BlocksInv, UNCHANGED blockVars PROVE BlocksInv'
    BY <2>1 DEF blockVars, parserVars, BlocksInv, BlocksTyped, Proper, NoRecovery, RightSoFar, CleanSep,
                NextSepParsed
  <2>. QED
    BY <2>1, StepKeeps
<1>3. BlocksInv => BlocksTypeOK /\ RightIsAccepted /\ NextSepParsed
  BY BlocksInvMeans
<1>. QED
  BY <1>1, <1>2, <1>3, PTL DEF BlocksSpec

\* And one mistake with an opener or a closer, anywhere in a program of any size, is noticed.
\* (Of two, the second may undo the first.)
THEOREM BlocksAlwaysKept ==
  ASSUME MaxMistakes \in 0..1
  PROVE  BlocksSpec => []BlocksKept
<1>. DEFINE Inv == BlocksInv /\ MistakeInv
<1>1. BlocksInit => Inv
  BY InitIsBlocks
<1>2. Inv /\ [BlocksNext]_blockVars => Inv'
  <2>1. ASSUME Inv, UNCHANGED blockVars PROVE Inv'
    BY <2>1 DEF blockVars, parserVars, BlocksInv, BlocksTyped, Proper, NoRecovery, RightSoFar, CleanSep,
                NextSepParsed, MistakeInv, OneMistake
  <2>. QED
    BY <2>1, StepKeeps, StepKeepsOne
<1>3. Inv => BlocksKept
  BY BlocksInvMeans, MistakeInvMeans DEF BlocksKept
<1>. QED
  BY <1>1, <1>2, <1>3, PTL DEF BlocksSpec

----------------------------------------------------------------------------
(* Embedded: the board a program is written for.                           *)

\* What an operation, or a bus, asks of the pins of its board.
OfBoard(done) ==
  /\ done.board \in allowed /\ target \in {"none", done.board}
  /\ \A need \in done.needs :
       /\ need[1].board = done.board
       /\ need[2] \in PinNamed(need[1].board, need[1].name).capabilities
       /\ need[3] # AnyRoute => <<need[2], need[3]>> \in PinNamed(need[1].board, need[1].name).routes

\* m is a record with the fields of machine.
IsMachine(m) == m \in [board : {m.board}, led : {m.led}, bus : {m.bus}, done : {m.done}, failed : {m.failed}]
EmbeddedTyped ==
  /\ IsMachine(machine)
  /\ machine.failed \in BOOLEAN /\ refused \in BOOLEAN /\ skipped \in BOOLEAN
  /\ branching \in BOOLEAN /\ loose \in BOOLEAN
  /\ target \in Boards \cup {"none"} /\ "none" \notin allowed /\ target \in allowed \cup {"none"}
\* The board of the machine is the one the program is for, if there is one.
BoardLocked == target # "none" => machine.board = target
BusRight    == machine.bus # NoBus => OfBoard(machine.bus)
SafeBoard   == EmbeddedTyped /\ BoardLocked /\ BusRight /\ PerformedRight

\* Without branches, and until something fails, led is the pin the validator believes it to
\* be; unless it is a string, the validator knows the pin.
LedKnown ==
  target # "none" /\ ~branching /\ ~machine.failed =>
    /\ believed # "none" => Has(target, believed) /\ machine.led = Pin(target, believed)
    /\ ~loose /\ machine.led # NoPin => believed # "none"
ValidatorAgrees ==
  /\ skipped => branching
  /\ refused => target # "none"
  /\ RefusedFails /\ FailingRefused /\ LedKnown
EmbeddedInv == SafeBoard /\ ValidatorAgrees

\* What a statement may do to the board: nothing, fail, or what is right.
LEMMA RunKeeps ==
  ASSUME SafeBoard, UNCHANGED <<target, allowed>>, NEW after, Run(after),
         IsMachine(after),
         after.failed \in BOOLEAN, target # "none" => after.board = target,
         after.bus # NoBus => OfBoard(after.bus),
         after.done # NotPerformed => OfBoard(after.done),
         refused' \in BOOLEAN, skipped' \in BOOLEAN, branching' \in BOOLEAN, loose' \in BOOLEAN
  PROVE  SafeBoard'
<1>1. machine' = machine \/ machine' = after
  BY DEF Run
<1>2. EmbeddedTyped' /\ BoardLocked'
  BY <1>1 DEF SafeBoard, EmbeddedTyped, BoardLocked
<1>3. BusRight'
  BY <1>1 DEF SafeBoard, BusRight, OfBoard
<1>4. PerformedRight'
  BY <1>1 DEF SafeBoard, PerformedRight, OfBoard
<1>. QED
  BY <1>2, <1>3, <1>4 DEF SafeBoard

\* The validator agrees after a statement if it objects exactly to what fails.
LEMMA JudgeAgrees ==
  ASSUME EmbeddedInv, UNCHANGED <<target, allowed, skipped, branching>>, NEW after, Run(after),
         after.failed \in BOOLEAN, refused' \in BOOLEAN, loose' \in BOOLEAN,
         refused => refused', loose => loose',
         refused' /\ ~refused => target # "none",
         ~branching /\ ~machine.failed /\ refused' /\ ~refused => after.failed,
         target # "none" /\ ~branching /\ ~machine.failed /\ ~loose' /\ after.failed => refused'
  PROVE  RefusedFails' /\ FailingRefused' /\ (skipped => branching)' /\ (refused => target # "none")'
<1>. USE DEF EmbeddedInv, SafeBoard, EmbeddedTyped, ValidatorAgrees
<1>1. CASE branching
  BY <1>1 DEF RefusedFails, FailingRefused
<1>2. CASE ~branching /\ machine.failed
  <2>1. machine' = machine
    BY <1>2 DEF Run
  <2>. QED
    BY <1>2, <2>1 DEF RefusedFails, FailingRefused
<1>3. CASE ~branching /\ ~machine.failed
  <2>1. machine' = after
    BY <1>3 DEF Run
  <2>. QED
    BY <1>3, <2>1 DEF RefusedFails, FailingRefused
<1>. QED
  BY <1>1, <1>2, <1>3

\* What is known of led stays so while led and its binding do.
LEMMA LedStays ==
  ASSUME EmbeddedInv, UNCHANGED <<target, branching, believed>>, NEW after, Run(after),
         after.failed \in BOOLEAN, after.failed \/ (after.led = machine.led /\ after.failed = machine.failed), loose => loose', loose' \in BOOLEAN
  PROVE  LedKnown'
<1>1. machine' = machine \/ machine' = after
  BY DEF Run
<1>2. ~machine'.failed => ~machine.failed /\ machine'.led = machine.led
  BY <1>1 DEF Run, EmbeddedInv, SafeBoard, EmbeddedTyped
<1>3. CASE branching \/ machine'.failed
  BY <1>3 DEF LedKnown
<1>4. CASE ~branching /\ ~machine'.failed
  <2>1. ~machine.failed /\ machine'.led = machine.led
    BY <1>2, <1>4
  <2>. QED
    BY <1>4, <2>1 DEF EmbeddedInv, ValidatorAgrees, LedKnown, Has, Canonical
<1>. QED
  BY <1>3, <1>4

LEMMA FailingIs ==
  ASSUME EmbeddedTyped
  PROVE  /\ IsMachine(Failing) /\ Failing.failed = TRUE /\ Failing.board = machine.board
         /\ Failing.bus = machine.bus /\ Failing.done = machine.done /\ Failing.led = machine.led
BY DEF EmbeddedTyped, IsMachine, Failing

\* A statement that at most fails, or performs what is right.
LEMMA PerformingIs ==
  ASSUME SafeBoard, NEW needs,
         machine.board \in allowed => OfBoard([board |-> machine.board, needs |-> needs])
  PROVE  LET after == Performing(needs)
         IN  /\ IsMachine(after)
             /\ after.board = machine.board /\ after.led = machine.led /\ after.bus = machine.bus
             /\ after.done # NotPerformed => OfBoard(after.done)
             /\ after.failed = (machine.failed \/ machine.board \notin allowed)
             /\ after.failed \in BOOLEAN
<1>1. CASE machine.board \in allowed
  BY <1>1 DEF Performing, SafeBoard, EmbeddedTyped, IsMachine
<1>2. CASE machine.board \notin allowed
  BY <1>2, FailingIs DEF Performing, SafeBoard, EmbeddedTyped, PerformedRight, OfBoard
<1>. QED
  BY <1>1, <1>2

\* What an argument is, and what it may be used for, once there is a board.
LEMMA Evaluates ==
  ASSUME NEW argument \in Arguments, machine.board # "none"
  PROVE  /\ argument.of = "member" => Evaluated(argument) = IF Has(machine.board, argument.name)
                                                           THEN Pin(machine.board, argument.name) ELSE Unknown
         /\ argument.of # "member" => argument.of = "led" /\ Evaluated(argument) = machine.led
BY DEF Arguments, Evaluated

LEMMA Required ==
  ASSUME NEW value, NEW capability
  PROVE  LET pin == RequirePin(value, capability)
         IN  /\ pin.is = "pin" => /\ pin.board = machine.board /\ machine.board # "none"
                                  /\ capability \in PinNamed(pin.board, pin.name).capabilities
             /\ pin.is # "pin" => pin = Unknown
<1>1. Unknown.is = "error" /\ NoPin.is = "nothing"
  BY DEF Unknown, NoPin
<1>2. Resolve(value) = Unknown \/ (Resolve(value).is = "pin" /\ Resolve(value).board = machine.board /\ machine.board # "none")
  BY DEF Resolve, Pin
<1>. QED
  BY <1>1, <1>2 DEF RequirePin

\* A pin of the board is refused exactly if it cannot do it; what is not a pin is refused.
LEMMA RequiredOfPin ==
  ASSUME NEW name, NEW capability, machine.board # "none"
  PROVE  /\ RequirePin(Pin(machine.board, name), capability) =
              IF capability \in PinNamed(machine.board, name).capabilities THEN Pin(machine.board, name) ELSE Unknown
         /\ RequirePin(Unknown, capability) = Unknown
         /\ Pin(machine.board, name) # Unknown /\ Pin(machine.board, name).is = "pin"
         /\ Pin(machine.board, name).board = machine.board /\ Pin(machine.board, name).name = name
BY DEF RequirePin, Resolve, Pin, Unknown, NoPin

LEMMA KeptBoardSelect ==
  ASSUME EmbeddedInv, NEW board \in Boards, BoardSelect(board)
  PROVE  EmbeddedInv'
<1>. DEFINE after == IF target \notin {"none", board} THEN Failing ELSE [machine EXCEPT !.board = board]
<1>1. EmbeddedTyped /\ SafeBoard
  BY DEF EmbeddedInv, SafeBoard
<1>2. /\ IsMachine(after) /\ after.bus = machine.bus /\ after.done = machine.done /\ after.led = machine.led
      /\ after.failed = (machine.failed \/ target \notin {"none", board})
      /\ target # "none" => after.board = target
  <2>1. CASE target \notin {"none", board}
    BY <1>1, <2>1, FailingIs DEF SafeBoard, BoardLocked
  <2>2. CASE target \in {"none", board}
    BY <1>1, <2>2 DEF EmbeddedTyped, IsMachine
  <2>. QED
    BY <2>1, <2>2
<1>3. Run(after) /\ UNCHANGED <<target, allowed, skipped, branching, believed, loose>>
  BY DEF BoardSelect, Writing, NotIf
<1>4. refused' = (refused \/ (target # "none" /\ board # target))
  BY DEF BoardSelect, Judge
<1>. HIDE DEF after
<1>5. after.failed \in BOOLEAN /\ refused' \in BOOLEAN
  BY <1>1, <1>2, <1>4 DEF EmbeddedTyped
<1>6. SafeBoard'
  BY <1>1, <1>2, <1>3, <1>5, RunKeeps DEF SafeBoard, BusRight, PerformedRight, OfBoard, EmbeddedTyped
<1>7. RefusedFails' /\ FailingRefused' /\ (skipped => branching)' /\ (refused => target # "none")'
  BY <1>1, <1>2, <1>3, <1>4, <1>5, JudgeAgrees DEF EmbeddedTyped
<1>8. LedKnown'
  BY <1>1, <1>2, <1>3, <1>5, LedStays DEF EmbeddedTyped
<1>. QED
  BY <1>6, <1>7, <1>8 DEF EmbeddedInv, ValidatorAgrees

LEMMA KeptAssignPin ==
  ASSUME EmbeddedInv, NEW name \in PinNames, AssignPin(name)
  PROVE  EmbeddedInv'
<1>. DEFINE argument == [of |-> "member", name |-> name]
            pin == Evaluated(argument)
            after == IF pin = Unknown THEN Failing ELSE [machine EXCEPT !.led = pin]
<1>1. EmbeddedTyped /\ SafeBoard
  BY DEF EmbeddedInv, SafeBoard
<1>2. pin = IF machine.board # "none" /\ Has(machine.board, name) THEN Pin(machine.board, name) ELSE Unknown
  BY DEF Evaluated
<1>3. /\ IsMachine(after) /\ after.bus = machine.bus /\ after.done = machine.done /\ after.board = machine.board
      /\ after.led = (IF pin = Unknown THEN machine.led ELSE pin)
      /\ after.failed = (machine.failed \/ pin = Unknown)
  <2>1. CASE pin = Unknown
    BY <1>1, <2>1, FailingIs
  <2>2. CASE pin # Unknown
    BY <1>1, <2>2 DEF EmbeddedTyped, IsMachine
  <2>. QED
    BY <2>1, <2>2
<1>4. Run(after) /\ UNCHANGED <<target, allowed, skipped, branching, loose>>
  BY DEF AssignPin, Writing, NotIf
<1>5. /\ refused' = (refused \/ (target # "none" /\ ~Has(target, name)))
      /\ believed' = IF target # "none" /\ Has(target, name) THEN name ELSE "none"
  BY DEF AssignPin, Judge
<1>6. target # "none" => machine.board = target /\ (pin = Unknown <=> ~Has(target, name))
                         /\ (pin # Unknown => pin = Pin(target, name))
  BY <1>1, <1>2 DEF SafeBoard, BoardLocked, Pin, Unknown, NoPin
<1>. HIDE DEF after, pin
<1>7. after.failed \in BOOLEAN /\ refused' \in BOOLEAN
  BY <1>1, <1>3, <1>5 DEF EmbeddedTyped
<1>8. SafeBoard'
  BY <1>1, <1>3, <1>4, <1>7, RunKeeps DEF SafeBoard, BusRight, BoardLocked, PerformedRight, OfBoard, EmbeddedTyped
<1>9. RefusedFails' /\ FailingRefused' /\ (skipped => branching)' /\ (refused => target # "none")'
  BY <1>1, <1>3, <1>4, <1>5, <1>6, <1>7, JudgeAgrees DEF EmbeddedTyped
<1>10. LedKnown'
  <2>. SUFFICES ASSUME target # "none", ~branching, ~machine'.failed
                PROVE  /\ believed' # "none" => Has(target, believed') /\ machine'.led = Pin(target, believed')
                       /\ ~loose /\ machine'.led # NoPin => believed' # "none"
    BY <1>4 DEF LedKnown, Has, Canonical
  <2>1. ~machine.failed /\ machine' = after /\ pin # Unknown
    BY <1>3, <1>4 DEF Run, EmbeddedInv, ValidatorAgrees
  <2>2. Has(target, name) /\ machine'.led = Pin(target, name) /\ believed' = name
    BY <1>3, <1>5, <1>6, <2>1
  <2>3. ~Has(target, "none")
    BY <1>1, TablesAssumption DEF EmbeddedTyped
  <2>. QED
    BY <2>2, <2>3
<1>. QED
  BY <1>8, <1>9, <1>10 DEF EmbeddedInv, ValidatorAgrees

LEMMA KeptAssignText ==
  ASSUME EmbeddedInv, NEW name \in PinNames, AssignText(name)
  PROVE  EmbeddedInv'
<1>. DEFINE after == [machine EXCEPT !.led = PinText(name)]
<1>1. EmbeddedTyped /\ SafeBoard
  BY DEF EmbeddedInv, SafeBoard
<1>2. /\ IsMachine(after) /\ after.bus = machine.bus /\ after.done = machine.done /\ after.board = machine.board
      /\ after.failed = machine.failed
  BY <1>1 DEF EmbeddedTyped, IsMachine
<1>3. /\ Run(after) /\ UNCHANGED <<target, allowed, skipped, branching, refused>>
      /\ loose' = TRUE /\ believed' = "none"
  BY DEF AssignText, Writing, NotIf, Unbound
<1>. HIDE DEF after
<1>4. SafeBoard'
  BY <1>1, <1>2, <1>3, RunKeeps DEF SafeBoard, BusRight, BoardLocked, PerformedRight, OfBoard, EmbeddedTyped
<1>5. RefusedFails' /\ FailingRefused' /\ (skipped => branching)' /\ (refused => target # "none")'
  BY <1>1, <1>2, <1>3, JudgeAgrees DEF EmbeddedTyped
<1>6. LedKnown'
  BY <1>3 DEF LedKnown
<1>. QED
  BY <1>4, <1>5, <1>6 DEF EmbeddedInv, ValidatorAgrees

\* A statement that fails unless it may be performed: Objected is what it fails for.
LEMMA KeptOperation ==
  ASSUME EmbeddedInv, UNCHANGED <<target, allowed, skipped, branching, believed>>, NEW after, Run(after),
         IsMachine(after), after.board = machine.board, after.led = machine.led,
         after.bus # NoBus => OfBoard(after.bus), after.done # NotPerformed => OfBoard(after.done),
         NEW fails \in BOOLEAN, after.failed = (machine.failed \/ fails),
         refused' \in BOOLEAN, loose' \in BOOLEAN, refused => refused', loose => loose',
         refused' /\ ~refused => target # "none",
         ~branching /\ ~machine.failed /\ refused' /\ ~refused => fails,
         target # "none" /\ ~branching /\ ~machine.failed /\ ~loose' /\ fails => refused'
  PROVE  EmbeddedInv'
<1>1. EmbeddedTyped /\ SafeBoard
  BY DEF EmbeddedInv, SafeBoard
<1>2. after.failed \in BOOLEAN
  BY <1>1 DEF EmbeddedTyped
<1>3. SafeBoard'
  BY <1>1, <1>2, RunKeeps DEF SafeBoard, BoardLocked, EmbeddedTyped
<1>4. RefusedFails' /\ FailingRefused' /\ (skipped => branching)' /\ (refused => target # "none")'
  BY <1>1, <1>2, JudgeAgrees DEF EmbeddedTyped
<1>5. LedKnown'
  BY <1>1, <1>2, LedStays DEF EmbeddedTyped
<1>. QED
  BY <1>3, <1>4, <1>5 DEF EmbeddedInv, ValidatorAgrees

\* What the validator knows of an argument, and what the argument is when it gets there.
LEMMA Understood ==
  ASSUME EmbeddedInv, NEW argument \in Arguments, argument.of = "led" => machine.led # NoPin,
         target # "none", ~branching, ~machine.failed
  PROVE  LET known == DirectPin(argument)
         IN  /\ machine.board = target /\ target \in allowed /\ target \in Boards
             /\ known # "none" => Has(target, known) /\ Evaluated(argument) = Pin(target, known) /\ ~Misspelt(argument)
             /\ Misspelt(argument) => Evaluated(argument) = Unknown
             /\ ~loose /\ known = "none" => Misspelt(argument)
<1>1. machine.board = target /\ target \in allowed /\ target \in Boards /\ ~Has(target, "none")
  BY TablesAssumption DEF EmbeddedInv, SafeBoard, BoardLocked, EmbeddedTyped
<1>2. CASE argument.of = "member"
  BY <1>1, <1>2, Evaluates DEF DirectPin, Misspelt
<1>3. CASE argument.of # "member"
  <2>1. argument.of = "led" /\ Evaluated(argument) = machine.led /\ ~Misspelt(argument)
        /\ DirectPin(argument) = believed
    BY <1>1, <1>3, Evaluates DEF DirectPin, Misspelt
  <2>2. /\ believed # "none" => Has(target, believed) /\ machine.led = Pin(target, believed)
        /\ ~loose => believed # "none"
    BY <2>1 DEF EmbeddedInv, ValidatorAgrees, LedKnown
  <2>. QED
    BY <1>1, <2>1, <2>2
<1>. QED
  BY <1>2, <1>3

LEMMA KeptUsePin ==
  ASSUME EmbeddedInv, NEW op \in DOMAIN Needs, NEW argument \in Arguments,
         argument.of = "led" => machine.led # NoPin, UsePin(op, argument)
  PROVE  EmbeddedInv'
<1>. DEFINE pin == RequirePin(Evaluated(argument), Needs[op])
            after == IF pin = Unknown THEN Failing ELSE Performing({<<pin, Needs[op], AnyRoute>>})
            fails == pin = Unknown \/ machine.board \notin allowed
<1>1. EmbeddedTyped /\ SafeBoard
  BY DEF EmbeddedInv, SafeBoard
<1>2. /\ Run(after) /\ UNCHANGED <<target, allowed, skipped, branching, believed, loose>>
      /\ refused' = (refused \/ (target # "none" /\ ObjectsToUse(op, argument)))
  BY DEF UsePin, Writing, NotIf, Judge
<1>3. /\ pin.is = "pin" => /\ pin.board = machine.board /\ machine.board # "none"
                          /\ Needs[op] \in PinNamed(pin.board, pin.name).capabilities
      /\ pin.is # "pin" => pin = Unknown
  BY Required
<1>4. Unknown.is # "pin"
  BY DEF Unknown, NoPin
<1>5. /\ IsMachine(after) /\ after.board = machine.board /\ after.led = machine.led /\ after.bus = machine.bus
      /\ after.done # NotPerformed => OfBoard(after.done)
      /\ after.failed = (machine.failed \/ fails)
  <2>1. CASE pin = Unknown
    BY <1>1, <2>1, FailingIs DEF SafeBoard, PerformedRight, OfBoard
  <2>2. CASE pin # Unknown
    <3>. DEFINE needs == {<<pin, Needs[op], AnyRoute>>}
    <3>1. machine.board \in allowed => OfBoard([board |-> machine.board, needs |-> needs])
      BY <1>1, <1>3, <2>2 DEF OfBoard, SafeBoard, BoardLocked
    <3>. HIDE DEF needs
    <3>2. IsMachine(Performing(needs)) /\ Performing(needs).board = machine.board
          /\ Performing(needs).led = machine.led /\ Performing(needs).bus = machine.bus
          /\ (Performing(needs).done # NotPerformed => OfBoard(Performing(needs).done))
          /\ Performing(needs).failed = (machine.failed \/ machine.board \notin allowed)
      BY <1>1, <3>1, PerformingIs
    <3>. USE DEF needs
    <3>3. after = Performing(needs) /\ (fails <=> machine.board \notin allowed)
      BY <2>2
    <3>. HIDE DEF needs, after, pin
    <3>. QED
      BY <3>2, <3>3
  <2>. QED
    BY <2>1, <2>2
<1>6. ASSUME target # "none", ~branching, ~machine.failed
      PROVE  /\ ObjectsToUse(op, argument) => pin = Unknown
             /\ ~loose /\ fails => ObjectsToUse(op, argument)
  <2>. DEFINE known == DirectPin(argument)
  <2>1. /\ machine.board = target /\ target \in allowed /\ target \in Boards
        /\ known # "none" => Has(target, known) /\ Evaluated(argument) = Pin(target, known) /\ ~Misspelt(argument)
        /\ Misspelt(argument) => Evaluated(argument) = Unknown
        /\ ~loose /\ known = "none" => Misspelt(argument)
    BY <1>6, Understood
  <2>2. target # "none"
    BY <1>6
  <2>3. RequirePin(Unknown, Needs[op]) = Unknown
    BY <2>1, <2>2, RequiredOfPin
  <2>4. known # "none" => (pin = Unknown <=> Needs[op] \notin PinNamed(target, known).capabilities)
    BY <2>1, <2>2, RequiredOfPin
  <2>5. Misspelt(argument) => pin = Unknown
    BY <2>1, <2>3
  <2>6. ObjectsToUse(op, argument) <=>
          Misspelt(argument) \/ (known # "none" /\ Needs[op] \notin PinNamed(target, known).capabilities)
    BY DEF ObjectsToUse
  <2>7. fails <=> pin = Unknown
    BY <2>1
  <2>. HIDE DEF pin, known, fails
  <2>. QED
    BY <2>1, <2>4, <2>5, <2>6, <2>7
<1>. HIDE DEF pin, after
<1>7. refused' \in BOOLEAN /\ loose' \in BOOLEAN /\ fails \in BOOLEAN
  BY <1>1, <1>2 DEF EmbeddedTyped
<1>8. ~branching /\ ~machine.failed /\ refused' /\ ~refused => fails
  BY <1>2, <1>6
<1>9. target # "none" /\ ~branching /\ ~machine.failed /\ ~loose' /\ fails => refused'
  BY <1>2, <1>6
<1>10. (after.bus # NoBus => OfBoard(after.bus)) /\ (refused' /\ ~refused => target # "none")
  BY <1>1, <1>2, <1>5 DEF SafeBoard, BusRight
<1>. QED
  BY <1>2, <1>5, <1>7, <1>8, <1>9, <1>10, KeptOperation

LEMMA KeptDelay ==
  ASSUME EmbeddedInv, NEW milliseconds, Delay(milliseconds)
  PROVE  EmbeddedInv'
<1>. DEFINE valid == ValidDelay(milliseconds)
            after == IF valid /\ machine.board # "none" THEN Performing({}) ELSE Failing
            fails == ~valid \/ machine.board \notin allowed
<1>1. EmbeddedTyped /\ SafeBoard
  BY DEF EmbeddedInv, SafeBoard
<1>2. /\ Run(after) /\ UNCHANGED <<target, allowed, skipped, branching, believed, loose>>
      /\ refused' = (refused \/ (target # "none" /\ ~valid))
  BY DEF Delay, Writing, NotIf, Judge
<1>3. machine.board \in allowed => OfBoard([board |-> machine.board, needs |-> {}])
  BY <1>1 DEF OfBoard, SafeBoard, BoardLocked
<1>4. valid \in BOOLEAN
  BY DEF ValidDelay
<1>. HIDE DEF valid
<1>5. /\ IsMachine(after) /\ after.board = machine.board /\ after.led = machine.led /\ after.bus = machine.bus
      /\ after.done # NotPerformed => OfBoard(after.done)
      /\ after.failed = (machine.failed \/ fails)
  <2>1. CASE valid /\ machine.board # "none"
    BY <1>1, <1>3, <2>1, PerformingIs
  <2>2. CASE ~(valid /\ machine.board # "none")
    BY <1>1, <2>2, FailingIs DEF SafeBoard, PerformedRight, OfBoard, EmbeddedTyped
  <2>. QED
    BY <2>1, <2>2
<1>. HIDE DEF after
<1>6. refused' \in BOOLEAN /\ loose' \in BOOLEAN /\ fails \in BOOLEAN
  BY <1>1, <1>2, <1>4 DEF EmbeddedTyped
<1>7. target # "none" => machine.board \in allowed
  BY <1>1 DEF SafeBoard, BoardLocked, EmbeddedTyped
<1>8. (after.bus # NoBus => OfBoard(after.bus)) /\ (refused' /\ ~refused => target # "none" /\ fails)
  BY <1>1, <1>2, <1>5 DEF SafeBoard, BusRight
<1>9. target # "none" /\ fails => refused'
  BY <1>2, <1>7
<1>. QED
  BY <1>2, <1>5, <1>6, <1>8, <1>9, KeptOperation

LEMMA KeptUseBus ==
  ASSUME EmbeddedInv, NEW kind \in {"i2c", "uart"}, NEW address, UseBus(kind, address)
  PROVE  EmbeddedInv'
<1>. DEFINE valid == kind = "i2c" => ValidAddress(address)
            works == machine.bus.kind = kind /\ machine.bus.board = machine.board /\ valid
            after == IF works THEN Performing(machine.bus.needs) ELSE Failing
            fails == ~works \/ machine.board \notin allowed
<1>1. EmbeddedTyped /\ SafeBoard
  BY DEF EmbeddedInv, SafeBoard
<1>2. /\ Run(after) /\ UNCHANGED <<target, allowed, skipped, branching, believed>>
      /\ refused' = (refused \/ (target # "none" /\ ~valid))
      /\ loose' = (loose \/ machine.bus.kind # kind)
  BY DEF UseBus, Writing, NotIf, Judge
<1>3. machine.bus.kind = kind => OfBoard(machine.bus)
  BY <1>1 DEF SafeBoard, BusRight, NoBus
<1>4. works => OfBoard([board |-> machine.board, needs |-> machine.bus.needs])
  BY <1>3 DEF OfBoard
<1>5. target # "none" => machine.board \in allowed /\ machine.board = target
  BY <1>1 DEF SafeBoard, BoardLocked, EmbeddedTyped
<1>6. target # "none" /\ machine.bus.kind = kind => machine.bus.board = machine.board
  BY <1>3, <1>5 DEF OfBoard
<1>7. valid \in BOOLEAN
  BY DEF ValidAddress
<1>. HIDE DEF valid
<1>8. /\ IsMachine(after) /\ after.board = machine.board /\ after.led = machine.led /\ after.bus = machine.bus
      /\ after.done # NotPerformed => OfBoard(after.done)
      /\ after.failed = (machine.failed \/ fails)
  <2>1. CASE works
    BY <1>1, <1>4, <2>1, PerformingIs
  <2>2. CASE ~works
    BY <1>1, <2>2, FailingIs DEF SafeBoard, PerformedRight, OfBoard
  <2>. QED
    BY <2>1, <2>2
<1>. HIDE DEF after
<1>9. refused' \in BOOLEAN /\ loose' \in BOOLEAN /\ fails \in BOOLEAN
  BY <1>1, <1>2, <1>7 DEF EmbeddedTyped
<1>10. (after.bus # NoBus => OfBoard(after.bus)) /\ (refused' /\ ~refused => target # "none" /\ fails)
  BY <1>1, <1>2, <1>8 DEF SafeBoard, BusRight
<1>11. target # "none" /\ ~loose' /\ fails => refused'
  BY <1>2, <1>5, <1>6
<1>. QED
  BY <1>2, <1>8, <1>9, <1>10, <1>11, KeptOperation

LEMMA KeptIf ==
  ASSUME EmbeddedInv, WriteIf \/ EndIf
  PROVE  EmbeddedInv'
<1>1. /\ UNCHANGED <<target, allowed, machine, believed, refused, loose>>
      /\ skipped' \in BOOLEAN /\ branching' \in BOOLEAN /\ (branching => branching') /\ (skipped' => branching')
  BY DEF EmbeddedInv, SafeBoard, EmbeddedTyped, WriteIf, EndIf, Writing
<1>2. SafeBoard'
  BY <1>1 DEF EmbeddedInv, SafeBoard, EmbeddedTyped, IsMachine, BoardLocked, BusRight, PerformedRight, OfBoard
<1>3. ValidatorAgrees'
  BY <1>1, Zenon DEF EmbeddedInv, ValidatorAgrees, RefusedFails, FailingRefused, LedKnown, Has, Canonical
<1>. QED
  BY <1>2, <1>3 DEF EmbeddedInv

\* The pin a role is given is right exactly if the validator has nothing to say of it, where
\* it knows the pin.
LEMMA RoleUnderstood ==
  ASSUME EmbeddedInv, NEW argument \in Arguments, argument.of = "led" => machine.led # NoPin,
         target # "none", ~branching, ~machine.failed, NEW role, NEW index
  PROVE  LET right == RoutesRight(RequirePin(Evaluated(argument), Signal[role]), role, index)
             known == DirectPin(argument)
             bad   == known # "none" /\ <<Signal[role], index>> \notin PinNamed(target, known).routes
         IN  /\ Misspelt(argument) \/ bad => ~right
             /\ ~loose /\ ~Misspelt(argument) /\ ~bad => right
<1>. DEFINE known == DirectPin(argument)
            pin == RequirePin(Evaluated(argument), Signal[role])
            routed(name) == <<Signal[role], index>> \in PinNamed(target, name).routes
<1>1. /\ machine.board = target /\ target \in allowed /\ target \in Boards
      /\ known # "none" => Has(target, known) /\ Evaluated(argument) = Pin(target, known) /\ ~Misspelt(argument)
      /\ Misspelt(argument) => Evaluated(argument) = Unknown
      /\ ~loose /\ known = "none" => Misspelt(argument)
  BY Understood
<1>2. Unknown.is # "pin"
  BY DEF Unknown, NoPin
<1>3. ASSUME Misspelt(argument) PROVE ~RoutesRight(pin, role, index)
  <2>1. pin = Unknown
    BY <1>1, <1>3, RequiredOfPin
  <2>. QED
    BY <1>2, <2>1 DEF RoutesRight
<1>4. ASSUME known # "none" PROVE RoutesRight(pin, role, index) <=> routed(known)
  <2>1. pin = IF Signal[role] \in PinNamed(target, known).capabilities THEN Pin(target, known) ELSE Unknown
    BY <1>1, <1>4, RequiredOfPin
  <2>2. routed(known) => Signal[role] \in PinNamed(target, known).capabilities
    <3>1. Canonical(target, known) \in DOMAIN PinsOf[target]
      BY <1>1, <1>4 DEF Has
    <3>2. \A route \in PinsOf[target][Canonical(target, known)].routes :
             route[1] \in PinsOf[target][Canonical(target, known)].capabilities
      BY <1>1, <3>1, TablesAssumption
    <3>3. <<Signal[role], index>>[1] = Signal[role]
      OBVIOUS
    <3>. QED
      BY <3>2, <3>3 DEF PinNamed
  <2>3. Pin(target, known).is = "pin" /\ Pin(target, known).board = target /\ Pin(target, known).name = known
    BY DEF Pin
  <2>. QED
    BY <1>2, <2>1, <2>2, <2>3 DEF RoutesRight
<1>. HIDE DEF known, pin
<1>. QED
  BY <1>1, <1>3, <1>4 DEF known, pin

\* A bus that has default pins can be opened with them.
LEMMA DefaultRight ==
  ASSUME NEW kind \in DOMAIN Roles, NEW index \in {0, 1}, NEW role \in DOMAIN Defaults(kind, index),
         machine.board \in Boards
  PROVE  RoutesRight(RequirePin(PinText(Defaults(kind, index)[role]), Signal[role]), role, index)
<1>. DEFINE name == Defaults(kind, index)[role]
<1>1. Has(machine.board, name) /\ <<Signal[role], index>> \in PinNamed(machine.board, name).routes
  BY TablesAssumption
<1>2. Canonical(machine.board, name) \in DOMAIN PinsOf[machine.board]
  BY <1>1 DEF Has
<1>3. \A route \in PinNamed(machine.board, name).routes : route[1] \in PinNamed(machine.board, name).capabilities
  BY <1>2, TablesAssumption DEF PinNamed
<1>4. Signal[role] \in PinNamed(machine.board, name).capabilities
  <2>1. <<Signal[role], index>>[1] = Signal[role]
    OBVIOUS
  <2>. QED
    BY <1>1, <1>3, <2>1
<1>. HIDE DEF name
<1>5. machine.board # "none"
  BY DEF Boards
<1>6. PinText(name).is = "text" /\ PinText(name).name = name
  BY DEF PinText
<1>7. Resolve(PinText(name)) = Pin(machine.board, name)
  BY <1>1, <1>5, <1>6 DEF Resolve
<1>8. Pin(machine.board, name).is = "pin" /\ Pin(machine.board, name).board = machine.board /\ Pin(machine.board, name).name = name
  BY DEF Pin
<1>9. RequirePin(PinText(name), Signal[role]) = Pin(machine.board, name)
  BY <1>4, <1>7, <1>8 DEF RequirePin
<1>. QED
  BY <1>1, <1>8, <1>9 DEF RoutesRight, name

LEMMA KeptOpenBus ==
  ASSUME EmbeddedInv, NEW kind \in DOMAIN Roles, Roles[kind] # {}, NEW index \in {0, 1}, NEW named,
         DOMAIN named \subseteq Roles[kind],
         \A role \in DOMAIN named : named[role] \in Arguments /\ (named[role].of = "led" => machine.led # NoPin),
         OpenBus(kind, index, named)
  PROVE  EmbeddedInv'
<1>. DEFINE given == DOMAIN named
            roles == Roles[kind]
            defaults == Defaults(kind, index)
            value(role) == IF role \in DOMAIN named THEN Evaluated(named[role]) ELSE PinText(defaults[role])
            pins == [role \in roles |-> IF role \in DOMAIN named \cup DOMAIN defaults
                                       THEN RequirePin(value(role), Signal[role]) ELSE Unknown]
            needs == {<<pins[role], Signal[role], index>> : role \in roles}
            right(role) == RoutesRight(pins[role], role, index)
            works == \A role \in roles : right(role)
            opened == [board |-> machine.board, kind |-> kind, needs |-> needs]
            after == IF works THEN [Performing(needs) EXCEPT !.bus = IF machine.board \in allowed THEN opened ELSE @]
                     ELSE Failing
            fails == ~works \/ machine.board \notin allowed
            misnamed == \E role \in given :
                          \/ Misspelt(named[role])
                          \/ /\ DirectPin(named[role]) # "none"
                             /\ <<Signal[role], index>> \notin PinNamed(target, DirectPin(named[role])).routes
            objection == misnamed \/ (given = {} /\ defaults = <<>>)
<1>1. EmbeddedTyped /\ SafeBoard
  BY DEF EmbeddedInv, SafeBoard
<1>2. /\ Run(after) /\ UNCHANGED <<target, allowed, skipped, branching, believed>>
      /\ refused' = (refused \/ (target # "none" /\ objection))
      /\ loose' = (loose \/ given \notin {{}, roles})
  <2>1. objection <=> ObjectsToOpen(kind, index, named)
    BY DEF ObjectsToOpen
  <2>2. Run(after) /\ UNCHANGED <<target, allowed, skipped, branching, believed>>
        /\ Judge(ObjectsToOpen(kind, index, named)) /\ loose' = (loose \/ given \notin {{}, roles})
    BY DEF OpenBus, Writing, NotIf
  <2>. QED
    BY <2>1, <2>2 DEF Judge
<1>3. Unknown.is # "pin"
  BY DEF Unknown, NoPin
<1>4. works /\ machine.board \in allowed => OfBoard(opened)
  <2>. SUFFICES ASSUME works, machine.board \in allowed PROVE OfBoard(opened)
    OBVIOUS
  <2>1. \A role \in roles :
          /\ pins[role].board = machine.board /\ machine.board # "none"
          /\ Signal[role] \in PinNamed(pins[role].board, pins[role].name).capabilities
          /\ <<Signal[role], index>> \in PinNamed(pins[role].board, pins[role].name).routes
    <3>. SUFFICES ASSUME NEW role \in roles
                  PROVE  /\ pins[role].board = machine.board /\ machine.board # "none"
                         /\ Signal[role] \in PinNamed(pins[role].board, pins[role].name).capabilities
                         /\ <<Signal[role], index>> \in PinNamed(pins[role].board, pins[role].name).routes
      OBVIOUS
    <3>1. pins[role].is = "pin" /\ <<Signal[role], index>> \in PinNamed(pins[role].board, pins[role].name).routes
      <4>. HIDE DEF pins
      <4>. QED
        BY DEF RoutesRight
    <3>2. pins[role] = Unknown \/ pins[role] = RequirePin(value(role), Signal[role])
      OBVIOUS
    <3>. HIDE DEF value, pins
    <3>. QED
      BY <1>3, <3>1, <3>2, Required
  <2>. HIDE DEF pins
  <2>2. opened.board = machine.board /\ opened.needs = needs
    OBVIOUS
  <2>3. \A need \in needs : \E role \in roles : need = <<pins[role], Signal[role], index>>
    OBVIOUS
  <2>. HIDE DEF opened, needs
  <2>. QED
    BY <1>1, <2>1, <2>2, <2>3 DEF OfBoard, SafeBoard, BoardLocked
<1>5. /\ IsMachine(after) /\ after.board = machine.board /\ after.led = machine.led
      /\ after.bus # NoBus => OfBoard(after.bus)
      /\ after.done # NotPerformed => OfBoard(after.done)
      /\ after.failed = (machine.failed \/ fails)
  <2>. DEFINE done == Performing(needs)
              bus == IF machine.board \in allowed THEN opened ELSE done.bus
  <2>1. CASE works
    <3>1. opened.board = machine.board /\ opened.needs = needs
      OBVIOUS
    <3>2. after = [done EXCEPT !.bus = bus] /\ (fails <=> machine.board \notin allowed)
      BY <2>1
    <3>. HIDE DEF after, fails, opened, needs
    <3>3. machine.board \in allowed => OfBoard([board |-> machine.board, needs |-> needs])
      BY <1>4, <2>1, <3>1 DEF OfBoard
    <3>4. /\ IsMachine(done) /\ done.board = machine.board /\ done.led = machine.led /\ done.bus = machine.bus
          /\ done.done # NotPerformed => OfBoard(done.done)
          /\ done.failed = (machine.failed \/ machine.board \notin allowed)
      BY <1>1, <3>3, PerformingIs
    <3>5. bus # NoBus => OfBoard(bus)
      BY <1>1, <1>4, <2>1, <3>4 DEF SafeBoard, BusRight
    <3>. HIDE DEF done, bus
    <3>6. /\ IsMachine(after) /\ after.board = done.board /\ after.led = done.led /\ after.bus = bus
          /\ after.done = done.done /\ after.failed = done.failed
      BY <3>2, <3>4 DEF IsMachine
    <3>. QED
      BY <3>2, <3>4, <3>5, <3>6
  <2>2. CASE ~works
    <3>1. after = Failing /\ fails
      BY <2>2
    <3>. HIDE DEF after, fails
    <3>. QED
      BY <1>1, <3>1, FailingIs DEF SafeBoard, PerformedRight, BusRight, OfBoard
  <2>. QED
    BY <2>1, <2>2
<1>6. ASSUME target # "none", ~branching, ~machine.failed
      PROVE  /\ objection => fails
             /\ ~loose' /\ fails => objection
  <2>1. machine.board = target /\ machine.board \in allowed /\ target \in Boards
    BY <1>1, <1>6 DEF SafeBoard, BoardLocked, EmbeddedTyped
  <2>2. ASSUME NEW role \in given
        PROVE  LET bad == \/ Misspelt(named[role])
                          \/ /\ DirectPin(named[role]) # "none"
                             /\ <<Signal[role], index>> \notin PinNamed(target, DirectPin(named[role])).routes
               IN  (bad => ~right(role)) /\ (~loose /\ ~bad => right(role))
    <3>1. named[role] \in Arguments /\ (named[role].of = "led" => machine.led # NoPin) /\ role \in roles
      OBVIOUS
    <3>2. pins[role] = RequirePin(Evaluated(named[role]), Signal[role])
      BY <3>1
    <3>. HIDE DEF pins
    <3>. QED
      BY <1>6, <3>1, <3>2, RoleUnderstood
  <2>3. ASSUME given = {}, defaults = <<>> PROVE ~works
    <3>1. PICK role \in roles : TRUE
      OBVIOUS
    <3>2. pins[role] = Unknown
      BY <2>3
    <3>. HIDE DEF pins
    <3>. QED
      BY <1>3, <3>1, <3>2 DEF RoutesRight
  <2>4. ASSUME given = {}, defaults # <<>> PROVE works
    <3>1. DOMAIN defaults = roles
      BY <2>4 DEF Defaults
    <3>. SUFFICES ASSUME NEW role \in roles PROVE right(role)
      OBVIOUS
    <3>2. pins[role] = RequirePin(PinText(Defaults(kind, index)[role]), Signal[role])
      BY <2>4, <3>1
    <3>. HIDE DEF pins
    <3>. QED
      BY <2>1, <3>1, <3>2, DefaultRight
  <2>5. misnamed => ~works
    <3>. HIDE DEF pins
    <3>. QED
      BY <2>2
  <2>6. ~loose /\ given = roles /\ ~misnamed => works
    <3>. HIDE DEF pins
    <3>. QED
      BY <2>2
  <2>7. fails <=> ~works
    BY <2>1
  <2>8. ~loose' => ~loose /\ given \in {{}, roles}
    BY <1>2
  <2>. HIDE DEF works, fails, misnamed, given, roles
  <2>. QED
    BY <2>3, <2>4, <2>5, <2>6, <2>7, <2>8
<1>. HIDE DEF after, works, misnamed
<1>7. refused' \in BOOLEAN /\ loose' \in BOOLEAN /\ fails \in BOOLEAN
  BY <1>1, <1>2 DEF EmbeddedTyped
<1>8. /\ refused' /\ ~refused => target # "none"
      /\ ~branching /\ ~machine.failed /\ refused' /\ ~refused => fails
      /\ target # "none" /\ ~branching /\ ~machine.failed /\ ~loose' /\ fails => refused'
  BY <1>2, <1>6
<1>9. (refused => refused') /\ (loose => loose')
  BY <1>2
<1>. HIDE DEF fails, objection
<1>. QED
  BY <1>2, <1>5, <1>7, <1>8, <1>9, KeptOperation

\* For any names and any number of statements: an operation only concerns pins of the board
\* it is performed on, that can do it, and the validator agrees with what happens.
THEOREM BoardsAlwaysKept == EmbeddedInit /\ [][EmbeddedNext]_embeddedVars => []BoardsKept
<1>1. EmbeddedInit => EmbeddedInv
  <2>. SUFFICES ASSUME EmbeddedInit PROVE EmbeddedInv
    OBVIOUS
  <2>1. SafeBoard
    BY DEF EmbeddedInit, SafeBoard, EmbeddedTyped, IsMachine, BoardLocked, BusRight, PerformedRight, Boards
  <2>2. ValidatorAgrees
    BY DEF EmbeddedInit, ValidatorAgrees, RefusedFails, FailingRefused, LedKnown
  <2>. QED
    BY <2>1, <2>2 DEF EmbeddedInv
<1>2. EmbeddedInv /\ [EmbeddedNext]_embeddedVars => EmbeddedInv'
  <2>. SUFFICES ASSUME EmbeddedInv, [EmbeddedNext]_embeddedVars PROVE EmbeddedInv'
    OBVIOUS
  <2>1. ASSUME NEW kind \in {"i2c", "uart", "spi"} PROVE kind \in DOMAIN Roles /\ Roles[kind] # {}
    BY DEF Roles
  <2>2. ASSUME NEW kind \in {"i2c", "uart"}, NEW index \in {0, 1}, NEW roles \in SUBSET Roles[kind],
               NEW named \in [roles -> {argument \in Arguments : argument.of = "led" => machine.led # NoPin}],
               OpenBus(kind, index, named)
        PROVE  EmbeddedInv'
    BY <2>1, <2>2, KeptOpenBus
  <2>3. ASSUME NEW index \in {0, 1}, OpenBus("spi", index, <<>>) PROVE EmbeddedInv'
    BY <2>1, <2>3, KeptOpenBus
  <2>4. CASE UNCHANGED embeddedVars
    <3>1. SafeBoard'
      BY <2>4 DEF embeddedVars, EmbeddedInv, SafeBoard, EmbeddedTyped, IsMachine, BoardLocked, BusRight, PerformedRight, OfBoard
    <3>2. ValidatorAgrees'
      BY <2>4, Zenon DEF embeddedVars, EmbeddedInv, ValidatorAgrees, RefusedFails, FailingRefused, LedKnown, Has, Canonical
    <3>. QED
      BY <3>1, <3>2 DEF EmbeddedInv
  <2>. QED
    BY <2>2, <2>3, <2>4, KeptBoardSelect, KeptAssignPin, KeptAssignText, KeptUsePin, KeptDelay, KeptUseBus, KeptIf
       DEF EmbeddedNext
<1>3. EmbeddedInv => BoardsKept
  BY DEF EmbeddedInv, SafeBoard, ValidatorAgrees, BoardsKept
<1>. QED
  BY <1>1, <1>2, <1>3, PTL

----------------------------------------------------------------------------
(* Workspace: what the language server says of several files.              *)

SourceTexts == [state : States, seps : SUBSET SepNames, tags : [SepNames -> [Tags -> Nat]],
                calls : SUBSET AllCalls, import : WorkspaceFiles \cup {"none"}]
\* Only the SEPs of a text have tags.
TagsOwned(text) == \A s \in SepNames, t \in Tags : text.tags[s][t] > 0 => s \in text.seps
WellFormed(text) == text \in SourceTexts /\ TagsOwned(text)
WorkspaceInv ==
  /\ DOMAIN disk = WorkspaceFiles /\ \A f \in WorkspaceFiles : WellFormed(disk[f])
  /\ DOMAIN documents \subseteq WorkspaceFiles /\ \A f \in DOMAIN documents : WellFormed(documents[f])
  /\ rooted \in BOOLEAN

LEMMA EmptyWellFormed == WellFormed(EmptyText)
BY DEF WellFormed, SourceTexts, TagsOwned, EmptyText, States

LEMMA EditedWellFormed ==
  ASSUME NEW text, WellFormed(text), NEW after \in Edited(text)
  PROVE  WellFormed(after)
<1>1. CASE \E s \in SepNames \ text.seps : after = [text EXCEPT !.seps = @ \cup {s}]
  BY <1>1 DEF WellFormed, SourceTexts, TagsOwned
<1>2. CASE \E c \in AllCalls : after = [text EXCEPT !.calls = @ \cup {c}]
  BY <1>2 DEF WellFormed, SourceTexts, TagsOwned
<1>3. CASE \E s \in text.seps, t \in Tags : after = [text EXCEPT !.tags[s][t] = 1]
  <2>1. PICK s \in text.seps, t \in Tags : after = [text EXCEPT !.tags[s][t] = 1]
    BY <1>3
  <2>2. s \in SepNames /\ text.tags \in [SepNames -> [Tags -> Nat]]
    BY DEF WellFormed, SourceTexts
  <2>. DEFINE tags == [text.tags EXCEPT ![s] = [@ EXCEPT ![t] = 1]]
  <2>3. tags \in [SepNames -> [Tags -> Nat]]
    BY <2>2
  <2>4. \A r \in SepNames, u \in Tags : tags[r][u] = IF r = s /\ u = t THEN 1 ELSE text.tags[r][u]
    BY <2>2
  <2>5. after = [text EXCEPT !.tags = tags]
    BY <2>1, <2>2 DEF WellFormed, SourceTexts
  <2>. HIDE DEF tags
  <2>6. after.tags = tags /\ after.seps = text.seps /\ after \in SourceTexts
    BY <2>3, <2>5 DEF WellFormed, SourceTexts
  <2>. QED
    BY <2>1, <2>4, <2>6 DEF WellFormed, TagsOwned
<1>4. CASE \E f \in WorkspaceFiles : after = [text EXCEPT !.import = f]
  BY <1>4 DEF WellFormed, SourceTexts, TagsOwned
<1>5. CASE \E state \in States : after = [text EXCEPT !.state = state]
  BY <1>5 DEF WellFormed, SourceTexts, TagsOwned
<1>. QED
  BY <1>1, <1>2, <1>3, <1>4, <1>5 DEF Edited

\* What a tag rename leaves: the new tag has what both had, the old one nothing.
LEMMA RetaggedIs ==
  ASSUME NEW text, WellFormed(text), NEW old \in Tags, NEW new \in Tags, old # new
  PROVE  /\ WellFormed(Retagged(text, old, new))
         /\ Retagged(text, old, new).state = text.state /\ Retagged(text, old, new).seps = text.seps
         /\ \A s \in SepNames, t \in Tags :
              Retagged(text, old, new).tags[s][t] =
                CASE t = old -> 0 [] t = new -> text.tags[s][new] + text.tags[s][old] [] OTHER -> text.tags[s][t]
<1>. DEFINE tags == [s \in SepNames |-> [text.tags[s] EXCEPT ![new] = @ + text.tags[s][old], ![old] = 0]]
            after == Retagged(text, old, new)
<1>1. text \in SourceTexts /\ text.tags \in [SepNames -> [Tags -> Nat]] /\ text.seps \subseteq SepNames
  BY DEF WellFormed, SourceTexts
<1>2. after = [text EXCEPT !.tags = tags]
  BY DEF Retagged
<1>3. \A s \in SepNames, t \in Tags :
        tags[s][t] = CASE t = old -> 0 [] t = new -> text.tags[s][new] + text.tags[s][old] [] OTHER -> text.tags[s][t]
  BY <1>1
<1>4. tags \in [SepNames -> [Tags -> Nat]]
  BY <1>1
<1>. HIDE DEF tags, after
<1>5. after.tags = tags /\ after.seps = text.seps /\ after.state = text.state /\ after \in SourceTexts
  BY <1>1, <1>2, <1>4 DEF SourceTexts
<1>6. TagsOwned(after)
  <2>. SUFFICES ASSUME NEW s \in SepNames, NEW t \in Tags, tags[s][t] > 0 PROVE s \in text.seps
    BY <1>5 DEF TagsOwned
  <2>1. text.tags[s][t] \in Nat /\ text.tags[s][old] \in Nat /\ text.tags[s][new] \in Nat
    BY <1>1
  <2>2. text.tags[s][t] > 0 \/ text.tags[s][old] > 0 \/ text.tags[s][new] > 0
    BY <1>3, <2>1
  <2>. QED
    BY <2>2 DEF WellFormed, TagsOwned
<1>. QED
  BY <1>3, <1>5, <1>6 DEF WellFormed, after

\* What the server sees of a workspace are texts that the client shows; of a folder, all of them.
LEMMA SourcesShown ==
  ASSUME WorkspaceInv, NEW current \in WorkspaceFiles
  PROVE  LET sources == WorkspaceSources(current)
         IN  /\ DOMAIN sources \subseteq WorkspaceFiles
             /\ \A f \in DOMAIN sources : sources[f] = Shown[f] /\ WellFormed(sources[f])
             /\ rooted => \A other \in WorkspaceFiles : WorkspaceSources(other) = sources
<1>. DEFINE found == IF rooted THEN WorkspaceFiles ELSE Below[current]
            texts == [f \in found |-> disk[f]]
            sources == WorkspaceSources(current)
<1>1. found \subseteq WorkspaceFiles
  BY WorkspaceAssumption
<1>2. /\ DOMAIN sources = DOMAIN documents \cup found
      /\ \A f \in DOMAIN sources : sources[f] = IF f \in DOMAIN documents THEN documents[f] ELSE disk[f]
  <2>1. sources = Over(documents, texts)
    BY DEF WorkspaceSources, Overlaid
  <2>2. DOMAIN texts = found /\ \A f \in found : texts[f] = disk[f]
    OBVIOUS
  <2>. HIDE DEF sources, texts, found
  <2>. QED
    BY <2>1, <2>2 DEF Over
<1>3. \A f \in WorkspaceFiles : Shown[f] = IF f \in DOMAIN documents THEN documents[f] ELSE disk[f]
  BY DEF Shown, Over, WorkspaceInv
<1>4. DOMAIN sources \subseteq WorkspaceFiles
  BY <1>1, <1>2 DEF WorkspaceInv
<1>5. \A f \in DOMAIN sources : sources[f] = Shown[f] /\ WellFormed(sources[f])
  <2>. HIDE DEF sources, found
  <2>. QED
    BY <1>1, <1>2, <1>3, <1>4 DEF WorkspaceInv
<1>6. rooted => \A other \in WorkspaceFiles : WorkspaceSources(other) = sources
  BY DEF WorkspaceSources
<1>. QED
  BY <1>4, <1>5, <1>6

LEMMA WorkspacePreserved == WorkspaceInv /\ [WorkspaceNext]_workspaceVars => WorkspaceInv'
<1>. SUFFICES ASSUME WorkspaceInv, [WorkspaceNext]_workspaceVars PROVE WorkspaceInv'
  OBVIOUS
<1>1. ASSUME NEW f \in WorkspaceFiles, DidOpen(f) PROVE WorkspaceInv'
  <2>1. /\ DOMAIN documents' = {f} \cup DOMAIN documents
        /\ \A g \in DOMAIN documents' : documents'[g] = IF g = f THEN disk[f] ELSE documents[g]
    BY <1>1 DEF DidOpen, Over
  <2>. QED
    BY <1>1, <2>1 DEF DidOpen, WorkspaceInv, WellFormed, TagsOwned
<1>2. ASSUME NEW f \in WorkspaceFiles, DidChange(f) PROVE WorkspaceInv'
  <2>1. PICK text \in Edited(documents[f]) : documents' = [documents EXCEPT ![f] = text]
    BY <1>2 DEF DidChange
  <2>2. WellFormed(text)
    BY <1>2, <2>1, EditedWellFormed DEF DidChange, WorkspaceInv
  <2>3. /\ DOMAIN documents' = DOMAIN documents
        /\ \A g \in DOMAIN documents' : documents'[g] = IF g = f THEN text ELSE documents[g]
    BY <2>1
  <2>. QED
    BY <1>2, <2>2, <2>3 DEF DidChange, WorkspaceInv, WellFormed, TagsOwned
<1>3. ASSUME NEW f \in WorkspaceFiles, DidClose(f) PROVE WorkspaceInv'
  <2>1. /\ DOMAIN documents' = DOMAIN documents \ {f}
        /\ \A g \in DOMAIN documents' : documents'[g] = documents[g]
    BY <1>3 DEF DidClose
  <2>. QED
    BY <1>3, <2>1 DEF DidClose, WorkspaceInv, WellFormed, TagsOwned
<1>4. ASSUME NEW f \in WorkspaceFiles, Save(f) PROVE WorkspaceInv'
  <2>1. /\ DOMAIN disk' = DOMAIN disk
        /\ \A g \in DOMAIN disk' : disk'[g] = IF g = f THEN documents[f] ELSE disk[g]
    BY <1>4 DEF Save, WorkspaceInv
  <2>. QED
    BY <1>4, <2>1 DEF Save, WorkspaceInv, WellFormed, TagsOwned
<1>5. ASSUME NEW f \in WorkspaceFiles, WriteFile(f) PROVE WorkspaceInv'
  <2>1. PICK text \in Edited(disk[f]) : disk' = [disk EXCEPT ![f] = text]
    BY <1>5 DEF WriteFile
  <2>2. WellFormed(text)
    BY <2>1, EditedWellFormed DEF WorkspaceInv
  <2>3. /\ DOMAIN disk' = DOMAIN disk
        /\ \A g \in DOMAIN disk' : disk'[g] = IF g = f THEN text ELSE disk[g]
    BY <2>1
  <2>. QED
    BY <1>5, <2>2, <2>3 DEF WriteFile, WorkspaceInv, WellFormed, TagsOwned
<1>6. ASSUME NEW f \in WorkspaceFiles, NEW old \in Tags, NEW new \in Tags, old # new, RenameTag(f, old, new)
      PROVE  WorkspaceInv'
  <2>1. PICK changed :
          /\ documents' = [g \in DOMAIN documents |-> IF g \in changed THEN Retagged(documents[g], old, new) ELSE documents[g]]
          /\ disk' = [g \in WorkspaceFiles |-> IF g \in changed \ DOMAIN documents THEN Retagged(disk[g], old, new) ELSE disk[g]]
          /\ UNCHANGED rooted
    BY <1>6 DEF RenameTag
  <2>2. \A text : WellFormed(text) => WellFormed(Retagged(text, old, new))
    BY <1>6, RetaggedIs
  <2>3. DOMAIN disk' = WorkspaceFiles /\ DOMAIN documents' = DOMAIN documents
    BY <2>1
  <2>4. \A g \in WorkspaceFiles : WellFormed(disk'[g])
    BY <2>1, <2>2 DEF WorkspaceInv
  <2>5. \A g \in DOMAIN documents : WellFormed(documents'[g])
    BY <2>1, <2>2 DEF WorkspaceInv
  <2>. QED
    BY <2>1, <2>3, <2>4, <2>5 DEF WorkspaceInv, WellFormed, TagsOwned
<1>7. CASE UNCHANGED workspaceVars
  BY <1>7 DEF workspaceVars, WorkspaceInv, WellFormed, TagsOwned
<1>. QED
  BY <1>1, <1>2, <1>3, <1>4, <1>5, <1>6, <1>7 DEF WorkspaceNext

\* A reference is a call in a text of the index that is shown, to the SEP asked for.
LEMMA ReferenceIs ==
  ASSUME WorkspaceInv, NEW current \in WorkspaceFiles, NEW f, NEW name
  PROVE  LET sources == WorkspaceSources(current)
         IN  f \in Indexed(sources) /\ name \in sources[f].seps =>
               LogicReferences(current, f, name) =
                 {p \in [file : Indexed(sources), call : AllCalls] :
                    /\ p.call \in sources[p.file].calls /\ p.call.to = name
                    /\ TokenTarget(p.file, sources[p.file], p.call) = f}
BY SourcesShown DEF LogicReferences, Indexed, WellFormed, SourceTexts

LEMMA ReferencesOfNone ==
  ASSUME NEW current, NEW f, NEW name,
         LET sources == WorkspaceSources(current) IN f \notin Indexed(sources) \/ name \notin sources[f].seps
  PROVE  LogicReferences(current, f, name) = {}
BY DEF LogicReferences

LEMMA ReferencesSound ==
  ASSUME WorkspaceInv
  PROVE  ReferencesAgree
<1>. SUFFICES ASSUME NEW f \in WorkspaceFiles, NEW name \in SepNames, NEW p \in LogicReferences(f, f, name)
              PROVE  /\ p.call \in Shown[p.file].calls
                     /\ rooted => ReferencesAt(p) = LogicReferences(f, f, name)
  BY DEF ReferencesAgree
<1>. DEFINE sources == WorkspaceSources(f)
<1>1. f \in Indexed(sources) /\ name \in sources[f].seps
  BY ReferencesOfNone
<1>2. /\ p.file \in Indexed(sources) /\ p.call \in sources[p.file].calls /\ p.call.to = name
      /\ TokenTarget(p.file, sources[p.file], p.call) = f
  <2>. HIDE DEF sources
  <2>. QED
    BY <1>1, ReferenceIs DEF sources
<1>3. /\ DOMAIN sources \subseteq WorkspaceFiles /\ p.file \in DOMAIN sources
      /\ sources[p.file] = Shown[p.file]
      /\ rooted => \A other \in WorkspaceFiles : WorkspaceSources(other) = sources
  BY <1>2, SourcesShown DEF Indexed
<1>4. ASSUME rooted PROVE ReferencesAt(p) = LogicReferences(f, f, name)
  <2>1. WorkspaceSources(p.file) = sources
    BY <1>3, <1>4
  <2>. HIDE DEF sources
  <2>2. ReferencesAt(p) = LogicReferences(p.file, f, name)
    BY <1>2, <2>1 DEF ReferencesAt
  <2>3. LogicReferences(p.file, f, name) = LogicReferences(f, f, name)
    BY <2>1 DEF LogicReferences, sources
  <2>. QED
    BY <2>2, <2>3
<1>. QED
  BY <1>2, <1>3, <1>4

LEMMA ReferencesFinite ==
  ASSUME WorkspaceInv, NEW f \in WorkspaceFiles, NEW name \in SepNames
  PROVE  IsFiniteSet(LogicReferences(f, f, name))
<1>. DEFINE places == (SepNames \cup {"top"}) \X {"own", "m", "box.m"}
            most == [file : WorkspaceFiles, call : AllCalls]
<1>1. IsFiniteSet(SepNames \cup {"top"})
  BY FS_Union, FS_Singleton, WorkspaceAssumption
<1>2. IsFiniteSet({"own", "m", "box.m"})
  <2>1. IsFiniteSet({"own"}) /\ IsFiniteSet({"m"}) /\ IsFiniteSet({"box.m"})
    BY FS_Singleton
  <2>2. {"own", "m", "box.m"} = ({"own"} \cup {"m"}) \cup {"box.m"}
    OBVIOUS
  <2>3. IsFiniteSet({"own"} \cup {"m"})
    BY <2>1, FS_Union
  <2>4. IsFiniteSet(({"own"} \cup {"m"}) \cup {"box.m"})
    BY <2>1, <2>3, FS_Union
  <2>. QED
    BY <2>2, <2>4, Zenon
<1>3. IsFiniteSet(places \X SepNames)
  BY <1>1, <1>2, FS_Product, WorkspaceAssumption
<1>4. IsFiniteSet(AllCalls)
  <2>. DEFINE call == [q \in places \X SepNames |-> CallAt(q[1][1], q[1][2], q[2])]
  <2>1. call \in Surjection(places \X SepNames, AllCalls)
    <3>1. \A q \in places \X SepNames : call[q] \in AllCalls
      BY DEF AllCalls
    <3>2. \A c \in AllCalls : \E q \in places \X SepNames : call[q] = c
      <4>. SUFFICES ASSUME NEW c \in AllCalls PROVE \E q \in places \X SepNames : call[q] = c
        OBVIOUS
      <4>1. PICK in \in SepNames \cup {"top"}, via \in {"own", "m", "box.m"}, to \in SepNames : c = CallAt(in, via, to)
        BY DEF AllCalls
      <4>2. <<<<in, via>>, to>> \in places \X SepNames /\ call[<<<<in, via>>, to>>] = CallAt(in, via, to)
        OBVIOUS
      <4>. HIDE DEF call, places
      <4>. QED
        BY <4>1, <4>2
    <3>. HIDE DEF call
    <3>3. call \in [places \X SepNames -> AllCalls]
      BY <3>1 DEF call
    <3>. QED
      BY <3>2, <3>3 DEF Surjection
  <2>. QED
    BY <1>3, <2>1, FS_Surjection
<1>5. IsFiniteSet(WorkspaceFiles \X AllCalls)
  BY <1>4, FS_Product, WorkspaceAssumption
<1>6. IsFiniteSet(most)
  <2>. DEFINE place == [q \in WorkspaceFiles \X AllCalls |-> [file |-> q[1], call |-> q[2]]]
  <2>1. \A c \in most : \E q \in WorkspaceFiles \X AllCalls : place[q] = c
    <3>. SUFFICES ASSUME NEW c \in most PROVE \E q \in WorkspaceFiles \X AllCalls : place[q] = c
      OBVIOUS
    <3>1. <<c.file, c.call>> \in WorkspaceFiles \X AllCalls /\ place[<<c.file, c.call>>] = c
      OBVIOUS
    <3>. QED
      BY <3>1
  <2>2. place \in [WorkspaceFiles \X AllCalls -> most]
    OBVIOUS
  <2>. HIDE DEF place, most
  <2>3. place \in Surjection(WorkspaceFiles \X AllCalls, most)
    BY <2>1, <2>2 DEF Surjection
  <2>. QED
    BY <1>5, <2>3, FS_Surjection
<1>7. LogicReferences(f, f, name) \subseteq most
  <2>1. CASE f \notin Indexed(WorkspaceSources(f)) \/ name \notin WorkspaceSources(f)[f].seps
    BY <2>1, ReferencesOfNone
  <2>2. CASE f \in Indexed(WorkspaceSources(f)) /\ name \in WorkspaceSources(f)[f].seps
    <3>1. LogicReferences(f, f, name) \subseteq [file : Indexed(WorkspaceSources(f)), call : AllCalls]
      BY <2>2, ReferenceIs
    <3>2. Indexed(WorkspaceSources(f)) \subseteq WorkspaceFiles
      BY SourcesShown DEF Indexed
    <3>. QED
      BY <3>1, <3>2
  <2>. QED
    BY <2>1, <2>2
<1>. QED
  BY <1>6, <1>7, FS_Subset

LEMMA HierarchySound ==
  ASSUME WorkspaceInv
  PROVE  HierarchyAgrees
<1>. SUFFICES ASSUME NEW f \in WorkspaceFiles, NEW name \in SepNames, Prepared(f, name)
              PROVE  LET references == LogicReferences(f, f, name)
                         sources == WorkspaceSources(f)
                     IN  /\ IncomingCalls(f, name) = {p \in references : InSep(p.call) /\ p.call.via # "box.m" /\ p.file \in WorkspacePrograms(sources)}
                         /\ rooted => \A g \in WorkspacePrograms(sources) : \A s \in sources[g].seps :
                              (\E p \in IncomingCalls(f, name) : p.file = g /\ p.call.in = s) <=> <<f, name>> \in OutgoingCalls(g, s)
                         /\ (\A p \in references : p.file \in WorkspacePrograms(sources) /\ p.call.via # "box.m") =>
                              CountShown(f, name) = Cardinality(IncomingCalls(f, name)) + Cardinality({p \in references : ~InSep(p.call)})
  BY DEF HierarchyAgrees
<1>. DEFINE sources == WorkspaceSources(f)
            references == LogicReferences(f, f, name)
            programs == WorkspacePrograms(sources)
            incoming == IncomingCalls(f, name)
<1>1. /\ DOMAIN sources \subseteq WorkspaceFiles
      /\ \A g \in DOMAIN sources : WellFormed(sources[g])
      /\ rooted => \A other \in WorkspaceFiles : WorkspaceSources(other) = sources
  BY SourcesShown
<1>2. f \in programs /\ name \in sources[f].seps
  BY DEF Prepared
<1>3. programs \subseteq Indexed(sources) /\ Indexed(sources) \subseteq WorkspaceFiles
  BY <1>1 DEF Indexed, WorkspacePrograms
<1>4. references = {p \in [file : Indexed(sources), call : AllCalls] :
                     /\ p.call \in sources[p.file].calls /\ p.call.to = name
                     /\ TokenTarget(p.file, sources[p.file], p.call) = f}
  BY <1>2, <1>3, ReferenceIs
<1>5. incoming = {p \in [file : programs, call : AllCalls] :
                   /\ p.call \in sources[p.file].calls /\ InSep(p.call)
                   /\ CalledLogic(p.file, sources[p.file], p.call) = <<f, name>>}
  <2>. HIDE DEF sources
  <2>1. \A g \in programs : sources[g].calls \subseteq AllCalls
    BY <1>1, <1>3 DEF WellFormed, SourceTexts, Indexed
  <2>. QED
    BY <2>1 DEF IncomingCalls, sources
<1>6. \A g \in WorkspaceFiles, call \in AllCalls :
        CalledLogic(g, sources[g], call) = <<f, name>> <=>
          call.to = name /\ call.via # "box.m" /\ TokenTarget(g, sources[g], call) = f
  <2>. SUFFICES ASSUME NEW g \in WorkspaceFiles, NEW call \in AllCalls
                PROVE  CalledLogic(g, sources[g], call) = <<f, name>> <=>
                         call.to = name /\ call.via # "box.m" /\ TokenTarget(g, sources[g], call) = f
    OBVIOUS
  <2>1. call.via \in {"own", "m", "box.m"}
    BY DEF AllCalls, CallAt
  <2>. HIDE DEF sources
  <2>2. f # "none"
    BY WorkspaceAssumption
  <2>. QED
    BY <2>1, <2>2 DEF CalledLogic, TokenTarget
<1>. HIDE DEF sources, references, programs, incoming
<1>7. incoming = {p \in references : InSep(p.call) /\ p.call.via # "box.m" /\ p.file \in programs}
  BY <1>3, <1>4, <1>5, <1>6
<1>8. ASSUME rooted, NEW g \in programs, NEW s \in sources[g].seps
      PROVE  (\E p \in incoming : p.file = g /\ p.call.in = s) <=> <<f, name>> \in OutgoingCalls(g, s)
  <2>1. WorkspaceSources(g) = sources
    BY <1>1, <1>3, <1>8
  <2>2. WellFormed(sources[g])
    BY <1>1, <1>3 DEF Indexed
  <2>3. s # "top" /\ sources[g].calls \subseteq AllCalls
    BY <2>2, WorkspaceAssumption DEF WellFormed, SourceTexts
  <2>4. <<f, name>> \in OutgoingCalls(g, s) <=>
          \E c \in sources[g].calls : c.in = s /\ CalledLogic(g, sources[g], c) = <<f, name>>
    BY <1>2, <2>1 DEF OutgoingCalls, programs
  <2>5. (\E p \in incoming : p.file = g /\ p.call.in = s) <=>
          \E c \in sources[g].calls : c.in = s /\ CalledLogic(g, sources[g], c) = <<f, name>>
    <3>1. ASSUME NEW p \in incoming, p.file = g, p.call.in = s
          PROVE  \E c \in sources[g].calls : c.in = s /\ CalledLogic(g, sources[g], c) = <<f, name>>
      BY <1>5, <3>1
    <3>2. ASSUME NEW c \in sources[g].calls, c.in = s, CalledLogic(g, sources[g], c) = <<f, name>>
          PROVE  \E p \in incoming : p.file = g /\ p.call.in = s
      <4>1. [file |-> g, call |-> c] \in incoming
        BY <1>5, <2>3, <3>2 DEF InSep
      <4>. QED
        BY <3>2, <4>1
    <3>. QED
      BY <3>1, <3>2
  <2>. QED
    BY <2>4, <2>5
<1>9. ASSUME \A p \in references : p.file \in programs /\ p.call.via # "box.m"
      PROVE  CountShown(f, name) = Cardinality(incoming) + Cardinality({p \in references : ~InSep(p.call)})
  <2>. DEFINE outside == {p \in references : ~InSep(p.call)}
  <2>1. incoming = {p \in references : InSep(p.call)}
    BY <1>7, <1>9
  <2>2. references = incoming \cup outside /\ incoming \cap outside = {}
    BY <2>1
  <2>3. IsFiniteSet(references)
    BY ReferencesFinite DEF references
  <2>4. IsFiniteSet(incoming) /\ IsFiniteSet(outside)
    BY <2>1, <2>3, FS_Subset
  <2>. HIDE DEF outside
  <2>5. /\ Cardinality(references) = Cardinality(incoming) + Cardinality(outside) - Cardinality(incoming \cap outside)
    BY <2>2, <2>4, FS_Union
  <2>6. Cardinality(incoming \cap outside) = 0
    <3>1. Cardinality(incoming \cap outside) = Cardinality({})
      BY <2>2, Zenon
    <3>. QED
      BY <3>1, FS_EmptySet
  <2>7. Cardinality(incoming) \in Nat /\ Cardinality(outside) \in Nat
    BY <2>4, FS_CardinalityType
  <2>8. CountShown(f, name) = Cardinality(references)
    BY DEF CountShown, references
  <2>9. CountShown(f, name) = Cardinality(incoming) + Cardinality(outside)
    BY <2>5, <2>6, <2>7, <2>8
  <2>. QED
    BY <2>9 DEF outside
<1>. QED
  BY <1>7, <1>8, <1>9 DEF sources, references, programs, incoming

LEMMA ShownIs ==
  ASSUME WorkspaceInv, NEW f \in WorkspaceFiles
  PROVE  Shown[f] = (IF f \in DOMAIN documents THEN documents[f] ELSE disk[f]) /\ WellFormed(Shown[f])
BY DEF Shown, Over, WorkspaceInv

\* An edit gives a SEP a tag at most once.
LEMMA EditedApart ==
  ASSUME NEW text, WellFormed(text), NEW after \in Edited(text)
  PROVE  Twice(after) \subseteq Twice(text)
<1>1. text.tags \in [SepNames -> [Tags -> Nat]] /\ text \in SourceTexts
  BY DEF WellFormed, SourceTexts
<1>2. CASE after.tags = text.tags
  BY <1>2 DEF Twice
<1>3. CASE \E s \in text.seps, t \in Tags : after = [text EXCEPT !.tags[s][t] = 1]
  <2>1. PICK s \in text.seps, t \in Tags : after = [text EXCEPT !.tags[s][t] = 1]
    BY <1>3
  <2>2. after.tags = [text.tags EXCEPT ![s] = [@ EXCEPT ![t] = 1]]
    BY <1>1, <2>1 DEF SourceTexts
  <2>3. s \in SepNames
    BY <1>1 DEF SourceTexts
  <2>4. \A r \in SepNames, u \in Tags : after.tags[r][u] = IF r = s /\ u = t THEN 1 ELSE text.tags[r][u]
    BY <1>1, <2>2, <2>3
  <2>. QED
    BY <2>4 DEF Twice
<1>. QED
  BY <1>1, <1>2, <1>3 DEF Edited, SourceTexts

\* A rename that does not merge two tags of one SEP.
LEMMA RetaggedApart ==
  ASSUME NEW text, WellFormed(text), NEW old \in Tags, NEW new \in Tags, old # new,
         \A s \in text.seps : ~(text.tags[s][old] > 0 /\ text.tags[s][new] > 0)
  PROVE  Twice(Retagged(text, old, new)) \subseteq Twice(text)
<1>. SUFFICES ASSUME NEW s \in SepNames, NEW t \in Tags, Retagged(text, old, new).tags[s][t] > 1
              PROVE  \E u \in Tags : text.tags[s][u] > 1
  BY DEF Twice
<1>1. text.tags[s][t] \in Nat /\ text.tags[s][old] \in Nat /\ text.tags[s][new] \in Nat
  BY DEF WellFormed, SourceTexts
<1>2. ~(text.tags[s][old] > 0 /\ text.tags[s][new] > 0)
  BY DEF WellFormed, TagsOwned
<1>3. Retagged(text, old, new).tags[s][t] =
        CASE t = old -> 0 [] t = new -> text.tags[s][new] + text.tags[s][old] [] OTHER -> text.tags[s][t]
  BY RetaggedIs
<1>4. CASE t = old
  BY <1>3, <1>4
<1>5. CASE t = new
  <2>1. text.tags[s][new] + text.tags[s][old] > 1
    BY <1>3, <1>5
  <2>2. text.tags[s][new] > 1 \/ text.tags[s][old] > 1
    BY <1>1, <1>2, <2>1
  <2>. QED
    BY <2>2
<1>6. CASE t # old /\ t # new
  BY <1>3, <1>6
<1>. QED
  BY <1>4, <1>5, <1>6

LEMMA StepApart ==
  ASSUME WorkspaceInv, WorkspaceInv', [WorkspaceNext]_workspaceVars, edits' # edits,
         NEW f \in WorkspaceFiles, Shown[f].state = "parses"
  PROVE  Twice(Shown[f]') \subseteq Twice(Shown[f])
<1>1. Shown[f] = (IF f \in DOMAIN documents THEN documents[f] ELSE disk[f]) /\ WellFormed(Shown[f])
  BY ShownIs
<1>2. Shown'[f] = IF f \in DOMAIN documents' THEN documents'[f] ELSE disk'[f]
  BY DEF Shown, Over, WorkspaceInv
<1>3. ASSUME NEW g \in WorkspaceFiles, DidChange(g) PROVE Twice(Shown'[f]) \subseteq Twice(Shown[f])
  <2>1. PICK text \in Edited(documents[g]) : documents' = [documents EXCEPT ![g] = text] /\ disk' = disk /\ g \in DOMAIN documents
    BY <1>3 DEF DidChange
  <2>2. WellFormed(documents[g])
    BY <2>1 DEF WorkspaceInv
  <2>3. Twice(text) \subseteq Twice(documents[g])
    BY <2>1, <2>2, EditedApart
  <2>4. Shown'[f] = (IF f = g THEN text ELSE Shown[f]) /\ Shown[g] = documents[g]
    BY <1>1, <1>2, <2>1, ShownIs
  <2>. QED
    BY <2>3, <2>4
<1>4. ASSUME NEW g \in WorkspaceFiles, WriteFile(g) PROVE Twice(Shown'[f]) \subseteq Twice(Shown[f])
  <2>1. PICK text \in Edited(disk[g]) : disk' = [disk EXCEPT ![g] = text] /\ documents' = documents
    BY <1>4 DEF WriteFile
  <2>2. WellFormed(disk[g]) /\ DOMAIN disk = WorkspaceFiles
    BY DEF WorkspaceInv
  <2>3. Twice(text) \subseteq Twice(disk[g])
    BY <2>1, <2>2, EditedApart
  <2>4. Shown'[f] = Shown[f] \/ (Shown'[f] = text /\ Shown[f] = disk[g])
    BY <1>1, <1>2, <2>1, <2>2
  <2>. QED
    BY <2>3, <2>4
<1>5. ASSUME NEW g \in WorkspaceFiles, NEW old \in Tags, NEW new \in Tags, old # new, RenameTag(g, old, new)
      PROVE  Twice(Shown'[f]) \subseteq Twice(Shown[f])
  <2>. DEFINE sources == WorkspaceSources(g)
              changed == {h \in Indexed(sources) : HasTag(sources[h], old)}
  <2>1. /\ documents' = [h \in DOMAIN documents |-> IF h \in changed THEN Retagged(documents[h], old, new) ELSE documents[h]]
        /\ disk' = [h \in WorkspaceFiles |-> IF h \in changed \ DOMAIN documents THEN Retagged(disk[h], old, new) ELSE disk[h]]
        /\ ~Merges(g, sources, old, new)
    BY <1>5 DEF RenameTag
  <2>2. f \in changed => sources[f] = Shown[f] /\ f \in DOMAIN sources
    BY SourcesShown DEF Indexed
  <2>3. ASSUME f \in changed PROVE \A s \in Shown[f].seps : ~(Shown[f].tags[s][old] > 0 /\ Shown[f].tags[s][new] > 0)
    <3>. HIDE DEF sources
    <3>. QED
      BY <2>1, <2>2, <2>3 DEF Merges, WorkspacePrograms, changed
  <2>. HIDE DEF changed
  <2>4. Shown'[f] = IF f \in changed THEN Retagged(Shown[f], old, new) ELSE Shown[f]
    BY <1>1, <1>2, <2>1
  <2>. QED
    BY <1>1, <1>5, <2>3, <2>4, RetaggedApart
<1>6. CASE \E g \in WorkspaceFiles : DidOpen(g) \/ DidClose(g) \/ Save(g)
  BY <1>6 DEF DidOpen, DidClose, Save
<1>7. CASE UNCHANGED workspaceVars
  BY <1>7 DEF workspaceVars
<1>8. Twice(Shown'[f]) \subseteq Twice(Shown[f])
  BY <1>3, <1>4, <1>5, <1>6, <1>7 DEF WorkspaceNext
<1>. QED
  BY <1>8

\* For any files, imports and edits: the references of a SEP are calls in the texts that are
\* shown, the call hierarchy is of them, and the rename of a tag keeps tags apart.
THEOREM WorkspaceAlwaysKept == WorkspaceInit /\ [][WorkspaceNext]_workspaceVars => WorkspaceKept
<1>. DEFINE Apart == \A f \in WorkspaceFiles :
                       edits' # edits /\ Shown[f].state = "parses" => Twice(Shown[f]') \subseteq Twice(Shown[f])
<1>1. WorkspaceInit => WorkspaceInv
  BY EmptyWellFormed DEF WorkspaceInit, WorkspaceInv
<1>2. WorkspaceInv /\ [WorkspaceNext]_workspaceVars => WorkspaceInv'
  BY WorkspacePreserved
<1>3. WorkspaceInv => ReferencesAgree /\ HierarchyAgrees
  BY ReferencesSound, HierarchySound
<1>4. WorkspaceInv /\ WorkspaceInv' /\ [WorkspaceNext]_workspaceVars => [Apart]_workspaceVars
  BY StepApart
<1>5. TagsStayApart <=> [][Apart]_workspaceVars
  BY DEF TagsStayApart
<1>. HIDE DEF Apart
<1>. QED
  BY <1>1, <1>2, <1>3, <1>4, <1>5, PTL DEF WorkspaceKept

----------------------------------------------------------------------------
(* EditorBlocks: what the editor makes of a document, against the parser. *)

\* What the editor, the parser and the formatter know of the lines so far follows from
\* what they knew before the last one.
LEMMA AnalysisIs ==
  ASSUME NEW lines, Len(lines) \in Nat
  PROVE  /\ Analysis(lines)[0] = [items |-> <<>>, open |-> <<>>]
         /\ \A n \in 1..Len(lines) : Analysis(lines)[n] = AnalyzeLine(Analysis(lines)[n - 1], n, lines[n])
<1>. DEFINE To(n, f) == f = [i \in 0..n |-> IF i = 0 THEN [items |-> <<>>, open |-> <<>>] ELSE AnalyzeLine(f[i - 1], i, lines[i])]
            Missing  == {n \in 0..Len(lines) : \A f : ~To(n, f)}
<1>1. Missing = {}
  <2>1. SUFFICES ASSUME Missing # {} PROVE FALSE
    OBVIOUS
  <2>2. PICK m \in Missing : \A n \in Missing : m <= n
    <3>1. Missing \in SUBSET Nat
      OBVIOUS
    <3>. QED
      BY <2>1, <3>1, LeastNatural
  <2>3. To(0, [i \in 0..0 |-> [items |-> <<>>, open |-> <<>>]])
    OBVIOUS
  <2>4. m \in 1..Len(lines) /\ m - 1 \in 0..Len(lines) /\ m - 1 \notin Missing
    <3>1. 0 \notin Missing
      <4>. HIDE DEF To
      <4>. QED
        BY <2>3
    <3>2. m \in 0..Len(lines) /\ m # 0 /\ \A n \in Missing : m <= n
      <4>. HIDE DEF To
      <4>. QED
        BY <2>2, <3>1
    <3>3. m \in 1..Len(lines) /\ m - 1 \in 0..Len(lines) /\ ~(m <= m - 1)
      BY <3>2
    <3>. QED
      BY <3>2, <3>3, Zenon
  <2>5. PICK f : To(m - 1, f)
    BY <2>4
  <2>. DEFINE g == [i \in 0..m |-> IF i = m THEN AnalyzeLine(f[i - 1], i, lines[i]) ELSE f[i]]
  <2>6. \A i \in 0..(m - 1) : g[i] = f[i]
    BY <2>4
  <2>7. \A i \in 0..m : g[i] = IF i = 0 THEN [items |-> <<>>, open |-> <<>>] ELSE AnalyzeLine(g[i - 1], i, lines[i])
    <3>1. TAKE i \in 0..m
    <3>2. CASE i = m
      BY <2>4, <2>6, <3>2
    <3>3. CASE i # m
      <4>1. i \in 0..(m - 1) /\ (i # 0 => i - 1 \in 0..(m - 1))
        BY <2>4, <3>3
      <4>2. f[i] = IF i = 0 THEN [items |-> <<>>, open |-> <<>>] ELSE AnalyzeLine(f[i - 1], i, lines[i])
        BY <2>5, <4>1
      <4>. QED
        BY <2>6, <4>1, <4>2
    <3>. QED
      BY <3>2, <3>3
  <2>8. To(m, g)
    BY <2>7
  <2>. QED
    BY <2>2, <2>8
<1>2. \E f : To(Len(lines), f)
  BY <1>1
<1>3. Analysis(lines) = CHOOSE f : To(Len(lines), f)
  BY DEF Analysis
<1>4. To(Len(lines), Analysis(lines))
  <2>. HIDE DEF To
  <2>. QED
    BY <1>2, <1>3, Zenon
<1>5. \A i \in 0..Len(lines) : Analysis(lines)[i] = IF i = 0 THEN [items |-> <<>>, open |-> <<>>] ELSE AnalyzeLine(Analysis(lines)[i - 1], i, lines[i])
  BY <1>4
<1>. QED
  BY <1>5

LEMMA ParsesIs ==
  ASSUME NEW lines, Len(lines) \in Nat
  PROVE  /\ Parses(lines)[0] = [ok |-> TRUE, open |-> <<>>, since |-> <<>>, nodes |-> {}]
         /\ \A n \in 1..Len(lines) : Parses(lines)[n] = ParseLine(Parses(lines)[n - 1], n, lines[n])
<1>. DEFINE To(n, f) == f = [i \in 0..n |-> IF i = 0 THEN [ok |-> TRUE, open |-> <<>>, since |-> <<>>, nodes |-> {}] ELSE ParseLine(f[i - 1], i, lines[i])]
            Missing  == {n \in 0..Len(lines) : \A f : ~To(n, f)}
<1>1. Missing = {}
  <2>1. SUFFICES ASSUME Missing # {} PROVE FALSE
    OBVIOUS
  <2>2. PICK m \in Missing : \A n \in Missing : m <= n
    <3>1. Missing \in SUBSET Nat
      OBVIOUS
    <3>. QED
      BY <2>1, <3>1, LeastNatural
  <2>3. To(0, [i \in 0..0 |-> [ok |-> TRUE, open |-> <<>>, since |-> <<>>, nodes |-> {}]])
    OBVIOUS
  <2>4. m \in 1..Len(lines) /\ m - 1 \in 0..Len(lines) /\ m - 1 \notin Missing
    <3>1. 0 \notin Missing
      <4>. HIDE DEF To
      <4>. QED
        BY <2>3
    <3>2. m \in 0..Len(lines) /\ m # 0 /\ \A n \in Missing : m <= n
      <4>. HIDE DEF To
      <4>. QED
        BY <2>2, <3>1
    <3>3. m \in 1..Len(lines) /\ m - 1 \in 0..Len(lines) /\ ~(m <= m - 1)
      BY <3>2
    <3>. QED
      BY <3>2, <3>3, Zenon
  <2>5. PICK f : To(m - 1, f)
    BY <2>4
  <2>. DEFINE g == [i \in 0..m |-> IF i = m THEN ParseLine(f[i - 1], i, lines[i]) ELSE f[i]]
  <2>6. \A i \in 0..(m - 1) : g[i] = f[i]
    BY <2>4
  <2>7. \A i \in 0..m : g[i] = IF i = 0 THEN [ok |-> TRUE, open |-> <<>>, since |-> <<>>, nodes |-> {}] ELSE ParseLine(g[i - 1], i, lines[i])
    <3>1. TAKE i \in 0..m
    <3>2. CASE i = m
      BY <2>4, <2>6, <3>2
    <3>3. CASE i # m
      <4>1. i \in 0..(m - 1) /\ (i # 0 => i - 1 \in 0..(m - 1))
        BY <2>4, <3>3
      <4>2. f[i] = IF i = 0 THEN [ok |-> TRUE, open |-> <<>>, since |-> <<>>, nodes |-> {}] ELSE ParseLine(f[i - 1], i, lines[i])
        BY <2>5, <4>1
      <4>. QED
        BY <2>6, <4>1, <4>2
    <3>. QED
      BY <3>2, <3>3
  <2>8. To(m, g)
    BY <2>7
  <2>. QED
    BY <2>2, <2>8
<1>2. \E f : To(Len(lines), f)
  BY <1>1
<1>3. Parses(lines) = CHOOSE f : To(Len(lines), f)
  BY DEF Parses
<1>4. To(Len(lines), Parses(lines))
  <2>. HIDE DEF To
  <2>. QED
    BY <1>2, <1>3, Zenon
<1>5. \A i \in 0..Len(lines) : Parses(lines)[i] = IF i = 0 THEN [ok |-> TRUE, open |-> <<>>, since |-> <<>>, nodes |-> {}] ELSE ParseLine(Parses(lines)[i - 1], i, lines[i])
  BY <1>4
<1>. QED
  BY <1>5

LEMMA IndentsIs ==
  ASSUME NEW lines, Len(lines) \in Nat
  PROVE  /\ Indents(lines)[0] = 0
         /\ \A n \in 1..Len(lines) : Indents(lines)[n] = IndentLine(Indents(lines)[n - 1], lines[n])
<1>. DEFINE To(n, f) == f = [i \in 0..n |-> IF i = 0 THEN 0 ELSE IndentLine(f[i - 1], lines[i])]
            Missing  == {n \in 0..Len(lines) : \A f : ~To(n, f)}
<1>1. Missing = {}
  <2>1. SUFFICES ASSUME Missing # {} PROVE FALSE
    OBVIOUS
  <2>2. PICK m \in Missing : \A n \in Missing : m <= n
    <3>1. Missing \in SUBSET Nat
      OBVIOUS
    <3>. QED
      BY <2>1, <3>1, LeastNatural
  <2>3. To(0, [i \in 0..0 |-> 0])
    OBVIOUS
  <2>4. m \in 1..Len(lines) /\ m - 1 \in 0..Len(lines) /\ m - 1 \notin Missing
    <3>1. 0 \notin Missing
      <4>. HIDE DEF To
      <4>. QED
        BY <2>3
    <3>2. m \in 0..Len(lines) /\ m # 0 /\ \A n \in Missing : m <= n
      <4>. HIDE DEF To
      <4>. QED
        BY <2>2, <3>1
    <3>3. m \in 1..Len(lines) /\ m - 1 \in 0..Len(lines) /\ ~(m <= m - 1)
      BY <3>2
    <3>. QED
      BY <3>2, <3>3, Zenon
  <2>5. PICK f : To(m - 1, f)
    BY <2>4
  <2>. DEFINE g == [i \in 0..m |-> IF i = m THEN IndentLine(f[i - 1], lines[i]) ELSE f[i]]
  <2>6. \A i \in 0..(m - 1) : g[i] = f[i]
    BY <2>4
  <2>7. \A i \in 0..m : g[i] = IF i = 0 THEN 0 ELSE IndentLine(g[i - 1], lines[i])
    <3>1. TAKE i \in 0..m
    <3>2. CASE i = m
      BY <2>4, <2>6, <3>2
    <3>3. CASE i # m
      <4>1. i \in 0..(m - 1) /\ (i # 0 => i - 1 \in 0..(m - 1))
        BY <2>4, <3>3
      <4>2. f[i] = IF i = 0 THEN 0 ELSE IndentLine(f[i - 1], lines[i])
        BY <2>5, <4>1
      <4>. QED
        BY <2>6, <4>1, <4>2
    <3>. QED
      BY <3>2, <3>3
  <2>8. To(m, g)
    BY <2>7
  <2>. QED
    BY <2>2, <2>8
<1>2. \E f : To(Len(lines), f)
  BY <1>1
<1>3. Indents(lines) = CHOOSE f : To(Len(lines), f)
  BY DEF Indents
<1>4. To(Len(lines), Indents(lines))
  <2>. HIDE DEF To
  <2>. QED
    BY <1>2, <1>3, Zenon
<1>5. \A i \in 0..Len(lines) : Indents(lines)[i] = IF i = 0 THEN 0 ELSE IndentLine(Indents(lines)[i - 1], lines[i])
  BY <1>4
<1>. QED
  BY <1>5

DocLines == Openers \cup Closers \cup BranchLines \cup {TypedLine}
Items    == [kind : Kinds \cup {"list"}, label : Labels \cup {"30"}, line : Nat, end : Nat,
             used : SUBSET SepLocal, at : SUBSET Nat]
Outlines == [items : Seq(Items), open : Seq(Nat)]

\* An outline of n lines: the blocks in the order of their first lines, those that are
\* open from the outermost to the innermost, the others with a last line.
OutlineOf(a, n) ==
  /\ a \in Outlines
  /\ \A k \in 1..Len(a.open) : a.open[k] \in 1..Len(a.items)
  /\ \A j, k \in 1..Len(a.open) : j < k => a.open[j] < a.open[k]
  /\ \A j \in 1..Len(a.items) : a.items[j].line \in 1..n /\ a.items[j].end \in 0..n
  /\ \A i, j \in 1..Len(a.items) : i < j => a.items[i].line < a.items[j].line
  /\ \A j \in 1..Len(a.items) : a.items[j].end = 0 <=> \E k \in 1..Len(a.open) : a.open[k] = j

\* What a line does to an outline: one more block, ...
Old(x, y) == y.kind = x.kind /\ y.label = x.label /\ y.line = x.line
Begins(a, b, n, line) ==
  /\ Len(b.open) = Len(a.open) + 1 /\ \A k \in 1..Len(a.open) : b.open[k] = a.open[k]
  /\ b.open[Len(a.open) + 1] = Len(a.items) + 1
  /\ Len(b.items) = Len(a.items) + 1 /\ b.items[Len(a.items) + 1] = Item(line, n)
  /\ \A j \in 1..Len(a.items) :
       /\ Old(a.items[j], b.items[j]) /\ b.items[j].end = a.items[j].end /\ b.items[j].at = a.items[j].at
       /\ b.items[j].used = IF Numbered(line) /\ j = Holder(a) THEN a.items[j].used \cup {line.label}
                            ELSE a.items[j].used
\* ... or an occurrence of the label of the innermost, which may end with it.
Occurrence(a, b, n) ==
  /\ Len(a.open) >= 1 /\ Len(b.items) = Len(a.items)
  /\ \A j \in 1..Len(a.items) :
       /\ Old(a.items[j], b.items[j]) /\ b.items[j].used = a.items[j].used
       /\ b.items[j].at = IF j = a.open[Len(a.open)] THEN a.items[j].at \cup {n} ELSE a.items[j].at
Notes(a, b, n) ==
  /\ Occurrence(a, b, n) /\ b.open = a.open
  /\ \A j \in 1..Len(a.items) : b.items[j].end = a.items[j].end
Ends(a, b, n) ==
  /\ Occurrence(a, b, n)
  /\ Len(b.open) = Len(a.open) - 1 /\ \A k \in 1..(Len(a.open) - 1) : b.open[k] = a.open[k]
  /\ \A j \in 1..Len(a.items) : b.items[j].end = IF j = a.open[Len(a.open)] THEN n ELSE a.items[j].end

LEMMA DocLineIs ==
  ASSUME NEW line \in DocLines
  PROVE  /\ line.what \in {"open", "close", "branch", "typed"}
         /\ line.what = "typed" <=> line = TypedLine
         /\ line.what # "typed" => line \in AllLines
         /\ line.what = "typed" => line.kind = "list" /\ line.label = "30"
         /\ line.what \in {"open", "close"} => line.kind \in Kinds /\ line.label \in Labels
         /\ line.what = "branch" => line.kind \in Branches /\ line.label \in Labels
         /\ line.what \in {"open", "typed"} <=> LooksOpen(line)
<1>1. CASE line \in Openers
  BY <1>1 DEF Openers, Line, TypedLine, AllLines, LooksOpen
<1>2. CASE line \in Closers
  BY <1>2 DEF Closers, Line, TypedLine, AllLines, LooksOpen
<1>3. CASE line \in BranchLines
  BY <1>3 DEF BranchLines, Line, TypedLine, AllLines, LooksOpen
<1>4. CASE line = TypedLine
  BY <1>4 DEF Line, TypedLine, LooksOpen
<1>. QED
  BY <1>1, <1>2, <1>3, <1>4 DEF DocLines

LEMMA OutlineIs ==
  ASSUME NEW a \in Outlines
  PROVE  /\ a.items \in Seq(Items) /\ a.open \in Seq(Nat) /\ Len(a.items) \in Nat /\ Len(a.open) \in Nat
         /\ DOMAIN a.items = 1..Len(a.items) /\ DOMAIN a.open = 1..Len(a.open)
         /\ \A j \in 1..Len(a.items) : a.items[j] \in Items
         /\ a.open = <<>> <=> Len(a.open) = 0
         /\ a.open # <<>> => Len(a.open) \in 1..Len(a.open) /\ Last(a.open) = a.open[Len(a.open)]
<1>1. a.items \in Seq(Items) /\ a.open \in Seq(Nat)
  BY DEF Outlines
<1>2. Len(a.items) \in Nat /\ Len(a.open) \in Nat /\ DOMAIN a.items = 1..Len(a.items) /\ DOMAIN a.open = 1..Len(a.open)
  BY <1>1, LenProperties
<1>3. \A j \in 1..Len(a.items) : a.items[j] \in Items
  BY <1>1, ElementOfSeq
<1>4. a.open = <<>> <=> Len(a.open) = 0
  BY <1>1, EmptySeq
<1>5. a.open # <<>> => Len(a.open) \in 1..Len(a.open) /\ Last(a.open) = a.open[Len(a.open)]
  BY <1>2, <1>4 DEF Last
<1>. QED
  BY <1>1, <1>2, <1>3, <1>4, <1>5

LEMMA ItemIs ==
  ASSUME NEW line \in DocLines, LooksOpen(line), NEW n \in Nat
  PROVE  /\ Item(line, n) \in Items /\ Item(line, n).kind = line.kind /\ Item(line, n).label = line.label
         /\ Item(line, n).line = n /\ Item(line, n).end = 0 /\ Item(line, n).used = {} /\ Item(line, n).at = {n}
<1>1. line.kind \in Kinds \cup {"list"} /\ line.label \in Labels \cup {"30"}
  BY DocLineIs
<1>. QED
  BY <1>1 DEF Item, Items

\* The SEP whose numbers count is the innermost that is open.
LEMMA HolderIs ==
  ASSUME NEW n, NEW a, OutlineOf(a, n)
  PROVE  \/ Holder(a) = 0 /\ \A k \in 1..Len(a.open) : a.items[a.open[k]].kind # "SEP"
         \/ \E p \in 1..Len(a.open) : /\ Holder(a) = a.open[p] /\ a.items[a.open[p]].kind = "SEP"
                                      /\ Holder(a) \in 1..Len(a.items)
                                      /\ \A k \in 1..Len(a.open) : k > p => a.items[a.open[k]].kind # "SEP"
<1>. DEFINE seps == {k \in Range(a.open) : a.items[k].kind = "SEP"}
<1>1. /\ a \in Outlines /\ Len(a.open) \in Nat /\ Len(a.items) \in Nat
      /\ \A k \in 1..Len(a.open) : a.open[k] \in 1..Len(a.items)
      /\ \A j, k \in 1..Len(a.open) : j < k => a.open[j] < a.open[k]
  BY OutlineIs DEF OutlineOf
<1>2. Range(a.open) = {a.open[k] : k \in 1..Len(a.open)}
  BY <1>1, OutlineIs DEF Range
<1>3. Holder(a) = IF seps = {} THEN 0 ELSE Max(seps)
  BY DEF Holder
<1>4. CASE seps = {}
  BY <1>2, <1>3, <1>4
<1>5. CASE seps # {}
  <2>1. seps \in SUBSET (0..Len(a.items))
    BY <1>1, <1>2
  <2>2. \E k \in seps : \A j \in seps : j <= k
    <3>. HIDE DEF seps
    <3>. QED
      BY <1>1, <1>5, <2>1, GreatestFrom
  <2>3. Max(seps) \in seps /\ \A j \in seps : j <= Max(seps)
    <3>1. \E k \in seps : \A j \in seps : k >= j
      BY <1>1, <2>1, <2>2
    <3>2. Max(seps) \in seps /\ \A j \in seps : Max(seps) >= j
      <4>. HIDE DEF seps
      <4>. QED
        BY <3>1, Zenon DEF Max
    <3>. QED
      BY <1>1, <2>1, <3>2
  <2>4. PICK p \in 1..Len(a.open) : Max(seps) = a.open[p] /\ a.items[a.open[p]].kind = "SEP"
    BY <1>2, <2>3
  <2>5. ASSUME NEW k \in 1..Len(a.open), k > p PROVE a.items[a.open[k]].kind # "SEP"
    <3>1. a.open[p] < a.open[k] /\ a.open[p] \in 1..Len(a.items) /\ a.open[k] \in 1..Len(a.items)
      BY <1>1, <2>5
    <3>2. a.open[k] \in seps => a.open[k] <= a.open[p]
      <4>. HIDE DEF seps
      <4>. QED
        BY <2>3, <2>4
    <3>3. ~(a.open[k] <= a.open[p])
      BY <1>1, <3>1
    <3>4. a.open[k] \notin seps
      BY <3>2, <3>3, Zenon
    <3>. QED
      BY <1>2, <3>4
  <2>. QED
    BY <1>1, <1>3, <1>5, <2>4, <2>5
<1>. QED
  BY <1>4, <1>5

\* What each line does.
LEMMA OpenItemDoes ==
  ASSUME NEW n \in Nat, NEW a, OutlineOf(a, n), NEW line \in DocLines, LooksOpen(line)
  PROVE  LET b == OpenItem(a, line, n + 1)
         IN  \/ b = a /\ Numbered(line) /\ Holder(a) # 0 /\ line.label \in a.items[Holder(a)].used
             \/ b \in Outlines /\ Begins(a, b, n + 1, line) /\ ~(Numbered(line) /\ Holder(a) # 0 /\ line.label \in a.items[Holder(a)].used)
<1>. DEFINE sep   == Holder(a)
            noted == IF Numbered(line) /\ sep # 0 THEN [a.items EXCEPT ![sep].used = @ \cup {line.label}] ELSE a.items
            b     == [items |-> Append(noted, Item(line, n + 1)), open |-> Append(a.open, Len(noted) + 1)]
<1>1. /\ a.items \in Seq(Items) /\ a.open \in Seq(Nat) /\ Len(a.items) \in Nat /\ Len(a.open) \in Nat
      /\ \A j \in 1..Len(a.items) : a.items[j] \in Items
      /\ DOMAIN a.items = 1..Len(a.items)
  BY OutlineIs DEF OutlineOf
<1>2. sep \in 0..Len(a.items)
  BY <1>1, HolderIs
<1>3. CASE Numbered(line) /\ sep # 0 /\ line.label \in a.items[sep].used
  BY <1>3 DEF OpenItem
<1>4. CASE ~(Numbered(line) /\ sep # 0 /\ line.label \in a.items[sep].used)
  <2>1. OpenItem(a, line, n + 1) = b
    BY <1>4 DEF OpenItem
  <2>2. /\ noted \in Seq(Items) /\ Len(noted) = Len(a.items)
        /\ \A j \in 1..Len(a.items) :
             /\ Old(a.items[j], noted[j]) /\ noted[j].end = a.items[j].end /\ noted[j].at = a.items[j].at
             /\ noted[j].used = IF Numbered(line) /\ j = sep THEN a.items[j].used \cup {line.label} ELSE a.items[j].used
    <3>1. CASE Numbered(line) /\ sep # 0
      <4>1. sep \in 1..Len(a.items) /\ a.items[sep] \in Items
        BY <1>1, <1>2, <3>1
      <4>2. PICK item \in Items : item = [a.items[sep] EXCEPT !.used = @ \cup {line.label}]
        <5>1. line.label \in SepLocal
          BY <3>1 DEF Numbered
        <5>. QED
          BY <4>1, <5>1 DEF Items
      <4>3. Old(a.items[sep], item) /\ item.end = a.items[sep].end /\ item.at = a.items[sep].at
            /\ item.used = a.items[sep].used \cup {line.label}
        BY <4>1, <4>2 DEF Items, Old
      <4>4. noted = [a.items EXCEPT ![sep] = item]
        BY <3>1, <4>2
      <4>5. PICK items \in Seq(Items) : items = [a.items EXCEPT ![sep] = item]
        BY <1>1, <4>1, ExceptSeq
      <4>6. Len(items) = Len(a.items) /\ \A j \in 1..Len(a.items) : items[j] = IF j = sep THEN item ELSE a.items[j]
        BY <1>1, <4>1, <4>5, ExceptSeq
      <4>7. noted = items
        BY <4>4, <4>5
      <4>. HIDE DEF noted, sep
      <4>. QED
        BY <3>1, <4>3, <4>6, <4>7 DEF Old
    <3>2. CASE ~(Numbered(line) /\ sep # 0)
      BY <1>1, <3>2 DEF Old
    <3>. QED
      BY <3>1, <3>2
  <2>3. Item(line, n + 1) \in Items
    BY ItemIs
  <2>4. /\ b.items \in Seq(Items) /\ Len(b.items) = Len(a.items) + 1
        /\ b.items[Len(a.items) + 1] = Item(line, n + 1) /\ \A j \in 1..Len(a.items) : b.items[j] = noted[j]
    <3>. HIDE DEF noted
    <3>. QED
      BY <2>2, <2>3, AppendProperties
  <2>5. /\ b.open \in Seq(Nat) /\ Len(b.open) = Len(a.open) + 1
        /\ b.open[Len(a.open) + 1] = Len(a.items) + 1 /\ \A k \in 1..Len(a.open) : b.open[k] = a.open[k]
    <3>1. Len(noted) + 1 = Len(a.items) + 1 /\ Len(a.items) + 1 \in Nat
      BY <1>1, <2>2
    <3>2. b.open = Append(a.open, Len(a.items) + 1)
      BY <3>1
    <3>. HIDE DEF b
    <3>. QED
      BY <1>1, <3>1, <3>2, AppendProperties
  <2>6. b \in Outlines
    BY <2>4, <2>5 DEF Outlines
  <2>7. Begins(a, b, n + 1, line)
    <3>. HIDE DEF b, noted
    <3>. QED
      BY <2>2, <2>4, <2>5 DEF Begins
  <2>. QED
    BY <1>4, <2>1, <2>6, <2>7
<1>. QED
  BY <1>3, <1>4

LEMMA OccursIs ==
  ASSUME NEW n, NEW a, OutlineOf(a, n), NEW line
  PROVE  Occurs(a, line) <=> Len(a.open) >= 1 /\ a.items[a.open[Len(a.open)]].label = line.label
<1>1. Len(a.open) \in Nat /\ (a.open = <<>> <=> Len(a.open) = 0) /\ (a.open # <<>> => Last(a.open) = a.open[Len(a.open)])
  BY OutlineIs DEF OutlineOf
<1>. QED
  BY <1>1 DEF Occurs

LEMMA BranchItemDoes ==
  ASSUME NEW n \in Nat, NEW a, OutlineOf(a, n), NEW line \in DocLines
  PROVE  LET b == BranchItem(a, line, n + 1)
         IN  b \in Outlines /\ IF Occurs(a, line) THEN Notes(a, b, n + 1) ELSE b = a
<1>1. /\ a \in Outlines /\ a.items \in Seq(Items) /\ a.open \in Seq(Nat) /\ Len(a.items) \in Nat /\ Len(a.open) \in Nat
      /\ \A j \in 1..Len(a.items) : a.items[j] \in Items
      /\ \A k \in 1..Len(a.open) : a.open[k] \in 1..Len(a.items)
  BY OutlineIs DEF OutlineOf
<1>2. CASE Occurs(a, line)
  <2>1. Len(a.open) \in 1..Len(a.open) /\ Last(a.open) = a.open[Len(a.open)]
    BY <1>1, <1>2, OccursIs, OutlineIs
  <2>2. PICK last \in 1..Len(a.items) : last = a.open[Len(a.open)] /\ last = Last(a.open)
    BY <1>1, <2>1
  <2>3. PICK item \in Items : item = [a.items[last] EXCEPT !.at = @ \cup {n + 1}]
    <3>1. a.items[last] \in Items /\ n + 1 \in Nat
      BY <1>1, <2>2
    <3>2. a.items[last].at \cup {n + 1} \in SUBSET Nat
      BY <3>1 DEF Items
    <3>. QED
      BY <3>1, <3>2 DEF Items
  <2>4. Old(a.items[last], item) /\ item.end = a.items[last].end /\ item.used = a.items[last].used
        /\ item.at = a.items[last].at \cup {n + 1}
    BY <1>1, <2>2, <2>3 DEF Items, Old
  <2>5. PICK items \in Seq(Items) : items = [a.items EXCEPT ![last] = item]
    BY <1>1, ExceptSeq
  <2>6. Len(items) = Len(a.items) /\ \A j \in 1..Len(a.items) : items[j] = IF j = last THEN item ELSE a.items[j]
    BY <1>1, <2>5, ExceptSeq
  <2>7. BranchItem(a, line, n + 1) = [items |-> items, open |-> a.open]
    BY <1>1, <1>2, <2>2, <2>3, <2>5 DEF BranchItem, Outlines
  <2>8. PICK b \in Outlines : b = BranchItem(a, line, n + 1) /\ b.items = items /\ b.open = a.open
    BY <1>1, <2>7 DEF Outlines
  <2>9. Notes(a, b, n + 1)
    <3>1. Occurrence(a, b, n + 1)
      <4>1. \A j \in 1..Len(a.items) : b.items[j] = IF j = last THEN item ELSE a.items[j]
        BY <2>6, <2>8
      <4>2. Len(a.open) >= 1 /\ Len(b.items) = Len(a.items)
        BY <2>1, <2>6, <2>8
      <4>. QED
        BY <2>2, <2>4, <4>1, <4>2 DEF Occurrence, Old
    <3>. QED
      BY <2>4, <2>6, <2>8, <3>1 DEF Notes
  <2>. QED
    BY <1>2, <2>8, <2>9
<1>3. CASE ~Occurs(a, line)
  BY <1>1, <1>3 DEF BranchItem
<1>. QED
  BY <1>2, <1>3

LEMMA CloseItemDoes ==
  ASSUME NEW n \in Nat, NEW a, OutlineOf(a, n), NEW line \in DocLines
  PROVE  LET b == CloseItem(a, line, n + 1)
         IN  b \in Outlines /\ IF Occurs(a, line) /\ a.items[Last(a.open)].kind = line.kind THEN Ends(a, b, n + 1) ELSE b = a
<1>1. /\ a \in Outlines /\ a.items \in Seq(Items) /\ a.open \in Seq(Nat) /\ Len(a.items) \in Nat /\ Len(a.open) \in Nat
      /\ \A j \in 1..Len(a.items) : a.items[j] \in Items
      /\ \A k \in 1..Len(a.open) : a.open[k] \in 1..Len(a.items)
  BY OutlineIs DEF OutlineOf
<1>2. CASE Occurs(a, line) /\ a.items[Last(a.open)].kind = line.kind
  <2>1. Len(a.open) \in 1..Len(a.open) /\ Last(a.open) = a.open[Len(a.open)] /\ a.open # <<>>
    BY <1>1, <1>2, OccursIs, OutlineIs
  <2>2. PICK last \in 1..Len(a.items) : last = a.open[Len(a.open)] /\ last = Last(a.open)
    BY <1>1, <2>1
  <2>3. PICK item \in Items : item = [a.items[last] EXCEPT !.at = @ \cup {n + 1}, !.end = n + 1]
    <3>1. a.items[last] \in Items /\ n + 1 \in Nat
      BY <1>1, <2>2
    <3>2. a.items[last].at \cup {n + 1} \in SUBSET Nat
      BY <3>1 DEF Items
    <3>. QED
      BY <3>1, <3>2 DEF Items
  <2>4. Old(a.items[last], item) /\ item.end = n + 1 /\ item.used = a.items[last].used
        /\ item.at = a.items[last].at \cup {n + 1}
    BY <1>1, <2>2, <2>3 DEF Items, Old
  <2>5. PICK items \in Seq(Items) : items = [a.items EXCEPT ![last] = item]
    BY <1>1, ExceptSeq
  <2>6. Len(items) = Len(a.items) /\ \A j \in 1..Len(a.items) : items[j] = IF j = last THEN item ELSE a.items[j]
    BY <1>1, <2>5, ExceptSeq
  <2>7. CloseItem(a, line, n + 1) = [items |-> items, open |-> Front(a.open)]
    <3>1. [a.items EXCEPT ![last].at = @ \cup {n + 1}, ![last].end = n + 1] = [a.items EXCEPT ![last] = item]
      BY <1>1, <2>2, <2>3 DEF Items
    <3>. QED
      BY <1>2, <2>2, <2>5, <3>1 DEF CloseItem
  <2>8. /\ Front(a.open) \in Seq(Nat) /\ Len(Front(a.open)) = Len(a.open) - 1
        /\ \A k \in 1..(Len(a.open) - 1) : Front(a.open)[k] = a.open[k]
    BY <1>1, <2>1, LosesLast
  <2>9. PICK b \in Outlines : b = CloseItem(a, line, n + 1) /\ b.items = items /\ b.open = Front(a.open)
    BY <1>1, <2>7, <2>8 DEF Outlines
  <2>10. Ends(a, b, n + 1)
    <3>1. Occurrence(a, b, n + 1)
      <4>1. \A j \in 1..Len(a.items) : b.items[j] = IF j = last THEN item ELSE a.items[j]
        BY <2>6, <2>9
      <4>2. Len(a.open) >= 1 /\ Len(b.items) = Len(a.items)
        BY <2>1, <2>6, <2>9
      <4>. QED
        BY <2>2, <2>4, <4>1, <4>2 DEF Occurrence, Old
    <3>. QED
      BY <2>2, <2>4, <2>6, <2>8, <2>9, <3>1 DEF Ends
  <2>. QED
    BY <1>2, <2>9, <2>10
<1>3. CASE ~(Occurs(a, line) /\ a.items[Last(a.open)].kind = line.kind)
  BY <1>1, <1>3 DEF CloseItem
<1>. QED
  BY <1>2, <1>3

Steps(a, b, n, line) ==
  /\ LooksOpen(line) =>
       IF Numbered(line) /\ Holder(a) # 0 /\ line.label \in a.items[Holder(a)].used THEN b = a
       ELSE Begins(a, b, n, line)
  /\ line.what = "branch" => IF Occurs(a, line) THEN Notes(a, b, n) ELSE b = a
  /\ line.what = "close" =>
       IF Occurs(a, line) /\ a.items[Last(a.open)].kind = line.kind THEN Ends(a, b, n) ELSE b = a

LEMMA BeginsOutline ==
  ASSUME NEW n \in Nat, NEW a, OutlineOf(a, n), NEW line \in DocLines, LooksOpen(line),
         NEW b \in Outlines, Begins(a, b, n + 1, line)
  PROVE  OutlineOf(b, n + 1)
<1>1. PICK m \in Nat, q \in Nat : m = Len(a.items) /\ q = Len(a.open)
  BY OutlineIs DEF OutlineOf
<1>2. /\ Len(b.items) = m + 1 /\ Len(b.open) = q + 1 /\ b.open[q + 1] = m + 1
      /\ \A k \in 1..q : b.open[k] = a.open[k]
      /\ \A j \in 1..m : b.items[j].line = a.items[j].line /\ b.items[j].end = a.items[j].end
      /\ b.items[m + 1] = Item(line, n + 1)
  BY <1>1 DEF Begins, Old
<1>3. b.items[m + 1].line = n + 1 /\ b.items[m + 1].end = 0
  BY <1>2, ItemIs
<1>4. /\ \A k \in 1..q : a.open[k] \in 1..m
      /\ \A j, k \in 1..q : j < k => a.open[j] < a.open[k]
      /\ \A j \in 1..m : a.items[j].line \in 1..n /\ a.items[j].end \in 0..n
      /\ \A i, j \in 1..m : i < j => a.items[i].line < a.items[j].line
      /\ \A j \in 1..m : a.items[j].end = 0 <=> \E k \in 1..q : a.open[k] = j
  BY <1>1 DEF OutlineOf
<1>5. \A k \in 1..(q + 1) : k \in 1..q \/ k = q + 1
  OBVIOUS
<1>6. \A j \in 1..(m + 1) : j \in 1..m \/ j = m + 1
  OBVIOUS
<1>7. \A k \in 1..(q + 1) : b.open[k] \in 1..(m + 1)
  <2>1. ASSUME NEW k \in 1..q PROVE b.open[k] \in 1..(m + 1)
    <3>1. b.open[k] = a.open[k] /\ a.open[k] \in 1..m
      BY <1>2, <1>4
    <3>. QED
      BY <1>1, <3>1
  <2>2. b.open[q + 1] \in 1..(m + 1)
    BY <1>2
  <2>. QED
    BY <1>5, <2>1, <2>2, Zenon
<1>8. ASSUME NEW j \in 1..(q + 1), NEW k \in 1..(q + 1), j < k PROVE b.open[j] < b.open[k]
  <2>1. j \in 1..q
    BY <1>8
  <2>2. CASE k \in 1..q
    <3>1. a.open[j] < a.open[k]
      BY <1>4, <1>8, <2>1, <2>2, Zenon
    <3>2. b.open[j] = a.open[j] /\ b.open[k] = a.open[k]
      BY <1>2, <2>1, <2>2
    <3>. QED
      BY <3>1, <3>2
  <2>3. CASE k = q + 1
    <3>1. b.open[j] \in 1..m /\ b.open[k] = m + 1
      BY <1>2, <1>4, <2>1, <2>3
    <3>. QED
      BY <3>1
  <2>. QED
    BY <1>5, <2>2, <2>3
<1>9. \A j \in 1..(m + 1) : b.items[j].line \in 1..(n + 1) /\ b.items[j].end \in 0..(n + 1)
  <2>1. ASSUME NEW j \in 1..m PROVE b.items[j].line \in 1..(n + 1) /\ b.items[j].end \in 0..(n + 1)
    <3>1. b.items[j].line = a.items[j].line /\ b.items[j].end = a.items[j].end
      BY <1>2
    <3>2. a.items[j].line \in 1..n /\ a.items[j].end \in 0..n
      BY <1>4
    <3>. QED
      BY <3>1, <3>2
  <2>2. b.items[m + 1].line \in 1..(n + 1) /\ b.items[m + 1].end \in 0..(n + 1)
    BY <1>3
  <2>. QED
    BY <1>6, <2>1, <2>2
<1>10. ASSUME NEW i \in 1..(m + 1), NEW j \in 1..(m + 1), i < j PROVE b.items[i].line < b.items[j].line
  <2>1. i \in 1..m
    BY <1>10
  <2>2. CASE j \in 1..m
    <3>1. a.items[i].line < a.items[j].line
      BY <1>4, <1>10, <2>1, <2>2, Zenon
    <3>2. b.items[i].line = a.items[i].line /\ b.items[j].line = a.items[j].line
      BY <1>2, <2>1, <2>2
    <3>. QED
      BY <3>1, <3>2
  <2>3. CASE j = m + 1
    <3>1. b.items[i].line \in 1..n /\ b.items[j].line = n + 1
      BY <1>2, <1>3, <1>4, <2>1, <2>3
    <3>. QED
      BY <3>1
  <2>. QED
    BY <1>6, <2>2, <2>3
<1>11. ASSUME NEW j \in 1..(m + 1)
       PROVE  b.items[j].end = 0 <=> \E k \in 1..(q + 1) : b.open[k] = j
  <2>1. CASE j = m + 1
    <3>1. q + 1 \in 1..(q + 1) /\ b.open[q + 1] = j
      BY <1>2, <2>1
    <3>. QED
      BY <1>3, <2>1, <3>1
  <2>2. CASE j \in 1..m
    <3>1. b.items[j].end = 0 <=> \E k \in 1..q : a.open[k] = j
      BY <1>2, <1>4, <2>2
    <3>2. b.open[q + 1] # j /\ \A k \in 1..q : k \in 1..(q + 1)
      BY <1>2, <2>2
    <3>3. (\E k \in 1..q : a.open[k] = j) <=> \E k \in 1..(q + 1) : b.open[k] = j
      BY <1>2, <1>5, <3>2
    <3>. QED
      BY <3>1, <3>3
  <2>. QED
    BY <1>6, <2>1, <2>2
<1>. QED
  BY <1>2, <1>7, <1>8, <1>9, <1>10, <1>11 DEF OutlineOf

LEMMA NotesOutline ==
  ASSUME NEW n \in Nat, NEW a, OutlineOf(a, n), NEW b \in Outlines, Notes(a, b, n + 1)
  PROVE  OutlineOf(b, n + 1)
<1>1. /\ Len(a.items) \in Nat /\ Len(a.open) \in Nat /\ Len(b.items) = Len(a.items) /\ b.open = a.open
      /\ \A j \in 1..Len(a.items) : b.items[j].line = a.items[j].line /\ b.items[j].end = a.items[j].end
  BY OutlineIs DEF OutlineOf, Notes, Occurrence, Old
<1>2. \A j \in 1..Len(a.items) : a.items[j].line \in 1..(n + 1) /\ a.items[j].end \in 0..(n + 1)
  BY DEF OutlineOf
<1>. QED
  BY <1>1, <1>2 DEF OutlineOf

LEMMA EndsOutline ==
  ASSUME NEW n \in Nat, NEW a, OutlineOf(a, n), NEW b \in Outlines, Ends(a, b, n + 1)
  PROVE  OutlineOf(b, n + 1)
<1>1. /\ Len(a.items) \in Nat /\ Len(a.open) \in Nat /\ Len(a.open) >= 1 /\ Len(b.items) = Len(a.items)
      /\ Len(b.open) = Len(a.open) - 1 /\ \A k \in 1..(Len(a.open) - 1) : b.open[k] = a.open[k]
      /\ \A j \in 1..Len(a.items) :
           /\ b.items[j].line = a.items[j].line
           /\ b.items[j].end = IF j = a.open[Len(a.open)] THEN n + 1 ELSE a.items[j].end
  BY OutlineIs DEF OutlineOf, Ends, Occurrence, Old
<1>2. \A j \in 1..Len(a.items) : a.items[j].line \in 1..(n + 1) /\ a.items[j].end \in 0..n
  BY DEF OutlineOf
<1>3. \A k \in 1..Len(b.open) : k \in 1..Len(a.open) /\ k < Len(a.open) /\ b.open[k] = a.open[k]
  BY <1>1
<1>4. \A k \in 1..Len(b.open) : b.open[k] \in 1..Len(b.items)
  BY <1>1, <1>3 DEF OutlineOf
<1>5. \A j, k \in 1..Len(b.open) : j < k => b.open[j] < b.open[k]
  BY <1>3 DEF OutlineOf
<1>6. ASSUME NEW j \in 1..Len(b.items) PROVE b.items[j].line \in 1..(n + 1) /\ b.items[j].end \in 0..(n + 1)
  <2>1. a.items[j].line \in 1..(n + 1) /\ a.items[j].end \in 0..n /\ b.items[j].line = a.items[j].line
    BY <1>1, <1>2
  <2>2. b.items[j].end = n + 1 \/ b.items[j].end = a.items[j].end
    BY <1>1
  <2>. QED
    BY <2>1, <2>2
<1>7. \A i, j \in 1..Len(b.items) : i < j => b.items[i].line < b.items[j].line
  BY <1>1 DEF OutlineOf
<1>8. ASSUME NEW j \in 1..Len(b.items)
      PROVE  b.items[j].end = 0 <=> \E k \in 1..Len(b.open) : b.open[k] = j
  <2>1. a.items[j].end = 0 <=> \E k \in 1..Len(a.open) : a.open[k] = j
    BY <1>1 DEF OutlineOf
  <2>2. CASE j = a.open[Len(a.open)]
    <3>1. b.items[j].end # 0
      BY <1>1, <2>2
    <3>2. ASSUME NEW k \in 1..Len(b.open) PROVE b.open[k] # j
      <4>1. Len(a.open) \in 1..Len(a.open) /\ a.open[k] < a.open[Len(a.open)] /\ a.open[k] \in 1..Len(a.items)
        BY <1>1, <1>3 DEF OutlineOf
      <4>. QED
        BY <1>1, <1>3, <2>2, <4>1
    <3>. QED
      BY <3>1, <3>2
  <2>3. CASE j # a.open[Len(a.open)]
    <3>1. \A k \in 1..Len(a.open) : k = Len(a.open) \/ k \in 1..Len(b.open)
      BY <1>1
    <3>2. b.items[j].end = a.items[j].end
      BY <1>1, <2>3
    <3>. QED
      BY <1>3, <2>1, <2>3, <3>1, <3>2
  <2>. QED
    BY <2>2, <2>3
<1>. QED
  BY <1>4, <1>5, <1>6, <1>7, <1>8 DEF OutlineOf

LEMMA SameOutline ==
  ASSUME NEW n \in Nat, NEW a, OutlineOf(a, n)
  PROVE  OutlineOf(a, n + 1)
<1>1. Len(a.items) \in Nat /\ Len(a.open) \in Nat
  BY OutlineIs DEF OutlineOf
<1>2. \A j \in 1..Len(a.items) : a.items[j].line \in 1..(n + 1) /\ a.items[j].end \in 0..(n + 1)
  BY DEF OutlineOf
<1>. QED
  BY <1>1, <1>2 DEF OutlineOf

LEMMA LineDoes ==
  ASSUME NEW n \in Nat, NEW a, OutlineOf(a, n), NEW line \in DocLines
  PROVE  OutlineOf(AnalyzeLine(a, n + 1, line), n + 1) /\ Steps(a, AnalyzeLine(a, n + 1, line), n + 1, line)
<1>1. CASE LooksOpen(line)
  <2>1. AnalyzeLine(a, n + 1, line) = OpenItem(a, line, n + 1) /\ line.what # "branch" /\ line.what # "close"
    BY <1>1 DEF AnalyzeLine, LooksOpen
  <2>. QED
    BY <1>1, <2>1, OpenItemDoes, BeginsOutline, SameOutline DEF Steps
<1>2. CASE line.what = "branch"
  <2>1. AnalyzeLine(a, n + 1, line) = BranchItem(a, line, n + 1) /\ ~LooksOpen(line) /\ line.what # "close"
    BY <1>2 DEF AnalyzeLine, LooksOpen
  <2>. QED
    BY <1>2, <2>1, BranchItemDoes, NotesOutline, SameOutline DEF Steps
<1>3. CASE line.what = "close"
  <2>1. AnalyzeLine(a, n + 1, line) = CloseItem(a, line, n + 1) /\ ~LooksOpen(line) /\ line.what # "branch"
    BY <1>3 DEF AnalyzeLine, LooksOpen
  <2>. QED
    BY <1>3, <2>1, CloseItemDoes, EndsOutline, SameOutline DEF Steps
<1>. QED
  BY <1>1, <1>2, <1>3, DocLineIs DEF LooksOpen

\* Every prefix of a document has an outline.
LEMMA Outlined ==
  ASSUME NEW lines \in Seq(DocLines)
  PROVE  /\ \A n \in 0..Len(lines) : OutlineOf(Analysis(lines)[n], n)
         /\ \A n \in 1..Len(lines) : Steps(Analysis(lines)[n - 1], Analysis(lines)[n], n, lines[n])
<1>. DEFINE Wrong == {n \in 0..Len(lines) : ~OutlineOf(Analysis(lines)[n], n)}
<1>1. Len(lines) \in Nat /\ \A n \in 1..Len(lines) : lines[n] \in DocLines
  BY LenProperties, ElementOfSeq
<1>2. ASSUME NEW n \in 1..Len(lines), OutlineOf(Analysis(lines)[n - 1], n - 1)
      PROVE  OutlineOf(Analysis(lines)[n], n) /\ Steps(Analysis(lines)[n - 1], Analysis(lines)[n], n, lines[n])
  <2>1. n - 1 \in Nat /\ (n - 1) + 1 = n
    OBVIOUS
  <2>2. Analysis(lines)[n] = AnalyzeLine(Analysis(lines)[n - 1], n, lines[n])
    BY <1>1, AnalysisIs
  <2>3. /\ OutlineOf(AnalyzeLine(Analysis(lines)[n - 1], (n - 1) + 1, lines[n]), (n - 1) + 1)
        /\ Steps(Analysis(lines)[n - 1], AnalyzeLine(Analysis(lines)[n - 1], (n - 1) + 1, lines[n]), (n - 1) + 1, lines[n])
    BY <1>1, <1>2, <2>1, LineDoes
  <2>. QED
    BY <2>1, <2>2, <2>3
<1>3. OutlineOf(Analysis(lines)[0], 0)
  <2>1. PICK a \in Outlines : a = Analysis(lines)[0] /\ a.items = <<>> /\ a.open = <<>>
    <3>1. Analysis(lines)[0] = [items |-> <<>>, open |-> <<>>]
      BY <1>1, AnalysisIs
    <3>2. [items |-> <<>>, open |-> <<>>] \in Outlines
      BY EmptySeq DEF Outlines
    <3>. QED
      BY <3>1, <3>2
  <2>2. Len(a.items) = 0 /\ Len(a.open) = 0
    BY <2>1, EmptySeq
  <2>. QED
    BY <2>1, <2>2 DEF OutlineOf
<1>4. Wrong = {}
  <2>1. SUFFICES ASSUME Wrong # {} PROVE FALSE
    OBVIOUS
  <2>2. PICK m \in Wrong : \A n \in Wrong : m <= n
    <3>1. Wrong \in SUBSET Nat
      OBVIOUS
    <3>. QED
      BY <2>1, <3>1, LeastNatural
  <2>3. m \in 1..Len(lines) /\ m - 1 \in 0..Len(lines) /\ ~(m <= m - 1)
    BY <1>1, <1>3, <2>2
  <2>4. OutlineOf(Analysis(lines)[m - 1], m - 1)
    BY <2>2, <2>3
  <2>. QED
    BY <1>2, <2>2, <2>3, <2>4
<1>5. ASSUME NEW n \in 1..Len(lines) PROVE OutlineOf(Analysis(lines)[n - 1], n - 1)
  <2>1. n - 1 \in 0..Len(lines)
    BY <1>1
  <2>. QED
    BY <1>4, <2>1
<1>. QED
  BY <1>2, <1>4, <1>5

----------------------------------------------------------------------------
(* The parser, line by line.                                               *)

Closings    == [kind : Kinds, label : Labels, line : Nat, end : Nat]
ParseStates == [ok : BOOLEAN, open : Seq(BlockRecs), since : Seq(Nat), nodes : SUBSET Closings]

\* As long as the lines are accepted: where the open blocks begin, and where the others
\* begin and end.
ParseOf(p, n) ==
  /\ p \in ParseStates
  /\ p.ok => /\ Len(p.since) = Len(p.open) /\ Rooted(p.open)
             /\ \A k \in 1..Len(p.since) : p.since[k] \in 1..n
             /\ \A j, k \in 1..Len(p.since) : j < k => p.since[j] < p.since[k]
             /\ \A node \in p.nodes : node.line \in 1..n /\ node.end \in 1..n /\ node.line < node.end

\* What an accepted line does.
Takes(p, q, n, line) ==
  /\ p.ok /\ Accepts(line, p.open) /\ q.open = After(line, p.open, {})
  /\ IF line = TypedLine THEN q.open = p.open ELSE Does(line, p.open, q.open)
  /\ line.what = "open" =>
       /\ Len(q.since) = Len(p.since) + 1 /\ q.since[Len(p.since) + 1] = n
       /\ \A k \in 1..Len(p.since) : q.since[k] = p.since[k]
  /\ line.what \in {"branch", "typed"} => q.since = p.since
  /\ line.what = "close" =>
       /\ Len(p.since) >= 1 /\ Len(q.since) = Len(p.since) - 1
       /\ \A k \in 1..(Len(p.since) - 1) : q.since[k] = p.since[k]
  /\ q.nodes = IF line.what = "close"
               THEN p.nodes \cup {[kind |-> line.kind, label |-> line.label, line |-> p.since[Len(p.since)], end |-> n]}
               ELSE p.nodes

\* The SEP-local labels of the outermost block.
LEMMA UsedAfter ==
  ASSUME NEW s \in Seq(BlockRecs), s # <<>>, NEW line \in AllLines
  PROVE  /\ line.what = "open" => After(line, s, {})[1].used = s[1].used \cup ({line.label} \cap SepLocal)
         /\ line.what = "branch" => After(line, s, {})[1].used = s[1].used
         /\ line.what = "close" /\ Len(s) > 1 => After(line, s, {})[1].used = s[1].used
<1>1. Len(s) \in Nat /\ Len(s) >= 1 /\ 1 \in 1..Len(s) /\ s[1] \in BlockRecs /\ DOMAIN s = 1..Len(s)
  <2>1. Len(s) \in Nat /\ Len(s) >= 1 /\ DOMAIN s = 1..Len(s)
    BY EmptySeq, LenProperties
  <2>. QED
    BY <2>1, ElementOfSeq
<1>2. ASSUME line.what = "open" PROVE After(line, s, {})[1].used = s[1].used \cup ({line.label} \cap SepLocal)
  <2>1. PICK block \in BlockRecs : block = Block(line.kind, line.label, {})
    BY <1>2, LineIs, BlockIs
  <2>2. CASE line.label \notin SepLocal
    <3>1. After(line, s, {}) = Append(s, block)
      BY <1>2, <2>1, <2>2 DEF After, Opened
    <3>2. Append(s, block)[1] = s[1]
      BY <1>1, AppendProperties
    <3>. QED
      BY <2>2, <3>1, <3>2
  <2>3. CASE line.label \in SepLocal
    <3>1. PICK first \in BlockRecs : first = [s[1] EXCEPT !.used = @ \cup {line.label}]
      BY <1>1, <2>3 DEF BlockRecs
    <3>2. first.used = s[1].used \cup {line.label}
      BY <1>1, <3>1 DEF BlockRecs
    <3>3. PICK r \in Seq(BlockRecs) : r = [s EXCEPT ![1] = first]
      BY <1>1, ExceptSeq
    <3>4. r[1] = first /\ Len(r) = Len(s)
      BY <1>1, <3>3, ExceptSeq
    <3>5. After(line, s, {}) = Append(r, block)
      BY <1>2, <2>1, <2>3, <3>1, <3>3 DEF After, Opened
    <3>6. Append(r, block)[1] = r[1]
      BY <1>1, <3>4, AppendProperties
    <3>. QED
      BY <2>3, <3>2, <3>4, <3>5, <3>6
  <2>. QED
    BY <2>2, <2>3
<1>3. ASSUME line.what = "branch" PROVE After(line, s, {})[1].used = s[1].used
  BY <1>1, <1>3 DEF After, Continued, Branched
<1>4. ASSUME line.what = "close", Len(s) > 1 PROVE After(line, s, {})[1].used = s[1].used
  <2>1. After(line, s, {}) = Front(s)
    BY <1>4 DEF After, Continued
  <2>2. Front(s)[1] = s[1]
    BY <1>1, <1>4, LosesLast
  <2>. QED
    BY <2>1, <2>2
<1>. QED
  BY <1>2, <1>3, <1>4

LEMMA ParseIs ==
  ASSUME NEW p \in ParseStates
  PROVE  /\ p.open \in Seq(BlockRecs) /\ p.since \in Seq(Nat) /\ Len(p.open) \in Nat /\ Len(p.since) \in Nat
         /\ p.nodes \in SUBSET Closings /\ p.ok \in BOOLEAN
         /\ p.open = <<>> <=> Len(p.open) = 0
         /\ p.since = <<>> <=> Len(p.since) = 0
<1>1. p.open \in Seq(BlockRecs) /\ p.since \in Seq(Nat) /\ p.nodes \in SUBSET Closings /\ p.ok \in BOOLEAN
  BY DEF ParseStates
<1>. QED
  BY <1>1, LenProperties, EmptySeq

LEMMA TypedTaken ==
  ASSUME NEW s
  PROVE  Accepts(TypedLine, s) /\ After(TypedLine, s, {}) = s
BY DEF TypedLine, Line, Accepts, After, Continued

LEMMA TakenLine ==
  ASSUME NEW s \in Seq(BlockRecs), NEW line \in DocLines, Accepts(line, s)
  PROVE  /\ After(line, s, {}) \in Seq(BlockRecs)
         /\ IF line = TypedLine THEN After(line, s, {}) = s ELSE Does(line, s, After(line, s, {}))
         /\ line.what \in {"branch", "close"} => Len(s) >= 1
<1>1. CASE line = TypedLine
  BY <1>1, TypedTaken DEF TypedLine, Line
<1>2. CASE line # TypedLine
  <2>1. line \in AllLines
    BY <1>2, DocLineIs
  <2>2. /\ line.what \in {"branch", "close"} => s # <<>>
        /\ line.what = "open" /\ line.label \in SepLocal => s # <<>>
    BY <2>1, AcceptsIs
  <2>3. {} \in SUBSET SepLocal
    OBVIOUS
  <2>. QED
    BY <1>2, <2>1, <2>2, <2>3, AfterDoes, EmptySeq
<1>. QED
  BY <1>1, <1>2

LEMMA ParseLineDoes ==
  ASSUME NEW n \in Nat, NEW p, ParseOf(p, n), NEW line \in DocLines
  PROVE  LET q == ParseLine(p, n + 1, line)
         IN  q \in ParseStates /\ (q.ok => Takes(p, q, n + 1, line)) /\ (p.ok /\ Accepts(line, p.open) => q.ok)
<1>1. /\ p \in ParseStates /\ p.open \in Seq(BlockRecs) /\ p.since \in Seq(Nat) /\ Len(p.open) \in Nat
      /\ Len(p.since) \in Nat /\ p.nodes \in SUBSET Closings /\ p.ok \in BOOLEAN
  BY ParseIs DEF ParseOf
<1>2. CASE ~p.ok \/ ~Accepts(line, p.open)
  <2>1. ParseLine(p, n + 1, line) = [p EXCEPT !.ok = FALSE]
    BY <1>2 DEF ParseLine
  <2>. QED
    BY <1>1, <1>2, <2>1 DEF ParseStates
<1>3. CASE p.ok /\ Accepts(line, p.open)
  <2>1. /\ After(line, p.open, {}) \in Seq(BlockRecs)
        /\ IF line = TypedLine THEN After(line, p.open, {}) = p.open ELSE Does(line, p.open, After(line, p.open, {}))
        /\ line.what \in {"branch", "close"} => Len(p.open) >= 1
        /\ Len(p.since) = Len(p.open)
    BY <1>1, <1>3, TakenLine DEF ParseOf
  <2>. DEFINE since == IF line.what = "open" THEN Append(p.since, n + 1) ELSE IF line.what = "close" THEN Front(p.since) ELSE p.since
              closing == [kind |-> line.kind, label |-> line.label, line |-> Last(p.since), end |-> n + 1]
              nodes == IF line.what = "close" THEN p.nodes \cup {closing} ELSE p.nodes
  <2>2. /\ since \in Seq(Nat)
        /\ line.what = "open" =>
             /\ Len(since) = Len(p.since) + 1 /\ since[Len(p.since) + 1] = n + 1
             /\ \A k \in 1..Len(p.since) : since[k] = p.since[k]
        /\ line.what = "close" =>
             /\ Len(since) = Len(p.since) - 1 /\ \A k \in 1..(Len(p.since) - 1) : since[k] = p.since[k]
    <3>1. CASE line.what = "open"
      BY <1>1, <3>1, AppendProperties
    <3>2. CASE line.what = "close"
      <4>1. p.since # <<>>
        BY <1>1, <2>1, <3>2, ParseIs
      <4>. QED
        BY <1>1, <3>2, <4>1, LosesLast
    <3>. QED
      BY <1>1, <3>1, <3>2
  <2>3. nodes \in SUBSET Closings
    <3>1. CASE line.what = "close"
      <4>1. Len(p.since) \in 1..Len(p.since)
        BY <1>1, <2>1, <3>1
      <4>2. Last(p.since) \in Nat
        BY <1>1, <4>1, ElementOfSeq DEF Last
      <4>3. closing \in Closings
        BY <3>1, <4>2, DocLineIs DEF Closings
      <4>. QED
        BY <1>1, <4>3
    <3>. QED
      BY <1>1, <3>1
  <2>4. PICK open \in Seq(BlockRecs) : open = After(line, p.open, {})
    BY <2>1
  <2>5. ParseLine(p, n + 1, line) = [p EXCEPT !.open = open, !.since = since, !.nodes = nodes]
    BY <1>1, <1>3, <2>4 DEF ParseLine, ParseStates
  <2>6. PICK q \in ParseStates :
          q = ParseLine(p, n + 1, line) /\ q.ok = p.ok /\ q.open = open /\ q.since = since /\ q.nodes = nodes
    <3>. HIDE DEF since, nodes
    <3>. QED
      BY <1>1, <2>2, <2>3, <2>5 DEF ParseStates
  <2>7. closing = [kind |-> line.kind, label |-> line.label, line |-> p.since[Len(p.since)], end |-> n + 1]
    BY DEF Last
  <2>8. /\ line.what = "open" =>
             /\ Len(q.since) = Len(p.since) + 1 /\ q.since[Len(p.since) + 1] = n + 1
             /\ \A k \in 1..Len(p.since) : q.since[k] = p.since[k]
        /\ line.what \in {"branch", "typed"} => q.since = p.since
        /\ line.what = "close" =>
             /\ Len(p.since) >= 1 /\ Len(q.since) = Len(p.since) - 1
             /\ \A k \in 1..(Len(p.since) - 1) : q.since[k] = p.since[k]
    <3>1. line.what \in {"branch", "typed"} => q.since = p.since
      BY <2>6
    <3>2. line.what = "close" => Len(p.since) >= 1
      BY <2>1
    <3>. HIDE DEF since
    <3>. QED
      BY <2>2, <2>6, <3>1, <3>2
  <2>9. q.nodes = IF line.what = "close"
                  THEN p.nodes \cup {[kind |-> line.kind, label |-> line.label, line |-> p.since[Len(p.since)], end |-> n + 1]}
                  ELSE p.nodes
    BY <2>6, <2>7
  <2>10. q.open = After(line, p.open, {}) /\ IF line = TypedLine THEN q.open = p.open ELSE Does(line, p.open, q.open)
    BY <2>1, <2>4, <2>6
  <2>11. Takes(p, q, n + 1, line)
    BY <1>3, <2>8, <2>9, <2>10 DEF Takes
  <2>. QED
    BY <1>3, <2>6, <2>11
<1>. QED
  BY <1>2, <1>3

LEMMA TakesParse ==
  ASSUME NEW n \in Nat, NEW p, ParseOf(p, n), NEW line \in DocLines, NEW q \in ParseStates, Takes(p, q, n + 1, line)
  PROVE  ParseOf(q, n + 1)
<1>1. /\ p \in ParseStates /\ p.open \in Seq(BlockRecs) /\ q.open \in Seq(BlockRecs)
      /\ Len(p.since) = Len(p.open) /\ Rooted(p.open)
      /\ \A k \in 1..Len(p.since) : p.since[k] \in 1..n
      /\ \A j, k \in 1..Len(p.since) : j < k => p.since[j] < p.since[k]
      /\ \A node \in p.nodes : node.line \in 1..n /\ node.end \in 1..n /\ node.line < node.end
  BY ParseIs DEF ParseOf, Takes
<1>2. PICK m \in Nat : m = Len(p.open) /\ m = Len(p.since)
  BY <1>1, ParseIs
<1>3. line.what \in {"open", "close", "branch", "typed"} /\ (line.what = "typed" <=> line = TypedLine)
      /\ (line.what # "typed" => line \in AllLines) /\ Accepts(line, p.open)
  BY DocLineIs DEF Takes
<1>4. \A node \in q.nodes : node.line \in 1..(n + 1) /\ node.end \in 1..(n + 1) /\ node.line < node.end
  <2>1. ASSUME NEW node \in p.nodes PROVE node.line \in 1..(n + 1) /\ node.end \in 1..(n + 1) /\ node.line < node.end
    <3>1. node.line \in 1..n /\ node.end \in 1..n /\ node.line < node.end
      BY <1>1
    <3>. QED
      BY <3>1
  <2>2. CASE line.what = "close"
    <3>1. p.since[m] \in 1..n
      BY <1>1, <1>2, <2>2 DEF Takes
    <3>. DEFINE closing == [kind |-> line.kind, label |-> line.label, line |-> p.since[Len(p.since)], end |-> n + 1]
    <3>2. closing.line = p.since[m] /\ closing.end = n + 1
      BY <1>2
    <3>3. \A node \in q.nodes : node \in p.nodes \/ node = closing
      BY <2>2 DEF Takes
    <3>4. closing.line \in 1..(n + 1) /\ closing.end \in 1..(n + 1) /\ closing.line < closing.end
      <4>. HIDE DEF closing
      <4>. QED
        BY <3>1, <3>2
    <3>. QED
      BY <2>1, <3>3, <3>4
  <2>3. CASE line.what # "close"
    BY <2>1, <2>3 DEF Takes
  <2>. QED
    BY <2>2, <2>3
<1>5. CASE line.what = "open"
  <2>1. Len(q.since) = m + 1 /\ q.since[m + 1] = n + 1 /\ \A k \in 1..m : q.since[k] = p.since[k]
    BY <1>2, <1>5 DEF Takes
  <2>2. \A k \in 1..(m + 1) : k \in 1..m \/ k = m + 1
    OBVIOUS
  <2>3. Grows(line, p.open, q.open) /\ line \in AllLines
    BY <1>3, <1>5 DEF Takes, Does
  <2>4. Len(q.open) = m + 1
    BY <1>2, <2>3 DEF Grows
  <2>5. Rooted(q.open)
    <3>1. ASSUME NEW k \in 1..(m + 1), q.open[k].kind \in {"SEP", "http_route"} PROVE k = 1
      <4>1. CASE k \in 1..m
        BY <1>1, <1>2, <2>3, <3>1, <4>1 DEF Rooted, Grows, Alike
      <4>2. CASE k = m + 1
        <5>1. line.kind \in {"SEP", "http_route"}
          BY <1>2, <2>3, <3>1, <4>2 DEF Grows
        <5>2. m = 0
          BY <1>1, <1>2, <1>3, <1>5, <2>3, <5>1, AcceptsIs
        <5>. QED
          BY <4>2, <5>2
      <4>. QED
        BY <2>2, <4>1, <4>2
    <3>. QED
      BY <2>4, <3>1 DEF Rooted
  <2>6. \A k \in 1..(m + 1) : q.since[k] \in 1..(n + 1)
    <3>1. \A k \in 1..m : q.since[k] \in 1..n
      BY <1>1, <1>2, <2>1
    <3>. QED
      BY <2>1, <2>2, <3>1
  <2>7. ASSUME NEW j \in 1..(m + 1), NEW k \in 1..(m + 1), j < k PROVE q.since[j] < q.since[k]
    <3>1. j \in 1..m /\ q.since[j] = p.since[j] /\ p.since[j] \in 1..n
      <4>1. j \in 1..m
        BY <2>7
      <4>. QED
        BY <1>1, <1>2, <2>1, <4>1
    <3>2. CASE k \in 1..m
      <4>1. p.since[j] < p.since[k]
        BY <1>1, <1>2, <2>7, <3>1, <3>2
      <4>. QED
        BY <2>1, <3>1, <3>2, <4>1
    <3>3. CASE k = m + 1
      BY <2>1, <3>1, <3>3
    <3>. QED
      BY <2>2, <3>2, <3>3
  <2>. QED
    BY <1>4, <2>1, <2>4, <2>5, <2>6, <2>7 DEF ParseOf
<1>6. CASE line.what \in {"branch", "typed"}
  <2>1. q.since = p.since
    BY <1>6 DEF Takes
  <2>2. Len(q.open) = m /\ \A k \in 1..m : q.open[k].kind = p.open[k].kind
    <3>1. CASE line = TypedLine
      BY <1>2, <3>1 DEF Takes
    <3>2. CASE line.what = "branch"
      <4>1. Marks(line, p.open, q.open)
        BY <1>3, <3>2 DEF Takes, Does
      <4>2. \A k \in 1..m : k \in 1..(m - 1) \/ k = m
        OBVIOUS
      <4>. QED
        BY <1>2, <4>1, <4>2 DEF Marks, Alike
    <3>. QED
      BY <1>3, <1>6, <3>1, <3>2
  <2>3. Rooted(q.open)
    BY <1>1, <1>2, <2>2 DEF Rooted
  <2>4. \A k \in 1..m : q.since[k] \in 1..(n + 1)
    <3>1. \A k \in 1..m : p.since[k] \in 1..n
      BY <1>1, <1>2
    <3>. QED
      BY <2>1, <3>1
  <2>. QED
    BY <1>1, <1>2, <1>4, <2>1, <2>2, <2>3, <2>4 DEF ParseOf
<1>7. CASE line.what = "close"
  <2>1. m >= 1 /\ Len(q.since) = m - 1 /\ \A k \in 1..(m - 1) : q.since[k] = p.since[k]
    BY <1>2, <1>7 DEF Takes
  <2>2. Shrinks(p.open, q.open)
    BY <1>3, <1>7 DEF Takes, Does
  <2>3. Len(q.open) = m - 1 /\ \A k \in 1..(m - 1) : q.open[k].kind = p.open[k].kind
    BY <1>2, <2>2 DEF Shrinks, Alike
  <2>4. \A k \in 1..(m - 1) : k \in 1..m
    OBVIOUS
  <2>5. Rooted(q.open)
    BY <1>1, <1>2, <2>3, <2>4 DEF Rooted
  <2>6. \A k \in 1..(m - 1) : q.since[k] \in 1..(n + 1)
    <3>1. \A k \in 1..(m - 1) : p.since[k] \in 1..n
      BY <1>1, <1>2, <2>4
    <3>. QED
      BY <2>1, <3>1
  <2>7. \A j, k \in 1..(m - 1) : j < k => q.since[j] < q.since[k]
    BY <1>1, <1>2, <2>1, <2>4
  <2>. QED
    BY <1>4, <2>1, <2>3, <2>5, <2>6, <2>7 DEF ParseOf
<1>. QED
  BY <1>3, <1>5, <1>6, <1>7

\* Every prefix of a document that is accepted as a whole is, one line at a time.
LEMMA ParsedSoFar ==
  ASSUME NEW lines \in Seq(DocLines)
  PROVE  /\ Parses(lines)[0] = [ok |-> TRUE, open |-> <<>>, since |-> <<>>, nodes |-> {}]
         /\ \A n \in 0..Len(lines) : ParseOf(Parses(lines)[n], n)
         /\ \A n \in 1..Len(lines) :
              /\ Parses(lines)[n].ok => Takes(Parses(lines)[n - 1], Parses(lines)[n], n, lines[n])
              /\ Parses(lines)[n - 1].ok /\ Accepts(lines[n], Parses(lines)[n - 1].open) => Parses(lines)[n].ok
<1>. DEFINE Wrong == {n \in 0..Len(lines) : ~ParseOf(Parses(lines)[n], n)}
<1>1. Len(lines) \in Nat /\ \A n \in 1..Len(lines) : lines[n] \in DocLines
  BY LenProperties, ElementOfSeq
<1>2. ASSUME NEW n \in 1..Len(lines), ParseOf(Parses(lines)[n - 1], n - 1)
      PROVE  /\ ParseOf(Parses(lines)[n], n)
             /\ Parses(lines)[n].ok => Takes(Parses(lines)[n - 1], Parses(lines)[n], n, lines[n])
             /\ Parses(lines)[n - 1].ok /\ Accepts(lines[n], Parses(lines)[n - 1].open) => Parses(lines)[n].ok
  <2>1. PICK m \in Nat : m = n - 1 /\ m + 1 = n
    OBVIOUS
  <2>2. PICK p, q : p = Parses(lines)[m] /\ q = Parses(lines)[n]
    OBVIOUS
  <2>3. q = ParseLine(p, m + 1, lines[n]) /\ lines[n] \in DocLines /\ ParseOf(p, m)
    BY <1>1, <1>2, <2>1, <2>2, ParsesIs
  <2>4. q \in ParseStates /\ (q.ok => Takes(p, q, m + 1, lines[n])) /\ (p.ok /\ Accepts(lines[n], p.open) => q.ok)
    BY <2>3, ParseLineDoes
  <2>5. ParseOf(q, m + 1)
    <3>1. CASE q.ok
      BY <2>3, <2>4, <3>1, TakesParse
    <3>2. CASE ~q.ok
      BY <2>4, <3>2 DEF ParseOf
    <3>. QED
      BY <3>1, <3>2
  <2>. QED
    BY <2>1, <2>2, <2>4, <2>5
<1>3. Parses(lines)[0] = [ok |-> TRUE, open |-> <<>>, since |-> <<>>, nodes |-> {}] /\ ParseOf(Parses(lines)[0], 0)
  <2>1. Parses(lines)[0] = [ok |-> TRUE, open |-> <<>>, since |-> <<>>, nodes |-> {}]
    BY <1>1, ParsesIs
  <2>2. PICK p \in ParseStates : p = Parses(lines)[0] /\ p.since = <<>> /\ p.open = <<>> /\ p.nodes = {}
    <3>1. [ok |-> TRUE, open |-> <<>>, since |-> <<>>, nodes |-> {}] \in ParseStates
      BY EmptySeq DEF ParseStates
    <3>. QED
      BY <2>1, <3>1
  <2>3. Len(p.since) = 0 /\ Len(p.open) = 0
    BY <2>2, EmptySeq
  <2>4. ParseOf(p, 0)
    BY <2>2, <2>3 DEF ParseOf, Rooted
  <2>. QED
    BY <2>1, <2>2, <2>4
<1>4. Wrong = {}
  <2>1. SUFFICES ASSUME Wrong # {} PROVE FALSE
    OBVIOUS
  <2>2. PICK m \in Wrong : \A n \in Wrong : m <= n
    <3>1. Wrong \in SUBSET Nat
      OBVIOUS
    <3>. QED
      BY <2>1, <3>1, LeastNatural
  <2>3. m \in 1..Len(lines) /\ m - 1 \in 0..Len(lines) /\ ~(m <= m - 1)
    BY <1>1, <1>3, <2>2
  <2>4. ParseOf(Parses(lines)[m - 1], m - 1)
    BY <2>2, <2>3
  <2>. QED
    BY <1>2, <2>2, <2>3, <2>4
<1>5. ASSUME NEW n \in 1..Len(lines) PROVE ParseOf(Parses(lines)[n - 1], n - 1)
  <2>1. n - 1 \in 0..Len(lines)
    BY <1>1
  <2>. QED
    BY <1>4, <2>1
<1>6. \A n \in 0..Len(lines) : ParseOf(Parses(lines)[n], n)
  BY <1>4
<1>7. \A n \in 1..Len(lines) :
              /\ Parses(lines)[n].ok => Takes(Parses(lines)[n - 1], Parses(lines)[n], n, lines[n])
              /\ Parses(lines)[n - 1].ok /\ Accepts(lines[n], Parses(lines)[n - 1].open) => Parses(lines)[n].ok
  BY <1>2, <1>5
<1>. QED
  BY <1>3, <1>6, <1>7, Zenon

----------------------------------------------------------------------------
\* The editor and the parser agree on a document without a typed declaration: on the
\* blocks that are open, on those that are not, and on the SEP-local labels used.
Closing(item) == [kind |-> item.kind, label |-> item.label, line |-> item.line, end |-> item.end]
InStep(a, p) ==
  /\ Len(a.open) = Len(p.open)
  /\ \A k \in 1..Len(p.open) : /\ a.items[a.open[k]].kind = p.open[k].kind
                               /\ a.items[a.open[k]].label = p.open[k].label
                               /\ a.items[a.open[k]].line = p.since[k]
  /\ Len(p.open) >= 1 /\ p.open[1].kind = "SEP" => a.items[a.open[1]].used \subseteq p.open[1].used
  /\ \A x : x \in p.nodes <=> \E j \in 1..Len(a.items) : a.items[j].end # 0 /\ x = Closing(a.items[j])

LEMMA ClosingSame ==
  ASSUME NEW x, NEW y, Old(x, y), y.end = x.end
  PROVE  Closing(y) = Closing(x)
BY DEF Old, Closing

\* A label that the parser accepts is new to the editor.
LEMMA NewLabel ==
  ASSUME NEW n \in Nat, NEW a, OutlineOf(a, n), NEW p, ParseOf(p, n), p.ok, InStep(a, p),
         NEW line \in AllLines, line.what = "open", Accepts(line, p.open)
  PROVE  ~(Numbered(line) /\ Holder(a) # 0 /\ line.label \in a.items[Holder(a)].used)
<1>1. SUFFICES ASSUME Numbered(line), Holder(a) # 0, line.label \in a.items[Holder(a)].used PROVE FALSE
  OBVIOUS
<1>2. p.open \in Seq(BlockRecs) /\ Rooted(p.open) /\ Len(p.open) \in Nat
  BY ParseIs DEF ParseOf
<1>3. p.open # <<>> /\ p.open[1].kind = "SEP" /\ line.label \notin p.open[1].used
  BY <1>1 DEF Accepts, MayPush, MayPush_Again, Numbered
<1>4. PICK k \in 1..Len(a.open) : Holder(a) = a.open[k] /\ a.items[a.open[k]].kind = "SEP"
  BY <1>1, HolderIs
<1>5. k \in 1..Len(p.open) /\ p.open[k].kind = "SEP"
  BY <1>4 DEF InStep
<1>6. k = 1 /\ Len(p.open) >= 1
  BY <1>2, <1>5 DEF Rooted
<1>. QED
  BY <1>1, <1>3, <1>4, <1>6 DEF InStep

LEMMA OpenMatches ==
  ASSUME NEW n \in Nat, NEW a, OutlineOf(a, n), NEW p, ParseOf(p, n), InStep(a, p),
         NEW line \in DocLines, line.what = "open",
         NEW b, OutlineOf(b, n + 1), Steps(a, b, n + 1, line), NEW q \in ParseStates, Takes(p, q, n + 1, line)
  PROVE  InStep(b, q)
<1>1. /\ p.ok /\ p \in ParseStates /\ line \in AllLines /\ LooksOpen(line) /\ Accepts(line, p.open)
      /\ p.open \in Seq(BlockRecs) /\ q.open \in Seq(BlockRecs) /\ Rooted(p.open)
      /\ q.open = After(line, p.open, {}) /\ Len(p.open) = Len(p.since)
  BY DocLineIs, ParseIs DEF ParseOf, Takes, LooksOpen
<1>2. Begins(a, b, n + 1, line)
  BY <1>1, NewLabel DEF Steps
<1>3. PICK m \in Nat, t \in Nat : m = Len(p.open) /\ t = Len(a.items) /\ m = Len(a.open)
  BY <1>1, ParseIs, OutlineIs DEF OutlineOf, InStep
<1>4. /\ Len(b.open) = m + 1 /\ b.open[m + 1] = t + 1 /\ \A k \in 1..m : b.open[k] = a.open[k]
      /\ Len(b.items) = t + 1 /\ b.items[t + 1] = Item(line, n + 1)
      /\ \A j \in 1..t : Old(a.items[j], b.items[j]) /\ b.items[j].end = a.items[j].end
      /\ \A k \in 1..m : a.open[k] \in 1..t
  BY <1>2, <1>3 DEF Begins, OutlineOf
<1>5. /\ b.items[t + 1].kind = line.kind /\ b.items[t + 1].label = line.label /\ b.items[t + 1].line = n + 1
      /\ b.items[t + 1].end = 0 /\ b.items[t + 1].used = {}
  BY <1>1, <1>4, ItemIs
<1>6. Grows(line, p.open, q.open) /\ q.nodes = p.nodes
      /\ q.since[m + 1] = n + 1 /\ \A k \in 1..m : q.since[k] = p.since[k]
  BY <1>1, <1>3, LineIs DEF Takes, Does, TypedLine, Line
<1>7. Len(q.open) = m + 1 /\ q.open[m + 1].kind = line.kind /\ q.open[m + 1].label = line.label
      /\ \A k \in 1..m : q.open[k].kind = p.open[k].kind /\ q.open[k].label = p.open[k].label
  BY <1>3, <1>6 DEF Grows, Alike
<1>8. \A k \in 1..(m + 1) : k \in 1..m \/ k = m + 1
  OBVIOUS
<1>9. ASSUME NEW k \in 1..(m + 1)
      PROVE  /\ b.items[b.open[k]].kind = q.open[k].kind /\ b.items[b.open[k]].label = q.open[k].label
             /\ b.items[b.open[k]].line = q.since[k]
  <2>1. CASE k \in 1..m
    <3>1. b.open[k] = a.open[k] /\ a.open[k] \in 1..t
      BY <1>4, <2>1
    <3>2. Old(a.items[a.open[k]], b.items[a.open[k]])
      BY <1>4, <3>1
    <3>3. /\ a.items[a.open[k]].kind = p.open[k].kind /\ a.items[a.open[k]].label = p.open[k].label
          /\ a.items[a.open[k]].line = p.since[k]
      BY <1>3, <2>1 DEF InStep
    <3>. QED
      BY <1>6, <1>7, <2>1, <3>1, <3>2, <3>3 DEF Old
  <2>2. CASE k = m + 1
    BY <1>4, <1>5, <1>6, <1>7, <2>2
  <2>. QED
    BY <1>8, <2>1, <2>2
<1>10. q.open[1].kind = "SEP" => b.items[b.open[1]].used \subseteq q.open[1].used
  <2>1. CASE m = 0
    BY <1>4, <1>5, <2>1
  <2>2. CASE m # 0
    <3>1. SUFFICES ASSUME q.open[1].kind = "SEP" PROVE b.items[b.open[1]].used \subseteq q.open[1].used
      OBVIOUS
    <3>2. 1 \in 1..m
      BY <2>2
    <3>3. PICK h \in 1..t : h = a.open[1] /\ h = b.open[1]
      BY <1>4, <3>2
    <3>4. a.items[h].used \subseteq p.open[1].used
      BY <1>3, <1>7, <2>2, <3>1, <3>2, <3>3 DEF InStep
    <3>5. q.open[1].used = p.open[1].used \cup ({line.label} \cap SepLocal)
      <4>1. p.open # <<>>
        BY <1>1, <1>3, <2>2, EmptySeq
      <4>2. line.what = "open"
        OBVIOUS
      <4>. QED
        BY <1>1, <4>1, <4>2, UsedAfter
    <3>6. b.items[h].used = a.items[h].used \/ (Numbered(line) /\ b.items[h].used = a.items[h].used \cup {line.label})
      BY <1>2, <1>3 DEF Begins
    <3>. QED
      BY <3>3, <3>4, <3>5, <3>6 DEF Numbered
  <2>. QED
    BY <2>1, <2>2
<1>11. ASSUME NEW x PROVE x \in q.nodes <=> \E j \in 1..(t + 1) : b.items[j].end # 0 /\ x = Closing(b.items[j])
  <2>1. x \in p.nodes <=> \E j \in 1..t : a.items[j].end # 0 /\ x = Closing(a.items[j])
    BY <1>3 DEF InStep
  <2>2. \A j \in 1..t : b.items[j].end = a.items[j].end /\ Closing(b.items[j]) = Closing(a.items[j])
    BY <1>4, ClosingSame
  <2>3. \A j \in 1..(t + 1) : j \in 1..t \/ j = t + 1
    OBVIOUS
  <2>4. \A j \in 1..t : j \in 1..(t + 1)
    OBVIOUS
  <2>. QED
    BY <1>5, <1>6, <2>1, <2>2, <2>3, <2>4
<1>12. m + 1 >= 1 /\ Len(b.open) = Len(q.open)
  BY <1>4, <1>7
<1>. QED
  BY <1>4, <1>7, <1>9, <1>10, <1>11, <1>12 DEF InStep

LEMMA BranchMatches ==
  ASSUME NEW n \in Nat, NEW a, OutlineOf(a, n), NEW p, ParseOf(p, n), InStep(a, p),
         NEW line \in DocLines, line.what = "branch",
         NEW b, OutlineOf(b, n + 1), Steps(a, b, n + 1, line), NEW q \in ParseStates, Takes(p, q, n + 1, line)
  PROVE  InStep(b, q) /\ Notes(a, b, n + 1)
<1>1. /\ p.ok /\ p \in ParseStates /\ line \in AllLines /\ Accepts(line, p.open)
      /\ p.open \in Seq(BlockRecs) /\ q.open \in Seq(BlockRecs)
      /\ q.open = After(line, p.open, {})
  BY DocLineIs, ParseIs DEF ParseOf, Takes
<1>2. PICK m \in Nat, t \in Nat : m = Len(p.open) /\ t = Len(a.items) /\ m = Len(a.open)
  BY <1>1, ParseIs, OutlineIs DEF OutlineOf, InStep
<1>3. p.open # <<>> /\ m >= 1 /\ line.label = p.open[m].label
  <2>1. line.what \in {"branch", "close"}
    OBVIOUS
  <2>2. p.open # <<>> /\ line.label = p.open[Len(p.open)].label
    BY <1>1, <2>1, AcceptsIs
  <2>3. Len(p.open) \in Nat /\ Len(p.open) # 0
    BY <1>1, <2>2, ParseIs
  <2>4. m # 0 /\ m = Len(p.open)
    BY <1>2, <2>3
  <2>5. m >= 1
    BY <2>4
  <2>. QED
    BY <2>2, <2>4, <2>5, Zenon
<1>4. Occurs(a, line)
  <2>1. a.items[a.open[m]].label = p.open[m].label
    BY <1>2, <1>3 DEF InStep
  <2>. QED
    BY <1>2, <1>3, <2>1, OccursIs
<1>5. Notes(a, b, n + 1)
  BY <1>4 DEF Steps
<1>6. /\ b.open = a.open /\ Len(b.items) = t
      /\ \A j \in 1..t : Old(a.items[j], b.items[j]) /\ b.items[j].end = a.items[j].end /\ b.items[j].used = a.items[j].used
      /\ \A k \in 1..m : a.open[k] \in 1..t
  BY <1>2, <1>5 DEF Notes, Occurrence, OutlineOf
<1>7. Marks(line, p.open, q.open) /\ q.nodes = p.nodes /\ q.since = p.since
  BY <1>1, LineIs DEF Takes, Does, TypedLine, Line
<1>8. Len(q.open) = m /\ \A k \in 1..m : q.open[k].kind = p.open[k].kind /\ q.open[k].label = p.open[k].label
  <2>1. \A k \in 1..m : k \in 1..(m - 1) \/ k = m
    OBVIOUS
  <2>. QED
    BY <1>2, <1>7, <2>1 DEF Marks, Alike
<1>9. q.open[1].used = p.open[1].used
  BY <1>1, <1>3, UsedAfter
<1>10. ASSUME NEW k \in 1..m
       PROVE  /\ b.items[b.open[k]].kind = q.open[k].kind /\ b.items[b.open[k]].label = q.open[k].label
              /\ b.items[b.open[k]].line = q.since[k]
  <2>1. Old(a.items[a.open[k]], b.items[a.open[k]])
    BY <1>6
  <2>2. /\ a.items[a.open[k]].kind = p.open[k].kind /\ a.items[a.open[k]].label = p.open[k].label
        /\ a.items[a.open[k]].line = p.since[k]
    BY <1>2 DEF InStep
  <2>. QED
    BY <1>6, <1>7, <1>8, <2>1, <2>2 DEF Old
<1>11. q.open[1].kind = "SEP" => b.items[b.open[1]].used \subseteq q.open[1].used
  <2>1. 1 \in 1..m
    BY <1>3
  <2>2. p.open[1].kind = "SEP" => a.items[a.open[1]].used \subseteq p.open[1].used
    BY <1>2, <1>3 DEF InStep
  <2>3. a.open[1] \in 1..t
    BY <1>6, <2>1
  <2>. QED
    BY <1>6, <1>8, <1>9, <2>1, <2>2, <2>3
<1>12. ASSUME NEW x PROVE x \in q.nodes <=> \E j \in 1..t : b.items[j].end # 0 /\ x = Closing(b.items[j])
  <2>1. x \in p.nodes <=> \E j \in 1..t : a.items[j].end # 0 /\ x = Closing(a.items[j])
    BY <1>2 DEF InStep
  <2>2. \A j \in 1..t : b.items[j].end = a.items[j].end /\ Closing(b.items[j]) = Closing(a.items[j])
    BY <1>6, ClosingSame
  <2>. QED
    BY <1>7, <2>1, <2>2
<1>. QED
  BY <1>2, <1>5, <1>6, <1>8, <1>10, <1>11, <1>12 DEF InStep

LEMMA CloseMatches ==
  ASSUME NEW n \in Nat, NEW a, OutlineOf(a, n), NEW p, ParseOf(p, n), InStep(a, p),
         NEW line \in DocLines, line.what = "close",
         NEW b, OutlineOf(b, n + 1), Steps(a, b, n + 1, line), NEW q \in ParseStates, Takes(p, q, n + 1, line)
  PROVE  InStep(b, q) /\ Ends(a, b, n + 1)
<1>1. /\ p.ok /\ p \in ParseStates /\ line \in AllLines /\ Accepts(line, p.open)
      /\ p.open \in Seq(BlockRecs) /\ q.open \in Seq(BlockRecs)
      /\ q.open = After(line, p.open, {}) /\ Len(p.since) = Len(p.open)
  BY DocLineIs, ParseIs DEF ParseOf, Takes
<1>2. PICK m \in Nat, t \in Nat : m = Len(p.open) /\ t = Len(a.items) /\ m = Len(a.open)
  BY <1>1, ParseIs, OutlineIs DEF OutlineOf, InStep
<1>3. p.open # <<>> /\ m >= 1 /\ line.label = p.open[m].label /\ line.kind = p.open[m].kind
  <2>1. line.what \in {"branch", "close"} /\ line.what = "close"
    OBVIOUS
  <2>2. p.open # <<>> /\ line.label = p.open[Len(p.open)].label /\ line.kind = p.open[Len(p.open)].kind
    BY <1>1, <2>1, AcceptsIs
  <2>3. Len(p.open) \in Nat /\ Len(p.open) # 0
    BY <1>1, <2>2, ParseIs
  <2>4. m # 0 /\ m = Len(p.open)
    BY <1>2, <2>3
  <2>5. m >= 1
    BY <2>4
  <2>. QED
    BY <2>2, <2>4, <2>5, Zenon
<1>4. PICK h \in 1..t : h = a.open[m] /\ m \in 1..m
  <2>1. m \in 1..m
    BY <1>3
  <2>. QED
    BY <1>2, <2>1 DEF OutlineOf
<1>5. a.items[h].label = line.label /\ a.items[h].kind = line.kind /\ a.items[h].line = p.since[m]
  BY <1>2, <1>3, <1>4 DEF InStep
<1>6. Occurs(a, line) /\ a.items[Last(a.open)].kind = line.kind
  BY <1>2, <1>3, <1>4, <1>5, OccursIs DEF Last
<1>7. Ends(a, b, n + 1)
  BY <1>6 DEF Steps
<1>8. /\ Len(b.open) = m - 1 /\ \A k \in 1..(m - 1) : b.open[k] = a.open[k]
      /\ Len(b.items) = t /\ \A j \in 1..t : Old(a.items[j], b.items[j]) /\ b.items[j].used = a.items[j].used
      /\ \A j \in 1..t : b.items[j].end = IF j = h THEN n + 1 ELSE a.items[j].end
      /\ \A k \in 1..m : a.open[k] \in 1..t
  BY <1>2, <1>4, <1>7 DEF Ends, Occurrence, OutlineOf
<1>9. /\ Shrinks(p.open, q.open) /\ \A k \in 1..(m - 1) : q.since[k] = p.since[k]
      /\ q.nodes = p.nodes \cup {[kind |-> line.kind, label |-> line.label, line |-> p.since[m], end |-> n + 1]}
  BY <1>1, <1>2, LineIs DEF Takes, Does, TypedLine, Line
<1>10. Len(q.open) = m - 1 /\ \A k \in 1..(m - 1) : q.open[k].kind = p.open[k].kind /\ q.open[k].label = p.open[k].label
  BY <1>2, <1>9 DEF Shrinks, Alike
<1>11. \A k \in 1..(m - 1) : k \in 1..m
  OBVIOUS
<1>12. ASSUME NEW k \in 1..(m - 1)
       PROVE  /\ b.items[b.open[k]].kind = q.open[k].kind /\ b.items[b.open[k]].label = q.open[k].label
              /\ b.items[b.open[k]].line = q.since[k]
  <2>1. b.open[k] = a.open[k] /\ a.open[k] \in 1..t
    BY <1>8, <1>11
  <2>2. Old(a.items[a.open[k]], b.items[a.open[k]])
    BY <1>8, <2>1
  <2>3. /\ a.items[a.open[k]].kind = p.open[k].kind /\ a.items[a.open[k]].label = p.open[k].label
        /\ a.items[a.open[k]].line = p.since[k]
    BY <1>2, <1>11 DEF InStep
  <2>. QED
    BY <1>9, <1>10, <2>1, <2>2, <2>3 DEF Old
<1>13. m - 1 >= 1 /\ q.open[1].kind = "SEP" => b.items[b.open[1]].used \subseteq q.open[1].used
  <2>1. SUFFICES ASSUME m - 1 >= 1, q.open[1].kind = "SEP" PROVE b.items[b.open[1]].used \subseteq q.open[1].used
    OBVIOUS
  <2>2. 1 \in 1..(m - 1) /\ 1 \in 1..m /\ Len(p.open) > 1
    BY <1>2, <2>1
  <2>3. a.items[a.open[1]].used \subseteq p.open[1].used
    BY <1>2, <1>3, <1>10, <2>1, <2>2 DEF InStep
  <2>4. q.open[1].used = p.open[1].used
    <3>1. line.what = "close"
      OBVIOUS
    <3>. QED
      BY <1>1, <1>3, <2>2, <3>1, UsedAfter
  <2>5. b.open[1] = a.open[1] /\ a.open[1] \in 1..t
    BY <1>8, <2>2
  <2>. QED
    BY <1>8, <2>3, <2>4, <2>5
<1>14. ASSUME NEW x PROVE x \in q.nodes <=> \E j \in 1..t : b.items[j].end # 0 /\ x = Closing(b.items[j])
  <2>1. x \in p.nodes <=> \E j \in 1..t : a.items[j].end # 0 /\ x = Closing(a.items[j])
    BY <1>2 DEF InStep
  <2>2. \A j \in 1..t : j # h => b.items[j].end = a.items[j].end /\ Closing(b.items[j]) = Closing(a.items[j])
    BY <1>8, ClosingSame
  <2>3. b.items[h].end = n + 1
    BY <1>8
  <2>4. Closing(b.items[h]) = [kind |-> line.kind, label |-> line.label, line |-> p.since[m], end |-> n + 1]
    BY <1>5, <1>8, <2>3 DEF Closing, Old
  <2>5. a.items[h].end = 0
    <3>1. m \in 1..m
      BY <1>3
    <3>. QED
      BY <1>2, <1>4, <3>1 DEF OutlineOf
  <2>6. n + 1 # 0
    OBVIOUS
  <2>7. x \in q.nodes <=> x \in p.nodes \/ x = Closing(b.items[h])
    BY <1>9, <2>4
  <2>8. ASSUME x \in p.nodes PROVE \E j \in 1..t : b.items[j].end # 0 /\ x = Closing(b.items[j])
    <3>1. PICK j \in 1..t : a.items[j].end # 0 /\ x = Closing(a.items[j])
      BY <2>1, <2>8
    <3>2. j # h
      BY <2>5, <3>1
    <3>. QED
      BY <2>2, <3>1, <3>2
  <2>9. ASSUME NEW j \in 1..t, b.items[j].end # 0, x = Closing(b.items[j]), j # h PROVE x \in p.nodes
    <3>1. a.items[j].end # 0 /\ x = Closing(a.items[j])
      BY <2>2, <2>9
    <3>. QED
      BY <2>1, <3>1
  <2>10. b.items[h].end # 0
    BY <2>3, <2>6
  <2>. QED
    BY <1>4, <2>7, <2>8, <2>9, <2>10
<1>15. Len(b.open) = Len(q.open)
  BY <1>8, <1>10
<1>. QED
  BY <1>7, <1>8, <1>10, <1>12, <1>13, <1>14, <1>15 DEF InStep

\* They agree after each line, on the depth too.
LEMMA StaysInStep ==
  ASSUME NEW lines \in Seq(DocLines), \A n \in 1..Len(lines) : lines[n] # TypedLine
  PROVE  /\ \A n \in 0..Len(lines) : Parses(lines)[n].ok =>
              InStep(Analysis(lines)[n], Parses(lines)[n]) /\ Indents(lines)[n] = Len(Parses(lines)[n].open)
         /\ \A n \in 1..Len(lines) : Parses(lines)[n].ok =>
              /\ lines[n].what = "branch" => Notes(Analysis(lines)[n - 1], Analysis(lines)[n], n)
              /\ lines[n].what = "close"  => Ends(Analysis(lines)[n - 1], Analysis(lines)[n], n)
              /\ lines[n].what = "open"   => Begins(Analysis(lines)[n - 1], Analysis(lines)[n], n, lines[n])
<1>. DEFINE Agreed(n) == InStep(Analysis(lines)[n], Parses(lines)[n]) /\ Indents(lines)[n] = Len(Parses(lines)[n].open)
            Lost == {n \in 0..Len(lines) : Parses(lines)[n].ok /\ ~Agreed(n)}
<1>1. Len(lines) \in Nat /\ \A n \in 1..Len(lines) : lines[n] \in DocLines
  BY LenProperties, ElementOfSeq
<1>2. ASSUME NEW n \in 1..Len(lines), Parses(lines)[n].ok, Parses(lines)[n - 1].ok => Agreed(n - 1)
      PROVE  /\ Agreed(n)
             /\ lines[n].what = "branch" => Notes(Analysis(lines)[n - 1], Analysis(lines)[n], n)
             /\ lines[n].what = "close"  => Ends(Analysis(lines)[n - 1], Analysis(lines)[n], n)
             /\ lines[n].what = "open"   => Begins(Analysis(lines)[n - 1], Analysis(lines)[n], n, lines[n])
  <2>1. PICK m \in Nat : m = n - 1 /\ m + 1 = n /\ m \in 0..Len(lines) /\ n \in 0..Len(lines)
    BY <1>1
  <2>2. PICK a, b, p, q, line : /\ a = Analysis(lines)[m] /\ b = Analysis(lines)[n] /\ p = Parses(lines)[m] /\ q = Parses(lines)[n]
                                /\ line = lines[n]
    OBVIOUS
  <2>3. OutlineOf(a, m) /\ OutlineOf(b, m + 1) /\ Steps(a, b, m + 1, line) /\ line \in DocLines
    BY <1>1, <2>1, <2>2, Outlined
  <2>4. ParseOf(p, m) /\ ParseOf(q, m + 1) /\ Takes(p, q, m + 1, line) /\ q \in ParseStates
    BY <1>2, <2>1, <2>2, ParsedSoFar DEF ParseOf
  <2>5. InStep(a, p) /\ Indents(lines)[m] = Len(p.open)
    BY <1>2, <2>1, <2>2, <2>4 DEF Takes
  <2>6. Indents(lines)[n] = IndentLine(Len(p.open), line)
    BY <1>1, <2>1, <2>2, <2>5, IndentsIs
  <2>7. Len(p.open) \in Nat /\ p.ok /\ line # TypedLine /\ line.what \in {"open", "close", "branch"} /\ line \in AllLines
    BY <2>2, <2>3, <2>4, DocLineIs, ParseIs DEF ParseOf, Takes
  <2>8. Does(line, p.open, q.open)
    BY <2>4, <2>7 DEF Takes
  <2>9. CASE line.what = "open"
    <3>1. InStep(b, q)
      BY <2>3, <2>4, <2>5, <2>9, OpenMatches
    <3>2. Begins(a, b, m + 1, line)
      <4>1. Accepts(line, p.open) /\ LooksOpen(line)
        BY <2>4, <2>9 DEF Takes, LooksOpen
      <4>. QED
        BY <2>3, <2>4, <2>5, <2>7, <2>9, <4>1, NewLabel DEF Steps
    <3>3. Indents(lines)[n] = Len(q.open)
      <4>1. Len(q.open) = Len(p.open) + 1
        BY <2>8, <2>9 DEF Does, Grows
      <4>2. IndentLine(Len(p.open), line) = Len(p.open) + 1
        BY <2>9 DEF IndentLine, LooksOpen
      <4>. QED
        BY <2>6, <4>1, <4>2
    <3>. QED
      BY <2>1, <2>2, <2>9, <3>1, <3>2, <3>3
  <2>10. CASE line.what = "branch"
    <3>1. InStep(b, q) /\ Notes(a, b, m + 1)
      BY <2>3, <2>4, <2>5, <2>10, BranchMatches
    <3>2. Indents(lines)[n] = Len(q.open)
      <4>1. Len(q.open) = Len(p.open) /\ Len(p.open) >= 1
        BY <2>8, <2>10 DEF Does, Marks
      <4>2. IndentLine(Len(p.open), line) = Dedented(Len(p.open)) + 1
        BY <2>10 DEF IndentLine, LooksOpen
      <4>3. Dedented(Len(p.open)) + 1 = Len(p.open)
        BY <2>7, <4>1 DEF Dedented
      <4>. QED
        BY <2>6, <4>1, <4>2, <4>3
    <3>. QED
      BY <2>1, <2>2, <2>10, <3>1, <3>2
  <2>11. CASE line.what = "close"
    <3>1. InStep(b, q) /\ Ends(a, b, m + 1)
      BY <2>3, <2>4, <2>5, <2>11, CloseMatches
    <3>2. Indents(lines)[n] = Len(q.open)
      <4>1. Len(q.open) = Len(p.open) - 1 /\ Len(p.open) >= 1
        BY <2>8, <2>11 DEF Does, Shrinks
      <4>2. IndentLine(Len(p.open), line) = Dedented(Len(p.open))
        BY <2>11 DEF IndentLine
      <4>3. Dedented(Len(p.open)) = Len(p.open) - 1
        BY <2>7, <4>1 DEF Dedented
      <4>. QED
        BY <2>6, <4>1, <4>2, <4>3
    <3>. QED
      BY <2>1, <2>2, <2>11, <3>1, <3>2
  <2>. QED
    BY <2>7, <2>9, <2>10, <2>11
<1>3. Agreed(0)
  <2>1. Analysis(lines)[0] = [items |-> <<>>, open |-> <<>>] /\ Indents(lines)[0] = 0
    BY <1>1, AnalysisIs, IndentsIs
  <2>2. Parses(lines)[0] = [ok |-> TRUE, open |-> <<>>, since |-> <<>>, nodes |-> {}]
    BY ParsedSoFar
  <2>3. Len(<<>>) = 0
    OBVIOUS
  <2>4. InStep(Analysis(lines)[0], Parses(lines)[0])
    BY <2>1, <2>2, <2>3 DEF InStep
  <2>. QED
    BY <2>1, <2>2, <2>3, <2>4
<1>. HIDE DEF Agreed
<1>4. Lost = {}
  <2>1. SUFFICES ASSUME Lost # {} PROVE FALSE
    OBVIOUS
  <2>2. PICK m \in Lost : \A n \in Lost : m <= n
    <3>1. Lost \in SUBSET Nat
      OBVIOUS
    <3>. QED
      BY <2>1, <3>1, LeastNatural
  <2>3. m \in 1..Len(lines) /\ m - 1 \in 0..Len(lines) /\ ~(m <= m - 1)
    BY <1>1, <1>3, <2>2
  <2>4. Parses(lines)[m - 1].ok => Agreed(m - 1)
    BY <2>2, <2>3
  <2>. QED
    BY <1>2, <2>2, <2>3, <2>4
<1>5. ASSUME NEW n \in 1..Len(lines) PROVE Parses(lines)[n - 1].ok => Agreed(n - 1)
  <2>1. n - 1 \in 0..Len(lines)
    BY <1>1
  <2>. QED
    BY <1>4, <2>1
<1>6. \A n \in 0..Len(lines) : Parses(lines)[n].ok => Agreed(n)
  BY <1>4
<1>. QED
  BY <1>2, <1>5, <1>6 DEF Agreed

\* The outline of every document is that of the parser.
LEMMA OutlineIsParsed ==
  ASSUME doc \in Seq(DocLines)
  PROVE  OutlineAgrees
<1>1. PICK a, p : a = AnalyzeBlocks(doc) /\ p = Parsed(doc)
  OBVIOUS
<1>2. SUFFICES ASSUME p.ok, ~Typed
               PROVE  /\ {[kind |-> i.kind, label |-> i.label, line |-> i.line, end |-> i.end] : i \in {j \in Range(a.items) : j.end # 0}} = p.nodes
                      /\ [k \in DOMAIN a.open |-> a.items[a.open[k]].line] = p.since
                      /\ Indent(doc) = Len(p.open)
  BY <1>1 DEF OutlineAgrees
<1>3. Len(doc) \in Nat /\ Len(doc) \in 0..Len(doc) /\ DOMAIN doc = 1..Len(doc)
  <2>1. Len(doc) \in Nat /\ DOMAIN doc = 1..Len(doc)
    BY LenProperties
  <2>. QED
    BY <2>1
<1>4. \A n \in 1..Len(doc) : doc[n] # TypedLine
  BY <1>2, <1>3 DEF Typed
<1>5. InStep(a, p) /\ Indent(doc) = Len(p.open)
  BY <1>1, <1>2, <1>3, <1>4, StaysInStep DEF AnalyzeBlocks, Parsed, Indent
<1>6. OutlineOf(a, Len(doc)) /\ ParseOf(p, Len(doc))
  BY <1>1, <1>3, Outlined, ParsedSoFar DEF AnalyzeBlocks, Parsed
<1>7. /\ a \in Outlines /\ p \in ParseStates /\ DOMAIN a.items = 1..Len(a.items) /\ DOMAIN a.open = 1..Len(a.open)
      /\ p.since \in Seq(Nat) /\ DOMAIN p.since = 1..Len(p.since) /\ Len(p.since) = Len(p.open)
  BY <1>2, <1>6, OutlineIs, ParseIs, LenProperties DEF OutlineOf, ParseOf
<1>8. {[kind |-> i.kind, label |-> i.label, line |-> i.line, end |-> i.end] : i \in {j \in Range(a.items) : j.end # 0}} = p.nodes
  <2>. DEFINE shown == {Closing(i) : i \in {j \in Range(a.items) : j.end # 0}}
  <2>1. \A x : x \in shown <=> \E j \in 1..Len(a.items) : a.items[j].end # 0 /\ x = Closing(a.items[j])
    <3>1. Range(a.items) = {a.items[j] : j \in 1..Len(a.items)}
      BY <1>7 DEF Range
    <3>. QED
      BY <3>1
  <2>2. \A x : x \in p.nodes <=> x \in shown
    <3>. HIDE DEF shown
    <3>. QED
      BY <1>5, <2>1 DEF InStep
  <2>3. shown = p.nodes
    <3>. HIDE DEF shown
    <3>. QED
      BY <2>2
  <2>. QED
    BY <2>3 DEF Closing
<1>9. [k \in DOMAIN a.open |-> a.items[a.open[k]].line] = p.since
  <2>1. DOMAIN a.open = 1..Len(p.open) /\ DOMAIN p.since = 1..Len(p.open)
    BY <1>5, <1>7 DEF InStep
  <2>2. p.since = [k \in 1..Len(p.open) |-> p.since[k]]
    BY <1>7, <2>1, LenProperties
  <2>3. \A k \in 1..Len(p.open) : a.items[a.open[k]].line = p.since[k]
    BY <1>5 DEF InStep
  <2>. QED
    BY <2>1, <2>2, <2>3
<1>. QED
  BY <1>5, <1>8, <1>9

----------------------------------------------------------------------------
\* A line at the end changes nothing before it.
LEMMA AnalysisGrows ==
  ASSUME NEW lines \in Seq(DocLines), NEW line \in DocLines
  PROVE  AnalyzeBlocks(Append(lines, line)) = AnalyzeLine(AnalyzeBlocks(lines), Len(lines) + 1, line)
<1>1. PICK m \in Nat, longer \in Seq(DocLines) :
        /\ m = Len(lines) /\ longer = Append(lines, line) /\ Len(longer) = m + 1
        /\ longer[m + 1] = line /\ \A n \in 1..m : longer[n] = lines[n]
  <2>1. Len(lines) \in Nat
    BY LenProperties
  <2>2. Append(lines, line) \in Seq(DocLines) /\ Len(Append(lines, line)) = Len(lines) + 1
    BY AppendProperties
  <2>3. Append(lines, line)[Len(lines) + 1] = line
    BY AppendProperties
  <2>4. \A n \in 1..Len(lines) : Append(lines, line)[n] = lines[n]
    BY AppendProperties
  <2>. QED
    BY <2>1, <2>2, <2>3, <2>4
<1>5. \A n \in 1..(m + 1) : Analysis(longer)[n] = AnalyzeLine(Analysis(longer)[n - 1], n, longer[n])
  <2>1. Len(longer) \in Nat
    BY <1>1
  <2>2. \A n \in 1..Len(longer) : Analysis(longer)[n] = AnalyzeLine(Analysis(longer)[n - 1], n, longer[n])
    BY <2>1, AnalysisIs
  <2>. QED
    BY <1>1, <2>2
<1>. DEFINE Differ == {n \in 0..m : Analysis(longer)[n] # Analysis(lines)[n]}
<1>2. Differ = {}
  <2>1. SUFFICES ASSUME Differ # {} PROVE FALSE
    OBVIOUS
  <2>2. PICK n \in Differ : \A i \in Differ : n <= i
    <3>1. Differ \in SUBSET Nat
      OBVIOUS
    <3>. QED
      BY <2>1, <3>1, LeastNatural
  <2>3. Analysis(longer)[0] = Analysis(lines)[0]
    BY <1>1, AnalysisIs
  <2>4. n \in 1..m /\ n \in 1..(m + 1) /\ n - 1 \in 0..m /\ ~(n <= n - 1)
    BY <2>2, <2>3
  <2>5. Analysis(longer)[n - 1] = Analysis(lines)[n - 1]
    BY <2>2, <2>4
  <2>6. Analysis(longer)[n] = AnalyzeLine(Analysis(longer)[n - 1], n, longer[n])
    BY <1>5, <2>4
  <2>7. Analysis(lines)[n] = AnalyzeLine(Analysis(lines)[n - 1], n, lines[n])
    BY <1>1, <2>4, AnalysisIs
  <2>. QED
    BY <1>1, <2>2, <2>4, <2>5, <2>6, <2>7
<1>3. Analysis(longer)[m] = Analysis(lines)[m]
  <2>1. m \in 0..m
    OBVIOUS
  <2>. QED
    BY <1>2, <2>1
<1>4. Analysis(longer)[m + 1] = AnalyzeLine(Analysis(longer)[m], m + 1, line)
  <2>1. m + 1 \in 1..(m + 1) /\ (m + 1) - 1 = m
    OBVIOUS
  <2>. QED
    BY <1>1, <1>5, <2>1
<1>. QED
  BY <1>1, <1>3, <1>4 DEF AnalyzeBlocks

\* The innermost blocks of an outline, but for the first ones, are those that the author
\* has open, with no SEP-local label in the SEP but those that were used in it.
EndsWith(a, written, labels, d) ==
  /\ d \in Nat /\ Len(a.open) = d + Len(written)
  /\ \A k \in 1..Len(written) : /\ a.items[a.open[d + k]].kind = written[k].kind
                                /\ a.items[a.open[d + k]].label = written[k].label
  /\ Len(written) >= 1 /\ written[1].kind = "SEP" => a.items[a.open[d + 1]].used \subseteq labels

AuthorTyped == doc \in Seq(DocLines) /\ intent \in Seq(BlockRecs) /\ Distinct(intent) /\ Rooted(intent)
Offering == clean /\ ~Typed => \E d \in Nat : EndsWith(AnalyzeBlocks(doc), intent, local, d)
EditorInv == AuthorTyped /\ Offering

LEMMA MeantLine ==
  ASSUME AuthorTyped, NEW line \in Legal
  PROVE  /\ line \in AllLines /\ (line # Plain => line \in DocLines)
         /\ Moved(line, intent) \in Seq(BlockRecs) /\ Does(line, intent, Moved(line, intent))
         /\ Distinct(Moved(line, intent)) /\ Rooted(Moved(line, intent))
         /\ line.what \in {"branch", "close"} => Len(intent) >= 1 /\ line.label = intent[Len(intent)].label
         /\ line.what = "close" => line.kind = intent[Len(intent)].kind
         /\ line.what = "open" /\ line.label \in SepLocal =>
              Len(intent) >= 1 /\ intent[1].kind = "SEP" /\ line.label \notin local
<1>1. line \in AllLines /\ intent \in Seq(BlockRecs) /\ Len(intent) \in Nat
  BY LegalIs, LenProperties DEF AuthorTyped
<1>2. line # Plain => line \in DocLines
  BY <1>1 DEF AllLines, DocLines
<1>3. line.what \in {"branch", "close"} => intent # <<>> /\ line.label = intent[Len(intent)].label
  BY LegalIs DEF Last
<1>4. line.what = "close" => line.kind = intent[Len(intent)].kind
  BY LegalIs DEF Last
<1>5. intent # <<>> => Len(intent) >= 1
  BY <1>1, EmptySeq
<1>6. Moved(line, intent) \in Seq(BlockRecs) /\ Does(line, intent, Moved(line, intent))
  BY <1>1, <1>3, MovedDoes
<1>7. ASSUME line.what = "open"
      PROVE  /\ \A k \in 1..Len(intent) : intent[k].label # line.label
             /\ line.kind \in {"SEP", "http_route"} => Len(intent) = 0
  <2>1. \A k \in 1..Len(intent) : intent[k].label # line.label
    BY <1>1, <1>7, LegalIs, TopIs
  <2>2. ASSUME line.kind \in {"SEP", "http_route"}, intent # <<>> PROVE FALSE
    BY <1>7, <2>2, LegalIs DEF Openable
  <2>. QED
    BY <1>1, <2>1, <2>2, EmptySeq
<1>8. PICK moved : moved = Moved(line, intent)
  OBVIOUS
<1>9. Distinct(moved) /\ Rooted(moved)
  BY <1>1, <1>6, <1>7, <1>8, DoesProper DEF AuthorTyped
<1>10. line.what = "open" /\ line.label \in SepLocal =>
         intent # <<>> /\ intent[1].kind = "SEP" /\ line.label \notin local
  BY LegalIs
<1>. QED
  BY <1>1, <1>2, <1>3, <1>4, <1>5, <1>6, <1>8, <1>9, <1>10

\* The editor knows the SEP-local labels of the declaration only.
LEMMA LabelIsFree ==
  ASSUME NEW n, NEW a, OutlineOf(a, n), NEW d, EndsWith(a, intent, local, d), AuthorTyped,
         NEW line \in Legal, line.what = "open"
  PROVE  ~(Numbered(line) /\ Holder(a) # 0 /\ line.label \in a.items[Holder(a)].used)
<1>1. SUFFICES ASSUME line.label \in SepLocal, Holder(a) # 0, line.label \in a.items[Holder(a)].used PROVE FALSE
  BY DEF Numbered
<1>2. Len(intent) >= 1 /\ intent[1].kind = "SEP" /\ line.label \notin local
  BY <1>1, MeantLine
<1>3. PICK m \in Nat : m = Len(intent) /\ Len(a.open) = d + m /\ d \in Nat
  BY LenProperties DEF AuthorTyped, EndsWith
<1>4. PICK p \in 1..(d + m) : /\ Holder(a) = a.open[p] /\ a.items[a.open[p]].kind = "SEP"
                              /\ \A k \in 1..(d + m) : k > p => a.items[a.open[k]].kind # "SEP"
  BY <1>1, <1>3, HolderIs
<1>5. a.items[a.open[d + 1]].kind = "SEP" /\ a.items[a.open[d + 1]].used \subseteq local
  <2>1. 1 \in 1..m
    BY <1>2, <1>3
  <2>. QED
    BY <1>2, <1>3, <2>1 DEF EndsWith
<1>6. ~(d + 1 > p)
  <2>1. d + 1 \in 1..(d + m)
    BY <1>2, <1>3
  <2>. QED
    BY <1>4, <1>5, <2>1
<1>7. CASE p = d + 1
  BY <1>1, <1>2, <1>4, <1>5, <1>7
<1>8. CASE p # d + 1
  <2>1. PICK k \in 1..m : p = d + k /\ k # 1
    <3>1. p - d \in 1..m /\ p = d + (p - d) /\ p - d # 1
      BY <1>3, <1>6, <1>8
    <3>. QED
      BY <3>1
  <2>2. intent[k].kind = "SEP"
    BY <1>3, <1>4, <2>1 DEF EndsWith
  <2>. QED
    BY <1>3, <2>1, <2>2 DEF AuthorTyped, Rooted
<1>. QED
  BY <1>7, <1>8

----------------------------------------------------------------------------
\* The closers offered stay those of the author's blocks after a right line: ...
LabelsThen(line) == (IF line.what = "open" /\ intent = <<>> THEN {} ELSE local) \cup ({line.label} \cap SepLocal)

\* ... one that begins a block, ...
LEMMA OfferOpened ==
  ASSUME NEW n \in Nat, NEW a, OutlineOf(a, n), NEW d, EndsWith(a, intent, local, d), AuthorTyped,
         NEW line \in Legal, line.what = "open", NEW b, Begins(a, b, n + 1, line)
  PROVE  EndsWith(b, Moved(line, intent), LabelsThen(line), d)
<1>1. PICK m \in Nat, t \in Nat : m = Len(intent) /\ t = Len(a.items) /\ Len(a.open) = d + m /\ d \in Nat
  <2>1. Len(intent) \in Nat
    BY LenProperties DEF AuthorTyped
  <2>2. Len(a.items) \in Nat
    BY OutlineIs DEF OutlineOf
  <2>. QED
    BY <2>1, <2>2 DEF EndsWith
<1>2. PICK u : u = Moved(line, intent)
  OBVIOUS
<1>3. /\ Len(u) = m + 1 /\ u[m + 1].kind = line.kind /\ u[m + 1].label = line.label
      /\ \A k \in 1..m : u[k].kind = intent[k].kind /\ u[k].label = intent[k].label
  <2>1. Grows(line, intent, u)
    BY <1>2, MeantLine DEF Does
  <2>. QED
    BY <1>1, <2>1 DEF Grows, Alike
<1>4. /\ Len(b.open) = (d + m) + 1 /\ b.open[(d + m) + 1] = t + 1 /\ \A k \in 1..(d + m) : b.open[k] = a.open[k]
      /\ b.items[t + 1] = Item(line, n + 1)
      /\ \A j \in 1..t : Old(a.items[j], b.items[j])
      /\ \A k \in 1..(d + m) : a.open[k] \in 1..t
  BY <1>1 DEF Begins, OutlineOf
<1>5. /\ b.items[t + 1].kind = line.kind /\ b.items[t + 1].label = line.label /\ b.items[t + 1].used = {}
  <2>1. line \in DocLines /\ LooksOpen(line)
    <3>1. line # Plain
      BY DEF Plain, Line
    <3>. QED
      BY <3>1, MeantLine DEF LooksOpen
  <2>. QED
    BY <1>4, <2>1, ItemIs
<1>6. \A k \in 1..(m + 1) : k \in 1..m \/ k = m + 1
  OBVIOUS
<1>7. ASSUME NEW k \in 1..(m + 1)
      PROVE  b.items[b.open[d + k]].kind = u[k].kind /\ b.items[b.open[d + k]].label = u[k].label
  <2>1. CASE k \in 1..m
    <3>1. d + k \in 1..(d + m)
      BY <1>1, <2>1
    <3>2. b.open[d + k] = a.open[d + k] /\ a.open[d + k] \in 1..t
      BY <1>4, <3>1
    <3>3. Old(a.items[a.open[d + k]], b.items[a.open[d + k]])
      BY <1>4, <3>2
    <3>4. a.items[a.open[d + k]].kind = intent[k].kind /\ a.items[a.open[d + k]].label = intent[k].label
      BY <1>1, <2>1 DEF EndsWith
    <3>5. u[k].kind = intent[k].kind /\ u[k].label = intent[k].label
      BY <1>3, <2>1
    <3>. QED
      BY <3>2, <3>3, <3>4, <3>5 DEF Old
  <2>2. CASE k = m + 1
    <3>1. d + k = (d + m) + 1
      BY <1>1, <2>2
    <3>. QED
      BY <1>3, <1>4, <1>5, <2>2, <3>1
  <2>. QED
    BY <1>6, <2>1, <2>2
<1>8. ASSUME u[1].kind = "SEP" PROVE b.items[b.open[d + 1]].used \subseteq LabelsThen(line)
  <2>1. CASE m = 0
    <3>1. d + 1 = (d + m) + 1
      BY <1>1, <2>1
    <3>. QED
      BY <1>4, <1>5, <3>1
  <2>2. CASE m # 0
    <3>1. 1 \in 1..m /\ d + 1 \in 1..(d + m) /\ m >= 1
      BY <1>1, <2>2
    <3>2. PICK h \in 1..t : h = a.open[d + 1] /\ h = b.open[d + 1]
      BY <1>4, <3>1
    <3>3. a.items[h].used \subseteq local
      BY <1>1, <1>3, <1>8, <3>1, <3>2 DEF EndsWith
    <3>4. b.items[h].used = a.items[h].used \/ (Numbered(line) /\ b.items[h].used = a.items[h].used \cup {line.label})
      BY <1>1, <3>2 DEF Begins
    <3>5. intent # <<>>
      BY <1>1, <2>2, EmptySeq DEF AuthorTyped
    <3>. QED
      BY <3>2, <3>3, <3>4, <3>5 DEF Numbered, LabelsThen
  <2>. QED
    BY <2>1, <2>2
<1>9. Len(b.open) = d + Len(u) /\ d \in Nat
  BY <1>1, <1>3, <1>4
<1>10. \A k \in 1..Len(u) : b.items[b.open[d + k]].kind = u[k].kind /\ b.items[b.open[d + k]].label = u[k].label
  BY <1>3, <1>7
<1>. QED
  BY <1>2, <1>8, <1>9, <1>10 DEF EndsWith

\* ... one with a branch of the innermost block, or one that ends it.
LEMMA OfferContinued ==
  ASSUME NEW n \in Nat, NEW a, OutlineOf(a, n), NEW d, EndsWith(a, intent, local, d), AuthorTyped,
         NEW line \in Legal, line.what \in {"branch", "close"}, NEW b, Steps(a, b, n + 1, line)
  PROVE  EndsWith(b, Moved(line, intent), LabelsThen(line), d)
<1>1. PICK m \in Nat, t \in Nat : m = Len(intent) /\ t = Len(a.items) /\ Len(a.open) = d + m /\ d \in Nat
  <2>1. Len(intent) \in Nat
    BY LenProperties DEF AuthorTyped
  <2>2. Len(a.items) \in Nat
    BY OutlineIs DEF OutlineOf
  <2>. QED
    BY <2>1, <2>2 DEF EndsWith
<1>2. m >= 1 /\ line.label = intent[m].label /\ (line.what = "close" => line.kind = intent[m].kind)
  BY <1>1, MeantLine
<1>3. m \in 1..m /\ Len(a.open) >= 1 /\ d + m = Len(a.open)
  BY <1>1, <1>2
<1>4. a.items[a.open[d + m]].kind = intent[m].kind /\ a.items[a.open[d + m]].label = intent[m].label
  BY <1>1, <1>3 DEF EndsWith
<1>5. Occurs(a, line)
  <2>1. a.items[a.open[Len(a.open)]].label = line.label
    BY <1>2, <1>3, <1>4
  <2>. QED
    BY <1>3, <2>1, OccursIs
<1>6. a \in Outlines /\ Last(a.open) = a.open[d + m]
  BY <1>3, <1>5, OutlineIs DEF OutlineOf, Occurs
<1>7. PICK u : u = Moved(line, intent)
  OBVIOUS
<1>8. /\ line.what = "branch" => Marks(line, intent, u) /\ Notes(a, b, n + 1)
      /\ line.what = "close"  => Shrinks(intent, u) /\ Ends(a, b, n + 1)
  <2>1. Does(line, intent, u)
    BY <1>7, MeantLine
  <2>2. line.what = "close" => a.items[Last(a.open)].kind = line.kind
    BY <1>2, <1>4, <1>6
  <2>. QED
    BY <1>5, <2>1, <2>2 DEF Does, Steps
<1>9. PICK q \in Nat : /\ q = Len(u) /\ q <= m /\ Len(b.open) = d + q
                       /\ \A k \in 1..q : u[k].kind = intent[k].kind /\ u[k].label = intent[k].label
                       /\ \A k \in 1..(d + q) : b.open[k] = a.open[k]
  <2>1. CASE line.what = "branch"
    <3>1. /\ Len(u) = m /\ \A k \in 1..(m - 1) : u[k].kind = intent[k].kind /\ u[k].label = intent[k].label
          /\ u[m].kind = intent[m].kind /\ u[m].label = intent[m].label
      BY <1>1, <1>8, <2>1 DEF Marks, Alike
    <3>2. \A k \in 1..m : k \in 1..(m - 1) \/ k = m
      OBVIOUS
    <3>3. \A k \in 1..m : u[k].kind = intent[k].kind /\ u[k].label = intent[k].label
      BY <3>1, <3>2
    <3>4. b.open = a.open
      BY <1>8, <2>1 DEF Notes
    <3>. QED
      BY <1>1, <3>1, <3>3, <3>4
  <2>2. CASE line.what = "close"
    <3>1. Len(u) = m - 1 /\ \A k \in 1..(m - 1) : u[k].kind = intent[k].kind /\ u[k].label = intent[k].label
      BY <1>1, <1>8, <2>2 DEF Shrinks, Alike
    <3>2. Len(b.open) = (d + m) - 1 /\ \A k \in 1..((d + m) - 1) : b.open[k] = a.open[k]
      BY <1>1, <1>8, <2>2 DEF Ends
    <3>3. m - 1 \in Nat /\ (d + m) - 1 = d + (m - 1)
      BY <1>1, <1>2
    <3>. QED
      BY <3>1, <3>2, <3>3
  <2>. QED
    BY <2>1, <2>2
<1>10. \A j \in 1..t : Old(a.items[j], b.items[j]) /\ b.items[j].used = a.items[j].used
  BY <1>1, <1>8 DEF Notes, Ends, Occurrence
<1>11. \A k \in 1..q : k \in 1..m /\ d + k \in 1..(d + q) /\ d + k \in 1..(d + m)
  BY <1>1, <1>9
<1>12. \A k \in 1..(d + m) : a.open[k] \in 1..t
  BY <1>1 DEF OutlineOf
<1>13. ASSUME NEW k \in 1..q
       PROVE  b.items[b.open[d + k]].kind = u[k].kind /\ b.items[b.open[d + k]].label = u[k].label
  <2>1. b.open[d + k] = a.open[d + k] /\ a.open[d + k] \in 1..t
    BY <1>9, <1>11, <1>12
  <2>2. Old(a.items[a.open[d + k]], b.items[a.open[d + k]])
    BY <1>10, <2>1
  <2>3. a.items[a.open[d + k]].kind = intent[k].kind /\ a.items[a.open[d + k]].label = intent[k].label
    BY <1>1, <1>11 DEF EndsWith
  <2>. QED
    BY <1>9, <2>1, <2>2, <2>3 DEF Old
<1>14. ASSUME q >= 1, u[1].kind = "SEP" PROVE b.items[b.open[d + 1]].used \subseteq LabelsThen(line)
  <2>1. 1 \in 1..q
    BY <1>9, <1>14
  <2>2. b.open[d + 1] = a.open[d + 1] /\ a.open[d + 1] \in 1..t /\ intent[1].kind = "SEP"
    BY <1>9, <1>11, <1>12, <1>14, <2>1
  <2>3. a.items[a.open[d + 1]].used \subseteq local
    BY <1>1, <1>2, <2>2 DEF EndsWith
  <2>4. b.items[a.open[d + 1]].used = a.items[a.open[d + 1]].used
    BY <1>10, <2>2
  <2>5. local \subseteq LabelsThen(line)
    BY DEF LabelsThen
  <2>. QED
    BY <2>2, <2>3, <2>4, <2>5
<1>. QED
  BY <1>1, <1>7, <1>9, <1>13, <1>14 DEF EndsWith

LEMMA OfferingFits ==
  ASSUME AuthorTyped, Offering
  PROVE  ClosersFit
<1>1. SUFFICES ASSUME clean, ~Typed
               PROVE  LET offered == ClosersOffered(doc)
                      IN  /\ Len(offered) >= Len(intent)
                          /\ \A k \in DOMAIN intent : offered[Len(intent) + 1 - k] = Line("close", intent[k].kind, intent[k].label)
  BY DEF ClosersFit
<1>0. PICK a : a = AnalyzeBlocks(doc)
  OBVIOUS
<1>2. PICK d \in Nat : a = AnalyzeBlocks(doc) /\ EndsWith(a, intent, local, d)
  BY <1>0, <1>1 DEF Offering
<1>3. PICK m \in Nat, q \in Nat : m = Len(intent) /\ q = Len(a.open) /\ q = d + m
  <2>1. Len(intent) \in Nat /\ DOMAIN intent = 1..Len(intent)
    BY LenProperties DEF AuthorTyped
  <2>2. Len(a.open) = d + Len(intent) /\ d + Len(intent) \in Nat
    BY <1>2, <2>1 DEF EndsWith
  <2>. QED
    BY <2>1, <2>2
<1>11. DOMAIN intent = 1..m
  BY <1>3, LenProperties DEF AuthorTyped
<1>4. DOMAIN a.open = 1..q
  <2>1. Len(doc) \in Nat /\ Len(doc) \in 0..Len(doc)
    <3>1. Len(doc) \in Nat
      BY LenProperties DEF AuthorTyped
    <3>. QED
      BY <3>1
  <2>2. OutlineOf(a, Len(doc))
    BY <1>2, <2>1, Outlined DEF AuthorTyped, AnalyzeBlocks
  <2>. QED
    BY <1>3, <2>2, OutlineIs DEF OutlineOf
<1>. DEFINE closers == [k \in 1..q |-> Line("close", a.items[a.open[k]].kind, a.items[a.open[k]].label)]
<1>5. Len(closers) = q
  BY <1>3
<1>6. PICK offered : offered = ClosersOffered(doc)
  OBVIOUS
<1>7. offered = [i \in 1..q |-> closers[(q - i) + 1]]
  <2>1. offered = Reverse(closers)
    BY <1>2, <1>4, <1>6 DEF ClosersOffered
  <2>. HIDE DEF closers
  <2>. QED
    BY <1>5, <2>1 DEF Reverse
<1>8. Len(offered) = q
  <2>. HIDE DEF closers
  <2>. QED
    BY <1>7
<1>9. ASSUME NEW k \in 1..m
      PROVE  offered[m + 1 - k] = Line("close", intent[k].kind, intent[k].label)
  <2>1. m + 1 - k \in 1..q /\ (q - (m + 1 - k)) + 1 = d + k /\ d + k \in 1..q
    BY <1>3
  <2>2. offered[m + 1 - k] = closers[d + k]
    <3>. HIDE DEF closers
    <3>. QED
      BY <1>7, <2>1
  <2>3. closers[d + k] = Line("close", a.items[a.open[d + k]].kind, a.items[a.open[d + k]].label)
    BY <2>1
  <2>4. a.items[a.open[d + k]].kind = intent[k].kind /\ a.items[a.open[d + k]].label = intent[k].label
    BY <1>2, <1>3 DEF EndsWith
  <2>. QED
    BY <2>2, <2>3, <2>4
<1>10. q >= m
  BY <1>3
<1>. QED
  BY <1>3, <1>6, <1>8, <1>9, <1>10, <1>11

LEMMA TypedStays ==
  ASSUME NEW lines \in Seq(DocLines), NEW line \in DocLines, \A n \in DOMAIN Append(lines, line) : Append(lines, line)[n] # TypedLine
  PROVE  line # TypedLine /\ \A n \in DOMAIN lines : lines[n] # TypedLine
<1>1. Append(lines, line) \in Seq(DocLines) /\ Len(Append(lines, line)) = Len(lines) + 1 /\ Len(lines) \in Nat
  BY AppendProperties, LenProperties
<1>2. DOMAIN Append(lines, line) = 1..(Len(lines) + 1) /\ DOMAIN lines = 1..Len(lines)
  BY <1>1, LenProperties
<1>3. Append(lines, line)[Len(lines) + 1] = line /\ \A n \in 1..Len(lines) : Append(lines, line)[n] = lines[n]
  BY AppendProperties
<1>4. Len(lines) + 1 \in 1..(Len(lines) + 1) /\ \A n \in 1..Len(lines) : n \in 1..(Len(lines) + 1)
  BY <1>1
<1>. QED
  BY <1>2, <1>3, <1>4

\* A right line.
LEMMA RightLineOffers ==
  ASSUME AuthorTyped, Offering, NEW line \in Legal, line # Plain, doc' = Append(doc, line), Write(line)
  PROVE  EditorInv'
<1>1. line \in DocLines /\ intent' = Moved(line, intent) /\ local' = LabelsThen(line)
  BY MeantLine DEF Write, Means, LabelsThen
<1>2. AuthorTyped'
  BY <1>1, MeantLine, AppendProperties DEF AuthorTyped
<1>3. ASSUME clean', ~Typed' PROVE \E d \in Nat : EndsWith(AnalyzeBlocks(doc'), intent', local', d)
  <2>1. ~Typed /\ line # TypedLine
    BY <1>1, <1>3, TypedStays DEF AuthorTyped, Typed
  <2>2. PICK n \in Nat : n = Len(doc) /\ n \in 0..Len(doc)
    <3>1. Len(doc) \in Nat
      BY LenProperties DEF AuthorTyped
    <3>. QED
      BY <3>1
  <2>3. PICK a : a = AnalyzeBlocks(doc) /\ OutlineOf(a, n)
    BY <2>2, Outlined DEF AuthorTyped, AnalyzeBlocks
  <2>4. PICK b : b = AnalyzeBlocks(doc') /\ Steps(a, b, n + 1, line)
    BY <1>1, <2>2, <2>3, AnalysisGrows, LineDoes DEF AuthorTyped
  <2>5. \E d \in Nat : EndsWith(a, intent, local, d)
    <3>1. CASE clean
      BY <2>1, <2>3, <3>1 DEF Offering
    <3>2. CASE ~clean
      <4>1. intent = <<>>
        BY <1>3, <3>2 DEF Write
      <4>2. Len(intent) = 0 /\ Len(a.open) \in Nat
        BY <2>3, <4>1, EmptySeq, OutlineIs DEF OutlineOf
      <4>3. EndsWith(a, intent, local, Len(a.open))
        BY <4>2 DEF EndsWith
      <4>. QED
        BY <4>2, <4>3
    <3>. QED
      BY <3>1, <3>2
  <2>6. PICK d \in Nat : EndsWith(a, intent, local, d)
    BY <2>5
  <2>7. CASE line.what = "open"
    <3>1. Begins(a, b, n + 1, line)
      <4>1. LooksOpen(line)
        BY <2>7 DEF LooksOpen
      <4>. QED
        BY <2>3, <2>4, <2>6, <2>7, <4>1, LabelIsFree DEF Steps
    <3>. QED
      BY <1>1, <2>3, <2>4, <2>6, <2>7, <3>1, OfferOpened
  <2>8. CASE line.what \in {"branch", "close"}
    BY <1>1, <2>3, <2>4, <2>6, <2>8, OfferContinued
  <2>9. line.what = "open" \/ line.what \in {"branch", "close"}
    BY MeantLine, LineIs
  <2>. QED
    BY <2>7, <2>8, <2>9
<1>. QED
  BY <1>2, <1>3 DEF EditorInv, Offering

\* A line that is not the one meant, or none.
LEMMA WrongLineOffers ==
  ASSUME AuthorTyped, NEW line, NEW meant \in Legal, Errs(line, meant), doc' \in Seq(DocLines)
  PROVE  EditorInv'
<1>1. ~clean' /\ intent' = Moved(meant, intent)
  BY DEF Errs, Means
<1>2. AuthorTyped'
  BY <1>1, MeantLine DEF AuthorTyped
<1>. QED
  BY <1>1, <1>2 DEF EditorInv, Offering

LEMMA EditorInvKept ==
  ASSUME EditorInv, EditorNext
  PROVE  EditorInv'
<1>1. AuthorTyped /\ Offering /\ doc \in Seq(DocLines)
  BY DEF EditorInv, AuthorTyped
<1>2. CASE EndOfFile /\ UNCHANGED doc
  BY <1>2 DEF EndOfFile, EditorInv, AuthorTyped, Offering, Typed
<1>3. CASE \E line \in Legal : Written(line) /\ Write(line)
  <2>1. PICK line \in Legal : Written(line) /\ Write(line)
    BY <1>3
  <2>2. line # Plain
    BY <2>1, EditorAssumption DEF Written, Plain, Line, Kinds
  <2>. QED
    BY <1>1, <2>1, <2>2, RightLineOffers DEF Written
<1>4. CASE doc' = Append(doc, TypedLine) /\ Write(TypedLine)
  <2>1. TypedLine \in DocLines /\ TypedLine.what = "typed"
    BY DEF DocLines, TypedLine, Line
  <2>2. doc' \in Seq(DocLines) /\ Typed'
    <3>1. doc' \in Seq(DocLines) /\ Len(doc') = Len(doc) + 1 /\ doc'[Len(doc) + 1] = TypedLine
      BY <1>1, <1>4, <2>1, AppendProperties
    <3>2. Len(doc) \in Nat /\ DOMAIN doc' = 1..Len(doc')
      BY <1>1, <3>1, LenProperties
    <3>3. Len(doc) + 1 \in DOMAIN doc'
      BY <3>1, <3>2
    <3>. QED
      BY <3>1, <3>3 DEF Typed
  <2>3. intent' = intent
    BY <1>4, <2>1 DEF Write, Means, Moved, Continued
  <2>. QED
    BY <1>1, <2>2, <2>3 DEF EditorInv, AuthorTyped, Offering
<1>5. CASE \E line \in {l \in Legal : Structural(l)} : LeaveOut(line) /\ line.kind \in EditorKinds /\ UNCHANGED doc
  BY <1>1, <1>5, WrongLineOffers DEF LeaveOut
<1>6. \A line \in Openers \cup Closers : Written(line) => doc' \in Seq(DocLines)
  BY <1>1, AppendProperties DEF Written, DocLines
<1>7. CASE \E line \in Openers \cup Closers : Written(line) /\ AddLine(line)
  <2>1. Plain \in Legal
    BY DEF Legal
  <2>. QED
    BY <1>1, <1>6, <1>7, <2>1, WrongLineOffers DEF AddLine
<1>8. CASE \E meant \in {l \in Legal : Structural(l)}, line \in Openers \cup Closers :
             meant.kind \in EditorKinds /\ Written(line) /\ Mistake(line, meant)
  BY <1>1, <1>6, <1>8, WrongLineOffers DEF Mistake
<1>. QED
  BY <1>2, <1>3, <1>4, <1>5, <1>7, <1>8 DEF EditorNext

LEMMA EditorInvBegins ==
  ASSUME EditorInit
  PROVE  EditorInv
<1>1. doc = <<>> /\ intent = <<>>
  BY DEF EditorInit, BlocksInit
<1>2. doc \in Seq(DocLines) /\ intent \in Seq(BlockRecs) /\ Len(intent) = 0 /\ Len(doc) = 0
  BY <1>1, EmptySeq
<1>3. AuthorTyped
  BY <1>2 DEF AuthorTyped, Distinct, Rooted
<1>4. EndsWith(AnalyzeBlocks(doc), intent, local, 0)
  <2>1. Analysis(doc)[0] = [items |-> <<>>, open |-> <<>>]
    BY <1>2, AnalysisIs
  <2>2. AnalyzeBlocks(doc).open = <<>>
    BY <1>2, <2>1 DEF AnalyzeBlocks
  <2>. QED
    BY <1>1, <1>2, <2>2 DEF EndsWith
<1>. QED
  BY <1>3, <1>4 DEF EditorInv, Offering

----------------------------------------------------------------------------
(* Renaming the label of a block of a program.                             *)

LEMMA AcceptedSoFar ==
  ASSUME NEW lines \in Seq(DocLines), Parsed(lines).ok
  PROVE  \A n \in 0..Len(lines) : Parses(lines)[n].ok
<1>. DEFINE Wrong == {n \in 0..Len(lines) : ~Parses(lines)[n].ok}
<1>1. PICK m \in Nat : m = Len(lines)
  BY LenProperties
<1>2. Wrong = {}
  <2>1. SUFFICES ASSUME Wrong # {} PROVE FALSE
    OBVIOUS
  <2>2. PICK n \in Wrong : \A i \in Wrong : i <= n
    <3>1. Wrong \in SUBSET (0..m)
      BY <1>1
    <3>. HIDE DEF Wrong
    <3>. QED
      BY <1>1, <2>1, <3>1, GreatestFrom
  <2>3. n \in 0..m /\ n # m /\ ~Parses(lines)[n].ok
    BY <1>1, <2>2 DEF Parsed
  <2>4. n + 1 \in 1..m /\ n + 1 \in 0..m /\ (n + 1) - 1 = n /\ ~(n + 1 <= n)
    BY <1>1, <2>3
  <2>5. Parses(lines)[n + 1].ok
    BY <1>1, <2>2, <2>4
  <2>6. Takes(Parses(lines)[n], Parses(lines)[n + 1], n + 1, lines[n + 1])
    BY <1>1, <2>4, <2>5, ParsedSoFar
  <2>. QED
    BY <2>3, <2>6 DEF Takes
<1>. QED
  BY <1>2

\* A document that is a program, its outline and the parser's state after each line.
Whole    == doc \in Seq(DocLines) /\ ~Typed /\ IsProgram(doc)
Outline(n) == Analysis(doc)[n]
Reading(n) == Parses(doc)[n]
Finally  == Outline(Len(doc))
Moves(a, b, n, line) ==
  \/ line.what = "open" /\ Begins(a, b, n, line)
  \/ line.what = "branch" /\ Notes(a, b, n)
  \/ line.what = "close" /\ Ends(a, b, n)

LEMMA WholeIs ==
  ASSUME Whole
  PROVE  /\ Len(doc) \in Nat /\ DOMAIN doc = 1..Len(doc) /\ \A n \in 1..Len(doc) : doc[n] \in DocLines
         /\ \A n \in 0..Len(doc) : /\ OutlineOf(Outline(n), n) /\ ParseOf(Reading(n), n) /\ Reading(n).ok
                                   /\ InStep(Outline(n), Reading(n))
         /\ \A n \in 1..Len(doc) : /\ Takes(Reading(n - 1), Reading(n), n, doc[n])
                                   /\ Moves(Outline(n - 1), Outline(n), n, doc[n])
         /\ AnalyzeBlocks(doc) = Finally /\ Parsed(doc) = Reading(Len(doc))
         /\ Finally \in Outlines /\ Finally.open = <<>> /\ Reading(Len(doc)).open = <<>>
<1>1. /\ Len(doc) \in Nat /\ DOMAIN doc = 1..Len(doc) /\ doc \in Seq(DocLines)
      /\ Parsed(doc).ok /\ Parsed(doc).open = <<>> /\ \A n \in 1..Len(doc) : doc[n] \in DocLines
  BY LenProperties, ElementOfSeq DEF Whole, IsProgram
<1>2. \A n \in 0..Len(doc) : Parses(doc)[n].ok
  BY <1>1, AcceptedSoFar
<1>3. \A n \in 1..Len(doc) : doc[n] # TypedLine
  BY <1>1 DEF Whole, Typed
<1>4. \A n \in 1..Len(doc) : n \in 0..Len(doc) /\ n - 1 \in 0..Len(doc)
  BY <1>1
<1>5. \A n \in 0..Len(doc) : OutlineOf(Outline(n), n) /\ ParseOf(Reading(n), n) /\ Reading(n).ok
  BY <1>1, <1>2, Outlined, ParsedSoFar DEF Outline, Reading
<1>6. \A n \in 0..Len(doc) : InStep(Outline(n), Reading(n))
  BY <1>1, <1>2, <1>3, StaysInStep DEF Outline, Reading
<1>7. ASSUME NEW n \in 1..Len(doc) PROVE Takes(Reading(n - 1), Reading(n), n, doc[n])
  BY <1>1, <1>2, <1>4, ParsedSoFar DEF Reading
<1>8. ASSUME NEW n \in 1..Len(doc) PROVE Moves(Outline(n - 1), Outline(n), n, doc[n])
  <2>1. /\ doc[n].what = "branch" => Notes(Analysis(doc)[n - 1], Analysis(doc)[n], n)
        /\ doc[n].what = "close"  => Ends(Analysis(doc)[n - 1], Analysis(doc)[n], n)
        /\ doc[n].what = "open"   => Begins(Analysis(doc)[n - 1], Analysis(doc)[n], n, doc[n])
    BY <1>1, <1>2, <1>3, <1>4, StaysInStep
  <2>2. doc[n].what \in {"open", "branch", "close"}
    BY <1>1, <1>3, DocLineIs
  <2>. QED
    BY <2>1, <2>2 DEF Moves, Outline
<1>9. Len(doc) \in 0..Len(doc)
  BY <1>1
<1>10. AnalyzeBlocks(doc) = Finally /\ Parsed(doc) = Reading(Len(doc))
  BY DEF AnalyzeBlocks, Finally, Outline, Parsed, Reading
<1>11. Finally \in Outlines /\ Finally.open = <<>>
  <2>1. InStep(Finally, Reading(Len(doc))) /\ OutlineOf(Finally, Len(doc))
    BY <1>5, <1>6, <1>9 DEF Finally
  <2>2. Len(Finally.open) = 0
    BY <1>1, <1>10, <2>1, EmptySeq DEF InStep
  <2>. QED
    BY <2>1, <2>2, OutlineIs DEF OutlineOf
<1>. QED
  BY <1>1, <1>5, <1>6, <1>7, <1>8, <1>10, <1>11

\* What an outline tells of the outline of n lines before it.
Remembers(a, b, n) ==
  /\ Len(a.items) <= Len(b.items)
  /\ \A j \in 1..Len(a.items) :
       /\ Old(a.items[j], b.items[j])
       /\ a.items[j].end # 0 => b.items[j].end = a.items[j].end
       /\ a.items[j].end = 0 => b.items[j].end = 0 \/ b.items[j].end > n
       /\ \A i \in 1..n : i \in b.items[j].at <=> i \in a.items[j].at
  /\ \A j \in 1..Len(b.items) : j > Len(a.items) => b.items[j].line > n /\ \A i \in 1..n : i \notin b.items[j].at

LEMMA MovesRemember ==
  ASSUME NEW n \in Nat, NEW m \in Nat, n <= m, NEW a, OutlineOf(a, n), NEW b, OutlineOf(b, m), NEW c, OutlineOf(c, m + 1),
         Remembers(a, b, n), NEW line \in DocLines, Moves(b, c, m + 1, line)
  PROVE  Remembers(a, c, n)
<1>1. PICK s \in Nat, t \in Nat, r \in Nat : s = Len(a.items) /\ t = Len(b.items) /\ r = Len(c.items)
  BY OutlineIs DEF OutlineOf
<1>2. /\ s <= t
      /\ \A j \in 1..s : /\ Old(a.items[j], b.items[j])
                         /\ a.items[j].end # 0 => b.items[j].end = a.items[j].end
                         /\ a.items[j].end = 0 => b.items[j].end = 0 \/ b.items[j].end > n
                         /\ \A i \in 1..n : i \in b.items[j].at <=> i \in a.items[j].at
      /\ \A j \in 1..t : j > s => b.items[j].line > n /\ \A i \in 1..n : i \notin b.items[j].at
  BY <1>1 DEF Remembers
<1>3. /\ r = t \/ (r = t + 1 /\ c.items[t + 1].line = m + 1 /\ c.items[t + 1].at = {m + 1})
      /\ \A j \in 1..t : Old(b.items[j], c.items[j])
      /\ \A j \in 1..t : c.items[j].at = b.items[j].at \/ c.items[j].at = b.items[j].at \cup {m + 1}
  <2>1. CASE line.what = "open" /\ Begins(b, c, m + 1, line)
    <3>1. c.items[t + 1] = Item(line, m + 1) /\ LooksOpen(line)
      BY <1>1, <2>1 DEF Begins, LooksOpen
    <3>2. c.items[t + 1].line = m + 1 /\ c.items[t + 1].at = {m + 1}
      BY <3>1, ItemIs
    <3>. QED
      BY <1>1, <2>1, <3>2 DEF Begins
  <2>2. CASE Notes(b, c, m + 1) \/ Ends(b, c, m + 1)
    BY <1>1, <2>2 DEF Notes, Ends, Occurrence
  <2>. QED
    BY <2>1, <2>2 DEF Moves
<1>4. \A j \in 1..t : c.items[j].end = b.items[j].end \/ (b.items[j].end = 0 /\ c.items[j].end = m + 1)
  <2>1. CASE Begins(b, c, m + 1, line) \/ Notes(b, c, m + 1)
    BY <1>1, <2>1 DEF Begins, Notes
  <2>2. CASE Ends(b, c, m + 1)
    <3>1. \A j \in 1..t : c.items[j].end = IF j = b.open[Len(b.open)] THEN m + 1 ELSE b.items[j].end
      BY <1>1, <2>2 DEF Ends
    <3>2. Len(b.open) \in 1..Len(b.open)
      BY <2>2, OutlineIs DEF Ends, Occurrence, OutlineOf
    <3>3. \A j \in 1..t : j = b.open[Len(b.open)] => b.items[j].end = 0
      BY <1>1, <3>2 DEF OutlineOf
    <3>. QED
      BY <3>1, <3>3
  <2>. QED
    BY <2>1, <2>2 DEF Moves
<1>5. \A i \in 1..n : i # m + 1
  OBVIOUS
<1>6. ASSUME NEW j \in 1..s
      PROVE  /\ Old(a.items[j], c.items[j])
             /\ a.items[j].end # 0 => c.items[j].end = a.items[j].end
             /\ a.items[j].end = 0 => c.items[j].end = 0 \/ c.items[j].end > n
             /\ \A i \in 1..n : i \in c.items[j].at <=> i \in a.items[j].at
  <2>1. j \in 1..t
    BY <1>1, <1>2
  <2>2. Old(a.items[j], c.items[j])
    BY <1>2, <1>3, <2>1 DEF Old
  <2>3. a.items[j].end # 0 => c.items[j].end = a.items[j].end
    BY <1>2, <1>4, <2>1
  <2>4. m + 1 > n
    OBVIOUS
  <2>5. a.items[j].end = 0 => c.items[j].end = 0 \/ c.items[j].end > n
    BY <1>2, <1>4, <2>1, <2>4
  <2>6. ASSUME NEW i \in 1..n PROVE i \in c.items[j].at <=> i \in a.items[j].at
    <3>1. i \in c.items[j].at <=> i \in b.items[j].at
      BY <1>3, <1>5, <2>1
    <3>. QED
      BY <1>2, <3>1
  <2>. QED
    BY <2>2, <2>3, <2>5, <2>6
<1>7. ASSUME NEW j \in 1..r, j > s PROVE c.items[j].line > n /\ \A i \in 1..n : i \notin c.items[j].at
  <2>1. CASE j \in 1..t
    <3>1. c.items[j].line = b.items[j].line
      BY <1>3, <2>1 DEF Old
    <3>2. \A i \in 1..n : i \in c.items[j].at <=> i \in b.items[j].at
      BY <1>3, <1>5, <2>1
    <3>. QED
      BY <1>2, <1>7, <2>1, <3>1, <3>2
  <2>2. CASE j \notin 1..t
    <3>1. j = t + 1 /\ r = t + 1
      BY <1>1, <1>3, <2>2
    <3>2. m + 1 > n
      OBVIOUS
    <3>. QED
      BY <1>3, <1>5, <3>1, <3>2
  <2>. QED
    BY <2>1, <2>2
<1>8. s <= r
  BY <1>1, <1>2, <1>3
<1>. QED
  BY <1>1, <1>6, <1>7, <1>8 DEF Remembers

LEMMA FinallyRemembers ==
  ASSUME Whole, NEW n \in 0..Len(doc)
  PROVE  Remembers(Outline(n), Finally, n)
<1>1. PICK m \in Nat : m = Len(doc) /\ n \in 0..m /\ n \in Nat
  <2>1. Len(doc) \in Nat
    BY WholeIs
  <2>. QED
    BY <2>1
<1>. DEFINE Wrong == {k \in n..m : ~Remembers(Outline(n), Outline(k), n)}
<1>2. Remembers(Outline(n), Outline(n), n)
  <2>1. OutlineOf(Outline(n), n)
    BY WholeIs
  <2>2. Len(Outline(n).items) \in Nat
    BY <2>1, OutlineIs DEF OutlineOf
  <2>. QED
    BY <2>2 DEF Remembers, Old
<1>3. Wrong = {}
  <2>1. SUFFICES ASSUME Wrong # {} PROVE FALSE
    OBVIOUS
  <2>2. PICK k \in Wrong : \A i \in Wrong : k <= i
    <3>1. Wrong \in SUBSET Nat
      BY <1>1
    <3>. HIDE DEF Wrong
    <3>. QED
      BY <2>1, <3>1, LeastNatural
  <2>3. k \in n..m /\ k # n /\ ~Remembers(Outline(n), Outline(k), n)
    BY <1>2, <2>2
  <2>4. PICK i \in Nat : i = k - 1 /\ i + 1 = k /\ i \in n..m /\ n <= i /\ k \in 1..m /\ i \in 0..m /\ k \in 0..m /\ ~(k <= i)
    BY <1>1, <2>3
  <2>5. Remembers(Outline(n), Outline(i), n)
    BY <2>2, <2>4
  <2>6. /\ OutlineOf(Outline(n), n) /\ OutlineOf(Outline(i), i) /\ OutlineOf(Outline(k), i + 1)
        /\ Moves(Outline(i), Outline(k), i + 1, doc[k]) /\ doc[k] \in DocLines
    BY <1>1, <2>4, WholeIs
  <2>7. Remembers(Outline(n), Outline(k), n)
    BY <1>1, <2>4, <2>5, <2>6, MovesRemember
  <2>. QED
    BY <2>3, <2>7
<1>4. m \in n..m
  BY <1>1
<1>. QED
  BY <1>1, <1>3, <1>4 DEF Finally

\* A block that is open is ended later, ...
LEMMA EndsLater ==
  ASSUME Whole, NEW n \in 0..Len(doc), NEW k \in 1..Len(Outline(n).open)
  PROVE  LET j == Outline(n).open[k]
         IN  /\ j \in 1..Len(Outline(n).items) /\ j \in 1..Len(Finally.items)
             /\ Old(Outline(n).items[j], Finally.items[j]) /\ Finally.items[j].end > n
             /\ Finally.items[j].kind = Reading(n).open[k].kind /\ Finally.items[j].label = Reading(n).open[k].label
             /\ Finally.items[j].line = Reading(n).since[k]
<1>1. PICK j : j = Outline(n).open[k]
  OBVIOUS
<1>2. OutlineOf(Outline(n), n) /\ InStep(Outline(n), Reading(n)) /\ Finally \in Outlines /\ Finally.open = <<>>
  BY WholeIs
<1>3. j \in 1..Len(Outline(n).items) /\ Outline(n).items[j].end = 0
  BY <1>1, <1>2 DEF OutlineOf
<1>4. Remembers(Outline(n), Finally, n)
  BY FinallyRemembers
<1>5. Len(Outline(n).items) \in Nat /\ Len(Finally.items) \in Nat /\ Len(Finally.open) = 0
  BY <1>2, OutlineIs DEF OutlineOf
<1>6. j \in 1..Len(Finally.items)
  BY <1>3, <1>4, <1>5 DEF Remembers
<1>7. Finally.items[j].end # 0
  <2>1. OutlineOf(Finally, Len(doc))
    <3>1. Len(doc) \in Nat
      BY WholeIs
    <3>2. Len(doc) \in 0..Len(doc)
      BY <3>1
    <3>. QED
      BY <3>2, WholeIs DEF Finally
  <2>. QED
    BY <1>5, <1>6, <2>1 DEF OutlineOf
<1>8. Old(Outline(n).items[j], Finally.items[j]) /\ Finally.items[j].end > n
  BY <1>3, <1>4, <1>7 DEF Remembers
<1>9. /\ Outline(n).items[j].kind = Reading(n).open[k].kind /\ Outline(n).items[j].label = Reading(n).open[k].label
      /\ Outline(n).items[j].line = Reading(n).since[k]
  BY <1>1, <1>2 DEF InStep
<1>. QED
  BY <1>1, <1>3, <1>6, <1>8, <1>9 DEF Old

\* ... after those in it.
LEMMA Nested ==
  ASSUME Whole, NEW n \in 0..Len(doc)
  PROVE  \A p, q \in 1..Len(Outline(n).open) :
           p < q => Finally.items[Outline(n).open[q]].end < Finally.items[Outline(n).open[p]].end
<1>. DEFINE Proven(i) == \A p, q \in 1..Len(Outline(i).open) :
                           p < q => Finally.items[Outline(i).open[q]].end < Finally.items[Outline(i).open[p]].end
            Wrong == {i \in 0..Len(doc) : ~Proven(i)}
<1>1. PICK m \in Nat : m = Len(doc)
  BY WholeIs
<1>2. Proven(m)
  <2>1. Len(Outline(m).open) = 0
    BY <1>1, WholeIs, EmptySeq DEF Finally
  <2>. QED
    BY <2>1
<1>3. ASSUME NEW i \in 0..m, i + 1 \in 1..m, Proven(i + 1) PROVE Proven(i)
  <2>1. PICK a, b : a = Outline(i) /\ b = Outline(i + 1)
    OBVIOUS
  <2>2. /\ OutlineOf(a, i) /\ OutlineOf(b, i + 1) /\ Moves(a, b, i + 1, doc[i + 1])
        /\ i \in Nat /\ i + 1 \in 0..m
    <3>1. i + 1 \in 0..m /\ (i + 1) - 1 = i /\ i \in Nat
      BY <1>1, <1>3
    <3>. QED
      BY <1>1, <1>3, <2>1, <3>1, WholeIs
  <2>3. PICK r \in Nat : r = Len(a.open)
    BY <2>2, OutlineIs DEF OutlineOf
  <2>4. \A p, q \in 1..Len(b.open) : p < q => Finally.items[b.open[q]].end < Finally.items[b.open[p]].end
    BY <1>3, <2>1
  <2>5. CASE Begins(a, b, i + 1, doc[i + 1])
    <3>1. Len(b.open) = r + 1 /\ \A p \in 1..r : b.open[p] = a.open[p]
      BY <2>3, <2>5 DEF Begins
    <3>2. \A p \in 1..r : p \in 1..Len(b.open)
      BY <3>1
    <3>. QED
      BY <2>1, <2>3, <2>4, <3>1, <3>2
  <2>6. CASE Notes(a, b, i + 1)
    BY <2>1, <2>4, <2>6 DEF Notes
  <2>7. CASE Ends(a, b, i + 1)
    <3>1. /\ r >= 1 /\ Len(b.open) = r - 1 /\ \A p \in 1..(r - 1) : b.open[p] = a.open[p]
          /\ b.items[a.open[r]].end = i + 1 /\ a.open[r] \in 1..Len(b.items)
      <4>1. r >= 1 /\ Len(b.open) = r - 1 /\ \A p \in 1..(r - 1) : b.open[p] = a.open[p]
        BY <2>3, <2>7 DEF Ends, Occurrence
      <4>2. r \in 1..r
        BY <4>1
      <4>3. a.open[r] \in 1..Len(a.items)
        BY <2>2, <2>3, <4>2 DEF OutlineOf
      <4>. QED
        BY <2>3, <2>7, <4>1, <4>3 DEF Ends, Occurrence
    <3>2. Finally.items[a.open[r]].end = i + 1
      <4>1. Remembers(b, Finally, i + 1)
        BY <1>1, <2>1, <2>2, FinallyRemembers
      <4>2. i + 1 # 0
        BY <2>2
      <4>. QED
        BY <3>1, <4>1, <4>2 DEF Remembers
    <3>3. ASSUME NEW p \in 1..r, NEW q \in 1..r, p < q
          PROVE Finally.items[a.open[q]].end < Finally.items[a.open[p]].end
      <4>1. p \in 1..Len(b.open) /\ b.open[p] = a.open[p]
        BY <3>1, <3>3
      <4>2. CASE q = r
        <5>1. Finally.items[b.open[p]].end > i + 1
          BY <1>1, <2>1, <2>2, <4>1, EndsLater
        <5>2. Finally.items[a.open[p]].end > i + 1
          BY <4>1, <5>1
        <5>3. Finally.items[a.open[q]].end = i + 1
          BY <3>2, <4>2
        <5>4. Finally.items[a.open[p]].end \in Nat
          <6>1. Finally \in Outlines /\ a.open[p] \in 1..Len(Finally.items)
            BY <1>1, <2>1, <2>3, EndsLater, WholeIs
          <6>2. Finally.items[a.open[p]] \in Items
            BY <6>1, OutlineIs
          <6>. QED
            BY <6>2 DEF Items
        <5>. QED
          BY <2>2, <5>2, <5>3, <5>4
      <4>3. CASE q # r
        <5>1. q \in 1..Len(b.open) /\ b.open[q] = a.open[q]
          BY <3>1, <4>3
        <5>2. Finally.items[b.open[q]].end < Finally.items[b.open[p]].end
          BY <2>4, <3>3, <4>1, <5>1, Zenon
        <5>. QED
          BY <4>1, <5>1, <5>2
      <4>. QED
        BY <4>2, <4>3
    <3>. QED
      BY <2>1, <2>3, <3>3
  <2>. QED
    BY <2>2, <2>5, <2>6, <2>7 DEF Moves
<1>4. Wrong = {}
  <2>1. SUFFICES ASSUME Wrong # {} PROVE FALSE
    OBVIOUS
  <2>2. PICK i \in Wrong : \A k \in Wrong : k <= i
    <3>1. Wrong \in SUBSET (0..m)
      BY <1>1
    <3>. HIDE DEF Wrong
    <3>. QED
      BY <1>1, <2>1, <3>1, GreatestFrom
  <2>. HIDE DEF Proven
  <2>3. i \in 0..m /\ ~Proven(i) /\ i # m
    BY <1>1, <1>2, <2>2
  <2>4. i + 1 \in 1..m /\ i + 1 \in 0..m /\ ~(i + 1 <= i)
    BY <1>1, <2>3
  <2>5. Proven(i + 1)
    BY <1>1, <2>2, <2>4
  <2>. QED
    BY <1>3, <2>3, <2>4, <2>5
<1>. QED
  BY <1>4

\* Where the label of a block occurs: at its first line, and at the branches and the last
\* line, where it is the innermost.
LEMMA OccursWithin ==
  ASSUME Whole, NEW n \in 0..Len(doc)
  PROVE  \A j \in 1..Len(Outline(n).items) : Outline(n).items[j].at \subseteq 1..n
<1>. DEFINE Proven(i) == \A j \in 1..Len(Outline(i).items) : Outline(i).items[j].at \subseteq 1..i
            Wrong == {i \in 0..Len(doc) : ~Proven(i)}
<1>1. PICK m \in Nat : m = Len(doc)
  BY WholeIs
<1>2. Proven(0)
  <2>1. Outline(0) = [items |-> <<>>, open |-> <<>>]
    BY <1>1, AnalysisIs DEF Outline
  <2>2. Len(Outline(0).items) = 0
    BY <2>1
  <2>. QED
    BY <2>2
<1>3. ASSUME NEW i \in Nat, i + 1 \in 1..m, Proven(i) PROVE Proven(i + 1)
  <2>1. PICK a, b, line : a = Outline(i) /\ b = Outline(i + 1) /\ line = doc[i + 1]
    OBVIOUS
  <2>2. OutlineOf(a, i) /\ Moves(a, b, i + 1, line) /\ line \in DocLines
    <3>1. i \in 0..m /\ (i + 1) - 1 = i
      BY <1>1, <1>3
    <3>. QED
      BY <1>1, <1>3, <2>1, <3>1, WholeIs
  <2>3. PICK t \in Nat : t = Len(a.items)
    BY <2>2, OutlineIs DEF OutlineOf
  <2>4. \A j \in 1..t : b.items[j].at \subseteq a.items[j].at \cup {i + 1}
    BY <2>2, <2>3 DEF Moves, Begins, Notes, Ends, Occurrence
  <2>5. 1..i \cup {i + 1} \subseteq 1..(i + 1)
    BY <1>3
  <2>6. \A j \in 1..t : a.items[j].at \subseteq 1..i
    BY <1>3, <2>1, <2>3
  <2>7. \A j \in 1..t : b.items[j].at \subseteq 1..(i + 1)
    BY <2>4, <2>5, <2>6
  <2>8. Len(b.items) = t \/ (Len(b.items) = t + 1 /\ b.items[t + 1].at = {i + 1})
    <3>1. CASE line.what = "open" /\ Begins(a, b, i + 1, line)
      <4>1. Len(b.items) = t + 1 /\ b.items[t + 1] = Item(line, i + 1) /\ LooksOpen(line)
        BY <2>3, <3>1 DEF Begins, LooksOpen
      <4>. QED
        BY <2>2, <4>1, ItemIs
    <3>2. CASE Notes(a, b, i + 1) \/ Ends(a, b, i + 1)
      BY <2>3, <3>2 DEF Notes, Ends, Occurrence
    <3>. QED
      BY <2>2, <3>1, <3>2 DEF Moves
  <2>9. \A j \in 1..(t + 1) : j \in 1..t \/ j = t + 1
    OBVIOUS
  <2>10. {i + 1} \subseteq 1..(i + 1)
    BY <1>3
  <2>. QED
    BY <2>1, <2>7, <2>8, <2>9, <2>10
<1>4. Wrong = {}
  <2>1. SUFFICES ASSUME Wrong # {} PROVE FALSE
    OBVIOUS
  <2>2. PICK i \in Wrong : \A k \in Wrong : i <= k
    <3>1. Wrong \in SUBSET Nat
      OBVIOUS
    <3>. HIDE DEF Wrong
    <3>. QED
      BY <2>1, <3>1, LeastNatural
  <2>. HIDE DEF Proven
  <2>3. i \in 0..m /\ ~Proven(i) /\ i # 0
    BY <1>1, <1>2, <2>2
  <2>4. PICK k \in Nat : i = k + 1 /\ k + 1 \in 1..m /\ k \in 0..m /\ ~(i <= k)
    <3>1. i - 1 \in Nat /\ i = (i - 1) + 1 /\ (i - 1) + 1 \in 1..m /\ i - 1 \in 0..m /\ ~(i <= i - 1)
      BY <1>1, <2>3
    <3>. QED
      BY <3>1
  <2>5. Proven(k)
    BY <1>1, <2>2, <2>4
  <2>. QED
    BY <1>3, <2>3, <2>4, <2>5
<1>. QED
  BY <1>4

LEMMA OccurrencesAre ==
  ASSUME Whole, NEW n \in Nat, n + 1 \in 1..Len(doc), NEW h \in 1..Len(Finally.items)
  PROVE  LET p == Reading(n)
             line == Finally.items[h].line
         IN  /\ doc[n + 1].what = "open" => (n + 1 \in Finally.items[h].at <=> n + 1 = line)
             /\ doc[n + 1].what \in {"branch", "close"} =>
                  /\ Len(p.since) >= 1 /\ n + 1 # line
                  /\ n + 1 \in Finally.items[h].at <=> p.since[Len(p.since)] = line
<1>1. PICK m \in Nat : m = Len(doc) /\ n \in 0..m /\ n + 1 \in 0..m /\ (n + 1) - 1 = n
  <2>1. Len(doc) \in Nat
    BY WholeIs
  <2>. QED
    BY <2>1
<1>2. PICK a, b, c : a = Outline(n) /\ b = Outline(n + 1) /\ c = Finally
  OBVIOUS
<1>3. PICK line \in DocLines : line = doc[n + 1]
  BY WholeIs
<1>4. /\ OutlineOf(a, n) /\ OutlineOf(b, n + 1) /\ Moves(a, b, n + 1, line) /\ Remembers(b, c, n + 1)
      /\ ParseOf(Reading(n), n) /\ Reading(n).ok /\ InStep(a, Reading(n))
  BY <1>1, <1>2, <1>3, WholeIs, FinallyRemembers
<1>5. OutlineOf(c, m)
  <2>1. m \in 0..m
    BY <1>1
  <2>. QED
    BY <1>1, <1>2, <2>1, WholeIs DEF Finally
<1>6. PICK t \in Nat, r \in Nat, s \in Nat : t = Len(a.items) /\ r = Len(a.open) /\ s = Len(c.items)
  BY <1>4, <1>5, OutlineIs DEF OutlineOf
<1>7. h \in 1..s
  BY <1>2, <1>6
<1>8. \A j \in 1..t : n + 1 \notin a.items[j].at
  <2>1. n + 1 \notin 1..n
    OBVIOUS
  <2>. QED
    BY <1>1, <1>2, <1>6, <2>1, OccursWithin
<1>9. /\ \A j \in 1..Len(b.items) : n + 1 \in c.items[j].at <=> n + 1 \in b.items[j].at
      /\ \A j \in 1..s : j > Len(b.items) => c.items[j].line > n + 1 /\ n + 1 \notin c.items[j].at
      /\ \A j \in 1..Len(b.items) : Old(b.items[j], c.items[j])
      /\ Len(b.items) <= s
  <2>1. n + 1 \in 1..(n + 1)
    OBVIOUS
  <2>. QED
    BY <1>4, <1>6, <2>1 DEF Remembers
<1>10. \A i, j \in 1..s : c.items[i].line = c.items[j].line => i = j
  <2>1. \A i, j \in 1..s : i < j => c.items[i].line < c.items[j].line
    BY <1>5, <1>6 DEF OutlineOf
  <2>2. \A i \in 1..s : c.items[i].line \in 1..m
    BY <1>5, <1>6 DEF OutlineOf
  <2>3. ASSUME NEW i \in 1..s, NEW j \in 1..s, c.items[i].line = c.items[j].line PROVE i = j
    <3>1. ~(c.items[i].line < c.items[j].line) /\ ~(c.items[j].line < c.items[i].line)
      BY <2>2, <2>3
    <3>2. ~(i < j) /\ ~(j < i)
      BY <2>1, <3>1, Zenon
    <3>. QED
      BY <3>2
  <2>. QED
    BY <2>3
<1>11. c.items[h].line \in Nat
  BY <1>5, <1>6, <1>7 DEF OutlineOf
<1>12. \A j \in 1..Len(b.items) : b.items[j].line \in 1..(n + 1)
  BY <1>4 DEF OutlineOf
<1>13. ASSUME line.what = "open" PROVE n + 1 \in c.items[h].at <=> n + 1 = c.items[h].line
  <2>1. /\ Len(b.items) = t + 1 /\ b.items[t + 1] = Item(line, n + 1) /\ LooksOpen(line)
        /\ \A j \in 1..t : b.items[j].at = a.items[j].at
    BY <1>4, <1>6, <1>13 DEF Moves, Begins, LooksOpen
  <2>2. b.items[t + 1].line = n + 1 /\ b.items[t + 1].at = {n + 1}
    BY <2>1, ItemIs
  <2>3. t + 1 \in 1..s /\ t + 1 \in 1..Len(b.items) /\ \A j \in 1..t : j \in 1..Len(b.items)
    BY <1>6, <1>9, <2>1
  <2>4. c.items[t + 1].line = n + 1 /\ n + 1 \in c.items[t + 1].at
    BY <1>9, <2>2, <2>3 DEF Old
  <2>5. CASE h = t + 1
    BY <2>4, <2>5
  <2>6. CASE h # t + 1
    <3>1. c.items[h].line # n + 1
      BY <1>7, <1>10, <2>3, <2>4, <2>6
    <3>2. n + 1 \notin c.items[h].at
      <4>1. CASE h \in 1..t
        BY <1>8, <1>9, <2>1, <2>3, <4>1
      <4>2. CASE h \notin 1..t
        <5>1. h > t + 1
          BY <1>6, <1>7, <2>6, <4>2
        <5>. QED
          BY <1>7, <1>9, <2>1, <5>1
      <4>. QED
        BY <4>1, <4>2
    <3>. QED
      BY <3>1, <3>2
  <2>. QED
    BY <2>5, <2>6
<1>14. ASSUME line.what \in {"branch", "close"}
       PROVE  /\ Len(Reading(n).since) >= 1 /\ n + 1 # c.items[h].line
              /\ n + 1 \in c.items[h].at <=> Reading(n).since[Len(Reading(n).since)] = c.items[h].line
  <2>1. Occurrence(a, b, n + 1)
    BY <1>4, <1>14 DEF Moves, Notes, Ends
  <2>2. /\ r >= 1 /\ Len(b.items) = t
        /\ \A j \in 1..t : b.items[j].at = IF j = a.open[r] THEN a.items[j].at \cup {n + 1} ELSE a.items[j].at
        /\ \A j \in 1..t : Old(a.items[j], b.items[j])
    BY <1>6, <2>1 DEF Occurrence
  <2>3. r \in 1..r /\ r = Len(Reading(n).since)
    <3>1. r = Len(Reading(n).open) /\ Len(Reading(n).open) = Len(Reading(n).since)
      BY <1>4, <1>6 DEF InStep, ParseOf
    <3>. QED
      BY <2>2, <3>1
  <2>4. a.open[r] \in 1..t /\ a.items[a.open[r]].line = Reading(n).since[r]
    BY <1>4, <1>6, <2>3 DEF OutlineOf, InStep, ParseOf
  <2>5. a.open[r] \in 1..s /\ c.items[a.open[r]].line = Reading(n).since[r]
    <3>1. a.open[r] \in 1..s
      BY <1>9, <2>2, <2>4
    <3>. QED
      BY <1>9, <2>2, <2>4, <3>1 DEF Old
  <2>6. CASE h \in 1..t
    <3>1. n + 1 \in c.items[h].at <=> h = a.open[r]
      BY <1>8, <1>9, <2>2, <2>6
    <3>2. h = a.open[r] <=> Reading(n).since[r] = c.items[h].line
      BY <1>7, <1>10, <2>5
    <3>3. a.items[h].line \in 1..n
      BY <1>4, <1>6, <2>6 DEF OutlineOf
    <3>4. c.items[h].line = a.items[h].line
      BY <1>9, <2>2, <2>6 DEF Old
    <3>5. n + 1 # c.items[h].line
      BY <3>3, <3>4
    <3>. QED
      BY <2>2, <2>3, <3>1, <3>2, <3>5
  <2>7. CASE h \notin 1..t
    <3>1. h > Len(b.items)
      BY <1>7, <2>2, <2>7
    <3>2. n + 1 \notin c.items[h].at /\ c.items[h].line > n + 1
      BY <1>7, <1>9, <3>1
    <3>3. Reading(n).since[r] # c.items[h].line
      BY <1>7, <1>10, <2>4, <2>5, <2>7
    <3>. QED
      BY <1>11, <2>2, <2>3, <3>2, <3>3
  <2>. QED
    BY <2>6, <2>7
<1>. QED
  BY <1>2, <1>3, <1>13, <1>14

\* The SEP-local labels of the outermost block are of blocks that began in it.
UsedWithin(a, p) ==
  Len(p.open) >= 1 =>
    \A label \in p.open[1].used :
      \E j \in 1..Len(a.items) : a.items[j].label = label /\ a.items[j].line > p.since[1]

LEMMA FirstUses ==
  ASSUME NEW line \in AllLines, line.what = "open", Accepts(line, <<>>)
  PROVE  After(line, <<>>, {})[1].used = {}
<1>1. line.label \notin SepLocal
  BY DEF Accepts, MayPush, MayPush_Again
<1>2. After(line, <<>>, {}) = Append(<<>>, Block(line.kind, line.label, {}))
  BY <1>1 DEF After, Opened
<1>3. Append(<<>>, Block(line.kind, line.label, {}))[1] = Block(line.kind, line.label, {})
  OBVIOUS
<1>. QED
  BY <1>2, <1>3 DEF Block

LEMMA UsedStaysWithin ==
  ASSUME NEW n \in Nat, NEW a, OutlineOf(a, n), NEW p, ParseOf(p, n), UsedWithin(a, p),
         NEW line \in DocLines, NEW b, Moves(a, b, n + 1, line), NEW q, ParseOf(q, n + 1), q.ok, Takes(p, q, n + 1, line)
  PROVE  UsedWithin(b, q)
<1>1. SUFFICES ASSUME Len(q.open) >= 1, NEW label \in q.open[1].used
               PROVE \E j \in 1..Len(b.items) : b.items[j].label = label /\ b.items[j].line > q.since[1]
  BY DEF UsedWithin
<1>2. /\ p.ok /\ p.open \in Seq(BlockRecs) /\ Len(p.open) = Len(p.since) /\ Len(p.open) \in Nat
      /\ Len(q.open) = Len(q.since) /\ \A k \in 1..Len(p.since) : p.since[k] \in 1..n
      /\ Accepts(line, p.open) /\ q.open = After(line, p.open, {}) /\ line \in AllLines
  BY DocLineIs, ParseIs DEF ParseOf, Takes, Moves
<1>3. PICK t \in Nat, m \in Nat : t = Len(a.items) /\ m = Len(p.open)
  BY <1>2, OutlineIs DEF OutlineOf
<1>4. /\ Len(b.items) >= t /\ Len(b.items) \in Nat
      /\ \A j \in 1..t : b.items[j].label = a.items[j].label /\ b.items[j].line = a.items[j].line
  <2>1. CASE Begins(a, b, n + 1, line)
    <3>1. Len(b.items) = t + 1 /\ \A j \in 1..t : Old(a.items[j], b.items[j])
      BY <1>3, <2>1 DEF Begins
    <3>2. \A j \in 1..t : b.items[j].label = a.items[j].label /\ b.items[j].line = a.items[j].line
      BY <3>1 DEF Old
    <3>. QED
      BY <3>1, <3>2
  <2>2. CASE Notes(a, b, n + 1) \/ Ends(a, b, n + 1)
    <3>1. Occurrence(a, b, n + 1)
      BY <2>2 DEF Notes, Ends
    <3>2. Len(b.items) = t /\ \A j \in 1..t : Old(a.items[j], b.items[j])
      BY <1>3, <3>1 DEF Occurrence
    <3>3. \A j \in 1..t : b.items[j].label = a.items[j].label /\ b.items[j].line = a.items[j].line
      BY <3>2 DEF Old
    <3>. QED
      BY <3>2, <3>3
  <2>. QED
    BY <2>1, <2>2 DEF Moves
<1>5. ASSUME m >= 1, label \in p.open[1].used, q.since[1] = p.since[1]
      PROVE \E j \in 1..Len(b.items) : b.items[j].label = label /\ b.items[j].line > q.since[1]
  <2>1. PICK j \in 1..t : a.items[j].label = label /\ a.items[j].line > p.since[1]
    BY <1>3, <1>5 DEF UsedWithin
  <2>2. j \in 1..Len(b.items)
    BY <1>3, <1>4
  <2>. QED
    BY <1>4, <1>5, <2>1, <2>2
<1>6. CASE line.what = "open"
  <2>1. CASE m = 0
    <3>1. p.open = <<>>
      BY <1>2, <1>3, <2>1, EmptySeq
    <3>2. q.open[1].used = {}
      BY <1>2, <1>6, <3>1, FirstUses
    <3>. QED
      BY <1>1, <3>2
  <2>2. CASE m # 0
    <3>1. p.open # <<>> /\ 1 \in 1..m /\ m >= 1
      BY <1>2, <1>3, <2>2, EmptySeq
    <3>2. q.open[1].used = p.open[1].used \cup ({line.label} \cap SepLocal)
      BY <1>2, <1>6, <3>1, UsedAfter
    <3>3. q.since[1] = p.since[1] /\ p.since[1] \in 1..n
      BY <1>2, <1>3, <1>6, <3>1 DEF Takes
    <3>4. CASE label \in p.open[1].used
      BY <1>5, <3>1, <3>3, <3>4
    <3>5. CASE label = line.label
      <4>1. Len(b.items) = t + 1 /\ b.items[t + 1] = Item(line, n + 1) /\ LooksOpen(line)
        BY <1>3, <1>6 DEF Moves, Begins, LooksOpen
      <4>2. b.items[t + 1].label = label /\ b.items[t + 1].line = n + 1
        BY <3>5, <4>1, ItemIs
      <4>3. n + 1 > q.since[1] /\ t + 1 \in 1..Len(b.items)
        BY <3>3, <4>1
      <4>. QED
        BY <4>2, <4>3
    <3>. QED
      BY <1>1, <3>2, <3>4, <3>5
  <2>. QED
    BY <2>1, <2>2
<1>7. CASE line.what = "branch"
  <2>1. q.since = p.since /\ m >= 1
    BY <1>1, <1>2, <1>3, <1>7 DEF Takes
  <2>2. p.open # <<>>
    BY <1>2, <1>3, <2>1, EmptySeq
  <2>3. q.open[1].used = p.open[1].used
    BY <1>2, <1>7, <2>2, UsedAfter
  <2>. QED
    BY <1>1, <1>5, <2>1, <2>3
<1>8. CASE line.what = "close"
  <2>1. Len(p.since) >= 1 /\ Len(q.since) = Len(p.since) - 1 /\ \A k \in 1..(Len(p.since) - 1) : q.since[k] = p.since[k]
    BY <1>8 DEF Takes
  <2>2. m > 1 /\ 1 \in 1..(m - 1)
    BY <1>1, <1>2, <1>3, <2>1
  <2>3. p.open # <<>>
    BY <1>2, <1>3, <2>2, EmptySeq
  <2>4. q.open[1].used = p.open[1].used
    BY <1>2, <1>3, <1>8, <2>2, <2>3, UsedAfter
  <2>5. q.since[1] = p.since[1]
    BY <1>2, <1>3, <2>1, <2>2
  <2>. QED
    BY <1>1, <1>5, <2>2, <2>4, <2>5
<1>. QED
  BY <1>6, <1>7, <1>8 DEF Moves

LEMMA UsedInside ==
  ASSUME Whole, NEW n \in 0..Len(doc)
  PROVE  UsedWithin(Outline(n), Reading(n))
<1>. DEFINE Proven(i) == UsedWithin(Outline(i), Reading(i))
            Wrong == {i \in 0..Len(doc) : ~Proven(i)}
<1>1. PICK m \in Nat : m = Len(doc)
  BY WholeIs
<1>2. Proven(0)
  <2>1. Reading(0) = [ok |-> TRUE, open |-> <<>>, since |-> <<>>, nodes |-> {}]
    BY <1>1, ParsesIs DEF Reading
  <2>2. Len(Reading(0).open) = 0
    BY <2>1
  <2>. QED
    BY <2>2 DEF UsedWithin
<1>3. ASSUME NEW i \in Nat, i + 1 \in 1..m, Proven(i) PROVE Proven(i + 1)
  <2>1. i \in 0..m /\ i + 1 \in 0..m /\ (i + 1) - 1 = i
    BY <1>1, <1>3
  <2>2. /\ OutlineOf(Outline(i), i) /\ ParseOf(Reading(i), i) /\ ParseOf(Reading(i + 1), i + 1) /\ Reading(i + 1).ok
        /\ Moves(Outline(i), Outline(i + 1), i + 1, doc[i + 1]) /\ Takes(Reading(i), Reading(i + 1), i + 1, doc[i + 1])
        /\ doc[i + 1] \in DocLines
    BY <1>1, <1>3, <2>1, WholeIs
  <2>. QED
    BY <1>3, <2>2, UsedStaysWithin
<1>4. Wrong = {}
  <2>1. SUFFICES ASSUME Wrong # {} PROVE FALSE
    OBVIOUS
  <2>2. PICK i \in Wrong : \A k \in Wrong : i <= k
    <3>1. Wrong \in SUBSET Nat
      OBVIOUS
    <3>. HIDE DEF Wrong
    <3>. QED
      BY <2>1, <3>1, LeastNatural
  <2>. HIDE DEF Proven
  <2>3. i \in 0..m /\ ~Proven(i) /\ i # 0
    BY <1>1, <1>2, <2>2
  <2>4. PICK k \in Nat : i = k + 1 /\ k + 1 \in 1..m /\ k \in 0..m /\ ~(i <= k)
    <3>1. i - 1 \in Nat /\ i = (i - 1) + 1 /\ (i - 1) + 1 \in 1..m /\ i - 1 \in 0..m /\ ~(i <= i - 1)
      BY <1>1, <2>3
    <3>. QED
      BY <3>1
  <2>5. Proven(k)
    BY <1>1, <2>2, <2>4
  <2>. QED
    BY <1>3, <2>3, <2>4, <2>5
<1>. QED
  BY <1>4

\* Where a block begins; what is open; what is in the outermost block.
LEMMA NewBlock ==
  ASSUME Whole, NEW n \in Nat, n + 1 \in 1..Len(doc), doc[n + 1].what = "open"
  PROVE  \E j \in 1..Len(Finally.items) :
           /\ Finally.items[j].line = n + 1 /\ Finally.items[j].label = doc[n + 1].label
           /\ \A k \in 1..Len(Outline(n).open) : Finally.items[j].end < Finally.items[Outline(n).open[k]].end
<1>1. PICK m \in Nat : m = Len(doc) /\ n \in 0..m /\ n + 1 \in 0..m /\ (n + 1) - 1 = n
  <2>1. Len(doc) \in Nat
    BY WholeIs
  <2>. QED
    BY <2>1
<1>2. PICK a, b : a = Outline(n) /\ b = Outline(n + 1)
  OBVIOUS
<1>3. PICK line \in DocLines : line = doc[n + 1] /\ line.what = "open" /\ LooksOpen(line)
  BY WholeIs DEF LooksOpen
<1>4. OutlineOf(a, n) /\ Begins(a, b, n + 1, line)
  BY <1>1, <1>2, <1>3, WholeIs DEF Moves
<1>5. PICK r \in Nat, t \in Nat : r = Len(a.open) /\ t = Len(a.items)
  BY <1>4, OutlineIs DEF OutlineOf
<1>6. /\ Len(b.open) = r + 1 /\ b.open[r + 1] = t + 1 /\ \A k \in 1..r : b.open[k] = a.open[k]
      /\ b.items[t + 1] = Item(line, n + 1)
  BY <1>4, <1>5 DEF Begins
<1>7. b.items[t + 1].line = n + 1 /\ b.items[t + 1].label = line.label
  BY <1>3, <1>6, ItemIs
<1>8. r + 1 \in 1..(r + 1) /\ \A k \in 1..r : k \in 1..(r + 1) /\ k < r + 1
  OBVIOUS
<1>9. t + 1 \in 1..Len(Finally.items) /\ Old(b.items[t + 1], Finally.items[t + 1])
  BY <1>1, <1>2, <1>6, <1>8, EndsLater
<1>10. ASSUME NEW k \in 1..r PROVE Finally.items[t + 1].end < Finally.items[a.open[k]].end
  <2>1. \A i, j \in 1..(r + 1) : i < j => Finally.items[b.open[j]].end < Finally.items[b.open[i]].end
    BY <1>1, <1>2, <1>6, Nested
  <2>2. Finally.items[b.open[r + 1]].end < Finally.items[b.open[k]].end
    BY <1>8, <2>1, Zenon
  <2>. QED
    BY <1>6, <2>2
<1>. QED
  BY <1>2, <1>3, <1>5, <1>7, <1>9, <1>10 DEF Old

LEMMA OpenWhile ==
  ASSUME Whole, NEW n \in 0..Len(doc), NEW j \in 1..Len(Finally.items), Finally.items[j].line <= n, Finally.items[j].end > n
  PROVE  \E k \in 1..Len(Outline(n).open) : Outline(n).open[k] = j
<1>1. OutlineOf(Outline(n), n) /\ Remembers(Outline(n), Finally, n) /\ Finally \in Outlines
  BY WholeIs, FinallyRemembers
<1>2. Finally.items[j] \in Items /\ Finally.items[j].line \in Nat
  <2>1. Finally.items[j] \in Items
    BY <1>1, OutlineIs
  <2>. QED
    BY <2>1 DEF Items
<1>3. PICK t \in Nat : t = Len(Outline(n).items)
  BY <1>1, OutlineIs DEF OutlineOf
<1>4. n \in Nat
  <2>1. Len(doc) \in Nat
    BY WholeIs
  <2>. QED
    BY <2>1
<1>5. j \in 1..t
  <2>1. ~(j > t)
    BY <1>1, <1>2, <1>3, <1>4 DEF Remembers
  <2>. QED
    BY <1>3, <2>1
<1>6. Outline(n).items[j].end = 0
  <2>1. Outline(n).items[j].end \in 0..n
    BY <1>1, <1>3, <1>5 DEF OutlineOf
  <2>2. Outline(n).items[j].end # 0 => Finally.items[j].end = Outline(n).items[j].end
    BY <1>1, <1>3, <1>5 DEF Remembers
  <2>. QED
    BY <1>4, <2>1, <2>2
<1>. QED
  BY <1>1, <1>3, <1>5, <1>6 DEF OutlineOf

LEMMA EndsNat ==
  ASSUME Whole, NEW j \in 1..Len(Finally.items)
  PROVE  /\ Finally.items[j].line \in 1..Len(doc) /\ Finally.items[j].end \in 1..Len(doc)
         /\ Finally.items[j].line < Finally.items[j].end
         /\ Closing(Finally.items[j]) \in Parsed(doc).nodes
<1>1. PICK m \in Nat : m = Len(doc) /\ m \in 0..m
  <2>1. Len(doc) \in Nat
    BY WholeIs
  <2>. QED
    BY <2>1
<1>2. /\ OutlineOf(Finally, m) /\ InStep(Finally, Reading(m)) /\ ParseOf(Reading(m), m) /\ Reading(m).ok
      /\ Len(Finally.open) = 0 /\ Parsed(doc) = Reading(m)
  BY <1>1, WholeIs, EmptySeq DEF Finally
<1>3. Finally.items[j].end # 0
  BY <1>2 DEF OutlineOf
<1>4. Closing(Finally.items[j]) \in Parsed(doc).nodes
  BY <1>2, <1>3 DEF InStep
<1>5. /\ Closing(Finally.items[j]).line \in 1..m /\ Closing(Finally.items[j]).end \in 1..m
      /\ Closing(Finally.items[j]).line < Closing(Finally.items[j]).end
  BY <1>2, <1>4 DEF ParseOf
<1>. QED
  BY <1>1, <1>4, <1>5 DEF Closing

LEMMA InFirst ==
  ASSUME Whole, NEW n \in 0..Len(doc), Len(Outline(n).open) >= 1, NEW j \in 1..Len(Finally.items),
         Finally.items[j].line <= n, Finally.items[j].line > Reading(n).since[1]
  PROVE  Finally.items[j].end < Finally.items[Outline(n).open[1]].end
<1>1. PICK r \in Nat : r = Len(Outline(n).open) /\ 1 \in 1..r
  <2>1. OutlineOf(Outline(n), n)
    BY WholeIs
  <2>2. Len(Outline(n).open) \in Nat
    BY <2>1, OutlineIs DEF OutlineOf
  <2>. QED
    BY <2>2
<1>2. PICK s \in 1..Len(Finally.items) : s = Outline(n).open[1] /\ Finally.items[s].end > n /\ Finally.items[s].line = Reading(n).since[1]
  BY <1>1, EndsLater
<1>3. Finally.items[j].line \in Nat /\ Finally.items[j].end \in Nat /\ Finally.items[s].end \in Nat /\ Finally.items[s].line \in Nat /\ n \in Nat
  <2>1. Len(doc) \in Nat
    BY WholeIs
  <2>2. /\ Finally.items[j].line \in 1..Len(doc) /\ Finally.items[j].end \in 1..Len(doc)
        /\ Finally.items[s].end \in 1..Len(doc) /\ Finally.items[s].line \in 1..Len(doc)
    BY EndsNat
  <2>. QED
    BY <2>1, <2>2
<1>4. CASE Finally.items[j].end <= n
  BY <1>2, <1>3, <1>4
<1>5. CASE Finally.items[j].end > n
  <2>1. PICK k \in 1..r : Outline(n).open[k] = j
    BY <1>1, <1>5, OpenWhile
  <2>2. j # s
    BY <1>2, <1>3
  <2>3. 1 < k
    BY <1>1, <1>2, <2>1, <2>2
  <2>4. Finally.items[Outline(n).open[k]].end < Finally.items[Outline(n).open[1]].end
    BY <1>1, <2>3, Nested
  <2>. QED
    BY <2>1, <2>4
<1>. QED
  BY <1>3, <1>4, <1>5

\* A label that no block around a block or in it has, nor, of the form _1_, any of its SEP.
Around(i, j) == Finally.items[i].line < Finally.items[j].line /\ Finally.items[i].end > Finally.items[j].end
IsFree(h, label) ==
  /\ \A j \in 1..Len(Finally.items) : Around(j, h) \/ Around(h, j) => Finally.items[j].label # label
  /\ label \in SepLocal =>
       /\ \E s \in 1..Len(Finally.items) : Finally.items[s].kind = "SEP" /\ (Around(s, h) \/ Around(h, s))
       /\ \A s, j \in 1..Len(Finally.items) :
            Finally.items[s].kind = "SEP" /\ (Around(s, h) \/ Around(h, s)) /\ Around(s, j) => Finally.items[j].label # label

LEMMA FreeMeans ==
  ASSUME Whole, NEW h \in 1..Len(Finally.items), NEW label, FreeLabel(Finally.items[h], label)
  PROVE  IsFree(h, label)
<1>. DEFINE item    == Finally.items[h]
            related == {i \in Parsed(doc).nodes : (i.line < item.line /\ i.end > item.end) \/ (i.line > item.line /\ i.end < item.end)}
            sep     == {i \in related : i.kind = "SEP"}
<1>1. /\ label \notin {i.label : i \in related}
      /\ label \in SepLocal =>
           sep # {} /\ \A s \in sep : \A i \in Parsed(doc).nodes : i.line > s.line /\ i.end < s.end => i.label # label
  BY DEF FreeLabel
<1>2. \A j \in 1..Len(Finally.items) :
        /\ Closing(Finally.items[j]) \in Parsed(doc).nodes
        /\ Finally.items[j].line \in Nat /\ Finally.items[j].end \in Nat
  BY EndsNat
<1>3. \A j : /\ Closing(Finally.items[j]).line = Finally.items[j].line /\ Closing(Finally.items[j]).end = Finally.items[j].end
             /\ Closing(Finally.items[j]).kind = Finally.items[j].kind /\ Closing(Finally.items[j]).label = Finally.items[j].label
  BY DEF Closing
<1>4. \A i, j \in 1..Len(Finally.items) :
        Around(i, j) <=> /\ Finally.items[j].line > Finally.items[i].line /\ Finally.items[j].end < Finally.items[i].end
  BY <1>2 DEF Around
<1>5. ASSUME NEW j \in 1..Len(Finally.items), Around(j, h) \/ Around(h, j)
      PROVE  Closing(Finally.items[j]) \in related
  <2>1. (Finally.items[j].line < item.line /\ Finally.items[j].end > item.end) \/ (Finally.items[j].line > item.line /\ Finally.items[j].end < item.end)
    BY <1>4, <1>5 DEF Around
  <2>. QED
    BY <1>2, <1>3, <2>1
<1>6. ASSUME NEW j \in 1..Len(Finally.items), Around(j, h) \/ Around(h, j) PROVE Finally.items[j].label # label
  BY <1>1, <1>3, <1>5, <1>6
<1>7. ASSUME label \in SepLocal
      PROVE  \E s \in 1..Len(Finally.items) : Finally.items[s].kind = "SEP" /\ (Around(s, h) \/ Around(h, s))
  <2>1. PICK x \in Parsed(doc).nodes : x \in sep
    BY <1>1, <1>7
  <2>2. PICK s \in 1..Len(Finally.items) : x = Closing(Finally.items[s])
    <3>1. Len(doc) \in Nat
      BY WholeIs
    <3>2. Len(doc) \in 0..Len(doc)
      BY <3>1
    <3>3. InStep(Finally, Reading(Len(doc))) /\ Parsed(doc) = Reading(Len(doc))
      BY <3>2, WholeIs DEF Finally
    <3>. QED
      BY <2>1, <3>3 DEF InStep
  <2>. QED
    BY <1>3, <1>4, <2>1, <2>2 DEF Around
<1>8. ASSUME label \in SepLocal, NEW s \in 1..Len(Finally.items), NEW j \in 1..Len(Finally.items),
             Finally.items[s].kind = "SEP", Around(s, h) \/ Around(h, s), Around(s, j)
      PROVE  Finally.items[j].label # label
  <2>1. Closing(Finally.items[s]) \in sep
    BY <1>3, <1>5, <1>8
  <2>2. Closing(Finally.items[j]).line > Closing(Finally.items[s]).line /\ Closing(Finally.items[j]).end < Closing(Finally.items[s]).end
    BY <1>3, <1>4, <1>8
  <2>. HIDE DEF sep
  <2>3. Closing(Finally.items[j]).label # label
    BY <1>1, <1>2, <1>8, <2>1, <2>2
  <2>. QED
    BY <1>3, <2>3
<1>. QED
  BY <1>6, <1>7, <1>8 DEF IsFree

LEMMA LinesDiffer ==
  ASSUME Whole
  PROVE  \A i, j \in 1..Len(Finally.items) : Finally.items[i].line = Finally.items[j].line => i = j
<1>1. OutlineOf(Finally, Len(doc))
  <2>1. Len(doc) \in Nat
    BY WholeIs
  <2>2. Len(doc) \in 0..Len(doc)
    BY <2>1
  <2>. QED
    BY <2>2, WholeIs DEF Finally
<1>2. PICK t \in Nat, m \in Nat : t = Len(Finally.items) /\ m = Len(doc)
  BY <1>1, WholeIs, OutlineIs DEF OutlineOf
<1>3. \A i, j \in 1..t : i < j => Finally.items[i].line < Finally.items[j].line
  BY <1>1, <1>2 DEF OutlineOf
<1>4. \A i \in 1..t : Finally.items[i].line \in 1..m
  BY <1>1, <1>2 DEF OutlineOf
<1>5. ASSUME NEW i \in 1..t, NEW j \in 1..t, Finally.items[i].line = Finally.items[j].line PROVE i = j
  <2>1. ~(Finally.items[i].line < Finally.items[j].line) /\ ~(Finally.items[j].line < Finally.items[i].line)
    BY <1>4, <1>5
  <2>2. ~(i < j) /\ ~(j < i)
    BY <1>3, <2>1, Zenon
  <2>. QED
    BY <2>2
<1>. QED
  BY <1>2, <1>5

\* The document with the label of the block h renamed.
Renamed(h, label) == LabelEdits(Finally.items[h], label)

LEMMA RenamedIs ==
  ASSUME Whole, NEW h \in 1..Len(Finally.items), NEW label \in Labels
  PROVE  /\ Renamed(h, label) \in Seq(DocLines) /\ Len(Renamed(h, label)) = Len(doc)
         /\ \A n \in 1..Len(doc) :
              /\ Renamed(h, label)[n] \in DocLines /\ Renamed(h, label)[n] \in AllLines
              /\ Renamed(h, label)[n].what = doc[n].what /\ Renamed(h, label)[n].kind = doc[n].kind
              /\ Renamed(h, label)[n].label = IF n \in Finally.items[h].at THEN label ELSE doc[n].label
<1>. DEFINE at   == Finally.items[h].at
            R(n) == IF n \in at THEN [doc[n] EXCEPT !.label = label] ELSE doc[n]
<1>1. PICK m \in Nat : m = Len(doc) /\ DOMAIN doc = 1..m
  BY WholeIs
<1>2. Renamed(h, label) = [n \in 1..m |-> R(n)]
  BY <1>1 DEF Renamed, LabelEdits
<1>3. ASSUME NEW n \in 1..m
      PROVE  /\ R(n) \in DocLines /\ R(n) \in AllLines /\ R(n).what = doc[n].what /\ R(n).kind = doc[n].kind
             /\ R(n).label = IF n \in at THEN label ELSE doc[n].label
  <2>1. doc[n] \in DocLines /\ doc[n] # TypedLine
    BY <1>1, WholeIs DEF Whole, Typed
  <2>2. CASE doc[n] \in Openers
    <3>1. PICK kind \in Kinds, old \in Labels : doc[n] = Line("open", kind, old)
      BY <2>2 DEF Openers
    <3>2. [doc[n] EXCEPT !.label = label] = Line("open", kind, label)
      BY <3>1 DEF Line
    <3>3. Line("open", kind, label) \in Openers
      BY DEF Openers
    <3>. QED
      BY <2>2, <3>1, <3>2, <3>3 DEF DocLines, AllLines, Line
  <2>3. CASE doc[n] \in Closers
    <3>1. PICK kind \in Kinds, old \in Labels : doc[n] = Line("close", kind, old)
      BY <2>3 DEF Closers
    <3>2. [doc[n] EXCEPT !.label = label] = Line("close", kind, label)
      BY <3>1 DEF Line
    <3>3. Line("close", kind, label) \in Closers
      BY DEF Closers
    <3>. QED
      BY <2>3, <3>1, <3>2, <3>3 DEF DocLines, AllLines, Line
  <2>4. CASE doc[n] \in BranchLines
    <3>1. PICK kind \in Branches, old \in Labels : doc[n] = Line("branch", kind, old)
      BY <2>4 DEF BranchLines
    <3>2. [doc[n] EXCEPT !.label = label] = Line("branch", kind, label)
      BY <3>1 DEF Line
    <3>3. Line("branch", kind, label) \in BranchLines
      BY DEF BranchLines
    <3>. QED
      BY <2>4, <3>1, <3>2, <3>3 DEF DocLines, AllLines, Line
  <2>. QED
    BY <2>1, <2>2, <2>3, <2>4 DEF DocLines
<1>4. PICK lines : lines = Renamed(h, label)
  OBVIOUS
<1>5. DOMAIN lines = 1..m /\ \A n \in 1..m : lines[n] = R(n)
  BY <1>2, <1>4
<1>6. lines \in Seq(DocLines) /\ Len(lines) = m
  <2>1. lines = [n \in 1..m |-> lines[n]] /\ \A n \in 1..m : lines[n] \in DocLines
    <3>. HIDE DEF R
    <3>. QED
      BY <1>2, <1>3, <1>4
  <2>2. lines \in [1..m -> DocLines]
    BY <2>1
  <2>. QED
    BY <2>2
<1>. HIDE DEF R
<1>. QED
  BY <1>1, <1>3, <1>4, <1>5, <1>6

\* The parser's states after the same lines of both: the block h has the new label, and a
\* SEP-local label is used that was not.
Locked(h, label, n, p, q) ==
  LET line == Finally.items[h].line
  IN  /\ q.open \in Seq(BlockRecs) /\ Len(q.open) = Len(p.open)
      /\ \A k \in 1..Len(p.open) :
           /\ q.open[k].kind = p.open[k].kind /\ q.open[k].branch = p.open[k].branch /\ q.open[k].seen = p.open[k].seen
           /\ q.open[k].label = IF p.since[k] = line THEN label ELSE p.open[k].label
      /\ Len(p.open) >= 1 =>
           q.open[1].used \subseteq p.open[1].used \cup (IF p.since[1] < line /\ line <= n THEN {label} ELSE {})

LEMMA ReadingIs ==
  ASSUME Whole, NEW n \in Nat, n + 1 \in 1..Len(doc)
  PROVE  /\ Len(doc) \in Nat /\ n \in 0..Len(doc) /\ n + 1 \in 0..Len(doc) /\ (n + 1) - 1 = n
         /\ Reading(n).open \in Seq(BlockRecs) /\ Len(Reading(n).open) \in Nat
         /\ Len(Reading(n).since) = Len(Reading(n).open) /\ Len(Outline(n).open) = Len(Reading(n).open)
         /\ \A k \in 1..Len(Reading(n).open) : Reading(n).since[k] \in 1..n
         /\ \A j, k \in 1..Len(Reading(n).open) : j < k => Reading(n).since[j] < Reading(n).since[k]
         /\ Rooted(Reading(n).open)
         /\ Takes(Reading(n), Reading(n + 1), n + 1, doc[n + 1]) /\ Accepts(doc[n + 1], Reading(n).open)
         /\ doc[n + 1] \in AllLines /\ doc[n + 1] \in DocLines /\ doc[n + 1].what \in {"open", "branch", "close"}
<1>1. Len(doc) \in Nat /\ n \in 0..Len(doc) /\ n + 1 \in 0..Len(doc) /\ (n + 1) - 1 = n
  <2>1. Len(doc) \in Nat
    BY WholeIs
  <2>. QED
    BY <2>1
<1>2. /\ ParseOf(Reading(n), n) /\ Reading(n).ok /\ InStep(Outline(n), Reading(n))
      /\ Takes(Reading(n), Reading(n + 1), n + 1, doc[n + 1]) /\ doc[n + 1] \in DocLines
  BY <1>1, WholeIs
<1>3. doc[n + 1] # TypedLine
  BY WholeIs DEF Whole, Typed
<1>4. doc[n + 1] \in AllLines /\ doc[n + 1].what \in {"open", "branch", "close"}
  BY <1>2, <1>3, DocLineIs
<1>5. Reading(n) \in ParseStates
  BY <1>2 DEF ParseOf
<1>6. Reading(n).open \in Seq(BlockRecs) /\ Len(Reading(n).open) \in Nat
  BY <1>5, ParseIs
<1>7. Accepts(doc[n + 1], Reading(n).open)
  BY <1>2 DEF Takes
<1>. QED
  BY <1>1, <1>2, <1>4, <1>6, <1>7 DEF ParseOf, InStep

\* Another block that begins does not have the new label where it is known; ...
LEMMA NotRepeated ==
  ASSUME Whole, NEW h \in 1..Len(Finally.items), NEW label \in Labels, IsFree(h, label),
         NEW n \in Nat, n + 1 \in 1..Len(doc), doc[n + 1].what = "open", n + 1 # Finally.items[h].line,
         NEW q, Locked(h, label, n, Reading(n), q)
  PROVE  /\ \A k \in 1..Len(q.open) : q.open[k].label # doc[n + 1].label
         /\ doc[n + 1].label \in SepLocal => /\ Len(q.open) >= 1 /\ q.open[1].kind = "SEP"
                                             /\ doc[n + 1].label \notin q.open[1].used
<1>1. PICK p, line, own : p = Reading(n) /\ line = Finally.items[h].line /\ own = doc[n + 1].label
  OBVIOUS
<1>2. PICK m \in Nat : /\ m = Len(p.open) /\ m = Len(p.since) /\ m = Len(Outline(n).open) /\ m = Len(q.open) /\ n \in 0..Len(doc)
                       /\ p.open \in Seq(BlockRecs) /\ Accepts(doc[n + 1], p.open)
                       /\ \A k \in 1..m : p.since[k] \in 1..n
  BY <1>1, ReadingIs DEF Locked
<1>3. /\ \A k \in 1..m : q.open[k].label = IF p.since[k] = line THEN label ELSE p.open[k].label
      /\ \A k \in 1..m : q.open[k].kind = p.open[k].kind
      /\ m >= 1 => q.open[1].used \subseteq p.open[1].used \cup (IF p.since[1] < line /\ line <= n THEN {label} ELSE {})
  BY <1>1, <1>2 DEF Locked
<1>4. /\ \A k \in 1..m : p.open[k].label # own
      /\ own \in SepLocal => m >= 1 /\ p.open[1].kind = "SEP" /\ own \notin p.open[1].used
  <2>1. own \notin LabelsOf(p.open) /\ (own \in SepLocal => p.open # <<>> /\ p.open[1].kind = "SEP" /\ own \notin p.open[1].used)
    BY <1>1, <1>2 DEF Accepts, MayPush, MayPush_Again
  <2>2. own \notin LabelsOf(p.open) <=> \A k \in 1..Len(p.open) : p.open[k].label # own
    BY <1>2, TopIs
  <2>3. p.open # <<>> <=> Len(p.open) >= 1
    BY <1>2, TopIs
  <2>. QED
    BY <1>2, <2>1, <2>2, <2>3
<1>5. PICK j \in 1..Len(Finally.items) :
        /\ Finally.items[j].line = n + 1 /\ Finally.items[j].label = own
        /\ \A k \in 1..m : Finally.items[j].end < Finally.items[Outline(n).open[k]].end
  BY <1>1, <1>2, NewBlock
<1>6. ASSUME NEW k \in 1..m
      PROVE  /\ Outline(n).open[k] \in 1..Len(Finally.items) /\ Finally.items[Outline(n).open[k]].line = p.since[k]
             /\ Finally.items[Outline(n).open[k]].kind = p.open[k].kind
  BY <1>1, <1>2, EndsLater
<1>7. \A i \in 1..Len(Finally.items) : Finally.items[i].end \in Nat /\ Finally.items[i].line \in Nat
  BY EndsNat
<1>8. ASSUME NEW k \in 1..m PROVE q.open[k].label # own
  <2>1. CASE p.since[k] = line
    <3>1. Outline(n).open[k] = h
      <4>1. Outline(n).open[k] \in 1..Len(Finally.items) /\ Finally.items[Outline(n).open[k]].line = Finally.items[h].line
        BY <1>1, <1>6, <2>1
      <4>. QED
        BY <4>1, LinesDiffer
    <3>2. Around(h, j)
      <4>1. Finally.items[h].line < n + 1
        BY <1>1, <1>2, <2>1
      <4>2. Finally.items[j].end < Finally.items[h].end
        BY <1>5, <3>1
      <4>. QED
        BY <1>5, <1>7, <4>1, <4>2 DEF Around
    <3>3. own # label
      BY <1>5, <3>2 DEF IsFree
    <3>. QED
      BY <1>3, <2>1, <3>3
  <2>2. CASE p.since[k] # line
    BY <1>3, <1>4, <2>2
  <2>. QED
    BY <2>1, <2>2
<1>9. ASSUME own \in SepLocal PROVE m >= 1 /\ q.open[1].kind = "SEP" /\ own \notin q.open[1].used
  <2>1. m >= 1 /\ 1 \in 1..m
    BY <1>4, <1>9
  <2>2. q.open[1].kind = "SEP" /\ p.open[1].kind = "SEP"
    BY <1>3, <1>4, <1>9, <2>1
  <2>3. ASSUME p.since[1] < line, line <= n, own = label PROVE FALSE
    <3>1. PICK s \in 1..Len(Finally.items) : /\ s = Outline(n).open[1] /\ Finally.items[s].line = p.since[1]
                                             /\ Finally.items[s].kind = "SEP"
      BY <1>6, <2>1, <2>2
    <3>2. Around(s, h)
      <4>1. Finally.items[h].line > Reading(n).since[1]
        BY <1>1, <1>2, <1>7, <2>1, <2>3
      <4>2. Finally.items[h].end < Finally.items[s].end
        BY <1>1, <1>2, <2>1, <2>3, <3>1, <4>1, InFirst
      <4>. QED
        BY <1>1, <1>7, <2>3, <3>1, <4>2 DEF Around
    <3>3. Around(s, j)
      <4>1. p.since[1] < n + 1
        BY <1>2, <2>1
      <4>2. Finally.items[j].end < Finally.items[s].end
        BY <1>5, <2>1, <3>1
      <4>. QED
        BY <1>5, <1>7, <3>1, <4>1, <4>2 DEF Around
    <3>4. Finally.items[j].label # label
      BY <1>9, <2>3, <3>1, <3>2, <3>3 DEF IsFree
    <3>. QED
      BY <1>5, <2>3, <3>4
  <2>. QED
    BY <1>3, <1>4, <1>9, <2>1, <2>2, <2>3
<1>. QED
  BY <1>1, <1>2, <1>8, <1>9

\* ... nor does one that is open where the renamed block begins, or that began in its SEP.
LEMMA FitsThere ==
  ASSUME Whole, NEW h \in 1..Len(Finally.items), NEW label \in Labels, IsFree(h, label),
         NEW n \in Nat, n + 1 \in 1..Len(doc), doc[n + 1].what = "open", n + 1 = Finally.items[h].line,
         NEW q, Locked(h, label, n, Reading(n), q)
  PROVE  /\ \A k \in 1..Len(q.open) : q.open[k].label # label
         /\ label \in SepLocal => /\ Len(q.open) >= 1 /\ q.open[1].kind = "SEP" /\ label \notin q.open[1].used
<1>1. PICK p, line : p = Reading(n) /\ line = Finally.items[h].line /\ line = n + 1
  OBVIOUS
<1>2. PICK m \in Nat : /\ m = Len(p.open) /\ m = Len(p.since) /\ m = Len(Outline(n).open) /\ m = Len(q.open) /\ n \in 0..Len(doc)
                       /\ p.open \in Seq(BlockRecs)
                       /\ \A k \in 1..m : p.since[k] \in 1..n
  BY <1>1, ReadingIs DEF Locked
<1>3. /\ \A k \in 1..m : q.open[k].label = IF p.since[k] = line THEN label ELSE p.open[k].label
      /\ \A k \in 1..m : q.open[k].kind = p.open[k].kind
      /\ m >= 1 => q.open[1].used \subseteq p.open[1].used \cup (IF p.since[1] < line /\ line <= n THEN {label} ELSE {})
  BY <1>1, <1>2 DEF Locked
<1>4. PICK j \in 1..Len(Finally.items) :
        /\ Finally.items[j].line = n + 1
        /\ \A k \in 1..m : Finally.items[j].end < Finally.items[Outline(n).open[k]].end
  BY <1>2, NewBlock
<1>5. j = h
  BY <1>1, <1>4, LinesDiffer
<1>6. ASSUME NEW k \in 1..m
      PROVE  /\ Outline(n).open[k] \in 1..Len(Finally.items) /\ Finally.items[Outline(n).open[k]].line = p.since[k]
             /\ Finally.items[Outline(n).open[k]].kind = p.open[k].kind /\ Finally.items[Outline(n).open[k]].label = p.open[k].label
             /\ Finally.items[Outline(n).open[k]].end > n
  BY <1>1, <1>2, EndsLater
<1>7. \A i \in 1..Len(Finally.items) :
        Finally.items[i].end \in Nat /\ Finally.items[i].line \in Nat /\ Finally.items[i].line < Finally.items[i].end
  BY EndsNat
<1>8. ASSUME NEW k \in 1..m PROVE Around(Outline(n).open[k], h) /\ q.open[k].label # label
  <2>1. p.since[k] < n + 1 /\ p.since[k] # line
    BY <1>1, <1>2
  <2>2. Around(Outline(n).open[k], h)
    BY <1>1, <1>4, <1>5, <1>6, <1>7, <2>1 DEF Around
  <2>3. p.open[k].label # label
    BY <1>6, <2>2 DEF IsFree
  <2>. QED
    BY <1>3, <2>1, <2>2, <2>3
<1>9. ASSUME label \in SepLocal PROVE m >= 1 /\ q.open[1].kind = "SEP" /\ label \notin q.open[1].used
  <2>1. PICK s \in 1..Len(Finally.items) : Finally.items[s].kind = "SEP" /\ (Around(s, h) \/ Around(h, s))
    BY <1>9 DEF IsFree
  <2>2. CASE Around(s, h)
    <3>1. Finally.items[s].line <= n /\ Finally.items[s].end > n
      <4>1. Finally.items[s].line < line /\ Finally.items[s].end > Finally.items[h].end
        BY <1>1, <2>2 DEF Around
      <4>2. Finally.items[s].line \in Nat /\ Finally.items[s].end \in Nat /\ Finally.items[h].end \in Nat
        BY <1>7
      <4>3. line < Finally.items[h].end
        BY <1>1, <1>7
      <4>4. line = n + 1
        BY <1>1
      <4>. QED
        BY <4>1, <4>2, <4>3, <4>4
    <3>2. PICK k \in 1..m : Outline(n).open[k] = s
      BY <1>2, <3>1, OpenWhile
    <3>3. k = 1
      <4>1. p.open[k].kind = "SEP"
        BY <1>6, <2>1, <3>2
      <4>2. \A i \in 1..Len(p.open) : p.open[i].kind \in {"SEP", "http_route"} => i = 1
        BY <1>1, ReadingIs DEF Rooted
      <4>3. k \in 1..Len(p.open)
        BY <1>2
      <4>. QED
        BY <4>1, <4>2, <4>3
    <3>4. m >= 1 /\ q.open[1].kind = "SEP" /\ 1 \in 1..m
      <4>1. 1 \in 1..m /\ m >= 1
        BY <1>2, <3>3
      <4>2. p.open[1].kind = "SEP"
        BY <1>6, <2>1, <3>2, <3>3
      <4>. QED
        BY <1>3, <4>1, <4>2
    <3>5. ASSUME label \in p.open[1].used PROVE FALSE
      <4>1. UsedWithin(Outline(n), p)
        BY <1>1, <1>2, UsedInside
      <4>2. PICK i \in 1..Len(Outline(n).items) : Outline(n).items[i].label = label /\ Outline(n).items[i].line > p.since[1]
        BY <1>2, <3>4, <3>5, <4>1 DEF UsedWithin
      <4>3. OutlineOf(Outline(n), n) /\ Remembers(Outline(n), Finally, n) /\ Finally \in Outlines
        BY <1>2, WholeIs, FinallyRemembers
      <4>4. i \in 1..Len(Finally.items)
        BY <4>2, <4>3, OutlineIs DEF Remembers, OutlineOf
      <4>5. Old(Outline(n).items[i], Finally.items[i])
        BY <4>2, <4>3 DEF Remembers
      <4>6. Finally.items[i].label = label /\ Finally.items[i].line > p.since[1] /\ Finally.items[i].line <= n
        <5>1. Outline(n).items[i].line \in 1..n
          BY <4>2, <4>3 DEF OutlineOf
        <5>2. Finally.items[i].line = Outline(n).items[i].line /\ Finally.items[i].label = Outline(n).items[i].label
          BY <4>5 DEF Old
        <5>. QED
          BY <4>2, <5>1, <5>2
      <4>7. Finally.items[i].end < Finally.items[s].end
        BY <1>1, <1>2, <3>2, <3>3, <3>4, <4>4, <4>6, InFirst
      <4>8. Around(s, i)
        <5>1. Finally.items[s].line = p.since[1]
          BY <1>6, <3>2, <3>3
        <5>. QED
          BY <1>2, <1>7, <3>4, <4>4, <4>6, <4>7, <5>1 DEF Around
      <4>. QED
        BY <1>9, <2>1, <2>2, <4>4, <4>6, <4>8 DEF IsFree
    <3>6. ~(line <= n)
      BY <1>1
    <3>. QED
      BY <1>3, <3>4, <3>5, <3>6
  <2>3. CASE Around(h, s)
    <3>1. PICK w \in Nat : w = Finally.items[s].line /\ w \in 0..Len(doc) /\ line < w
      <4>1. Finally.items[s].line \in 1..Len(doc) /\ Len(doc) \in Nat
        BY EndsNat, WholeIs
      <4>. QED
        BY <1>1, <2>3, <4>1 DEF Around
    <3>2. PICK r \in Nat : r = Len(Outline(w).open) /\ InStep(Outline(w), Reading(w)) /\ OutlineOf(Outline(w), w)
                           /\ ParseOf(Reading(w), w) /\ Reading(w).ok
      <4>1. InStep(Outline(w), Reading(w)) /\ OutlineOf(Outline(w), w) /\ ParseOf(Reading(w), w) /\ Reading(w).ok
        BY <3>1, WholeIs
      <4>2. Len(Outline(w).open) \in Nat
        BY <4>1, OutlineIs DEF OutlineOf
      <4>. QED
        BY <4>1, <4>2
    <3>3. PICK k \in 1..r : Outline(w).open[k] = s
      <4>1. Finally.items[s].line <= w /\ Finally.items[s].end > w
        BY <1>7, <3>1
      <4>. QED
        BY <3>1, <3>2, <4>1, OpenWhile
    <3>4. PICK i \in 1..r : Outline(w).open[i] = h
      <4>1. Finally.items[h].line <= w /\ Finally.items[h].end > w
        BY <1>1, <1>7, <2>3, <3>1 DEF Around
      <4>. QED
        BY <3>1, <3>2, <4>1, OpenWhile
    <3>5. Reading(w).open[k].kind = "SEP" /\ Reading(w).since[k] = w /\ Reading(w).since[i] = line
      <4>1. /\ Finally.items[s].kind = Reading(w).open[k].kind /\ Finally.items[s].line = Reading(w).since[k]
            /\ Finally.items[h].line = Reading(w).since[i]
        <5>1. k \in 1..Len(Outline(w).open) /\ i \in 1..Len(Outline(w).open) /\ w \in 0..Len(doc)
          BY <3>1, <3>2
        <5>2. /\ Finally.items[Outline(w).open[k]].kind = Reading(w).open[k].kind
              /\ Finally.items[Outline(w).open[k]].line = Reading(w).since[k]
          BY <5>1, EndsLater
        <5>3. Finally.items[Outline(w).open[i]].line = Reading(w).since[i]
          BY <5>1, EndsLater
        <5>. QED
          BY <3>3, <3>4, <5>2, <5>3
      <4>. QED
        BY <1>1, <2>1, <3>1, <4>1
    <3>6. k = 1
      BY <3>2, <3>5 DEF ParseOf, Rooted, InStep
    <3>7. i # k
      BY <3>1, <3>5
    <3>8. 1 < i
      BY <3>2, <3>6, <3>7
    <3>9. Reading(w).since[1] < Reading(w).since[i]
      BY <3>2, <3>3, <3>4, <3>6, <3>8 DEF ParseOf, InStep
    <3>. QED
      BY <1>1, <3>1, <3>5, <3>6, <3>9
  <2>. QED
    BY <2>1, <2>2, <2>3
<1>. QED
  BY <1>2, <1>8, <1>9

LEMMA RenamedAccepted ==
  ASSUME Whole, NEW h \in 1..Len(Finally.items), NEW label \in Labels, IsFree(h, label),
         NEW n \in Nat, n + 1 \in 1..Len(doc), NEW q, Locked(h, label, n, Reading(n), q)
  PROVE  Accepts(Renamed(h, label)[n + 1], q.open)
<1>1. PICK p, line, new, begin : /\ p = Reading(n) /\ line = doc[n + 1] /\ new = Renamed(h, label)[n + 1]
                                 /\ begin = Finally.items[h].line
  OBVIOUS
<1>2. PICK m \in Nat : /\ m = Len(p.open) /\ m = Len(p.since) /\ m = Len(q.open)
                       /\ p.open \in Seq(BlockRecs) /\ q.open \in Seq(BlockRecs)
                       /\ Accepts(line, p.open) /\ line.what \in {"open", "branch", "close"}
  BY <1>1, ReadingIs DEF Locked
<1>3. \A k \in 1..m : /\ q.open[k].kind = p.open[k].kind /\ q.open[k].branch = p.open[k].branch /\ q.open[k].seen = p.open[k].seen
                      /\ q.open[k].label = IF p.since[k] = begin THEN label ELSE p.open[k].label
  BY <1>1, <1>2 DEF Locked
<1>4. /\ new.what = line.what /\ new.kind = line.kind
      /\ new.label = IF n + 1 \in Finally.items[h].at THEN label ELSE line.label
  BY <1>1, RenamedIs
<1>5. /\ line.what = "open" => (n + 1 \in Finally.items[h].at <=> n + 1 = begin)
      /\ line.what \in {"branch", "close"} => m >= 1 /\ (n + 1 \in Finally.items[h].at <=> p.since[m] = begin)
  BY <1>1, <1>2, OccurrencesAre
<1>6. /\ p.open = <<>> <=> m = 0
      /\ q.open = <<>> <=> m = 0
      /\ m # 0 => m \in 1..m /\ Top(p.open) = p.open[m] /\ Top(q.open) = q.open[m]
      /\ m = 0 => Top(p.open).kind = "none" /\ Top(q.open).kind = "none"
  <2>1. m # 0 => m \in 1..m
    OBVIOUS
  <2>2. /\ p.open = <<>> <=> m = 0
        /\ m # 0 => Top(p.open) = p.open[m]
        /\ m = 0 => Top(p.open).kind = "none"
    BY <1>2, TopIs
  <2>3. /\ q.open = <<>> <=> m = 0
        /\ m # 0 => Top(q.open) = q.open[m]
        /\ m = 0 => Top(q.open).kind = "none"
    BY <1>2, TopIs
  <2>. QED
    BY <2>1, <2>2, <2>3
<1>7. Top(q.open).kind = Top(p.open).kind
  BY <1>3, <1>6
<1>8. CASE line.what = "open"
  <2>1. MayOpen(new.kind, q.open)
    <3>1. MayOpen(line.kind, p.open)
      BY <1>2, <1>8 DEF Accepts
    <3>. QED
      BY <1>4, <1>6, <1>7, <3>1 DEF MayOpen
  <2>2. /\ \A k \in 1..Len(q.open) : q.open[k].label # new.label
        /\ new.label \in SepLocal => /\ Len(q.open) >= 1 /\ q.open[1].kind = "SEP" /\ new.label \notin q.open[1].used
    <3>1. CASE n + 1 = begin
      <4>1. new.label = label
        BY <1>4, <1>5, <1>8, <3>1
      <4>. QED
        BY <1>1, <1>8, <3>1, <4>1, FitsThere
    <3>2. CASE n + 1 # begin
      <4>1. new.label = doc[n + 1].label
        BY <1>1, <1>4, <1>5, <1>8, <3>2
      <4>. QED
        BY <1>1, <1>8, <3>2, <4>1, NotRepeated
    <3>. QED
      BY <3>1, <3>2
  <2>3. new.label \notin LabelsOf(q.open)
    BY <1>2, <2>2, TopIs
  <2>4. MayPush(new.label, q.open)
    <3>1. new.label \in SepLocal => q.open # <<>>
      BY <1>2, <1>6, <2>2
    <3>. QED
      BY <2>2, <2>3, <3>1 DEF MayPush, MayPush_Again
  <2>. QED
    BY <1>1, <1>4, <1>8, <2>1, <2>4 DEF Accepts
<1>9. ASSUME line.what \in {"branch", "close"}
      PROVE  /\ Top(p.open) = p.open[m] /\ Top(q.open) = q.open[m] /\ q.open[m].kind = p.open[m].kind
             /\ q.open[m].branch = p.open[m].branch /\ q.open[m].seen = p.open[m].seen
             /\ line.label = p.open[m].label => new.label = q.open[m].label
  <2>1. m # 0
    BY <1>2, <1>5, <1>9
  <2>. QED
    BY <1>3, <1>4, <1>5, <1>6, <1>9, <2>1
<1>10. CASE line.what = "branch"
  <2>1. MayBranch(line.kind, p.open[m]) /\ line.label = p.open[m].label
    BY <1>2, <1>9, <1>10 DEF Accepts
  <2>2. MayBranch(new.kind, q.open[m])
    BY <1>4, <1>9, <1>10, <2>1 DEF MayBranch, MayBranch_CatchFirst
  <2>. QED
    BY <1>1, <1>4, <1>9, <1>10, <2>1, <2>2 DEF Accepts
<1>11. CASE line.what = "close"
  <2>1. p.open[m].kind = line.kind /\ p.open[m].label = line.label /\ Handled(p.open[m])
    BY <1>2, <1>9, <1>11 DEF Accepts, MayClose
  <2>2. Handled(q.open[m]) /\ MayClose(new, q.open[m])
    BY <1>4, <1>9, <1>11, <2>1 DEF Handled, MayClose
  <2>. QED
    BY <1>1, <1>4, <1>9, <1>11, <2>2 DEF Accepts
<1>. QED
  BY <1>1, <1>2, <1>8, <1>10, <1>11

LEMMA LockedStays ==
  ASSUME Whole, NEW h \in 1..Len(Finally.items), NEW label \in Labels,
         NEW n \in Nat, n + 1 \in 1..Len(doc), NEW q, Locked(h, label, n, Reading(n), q),
         NEW r \in ParseStates, Takes(q, r, n + 1, Renamed(h, label)[n + 1])
  PROVE  Locked(h, label, n + 1, Reading(n + 1), r)
<1>1. PICK p, line, new, begin, t : /\ p = Reading(n) /\ line = doc[n + 1] /\ new = Renamed(h, label)[n + 1]
                                    /\ begin = Finally.items[h].line /\ t = Reading(n + 1)
  OBVIOUS
<1>2. PICK m \in Nat : /\ m = Len(p.open) /\ m = Len(p.since) /\ m = Len(q.open)
                       /\ p.open \in Seq(BlockRecs) /\ q.open \in Seq(BlockRecs) /\ line \in AllLines
                       /\ line.what \in {"open", "branch", "close"} /\ Takes(p, t, n + 1, line)
                       /\ \A k \in 1..m : p.since[k] \in 1..n
  BY <1>1, ReadingIs DEF Locked
<1>3. /\ \A k \in 1..m : /\ q.open[k].kind = p.open[k].kind /\ q.open[k].branch = p.open[k].branch /\ q.open[k].seen = p.open[k].seen
                         /\ q.open[k].label = IF p.since[k] = begin THEN label ELSE p.open[k].label
      /\ m >= 1 => q.open[1].used \subseteq p.open[1].used \cup (IF p.since[1] < begin /\ begin <= n THEN {label} ELSE {})
  BY <1>1, <1>2 DEF Locked
<1>4. /\ new \in AllLines /\ new.what = line.what /\ new.kind = line.kind
      /\ new.label = IF n + 1 \in Finally.items[h].at THEN label ELSE line.label
      /\ Takes(q, r, n + 1, new) /\ line # TypedLine /\ new # TypedLine
  <2>1. line # TypedLine /\ new # TypedLine
    BY <1>1, <1>2, RenamedIs DEF TypedLine, Line
  <2>. QED
    BY <1>1, <2>1, RenamedIs
<1>5. /\ line.what = "open" => (n + 1 \in Finally.items[h].at <=> n + 1 = begin)
      /\ line.what \in {"branch", "close"} => m >= 1
  BY <1>1, <1>2, OccurrencesAre
<1>6. /\ Does(line, p.open, t.open) /\ Does(new, q.open, r.open) /\ r.open \in Seq(BlockRecs)
      /\ t.open = After(line, p.open, {}) /\ r.open = After(new, q.open, {}) /\ Accepts(new, q.open)
  BY <1>2, <1>4, ParseIs DEF Takes
<1>7. begin \in Nat
  <2>1. begin \in 1..Len(doc) /\ Len(doc) \in Nat
    BY <1>1, EndsNat, WholeIs
  <2>. QED
    BY <2>1
<1>8. (IF p.since[1] < begin /\ begin <= n THEN {label} ELSE {}) \subseteq (IF p.since[1] < begin /\ begin <= n + 1 THEN {label} ELSE {})
  BY <1>7
<1>9. m # 0 => p.open # <<>> /\ q.open # <<>> /\ 1 \in 1..m /\ m >= 1
  <2>1. m # 0 => 1 \in 1..m /\ m >= 1
    OBVIOUS
  <2>2. m # 0 => p.open # <<>>
    BY <1>2, EmptySeq
  <2>3. m # 0 => q.open # <<>>
    BY <1>2, EmptySeq
  <2>. QED
    BY <2>1, <2>2, <2>3
<1>10. CASE line.what = "open"
  <2>1. /\ Len(t.open) = m + 1 /\ t.open[m + 1].kind = line.kind /\ t.open[m + 1].label = line.label
        /\ t.open[m + 1].branch = "body" /\ t.open[m + 1].seen = {}
        /\ \A k \in 1..m : Alike(t.open[k], p.open[k])
    BY <1>2, <1>6, <1>10 DEF Does, Grows
  <2>2. /\ Len(r.open) = m + 1 /\ r.open[m + 1].kind = line.kind /\ r.open[m + 1].label = new.label
        /\ r.open[m + 1].branch = "body" /\ r.open[m + 1].seen = {}
        /\ \A k \in 1..m : Alike(r.open[k], q.open[k])
    BY <1>2, <1>4, <1>6, <1>10 DEF Does, Grows
  <2>3. t.since[m + 1] = n + 1 /\ \A k \in 1..m : t.since[k] = p.since[k]
    BY <1>2, <1>10 DEF Takes
  <2>4. new.label = IF n + 1 = begin THEN label ELSE line.label
    BY <1>4, <1>5, <1>10
  <2>5. \A k \in 1..(m + 1) : k \in 1..m \/ k = m + 1
    OBVIOUS
  <2>6. ASSUME NEW k \in 1..m
        PROVE /\ r.open[k].kind = t.open[k].kind /\ r.open[k].branch = t.open[k].branch /\ r.open[k].seen = t.open[k].seen
              /\ r.open[k].label = IF t.since[k] = begin THEN label ELSE t.open[k].label
    <3>1. Alike(t.open[k], p.open[k]) /\ Alike(r.open[k], q.open[k]) /\ t.since[k] = p.since[k]
      BY <2>1, <2>2, <2>3
    <3>2. /\ q.open[k].kind = p.open[k].kind /\ q.open[k].branch = p.open[k].branch /\ q.open[k].seen = p.open[k].seen
          /\ q.open[k].label = IF p.since[k] = begin THEN label ELSE p.open[k].label
      BY <1>3
    <3>. QED
      BY <3>1, <3>2 DEF Alike
  <2>7. ASSUME NEW k \in 1..(m + 1)
        PROVE /\ r.open[k].kind = t.open[k].kind /\ r.open[k].branch = t.open[k].branch /\ r.open[k].seen = t.open[k].seen
              /\ r.open[k].label = IF t.since[k] = begin THEN label ELSE t.open[k].label
    BY <2>1, <2>2, <2>3, <2>4, <2>5, <2>6
  <2>8. r.open[1].used \subseteq t.open[1].used \cup (IF t.since[1] < begin /\ begin <= n + 1 THEN {label} ELSE {})
    <3>1. CASE m = 0
      <4>1. q.open = <<>>
        BY <1>2, <3>1, EmptySeq
      <4>2. new.what = "open"
        BY <1>4, <1>10
      <4>3. r.open[1].used = {}
        BY <1>4, <1>6, <4>1, <4>2, FirstUses
      <4>. QED
        BY <4>3
    <3>2. CASE m # 0
      <4>1. new.what = "open"
        BY <1>4, <1>10
      <4>2. r.open[1].used = q.open[1].used \cup ({new.label} \cap SepLocal)
        BY <1>2, <1>4, <1>6, <1>9, <3>2, <4>1, UsedAfter
      <4>3. t.open[1].used = p.open[1].used \cup ({line.label} \cap SepLocal)
        BY <1>2, <1>6, <1>9, <1>10, <3>2, UsedAfter
      <4>4. t.since[1] = p.since[1] /\ p.since[1] < n + 1
        BY <1>2, <1>9, <2>3, <3>2
      <4>5. new.label = line.label \/ (new.label = label /\ p.since[1] < begin /\ begin <= n + 1)
        BY <1>7, <2>4, <4>4
      <4>. QED
        BY <1>3, <1>8, <1>9, <3>2, <4>2, <4>3, <4>4, <4>5
    <3>. QED
      BY <3>1, <3>2
  <2>. QED
    BY <1>1, <1>6, <2>1, <2>2, <2>7, <2>8 DEF Locked
<1>11. CASE line.what = "branch"
  <2>1. /\ Len(t.open) = m /\ t.open[m].kind = p.open[m].kind /\ t.open[m].label = p.open[m].label
        /\ t.open[m].branch = line.kind /\ t.open[m].seen = p.open[m].seen \cup {line.kind}
        /\ \A k \in 1..(m - 1) : Alike(t.open[k], p.open[k])
    BY <1>2, <1>6, <1>11 DEF Does, Marks
  <2>2. /\ Len(r.open) = m /\ r.open[m].kind = q.open[m].kind /\ r.open[m].label = q.open[m].label
        /\ r.open[m].branch = line.kind /\ r.open[m].seen = q.open[m].seen \cup {line.kind}
        /\ \A k \in 1..(m - 1) : Alike(r.open[k], q.open[k])
    BY <1>2, <1>4, <1>6, <1>11 DEF Does, Marks
  <2>3. t.since = p.since /\ m >= 1 /\ m # 0 /\ m \in 1..m
    BY <1>2, <1>5, <1>11 DEF Takes
  <2>4. \A k \in 1..m : k \in 1..(m - 1) \/ k = m
    OBVIOUS
  <2>5. ASSUME NEW k \in 1..(m - 1)
        PROVE /\ r.open[k].kind = t.open[k].kind /\ r.open[k].branch = t.open[k].branch /\ r.open[k].seen = t.open[k].seen
              /\ r.open[k].label = IF t.since[k] = begin THEN label ELSE t.open[k].label
    <3>1. k \in 1..m /\ Alike(t.open[k], p.open[k]) /\ Alike(r.open[k], q.open[k]) /\ t.since[k] = p.since[k]
      BY <2>1, <2>2, <2>3
    <3>2. /\ q.open[k].kind = p.open[k].kind /\ q.open[k].branch = p.open[k].branch /\ q.open[k].seen = p.open[k].seen
          /\ q.open[k].label = IF p.since[k] = begin THEN label ELSE p.open[k].label
      BY <1>3, <3>1
    <3>. QED
      BY <3>1, <3>2 DEF Alike
  <2>6. ASSUME NEW k \in 1..m
        PROVE /\ r.open[k].kind = t.open[k].kind /\ r.open[k].branch = t.open[k].branch /\ r.open[k].seen = t.open[k].seen
              /\ r.open[k].label = IF t.since[k] = begin THEN label ELSE t.open[k].label
    <3>1. CASE k \in 1..(m - 1)
      BY <2>5, <3>1
    <3>2. CASE k = m
      <4>1. /\ q.open[m].kind = p.open[m].kind /\ q.open[m].seen = p.open[m].seen
            /\ q.open[m].label = IF p.since[m] = begin THEN label ELSE p.open[m].label
        BY <1>3, <2>3
      <4>. QED
        BY <2>1, <2>2, <2>3, <3>2, <4>1
    <3>. QED
      BY <2>4, <3>1, <3>2
  <2>7. r.open[1].used = q.open[1].used /\ t.open[1].used = p.open[1].used
    <3>1. new.what = "branch"
      BY <1>4, <1>11
    <3>2. r.open[1].used = q.open[1].used
      BY <1>2, <1>4, <1>6, <1>9, <2>3, <3>1, UsedAfter
    <3>3. t.open[1].used = p.open[1].used
      BY <1>2, <1>6, <1>9, <1>11, <2>3, UsedAfter
    <3>. QED
      BY <3>2, <3>3
  <2>8. r.open[1].used \subseteq t.open[1].used \cup (IF t.since[1] < begin /\ begin <= n + 1 THEN {label} ELSE {})
    BY <1>3, <1>8, <2>3, <2>7
  <2>. QED
    BY <1>1, <1>6, <2>1, <2>2, <2>6, <2>8 DEF Locked
<1>12. CASE line.what = "close"
  <2>1. Len(t.open) = m - 1 /\ \A k \in 1..(m - 1) : Alike(t.open[k], p.open[k])
    BY <1>2, <1>6, <1>12 DEF Does, Shrinks
  <2>2. Len(r.open) = m - 1 /\ \A k \in 1..(m - 1) : Alike(r.open[k], q.open[k])
    BY <1>2, <1>4, <1>6, <1>12 DEF Does, Shrinks
  <2>3. \A k \in 1..(m - 1) : t.since[k] = p.since[k] /\ k \in 1..m
    BY <1>2, <1>12 DEF Takes
  <2>4. ASSUME NEW k \in 1..(m - 1)
        PROVE /\ r.open[k].kind = t.open[k].kind /\ r.open[k].branch = t.open[k].branch /\ r.open[k].seen = t.open[k].seen
              /\ r.open[k].label = IF t.since[k] = begin THEN label ELSE t.open[k].label
    <3>1. Alike(t.open[k], p.open[k]) /\ Alike(r.open[k], q.open[k]) /\ t.since[k] = p.since[k] /\ k \in 1..m
      BY <2>1, <2>2, <2>3
    <3>2. /\ q.open[k].kind = p.open[k].kind /\ q.open[k].branch = p.open[k].branch /\ q.open[k].seen = p.open[k].seen
          /\ q.open[k].label = IF p.since[k] = begin THEN label ELSE p.open[k].label
      BY <1>3, <3>1
    <3>. QED
      BY <3>1, <3>2 DEF Alike
  <2>5. ASSUME m - 1 >= 1
        PROVE  r.open[1].used \subseteq t.open[1].used \cup (IF t.since[1] < begin /\ begin <= n + 1 THEN {label} ELSE {})
    <3>1. m # 0 /\ m > 1 /\ 1 \in 1..(m - 1) /\ new.what = "close"
      BY <1>4, <1>12, <2>5
    <3>2. r.open[1].used = q.open[1].used
      BY <1>2, <1>4, <1>6, <1>9, <3>1, UsedAfter
    <3>3. t.open[1].used = p.open[1].used
      BY <1>2, <1>6, <1>9, <1>12, <3>1, UsedAfter
    <3>4. t.since[1] = p.since[1]
      BY <2>3, <3>1
    <3>. QED
      BY <1>3, <1>8, <1>9, <3>1, <3>2, <3>3, <3>4
  <2>. QED
    BY <1>1, <1>6, <2>1, <2>2, <2>4, <2>5 DEF Locked
<1>. QED
  BY <1>2, <1>10, <1>11, <1>12

\* A label that is free leaves a program.
LEMMA FreeIsProgram ==
  ASSUME Whole, NEW h \in 1..Len(Finally.items), NEW label \in Labels, IsFree(h, label)
  PROVE  IsProgram(Renamed(h, label))
<1>1. PICK m \in Nat, lines \in Seq(DocLines) : m = Len(doc) /\ lines = Renamed(h, label) /\ Len(lines) = m
  <2>1. Len(doc) \in Nat
    BY WholeIs
  <2>. QED
    BY <2>1, RenamedIs
<1>. DEFINE Q(i)      == Parses(lines)[i]
            Proven(i) == Q(i).ok /\ Locked(h, label, i, Reading(i), Q(i))
            Wrong     == {i \in 0..m : ~Proven(i)}
<1>2. /\ Q(0) = [ok |-> TRUE, open |-> <<>>, since |-> <<>>, nodes |-> {}]
      /\ \A i \in 0..m : ParseOf(Q(i), i)
      /\ \A i \in 1..m : /\ Q(i).ok => Takes(Q(i - 1), Q(i), i, lines[i])
                         /\ Q(i - 1).ok /\ Accepts(lines[i], Q(i - 1).open) => Q(i).ok
  BY <1>1, ParsedSoFar
<1>3. Proven(0)
  <2>1. Reading(0) = [ok |-> TRUE, open |-> <<>>, since |-> <<>>, nodes |-> {}]
    BY <1>1, ParsesIs DEF Reading
  <2>2. Reading(0).open = <<>> /\ Q(0).open = <<>> /\ Q(0).ok
    <3>. HIDE DEF Q
    <3>. QED
      BY <1>2, <2>1
  <2>. HIDE DEF Q
  <2>3. Len(Reading(0).open) = 0 /\ Len(Q(0).open) = 0 /\ Q(0).open \in Seq(BlockRecs)
    BY <2>2, EmptySeq
  <2>. QED
    BY <2>2, <2>3 DEF Locked
<1>. HIDE DEF Q
<1>4. ASSUME NEW i \in Nat, i + 1 \in 1..m, Proven(i) PROVE Proven(i + 1)
  <2>1. (i + 1) - 1 = i /\ i + 1 \in 0..m
    BY <1>4
  <2>2. Accepts(lines[i + 1], Q(i).open)
    BY <1>1, <1>4, RenamedAccepted
  <2>3. Q(i + 1).ok
    BY <1>2, <1>4, <2>1, <2>2
  <2>4. Takes(Q(i), Q(i + 1), i + 1, lines[i + 1])
    BY <1>2, <1>4, <2>1, <2>3
  <2>5. Q(i + 1) \in ParseStates
    BY <1>2, <2>1 DEF ParseOf
  <2>6. Locked(h, label, i + 1, Reading(i + 1), Q(i + 1))
    BY <1>1, <1>4, <2>4, <2>5, LockedStays
  <2>. QED
    BY <2>3, <2>6
<1>5. Wrong = {}
  <2>1. SUFFICES ASSUME Wrong # {} PROVE FALSE
    OBVIOUS
  <2>2. PICK i \in Wrong : \A k \in Wrong : i <= k
    <3>1. Wrong \in SUBSET Nat
      OBVIOUS
    <3>. HIDE DEF Wrong
    <3>. QED
      BY <2>1, <3>1, LeastNatural
  <2>. HIDE DEF Proven
  <2>3. i \in 0..m /\ ~Proven(i) /\ i # 0
    BY <1>3, <2>2
  <2>4. PICK k \in Nat : i = k + 1 /\ k + 1 \in 1..m /\ k \in 0..m /\ ~(i <= k)
    <3>1. i - 1 \in Nat /\ i = (i - 1) + 1 /\ (i - 1) + 1 \in 1..m /\ i - 1 \in 0..m /\ ~(i <= i - 1)
      BY <2>3
    <3>. QED
      BY <3>1
  <2>5. Proven(k)
    BY <2>2, <2>4
  <2>. QED
    BY <1>4, <2>3, <2>4, <2>5
<1>6. Proven(m)
  <2>1. m \in 0..m
    OBVIOUS
  <2>. HIDE DEF Proven
  <2>. QED
    BY <1>5, <2>1
<1>7. Q(m).ok /\ Q(m).open = <<>>
  <2>1. Len(Reading(m).open) = 0
    BY <1>1, WholeIs, EmptySeq
  <2>2. Q(m).open \in Seq(BlockRecs) /\ Len(Q(m).open) = 0
    BY <1>6, <2>1 DEF Locked
  <2>. QED
    BY <1>6, <2>2, EmptySeq
<1>. QED
  BY <1>1, <1>7 DEF IsProgram, Parsed, Q

\* Two programs that differ in labels only have their blocks in the same places.
SamePlaces(p, q) ==
  /\ Len(p.since) = Len(q.since) /\ \A k \in 1..Len(p.since) : p.since[k] = q.since[k]
  /\ \A x : (\E i \in p.nodes : x = Place(i)) <=> (\E i \in q.nodes : x = Place(i))

LEMMA PlacesStay ==
  ASSUME NEW n \in Nat, NEW p, ParseOf(p, n), NEW q, ParseOf(q, n), SamePlaces(p, q),
         NEW line \in DocLines, NEW new \in DocLines, new.what = line.what, new.kind = line.kind,
         NEW r, Takes(p, r, n + 1, line), NEW s, Takes(q, s, n + 1, new)
  PROVE  SamePlaces(r, s)
<1>1. PICK m \in Nat : m = Len(p.since) /\ m = Len(q.since)
  BY ParseIs DEF ParseOf, SamePlaces
<1>2. \A k \in 1..m : p.since[k] = q.since[k]
  BY <1>1 DEF SamePlaces
<1>3. \A k \in 1..(m + 1) : k \in 1..m \/ k = m + 1
  OBVIOUS
<1>4. line.what \in {"open", "close", "branch", "typed"}
  BY DocLineIs
<1>5. Len(r.since) = Len(s.since) /\ \A k \in 1..Len(r.since) : r.since[k] = s.since[k]
  <2>1. CASE line.what = "open"
    <3>1. Len(r.since) = m + 1 /\ r.since[m + 1] = n + 1 /\ \A k \in 1..m : r.since[k] = p.since[k]
      BY <1>1, <2>1 DEF Takes
    <3>2. Len(s.since) = m + 1 /\ s.since[m + 1] = n + 1 /\ \A k \in 1..m : s.since[k] = q.since[k]
      BY <1>1, <2>1 DEF Takes
    <3>. QED
      BY <1>2, <1>3, <3>1, <3>2
  <2>2. CASE line.what \in {"branch", "typed"}
    <3>1. r.since = p.since /\ s.since = q.since
      BY <2>2 DEF Takes
    <3>. QED
      BY <1>1, <1>2, <3>1
  <2>3. CASE line.what = "close"
    <3>1. Len(r.since) = m - 1 /\ \A k \in 1..(m - 1) : r.since[k] = p.since[k]
      BY <1>1, <2>3 DEF Takes
    <3>2. Len(s.since) = m - 1 /\ \A k \in 1..(m - 1) : s.since[k] = q.since[k]
      BY <1>1, <2>3 DEF Takes
    <3>3. \A k \in 1..(m - 1) : k \in 1..m
      OBVIOUS
    <3>. QED
      BY <1>2, <3>1, <3>2, <3>3
  <2>. QED
    BY <1>4, <2>1, <2>2, <2>3
<1>6. ASSUME NEW x PROVE (\E i \in r.nodes : x = Place(i)) <=> (\E i \in s.nodes : x = Place(i))
  <2>1. (\E i \in p.nodes : x = Place(i)) <=> (\E i \in q.nodes : x = Place(i))
    BY DEF SamePlaces
  <2>2. CASE line.what = "close"
    <3>1. PICK y, z : /\ y = [kind |-> line.kind, label |-> line.label, line |-> p.since[Len(p.since)], end |-> n + 1]
                      /\ z = [kind |-> new.kind, label |-> new.label, line |-> q.since[Len(q.since)], end |-> n + 1]
      OBVIOUS
    <3>2. r.nodes = p.nodes \cup {y} /\ s.nodes = q.nodes \cup {z}
      BY <2>2, <3>1 DEF Takes
    <3>3. p.since[m] = q.since[m]
      <4>1. m >= 1
        BY <1>1, <2>2 DEF Takes
      <4>2. m \in 1..m
        BY <4>1
      <4>. QED
        BY <1>2, <4>2
    <3>4. Place(y) = Place(z)
      BY <1>1, <3>1, <3>3 DEF Place
    <3>. QED
      BY <2>1, <3>2, <3>4
  <2>3. CASE line.what # "close"
    BY <2>1, <2>3 DEF Takes
  <2>. QED
    BY <2>2, <2>3
<1>. QED
  BY <1>5, <1>6 DEF SamePlaces

LEMMA PlacesKept ==
  ASSUME Whole, NEW lines \in Seq(DocLines), Len(lines) = Len(doc), Parsed(lines).ok,
         \A n \in 1..Len(doc) : lines[n].what = doc[n].what /\ lines[n].kind = doc[n].kind
  PROVE  {Place(i) : i \in Parsed(lines).nodes} = {Place(i) : i \in Parsed(doc).nodes}
<1>1. PICK m \in Nat : m = Len(doc) /\ m = Len(lines)
  BY WholeIs
<1>. DEFINE Q(i)      == Parses(lines)[i]
            Proven(i) == SamePlaces(Reading(i), Q(i))
            Wrong     == {i \in 0..m : ~Proven(i)}
<1>2. /\ Q(0) = [ok |-> TRUE, open |-> <<>>, since |-> <<>>, nodes |-> {}]
      /\ \A i \in 0..m : ParseOf(Q(i), i)
      /\ \A i \in 1..m : Takes(Q(i - 1), Q(i), i, lines[i])
  <2>1. \A i \in 1..m : i \in 0..m
    OBVIOUS
  <2>2. \A i \in 0..m : Q(i).ok
    BY <1>1, AcceptedSoFar
  <2>. QED
    BY <1>1, <2>1, <2>2, ParsedSoFar
<1>3. Proven(0)
  <2>1. Reading(0) = [ok |-> TRUE, open |-> <<>>, since |-> <<>>, nodes |-> {}]
    BY <1>1, ParsesIs DEF Reading
  <2>. QED
    BY <1>2, <2>1 DEF SamePlaces
<1>4. \A i \in 1..m : lines[i] \in DocLines /\ doc[i] \in DocLines
  BY <1>1, WholeIs, ElementOfSeq
<1>. HIDE DEF Q
<1>5. ASSUME NEW i \in Nat, i + 1 \in 1..m, Proven(i) PROVE Proven(i + 1)
  <2>1. (i + 1) - 1 = i /\ i \in 0..m
    BY <1>5
  <2>2. ParseOf(Q(i), i) /\ Takes(Q(i), Q(i + 1), i + 1, lines[i + 1])
    BY <1>2, <1>5, <2>1
  <2>3. ParseOf(Reading(i), i) /\ Takes(Reading(i), Reading(i + 1), i + 1, doc[i + 1])
    BY <1>1, <1>5, <2>1, WholeIs
  <2>4. lines[i + 1] \in DocLines /\ doc[i + 1] \in DocLines
        /\ lines[i + 1].what = doc[i + 1].what /\ lines[i + 1].kind = doc[i + 1].kind
    BY <1>1, <1>4, <1>5
  <2>. QED
    BY <1>5, <2>2, <2>3, <2>4, PlacesStay
<1>6. Wrong = {}
  <2>1. SUFFICES ASSUME Wrong # {} PROVE FALSE
    OBVIOUS
  <2>2. PICK i \in Wrong : \A k \in Wrong : i <= k
    <3>1. Wrong \in SUBSET Nat
      OBVIOUS
    <3>. HIDE DEF Wrong
    <3>. QED
      BY <2>1, <3>1, LeastNatural
  <2>. HIDE DEF Proven
  <2>3. i \in 0..m /\ ~Proven(i) /\ i # 0
    BY <1>3, <2>2
  <2>4. PICK k \in Nat : i = k + 1 /\ k + 1 \in 1..m /\ k \in 0..m /\ ~(i <= k)
    <3>1. i - 1 \in Nat /\ i = (i - 1) + 1 /\ (i - 1) + 1 \in 1..m /\ i - 1 \in 0..m /\ ~(i <= i - 1)
      BY <2>3
    <3>. QED
      BY <3>1
  <2>5. Proven(k)
    BY <2>2, <2>4
  <2>. QED
    BY <1>5, <2>3, <2>4, <2>5
<1>7. Proven(m)
  <2>1. m \in 0..m
    OBVIOUS
  <2>. HIDE DEF Proven
  <2>. QED
    BY <1>6, <2>1
<1>8. Parsed(doc) = Reading(m) /\ Parsed(lines) = Q(m)
  BY <1>1 DEF Parsed, Reading, Q
<1>9. \A x : (\E i \in Parsed(doc).nodes : x = Place(i)) <=> (\E i \in Parsed(lines).nodes : x = Place(i))
  BY <1>7, <1>8 DEF SamePlaces
<1>. QED
  BY <1>9

LEMMA RenamesAreSafe ==
  ASSUME doc \in Seq(DocLines)
  PROVE  RenameSafe
<1>1. SUFFICES ASSUME ~Typed, IsProgram(doc), NEW item \in Range(AnalyzeBlocks(doc).items), NEW label \in Labels
               PROVE RenamesWell(item, label)
  BY DEF RenameSafe, RenameWhole
<1>2. Whole
  BY <1>1 DEF Whole
<1>3. PICK h \in 1..Len(Finally.items) : item = Finally.items[h]
  <2>1. AnalyzeBlocks(doc) = Finally /\ Finally \in Outlines
    BY <1>2, WholeIs
  <2>2. DOMAIN Finally.items = 1..Len(Finally.items)
    BY <2>1, OutlineIs
  <2>. QED
    BY <1>1, <2>1, <2>2 DEF Range
<1>4. ASSUME FreeLabel(item, label) PROVE IsProgram(Renamed(h, label))
  BY <1>2, <1>3, <1>4, FreeMeans, FreeIsProgram
<1>5. ASSUME IsProgram(Renamed(h, label))
      PROVE  {Place(i) : i \in Parsed(Renamed(h, label)).nodes} = {Place(i) : i \in Parsed(doc).nodes}
  BY <1>2, <1>5, PlacesKept, RenamedIs DEF IsProgram
<1>. QED
  BY <1>3, <1>4, <1>5 DEF RenamesWell, Renamed

\* What the editor shows of a document is what the parser makes of it; the closers it offers
\* are those of the author's blocks; a label it renames leaves a program with the same
\* blocks: for every document an author can write, line after line.
THEOREM EditorAlwaysKept == EditorInit /\ [][EditorNext]_editorVars => []EditorKept
<1>1. EditorInit => EditorInv
  BY EditorInvBegins
<1>2. EditorInv /\ [EditorNext]_editorVars => EditorInv'
  <2>1. SUFFICES ASSUME EditorInv, [EditorNext]_editorVars PROVE EditorInv'
    OBVIOUS
  <2>2. CASE EditorNext
    BY <2>1, <2>2, EditorInvKept
  <2>3. CASE UNCHANGED editorVars
    BY <2>1, <2>3 DEF editorVars, blockVars, EditorInv, AuthorTyped, Offering, Typed
  <2>. QED
    BY <2>1, <2>2, <2>3
<1>3. EditorInv => EditorKept
  BY OutlineIsParsed, OfferingFits, RenamesAreSafe DEF EditorInv, AuthorTyped, EditorKept
<1>. QED
  BY <1>1, <1>2, <1>3, PTL
===============================================================================
