------------------------------- MODULE Structure -------------------------------
(***************************************************************************)
(* The structural diff and the edit scopes of                              *)
(* reference/separan/structural.py: a program, what an editor makes of it, *)
(* and whether verify accepts that only the allowed blocks were changed.   *)
(*                                                                         *)
(* A program is its named blocks in the order of the text, each with its   *)
(* depth, its kind and label (the name), its tag and its own content; a    *)
(* fingerprint is the thing itself, so hashes are taken not to collide.    *)
(* Only the blocks at depth 1 are SEPs and carry tags.                     *)
(*                                                                         *)
(* An operator named X_Mistake is X with one mistake in it; no action uses *)
(* it, it shows which property would notice.                               *)
(***************************************************************************)
EXTENDS Naturals, Sequences, FiniteSets, SequencesExt, FiniteSetsExt

CONSTANTS Names,      \* kinds with labels
          MaxBlocks,  \* bound: blocks of a program
          Deepest,    \* bound: how deep a block may be
          MaxRewrites \* bound: edits

ASSUME StructureAssumption == MaxBlocks \in Nat /\ Deepest \in Nat \ {0} /\ MaxRewrites \in Nat

VARIABLES
  before,  \* the program that was reviewed
  after,   \* the program as it is now
  rewrites \* edits made

structureVars == <<before, after, rewrites>>

Contents == {"this", "that"}
Nodes(depth) == [depth : {depth}, name : Names, content : Contents, tagged : IF depth = 1 THEN BOOLEAN ELSE {FALSE}]
WellNested(program) ==
  \A k \in DOMAIN program : program[k].depth <= IF k = 1 THEN 1 ELSE program[k - 1].depth + 1
Programs(n) == {program \in UNION {[1..m -> UNION {Nodes(d) : d \in 1..Deepest}] : m \in 0..n} : WellNested(program)}

\* The numbers of a set up to n, in order.
Ordered(set, n) ==
  LET upto[k \in 0..n] == IF k = 0 THEN <<>> ELSE IF k \in set THEN Append(upto[k - 1], k) ELSE upto[k - 1]
  IN  upto
InOrder(set, n) == Ordered(set, n)[n]

----------------------------------------------------------------------------
(* inspect_source: the identity of a block is its path of names, each with *)
(* its ordinal among the siblings of that name; <<>> is the root.          *)

Parent(program, k) ==
  LET above == {j \in 1..k - 1 : program[j].depth < program[k].depth}
  IN  IF program[k].depth = 1 THEN 0 ELSE Max(above)
Ordinal(program, k) ==
  Cardinality({j \in 1..k : Parent(program, j) = Parent(program, k) /\ program[j].name = program[k].name})
Segment_NoOrdinal(program, k) == <<program[k].name, 1>>
Segment(program, k) == <<program[k].name, Ordinal(program, k)>>
Identities(program) ==
  LET up[j \in 0..Len(program)] ==
        IF j = 0 THEN <<>> ELSE Append(up[Parent(program, j)], Segment(program, j))
  IN  up
Identity(program, k) == Identities(program)[k]
Ids(program) == {Identity(program, k) : k \in 0..Len(program)}

\* The fingerprint of a block of its own: nested blocks by kind and label only.
Children(program, k) == InOrder({j \in 1..Len(program) : Parent(program, j) = k}, Len(program))
Own_WithoutChildren(program, k) ==
  IF k = 0 THEN <<>> ELSE <<program[k].content, program[k].tagged>>
Own(program, k) ==
  <<Own_WithoutChildren(program, k), [i \in DOMAIN Children(program, k) |-> program[Children(program, k)[i]].name]>>
\* One record for each identity, as structural_diff keeps them.
Record(program, id) == Own(program, Max({k \in 0..Len(program) : Identity(program, k) = id}))

\* structural_diff: the identities that were added, removed or modified.
Changed ==
  SymDiff(Ids(before), Ids(after))
  \cup {id \in Ids(before) \cap Ids(after) : Record(before, id) # Record(after, id)}

----------------------------------------------------------------------------
\* verify_scopes and verify_tag_scope: every changed block is inside a scope, and
\* the scopes are there still, with their tag.
Inside(id, scopes) == \E scope \in scopes : IsPrefix(scope, id)
Within(scopes) == \A id \in Changed : Inside(id, scopes)
BoundaryKept(scopes) == scopes \subseteq Ids(after)
Verified(scopes) == scopes # {} /\ BoundaryKept(scopes) /\ Within(scopes)

\* resolve_tag.
Tagged(program) == {Identity(program, k) : k \in {j \in DOMAIN program : program[j].tagged}}
TagKept_Unchecked == TRUE
TagKept == Tagged(before) \subseteq Tagged(after)
TagVerified == Tagged(before) # {} /\ TagKept /\ Within(Tagged(before))

----------------------------------------------------------------------------
(* The editor.                                                             *)
Rewrite(program) ==
  /\ rewrites < MaxRewrites /\ rewrites' = rewrites + 1
  /\ WellNested(program) /\ Len(program) <= MaxBlocks /\ after' = program /\ UNCHANGED before

Change(k, content) == Rewrite([after EXCEPT ![k].content = content])
Rename(k, name)    == Rewrite([after EXCEPT ![k].name = name])
Retag(k)           == after[k].depth = 1 /\ Rewrite([after EXCEPT ![k].tagged = ~@])
Delete(k)          == Rewrite(RemoveAt(after, k))
Insert(k, node)    == Rewrite(InsertAt(after, k, node))
Swap(k)            == Rewrite([after EXCEPT ![k] = after[k + 1], ![k + 1] = after[k]])

----------------------------------------------------------------------------
StructureInit == before \in Programs(MaxBlocks - 1) /\ after = before /\ rewrites = 0

StructureNext ==
  \/ \E k \in DOMAIN after : \/ \E content \in Contents : Change(k, content)
                             \/ \E name \in Names : Rename(k, name)
                             \/ Retag(k) \/ Delete(k)
  \/ \E k \in 1..Len(after) + 1, d \in 1..Deepest : \E node \in Nodes(d) : Insert(k, node)
  \/ \E k \in 1..Len(after) - 1 : Swap(k)

----------------------------------------------------------------------------
\* What a program is outside of some blocks: where these are, the name only.
Seen(program, scopes) ==
  {k \in 1..Len(program) : ~Inside(Identity(program, k), scopes) \/ Identity(program, k) \in scopes}
Show(program, scopes, k) ==
  IF Identity(program, k) \in scopes THEN <<program[k].depth, program[k].name>>
  ELSE <<program[k].depth, program[k].name, program[k].content, program[k].tagged>>
OutsideOf(program, scopes) ==
  LET order == InOrder(Seen(program, scopes), Len(program))
  IN  [i \in DOMAIN order |-> Show(program, scopes, order[i])]
\* Scopes none of which is in another; the others add nothing.
Apart(scopes) == \A s, t \in scopes : IsPrefix(s, t) => s = t

\* No difference is missed: without a changed identity the programs are the same.
DiffComplete == (Changed = {}) = (before = after)

\* Verification says exactly whether the program is the same outside the scopes
\* and the scopes are still there.
VerifyExact ==
  \A scopes \in SUBSET (Ids(before) \ {<<>>}) :
    scopes # {} /\ Apart(scopes) =>
      (Verified(scopes) = /\ scopes \subseteq Ids(after)
                          /\ OutsideOf(before, scopes) = OutsideOf(after, scopes))

\* The same by tag: besides, every tagged SEP still has the tag, and none gained
\* it unseen.
TagExact ==
  TagVerified =>
    /\ OutsideOf(before, Tagged(before)) = OutsideOf(after, Tagged(before))
    /\ Tagged(after) = Tagged(before)

\* All three: a review sees every change, and exactly those outside the scopes.
ScopeExact == DiffComplete /\ VerifyExact /\ TagExact
=============================================================================
