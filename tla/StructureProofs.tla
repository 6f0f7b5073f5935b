---------------------------- MODULE StructureProofs ----------------------------
(***************************************************************************)
(* What a review says of a change, for programs of any size and any        *)
(* scopes: the difference misses nothing, and verification accepts a       *)
(* change exactly if the program is the same outside of the scopes.        *)
(*                                                                         *)
(* The argument is in three parts. Identities are paths that tell blocks   *)
(* apart (PathIs, IdentitiesDiffer). If no record outside of the scopes    *)
(* differs, the blocks seen from outside are the same in the same order:   *)
(* where two orders first differed, two nested blocks of one block would   *)
(* be the other way round (ListsAgree). And if all that is seen is the     *)
(* same, depths give the parents, parents and names the ordinals, and      *)
(* these the identities and the records (RecordsAgree).                    *)
(***************************************************************************)
EXTENDS Structure, FiniteSetTheorems, SequenceTheorems, WellFoundedInduction, TLAPS

\* A set of numbers has a least one, and if it is bounded a greatest one.
LEMMA LeastNatural ==
  ASSUME NEW S \in SUBSET Nat, S # {}
  PROVE  \E m \in S : \A n \in S : m <= n
<1>. DEFINE Less == {ss \in Nat \X Nat : ss[1] < ss[2]}
<1>1. IsWellFoundedOn(Less, Nat)
  BY NatLessThanWellFounded, Zenon DEF OpToRel
<1>2. \E m \in S : \A n \in S : <<n, m>> \notin Less
  <2>. HIDE DEF Less
  <2>. QED
    BY <1>1, WFMin, Zenon
<1>3. \A m, n \in Nat : <<n, m>> \in Less <=> n < m
  OBVIOUS
<1>4. PICK m \in S : \A n \in S : ~(n < m)
  <2>. HIDE DEF Less
  <2>. QED
    BY <1>2, <1>3
<1>. QED
  BY <1>4

\* The greatest, for a set up to n.
LEMMA GreatestFrom ==
  ASSUME NEW n \in Nat, NEW S \in SUBSET (0..n), S # {}
  PROVE  \E k \in S : \A j \in S : j <= k
<1>. DEFINE T == {n - k : k \in S}
<1>1. T \in SUBSET Nat /\ T # {}
  <2>1. \A k \in S : k \in 0..n /\ n - k \in Nat
    OBVIOUS
  <2>. QED
    BY <2>1
<1>2. PICK m \in T : \A x \in T : m <= x
  <2>. HIDE DEF T
  <2>. QED
    BY <1>1, LeastNatural
<1>3. PICK k \in S : m = n - k
  OBVIOUS
<1>4. \A j \in S : j \in 0..n /\ m <= n - j
  BY <1>2
<1>. QED
  BY <1>3, <1>4

----------------------------------------------------------------------------
(* Programs that are well nested, and how deep their blocks are.           *)

AnyNode == UNION {Nodes(d) : d \in 1..Deepest}
Reviewed(P) == P \in Seq(AnyNode) /\ WellNested(P)
StructureInv == Reviewed(before) /\ Reviewed(after)

\* How deep a block is; the program itself is not in any.
Deep(P, k) == IF k = 0 THEN 0 ELSE P[k].depth

\* What a block of a program has; only SEPs, at depth 1, are tagged.
LEMMA NodeIs ==
  ASSUME NEW node \in AnyNode
  PROVE  /\ node.depth \in 1..Deepest /\ node.name \in Names /\ node.content \in Contents /\ node.tagged \in BOOLEAN
         /\ node.depth # 1 => node.tagged = FALSE
         /\ node = [depth |-> node.depth, name |-> node.name, content |-> node.content, tagged |-> node.tagged]
<1>1. PICK d \in 1..Deepest : node \in Nodes(d)
  BY DEF AnyNode
<1>2. CASE d = 1
  <2>1. node \in [depth : {d}, name : Names, content : Contents, tagged : BOOLEAN]
    BY <1>1, <1>2 DEF Nodes
  <2>. QED
    BY <1>2, <2>1
<1>3. CASE d # 1
  <2>1. node \in [depth : {d}, name : Names, content : Contents, tagged : {FALSE}]
    BY <1>1, <1>3 DEF Nodes
  <2>. QED
    BY <1>3, <2>1
<1>. QED
  BY <1>2, <1>3

\* And whatever has that is a block.
LEMMA NodeHas ==
  ASSUME NEW d \in 1..Deepest, NEW name \in Names, NEW content \in Contents, NEW tagged \in BOOLEAN, d # 1 => tagged = FALSE
  PROVE  [depth |-> d, name |-> name, content |-> content, tagged |-> tagged] \in AnyNode
<1>1. [depth |-> d, name |-> name, content |-> content, tagged |-> tagged] \in Nodes(d)
  BY DEF Nodes
<1>. QED
  BY <1>1 DEF AnyNode

\* A well nested program: depths are positive and grow by one at most.
LEMMA ReviewedIs ==
  ASSUME NEW P, Reviewed(P)
  PROVE  /\ Len(P) \in Nat /\ DOMAIN P = 1..Len(P)
         /\ \A k \in 1..Len(P) : P[k] \in AnyNode /\ P[k].depth \in Nat \ {0} /\ Deep(P, k) = P[k].depth
         /\ Deep(P, 0) = 0 /\ \A k \in 0..Len(P) : Deep(P, k) \in Nat
         /\ \A k \in 1..Len(P) : Deep(P, k) <= Deep(P, k - 1) + 1
<1>1. Len(P) \in Nat /\ DOMAIN P = 1..Len(P)
  BY LenProperties DEF Reviewed
<1>2. \A k \in 1..Len(P) : P[k] \in AnyNode
  BY <1>1, ElementOfSeq DEF Reviewed
<1>3. \A k \in 1..Len(P) : P[k].depth \in Nat \ {0}
  <2>1. \A k \in 1..Len(P) : P[k].depth \in 1..Deepest
    BY <1>2, NodeIs
  <2>. QED
    BY <2>1, StructureAssumption
<1>4. \A k \in 1..Len(P) : P[k].depth <= IF k = 1 THEN 1 ELSE P[k - 1].depth + 1
  BY <1>1 DEF Reviewed, WellNested
<1>5. \A k \in 1..Len(P) : Deep(P, k) = P[k].depth
  BY DEF Deep
<1>6. Deep(P, 0) = 0
  BY DEF Deep
<1>7. ASSUME NEW k \in 1..Len(P) PROVE Deep(P, k) <= Deep(P, k - 1) + 1
  <2>1. CASE k = 1
    BY <2>1, <1>4, <1>5, <1>6
  <2>2. CASE k # 1
    <3>1. k - 1 \in 1..Len(P)
      BY <1>1, <2>2
    <3>. QED
      BY <2>2, <3>1, <1>4, <1>5
  <2>. QED
    BY <2>1, <2>2
<1>. QED
  BY <1>1, <1>2, <1>3, <1>5, <1>6, <1>7

----------------------------------------------------------------------------
(* Parents.                                                                *)

\* The parent is the nearest block above that is one less deep.
LEMMA ParentIs ==
  ASSUME NEW P, Reviewed(P), NEW k \in 1..Len(P)
  PROVE  /\ Parent(P, k) \in 0..(k - 1) /\ Parent(P, k) \in 0..Len(P)
         /\ Deep(P, Parent(P, k)) = Deep(P, k) - 1
         /\ \A j \in 1..Len(P) : Parent(P, k) < j /\ j < k => Deep(P, j) >= Deep(P, k)
<1>1. PICK n \in Nat : /\ n = Len(P) /\ k \in 1..n
                       /\ \A j \in 1..n : Deep(P, j) \in Nat \ {0} /\ P[j].depth = Deep(P, j)
                       /\ Deep(P, 0) = 0 /\ \A j \in 1..n : Deep(P, j) <= Deep(P, j - 1) + 1
  BY ReviewedIs
<1>. DEFINE above == {j \in 1..(k - 1) : P[j].depth < P[k].depth}
<1>2. above = {j \in 1..(k - 1) : Deep(P, j) < Deep(P, k)}
  BY <1>1
<1>3. CASE Deep(P, k) = 1
  <2>1. Parent(P, k) = 0
    BY <1>1, <1>3 DEF Parent
  <2>. QED
    BY <1>1, <1>3, <2>1
<1>4. CASE Deep(P, k) # 1
  <2>1. Parent(P, k) = Max(above)
    BY <1>1, <1>4 DEF Parent
  <2>2. k # 1 /\ 1 \in above
    <3>1. Deep(P, 1) <= 1
      <4>1. 1 \in 1..n
        BY <1>1
      <4>. QED
        BY <1>1, <4>1
    <3>. QED
      BY <1>1, <1>2, <1>4, <3>1
  <2>3. above \in SUBSET (0..(k - 1)) /\ k - 1 \in Nat
    BY <1>1
  <2>. HIDE DEF above
  <2>4. PICK m \in above : \A j \in above : j <= m
    BY <2>2, <2>3, GreatestFrom
  <2>5. Max(above) \in above /\ \A j \in above : j <= Max(above)
    <3>1. \A j \in above : m >= j
      BY <2>3, <2>4
    <3>2. Max(above) \in above /\ \A j \in above : Max(above) >= j
      BY <3>1 DEF Max
    <3>. QED
      BY <2>3, <3>2
  <2>6. PICK p \in 1..(k - 1) : /\ p = Parent(P, k) /\ Deep(P, p) < Deep(P, k)
                                /\ \A j \in 1..(k - 1) : Deep(P, j) < Deep(P, k) => j <= p
    BY <1>2, <2>1, <2>5 DEF above
  <2>7. \A j \in 1..n : p < j /\ j < k => Deep(P, j) >= Deep(P, k)
    BY <1>1, <2>6
  <2>8. Deep(P, p + 1) >= Deep(P, k)
    <3>1. p + 1 \in 1..n /\ (p + 1 = k \/ p + 1 < k)
      BY <1>1, <2>6
    <3>. QED
      BY <1>1, <2>6, <2>7, <3>1
  <2>9. Deep(P, p + 1) <= Deep(P, p) + 1
    <3>1. p + 1 \in 1..n /\ (p + 1) - 1 = p
      BY <1>1, <2>6
    <3>. QED
      BY <1>1, <3>1
  <2>10. Deep(P, p) = Deep(P, k) - 1
    <3>1. p \in 1..n /\ p + 1 \in 1..n
      BY <1>1, <2>6
    <3>. QED
      BY <1>1, <2>6, <2>8, <2>9, <3>1
  <2>. QED
    BY <1>1, <2>6, <2>7, <2>10
<1>. QED
  BY <1>3, <1>4

\* The parent is the only block one level up with nothing but deeper ones between.
LEMMA OneParent ==
  ASSUME NEW P, Reviewed(P), NEW k \in 1..Len(P), NEW p \in 0..(k - 1), Deep(P, p) = Deep(P, k) - 1,
         \A j \in 1..Len(P) : p < j /\ j < k => Deep(P, j) >= Deep(P, k)
  PROVE  p = Parent(P, k)
<1>1. PICK n \in Nat : n = Len(P) /\ \A j \in 0..n : Deep(P, j) \in Nat
  BY ReviewedIs
<1>2. PICK q \in 0..(k - 1) : /\ q = Parent(P, k) /\ Deep(P, q) = Deep(P, k) - 1
                              /\ \A j \in 1..n : q < j /\ j < k => Deep(P, j) >= Deep(P, k)
  BY <1>1, ParentIs
<1>3. ~(p < q)
  <2>1. p < q => q \in 1..n /\ q < k
    BY <1>1, <1>2
  <2>2. k \in 0..n /\ q \in 0..n
    BY <1>1, <1>2
  <2>. QED
    BY <1>1, <1>2, <2>1, <2>2
<1>4. ~(q < p)
  <2>1. q < p => p \in 1..n /\ p < k
    BY <1>1, <1>2
  <2>2. k \in 0..n /\ p \in 0..n
    BY <1>1, <1>2
  <2>. QED
    BY <1>1, <1>2, <2>1, <2>2
<1>. QED
  BY <1>2, <1>3, <1>4
----------------------------------------------------------------------------
(* Identities.                                                             *)

SameNamed(P, k) == {j \in 1..k : Parent(P, j) = Parent(P, k) /\ P[j].name = P[k].name}

\* An ordinal counts the blocks of one parent and name up to the block.
LEMMA OrdinalIs ==
  ASSUME NEW P, NEW k \in Nat
  PROVE  IsFiniteSet(SameNamed(P, k)) /\ Ordinal(P, k) = Cardinality(SameNamed(P, k)) /\ Ordinal(P, k) \in Nat
<1>1. IsFiniteSet(1..k) /\ SameNamed(P, k) \in SUBSET (1..k)
  BY FS_Interval DEF SameNamed
<1>2. IsFiniteSet(SameNamed(P, k))
  BY <1>1, FS_Subset
<1>3. Ordinal(P, k) = Cardinality(SameNamed(P, k))
  BY DEF Ordinal, SameNamed
<1>. QED
  BY <1>2, <1>3, FS_CardinalityType

\* Siblings of one name have different ordinals.
LEMMA OrdinalsDiffer ==
  ASSUME NEW P, NEW k \in Nat, NEW j \in 1..k, j # k, Parent(P, j) = Parent(P, k), P[j].name = P[k].name
  PROVE  Ordinal(P, j) # Ordinal(P, k)
<1>1. SameNamed(P, j) \in SUBSET SameNamed(P, k) /\ k \in SameNamed(P, k) /\ k \notin SameNamed(P, j)
  BY DEF SameNamed
<1>2. /\ IsFiniteSet(SameNamed(P, k)) /\ Ordinal(P, j) = Cardinality(SameNamed(P, j)) /\ Ordinal(P, k) = Cardinality(SameNamed(P, k))
  BY OrdinalIs
<1>3. Cardinality(SameNamed(P, k)) = Cardinality(SameNamed(P, j)) => SameNamed(P, k) = SameNamed(P, j)
  BY <1>1, <1>2, FS_Subset
<1>. QED
  BY <1>1, <1>2, <1>3

\* What a block adds to the path of its parent.
LEMMA SegmentIs ==
  ASSUME NEW P, Reviewed(P), NEW k \in 1..Len(P)
  PROVE  Segment(P, k) \in Names \X Nat /\ Segment(P, k)[1] = P[k].name /\ Segment(P, k)[2] = Ordinal(P, k)
<1>1. k \in Nat /\ P[k].name \in Names
  <2>1. Len(P) \in Nat /\ P[k] \in AnyNode
    BY ReviewedIs
  <2>2. P[k].name \in Names
    BY <2>1, NodeIs
  <2>. QED
    BY <2>1, <2>2
<1>2. Ordinal(P, k) \in Nat
  BY <1>1, OrdinalIs
<1>. QED
  BY <1>1, <1>2 DEF Segment

Path == Seq(Names \X Nat)

\* A path determines its last segment and what is before it.
LEMMA PathInjective ==
  ASSUME NEW s \in Path, NEW t \in Path, NEW x \in Names \X Nat, NEW y \in Names \X Nat, Append(s, x) = Append(t, y)
  PROVE  s = t /\ x = y
BY AppendInjective DEF Path

\* The identity of a block is its segment behind the identity of its parent.
LEMMA IdentityIs ==
  ASSUME NEW P, Reviewed(P)
  PROVE  /\ Identity(P, 0) = <<>>
         /\ \A k \in 1..Len(P) : Identity(P, k) = Append(Identity(P, Parent(P, k)), Segment(P, k))
<1>. DEFINE At(f, i) == IF i = 0 THEN <<>> ELSE Append(f[Parent(P, i)], Segment(P, i))
            To(n, f) == f = [i \in 0..n |-> At(f, i)]
            Missing  == {n \in 0..Len(P) : \A f : ~To(n, f)}
<1>0. Len(P) \in Nat /\ \A i \in 1..Len(P) : Parent(P, i) \in 0..(i - 1)
  BY ReviewedIs, ParentIs
<1>1. Missing = {}
  <2>1. SUFFICES ASSUME Missing # {} PROVE FALSE
    OBVIOUS
  <2>2. PICK m \in Missing : \A n \in Missing : m <= n
    <3>1. Missing \in SUBSET Nat
      BY <1>0
    <3>. QED
      BY <2>1, <3>1, LeastNatural
  <2>3. To(0, [i \in 0..0 |-> <<>>])
    OBVIOUS
  <2>4. m \in 1..Len(P) /\ m - 1 \in 0..Len(P) /\ m - 1 \notin Missing
    <3>1. 0 \notin Missing
      <4>. HIDE DEF To
      <4>. QED
        BY <2>3
    <3>2. m \in 0..Len(P) /\ m # 0 /\ \A n \in Missing : m <= n
      <4>. HIDE DEF To
      <4>. QED
        BY <2>2, <3>1
    <3>3. m \in 1..Len(P) /\ m - 1 \in 0..Len(P) /\ ~(m <= m - 1)
      BY <1>0, <3>2
    <3>. QED
      BY <3>2, <3>3, Zenon
  <2>5. PICK f : To(m - 1, f)
    BY <2>4
  <2>. DEFINE g == [i \in 0..m |-> IF i = m THEN Append(f[Parent(P, i)], Segment(P, i)) ELSE f[i]]
  <2>6. \A i \in 0..(m - 1) : g[i] = f[i]
    BY <1>0, <2>4
  <2>7. \A i \in 0..m : g[i] = At(g, i)
    <3>1. TAKE i \in 0..m
    <3>2. CASE i = m
      <4>1. Parent(P, i) \in 0..(m - 1) /\ i # 0
        BY <1>0, <2>4, <3>2
      <4>. QED
        BY <2>4, <2>6, <3>2, <4>1
    <3>3. CASE i # m
      <4>1. i \in 0..(m - 1) /\ (i # 0 => Parent(P, i) \in 0..(m - 1))
        BY <1>0, <2>4, <3>3
      <4>2. f[i] = At(f, i)
        BY <2>5, <4>1
      <4>3. i # 0 => g[Parent(P, i)] = f[Parent(P, i)]
        BY <2>6, <4>1
      <4>. QED
        BY <2>6, <4>1, <4>2, <4>3
    <3>. QED
      BY <3>2, <3>3
  <2>8. To(m, g)
    BY <2>7
  <2>. QED
    BY <2>2, <2>8
<1>2. \E f : To(Len(P), f)
  BY <1>0, <1>1
<1>3. Identities(P) = CHOOSE f : To(Len(P), f)
  BY DEF Identities
<1>4. To(Len(P), Identities(P))
  <2>. HIDE DEF To
  <2>. QED
    BY <1>2, <1>3, Zenon
<1>5. \A i \in 0..Len(P) : Identities(P)[i] = IF i = 0 THEN <<>> ELSE Append(Identities(P)[Parent(P, i)], Segment(P, i))
  BY <1>4
<1>6. 0 \in 0..Len(P) /\ \A k \in 1..Len(P) : k \in 0..Len(P) /\ k # 0
  BY <1>0
<1>7. Identities(P)[0] = <<>> /\ \A k \in 1..Len(P) : Identities(P)[k] = Append(Identities(P)[Parent(P, k)], Segment(P, k))
  <2>1. Identities(P)[0] = <<>>
    BY <1>5, <1>6
  <2>. QED
    BY <1>5, <1>6, <2>1
<1>. QED
  BY <1>7 DEF Identity

\* A path has a name for every level.
LEMMA PathIs ==
  ASSUME NEW P, Reviewed(P), NEW k \in 0..Len(P)
  PROVE  Identity(P, k) \in Path /\ Len(Identity(P, k)) = Deep(P, k)
<1>. DEFINE Fits(i) == Identity(P, i) \in Path /\ Len(Identity(P, i)) = Deep(P, i)
            Wrong   == {i \in 0..Len(P) : ~Fits(i)}
<1>1. Len(P) \in Nat
  BY ReviewedIs
<1>2. SUFFICES ASSUME Wrong # {} PROVE FALSE
  OBVIOUS
<1>3. PICK m \in Wrong : \A i \in Wrong : m <= i
  <2>1. Wrong \in SUBSET Nat
    BY <1>1
  <2>. HIDE DEF Wrong
  <2>. QED
    BY <1>2, <2>1, LeastNatural
<1>4. m # 0
  <2>1. Fits(0)
    <3>1. Identity(P, 0) = <<>> /\ Deep(P, 0) = 0
      BY IdentityIs, ReviewedIs
    <3>2. <<>> \in Seq(Names \X Nat) /\ Len(<<>>) = 0
      OBVIOUS
    <3>. QED
      BY <3>1, <3>2 DEF Path
  <2>. QED
    BY <2>1, <1>3
<1>5. m \in 1..Len(P)
  BY <1>1, <1>3, <1>4
<1>6. PICK p \in 0..(m - 1) : p = Parent(P, m) /\ p \in 0..Len(P) /\ Deep(P, p) = Deep(P, m) - 1 /\ Deep(P, m) \in Nat
  BY <1>5, ParentIs, ReviewedIs
<1>7. Fits(p)
  <2>1. ~(m <= p)
    BY <1>5, <1>6
  <2>2. p \notin Wrong
    <3>. HIDE DEF Wrong
    <3>. QED
      BY <1>3, <2>1
  <2>. QED
    BY <1>6, <2>2
<1>8. Identity(P, m) = Append(Identity(P, p), Segment(P, m)) /\ Segment(P, m) \in Names \X Nat
  BY <1>5, <1>6, IdentityIs, SegmentIs
<1>9. Identity(P, m) \in Path /\ Len(Identity(P, m)) = Len(Identity(P, p)) + 1
  <2>1. PICK s \in Seq(Names \X Nat), x \in Names \X Nat : /\ s = Identity(P, p) /\ x = Segment(P, m)
                                                          /\ Identity(P, m) = Append(s, x)
    BY <1>7, <1>8 DEF Path
  <2>2. Append(s, x) \in Seq(Names \X Nat) /\ Len(Append(s, x)) = Len(s) + 1
    BY AppendProperties
  <2>. QED
    BY <2>1, <2>2 DEF Path
<1>10. Fits(m)
  BY <1>6, <1>7, <1>9
<1>. QED
  BY <1>3, <1>10

\* No two blocks have one identity.
LEMMA IdentitiesDiffer ==
  ASSUME NEW P, Reviewed(P), NEW j \in 0..Len(P), NEW k \in 0..Len(P), Identity(P, j) = Identity(P, k)
  PROVE  j = k
<1>. DEFINE Alone(i) == \A h \in 0..(i - 1) : Identity(P, h) # Identity(P, i)
            Wrong    == {i \in 0..Len(P) : ~Alone(i)}
<1>0. Len(P) \in Nat
  BY ReviewedIs
<1>1. Wrong = {}
  <2>1. SUFFICES ASSUME Wrong # {} PROVE FALSE
    OBVIOUS
  <2>2. PICK m \in Wrong : \A i \in Wrong : m <= i
    <3>1. Wrong \in SUBSET Nat
      BY <1>0
    <3>. HIDE DEF Wrong
    <3>. QED
      BY <2>1, <3>1, LeastNatural
  <2>3. PICK h \in 0..(m - 1) : Identity(P, h) = Identity(P, m)
    BY <2>2
  <2>4. m \in 1..Len(P) /\ h \in 0..Len(P) /\ h < m
    BY <1>0, <2>2, <2>3
  <2>5. h # 0
    <3>1. Len(Identity(P, m)) = Deep(P, m) /\ Deep(P, m) # 0
      BY <2>4, PathIs, ReviewedIs
    <3>2. Len(Identity(P, 0)) = 0
      BY IdentityIs
    <3>. QED
      BY <2>3, <3>1, <3>2
  <2>6. h \in 1..Len(P)
    BY <2>4, <2>5
  <2>7. PICK p \in 0..(m - 1) : p = Parent(P, m) /\ p \in 0..Len(P)
    BY <2>4, ParentIs
  <2>8. PICK q \in 0..(h - 1) : q = Parent(P, h) /\ q \in 0..Len(P)
    BY <2>6, ParentIs
  <2>9. /\ Identity(P, p) \in Path /\ Identity(P, q) \in Path
        /\ Segment(P, m) \in Names \X Nat /\ Segment(P, h) \in Names \X Nat
        /\ Append(Identity(P, p), Segment(P, m)) = Append(Identity(P, q), Segment(P, h))
    <3>1. Identity(P, p) \in Path /\ Identity(P, q) \in Path
      BY <2>7, <2>8, PathIs
    <3>2. Segment(P, m) \in Names \X Nat /\ Segment(P, h) \in Names \X Nat
      BY <2>4, <2>6, SegmentIs
    <3>3. Append(Identity(P, p), Segment(P, m)) = Append(Identity(P, q), Segment(P, h))
      BY <2>3, <2>4, <2>6, <2>7, <2>8, IdentityIs
    <3>. QED
      BY <3>1, <3>2, <3>3
  <2>10. Identity(P, p) = Identity(P, q) /\ Segment(P, m) = Segment(P, h)
    <3>1. Identity(P, p) = Identity(P, q)
      BY <2>9, PathInjective
    <3>2. Segment(P, m) = Segment(P, h)
      BY <2>9, PathInjective
    <3>. QED
      BY <3>1, <3>2
  <2>11. p = q
    <3>1. CASE p < q
      <4>1. q \in 0..Len(P) /\ ~(m <= q) /\ p \in 0..(q - 1)
        BY <2>4, <2>7, <2>8, <3>1
      <4>2. q \notin Wrong
        <5>. HIDE DEF Wrong
        <5>. QED
          BY <2>2, <4>1
      <4>. QED
        BY <2>10, <4>1, <4>2
    <3>2. CASE q < p
      <4>1. p \in 0..Len(P) /\ ~(m <= p) /\ q \in 0..(p - 1)
        BY <2>4, <2>7, <2>8, <3>2
      <4>2. p \notin Wrong
        <5>. HIDE DEF Wrong
        <5>. QED
          BY <2>2, <4>1
      <4>. QED
        BY <2>10, <4>1, <4>2
    <3>. QED
      BY <2>7, <2>8, <3>1, <3>2
  <2>12. P[h].name = P[m].name /\ Ordinal(P, h) = Ordinal(P, m)
    BY <2>4, <2>6, <2>10, SegmentIs
  <2>13. m \in Nat /\ h \in 1..m /\ h # m
    BY <2>4, <2>6
  <2>. QED
    BY <2>7, <2>8, <2>11, <2>12, <2>13, OrdinalsDiffer
<1>2. Alone(j) /\ Alone(k)
  BY <1>1
<1>3. j < k => j \in 0..(k - 1)
  BY <1>0
<1>4. k < j => k \in 0..(j - 1)
  BY <1>0
<1>5. j < k \/ k < j \/ j = k
  BY <1>0
<1>. QED
  BY <1>2, <1>3, <1>4, <1>5
----------------------------------------------------------------------------
(* The numbers of a set in order.                                          *)

Rising(s) == \A i, j \in 1..Len(s) : i < j => s[i] < s[j]

\* The recursion by which a set of numbers is listed.
LEMMA OrderedIs ==
  ASSUME NEW set, NEW n \in Nat
  PROVE  /\ Ordered(set, n)[0] = <<>>
         /\ \A k \in 1..n : Ordered(set, n)[k] = IF k \in set THEN Append(Ordered(set, n)[k - 1], k) ELSE Ordered(set, n)[k - 1]
<1>. DEFINE At(f, i) == IF i = 0 THEN <<>> ELSE IF i \in set THEN Append(f[i - 1], i) ELSE f[i - 1]
            To(m, f) == f = [i \in 0..m |-> At(f, i)]
            Missing  == {m \in 0..n : \A f : ~To(m, f)}
<1>1. Missing = {}
  <2>1. SUFFICES ASSUME Missing # {} PROVE FALSE
    OBVIOUS
  <2>2. PICK m \in Missing : \A i \in Missing : m <= i
    <3>1. Missing \in SUBSET Nat
      OBVIOUS
    <3>. QED
      BY <2>1, <3>1, LeastNatural
  <2>3. To(0, [i \in 0..0 |-> <<>>])
    OBVIOUS
  <2>4. m \in 1..n /\ m - 1 \in 0..n /\ m - 1 \notin Missing
    <3>1. 0 \notin Missing
      <4>. HIDE DEF To
      <4>. QED
        BY <2>3
    <3>2. m \in 0..n /\ m # 0 /\ \A i \in Missing : m <= i
      <4>. HIDE DEF To
      <4>. QED
        BY <2>2, <3>1
    <3>3. m \in 1..n /\ m - 1 \in 0..n /\ ~(m <= m - 1)
      BY <3>2
    <3>. QED
      BY <3>2, <3>3, Zenon
  <2>5. PICK f : To(m - 1, f)
    BY <2>4
  <2>. DEFINE g == [i \in 0..m |-> IF i = m THEN At(f, i) ELSE f[i]]
  <2>6. \A i \in 0..(m - 1) : g[i] = f[i]
    BY <2>4
  <2>7. \A i \in 0..m : g[i] = At(g, i)
    <3>1. TAKE i \in 0..m
    <3>2. CASE i = m
      BY <2>4, <2>6, <3>2
    <3>3. CASE i # m
      <4>1. i \in 0..(m - 1) /\ (i # 0 => i - 1 \in 0..(m - 1))
        BY <2>4, <3>3
      <4>2. f[i] = At(f, i)
        BY <2>5, <4>1
      <4>. QED
        BY <2>6, <4>1, <4>2
    <3>. QED
      BY <3>2, <3>3
  <2>8. To(m, g)
    BY <2>7
  <2>. QED
    BY <2>2, <2>8
<1>2. \E f : To(n, f)
  <2>1. n \in 0..n
    OBVIOUS
  <2>. HIDE DEF To
  <2>. QED
    BY <1>1, <2>1
<1>3. Ordered(set, n) = CHOOSE f : To(n, f)
  BY DEF Ordered
<1>4. To(n, Ordered(set, n))
  <2>. HIDE DEF To
  <2>. QED
    BY <1>2, <1>3, Zenon
<1>5. \A i \in 0..n : Ordered(set, n)[i] = At(Ordered(set, n), i)
  BY <1>4
<1>. QED
  BY <1>5

\* The list of a set of numbers is rising and has each of them.
LEMMA InOrderIs ==
  ASSUME NEW n \in Nat, NEW set \in SUBSET (1..n)
  PROVE  /\ InOrder(set, n) \in Seq(1..n) /\ Rising(InOrder(set, n))
         /\ \A x : x \in set <=> \E i \in 1..Len(InOrder(set, n)) : InOrder(set, n)[i] = x
<1>. DEFINE f       == Ordered(set, n)
            Lists(s, k) == /\ s \in Seq(1..n) /\ Rising(s)
                           /\ \A i \in 1..Len(s) : s[i] \in set /\ s[i] <= k
                           /\ \A x \in set : x <= k => \E i \in 1..Len(s) : s[i] = x
            Wrong   == {k \in 0..n : ~Lists(f[k], k)}
<1>1. ASSUME NEW k \in 1..n, NEW s, Lists(s, k - 1) PROVE Lists(IF k \in set THEN Append(s, k) ELSE s, k)
  <2>0. s \in Seq(1..n) /\ Len(s) \in Nat /\ \A i \in 1..Len(s) : s[i] \in 1..n /\ s[i] <= k - 1
    <3>1. s \in Seq(1..n) /\ \A i \in 1..Len(s) : s[i] <= k - 1
      BY <1>1
    <3>2. Len(s) \in Nat /\ \A i \in 1..Len(s) : s[i] \in 1..n
      BY <3>1, LenProperties, ElementOfSeq
    <3>. QED
      BY <3>1, <3>2
  <2>1. CASE k \notin set
    <3>1. \A x \in set : x <= k => x <= k - 1
      BY <2>1
    <3>2. \A i \in 1..Len(s) : s[i] <= k
      BY <2>0
    <3>. QED
      BY <1>1, <2>1, <3>1, <3>2
  <2>2. CASE k \in set
    <3>1. PICK t : t = Append(s, k)
      OBVIOUS
    <3>2. /\ t \in Seq(1..n) /\ Len(t) = Len(s) + 1 /\ \A i \in 1..Len(s) : t[i] = s[i]
          /\ t[Len(s) + 1] = k
      BY <2>0, <3>1, AppendProperties
    <3>3. Rising(t)
      <4>1. \A i, j \in 1..Len(s) : i < j => s[i] < s[j]
        BY <1>1 DEF Rising
      <4>2. ASSUME NEW i \in 1..Len(t), NEW j \in 1..Len(t), i < j PROVE t[i] < t[j]
        <5>1. i \in 1..Len(s) /\ (j \in 1..Len(s) \/ j = Len(s) + 1)
          <6>1. PICK q \in Nat : q = Len(s) /\ Len(t) = q + 1
            BY <2>0, <3>2
          <6>. QED
            BY <4>2, <6>1
        <5>2. CASE j \in 1..Len(s)
          BY <3>2, <4>1, <4>2, <5>1, <5>2
        <5>3. CASE j = Len(s) + 1
          <6>1. t[j] = k /\ t[i] = s[i] /\ s[i] <= k - 1 /\ s[i] \in 1..n
            BY <2>0, <3>2, <5>1, <5>3
          <6>. QED
            BY <6>1
        <5>. QED
          BY <5>1, <5>2, <5>3
      <4>. QED
        BY <4>2 DEF Rising
    <3>4. \A i \in 1..Len(t) : t[i] \in set /\ t[i] <= k
      <4>1. ASSUME NEW i \in 1..Len(t) PROVE t[i] \in set /\ t[i] <= k
        <5>1. i \in 1..Len(s) \/ i = Len(s) + 1
          BY <2>0, <3>2
        <5>2. CASE i \in 1..Len(s)
          <6>1. t[i] = s[i] /\ s[i] <= k - 1 /\ s[i] \in 1..n /\ s[i] \in set
            BY <1>1, <2>0, <3>2, <5>2
          <6>. QED
            BY <6>1
        <5>3. CASE i = Len(s) + 1
          BY <2>2, <3>2, <5>3
        <5>. QED
          BY <5>1, <5>2, <5>3
      <4>. QED
        BY <4>1
    <3>5. \A x \in set : x <= k => \E i \in 1..Len(t) : t[i] = x
      <4>1. ASSUME NEW x \in set, x <= k PROVE \E i \in 1..Len(t) : t[i] = x
        <5>1. CASE x = k
          <6>1. Len(s) + 1 \in 1..Len(t)
            BY <2>0, <3>2
          <6>. QED
            BY <3>2, <5>1, <6>1
        <5>2. CASE x # k
          <6>1. x <= k - 1
            BY <4>1, <5>2
          <6>2. PICK i \in 1..Len(s) : s[i] = x
            BY <1>1, <6>1
          <6>3. i \in 1..Len(t)
            BY <2>0, <3>2
          <6>. QED
            BY <3>2, <6>2, <6>3
        <5>. QED
          BY <5>1, <5>2
      <4>. QED
        BY <4>1
    <3>6. Lists(t, k)
      BY <3>2, <3>3, <3>4, <3>5
    <3>. QED
      BY <2>2, <3>1, <3>6
  <2>. QED
    BY <2>1, <2>2
<1>2. Lists(<<>>, 0)
  <2>1. <<>> \in Seq(1..n) /\ Len(<<>>) = 0
    OBVIOUS
  <2>2. \A i, j \in 1..Len(<<>>) : FALSE
    BY <2>1
  <2>3. \A x \in set : ~(x <= 0)
    OBVIOUS
  <2>. QED
    BY <2>1, <2>2, <2>3 DEF Rising
<1>3. f[0] = <<>> /\ \A k \in 1..n : f[k] = IF k \in set THEN Append(f[k - 1], k) ELSE f[k - 1]
  BY OrderedIs
<1>. HIDE DEF f, Lists
<1>4. Wrong = {}
  <2>1. SUFFICES ASSUME Wrong # {} PROVE FALSE
    OBVIOUS
  <2>2. PICK m \in Wrong : \A i \in Wrong : m <= i
    <3>1. Wrong \in SUBSET Nat
      OBVIOUS
    <3>. HIDE DEF Wrong
    <3>. QED
      BY <2>1, <3>1, LeastNatural
  <2>3. m # 0
    BY <1>2, <1>3, <2>2
  <2>4. m \in 1..n /\ m - 1 \in 0..n /\ ~(m <= m - 1)
    BY <2>2, <2>3
  <2>5. m - 1 \notin Wrong
    <3>. HIDE DEF Wrong
    <3>. QED
      BY <2>2, <2>4
  <2>6. Lists(f[m - 1], m - 1)
    BY <2>4, <2>5
  <2>7. Lists(f[m], m)
    BY <1>1, <1>3, <2>4, <2>6
  <2>. QED
    BY <2>2, <2>7
<1>5. Lists(f[n], n)
  BY <1>4
<1>. USE DEF f
<1>6. InOrder(set, n) = f[n] /\ \A x \in set : x <= n
  BY DEF InOrder
<1>. HIDE DEF f
<1>. QED
  BY <1>5, <1>6 DEF Lists

\* A rising list is determined by what is in it.
LEMMA RisingAgree ==
  ASSUME NEW s \in Seq(Nat), NEW t \in Seq(Nat), Rising(s), Rising(t),
         \A x \in Nat : (\E i \in 1..Len(s) : s[i] = x) <=> (\E i \in 1..Len(t) : t[i] = x)
  PROVE  s = t
<1>1. PICK m \in Nat, n \in Nat : /\ m = Len(s) /\ n = Len(t)
                                  /\ \A i \in 1..m : s[i] \in Nat
                                  /\ \A i \in 1..n : t[i] \in Nat
                                  /\ \A i, j \in 1..m : i < j => s[i] < s[j]
                                  /\ \A i, j \in 1..n : i < j => t[i] < t[j]
  <2>1. Len(s) \in Nat /\ Len(t) \in Nat
    BY LenProperties
  <2>2. /\ \A i \in 1..Len(s) : s[i] \in Nat
        /\ \A i \in 1..Len(t) : t[i] \in Nat
    BY <2>1, ElementOfSeq
  <2>. QED
    BY <2>1, <2>2 DEF Rising
<1>. DEFINE Agreed(i) == i <= m /\ i <= n /\ s[i] = t[i]
            Wrong   == {i \in Nat \ {0} : (i <= m \/ i <= n) /\ ~Agreed(i)}
<1>2. Wrong = {}
  <2>1. SUFFICES ASSUME Wrong # {} PROVE FALSE
    OBVIOUS
  <2>2. PICK k \in Wrong : \A i \in Wrong : k <= i
    <3>1. Wrong \in SUBSET Nat
      OBVIOUS
    <3>. HIDE DEF Wrong
    <3>. QED
      BY <2>1, <3>1, LeastNatural
  <2>3. \A i \in 1..(k - 1) : Agreed(i)
    <3>1. TAKE i \in 1..(k - 1)
    <3>2. i \in Nat \ {0} /\ ~(k <= i) /\ (i <= m \/ i <= n)
      BY <2>2
    <3>3. i \notin Wrong
      <4>. HIDE DEF Wrong
      <4>. QED
        BY <2>2, <3>2
    <3>. QED
      BY <3>2, <3>3
  <2>4. ASSUME k <= m, k <= n => s[k] < t[k] PROVE FALSE
    <3>1. k \in 1..m
      BY <2>2, <2>4
    <3>2. PICK j \in 1..n : t[j] = s[k]
      BY <1>1, <3>1
    <3>3. CASE j < k
      <4>1. j \in 1..(k - 1) /\ j \in 1..m /\ k \in 1..m
        BY <3>1, <3>3
      <4>2. s[j] = s[k] /\ s[j] < s[k]
        BY <1>1, <2>3, <3>2, <3>3, <4>1
      <4>. QED
        BY <1>1, <4>1, <4>2
    <3>4. CASE j >= k
      <4>1. k \in 1..n /\ j \in 1..n /\ (j = k \/ k < j)
        BY <3>1, <3>4
      <4>2. s[k] < t[k] /\ t[k] <= t[j]
        <5>1. s[k] < t[k]
          BY <2>4, <4>1
        <5>2. t[k] \in Nat /\ t[j] \in Nat /\ (k < j => t[k] < t[j])
          BY <1>1, <4>1
        <5>. QED
          BY <4>1, <5>1, <5>2
      <4>3. s[k] \in Nat /\ t[k] \in Nat /\ t[j] \in Nat
        BY <1>1, <3>1, <4>1
      <4>. QED
        BY <3>2, <4>2, <4>3
    <3>. QED
      BY <3>1, <3>3, <3>4
  <2>5. ASSUME k <= n, k <= m => t[k] < s[k] PROVE FALSE
    <3>1. k \in 1..n
      BY <2>2, <2>5
    <3>2. PICK j \in 1..m : s[j] = t[k]
      BY <1>1, <3>1
    <3>3. CASE j < k
      <4>1. j \in 1..(k - 1) /\ j \in 1..n /\ k \in 1..n
        BY <3>1, <3>3
      <4>2. t[j] = t[k] /\ t[j] < t[k]
        BY <1>1, <2>3, <3>2, <3>3, <4>1
      <4>. QED
        BY <1>1, <4>1, <4>2
    <3>4. CASE j >= k
      <4>1. k \in 1..m /\ j \in 1..m /\ (j = k \/ k < j)
        BY <3>1, <3>4
      <4>2. t[k] < s[k] /\ s[k] <= s[j]
        <5>1. t[k] < s[k]
          BY <2>5, <4>1
        <5>2. s[k] \in Nat /\ s[j] \in Nat /\ (k < j => s[k] < s[j])
          BY <1>1, <4>1
        <5>. QED
          BY <4>1, <5>1, <5>2
      <4>3. t[k] \in Nat /\ s[k] \in Nat /\ s[j] \in Nat
        BY <1>1, <3>1, <4>1
      <4>. QED
        BY <3>2, <4>2, <4>3
    <3>. QED
      BY <3>1, <3>3, <3>4
  <2>6. k <= m /\ k <= n /\ s[k] # t[k] => s[k] < t[k] \/ t[k] < s[k]
    <3>1. k <= m /\ k <= n => s[k] \in Nat /\ t[k] \in Nat
      BY <1>1, <2>2
    <3>. QED
      BY <3>1
  <2>7. (k <= m \/ k <= n) /\ ~Agreed(k)
    BY <2>2
  <2>. QED
    BY <2>4, <2>5, <2>6, <2>7
<1>3. \A i \in Nat \ {0} : i <= m \/ i <= n => Agreed(i)
  BY <1>2
<1>4. m = n
  <2>1. m # 0 => m <= n
    BY <1>3
  <2>2. n # 0 => n <= m
    BY <1>3
  <2>. QED
    BY <2>1, <2>2
<1>5. \A i \in 1..m : s[i] = t[i]
  BY <1>3
<1>. QED
  BY <1>1, <1>4, <1>5, SeqEqual
----------------------------------------------------------------------------
(* Scopes.                                                                 *)

\* A path is before another if that has its segments.
LEMMA PrefixIs ==
  ASSUME NEW s \in Path, NEW t \in Path
  PROVE  IsPrefix(s, t) <=> Len(s) <= Len(t) /\ \A i \in 1..Len(s) : s[i] = t[i]
<1>1. Len(s) \in Nat /\ Len(t) \in Nat
  BY LenProperties DEF Path
<1>2. SubSeq(s, 1, Len(s)) = s
  BY SubSeqFull DEF Path
<1>3. ASSUME Len(s) <= Len(t)
      PROVE  /\ SubSeq(t, 1, Len(s)) \in Path /\ Len(SubSeq(t, 1, Len(s))) = Len(s)
             /\ \A i \in 1..Len(s) : SubSeq(t, 1, Len(s))[i] = t[i]
  <2>1. PICK n \in Nat, m \in Nat : n = Len(s) /\ m = Len(t) /\ n <= m
    BY <1>1, <1>3
  <2>2. \A i \in 1..m : t[i] \in Names \X Nat
    BY <2>1, ElementOfSeq DEF Path
  <2>3. \A i \in 1..n : t[i] \in Names \X Nat
    BY <2>1, <2>2
  <2>4. /\ SubSeq(t, 1, n) \in Seq(Names \X Nat)
        /\ Len(SubSeq(t, 1, n)) = IF 1 <= n THEN n - 1 + 1 ELSE 0
        /\ \A i \in 1..(n - 1 + 1) : SubSeq(t, 1, n)[i] = t[1 + i - 1]
    BY <2>3, SubSeqProperties
  <2>5. Len(SubSeq(t, 1, n)) = n /\ \A i \in 1..n : SubSeq(t, 1, n)[i] = t[i]
    <3>1. n - 1 + 1 = n /\ \A i \in 1..n : 1 + i - 1 = i
      OBVIOUS
    <3>2. \A i \in 1..n : SubSeq(t, 1, n)[i] = t[i]
      BY <2>4, <3>1
    <3>3. Len(SubSeq(t, 1, n)) = n
      BY <2>4, <3>1
    <3>. QED
      BY <3>2, <3>3
  <2>. QED
    BY <2>1, <2>4, <2>5 DEF Path
<1>4. ASSUME Len(s) <= Len(t), \A i \in 1..Len(s) : s[i] = t[i] PROVE s = SubSeq(t, 1, Len(s))
  <2>1. PICK u \in Seq(Names \X Nat) : u = SubSeq(t, 1, Len(s)) /\ Len(u) = Len(s) /\ \A i \in 1..Len(s) : u[i] = t[i]
    BY <1>3, <1>4 DEF Path
  <2>. QED
    BY <1>4, <2>1, SeqEqual DEF Path
<1>. QED
  BY <1>2, <1>3, <1>4 DEF IsPrefix

\* What is before a path of one more segment.
LEMMA PrefixesAre ==
  ASSUME NEW s \in Path, NEW t \in Path, NEW x \in Names \X Nat
  PROVE  /\ IsPrefix(s, s) /\ (IsPrefix(s, t) => Len(s) <= Len(t) /\ IsPrefix(s, Append(t, x)))
         /\ IsPrefix(s, Append(t, x)) => s = Append(t, x) \/ IsPrefix(s, t)
<1>1. PICK u \in Path, m \in Nat, n \in Nat :
        /\ u = Append(t, x) /\ m = Len(s) /\ n = Len(t) /\ Len(u) = n + 1 /\ \A i \in 1..n : u[i] = t[i]
  <2>1. /\ Append(t, x) \in Path /\ Len(Append(t, x)) = Len(t) + 1 /\ \A i \in 1..Len(t) : Append(t, x)[i] = t[i]
    BY AppendProperties DEF Path
  <2>2. Len(s) \in Nat /\ Len(t) \in Nat
    BY LenProperties DEF Path
  <2>. QED
    BY <2>1, <2>2
<1>2. IsPrefix(s, s)
  BY <1>1, PrefixIs
<1>3. IsPrefix(s, t) <=> m <= n /\ \A i \in 1..m : s[i] = t[i]
  BY <1>1, PrefixIs
<1>4. IsPrefix(s, u) <=> m <= n + 1 /\ \A i \in 1..m : s[i] = u[i]
  BY <1>1, PrefixIs
<1>5. IsPrefix(s, t) => m <= n /\ IsPrefix(s, u)
  <2>1. ASSUME m <= n, \A i \in 1..m : s[i] = t[i] PROVE m <= n + 1 /\ \A i \in 1..m : s[i] = u[i]
    <3>1. \A i \in 1..m : i \in 1..n
      BY <2>1
    <3>. QED
      BY <1>1, <2>1, <3>1
  <2>. QED
    BY <1>3, <1>4, <2>1
<1>6. ASSUME IsPrefix(s, u) PROVE s = u \/ IsPrefix(s, t)
  <2>1. CASE m = n + 1
    <3>1. s \in Seq(Names \X Nat) /\ u \in Seq(Names \X Nat) /\ Len(s) = Len(u) /\ \A i \in 1..Len(s) : s[i] = u[i]
      BY <1>1, <1>4, <1>6, <2>1 DEF Path
    <3>. QED
      BY <3>1, SeqEqual
  <2>2. CASE m # n + 1
    <3>1. m <= n /\ \A i \in 1..m : i \in 1..n
      BY <1>4, <1>6, <2>2
    <3>2. \A i \in 1..m : s[i] = t[i]
      BY <1>1, <1>4, <1>6, <3>1
    <3>. QED
      BY <1>3, <3>1, <3>2
  <2>. QED
    BY <2>1, <2>2
<1>. QED
  BY <1>1, <1>2, <1>5, <1>6

Scoped(scopes) == scopes \in SUBSET Path /\ <<>> \notin scopes /\ Apart(scopes)

\* The file is in no scope, a scope in itself.
LEMMA ScopesAre ==
  ASSUME NEW scopes, Scoped(scopes)
  PROVE  /\ ~Inside(<<>>, scopes) /\ \A id \in scopes : Inside(id, scopes)
<1>1. ASSUME NEW s \in scopes PROVE IsPrefix(s, s) /\ ~IsPrefix(s, <<>>)
  <2>1. s \in Path /\ <<>> \in Path /\ s # <<>>
    BY DEF Scoped, Path
  <2>2. IsPrefix(s, s)
    BY <2>1, PrefixIs
  <2>3. IsPrefix(s, <<>>) => Len(s) <= Len(<<>>)
    BY <2>1, PrefixIs
  <2>4. Len(<<>>) = 0 /\ Len(s) \in Nat /\ (Len(s) = 0 => s = <<>>)
    BY <2>1, EmptySeq, LenProperties DEF Path
  <2>. QED
    BY <2>1, <2>2, <2>3, <2>4
<1>. QED
  BY <1>1 DEF Inside

\* What is seen from outside the scopes is in blocks outside of them.
LEMMA SeenParent ==
  ASSUME NEW P, Reviewed(P), NEW scopes, Scoped(scopes), NEW k \in Seen(P, scopes)
  PROVE  ~Inside(Identity(P, Parent(P, k)), scopes)
<1>1. k \in 1..Len(P) /\ (Inside(Identity(P, k), scopes) => Identity(P, k) \in scopes)
  BY DEF Seen
<1>2. PICK t \in Path, x \in Names \X Nat : t = Identity(P, Parent(P, k)) /\ x = Segment(P, k) /\ Identity(P, k) = Append(t, x)
  <2>1. Identity(P, Parent(P, k)) \in Path
    BY <1>1, ParentIs, PathIs
  <2>2. Segment(P, k) \in Names \X Nat /\ Identity(P, k) = Append(Identity(P, Parent(P, k)), Segment(P, k))
    BY <1>1, SegmentIs, IdentityIs
  <2>. QED
    BY <2>1, <2>2
<1>3. SUFFICES ASSUME NEW s \in scopes, IsPrefix(s, t) PROVE FALSE
  BY <1>2 DEF Inside
<1>4. s \in Path
  BY DEF Scoped
<1>5. IsPrefix(s, Append(t, x)) /\ Len(s) <= Len(t)
  BY <1>3, <1>4, PrefixesAre
<1>6. Append(t, x) \in scopes
  BY <1>1, <1>2, <1>5 DEF Inside
<1>7. s = Append(t, x)
  BY <1>5, <1>6 DEF Scoped, Apart
<1>8. Len(Append(t, x)) = Len(t) + 1 /\ Len(t) \in Nat
  BY AppendProperties, LenProperties DEF Path
<1>. QED
  BY <1>5, <1>7, <1>8

\* A block whose parent is outside of the scopes is seen, in a scope or not.
LEMMA SeenChild ==
  ASSUME NEW P, Reviewed(P), NEW scopes, Scoped(scopes), NEW k \in 1..Len(P), ~Inside(Identity(P, Parent(P, k)), scopes)
  PROVE  k \in Seen(P, scopes)
<1>2. PICK t \in Path, x \in Names \X Nat : t = Identity(P, Parent(P, k)) /\ x = Segment(P, k) /\ Identity(P, k) = Append(t, x)
  <2>1. Identity(P, Parent(P, k)) \in Path
    BY ParentIs, PathIs
  <2>2. Segment(P, k) \in Names \X Nat /\ Identity(P, k) = Append(Identity(P, Parent(P, k)), Segment(P, k))
    BY SegmentIs, IdentityIs
  <2>. QED
    BY <2>1, <2>2
<1>3. ASSUME NEW s \in scopes, IsPrefix(s, Append(t, x)) PROVE Append(t, x) \in scopes
  <2>1. s = Append(t, x) \/ IsPrefix(s, t)
    BY <1>3, PrefixesAre DEF Scoped
  <2>2. ~IsPrefix(s, t)
    BY <1>2 DEF Inside
  <2>. QED
    BY <2>1, <2>2
<1>. QED
  BY <1>2, <1>3 DEF Seen, Inside

\* What is seen: the blocks outside of the scopes, and those that are scopes.
LEMMA SeenIs ==
  ASSUME NEW P, Reviewed(P), NEW scopes
  PROVE  /\ Seen(P, scopes) \in SUBSET (1..Len(P))
         /\ \A k \in 1..Len(P) : k \in Seen(P, scopes) <=> (~Inside(Identity(P, k), scopes) \/ Identity(P, k) \in scopes)
BY DEF Seen

----------------------------------------------------------------------------
(* Lists of blocks.                                                        *)

\* A list of blocks that has the i-th and all its earlier siblings of the same name.
HasSiblings(P, e, i) ==
  /\ e \in Seq(1..Len(P)) /\ Rising(e) /\ i \in 1..Len(e)
  /\ \A j \in SameNamed(P, e[i]) : \E h \in 1..Len(e) : e[h] = j

\* Where the list has them.
Siblings(P, e, i) == {h \in 1..i : Parent(P, e[h]) = Parent(P, e[i]) /\ P[e[h]].name = P[e[i]].name}

\* Ordinals can be counted in a list of blocks that has all the siblings.
LEMMA OrdinalCounted ==
  ASSUME NEW P, Reviewed(P), NEW e, NEW i, HasSiblings(P, e, i)
  PROVE  Ordinal(P, e[i]) = Cardinality(Siblings(P, e, i))
<1>. /\ e \in Seq(1..Len(P)) /\ Rising(e) /\ i \in 1..Len(e)
     /\ \A j \in SameNamed(P, e[i]) : \E h \in 1..Len(e) : e[h] = j
  BY DEF HasSiblings
<1>. DEFINE T == {h \in 1..i : Parent(P, e[h]) = Parent(P, e[i]) /\ P[e[h]].name = P[e[i]].name}
            A == SameNamed(P, e[i])
            f == [h \in T |-> e[h]]
<1>1. PICK m \in Nat, n \in Nat : m = Len(e) /\ n = Len(P) /\ \A h \in 1..m : e[h] \in 1..n
  <2>1. Len(e) \in Nat /\ Len(P) \in Nat
    BY ReviewedIs, LenProperties
  <2>2. \A h \in 1..Len(e) : e[h] \in 1..Len(P)
    BY <2>1, ElementOfSeq
  <2>. QED
    BY <2>1, <2>2
<1>2. \A h, g \in 1..m : h < g => e[h] < e[g]
  BY <1>1 DEF Rising
<1>3. i \in 1..m /\ e[i] \in 1..n /\ \A h \in 1..i : h \in 1..m /\ e[h] \in 1..n /\ (h = i \/ h < i)
  BY <1>1
<1>4. ASSUME NEW h \in T PROVE e[h] \in A
  <2>1. h \in 1..m /\ e[h] \in 1..n /\ (h = i \/ e[h] < e[i])
    BY <1>2, <1>3
  <2>2. e[h] \in 1..e[i]
    BY <1>3, <2>1
  <2>. QED
    BY <2>2 DEF SameNamed
<1>5. ASSUME NEW j \in A PROVE \E h \in T : e[h] = j
  <2>1. PICK h \in 1..m : e[h] = j
    BY <1>1
  <2>2. j <= e[i] /\ j \in 1..e[i] /\ Parent(P, j) = Parent(P, e[i]) /\ P[j].name = P[e[i]].name
    BY <1>3 DEF SameNamed
  <2>3. ~(i < h)
    <3>1. i < h => e[i] < e[h]
      BY <1>2, <1>3
    <3>. QED
      BY <1>1, <1>3, <2>1, <2>2, <3>1
  <2>4. h \in 1..i
    BY <1>3, <2>1, <2>3
  <2>. QED
    BY <2>1, <2>2, <2>4
<1>6. \A h, g \in T : e[h] = e[g] => h = g
  <2>1. SUFFICES ASSUME NEW h \in T, NEW g \in T, e[h] = e[g] PROVE h = g
    OBVIOUS
  <2>2. h \in 1..m /\ g \in 1..m /\ e[h] \in 1..n
    BY <1>3
  <2>3. ~(h < g) /\ ~(g < h)
    BY <1>2, <2>1, <2>2
  <2>. QED
    BY <2>2, <2>3
<1>7. f \in Injection(T, A)
  <2>1. f \in [T -> A]
    <3>. HIDE DEF T, A
    <3>. QED
      BY <1>4
  <2>2. \A h, g \in T : f[h] = f[g] => h = g
    <3>. HIDE DEF T, A
    <3>. QED
      BY <1>6
  <2>. HIDE DEF T, A, f
  <2>. QED
    BY <2>1, <2>2 DEF Injection, IsInjective
<1>8. f \in Surjection(T, A)
  <2>1. f \in [T -> A]
    <3>. HIDE DEF T, A
    <3>. QED
      BY <1>4
  <2>2. \A j \in A : \E h \in T : f[h] = j
    <3>. HIDE DEF T, A
    <3>. QED
      BY <1>5
  <2>. HIDE DEF T, A, f
  <2>. QED
    BY <2>1, <2>2 DEF Surjection
<1>9. IsFiniteSet(A) /\ Ordinal(P, e[i]) = Cardinality(A)
  BY <1>3, OrdinalIs
<1>10. Cardinality(T) = Cardinality(A)
  <2>. HIDE DEF T, A, f
  <2>. QED
    BY <1>7, <1>8, <1>9, FS_Injection
<1>. QED
  BY <1>9, <1>10 DEF Siblings

\* The children of a block, in the order of the program.
LEMMA ChildrenAre ==
  ASSUME NEW P, Reviewed(P), NEW k
  PROVE  /\ Children(P, k) \in Seq(1..Len(P)) /\ Rising(Children(P, k)) /\ Len(Children(P, k)) \in Nat
         /\ DOMAIN Children(P, k) = 1..Len(Children(P, k))
         /\ \A j \in 1..Len(P) : Parent(P, j) = k <=> \E i \in 1..Len(Children(P, k)) : Children(P, k)[i] = j
         /\ \A i \in 1..Len(Children(P, k)) : Children(P, k)[i] \in 1..Len(P) /\ Parent(P, Children(P, k)[i]) = k
<1>. DEFINE set == {j \in 1..Len(P) : Parent(P, j) = k}
<1>1. Len(P) \in Nat /\ set \in SUBSET (1..Len(P))
  BY ReviewedIs
<1>2. Children(P, k) = InOrder(set, Len(P))
  BY DEF Children
<1>3. \A j : j \in set <=> j \in 1..Len(P) /\ Parent(P, j) = k
  OBVIOUS
<1>. HIDE DEF set
<1>4. /\ InOrder(set, Len(P)) \in Seq(1..Len(P)) /\ Rising(InOrder(set, Len(P)))
      /\ \A x : x \in set <=> \E i \in 1..Len(InOrder(set, Len(P))) : InOrder(set, Len(P))[i] = x
  BY <1>1, InOrderIs
<1>5. /\ Len(Children(P, k)) \in Nat /\ DOMAIN Children(P, k) = 1..Len(Children(P, k))
  BY <1>2, <1>4, LenProperties
<1>. QED
  BY <1>2, <1>3, <1>4, <1>5

KidNames(P, k) == [i \in 1..Len(Children(P, k)) |-> P[Children(P, k)[i]].name]

\* Blocks of one identity, with nested blocks of the same names, have nested blocks of
\* the same identities.
LEMMA KidsAgree ==
  ASSUME NEW P, Reviewed(P), NEW Q, Reviewed(Q), NEW k, NEW l, Identity(P, k) = Identity(Q, l), KidNames(P, k) = KidNames(Q, l)
  PROVE  /\ Len(Children(P, k)) = Len(Children(Q, l))
         /\ \A i \in 1..Len(Children(P, k)) : Identity(P, Children(P, k)[i]) = Identity(Q, Children(Q, l)[i])
<1>1. PICK c \in Seq(1..Len(P)), n \in Nat :
        /\ c = Children(P, k) /\ Rising(c) /\ n = Len(c)
        /\ \A j \in 1..Len(P) : Parent(P, j) = k <=> \E i \in 1..n : c[i] = j
        /\ \A i \in 1..n : c[i] \in 1..Len(P) /\ Parent(P, c[i]) = k
  <2>1. /\ Children(P, k) \in Seq(1..Len(P)) /\ Rising(Children(P, k)) /\ Len(Children(P, k)) \in Nat
    BY ChildrenAre
  <2>2. \A j \in 1..Len(P) : Parent(P, j) = k <=> \E i \in 1..Len(Children(P, k)) : Children(P, k)[i] = j
    BY ChildrenAre
  <2>3. \A i \in 1..Len(Children(P, k)) : Children(P, k)[i] \in 1..Len(P) /\ Parent(P, Children(P, k)[i]) = k
    BY ChildrenAre
  <2>. QED
    BY <2>1, <2>2, <2>3
<1>2. PICK d \in Seq(1..Len(Q)), m \in Nat :
        /\ d = Children(Q, l) /\ Rising(d) /\ m = Len(d)
        /\ \A j \in 1..Len(Q) : Parent(Q, j) = l <=> \E i \in 1..m : d[i] = j
        /\ \A i \in 1..m : d[i] \in 1..Len(Q) /\ Parent(Q, d[i]) = l
  <2>1. /\ Children(Q, l) \in Seq(1..Len(Q)) /\ Rising(Children(Q, l)) /\ Len(Children(Q, l)) \in Nat
    BY ChildrenAre
  <2>2. \A j \in 1..Len(Q) : Parent(Q, j) = l <=> \E i \in 1..Len(Children(Q, l)) : Children(Q, l)[i] = j
    BY ChildrenAre
  <2>3. \A i \in 1..Len(Children(Q, l)) : Children(Q, l)[i] \in 1..Len(Q) /\ Parent(Q, Children(Q, l)[i]) = l
    BY ChildrenAre
  <2>. QED
    BY <2>1, <2>2, <2>3
<1>3. KidNames(P, k) = [i \in 1..n |-> P[c[i]].name] /\ KidNames(Q, l) = [i \in 1..m |-> Q[d[i]].name]
  BY <1>1, <1>2 DEF KidNames
<1>4. n = m
  <2>1. DOMAIN KidNames(P, k) = 1..n /\ DOMAIN KidNames(Q, l) = 1..m
    BY <1>3
  <2>2. 1..n = 1..m
    BY <2>1
  <2>3. n \in 1..n \/ n = 0
    OBVIOUS
  <2>4. m \in 1..m \/ m = 0
    OBVIOUS
  <2>5. (n \in 1..m \/ n = 0) /\ (m \in 1..n \/ m = 0)
    BY <2>2, <2>3, <2>4
  <2>. QED
    BY <2>5
<1>5. \A i \in 1..n : P[c[i]].name = Q[d[i]].name
  <2>1. TAKE i \in 1..n
  <2>2. KidNames(P, k)[i] = P[c[i]].name
    BY <1>3
  <2>3. i \in 1..m
    BY <1>4
  <2>4. KidNames(Q, l)[i] = Q[d[i]].name
    BY <1>3, <2>3
  <2>. QED
    BY <2>2, <2>4
<1>6. ASSUME NEW i \in 1..n PROVE Identity(P, c[i]) = Identity(Q, d[i])
  <2>1. c[i] \in 1..Len(P) /\ d[i] \in 1..Len(Q) /\ Parent(P, c[i]) = k /\ Parent(Q, d[i]) = l
    BY <1>1, <1>2, <1>4
  <2>2. Siblings(P, c, i) = Siblings(Q, d, i)
    <3>1. \A h \in 1..i : h \in 1..n
      OBVIOUS
    <3>2. \A h \in 1..i : /\ Parent(P, c[h]) = Parent(P, c[i]) /\ Parent(Q, d[h]) = Parent(Q, d[i])
                          /\ P[c[h]].name = Q[d[h]].name /\ P[c[i]].name = Q[d[i]].name
      BY <1>1, <1>2, <1>4, <1>5, <3>1
    <3>. QED
      BY <3>2 DEF Siblings
  <2>3. Ordinal(P, c[i]) = Cardinality(Siblings(P, c, i))
    <3>1. \A j \in SameNamed(P, c[i]) : \E h \in 1..Len(c) : c[h] = j
      <4>1. \A j \in SameNamed(P, c[i]) : j \in 1..c[i] /\ Parent(P, j) = k
        BY <2>1 DEF SameNamed
      <4>2. \A j \in 1..c[i] : j \in 1..Len(P)
        BY <2>1, ReviewedIs
      <4>. QED
        BY <1>1, <4>1, <4>2
    <3>2. i \in 1..Len(c)
      BY <1>1
    <3>. QED
      <4>1. HasSiblings(P, c, i)
        BY <1>1, <3>1, <3>2 DEF HasSiblings
      <4>. QED
        BY <4>1, OrdinalCounted
  <2>4. Ordinal(Q, d[i]) = Cardinality(Siblings(Q, d, i))
    <3>1. \A j \in SameNamed(Q, d[i]) : \E h \in 1..Len(d) : d[h] = j
      <4>1. \A j \in SameNamed(Q, d[i]) : j \in 1..d[i] /\ Parent(Q, j) = l
        BY <2>1 DEF SameNamed
      <4>2. \A j \in 1..d[i] : j \in 1..Len(Q)
        BY <2>1, ReviewedIs
      <4>. QED
        BY <1>2, <4>1, <4>2
    <3>2. i \in 1..Len(d)
      BY <1>2, <1>4
    <3>. QED
      <4>1. HasSiblings(Q, d, i)
        BY <1>2, <3>1, <3>2 DEF HasSiblings
      <4>. QED
        BY <4>1, OrdinalCounted
  <2>5. Ordinal(P, c[i]) = Ordinal(Q, d[i])
    BY <2>2, <2>3, <2>4
  <2>6. Segment(P, c[i]) = Segment(Q, d[i])
    BY <1>5, <2>5 DEF Segment
  <2>7. Identity(P, c[i]) = Append(Identity(P, k), Segment(P, c[i]))
    BY <2>1, IdentityIs
  <2>8. Identity(Q, d[i]) = Append(Identity(Q, l), Segment(Q, d[i]))
    BY <2>1, IdentityIs
  <2>. QED
    BY <2>6, <2>7, <2>8
<1>. QED
  BY <1>1, <1>2, <1>4, <1>6

\* The record of an identity is of the one block that has it.
LEMMA RecordIs ==
  ASSUME NEW P, Reviewed(P), NEW k \in 0..Len(P)
  PROVE  Record(P, Identity(P, k)) = Own(P, k)
<1>1. {j \in 0..Len(P) : Identity(P, j) = Identity(P, k)} = {k}
  BY IdentitiesDiffer
<1>2. Max({k}) = k
  <2>1. k >= k
    BY ReviewedIs
  <2>. QED
    BY <2>1 DEF Max
<1>. QED
  BY <1>1, <1>2 DEF Record

\* What the record of a block says.
LEMMA OwnIs ==
  ASSUME NEW P, Reviewed(P), NEW k
  PROVE  Own(P, k) = <<IF k = 0 THEN <<>> ELSE <<P[k].content, P[k].tagged>>, KidNames(P, k)>>
BY ChildrenAre DEF Own, Own_WithoutChildren, KidNames
----------------------------------------------------------------------------
(* What is outside of the scopes.                                          *)

\* Blocks of one identity have a name, a depth and the identity of their parent in common.
LEMMA SameIdentity ==
  ASSUME NEW P, Reviewed(P), NEW Q, Reviewed(Q), NEW k \in 1..Len(P), NEW l \in 1..Len(Q), Identity(P, k) = Identity(Q, l)
  PROVE  /\ P[k].name = Q[l].name /\ Deep(P, k) = Deep(Q, l)
         /\ Identity(P, Parent(P, k)) = Identity(Q, Parent(Q, l))
<1>1. PICK s \in Path, x \in Names \X Nat :
        s = Identity(P, Parent(P, k)) /\ Identity(P, k) = Append(s, x) /\ x[1] = P[k].name
  <2>1. Identity(P, Parent(P, k)) \in Path
    BY ParentIs, PathIs
  <2>. QED
    BY <2>1, SegmentIs, IdentityIs
<1>2. PICK t \in Path, y \in Names \X Nat :
        t = Identity(Q, Parent(Q, l)) /\ Identity(Q, l) = Append(t, y) /\ y[1] = Q[l].name
  <2>1. Identity(Q, Parent(Q, l)) \in Path
    BY ParentIs, PathIs
  <2>. QED
    BY <2>1, SegmentIs, IdentityIs
<1>3. s = t /\ x = y
  <2>1. Append(s, x) = Append(t, y)
    BY <1>1, <1>2
  <2>. QED
    BY <2>1, PathInjective
<1>4. Deep(P, k) = Deep(Q, l)
  <2>1. Len(Identity(P, k)) = Deep(P, k) /\ Len(Identity(Q, l)) = Deep(Q, l)
    <3>1. k \in 0..Len(P) /\ l \in 0..Len(Q)
      BY ReviewedIs
    <3>. QED
      BY <3>1, PathIs
  <2>. QED
    BY <2>1
<1>. QED
  BY <1>1, <1>2, <1>3, <1>4

Listed(P, scopes) == InOrder(Seen(P, scopes), Len(P))

\* The list of what is seen, in the order of the program.
LEMMA ListedIs ==
  ASSUME NEW P, Reviewed(P), NEW scopes, Scoped(scopes)
  PROVE  LET e == Listed(P, scopes)
         IN  /\ e \in Seq(1..Len(P)) /\ Rising(e) /\ Len(e) \in Nat /\ DOMAIN e = 1..Len(e)
             /\ \A k \in 1..Len(P) : k \in Seen(P, scopes) => \E i \in 1..Len(e) : e[i] = k
             /\ \A i \in 1..Len(e) : e[i] \in 1..Len(P) /\ e[i] \in Seen(P, scopes)
<1>1. Len(P) \in Nat /\ Seen(P, scopes) \in SUBSET (1..Len(P))
  BY ReviewedIs, SeenIs
<1>2. Listed(P, scopes) \in Seq(1..Len(P)) /\ Rising(Listed(P, scopes))
  BY <1>1, InOrderIs DEF Listed
<1>3. \A x : x \in Seen(P, scopes) <=> \E i \in 1..Len(Listed(P, scopes)) : Listed(P, scopes)[i] = x
  BY <1>1, InOrderIs DEF Listed
<1>4. Len(Listed(P, scopes)) \in Nat /\ DOMAIN Listed(P, scopes) = 1..Len(Listed(P, scopes))
  BY <1>2, LenProperties
<1>5. \A i \in 1..Len(Listed(P, scopes)) : Listed(P, scopes)[i] \in Seen(P, scopes)
  BY <1>3
<1>6. \A i \in 1..Len(Listed(P, scopes)) : Listed(P, scopes)[i] \in 1..Len(P)
  BY <1>1, <1>5
<1>. QED
  BY <1>2, <1>3, <1>4, <1>5, <1>6

\* The parent of a block in the list is the root or is in the list, before it.
LEMMA ListedParent ==
  ASSUME NEW P, Reviewed(P), NEW scopes, Scoped(scopes), NEW i \in 1..Len(Listed(P, scopes))
  PROVE  \/ Parent(P, Listed(P, scopes)[i]) = 0
         \/ \E h \in 1..(i - 1) : Listed(P, scopes)[h] = Parent(P, Listed(P, scopes)[i])
<1>1. PICK e \in Seq(1..Len(P)), m \in Nat :
        /\ e = Listed(P, scopes) /\ Rising(e) /\ m = Len(e)
        /\ \A k \in 1..Len(P) : k \in Seen(P, scopes) => \E h \in 1..m : e[h] = k
        /\ \A h \in 1..m : e[h] \in 1..Len(P) /\ e[h] \in Seen(P, scopes)
  BY ListedIs
<1>2. i \in 1..m /\ e[i] \in 1..Len(P) /\ e[i] \in Seen(P, scopes) /\ Len(P) \in Nat
  BY <1>1, ReviewedIs
<1>3. ~Inside(Identity(P, Parent(P, e[i])), scopes)
  BY <1>2, SeenParent
<1>4. Parent(P, e[i]) \in 0..(e[i] - 1) /\ Parent(P, e[i]) \in 0..Len(P)
  BY <1>2, ParentIs
<1>5. ASSUME Parent(P, e[i]) # 0 PROVE \E h \in 1..(i - 1) : e[h] = Parent(P, e[i])
  <2>1. Parent(P, e[i]) \in 1..Len(P)
    BY <1>4, <1>5
  <2>2. Parent(P, e[i]) \in Seen(P, scopes)
    BY <1>3, <2>1, SeenIs
  <2>3. PICK h \in 1..m : e[h] = Parent(P, e[i])
    BY <1>1, <2>1, <2>2
  <2>4. e[h] \in Nat /\ e[i] \in Nat /\ e[h] < e[i]
    BY <1>2, <1>4, <2>3
  <2>5. i < h => e[i] < e[h]
    BY <1>1, <1>2 DEF Rising
  <2>6. h < i
    BY <1>2, <2>4, <2>5
  <2>. QED
    BY <1>2, <2>3, <2>6
<1>. QED
  BY <1>1, <1>5

\* With a block, its siblings are in the list.
LEMMA ListedSiblings ==
  ASSUME NEW P, Reviewed(P), NEW scopes, Scoped(scopes), NEW i \in 1..Len(Listed(P, scopes)),
         NEW j \in 1..Len(P), Parent(P, j) = Parent(P, Listed(P, scopes)[i])
  PROVE  \E h \in 1..Len(Listed(P, scopes)) : Listed(P, scopes)[h] = j
<1>1. Listed(P, scopes)[i] \in 1..Len(P) /\ Listed(P, scopes)[i] \in Seen(P, scopes)
  BY ListedIs
<1>2. ~Inside(Identity(P, Parent(P, j)), scopes)
  BY <1>1, SeenParent
<1>3. j \in Seen(P, scopes)
  BY <1>2, SeenChild
<1>. QED
  BY <1>3, ListedIs

\* structural_diff finds nothing outside of the scopes.
SameOutside(P, Q, scopes) ==
  \A id \in Ids(P) \cup Ids(Q) :
    ~Inside(id, scopes) => id \in Ids(P) /\ id \in Ids(Q) /\ Record(P, id) = Record(Q, id)

\* Then the same identities are seen.
LEMMA SeenInBoth ==
  ASSUME NEW P, Reviewed(P), NEW Q, Reviewed(Q), NEW scopes, Scoped(scopes), SameOutside(P, Q, scopes),
         scopes \subseteq Ids(Q)
  PROVE  \A i \in 1..Len(Listed(P, scopes)) :
           \E j \in 1..Len(Listed(Q, scopes)) : Identity(Q, Listed(Q, scopes)[j]) = Identity(P, Listed(P, scopes)[i])
<1>. TAKE i \in 1..Len(Listed(P, scopes))
<1>. DEFINE k  == Listed(P, scopes)[i]
            id == Identity(P, k)
<1>1. k \in 1..Len(P) /\ k \in Seen(P, scopes) /\ Len(P) \in Nat
  BY ListedIs, ReviewedIs
<1>. HIDE DEF k
<1>2. (~Inside(id, scopes) \/ id \in scopes) /\ id \in Ids(P)
  BY <1>1, SeenIs DEF Ids
<1>3. id \in Ids(Q)
  BY <1>2 DEF SameOutside
<1>4. PICK l \in 0..Len(Q) : Identity(Q, l) = id
  BY <1>3 DEF Ids
<1>5. l \in 1..Len(Q)
  <2>1. Len(id) = Deep(P, k) /\ Deep(P, k) \in Nat \ {0}
    <3>1. k \in 0..Len(P)
      BY <1>1
    <3>2. Deep(P, k) \in Nat \ {0}
      BY <1>1, ReviewedIs
    <3>. QED
      BY <3>1, <3>2, PathIs
  <2>2. Len(Identity(Q, l)) = Deep(Q, l)
    BY PathIs
  <2>3. Deep(Q, 0) = 0 /\ Len(Q) \in Nat
    BY ReviewedIs
  <2>. QED
    BY <1>4, <2>1, <2>2, <2>3
<1>6. l \in Seen(Q, scopes)
  BY <1>2, <1>4, <1>5, SeenIs
<1>7. \E j \in 1..Len(Listed(Q, scopes)) : Listed(Q, scopes)[j] = l
  BY <1>5, <1>6, ListedIs
<1>. QED
  BY <1>4, <1>7 DEF k
\* Agreement outside of the scopes is symmetric.
LEMMA SameOutsideBack ==
  ASSUME NEW P, NEW Q, NEW scopes, SameOutside(P, Q, scopes)
  PROVE  SameOutside(Q, P, scopes)
BY DEF SameOutside

\* Where two lists first differ: the block the other program has there comes later in this
\* one, in the same parent, so it cannot be deeper than the block that is there.
LEMMA Later ==
  ASSUME NEW P, Reviewed(P), NEW Q, Reviewed(Q), NEW scopes, Scoped(scopes),
         NEW i \in 1..Len(Listed(P, scopes)), i \in 1..Len(Listed(Q, scopes)),
         \A h \in 1..(i - 1) : Identity(P, Listed(P, scopes)[h]) = Identity(Q, Listed(Q, scopes)[h]),
         NEW j \in 1..Len(Listed(P, scopes)), i < j,
         Identity(P, Listed(P, scopes)[j]) = Identity(Q, Listed(Q, scopes)[i])
  PROVE  /\ Listed(P, scopes)[i] < Listed(P, scopes)[j]
         /\ Parent(P, Listed(P, scopes)[j]) < Listed(P, scopes)[i]
         /\ Deep(P, Listed(P, scopes)[j]) <= Deep(P, Listed(P, scopes)[i])
<1>1. PICK e \in Seq(1..Len(P)), m \in Nat :
        e = Listed(P, scopes) /\ Rising(e) /\ m = Len(e) /\ \A h \in 1..m : e[h] \in 1..Len(P)
  BY ListedIs
<1>2. PICK f \in Seq(1..Len(Q)), l \in Nat :
        f = Listed(Q, scopes) /\ l = Len(f) /\ \A h \in 1..l : f[h] \in 1..Len(Q)
  BY ListedIs
<1>3. i \in 1..m /\ j \in 1..m /\ i \in 1..l /\ e[i] \in 1..Len(P) /\ e[j] \in 1..Len(P) /\ f[i] \in 1..Len(Q) /\ Len(P) \in Nat
  BY <1>1, <1>2, ReviewedIs
<1>4. e[i] < e[j]
  BY <1>1, <1>3 DEF Rising
<1>5. Identity(P, Parent(P, e[j])) = Identity(Q, Parent(Q, f[i]))
  BY <1>1, <1>2, <1>3, SameIdentity
<1>6. Parent(P, e[j]) \in 0..(e[j] - 1) /\ Parent(P, e[j]) \in 0..Len(P)
  BY <1>3, ParentIs
<1>7. Parent(P, e[j]) < e[i]
  <2>1. Parent(Q, f[i]) = 0 \/ \E h \in 1..(i - 1) : f[h] = Parent(Q, f[i])
    BY <1>2, <1>3, ListedParent
  <2>2. CASE Parent(Q, f[i]) = 0
    <3>1. Identity(P, Parent(P, e[j])) = Identity(P, 0)
      BY <1>5, <2>2, IdentityIs
    <3>2. Parent(P, e[j]) = 0
      <4>1. 0 \in 0..Len(P)
        BY <1>3
      <4>. QED
        BY <1>6, <3>1, <4>1, IdentitiesDiffer
    <3>. QED
      BY <1>3, <3>2
  <2>3. ASSUME NEW h \in 1..(i - 1), f[h] = Parent(Q, f[i]) PROVE Parent(P, e[j]) < e[i]
    <3>1. Identity(P, Parent(P, e[j])) = Identity(P, e[h])
      BY <1>1, <1>2, <1>5, <2>3
    <3>2. h \in 1..m /\ h < i
      BY <1>3
    <3>3. e[h] \in 1..Len(P) /\ e[h] < e[i]
      BY <1>1, <1>3, <3>2 DEF Rising
    <3>4. e[h] \in 0..Len(P)
      BY <1>3, <3>3
    <3>5. Parent(P, e[j]) = e[h]
      BY <1>6, <3>1, <3>4, IdentitiesDiffer
    <3>. QED
      BY <3>3, <3>5
  <2>. QED
    BY <2>1, <2>2, <2>3
<1>8. Deep(P, e[i]) >= Deep(P, e[j])
  BY <1>3, <1>4, <1>7, ParentIs
<1>9. Deep(P, e[i]) \in Nat /\ Deep(P, e[j]) \in Nat
  <2>1. \A k \in 1..Len(P) : k \in 0..Len(P)
    BY <1>3
  <2>2. e[i] \in 0..Len(P) /\ e[j] \in 0..Len(P)
    BY <1>3, <2>1
  <2>. QED
    BY <2>2, ReviewedIs
<1>10. Deep(P, e[j]) <= Deep(P, e[i])
  BY <1>8, <1>9
<1>. QED
  BY <1>1, <1>4, <1>7, <1>10

\* If neither is deeper, both are blocks of one parent.
LEMMA LaterSibling ==
  ASSUME NEW P, Reviewed(P), NEW i \in 1..Len(P), NEW j \in 1..Len(P), i < j, Parent(P, j) < i, Deep(P, j) = Deep(P, i)
  PROVE  Parent(P, i) = Parent(P, j)
<1>1. Len(P) \in Nat /\ Parent(P, j) \in 0..(j - 1) /\ Deep(P, Parent(P, j)) = Deep(P, i) - 1
  BY ReviewedIs, ParentIs
<1>2. Parent(P, j) \in 0..(i - 1)
  BY <1>1
<1>3. \A h \in 1..Len(P) : Parent(P, j) < h /\ h < j => Deep(P, h) >= Deep(P, j)
  BY ParentIs
<1>4. \A h \in 1..Len(P) : Parent(P, j) < h /\ h < i => Deep(P, h) >= Deep(P, i)
  BY <1>1, <1>3
<1>. QED
  BY <1>1, <1>2, <1>4, OneParent

\* Blocks of a parent are in order among its children.
LEMMA ChildAt ==
  ASSUME NEW P, Reviewed(P), NEW k, NEW i \in 1..Len(P), NEW j \in 1..Len(P), Parent(P, i) = k, Parent(P, j) = k, i < j
  PROVE  \E a, b \in 1..Len(Children(P, k)) : a < b /\ Children(P, k)[a] = i /\ Children(P, k)[b] = j
<1>1. PICK a \in 1..Len(Children(P, k)) : Children(P, k)[a] = i
  BY ChildrenAre
<1>2. PICK b \in 1..Len(Children(P, k)) : Children(P, k)[b] = j
  BY ChildrenAre
<1>3. Len(Children(P, k)) \in Nat /\ Len(P) \in Nat
  BY ChildrenAre, ReviewedIs
<1>4. b < a => Children(P, k)[b] < Children(P, k)[a]
  BY ChildrenAre DEF Rising
<1>5. ~(b < a) /\ a # b
  BY <1>1, <1>2, <1>3, <1>4
<1>. QED
  BY <1>1, <1>2, <1>3, <1>5
\* Two blocks of a parent are not the other way round where the names are in the same order.
LEMMA Unswapped ==
  ASSUME NEW P, Reviewed(P), NEW Q, Reviewed(Q), NEW k, NEW l, Identity(P, k) = Identity(Q, l), KidNames(P, k) = KidNames(Q, l),
         NEW i \in 1..Len(P), NEW j \in 1..Len(P), Parent(P, i) = k, Parent(P, j) = k, i < j,
         NEW g \in 1..Len(Q), NEW h \in 1..Len(Q), Parent(Q, g) = l, Parent(Q, h) = l, g < h,
         Identity(P, j) = Identity(Q, g)
  PROVE  Identity(P, i) # Identity(Q, h)
<1>1. SUFFICES ASSUME Identity(P, i) = Identity(Q, h) PROVE FALSE
  OBVIOUS
<1>2. PICK n \in Nat : n = Len(Children(P, k)) /\ n = Len(Children(Q, l))
  BY ChildrenAre, KidsAgree
<1>3. PICK a, b \in 1..n : a < b /\ Children(P, k)[a] = i /\ Children(P, k)[b] = j
  <2>1. \E a, b \in 1..Len(Children(P, k)) : a < b /\ Children(P, k)[a] = i /\ Children(P, k)[b] = j
    BY ChildAt
  <2>. QED
    BY <1>2, <2>1
<1>4. PICK c, d \in 1..n : c < d /\ Children(Q, l)[c] = g /\ Children(Q, l)[d] = h
  <2>1. \E c, d \in 1..Len(Children(Q, l)) : c < d /\ Children(Q, l)[c] = g /\ Children(Q, l)[d] = h
    BY ChildAt
  <2>. QED
    BY <1>2, <2>1
<1>5. \A o \in 1..n : Identity(P, Children(P, k)[o]) = Identity(Q, Children(Q, l)[o]) /\ Children(P, k)[o] \in 1..Len(P)
  <2>1. \A o \in 1..Len(Children(P, k)) : Identity(P, Children(P, k)[o]) = Identity(Q, Children(Q, l)[o])
    BY KidsAgree
  <2>2. \A o \in 1..Len(Children(P, k)) : Children(P, k)[o] \in 1..Len(P)
    BY ChildrenAre
  <2>. QED
    BY <1>2, <2>1, <2>2
<1>6. \A o, u \in 1..n : o < u => Children(P, k)[o] < Children(P, k)[u]
  BY <1>2, ChildrenAre DEF Rising
<1>7. \A o, u \in 1..n : Identity(P, Children(P, k)[o]) = Identity(P, Children(P, k)[u]) => o = u
  <2>1. TAKE o, u \in 1..n
  <2>2. HAVE Identity(P, Children(P, k)[o]) = Identity(P, Children(P, k)[u])
  <2>3. Len(P) \in Nat
    BY ReviewedIs
  <2>4. Children(P, k)[o] \in 0..Len(P) /\ Children(P, k)[u] \in 0..Len(P)
    BY <1>5, <2>3
  <2>5. Children(P, k)[o] = Children(P, k)[u]
    BY <2>2, <2>4, IdentitiesDiffer
  <2>6. ~(o < u) /\ ~(u < o)
    BY <1>6, <2>4, <2>5
  <2>. QED
    BY <2>6
<1>8. b = c
  <2>1. Identity(P, Children(P, k)[b]) = Identity(P, Children(P, k)[c])
    BY <1>3, <1>4, <1>5
  <2>. QED
    BY <1>7, <2>1
<1>9. a = d
  <2>1. Identity(P, Children(P, k)[a]) = Identity(P, Children(P, k)[d])
    BY <1>1, <1>3, <1>4, <1>5
  <2>. QED
    BY <1>7, <2>1
<1>. QED
  BY <1>3, <1>4, <1>8, <1>9

\* Equal pairs have equal parts.
LEMMA PairsAgree ==
  ASSUME NEW a, NEW b, NEW c, NEW d, <<a, b>> = <<c, d>>
  PROVE  a = c /\ b = d
OBVIOUS

\* Blocks outside of the scopes have the same record, so the same names in them.
LEMMA SameRecord ==
  ASSUME NEW P, Reviewed(P), NEW Q, Reviewed(Q), NEW scopes, SameOutside(P, Q, scopes),
         NEW k \in 0..Len(P), NEW l \in 0..Len(Q), Identity(P, k) = Identity(Q, l), ~Inside(Identity(P, k), scopes)
  PROVE  /\ Own(P, k) = Own(Q, l) /\ KidNames(P, k) = KidNames(Q, l)
         /\ k # 0 => l # 0 /\ P[k].content = Q[l].content /\ P[k].tagged = Q[l].tagged
<1>1. Own(P, k) = Own(Q, l)
  <2>1. Identity(P, k) \in Ids(P)
    BY DEF Ids
  <2>2. Record(P, Identity(P, k)) = Record(Q, Identity(P, k))
    BY <2>1 DEF SameOutside
  <2>3. Record(P, Identity(P, k)) = Own(P, k) /\ Record(Q, Identity(Q, l)) = Own(Q, l)
    BY RecordIs
  <2>. QED
    BY <2>2, <2>3
<1>2. Own(P, k) = <<IF k = 0 THEN <<>> ELSE <<P[k].content, P[k].tagged>>, KidNames(P, k)>>
  BY OwnIs
<1>3. Own(Q, l) = <<IF l = 0 THEN <<>> ELSE <<Q[l].content, Q[l].tagged>>, KidNames(Q, l)>>
  BY OwnIs
<1>. DEFINE a == IF k = 0 THEN <<>> ELSE <<P[k].content, P[k].tagged>>
            b == IF l = 0 THEN <<>> ELSE <<Q[l].content, Q[l].tagged>>
<1>4. a = b /\ KidNames(P, k) = KidNames(Q, l)
  <2>1. <<a, KidNames(P, k)>> = <<b, KidNames(Q, l)>>
    BY <1>1, <1>2, <1>3
  <2>. HIDE DEF a, b
  <2>. QED
    BY <2>1, PairsAgree
<1>5. ASSUME k # 0 PROVE l # 0 /\ P[k].content = Q[l].content /\ P[k].tagged = Q[l].tagged
  <2>1. l # 0
    <3>1. Len(Identity(P, k)) = Deep(P, k) /\ Len(Identity(Q, l)) = Deep(Q, l)
      BY PathIs
    <3>2. Deep(P, k) # 0 /\ Deep(Q, 0) = 0
      <4>1. k \in 1..Len(P)
        BY <1>5, ReviewedIs
      <4>. QED
        BY <4>1, ReviewedIs
    <3>. QED
      BY <3>1, <3>2
  <2>2. <<P[k].content, P[k].tagged>> = <<Q[l].content, Q[l].tagged>>
    BY <1>4, <1>5, <2>1
  <2>. QED
    BY <2>1, <2>2, PairsAgree
<1>. QED
  BY <1>1, <1>4, <1>5

\* So the lists are of the same identities in the same order.
LEMMA ListsAgree ==
  ASSUME NEW P, Reviewed(P), NEW Q, Reviewed(Q), NEW scopes, Scoped(scopes), SameOutside(P, Q, scopes),
         scopes \subseteq Ids(P), scopes \subseteq Ids(Q)
  PROVE  /\ Len(Listed(P, scopes)) = Len(Listed(Q, scopes))
         /\ \A i \in 1..Len(Listed(P, scopes)) : Identity(P, Listed(P, scopes)[i]) = Identity(Q, Listed(Q, scopes)[i])
<1>a. \A i \in 1..Len(Listed(P, scopes)) :
          \E j \in 1..Len(Listed(Q, scopes)) : Identity(Q, Listed(Q, scopes)[j]) = Identity(P, Listed(P, scopes)[i])
  BY SeenInBoth
<1>b. \A j \in 1..Len(Listed(Q, scopes)) :
          \E i \in 1..Len(Listed(P, scopes)) : Identity(P, Listed(P, scopes)[i]) = Identity(Q, Listed(Q, scopes)[j])
  <2>1. SameOutside(Q, P, scopes)
    BY SameOutsideBack
  <2>. QED
    BY <2>1, SeenInBoth
<1>1. PICK e \in Seq(1..Len(P)), m \in Nat :
        /\ e = Listed(P, scopes) /\ Rising(e) /\ m = Len(e) 
        /\ \A h \in 1..m : e[h] \in 1..Len(P) /\ e[h] \in Seen(P, scopes)
  BY ListedIs
<1>2. PICK f \in Seq(1..Len(Q)), l \in Nat :
        /\ f = Listed(Q, scopes) /\ Rising(f) /\ l = Len(f)
        /\ \A h \in 1..l : f[h] \in 1..Len(Q) /\ f[h] \in Seen(Q, scopes)
  BY ListedIs
<1>3. Len(P) \in Nat /\ Len(Q) \in Nat
  BY ReviewedIs
<1>. DEFINE Agreed(i) == i <= m /\ i <= l /\ Identity(P, e[i]) = Identity(Q, f[i])
            Wrong   == {i \in Nat \ {0} : (i <= m \/ i <= l) /\ ~Agreed(i)}
<1>4. \A i, j \in 1..m : Identity(P, e[i]) = Identity(P, e[j]) => i = j
  <2>1. TAKE i, j \in 1..m
  <2>2. HAVE Identity(P, e[i]) = Identity(P, e[j])
  <2>4. e[i] \in 0..Len(P) /\ e[j] \in 0..Len(P)
    BY <1>1, <1>3
  <2>3. e[i] = e[j]
    BY <2>2, <2>4, IdentitiesDiffer
  <2>5. (i < j => e[i] < e[j]) /\ (j < i => e[j] < e[i])
    BY <1>1 DEF Rising
  <2>. QED
    BY <2>4, <2>3, <2>5
<1>5. \A i, j \in 1..l : Identity(Q, f[i]) = Identity(Q, f[j]) => i = j
  <2>1. TAKE i, j \in 1..l
  <2>2. HAVE Identity(Q, f[i]) = Identity(Q, f[j])
  <2>4. f[i] \in 0..Len(Q) /\ f[j] \in 0..Len(Q)
    BY <1>2, <1>3
  <2>3. f[i] = f[j]
    BY <2>2, <2>4, IdentitiesDiffer
  <2>5. (i < j => f[i] < f[j]) /\ (j < i => f[j] < f[i])
    BY <1>2 DEF Rising
  <2>. QED
    BY <2>4, <2>3, <2>5
<1>6. \A i \in 1..m : \E j \in 1..l : Identity(Q, f[j]) = Identity(P, e[i])
  BY <1>a, <1>1, <1>2
<1>8. \A j \in 1..l : \E i \in 1..m : Identity(P, e[i]) = Identity(Q, f[j])
  BY <1>b, <1>1, <1>2
<1>9. Wrong = {}
  <2>1. SUFFICES ASSUME Wrong # {} PROVE FALSE
    OBVIOUS
  <2>2. PICK i \in Wrong : \A h \in Wrong : i <= h
    <3>1. Wrong \in SUBSET Nat
      OBVIOUS
    <3>. HIDE DEF Wrong
    <3>. QED
      BY <2>1, <3>1, LeastNatural
  <2>3. i \in Nat \ {0} /\ (i <= m \/ i <= l) /\ ~Agreed(i)
    BY <2>2
  <2>4. \A h \in 1..(i - 1) : Agreed(h)
    <3>. TAKE h \in 1..(i - 1)
    <3>1. i \in Nat \ {0} /\ (i <= m \/ i <= l)
      BY <2>3
    <3>2. h \in Nat \ {0} /\ ~(i <= h) /\ (h <= m \/ h <= l)
      BY <3>1
    <3>3. h \notin Wrong
      <4>. HIDE DEF Wrong
      <4>. QED
        BY <2>2, <3>2
    <3>. QED
      BY <3>2, <3>3
  <2>5. ASSUME NEW j \in 1..l, i <= m, Identity(Q, f[j]) = Identity(P, e[i]) PROVE i < j /\ i <= l
    <3>1. CASE j < i
      <4>1. j \in 1..(i - 1) /\ j \in 1..m /\ i \in 1..m
        BY <2>3, <2>5, <3>1
      <4>2. Identity(P, e[j]) = Identity(Q, f[j])
        BY <2>4, <4>1
      <4>3. j = i
        BY <1>4, <2>5, <4>1, <4>2
      <4>. QED
        BY <3>1, <4>1, <4>3
    <3>2. CASE j = i
      BY <2>3, <2>5, <3>2
    <3>3. j < i \/ j = i \/ i < j
      BY <2>3
    <3>. QED
      BY <2>3, <3>1, <3>2, <3>3
  <2>6. ASSUME NEW j \in 1..m, i <= l, Identity(P, e[j]) = Identity(Q, f[i]) PROVE i < j /\ i <= m
    <3>1. CASE j < i
      <4>1. j \in 1..(i - 1) /\ j \in 1..l /\ i \in 1..l
        BY <2>3, <2>6, <3>1
      <4>2. Identity(P, e[j]) = Identity(Q, f[j])
        BY <2>4, <4>1
      <4>3. j = i
        BY <1>5, <2>6, <4>1, <4>2
      <4>. QED
        BY <3>1, <4>1, <4>3
    <3>2. CASE j = i
      BY <2>3, <2>6, <3>2
    <3>3. j < i \/ j = i \/ i < j
      BY <2>3
    <3>. QED
      BY <2>3, <3>1, <3>2, <3>3
  <2>7. i \in 1..m /\ i \in 1..l
    <3>1. i <= m => i <= l
      <4>1. i <= m => i \in 1..m
        BY <2>3
      <4>. QED
        BY <1>6, <2>5, <4>1
    <3>2. i <= l => i <= m
      <4>1. i <= l => i \in 1..l
        BY <2>3
      <4>. QED
        BY <1>8, <2>6, <4>1
    <3>. QED
      BY <2>3, <3>1, <3>2
  <2>8. PICK j \in 1..m : Identity(P, e[j]) = Identity(Q, f[i]) /\ i < j
    BY <1>8, <2>6, <2>7
  <2>9. PICK g \in 1..l : Identity(Q, f[g]) = Identity(P, e[i]) /\ i < g
    BY <1>6, <2>5, <2>7
  <2>10. \A h \in 1..(i - 1) : Identity(P, e[h]) = Identity(Q, f[h])
    BY <2>4
  <2>. HIDE DEF Agreed, Wrong
  <2>11. e[i] < e[j] /\ Parent(P, e[j]) < e[i] /\ Deep(P, e[j]) <= Deep(P, e[i])
    BY <1>1, <1>2, <2>7, <2>8, <2>10, Later
  <2>12. f[i] < f[g] /\ Parent(Q, f[g]) < f[i] /\ Deep(Q, f[g]) <= Deep(Q, f[i])
    BY <1>1, <1>2, <2>7, <2>9, <2>10, Later
  <2>13. /\ e[i] \in 1..Len(P) /\ e[j] \in 1..Len(P) /\ f[i] \in 1..Len(Q) /\ f[g] \in 1..Len(Q)
         /\ e[j] \in Seen(P, scopes)
    BY <1>1, <1>2, <2>7, <2>8, <2>9
  <2>14. Deep(P, e[j]) = Deep(Q, f[i]) /\ Deep(P, e[i]) = Deep(Q, f[g])
    BY <2>8, <2>9, <2>13, SameIdentity
  <2>15. Deep(P, e[i]) = Deep(P, e[j]) /\ Deep(Q, f[g]) = Deep(Q, f[i])
    <3>1. Deep(P, e[i]) \in Nat /\ Deep(P, e[j]) \in Nat
      <4>1. \A x \in 1..Len(P) : x \in 0..Len(P)
        BY <1>3
      <4>2. e[i] \in 0..Len(P) /\ e[j] \in 0..Len(P)
        BY <2>13, <4>1
      <4>. QED
        BY <4>2, ReviewedIs
    <3>. QED
      BY <2>11, <2>12, <2>14, <3>1
  <2>16. Parent(P, e[i]) = Parent(P, e[j])
    BY <2>11, <2>13, <2>15, LaterSibling
  <2>17. Parent(Q, f[i]) = Parent(Q, f[g])
    BY <2>12, <2>13, <2>15, LaterSibling
  <2>18. /\ Parent(P, e[j]) \in 0..Len(P) /\ Parent(Q, f[i]) \in 0..Len(Q)
         /\ Identity(P, Parent(P, e[j])) = Identity(Q, Parent(Q, f[i]))
    <3>1. Parent(P, e[j]) \in 0..Len(P) /\ Parent(Q, f[i]) \in 0..Len(Q)
      BY <2>13, ParentIs
    <3>2. Identity(P, Parent(P, e[j])) = Identity(Q, Parent(Q, f[i]))
      BY <2>8, <2>13, SameIdentity
    <3>. QED
      BY <3>1, <3>2
  <2>19. ~Inside(Identity(P, Parent(P, e[j])), scopes)
    BY <2>13, SeenParent
  <2>20. KidNames(P, Parent(P, e[j])) = KidNames(Q, Parent(Q, f[i]))
    BY <2>18, <2>19, SameRecord
  <2>21. Identity(P, e[i]) # Identity(Q, f[g])
    BY <2>8, <2>11, <2>12, <2>13, <2>16, <2>17, <2>18, <2>20, Unswapped
  <2>. QED
    BY <2>9, <2>21
<1>10. \A i \in Nat \ {0} : i <= m \/ i <= l => Agreed(i)
  BY <1>9
<1>11. m = l
  <2>1. m # 0 => m <= l
    BY <1>10
  <2>2. l # 0 => l <= m
    BY <1>10
  <2>. QED
    BY <2>1, <2>2
<1>12. \A i \in 1..m : Identity(P, e[i]) = Identity(Q, f[i])
  BY <1>10
<1>. QED
  BY <1>1, <1>2, <1>11, <1>12
\* What is shown from outside of the scopes, block by block.
LEMMA OutsideIs ==
  ASSUME NEW P, Reviewed(P), NEW scopes, Scoped(scopes)
  PROVE  OutsideOf(P, scopes) = [i \in 1..Len(Listed(P, scopes)) |-> Show(P, scopes, Listed(P, scopes)[i])]
<1>1. DOMAIN Listed(P, scopes) = 1..Len(Listed(P, scopes))
  BY ListedIs
<1>. QED
  BY <1>1 DEF OutsideOf, Listed

\* Where nothing outside of the scopes has changed, the programs are the same outside.
LEMMA UnchangedOutside ==
  ASSUME NEW P, Reviewed(P), NEW Q, Reviewed(Q), NEW scopes, Scoped(scopes), SameOutside(P, Q, scopes),
         scopes \subseteq Ids(P), scopes \subseteq Ids(Q)
  PROVE  OutsideOf(P, scopes) = OutsideOf(Q, scopes)
<1>. DEFINE e == Listed(P, scopes)
            f == Listed(Q, scopes)
<1>1. Len(e) = Len(f) /\ \A i \in 1..Len(e) : Identity(P, e[i]) = Identity(Q, f[i])
  BY ListsAgree
<1>2. ASSUME NEW i \in 1..Len(e) PROVE Show(P, scopes, e[i]) = Show(Q, scopes, f[i])
  <2>1. i \in 1..Len(f) /\ Identity(P, e[i]) = Identity(Q, f[i])
    BY <1>1
  <2>2. e[i] \in 1..Len(P) /\ e[i] \in Seen(P, scopes)
    BY ListedIs
  <2>3. f[i] \in 1..Len(Q) /\ f[i] \in Seen(Q, scopes)
    BY <2>1, ListedIs
  <2>. HIDE DEF e, f
  <2>4. P[e[i]].name = Q[f[i]].name /\ P[e[i]].depth = Q[f[i]].depth
    <3>1. P[e[i]].name = Q[f[i]].name /\ Deep(P, e[i]) = Deep(Q, f[i])
      BY <2>1, <2>2, <2>3, SameIdentity
    <3>2. Deep(P, e[i]) = P[e[i]].depth
      BY <2>2, ReviewedIs
    <3>3. Deep(Q, f[i]) = Q[f[i]].depth
      BY <2>3, ReviewedIs
    <3>. QED
      BY <3>1, <3>2, <3>3
  <2>5. ASSUME Identity(P, e[i]) \notin scopes PROVE P[e[i]].content = Q[f[i]].content /\ P[e[i]].tagged = Q[f[i]].tagged
    <3>1. ~Inside(Identity(P, e[i]), scopes)
      BY <2>2, <2>5, SeenIs
    <3>2. e[i] \in 0..Len(P) /\ e[i] # 0
      BY <2>2, ReviewedIs
    <3>3. f[i] \in 0..Len(Q)
      BY <2>3, ReviewedIs
    <3>. QED
      BY <2>1, <3>1, <3>2, <3>3, SameRecord
  <2>. QED
    BY <2>1, <2>4, <2>5 DEF Show
<1>3. OutsideOf(P, scopes) = [i \in 1..Len(e) |-> Show(P, scopes, e[i])]
  BY OutsideIs
<1>4. OutsideOf(Q, scopes) = [i \in 1..Len(f) |-> Show(Q, scopes, f[i])]
  BY OutsideIs
<1>. HIDE DEF e, f
<1>. QED
  BY <1>1, <1>2, <1>3, <1>4

----------------------------------------------------------------------------
(* And back: programs that are the same outside differ in nothing there.   *)

SameShape(P, Q, scopes) ==
  /\ Len(Listed(P, scopes)) = Len(Listed(Q, scopes))
  /\ \A i \in 1..Len(Listed(P, scopes)) :
       /\ Deep(P, Listed(P, scopes)[i]) = Deep(Q, Listed(Q, scopes)[i])
       /\ P[Listed(P, scopes)[i]].name = Q[Listed(Q, scopes)[i]].name

\* Where the same is shown, the blocks have the same depths and names.
LEMMA ShapeIs ==
  ASSUME NEW P, Reviewed(P), NEW Q, Reviewed(Q), NEW scopes, Scoped(scopes), OutsideOf(P, scopes) = OutsideOf(Q, scopes)
  PROVE  /\ SameShape(P, Q, scopes)
         /\ \A i \in 1..Len(Listed(P, scopes)) :
              Show(P, scopes, Listed(P, scopes)[i]) = Show(Q, scopes, Listed(Q, scopes)[i])
<1>. DEFINE e == Listed(P, scopes)
            f == Listed(Q, scopes)
<1>1. PICK m \in Nat, l \in Nat : m = Len(e) /\ l = Len(f)
  BY ListedIs
<1>2. \A i \in 1..m : e[i] \in 1..Len(P)
  BY <1>1, ListedIs
<1>3. \A i \in 1..l : f[i] \in 1..Len(Q)
  BY <1>1, ListedIs
<1>4. OutsideOf(P, scopes) = [i \in 1..m |-> Show(P, scopes, e[i])]
  BY <1>1, OutsideIs
<1>5. OutsideOf(Q, scopes) = [i \in 1..l |-> Show(Q, scopes, f[i])]
  BY <1>1, OutsideIs
<1>. HIDE DEF e, f
<1>6. m = l
  <2>1. DOMAIN OutsideOf(P, scopes) = 1..m /\ DOMAIN OutsideOf(Q, scopes) = 1..l
    BY <1>4, <1>5
  <2>2. 1..m = 1..l
    BY <2>1
  <2>3. (m \in 1..l \/ m = 0) /\ (l \in 1..m \/ l = 0)
    <3>1. m \in 1..m \/ m = 0
      OBVIOUS
    <3>2. l \in 1..l \/ l = 0
      OBVIOUS
    <3>. QED
      BY <2>2, <3>1, <3>2
  <2>. QED
    BY <2>3
<1>7. ASSUME NEW i \in 1..m PROVE Show(P, scopes, e[i]) = Show(Q, scopes, f[i])
  <2>1. OutsideOf(P, scopes)[i] = Show(P, scopes, e[i])
    BY <1>4
  <2>2. OutsideOf(Q, scopes)[i] = Show(Q, scopes, f[i])
    BY <1>5, <1>6
  <2>. QED
    BY <2>1, <2>2
<1>8. ASSUME NEW R, NEW k PROVE Show(R, scopes, k)[1] = R[k].depth /\ Show(R, scopes, k)[2] = R[k].name
  BY DEF Show
<1>9. ASSUME NEW i \in 1..m PROVE Deep(P, e[i]) = Deep(Q, f[i]) /\ P[e[i]].name = Q[f[i]].name
  <2>1. P[e[i]].depth = Q[f[i]].depth /\ P[e[i]].name = Q[f[i]].name
    <3>1. Show(P, scopes, e[i])[1] = P[e[i]].depth /\ Show(P, scopes, e[i])[2] = P[e[i]].name
      BY <1>8
    <3>2. Show(Q, scopes, f[i])[1] = Q[f[i]].depth /\ Show(Q, scopes, f[i])[2] = Q[f[i]].name
      BY <1>8
    <3>. QED
      BY <1>7, <3>1, <3>2
  <2>2. e[i] \in 1..Len(P) /\ f[i] \in 1..Len(Q)
    BY <1>2, <1>3, <1>6
  <2>3. Deep(P, e[i]) = P[e[i]].depth
    BY <2>2, ReviewedIs
  <2>4. Deep(Q, f[i]) = Q[f[i]].depth
    BY <2>2, ReviewedIs
  <2>. QED
    BY <2>1, <2>3, <2>4
<1>. USE DEF e, f
<1>10. SameShape(P, Q, scopes)
  BY <1>1, <1>6, <1>9 DEF SameShape
<1>. QED
  BY <1>1, <1>7, <1>10
\* Programs of one shape have the parents at the same places.
LEMMA ParentsAgree ==
  ASSUME NEW P, Reviewed(P), NEW Q, Reviewed(Q), NEW scopes, Scoped(scopes), SameShape(P, Q, scopes),
         NEW i \in 1..Len(Listed(P, scopes))
  PROVE  \/ Parent(P, Listed(P, scopes)[i]) = 0 /\ Parent(Q, Listed(Q, scopes)[i]) = 0
         \/ \E h \in 1..(i - 1) : /\ Parent(P, Listed(P, scopes)[i]) = Listed(P, scopes)[h]
                                  /\ Parent(Q, Listed(Q, scopes)[i]) = Listed(Q, scopes)[h]
<1>1. PICK e \in Seq(1..Len(P)), m \in Nat :
        e = Listed(P, scopes) /\ Rising(e) /\ m = Len(e) /\ \A h \in 1..m : e[h] \in 1..Len(P)
  BY ListedIs
<1>2. PICK f \in Seq(1..Len(Q)) :
        f = Listed(Q, scopes) /\ Rising(f) /\ m = Len(f) /\ \A h \in 1..m : f[h] \in 1..Len(Q)
  <2>1. Len(Listed(Q, scopes)) = m
    BY <1>1 DEF SameShape
  <2>. QED
    BY <2>1, ListedIs
<1>3. i \in 1..m /\ \A h \in 1..m : Deep(P, e[h]) = Deep(Q, f[h])
  BY <1>1, <1>2 DEF SameShape
<1>4. \A h \in 1..m : Deep(P, e[h]) \in Nat \ {0}
  <2>1. \A k \in 1..Len(P) : Deep(P, k) \in Nat \ {0}
    BY ReviewedIs
  <2>. QED
    BY <1>1, <2>1
<1>5. \A g, h \in 1..m : g < h => e[g] < e[h] /\ f[g] < f[h]
  BY <1>1, <1>2 DEF Rising
<1>6. e[i] \in 1..Len(P) /\ f[i] \in 1..Len(Q)
  BY <1>1, <1>2, <1>3
<1>7. /\ Deep(P, Parent(P, e[i])) = Deep(P, e[i]) - 1
      /\ \A j \in 1..Len(P) : Parent(P, e[i]) < j /\ j < e[i] => Deep(P, j) >= Deep(P, e[i])
  BY <1>6, ParentIs
<1>8. /\ Deep(Q, Parent(Q, f[i])) = Deep(Q, f[i]) - 1
      /\ \A j \in 1..Len(Q) : Parent(Q, f[i]) < j /\ j < f[i] => Deep(Q, j) >= Deep(Q, f[i])
  BY <1>6, ParentIs
<1>9. Deep(P, 0) = 0 /\ Deep(Q, 0) = 0
  BY ReviewedIs
<1>10. Parent(P, e[i]) = 0 \/ \E h \in 1..(i - 1) : e[h] = Parent(P, e[i])
  BY <1>1, ListedParent
<1>11. Parent(Q, f[i]) = 0 \/ \E h \in 1..(i - 1) : f[h] = Parent(Q, f[i])
  <2>1. i \in 1..Len(Listed(Q, scopes))
    BY <1>2, <1>3
  <2>. QED
    BY <1>2, <2>1, ListedParent
<1>12. PICK d \in Nat \ {0} : d = Deep(P, e[i]) /\ d = Deep(Q, f[i])
  BY <1>3, <1>4
<1>13. ASSUME Parent(P, e[i]) = 0, NEW g \in 1..(i - 1), f[g] = Parent(Q, f[i]) PROVE FALSE
  <2>1. d - 1 = 0
    BY <1>7, <1>9, <1>12, <1>13
  <2>2. g \in 1..m
    BY <1>3
  <2>3. Deep(Q, f[g]) = d - 1 /\ Deep(Q, f[g]) \in Nat \ {0}
    BY <1>3, <1>4, <1>8, <1>12, <1>13, <2>2
  <2>. QED
    BY <2>1, <2>3
<1>14. ASSUME Parent(Q, f[i]) = 0, NEW h \in 1..(i - 1), e[h] = Parent(P, e[i]) PROVE FALSE
  <2>1. d - 1 = 0
    BY <1>8, <1>9, <1>12, <1>14
  <2>2. h \in 1..m
    BY <1>3
  <2>3. Deep(P, e[h]) = d - 1 /\ Deep(P, e[h]) \in Nat \ {0}
    BY <1>3, <1>4, <1>7, <1>12, <1>14, <2>2
  <2>. QED
    BY <2>1, <2>3
<1>15. ASSUME NEW h \in 1..(i - 1), e[h] = Parent(P, e[i]), NEW g \in 1..(i - 1), f[g] = Parent(Q, f[i]) PROVE h = g
  <2>1. h \in 1..m /\ g \in 1..m /\ h < i /\ g < i
    BY <1>3
  <2>2. Deep(P, e[h]) = d - 1 /\ Deep(Q, f[g]) = d - 1
    BY <1>7, <1>8, <1>12, <1>15
  <2>3. CASE h < g
    <3>1. e[h] < e[g] /\ e[g] < e[i] /\ e[g] \in 1..Len(P)
      BY <1>1, <1>3, <1>5, <2>1, <2>3
    <3>2. Deep(P, e[g]) >= d
      BY <1>7, <1>12, <1>15, <3>1
    <3>3. Deep(P, e[g]) = d - 1
      BY <1>3, <2>1, <2>2
    <3>. QED
      BY <1>12, <3>2, <3>3
  <2>4. CASE g < h
    <3>1. f[g] < f[h] /\ f[h] < f[i] /\ f[h] \in 1..Len(Q)
      BY <1>2, <1>3, <1>5, <2>1, <2>4
    <3>2. Deep(Q, f[h]) >= d
      BY <1>8, <1>12, <1>15, <3>1
    <3>3. Deep(Q, f[h]) = d - 1
      BY <1>3, <2>1, <2>2
    <3>. QED
      BY <1>12, <3>2, <3>3
  <2>. QED
    BY <2>1, <2>3, <2>4
<1>16. \/ Parent(P, e[i]) = 0 /\ Parent(Q, f[i]) = 0
       \/ \E h \in 1..(i - 1) : Parent(P, e[i]) = e[h] /\ Parent(Q, f[i]) = f[h]
  BY <1>10, <1>11, <1>13, <1>14, <1>15
<1>. QED
  BY <1>1, <1>2, <1>16

\* So two blocks are of one parent in both or in neither.
LEMMA SiblingsAgree ==
  ASSUME NEW P, Reviewed(P), NEW Q, Reviewed(Q), NEW scopes, Scoped(scopes), SameShape(P, Q, scopes),
         NEW i \in 1..Len(Listed(P, scopes)), NEW j \in 1..Len(Listed(P, scopes))
  PROVE  Parent(P, Listed(P, scopes)[i]) = Parent(P, Listed(P, scopes)[j])
           <=> Parent(Q, Listed(Q, scopes)[i]) = Parent(Q, Listed(Q, scopes)[j])
<1>a. \/ Parent(P, Listed(P, scopes)[i]) = 0 /\ Parent(Q, Listed(Q, scopes)[i]) = 0
      \/ \E h \in 1..(i - 1) : /\ Parent(P, Listed(P, scopes)[i]) = Listed(P, scopes)[h]
                               /\ Parent(Q, Listed(Q, scopes)[i]) = Listed(Q, scopes)[h]
  BY ParentsAgree
<1>b. \/ Parent(P, Listed(P, scopes)[j]) = 0 /\ Parent(Q, Listed(Q, scopes)[j]) = 0
      \/ \E h \in 1..(j - 1) : /\ Parent(P, Listed(P, scopes)[j]) = Listed(P, scopes)[h]
                               /\ Parent(Q, Listed(Q, scopes)[j]) = Listed(Q, scopes)[h]
  BY ParentsAgree
<1>1. PICK e \in Seq(1..Len(P)), m \in Nat :
        e = Listed(P, scopes) /\ Rising(e) /\ m = Len(e) /\ \A h \in 1..m : e[h] \in 1..Len(P)
  BY ListedIs
<1>2. PICK f \in Seq(1..Len(Q)) :
        f = Listed(Q, scopes) /\ Rising(f) /\ m = Len(f) /\ \A h \in 1..m : f[h] \in 1..Len(Q)
  <2>1. Len(Listed(Q, scopes)) = m
    BY <1>1 DEF SameShape
  <2>. QED
    BY <2>1, ListedIs
<1>3. i \in 1..m /\ j \in 1..m /\ Len(P) \in Nat /\ Len(Q) \in Nat
  BY <1>1, ReviewedIs
<1>4. \A g, h \in 1..m : g < h => e[g] < e[h] /\ f[g] < f[h]
  BY <1>1, <1>2 DEF Rising
<1>5. \A g, h \in 1..m : (e[g] = e[h] \/ f[g] = f[h]) => g = h
  <2>1. TAKE g, h \in 1..m
  <2>2. e[g] \in Nat /\ e[h] \in Nat /\ f[g] \in Nat /\ f[h] \in Nat
    <3>1. e[g] \in 1..Len(P) /\ e[h] \in 1..Len(P) /\ f[g] \in 1..Len(Q) /\ f[h] \in 1..Len(Q)
      BY <1>1, <1>2
    <3>2. \A k \in 1..Len(P) : k \in Nat
      BY <1>3
    <3>3. \A k \in 1..Len(Q) : k \in Nat
      BY <1>3
    <3>. QED
      BY <3>1, <3>2, <3>3
  <2>3. g < h => e[g] < e[h] /\ f[g] < f[h]
    BY <1>4
  <2>4. h < g => e[h] < e[g] /\ f[h] < f[g]
    BY <1>4
  <2>. QED
    BY <2>2, <2>3, <2>4
<1>6. \A h \in 1..m : e[h] # 0 /\ f[h] # 0
  BY <1>1, <1>2, <1>3
<1>7. \/ Parent(P, e[i]) = 0 /\ Parent(Q, f[i]) = 0
      \/ \E h \in 1..m : Parent(P, e[i]) = e[h] /\ Parent(Q, f[i]) = f[h]
  <2>1. \/ Parent(P, e[i]) = 0 /\ Parent(Q, f[i]) = 0
        \/ \E h \in 1..(i - 1) : Parent(P, e[i]) = e[h] /\ Parent(Q, f[i]) = f[h]
    BY <1>a, <1>1, <1>2
  <2>2. \A h \in 1..(i - 1) : h \in 1..m
    BY <1>3
  <2>. QED
    BY <2>1, <2>2
<1>8. \/ Parent(P, e[j]) = 0 /\ Parent(Q, f[j]) = 0
      \/ \E h \in 1..m : Parent(P, e[j]) = e[h] /\ Parent(Q, f[j]) = f[h]
  <2>1. \/ Parent(P, e[j]) = 0 /\ Parent(Q, f[j]) = 0
        \/ \E h \in 1..(j - 1) : Parent(P, e[j]) = e[h] /\ Parent(Q, f[j]) = f[h]
    BY <1>b, <1>1, <1>2
  <2>2. \A h \in 1..(j - 1) : h \in 1..m
    BY <1>3
  <2>. QED
    BY <2>1, <2>2
<1>9. Parent(P, e[i]) = Parent(P, e[j]) <=> Parent(Q, f[i]) = Parent(Q, f[j])
  BY <1>5, <1>6, <1>7, <1>8
<1>. QED
  BY <1>1, <1>2, <1>9

\* Ordinals count the same siblings, so the identities are the same.
LEMMA IdentitiesAgree ==
  ASSUME NEW P, Reviewed(P), NEW Q, Reviewed(Q), NEW scopes, Scoped(scopes), SameShape(P, Q, scopes)
  PROVE  \A i \in 1..Len(Listed(P, scopes)) : Identity(P, Listed(P, scopes)[i]) = Identity(Q, Listed(Q, scopes)[i])
<1>a. ASSUME NEW i \in 1..Len(Listed(P, scopes)), NEW j \in 1..Len(Listed(P, scopes))
      PROVE  Parent(P, Listed(P, scopes)[i]) = Parent(P, Listed(P, scopes)[j])
               <=> Parent(Q, Listed(Q, scopes)[i]) = Parent(Q, Listed(Q, scopes)[j])
  BY SiblingsAgree
<1>b. ASSUME NEW i \in 1..Len(Listed(P, scopes))
      PROVE  \/ Parent(P, Listed(P, scopes)[i]) = 0 /\ Parent(Q, Listed(Q, scopes)[i]) = 0
             \/ \E h \in 1..(i - 1) : /\ Parent(P, Listed(P, scopes)[i]) = Listed(P, scopes)[h]
                                      /\ Parent(Q, Listed(Q, scopes)[i]) = Listed(Q, scopes)[h]
  BY ParentsAgree
<1>1. PICK e \in Seq(1..Len(P)), m \in Nat :
        e = Listed(P, scopes) /\ Rising(e) /\ m = Len(e) /\ \A h \in 1..m : e[h] \in 1..Len(P)
  BY ListedIs
<1>2. PICK f \in Seq(1..Len(Q)) :
        f = Listed(Q, scopes) /\ Rising(f) /\ m = Len(f) /\ \A h \in 1..m : f[h] \in 1..Len(Q)
  <2>1. Len(Listed(Q, scopes)) = m
    BY <1>1 DEF SameShape
  <2>. QED
    BY <2>1, ListedIs
<1>3. \A i, j \in 1..m : Parent(P, e[i]) = Parent(P, e[j]) <=> Parent(Q, f[i]) = Parent(Q, f[j])
  BY <1>a, <1>1, <1>2
<1>4. \A i \in 1..m : P[e[i]].name = Q[f[i]].name
  BY <1>1, <1>2 DEF SameShape
<1>5. \A i \in 1..m : Segment(P, e[i]) = Segment(Q, f[i])
  <2>1. TAKE i \in 1..m
  <2>2. \A h \in 1..i : h \in 1..m
    OBVIOUS
  <2>3. Siblings(P, e, i) = Siblings(Q, f, i)
    BY <1>3, <1>4, <2>2 DEF Siblings
  <2>4. Ordinal(P, e[i]) = Cardinality(Siblings(P, e, i))
    <3>1. \A j \in SameNamed(P, e[i]) : \E h \in 1..Len(e) : e[h] = j
      <4>1. TAKE j \in SameNamed(P, e[i])
      <4>2. j \in 1..Len(P) /\ Parent(P, j) = Parent(P, e[i])
        BY <1>1, ReviewedIs DEF SameNamed
      <4>3. i \in 1..Len(Listed(P, scopes))
        BY <1>1
      <4>. QED
        BY <1>1, <4>2, <4>3, ListedSiblings
    <3>2. HasSiblings(P, e, i)
      BY <1>1, <3>1 DEF HasSiblings
    <3>. QED
      BY <3>2, OrdinalCounted
  <2>5. Ordinal(Q, f[i]) = Cardinality(Siblings(Q, f, i))
    <3>1. \A j \in SameNamed(Q, f[i]) : \E h \in 1..Len(f) : f[h] = j
      <4>1. TAKE j \in SameNamed(Q, f[i])
      <4>2. j \in 1..Len(Q) /\ Parent(Q, j) = Parent(Q, f[i])
        BY <1>2, ReviewedIs DEF SameNamed
      <4>3. i \in 1..Len(Listed(Q, scopes))
        BY <1>2
      <4>. QED
        BY <1>2, <4>2, <4>3, ListedSiblings
    <3>2. HasSiblings(Q, f, i)
      BY <1>2, <3>1 DEF HasSiblings
    <3>. QED
      BY <3>2, OrdinalCounted
  <2>. QED
    BY <1>4, <2>3, <2>4, <2>5 DEF Segment
<1>6. \A i \in 1..m : /\ Identity(P, e[i]) = Append(Identity(P, Parent(P, e[i])), Segment(P, e[i]))
                      /\ Identity(Q, f[i]) = Append(Identity(Q, Parent(Q, f[i])), Segment(Q, f[i]))
  BY <1>1, <1>2, IdentityIs
<1>. DEFINE Wrong == {i \in 1..m : Identity(P, e[i]) # Identity(Q, f[i])}
<1>7. Wrong = {}
  <2>1. SUFFICES ASSUME Wrong # {} PROVE FALSE
    OBVIOUS
  <2>2. PICK i \in Wrong : \A h \in Wrong : i <= h
    <3>1. Wrong \in SUBSET Nat
      OBVIOUS
    <3>. HIDE DEF Wrong
    <3>. QED
      BY <2>1, <3>1, LeastNatural
  <2>3. i \in 1..m /\ Identity(P, e[i]) # Identity(Q, f[i])
    BY <2>2
  <2>4. \A h \in 1..(i - 1) : Identity(P, e[h]) = Identity(Q, f[h])
    <3>1. TAKE h \in 1..(i - 1)
    <3>2. h \in 1..m /\ ~(i <= h)
      BY <2>3
    <3>3. h \notin Wrong
      <4>. HIDE DEF Wrong
      <4>. QED
        BY <2>2, <3>2
    <3>. QED
      BY <3>2, <3>3
  <2>5. Identity(P, Parent(P, e[i])) = Identity(Q, Parent(Q, f[i]))
    <3>1. \/ Parent(P, e[i]) = 0 /\ Parent(Q, f[i]) = 0
          \/ \E h \in 1..(i - 1) : Parent(P, e[i]) = e[h] /\ Parent(Q, f[i]) = f[h]
      BY <1>b, <1>1, <1>2, <2>3
    <3>2. Identity(P, 0) = Identity(Q, 0)
      BY IdentityIs
    <3>. QED
      BY <2>4, <3>1, <3>2
  <2>. QED
    BY <1>5, <1>6, <2>3, <2>5
<1>8. \A i \in 1..m : Identity(P, e[i]) = Identity(Q, f[i])
  BY <1>7
<1>. QED
  BY <1>1, <1>2, <1>8
\* The nested blocks of what is outside are those in the list that have it as parent.
LEMMA KidsListed ==
  ASSUME NEW P, Reviewed(P), NEW scopes, Scoped(scopes), NEW k, ~Inside(Identity(P, k), scopes),
         NEW x, x = InOrder({i \in 1..Len(Listed(P, scopes)) : Parent(P, Listed(P, scopes)[i]) = k}, Len(Listed(P, scopes)))
  PROVE  Children(P, k) = [a \in 1..Len(x) |-> Listed(P, scopes)[x[a]]]
<1>1. PICK e \in Seq(1..Len(P)), m \in Nat :
        /\ e = Listed(P, scopes) /\ Rising(e) /\ m = Len(e)
        /\ \A h \in 1..Len(P) : h \in Seen(P, scopes) => \E i \in 1..m : e[i] = h
        /\ \A h \in 1..m : e[h] \in 1..Len(P)
  BY ListedIs
<1>. DEFINE set == {i \in 1..m : Parent(P, e[i]) = k}
<1>2. \A i : i \in set <=> i \in 1..m /\ Parent(P, e[i]) = k
  OBVIOUS
<1>3. x = InOrder(set, m) /\ set \in SUBSET (1..m)
  BY <1>1
<1>. HIDE DEF set
<1>4. x \in Seq(1..m) /\ Rising(x)
  <2>1. InOrder(set, m) \in Seq(1..m) /\ Rising(InOrder(set, m))
    BY <1>3, InOrderIs
  <2>. QED
    BY <1>3, <2>1
<1>5. \A i : i \in set <=> \E a \in 1..Len(x) : x[a] = i
  <2>1. \A i : i \in set <=> \E a \in 1..Len(InOrder(set, m)) : InOrder(set, m)[a] = i
    BY <1>3, InOrderIs
  <2>. QED
    BY <1>3, <2>1
<1>6. PICK n \in Nat : n = Len(x) /\ \A a \in 1..n : x[a] \in 1..m
  <2>1. Len(x) \in Nat
    BY <1>4, LenProperties
  <2>2. \A a \in 1..Len(x) : x[a] \in 1..m
    BY <1>4, <2>1, ElementOfSeq
  <2>. QED
    BY <2>1, <2>2
<1>. DEFINE s == [a \in 1..n |-> e[x[a]]]
            c == Children(P, k)
<1>7. Len(P) \in Nat
  BY ReviewedIs
<1>8. s \in Seq(Nat) /\ Len(s) = n /\ \A a \in 1..n : s[a] = e[x[a]]
  <2>1. \A a \in 1..n : e[x[a]] \in Nat
    <3>1. \A h \in 1..m : e[h] \in Nat
      BY <1>1, <1>7
    <3>. QED
      BY <1>6, <3>1
  <2>. QED
    BY <2>1
<1>9. c \in Seq(Nat) /\ Rising(c)
  <2>1. c \in Seq(1..Len(P)) /\ Rising(c) /\ Len(c) \in Nat
    BY ChildrenAre
  <2>2. \A a \in 1..Len(c) : c[a] \in 1..Len(P)
    BY <2>1, ElementOfSeq
  <2>3. \A a \in 1..Len(c) : c[a] \in Nat
    BY <1>7, <2>2
  <2>4. c = [a \in 1..Len(c) |-> c[a]]
    BY <2>1
  <2>. QED
    BY <2>1, <2>3, <2>4
<1>10. Rising(s)
  <2>1. \A a, b \in 1..n : a < b => x[a] < x[b]
    BY <1>4, <1>6 DEF Rising
  <2>2. \A g, h \in 1..m : g < h => e[g] < e[h]
    BY <1>1 DEF Rising
  <2>3. \A a, b \in 1..n : a < b => s[a] < s[b]
    BY <1>6, <1>8, <2>1, <2>2
  <2>. HIDE DEF s
  <2>. QED
    BY <1>8, <2>3 DEF Rising
<1>11. ASSUME NEW j \in Nat PROVE (\E a \in 1..Len(s) : s[a] = j) <=> (\E a \in 1..Len(c) : c[a] = j)
  <2>1. (\E a \in 1..Len(c) : c[a] = j) <=> (j \in 1..Len(P) /\ Parent(P, j) = k)
    <3>1. \A h \in 1..Len(P) : Parent(P, h) = k <=> \E a \in 1..Len(c) : c[a] = h
      BY ChildrenAre
    <3>2. \A a \in 1..Len(c) : c[a] \in 1..Len(P)
      BY ChildrenAre
    <3>. HIDE DEF c
    <3>. QED
      BY <3>1, <3>2
  <2>2. ASSUME NEW a \in 1..n PROVE s[a] \in 1..Len(P) /\ Parent(P, s[a]) = k
    <3>1. x[a] \in set /\ x[a] \in 1..m
      BY <1>5, <1>6
    <3>2. Parent(P, e[x[a]]) = k /\ e[x[a]] \in 1..Len(P)
      BY <1>1, <1>2, <3>1
    <3>. QED
      BY <1>8, <3>2
  <2>3. ASSUME j \in 1..Len(P), Parent(P, j) = k PROVE \E a \in 1..n : s[a] = j
    <3>1. j \in Seen(P, scopes)
      BY <2>3, SeenChild
    <3>2. PICK i \in 1..m : e[i] = j
      BY <1>1, <2>3, <3>1
    <3>3. i \in set
      BY <1>2, <2>3, <3>2
    <3>4. PICK a \in 1..n : x[a] = i
      BY <1>5, <1>6, <3>3
    <3>. QED
      BY <1>8, <3>2, <3>4
  <2>. HIDE DEF s, c
  <2>. QED
    BY <1>8, <2>1, <2>2, <2>3
<1>12. s = c
  <2>. HIDE DEF s, c
  <2>. QED
    BY <1>8, <1>9, <1>10, <1>11, RisingAgree
<1>. QED
  BY <1>1, <1>6, <1>12

\* So they have the same names in programs of one shape.
LEMMA KidNamesAgree ==
  ASSUME NEW P, Reviewed(P), NEW Q, Reviewed(Q), NEW scopes, Scoped(scopes), SameShape(P, Q, scopes),
         NEW k, ~Inside(Identity(P, k), scopes), NEW l, ~Inside(Identity(Q, l), scopes),
         \A i \in 1..Len(Listed(P, scopes)) : Parent(P, Listed(P, scopes)[i]) = k <=> Parent(Q, Listed(Q, scopes)[i]) = l
  PROVE  KidNames(P, k) = KidNames(Q, l)
<1>. DEFINE e == Listed(P, scopes)
            f == Listed(Q, scopes)
            m == Len(e)
            set == {i \in 1..m : Parent(P, e[i]) = k}
            x == InOrder(set, m)
<1>1. m \in Nat /\ Len(f) = m /\ \A i \in 1..m : P[e[i]].name = Q[f[i]].name
  BY ListedIs DEF SameShape
<1>2. set = {i \in 1..Len(f) : Parent(Q, f[i]) = l}
  BY <1>1
<1>3. Children(P, k) = [a \in 1..Len(x) |-> e[x[a]]]
  BY KidsListed
<1>4. Children(Q, l) = [a \in 1..Len(x) |-> f[x[a]]]
  <2>1. x = InOrder({i \in 1..Len(f) : Parent(Q, f[i]) = l}, Len(f))
    BY <1>1, <1>2
  <2>. HIDE DEF x
  <2>. QED
    BY <2>1, KidsListed
<1>5. set \in SUBSET (1..m)
  OBVIOUS
<1>. HIDE DEF set, e, f
<1>6. x \in Seq(1..m)
  <2>. HIDE DEF m
  <2>. QED
    BY <1>1, <1>5, InOrderIs
<1>. HIDE DEF m, x
<1>7. PICK n \in Nat : n = Len(x) /\ \A a \in 1..n : x[a] \in 1..m
  <2>1. Len(x) \in Nat
    BY <1>6, LenProperties
  <2>2. \A a \in 1..Len(x) : x[a] \in 1..m
    BY <1>6, <2>1, ElementOfSeq
  <2>. QED
    BY <2>1, <2>2
<1>8. Len(Children(P, k)) = n /\ Len(Children(Q, l)) = n
  <2>1. Len([a \in 1..n |-> e[x[a]]]) = n /\ Len([a \in 1..n |-> f[x[a]]]) = n
    OBVIOUS
  <2>. QED
    BY <1>3, <1>4, <1>7, <2>1
<1>9. \A a \in 1..n : P[Children(P, k)[a]].name = Q[Children(Q, l)[a]].name
  <2>1. TAKE a \in 1..n
  <2>2. Children(P, k)[a] = e[x[a]]
    BY <1>3, <1>7
  <2>3. Children(Q, l)[a] = f[x[a]]
    BY <1>4, <1>7
  <2>. QED
    BY <1>1, <1>7, <2>2, <2>3
<1>. QED
  BY <1>8, <1>9 DEF KidNames
\* Where the same is shown, a record outside of the scopes is in both programs and the same.
LEMMA RecordsAgree ==
  ASSUME NEW P, Reviewed(P), NEW Q, Reviewed(Q), NEW scopes, Scoped(scopes), OutsideOf(P, scopes) = OutsideOf(Q, scopes),
         NEW id \in Ids(P), ~Inside(id, scopes)
  PROVE  id \in Ids(Q) /\ Record(P, id) = Record(Q, id)
<1>a. \A i \in 1..Len(Listed(P, scopes)) : Show(P, scopes, Listed(P, scopes)[i]) = Show(Q, scopes, Listed(Q, scopes)[i])
  BY ShapeIs
<1>b. SameShape(P, Q, scopes)
  BY ShapeIs
<1>c. \A i \in 1..Len(Listed(P, scopes)) : Identity(P, Listed(P, scopes)[i]) = Identity(Q, Listed(Q, scopes)[i])
  BY <1>b, IdentitiesAgree
<1>d. ASSUME NEW i \in 1..Len(Listed(P, scopes)), NEW j \in 1..Len(Listed(P, scopes))
      PROVE  Parent(P, Listed(P, scopes)[i]) = Parent(P, Listed(P, scopes)[j])
               <=> Parent(Q, Listed(Q, scopes)[i]) = Parent(Q, Listed(Q, scopes)[j])
  BY <1>b, SiblingsAgree
<1>e. ASSUME NEW i \in 1..Len(Listed(P, scopes))
      PROVE  \/ Parent(P, Listed(P, scopes)[i]) = 0 /\ Parent(Q, Listed(Q, scopes)[i]) = 0
             \/ \E h \in 1..(i - 1) : /\ Parent(P, Listed(P, scopes)[i]) = Listed(P, scopes)[h]
                                      /\ Parent(Q, Listed(Q, scopes)[i]) = Listed(Q, scopes)[h]
  BY <1>b, ParentsAgree
<1>1. PICK e \in Seq(1..Len(P)), m \in Nat :
        /\ e = Listed(P, scopes) /\ Rising(e) /\ m = Len(e)
        /\ \A h \in 1..Len(P) : h \in Seen(P, scopes) => \E i \in 1..m : e[i] = h
        /\ \A h \in 1..m : e[h] \in 1..Len(P)
  BY ListedIs
<1>2. PICK f \in Seq(1..Len(Q)) :
        f = Listed(Q, scopes) /\ Rising(f) /\ m = Len(f) /\ \A h \in 1..m : f[h] \in 1..Len(Q)
  <2>1. Len(Listed(Q, scopes)) = m
    BY <1>b, <1>1 DEF SameShape
  <2>. QED
    BY <2>1, ListedIs
<1>3. Len(P) \in Nat /\ Len(Q) \in Nat
  BY ReviewedIs
<1>4. PICK k \in 0..Len(P) : Identity(P, k) = id
  BY DEF Ids
<1>5. id \notin scopes
  BY ScopesAre
\* Where a parent is: the root in both, or at the same place in both lists.
<1>6. \A i \in 1..m : \/ Parent(P, e[i]) = 0 /\ Parent(Q, f[i]) = 0
                      \/ \E h \in 1..m : Parent(P, e[i]) = e[h] /\ Parent(Q, f[i]) = f[h]
  <2>1. TAKE i \in 1..m
  <2>2. \/ Parent(P, e[i]) = 0 /\ Parent(Q, f[i]) = 0
        \/ \E h \in 1..(i - 1) : Parent(P, e[i]) = e[h] /\ Parent(Q, f[i]) = f[h]
    BY <1>e, <1>1, <1>2
  <2>3. \A h \in 1..(i - 1) : h \in 1..m
    OBVIOUS
  <2>. QED
    BY <2>2, <2>3
<1>7. \A h \in 1..m : e[h] # 0 /\ f[h] # 0
  BY <1>1, <1>2, <1>3
<1>8. \A g, h \in 1..m : (e[g] = e[h] \/ f[g] = f[h]) => g = h
  <2>1. TAKE g, h \in 1..m
  <2>2. \A o \in 1..m : e[o] \in Nat /\ f[o] \in Nat
    <3>1. \A o \in 1..Len(P) : o \in Nat
      BY <1>3
    <3>2. \A o \in 1..Len(Q) : o \in Nat
      BY <1>3
    <3>. QED
      BY <1>1, <1>2, <3>1, <3>2
  <2>3. e[g] \in Nat /\ e[h] \in Nat /\ f[g] \in Nat /\ f[h] \in Nat
    BY <2>2
  <2>4. g < h => e[g] < e[h] /\ f[g] < f[h]
    BY <1>1, <1>2 DEF Rising
  <2>5. h < g => e[h] < e[g] /\ f[h] < f[g]
    BY <1>1, <1>2 DEF Rising
  <2>. QED
    BY <2>3, <2>4, <2>5
<1>9. CASE k = 0
  <2>1. Identity(Q, 0) = id /\ Identity(P, 0) = id
    BY <1>4, <1>9, IdentityIs
  <2>2. \A i \in 1..m : Parent(P, e[i]) = 0 <=> Parent(Q, f[i]) = 0
    BY <1>6, <1>7
  <2>3. \A i \in 1..Len(Listed(P, scopes)) : Parent(P, Listed(P, scopes)[i]) = 0 <=> Parent(Q, Listed(Q, scopes)[i]) = 0
    BY <1>1, <1>2, <2>2
  <2>4. ~Inside(Identity(P, 0), scopes) /\ ~Inside(Identity(Q, 0), scopes)
    BY <2>1
  <2>5. KidNames(P, 0) = KidNames(Q, 0)
    BY <1>b, <2>3, <2>4, KidNamesAgree
  <2>6. 0 \in 0..Len(P) /\ 0 \in 0..Len(Q)
    BY <1>3
  <2>7. Record(P, id) = Own(P, 0) /\ Record(Q, id) = Own(Q, 0) /\ id \in Ids(Q)
    BY <2>1, <2>6, RecordIs DEF Ids
  <2>8. Own(P, 0) = <<<<>>, KidNames(P, 0)>> /\ Own(Q, 0) = <<<<>>, KidNames(Q, 0)>>
    BY OwnIs
  <2>. QED
    BY <2>5, <2>7, <2>8
<1>10. CASE k # 0
  <2>1. k \in 1..Len(P)
    BY <1>3, <1>10
  <2>2. k \in Seen(P, scopes)
    BY <1>4, <2>1, SeenIs
  <2>3. PICK i \in 1..m : e[i] = k
    BY <1>1, <2>1, <2>2
  <2>4. PICK l \in 1..Len(Q) : l = f[i]
    BY <1>2
  <2>5. Identity(Q, l) = id /\ Identity(P, k) = id
    BY <1>c, <1>1, <1>2, <1>4, <2>3, <2>4
  <2>6. Show(P, scopes, k) = Show(Q, scopes, l)
    BY <1>a, <1>1, <1>2, <2>3, <2>4
  <2>7. P[k].content = Q[l].content /\ P[k].tagged = Q[l].tagged
    <3>1. /\ Show(P, scopes, k)[3] = P[k].content /\ Show(P, scopes, k)[4] = P[k].tagged
          /\ Show(Q, scopes, l)[3] = Q[l].content /\ Show(Q, scopes, l)[4] = Q[l].tagged
      BY <1>5, <2>5 DEF Show
    <3>. QED
      BY <2>6, <3>1
  <2>8. \A o \in 1..m : Parent(P, e[o]) = k <=> Parent(Q, f[o]) = l
    <3>1. TAKE o \in 1..m
    <3>2. \/ Parent(P, e[o]) = 0 /\ Parent(Q, f[o]) = 0
          \/ \E h \in 1..m : Parent(P, e[o]) = e[h] /\ Parent(Q, f[o]) = f[h]
      BY <1>6
    <3>3. k # 0 /\ l # 0 /\ \A h \in 1..m : e[h] = k <=> f[h] = l
      BY <1>7, <1>8, <2>3, <2>4
    <3>. QED
      BY <3>2, <3>3
  <2>9. \A o \in 1..Len(Listed(P, scopes)) : Parent(P, Listed(P, scopes)[o]) = k <=> Parent(Q, Listed(Q, scopes)[o]) = l
    BY <1>1, <1>2, <2>8
  <2>10. ~Inside(Identity(P, k), scopes) /\ ~Inside(Identity(Q, l), scopes)
    BY <2>5
  <2>11. KidNames(P, k) = KidNames(Q, l)
    BY <1>b, <2>9, <2>10, KidNamesAgree
  <2>12. k \in 0..Len(P) /\ l \in 0..Len(Q) /\ k # 0 /\ l # 0
    BY <1>3, <1>10, <2>4
  <2>13. Record(P, id) = Own(P, k) /\ Record(Q, id) = Own(Q, l) /\ id \in Ids(Q)
    BY <2>5, <2>12, RecordIs DEF Ids
  <2>14. Own(P, k) = <<<<P[k].content, P[k].tagged>>, KidNames(P, k)>>
    BY <2>12, OwnIs
  <2>15. Own(Q, l) = <<<<Q[l].content, Q[l].tagged>>, KidNames(Q, l)>>
    BY <2>12, OwnIs
  <2>. QED
    BY <2>7, <2>11, <2>13, <2>14, <2>15
<1>. QED
  BY <1>9, <1>10

\* Where the same is shown, no record outside of the scopes differs.
LEMMA OutsideUnchanged ==
  ASSUME NEW P, Reviewed(P), NEW Q, Reviewed(Q), NEW scopes, Scoped(scopes), OutsideOf(P, scopes) = OutsideOf(Q, scopes)
  PROVE  SameOutside(P, Q, scopes)
<1>1. SUFFICES ASSUME NEW id \in Ids(P) \cup Ids(Q), ~Inside(id, scopes)
               PROVE  id \in Ids(P) /\ id \in Ids(Q) /\ Record(P, id) = Record(Q, id)
  BY DEF SameOutside
<1>2. CASE id \in Ids(P)
  BY <1>1, <1>2, RecordsAgree
<1>3. CASE id \in Ids(Q)
  <2>1. id \in Ids(P) /\ Record(Q, id) = Record(P, id)
    BY <1>1, <1>3, RecordsAgree
  <2>. QED
    BY <1>3, <2>1
<1>. QED
  BY <1>2, <1>3
----------------------------------------------------------------------------
(* What verify accepts.                                                    *)

\* Identities are paths.
LEMMA IdsAre ==
  ASSUME NEW P, Reviewed(P)
  PROVE  Ids(P) \in SUBSET Path
BY PathIs DEF Ids

\* A change is within the scopes if no record outside of them differs.
LEMMA WithinIs ==
  ASSUME NEW scopes
  PROVE  Within(scopes) <=> SameOutside(before, after, scopes)
BY DEF Within, Changed, SymDiff, SameOutside

\* Without scopes the list is of all blocks, and shows all of them.
LEMMA AllListed ==
  ASSUME NEW P, Reviewed(P)
  PROVE  /\ Scoped({}) /\ Len(Listed(P, {})) = Len(P)
         /\ \A i \in 1..Len(P) : Listed(P, {})[i] = i
<1>1. Scoped({}) /\ \A id : ~Inside(id, {})
  BY DEF Scoped, Apart, Inside
<1>. DEFINE e == Listed(P, {})
            n == Len(P)
            s == [i \in 1..n |-> i]
<1>2. n \in Nat
  BY ReviewedIs
<1>3. e \in Seq(1..n) /\ Rising(e) /\ Len(e) \in Nat
  BY <1>1, ListedIs
<1>4. \A i \in 1..Len(e) : e[i] \in 1..n
  BY <1>1, ListedIs
<1>5. \A k \in 1..n : \E i \in 1..Len(e) : e[i] = k
  <2>1. \A k \in 1..n : k \in Seen(P, {})
    BY <1>1 DEF Seen
  <2>2. \A k \in 1..Len(P) : k \in Seen(P, {}) => \E i \in 1..Len(e) : e[i] = k
    BY <1>1, ListedIs
  <2>. QED
    BY <2>1, <2>2
<1>. HIDE DEF e, n
<1>6. s \in Seq(Nat) /\ Len(s) = n /\ \A i \in 1..n : s[i] = i
  BY <1>2
<1>7. e \in Seq(Nat)
  <2>1. \A i \in 1..Len(e) : e[i] \in Nat
    BY <1>2, <1>4
  <2>2. e = [i \in 1..Len(e) |-> e[i]]
    BY <1>3
  <2>. QED
    BY <1>3, <2>1, <2>2
<1>. HIDE DEF s
<1>8. Rising(s)
  BY <1>6 DEF Rising
<1>9. ASSUME NEW x \in Nat PROVE (\E i \in 1..Len(e) : e[i] = x) <=> (\E i \in 1..Len(s) : s[i] = x)
  BY <1>4, <1>5, <1>6
<1>10. e = s
  BY <1>3, <1>6, <1>7, <1>8, <1>9, RisingAgree
<1>. USE DEF e, n
<1>. QED
  BY <1>1, <1>6, <1>10

\* No difference is missed.
LEMMA DiffIsComplete ==
  ASSUME StructureInv
  PROVE  DiffComplete
<1>. DEFINE P == before
            Q == after
<1>1. Reviewed(P) /\ Reviewed(Q) /\ Scoped({})
  BY AllListed DEF StructureInv
<1>2. Changed = {} <=> SameOutside(P, Q, {})
  <2>1. Within({}) <=> Changed = {}
    BY DEF Within, Inside
  <2>. QED
    BY <2>1, WithinIs
<1>3. P = Q => SameOutside(P, Q, {})
  BY DEF SameOutside
<1>4. ASSUME SameOutside(P, Q, {}) PROVE P = Q
  <2>1. OutsideOf(P, {}) = OutsideOf(Q, {})
    BY <1>1, <1>4, UnchangedOutside
  <2>2. PICK n \in Nat : n = Len(P) /\ n = Len(Q)
    <3>1. Len(Listed(P, {})) = Len(P) /\ Len(Listed(Q, {})) = Len(Q) /\ Len(P) \in Nat
      BY <1>1, AllListed, ReviewedIs
    <3>2. Len(Listed(P, {})) = Len(Listed(Q, {}))
      BY <1>1, <2>1, ShapeIs DEF SameShape
    <3>. QED
      BY <3>1, <3>2
  <2>3. ASSUME NEW i \in 1..n PROVE P[i] = Q[i]
    <3>1. Listed(P, {})[i] = i /\ Listed(Q, {})[i] = i
      BY <1>1, <2>2, AllListed
    <3>2. i \in 1..Len(Listed(P, {}))
      BY <1>1, <2>2, AllListed
    <3>3. Show(P, {}, i) = Show(Q, {}, i)
      <4>1. Show(P, {}, Listed(P, {})[i]) = Show(Q, {}, Listed(Q, {})[i])
        BY <1>1, <2>1, <3>2, ShapeIs
      <4>. QED
        BY <3>1, <4>1
    <3>4. /\ Show(P, {}, i)[1] = P[i].depth /\ Show(P, {}, i)[2] = P[i].name
          /\ Show(P, {}, i)[3] = P[i].content /\ Show(P, {}, i)[4] = P[i].tagged
      BY DEF Show
    <3>5. /\ Show(Q, {}, i)[1] = Q[i].depth /\ Show(Q, {}, i)[2] = Q[i].name
          /\ Show(Q, {}, i)[3] = Q[i].content /\ Show(Q, {}, i)[4] = Q[i].tagged
      BY DEF Show
    <3>6. /\ P[i].depth = Q[i].depth /\ P[i].name = Q[i].name
          /\ P[i].content = Q[i].content /\ P[i].tagged = Q[i].tagged
      BY <3>3, <3>4, <3>5
    <3>7. P[i] \in AnyNode
      BY <1>1, <2>2, ReviewedIs
    <3>8. Q[i] \in AnyNode
      BY <1>1, <2>2, ReviewedIs
    <3>9. P[i] = [depth |-> P[i].depth, name |-> P[i].name, content |-> P[i].content, tagged |-> P[i].tagged]
      BY <3>7, NodeIs
    <3>10. Q[i] = [depth |-> Q[i].depth, name |-> Q[i].name, content |-> Q[i].content, tagged |-> Q[i].tagged]
      BY <3>8, NodeIs
    <3>. QED
      BY <3>6, <3>9, <3>10
  <2>4. P \in Seq(AnyNode) /\ Q \in Seq(AnyNode)
    BY <1>1 DEF Reviewed
  <2>. QED
    BY <2>2, <2>3, <2>4, SeqEqual
<1>. QED
  BY <1>2, <1>3, <1>4 DEF DiffComplete

\* Nothing outside of scopes is changed, exactly where the programs are the same there.
LEMMA ScopesAreExact ==
  ASSUME StructureInv, NEW scopes, Scoped(scopes), scopes \subseteq Ids(before), scopes \subseteq Ids(after)
  PROVE  Within(scopes) <=> OutsideOf(before, scopes) = OutsideOf(after, scopes)
<1>1. Reviewed(before) /\ Reviewed(after)
  BY DEF StructureInv
<1>2. SameOutside(before, after, scopes) => OutsideOf(before, scopes) = OutsideOf(after, scopes)
  BY <1>1, UnchangedOutside
<1>3. OutsideOf(before, scopes) = OutsideOf(after, scopes) => SameOutside(before, after, scopes)
  BY <1>1, OutsideUnchanged
<1>. QED
  BY <1>2, <1>3, WithinIs

\* Verification accepts a change exactly if the same is shown outside of the scopes.
LEMMA VerificationIsExact ==
  ASSUME StructureInv
  PROVE  VerifyExact
<1>1. SUFFICES ASSUME NEW scopes \in SUBSET (Ids(before) \ {<<>>}), scopes # {}, Apart(scopes)
               PROVE  Verified(scopes) <=> /\ scopes \subseteq Ids(after)
                                           /\ OutsideOf(before, scopes) = OutsideOf(after, scopes)
  <2>1. ASSUME NEW scopes \in SUBSET (Ids(before) \ {<<>>}), scopes # {}, Apart(scopes)
        PROVE  Verified(scopes) = /\ scopes \subseteq Ids(after)
                                  /\ OutsideOf(before, scopes) = OutsideOf(after, scopes)
    <3>1. Verified(scopes) \in BOOLEAN
      BY DEF Verified, BoundaryKept, Within
    <3>2. Verified(scopes) <=> /\ scopes \subseteq Ids(after)
                               /\ OutsideOf(before, scopes) = OutsideOf(after, scopes)
      BY <1>1, <2>1
    <3>. QED
      BY <3>1, <3>2
  <2>. QED
    BY <2>1 DEF VerifyExact
<1>2. Scoped(scopes) /\ scopes \subseteq Ids(before)
  <2>1. Ids(before) \in SUBSET Path
    BY IdsAre DEF StructureInv
  <2>. QED
    BY <1>1, <2>1 DEF Scoped
<1>3. ASSUME scopes \subseteq Ids(after) PROVE Within(scopes) <=> OutsideOf(before, scopes) = OutsideOf(after, scopes)
  BY <1>2, <1>3, ScopesAreExact
<1>. QED
  BY <1>1, <1>3 DEF Verified, BoundaryKept
\* A tag is on blocks at depth 1, none of which is in another; and one that is new shows.
LEMMA TagsAreExact ==
  ASSUME StructureInv
  PROVE  TagExact
<1>. DEFINE T == Tagged(before)
<1>1. Reviewed(before) /\ Reviewed(after)
  BY DEF StructureInv
<1>2. ASSUME NEW P, Reviewed(P), NEW id \in Tagged(P)
      PROVE  /\ id \in Path /\ Len(id) = 1 /\ id \in Ids(P)
             /\ \E k \in 1..Len(P) : Identity(P, k) = id /\ P[k].tagged
  <2>1. PICK k \in DOMAIN P : P[k].tagged /\ Identity(P, k) = id
    BY DEF Tagged
  <2>2. k \in 1..Len(P) /\ k \in 0..Len(P)
    BY <1>2, ReviewedIs
  <2>3. P[k] \in AnyNode /\ Deep(P, k) = P[k].depth
    BY <1>2, <2>2, ReviewedIs
  <2>4. P[k].depth = 1
    <3>1. P[k].depth # 1 => P[k].tagged = FALSE
      BY <2>3, NodeIs
    <3>. QED
      BY <2>1, <3>1
  <2>5. Identity(P, k) \in Path /\ Len(Identity(P, k)) = Deep(P, k)
    BY <1>2, <2>2, PathIs
  <2>6. id \in Ids(P)
    BY <2>1, <2>2 DEF Ids
  <2>. QED
    BY <2>1, <2>2, <2>3, <2>4, <2>5, <2>6
<1>3. ASSUME NEW s \in Path, NEW t \in Path, Len(s) = 1, Len(t) = 1, IsPrefix(s, t) PROVE s = t
  <2>1. \A i \in 1..Len(s) : s[i] = t[i]
    BY <1>3, PrefixIs
  <2>. QED
    BY <1>3, <2>1, SeqEqual DEF Path
<1>4. T \in SUBSET Path /\ \A id \in T : Len(id) = 1
  BY <1>1, <1>2
<1>5. Scoped(T) /\ T \subseteq Ids(before)
  <2>1. <<>> \notin T
    BY <1>4
  <2>2. Apart(T)
    BY <1>3, <1>4 DEF Apart
  <2>3. T \subseteq Ids(before)
    BY <1>1, <1>2
  <2>. QED
    BY <1>4, <2>1, <2>2, <2>3 DEF Scoped
<1>6. SUFFICES ASSUME T \subseteq Tagged(after), Within(T)
               PROVE  OutsideOf(before, T) = OutsideOf(after, T) /\ Tagged(after) = T
  BY DEF TagExact, TagVerified, TagKept
<1>7. T \subseteq Ids(after)
  <2>1. Tagged(after) \subseteq Ids(after)
    BY <1>1, <1>2
  <2>. QED
    BY <1>6, <2>1
<1>8. OutsideOf(before, T) = OutsideOf(after, T)
  BY <1>5, <1>6, <1>7, ScopesAreExact
<1>9. ASSUME NEW id \in Tagged(after), id \notin T PROVE FALSE
  <2>1. PICK k \in 1..Len(after) : Identity(after, k) = id /\ after[k].tagged
    BY <1>1, <1>2
  <2>2. id \in Path /\ Len(id) = 1 /\ id \in Ids(after)
    BY <1>1, <1>2
  <2>3. ~Inside(id, T)
    BY <1>3, <1>4, <1>9, <2>2 DEF Inside
  <2>4. SameOutside(before, after, T)
    BY <1>6, WithinIs
  <2>5. id \in Ids(before)
    BY <2>2, <2>3, <2>4 DEF SameOutside
  <2>6. PICK j \in 0..Len(before) : Identity(before, j) = id
    BY <2>5 DEF Ids
  <2>7. SameOutside(after, before, T)
    BY <2>4, SameOutsideBack
  <2>8. k \in 0..Len(after) /\ k # 0
    BY <1>1, ReviewedIs
  <2>9. j # 0 /\ before[j].tagged = after[k].tagged
    <3>1. Identity(after, k) = Identity(before, j) /\ ~Inside(Identity(after, k), T)
      BY <2>1, <2>3, <2>6
    <3>. HIDE DEF T
    <3>. QED
      BY <1>1, <2>7, <2>8, <3>1, SameRecord
  <2>10. j \in DOMAIN before
    BY <1>1, <2>9, ReviewedIs
  <2>11. id \in Tagged(before)
    BY <2>1, <2>6, <2>9, <2>10 DEF Tagged
  <2>. QED
    BY <1>9, <2>11
<1>10. Tagged(after) = T
  BY <1>6, <1>9
<1>. QED
  BY <1>8, <1>10

----------------------------------------------------------------------------
(* The editor.                                                             *)

\* A block stays one with another content or name, and a SEP with or without its tag.
LEMMA NodeWith ==
  ASSUME NEW node \in AnyNode
  PROVE  /\ \A content \in Contents : [node EXCEPT !.content = content] \in AnyNode
         /\ \A name \in Names : [node EXCEPT !.name = name] \in AnyNode
         /\ node.depth = 1 => [node EXCEPT !.tagged = ~@] \in AnyNode
<1>1. PICK d \in 1..Deepest, n \in Names, c \in Contents, t \in BOOLEAN :
        node = [depth |-> d, name |-> n, content |-> c, tagged |-> t] /\ (d # 1 => t = FALSE) /\ d = node.depth
  <2>1. node.depth \in 1..Deepest /\ node.name \in Names /\ node.content \in Contents /\ node.tagged \in BOOLEAN
    BY NodeIs
  <2>2. node.depth # 1 => node.tagged = FALSE
    BY NodeIs
  <2>3. node = [depth |-> node.depth, name |-> node.name, content |-> node.content, tagged |-> node.tagged]
    BY NodeIs
  <2>. QED
    BY <2>1, <2>2, <2>3, Zenon
<1>2. ASSUME NEW content \in Contents PROVE [node EXCEPT !.content = content] \in AnyNode
  <2>1. [node EXCEPT !.content = content] = [depth |-> d, name |-> n, content |-> content, tagged |-> t]
    BY <1>1
  <2>2. [depth |-> d, name |-> n, content |-> content, tagged |-> t] \in AnyNode
    BY <1>1, NodeHas
  <2>. QED
    BY <2>1, <2>2
<1>3. ASSUME NEW name \in Names PROVE [node EXCEPT !.name = name] \in AnyNode
  <2>1. [node EXCEPT !.name = name] = [depth |-> d, name |-> name, content |-> c, tagged |-> t]
    BY <1>1
  <2>2. [depth |-> d, name |-> name, content |-> c, tagged |-> t] \in AnyNode
    BY <1>1, NodeHas
  <2>. QED
    BY <2>1, <2>2
<1>4. ASSUME node.depth = 1 PROVE [node EXCEPT !.tagged = ~@] \in AnyNode
  <2>1. [node EXCEPT !.tagged = ~@] = [depth |-> d, name |-> n, content |-> c, tagged |-> ~t]
    BY <1>1
  <2>2. (~t) \in BOOLEAN /\ d = 1
    BY <1>1, <1>4
  <2>3. [depth |-> d, name |-> n, content |-> c, tagged |-> ~t] \in AnyNode
    BY <2>2, NodeHas
  <2>. QED
    BY <2>1, <2>3
<1>. QED
  BY <1>2, <1>3, <1>4

\* A program with a block replaced is one of such blocks.
LEMMA NodeEdited ==
  ASSUME NEW P, Reviewed(P), NEW k \in 1..Len(P), NEW node \in AnyNode
  PROVE  [P EXCEPT ![k] = node] \in Seq(AnyNode)
BY ExceptSeq DEF Reviewed

\* So is one with a block removed.
LEMMA NodeRemoved ==
  ASSUME NEW P, Reviewed(P), NEW k \in 1..Len(P)
  PROVE  RemoveAt(P, k) \in Seq(AnyNode)
<1>1. PICK n \in Nat : n = Len(P) /\ k \in 1..n /\ \A i \in 1..n : P[i] \in AnyNode
  BY ReviewedIs
<1>2. SubSeq(P, 1, k - 1) \in Seq(AnyNode)
  <2>1. k - 1 \in Int /\ \A i \in 1..(k - 1) : P[i] \in AnyNode
    BY <1>1
  <2>. QED
    BY <2>1, SubSeqProperties
<1>3. SubSeq(P, k + 1, n) \in Seq(AnyNode)
  <2>1. k + 1 \in Int /\ \A i \in (k + 1)..n : P[i] \in AnyNode
    BY <1>1
  <2>. QED
    BY <2>1, SubSeqProperties
<1>4. SubSeq(P, 1, k - 1) \o SubSeq(P, k + 1, n) \in Seq(AnyNode)
  BY <1>2, <1>3, ConcatProperties
<1>. QED
  BY <1>1, <1>4 DEF RemoveAt

\* And one with a block inserted.
LEMMA NodeInserted ==
  ASSUME NEW P, Reviewed(P), NEW k \in 1..Len(P) + 1, NEW node \in AnyNode
  PROVE  InsertAt(P, k, node) \in Seq(AnyNode)
<1>1. PICK n \in Nat : n = Len(P) /\ k \in 1..(n + 1) /\ \A i \in 1..n : P[i] \in AnyNode
  BY ReviewedIs
<1>2. SubSeq(P, 1, k - 1) \in Seq(AnyNode)
  <2>1. k - 1 \in Int /\ \A i \in 1..(k - 1) : P[i] \in AnyNode
    BY <1>1
  <2>. QED
    BY <2>1, SubSeqProperties
<1>3. SubSeq(P, k, n) \in Seq(AnyNode)
  <2>1. k \in Int /\ \A i \in k..n : P[i] \in AnyNode
    BY <1>1
  <2>. QED
    BY <2>1, SubSeqProperties
<1>4. <<node>> \in Seq(AnyNode)
  OBVIOUS
<1>5. SubSeq(P, 1, k - 1) \o <<node>> \in Seq(AnyNode)
  BY <1>2, <1>4, ConcatProperties
<1>6. SubSeq(P, 1, k - 1) \o <<node>> \o SubSeq(P, k, n) \in Seq(AnyNode)
  BY <1>3, <1>5, ConcatProperties
<1>. QED
  BY <1>1, <1>6 DEF InsertAt

\* What the programs are stays so: an edit that would nest badly is not made.
LEMMA RewriteKeeps ==
  ASSUME StructureInv, NEW program \in Seq(AnyNode), Rewrite(program)
  PROVE  StructureInv'
BY DEF StructureInv, Rewrite, Reviewed

\* The program before is well nested, and the one after is the same.
LEMMA StructureStarts ==
  ASSUME StructureInit
  PROVE  StructureInv
<1>1. PICK m \in Nat : before \in [1..m -> AnyNode] /\ WellNested(before)
  <2>1. PICK m \in 0..(MaxBlocks - 1) : before \in [1..m -> AnyNode] /\ WellNested(before)
    BY DEF StructureInit, Programs, AnyNode
  <2>2. m \in Nat
    BY <2>1, StructureAssumption
  <2>. QED
    BY <2>1, <2>2
<1>2. before \in Seq(AnyNode)
  BY <1>1
<1>. QED
  BY <1>1, <1>2 DEF StructureInit, StructureInv, Reviewed

\* Every rewriting leaves the program after well nested.
LEMMA StructureStep ==
  ASSUME StructureInv, [StructureNext]_structureVars
  PROVE  StructureInv'
<1>1. Reviewed(after) /\ DOMAIN after = 1..Len(after) /\ Len(after) \in Nat
  BY ReviewedIs DEF StructureInv
<1>2. ASSUME NEW k \in DOMAIN after, NEW content \in Contents, Change(k, content) PROVE StructureInv'
  <2>1. [after[k] EXCEPT !.content = content] \in AnyNode
    BY <1>1, ReviewedIs, NodeWith
  <2>2. [after EXCEPT ![k].content = content] \in Seq(AnyNode)
    BY <1>1, <2>1, NodeEdited
  <2>. QED
    BY <1>2, <2>2, RewriteKeeps DEF Change
<1>3. ASSUME NEW k \in DOMAIN after, NEW name \in Names, Rename(k, name) PROVE StructureInv'
  <2>1. [after[k] EXCEPT !.name = name] \in AnyNode
    BY <1>1, ReviewedIs, NodeWith
  <2>2. [after EXCEPT ![k].name = name] \in Seq(AnyNode)
    BY <1>1, <2>1, NodeEdited
  <2>. QED
    BY <1>3, <2>2, RewriteKeeps DEF Rename
<1>4. ASSUME NEW k \in DOMAIN after, Retag(k) PROVE StructureInv'
  <2>1. [after[k] EXCEPT !.tagged = ~@] \in AnyNode
    <3>1. after[k] \in AnyNode /\ after[k].depth = 1
      BY <1>1, <1>4, ReviewedIs DEF Retag
    <3>. QED
      BY <3>1, NodeWith
  <2>2. [after EXCEPT ![k].tagged = ~@] \in Seq(AnyNode)
    BY <1>1, <2>1, NodeEdited
  <2>. QED
    BY <1>4, <2>2, RewriteKeeps DEF Retag
<1>5. ASSUME NEW k \in DOMAIN after, Delete(k) PROVE StructureInv'
  <2>1. RemoveAt(after, k) \in Seq(AnyNode)
    BY <1>1, NodeRemoved
  <2>. QED
    BY <1>5, <2>1, RewriteKeeps DEF Delete
<1>6. ASSUME NEW k \in 1..Len(after) + 1, NEW d \in 1..Deepest, NEW node \in Nodes(d), Insert(k, node) PROVE StructureInv'
  <2>1. node \in AnyNode
    BY DEF AnyNode
  <2>2. InsertAt(after, k, node) \in Seq(AnyNode)
    BY <1>1, <2>1, NodeInserted
  <2>. QED
    BY <1>6, <2>2, RewriteKeeps DEF Insert
<1>7. ASSUME NEW k \in 1..Len(after) - 1, Swap(k) PROVE StructureInv'
  <2>1. k \in 1..Len(after) /\ k + 1 \in 1..Len(after)
    BY <1>1
  <2>2. after[k] \in AnyNode /\ after[k + 1] \in AnyNode /\ after \in Seq(AnyNode)
    BY <1>1, <2>1, ReviewedIs DEF Reviewed
  <2>. DEFINE half == [after EXCEPT ![k] = after[k + 1]]
  <2>3. half \in Seq(AnyNode) /\ Len(half) = Len(after)
    BY <2>1, <2>2, ExceptSeq
  <2>4. [half EXCEPT ![k + 1] = after[k]] \in Seq(AnyNode)
    <3>. HIDE DEF half
    <3>. QED
      BY <2>1, <2>2, <2>3, ExceptSeq
  <2>5. [after EXCEPT ![k] = after[k + 1], ![k + 1] = after[k]] \in Seq(AnyNode)
    BY <2>4
  <2>. QED
    BY <1>7, <2>5, RewriteKeeps DEF Swap
<1>8. CASE UNCHANGED structureVars
  BY <1>8 DEF structureVars, StructureInv, Reviewed
<1>. QED
  BY <1>2, <1>3, <1>4, <1>5, <1>6, <1>7, <1>8 DEF StructureNext

\* structural_diff finds a difference if there is one; verify_scopes accepts a change exactly
\* if all outside of the scopes is what it was and the scopes are still there; what
\* verify_tag_scope accepts is such a change, and the tagged SEPs are those they were.
THEOREM ScopeAlwaysExact == StructureInit /\ [][StructureNext]_structureVars => []ScopeExact
<1>1. StructureInit => StructureInv
  BY StructureStarts
<1>2. StructureInv /\ [StructureNext]_structureVars => StructureInv'
  BY StructureStep
<1>3. StructureInv => ScopeExact
  BY DiffIsComplete, VerificationIsExact, TagsAreExact DEF ScopeExact
<1>. QED
  BY <1>1, <1>2, <1>3, PTL
================================================================================
