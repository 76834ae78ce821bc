-------------------------- MODULE DoubleOpsProofs --------------------------
(***************************************************************************)
(* Proofs about DoubleOps, for items of any type: optionals and lists are  *)
(* ordered, equal and hashed like keys must be if their items are.         *)
(***************************************************************************)
EXTENDS DoubleOps, TLAPS, WellFoundedInduction

THEOREM OptionsAreOrdered == ItemsOrdered => OptionsOrdered
<1> SUFFICES ASSUME ItemsOrdered PROVE OptionsOrdered
  OBVIOUS
<1> USE DEF Options, OptionCmp, OptionPartialCmp, OptionEq, OptionHash
<1>1. ASSUME NEW a \in Options, NEW b \in Options
      PROVE  /\ OptionCmp(a, b) \in Orderings
             /\ OptionPartialCmp(a, b) = OptionCmp(a, b)
             /\ OptionEq(a, b) <=> OptionCmp(a, b) = "equal"
             /\ OptionCmp(a, b) = "less" <=> OptionCmp(b, a) = "greater"
             /\ OptionEq(a, b) => OptionHash(a) = OptionHash(b)
  BY DEF ItemsOrdered, IsOrdered, Orderings
<1>2. ASSUME NEW a \in Options PROVE OptionEq(a, a)
  BY DEF ItemsOrdered, IsOrdered
<1>3. ASSUME NEW a \in Options, NEW b \in Options, NEW c \in Options,
             OptionCmp(a, b) # "greater", OptionCmp(b, c) # "greater"
      PROVE  OptionCmp(a, c) # "greater"
  BY <1>3 DEF ItemsOrdered, IsOrdered
<1>4. QED
  BY <1>1, <1>2, <1>3 DEF OptionsOrdered, IsOrdered

----------------------------------------------------------------------------
LEMMA FirstIs ==
  ASSUME NEW S \in SUBSET Nat, S # {}
  PROVE  First(S) \in S /\ \A j \in S : First(S) <= j
<1>1. PICK n \in S : \A m \in S : <<m, n>> \notin OpToRel(<, Nat)
  BY WFMin, NatLessThanWellFounded, Zenon
<1>2. \A m \in S : n <= m
  <2>1. \A m \in S : ~(m < n)
    BY <1>1 DEF OpToRel
  <2>2. QED
    BY <2>1
<1>3. \E i \in S : \A j \in S : i <= j
  BY <1>2
<1>4. QED
  BY <1>3 DEF First

(* Items in their order: how two comparisons make a third. *)
LEMMA ItemsChain ==
  ASSUME ItemsOrdered, NEW x \in Items, NEW y \in Items, NEW z \in Items
  PROVE  /\ Cmp(x, y) \in Orderings
         /\ Cmp(x, y) = "equal" <=> Cmp(y, x) = "equal"
         /\ Cmp(x, y) = "less" <=> Cmp(y, x) = "greater"
         /\ Cmp(x, y) = "equal" /\ Cmp(y, z) = "equal" => Cmp(x, z) = "equal"
         /\ Cmp(x, y) = "less" /\ Cmp(y, z) # "greater" => Cmp(x, z) = "less"
         /\ Cmp(x, y) # "greater" /\ Cmp(y, z) = "less" => Cmp(x, z) = "less"
<1>1. \A u, v \in Items : /\ Cmp(u, v) \in {"less", "equal", "greater"}
                          /\ Cmp(u, v) = "less" <=> Cmp(v, u) = "greater"
  BY DEF ItemsOrdered, IsOrdered, Orderings
<1>2. \A u, v, w \in Items :
        Cmp(u, v) # "greater" /\ Cmp(v, w) # "greater" => Cmp(u, w) # "greater"
  BY DEF ItemsOrdered, IsOrdered
<1>3. \A u, v \in Items : Cmp(u, v) = "equal" <=> Cmp(v, u) = "equal"
  BY <1>1
<1>4. Cmp(x, y) = "equal" /\ Cmp(y, z) = "equal" => Cmp(x, z) = "equal"
  <2>1. Cmp(x, y) = "equal" /\ Cmp(y, z) = "equal" =>
          Cmp(x, z) # "greater" /\ Cmp(z, x) # "greater"
    BY <1>2, <1>3
  <2>2. QED
    BY <2>1, <1>1
<1>5. Cmp(x, y) = "less" /\ Cmp(y, z) # "greater" => Cmp(x, z) = "less"
  <2> SUFFICES ASSUME Cmp(x, y) = "less", Cmp(y, z) # "greater" PROVE Cmp(x, z) = "less"
    OBVIOUS
  <2>1. Cmp(x, z) # "greater" /\ Cmp(y, x) = "greater"
    BY <1>1, <1>2
  <2>2. Cmp(z, x) = "greater"
    BY <2>1, <1>1, <1>2
  <2>3. QED
    BY <2>2, <1>1
<1>6. Cmp(x, y) # "greater" /\ Cmp(y, z) = "less" => Cmp(x, z) = "less"
  <2> SUFFICES ASSUME Cmp(x, y) # "greater", Cmp(y, z) = "less" PROVE Cmp(x, z) = "less"
    OBVIOUS
  <2>1. Cmp(x, z) # "greater" /\ Cmp(z, y) = "greater"
    BY <1>1, <1>2
  <2>2. Cmp(z, x) = "greater"
    BY <2>1, <1>1, <1>2
  <2>3. QED
    BY <2>2, <1>1
<1>7. QED
  BY <1>1, <1>3, <1>4, <1>5, <1>6, Zenon DEF Orderings

(***************************************************************************)
(* What the loop finds: the first index at which the lists differ, if any. *)
(***************************************************************************)
SameBefore(a, b, k) == \A i \in Common(a, b) : i < k => Cmp(a[i], b[i]) = "equal"
Same(a, b) == \A i \in Common(a, b) : Cmp(a[i], b[i]) = "equal"
DiffersAt(a, b, k) ==
  k \in Common(a, b) /\ SameBefore(a, b, k) /\ Cmp(a[k], b[k]) # "equal"

LEMMA CommonIs ==
  ASSUME NEW a \in Seq(Items), NEW b \in Seq(Items)
  PROVE  /\ Common(a, b) = {i \in Nat : 1 <= i /\ i <= Len(a) /\ i <= Len(b)}
         /\ Common(a, b) = Common(b, a)
         /\ Len(a) \in Nat /\ Len(b) \in Nat
         /\ \A i \in Common(a, b) : i \in Nat /\ a[i] \in Items /\ b[i] \in Items
BY DEF Common

LEMMA LoopFinds ==
  ASSUME NEW a \in Seq(Items), NEW b \in Seq(Items)
  PROVE  \/ Same(a, b) /\ VecCmp(a, b) = LenCmp(a, b)
         \/ \E k \in Nat : DiffersAt(a, b, k) /\ VecCmp(a, b) = Cmp(a[k], b[k])
<1> DEFINE differ == {i \in Common(a, b) : Cmp(a[i], b[i]) # "equal"}
<1>1. VecCmp(a, b) = IF differ = {} THEN LenCmp(a, b)
                     ELSE Cmp(a[First(differ)], b[First(differ)])
  BY DEF VecCmp
<1>2. differ \in SUBSET Nat
  BY CommonIs
<1>3. CASE differ = {}
  BY <1>1, <1>3 DEF Same
<1>4. CASE differ # {}
  <2>1. First(differ) \in differ /\ \A j \in differ : First(differ) <= j
    BY <1>2, <1>4, FirstIs
  <2>2. PICK k \in differ : k = First(differ) /\ \A j \in differ : k <= j
    BY <2>1
  <2>3. k \in Nat
    BY <1>2
  <2>4. \A i \in Nat : i < k => ~(k <= i)
    BY <2>3
  <2>5. \A i \in Common(a, b) : i < k => i \notin differ
    BY <2>2, <2>4, CommonIs
  <2>6. DiffersAt(a, b, k)
    BY <2>2, <2>5 DEF DiffersAt, SameBefore
  <2>7. QED
    BY <1>1, <1>4, <2>2, <2>3, <2>6
<1>5. QED
  BY <1>3, <1>4

LEMMA DiffersOnce ==
  ASSUME NEW a \in Seq(Items), NEW b \in Seq(Items), NEW k \in Nat, DiffersAt(a, b, k)
  PROVE  ~Same(a, b) /\ \A m \in Nat : DiffersAt(a, b, m) => m = k
<1>1. ~Same(a, b)
  BY DEF DiffersAt, Same
<1>2. \A m \in Nat : DiffersAt(a, b, m) => ~(m < k) /\ ~(k < m)
  BY DEF DiffersAt, SameBefore
<1>3. QED
  BY <1>1, <1>2

LEMMA FoundSame ==
  ASSUME NEW a \in Seq(Items), NEW b \in Seq(Items), Same(a, b)
  PROVE  VecCmp(a, b) = LenCmp(a, b)
BY LoopFinds, DiffersOnce

LEMMA FoundDiffers ==
  ASSUME NEW a \in Seq(Items), NEW b \in Seq(Items), NEW k \in Nat, DiffersAt(a, b, k)
  PROVE  VecCmp(a, b) = Cmp(a[k], b[k])
BY LoopFinds, DiffersOnce

----------------------------------------------------------------------------
(* The other way round the loop stops at the same index. *)
LEMMA Mirrored ==
  ASSUME ItemsOrdered, NEW a \in Seq(Items), NEW b \in Seq(Items)
  PROVE  /\ Same(a, b) <=> Same(b, a)
         /\ \A k \in Nat : DiffersAt(a, b, k) <=> DiffersAt(b, a, k)
<1>1. \A i \in Common(a, b) : Cmp(a[i], b[i]) = "equal" <=> Cmp(b[i], a[i]) = "equal"
  BY CommonIs, ItemsChain
<1>2. Common(a, b) = Common(b, a)
  BY CommonIs
<1>3. QED
  BY <1>1, <1>2 DEF Same, DiffersAt, SameBefore

LEMMA VecAnswers ==
  ASSUME ItemsOrdered, NEW a \in Seq(Items), NEW b \in Seq(Items)
  PROVE  /\ VecCmp(a, b) \in Orderings
         /\ VecCmp(a, b) = "less" <=> VecCmp(b, a) = "greater"
         /\ VecCmp(a, b) = "equal" <=> Same(a, b) /\ Len(a) = Len(b)
<1>1. Len(a) \in Nat /\ Len(b) \in Nat
  BY CommonIs
<1>2. CASE Same(a, b)
  <2>1. VecCmp(a, b) = LenCmp(a, b) /\ VecCmp(b, a) = LenCmp(b, a)
    BY <1>2, FoundSame, Mirrored
  <2>2. /\ LenCmp(a, b) \in Orderings
        /\ LenCmp(a, b) = "less" <=> LenCmp(b, a) = "greater"
        /\ LenCmp(a, b) = "equal" <=> Len(a) = Len(b)
    BY <1>1 DEF LenCmp, Orderings
  <2>3. QED
    BY <1>2, <2>1, <2>2
<1>3. CASE ~Same(a, b)
  <2>1. PICK k \in Nat : DiffersAt(a, b, k)
    BY <1>3, LoopFinds
  <2>2. VecCmp(a, b) = Cmp(a[k], b[k]) /\ VecCmp(b, a) = Cmp(b[k], a[k])
    BY <2>1, FoundDiffers, Mirrored
  <2>3. a[k] \in Items /\ b[k] \in Items /\ Cmp(a[k], b[k]) # "equal"
    BY <2>1, CommonIs DEF DiffersAt
  <2>4. QED
    BY <1>3, <2>2, <2>3, ItemsChain
<1>4. QED
  BY <1>2, <1>3

(***************************************************************************)
(* A list is not above another if it is below it where they first differ,  *)
(* or begins it.                                                           *)
(***************************************************************************)
LessAt(a, b, k) == k \in Common(a, b) /\ SameBefore(a, b, k) /\ Cmp(a[k], b[k]) = "less"
Begins(a, b) == Same(a, b) /\ Len(a) <= Len(b)

LEMMA NotGreaterIs ==
  ASSUME ItemsOrdered, NEW a \in Seq(Items), NEW b \in Seq(Items)
  PROVE  VecCmp(a, b) # "greater" <=> (\E k \in Nat : LessAt(a, b, k)) \/ Begins(a, b)
<1>1. Len(a) \in Nat /\ Len(b) \in Nat
  BY CommonIs
<1>2. CASE Same(a, b)
  <2>1. VecCmp(a, b) = LenCmp(a, b)
    BY <1>2, FoundSame
  <2>2. LenCmp(a, b) # "greater" <=> Len(a) <= Len(b)
    BY <1>1 DEF LenCmp
  <2>3. ~\E k \in Nat : LessAt(a, b, k)
    BY <1>2 DEF LessAt, Same
  <2>4. QED
    BY <1>2, <2>1, <2>2, <2>3 DEF Begins
<1>3. CASE ~Same(a, b)
  <2>1. PICK k \in Nat : DiffersAt(a, b, k)
    BY <1>3, LoopFinds
  <2>2. VecCmp(a, b) = Cmp(a[k], b[k])
    BY <2>1, FoundDiffers
  <2>3. Cmp(a[k], b[k]) \in {"less", "greater"}
    BY <2>1, CommonIs, ItemsChain DEF DiffersAt, Orderings
  <2>4. Cmp(a[k], b[k]) = "less" => LessAt(a, b, k)
    BY <2>1 DEF DiffersAt, LessAt
  <2>5. \A m \in Nat : LessAt(a, b, m) => m = k
    <3>1. \A m \in Nat : LessAt(a, b, m) => DiffersAt(a, b, m)
      BY DEF LessAt, DiffersAt
    <3>2. QED
      BY <2>1, <3>1, DiffersOnce
  <2>6. QED
    BY <1>3, <2>2, <2>3, <2>4, <2>5 DEF LessAt, Begins
<1>4. QED
  BY <1>2, <1>3

LEMMA VecTransitive ==
  ASSUME ItemsOrdered, NEW a \in Seq(Items), NEW b \in Seq(Items), NEW c \in Seq(Items),
         VecCmp(a, b) # "greater", VecCmp(b, c) # "greater"
  PROVE  VecCmp(a, c) # "greater"
<1> SUFFICES (\E k \in Nat : LessAt(a, c, k)) \/ Begins(a, c)
  BY NotGreaterIs
<1>1. /\ (\E k \in Nat : LessAt(a, b, k)) \/ Begins(a, b)
      /\ (\E k \in Nat : LessAt(b, c, k)) \/ Begins(b, c)
  BY NotGreaterIs
<1>2. /\ Common(a, b) = {i \in Nat : 1 <= i /\ i <= Len(a) /\ i <= Len(b)}
      /\ Common(b, c) = {i \in Nat : 1 <= i /\ i <= Len(b) /\ i <= Len(c)}
      /\ Common(a, c) = {i \in Nat : 1 <= i /\ i <= Len(a) /\ i <= Len(c)}
      /\ Len(a) \in Nat /\ Len(b) \in Nat /\ Len(c) \in Nat
  BY CommonIs
<1>3. \A i : i \in Common(a, b) /\ i \in Common(b, c) =>
        /\ i \in Common(a, c)
        /\ Cmp(a[i], b[i]) = "equal" /\ Cmp(b[i], c[i]) = "equal" => Cmp(a[i], c[i]) = "equal"
        /\ Cmp(a[i], b[i]) = "less" /\ Cmp(b[i], c[i]) # "greater" => Cmp(a[i], c[i]) = "less"
        /\ Cmp(a[i], b[i]) # "greater" /\ Cmp(b[i], c[i]) = "less" => Cmp(a[i], c[i]) = "less"
  <2> SUFFICES ASSUME NEW i, i \in Common(a, b), i \in Common(b, c)
               PROVE  i \in Common(a, c) /\ a[i] \in Items /\ b[i] \in Items /\ c[i] \in Items
    BY ItemsChain
  <2>1. i \in Common(a, c)
    BY <1>2
  <2>2. QED
    BY <2>1, CommonIs
<1>4. ASSUME NEW k \in Nat, LessAt(a, b, k), NEW m \in Nat, LessAt(b, c, m)
      PROVE  \E j \in Nat : LessAt(a, c, j)
  <2>1. CASE k <= m
    <3>1. k \in Common(b, c) /\ Cmp(b[k], c[k]) # "greater"
      BY <1>2, <1>4, <2>1 DEF LessAt, SameBefore
    <3>2. \A i \in Common(a, c) : i < k => i \in Common(a, b) /\ i \in Common(b, c)
      BY <1>2, <1>4, <2>1 DEF LessAt
    <3>3. \A i \in Common(b, c) : i < k => Cmp(b[i], c[i]) = "equal"
      BY <1>2, <1>4, <2>1 DEF LessAt, SameBefore
    <3>4. LessAt(a, c, k)
      BY <1>3, <1>4, <3>1, <3>2, <3>3 DEF LessAt, SameBefore
    <3>5. QED
      BY <3>4
  <2>2. CASE m < k
    <3>1. m \in Common(a, b) /\ Cmp(a[m], b[m]) = "equal"
      BY <1>2, <1>4, <2>2 DEF LessAt, SameBefore
    <3>2. \A i \in Common(a, c) : i < m => i \in Common(a, b) /\ i \in Common(b, c)
      BY <1>2, <1>4, <2>2 DEF LessAt
    <3>3. \A i \in Common(a, b) : i < m => Cmp(a[i], b[i]) = "equal"
      BY <1>2, <1>4, <2>2 DEF LessAt, SameBefore
    <3>4. LessAt(a, c, m)
      BY <1>3, <1>4, <3>1, <3>2, <3>3 DEF LessAt, SameBefore
    <3>5. QED
      BY <3>4
  <2>3. QED
    BY <2>1, <2>2
<1>5. ASSUME NEW k \in Nat, LessAt(a, b, k), Begins(b, c)
      PROVE  \E j \in Nat : LessAt(a, c, j)
  <2>1. k \in Common(b, c) /\ Cmp(b[k], c[k]) = "equal"
    BY <1>2, <1>5 DEF LessAt, Begins, Same
  <2>2. \A i \in Common(a, c) : i < k => i \in Common(a, b) /\ i \in Common(b, c)
    BY <1>2, <1>5 DEF LessAt, Begins
  <2>3. LessAt(a, c, k)
    BY <1>3, <1>5, <2>1, <2>2 DEF LessAt, SameBefore, Begins, Same
  <2>4. QED
    BY <2>3
<1>6. ASSUME Begins(a, b), NEW m \in Nat, LessAt(b, c, m)
      PROVE  (\E j \in Nat : LessAt(a, c, j)) \/ Begins(a, c)
  <2>1. CASE m <= Len(a)
    <3>1. m \in Common(a, b) /\ Cmp(a[m], b[m]) = "equal"
      BY <1>2, <1>6, <2>1 DEF LessAt, Begins, Same
    <3>2. \A i \in Common(a, c) : i < m => i \in Common(a, b) /\ i \in Common(b, c)
      BY <1>2, <1>6 DEF LessAt, Begins
    <3>3. LessAt(a, c, m)
      BY <1>3, <1>6, <3>1, <3>2 DEF LessAt, SameBefore, Begins, Same
    <3>4. QED
      BY <3>3
  <2>2. CASE Len(a) < m
    <3>1. Len(a) <= Len(c)
      BY <1>2, <1>6, <2>2 DEF LessAt
    <3>2. \A i \in Common(a, c) : i < m /\ i \in Common(a, b) /\ i \in Common(b, c)
      BY <1>2, <1>6, <2>2 DEF LessAt, Begins
    <3>3. Same(a, c)
      BY <1>3, <1>6, <3>2 DEF LessAt, SameBefore, Begins, Same
    <3>4. QED
      BY <3>1, <3>3 DEF Begins
  <2>3. QED
    BY <1>2, <2>1, <2>2
<1>7. ASSUME Begins(a, b), Begins(b, c)
      PROVE  Begins(a, c)
  <2>1. Len(a) <= Len(c)
    BY <1>2, <1>7 DEF Begins
  <2>2. \A i \in Common(a, c) : i \in Common(a, b) /\ i \in Common(b, c)
    BY <1>2, <1>7 DEF Begins
  <2>3. Same(a, c)
    BY <1>3, <1>7, <2>2 DEF Begins, Same
  <2>4. QED
    BY <2>1, <2>3 DEF Begins
<1>8. QED
  BY <1>1, <1>4, <1>5, <1>6, <1>7

----------------------------------------------------------------------------
(* Lists of any length, of items whose order, equality and hash agree, are *)
(* totally ordered by the loop, by both comparisons alike; they are equal  *)
(* as it says, and then have the same hash.                                *)
THEOREM VecsAreOrdered == ItemsOrdered => VecsOrdered(Seq(Items))
<1> SUFFICES ASSUME ItemsOrdered PROVE VecsOrdered(Seq(Items))
  OBVIOUS
<1>1. ASSUME NEW a \in Seq(Items), NEW b \in Seq(Items)
      PROVE  VecPartialCmp(a, b) = VecCmp(a, b)
  <2> DEFINE differ == {i \in Common(a, b) : Cmp(a[i], b[i]) # "equal"}
             partial == {i \in Common(a, b) : PartialCmp(a[i], b[i]) # "equal"}
  <2>1. \A i \in Common(a, b) : PartialCmp(a[i], b[i]) = Cmp(a[i], b[i])
    BY CommonIs DEF ItemsOrdered, IsOrdered
  <2>2. partial = differ
    BY <2>1
  <2>3. differ # {} => First(differ) \in Common(a, b)
    BY CommonIs, FirstIs
  <2>4. QED
    BY <2>1, <2>2, <2>3 DEF VecPartialCmp, VecCmp
<1>2. ASSUME NEW a \in Seq(Items), NEW b \in Seq(Items)
      PROVE  VecEq(a, b) <=> VecCmp(a, b) = "equal"
  <2>1. Len(a) = Len(b) => Common(a, b) = DOMAIN a
    <3>1. DOMAIN a = 1 .. Len(a) /\ DOMAIN b = 1 .. Len(b)
      OBVIOUS
    <3>2. QED
      BY <3>1 DEF Common
  <2>2. \A i \in Common(a, b) : Eq(a[i], b[i]) <=> Cmp(a[i], b[i]) = "equal"
    BY CommonIs DEF ItemsOrdered, IsOrdered
  <2>3. QED
    BY <2>1, <2>2, VecAnswers DEF VecEq, Same
<1>3. ASSUME NEW a \in Seq(Items), NEW b \in Seq(Items), VecEq(a, b)
      PROVE  VecHash(a) = VecHash(b)
  <2>1. Len(a) = Len(b) /\ DOMAIN a = DOMAIN b
    BY <1>3 DEF VecEq
  <2>2. \A i \in DOMAIN a : Hash(a[i]) = Hash(b[i])
    BY <1>3, <2>1 DEF VecEq, ItemsOrdered, IsOrdered
  <2>3. [i \in DOMAIN a |-> Hash(a[i])] = [i \in DOMAIN b |-> Hash(b[i])]
    BY <2>1, <2>2
  <2>4. QED
    BY <2>1, <2>3 DEF VecHash
<1>4. ASSUME NEW a \in Seq(Items) PROVE VecEq(a, a)
  BY DEF VecEq, ItemsOrdered, IsOrdered
<1>5. QED
  BY <1>1, <1>2, <1>3, <1>4, VecAnswers, VecTransitive DEF VecsOrdered, IsOrdered
=============================================================================
