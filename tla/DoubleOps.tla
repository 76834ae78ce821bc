----------------------------- MODULE DoubleOps -----------------------------
(***************************************************************************)
(* Comparison and hashing of optionals and lists whose items may hold      *)
(* doubles (conjure-object/src/private.rs), which f64 itself does not      *)
(* define: generated types that hold doubles are compared with these.      *)
(* None is the empty sequence and Some(v) is <<v>>.                        *)
(***************************************************************************)
EXTENDS Naturals, Sequences

CONSTANTS
  Items,             \* the values of T
  Cmp(_, _),         \* DoubleOps of T: "less", "equal" or "greater"
  PartialCmp(_, _),  \* the same, where T has an order
  Eq(_, _),
  Hash(_)            \* what is fed to the hasher

Options == {<<>>} \cup {<<v>> : v \in Items}

OptionCmp(a, b) ==
  CASE a # <<>> /\ b # <<>> -> Cmp(a[1], b[1])
    [] a # <<>> /\ b = <<>> -> "greater"
    [] a = <<>> /\ b # <<>> -> "less"
    [] a = <<>> /\ b = <<>> -> "equal"

OptionPartialCmp(a, b) ==
  CASE a # <<>> /\ b # <<>> -> PartialCmp(a[1], b[1])
    [] a # <<>> /\ b = <<>> -> "greater"
    [] a = <<>> /\ b # <<>> -> "less"
    [] a = <<>> /\ b = <<>> -> "equal"

OptionEq(a, b) ==
  \/ a # <<>> /\ b # <<>> /\ Eq(a[1], b[1])
  \/ a = <<>> /\ b = <<>>

OptionHash(a) == IF a = <<>> THEN <<"none">> ELSE <<"some", Hash(a[1])>>

----------------------------------------------------------------------------
\* The indexes both lists have, and the first of some indexes.
Common(a, b) == {i \in DOMAIN a : i \in DOMAIN b}
First(S) == CHOOSE i \in S : \A j \in S : i <= j

LenCmp(a, b) ==
  CASE Len(a) < Len(b) -> "less"
    [] Len(a) = Len(b) -> "equal"
    [] Len(a) > Len(b) -> "greater"

\* Mutant: the lengths are not compared.
VecCmpMutantPrefix(a, b) ==
  LET differ == {i \in Common(a, b) : Cmp(a[i], b[i]) # "equal"}
  IN IF differ = {} THEN "equal" ELSE Cmp(a[First(differ)], b[First(differ)])

\* The loop returns at the first index where the items differ.
VecCmp(a, b) ==
  LET differ == {i \in Common(a, b) : Cmp(a[i], b[i]) # "equal"}
  IN IF differ = {} THEN LenCmp(a, b) ELSE Cmp(a[First(differ)], b[First(differ)])

VecPartialCmp(a, b) ==
  LET differ == {i \in Common(a, b) : PartialCmp(a[i], b[i]) # "equal"}
  IN IF differ = {} THEN LenCmp(a, b) ELSE PartialCmp(a[First(differ)], b[First(differ)])

VecEq(a, b) == Len(a) = Len(b) /\ \A i \in DOMAIN a : Eq(a[i], b[i])

VecHash(a) == <<Len(a)>> \o [i \in DOMAIN a |-> Hash(a[i])]

----------------------------------------------------------------------------
(***************************************************************************)
(* What BTreeMap, BTreeSet and HashMap need of their keys: a total order   *)
(* whose equality is Eq, a partial order that is the same one, and equal   *)
(* hashes of equal values.                                                 *)
(***************************************************************************)
Orderings == {"less", "equal", "greater"}

IsOrdered(S, C(_, _), P(_, _), E(_, _), H(_)) ==
  /\ \A a, b \in S :
       /\ C(a, b) \in Orderings
       /\ P(a, b) = C(a, b)
       /\ E(a, b) <=> C(a, b) = "equal"
       /\ C(a, b) = "less" <=> C(b, a) = "greater"
       /\ E(a, b) => H(a) = H(b)
  /\ \A a \in S : E(a, a)
  /\ \A a, b, c \in S :
       C(a, b) # "greater" /\ C(b, c) # "greater" => C(a, c) # "greater"

ItemsOrdered == IsOrdered(Items, Cmp, PartialCmp, Eq, Hash)
OptionsOrdered == IsOrdered(Options, OptionCmp, OptionPartialCmp, OptionEq, OptionHash)
VecsOrdered(S) == IsOrdered(S, VecCmp, VecPartialCmp, VecEq, VecHash)
=============================================================================
