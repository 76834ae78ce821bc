------------------------------ MODULE DoubleKey ------------------------------
(***************************************************************************)
(* Doubles as they are compared in generated code: as DoubleKey in maps    *)
(* and sets, and through DoubleOps in fields, alone or in optionals and    *)
(* lists.  Both ask OrderedFloat (the crate ordered_float), for which a    *)
(* NaN is itself and above every number, and the two zeros are one.        *)
(***************************************************************************)
EXTENDS Naturals, Sequences, SequencesExt

CONSTANT Rank    \* doubles -> their place in OrderedFloat's order

ASSUME RankAssumption == Rank \in [DOMAIN Rank -> Nat]

Doubles == DOMAIN Rank

\* Mutant: what f64 says of itself, where nothing equals a NaN.
OrderedEqMutantNaN(x, y) == x # "NaN" /\ Rank[x] = Rank[y]

OrderedCmp(x, y) ==
  CASE Rank[x] < Rank[y] -> "less"
    [] Rank[x] = Rank[y] -> "equal"
    [] Rank[x] > Rank[y] -> "greater"
OrderedEq(x, y) == Rank[x] = Rank[y]
OrderedHash(x) == Rank[x]

F64 == INSTANCE DoubleOps WITH
  Items <- Doubles, Cmp <- OrderedCmp, PartialCmp <- OrderedCmp, Eq <- OrderedEq,
  Hash <- OrderedHash

\* Option<Option<f64>> is no Conjure type; Vec<Option<f64>>, Vec<Vec<f64>> and
\* Option<Vec<f64>> are.
OptionF64 == INSTANCE DoubleOps WITH
  Items <- F64!Options, Cmp <- F64!OptionCmp, PartialCmp <- F64!OptionPartialCmp,
  Eq <- F64!OptionEq, Hash <- F64!OptionHash

Vecs == BoundedSeq(Doubles, 2)
VecF64 == INSTANCE DoubleOps WITH
  Items <- Vecs, Cmp <- F64!VecCmp, PartialCmp <- F64!VecPartialCmp,
  Eq <- F64!VecEq, Hash <- F64!VecHash

(***************************************************************************)
(* Doubles, optionals of doubles and lists of them, in each other, are     *)
(* ordered, equal and hashed as map and set keys must be, with NaN and     *)
(* both zeros among them.                                                  *)
(***************************************************************************)
DoublesAreOrdered ==
  /\ F64!ItemsOrdered
  /\ F64!OptionsOrdered
  /\ F64!VecsOrdered(BoundedSeq(Doubles, 2))
  /\ OptionF64!VecsOrdered(BoundedSeq(F64!Options, 2))
  /\ VecF64!OptionsOrdered
=============================================================================
