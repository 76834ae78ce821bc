------------------------------ MODULE Builder ------------------------------
(***************************************************************************)
(* What the builder of a generated object promises, whichever way it is    *)
(* generated: a setter replaces a field, extend_ and push_ or insert_ add  *)
(* to a collection, build() makes the object out of what was set last and  *)
(* panics when a required field never was, and a builder made from an      *)
(* object makes that object again.                                         *)
(***************************************************************************)
EXTENDS Naturals, Sequences, FiniteSets

CONSTANT Types    \* the fields of each generated object: name, kind and items

VARIABLES
  type,       \* the object's type
  slots,      \* what the builder holds for each field
  outcome,    \* of the last build() or new()
  object      \* the object it made

vars == <<type, slots, outcome, object>>

\* A slot is the set of what it holds: an optional or a required field at most
\* one item, a collection any number.  Order and repetition in a list are left
\* out, and a map is the set of its entries.
Kinds == {"required", "optional", "collection"}
Outcomes == {"none", "built", "panicked"}

Fields == DOMAIN Types[type]
Kind(i) == Types[type][i].kind
Required == {i \in Fields : Kind(i) = "required"}
Collections == {i \in Fields : Kind(i) = "collection"}

\* is_required: a field that must be set holds one item, an Option none or one.
Fills(i) ==
  CASE Kind(i) = "required" -> {{v} : v \in Types[type][i].items}
    [] Kind(i) = "optional" -> {{}} \cup {{v} : v \in Types[type][i].items}
    [] Kind(i) = "collection" -> SUBSET Types[type][i].items

Empty == [i \in Fields |-> {}]
Complete == \A i \in Required : slots[i] # {}

----------------------------------------------------------------------------
Init ==
  /\ type \in DOMAIN Types
  /\ slots = Empty
  /\ outcome = "none"
  /\ object = Empty

Put(i, items) ==
  /\ slots' = [slots EXCEPT ![i] = items]
  /\ UNCHANGED <<type, outcome, object>>

Assign == \E i \in Fields : \E items \in Fills(i) : Put(i, items)
Extend == \E i \in Collections : \E items \in Fills(i) : Put(i, slots[i] \cup items)

Build ==
  /\ Complete
  /\ outcome' = "built"
  /\ object' = slots
  /\ UNCHANGED <<type, slots>>

BuildPanics ==
  /\ ~Complete
  /\ outcome' = "panicked"
  /\ UNCHANGED <<type, slots, object>>

From ==
  /\ outcome = "built"
  /\ slots' = object
  /\ UNCHANGED <<type, outcome, object>>

\* The constructor makes an object without a builder.
New ==
  /\ outcome' = "built"
  /\ object' \in [Fields -> UNION {Fills(i) : i \in Fields}]
  /\ \A i \in Fields : object'[i] \in Fills(i)
  /\ UNCHANGED <<type, slots>>

Next == Assign \/ Extend \/ Build \/ BuildPanics \/ From \/ New

Spec == Init /\ [][Next]_vars
=============================================================================
