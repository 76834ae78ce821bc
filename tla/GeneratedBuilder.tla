-------------------------- MODULE GeneratedBuilder --------------------------
(***************************************************************************)
(* The builders conjure-codegen generates (objects/builder): the fallible  *)
(* one, a struct with a slot per field that panics in build(), and the     *)
(* staged one, a struct per required field that has been set so far, where *)
(* the setter of the next required field consumes one stage and returns    *)
(* the next and only the last stage has the other setters and build().     *)
(*                                                                         *)
(* The fields of each stage's struct are declared in one function and      *)
(* initialised in three others: Default, the setters, and From.            *)
(***************************************************************************)
EXTENDS Naturals, Sequences, FiniteSets

CONSTANTS
  Types,       \* the fields of each generated object: name, kind and items
  MaxFilled    \* bound: the slots that are filled at a time

VARIABLES
  type,       \* the object's type
  staged,     \* Context::staged_builders
  stage,      \* of a staged builder: BuilderStage0, BuilderStage1, ...
  held,       \* the fields of the builder's struct
  live,       \* the builder has not been consumed by build()
  outcome,    \* of the last build() or new()
  object      \* the object it made

builderVars == <<type, staged, stage, held, live, outcome, object>>

ASSUME TypesAssumption ==
  \A t \in DOMAIN Types :
    /\ Len(Types[t]) \in Nat /\ DOMAIN Types[t] = 1 .. Len(Types[t])
    /\ \A i \in DOMAIN Types[t] :
         Types[t][i].kind \in {"required", "optional", "collection"}

ASSUME MaxFilledAssumption == MaxFilled \in Nat

Slots == [i \in DOMAIN Types[type] |-> IF i \in DOMAIN held THEN held[i] ELSE {}]

Promise == INSTANCE Builder WITH slots <- Slots

Fields == Promise!Fields
Required == Promise!Required
Kind(i) == Promise!Kind(i)
Collections == Promise!Collections
Fills(i) == Promise!Fills(i)
Default == {}

\* The position of a required field among the required ones, and their number.
Rank(i) == Cardinality({j \in Required : j < i})
LastStage == Cardinality(Required)
RequiredBefore(k) == {i \in Required : Rank(i) < k}

\* generate_stage: the fields a stage is declared with.
StageFields(k) == RequiredBefore(k) \cup (IF k = LastStage THEN Fields \ Required ELSE {})

Final == staged => stage = LastStage

\* Mutants: the optional fields are forgotten in Default; a collection's setter
\* adds to what is there; the fallible build() takes a default for what is unset.
DefaultImplMutantEmpty == <<>>
MayBuildMutantDefault == staged => stage = LastStage
AssignedMutantAdds(i, items) == [held EXCEPT ![i] = @ \cup items]

\* generate_default_impl
DefaultImpl == IF Required # {} THEN <<>> ELSE [i \in Fields |-> Default]

\* generate_next_stage_impl: the optional fields that the new stage adds.
NewOptionalFields == IF stage + 1 = LastStage THEN Fields \ Required ELSE {}

NextHeld(i, items) ==
  [j \in RequiredBefore(stage) \cup {i} \cup NewOptionalFields |->
     CASE j = i -> items
       [] j \in RequiredBefore(stage) \ {i} -> held[j]
       [] OTHER -> Default]

\* SetterOp::Assign
Assigned(i, items) == [held EXCEPT ![i] = items]

\* Only the last stage has build(), and the fallible one expects each field.
MayBuild == IF staged THEN stage = LastStage ELSE \A i \in Required : held[i] # {}

Filled(slots) == Cardinality({i \in DOMAIN slots : slots[i] # {}})

----------------------------------------------------------------------------
BuilderInit ==
  /\ type \in DOMAIN Types
  /\ staged \in BOOLEAN
  /\ stage = 0
  /\ held = IF staged THEN DefaultImpl ELSE [i \in Fields |-> Default]
  /\ live = TRUE
  /\ outcome = "none"
  /\ object = [i \in Fields |-> {}]

Update(slots) ==
  /\ live
  /\ held' = slots
  /\ Filled(slots) <= MaxFilled
  /\ UNCHANGED <<type, staged, live, outcome, object>>

\* The setters of a stage before the last: one field's, once.
NextStage ==
  /\ ~Final
  /\ \E i \in Required : \E items \in Fills(i) :
       Rank(i) = stage /\ Update(NextHeld(i, items))
  /\ stage' = stage + 1

\* The setters of the fallible builder and of the last stage.
Assign ==
  /\ Final
  /\ \E i \in Fields : \E items \in Fills(i) : Update(Assigned(i, items))
  /\ UNCHANGED stage

\* extend_ takes any number of items, push_ and insert_ one.
Extend ==
  /\ Final
  /\ \E i \in Collections : \E items \in Fills(i) : Update([held EXCEPT ![i] = @ \cup items])
  /\ UNCHANGED stage

Build ==
  /\ live
  /\ MayBuild
  /\ outcome' = "built"
  /\ object' = held
  /\ live' = ~staged
  /\ UNCHANGED <<type, staged, stage, held>>

BuildPanics ==
  /\ ~staged /\ ~MayBuild
  /\ outcome' = "panicked"
  /\ UNCHANGED <<type, staged, stage, held, live, object>>

From ==
  /\ outcome = "built"
  /\ stage' = IF staged THEN LastStage ELSE 0
  /\ held' = object
  /\ live' = TRUE
  /\ UNCHANGED <<type, staged, outcome, object>>

\* generate_constructor: up to three fields; an optional is passed as its item.
New ==
  /\ Cardinality(Fields) < 4
  /\ object' \in [Fields -> UNION {Fills(i) : i \in Fields}]
  /\ \A i \in Fields :
       object'[i] \in (IF i \in Collections THEN Fills(i) ELSE Fills(i) \ {{}})
  /\ outcome' = "built"
  /\ UNCHANGED <<type, staged, stage, held, live>>

BuilderNext == NextStage \/ Assign \/ Extend \/ Build \/ BuildPanics \/ From \/ New

BuilderSpec == BuilderInit /\ [][BuilderNext]_builderVars

----------------------------------------------------------------------------
BuilderTypeOK ==
  /\ type \in DOMAIN Types
  /\ staged \in BOOLEAN /\ live \in BOOLEAN
  /\ stage \in 0 .. LastStage
  /\ outcome \in Promise!Outcomes
  /\ DOMAIN object = Fields
  /\ \A i \in DOMAIN held : held[i] \in Fills(i) \/ (~staged /\ held[i] = {})
  /\ outcome = "built" => \A i \in Fields : object[i] \in Fills(i)

(***************************************************************************)
(* Each struct literal of a staged builder initialises exactly the fields  *)
(* its stage is declared with (rustc rejects any other): the three         *)
(* functions that write literals agree with generate_stage about which     *)
(* stage the optional fields enter in, also when no field is required.     *)
(***************************************************************************)
StageFieldsFit == DOMAIN held = IF staged THEN StageFields(stage) ELSE Fields

(***************************************************************************)
(* Both builders keep the promise of a builder.  The staged one reaches    *)
(* every object that the fallible one does through an order of setters     *)
(* that is fixed for the required fields only, loses nothing when a stage  *)
(* becomes the next, and never builds an incomplete object.                *)
(***************************************************************************)
BuilderPromise == Promise!Spec
=============================================================================
