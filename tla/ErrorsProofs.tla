---------------------------- MODULE ErrorsProofs ----------------------------
(***************************************************************************)
(* Proofs about GeneratedBuilder, for every set of generated types, every  *)
(* number of fields and items: the literals of each stage fit its struct,  *)
(* and both builders keep the promise of Builder.  And proofs about Errors,*)
(* which are built with them, for every set of error types, any number of  *)
(* hops and any names that code adds parameters under: what may be logged  *)
(* was declared safe, and an error reaches a caller as it was raised.      *)
(***************************************************************************)
EXTENDS Errors, TLAPS, FiniteSetTheorems

(***************************************************************************)
(* The required fields are numbered from 0 in their order: generate_stages *)
(* may take the k-th one for the setter of stage k.                        *)
(***************************************************************************)
Before(i) == {j \in Required : j < i}

LEMMA FieldsFinite ==
  ASSUME type \in DOMAIN Types
  PROVE  /\ Fields \subseteq Nat
         /\ Required \subseteq Fields
         /\ IsFiniteSet(Required)
         /\ LastStage \in Nat
         /\ LastStage = 0 <=> Required = {}
<1>1. Fields = 1 .. Len(Types[type]) /\ Len(Types[type]) \in Nat
  BY TypesAssumption DEF Fields, Promise!Fields
<1>2. IsFiniteSet(Fields)
  BY <1>1, FS_Interval
<1>3. Required \subseteq Fields
  BY DEF Required, Promise!Required, Fields
<1>4. IsFiniteSet(Required)
  BY <1>2, <1>3, FS_Subset
<1>5. LastStage \in Nat /\ (LastStage = 0 <=> Required = {})
  BY <1>4, FS_CardinalityType, FS_EmptySet DEF LastStage
<1>6. Fields \subseteq Nat
  BY <1>1
<1>7. QED
  BY <1>3, <1>4, <1>5, <1>6

LEMMA BeforeFinite ==
  ASSUME type \in DOMAIN Types, NEW i
  PROVE  IsFiniteSet(Before(i)) /\ Rank(i) = Cardinality(Before(i)) /\ Rank(i) \in Nat
<1>1. IsFiniteSet(Before(i))
  BY FieldsFinite, FS_Subset DEF Before
<1>2. QED
  BY <1>1, FS_CardinalityType DEF Before, Rank

LEMMA RankGrows ==
  ASSUME type \in DOMAIN Types, NEW i \in Required, NEW S, IsFiniteSet(S),
         Before(i) \subseteq S, i \in S
  PROVE  Rank(i) < Cardinality(S)
<1>1. i \notin Before(i) /\ IsFiniteSet(Before(i))
  BY FieldsFinite, BeforeFinite DEF Before
<1>2. Cardinality(Before(i) \cup {i}) = Cardinality(Before(i)) + 1
  BY <1>1, FS_AddElement
<1>3. Before(i) \cup {i} \in SUBSET S
  OBVIOUS
<1>4. Cardinality(Before(i) \cup {i}) <= Cardinality(S)
  BY <1>3, FS_Subset
<1>5. Cardinality(S) \in Nat
  BY FS_CardinalityType
<1>6. QED
  BY <1>2, <1>4, <1>5, BeforeFinite

LEMMA RankInjective ==
  ASSUME type \in DOMAIN Types, NEW i \in Required, NEW j \in Required, Rank(i) = Rank(j)
  PROVE  i = j
<1>1. ASSUME NEW k \in Required, NEW l \in Required, k < l PROVE Rank(k) < Rank(l)
  <2>1. k \in Before(l) /\ Before(k) \subseteq Before(l)
    BY <1>1, FieldsFinite DEF Before
  <2>2. QED
    BY <2>1, BeforeFinite, RankGrows
<1>2. Rank(i) \in Nat /\ Rank(j) \in Nat /\ i \in Nat /\ j \in Nat
  BY FieldsFinite, BeforeFinite
<1>3. QED
  BY <1>1, <1>2

(* One stage follows another with one more required field, and the last *)
(* stage has all fields.                                                *)
LEMMA StagesGrow ==
  ASSUME type \in DOMAIN Types, NEW k \in Nat, NEW i \in Required, Rank(i) = k
  PROVE  RequiredBefore(k + 1) = RequiredBefore(k) \cup {i}
<1>1. \A j \in Required : Rank(j) < k + 1 <=> Rank(j) < k \/ j = i
  <2>1. \A j \in Required : Rank(j) \in Nat
    BY BeforeFinite
  <2>2. QED
    BY <2>1, RankInjective
<1>2. QED
  BY <1>1 DEF RequiredBefore

LEMMA LastStageFull ==
  ASSUME type \in DOMAIN Types
  PROVE  StageFields(LastStage) = Fields
<1>1. \A i \in Required : Rank(i) < LastStage
  <2>1. ASSUME NEW i \in Required PROVE Rank(i) < LastStage
    <3>1. Before(i) \subseteq Required
      BY DEF Before
    <3>2. QED
      BY <3>1, FieldsFinite, RankGrows DEF LastStage
  <2>2. QED
    BY <2>1
<1>2. RequiredBefore(LastStage) = Required
  BY <1>1 DEF RequiredBefore
<1>3. QED
  BY <1>2, FieldsFinite DEF StageFields

LEMMA FirstStageEmpty ==
  ASSUME type \in DOMAIN Types
  PROVE  RequiredBefore(0) = {}
<1>1. \A i \in Required : ~(Rank(i) < 0)
  BY BeforeFinite
<1>2. QED
  BY <1>1 DEF RequiredBefore

----------------------------------------------------------------------------
(***************************************************************************)
(* The inductive invariant.  Besides what the struct of a stage holds it   *)
(* says that an object that was built is complete, which From relies on.   *)
(***************************************************************************)
Position ==
  /\ type \in DOMAIN Types
  /\ staged \in BOOLEAN /\ live \in BOOLEAN
  /\ stage \in Nat /\ stage <= LastStage
  /\ ~staged => stage = 0
  /\ outcome \in Promise!Outcomes

Held ==
  /\ DOMAIN held = IF staged THEN StageFields(stage) ELSE Fields
  /\ held = [i \in DOMAIN held |-> held[i]]
  /\ \A i \in DOMAIN held : held[i] \in Fills(i) \/ (~staged /\ held[i] = {})

Made ==
  /\ object = [i \in Fields |-> object[i]]
  /\ outcome = "built" => \A i \in Fields : object[i] \in Fills(i)

BInv == Position /\ Held /\ Made

LEMMA EmptyFills ==
  ASSUME type \in DOMAIN Types, NEW i \in Fields, i \notin Required
  PROVE  {} \in Fills(i)
<1>1. Kind(i) \in {"optional", "collection"}
  BY TypesAssumption DEF Kind, Promise!Kind, Fields, Promise!Fields, Required, Promise!Required
<1>2. QED
  BY <1>1 DEF Fills, Promise!Fills, Kind, Promise!Kind

LEMMA RequiredFills ==
  ASSUME NEW i \in Required, NEW items \in Fills(i)
  PROVE  items # {}
BY DEF Fills, Promise!Fills, Required, Promise!Required, Promise!Kind

LEMMA CollectionFills ==
  ASSUME NEW i \in Collections, NEW a, NEW b \in Fills(i), a \in Fills(i) \/ a = {}
  PROVE  a \cup b \in Fills(i)
BY DEF Fills, Promise!Fills, Collections, Promise!Collections, Promise!Kind

LEMMA InitBInv == BuilderInit => BInv
<1> SUFFICES ASSUME BuilderInit PROVE BInv
  OBVIOUS
<1> USE DEF BuilderInit
<1>1. Position
  BY FieldsFinite DEF Position, Promise!Outcomes
<1>2. Made
  BY DEF Made
<1>3. Held
  <2>1. CASE ~staged
    BY <2>1 DEF Held, Default
  <2>2. CASE staged /\ Required = {}
    <3>1. LastStage = 0
      BY FieldsFinite, <2>2
    <3>2. StageFields(0) = Fields
      BY <3>1, LastStageFull
    <3>3. held = [i \in Fields |-> {}]
      BY <2>2 DEF DefaultImpl, Default
    <3>4. QED
      BY <2>2, <3>2, <3>3, EmptyFills DEF Held
  <2>3. CASE staged /\ Required # {}
    <3>1. LastStage # 0
      BY FieldsFinite, <2>3
    <3>2. StageFields(0) = {}
      BY <3>1, FirstStageEmpty DEF StageFields
    <3>3. held = <<>>
      BY <2>3 DEF DefaultImpl
    <3>4. DOMAIN held = {} /\ held = [i \in {} |-> held[i]]
      BY <3>3
    <3>5. QED
      BY <2>3, <3>2, <3>4 DEF Held
  <2>4. QED
    BY <2>1, <2>2, <2>3
<1>4. QED
  BY <1>1, <1>2, <1>3 DEF BInv

----------------------------------------------------------------------------
(* What a step does to the slots, and that it keeps the invariant.  What is *)
(* defined from the type alone does not change with it.                     *)
LEMMA TypeFixed ==
  ASSUME type' = type
  PROVE  /\ Fields' = Fields /\ Required' = Required /\ LastStage' = LastStage
         /\ \A i : Fills(i)' = Fills(i)
         /\ stage' = stage => StageFields(stage)' = StageFields(stage)
         /\ stage' = stage + 1 => StageFields(stage)' = StageFields(stage + 1)
         /\ stage' = LastStage => StageFields(stage)' = StageFields(LastStage)
BY DEF Fields, Promise!Fields, Required, Promise!Required, Promise!Kind, LastStage, Fills,
       Promise!Fills, StageFields, RequiredBefore, Rank

LEMMA FinalFields ==
  ASSUME BInv, Final
  PROVE  DOMAIN held = Fields
BY LastStageFull DEF BInv, Position, Held, Final

(* NextStage: the literal of the next stage fits. *)
LEMMA NextHeldFits ==
  ASSUME BInv, ~Final, NEW i \in Required, NEW items \in Fills(i), Rank(i) = stage
  PROVE  /\ stage + 1 <= LastStage
         /\ DOMAIN held = RequiredBefore(stage)
         /\ DOMAIN NextHeld(i, items) = StageFields(stage + 1)
         /\ NextHeld(i, items) = [j \in DOMAIN NextHeld(i, items) |-> NextHeld(i, items)[j]]
         /\ \A j \in DOMAIN NextHeld(i, items) :
              NextHeld(i, items)[j] = IF j = i THEN items
                                      ELSE IF j \in DOMAIN held THEN held[j] ELSE {}
         /\ \A j \in DOMAIN NextHeld(i, items) : NextHeld(i, items)[j] \in Fills(j)
<1>1. staged /\ stage # LastStage /\ stage \in Nat /\ LastStage \in Nat /\ stage <= LastStage
  BY FieldsFinite DEF BInv, Position, Final
<1>2. type \in DOMAIN Types
  BY DEF BInv, Position
<1>3. DOMAIN held = RequiredBefore(stage)
  BY <1>1 DEF BInv, Held, StageFields
<1>4. RequiredBefore(stage + 1) = RequiredBefore(stage) \cup {i}
  BY <1>1, <1>2, StagesGrow
<1>5. StageFields(stage + 1) = RequiredBefore(stage) \cup {i} \cup NewOptionalFields
  BY <1>4 DEF StageFields, NewOptionalFields
<1>6. i \notin RequiredBefore(stage)
  BY <1>1 DEF RequiredBefore
<1>7. DOMAIN NextHeld(i, items) = StageFields(stage + 1)
  BY <1>5 DEF NextHeld
<1>8. NextHeld(i, items) = [j \in DOMAIN NextHeld(i, items) |-> NextHeld(i, items)[j]]
  BY DEF NextHeld
<1>9. ASSUME NEW j \in DOMAIN NextHeld(i, items)
      PROVE  NextHeld(i, items)[j] = IF j = i THEN items
                                     ELSE IF j \in DOMAIN held THEN held[j] ELSE {}
  <2>1. j \in RequiredBefore(stage) \cup {i} \cup NewOptionalFields
    BY <1>5, <1>7
  <2>2. NextHeld(i, items)[j] = CASE j = i -> items
                                  [] j \in RequiredBefore(stage) \ {i} -> held[j]
                                  [] OTHER -> Default
    BY <2>1 DEF NextHeld
  <2>3. QED
    BY <2>2, <1>3, <1>6 DEF Default
<1>10. ASSUME NEW j \in DOMAIN NextHeld(i, items) PROVE NextHeld(i, items)[j] \in Fills(j)
  <2>1. CASE j = i
    BY <2>1, <1>9
  <2>2. CASE j \in DOMAIN held /\ j # i
    BY <2>2, <1>1, <1>9 DEF BInv, Held
  <2>3. CASE j \notin DOMAIN held /\ j # i
    <3>1. j \in NewOptionalFields
      BY <2>3, <1>3, <1>5, <1>7
    <3>2. j \in Fields \ Required
      BY <3>1 DEF NewOptionalFields
    <3>3. QED
      BY <3>2, <2>3, <1>2, <1>9, EmptyFills
  <2>4. QED
    BY <2>1, <2>2, <2>3
<1>11. stage + 1 <= LastStage
  BY <1>1
<1>12. QED
  BY <1>3, <1>7, <1>8, <1>9, <1>10, <1>11

(* A setter: an assignment to one of all fields. *)
LEMMA AssignedFits ==
  ASSUME BInv, Final, NEW i \in Fields, NEW items, items \in Fills(i),
         held' = [held EXCEPT ![i] = items],
         UNCHANGED <<type, staged, stage, live, outcome, object>>
  PROVE  BInv' /\ Slots' = [Slots EXCEPT ![i] = items]
<1>1. DOMAIN held = Fields /\ DOMAIN held' = Fields
  BY FinalFields
<1>2. \A j \in Fields : held'[j] = IF j = i THEN items ELSE held[j]
  BY <1>1
<1>3. held' = [j \in DOMAIN held' |-> held'[j]]
  BY <1>1
<1>4. Position' /\ Made'
  BY TypeFixed DEF BInv, Position, Made
<1>5. Held'
  BY <1>1, <1>2, <1>3, TypeFixed DEF BInv, Held
<1>6. Slots' = [Slots EXCEPT ![i] = items]
  <2>1. Fields = DOMAIN Types[type]
    BY DEF Fields, Promise!Fields
  <2>2. Slots = [j \in Fields |-> held[j]]
    BY <1>1, <2>1 DEF Slots
  <2>3. Slots' = [j \in Fields |-> held'[j]]
    BY <1>1, <2>1 DEF Slots
  <2>4. QED
    BY <1>2, <2>2, <2>3
<1>7. QED
  BY <1>4, <1>5, <1>6 DEF BInv

LEMMA NextStageStep ==
  ASSUME BInv, NextStage
  PROVE  BInv' /\ Promise!Assign
<1>i. PICK i \in Required : \E items \in Fills(i) : Rank(i) = stage /\ Update(NextHeld(i, items))
  BY DEF NextStage
<1>1. PICK items \in Fills(i) : Rank(i) = stage /\ Update(NextHeld(i, items))
  BY <1>i
<1>2. ~Final /\ stage' = stage + 1 /\ staged
  BY DEF NextStage, Final
<1>3. held' = NextHeld(i, items) /\ UNCHANGED <<type, staged, live, outcome, object>>
  BY <1>1 DEF Update
<1>4. /\ stage + 1 <= LastStage
      /\ DOMAIN held' = StageFields(stage + 1)
      /\ held' = [j \in DOMAIN held' |-> held'[j]]
      /\ \A j \in DOMAIN held' : held'[j] = IF j = i THEN items
                                            ELSE IF j \in DOMAIN held THEN held[j] ELSE {}
      /\ \A j \in DOMAIN held' : held'[j] \in Fills(j)
  BY <1>1, <1>2, <1>3, NextHeldFits
<1>5. Position'
  BY <1>2, <1>3, <1>4, TypeFixed DEF BInv, Position
<1>6. Held'
  <2>1. DOMAIN held' = StageFields(stage)'
    BY <1>2, <1>3, <1>4, TypeFixed
  <2>2. QED
    BY <1>2, <1>3, <1>4, <2>1, TypeFixed DEF Held
<1>7. Made'
  BY <1>3, TypeFixed DEF BInv, Made
<1>8. Slots' = [Slots EXCEPT ![i] = items]
  <2>1. Fields = DOMAIN Types[type] /\ DOMAIN Types[type'] = Fields
    BY <1>3 DEF Fields, Promise!Fields
  <2>2. i \in DOMAIN held' /\ DOMAIN held \subseteq DOMAIN held'
    <3>1. RequiredBefore(stage + 1) = RequiredBefore(stage) \cup {i}
      BY <1>1, StagesGrow DEF BInv, Position
    <3>2. DOMAIN held = RequiredBefore(stage)
      BY <1>1, <1>2, NextHeldFits
    <3>3. QED
      BY <3>1, <3>2, <1>4 DEF StageFields
  <2>3. \A j \in Fields : Slots'[j] = IF j = i THEN items ELSE Slots[j]
    BY <1>4, <2>1, <2>2 DEF Slots
  <2>4. QED
    BY <2>1, <2>3 DEF Slots
<1>9. Promise!Assign
  <2>1. i \in Promise!Fields /\ items \in Promise!Fills(i)
    BY <1>1 DEF Fills, Required, Promise!Required
  <2>2. Promise!Put(i, items)
    BY <1>3, <1>8 DEF Promise!Put
  <2>3. QED
    BY <2>1, <2>2 DEF Promise!Assign
<1>10. QED
  BY <1>5, <1>6, <1>7, <1>9 DEF BInv

LEMMA AssignStep ==
  ASSUME BInv, Assign
  PROVE  BInv' /\ Promise!Assign
<1>i. PICK i \in Fields : \E items \in Fills(i) : Update(Assigned(i, items))
  BY DEF Assign
<1>1. PICK items \in Fills(i) : Update(Assigned(i, items))
  BY <1>i
<1>2. held' = [held EXCEPT ![i] = items] /\ UNCHANGED <<type, staged, stage, live, outcome, object>>
  BY <1>1 DEF Assign, Update, Assigned
<1>3. BInv' /\ Slots' = [Slots EXCEPT ![i] = items]
  BY <1>1, <1>2, AssignedFits DEF Assign
<1>4. QED
  BY <1>1, <1>2, <1>3 DEF Promise!Assign, Promise!Put, Fields, Fills

LEMMA ExtendStep ==
  ASSUME BInv, Extend
  PROVE  BInv' /\ Promise!Extend
<1>i. PICK i \in Collections : \E items \in Fills(i) : Update([held EXCEPT ![i] = @ \cup items])
  BY DEF Extend
<1>1. PICK items \in Fills(i) : Update([held EXCEPT ![i] = @ \cup items])
  BY <1>i
<1>2. i \in Fields /\ DOMAIN held = Fields
  BY <1>1, FinalFields DEF Extend, Collections, Promise!Collections, Fields
<1>3. held' = [held EXCEPT ![i] = held[i] \cup items]
      /\ UNCHANGED <<type, staged, stage, live, outcome, object>>
  BY <1>1 DEF Extend, Update
<1>4. held[i] \cup items \in Fills(i)
  BY <1>2, CollectionFills DEF BInv, Held
<1>5. BInv' /\ Slots' = [Slots EXCEPT ![i] = held[i] \cup items]
  BY <1>2, <1>3, <1>4, AssignedFits DEF Extend
<1>6. Slots[i] = held[i]
  BY <1>2 DEF Slots, Fields, Promise!Fields
<1>7. QED
  BY <1>1, <1>3, <1>5, <1>6 DEF Promise!Extend, Promise!Put, Collections, Fills

(* Build, From and New copy whole objects. *)
LEMMA WholeSlots ==
  ASSUME DOMAIN held = Fields, held = [i \in DOMAIN held |-> held[i]]
  PROVE  Slots = held
BY DEF Slots, Fields, Promise!Fields

LEMMA BuildStep ==
  ASSUME BInv, Build
  PROVE  BInv' /\ Promise!Build
<1>1. Final
  BY DEF Build, MayBuild, Final
<1>2. DOMAIN held = Fields /\ Slots = held
  BY <1>1, FinalFields, WholeSlots DEF BInv, Held
<1>3. object' = held /\ outcome' = "built" /\ UNCHANGED <<type, staged, stage, held>>
  BY DEF Build
<1>4. \A i \in Required : held[i] # {}
  <2>1. CASE staged
    BY <1>2, <2>1, FieldsFinite, RequiredFills DEF BInv, Position, Held
  <2>2. CASE ~staged
    BY <2>2 DEF Build, MayBuild
  <2>3. QED
    BY <2>1, <2>2
<1>5. \A i \in Fields : held[i] \in Fills(i)
  BY <1>2, <1>4, EmptyFills DEF BInv, Position, Held
<1>6. Position'
  <2>1. live' \in BOOLEAN
    BY DEF Build, BInv, Position
  <2>2. QED
    BY <1>3, <2>1, TypeFixed DEF BInv, Position, Promise!Outcomes
<1>7. Held'
  BY <1>3, TypeFixed DEF BInv, Held
<1>8. Made'
  BY <1>2, <1>3, <1>5, TypeFixed DEF BInv, Held, Made
<1>9. Slots' = Slots
  BY <1>3 DEF Slots
<1>10. Promise!Complete
  BY <1>2, <1>4 DEF Promise!Complete, Required
<1>11. QED
  BY <1>2, <1>3, <1>6, <1>7, <1>8, <1>9, <1>10 DEF BInv, Promise!Build

LEMMA BuildPanicsStep ==
  ASSUME BInv, BuildPanics
  PROVE  BInv' /\ Promise!BuildPanics
<1>1. /\ outcome' = "panicked"
      /\ UNCHANGED <<type, staged, stage, held, live, object>>
      /\ ~staged
  BY DEF BuildPanics
<1>2. DOMAIN held = Fields /\ Slots = held
  BY <1>1, WholeSlots DEF BInv, Held
<1>3. ~Promise!Complete
  BY <1>2 DEF BuildPanics, MayBuild, Promise!Complete, Required
<1>4. Slots' = Slots
  BY <1>1 DEF Slots
<1>5. Position' /\ Held' /\ Made'
  BY <1>1, TypeFixed DEF BInv, Position, Held, Made, Promise!Outcomes
<1>6. QED
  BY <1>1, <1>3, <1>4, <1>5 DEF BInv, Promise!BuildPanics

LEMMA FromStep ==
  ASSUME BInv, From
  PROVE  BInv' /\ Promise!From
<1>1. /\ outcome = "built" /\ held' = object /\ live' = TRUE
      /\ stage' = IF staged THEN LastStage ELSE 0
      /\ UNCHANGED <<type, staged, outcome, object>>
  BY DEF From
<1>2. DOMAIN held' = Fields /\ held' = [i \in DOMAIN held' |-> held'[i]]
  BY <1>1 DEF BInv, Made
<1>3. Slots' = object
  BY <1>1, <1>2 DEF Slots, Fields, Promise!Fields
<1>4. stage' \in Nat /\ stage' <= LastStage /\ LastStage \in Nat
  BY <1>1, FieldsFinite DEF BInv, Position
<1>5. Position'
  BY <1>1, <1>4, TypeFixed DEF BInv, Position
<1>6. Held'
  <2>1. staged => StageFields(stage)' = Fields
    BY <1>1, TypeFixed, LastStageFull DEF BInv, Position
  <2>2. QED
    BY <1>1, <1>2, <2>1, TypeFixed DEF BInv, Made, Held
<1>7. Made'
  BY <1>1, TypeFixed DEF BInv, Made
<1>8. QED
  BY <1>1, <1>3, <1>5, <1>6, <1>7 DEF BInv, Promise!From

LEMMA NewStep ==
  ASSUME BInv, New
  PROVE  BInv' /\ Promise!New
<1>1. /\ object' \in [Fields -> UNION {Fills(i) : i \in Fields}]
      /\ outcome' = "built"
      /\ UNCHANGED <<type, staged, stage, held, live>>
  BY DEF New
<1>2. \A i \in Fields : object'[i] \in Fills(i)
  BY DEF New
<1>3. Slots' = Slots
  BY <1>1 DEF Slots
<1>4. Position' /\ Held'
  BY <1>1, TypeFixed DEF BInv, Position, Held, Promise!Outcomes
<1>5. Made'
  BY <1>1, <1>2, TypeFixed DEF Made
<1>6. QED
  BY <1>1, <1>2, <1>3, <1>4, <1>5 DEF BInv, Promise!New, Fields, Fills

LEMMA StutterStep ==
  ASSUME BInv, UNCHANGED builderVars
  PROVE  BInv' /\ UNCHANGED Promise!vars
<1> USE DEF builderVars
<1>1. Position' /\ Held' /\ Made'
  BY TypeFixed DEF BInv, Position, Held, Made
<1>2. QED
  BY <1>1 DEF BInv, Promise!vars, Slots

LEMMA BuilderStep ==
  ASSUME BInv, [BuilderNext]_builderVars
  PROVE  BInv' /\ [Promise!Next]_Promise!vars
BY NextStageStep, AssignStep, ExtendStep, BuildStep, BuildPanicsStep, FromStep, NewStep,
   StutterStep DEF BuilderNext, Promise!Next

----------------------------------------------------------------------------
(* The invariant of every builder. *)
LEMMA BuilderInvariant == BuilderSpec => []BInv
<1>1. BInv /\ [BuilderNext]_builderVars => BInv'
  BY BuilderStep
<1>2. QED
  BY InitBInv, <1>1, PTL DEF BuilderSpec

LEMMA BuilderTypeHolds == BInv => BuilderTypeOK
<1> SUFFICES ASSUME BInv PROVE BuilderTypeOK
  OBVIOUS
<1>1. stage \in 0 .. LastStage
  BY FieldsFinite DEF BInv, Position
<1>2. DOMAIN object = Fields
  BY DEF BInv, Made
<1>3. QED
  BY <1>1, <1>2 DEF BInv, Position, Held, Made, BuilderTypeOK

(* Type correctness: a slot holds what its field may, a stage is one of    *)
(* those generated, and an object that was built has what it needs.        *)
THEOREM BuilderTypeCorrect == BuilderSpec => []BuilderTypeOK
BY BuilderTypeHolds, BuilderInvariant, PTL

(* The literals that Default, the setters and From write for a stage have  *)
(* exactly the fields that its struct is declared with, for every object.  *)
THEOREM StagesFit == BuilderSpec => []StageFieldsFit
<1>1. BInv => StageFieldsFit
  BY DEF BInv, Held, StageFieldsFit
<1>2. QED
  BY <1>1, BuilderInvariant, PTL

(* Both builders keep the promise, for every object type.                  *)
THEOREM BuildersKeepThePromise == BuilderSpec => BuilderPromise
<1>1. BuilderInit => Promise!Init
  <2> SUFFICES ASSUME BuilderInit PROVE Promise!Init
    OBVIOUS
  <2>1. \A i \in DOMAIN held : held[i] = {}
    BY DEF BuilderInit, DefaultImpl, Default
  <2>2. Slots = [i \in Fields |-> {}]
    BY <2>1 DEF Slots, Fields, Promise!Fields
  <2>3. QED
    BY <2>2 DEF BuilderInit, Promise!Init, Promise!Empty, Fields
<1>2. BInv /\ [BuilderNext]_builderVars => [Promise!Next]_Promise!vars
  BY BuilderStep
<1>3. QED
  BY <1>1, <1>2, BuilderInvariant, PTL DEF BuilderSpec, BuilderPromise, Promise!Spec

-----------------------------------------------------------------------------
(* Errors. *)

(***************************************************************************)
(* What is sent depends on the object alone, and is read as it was sent:   *)
(* only the parameters may be left out of the body, when there are none.   *)
(***************************************************************************)
LEMMA EncodingFixed ==
  ASSUME UNCHANGED <<type, object>>
  PROVE  /\ Parameters' = Parameters
         /\ \A instance : Encode(instance)' = Encode(instance)
<1>1. Parameters' = Parameters
  BY DEF Parameters, EncodedFields, Written, NameOf, Argument, Fields, Promise!Fields,
         Kind, Promise!Kind
<1>2. QED
  BY <1>1 DEF Encode

LEMMA SkipsParameters ==
  /\ Skipped = {"parameters"}
  /\ serializable_error_json.required = {"errorCode", "errorName", "errorInstanceId"}
BY DEF Skipped, serializable_error_json, Json

LEMMA ReadIsSent ==
  ASSUME NEW instance
  PROVE  /\ Readable(Body(Encode(instance)))
         /\ Read(Body(Encode(instance))) = Encode(instance)
<1> DEFINE sent == Encode(instance)
<1>1. /\ DOMAIN sent = {"errorCode", "errorName", "errorInstanceId", "parameters"}
      /\ sent = [f \in DOMAIN sent |-> sent[f]]
  BY DEF Encode
<1> HIDE DEF sent
<1>2. DOMAIN Body(sent) = {f \in DOMAIN sent : f \in Skipped => sent[f] # <<>>}
  BY DEF Body
<1>3. \A f \in DOMAIN Body(sent) : Body(sent)[f] = sent[f]
  BY <1>2 DEF Body
<1>4. Readable(Body(sent))
  BY <1>1, <1>2, SkipsParameters DEF Readable
<1>5. DOMAIN Body(sent) \cup Skipped = DOMAIN sent
  BY <1>1, <1>2, SkipsParameters
<1>6. \A f \in DOMAIN sent : Read(Body(sent))[f] = sent[f]
  <2> SUFFICES ASSUME NEW f \in DOMAIN sent PROVE Read(Body(sent))[f] = sent[f]
    OBVIOUS
  <2>1. CASE f \in DOMAIN Body(sent)
    BY <2>1, <1>3, <1>5 DEF Read
  <2>2. CASE f \notin DOMAIN Body(sent)
    <3>1. sent[f] = <<>>
      BY <2>2, <1>2
    <3>2. QED
      BY <2>2, <3>1, <1>5 DEF Read
  <2>3. QED
    BY <2>1, <2>2
<1>7. Read(Body(sent)) = sent
  BY <1>1, <1>5, <1>6 DEF Read
<1>8. QED
  BY <1>4, <1>7 DEF sent

(* A service error is never answered like throttling or unavailability. *)
LEMMA StatusTellsServiceErrors ==
  ASSUME NEW code \in Codes
  PROVE  StatusCode(code) \notin {429, 503}
BY DEF Codes, StatusCode

----------------------------------------------------------------------------
(***************************************************************************)
(* The inductive invariant.  An error that carries no id is throttling or  *)
(* unavailability from its first service to its last; one that does is     *)
(* what Encode made of the object, wherever it is: raised, or answered.    *)
(* The object does not change once an error was made of it.                *)
(***************************************************************************)
Whole ==
  error = [kind |-> error.kind, causeSafe |-> error.causeSafe, sent |-> error.sent,
           safeParams |-> error.safeParams, unsafeParams |-> error.unsafeParams,
           backtraces |-> error.backtraces]

RaisedOK ==
  /\ Whole
  /\ error.backtraces \in 1 .. 2
  /\ hops <= MaxHops
  /\ id = NoId => error.kind \in {"throttle", "unavailable"}
  /\ id # NoId => error.kind = "service" /\ error.sent = Encode(id)
  /\ SafeIsDeclared

AnsweredOK ==
  /\ id = NoId => response.status \in {429, 503}
  /\ id # NoId => /\ response.status = StatusCode(ErrorArgs[type].code)
                  /\ response.body = Body(Encode(id))

WireOK ==
  /\ hops \in Nat /\ hops <= MaxHops + 1
  /\ given \in Ids \cup {NoId} /\ id \in Ids \cup {NoId}
  /\ id # NoId /\ given # NoId => id = given
  /\ hops = 0 /\ ~Raised => id = NoId
  /\ hops > 0 \/ Raised => type \in DOMAIN ErrorArgs
  /\ Raised => RaisedOK
  /\ hops > 0 /\ ~Raised => AnsweredOK

WInv == BInv /\ WireOK

\* What an error that stays raised is changed in.
Same == UNCHANGED <<builderVars, given, id, response, hops>>

LEMMA InitWInv == Init => WInv
<1> SUFFICES ASSUME Init PROVE WInv
  OBVIOUS
<1>1. BInv
  BY InitBInv DEF Init
<1>2. ~Raised
  BY DEF Init, Raised, NoError
<1>3. WireOK
  BY <1>2, BoundsAssumption DEF Init, WireOK
<1>4. QED
  BY <1>1, <1>3 DEF WInv

(* Nothing was raised yet: the object and the id may still change. *)
LEMMA BuildStepKeeps ==
  ASSUME WInv, BuildObject \/ WithInstanceId
  PROVE  WireOK'
<1>1. ~Raised /\ hops = 0 /\ UNCHANGED <<id, error, hops>>
  BY DEF BuildObject, WithInstanceId, errorVars
<1>2. ~Raised' /\ id' = NoId
  BY <1>1 DEF Raised, WInv, WireOK
<1>3. given' \in Ids \cup {NoId}
  BY DEF BuildObject, WithInstanceId, errorVars, WInv, WireOK
<1>4. QED
  BY <1>1, <1>2, <1>3 DEF WInv, WireOK

(* What is sent, declared safe and known of the object depends on the *)
(* builder's variables, which no other action changes.                *)
LEMMA ObjectFixed ==
  ASSUME UNCHANGED builderVars
  PROVE  /\ UNCHANGED <<type, object>>
         /\ Parameters' = Parameters
         /\ \A instance : Encode(instance)' = Encode(instance)
BY EncodingFixed DEF builderVars

(* A new error's safe parameters are the arguments declared so. *)
LEMMA ServiceStep ==
  ASSUME WInv, Service
  PROVE  WireOK'
<1>1. PICK causeSafe \in BOOLEAN :
        error' = ServiceInner(causeSafe, Encode(id'), ErrorArgs[type].safe)
  BY DEF Service
<1>2. /\ UNCHANGED <<builderVars, given, response, hops>>
      /\ hops = 0 /\ type \in DOMAIN ErrorArgs
      /\ id' \in Ids /\ (given # NoId => id' = given)
  BY DEF Service, WInv, WireOK
<1> DEFINE safe == SafeKeys(Encode(id'), ErrorArgs[type].safe)
           unsafe == DOMAIN Parameters \ safe
<1>3. Encode(id').parameters = Parameters
  BY DEF Encode
<1>4. error' = NewError("service", causeSafe, Encode(id'), Restricted(Parameters, safe),
                        Restricted(Parameters, unsafe))
  BY <1>1, <1>3 DEF ServiceInner
<1>5. /\ error'.kind = "service" /\ error'.sent = Encode(id')
      /\ error'.safeParams = Restricted(Parameters, safe)
      /\ error'.backtraces = 1 /\ Whole'
  BY <1>4 DEF NewError, Whole
<1>6. safe \subseteq ErrorArgs[type].safe
  BY DEF SafeKeys
<1>7. /\ DOMAIN error'.safeParams = safe
      /\ \A k \in safe : error'.safeParams[k] = Parameters[k]
  BY <1>5 DEF Restricted
<1> HIDE DEF safe
<1>8. UNCHANGED <<type, object>> /\ Parameters' = Parameters /\ Encode(id)' = Encode(id')
  BY <1>2, EncodingFixed DEF builderVars, Encode
<1>9. SafeIsDeclared'
  BY <1>2, <1>6, <1>7, <1>8 DEF SafeIsDeclared
<1>10. RaisedOK'
  BY <1>2, <1>5, <1>8, <1>9, NoIdAssumption, BoundsAssumption DEF RaisedOK
<1>11. Raised'
  BY <1>5 DEF Raised
<1>12. QED
  BY <1>2, <1>8, <1>10, <1>11 DEF WInv, WireOK

LEMMA BusyStep ==
  ASSUME WInv, Busy
  PROVE  WireOK'
<1>1. PICK kind \in {"throttle", "unavailable"}, causeSafe \in BOOLEAN :
        error' = NewError(kind, causeSafe, <<>>, <<>>, <<>>)
  BY DEF Busy
<1>2. /\ error'.kind = kind /\ error'.safeParams = <<>> /\ error'.backtraces = 1
      /\ Whole'
  BY <1>1 DEF NewError, Whole
<1>3. /\ ~Raised /\ hops = 0 /\ type \in DOMAIN ErrorArgs
      /\ UNCHANGED <<builderVars, given, id, response, hops>>
  BY DEF Busy
<1>4. id' = NoId /\ type' = type
  BY <1>3 DEF WInv, WireOK, builderVars
<1>5. SafeIsDeclared'
  BY <1>2 DEF SafeIsDeclared
<1>6. RaisedOK'
  BY <1>2, <1>3, <1>4, <1>5, BoundsAssumption DEF RaisedOK
<1>7. Raised'
  BY <1>2 DEF Raised
<1>8. QED
  BY <1>3, <1>4, <1>6, <1>7 DEF WInv, WireOK

----------------------------------------------------------------------------
(* What may be done to an error that is raised. *)
LEMMA RaisedKeeps ==
  ASSUME WInv, Raised, Same, Whole', error'.kind = error.kind, error'.sent = error.sent,
         error'.backtraces \in 1 .. 2,
         \A k \in DOMAIN error'.safeParams :
           \/ error'.safeParams[k] \in Notes
           \/ k \in DOMAIN error.safeParams /\ error'.safeParams[k] = error.safeParams[k]
  PROVE  WireOK'
<1>1. RaisedOK /\ Raised'
  BY DEF WInv, WireOK, Raised
<1>2. /\ UNCHANGED <<type, object, given, id, hops>>
      /\ Parameters' = Parameters
      /\ Encode(id)' = Encode(id)
  BY ObjectFixed DEF Same, Encode
<1>3. SafeIsDeclared'
  BY <1>1, <1>2 DEF RaisedOK, SafeIsDeclared
<1>4. RaisedOK'
  BY <1>1, <1>2, <1>3 DEF RaisedOK
<1>5. QED
  BY <1>1, <1>2, <1>4 DEF WInv, WireOK

LEMMA WithSafeParamStep ==
  ASSUME WInv, WithSafeParam
  PROVE  WireOK'
<1>k. PICK k \in NoteKeys : \E value \in Notes :
        error' = [error EXCEPT !.safeParams = Noted(@, k, value)]
  BY DEF WithSafeParam
<1>1. PICK value \in Notes : error' = [error EXCEPT !.safeParams = Noted(@, k, value)]
  BY <1>k
<1>2. Raised /\ Same /\ RaisedOK
  BY DEF WithSafeParam, Same, WInv, WireOK
<1>3. /\ error'.kind = error.kind /\ error'.sent = error.sent
      /\ error'.backtraces = error.backtraces /\ Whole'
      /\ error'.safeParams = Noted(error.safeParams, k, value)
  BY <1>1, <1>2 DEF RaisedOK, Whole
<1>4. \A j \in DOMAIN error'.safeParams :
        \/ error'.safeParams[j] \in Notes
        \/ j \in DOMAIN error.safeParams /\ error'.safeParams[j] = error.safeParams[j]
  BY <1>3 DEF Noted
<1>5. QED
  BY <1>2, <1>3, <1>4, RaisedKeeps DEF RaisedOK

LEMMA OtherStep ==
  ASSUME WInv, WithUnsafeParam \/ WithBacktrace
  PROVE  WireOK'
<1>1. Raised /\ Same /\ RaisedOK
  BY DEF WithUnsafeParam, WithBacktrace, Same, WInv, WireOK
<1>2. /\ error'.kind = error.kind /\ error'.sent = error.sent
      /\ error'.safeParams = error.safeParams /\ Whole'
      /\ error'.backtraces \in 1 .. 2
  BY <1>1 DEF WithUnsafeParam, WithBacktrace, RaisedOK, Whole
<1>3. QED
  BY <1>1, <1>2, RaisedKeeps

----------------------------------------------------------------------------
(* On to the next service, whose client raises what it is answered. *)
LEMMA RespondStep ==
  ASSUME WInv, Respond
  PROVE  WireOK'
<1>1. /\ Raised /\ RaisedOK
      /\ UNCHANGED <<builderVars, given, id>>
      /\ error' = NoError /\ hops' = hops + 1
  BY DEF Respond, WInv, WireOK
<1>2. ~Raised' /\ hops' \in Nat /\ hops' <= MaxHops + 1 /\ hops' > 0
  BY <1>1, BoundsAssumption DEF Raised, NoError, RaisedOK, WInv, WireOK
<1>3. UNCHANGED type /\ Encode(id)' = Encode(id)
  BY <1>1, ObjectFixed DEF builderVars, Encode
<1>4. AnsweredOK'
  <2>1. CASE id = NoId
    <3>1. error.kind \in {"throttle", "unavailable"}
      BY <1>1, <2>1 DEF RaisedOK
    <3>2. response'.status \in {429, 503}
      BY <3>1 DEF Respond
    <3>3. QED
      BY <1>1, <2>1, <3>2 DEF AnsweredOK
  <2>2. CASE id # NoId
    <3>1. error.kind = "service" /\ error.sent = Encode(id)
      BY <1>1, <2>2 DEF RaisedOK
    <3>2. response' = [status |-> StatusCode(Encode(id).errorCode), body |-> Body(Encode(id))]
      BY <3>1 DEF Respond
    <3>3. /\ response'.status = StatusCode(ErrorArgs[type].code)
          /\ response'.body = Body(Encode(id))
      BY <3>2 DEF Encode
    <3>4. Body(Encode(id))' = Body(Encode(id))
      BY <1>1, <1>3 DEF Body, Skipped, serializable_error_json
    <3>5. QED
      BY <1>1, <1>3, <2>2, <3>3, <3>4 DEF AnsweredOK, StatusCode
  <2>3. QED
    BY <2>1, <2>2
<1>5. QED
  BY <1>1, <1>2, <1>3, <1>4 DEF WInv, WireOK

(* Nothing is declared safe for a service that did not make the error. *)
LEMMA PropagateStep ==
  ASSUME WInv, Propagate
  PROVE  WireOK'
<1>1. /\ AnsweredOK /\ type \in DOMAIN ErrorArgs
      /\ UNCHANGED <<builderVars, given, id, hops>>
      /\ hops \in Nat /\ hops > 0 /\ hops <= MaxHops
  BY DEF Propagate, WInv, WireOK
<1>2. PICK causeSafe \in BOOLEAN :
        error' = CASE response.status = 429 -> NewError("throttle", causeSafe, <<>>, <<>>, <<>>)
                   [] response.status = 503 -> NewError("unavailable", causeSafe, <<>>, <<>>, <<>>)
                   [] response.status \notin {429, 503} /\ Readable(response.body) ->
                        ServiceInner(causeSafe, Read(response.body), PropagatedArgs)
                   [] OTHER -> NewError("unreadable", causeSafe, <<>>, <<>>, <<>>)
  BY DEF Propagate
<1>3. UNCHANGED type /\ Encode(id)' = Encode(id)
  BY <1>1, ObjectFixed DEF builderVars, Encode
<1>4. RaisedOK' /\ Raised'
  <2>1. CASE id = NoId
    <3>1. PICK kind \in {"throttle", "unavailable"} :
            error' = NewError(kind, causeSafe, <<>>, <<>>, <<>>)
      <4>1. response.status \in {429, 503}
        BY <1>1, <2>1 DEF AnsweredOK
      <4>2. CASE response.status = 429
        BY <1>2, <4>2
      <4>3. CASE response.status = 503
        BY <1>2, <4>3
      <4>4. QED
        BY <4>1, <4>2, <4>3
    <3>2. /\ error'.kind = kind /\ error'.safeParams = <<>> /\ error'.backtraces = 1
          /\ Whole'
      BY <3>1 DEF NewError, Whole
    <3>3. SafeIsDeclared'
      BY <3>2 DEF SafeIsDeclared
    <3>4. QED
      BY <1>1, <2>1, <3>2, <3>3 DEF RaisedOK, Raised
  <2>2. CASE id # NoId
    <3>1. response.status \notin {429, 503} /\ response.body = Body(Encode(id))
      BY <1>1, <2>2, StatusTellsServiceErrors, ErrorArgsAssumption DEF AnsweredOK
    <3>2. error' = ServiceInner(causeSafe, Encode(id), PropagatedArgs)
      BY <1>2, <3>1, ReadIsSent
    <3> DEFINE unsafe == DOMAIN Encode(id).parameters \ SafeKeys(Encode(id), PropagatedArgs)
    <3>3. SafeKeys(Encode(id), PropagatedArgs) = {}
      BY DEF SafeKeys, PropagatedArgs
    <3>4. error' = NewError("service", causeSafe, Encode(id),
                            Restricted(Encode(id).parameters, {}),
                            Restricted(Encode(id).parameters, unsafe))
      BY <3>2, <3>3 DEF ServiceInner
    <3>5. /\ error'.kind = "service" /\ error'.sent = Encode(id) /\ error'.backtraces = 1
          /\ error'.safeParams = Restricted(Encode(id).parameters, {})
          /\ Whole'
      BY <3>4 DEF NewError, Whole
    <3>6. DOMAIN error'.safeParams = {}
      BY <3>5 DEF Restricted
    <3>7. SafeIsDeclared'
      BY <3>6 DEF SafeIsDeclared
    <3>8. QED
      BY <1>1, <1>3, <2>2, <3>5, <3>7 DEF RaisedOK, Raised
  <2>3. QED
    BY <2>1, <2>2
<1>5. QED
  BY <1>1, <1>3, <1>4 DEF WInv, WireOK

LEMMA ErrorStutter ==
  ASSUME WInv, UNCHANGED vars
  PROVE  WireOK'
<1>1. UNCHANGED <<builderVars, given, id, error, response, hops>>
  BY DEF vars, builderVars
<1>2. UNCHANGED <<type, object>> /\ Parameters' = Parameters /\ Encode(id)' = Encode(id)
  BY <1>1, ObjectFixed DEF Encode
<1>3. Raised' = Raised /\ (Whole <=> Whole')
  BY <1>1 DEF Raised, Whole
<1>4. RaisedOK => RaisedOK'
  BY <1>1, <1>2, <1>3 DEF RaisedOK, SafeIsDeclared, Raised
<1>5. AnsweredOK => AnsweredOK'
  <2>1. Body(Encode(id))' = Body(Encode(id))
    BY <1>2 DEF Body, Skipped, serializable_error_json
  <2>2. StatusCode(ErrorArgs[type].code)' = StatusCode(ErrorArgs[type].code)
    BY <1>2 DEF StatusCode
  <2>3. QED
    BY <1>1, <2>1, <2>2 DEF AnsweredOK
<1>6. QED
  BY <1>1, <1>2, <1>3, <1>4, <1>5 DEF WInv, WireOK

(* Only BuildObject touches the builder. *)
LEMMA BuilderSteps ==
  ASSUME [Next]_vars
  PROVE  [BuilderNext]_builderVars
BY DEF Next, vars, builderVars, BuildObject, WithInstanceId, Service, Busy, WithSafeParam,
       WithUnsafeParam, WithBacktrace, Respond, Propagate

LEMMA ErrorStep ==
  ASSUME WInv, [Next]_vars
  PROVE  WInv'
<1>1. BInv'
  BY BuilderSteps, BuilderStep DEF WInv
<1>2. WireOK'
  BY BuildStepKeeps, ServiceStep, BusyStep, WithSafeParamStep, OtherStep, RespondStep,
     PropagateStep, ErrorStutter DEF Next
<1>3. QED
  BY <1>1, <1>2 DEF WInv

LEMMA ErrorInvariant == Spec => []WInv
<1>1. WInv /\ [Next]_vars => WInv'
  BY ErrorStep
<1>2. QED
  BY InitWInv, <1>1, PTL DEF Spec

----------------------------------------------------------------------------
(* Type correctness: among others, no client ever fails to read what a     *)
(* server answered, because a service error's status tells it apart and    *)
(* its body has all that Deserialize insists on.                           *)
THEOREM ErrorTypeCorrect == Spec => []TypeOK
<1>1. WInv => TypeOK
  <2> SUFFICES ASSUME WInv PROVE TypeOK
    OBVIOUS
  <2>1. BuilderTypeOK
    BY BuilderTypeHolds DEF WInv
  <2>2. error.kind \in ErrorKinds
    BY DEF WInv, WireOK, RaisedOK, Raised, ErrorKinds
  <2>3. hops \in 0 .. MaxHops + 1
    BY BoundsAssumption DEF WInv, WireOK
  <2>4. QED
    BY <2>1, <2>2, <2>3 DEF TypeOK, WInv, WireOK, RaisedOK
<1>2. QED
  BY <1>1, ErrorInvariant, PTL

(* The safe parameters of an error, at any hop, are this service's own     *)
(* arguments that its type declares safe, and what code put among them     *)
(* with with_safe_param: nothing that came over the wire.                  *)
THEOREM OnlyDeclaredIsSafe == Spec => []SafeIsDeclared
<1>1. WInv => SafeIsDeclared
  BY DEF WInv, WireOK, RaisedOK, SafeIsDeclared
<1>2. QED
  BY <1>1, ErrorInvariant, PTL

(* Any number of hops away the error has the code, name, id and arguments  *)
(* that it was raised with.                                                *)
THEOREM ErrorsSurvive == Spec => []ErrorSurvives
<1>1. WInv => ErrorSurvives
  BY DEF WInv, WireOK, RaisedOK, ErrorSurvives
<1>2. QED
  BY <1>1, ErrorInvariant, PTL

(* The objects that errors are made of come from builders that keep their  *)
(* promise, and whose literals fit the structs of their stages.            *)
THEOREM ErrorsKeepTheBuilders == Spec => BuilderPromise /\ []StageFieldsFit
<1>1. Init => BuilderInit
  BY DEF Init
<1>2. [Next]_vars => [BuilderNext]_builderVars
  BY BuilderSteps
<1>3. QED
  BY <1>1, <1>2, BuildersKeepThePromise, StagesFit, PTL DEF Spec, BuilderSpec
=============================================================================
