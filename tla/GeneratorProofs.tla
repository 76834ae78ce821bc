---------------------------- MODULE GeneratorProofs ----------------------------
(***************************************************************************)
(* Proofs about TypeLayout, for every IR file: the generated types have a  *)
(* finite size, their setters, constructors and accessors fit their        *)
(* fields, what is left out of a document has a default, and Copy is only  *)
(* derived for what holds nothing but Copy.  And proofs about Generator,   *)
(* which writes them, for every layout of packages: what is written is     *)
(* whole.                                                                  *)
(***************************************************************************)
EXTENDS Generator, TLAPS, WellFoundedInduction, SequenceTheorems, FiniteSetTheorems

(* The lowest of some names.                                               *)
LEMMA Lowest ==
  ASSUME NEW height \in [Names -> Nat], NEW T \in SUBSET Names, T # {}
  PROVE  \E n \in T : \A m \in T : height[n] <= height[m]
<1> DEFINE heights == {height[n] : n \in T}
<1>1. heights \subseteq Nat /\ heights # {}
  OBVIOUS
<1>2. PICK h \in heights : \A k \in heights : h <= k
  <2> HIDE DEF heights
  <2>1. \E h \in heights : \A k \in heights : <<k, h>> \notin OpToRel(<, Nat)
    BY <1>1, WFMin, NatLessThanWellFounded, Zenon
  <2>2. PICK h \in heights : \A k \in heights : <<k, h>> \notin OpToRel(<, Nat)
    BY <2>1
  <2>3. \A k \in heights : ~(k < h)
    BY <1>1, <2>2 DEF OpToRel
  <2>4. QED
    BY <1>1, <2>3
<1>3. PICK n \in T : h = height[n]
  BY <1>2
<1>4. \A m \in T : height[n] <= height[m]
  BY <1>2, <1>3
<1>5. QED
  BY <1>4

(* The IR file the generator works on does not change. *)
FileOK ==
  /\ types \in [Names -> Definition]
  /\ errors \in [Errors -> Seq(Type)]
  /\ \A n \in Names : types[n].form = "alias" => Len(types[n].parts) = 1
  /\ \A n \in Names : \A i \in DOMAIN types[n].parts : OneOptional(types[n].parts[i])
  /\ \A e \in Errors : \A i \in DOMAIN errors[e] : OneOptional(errors[e][i])
  /\ \E height \in [Names -> 0 .. Cardinality(Names)] : AliasHeight(types, height)

(* The recursion through aliases satisfies the equation it is computed by: *)
(* both that a name answered yes by its definition is in the least set,    *)
(* and that one in the least set is answered yes by its definition.        *)
LEMMA AskMonotone ==
  ASSUME NEW question, NEW S, NEW T, S \subseteq T, NEW n,
         AskName(question, S, n)
  PROVE  AskName(question, T, n)
BY DEF AskName, AskType

LEMMA NamedClosed ==
  ASSUME NEW question, NEW n \in Names, AskName(question, Named(question), n)
  PROVE  n \in Named(question)
<1> SUFFICES ASSUME NEW S \in SUBSET Names,
                    \A m \in Names : AskName(question, S, m) => m \in S
             PROVE  n \in S
  BY DEF Named
<1>1. Named(question) \subseteq S
  BY DEF Named
<1>2. AskName(question, S, n)
  BY <1>1, AskMonotone
<1>3. QED
  BY <1>2

LEMMA NamedJustified ==
  ASSUME NEW question, NEW n \in Named(question)
  PROVE  n \in Names /\ AskName(question, Named(question), n)
<1> DEFINE S == Named(question)
<1>1. n \in Names /\ S \subseteq Names
  BY DEF Named
<1>2. SUFFICES ASSUME ~AskName(question, S, n) PROVE FALSE
  BY <1>1
<1>3. ASSUME NEW m \in Names, AskName(question, S \ {n}, m) PROVE m \in S \ {n}
  <2>1. AskName(question, S, m)
    BY <1>3, AskMonotone
  <2>2. m \in S
    BY <2>1, NamedClosed
  <2>3. QED
    BY <1>2, <2>1, <2>2
<1>4. n \in S \ {n}
  <2>1. S \ {n} \in SUBSET Names
    BY <1>1
  <2> HIDE DEF S
  <2>2. n \in Named(question)
    OBVIOUS
  <2>3. QED
    BY <1>3, <2>1, <2>2 DEF Named
<1>5. QED
  BY <1>4

----------------------------------------------------------------------------
(* Finite size. *)

Heavy == Named(NeedsBox)

(* What the slots of a definition are, once it is emitted. *)
SlotsOf(n) ==
  CASE types[n].form = "alias" -> <<Body(types[n])>>
    [] types[n].form = "enum" -> <<>>
    [] types[n].form \in {"object", "union"} -> Slots(n, types[n].parts)

EmittedSlots == \A n \in Names : Emitted(n) => emitted[n].slots = SlotsOf(n)

LInv == FileOK /\ EmittedSlots

LEMMA InitLInv == Init => LInv
<1> SUFFICES ASSUME Init PROVE LInv
  OBVIOUS
<1>1. FileOK
  BY InputsAssumption DEF Init, WellFormed, FileOK
<1>2. DOMAIN emitted = {}
  BY DEF Init
<1>3. EmittedSlots
  BY <1>2 DEF EmittedSlots, Emitted
<1>4. QED
  BY <1>1, <1>3 DEF LInv

LEMMA NextLInv == LInv /\ [Next]_vars => LInv'
<1> SUFFICES ASSUME LInv, [Next]_vars PROVE LInv'
  OBVIOUS
<1>1. types' = types /\ errors' = errors
  <2>1. ASSUME NEW n \in Names,
               GenerateAlias(n) \/ GenerateEnum(n) \/ GenerateUnion(n) \/ GenerateObject(n)
        PROVE  types' = types /\ errors' = errors
    BY <2>1 DEF GenerateAlias, GenerateEnum, GenerateUnion, GenerateObject, Emit
  <2>2. ASSUME NEW e \in Errors, GenerateError(e) \/ GenerateErrorPanics(e)
        PROVE  types' = types /\ errors' = errors
    BY <2>2 DEF GenerateError, GenerateErrorPanics, Emit
  <2>3. CASE UNCHANGED vars
    BY <2>3 DEF vars
  <2>4. QED
    BY <2>1, <2>2, <2>3 DEF Next
<1>2. FileOK'
  BY <1>1 DEF LInv, FileOK, AliasHeight
<1>3. \A n : SlotsOf(n)' = SlotsOf(n)
  BY <1>1 DEF SlotsOf, Slots, Slot, RefBoxed, Ask, AskType, Named, AskName
<1>4. ASSUME NEW n \in Names \cup Errors, NEW emission, Emit(n, emission),
             n \in Names => emission.slots = SlotsOf(n)
      PROVE  EmittedSlots'
  <2>1. emitted' = [m \in DOMAIN emitted \cup {n} |-> IF m = n THEN emission ELSE emitted[m]]
    BY <1>4 DEF Emit
  <2> SUFFICES ASSUME NEW m \in Names, m \in DOMAIN emitted'
               PROVE  emitted'[m].slots = SlotsOf(m)
    BY <1>3 DEF EmittedSlots, Emitted
  <2>2. CASE m = n
    BY <2>1, <2>2, <1>4
  <2>3. CASE m # n
    BY <2>1, <2>3 DEF LInv, EmittedSlots, Emitted
  <2>4. QED
    BY <2>2, <2>3
<1>5. EmittedSlots'
  <2>1. ASSUME NEW n \in Names, GenerateAlias(n) PROVE EmittedSlots'
    BY <2>1, <1>4 DEF GenerateAlias, AliasEmission, SlotsOf
  <2>2. ASSUME NEW n \in Names, GenerateEnum(n) PROVE EmittedSlots'
    BY <2>2, <1>4 DEF GenerateEnum, EnumEmission, SlotsOf
  <2>3. ASSUME NEW n \in Names, GenerateUnion(n) PROVE EmittedSlots'
    BY <2>3, <1>4 DEF GenerateUnion, UnionEmission, SlotsOf
  <2>4. ASSUME NEW n \in Names, GenerateObject(n) PROVE EmittedSlots'
    BY <2>4, <1>4 DEF GenerateObject, ObjectEmission, SlotsOf
  <2>5. ASSUME NEW e \in Errors, GenerateError(e) PROVE EmittedSlots'
    <3>1. e \notin Names
      BY NamesAssumption
    <3>2. Emit(e, ObjectEmission(e, errors[e]))
      BY <2>5 DEF GenerateError
    <3>3. QED
      BY <3>1, <3>2, <1>4
  <2>6. ASSUME NEW e \in Errors, GenerateErrorPanics(e) PROVE EmittedSlots'
    <3>1. emitted' = emitted
      BY <2>6 DEF GenerateErrorPanics
    <3>2. QED
      BY <3>1, <1>3 DEF LInv, EmittedSlots, Emitted
  <2>7. CASE UNCHANGED vars
    BY <2>7, <1>3 DEF vars, LInv, EmittedSlots, Emitted
  <2>8. QED
    BY <2>1, <2>2, <2>3, <2>4, <2>5, <2>6, <2>7 DEF Next
<1>6. QED
  BY <1>2, <1>5 DEF LInv

(* An object, a union, and an alias whose body is heavy, are heavy. *)
LEMMA HeavyName ==
  ASSUME FileOK, NEW n \in Names
  PROVE  /\ types[n].form \in {"object", "union"} => n \in Heavy
         /\ types[n].form = "alias" /\ Ask(NeedsBox, Body(types[n])) => n \in Heavy
         /\ types[n].form = "enum" => n \notin Heavy
<1>1. types[n].form \in {"object", "union"} => AskName(NeedsBox, Heavy, n)
  BY DEF AskName, NeedsBox
<1>2. types[n].form = "alias" /\ Ask(NeedsBox, Body(types[n])) => AskName(NeedsBox, Heavy, n)
  BY DEF AskName, Ask, Heavy
<1>3. types[n].form = "enum" => ~AskName(NeedsBox, Heavy, n)
  BY DEF AskName, NeedsBox
<1>4. QED
  BY <1>1, <1>2, <1>3, NamedClosed, NamedJustified DEF Heavy

(* Behind optionals only, needs_box asks about the name. *)
LEMMA AskNeedsBox ==
  ASSUME NEW t \in Type, ~InCollection(t), t.base \in Names
  PROVE  Ask(NeedsBox, t) <=> t.base \in Heavy
<1>1. \A i \in DOMAIN t.wraps : t.wraps[i] = "optional"
  <2>1. \A i \in DOMAIN t.wraps : t.wraps[i] \in Wrappers
    BY DEF Type
  <2>2. QED
    BY <2>1 DEF InCollection, Wrappers
<1>2. t.base \notin {"object", "union"}
  BY NamesAssumption DEF Forms
<1>3. QED
  BY <1>1, <1>2 DEF Ask, AskType, NeedsBox, Heavy

(* Which types can be held by value. *)
LEMMA Held ==
  ASSUME LInv, NEW n \in Names, NEW m \in HeldBy(n)
  PROVE  /\ m \in Names
         /\ types[n].form # "enum"
         /\ types[n].form = "alias" =>
              /\ Body(types[n]).base = m
              /\ ~InCollection(Body(types[n]))
         /\ types[n].form = "object" => m \notin Heavy
         /\ types[n].form = "union" => m \notin Heavy \/ types[m].form = "object"
<1>1. /\ Emitted(n)
      /\ m \in Names
      /\ emitted[n].slots = SlotsOf(n)
  BY DEF HeldBy, LInv, EmittedSlots
<1>2. PICK i \in DOMAIN SlotsOf(n) :
        /\ SlotsOf(n)[i].base = m
        /\ \A j \in DOMAIN SlotsOf(n)[i].wraps : SlotsOf(n)[i].wraps[j] = "optional"
  BY <1>1 DEF HeldBy
<1>3. types[n] \in Definition /\ types[m] \in Definition
  BY <1>1 DEF LInv, FileOK
<1>4. types[n].form # "enum"
  <2> SUFFICES ASSUME types[n].form = "enum" PROVE FALSE
    OBVIOUS
  <2>1. SlotsOf(n) = <<>>
    BY DEF SlotsOf
  <2>2. QED
    BY <2>1, <1>2
<1>5. CASE types[n].form = "alias"
  <2>1. SlotsOf(n) = <<Body(types[n])>>
    BY <1>5 DEF SlotsOf
  <2>2. SlotsOf(n)[i] = Body(types[n])
    BY <2>1, <1>2
  <2>3. ~InCollection(Body(types[n]))
    BY <2>2, <1>2 DEF InCollection, Collections
  <2>4. QED
    BY <1>1, <1>2, <1>5, <2>2, <2>3
<1>6. CASE types[n].form \in {"object", "union"}
  <2> DEFINE t == types[n].parts[i]
  <2>1. SlotsOf(n) = Slots(n, types[n].parts)
    BY <1>6 DEF SlotsOf
  <2>2. i \in DOMAIN types[n].parts /\ SlotsOf(n)[i] = Slot(n, t)
    BY <2>1, <1>2 DEF Slots
  <2>3. t \in Type
    BY <2>2, <1>3 DEF Definition
  <2>4. Slot(n, t) = Boxed(t) => FALSE
    <3>1. ASSUME Slot(n, t) = Boxed(t) PROVE FALSE
      <4>1. SlotsOf(n)[i].wraps = Append(t.wraps, "box")
        BY <3>1, <2>2, <2>3 DEF Boxed, Type
      <4>2. t.wraps \in Seq(Wrappers)
        BY <2>3 DEF Type
      <4> HIDE DEF t
      <4>3. /\ Len(t.wraps) + 1 \in DOMAIN Append(t.wraps, "box")
            /\ Append(t.wraps, "box")[Len(t.wraps) + 1] = "box"
        BY <4>2
      <4>4. QED
        BY <4>1, <4>3, <1>2
    <3>2. QED
      BY <3>1
  <2>5. Slot(n, t) = t
    BY <2>4 DEF Slot
  <2>6. t.base = m /\ ~InCollection(t)
    BY <2>5, <2>2, <1>2 DEF InCollection, Collections
  <2>7. ~RefBoxed(n, m)
    BY <2>4, <2>6, <1>1 DEF Slot
  <2>8. types[m].form \in Forms
    BY <1>3 DEF Definition
  <2>9. types[m].form = "alias" => m \notin Heavy
    <3> SUFFICES ASSUME types[m].form = "alias", m \in Heavy PROVE FALSE
      OBVIOUS
    <3>1. AskName(NeedsBox, Heavy, m)
      BY NamedJustified DEF Heavy
    <3>2. Ask(NeedsBox, Body(types[m]))
      BY <3>1 DEF AskName, Ask, Heavy
    <3>3. QED
      BY <3>2, <2>7 DEF RefBoxed
  <2>10. types[m].form # "union" /\ (types[m].form = "object" => types[n].form = "union")
    BY <2>7 DEF RefBoxed
  <2>11. types[m].form = "enum" => m \notin Heavy
    BY <1>1, HeavyName DEF LInv
  <2>12. QED
    BY <1>1, <1>6, <2>8, <2>9, <2>10, <2>11 DEF Forms
<1>7. QED
  BY <1>1, <1>3, <1>4, <1>5, <1>6 DEF Definition, Forms

(***************************************************************************)
(* A loop of types that hold one another by value would contain a lowest   *)
(* alias that is not heavy, or else only heavy types, and then an object,  *)
(* or else a union, or else only heavy aliases and a lowest one of these;  *)
(* that one holds none of the loop.                                        *)
(***************************************************************************)
LEMMA NoLoop == LInv => FiniteSize
<1> SUFFICES ASSUME LInv, NEW loop \in SUBSET Names, loop # {}
             PROVE  \E n \in loop : HeldBy(n) \cap loop = {}
  BY DEF FiniteSize
<1>1. PICK height \in [Names -> 0 .. Cardinality(Names)] : AliasHeight(types, height)
  BY DEF LInv, FileOK
<1>2. height \in [Names -> Nat]
  BY <1>1
<1>t. \A n \in Names : types[n].form \in Forms
  BY DEF LInv, FileOK, Definition
(* An alias holds only what is lower. *)
<1>3. ASSUME NEW n \in Names, types[n].form = "alias", NEW m \in HeldBy(n)
      PROVE  height[m] < height[n]
  BY <1>1, <1>3, Held DEF AliasHeight
(* A light type holds only light types. *)
<1>4. ASSUME NEW n \in Names, n \notin Heavy, NEW m \in HeldBy(n)
      PROVE  m \notin Heavy /\ types[n].form = "alias"
  <2>1. types[n].form = "alias"
    BY <1>4, <1>t, Held, HeavyName DEF LInv, Forms
  <2>2. Body(types[n]).base = m /\ ~InCollection(Body(types[n])) /\ m \in Names
    BY <2>1, <1>4, Held
  <2>3. Body(types[n]) \in Type
    <3>1. types[n].parts \in Seq(Type) /\ Len(types[n].parts) = 1
      BY <2>1 DEF LInv, FileOK, Definition
    <3>2. QED
      BY <3>1 DEF Body
  <2>4. ~Ask(NeedsBox, Body(types[n]))
    BY <2>1, <1>4, HeavyName DEF LInv
  <2>5. QED
    BY <2>1, <2>2, <2>3, <2>4, AskNeedsBox
<1>5. CASE loop \ Heavy # {}
  <2>1. PICK n \in loop \ Heavy : \A m \in loop \ Heavy : height[n] <= height[m]
    BY <1>2, <1>5, Lowest
  <2>2. ASSUME NEW m \in HeldBy(n) \cap loop PROVE FALSE
    <3>1. m \in loop \ Heavy /\ height[m] < height[n]
      BY <2>1, <2>2, <1>3, <1>4
    <3>2. height[m] \in Nat /\ height[n] \in Nat /\ height[n] <= height[m]
      BY <3>1, <2>1, <1>2
    <3>3. QED
      BY <3>1, <3>2
  <2>3. QED
    BY <2>1, <2>2
<1>6. CASE loop \subseteq Heavy
  <2>1. CASE \E n \in loop : types[n].form = "object"
    BY <2>1, <1>6, Held
  <2>2. CASE (\A n \in loop : types[n].form # "object") /\ \E n \in loop : types[n].form = "union"
    BY <2>2, <1>6, Held
  <2>3. CASE \A n \in loop : types[n].form \notin {"object", "union"}
    <3>1. \A n \in loop : types[n].form = "alias"
      BY <2>3, <1>6, <1>t, HeavyName DEF LInv, Forms
    <3>2. PICK n \in loop : \A m \in loop : height[n] <= height[m]
      BY <1>2, Lowest
    <3>3. ASSUME NEW m \in HeldBy(n) \cap loop PROVE FALSE
      <4>1. height[m] < height[n]
        BY <3>1, <3>2, <3>3, <1>3
      <4>2. height[m] \in Nat /\ height[n] \in Nat /\ height[n] <= height[m]
        BY <3>2, <3>3, <1>2
      <4>3. QED
        BY <4>1, <4>2
    <3>4. QED
      BY <3>2, <3>3
  <2>4. QED
    BY <2>1, <2>2, <2>3
<1>7. QED
  BY <1>5, <1>6

(* Every generated type has a finite size, for any IR file. *)
THEOREM GeneratedTypesAreFinite == Spec => []FiniteSize
BY InitLInv, NextLInv, NoLoop, PTL DEF Spec

----------------------------------------------------------------------------
(***************************************************************************)
(* What an emission is does not depend on when it is made: the properties  *)
(* of what has been emitted follow from those of an IR file.               *)
(***************************************************************************)
EmissionOf(n) ==
  IF n \in Names
    THEN CASE types[n].form = "alias" -> AliasEmission(n)
           [] types[n].form = "enum" -> EnumEmission
           [] types[n].form = "union" -> UnionEmission(n)
           [] types[n].form = "object" -> ObjectEmission(n, types[n].parts)
    ELSE ObjectEmission(n, errors[n])

EmittedAs ==
  /\ DOMAIN emitted \subseteq Names \cup Errors
  /\ \A n \in DOMAIN emitted : emitted[n] = EmissionOf(n)
  /\ \A e \in DOMAIN emitted \cap Errors : \A i \in DOMAIN errors[e] : ~LooksUpThis(errors[e][i])
  /\ panicked \in BOOLEAN

EInv == FileOK /\ EmittedAs

LEMMA FileFixed ==
  ASSUME LInv, [Next]_vars
  PROVE  types' = types /\ errors' = errors /\ FileOK'
<1>1. types' = types /\ errors' = errors
  <2>1. ASSUME NEW n \in Names,
               GenerateAlias(n) \/ GenerateEnum(n) \/ GenerateUnion(n) \/ GenerateObject(n)
        PROVE  types' = types /\ errors' = errors
    BY <2>1 DEF GenerateAlias, GenerateEnum, GenerateUnion, GenerateObject, Emit
  <2>2. ASSUME NEW e \in Errors, GenerateError(e) \/ GenerateErrorPanics(e)
        PROVE  types' = types /\ errors' = errors
    BY <2>2 DEF GenerateError, GenerateErrorPanics, Emit
  <2>3. CASE UNCHANGED vars
    BY <2>3 DEF vars
  <2>4. QED
    BY <2>1, <2>2, <2>3 DEF Next
<1>2. QED
  BY <1>1, NextLInv DEF LInv

LEMMA InitEInv == Init => EInv
<1> SUFFICES ASSUME Init PROVE EInv
  OBVIOUS
<1>1. FileOK
  BY InitLInv DEF LInv
<1>2. DOMAIN emitted = {} /\ panicked = FALSE
  BY DEF Init
<1>3. QED
  BY <1>1, <1>2 DEF EInv, EmittedAs

LEMMA NextEInv == LInv /\ EInv /\ [Next]_vars => EInv'
<1> SUFFICES ASSUME LInv, EInv, [Next]_vars PROVE EInv'
  OBVIOUS
<1>1. types' = types /\ errors' = errors /\ FileOK'
  BY FileFixed
<1>2. /\ \A n : EmissionOf(n)' = EmissionOf(n)
      /\ \A t : LooksUpThis(t)' = LooksUpThis(t)
  BY <1>1 DEF EmissionOf, AliasEmission, EnumEmission, UnionEmission, ObjectEmission, Slots, Slot,
              RefBoxed, Member, Setter, Constructed, Expression, Returns, Ask, AskType, Named,
              AskName, LooksUpThis
<1>3. ASSUME NEW n \in Names \cup Errors, Emit(n, EmissionOf(n)),
             n \in Errors => \A i \in DOMAIN errors[n] : ~LooksUpThis(errors[n][i])
      PROVE  EmittedAs'
  <2>1. /\ emitted' = [m \in DOMAIN emitted \cup {n} |->
                         IF m = n THEN EmissionOf(n) ELSE emitted[m]]
        /\ panicked' = panicked
    BY <1>3 DEF Emit
  <2>2. \A m \in DOMAIN emitted' : emitted'[m] = EmissionOf(m)
    BY <2>1 DEF EInv, EmittedAs
  <2>3. \A e \in DOMAIN emitted' \cap Errors :
          \A i \in DOMAIN errors[e] : ~LooksUpThis(errors[e][i])
    BY <2>1, <1>3 DEF EInv, EmittedAs
  <2>4. QED
    BY <1>1, <1>2, <2>1, <2>2, <2>3 DEF EInv, EmittedAs
<1>4. ASSUME NEW n \in Names,
             GenerateAlias(n) \/ GenerateEnum(n) \/ GenerateUnion(n) \/ GenerateObject(n)
      PROVE  EmittedAs'
  <2>1. n \notin Errors
    BY NamesAssumption
  <2>2. Emit(n, EmissionOf(n))
    BY <1>4 DEF GenerateAlias, GenerateEnum, GenerateUnion, GenerateObject, EmissionOf
  <2>3. QED
    BY <2>1, <2>2, <1>3
<1>5. ASSUME NEW e \in Errors, GenerateError(e) PROVE EmittedAs'
  <2>1. e \notin Names
    BY NamesAssumption
  <2>2. Emit(e, EmissionOf(e)) /\ \A i \in DOMAIN errors[e] : ~LooksUpThis(errors[e][i])
    BY <1>5, <2>1 DEF GenerateError, EmissionOf
  <2>3. QED
    BY <2>2, <1>3
<1>6. ASSUME NEW e \in Errors, GenerateErrorPanics(e) PROVE EmittedAs'
  <2>1. emitted' = emitted /\ panicked' = TRUE
    BY <1>6 DEF GenerateErrorPanics
  <2>2. QED
    BY <1>1, <1>2, <2>1 DEF EInv, EmittedAs
<1>7. CASE UNCHANGED vars
  <2>1. emitted' = emitted /\ panicked' = panicked
    BY <1>7 DEF vars
  <2>2. QED
    BY <1>1, <1>2, <2>1 DEF EInv, EmittedAs
<1>8. CASE Next
  <2>1. CASE \E n \in Names :
               GenerateAlias(n) \/ GenerateEnum(n) \/ GenerateUnion(n) \/ GenerateObject(n)
    BY <2>1, <1>1, <1>4 DEF EInv
  <2>2. CASE \E e \in Errors : GenerateError(e) \/ GenerateErrorPanics(e)
    BY <2>2, <1>1, <1>5, <1>6 DEF EInv
  <2>3. QED
    BY <1>8, <2>1, <2>2 DEF Next
<1>9. QED
  BY <1>7, <1>8

----------------------------------------------------------------------------
(* The members of an emission, and what they were made from. *)
PartsOf(n) == IF n \in Names THEN types[n].parts ELSE errors[n]

LEMMA MemberAt ==
  ASSUME EInv, NEW n \in DOMAIN emitted, NEW i \in DOMAIN emitted[n].members
  PROVE  /\ i \in DOMAIN PartsOf(n)
         /\ PartsOf(n)[i] \in Type
         /\ OneOptional(PartsOf(n)[i])
         /\ emitted[n].members[i] = Member(PartsOf(n)[i])
         /\ emitted[n].slots[i] = Slot(n, PartsOf(n)[i])
         /\ n \in Names => types[n].form = "object"
         /\ n \notin Names => ~LooksUpThis(PartsOf(n)[i])
<1>1. emitted[n] = EmissionOf(n) /\ n \in Names \cup Errors
  BY DEF EInv, EmittedAs
<1>2. CASE n \in Names
  <2>1. types[n] \in Definition
    BY <1>2 DEF EInv, FileOK
  <2>2. types[n].form \notin {"alias", "enum", "union"}
    <3>1. types[n].form \in {"alias", "enum", "union"} => EmissionOf(n).members = <<>>
      BY <1>2 DEF EmissionOf, AliasEmission, EnumEmission, UnionEmission
    <3>2. QED
      BY <1>1, <3>1
  <2>3. types[n].form = "object"
    BY <2>1, <2>2 DEF Definition, Forms
  <2>4. emitted[n] = ObjectEmission(n, PartsOf(n))
    BY <1>1, <1>2, <2>3 DEF EmissionOf, PartsOf
  <2>5. i \in DOMAIN PartsOf(n)
    BY <2>4 DEF ObjectEmission
  <2>6. PartsOf(n)[i] \in Type /\ OneOptional(PartsOf(n)[i])
    BY <1>2, <2>1, <2>5 DEF PartsOf, Definition, EInv, FileOK
  <2>7. QED
    BY <1>2, <2>3, <2>4, <2>5, <2>6 DEF ObjectEmission, Slots
<1>3. CASE n \notin Names
  <2>1. n \in Errors
    BY <1>1, <1>3
  <2>2. emitted[n] = ObjectEmission(n, PartsOf(n))
    BY <1>1, <1>3 DEF EmissionOf, PartsOf
  <2>3. i \in DOMAIN PartsOf(n)
    BY <2>2 DEF ObjectEmission
  <2>4. PartsOf(n)[i] \in Type /\ OneOptional(PartsOf(n)[i])
    BY <1>3, <2>1, <2>3 DEF PartsOf, EInv, FileOK
  <2>5. ~LooksUpThis(PartsOf(n)[i])
    BY <1>3, <2>1, <2>3 DEF PartsOf, EInv, EmittedAs
  <2>6. QED
    BY <1>3, <2>2, <2>3, <2>4, <2>5 DEF ObjectEmission, Slots
<1>4. QED
  BY <1>2, <1>3

LEMMA Shapes ==
  ASSUME NEW t \in Type, OneOptional(t), ~InCollection(t)
  PROVE  t.wraps = <<>> \/ t.wraps = <<"optional">>
<1>1. t.wraps \in Seq(Wrappers) /\ Len(t.wraps) \in Nat /\ DOMAIN t.wraps = 1 .. Len(t.wraps)
  BY DEF Type
<1>2. \A i \in 1 .. Len(t.wraps) : t.wraps[i] = "optional"
  BY <1>1 DEF InCollection, Wrappers
<1>3. Len(t.wraps) <= 1
  <2> SUFFICES ASSUME Len(t.wraps) > 1 PROVE FALSE
    BY <1>1
  <2>1. 1 \in 1 .. Len(t.wraps) - 1 /\ t.wraps[1] = "optional" /\ t.wraps[1 + 1] = "optional"
    BY <1>1, <1>2
  <2>2. QED
    BY <2>1 DEF OneOptional
<1>4. QED
  BY <1>1, <1>2, <1>3

(* The names answered yes are names, no wrapper, primitive or form. *)
LEMMA Disjoint ==
  ASSUME NEW question, NEW n \in Named(question)
  PROVE  n \in Names /\ n \notin Prims /\ n \notin Wrappers /\ n \notin Forms
<1>1. n \in Names
  BY DEF Named
<1>2. QED
  BY <1>1, NamesAssumption

LEMMA SlotValue ==
  ASSUME FileOK, NEW n, NEW t \in Type,
         n \in Names => types[n].form = "object", n \notin Names => ~LooksUpThis(t)
  PROVE  Slot(n, t) = IF t.base \in Heavy /\ ~InCollection(t) THEN Boxed(t) ELSE t
<1>1. ASSUME t.base \in Names, ~InCollection(t) PROVE RefBoxed(n, t.base) <=> t.base \in Heavy
  <2>1. types[t.base].form \in Forms
    BY <1>1 DEF FileOK, Definition
  <2>2. types[t.base].form = "object" => n \in Names
    BY <1>1 DEF LooksUpThis
  <2>3. CASE types[t.base].form = "alias"
    <3>1. t.base \in Heavy => Ask(NeedsBox, Body(types[t.base]))
      BY <2>3, NamedJustified DEF Heavy, AskName, Ask
    <3>2. QED
      BY <2>3, <3>1, <1>1, HeavyName DEF RefBoxed
  <2>4. CASE types[t.base].form # "alias"
    BY <2>1, <2>2, <2>4, <1>1, HeavyName DEF RefBoxed, Forms
  <2>5. QED
    BY <2>3, <2>4
<1>2. t.base \in Heavy => t.base \in Names
  BY Disjoint DEF Heavy
<1>3. QED
  BY <1>1, <1>2 DEF Slot

----------------------------------------------------------------------------
(* Setters. *)
LEMMA NotHeavy ==
  ASSUME NEW t, t.wraps = <<>>
  PROVE  Ask(NeedsBox, t) <=> t.base \in {"object", "union"} \cup Heavy
BY DEF Ask, AskType, NeedsBox, Heavy

LEMMA BareSetter ==
  ASSUME FileOK, NEW t \in Type, t.wraps = <<>>
  PROVE  /\ ~InCollection(t) /\ ~IsOptional(t)
         /\ t.base \notin {"object", "union"}
         /\ Setter(t) = IF t.base \in Heavy THEN Boxed(t) ELSE t
<1>1. ~InCollection(t) /\ ~IsOptional(t)
  BY DEF InCollection, IsOptional
<1>2. t.base \notin {"object", "union"}
  BY NamesAssumption DEF Type, Forms, Prims
<1>3. Ask(NeedsBox, t) <=> t.base \in Heavy
  BY <1>2, NotHeavy
<1>4. t.base \in Heavy => t.base \in Names
  BY Disjoint DEF Heavy
<1>5. QED
  BY <1>1, <1>2, <1>3, <1>4 DEF Setter

LEMMA SettersValue ==
  ASSUME FileOK, NEW t \in Type, OneOptional(t)
  PROVE  /\ Setter(t) = IF t.base \in Heavy /\ ~InCollection(t) THEN Boxed(t) ELSE t
         /\ Constructed(t) = IF t.base \in Heavy /\ ~InCollection(t) THEN Boxed(t) ELSE t
<1> DEFINE item == Item(t)
<1>t. t.wraps \in Seq(Wrappers) /\ t.base \in Prims \cup Names
      /\ t = [wraps |-> t.wraps, base |-> t.base]
  BY DEF Type
<1>1. CASE t.wraps = <<>>
  BY <1>1, BareSetter DEF Constructed
<1>2. CASE t.wraps = <<"optional">>
  <2>1. IsOptional(t) /\ ~InCollection(t)
    BY <1>2 DEF IsOptional, InCollection, Collections
  <2>2. item = [wraps |-> <<>>, base |-> t.base]
    BY <1>t, <1>2 DEF Item
  <2>3. item \in Type /\ item.wraps = <<>> /\ item.base = t.base
    BY <1>t, <2>2 DEF Type
  <2>4. Boxed(t) = [wraps |-> <<"optional", "box">>, base |-> t.base]
    BY <1>t, <1>2 DEF Boxed
  <2>5. Boxed(item) = [wraps |-> <<"box">>, base |-> t.base]
    BY <2>2 DEF Boxed
  <2> HIDE DEF item
  <2>6. Setter(item) = IF t.base \in Heavy THEN Boxed(item) ELSE item
    BY <2>3, BareSetter
  <2>7. Ask(NeedsBox, item) <=> t.base \in Heavy
    BY <2>3, NotHeavy, BareSetter
  <2>8. Setter(t) = IF t.base \in Heavy THEN Boxed(t) ELSE t
    <3>1. Setter(t) = IF t.base \in Heavy
                        THEN [wraps |-> <<"optional", "box">> \o item.wraps, base |-> t.base]
                        ELSE t
      BY <2>1, <2>7 DEF Setter, item
    <3>2. <<"optional", "box">> \o item.wraps = <<"optional", "box">>
      BY <2>3
    <3>3. QED
      BY <3>1, <3>2, <2>4
  <2>9. Constructed(t) = IF t.base \in Heavy THEN Boxed(t) ELSE t
    <3>1. Constructed(t) = OptionOf(Setter(item))
      BY <2>1 DEF Constructed, item
    <3>2. OptionOf(Boxed(item)) = Boxed(t)
      BY <2>4, <2>5 DEF OptionOf
    <3>3. OptionOf(item) = t
      BY <1>t, <1>2, <2>2 DEF OptionOf, item
    <3>4. QED
      BY <3>1, <3>2, <3>3, <2>6
  <2>10. QED
    BY <2>1, <2>8, <2>9
<1>3. CASE t.wraps \notin {<<>>, <<"optional">>}
  <2>1. InCollection(t)
    BY <1>3, Shapes
  <2>2. CASE ~IsOptional(t)
    BY <1>3, <2>1, <2>2 DEF Setter, Constructed
  <2>3. CASE IsOptional(t)
    <3>1. /\ t.wraps # <<>> /\ t.wraps[1] = "optional"
          /\ item.wraps = Tail(t.wraps) /\ item.base = t.base
          /\ item = [wraps |-> Tail(t.wraps), base |-> t.base]
      BY <1>t, <2>3 DEF IsOptional, Item
    <3>2. /\ Len(t.wraps) >= 2 /\ Len(t.wraps) \in Nat
          /\ Len(item.wraps) = Len(t.wraps) - 1
          /\ \A j \in 1 .. Len(item.wraps) : item.wraps[j] = t.wraps[j + 1]
      <4>1. Len(t.wraps) \in Nat /\ Len(t.wraps) # 0
        BY <1>t, <3>1
      <4>2. Len(t.wraps) # 1
        <5> SUFFICES ASSUME Len(t.wraps) = 1 PROVE FALSE
          OBVIOUS
        <5>1. t.wraps = <<"optional">>
          BY <1>t, <3>1
        <5>2. QED
          BY <5>1, <1>3
      <4>3. Len(t.wraps) >= 2
        <5>1. \A k \in Nat : k # 0 /\ k # 1 => k >= 2
          OBVIOUS
        <5>2. QED
          BY <4>1, <4>2, <5>1, Zenon
      <4>4. QED
        BY <1>t, <3>1, <4>1, <4>3
    <3>3. item.wraps[1] = t.wraps[2] /\ t.wraps[2] # "optional" /\ t.wraps[2] \in Wrappers
      <4>1. 1 \in 1 .. Len(t.wraps) - 1 /\ 2 \in 1 .. Len(t.wraps) /\ 1 \in 1 .. Len(item.wraps)
        BY <3>2
      <4>2. item.wraps[1] = t.wraps[2]
        BY <3>2, <4>1
      <4>3. ~(t.wraps[1] = "optional" /\ t.wraps[1 + 1] = "optional")
        BY <4>1 DEF OneOptional
      <4>4. t.wraps[2] \in Wrappers
        BY <1>t, <4>1
      <4>5. 1 + 1 = 2
        OBVIOUS
      <4>6. QED
        BY <3>1, <4>2, <4>3, <4>4, <4>5, Zenon
    <3>4. ~IsOptional(item) /\ item.wraps # <<>>
      BY <3>2, <3>3 DEF IsOptional
    <3>5. ~Ask(NeedsBox, item)
      <4>1. item.wraps \in Seq(Wrappers)
        BY <1>t, <3>1
      <4>2. 1 \in DOMAIN item.wraps /\ item.wraps[1] \notin NeedsBox.through
        BY <3>2, <3>3, <4>1 DEF NeedsBox
      <4>3. \A i \in DOMAIN item.wraps : item.wraps[i] \notin NeedsBox.yes
        BY <4>1 DEF NeedsBox, Wrappers, Collections
      <4>4. QED
        BY <4>2, <4>3 DEF Ask, AskType
    <3>6. Setter(t) = t
      BY <2>3, <3>5 DEF Setter
    <3>7. Setter(item) = item
      BY <3>4 DEF Setter
    <3>8. OptionOf(item) = t
      <4>1. <<"optional">> \o Tail(t.wraps) = t.wraps
        BY <1>t, <3>1
      <4>2. QED
        BY <1>t, <3>1, <4>1 DEF OptionOf
    <3>9. Constructed(t) = t
      BY <2>3, <3>7, <3>8 DEF Constructed
    <3>10. QED
      BY <2>1, <3>6, <3>9
  <2>4. QED
    BY <2>2, <2>3
<1>4. QED
  BY <1>1, <1>2, <1>3

LEMMA AllSettersFit == EInv => SettersFit
<1> SUFFICES ASSUME EInv, NEW n \in DOMAIN emitted, NEW i \in DOMAIN emitted[n].members
             PROVE  /\ emitted[n].members[i].setter = emitted[n].slots[i]
                    /\ emitted[n].members[i].constructed = emitted[n].slots[i]
  BY DEF SettersFit
<1> DEFINE t == PartsOf(n)[i]
<1>1. /\ t \in Type /\ OneOptional(t)
      /\ emitted[n].members[i].setter = Setter(t)
      /\ emitted[n].members[i].constructed = Constructed(t)
      /\ emitted[n].slots[i] = IF t.base \in Heavy /\ ~InCollection(t) THEN Boxed(t) ELSE t
  <2>1. /\ t \in Type /\ OneOptional(t)
        /\ emitted[n].members[i] = Member(t)
        /\ emitted[n].slots[i] = Slot(n, t)
        /\ n \in Names => types[n].form = "object"
        /\ n \notin Names => ~LooksUpThis(t)
    BY MemberAt
  <2> HIDE DEF t
  <2>2. QED
    BY <2>1, SlotValue DEF EInv, Member
<1> HIDE DEF t
<1>2. QED
  BY <1>1, SettersValue DEF EInv

LEMMA EmissionInvariant == Spec => []EInv
<1>1. LInv /\ EInv /\ [Next]_vars => LInv' /\ EInv'
  BY NextLInv, NextEInv
<1>2. QED
  BY InitLInv, InitEInv, <1>1, PTL DEF Spec

(* Setters, the constructor and the declaration of a field agree about its *)
(* Box, for any IR file.                                                   *)
THEOREM SettersAlwaysFit == Spec => []SettersFit
BY EmissionInvariant, AllSettersFit, PTL

----------------------------------------------------------------------------
(* Copy. *)
LEMMA CopyName ==
  ASSUME FileOK, NEW n \in Named(IsCopy)
  PROVE  types[n].form = "alias" /\ Ask(IsCopy, Body(types[n]))
<1>1. n \in Names /\ AskName(IsCopy, Named(IsCopy), n)
  BY NamedJustified
<1>2. types[n].form \in Forms
  BY <1>1 DEF FileOK, Definition
<1>3. types[n].form \notin IsCopy.yes
  BY <1>2 DEF Forms, IsCopy
<1>4. QED
  BY <1>1, <1>3 DEF AskName, Ask

(* What is_copy is answered yes for has no wrapper but optionals. *)
LEMMA CopyType ==
  ASSUME NEW t \in Type, Ask(IsCopy, t)
  PROVE  /\ \A j \in DOMAIN t.wraps : t.wraps[j] = "optional"
         /\ ~InCollection(t)
         /\ t.base \in {"double", "integer"} \cup Named(IsCopy)
<1>1. \A j \in DOMAIN t.wraps : t.wraps[j] \in Wrappers
  BY DEF Type
<1>2. \A j \in DOMAIN t.wraps : t.wraps[j] \notin IsCopy.yes
  BY <1>1 DEF IsCopy, Wrappers, Collections
<1>3. /\ \A j \in DOMAIN t.wraps : t.wraps[j] \in IsCopy.through
      /\ t.base \in IsCopy.yes \cup Named(IsCopy)
  BY <1>2 DEF Ask, AskType
<1>4. QED
  BY <1>3 DEF IsCopy, InCollection, Collections

LEMMA BodyType ==
  ASSUME FileOK, NEW n \in Names, types[n].form = "alias"
  PROVE  Body(types[n]) \in Type
<1>1. types[n].parts \in Seq(Type) /\ Len(types[n].parts) = 1
  BY DEF FileOK, Definition
<1>2. QED
  BY <1>1 DEF Body

(* Nothing is both Copy and heavy: the heavy names are closed away from    *)
(* the least set of those that are Copy.                                   *)
LEMMA CopyIsLight ==
  ASSUME FileOK, NEW n \in Named(IsCopy)
  PROVE  n \notin Heavy
<1> DEFINE light == Names \ Heavy
<1>1. ASSUME NEW m \in Names, AskName(IsCopy, light, m) PROVE m \in light
  <2> SUFFICES ASSUME m \in Heavy PROVE FALSE
    OBVIOUS
  <2>1. types[m].form \in Forms
    BY DEF FileOK, Definition
  <2>2. types[m].form = "alias" /\ AskType(IsCopy, light, Body(types[m]))
    <3>1. types[m].form \notin IsCopy.yes
      BY <2>1 DEF Forms, IsCopy
    <3>2. QED
      BY <3>1, <1>1 DEF AskName
  <2>3. Body(types[m]) \in Type
    BY <2>2, BodyType
  <2> DEFINE t == Body(types[m])
  <2>4. AskType(NeedsBox, Heavy, t)
    BY <2>2, NamedJustified DEF AskName, Heavy
  <2> HIDE DEF t
  <2>5. \A j \in DOMAIN t.wraps : t.wraps[j] \in Wrappers
    BY <2>3 DEF Type, t
  <2>6. /\ \A j \in DOMAIN t.wraps : t.wraps[j] \in IsCopy.through
        /\ t.base \in IsCopy.yes \cup light
    <3>1. \A j \in DOMAIN t.wraps : t.wraps[j] \notin IsCopy.yes
      BY <2>5 DEF IsCopy, Wrappers, Collections
    <3>2. AskType(IsCopy, light, t)
      BY <2>2 DEF t
    <3>3. QED
      BY <3>1, <3>2 DEF AskType
  <2>7. t.base \in NeedsBox.yes \cup Heavy
    <3>1. \A j \in DOMAIN t.wraps : t.wraps[j] \in NeedsBox.through
      BY <2>6 DEF IsCopy, NeedsBox
    <3>2. QED
      BY <3>1, <2>4 DEF AskType
  <2>8. t.base \in {"double", "integer"} \/ t.base \in Names \ Heavy
    BY <2>6 DEF IsCopy
  <2>9. t.base \in {"object", "union"} \/ t.base \in Heavy
    BY <2>7 DEF NeedsBox
  <2>10. CASE t.base \in Heavy
    BY <2>8, <2>10, Disjoint DEF Heavy, Prims
  <2>11. CASE t.base \in {"object", "union"}
    BY <2>8, <2>11, NamesAssumption DEF Forms
  <2>12. QED
    BY <2>9, <2>10, <2>11
<1>2. light \in SUBSET Names
  OBVIOUS
<1> HIDE DEF light
<1>3. n \in light
  BY <1>1, <1>2 DEF Named
<1>4. QED
  BY <1>3 DEF light

LEMMA EmittedAlias ==
  ASSUME EInv, NEW n \in DOMAIN emitted, n \in Names, types[n].form = "alias"
  PROVE  emitted[n] = AliasEmission(n)
BY DEF EInv, EmittedAs, EmissionOf

LEMMA CopyEmitted ==
  ASSUME EInv, NEW n \in DOMAIN emitted, n \in Named(IsCopy)
  PROVE  emitted[n].copy
<1>1. n \in Names /\ types[n].form = "alias" /\ Ask(IsCopy, Body(types[n]))
  BY CopyName, Disjoint DEF EInv
<1>2. QED
  BY <1>1, EmittedAlias DEF AliasEmission

LEMMA PrimNotEmitted ==
  ASSUME EInv, NEW n \in DOMAIN emitted
  PROVE  n \notin Prims
BY NamesAssumption DEF EInv, EmittedAs

LEMMA CopyAlwaysDeep == EInv => CopyIsDeep
<1> SUFFICES ASSUME EInv, NEW n \in DOMAIN emitted, emitted[n].copy,
                    NEW i \in DOMAIN emitted[n].slots
             PROVE  /\ \A j \in DOMAIN emitted[n].slots[i].wraps :
                         emitted[n].slots[i].wraps[j] = "optional"
                    /\ emitted[n].slots[i].base \in Prims =>
                         emitted[n].slots[i].base \in {"double", "integer"}
                    /\ emitted[n].slots[i].base \in DOMAIN emitted =>
                         emitted[emitted[n].slots[i].base].copy
  BY DEF CopyIsDeep
<1>1. ASSUME NEW t \in Type, Ask(IsCopy, t), emitted[n].slots[i] = t
      PROVE  /\ \A j \in DOMAIN emitted[n].slots[i].wraps :
                  emitted[n].slots[i].wraps[j] = "optional"
             /\ emitted[n].slots[i].base \in Prims =>
                  emitted[n].slots[i].base \in {"double", "integer"}
             /\ emitted[n].slots[i].base \in DOMAIN emitted =>
                  emitted[emitted[n].slots[i].base].copy
  <2>1. t.base \in {"double", "integer"} \cup Named(IsCopy)
    BY <1>1, CopyType
  <2>2. t.base \in Prims => t.base \in {"double", "integer"}
    BY <2>1, Disjoint
  <2>3. t.base \in DOMAIN emitted => emitted[t.base].copy
    BY <2>1, PrimNotEmitted, CopyEmitted DEF Prims
  <2>4. QED
    BY <1>1, <2>2, <2>3, CopyType
<1>2. emitted[n] = EmissionOf(n) /\ n \in Names \cup Errors /\ FileOK
  BY DEF EInv, EmittedAs
<1>3. CASE n \in Names /\ types[n].form = "alias"
  <2>1. emitted[n] = AliasEmission(n)
    BY <1>3, EmittedAlias
  <2>2. Ask(IsCopy, Body(types[n])) /\ emitted[n].slots[i] = Body(types[n])
    BY <2>1 DEF AliasEmission
  <2>3. QED
    BY <1>1, <1>2, <1>3, <2>2, BodyType
<1>4. CASE n \in Names /\ types[n].form \in {"enum", "union"}
  <2>1. emitted[n].copy = FALSE
    BY <1>2, <1>4 DEF EmissionOf, EnumEmission, UnionEmission
  <2>2. QED
    BY <2>1
<1>5. CASE n \notin Names \/ types[n].form = "object"
  <2> DEFINE t == PartsOf(n)[i]
  <2>1. emitted[n] = ObjectEmission(n, PartsOf(n))
    BY <1>2, <1>5 DEF EmissionOf, PartsOf
  <2>2. i \in DOMAIN emitted[n].members
    BY <2>1 DEF ObjectEmission, Slots
  <2>3. Ask(IsCopy, t)
    BY <2>1, <2>2 DEF ObjectEmission
  <2>4. /\ t \in Type
        /\ emitted[n].slots[i] = Slot(n, t)
        /\ n \in Names => types[n].form = "object"
        /\ n \notin Names => ~LooksUpThis(t)
    BY <2>2, MemberAt
  <2> HIDE DEF t
  <2>5. t.base \notin Heavy
    <3>1. t.base \in {"double", "integer"} \cup Named(IsCopy)
      BY <2>3, <2>4, CopyType
    <3>2. CASE t.base \in Named(IsCopy)
      BY <3>2, <1>2, CopyIsLight
    <3>3. CASE t.base \in {"double", "integer"}
      BY <3>3, Disjoint DEF Heavy, Prims
    <3>4. QED
      BY <3>1, <3>2, <3>3
  <2>6. emitted[n].slots[i] = t
    BY <1>2, <2>4, <2>5, SlotValue
  <2>7. QED
    BY <1>1, <2>3, <2>4, <2>6
<1>6. n \in Names => types[n].form \in Forms
  BY <1>2 DEF FileOK, Definition
<1>7. QED
  BY <1>3, <1>4, <1>5, <1>6 DEF Forms

(* A type that derives Copy holds only what is Copy, for any IR file.       *)
THEOREM CopyIsAlwaysDeep == Spec => []CopyIsDeep
BY EmissionInvariant, CopyAlwaysDeep, PTL

----------------------------------------------------------------------------
(* Accessors. *)
LEMMA BoxedDiffers ==
  ASSUME NEW t \in Type
  PROVE  Boxed(t) # t
<1>1. t.wraps \in Seq(Wrappers) /\ Boxed(t).wraps = Append(t.wraps, "box")
  BY DEF Type, Boxed
<1>2. Len(Append(t.wraps, "box")) = Len(t.wraps) + 1 /\ Len(t.wraps) \in Nat
  BY <1>1
<1>3. QED
  BY <1>1, <1>2

LEMMA AccessorValue ==
  ASSUME FileOK, NEW t \in Type
  PROVE  /\ Expression(t) = "copy" <=> Returns(t) = "copy"
         /\ Expression(t) = "deref" <=> t.base \in Heavy /\ ~InCollection(t)
         /\ Returns(t) = "copy" => t.base \notin Names \/ t.base \in Named(IsCopy)
<1>1. CASE InCollection(t)
  BY <1>1 DEF Expression, Returns
<1>2. CASE ~InCollection(t) /\ t.base \in Prims
  <2>1. t.base \notin Heavy /\ t.base \notin Names
    BY <1>2, NamesAssumption, Disjoint DEF Heavy
  <2>2. QED
    BY <1>2, <2>1 DEF Expression, Returns
<1>3. CASE ~InCollection(t) /\ t.base \notin Prims
  <2>1. t.base \in Names
    BY <1>3 DEF Type
  <2> DEFINE def == types[t.base]
  <2>2. def.form \in Forms
    BY <2>1 DEF FileOK, Definition
  <2>3. CASE def.form = "alias"
    <3>1. Ask(NeedsBox, Body(def)) <=> t.base \in Heavy
      BY <2>1, <2>3, HeavyName, NamedJustified DEF Heavy, AskName, Ask
    <3>2. Ask(IsCopy, Body(def)) => t.base \in Named(IsCopy)
      <4>1. Ask(IsCopy, Body(def)) => AskName(IsCopy, Named(IsCopy), t.base)
        BY <2>3 DEF AskName, Ask
      <4>2. QED
        BY <4>1, <2>1, NamedClosed
    <3>3. Ask(IsCopy, Body(def)) => ~Ask(NeedsBox, Body(def))
      BY <3>1, <3>2, CopyIsLight
    <3>4. /\ Expression(t) = IF Ask(NeedsBox, Body(def)) THEN "deref"
                             ELSE IF Ask(IsCopy, Body(def)) THEN "copy" ELSE "ref"
          /\ Returns(t) = IF Ask(IsCopy, Body(def)) THEN "copy" ELSE "ref"
      BY <1>3, <2>3 DEF Expression, Returns
    <3>5. QED
      BY <1>3, <3>1, <3>2, <3>3, <3>4
  <2>4. CASE def.form = "enum"
    <3>1. Expression(t) = "ref" /\ Returns(t) = "ref"
      BY <1>3, <2>4 DEF Expression, Returns
    <3>2. t.base \notin Heavy
      BY <2>1, <2>4, HeavyName
    <3>3. QED
      BY <3>1, <3>2
  <2>5. CASE def.form \in {"object", "union"}
    <3>1. Expression(t) = "deref" /\ Returns(t) = "ref"
      BY <1>3, <2>5 DEF Expression, Returns
    <3>2. t.base \in Heavy
      BY <2>1, <2>5, HeavyName
    <3>3. QED
      BY <1>3, <3>1, <3>2
  <2>6. QED
    BY <2>2, <2>3, <2>4, <2>5 DEF Forms
<1>4. QED
  BY <1>1, <1>2, <1>3

LEMMA AllAccessorsFit == EInv => AccessorsFit
<1> SUFFICES ASSUME EInv, NEW n \in DOMAIN emitted, NEW i \in DOMAIN emitted[n].members
             PROVE  /\ emitted[n].members[i].expression = "copy" <=>
                         emitted[n].members[i].returns = "copy"
                    /\ emitted[n].members[i].expression = "deref" <=>
                         emitted[n].slots[i] # emitted[n].members[i].type
                    /\ emitted[n].members[i].returns = "copy"
                         /\ emitted[n].slots[i].base \in DOMAIN emitted =>
                           emitted[emitted[n].slots[i].base].copy
  BY DEF AccessorsFit
<1> DEFINE t == PartsOf(n)[i]
<1>1. /\ t \in Type
      /\ emitted[n].members[i] = Member(t)
      /\ emitted[n].slots[i] = Slot(n, t)
      /\ n \in Names => types[n].form = "object"
      /\ n \notin Names => ~LooksUpThis(t)
  BY MemberAt
<1> HIDE DEF t
<1>2. emitted[n].slots[i] = IF t.base \in Heavy /\ ~InCollection(t) THEN Boxed(t) ELSE t
  BY <1>1, SlotValue DEF EInv
<1>3. emitted[n].slots[i].base = t.base
  BY <1>1, <1>2 DEF Boxed, Type
<1>4. /\ emitted[n].members[i].expression = Expression(t)
      /\ emitted[n].members[i].returns = Returns(t)
      /\ emitted[n].members[i].type = t
  BY <1>1 DEF Member
<1>5. Expression(t) = "deref" <=> emitted[n].slots[i] # t
  BY <1>1, <1>2, AccessorValue, BoxedDiffers DEF EInv
<1>6. Returns(t) = "copy" /\ t.base \in DOMAIN emitted => emitted[t.base].copy
  <2> SUFFICES ASSUME Returns(t) = "copy", t.base \in DOMAIN emitted PROVE emitted[t.base].copy
    OBVIOUS
  <2>1. t.base \in Names
    BY <1>1, PrimNotEmitted DEF Type
  <2>2. QED
    BY <1>1, <2>1, AccessorValue, CopyEmitted DEF EInv
<1>7. QED
  BY <1>1, <1>3, <1>4, <1>5, <1>6, AccessorValue DEF EInv

(* An accessor returns what it is declared to return, for any IR file.     *)
THEOREM AccessorsAlwaysFit == Spec => []AccessorsFit
BY EmissionInvariant, AllAccessorsFit, PTL

----------------------------------------------------------------------------
(* Defaults. *)

(* An expression with a wrapper is answered at the wrapper, one without at *)
(* its base.                                                               *)
LEMMA EmptyWraps ==
  ASSUME NEW question, question.through = {}, NEW named, NEW t \in Type
  PROVE  /\ t.wraps = <<>> =>
              (AskType(question, named, t) <=> t.base \in question.yes \cup named)
         /\ t.wraps # <<>> =>
              (AskType(question, named, t) <=> t.wraps[1] \in question.yes)
<1>1. t.wraps \in Seq(Wrappers) /\ DOMAIN t.wraps = 1 .. Len(t.wraps) /\ Len(t.wraps) \in Nat
  BY DEF Type
<1>2. {i \in DOMAIN t.wraps : t.wraps[i] \notin question.through} = DOMAIN t.wraps
  OBVIOUS
<1>3. CASE t.wraps = <<>>
  BY <1>2, <1>3 DEF AskType
<1>4. CASE t.wraps # <<>>
  <2>1. 1 \in DOMAIN t.wraps /\ \A j \in DOMAIN t.wraps : 1 <= j
    BY <1>1, <1>4
  <2>2. \A i \in DOMAIN t.wraps : (\A j \in DOMAIN t.wraps : i <= j) => i = 1
    BY <1>1, <2>1
  <2>3. AskType(question, named, t) <=>
          \E i \in DOMAIN t.wraps :
            (\A j \in DOMAIN t.wraps : i <= j) /\ t.wraps[i] \in question.yes
    BY <1>2, <2>1 DEF AskType
  <2>4. QED
    BY <1>4, <2>1, <2>2, <2>3
<1>5. QED
  BY <1>3, <1>4

LEMMA WrapperFirst ==
  ASSUME NEW t \in Type, t.wraps # <<>>
  PROVE  t.wraps[1] \in Wrappers
BY DEF Type

LEMMA AliasAsks ==
  ASSUME FileOK, NEW question, NEW n \in Names, types[n].form = "alias"
  PROVE  n \in Named(question) <=> Ask(question, Body(types[n]))
<1>1. AskName(question, Named(question), n) <=> Ask(question, Body(types[n]))
  BY DEF AskName, Ask
<1>2. QED
  BY <1>1, NamedClosed, NamedJustified

(* What a field of type t is skipped and required by. *)
LEMMA SkipAndRequire ==
  ASSUME FileOK, NEW t \in Type,
         t.wraps = <<>> /\ t.base \in Names =>
           (t.base \in Named(IsEmptyMethod) <=> t.base \notin Named(IsRequired))
  PROVE  Ask(IsEmptyMethod, t) <=> ~Ask(IsRequired, t)
<1>1. IsEmptyMethod.through = {} /\ IsRequired.through = {}
  BY DEF IsEmptyMethod, IsRequired
<1>2. CASE t.wraps # <<>>
  <2>1. t.wraps[1] \in IsEmptyMethod.yes /\ t.wraps[1] \notin IsRequired.yes
    BY <1>2, WrapperFirst DEF IsEmptyMethod, IsRequired, Wrappers, Collections, Prims
  <2>2. QED
    BY <1>1, <1>2, <2>1, EmptyWraps DEF Ask
<1>3. CASE t.wraps = <<>> /\ t.base \in Prims
  <2>1. t.base \notin IsEmptyMethod.yes \cup Named(IsEmptyMethod)
    BY <1>3, Disjoint DEF IsEmptyMethod, Wrappers, Collections, Prims
  <2>2. t.base \in IsRequired.yes
    BY <1>3 DEF IsRequired
  <2>3. QED
    BY <1>1, <1>3, <2>1, <2>2, EmptyWraps DEF Ask
<1>4. CASE t.wraps = <<>> /\ t.base \in Names
  <2>1. t.base \notin IsEmptyMethod.yes /\ t.base \notin IsRequired.yes
    BY <1>4, NamesAssumption DEF IsEmptyMethod, IsRequired, Forms
  <2>2. QED
    BY <1>1, <1>4, <2>1, EmptyWraps DEF Ask
<1>5. QED
  BY <1>2, <1>3, <1>4 DEF Type

LEMMA NamesSkippedOrRequired ==
  ASSUME FileOK, NEW m \in Names
  PROVE  m \in Named(IsEmptyMethod) <=> m \notin Named(IsRequired)
<1> DEFINE T == {n \in Names : ~(n \in Named(IsEmptyMethod) <=> n \notin Named(IsRequired))}
<1>1. PICK height \in [Names -> 0 .. Cardinality(Names)] : AliasHeight(types, height)
  BY DEF FileOK
<1>2. SUFFICES ASSUME T # {} PROVE FALSE
  OBVIOUS
<1>3. height \in [Names -> Nat]
  BY <1>1
<1>4. PICK n \in T : \A k \in T : height[n] <= height[k]
  <2>1. T \in SUBSET Names
    OBVIOUS
  <2> HIDE DEF T
  <2>2. QED
    BY <1>2, <1>3, <2>1, Lowest
<1>5. n \in Names /\ types[n].form \in Forms
  BY <1>4 DEF FileOK, Definition
<1>6. CASE types[n].form # "alias"
  <2>1. types[n].form \in IsRequired.yes /\ types[n].form \notin IsEmptyMethod.yes
    BY <1>5, <1>6 DEF IsRequired, IsEmptyMethod, Forms, Wrappers, Collections
  <2>2. n \in Named(IsRequired) /\ n \notin Named(IsEmptyMethod)
    BY <1>5, <1>6, <2>1, NamedClosed, NamedJustified DEF AskName
  <2>3. QED
    BY <2>2, <1>4
<1>7. CASE types[n].form = "alias"
  <2> DEFINE t == Body(types[n])
  <2>1. t \in Type
    BY <1>5, <1>7, BodyType
  <2>2. t.wraps = <<>> /\ t.base \in Names => height[t.base] < height[n]
    BY <1>1, <1>5, <1>7 DEF AliasHeight, InCollection
  <2>3. t.wraps = <<>> /\ t.base \in Names => t.base \notin T
    <3> SUFFICES ASSUME t.base \in Names, t.base \in T, height[t.base] < height[n] PROVE FALSE
      BY <2>2
    <3> HIDE DEF t, T
    <3>1. height[n] <= height[t.base] /\ height[n] \in Nat /\ height[t.base] \in Nat
      BY <1>3, <1>4, <1>5
    <3>2. QED
      BY <3>1
  <2>4. Ask(IsEmptyMethod, t) <=> ~Ask(IsRequired, t)
    <3> HIDE DEF t
    <3>1. QED
      BY <2>1, <2>3, SkipAndRequire
  <2>5. QED
    BY <1>4, <1>5, <1>7, <2>4, AliasAsks
<1>8. QED
  BY <1>6, <1>7

(* A name that is skipped when empty has a Default. *)
LEMMA EmptyHasDefault ==
  ASSUME FileOK, NEW n \in Named(IsEmptyMethod)
  PROVE  n \in Named(IsDefault) /\ types[n].form = "alias"
<1>1. n \in Names /\ AskName(IsEmptyMethod, Named(IsEmptyMethod), n)
  BY NamedJustified
<1>2. types[n].form = "alias"
  <2>1. types[n].form \in Forms
    BY <1>1 DEF FileOK, Definition
  <2>2. types[n].form \notin IsEmptyMethod.yes
    BY <2>1 DEF Forms, IsEmptyMethod, Wrappers, Collections
  <2>3. QED
    BY <1>1, <2>2 DEF AskName
<1>3. ASSUME NEW S, NEW m, AskName(IsEmptyMethod, S, m) PROVE AskName(IsDefault, S, m)
  BY <1>3 DEF AskName, AskType, IsEmptyMethod, IsDefault
<1>4. ASSUME NEW m \in Names, AskName(IsEmptyMethod, Named(IsDefault), m) PROVE m \in Named(IsDefault)
  BY <1>3, <1>4, NamedClosed
<1>5. Named(IsDefault) \in SUBSET Names
  BY DEF Named
<1>6. n \in Named(IsDefault)
  <2> DEFINE S == Named(IsDefault)
  <2>1. S \in SUBSET Names /\ \A m \in Names : AskName(IsEmptyMethod, S, m) => m \in S
    BY <1>4, <1>5
  <2> HIDE DEF S
  <2>2. n \in S
    BY <2>1 DEF Named
  <2>3. QED
    BY <2>2 DEF S
<1>7. QED
  BY <1>2, <1>6

LEMMA AllSkippedDefaulted == EInv => SkippedIsDefaulted
<1> SUFFICES ASSUME EInv, NEW n \in DOMAIN emitted, NEW i \in DOMAIN emitted[n].members
             PROVE  /\ emitted[n].members[i].skipped <=> emitted[n].members[i].missing = "default"
                    /\ /\ emitted[n].members[i].missing = "default"
                       /\ emitted[n].slots[i].wraps \in {<<>>, <<"box">>}
                       /\ emitted[n].slots[i].base \in DOMAIN emitted
                       => emitted[emitted[n].slots[i].base].default
  BY DEF SkippedIsDefaulted
<1> DEFINE t == PartsOf(n)[i]
<1>1. /\ t \in Type
      /\ emitted[n].members[i] = Member(t)
      /\ emitted[n].slots[i] = Slot(n, t)
      /\ n \in Names => types[n].form = "object"
      /\ n \notin Names => ~LooksUpThis(t)
  BY MemberAt
<1> HIDE DEF t
<1>2. emitted[n].slots[i] = IF t.base \in Heavy /\ ~InCollection(t) THEN Boxed(t) ELSE t
  BY <1>1, SlotValue DEF EInv
<1>3. emitted[n].slots[i].base = t.base
  BY <1>1, <1>2 DEF Boxed, Type
<1>4. emitted[n].slots[i].wraps \in {<<>>, <<"box">>} => t.wraps = <<>>
  <2> SUFFICES ASSUME emitted[n].slots[i].wraps \in {<<>>, <<"box">>}, t.wraps # <<>> PROVE FALSE
    OBVIOUS
  <2>1. t.wraps \in Seq(Wrappers) /\ Boxed(t).wraps = Append(t.wraps, "box")
    BY <1>1 DEF Type, Boxed
  <2>2. Len(t.wraps) \in Nat /\ Len(t.wraps) # 0 /\ t.wraps[1] \in Wrappers
    BY <2>1
  <2>3. Append(t.wraps, "box")[1] = t.wraps[1]
    BY <2>1, <2>2
  <2>4. t.wraps[1] # "box"
    BY <2>2 DEF Wrappers, Collections
  <2>5. emitted[n].slots[i].wraps[1] # "box" /\ emitted[n].slots[i].wraps # <<>>
    BY <1>2, <2>1, <2>2, <2>3, <2>4
  <2>6. QED
    BY <2>5
<1>5. /\ emitted[n].members[i].skipped = Ask(IsEmptyMethod, t)
      /\ emitted[n].members[i].missing = IF Ask(IsRequired, t) THEN "error" ELSE "default"
  BY <1>1 DEF Member
<1>6. Ask(IsEmptyMethod, t) <=> ~Ask(IsRequired, t)
  BY <1>1, NamesSkippedOrRequired, SkipAndRequire DEF EInv
<1>7. ASSUME ~Ask(IsRequired, t), t.wraps = <<>>, t.base \in DOMAIN emitted
      PROVE  emitted[t.base].default
  <2>1. t.base \in Names
    BY <1>1, <1>7, PrimNotEmitted DEF Type
  <2>2. Ask(IsEmptyMethod, t)
    BY <1>6, <1>7
  <2>3. t.base \in Named(IsEmptyMethod)
    <3>1. IsEmptyMethod.through = {}
      BY DEF IsEmptyMethod
    <3>2. t.base \in IsEmptyMethod.yes \cup Named(IsEmptyMethod)
      BY <1>1, <1>7, <2>2, <3>1, EmptyWraps DEF Ask
    <3>3. QED
      BY <2>1, <3>2, NamesAssumption DEF IsEmptyMethod
  <2>4. t.base \in Named(IsDefault) /\ types[t.base].form = "alias"
    BY <2>3, EmptyHasDefault DEF EInv
  <2>5. emitted[t.base].default = Ask(IsDefault, Body(types[t.base]))
    BY <1>7, <2>1, <2>4, EmittedAlias DEF AliasEmission
  <2>6. QED
    BY <2>1, <2>4, <2>5, AliasAsks DEF EInv
<1>8. QED
  BY <1>3, <1>4, <1>5, <1>6, <1>7

(* What the serializer skips the deserializer fills in, for any IR file.    *)
THEOREM SkippedIsAlwaysDefaulted == Spec => []SkippedIsDefaulted
BY EmissionInvariant, AllSkippedDefaulted, PTL

----------------------------------------------------------------------------
(* Types of what is emitted. *)
LEMMA TypeIsRust ==
  ASSUME NEW t \in Type
  PROVE  t \in Rust /\ t.wraps \in Seq(Wrappers) /\ t.base \in Prims \cup Names
<1>1. t.wraps \in Seq(Wrappers) /\ t.base \in Prims \cup Names
      /\ t = [wraps |-> t.wraps, base |-> t.base]
  BY DEF Type
<1>2. t.wraps \in Seq(Wrappers \cup {"box"})
  BY <1>1
<1>3. QED
  BY <1>1, <1>2 DEF Rust

LEMMA BoxedIsRust ==
  ASSUME NEW t \in Rust
  PROVE  Boxed(t) \in Rust
BY DEF Rust, Boxed

LEMMA ItemIsType ==
  ASSUME NEW t \in Type, IsOptional(t)
  PROVE  Item(t) \in Type
<1>1. t.wraps \in Seq(Wrappers) /\ t.wraps # <<>>
  BY DEF Type, IsOptional
<1>2. Tail(t.wraps) \in Seq(Wrappers)
  BY <1>1
<1>3. t = [wraps |-> t.wraps, base |-> t.base] /\ t.base \in Prims \cup Names
  BY DEF Type
<1> DEFINE rest == Tail(t.wraps)
<1>4. Item(t) = [t EXCEPT !.wraps = rest]
  BY DEF Item
<1> HIDE DEF rest
<1>5. Item(t) = [wraps |-> rest, base |-> t.base]
  BY <1>3, <1>4
<1>6. QED
  BY <1>2, <1>3, <1>5 DEF Type, rest

LEMMA SetterIsRust ==
  ASSUME NEW t \in Type
  PROVE  Setter(t) \in Rust
<1>1. CASE IsOptional(t) /\ Ask(NeedsBox, Item(t))
  <2>1. Item(t) \in Type
    BY <1>1, ItemIsType
  <2>2. Item(t).wraps \in Seq(Wrappers \cup {"box"})
    BY <2>1, TypeIsRust DEF Rust
  <2>3. <<"optional", "box">> \in Seq(Wrappers \cup {"box"})
    BY DEF Wrappers
  <2>4. <<"optional", "box">> \o Item(t).wraps \in Seq(Wrappers \cup {"box"})
    BY <2>2, <2>3, ConcatProperties
  <2>5. Setter(t) = [wraps |-> <<"optional", "box">> \o Item(t).wraps, base |-> t.base]
    BY <1>1 DEF Setter
  <2>6. QED
    BY <2>4, <2>5, TypeIsRust DEF Rust
<1>2. CASE ~(IsOptional(t) /\ Ask(NeedsBox, Item(t)))
  BY <1>2, TypeIsRust, BoxedIsRust DEF Setter
<1>3. QED
  BY <1>1, <1>2

LEMMA ConstructedIsRust ==
  ASSUME NEW t \in Type
  PROVE  Constructed(t) \in Rust
<1>1. ASSUME NEW r \in Rust PROVE OptionOf(r) \in Rust
  <2> DEFINE longer == <<"optional">> \o r.wraps
  <2>1. /\ r.wraps \in Seq(Wrappers \cup {"box"}) /\ r.base \in Prims \cup Names
        /\ r = [wraps |-> r.wraps, base |-> r.base]
    BY DEF Rust
  <2>2. <<"optional">> \in Seq(Wrappers \cup {"box"})
    BY DEF Wrappers
  <2>3. <<"optional">> \o r.wraps \in Seq(Wrappers \cup {"box"})
    BY <2>1, <2>2, ConcatProperties
  <2>4. OptionOf(r) = [r EXCEPT !.wraps = longer]
    BY DEF OptionOf
  <2> HIDE DEF longer
  <2>5. OptionOf(r) = [wraps |-> longer, base |-> r.base]
    BY <2>1, <2>4
  <2>6. QED
    BY <2>1, <2>3, <2>5 DEF Rust, longer
<1>2. QED
  BY <1>1, ItemIsType, SetterIsRust DEF Constructed

LEMMA AskIsBoolean ==
  ASSUME NEW question, NEW t
  PROVE  Ask(question, t) \in BOOLEAN
<1> DEFINE stops == {i \in DOMAIN t.wraps : t.wraps[i] \notin question.through}
<1>1. CASE stops = {}
  BY <1>1 DEF Ask, AskType
<1>2. CASE stops # {}
  <2>1. Ask(question, t) =
          (\E i \in stops : (\A j \in stops : i <= j) /\ t.wraps[i] \in question.yes)
    BY <1>2 DEF Ask, AskType
  <2> HIDE DEF stops
  <2>2. QED
    BY <2>1
<1>3. QED
  BY <1>1, <1>2

LEMMA MemberTypes ==
  ASSUME FileOK, NEW t \in Type
  PROVE  Member(t) \in
           [type : Type, setter : Rust, constructed : Rust,
            expression : {"copy", "ref", "deref"}, returns : {"copy", "ref"},
            skipped : BOOLEAN, missing : {"error", "default"}]
<1>1. t.base \in Names => types[t.base].form \in {"alias", "enum", "object", "union"}
  BY DEF FileOK, Definition, Forms
<1>2. Expression(t) \in {"copy", "ref", "deref"}
  BY <1>1, TypeIsRust DEF Expression
<1>3. Returns(t) \in {"copy", "ref"}
  BY DEF Returns
<1>4. Setter(t) \in Rust /\ Constructed(t) \in Rust /\ Ask(IsEmptyMethod, t) \in BOOLEAN
  BY SetterIsRust, ConstructedIsRust, AskIsBoolean
<1>5. QED
  BY <1>2, <1>3, <1>4 DEF Member

LEMMA SlotsTypes ==
  ASSUME NEW this, NEW parts \in Seq(Type)
  PROVE  Slots(this, parts) \in Seq(Rust)
<1>1. \A i \in DOMAIN parts : Slot(this, parts[i]) \in Rust
  BY TypeIsRust, BoxedIsRust DEF Slot
<1>2. DOMAIN parts = 1 .. Len(parts) /\ Len(parts) \in Nat
  OBVIOUS
<1>3. Slots(this, parts) \in [1 .. Len(parts) -> Rust]
  BY <1>1, <1>2 DEF Slots
<1>4. QED
  BY <1>2, <1>3, SeqDef

LEMMA ObjectTypes ==
  ASSUME FileOK, NEW this, NEW parts \in Seq(Type)
  PROVE  ObjectEmission(this, parts) \in Emission
<1> DEFINE members == [i \in DOMAIN parts |-> Member(parts[i])]
           M == [type : Type, setter : Rust, constructed : Rust,
                 expression : {"copy", "ref", "deref"}, returns : {"copy", "ref"},
                 skipped : BOOLEAN, missing : {"error", "default"}]
<1>1. DOMAIN parts = 1 .. Len(parts) /\ Len(parts) \in Nat
  OBVIOUS
<1>2. \A i \in DOMAIN parts : Member(parts[i]) \in M
  BY MemberTypes
<1> HIDE DEF M
<1>3. members \in [1 .. Len(parts) -> M]
  BY <1>1, <1>2
<1> HIDE DEF members
<1>4. members \in Seq(M)
  BY <1>1, <1>3, SeqDef
<1>5. Slots(this, parts) \in Seq(Rust)
  BY SlotsTypes
<1>6. (\A i \in DOMAIN parts : Ask(IsCopy, parts[i])) \in BOOLEAN
  OBVIOUS
<1>7. ObjectEmission(this, parts) =
        [copy |-> \A i \in DOMAIN parts : Ask(IsCopy, parts[i]), default |-> FALSE,
         slots |-> Slots(this, parts), members |-> members]
  BY DEF ObjectEmission, members
<1>8. ObjectEmission(this, parts) \in [copy : BOOLEAN, default : BOOLEAN, slots : Seq(Rust),
                                       members : Seq(M)]
  BY <1>4, <1>5, <1>6, <1>7
<1>9. QED
  BY <1>8 DEF Emission, M

(* Type correctness, of the file and of everything emitted from it. *)
THEOREM LayoutTypeCorrect == Spec => []TypeOK
<1>1. EInv => TypeOK
  <2> SUFFICES ASSUME EInv PROVE TypeOK
    OBVIOUS
  <2>1. FileOK /\ EmittedAs
    BY DEF EInv
  <2>2. ASSUME NEW n \in DOMAIN emitted PROVE EmissionOf(n) \in Emission
    <3>1. n \in Names \cup Errors
      BY <2>1 DEF EmittedAs
    <3>2. n \in Names => types[n] \in Definition
      BY <2>1 DEF FileOK
    <3>3. CASE n \notin Names
      BY <2>1, <3>1, <3>3, ObjectTypes DEF EmissionOf, FileOK
    <3>4. CASE n \in Names /\ types[n].form = "object"
      <4>1. types[n].parts \in Seq(Type)
        BY <3>2, <3>4 DEF Definition
      <4>2. QED
        BY <2>1, <3>4, <4>1, ObjectTypes DEF EmissionOf
    <3>5. CASE n \in Names /\ types[n].form = "union"
      <4>1. Slots(n, types[n].parts) \in Seq(Rust)
        BY <3>2, <3>5, SlotsTypes DEF Definition
      <4>2. EmissionOf(n) = UnionEmission(n)
        BY <3>5 DEF EmissionOf
      <4>3. QED
        BY <4>1, <4>2 DEF UnionEmission, Emission
    <3>6. CASE n \in Names /\ types[n].form = "enum"
      BY <3>6 DEF EmissionOf, EnumEmission, Emission
    <3>7. CASE n \in Names /\ types[n].form = "alias"
      <4>1. Body(types[n]) \in Rust
        BY <2>1, <3>7, BodyType, TypeIsRust
      <4>2. EmissionOf(n) = AliasEmission(n)
        BY <3>7 DEF EmissionOf
      <4>3. Ask(IsCopy, Body(types[n])) \in BOOLEAN /\ Ask(IsDefault, Body(types[n])) \in BOOLEAN
        BY AskIsBoolean
      <4>4. <<Body(types[n])>> \in Seq(Rust)
        BY <4>1
      <4>5. QED
        BY <4>2, <4>3, <4>4 DEF AliasEmission, Emission
    <3>8. QED
      BY <3>1, <3>2, <3>3, <3>4, <3>5, <3>6, <3>7 DEF Definition, Forms
  <2>3. QED
    BY <2>1, <2>2 DEF TypeOK, FileOK, EmittedAs
<1>2. QED
  BY <1>1, EmissionInvariant, PTL

----------------------------------------------------------------------------
(***************************************************************************)
(* The tree of modules: paths.                                             *)
(***************************************************************************)
Words == STRING
Paths == Seq(Words)

LEMMA Part ==
  ASSUME NEW path \in Paths, NEW m \in Nat, NEW n \in Nat, n <= Len(path), m <= n
  PROVE  /\ SubSeq(path, m + 1, n) \in Paths
         /\ Len(SubSeq(path, m + 1, n)) = n - m
         /\ \A i \in 1 .. n - m : SubSeq(path, m + 1, n)[i] = path[m + i]
<1>1. \A i \in m + 1 .. n : path[i] \in Words
  BY DEF Paths
<1>2. m + 1 \in Int /\ n \in Int /\ n - (m + 1) + 1 = n - m
  OBVIOUS
<1>3. /\ SubSeq(path, m + 1, n) \in Seq(Words)
      /\ Len(SubSeq(path, m + 1, n)) = IF m + 1 <= n THEN n - (m + 1) + 1 ELSE 0
      /\ \A i \in 1 .. n - (m + 1) + 1 : SubSeq(path, m + 1, n)[i] = path[(m + 1) + i - 1]
  BY <1>1, <1>2, SubSeqProperties
<1>4. Len(SubSeq(path, m + 1, n)) = n - m
  BY <1>3
<1>5. \A i \in 1 .. n - m : SubSeq(path, m + 1, n)[i] = path[m + i]
  BY <1>2, <1>3
<1>6. QED
  BY <1>3, <1>4, <1>5 DEF Paths

LEMMA Head1 ==
  ASSUME NEW path \in Paths, NEW n \in 0 .. Len(path)
  PROVE  /\ SubSeq(path, 1, n) \in Paths
         /\ Len(SubSeq(path, 1, n)) = n
         /\ \A i \in 1 .. n : SubSeq(path, 1, n)[i] = path[i]
<1>1. n \in Nat /\ n <= Len(path) /\ 0 <= n /\ 0 + 1 = 1
  BY DEF Paths
<1>2. /\ SubSeq(path, 0 + 1, n) \in Paths
      /\ Len(SubSeq(path, 0 + 1, n)) = n - 0
      /\ \A i \in 1 .. n - 0 : SubSeq(path, 0 + 1, n)[i] = path[0 + i]
  BY <1>1, Part
<1>3. n - 0 = n /\ \A i \in 1 .. n : 0 + i = i
  BY <1>1
<1>4. QED
  BY <1>1, <1>2, <1>3

LEMMA SamePath ==
  ASSUME NEW p \in Paths, NEW q \in Paths, Len(p) = Len(q),
         \A i \in 1 .. Len(p) : p[i] = q[i]
  PROVE  p = q
BY DEF Paths

LEMMA PrefixesOf ==
  ASSUME NEW path \in Paths
  PROVE  /\ \A p \in Prefixes(path) : p \in Paths /\ Prefixes(p) \subseteq Prefixes(path)
         /\ path \in Prefixes(path)
         /\ <<>> \in Prefixes(path)
<1>1. Len(path) \in Nat
  BY DEF Paths
<1>2. ASSUME NEW n \in 0 .. Len(path)
      PROVE  /\ SubSeq(path, 1, n) \in Paths
             /\ Prefixes(SubSeq(path, 1, n)) \subseteq Prefixes(path)
  <2> DEFINE p == SubSeq(path, 1, n)
  <2>1. p \in Paths /\ Len(p) = n /\ \A i \in 1 .. n : p[i] = path[i]
    BY Head1
  <2> HIDE DEF p
  <2>2. ASSUME NEW m \in 0 .. n PROVE SubSeq(p, 1, m) = SubSeq(path, 1, m) /\ m \in 0 .. Len(path)
    <3>1. m \in 0 .. Len(p) /\ m \in 0 .. Len(path)
      BY <1>1, <2>1
    <3>2. /\ SubSeq(p, 1, m) \in Paths /\ Len(SubSeq(p, 1, m)) = m
          /\ \A i \in 1 .. m : SubSeq(p, 1, m)[i] = p[i]
      BY <2>1, <3>1, Head1
    <3>3. /\ SubSeq(path, 1, m) \in Paths /\ Len(SubSeq(path, 1, m)) = m
          /\ \A i \in 1 .. m : SubSeq(path, 1, m)[i] = path[i]
      BY <3>1, Head1
    <3>4. \A i \in 1 .. m : i \in 1 .. n
      OBVIOUS
    <3>5. \A i \in 1 .. m : SubSeq(p, 1, m)[i] = SubSeq(path, 1, m)[i]
      BY <2>1, <3>2, <3>3, <3>4
    <3>6. SubSeq(p, 1, m) = SubSeq(path, 1, m)
      BY <3>2, <3>3, <3>5, SamePath
    <3>7. QED
      BY <3>1, <3>6
  <2>3. Prefixes(p) \subseteq Prefixes(path)
    BY <2>1, <2>2 DEF Prefixes
  <2>4. QED
    BY <2>1, <2>3 DEF p
<1>3. SubSeq(path, 1, Len(path)) = path
  BY SubSeqFull DEF Paths
<1>4. Len(path) \in 0 .. Len(path) /\ 0 \in 0 .. Len(path)
  BY <1>1
<1>5. SubSeq(path, 1, 0) = <<>>
  BY SubSeqEmpty
<1>6. QED
  BY <1>2, <1>3, <1>4, <1>5 DEF Prefixes

(***************************************************************************)
(* The number of shared parts is the length of the longest common prefix.  *)
(***************************************************************************)
LEMMA Highest ==
  ASSUME NEW n \in Nat, NEW T \in SUBSET (1 .. n), T # {}
  PROVE  \E i \in T : \A j \in T : j <= i
<1> DEFINE depths == {n - i : i \in T}
<1>0. \A i \in T : i \in Int /\ n - i \in Nat
  <2>1. \A i \in 1 .. n : i \in Int /\ n - i \in Nat
    OBVIOUS
  <2>2. QED
    BY <2>1
<1>1. depths \subseteq Nat /\ depths # {}
  BY <1>0
<1>2. PICK h \in depths : \A k \in depths : h <= k
  <2> HIDE DEF depths
  <2>1. \E h \in depths : \A k \in depths : <<k, h>> \notin OpToRel(<, Nat)
    BY <1>1, WFMin, NatLessThanWellFounded, Zenon
  <2>2. PICK h \in depths : \A k \in depths : <<k, h>> \notin OpToRel(<, Nat)
    BY <2>1
  <2>3. \A k \in depths : ~(k < h)
    BY <1>1, <2>2 DEF OpToRel
  <2>4. QED
    BY <1>1, <2>3
<1>3. PICK i \in T : h = n - i
  BY <1>2
<1>4. \A j \in T : j <= i
  <2> TAKE j \in T
  <2>1. n - i <= n - j
    BY <1>2, <1>3
  <2>2. n \in Int /\ i \in Int /\ j \in Int
    BY <1>0
  <2>3. QED
    BY <2>1, <2>2
<1>5. QED
  BY <1>4

LEMMA SharedIs ==
  ASSUME NEW p \in Paths, NEW q \in Paths
  PROVE  /\ Shared(p, q) \in Nat /\ Shared(p, q) <= Len(p) /\ Shared(p, q) <= Len(q)
         /\ SubSeq(p, 1, Shared(p, q)) = SubSeq(q, 1, Shared(p, q))
<1> DEFINE Common(n) == n <= Len(q) /\ SubSeq(p, 1, n) = SubSeq(q, 1, n)
           T == {n \in 1 .. Len(p) : Common(n)}
<1>1. Len(p) \in Nat /\ Len(q) \in Nat
  BY DEF Paths
<1>2. Shared(p, q) = Cardinality(T)
  BY DEF Shared
<1>3. CASE T = {}
  <2>1. Shared(p, q) = 0
    BY <1>2, <1>3, FS_EmptySet
  <2>2. SubSeq(p, 1, 0) = <<>> /\ SubSeq(q, 1, 0) = <<>>
    BY SubSeqEmpty
  <2>3. QED
    BY <1>1, <2>1, <2>2
<1>4. CASE T # {}
  <2>1. T \in SUBSET (1 .. Len(p))
    OBVIOUS
  <2>2. PICK k \in T : \A j \in T : j <= k
    <3> HIDE DEF T
    <3>1. QED
      BY <1>1, <1>4, <2>1, Highest
  <2>3. k \in 1 .. Len(p) /\ k \in 0 .. Len(p) /\ k \in 0 .. Len(q) /\ SubSeq(p, 1, k) = SubSeq(q, 1, k)
    BY <1>1, <2>2
  <2>4. T = 1 .. k
    <3>1. ASSUME NEW n \in 1 .. k PROVE n \in T
      <4>1. n \in 0 .. Len(p) /\ n \in 0 .. Len(q) /\ n \in 1 .. Len(p)
        BY <1>1, <2>3
      <4>2. /\ SubSeq(p, 1, n) \in Paths /\ Len(SubSeq(p, 1, n)) = n
            /\ \A i \in 1 .. n : SubSeq(p, 1, n)[i] = p[i]
        BY <4>1, Head1
      <4>3. /\ SubSeq(q, 1, n) \in Paths /\ Len(SubSeq(q, 1, n)) = n
            /\ \A i \in 1 .. n : SubSeq(q, 1, n)[i] = q[i]
        BY <4>1, Head1
      <4>4. \A i \in 1 .. k : SubSeq(p, 1, k)[i] = p[i] /\ SubSeq(q, 1, k)[i] = q[i]
        BY <2>3, Head1
      <4>5. \A i \in 1 .. n : p[i] = q[i]
        <5>1. \A i \in 1 .. n : i \in 1 .. k
          BY <2>3
        <5>2. QED
          BY <2>3, <4>4, <5>1
      <4>6. SubSeq(p, 1, n) = SubSeq(q, 1, n)
        BY <4>2, <4>3, <4>5, SamePath
      <4>7. QED
        BY <1>1, <4>1, <4>6
    <3>2. ASSUME NEW n \in T PROVE n \in 1 .. k
      BY <2>2, <2>3
    <3>3. QED
      BY <3>1, <3>2
  <2>5. Shared(p, q) = k
    <3> HIDE DEF T
    <3>1. Cardinality(1 .. k) = IF 1 > k THEN 0 ELSE k - 1 + 1
      BY <2>3, FS_Interval
    <3>2. QED
      BY <1>2, <2>3, <2>4, <3>1
  <2>6. QED
    BY <1>1, <2>3, <2>5
<1>5. QED
  BY <1>3, <1>4

(***************************************************************************)
(* A path of supers and modules leads from one module to the other, through*)
(* directories that are above the other one.                               *)
(***************************************************************************)
LEMMA PathLeads ==
  ASSUME NEW p \in Paths, NEW q \in Paths, NEW name \in Words
  PROVE  LET at == Append(p, name)
             up == SubSeq(at, 1, Len(at) - Supers(p, q))
             down == Drop(q, Shared(p, q))
         IN /\ Supers(p, q) <= Len(at)
            /\ \A n \in 0 .. Len(down) : up \o SubSeq(down, 1, n) \in Prefixes(q)
            /\ up \o down = q
<1> DEFINE at == Append(p, name)
           k == Shared(p, q)
           up == SubSeq(at, 1, Len(at) - Supers(p, q))
           down == Drop(q, Shared(p, q))
<1>1. /\ k \in Nat /\ k <= Len(p) /\ k <= Len(q) /\ SubSeq(p, 1, k) = SubSeq(q, 1, k)
      /\ Len(p) \in Nat /\ Len(q) \in Nat /\ k \in 0 .. Len(p) /\ k \in 0 .. Len(q)
  <2>1. Len(p) \in Nat /\ Len(q) \in Nat
    BY DEF Paths
  <2>2. QED
    BY <2>1, SharedIs
<1>2. at \in Paths /\ Len(at) = Len(p) + 1 /\ \A i \in 1 .. Len(p) : at[i] = p[i]
  <2>1. p \in Seq(Words)
    BY DEF Paths
  <2>2. /\ Append(p, name) \in Seq(Words) /\ Len(Append(p, name)) = Len(p) + 1
        /\ \A i \in 1 .. Len(p) : Append(p, name)[i] = p[i]
    BY <2>1, AppendProperties
  <2>3. QED
    BY <2>2 DEF Paths
<1> HIDE DEF k, at
<1>3. Supers(p, q) = 1 + Len(p) - k
  BY DEF Supers, k
<1>4. Supers(p, q) <= Len(at) /\ Len(at) - Supers(p, q) = k
  BY <1>1, <1>2, <1>3
<1>5. up \in Paths /\ Len(up) = k /\ \A i \in 1 .. k : up[i] = q[i]
  <2>1. k \in 0 .. Len(at)
    BY <1>1, <1>2
  <2>2. up = SubSeq(at, 1, k)
    BY <1>4
  <2>3. /\ SubSeq(at, 1, k) \in Paths /\ Len(SubSeq(at, 1, k)) = k
        /\ \A i \in 1 .. k : SubSeq(at, 1, k)[i] = at[i]
    BY <1>2, <2>1, Head1
  <2>4. \A i \in 1 .. k : SubSeq(p, 1, k)[i] = p[i] /\ SubSeq(q, 1, k)[i] = q[i]
    BY <1>1, Head1
  <2>5. \A i \in 1 .. k : i \in 1 .. Len(p) /\ p[i] = q[i]
    BY <1>1, <2>4
  <2> HIDE DEF up
  <2>6. \A i \in 1 .. k : up[i] = q[i]
    BY <1>2, <2>2, <2>3, <2>5
  <2>7. QED
    BY <2>2, <2>3, <2>6
<1>6. down \in Paths /\ Len(down) = Len(q) - k /\ \A i \in 1 .. Len(q) - k : down[i] = q[k + i]
  <2>1. down = SubSeq(q, k + 1, Len(q))
    BY DEF Drop, k
  <2> HIDE DEF down
  <2>2. QED
    BY <1>1, <2>1, Part
<1> HIDE DEF up, down
<1>7. ASSUME NEW n \in 0 .. Len(down)
      PROVE  up \o SubSeq(down, 1, n) = SubSeq(q, 1, k + n) /\ k + n \in 0 .. Len(q)
  <2>1. /\ SubSeq(down, 1, n) \in Paths /\ Len(SubSeq(down, 1, n)) = n
        /\ \A i \in 1 .. n : SubSeq(down, 1, n)[i] = down[i]
    BY <1>6, Head1
  <2> DEFINE left == up \o SubSeq(down, 1, n)
             part == SubSeq(down, 1, n)
  <2> HIDE DEF part
  <2>2. part \in Paths /\ Len(part) = n /\ n \in Nat /\ \A i \in 1 .. n : part[i] = q[k + i]
    <3>1. \A i \in 1 .. n : i \in 1 .. Len(q) - k
      BY <1>1, <1>6
    <3>2. QED
      BY <1>6, <2>1, <3>1 DEF part
  <2>3. /\ up \o part \in Paths /\ Len(up \o part) = k + n
        /\ \A i \in 1 .. k + n : (up \o part)[i] = IF i <= k THEN up[i] ELSE part[i - k]
    <3>1. up \in Seq(Words) /\ part \in Seq(Words)
      BY <1>5, <2>2 DEF Paths
    <3>2. /\ up \o part \in Seq(Words) /\ Len(up \o part) = Len(up) + Len(part)
          /\ \A i \in 1 .. Len(up) + Len(part) :
               (up \o part)[i] = IF i <= Len(up) THEN up[i] ELSE part[i - Len(up)]
      BY <3>1, ConcatProperties
    <3>3. QED
      BY <1>5, <2>2, <3>2 DEF Paths
  <2>4. \A i \in 1 .. k + n : (up \o part)[i] = q[i]
    <3> SUFFICES ASSUME NEW i \in 1 .. k + n PROVE (up \o part)[i] = q[i]
      OBVIOUS
    <3>1. CASE i <= k
      BY <1>1, <1>5, <2>3, <3>1
    <3>2. CASE ~(i <= k)
      <4>1. i - k \in 1 .. n /\ k + (i - k) = i
        BY <1>1, <2>2, <3>2
      <4>2. QED
        BY <2>2, <2>3, <3>2, <4>1
    <3>3. QED
      BY <3>1, <3>2
  <2>5. k + n \in 0 .. Len(q)
    BY <1>1, <1>6
  <2>6. /\ SubSeq(q, 1, k + n) \in Paths /\ Len(SubSeq(q, 1, k + n)) = k + n
        /\ \A i \in 1 .. k + n : SubSeq(q, 1, k + n)[i] = q[i]
    BY <2>5, Head1
  <2>7. up \o part = SubSeq(q, 1, k + n)
    BY <2>3, <2>4, <2>6, SamePath
  <2>8. QED
    BY <2>5, <2>7 DEF part
<1>8. \A n \in 0 .. Len(down) : up \o SubSeq(down, 1, n) \in Prefixes(q)
  BY <1>7 DEF Prefixes
<1>9. up \o down = q
  <2>1. Len(down) \in 0 .. Len(down) /\ k + Len(down) = Len(q)
    BY <1>1, <1>6
  <2>2. SubSeq(down, 1, Len(down)) = down /\ SubSeq(q, 1, Len(q)) = q
    BY <1>6, SubSeqFull DEF Paths
  <2>3. QED
    BY <1>7, <2>1, <2>2
<1>10. QED
  BY <1>4, <1>8, <1>9 DEF up, down, at

(***************************************************************************)
(* The generator makes the types that TypeLayout lays out.                 *)
(***************************************************************************)
LEMMA GeneratorSteps == GeneratorNext => [Next]_vars
<1> SUFFICES ASSUME GeneratorNext PROVE [Next]_vars
  OBVIOUS
<1>1. CASE \E n \in Names : GenerateType(n)
  BY <1>1 DEF GenerateType, Next
<1>2. CASE \E e \in Errors : GenerateErrorType(e) \/ Dies(e)
  BY <1>2 DEF GenerateErrorType, Dies, Next
<1>3. CASE GenerateConstants
  BY <1>3 DEF GenerateConstants
<1>4. CASE \E s \in Services : GenerateService(s)
  BY <1>4 DEF GenerateService
<1>5. CASE Render
  BY <1>5 DEF Render
<1>6. QED
  BY <1>1, <1>2, <1>3, <1>4, <1>5 DEF GeneratorNext

LEMMA GeneratorLaysOut == GeneratorSpec => Spec
<1>1. GeneratorInit => Init
  BY DEF GeneratorInit
<1>2. [GeneratorNext]_<<vars, generatorVars>> => [Next]_vars
  BY GeneratorSteps DEF vars
<1>3. QED
  BY <1>1, <1>2, PTL DEF GeneratorSpec, Spec

(***************************************************************************)
(* The tree: a definition is in its own module and nowhere else, and a     *)
(* directory is in one.  All is in the tree when files are written.        *)
(***************************************************************************)
Everything == Definitions \cup {Constants}

LayoutOK ==
  /\ layout.package \in [Definitions -> Paths]
  /\ layout.strip \in Paths
  /\ \A d \in Definitions : layout.module[d] \in Words /\ layout.module[d] # "mod"
  /\ layout.uses \in [Services -> SUBSET Names]

Home(d) == IF d = Constants THEN <<>> ELSE ModulePath(d)

TrieOK ==
  \A p \in DOMAIN trie :
    /\ p \in Paths
    /\ Prefixes(p) \subseteq DOMAIN trie
    /\ trie[p] \in Seq(Everything)
    /\ \A i \in DOMAIN trie[p] : Home(trie[p][i]) = p

Rendered ==
  [f \in UNION {{<<p, file>> : file \in Written(p)} : p \in DOMAIN trie} |-> Contents(f[1], f[2])]

FilesOK ==
  files # <<>> =>
    /\ Everything \subseteq Inserted
    /\ files = Rendered
    /\ manifest = IF layout.crate THEN Dependencies ELSE {}

GInv ==
  /\ LayoutOK
  /\ TrieOK
  /\ Inserted \cap (Names \cup Errors) \subseteq DOMAIN emitted
  /\ FilesOK

LEMMA ModulePathOK ==
  ASSUME LayoutOK, NEW d \in Definitions
  PROVE  ModulePath(d) \in Paths
<1> DEFINE raw == layout.package[d]
<1>1. raw \in Paths /\ Len(raw) \in Nat
  BY DEF LayoutOK, Paths
<1>2. CASE layout.strip \in Prefixes(raw)
  <2>1. PICK n \in 0 .. Len(raw) : layout.strip = SubSeq(raw, 1, n)
    BY <1>2 DEF Prefixes
  <2>2. Len(layout.strip) = n /\ n \in Nat /\ n <= Len(raw)
    BY <1>1, <2>1, Head1
  <2>3. ModulePath(d) = SubSeq(raw, n + 1, Len(raw))
    BY <1>2, <2>2 DEF ModulePath, Drop
  <2>4. QED
    BY <1>1, <2>2, <2>3, Part
<1>3. CASE layout.strip \notin Prefixes(raw)
  BY <1>1, <1>3 DEF ModulePath
<1>4. QED
  BY <1>2, <1>3

LEMMA HomeOK ==
  ASSUME LayoutOK, NEW d \in Everything
  PROVE  Home(d) \in Paths
<1>1. <<>> \in Paths
  BY DEF Paths
<1>2. QED
  BY <1>1, ModulePathOK DEF Home, Everything

LEMMA InsertKeeps ==
  ASSUME LayoutOK, TrieOK, NEW d \in Everything, Insert(d, Home(d)), layout' = layout
  PROVE  TrieOK' /\ Inserted' \subseteq Inserted \cup {d}
<1> DEFINE path == Home(d)
           there(p) == IF p \in DOMAIN trie THEN trie[p] ELSE <<>>
<1>1. /\ DOMAIN trie' = DOMAIN trie \cup Prefixes(path)
      /\ \A p \in DOMAIN trie' : trie'[p] = IF p = path THEN Append(there(p), d) ELSE there(p)
  BY DEF Insert
<1>2. path \in Paths
  BY HomeOK
<1>3. /\ \A p \in Prefixes(path) : p \in Paths /\ Prefixes(p) \subseteq Prefixes(path)
  BY <1>2, PrefixesOf
<1>4. \A e : Home(e)' = Home(e)
  BY DEF Home, ModulePath
<1> HIDE DEF path
<1>5. ASSUME NEW p \in DOMAIN trie'
      PROVE  /\ p \in Paths /\ Prefixes(p) \subseteq DOMAIN trie'
             /\ there(p) \in Seq(Everything)
             /\ \A i \in DOMAIN there(p) : Home(there(p)[i]) = p /\ there(p)[i] \in Inserted
  <2>1. CASE p \in DOMAIN trie
    <3>1. there(p) = trie[p] /\ trie[p] \in Seq(Everything)
      BY <2>1 DEF TrieOK
    <3>2. \A i \in DOMAIN trie[p] : trie[p][i] \in Everything
      BY <3>1
    <3>3. \A i \in DOMAIN trie[p] : trie[p][i] \in Inserted
      BY <2>1, <3>2 DEF Inserted, Everything
    <3>4. QED
      BY <1>1, <2>1, <3>1, <3>3 DEF TrieOK
  <2>2. CASE p \notin DOMAIN trie
    <3>1. there(p) = <<>> /\ p \in Prefixes(path)
      BY <1>1, <2>2
    <3>2. <<>> \in Seq(Everything) /\ DOMAIN <<>> = {}
      OBVIOUS
    <3>3. QED
      BY <1>1, <1>3, <3>1, <3>2
  <2>3. QED
    BY <2>1, <2>2
<1>6. ASSUME NEW p \in DOMAIN trie'
      PROVE  /\ trie'[p] \in Seq(Everything)
             /\ \A i \in DOMAIN trie'[p] : Home(trie'[p][i]) = p /\ trie'[p][i] \in Inserted \cup {d}
  <2> DEFINE old == there(p)
  <2>1. /\ old \in Seq(Everything)
        /\ \A i \in DOMAIN old : Home(old[i]) = p /\ old[i] \in Inserted
    BY <1>5
  <2>2. trie'[p] = IF p = path THEN Append(old, d) ELSE old
    BY <1>1
  <2> HIDE DEF old
  <2>3. CASE p = path
    <3>1. trie'[p] = Append(old, d)
      BY <2>2, <2>3
    <3>2. /\ Append(old, d) \in Seq(Everything) /\ Len(Append(old, d)) = Len(old) + 1
          /\ \A i \in 1 .. Len(old) : Append(old, d)[i] = old[i]
          /\ Append(old, d)[Len(old) + 1] = d
      BY <2>1, AppendProperties
    <3>3. Home(d) = p
      BY <2>3 DEF path
    <3>4. ASSUME NEW i \in DOMAIN Append(old, d)
          PROVE  Home(Append(old, d)[i]) = p /\ Append(old, d)[i] \in Inserted \cup {d}
      <4>1. i \in 1 .. Len(old) + 1 /\ Len(old) \in Nat
        BY <2>1, <3>2
      <4>2. CASE i \in 1 .. Len(old)
        BY <2>1, <3>2, <4>2
      <4>3. CASE i = Len(old) + 1
        BY <3>2, <3>3, <4>3
      <4>4. QED
        BY <4>1, <4>2, <4>3
    <3>5. QED
      BY <3>1, <3>2, <3>4
  <2>4. CASE p # path
    BY <2>1, <2>2, <2>4
  <2>5. QED
    BY <2>3, <2>4
<1>7. TrieOK'
  BY <1>4, <1>5, <1>6 DEF TrieOK
<1>8. Inserted' \subseteq Inserted \cup {d}
  BY <1>6 DEF Inserted
<1>9. QED
  BY <1>7, <1>8

LEMMA GInvStarts == GeneratorInit => GInv
<1> SUFFICES ASSUME GeneratorInit PROVE GInv
  OBVIOUS
<1>1. PICK input \in Inputs : types = input.types /\ errors = input.errors
  BY DEF GeneratorInit, Init
<1>2. layout \in LayoutsOf([types |-> input.types, errors |-> input.errors])
  BY <1>1 DEF GeneratorInit
<1>3. LayoutOK
  BY <1>2, LayoutsAssumption DEF LayoutOK, Paths, Words
<1>4. trie = [p \in {<<>>} |-> <<>>]
  BY DEF GeneratorInit
<1>5. DOMAIN trie = {<<>>} /\ trie[<<>>] = <<>>
  BY <1>4
<1>6. <<>> \in Paths /\ <<>> \in Seq(Everything) /\ Len(<<>>) = 0 /\ DOMAIN <<>> = {}
  BY DEF Paths
<1>7. Prefixes(<<>>) \subseteq {<<>>}
  <2>1. \A n \in 0 .. 0 : SubSeq(<<>>, 1, n) = <<>>
    <3>1. \A n \in 0 .. 0 : n = 0
      OBVIOUS
    <3>2. SubSeq(<<>>, 1, 0) = <<>>
      BY SubSeqEmpty
    <3>3. QED
      BY <3>1, <3>2
  <2>2. QED
    BY <1>6, <2>1 DEF Prefixes
<1>8. TrieOK
  BY <1>5, <1>6, <1>7 DEF TrieOK
<1>9. Inserted = {}
  BY <1>5, <1>6 DEF Inserted
<1>10. FilesOK
  BY DEF GeneratorInit, FilesOK
<1>11. QED
  BY <1>3, <1>8, <1>9, <1>10 DEF GInv

(* Once files are written nothing is left to do. *)
LEMMA GInvKept ==
  ASSUME GInv, [GeneratorNext]_<<vars, generatorVars>>
  PROVE  GInv'
<1>1. ASSUME NEW n \in Names \cup Errors, NEW emission,
             Emit(n, emission), Insert(n, ModulePath(n)), UNCHANGED <<layout, files, manifest>>
      PROVE  GInv'
  <2>1. n \in Everything /\ n # Constants /\ ModulePath(n) = Home(n)
    BY ServicesAssumption DEF Everything, Definitions, Home
  <2>2. TrieOK' /\ Inserted' \subseteq Inserted \cup {n}
    BY <1>1, <2>1, InsertKeeps DEF GInv
  <2>3. DOMAIN emitted' = DOMAIN emitted \cup {n} /\ n \notin DOMAIN emitted
    BY <1>1 DEF Emit, Emitted
  <2>4. n \notin Inserted
    BY <2>3 DEF GInv
  <2>5. files = <<>>
    BY <2>1, <2>4 DEF GInv, FilesOK
  <2>6. FilesOK'
    BY <1>1, <2>5 DEF FilesOK
  <2>7. LayoutOK'
    BY <1>1 DEF GInv, LayoutOK
  <2>8. QED
    BY <2>2, <2>3, <2>6, <2>7 DEF GInv
<1>2. ASSUME NEW d \in Services \cup {Constants}, d \notin Inserted, Insert(d, Home(d)),
             UNCHANGED <<vars, layout, files, manifest>>
      PROVE  GInv'
  <2>1. d \in Everything /\ d \notin Names \cup Errors
    BY ServicesAssumption DEF Everything, Definitions
  <2>2. TrieOK' /\ Inserted' \subseteq Inserted \cup {d}
    BY <1>2, <2>1, InsertKeeps DEF GInv
  <2>3. files = <<>> /\ files' = <<>>
    BY <1>2, <2>1 DEF GInv, FilesOK
  <2>4. FilesOK'
    BY <2>3 DEF FilesOK
  <2>5. LayoutOK' /\ emitted' = emitted
    BY <1>2 DEF GInv, LayoutOK, vars
  <2>6. QED
    BY <2>1, <2>2, <2>4, <2>5 DEF GInv
<1>3. CASE \E n \in Names : GenerateType(n)
  <2>1. PICK n \in Names : GenerateType(n)
    BY <1>3
  <2>2. PICK emission : Emit(n, emission)
    BY <2>1 DEF GenerateType, GenerateAlias, GenerateEnum, GenerateUnion, GenerateObject
  <2>3. QED
    BY <1>1, <2>1, <2>2 DEF GenerateType
<1>4. CASE \E e \in Errors : GenerateErrorType(e)
  <2>1. PICK e \in Errors : GenerateErrorType(e)
    BY <1>4
  <2>2. Emit(e, ObjectEmission(e, errors[e]))
    BY <2>1 DEF GenerateErrorType, GenerateError
  <2>3. QED
    BY <1>1, <2>1, <2>2 DEF GenerateErrorType
<1>5. CASE GenerateConstants
  BY <1>2, <1>5 DEF GenerateConstants, Home
<1>6. CASE \E s \in Services : GenerateService(s)
  <2>1. PICK s \in Services : GenerateService(s)
    BY <1>6
  <2>2. Home(s) = ModulePath(s)
    BY ServicesAssumption DEF Home, Definitions
  <2>3. QED
    BY <1>2, <2>1, <2>2 DEF GenerateService
<1>7. CASE Render
  <2>1. /\ trie' = trie /\ layout' = layout /\ emitted' = emitted
        /\ Everything \subseteq Inserted
        /\ files' = Rendered
        /\ manifest' = IF layout.crate THEN Dependencies ELSE {}
    BY <1>7 DEF Render, Everything, Rendered, vars
  <2>2. Inserted' = Inserted /\ Rendered' = Rendered
    BY <2>1 DEF Inserted, Rendered, Written, Contents, RootFile, ModuleName
  <2>3. TrieOK' /\ LayoutOK'
    BY <2>1 DEF GInv, TrieOK, LayoutOK, Home, ModulePath
  <2>4. FilesOK'
    BY <2>1, <2>2 DEF FilesOK
  <2>5. QED
    BY <2>1, <2>2, <2>3, <2>4 DEF GInv
<1>8. CASE UNCHANGED <<emitted, generatorVars>>
  <2>1. Inserted' = Inserted /\ Rendered' = Rendered
    BY <1>8 DEF Inserted, Rendered, Written, Contents, RootFile, ModuleName, generatorVars
  <2>2. TrieOK' /\ LayoutOK'
    BY <1>8 DEF GInv, TrieOK, LayoutOK, Home, ModulePath, generatorVars
  <2>3. FilesOK'
    BY <1>8, <2>1 DEF GInv, FilesOK, generatorVars
  <2>4. QED
    BY <1>8, <2>1, <2>2, <2>3 DEF GInv
<1>9. CASE \E e \in Errors : Dies(e)
  BY <1>8, <1>9 DEF Dies, GenerateErrorPanics
<1>10. CASE UNCHANGED <<vars, generatorVars>>
  BY <1>8, <1>10 DEF vars
<1>11. QED
  BY <1>3, <1>4, <1>5, <1>6, <1>7, <1>9, <1>10 DEF GeneratorNext

(***************************************************************************)
(* A written tree is whole.                                                *)
(***************************************************************************)
LEMMA InTree ==
  ASSUME GInv, NEW d \in Definitions, d \in Inserted
  PROVE  /\ ModulePath(d) \in DOMAIN trie
         /\ \E i \in DOMAIN trie[ModulePath(d)] : trie[ModulePath(d)][i] = d
<1>1. PICK p \in DOMAIN trie : \E i \in DOMAIN trie[p] : trie[p][i] = d
  BY DEF Inserted
<1>2. PICK i \in DOMAIN trie[p] : trie[p][i] = d
  BY <1>1
<1>3. Home(d) = p
  BY <1>2 DEF GInv, TrieOK
<1>4. Home(d) = ModulePath(d)
  BY ServicesAssumption DEF Home
<1>5. QED
  BY <1>2, <1>3, <1>4

(* What the file of a definition holds: no other definition of its module *)
(* has its name.                                                           *)
LEMMA FileHolds ==
  ASSUME GInv, NamesApart, NEW d \in Definitions, d \in Inserted
  PROVE  Contents(ModulePath(d), ModuleName(d)) = d
<1> DEFINE p == ModulePath(d)
           name == ModuleName(d)
           there == trie[p]
           T == {i \in DOMAIN there : ModuleName(there[i]) = name}
<1>1. name \in Words /\ name # "mod" /\ At(d) = Append(p, name)
  BY ServicesAssumption DEF GInv, LayoutOK, ModuleName, At
<1>2. name # RootFile(p)
  <2>1. CASE p = <<>> /\ layout.crate
    <3>1. At(d) = <<name>>
      BY <1>1, <2>1
    <3>2. At(d) # <<"lib">>
      BY <2>1 DEF NamesApart
    <3>3. name # "lib"
      BY <3>1, <3>2
    <3>4. QED
      BY <2>1, <3>3 DEF RootFile
  <2>2. CASE ~(p = <<>> /\ layout.crate)
    BY <1>1, <2>2 DEF RootFile
  <2>3. QED
    BY <2>1, <2>2
<1>3. PICK k \in DOMAIN there : there[k] = d
  BY InTree
<1>4. p \in DOMAIN trie
  BY InTree
<1>5. there \in Seq(Everything) /\ \A i \in DOMAIN there : Home(there[i]) = p
  BY <1>4 DEF GInv, TrieOK
<1>6. ASSUME NEW i \in T PROVE there[i] = d
  <2> DEFINE e == there[i]
  <2>1. e \in Everything /\ Home(e) = p /\ ModuleName(e) = name
    BY <1>5
  <2> HIDE DEF e
  <2>2. CASE e \in Definitions
    <3>1. ModulePath(e) = p
      BY <2>1, <2>2, ServicesAssumption DEF Home
    <3>2. At(e) = At(d)
      BY <1>1, <2>1, <3>1 DEF At
    <3>3. e = d
      BY <2>2, <3>2 DEF NamesApart
    <3>4. QED
      BY <3>3 DEF e
  <2>3. CASE e = Constants
    <3>1. p = <<>> /\ name = Constants
      BY <2>1, <2>3 DEF Home, ModuleName
    <3>2. At(d) = <<Constants>>
      BY <1>1, <3>1
    <3>3. QED
      BY <3>2 DEF NamesApart
  <2>4. QED
    BY <2>1, <2>2, <2>3 DEF Everything
<1>7. \E i \in T : \A j \in T : j <= i
  <2>1. Len(there) \in Nat /\ DOMAIN there = 1 .. Len(there)
    BY <1>5
  <2>2. T \in SUBSET (1 .. Len(there)) /\ T # {}
    BY <1>3, <2>1
  <2> HIDE DEF T, there
  <2>3. QED
    BY <2>1, <2>2, Highest
<1> DEFINE Is(i) == /\ ModuleName(there[i]) = name
                    /\ \A j \in DOMAIN there : ModuleName(there[j]) = name => j <= i
<1>8. \E i \in DOMAIN there : Is(i)
  BY <1>7
<1>9. (CHOOSE i \in DOMAIN there : Is(i)) \in T
  <2>1. /\ (CHOOSE i \in DOMAIN there : Is(i)) \in DOMAIN there
        /\ Is(CHOOSE i \in DOMAIN there : Is(i))
    <3> HIDE DEF Is
    <3>1. QED
      BY <1>8
  <2>2. QED
    BY <2>1
<1>10. Contents(p, name) = there[CHOOSE i \in DOMAIN there : Is(i)]
  BY <1>2 DEF Contents
<1>11. QED
  BY <1>6, <1>9, <1>10

LEMMA IsExported ==
  ASSUME GInv, NamesApart, files # <<>>, NEW d \in Definitions
  PROVE  Exports(ModulePath(d), d)
<1> DEFINE p == ModulePath(d)
           file == ModuleName(d)
<1>1. d \in Inserted /\ files = Rendered
  BY DEF GInv, FilesOK, Everything
<1>2. p \in DOMAIN trie /\ \E i \in DOMAIN trie[p] : trie[p][i] = d
  BY <1>1, InTree
<1>3. file \in Written(p)
  BY <1>2 DEF Written
<1>4. Contents(p, file) = d
  BY <1>1, FileHolds
<1> HIDE DEF p, file
<1>5. <<p, file>> \in UNION {{<<q, f>> : f \in Written(q)} : q \in DOMAIN trie}
  BY <1>2, <1>3
<1>6. Rendered[<<p, file>>] = Contents(<<p, file>>[1], <<p, file>>[2])
  <2> DEFINE D == UNION {{<<q, f>> : f \in Written(q)} : q \in DOMAIN trie}
  <2>1. Rendered = [f \in D |-> Contents(f[1], f[2])]
    BY DEF Rendered
  <2>2. <<p, file>> \in D
    BY <1>5
  <2> HIDE DEF D
  <2>3. QED
    BY <2>1, <2>2
<1>7. files[<<p, file>>] = d
  BY <1>1, <1>4, <1>6
<1>8. QED
  BY <1>2, <1>7 DEF Exports, p, file

LEMMA UsesAreNames ==
  ASSUME GInv, NEW d \in Definitions
  PROVE  Uses(d) \subseteq Names
<1>1. Names \cap Errors = {} /\ Services \cap (Names \cup Errors) = {}
  BY NamesAssumption, ServicesAssumption
<1>2. \A parts : Mentioned(parts) \subseteq Names
  BY DEF Mentioned
<1>3. CASE d \in Names
  <2>1. Uses(d) = Mentioned(types[d].parts)
    BY <1>1, <1>3 DEF Uses
  <2>2. QED
    BY <1>2, <2>1
<1>4. CASE d \in Errors
  <2>1. Uses(d) = Mentioned(errors[d])
    BY <1>1, <1>4 DEF Uses
  <2>2. QED
    BY <1>2, <2>1
<1>5. CASE d \in Services
  <2>1. Uses(d) = layout.uses[d]
    BY <1>1, <1>5 DEF Uses
  <2>2. QED
    BY <1>5, <2>1 DEF GInv, LayoutOK
<1>6. QED
  BY <1>3, <1>4, <1>5 DEF Definitions

LEMMA Whole ==
  ASSUME GInv, TypeOK
  PROVE  CrateIsWhole
<1> SUFFICES ASSUME files # <<>>, NamesApart
             PROVE  /\ \A d \in Definitions : Exports(ModulePath(d), d)
                    /\ \A d \in Definitions : \A m \in Uses(d) :
                         /\ Reaches(d, TypePath(d, m))
                         /\ Exports(Reached(d, TypePath(d, m)), m)
                    /\ layout.crate =>
                         /\ DOMAIN emitted # {} \/ Services # {} => "conjure-object" \in manifest
                         /\ DOMAIN emitted \cap Errors # {} => "conjure-error" \in manifest
                         /\ Services # {} => "conjure-http" \in manifest
  BY DEF CrateIsWhole
<1>1. \A d \in Definitions : Exports(ModulePath(d), d)
  BY IsExported
<1>2. ASSUME NEW d \in Definitions, NEW m \in Uses(d)
      PROVE  /\ Reaches(d, TypePath(d, m))
             /\ Exports(Reached(d, TypePath(d, m)), m)
  <2> DEFINE p == ModulePath(d)
             q == ModulePath(m)
             name == ModuleName(d)
             path == TypePath(d, m)
             up == SubSeq(Append(p, name), 1, Len(Append(p, name)) - Supers(p, q))
             down == Drop(q, Shared(p, q))
  <2>1. m \in Definitions
    BY UsesAreNames DEF Definitions
  <2>2. p \in Paths /\ q \in Paths /\ name \in Words
    BY <2>1, ModulePathOK, ServicesAssumption DEF GInv, LayoutOK, ModuleName
  <2>3. path.supers = Supers(p, q) /\ path.down = down /\ At(d) = Append(p, name)
    BY DEF TypePath, At
  <2> HIDE DEF p, q, name, path
  <2>4. /\ Supers(p, q) <= Len(Append(p, name))
        /\ \A n \in 0 .. Len(down) : up \o SubSeq(down, 1, n) \in Prefixes(q)
        /\ up \o down = q
    BY <2>2, PathLeads
  <2>5. Prefixes(q) \subseteq DOMAIN trie
    <3>1. m \in Inserted
      BY <2>1 DEF GInv, FilesOK, Everything
    <3>2. q \in DOMAIN trie
      BY <2>1, <3>1, InTree DEF q
    <3>3. QED
      BY <3>2 DEF GInv, TrieOK
  <2> HIDE DEF down
  <2>6. Reaches(d, path)
    BY <2>3, <2>4, <2>5 DEF Reaches
  <2>7. Reached(d, path) = q
    BY <2>3, <2>4 DEF Reached
  <2>8. Exports(q, m)
    BY <1>1, <2>1 DEF q
  <2>9. QED
    BY <2>6, <2>7, <2>8 DEF path
<1>3. ASSUME layout.crate
      PROVE  /\ DOMAIN emitted # {} \/ Services # {} => "conjure-object" \in manifest
             /\ DOMAIN emitted \cap Errors # {} => "conjure-error" \in manifest
             /\ Services # {} => "conjure-http" \in manifest
  <2>1. manifest = Dependencies
    BY <1>3 DEF GInv, FilesOK
  <2>2. DOMAIN emitted \subseteq Names \cup Errors
    BY DEF TypeOK
  <2>3. QED
    BY <2>1, <2>2 DEF Dependencies
<1>4. QED
  BY <1>1, <1>2, <1>3

(***************************************************************************)
(* The generator lays out types as TypeLayout does, with whatever services *)
(* and packages: what holds of the layout holds of what is written.        *)
(***************************************************************************)
THEOREM WrittenTypesAreSound ==
  GeneratorSpec => [](/\ TypeOK /\ FiniteSize /\ SettersFit /\ AccessorsFit
                      /\ SkippedIsDefaulted /\ CopyIsDeep)
BY GeneratorLaysOut, LayoutTypeCorrect, GeneratedTypesAreFinite, SettersAlwaysFit,
   AccessorsAlwaysFit, SkippedIsAlwaysDefaulted, CopyIsAlwaysDeep, PTL

(***************************************************************************)
(* What create_modules writes is whole, for every IR file, however its     *)
(* packages nest and whatever is stripped from them: every definition is   *)
(* in a file of its own that its module exports, every path of type_path   *)
(* leads there, and the manifest has the crates that the code uses.        *)
(***************************************************************************)
THEOREM CratesAreWhole == GeneratorSpec => []CrateIsWhole
<1>1. GeneratorSpec => []GInv
  BY GInvStarts, GInvKept, PTL DEF GeneratorSpec
<1>2. GeneratorSpec => []TypeOK
  BY GeneratorLaysOut, LayoutTypeCorrect, PTL
<1>3. GInv /\ TypeOK => CrateIsWhole
  BY Whole
<1>4. QED
  BY <1>1, <1>2, <1>3, PTL
=============================================================================
