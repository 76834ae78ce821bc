----------------------------- MODULE TypeLayout -----------------------------
(***************************************************************************)
(* The Rust types conjure-codegen emits for the definitions of an IR file  *)
(* (src/conjure-codegen/src: context.rs, aliases.rs, unions.rs, objects/,  *)
(* errors.rs, and the loop of create_modules in lib.rs).                   *)
(*                                                                         *)
(* Several functions of context.rs, written apart, have to agree about the *)
(* same field: where boxed_rust_type puts a Box, where setter_bounds puts  *)
(* one, where borrow_rust_type dereferences one; what is_empty_method lets *)
(* the serializer skip and what is_required lets the deserializer default. *)
(* The generator emits one definition per step; an emission records the    *)
(* answer each of those functions gave for it.                             *)
(***************************************************************************)
EXTENDS Naturals, Sequences, FiniteSets

CONSTANTS
  Names,    \* the type names defined by the IR (TypeName)
  Errors,   \* the error names defined by the IR
  Inputs    \* the IR files considered: definitions and errors

Prims == {"double", "integer", "string", "any"}
Collections == {"list", "set", "map"}
Wrappers == {"optional"} \cup Collections
Forms == {"alias", "enum", "object", "union"}

VARIABLES
  types,     \* Context.types
  errors,    \* the arguments of each error
  emitted,   \* what has been generated so far, per type or error
  panicked   \* the generator has died

vars == <<types, errors, emitted, panicked>>

(***************************************************************************)
(* A type expression is the nest of its wrappers, outermost first, and the *)
(* primitive or name inside.  A map is followed into its value (Conjure    *)
(* has no named containers as keys); an external reference stands for its  *)
(* fallback, which every function below goes straight to.  A constant is a *)
(* value and no field has it as its type.                                  *)
(***************************************************************************)
Type == [wraps : Seq(Wrappers), base : Prims \cup Names]
Definition == [form : Forms, parts : Seq(Type)]

InCollection(t) == \E i \in DOMAIN t.wraps : t.wraps[i] \in Collections
Body(def) == def.parts[1]

\* Conjure rejects an alias that leads back to itself, and an optional whose
\* item is an optional.
AliasHeight(defs, height) ==
  \A n \in Names : defs[n].form = "alias" =>
    LET body == Body(defs[n])
    IN body.base \in Names /\ ~InCollection(body) => height[body.base] < height[n]

OneOptional(t) ==
  \A i \in 1 .. Len(t.wraps) - 1 :
    ~(t.wraps[i] = "optional" /\ t.wraps[i + 1] = "optional")

WellFormed(input) ==
  /\ input.types \in [Names -> Definition]
  /\ input.errors \in [Errors -> Seq(Type)]
  /\ \A n \in Names : input.types[n].form = "alias" => Len(input.types[n].parts) = 1
  /\ \A n \in Names : \A i \in DOMAIN input.types[n].parts : OneOptional(input.types[n].parts[i])
  /\ \A e \in Errors : \A i \in DOMAIN input.errors[e] : OneOptional(input.errors[e][i])
  /\ \E height \in [Names -> 0 .. Cardinality(Names)] : AliasHeight(input.types, height)

ASSUME NamesAssumption ==
  /\ IsFiniteSet(Names)
  /\ (Names \cup Errors) \cap (Prims \cup Wrappers \cup Forms) = {}
  /\ Names \cap Errors = {}

ASSUME InputsAssumption == \A input \in Inputs : WellFormed(input)

----------------------------------------------------------------------------
(***************************************************************************)
(* The predicates of context.rs on types.  Each is a pair of functions: on *)
(* a type expression it passes through some wrappers and answers at the    *)
(* first other one, at a primitive, or at a name; on a name it answers by  *)
(* the form of the definition, and for an alias asks about its body.  A    *)
(* question lists the wrappers passed through and what is answered yes.    *)
(***************************************************************************)
\* Mutants: needs_box takes an optional for a collection; a map is required;
\* a list of Copy items is taken to be Copy.
NeedsBoxMutantOptional == [through |-> {}, yes |-> {"object", "union"}]
IsRequiredMutantMap == [through |-> {}, yes |-> Prims \cup {"map", "enum", "object", "union"}]
IsCopyMutantList == [through |-> {"optional", "list"}, yes |-> {"double", "integer"}]

NeedsBox == [through |-> {"optional"}, yes |-> {"object", "union"}]
IsRequired == [through |-> {}, yes |-> Prims \cup {"enum", "object", "union"}]
IsEmptyMethod == [through |-> {}, yes |-> Wrappers]
IsDefault == [through |-> {}, yes |-> Wrappers \cup {"double", "integer", "string"}]
IsCopy == [through |-> {"optional"}, yes |-> {"double", "integer"}]

\* The answer for a type expression, given the names answered yes.
AskType(question, named, t) ==
  LET stops == {i \in DOMAIN t.wraps : t.wraps[i] \notin question.through}
  IN IF stops = {}
       THEN t.base \in question.yes \cup named
       ELSE \E i \in stops : (\A j \in stops : i <= j) /\ t.wraps[i] \in question.yes

AskName(question, named, n) ==
  IF types[n].form = "alias" THEN AskType(question, named, Body(types[n]))
                             ELSE types[n].form \in question.yes

\* The names answered yes: the recursion through aliases, as the least set
\* that is closed under it.
Named(question) ==
  {n \in Names :
     \A named \in SUBSET Names :
       (\A m \in Names : AskName(question, named, m) => m \in named) => n \in named}

Ask(question, t) == AskType(question, Named(question), t)

----------------------------------------------------------------------------
(* What is generated for a field.  A Rust type is a nest of wrappers too.  *)

Rust == [wraps : Seq(Wrappers \cup {"box"}), base : Prims \cup Names]

Boxed(t) == [t EXCEPT !.wraps = Append(@, "box")]

\* needs_box in ref_boxed_rust_type; `this` is the definition the field is in.
RefBoxed(this, n) ==
  CASE types[n].form = "alias" -> Ask(NeedsBox, Body(types[n]))
    [] types[n].form = "enum" -> FALSE
    [] types[n].form = "object" -> types[this].form # "union"
    [] types[n].form = "union" -> TRUE

\* boxed_rust_type: through optionals to a name; anything else is rust_type.
Slot(this, t) ==
  IF t.base \in Names /\ ~InCollection(t) /\ RefBoxed(this, t.base) THEN Boxed(t) ELSE t

\* ref_boxed_rust_type looks the type the field is in up in Context.types.
LooksUpThis(t) ==
  t.base \in Names /\ ~InCollection(t) /\ types[t.base].form = "object"

IsOptional(t) == t.wraps # <<>> /\ t.wraps[1] = "optional"
Item(t) == [t EXCEPT !.wraps = Tail(@)]
OptionOf(t) == [t EXCEPT !.wraps = <<"optional">> \o @]

\* Mutant: the item of an optional is stored as it is passed.
SetterMutantUnboxed(t) ==
  IF t.wraps = <<>> /\ t.base \in Names /\ Ask(NeedsBox, t) THEN Boxed(t) ELSE t

\* setter_bounds: the type of the expression a setter assigns.  A reference is
\* boxed, the item of an optional is boxed as a whole.
Setter(t) ==
  IF IsOptional(t)
    THEN IF Ask(NeedsBox, Item(t))
           THEN [wraps |-> <<"optional", "box">> \o Item(t).wraps, base |-> t.base]
           ELSE t
    ELSE IF t.wraps = <<>> /\ t.base \in Names /\ Ask(NeedsBox, t) THEN Boxed(t) ELSE t

\* generate_constructor: an optional field is passed as its item.
Constructed(t) == IF IsOptional(t) THEN OptionOf(Setter(Item(t))) ELSE Setter(t)

\* Mutant: the accessor of an alias is written for a boxed one.
ExpressionMutantAlias(t) ==
  IF InCollection(t) THEN "ref"
  ELSE IF t.base \in Prims THEN IF Ask(IsCopy, t) THEN "copy" ELSE "ref"
  ELSE LET form == types[t.base].form
       IN CASE form = "alias" ->
                 IF Ask(IsCopy, Body(types[t.base])) THEN "copy" ELSE "ref"
            [] form = "enum" -> "ref"
            [] form \in {"object", "union"} -> "deref"

\* borrow_rust_type: how the accessor's expression gets at the innermost value
\* behind its optionals.
Expression(t) ==
  IF InCollection(t) THEN "ref"
  ELSE IF t.base \in Prims THEN IF Ask(IsCopy, t) THEN "copy" ELSE "ref"
  ELSE LET form == types[t.base].form
       IN CASE form = "alias" /\ Ask(NeedsBox, Body(types[t.base])) -> "deref"
            [] form = "alias" /\ ~Ask(NeedsBox, Body(types[t.base])) ->
                 IF Ask(IsCopy, Body(types[t.base])) THEN "copy" ELSE "ref"
            [] form = "enum" -> "ref"
            [] form \in {"object", "union"} -> "deref"

\* Mutant: the type is written like the expression.
ReturnsMutantDeref(t) == Expression(t)

\* borrowed_rust_type: what the accessor is declared to return there.
Returns(t) ==
  IF InCollection(t) THEN "ref"
  ELSE IF t.base \in Prims THEN IF Ask(IsCopy, t) THEN "copy" ELSE "ref"
  ELSE IF types[t.base].form = "alias" /\ Ask(IsCopy, Body(types[t.base])) THEN "copy" ELSE "ref"

Member(t) ==
  [type |-> t,
   setter |-> Setter(t),
   constructed |-> Constructed(t),
   expression |-> Expression(t),
   returns |-> Returns(t),
   skipped |-> Ask(IsEmptyMethod, t),
   missing |-> IF Ask(IsRequired, t) THEN "error" ELSE "default"]

Emission == [copy : BOOLEAN, default : BOOLEAN, slots : Seq(Rust), members : Seq(
  [type : Type, setter : Rust, constructed : Rust, expression : {"copy", "ref", "deref"},
   returns : {"copy", "ref"}, skipped : BOOLEAN, missing : {"error", "default"}])]

Slots(this, parts) == [i \in DOMAIN parts |-> Slot(this, parts[i])]

\* aliases.rs: rust_type of the body, never boxed.
AliasEmission(n) ==
  [copy |-> Ask(IsCopy, Body(types[n])), default |-> Ask(IsDefault, Body(types[n])),
   slots |-> <<Body(types[n])>>, members |-> <<>>]

\* enums.rs: an enum holds no other type.
EnumEmission == [copy |-> FALSE, default |-> FALSE, slots |-> <<>>, members |-> <<>>]

\* unions.rs
UnionEmission(n) ==
  [copy |-> FALSE, default |-> FALSE, slots |-> Slots(n, types[n].parts), members |-> <<>>]

\* objects/, also for the arguments of an error.
ObjectEmission(this, parts) ==
  [copy |-> \A i \in DOMAIN parts : Ask(IsCopy, parts[i]), default |-> FALSE,
   slots |-> Slots(this, parts), members |-> [i \in DOMAIN parts |-> Member(parts[i])]]

----------------------------------------------------------------------------
Init ==
  /\ \E input \in Inputs : types = input.types /\ errors = input.errors
  /\ emitted = <<>>
  /\ panicked = FALSE

Emitted(n) == n \in DOMAIN emitted

Emit(n, emission) ==
  /\ ~panicked
  /\ ~Emitted(n)
  /\ emitted' = [m \in DOMAIN emitted \cup {n} |-> IF m = n THEN emission ELSE emitted[m]]
  /\ UNCHANGED <<types, errors, panicked>>

GenerateAlias(n) == types[n].form = "alias" /\ Emit(n, AliasEmission(n))
GenerateEnum(n) == types[n].form = "enum" /\ Emit(n, EnumEmission)
GenerateUnion(n) == types[n].form = "union" /\ Emit(n, UnionEmission(n))
GenerateObject(n) == types[n].form = "object" /\ Emit(n, ObjectEmission(n, types[n].parts))

\* errors.rs makes an object named like the error out of its arguments.  The
\* name is not in Context.types, and looking it up panics.
TypesDone == Names \subseteq DOMAIN emitted

GenerateError(e) ==
  /\ TypesDone
  /\ \A i \in DOMAIN errors[e] : ~LooksUpThis(errors[e][i])
  /\ Emit(e, ObjectEmission(e, errors[e]))

GenerateErrorPanics(e) ==
  /\ TypesDone
  /\ ~panicked
  /\ ~Emitted(e)
  /\ \E i \in DOMAIN errors[e] : LooksUpThis(errors[e][i])
  /\ panicked' = TRUE
  /\ UNCHANGED <<types, errors, emitted>>

Next ==
  \/ \E n \in Names : GenerateAlias(n) \/ GenerateEnum(n) \/ GenerateUnion(n) \/ GenerateObject(n)
  \/ \E e \in Errors : GenerateError(e) \/ GenerateErrorPanics(e)

Spec == Init /\ [][Next]_vars

----------------------------------------------------------------------------
TypeOK ==
  /\ types \in [Names -> Definition]
  /\ errors \in [Errors -> Seq(Type)]
  /\ DOMAIN emitted \subseteq Names \cup Errors
  /\ \A n \in DOMAIN emitted : emitted[n] \in Emission
  /\ panicked \in BOOLEAN

\* The generated types a generated type holds by value.
HeldBy(n) ==
  IF ~Emitted(n) THEN {}
  ELSE {m \in Names : \E i \in DOMAIN emitted[n].slots :
          LET slot == emitted[n].slots[i]
          IN slot.base = m /\ \A j \in DOMAIN slot.wraps : slot.wraps[j] = "optional"}

(***************************************************************************)
(* Every generated type has a finite size: whatever cycles the IR has, no  *)
(* set of generated types is such that each holds another of the set by    *)
(* value (rustc rejects those: recursive type has infinite size).          *)
(***************************************************************************)
FiniteSize ==
  \A loop \in SUBSET Names : loop # {} => \E n \in loop : HeldBy(n) \cap loop = {}

(***************************************************************************)
(* The setters and the constructor assign to a field what its declaration  *)
(* says it is: setter_bounds and boxed_rust_type put the Box in the same   *)
(* place.                                                                  *)
(***************************************************************************)
SettersFit ==
  \A n \in DOMAIN emitted : \A i \in DOMAIN emitted[n].members :
    LET member == emitted[n].members[i]
    IN /\ member.setter = emitted[n].slots[i]
       /\ member.constructed = emitted[n].slots[i]

(***************************************************************************)
(* An accessor returns what it is declared to return: it copies out only   *)
(* what is Copy, and dereferences a named type exactly when it is boxed.   *)
(***************************************************************************)
AccessorsFit ==
  \A n \in DOMAIN emitted : \A i \in DOMAIN emitted[n].members :
    LET member == emitted[n].members[i]
        slot == emitted[n].slots[i]
    IN /\ member.expression = "copy" <=> member.returns = "copy"
       /\ member.expression = "deref" <=> slot # member.type
       /\ member.returns = "copy" /\ slot.base \in DOMAIN emitted => emitted[slot.base].copy

(***************************************************************************)
(* A field the serializer may skip is one the deserializer fills in when   *)
(* it is missing, and the type it fills in has a default.                  *)
(***************************************************************************)
SkippedIsDefaulted ==
  \A n \in DOMAIN emitted : \A i \in DOMAIN emitted[n].members :
    LET member == emitted[n].members[i]
        slot == emitted[n].slots[i]
    IN /\ member.skipped <=> member.missing = "default"
       /\ /\ member.missing = "default"
             /\ slot.wraps \in {<<>>, <<"box">>}
             /\ slot.base \in DOMAIN emitted
          => emitted[slot.base].default

(***************************************************************************)
(* A type that derives Copy holds only what is Copy itself.                *)
(***************************************************************************)
CopyIsDeep ==
  \A n \in DOMAIN emitted : emitted[n].copy =>
    \A i \in DOMAIN emitted[n].slots :
      LET slot == emitted[n].slots[i]
      IN /\ \A j \in DOMAIN slot.wraps : slot.wraps[j] = "optional"
         /\ slot.base \in Prims => slot.base \in {"double", "integer"}
         /\ slot.base \in DOMAIN emitted => emitted[slot.base].copy

(***************************************************************************)
(* lib.rs: "All generated types implement Ord, Eq, and Hash" by wrapping   *)
(* doubles.  A generated type whose field holds an f64 derives them only   *)
(* when is_double selects the field; under a set an f64 is a DoubleKey.    *)
(* Violated by the values of a map.                                        *)
(***************************************************************************)
HoldsFloat(t) ==
  /\ t.base = "double"
  /\ \A i \in DOMAIN t.wraps :
       t.wraps[i] = "set" => \E j \in DOMAIN t.wraps : j > i /\ t.wraps[j] = "map"

IsDouble(t) ==
  t.base = "double" /\ \A i \in DOMAIN t.wraps : t.wraps[i] \in {"optional", "list"}

ComparisonsCompile ==
  \A n \in DOMAIN emitted : \A i \in DOMAIN emitted[n].slots :
    HoldsFloat(emitted[n].slots[i]) => IsDouble(emitted[n].slots[i])

(***************************************************************************)
(* lib.rs says that an error's type stores its parameters "as if it were a *)
(* Conjure object".  Violated: an argument that is an object kills the     *)
(* generator.                                                              *)
(***************************************************************************)
ErrorsAreObjects == ~panicked
=============================================================================
