----------------------------- MODULE CheckedIn -----------------------------
(***************************************************************************)
(* Generated Rust that is checked in (conjure-codegen's types/, made from  *)
(* the IR of the IR itself, and conjure-error's types/), as facts about    *)
(* each file, and what TypeLayout says that the same definition is         *)
(* generated as.  Fields are named as in the JSON.                         *)
(***************************************************************************)
EXTENDS Naturals, Sequences, FiniteSets

\* A field and its Rust type.  An i32, bool or Uuid is an "integer" here: a
\* primitive that is Copy.
Field(name, wraps, base) == [name |-> name, type |-> [wraps |-> wraps, base |-> base]]

\* The struct: its fields, the fields whose accessor dereferences a Box, those
\* whose accessor copies, the constructor, and whether Copy is derived.
Struct(fields, dereferenced, copied, constructor, derives) ==
  [form |-> "object", fields |-> fields, dereferenced |-> dereferenced,
   copied |-> copied, constructor |-> constructor, derives |-> derives]

\* The constructor boxes some of its arguments; there is none for many fields.
Constructor(boxing) == [exists |-> TRUE, boxing |-> boxing]
NoConstructor == [exists |-> FALSE, boxing |-> {}]

\* The builder: the fields that build() expects, those that a setter boxes, and
\* the method that adds one item to a collection.
Builder(expected, boxing, adds) == [expected |-> expected, boxing |-> boxing, adds |-> adds]

\* Serialize and Deserialize: the fields that are left out when they are empty,
\* and those whose absence is an error.
Json(skipped, required) == [skipped |-> skipped, required |-> required]

Union(fields) == [form |-> "union", fields |-> fields, derives |-> {}]
Tagged(names) == names
Enum(values) == [form |-> "enum", fields |-> <<>>, values |-> values, derives |-> {}]
Alias(wraps, base, derives) ==
  [form |-> "alias", fields |-> <<Field("0", wraps, base)>>, derives |-> derives]

NamesOf(file) == {file.fields[i].name : i \in DOMAIN file.fields}

----------------------------------------------------------------------------
(***************************************************************************)
(* A file's definition in the IR: its fields without the boxes.  Its layout *)
(* depends on the definitions it refers to by name, and no others.         *)
(***************************************************************************)
Layout(names, types) == INSTANCE TypeLayout WITH
  Names <- names, Errors <- {}, Inputs <- {}, types <- types, errors <- <<>>,
  emitted <- <<>>, panicked <- FALSE

Parts(file) ==
  [i \in DOMAIN file.fields |->
     [file.fields[i].type EXCEPT !.wraps = SelectSeq(@, LAMBDA w : w # "box")]]

InIr(files) == [T \in DOMAIN files |-> [form |-> files[T].form, parts |-> Parts(files[T])]]

Referred(files, T) ==
  {T} \cup {n \in DOMAIN files : \E i \in DOMAIN files[T].fields : files[T].fields[i].type.base = n}

\* What an object is made of: its fields' types, and those of unions among them.
MadeOf(files, T) == UNION {Referred(files, n) : n \in Referred(files, T)}

Generated(files, T) ==
  LET names == Referred(files, T)
      types == [n \in names |-> InIr(files)[n]]
  IN CASE types[T].form = "alias" -> Layout(names, types)!AliasEmission(T)
       [] types[T].form = "enum" -> Layout(names, types)!EnumEmission
       [] types[T].form = "union" -> Layout(names, types)!UnionEmission(T)
       [] types[T].form = "object" -> Layout(names, types)!ObjectEmission(T, types[T].parts)

Boxes(rust) == \E i \in DOMAIN rust.wraps : rust.wraps[i] = "box"

\* push, insert: collection_push and single_setter of builder/mod.rs.
Adds(t) ==
  CASE t.wraps = <<>> \/ t.wraps[1] = "optional" -> {}
    [] OTHER -> IF t.wraps[1] = "list" THEN {"push"} ELSE {"insert"}

LayoutFits(files, T) ==
  LET emission == Generated(files, T)
  IN /\ emission.slots = [i \in DOMAIN files[T].fields |-> files[T].fields[i].type]
     /\ files[T].derives = {d \in {"copy", "default"} : emission[d]}

MembersFit(files, builders, jsons, T) ==
  LET file == files[T]
      members == Generated(files, T).members
      Where(P(_)) == {file.fields[i].name : i \in {j \in DOMAIN members : P(members[j])}}
  IN /\ file.dereferenced = Where(LAMBDA m : m.expression = "deref")
     /\ file.copied = Where(LAMBDA m : m.expression = "copy")
     /\ file.constructor = IF Len(file.fields) <= 3
                             THEN Constructor(Where(LAMBDA m : Boxes(m.constructed))) ELSE NoConstructor
     /\ builders[T].boxing = Where(LAMBDA m : Boxes(m.setter))
     /\ builders[T].expected = Where(LAMBDA m : m.missing = "error")
     /\ builders[T].adds =
          UNION {{<<file.fields[i].name, add>> : add \in Adds(members[i].type)} : i \in DOMAIN members}
     /\ jsons[T].skipped = Where(LAMBDA m : m.skipped)
     /\ jsons[T].required = Where(LAMBDA m : m.missing = "error")
=============================================================================
