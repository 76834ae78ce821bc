---------------------------- MODULE Deserialize ----------------------------
(* The deserializers that conjure-codegen generates for objects              *)
(* (objects/deserialize.rs) and unions (unions.rs), run over the client's    *)
(* and the server's deserializers of conjure-serde.  Both are visitors that  *)
(* ask a MapAccess for one key and one value at a time, nested visitors      *)
(* inside them; the server's MapAccess (de/unknown_fields_behavior.rs)       *)
(* remembers the key of the entry at hand and refuses to skip its value.     *)
(*                                                                           *)
(* One document is read twice, by the server's deserializer and then by the  *)
(* client's, so that the two can be compared.                                *)
EXTENDS Naturals, Sequences, FiniteSets, SequencesExt

CONSTANTS
    Types,      \* name -> an object or a union, its members in order
    Roots,      \* the types that documents are read as
    Leaves,     \* the texts that are a leaf value
    Documents,  \* the documents of other writers
    Anything,   \* the JSON that unknown variants hold
    Values,     \* type -> the values of it that are written and read back
    Height      \* value -> a height: values are finite

(* Members have types of the IR file, leaves or `any`.                       *)
ASSUME TypesAssumption ==
    /\ Roots \subseteq DOMAIN Types
    /\ {"leaf", "any"} \cap DOMAIN Types = {}
    /\ \A T \in DOMAIN Types :
          /\ Types[T].kind \in {"object", "union"}
          /\ Types[T].members \in Seq(ToSet(Types[T].members))
          /\ \A m \in ToSet(Types[T].members) :
                /\ m.type \in DOMAIN Types \cup {"leaf", "any"}
                /\ m.shape \in {"required", "optional", "collection"}

(* A member of an object: "required", "optional" or "collection" (absent like*)
(* an optional, but not null); or a variant of a union, which is "required". *)
(* Its type is a name, "leaf", or, for an unknown variant's value, "any".    *)
Member(name, type, shape) == [name |-> name, type |-> type, shape |-> shape]

Names(T) == {m.name : m \in ToSet(Types[T].members)}
MemberOf(T, name) == CHOOSE m \in ToSet(Types[T].members) : m.name = name
Unknown(name) == Member(name, "any", "required")
Variant(T, name) == IF name \in Names(T) THEN MemberOf(T, name) ELSE Unknown(name)

(* JSON: a text, or an object of entries.                                    *)
Text(t) == [text |-> t]
Map(entries) == [entries |-> entries]
Entry(key, value) == [key |-> key, value |-> value]
Null == Text("null")
IsMap(doc) == "entries" \in DOMAIN doc

(* Rust values.  A field that is absent has its type's default.              *)
Default == [default |-> TRUE]
Leaf(t) == [leaf |-> t]
AnyValue(doc) == [any |-> doc]
Object(T, fields) == [type |-> T, fields |-> fields]
Union(T, name, value) == [type |-> T, variant |-> name, value |-> value]

-----------------------------------------------------------------------------
(* The values that are written.  A field or the value of a variant is lower  *)
(* than what it is in.  The text null stands for the null of JSON, and no    *)
(* variant is called type.                                                   *)

AnyValues == {AnyValue(json) : json \in Anything}
ValuesOf(type) ==
    CASE type = "leaf" -> {Leaf(t) : t \in Leaves}
      [] type = "any" -> AnyValues
      [] type \notin {"leaf", "any"} -> IF type \in DOMAIN Values THEN Values[type] ELSE {}

AllValues ==
    (UNION {Values[T] : T \in DOMAIN Values}) \cup {Leaf(t) : t \in Leaves} \cup AnyValues

IsObject(T, v) ==
    /\ v = Object(T, v.fields)
    /\ v.fields = [name \in Names(T) |-> v.fields[name]]
    /\ \A m \in ToSet(Types[T].members) :
          \/ v.fields[m.name] \in ValuesOf(m.type) /\ Height[v.fields[m.name]] < Height[v]
          \/ v.fields[m.name] = Default /\ m.shape # "required"

IsUnion(T, v) ==
    /\ v = Union(T, v.variant, v.value)
    /\ v.variant \notin {"type", "null"}
    /\ v.value \in ValuesOf(Variant(T, v.variant).type) /\ Height[v.value] < Height[v]

ASSUME ValuesAssumption ==
    /\ Roots \subseteq DOMAIN Values /\ DOMAIN Values \subseteq DOMAIN Types
    /\ "null" \notin Leaves
    /\ Height \in [AllValues -> Nat]
    /\ \A T \in DOMAIN Values : \A v \in Values[T] :
          IF Types[T].kind = "object" THEN IsObject(T, v) ELSE IsUnion(T, v)

-----------------------------------------------------------------------------
(* Serialization (objects/serialize.rs, unions.rs): empty fields are left    *)
(* out, a union is its type's name and then its value under that name.       *)

(* The members of an object's type whose fields are written, in their order. *)
Present(v) ==
    {i \in DOMAIN Types[v.type].members : v.fields[Types[v.type].members[i].name] # Default}

(* The n-th of a set of positions.                                           *)
Nth(S, n) == CHOOSE i \in S : Cardinality({j \in S : j <= i}) = n

Written[v \in AllValues] ==
    CASE "leaf" \in DOMAIN v -> Text(v.leaf)
      [] "any" \in DOMAIN v -> v.any
      [] "variant" \in DOMAIN v ->
           Map(<<Entry("type", Text(v.variant)), Entry(v.variant, Written[v.value])>>)
      [] "fields" \in DOMAIN v ->
           Map([n \in 1 .. Cardinality(Present(v)) |->
                  LET name == Types[v.type].members[Nth(Present(v), n)].name
                  IN Entry(name, Written[v.fields[name]])])

(* The outermost map of it may arrive with its entries in any order.         *)
Arrangements(v) ==
    LET entries == Written[v].entries
    IN {Map([n \in DOMAIN entries |-> entries[order[n]]]) :
           order \in Bijection(DOMAIN entries, DOMAIN entries)}

-----------------------------------------------------------------------------

VARIABLES
    doc,         \* the document
    root,        \* the type it is read as
    origin,      \* the value it was written from, Default if somebody else wrote it
    exhaustive,  \* whether the unions were generated with the exhaustive option
    mode,        \* which deserializer is reading
    stack,       \* the visitors that are running, innermost last
    outcome      \* what each deserializer returned

input == <<doc, root, origin, exhaustive>>
vars == <<doc, root, origin, exhaustive, mode, stack, outcome>>

Pending  == [tag |-> "pending"]
Ok(v)    == [tag |-> "ok", value |-> v]
Refused  == [tag |-> "error"]
UnknownField(key) == [tag |-> "unknown field", key |-> key]

(* A visitor over the entries `rest` of a map.  `at` is the question it asks *)
(* next, `key` the last key it read; `fields` is what an object has so far;  *)
(* `tagged` says that a union's type came first.                             *)
Visitor(T, map) ==
    [type |-> T, rest |-> map.entries, key |-> "none", fields |-> <<>>,
     at |-> IF Types[T].kind = "object" THEN "key" ELSE "first",
     tagged |-> FALSE, value |-> Default]

Init ==
    /\ root \in Roots
    /\ exhaustive \in BOOLEAN
    /\ \/ /\ origin = Default
          /\ doc \in Documents
       \/ /\ origin \in Values[root]
          /\ doc \in Arrangements(origin)
    /\ mode = "server"
    /\ stack = <<Visitor(root, doc)>>
    /\ outcome = [m \in {"server", "client"} |-> Pending]

Top == stack[Len(stack)]
Entries == Top.rest
At(T) == outcome[mode] = Pending /\ Types[Top.type].kind = T

Return(result) ==
    /\ outcome' = [outcome EXCEPT ![mode] = result]
    /\ UNCHANGED <<doc, root, origin, exhaustive, mode, stack>>

Replace(frame) ==
    /\ stack' = [stack EXCEPT ![Len(stack)] = frame]
    /\ UNCHANGED <<doc, root, origin, exhaustive, mode, outcome>>

(* The value of the entry at hand has been read as v.                        *)
Took(frame, v) ==
    IF Types[frame.type].kind = "object"
    THEN [frame EXCEPT !.rest = Tail(@), !.at = "key",
                       !.fields = [n \in DOMAIN @ \cup {frame.key} |->
                                      IF n = frame.key THEN v ELSE @[n]]]
    ELSE [frame EXCEPT !.rest = Tail(@), !.value = v,
                       !.at = IF frame.tagged THEN "end" ELSE "type"]

(* next_value: at once for a text, with a visitor of its own for a map.      *)
ReadValue(member) ==
    LET json == Head(Entries).value
    IN CASE member.type = "any" -> Replace(Took(Top, AnyValue(json)))
         [] member.type # "any" /\ json = Null ->
              IF member.shape = "optional" THEN Replace(Took(Top, Default))
              ELSE Return(Refused)
         [] member.type = "leaf" /\ json # Null ->
              IF ~IsMap(json) /\ json.text \in Leaves
              THEN Replace(Took(Top, Leaf(json.text)))
              ELSE Return(Refused)
         [] member.type \in DOMAIN Types /\ json # Null ->
              IF IsMap(json)
              THEN /\ stack' = Append(stack, Visitor(member.type, json))
                   /\ UNCHANGED <<doc, root, origin, exhaustive, mode, outcome>>
              ELSE Return(Refused)

(* The innermost visitor returns v to the one that called it, or to the      *)
(* caller of the deserializer.                                               *)
Deliver(v) ==
    IF Len(stack) = 1 THEN Return(Ok(v))
    ELSE /\ stack' = [Front(stack) EXCEPT ![Len(stack) - 1] = Took(@, v)]
         /\ UNCHANGED <<doc, root, origin, exhaustive, mode, outcome>>

-----------------------------------------------------------------------------
(* Objects.                                                                  *)

(* Mutant: the key is remembered once and not reset.                         *)
NextKeyMutantStale ==
    /\ At("object") /\ Top.at = "key" /\ Entries # <<>>
    /\ Replace([Top EXCEPT !.key = IF @ = "none" THEN Head(Entries).key ELSE @,
                            !.at = "value"])

NextKey ==
    /\ At("object") /\ Top.at = "key" /\ Entries # <<>>
    /\ Replace([Top EXCEPT !.key = Head(Entries).key, !.at = "value"])

ReadField ==
    /\ At("object") /\ Top.at = "value" /\ Top.key \in Names(Top.type)
    /\ ReadValue(MemberOf(Top.type, Top.key))

(* Mutant: the error names the key that the outermost object is at.          *)
IgnoreUnknownMutantKey ==
    /\ At("object") /\ Top.at = "value" /\ Top.key \notin Names(Top.type)
    /\ IF mode = "server"
       THEN Return(UnknownField(stack[1].key))
       ELSE Replace([Top EXCEPT !.rest = Tail(@), !.at = "key"])

(* Field_::Unknown_: the value is skipped as IgnoredAny, which the server's  *)
(* StructMapAccess turns into an error under the key it remembers.           *)
IgnoreUnknown ==
    /\ At("object") /\ Top.at = "value" /\ Top.key \notin Names(Top.type)
    /\ IF mode = "server"
       THEN Return(UnknownField(Top.key))
       ELSE Replace([Top EXCEPT !.rest = Tail(@), !.at = "key"])

(* Mutant: every field must be in the document.                              *)
MissingMutantOptional(frame) ==
    {m \in ToSet(Types[frame.type].members) : m.name \notin DOMAIN frame.fields}

(* The fields that must be in the document.                                  *)
Missing(frame) ==
    {m \in ToSet(Types[frame.type].members) :
        m.shape = "required" /\ m.name \notin DOMAIN frame.fields}

FinishObject ==
    /\ At("object") /\ Top.at = "key" /\ Entries = <<>>
    /\ IF Missing(Top) # {}
       THEN Return(Refused)
       ELSE Deliver(Object(Top.type, [n \in Names(Top.type) |->
                IF n \in DOMAIN Top.fields THEN Top.fields[n] ELSE Default]))

-----------------------------------------------------------------------------
(* Unions.                                                                   *)

(* Mutant: the server also refuses the variants it does not know.            *)
IsVariantMutantServer(T, name) == exhaustive \/ mode = "server" => name \in Names(T)

(* Variant_: any name, unless the unions are exhaustive.                     *)
IsVariant(T, name) == exhaustive => name \in Names(T)

(* Type or value first: UnionField_<Variant_>.                               *)
FirstKey ==
    /\ At("union") /\ Top.at = "first"
    /\ IF Entries = <<>> THEN Return(Refused)
       ELSE IF Head(Entries).key = "type" THEN Replace([Top EXCEPT !.at = "tag"])
       ELSE IF ~IsVariant(Top.type, Head(Entries).key) THEN Return(Refused)
       ELSE Replace([Top EXCEPT !.key = Head(Entries).key, !.at = "value"])

(* A Variant_ read as a value: the type's name.                              *)
IsTag(json) == ~IsMap(json) /\ json # Null /\ IsVariant(Top.type, json.text)

ReadTag ==
    /\ At("union") /\ Top.at = "tag"
    /\ IF IsTag(Head(Entries).value)
       THEN Replace([Top EXCEPT !.key = Head(Entries).value.text, !.at = "second",
                                !.rest = Tail(@), !.tagged = TRUE])
       ELSE Return(Refused)

SecondKey ==
    /\ At("union") /\ Top.at = "second"
    /\ IF Entries = <<>> THEN Return(Refused)
       ELSE IF Head(Entries).key # Top.key THEN Return(Refused)
       ELSE Replace([Top EXCEPT !.at = "value"])

ReadVariant ==
    /\ At("union") /\ Top.at = "value"
    /\ ReadValue(Variant(Top.type, Top.key))

(* Value first: UnionTypeField_ must follow.                                 *)
TypeKey ==
    /\ At("union") /\ Top.at = "type"
    /\ IF Entries = <<>> THEN Return(Refused)
       ELSE IF Head(Entries).key # "type" THEN Return(Refused)
       ELSE Replace([Top EXCEPT !.at = "check"])

(* Mutant: a type that comes last is read and not compared.                 *)
CheckTagMutantSkip ==
    /\ At("union") /\ Top.at = "check"
    /\ IF IsTag(Head(Entries).value)
       THEN Replace([Top EXCEPT !.rest = Tail(@), !.at = "end"])
       ELSE Return(Refused)

CheckTag ==
    /\ At("union") /\ Top.at = "check"
    /\ IF ~IsTag(Head(Entries).value) THEN Return(Refused)
       ELSE IF Head(Entries).value.text # Top.key THEN Return(Refused)
       ELSE Replace([Top EXCEPT !.rest = Tail(@), !.at = "end"])

FinishUnion ==
    /\ At("union") /\ Top.at = "end"
    /\ IF Entries # <<>> THEN Return(Refused)
       ELSE Deliver(Union(Top.type, Top.key, Top.value))

-----------------------------------------------------------------------------

(* The same document again, for the client.                                  *)
ReadAgain ==
    /\ mode = "server" /\ outcome["server"] # Pending
    /\ mode' = "client"
    /\ stack' = <<Visitor(root, doc)>>
    /\ UNCHANGED <<doc, root, origin, exhaustive, outcome>>

Next ==
    \/ NextKey \/ ReadField \/ IgnoreUnknown \/ FinishObject
    \/ FirstKey \/ ReadTag \/ SecondKey \/ ReadVariant \/ TypeKey \/ CheckTag \/ FinishUnion
    \/ ReadAgain

Spec == Init /\ [][Next]_vars

-----------------------------------------------------------------------------

(* A value is only asked for after a key, where there is an entry; every     *)
(* visitor but the innermost waits for the value of the entry at hand, holds *)
(* only fields of its own type, and a deserializer that is not reading yet   *)
(* has returned nothing.                                                     *)
TypeOK ==
    /\ mode \in {"server", "client"}
    /\ mode = "server" => outcome["client"] = Pending
    /\ mode = "client" => outcome["server"] # Pending
    /\ stack # <<>>
    /\ \A d \in DOMAIN stack :
         LET frame == stack[d]
         IN /\ DOMAIN frame.fields \subseteq Names(frame.type)
            /\ frame.at \in {"value", "tag", "check"} => frame.rest # <<>>
            /\ frame.at = "value" => Head(frame.rest).key = frame.key
            /\ d < Len(stack) => /\ frame.at = "value" /\ IsMap(Head(frame.rest).value)
                                 /\ stack[d + 1].type = Variant(frame.type, frame.key).type

(* Whether the generated code knows every variant in a value.                *)
Known[v \in AllValues] ==
    CASE "variant" \in DOMAIN v -> v.variant \in Names(v.type) /\ Known[v.value]
      [] "fields" \in DOMAIN v ->
           \A n \in DOMAIN v.fields : v.fields[n] = Default \/ Known[v.fields[n]]
      [] OTHER -> TRUE

(* What serialization writes, both deserializers read back as the value it   *)
(* was written from, the entries of the outermost map arriving in any order: *)
(* no field that is left out was required, and a union's value may come      *)
(* before its type.  An exhaustive union refuses a variant that only the     *)
(* writer knew, and nothing else.                                            *)
RoundTrip ==
    origin # Default =>
        \A m \in DOMAIN outcome :
            outcome[m] \in {Pending, IF exhaustive /\ ~Known[origin] THEN Refused ELSE Ok(origin)}

(* The two deserializers return the same, value or error, unless the server  *)
(* has met a field it does not know: the client is lenient in nothing else,  *)
(* at whatever depth of objects and unions.                                  *)
ModesAgree ==
    outcome["client"] # Pending =>
        \/ outcome["server"] = outcome["client"]
        \/ outcome["server"].tag = "unknown field"

(* The key that the server reports is that of the entry whose value it       *)
(* refused to skip, in the innermost object, and no field of it: the key     *)
(* remembered is never that of an entry before or of an object around it.    *)
UnknownFieldIsThere ==
    outcome[mode].tag = "unknown field" =>
        /\ outcome[mode].key = Head(Entries).key
        /\ outcome[mode].key \notin Names(Top.type)
=============================================================================
