---------------------------- MODULE Conversions ----------------------------
(* The conversions of a value between Rust, JSON, Smile and Any              *)
(* (conjure-serde and conjure-object's any).  A value of a generated type    *)
(* may be written as JSON, kept by a program that knows it only as an `any`, *)
(* written again by that program, and read as its type at last.  No step     *)
(* but the last knows the type; every step must leave enough to tell.        *)
(*                                                                           *)
(* serde puts one vocabulary between types and formats: a type calls         *)
(* serialize_f64, serialize_bytes, ... of a serializer, and a deserializer   *)
(* calls visit_f64, visit_bytes, ... of the type's visitor.  Such a call,    *)
(* its kind and its argument, is also what an Any holds and what stands in   *)
(* a document.  JSON and Smile have numbers ("int", "f64"), Booleans and     *)
(* texts, Smile also bytes.                                                  *)
EXTENDS DoubleKey

CONSTANTS
    Values,     \* type -> its values, by their plain text; bytes by a name
    NonFinite,  \* the doubles NaN, Infinity and -Infinity
    Base64      \* bytes, and those of a uuid -> their text

Types == {"boolean", "integer", "double", "binary", "string", "uuid"}

ASSUME ValuesAssumption == DOMAIN Values = Types /\ NonFinite \subseteq Values["double"]
ASSUME DoublesAssumption == Values["double"] \subseteq Doubles
ASSUME Base64Assumption ==
    /\ DOMAIN Base64 = Values["binary"] \cup Values["uuid"]
    /\ \A b, c \in DOMAIN Base64 : Base64[b] = Base64[c] => b = c
    /\ \A b \in DOMAIN Base64 : Base64[b] \notin DOMAIN Base64

(* Where the value stands: alone, in a list, a field or an optional, or as   *)
(* the key of a map.                                                         *)
Positions == {"top", "element", "key"}

Call(kind, x) == [kind |-> kind, x |-> x]
Refusal == Call("refused", "")

VARIABLES
    original,  \* the value, its type and its position
    form,      \* what it is at the moment: "rust", "any", "json", "smile", "refused"
    item,      \* the Rust value, or the call that stands for it
    via        \* the formats it was written in since it was a Rust value

vars == <<original, form, item, via>>

-----------------------------------------------------------------------------
(* Writing                                                                   *)

(* A Uuid asks whether the format is for people.  JSON and Any are.  Smile   *)
(* is not, but the Override around a nested value does not pass its answer   *)
(* on, and gives serde's default.                                            *)
WrittenForPeople(format, at) == format # "smile" \/ at # "top"

(* What a type's Serialize calls.                                            *)
Serialized(type, v, forPeople) ==
    Call(CASE type = "boolean" -> "bool"
           [] type = "integer" -> "int"
           [] type = "double"  -> "f64"
           [] type = "binary"  -> "bytes"
           [] type = "string"  -> "str"
           [] type = "uuid"    -> IF forPeople THEN "str" ELSE "bytes",
         v)

\* Mutants: a Boolean key is left to the format; the doubles that JSON has no
\* number for are left to serde_json.
KeyTextMutantBool(call) ==
    CASE call.kind = "f64"   -> Call("str", call.x)
      [] call.kind = "bytes" -> Call("str", Base64[call.x])
      [] OTHER               -> call
JsonTextMutantDouble(call) ==
    IF call.kind = "bytes" THEN Call("str", Base64[call.x]) ELSE call

(* KeyBehavior, of JSON and Smile.                                           *)
KeyText(call) ==
    CASE call.kind \in {"bool", "f64"} -> Call("str", call.x)
      [] call.kind = "bytes"           -> Call("str", Base64[call.x])
      [] OTHER                         -> call

(* The key serializers of serde_json and serde_smile.                        *)
KeyToken(call) ==
    IF call.kind \in {"str", "int"} THEN Call("str", call.x) ELSE Refusal

(* ValueBehavior of JSON.  That of Smile changes nothing.                    *)
JsonText(call) ==
    CASE call.kind = "f64" /\ call.x \in NonFinite -> Call("str", call.x)
      [] call.kind = "bytes"                       -> Call("str", Base64[call.x])
      [] OTHER                                     -> call

Token(format, at, call) ==
    IF at = "key" THEN KeyToken(KeyText(call))
    ELSE IF format = "json" THEN JsonText(call) ELSE call

-----------------------------------------------------------------------------
(* Reading: the call of the type's visitor that a deserializer makes.        *)

(* A text read as another type: by FromStr, or as Base64.                    *)
Parsed(type, kind, text, otherwise) ==
    IF text \in Values[type] THEN Call(kind, text) ELSE otherwise
Decoded(text, otherwise) ==
    IF \E b \in Values["binary"] : Base64[b] = text
       THEN Call("bytes", CHOOSE b \in Values["binary"] : Base64[b] = text)
       ELSE otherwise

(* KeyBehavior of JSON and Smile; integers are left to serde_json's and      *)
(* serde_smile's own deserializers of keys.                                  *)
KeySeen(type, call) ==
    CASE type = "boolean" -> Parsed(type, "bool", call.x, Refusal)
      [] type = "integer" -> Parsed(type, "int", call.x, Refusal)
      [] type = "double"  -> Parsed(type, "f64", call.x, Refusal)
      [] type = "binary"  -> Decoded(call.x, Refusal)
      [] OTHER            -> call

(* A double that is a text (float_visitor; Any does the same).               *)
DoubleSeen(call) ==
    IF call.kind = "str" /\ call.x \in NonFinite THEN Call("f64", call.x) ELSE call

(* ValueBehavior of JSON.                                                    *)
JsonSeen(type, call) ==
    CASE type = "double" -> DoubleSeen(call)
      [] type = "binary" ->
             IF call.kind = "str" THEN Decoded(call.x, Refusal) ELSE Refusal
      [] OTHER -> call

(* ValueBehavior of Smile; whether serde_smile shows a text to a visitor     *)
(* that asked for bytes lies with it.                                        *)
SmileSeen(type, call) ==
    IF type = "binary" /\ call.kind = "str" THEN {call, Refusal} ELSE {call}

\* Mutant: deserialize_bytes of Any is forwarded to deserialize_any.
AnySeenMutantBytes(type, call) == IF type = "double" THEN DoubleSeen(call) ELSE call

(* Any as a deserializer of a value, and of a key.                           *)
AnySeen(type, call) ==
    CASE type = "double"                       -> DoubleSeen(call)
      [] type = "binary" /\ call.kind = "str"  -> Decoded(call.x, call)
      [] OTHER                                 -> call

AnyKeySeen(type, call) ==
    CASE type = "boolean" /\ call.kind = "str" -> Parsed(type, "bool", call.x, call)
      [] type = "integer" /\ call.kind = "str" -> Parsed(type, "int", call.x, call)
      [] type = "double" /\ call.kind = "str"  -> Parsed(type, "f64", call.x, call)
      [] OTHER                                 -> AnySeen(type, call)

(* What may be seen.                                                         *)
Seen(format, at, type, call) ==
    IF format = "any"
       THEN {IF at = "key" THEN AnyKeySeen(type, call) ELSE AnySeen(type, call)}
    ELSE IF at = "key" THEN {KeySeen(type, call)}
    ELSE IF format = "json" THEN {JsonSeen(type, call)}
    ELSE SmileSeen(type, call)

(* A Uuid asks the deserializer too, whose Override does pass the answer on; *)
(* what serde_smile answers in a key lies with it.                           *)
ReadForPeople(format, at) ==
    IF format # "smile" THEN {TRUE} ELSE IF at = "key" THEN BOOLEAN ELSE {FALSE}

(* The type's visitor.  serde_bytes takes a text for its bytes, a double an  *)
(* integer, and a uuid its text only from a format for people.               *)
Accepts(type, forPeople, call) ==
    CASE type = "boolean" -> call.kind = "bool"
      [] type = "integer" -> call.kind = "int"
      [] type = "double"  -> call.kind \in {"f64", "int"}
      [] type = "binary"  -> call.kind \in {"bytes", "str"}
      [] type = "string"  -> call.kind = "str"
      [] type = "uuid"    ->
             \/ call.kind = "bytes"
             \/ forPeople /\ call.kind = "str" /\ call.x \in Values["uuid"]

-----------------------------------------------------------------------------
Init ==
    /\ original \in {[type |-> t, value |-> v, at |-> p] :
                        t \in Types, v \in UNION {Values[u] : u \in Types}, p \in Positions}
    /\ original.value \in Values[original.type]
    /\ form = "rust"
    /\ item = original.value
    /\ via = {}

(* What was read differently is not followed any further.                    *)
AtHome == form = "rust" /\ item = original.value

(* Any::new of the value.                                                    *)
Capture ==
    /\ AtHome
    /\ form' = "any"
    /\ item' = Serialized(original.type, item, TRUE)
    /\ via' = {}
    /\ UNCHANGED original

Written(format, call) ==
    LET token == Token(format, original.at, call)
    IN /\ form' = IF token = Refusal THEN "refused" ELSE format
       /\ item' = token
       /\ UNCHANGED original

(* to_vec, to_string, to_writer of the value, and of an Any that holds it.   *)
Write(format) ==
    /\ AtHome
    /\ Written(format, Serialized(original.type, item,
                                  WrittenForPeople(format, original.at)))
    /\ via' = {format}

WriteAny(format) ==
    /\ form = "any"
    /\ Written(format, item)
    /\ via' = via \cup {format}
                  \cup IF format = "smile" /\ "json" \in via THEN {"smile after json"} ELSE {}

(* A document is read as an Any: deserialize_any and AnyVisitor.             *)
Keep ==
    /\ form \in {"json", "smile"}
    /\ form' = "any"
    /\ UNCHANGED <<original, item, via>>

(* A document, or an Any, is read as the type.                               *)
Read ==
    /\ form \in {"any", "json", "smile"}
    /\ \E seen \in Seen(form, original.at, original.type, item),
          forPeople \in ReadForPeople(form, original.at) :
          IF Accepts(original.type, forPeople, seen)
             THEN form' = "rust" /\ item' = seen.x
             ELSE form' = "refused" /\ item' = seen
    /\ UNCHANGED <<original, via>>

Next ==
    \/ Capture
    \/ \E format \in {"json", "smile"} : Write(format) \/ WriteAny(format)
    \/ Keep
    \/ Read

Spec == Init /\ [][Next]_vars

-----------------------------------------------------------------------------
(* Properties                                                                *)

(* JSON has no bytes and no non-finite numbers (json/mod.rs), and a key is a *)
(* text, also in Smile (smile/mod.rs).                                       *)
TypeOK ==
    /\ original.type \in Types /\ original.at \in Positions
    /\ form \in {"rust", "any", "json", "smile", "refused"}
    /\ via \subseteq {"json", "smile", "smile after json"}
    /\ form = "json" => item.kind # "bytes" /\ ~(item.kind = "f64" /\ item.x \in NonFinite)
    /\ form \in {"json", "smile"} /\ original.at = "key" => item.kind = "str"

(* What is a text in JSON and something else in Smile.  A program that read  *)
(* it as an `any` from JSON cannot know.                                     *)
TextInJson ==
    /\ original.at # "key"
    /\ original.type = "binary" \/ (original.type = "double" /\ original.value \in NonFinite)

(* Routes on which a value is expected to survive: any, but for a Uuid in    *)
(* Smile and for what went into Smile as the text it was in JSON.            *)
Supported ==
    /\ original.type = "uuid" => "smile" \notin via
    /\ TextInJson => "smile after json" \notin via

(* A value that is written, kept as an `any` any number of times and read in *)
(* the end (Any: "a lossless representation of a Conjure JSON value") is     *)
(* never refused on the way and is itself, as a value and as a key, from     *)
(* JSON to JSON, from Smile to Smile and from Smile to JSON.                 *)
Lossless == Supported => form # "refused" /\ (form = "rust" => AtHome)

(* On every route, what can no longer be read is refused and not taken for   *)
(* something else.  Only bytes are, of which serde_bytes takes a text to be  *)
(* one, and only as above.                                                   *)
NeverMisread ==
    form = "rust" => AtHome \/ (original.type = "binary" /\ TextInJson /\ "smile after json" \in via)

(* A double that has come to be a Rust value is put into maps, sets and        *)
(* generated objects: with the others, alone and in optionals and lists of   *)
(* them, it is ordered, equal and hashed as BTreeMap, BTreeSet and HashMap   *)
(* need of their keys, NaN and both zeros included (double_key.rs, DoubleOps *)
(* of private.rs).                                                           *)
DoublesAreKeys ==
    original.type = "double" /\ form = "rust" => DoublesAreOrdered

(* A nested value written as Smile ("compatible with the Conjure             *)
(* specification", smile/ser.rs) and read from it is not refused.            *)
SmileLossless == via = {"smile"} /\ original.at = "element" => form # "refused"
=============================================================================
