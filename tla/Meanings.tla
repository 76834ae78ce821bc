------------------------------ MODULE Meanings ------------------------------
(* What a document means as a value of a type of the IR, said of the whole   *)
(* document at once and not key by key: the reference that the deserializers *)
(* of Deserialize are held against.                                          *)
EXTENDS Deserialize

CONSTANT Depth   \* JSON -> how deep it is: JSON is finite

(* The JSON at hand, with all that is inside it.                             *)
Json == DOMAIN Depth

(* Texts, and maps of entries whose values are less deep.                    *)
ASSUME JsonAssumption ==
    /\ \A json \in Json :
          /\ Depth[json] \in Nat
          /\ IF IsMap(json)
             THEN /\ json = Map(json.entries)
                  /\ json.entries \in Seq(ToSet(json.entries))
                  /\ \A entry \in ToSet(json.entries) :
                        /\ entry = Entry(entry.key, entry.value)
                        /\ entry.value \in Json /\ Depth[entry.value] < Depth[json]
             ELSE json = Text(json.text)
    /\ Documents \subseteq Json /\ \A json \in Documents : IsMap(json)
    /\ \A T \in Roots : \A v \in Values[T] : Arrangements(v) \subseteq Json

(* A question: what a document means, as a value of a type of the IR, to the *)
(* deserializer that reads it, with the exhaustive option or without.        *)
Questions ==
    [reader : {"server", "client"}, exhaustive : BOOLEAN, type : DOMAIN Types, json : Json]
Question(reader, e, T, json) == [reader |-> reader, exhaustive |-> e, type |-> T, json |-> json]

(* The answer is a set: no value, or one.  The same for the value of an      *)
(* entry, when `means` answers the questions about the maps inside.          *)
Meant(means, q, member, json) ==
    CASE member.type = "any" -> {AnyValue(json)}
      [] member.type # "any" /\ json = Null ->
           IF member.shape = "optional" THEN {Default} ELSE {}
      [] member.type = "leaf" /\ json # Null ->
           IF ~IsMap(json) /\ json.text \in Leaves THEN {Leaf(json.text)} ELSE {}
      [] member.type \in DOMAIN Types /\ json # Null ->
           IF IsMap(json) THEN means[Question(q.reader, q.exhaustive, member.type, json)] ELSE {}

(* An object's field means its last entry, and every entry must mean         *)
(* something, but those that the client ignores.                             *)
MeantObject(means, q, es) ==
    LET of(name) == {n \in DOMAIN es : es[n].key = name}
        last(name) == CHOOSE n \in of(name) : \A k \in of(name) : k <= n
        field(n) == Meant(means, q, MemberOf(q.type, es[n].key), es[n].value)
    IN IF /\ \A n \in DOMAIN es :
                IF es[n].key \in Names(q.type) THEN field(n) # {} ELSE q.reader = "client"
          /\ \A m \in ToSet(Types[q.type].members) : m.shape = "required" => of(m.name) # {}
       THEN {Object(q.type, [name \in Names(q.type) |->
                IF of(name) = {} THEN Default ELSE CHOOSE v \in field(last(name)) : TRUE])}
       ELSE {}

(* A union is two entries, its type and, under that name, its value.         *)
MeantUnion(means, q, es) ==
    LET tag == IF es[1].key = "type" THEN 1 ELSE 2
        held == es[3 - tag]
    IN IF /\ Len(es) = 2
          /\ es[tag] = Entry("type", Text(held.key))
          /\ held.key # "null"
          /\ q.exhaustive => held.key \in Names(q.type)
       THEN {Union(q.type, held.key, v) :
                v \in Meant(means, q, Variant(q.type, held.key), held.value)}
       ELSE {}

Meaning[q \in Questions] ==
    IF ~IsMap(q.json) THEN {}
    ELSE IF Types[q.type].kind = "object" THEN MeantObject(Meaning, q, q.json.entries)
    ELSE MeantUnion(Meaning, q, q.json.entries)

(* Reading key by key, each deserializer accepts exactly the documents that  *)
(* mean something to it, and returns what they mean: of a repeated field the *)
(* last, for a missing one its default if it may be missing, and a union     *)
(* only under the variant that both its type and its key name.               *)
ReadsAsMeant ==
    \A m \in DOMAIN outcome :
        outcome[m] # Pending =>
            LET meant == Meaning[Question(m, exhaustive, root, doc)]
            IN IF outcome[m].tag = "ok" THEN meant = {outcome[m].value} ELSE meant = {}
=============================================================================
