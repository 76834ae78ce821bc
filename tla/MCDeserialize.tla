--------------------------- MODULE MCDeserialize ---------------------------
(* An object with a required leaf, an optional object and an optional union; *)
(* a union of a leaf and an object; an object with one leaf.                 *)
EXTENDS Meanings

MCTypes ==
    [outer |-> [kind |-> "object",
                members |-> <<Member("a", "leaf", "required"),
                              Member("b", "inner", "optional"),
                              Member("c", "choice", "optional")>>],
     inner |-> [kind |-> "object", members |-> <<Member("x", "leaf", "required")>>],
     choice |-> [kind |-> "union",
                 members |-> <<Member("u", "leaf", "required"),
                               Member("w", "inner", "required")>>]]

MCRoots == {"outer", "choice"}
MCLeaves == {"1", "2"}
MCAnything == {Text("1"), Map(<<Entry("a", Text("1"))>>)}

LeafValues == {Leaf(t) : t \in MCLeaves}
InnerValues == {Object("inner", [x |-> v]) : v \in LeafValues}
ChoiceValues ==
    {Union("choice", "u", v) : v \in LeafValues} \cup {Union("choice", "w", v) : v \in InnerValues}
        \cup {Union("choice", "new", AnyValue(json)) : json \in MCAnything}

MCValues ==
    [inner |-> InnerValues,
     choice |-> ChoiceValues,
     outer |-> {Object("outer", [a |-> a, b |-> b, c |-> c]) :
                   a \in LeafValues, b \in InnerValues \cup {Default},
                   c \in ChoiceValues \cup {Default}}]

(* Leaves and what an unknown variant holds are at the bottom.               *)
MCHeight ==
    [v \in (UNION {MCValues[T] : T \in DOMAIN MCValues}) \cup LeafValues
            \cup {AnyValue(json) : json \in MCAnything} |->
        CASE v \in MCValues.outer -> 3
          [] v \in MCValues.choice -> 2
          [] v \in MCValues.inner -> 1
          [] OTHER -> 0]

(* Documents of other writers: up to three entries, with keys missing,       *)
(* repeated and unknown ("new", and "a" in the wrong object), values of the  *)
(* wrong type, null, and an unknown variant ("new").                         *)
InnerDocs ==
    {Map(<<>>), Map(<<Entry("x", Text("1"))>>), Map(<<Entry("x", Null)>>),
     Map(<<Entry("x", Text("1")), Entry("a", Text("1"))>>),
     Map(<<Entry("x", Text("1")), Entry("x", Text("2"))>>)}

ChoiceEntries ==
    {Entry("type", Text(t)) : t \in {"u", "w", "new", "null"}}
        \cup {Entry(k, v) : k \in {"u", "w", "new"}, v \in InnerDocs \cup {Text("1")}}

ChoiceDocs ==
    {Map(<<>>)} \cup {Map(<<e>>) : e \in ChoiceEntries}
        \cup {Map(<<e, f>>) : e, f \in ChoiceEntries}
        \cup {Map(<<e, f, g>>) : e, f, g \in {x \in ChoiceEntries : x.key \in {"type", "u"}}}

SomeChoiceDocs ==
    {Map(<<Entry("type", Text("w")), Entry("w", d)>>) : d \in InnerDocs}
        \cup {Map(<<Entry("new", d), Entry("type", Text("new"))>>) : d \in InnerDocs}

OuterEntries ==
    {Entry("a", Text(t)) : t \in {"1", "2", "u"}}
        \cup {Entry("b", v) : v \in InnerDocs \cup {Null}}
        \cup {Entry("c", v) : v \in SomeChoiceDocs \cup {Null}}
        \cup {Entry("new", v) : v \in {Text("1"), Map(<<Entry("x", Text("1"))>>)}}

(* Maps of one to three entries.                                             *)
Maps(E) == [entries : {<<e>> : e \in E} \cup (E \X E) \cup (E \X E \X E)]

MCDocuments == ChoiceDocs \cup Maps(OuterEntries)

(* What MCValues are written as, in every order.                             *)
WrittenInner == {Map(<<Entry("x", Text(t))>>) : t \in MCLeaves}
WrittenChoice ==
    LET entries ==
            {Entry("u", Text(t)) : t \in MCLeaves} \cup {Entry("w", d) : d \in WrittenInner}
                \cup {Entry("new", json) : json \in MCAnything}
        tag(e) == Entry("type", Text(e.key))
    IN {Map(<<tag(e), e>>) : e \in entries} \cup {Map(<<e, tag(e)>>) : e \in entries}
WrittenEntries ==
    {Entry("a", Text(t)) : t \in MCLeaves} \cup {Entry("b", d) : d \in WrittenInner}
        \cup {Entry("c", d) : d \in WrittenChoice}

(* Every document at hand, and what is inside it.                            *)
MCJson ==
    {json : json \in {Text(t) : t \in MCLeaves \cup {"u", "w", "new", "null"}}
                \cup MCAnything \cup InnerDocs \cup WrittenInner \cup SomeChoiceDocs
                \cup WrittenChoice \cup MCDocuments \cup Maps(WrittenEntries)}

MCDepth[json \in MCJson] ==
    IF IsMap(json) THEN 1 + Max({MCDepth[e.value] : e \in ToSet(json.entries)} \cup {0}) ELSE 0
=============================================================================
