--------------------------- MODULE MCTypeContext ---------------------------
(***************************************************************************)
(* TypeContext over small IR files: three named types of up to two leaves  *)
(* each, the recursive ones included, and two endpoint arguments.          *)
(***************************************************************************)
EXTENDS TypeContext, TLC

CONSTANTS A, B, C, x, y

MCNames == {A, B, C}
MCArgs == {x, y}

ItemOf(base) == [own |-> NoLevel, external |-> FALSE, shape |-> "item", base |-> base]
Declared(leaf, level) == [leaf EXCEPT !.own = level]
In(shape, leaf) == [leaf EXCEPT !.shape = shape]
External(leaf) == [leaf EXCEPT !.external = TRUE]

Def(form, leaves) == [form |-> form, leaves |-> leaves]
Arg(leaves) == [own |-> NoLevel, legacy |-> FALSE, leaves |-> leaves]

Pairs(leaves) == leaves \X leaves
UpTo2(leaves) == {<<>>} \cup {<<l>> : l \in leaves} \cup Pairs(leaves)
Defs(forms, bodies) == {Def(form, body) : form \in forms, body \in bodies}

Schemas(as, bs, cs) ==
  {(A :> a) @@ (B :> b) @@ (C :> c) : a \in as, b \in bs, c \in cs}

NoArgs == [a \in MCArgs |-> Arg(<<>>)]

\* x: A, y: B; or y annotated, or tagged.
SafetyArgs ==
  LET plain == (x :> Arg(<<ItemOf(A)>>)) @@ (y :> Arg(<<ItemOf(B)>>))
  IN {plain, [plain EXCEPT ![y].own = Unsafe, ![y].legacy = TRUE],
      [plain EXCEPT ![y].legacy = TRUE]}

SafetySchemas ==
  Schemas(
    Defs({"object"}, Pairs({ItemOf(B), ItemOf(C), ItemOf("bearertoken")})),
    Defs({"object", "union"},
         UpTo2({ItemOf(A), ItemOf(C), Declared(ItemOf("string"), Safe)})),
    {Def("enum", <<>>), Def("constant", <<ItemOf("string")>>),
     Def("alias", <<Declared(ItemOf(A), Safe)>>), Def("alias", <<ItemOf("bearertoken")>>),
     Def("alias", <<External(ItemOf("bearertoken"))>>), Def("object", <<ItemOf(A)>>)})

DoubleSchemas ==
  Schemas(
    Defs({"object"}, Pairs({ItemOf(B), ItemOf(C), In("keyed", ItemOf("double"))})),
    Defs({"union"}, UpTo2({ItemOf(A), In("list", ItemOf(C)), ItemOf("string")})),
    {Def("enum", <<>>), Def("constant", <<ItemOf("double")>>),
     Def("object", <<External(In("list", ItemOf("double")))>>),
     Def("object", <<ItemOf(A)>>), Def("alias", <<In("keyed", ItemOf(B))>>)})

CopySchemas ==
  Schemas(
    Defs({"object"}, Pairs({ItemOf(B), ItemOf(C), ItemOf("integer"), In("list", ItemOf("integer"))})),
    Defs({"alias"}, {<<ItemOf(C)>>, <<ItemOf("double")>>, <<ItemOf("string")>>, <<In("list", ItemOf(B))>>}),
    {Def("enum", <<>>), Def("alias", <<ItemOf("integer")>>), Def("object", <<>>),
     Def("alias", <<External(ItemOf("string"))>>), Def("alias", <<In("keyed", ItemOf(A))>>)})

MCInputs ==
  {[analysis |-> "safety", types |-> t, args |-> a] : t \in SafetySchemas, a \in SafetyArgs}
  \cup {[analysis |-> "double", types |-> t, args |-> NoArgs] : t \in DoubleSchemas}
  \cup {[analysis |-> "copy", types |-> t, args |-> NoArgs] : t \in CopySchemas}

\* Two objects that hold each other, one of them with a bearer token.
MCStaleInputs ==
  {[analysis |-> "safety",
    types    |-> (A :> Def("object", <<ItemOf(B), ItemOf("bearertoken")>>))
                 @@ (B :> Def("object", <<ItemOf(A)>>)) @@ (C :> Def("enum", <<>>)),
    args     |-> (x :> Arg(<<ItemOf(A)>>)) @@ (y :> Arg(<<ItemOf(B)>>))]}
=============================================================================
