---------------------------- MODULE MCTypeLayout ----------------------------
(***************************************************************************)
(* TypeLayout over small IR files: an object with two fields, an alias or  *)
(* union, a third definition of any form, and an error with one argument.  *)
(***************************************************************************)
EXTENDS TypeLayout, TLC

CONSTANTS A, B, C, E

MCNames == {A, B, C}
MCErrors == {E}

Plain(base) == [wraps |-> <<>>, base |-> base]
Wrapped(wraps, base) == [wraps |-> wraps, base |-> base]
Def(form, parts) == [form |-> form, parts |-> parts]

\* The fields of A: by value, behind optionals and collections, and doubles.
FieldTypes ==
  {Wrapped(wraps, base) : wraps \in {<<>>, <<"optional">>}, base \in {A, B, C}}
  \cup {Wrapped(<<"list">>, B), Wrapped(<<"optional", "map">>, C), Plain("any"),
        Wrapped(<<"optional">>, "double"), Wrapped(<<"map">>, "double"),
        Wrapped(<<"set", "optional">>, "double"), Wrapped(<<"list", "optional">>, "integer")}

Objects == {Def("object", <<t, u>>) : t, u \in FieldTypes}

Middles ==
  {Def("alias", <<t>>) : t \in {Plain(A), Wrapped(<<"optional">>, A), Plain(C),
      Wrapped(<<"optional">>, C), Wrapped(<<"map">>, A), Wrapped(<<"list", "optional">>, C)}}
  \cup {Def("union", <<t, u>>) : t \in {Plain(A), Plain(B)}, u \in {Plain(C), Wrapped(<<"optional">>, B)}}

Ends ==
  {Def("enum", <<>>), Def("alias", <<Plain("integer")>>), Def("alias", <<Plain(A)>>),
   Def("alias", <<Wrapped(<<"optional">>, "any")>>), Def("alias", <<Wrapped(<<"list">>, "integer")>>),
   Def("union", <<Plain(A), Plain(B)>>), Def("object", <<Plain("double")>>),
   Def("object", <<Wrapped(<<"optional">>, B)>>)}

ErrorArgs == {<<Wrapped(<<"optional">>, B)>>, <<Plain(C)>>}

MCInputs ==
  {[types |-> (A :> a) @@ (B :> b) @@ (C :> c), errors |-> (E :> args)] :
     a \in Objects, b \in Middles, c \in Ends, args \in ErrorArgs}
=============================================================================
