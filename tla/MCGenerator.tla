---------------------------- MODULE MCGenerator ----------------------------
(***************************************************************************)
(* The generator on the IR files of MCTypeLayout, with one layout of their *)
(* packages, and on three of them with every layout.                       *)
(***************************************************************************)
EXTENDS MCTypeLayout, Generator

CONSTANT S

MCServices == {S}

Packages == {<<"p">>, <<"p", "a">>, <<"p", "a", "b">>, <<"q">>}

ModuleNames == (A :> "a") @@ (B :> "lib") @@ (C :> "c") @@ (E :> "e") @@ (S :> "constants")

Placed(package, strip, crate, module) ==
  [package |-> package, strip |-> strip, crate |-> crate, module |-> module,
   uses |-> (S :> {A, C})]

Packed(a, b, c, e) == (A :> a) @@ (B :> b) @@ (C :> c) @@ (E :> e) @@ (S :> e)

OneLayout ==
  {Placed(Packed(<<"p", "a">>, <<"p", "b">>, <<"q">>, <<"q", "b">>), <<"p">>, TRUE, ModuleNames)}

EveryLayout ==
  {Placed(Packed(a, b, c, e), strip, crate, ModuleNames) :
     a \in Packages, b \in Packages, c \in Packages, e \in {<<"p", "a">>, <<"q", "b">>},
     strip \in {<<>>, <<"p">>, <<"p", "a">>}, crate \in BOOLEAN}

\* Each definition names each of the others.
MCLayoutsOf(input) ==
  IF /\ input.types[A] = Def("object", <<Wrapped(<<"optional">>, B), Wrapped(<<"optional">>, C)>>)
     /\ input.types[B] = Def("union", <<Plain(A), Plain(C)>>)
     /\ input.types[C] = Def("union", <<Plain(A), Plain(B)>>)
    THEN EveryLayout
    ELSE OneLayout
=============================================================================
