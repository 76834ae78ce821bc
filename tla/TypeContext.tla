---------------------------- MODULE TypeContext ----------------------------
(***************************************************************************)
(* The memo tables of conjure-codegen's Context (src/conjure-codegen/src/  *)
(* context.rs).  While it generates code, the generator asks three         *)
(* questions about the types of a Conjure definition:                      *)
(*                                                                         *)
(*   "double"  has_double / ref_has_double: may the type hold an f64?      *)
(*   "copy"    is_copy / ref_is_copy: is the Rust type Copy?               *)
(*   "safety"  type_log_safety / type_log_safety_ref: its log safety.      *)
(*                                                                         *)
(* Each is a depth-first walk over the reference graph that memoises its   *)
(* answer per named type.  The first and the last break cycles by writing  *)
(* a provisional answer into the memo before they recurse.  The call stack *)
(* of the walk is explicit here, so that every intermediate state of the   *)
(* memo is a state of the model.                                           *)
(*                                                                         *)
(* Answers are numbers, ordered so that the fold of each walk is a maximum *)
(* ("double": 1 = has a double; "copy": 1 = is not Copy; "safety": the     *)
(* levels below).  The three memos share nothing and the generator is      *)
(* single-threaded, so one behaviour follows one analysis.                 *)
(***************************************************************************)
EXTENDS Naturals, Sequences, FiniteSets

CONSTANTS
  Names,   \* the type names defined by the IR (TypeName)
  Args,    \* the endpoint arguments of its services (ArgumentDefinition)
  Inputs   \* the IR files considered, each with the analysis followed

Prims == {"double", "integer", "string", "bearertoken"}

ASSUME NamesAssumption ==
  /\ IsFiniteSet(Names)
  /\ Names \cap Prims = {}
  /\ Names \cap Args = {}

VARIABLES
  analysis,  \* which of the three questions is asked
  types,     \* Context.types: the definition of each name
  args,      \* the endpoint arguments whose safety is asked for
  cache,     \* TypeContext.{has_double, is_copy, log_safety} of each name
  stack,     \* the call stack of the walk, outermost call first
  decision,  \* what the generator was answered, per caller
  asked      \* the last outermost call, and whether the memo was empty then

context == <<analysis, types, args>>
vars == <<analysis, types, args, cache, stack, decision, asked>>

(***************************************************************************)
(* Log safety.  None (no annotation) lies between Safe and Unsafe: see     *)
(* CombineSafety.                                                          *)
(***************************************************************************)
Safe == 0
Unannotated == 1
Unsafe == 2
DoNotLog == 3
Ranks == 0 .. 3
NoLevel == 4      \* a field, alias or argument without a safety of its own
Unset == 4        \* a memo entry that has not been written
Undecided == 4    \* a caller that has not been answered

(***************************************************************************)
(* A definition is its form and the leaves of its type expressions in the  *)
(* order the walks meet them; a map contributes its key, then its value.   *)
(* A leaf keeps what the analyses tell apart: the safety declared on the   *)
(* field or alias, whether it stands behind an external reference, the     *)
(* innermost collection around it, and the primitive or name at the end.   *)
(***************************************************************************)
Leaf == [own : Ranks \cup {NoLevel}, external : BOOLEAN,
         shape : {"item", "list", "keyed"}, base : Prims \cup Names]

Definition == [form : {"alias", "enum", "object", "union", "constant"},
               leaves : Seq(Leaf)]

Argument == [own : Ranks \cup {NoLevel}, legacy : BOOLEAN, leaves : Seq(Leaf)]

\* Conjure rejects an alias that leads back to itself, so an alias can be
\* numbered above the alias it names.
AliasesGrounded(defs) ==
  \E height \in [Names -> 0 .. Cardinality(Names)] :
    \A n \in Names : defs[n].form = "alias" =>
      \A i \in DOMAIN defs[n].leaves :
        LET leaf == defs[n].leaves[i]
        IN leaf.base \in Names /\ leaf.shape = "item" =>
             height[leaf.base] < height[n]

ASSUME InputsAssumption ==
  \A input \in Inputs :
    /\ input.analysis \in {"double", "copy", "safety"}
    /\ input.types \in [Names -> Definition]
    /\ input.args \in [Args -> Argument]
    /\ AliasesGrounded(input.types)

Yes(b) == IF b THEN 1 ELSE 0

PrimitiveHasDouble(p) == p = "double"
PrimitiveIsCopy(p) == p \in {"double", "integer"}
PrimitiveLogSafety(p) == IF p = "bearertoken" THEN DoNotLog ELSE Unannotated

\* combine_safety, with None as Unannotated.
CombineSafety(a, b) ==
  IF a = DoNotLog \/ b = DoNotLog THEN DoNotLog
  ELSE IF a = Unsafe \/ b = Unsafe THEN Unsafe
  ELSE IF a = Safe /\ b = Safe THEN Safe
  ELSE Unannotated

\* How a fold joins the answer for one more leaf: combine_safety, or the
\* disjunction behind any (and the negated all).
Combine(a, b) ==
  IF analysis = "safety" THEN CombineSafety(a, b) ELSE Yes(a = 1 \/ b = 1)

\* The walk recurses into a named type at this leaf.
IsRef(leaf) ==
  /\ leaf.base \in Names
  /\ analysis = "safety" => leaf.own = NoLevel /\ ~leaf.external
  /\ analysis = "copy" => leaf.shape = "item"

\* Mutant: the fallback of an external reference is not looked at.
LeafRankMutantExternal(leaf) ==
  CASE analysis = "double" -> Yes(~leaf.external /\ PrimitiveHasDouble(leaf.base))
    [] analysis = "copy" ->
         Yes(leaf.shape # "item" \/ ~PrimitiveIsCopy(leaf.base))
    [] OTHER -> IF leaf.own # NoLevel THEN leaf.own
                ELSE IF leaf.external THEN Unannotated
                ELSE PrimitiveLogSafety(leaf.base)

\* The answer at a leaf that needs no recursion.
LeafRank(leaf) ==
  CASE analysis = "double" -> Yes(PrimitiveHasDouble(leaf.base))
    [] analysis = "copy" ->
         Yes(leaf.shape # "item" \/ ~PrimitiveIsCopy(leaf.base))
    [] OTHER -> IF leaf.own # NoLevel THEN leaf.own
                ELSE IF leaf.external THEN Unannotated
                ELSE PrimitiveLogSafety(leaf.base)

\* The leaves ref_has_double, ref_is_copy and type_log_safety_ref visit.
MemoLeaves(n) ==
  LET visits == CASE analysis = "double" -> {"alias", "object", "union", "constant"}
                  [] analysis = "copy" -> {"alias"}
                  [] OTHER -> {"alias", "object", "union"}
  IN IF types[n].form \in visits THEN types[n].leaves ELSE <<>>

\* Mutant: a constant answers with a safety of its own, which it does not have.
MemoStartMutantConstant(n) ==
  CASE analysis = "double" -> 0
    [] analysis = "copy" -> Yes(types[n].form # "alias")
    [] OTHER -> IF types[n].form = "constant" THEN NoLevel
                ELSE IF types[n].form = "union" THEN Unannotated ELSE Safe

\* The answer before any leaf: the fold's initial value, or the whole answer
\* of a form whose leaves are not visited.
MemoStart(n) ==
  CASE analysis = "double" -> 0
    [] analysis = "copy" -> Yes(types[n].form # "alias")
    [] OTHER -> IF types[n].form \in {"union", "constant"} THEN Unannotated ELSE Safe

\* Mutant: type_log_safety_ref recurses without a provisional answer.
BreaksCyclesMutantSafety == analysis = "double"

\* ref_has_double and type_log_safety_ref write a provisional answer first;
\* ref_is_copy does not.
BreaksCycles == analysis \in {"double", "safety"}

\* Mutant: the provisional answer is the pessimistic one.
ProvisionalMutantHigh == 1

\* Some(false), and Computed(Some(Safe)).
Provisional == 0

\* Mutant: the fold over safeties stops at the first leaf that is not safe.
DecisiveMutantEarly(rank) == rank >= 1

\* any and all stop at the first decisive leaf; the fold over safeties does not.
Decisive(rank) == analysis # "safety" /\ rank = 1

----------------------------------------------------------------------------
(***************************************************************************)
(* Callers: the generator asks has_double of the fields of an object or a  *)
(* union (objects/object.rs, unions.rs), is_copy of the fields of an       *)
(* object and of the body of an alias (objects/object.rs, aliases.rs), and *)
(* the safety of an endpoint argument (servers.rs).                        *)
(***************************************************************************)
DeriveCallers(forms) == {n \in Names : types[n].form \in forms}

Callers ==
  CASE analysis = "double" -> DeriveCallers({"object", "union"})
    [] analysis = "copy" -> DeriveCallers({"object", "alias"})
    [] OTHER -> Args

CallerLeaves(c) == IF c \in Args THEN args[c].leaves ELSE types[c].leaves

\* is_safe_arg answers from the argument's own annotations when it has any.
Annotated(c) == c \in Args /\ (args[c].own # NoLevel \/ args[c].legacy)
AnnotatedRank(c) == IF args[c].own # NoLevel THEN args[c].own ELSE Safe

----------------------------------------------------------------------------
Frame == [memo : BOOLEAN, name : Names \cup Args, pos : Nat \ {0}, acc : Ranks]

FrameLeaves(f) == IF f.memo THEN MemoLeaves(f.name) ELSE CallerLeaves(f.name)

Top == stack[Len(stack)]
FrameDone(f) == f.pos > Len(FrameLeaves(f)) \/ Decisive(f.acc)
NextLeaf == FrameLeaves(Top)[Top.pos]

\* A call that has got `rank` for its next leaf.
Stepped(f, rank) ==
  [memo |-> f.memo, name |-> f.name, pos |-> f.pos + 1, acc |-> Combine(f.acc, rank)]

\* Mutant: the iterator is not advanced.
AdvancedMutantStuck(frames, rank) ==
  [frames EXCEPT ![Len(frames)] = [Stepped(@, rank) EXCEPT !.pos = frames[Len(frames)].pos]]

Advanced(frames, rank) ==
  [frames EXCEPT ![Len(frames)] = Stepped(frames[Len(frames)], rank)]

Front(frames) == SubSeq(frames, 1, Len(frames) - 1)

Computed(n) == cache[n] # Unset
Cold == \A n \in Names : ~Computed(n)

\* Context::new: the definitions are taken over, nothing is memoised.
Init ==
  /\ \E input \in Inputs : /\ analysis = input.analysis
                           /\ types = input.types
                           /\ args = input.args
  /\ cache = [n \in Names |-> Unset]
  /\ stack = <<>>
  /\ decision = [c \in Names \cup Args |-> Undecided]
  /\ asked = [caller |-> "none", cold |-> FALSE]

\* The generator asks about a caller's leaves: it may ask again later
\* (servers.rs asks twice about every argument).
Call(c) ==
  /\ stack = <<>>
  /\ ~Annotated(c)
  /\ stack' = <<[memo |-> FALSE, name |-> c, pos |-> 1, acc |-> 0]>>
  /\ asked' = [caller |-> c, cold |-> Cold]
  /\ UNCHANGED <<context, cache, decision>>

\* is_safe_arg with an explicit safety, a legacy tag or a legacy marker.
CallAnnotated(c) ==
  /\ stack = <<>>
  /\ Annotated(c)
  /\ decision' = [decision EXCEPT ![c] = AnnotatedRank(c)]
  /\ asked' = [caller |-> c, cold |-> Cold]
  /\ UNCHANGED <<context, cache, stack>>

Walking == stack # <<>> /\ ~FrameDone(Top)

VisitLeaf ==
  /\ Walking
  /\ ~IsRef(NextLeaf)
  /\ stack' = Advanced(stack, LeafRank(NextLeaf))
  /\ UNCHANGED <<context, cache, decision, asked>>

\* Mutant: the memo is taken (Cell::take) where it should be read.
VisitCachedMutantTake ==
  /\ Walking
  /\ IsRef(NextLeaf)
  /\ Computed(NextLeaf.base)
  /\ stack' = Advanced(stack, cache[NextLeaf.base])
  /\ cache' = [cache EXCEPT ![NextLeaf.base] = Unset]
  /\ UNCHANGED <<context, decision, asked>>

VisitCached ==
  /\ Walking
  /\ IsRef(NextLeaf)
  /\ Computed(NextLeaf.base)
  /\ stack' = Advanced(stack, cache[NextLeaf.base])
  /\ UNCHANGED <<context, cache, decision, asked>>

Descend ==
  /\ Walking
  /\ IsRef(NextLeaf)
  /\ ~Computed(NextLeaf.base)
  /\ LET m == NextLeaf.base
     IN /\ cache' = IF BreaksCycles THEN [cache EXCEPT ![m] = Provisional] ELSE cache
        /\ stack' = Append(stack, [memo |-> TRUE, name |-> m, pos |-> 1,
                                   acc |-> MemoStart(m)])
  /\ UNCHANGED <<context, decision, asked>>

\* Mutant: the final answer is not written over the provisional one.
ReturnMutantKeep ==
  /\ stack # <<>>
  /\ Top.memo
  /\ FrameDone(Top)
  /\ cache' = [cache EXCEPT ![Top.name] = IF BreaksCycles THEN @ ELSE Top.acc]
  /\ stack' = Advanced(Front(stack), Top.acc)
  /\ UNCHANGED <<context, decision, asked>>

\* The recursive call memoises its answer and hands it to its caller.
Return ==
  /\ stack # <<>>
  /\ Top.memo
  /\ FrameDone(Top)
  /\ cache' = [cache EXCEPT ![Top.name] = Top.acc]
  /\ stack' = Advanced(Front(stack), Top.acc)
  /\ UNCHANGED <<context, decision, asked>>

\* The outermost call answers the generator.
Answer ==
  /\ stack # <<>>
  /\ ~Top.memo
  /\ FrameDone(Top)
  /\ decision' = [decision EXCEPT ![Top.name] = Top.acc]
  /\ stack' = <<>>
  /\ UNCHANGED <<context, cache, asked>>

Walk == VisitLeaf \/ VisitCached \/ Descend \/ Return \/ Answer

Next == (\E c \in Callers : Call(c) \/ CallAnnotated(c)) \/ Walk

Spec == Init /\ [][Next]_vars

FairSpec == Spec /\ WF_vars(Walk)

----------------------------------------------------------------------------
TypeOK ==
  /\ analysis \in {"double", "copy", "safety"}
  /\ types \in [Names -> Definition]
  /\ args \in [Args -> Argument]
  /\ cache \in [Names -> Ranks \cup {Unset}]
  /\ stack \in Seq(Frame)
  /\ decision \in [Names \cup Args -> Ranks \cup {Undecided}]
  /\ asked \in [caller : Names \cup Args \cup {"none"}, cold : BOOLEAN]

(***************************************************************************)
(* What the answers ought to be.  A bound assigns to every name a rank no  *)
(* lower than that of anything its definition mentions; the exact answer   *)
(* is the least bound, so a rank is never too high when it is below every  *)
(* bound, and exact when it is one itself.                                 *)
(***************************************************************************)
Covers(bound, leaves, rank) ==
  \A i \in DOMAIN leaves :
     IF IsRef(leaves[i]) THEN bound[leaves[i].base] <= rank
                         ELSE LeafRank(leaves[i]) <= rank

IsBound(bound) ==
  \A n \in Names : /\ MemoStart(n) <= bound[n]
                   /\ Covers(bound, MemoLeaves(n), bound[n])

Levels == IF analysis = "safety" THEN Ranks ELSE {0, 1}
Bounds == {bound \in [Names -> Levels] : IsBound(bound)}

Answered(c) == decision[c] # Undecided /\ ~Annotated(c)
Exact(c) == \E bound \in Bounds : Covers(bound, CallerLeaves(c), decision[c])

(***************************************************************************)
(* A name is grounded by heights when it has a height above 0 and every    *)
(* name it refers to has a smaller one above 0: nothing recursive can be   *)
(* reached from it.                                                        *)
(***************************************************************************)
Refs(leaves) == {leaves[i].base : i \in {j \in DOMAIN leaves : IsRef(leaves[j])}}

Grounds(height) ==
  \A n \in Names : height[n] > 0 =>
    \A m \in Refs(MemoLeaves(n)) : height[m] > 0 /\ height[m] < height[n]

Heights == {height \in [Names -> 0 .. Cardinality(Names)] : Grounds(height)}

(***************************************************************************)
(* Recursion is bounded: a name is never entered again while a call for it *)
(* is active, whatever the cycles of the IR (ref_has_double and            *)
(* type_log_safety_ref rely on their provisional entry for this,           *)
(* ref_is_copy on Conjure's ban on alias cycles).                          *)
(***************************************************************************)
NeverReentered ==
  \A i, j \in 2 .. Len(stack) : stack[i].name = stack[j].name => i = j

(***************************************************************************)
(* One-sided soundness.  Provisional answers and answers computed from     *)
(* them can only be too low: a memoised or returned "has a double",        *)
(* "not Copy" or "do not log" is always backed by something the type       *)
(* reaches.                                                                *)
(***************************************************************************)
Justified ==
  \A bound \in Bounds :
    /\ \A n \in Names : Computed(n) => cache[n] <= bound[n]
    /\ \A c \in Callers : Answered(c) =>
         \A rank \in Levels :
           Covers(bound, CallerLeaves(c), rank) => decision[c] <= rank

(***************************************************************************)
(* The first question asked of a fresh Context is answered exactly, also   *)
(* on recursive types: the provisional entries of its own walk do no harm. *)
(***************************************************************************)
ColdExact ==
  stack = <<>> /\ asked.cold /\ Answered(asked.caller) => Exact(asked.caller)

(***************************************************************************)
(* Off the recursive types the memo is transparent: a caller from which no *)
(* cycle can be reached is answered exactly, whatever was asked before.    *)
(***************************************************************************)
AcyclicExact ==
  \A height \in Heights, c \in Callers :
    /\ Answered(c)
    /\ \A m \in Refs(CallerLeaves(c)) : height[m] > 0
    => Exact(c)

(***************************************************************************)
(* An answer is only inexact where both come together: a cycle in the      *)
(* types, and a question that was asked before.                            *)
(***************************************************************************)
ExactUnlessStale == ColdExact /\ AcyclicExact

(***************************************************************************)
(* objects/object.rs and unions.rs attach the DoubleOps attributes to the  *)
(* fields is_double selects, inside the Educe derive has_double selects.   *)
(* However stale the memo, no field is given the one without the other.    *)
(***************************************************************************)
IsDouble(leaf) == leaf.shape # "keyed" /\ leaf.base = "double"

EduceCoversDoubles ==
  analysis = "double" =>
    \A c \in Callers :
      Answered(c) /\ (\E i \in DOMAIN CallerLeaves(c) : IsDouble(CallerLeaves(c)[i]))
        => decision[c] = 1

(***************************************************************************)
(* servers.rs asks is_safe_arg of an argument twice, to declare the        *)
(* SafeParams of an endpoint and to fill it: asking again, with anything   *)
(* asked in between, never changes an answer.                              *)
(***************************************************************************)
AnswersStable ==
  [][\A c \in Names \cup Args : decision[c] # Undecided => decision'[c] = decision[c]]_vars

(***************************************************************************)
(* Every question is answered.  The generator is one thread that runs each *)
(* walk to its end, hence weak fairness of the walk's own steps.           *)
(***************************************************************************)
QuestionsAnswered == stack # <<>> ~> stack = <<>>

(***************************************************************************)
(* The provisional answer is meant to be temporary (context.rs:146 "break  *)
(* cycles", :1118 "temporarily treat it as safe"): an argument reported    *)
(* Safe reaches nothing that is not.  Violated: an answer computed from a  *)
(* provisional one is memoised for good.                                   *)
(***************************************************************************)
SafeArgsAreSafe ==
  \A a \in Args : Answered(a) /\ decision[a] = Safe => Exact(a)
=============================================================================
