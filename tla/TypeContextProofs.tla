------------------------- MODULE TypeContextProofs -------------------------
(***************************************************************************)
(* Proofs about TypeContext, for every set of names and arguments and      *)
(* every IR file.                                                          *)
(***************************************************************************)
EXTENDS TypeContext, TLAPS, SequenceTheorems, FiniteSetTheorems, WellFoundedInduction

Analyses == {"double", "copy", "safety"}

\* The outermost call is a caller's, the calls it makes are memoised ones.
StackShape ==
  \A i \in 1 .. Len(stack) :
    /\ stack[i].memo <=> i > 1
    /\ stack[i].memo => stack[i].name \in Names
    /\ ~stack[i].memo => stack[i].name \in Callers

TInv == TypeOK /\ StackShape

----------------------------------------------------------------------------
(* The operators the walk is built from. *)

LEMMA YesRank == \A b \in BOOLEAN : Yes(b) \in {0, 1}
BY DEF Yes

LEMMA CombineRank ==
  ASSUME analysis \in Analyses, NEW a \in Ranks, NEW b \in Ranks
  PROVE  Combine(a, b) \in Ranks
BY DEF Combine, CombineSafety, Yes, Ranks, Safe, Unannotated, Unsafe, DoNotLog, Analyses

(* combine_safety is the maximum of the order Safe, None, Unsafe, DoNotLog. *)
LEMMA CombineSafetyIsMax ==
  ASSUME NEW a \in Ranks, NEW b \in Ranks
  PROVE  CombineSafety(a, b) = IF a >= b THEN a ELSE b
BY DEF CombineSafety, Ranks, Safe, Unannotated, Unsafe, DoNotLog

LEMMA LeafRankType ==
  ASSUME analysis \in Analyses, NEW leaf \in Leaf
  PROVE  LeafRank(leaf) \in Ranks
BY DEF LeafRank, Leaf, Yes, PrimitiveLogSafety, Ranks, NoLevel, Unannotated, DoNotLog, Analyses

LEMMA MemoStartType ==
  ASSUME analysis \in Analyses, NEW n
  PROVE  MemoStart(n) \in Ranks
BY DEF MemoStart, Yes, Ranks, Unannotated, Safe, Analyses

LEMMA MemoLeavesType ==
  ASSUME types \in [Names -> Definition], NEW n \in Names
  PROVE  MemoLeaves(n) \in Seq(Leaf)
BY DEF MemoLeaves, Definition

LEMMA CallerLeavesType ==
  ASSUME types \in [Names -> Definition], args \in [Args -> Argument],
         NEW c \in Names \cup Args
  PROVE  CallerLeaves(c) \in Seq(Leaf)
BY DEF CallerLeaves, Definition, Argument

LEMMA CallersKnown == \A c \in Callers : c \in Names \cup Args
BY DEF Callers, DeriveCallers

LEMMA AdvancedType ==
  ASSUME analysis \in Analyses, NEW frames \in Seq(Frame), frames # <<>>, NEW rank \in Ranks
  PROVE  /\ Advanced(frames, rank) \in Seq(Frame)
         /\ Len(Advanced(frames, rank)) = Len(frames)
         /\ \A i \in 1 .. Len(frames) :
              Advanced(frames, rank)[i] =
                IF i = Len(frames) THEN Stepped(frames[i], rank) ELSE frames[i]
<1> DEFINE k == Len(frames)
           top == frames[k]
<1>1. k \in Nat /\ k > 0 /\ top \in Frame
  BY EmptySeq, LenProperties, ElementOfSeq
<1>2. Combine(top.acc, rank) \in Ranks
  BY <1>1, CombineRank DEF Frame
<1>3. Stepped(top, rank) \in Frame
  BY <1>1, <1>2 DEF Frame, Stepped
<1>4. Advanced(frames, rank) = [frames EXCEPT ![k] = Stepped(top, rank)]
  BY DEF Advanced
<1> HIDE DEF k, top
<1>5. QED
  BY <1>1, <1>3, <1>4, ExceptSeq DEF k, top

LEMMA FrameLeavesType ==
  ASSUME TypeOK, NEW f \in Frame, f.memo => f.name \in Names
  PROVE  FrameLeaves(f) \in Seq(Leaf)
BY MemoLeavesType, CallerLeavesType DEF FrameLeaves, TypeOK, Frame

(* Where the walk stands: what is at the top of the stack, and its next leaf. *)
LEMMA TopType ==
  ASSUME TInv, stack # <<>>
  PROVE  /\ Len(stack) \in Nat \ {0}
         /\ Top = stack[Len(stack)]
         /\ Top \in Frame
         /\ Top.memo <=> Len(stack) > 1
         /\ Top.memo => Top.name \in Names
         /\ ~Top.memo => Top.name \in Callers
         /\ FrameLeaves(Top) \in Seq(Leaf)
<1>1. Len(stack) \in Nat \ {0}
  BY EmptySeq DEF TInv, TypeOK
<1>2. Top \in Frame
  BY <1>1, ElementOfSeq DEF TInv, TypeOK, Top
<1>3. /\ Top.memo <=> Len(stack) > 1
      /\ Top.memo => Top.name \in Names
      /\ ~Top.memo => Top.name \in Callers
  BY <1>1 DEF TInv, StackShape, Top
<1>4. FrameLeaves(Top) \in Seq(Leaf)
  BY <1>2, <1>3, FrameLeavesType DEF TInv
<1>5. QED
  BY <1>1, <1>2, <1>3, <1>4 DEF Top

LEMMA NextLeafType ==
  ASSUME TInv, Walking
  PROVE  /\ Top.pos \in DOMAIN FrameLeaves(Top)
         /\ NextLeaf = FrameLeaves(Top)[Top.pos]
         /\ NextLeaf \in Leaf
         /\ IsRef(NextLeaf) => NextLeaf.base \in Names
<1>1. /\ Top.pos \in Nat \ {0}
      /\ Top.pos <= Len(FrameLeaves(Top))
      /\ FrameLeaves(Top) \in Seq(Leaf)
  BY TopType DEF Walking, FrameDone, Frame
<1>2. Top.pos \in 1 .. Len(FrameLeaves(Top))
  BY <1>1, LenProperties
<1>3. NextLeaf \in Leaf
  BY <1>1, <1>2, ElementOfSeq DEF NextLeaf
<1>4. QED
  BY <1>1, <1>2, <1>3, LenProperties DEF NextLeaf, IsRef

(* The stack after a call got an answer keeps its shape. *)
LEMMA AdvancedShape ==
  ASSUME analysis \in Analyses, NEW frames \in Seq(Frame), frames # <<>>, NEW rank \in Ranks,
         \A i \in 1 .. Len(frames) :
           /\ frames[i].memo <=> i > 1
           /\ frames[i].memo => frames[i].name \in Names
           /\ ~frames[i].memo => frames[i].name \in Callers
  PROVE  /\ Advanced(frames, rank) \in Seq(Frame)
         /\ \A i \in 1 .. Len(Advanced(frames, rank)) :
              LET f == Advanced(frames, rank)[i]
              IN /\ f.memo <=> i > 1
                 /\ f.memo => f.name \in Names
                 /\ ~f.memo => f.name \in Callers
<1> DEFINE after == Advanced(frames, rank)
<1>1. /\ after \in Seq(Frame)
      /\ Len(after) = Len(frames)
      /\ \A i \in 1 .. Len(frames) :
           after[i] = IF i = Len(frames) THEN Stepped(frames[i], rank) ELSE frames[i]
  BY AdvancedType
<1>2. \A i \in 1 .. Len(frames) :
        after[i].memo = frames[i].memo /\ after[i].name = frames[i].name
  <2> TAKE i \in 1 .. Len(frames)
  <2> HIDE DEF after
  <2>1. CASE i = Len(frames)
    <3>1. after[i] = Stepped(frames[i], rank)
      BY <1>1, <2>1
    <3>2. QED
      BY <3>1 DEF Stepped
  <2>2. CASE i # Len(frames)
    BY <1>1, <2>2
  <2>3. QED
    BY <2>1, <2>2
<1> HIDE DEF after
<1>3. QED
  BY <1>1, <1>2 DEF after

LEMMA FrontType ==
  ASSUME TInv, stack # <<>>, Top.memo
  PROVE  /\ Front(stack) \in Seq(Frame)
         /\ Len(Front(stack)) = Len(stack) - 1
         /\ Len(stack) - 1 \in Nat \ {0}
         /\ Front(stack) # <<>>
         /\ \A i \in 1 .. Len(stack) - 1 : Front(stack)[i] = stack[i]
<1>1. Len(stack) \in Nat /\ Len(stack) > 1
  BY TopType
<1>2. stack \in Seq(Frame)
  BY DEF TInv, TypeOK
<1>3. /\ Front(stack) \in Seq(Frame)
      /\ Len(Front(stack)) = Len(stack) - 1
      /\ \A i \in 1 .. Len(stack) - 1 : Front(stack)[i] = stack[i]
  BY <1>1, <1>2, SubSeqProperties DEF Front
<1>4. QED
  BY <1>1, <1>3, EmptySeq

----------------------------------------------------------------------------
(* Type correctness. *)

LEMMA InitTInv == Init => TInv
<1> SUFFICES ASSUME Init PROVE TInv
  OBVIOUS
<1>1. /\ analysis \in Analyses
      /\ types \in [Names -> Definition]
      /\ args \in [Args -> Argument]
  BY InputsAssumption DEF Init, Analyses
<1>2. TypeOK
  BY <1>1 DEF Init, TypeOK, Analyses, Unset, Undecided
<1>3. StackShape
  BY DEF Init, StackShape
<1>4. QED
  BY <1>2, <1>3 DEF TInv

LEMMA NextTInv == TInv /\ [Next]_vars => TInv'
<1> SUFFICES ASSUME TInv, [Next]_vars PROVE TInv'
  OBVIOUS
<1> USE DEF TInv
<1>t. analysis \in Analyses
  BY DEF TypeOK, Analyses
<1>c. UNCHANGED context => Callers' = Callers
  BY DEF context, Callers, DeriveCallers
<1>1. ASSUME NEW c \in Callers, Call(c) PROVE TInv'
  <2>1. c \in Names \cup Args
    BY CallersKnown
  <2>2. [memo |-> FALSE, name |-> c, pos |-> 1, acc |-> 0] \in Frame
    BY <2>1 DEF Frame, Ranks
  <2>3. stack' \in Seq(Frame) /\ Len(stack') = 1 /\ stack'[1] = [memo |-> FALSE, name |-> c, pos |-> 1, acc |-> 0]
    BY <2>2, <1>1 DEF Call
  <2>4. asked' \in [caller : Names \cup Args \cup {"none"}, cold : BOOLEAN]
    BY <2>1, <1>1 DEF Call, Cold
  <2>5. TypeOK'
    BY <2>3, <2>4, <1>1 DEF TypeOK, Call, context
  <2>6. StackShape'
    BY <2>3, <1>1, <1>c DEF StackShape, Call
  <2>7. QED
    BY <2>5, <2>6
<1>2. ASSUME NEW c \in Callers, CallAnnotated(c) PROVE TInv'
  <2>1. c \in Args /\ AnnotatedRank(c) \in Ranks
    BY <1>2 DEF CallAnnotated, Annotated, AnnotatedRank, TypeOK, Argument, Ranks, Safe, NoLevel
  <2>2. asked' \in [caller : Names \cup Args \cup {"none"}, cold : BOOLEAN]
    BY <2>1, <1>2 DEF CallAnnotated, Cold
  <2>3. TypeOK'
    BY <2>1, <2>2, <1>2 DEF TypeOK, CallAnnotated, context
  <2>4. StackShape'
    BY <1>2, <1>c DEF StackShape, CallAnnotated
  <2>5. QED
    BY <2>3, <2>4
<1>3. CASE VisitLeaf
  <2>1. LeafRank(NextLeaf) \in Ranks
    BY <1>3, <1>t, NextLeafType, LeafRankType DEF VisitLeaf
  <2>2. stack # <<>> /\ stack \in Seq(Frame)
    BY <1>3 DEF VisitLeaf, Walking, TypeOK
  <2>3. stack' \in Seq(Frame) /\ StackShape'
    BY <2>1, <2>2, <1>3, <1>t, <1>c, AdvancedShape DEF VisitLeaf, StackShape
  <2>4. QED
    BY <2>3, <1>3 DEF VisitLeaf, TypeOK, context
<1>4. CASE VisitCached
  <2>1. cache[NextLeaf.base] \in Ranks
    BY <1>4, NextLeafType DEF VisitCached, Computed, TypeOK, Unset, Ranks
  <2>2. stack # <<>> /\ stack \in Seq(Frame)
    BY <1>4 DEF VisitCached, Walking, TypeOK
  <2>3. stack' \in Seq(Frame) /\ StackShape'
    BY <2>1, <2>2, <1>4, <1>t, <1>c, AdvancedShape DEF VisitCached, StackShape
  <2>4. QED
    BY <2>3, <1>4 DEF VisitCached, TypeOK, context
<1>5. CASE Descend
  <2> DEFINE m == NextLeaf.base
             f == [memo |-> TRUE, name |-> m, pos |-> 1, acc |-> MemoStart(m)]
  <2>1. m \in Names
    BY <1>5, NextLeafType DEF Descend
  <2>2. f \in Frame
    BY <2>1, <1>t, MemoStartType DEF Frame
  <2>3. stack \in Seq(Frame) /\ Len(stack) \in Nat \ {0}
    BY <1>5, TopType DEF Descend, Walking, TypeOK
  <2>4. /\ stack' = Append(stack, f)
        /\ stack' \in Seq(Frame)
        /\ Len(stack') = Len(stack) + 1
        /\ \A i \in 1 .. Len(stack) : stack'[i] = stack[i]
        /\ stack'[Len(stack) + 1] = f
    BY <2>2, <2>3, <1>5, AppendProperties DEF Descend
  <2>5. cache' \in [Names -> Ranks \cup {Unset}]
    <3>1. Provisional \in Ranks \cup {Unset}
      BY DEF Provisional, Ranks
    <3>2. \/ cache' = cache
          \/ cache' = [cache EXCEPT ![m] = Provisional]
      BY <1>5 DEF Descend
    <3>3. cache \in [Names -> Ranks \cup {Unset}]
      BY DEF TypeOK
    <3> HIDE DEF m
    <3>4. QED
      BY <3>1, <3>2, <3>3, <2>1
  <2>6. TypeOK'
    BY <2>4, <2>5, <1>5 DEF Descend, TypeOK, context
  <2>7. StackShape'
    BY <2>1, <2>3, <2>4, <1>5, <1>c DEF StackShape, Descend
  <2>8. QED
    BY <2>6, <2>7
<1>6. CASE Return
  <2>1. Top \in Frame /\ Top.acc \in Ranks
    BY <1>6, TopType DEF Return, Frame
  <2>2. \A i \in 1 .. Len(Front(stack)) :
          /\ Front(stack)[i].memo <=> i > 1
          /\ Front(stack)[i].memo => Front(stack)[i].name \in Names
          /\ ~Front(stack)[i].memo => Front(stack)[i].name \in Callers
    BY <1>6, FrontType DEF Return, StackShape
  <2>3. stack' \in Seq(Frame) /\ StackShape'
    BY <2>1, <2>2, <1>6, <1>t, <1>c, FrontType, AdvancedShape DEF Return, StackShape
  <2>4. cache' \in [Names -> Ranks \cup {Unset}]
    BY <2>1, <1>6 DEF Return, TypeOK
  <2>5. QED
    BY <2>3, <2>4, <1>6 DEF Return, TypeOK, context
<1>7. CASE Answer
  <2>1. Top.acc \in Ranks
    BY <1>7, TopType DEF Answer, Frame
  <2>2. decision' \in [Names \cup Args -> Ranks \cup {Undecided}]
    BY <2>1, <1>7 DEF Answer, TypeOK
  <2>3. QED
    BY <2>2, <1>7 DEF Answer, TypeOK, StackShape, context
<1>8. CASE UNCHANGED vars
  BY <1>8, <1>c DEF vars, context, TypeOK, StackShape
<1>9. QED
  BY <1>1, <1>2, <1>3, <1>4, <1>5, <1>6, <1>7, <1>8 DEF Next, Walk

(* Every reachable state is well-typed: the memo of every name, the call   *)
(* stack and the answers, for any IR file.                                 *)
THEOREM TypeCorrect == Spec => []TypeOK
<1>1. TInv => TypeOK
  BY DEF TInv
<1>2. QED
  BY <1>1, InitTInv, NextTInv, PTL DEF Spec

----------------------------------------------------------------------------
(***************************************************************************)
(* One-sided soundness.  Justified speaks of the memo and of the answers   *)
(* only; it is made inductive by                                           *)
(*   - StackBelow: what a call has accumulated so far is below every rank  *)
(*     that covers the leaves it folds (for a memoised call, the bound of  *)
(*     its name);                                                          *)
(*   - Chain: every call on the stack was made for the leaf its caller     *)
(*     stands at, so that the answer handed back is the one awaited.       *)
(***************************************************************************)
Limits(bound, f, rank) ==
  IF f.memo THEN rank = bound[f.name] ELSE Covers(bound, CallerLeaves(f.name), rank)

StackBelow(bound, frames) ==
  \A i \in 1 .. Len(frames), rank \in Levels :
     Limits(bound, frames[i], rank) => frames[i].acc <= rank

Calls(f, n) ==
  /\ f.pos \in DOMAIN FrameLeaves(f)
  /\ IsRef(FrameLeaves(f)[f.pos])
  /\ FrameLeaves(f)[f.pos].base = n

Chain(frames) == \A i \in 1 .. Len(frames) - 1 : Calls(frames[i], frames[i + 1].name)

JInv ==
  /\ TInv
  /\ Chain(stack)
  /\ \A bound \in Bounds : StackBelow(bound, stack)
  /\ Justified

(* The IR file does not change, and nothing that only depends on it does. *)
LEMMA RigidContext ==
  ASSUME UNCHANGED context
  PROVE  /\ Chain(stack)' <=> Chain(stack')
         /\ Bounds' = Bounds
         /\ Levels' = Levels
         /\ Callers' = Callers
         /\ \A bound : StackBelow(bound, stack)' <=> StackBelow(bound, stack')
         /\ \A bound, c, rank :
              Covers(bound, CallerLeaves(c), rank)' <=> Covers(bound, CallerLeaves(c), rank)
<1> USE DEF context
<1>1. Chain(stack)' <=> Chain(stack')
  BY DEF Chain, Calls, FrameLeaves, MemoLeaves, CallerLeaves, IsRef
<1>2. Levels' = Levels
  BY DEF Levels
<1>3. Bounds' = Bounds
  BY <1>2 DEF Bounds, IsBound, MemoStart, Covers, MemoLeaves, IsRef, LeafRank
<1>4. Callers' = Callers
  BY DEF Callers, DeriveCallers
<1>5. \A bound : StackBelow(bound, stack)' <=> StackBelow(bound, stack')
  BY <1>2 DEF StackBelow, Limits, Covers, CallerLeaves, IsRef, LeafRank
<1>6. \A bound, c, rank :
        Covers(bound, CallerLeaves(c), rank)' <=> Covers(bound, CallerLeaves(c), rank)
  BY DEF Covers, CallerLeaves, IsRef, LeafRank
<1>7. QED
  BY <1>1, <1>2, <1>3, <1>4, <1>5, <1>6

LEMMA LevelsAreRanks == Levels \subseteq Ranks
BY DEF Levels, Ranks

LEMMA CombineBelow ==
  ASSUME analysis \in Analyses, NEW a \in Ranks, NEW b \in Ranks, NEW rank \in Levels,
         a <= rank, b <= rank
  PROVE  Combine(a, b) <= rank
<1>1. CASE analysis = "safety"
  BY <1>1, CombineSafetyIsMax DEF Combine
<1>2. CASE analysis # "safety"
  <2>1. rank \in {0, 1}
    BY <1>2 DEF Levels
  <2>2. CASE rank = 1
    BY <1>2, <2>2 DEF Combine, Yes
  <2>3. CASE rank = 0
    <3>1. a = 0 /\ b = 0
      BY <2>3 DEF Ranks
    <3>2. QED
      BY <1>2, <2>3, <3>1 DEF Combine, Yes
  <2>4. QED
    BY <2>1, <2>2, <2>3
<1>3. QED
  BY <1>1, <1>2

LEMMA BoundType ==
  ASSUME NEW bound \in Bounds, NEW n \in Names
  PROVE  /\ bound[n] \in Levels
         /\ bound[n] \in Nat
         /\ MemoStart(n) <= bound[n]
         /\ Covers(bound, MemoLeaves(n), bound[n])
<1>1. bound \in [Names -> Levels] /\ IsBound(bound)
  BY DEF Bounds
<1>2. bound[n] \in Levels
  BY <1>1
<1>3. bound[n] \in Nat
  <2>1. bound[n] \in Ranks
    BY <1>2, LevelsAreRanks
  <2>2. QED
    BY <2>1 DEF Ranks
<1>4. QED
  BY <1>1, <1>2, <1>3 DEF IsBound

LEMMA LimitCovers ==
  ASSUME NEW bound \in Bounds, NEW f \in Frame, f.memo => f.name \in Names,
         NEW rank \in Levels, Limits(bound, f, rank)
  PROVE  Covers(bound, FrameLeaves(f), rank)
<1>1. CASE f.memo
  BY <1>1, BoundType DEF Limits, FrameLeaves
<1>2. CASE ~f.memo
  BY <1>2 DEF Limits, FrameLeaves
<1>3. QED
  BY <1>1, <1>2

(* A call that has got an answer below every bound for its next leaf stays *)
(* below what covers its leaves.                                           *)
LEMMA SteppedBelow ==
  ASSUME analysis \in Analyses, NEW bound \in Bounds,
         NEW f \in Frame, f.memo => f.name \in Names, f.pos \in DOMAIN FrameLeaves(f),
         NEW got \in Ranks,
         IF IsRef(FrameLeaves(f)[f.pos])
           THEN FrameLeaves(f)[f.pos].base \in Names /\ got <= bound[FrameLeaves(f)[f.pos].base]
           ELSE got = LeafRank(FrameLeaves(f)[f.pos]),
         NEW rank \in Levels, Limits(bound, Stepped(f, got), rank),
         Limits(bound, f, rank) => f.acc <= rank
  PROVE  Stepped(f, got).acc <= rank
<1> DEFINE leaf == FrameLeaves(f)[f.pos]
<1>1. Limits(bound, f, rank)
  BY DEF Limits, Stepped
<1>2. Covers(bound, FrameLeaves(f), rank)
  BY <1>1, LimitCovers
<1>3. IF IsRef(leaf) THEN bound[leaf.base] <= rank ELSE LeafRank(leaf) <= rank
  BY <1>2 DEF Covers
<1>4. got <= rank
  <2>1. CASE IsRef(leaf)
    <3>1. bound[leaf.base] \in Nat /\ rank \in Nat /\ got \in Nat
      BY <2>1, BoundType, LevelsAreRanks DEF Ranks
    <3>2. QED
      BY <3>1, <2>1, <1>3
  <2>2. CASE ~IsRef(leaf)
    BY <2>2, <1>3
  <2>3. QED
    BY <2>1, <2>2
<1>5. f.acc \in Ranks /\ f.acc <= rank
  BY <1>1 DEF Frame
<1>6. Stepped(f, got).acc = Combine(f.acc, got)
  BY DEF Stepped
<1>7. QED
  BY <1>4, <1>5, <1>6, CombineBelow

(* What the stack is after each kind of step. *)
LEMMA AdvanceStack ==
  ASSUME TInv, Walking, NEW rank \in Ranks, stack' = Advanced(stack, rank)
  PROVE  /\ Len(stack') = Len(stack)
         /\ stack'[Len(stack)] = Stepped(Top, rank)
         /\ \A i \in 1 .. Len(stack) - 1 : stack'[i] = stack[i]
<1>1. stack # <<>> /\ stack \in Seq(Frame) /\ analysis \in Analyses
  BY DEF Walking, TInv, TypeOK, Analyses
<1>2. Len(stack) \in Nat \ {0} /\ Top = stack[Len(stack)]
  BY <1>1, TopType
<1>3. /\ Len(stack') = Len(stack)
      /\ \A i \in 1 .. Len(stack) :
           stack'[i] = IF i = Len(stack) THEN Stepped(stack[i], rank) ELSE stack[i]
  BY <1>1, AdvancedType
<1>4. QED
  BY <1>2, <1>3

LEMMA DescendStack ==
  ASSUME TInv, Descend
  PROVE  LET m == NextLeaf.base
         IN /\ m \in Names
            /\ Len(stack') = Len(stack) + 1
            /\ stack'[Len(stack) + 1] = [memo |-> TRUE, name |-> m, pos |-> 1,
                                         acc |-> MemoStart(m)]
            /\ \A i \in 1 .. Len(stack) : stack'[i] = stack[i]
<1> DEFINE m == NextLeaf.base
           f == [memo |-> TRUE, name |-> m, pos |-> 1, acc |-> MemoStart(m)]
<1>1. m \in Names
  BY NextLeafType DEF Descend
<1>2. analysis \in Analyses
  BY DEF TInv, TypeOK, Analyses
<1>3. f \in Frame
  BY <1>1, <1>2, MemoStartType DEF Frame
<1>4. stack \in Seq(Frame)
  BY DEF TInv, TypeOK
<1>5. stack' = Append(stack, f)
  BY DEF Descend
<1> HIDE DEF f
<1>6. /\ Len(stack') = Len(stack) + 1
      /\ stack'[Len(stack) + 1] = f
      /\ \A i \in 1 .. Len(stack) : stack'[i] = stack[i]
  BY <1>3, <1>4, <1>5, AppendProperties
<1>7. QED
  BY <1>1, <1>6 DEF f

LEMMA ReturnStack ==
  ASSUME TInv, Return
  PROVE  LET k == Len(stack) - 1
         IN /\ k \in Nat \ {0}
            /\ Top = stack[k + 1]
            /\ Len(stack') = k
            /\ stack'[k] = Stepped(stack[k], Top.acc)
            /\ \A i \in 1 .. k - 1 : stack'[i] = stack[i]
<1> DEFINE k == Len(stack) - 1
<1>1. /\ Front(stack) \in Seq(Frame)
      /\ Len(Front(stack)) = k
      /\ k \in Nat \ {0}
      /\ Front(stack) # <<>>
      /\ \A i \in 1 .. k : Front(stack)[i] = stack[i]
  BY FrontType DEF Return
<1>2. Top.acc \in Ranks /\ Top = stack[Len(stack)] /\ Len(stack) \in Nat
  BY TopType DEF Return, Frame
<1>3. analysis \in Analyses
  BY DEF TInv, TypeOK, Analyses
<1>4. stack' = Advanced(Front(stack), Top.acc)
  BY DEF Return
<1>5. /\ Len(stack') = k
      /\ \A i \in 1 .. k :
           stack'[i] = IF i = k THEN Stepped(Front(stack)[i], Top.acc) ELSE Front(stack)[i]
  BY <1>1, <1>2, <1>3, <1>4, AdvancedType
<1>6. QED
  BY <1>1, <1>2, <1>5

LEMMA InitJInv == Init => JInv
<1> SUFFICES ASSUME Init PROVE JInv
  OBVIOUS
<1>1. TInv
  BY InitTInv
<1>2. Chain(stack) /\ \A bound \in Bounds : StackBelow(bound, stack)
  BY DEF Init, Chain, StackBelow
<1>3. \A c \in Callers : decision[c] = Undecided
  BY CallersKnown DEF Init
<1>4. Justified
  BY <1>3 DEF Init, Justified, Computed, Answered
<1>5. QED
  BY <1>1, <1>2, <1>4 DEF JInv

(* The answer for the next leaf is below every bound: what VisitLeaf and    *)
(* VisitCached do to the stack.                                            *)
LEMMA AdvanceJInv ==
  ASSUME JInv, Walking, NEW got \in Ranks, stack' = Advanced(stack, got),
         UNCHANGED context,
         \A bound \in Bounds :
            IF IsRef(NextLeaf) THEN got <= bound[NextLeaf.base] ELSE got = LeafRank(NextLeaf)
  PROVE  Chain(stack)' /\ (\A bound \in Bounds : StackBelow(bound, stack))'
<1>1. TInv /\ analysis \in Analyses
  BY DEF JInv, TInv, TypeOK, Analyses
<1>2. /\ Len(stack) \in Nat \ {0}
      /\ Top = stack[Len(stack)]
      /\ Top \in Frame
      /\ Top.memo => Top.name \in Names
  BY <1>1, TopType DEF Walking
<1>3. /\ Top.pos \in DOMAIN FrameLeaves(Top)
      /\ NextLeaf = FrameLeaves(Top)[Top.pos]
      /\ IsRef(NextLeaf) => NextLeaf.base \in Names
  BY <1>1, NextLeafType
<1>4. /\ Len(stack') = Len(stack)
      /\ stack'[Len(stack)] = Stepped(Top, got)
      /\ \A i \in 1 .. Len(stack) - 1 : stack'[i] = stack[i]
  BY <1>1, AdvanceStack
<1>5. Chain(stack')
  <2> SUFFICES ASSUME NEW i \in 1 .. Len(stack') - 1
               PROVE  Calls(stack'[i], stack'[i + 1].name)
    BY DEF Chain
  <2>1. Calls(stack[i], stack[i + 1].name)
    BY <1>4 DEF JInv, Chain
  <2>2. stack'[i] = stack[i]
    BY <1>4
  <2>3. stack'[i + 1].name = stack[i + 1].name
    <3>1. CASE i + 1 = Len(stack)
      BY <3>1, <1>2, <1>4 DEF Stepped
    <3>2. CASE i + 1 # Len(stack)
      BY <3>2, <1>2, <1>4
    <3>3. QED
      BY <3>1, <3>2
  <2>4. QED
    BY <2>1, <2>2, <2>3
<1>6. ASSUME NEW bound \in Bounds PROVE StackBelow(bound, stack')
  <2>1. StackBelow(bound, stack)
    BY DEF JInv
  <2> SUFFICES ASSUME NEW i \in 1 .. Len(stack'), NEW rank \in Levels,
                      Limits(bound, stack'[i], rank)
               PROVE  stack'[i].acc <= rank
    BY DEF StackBelow
  <2>2. CASE i = Len(stack)
    <3>1. Limits(bound, Stepped(Top, got), rank)
      BY <2>2, <1>4
    <3>2. Limits(bound, Top, rank) => Top.acc <= rank
      BY <2>1, <1>2 DEF StackBelow
    <3>3. Stepped(Top, got).acc <= rank
      BY <3>1, <3>2, <1>1, <1>2, <1>3, SteppedBelow
    <3>4. QED
      BY <3>3, <2>2, <1>4
  <2>3. CASE i # Len(stack)
    <3>1. stack'[i] = stack[i] /\ i \in 1 .. Len(stack)
      BY <2>3, <1>2, <1>4
    <3>2. QED
      BY <3>1, <2>1 DEF StackBelow
  <2>4. QED
    BY <2>2, <2>3
<1>7. QED
  BY <1>5, <1>6, RigidContext

LEMMA NextJInv == JInv /\ [Next]_vars => JInv'
<1> SUFFICES ASSUME JInv, [Next]_vars PROVE JInv'
  OBVIOUS
<1>t. TInv /\ TInv' /\ TypeOK /\ analysis \in Analyses
  BY NextTInv DEF JInv, TInv, TypeOK, Analyses
<1>j. Justified /\ Chain(stack) /\ \A bound \in Bounds : StackBelow(bound, stack)
  BY DEF JInv
<1>u. UNCHANGED context
  <2>1. ASSUME NEW c \in Callers, Call(c) \/ CallAnnotated(c) PROVE UNCHANGED context
    BY <2>1 DEF Call, CallAnnotated
  <2>2. CASE VisitLeaf
    BY <2>2 DEF VisitLeaf
  <2>3. CASE VisitCached
    BY <2>3 DEF VisitCached
  <2>4. CASE Descend
    BY <2>4 DEF Descend
  <2>5. CASE Return
    BY <2>5 DEF Return
  <2>6. CASE Answer
    BY <2>6 DEF Answer
  <2>7. CASE UNCHANGED vars
    BY <2>7 DEF vars, context
  <2>8. QED
    BY <2>1, <2>2, <2>3, <2>4, <2>5, <2>6, <2>7 DEF Next, Walk
(* Neither the memo nor an answer changes. *)
<1>k. ASSUME UNCHANGED <<cache, decision>> PROVE Justified'
  <2>1. args' = args /\ cache' = cache /\ decision' = decision
    BY <1>k, <1>u DEF context
  <2>2. \A n : Computed(n)' <=> Computed(n)
    BY <2>1 DEF Computed
  <2>3. \A c : Answered(c)' <=> Answered(c)
    BY <2>1 DEF Answered, Annotated
  <2>4. QED
    BY <2>1, <2>2, <2>3, <1>j, <1>u, RigidContext DEF Justified
<1>1. ASSUME NEW c \in Callers, Call(c) PROVE JInv'
  <2>1. /\ stack' = <<[memo |-> FALSE, name |-> c, pos |-> 1, acc |-> 0]>>
        /\ Len(stack') = 1
    BY <1>1 DEF Call
  <2>2. Chain(stack')
    BY <2>1 DEF Chain
  <2>3. \A bound \in Bounds : StackBelow(bound, stack')
    <3>1. stack'[1].acc = 0
      BY <2>1
    <3>2. \A rank \in Levels : 0 <= rank
      BY DEF Levels, Ranks
    <3>3. QED
      BY <2>1, <3>1, <3>2 DEF StackBelow
  <2>4. Justified'
    BY <1>1, <1>k DEF Call
  <2>5. QED
    BY <2>2, <2>3, <2>4, <1>t, <1>u, RigidContext DEF JInv
<1>2. ASSUME NEW c \in Callers, CallAnnotated(c) PROVE JInv'
  <2>1. stack' = stack /\ cache' = cache /\ args' = args
    BY <1>2, <1>u DEF CallAnnotated, context
  <2>2. \A n : Computed(n)' <=> Computed(n)
    BY <2>1 DEF Computed
  <2>3. \A d \in Callers : Answered(d)' => Answered(d) /\ decision'[d] = decision[d]
    <3> SUFFICES ASSUME NEW d \in Callers, Answered(d)'
                 PROVE  Answered(d) /\ decision'[d] = decision[d]
      OBVIOUS
    <3>1. ~Annotated(d) /\ decision'[d] # Undecided
      BY <2>1 DEF Answered, Annotated
    <3>2. decision' = [decision EXCEPT ![c] = AnnotatedRank(c)] /\ Annotated(c)
      BY <1>2 DEF CallAnnotated
    <3>3. d # c /\ decision'[d] = decision[d]
      BY <3>1, <3>2
    <3>4. QED
      BY <3>1, <3>3 DEF Answered
  <2>4. Justified'
    BY <2>1, <2>2, <2>3, <1>j, <1>u, RigidContext DEF Justified
  <2>5. QED
    BY <2>1, <2>4, <1>t, <1>j, <1>u, RigidContext DEF JInv
<1>3. CASE VisitLeaf
  <2>1. Walking /\ ~IsRef(NextLeaf) /\ stack' = Advanced(stack, LeafRank(NextLeaf))
    BY <1>3 DEF VisitLeaf
  <2>2. LeafRank(NextLeaf) \in Ranks
    BY <2>1, <1>t, NextLeafType, LeafRankType
  <2>3. Chain(stack)' /\ (\A bound \in Bounds : StackBelow(bound, stack))'
    BY <2>1, <2>2, <1>u, AdvanceJInv
  <2>4. Justified'
    BY <1>3, <1>k DEF VisitLeaf
  <2>5. QED
    BY <2>3, <2>4, <1>t DEF JInv
<1>4. CASE VisitCached
  <2> DEFINE m == NextLeaf.base
  <2>1. /\ Walking
        /\ IsRef(NextLeaf)
        /\ Computed(m)
        /\ stack' = Advanced(stack, cache[m])
    BY <1>4 DEF VisitCached
  <2>2. m \in Names /\ cache[m] \in Ranks
    BY <2>1, <1>t, NextLeafType DEF Computed, TypeOK, Unset, Ranks
  <2>3. \A bound \in Bounds : cache[m] <= bound[m]
    BY <2>1, <2>2, <1>j DEF Justified
  <2>4. Chain(stack)' /\ (\A bound \in Bounds : StackBelow(bound, stack))'
    BY <2>1, <2>2, <2>3, <1>u, AdvanceJInv
  <2>5. Justified'
    BY <1>4, <1>k DEF VisitCached
  <2>6. QED
    BY <2>4, <2>5, <1>t DEF JInv
<1>5. CASE Descend
  <2> DEFINE m == NextLeaf.base
             f == [memo |-> TRUE, name |-> m, pos |-> 1, acc |-> MemoStart(m)]
  <2>1. /\ m \in Names
        /\ Len(stack') = Len(stack) + 1
        /\ stack'[Len(stack) + 1] = f
        /\ \A i \in 1 .. Len(stack) : stack'[i] = stack[i]
    BY <1>5, <1>t, DescendStack
  <2>2. /\ Len(stack) \in Nat \ {0}
        /\ Top = stack[Len(stack)]
    BY <1>5, <1>t, TopType DEF Descend, Walking
  <2>3. Chain(stack')
    <3>1. Calls(Top, m)
      BY <1>5, <1>t, NextLeafType DEF Descend, Calls
    <3> SUFFICES ASSUME NEW i \in 1 .. Len(stack') - 1
                 PROVE  Calls(stack'[i], stack'[i + 1].name)
      BY DEF Chain
    <3>2. i \in 1 .. Len(stack) /\ stack'[i] = stack[i]
      BY <2>1, <2>2
    <3>3. CASE i = Len(stack)
      <4>1. stack'[i + 1].name = m
        BY <3>3, <2>1
      <4>2. QED
        BY <3>1, <3>2, <3>3, <4>1, <2>2
    <3>4. CASE i # Len(stack)
      <4>1. stack'[i + 1] = stack[i + 1] /\ i \in 1 .. Len(stack) - 1
        BY <3>2, <3>4, <2>1, <2>2
      <4>2. QED
        BY <3>2, <4>1, <1>j DEF Chain
    <3>5. QED
      BY <3>3, <3>4
  <2>4. ASSUME NEW bound \in Bounds PROVE StackBelow(bound, stack')
    <3> SUFFICES ASSUME NEW i \in 1 .. Len(stack'), NEW rank \in Levels,
                        Limits(bound, stack'[i], rank)
                 PROVE  stack'[i].acc <= rank
      BY DEF StackBelow
    <3>1. CASE i = Len(stack) + 1
      <4>1. stack'[i] = f
        BY <3>1, <2>1
      <4>2. rank = bound[m]
        BY <4>1 DEF Limits
      <4>3. QED
        BY <4>1, <4>2, <2>1, BoundType
    <3>2. CASE i # Len(stack) + 1
      <4>1. i \in 1 .. Len(stack) /\ stack'[i] = stack[i]
        BY <3>2, <2>1, <2>2
      <4>2. QED
        BY <4>1, <1>j DEF StackBelow
    <3>3. QED
      BY <3>1, <3>2
  <2>5. Justified'
    <3>1. \/ cache' = cache
          \/ cache' = [cache EXCEPT ![m] = Provisional]
      BY <1>5 DEF Descend
    <3>2. decision' = decision /\ args' = args
      BY <1>5, <1>u DEF Descend, context
    <3>3. CASE cache' = cache
      BY <3>2, <3>3, <1>k
    <3>4. CASE cache' = [cache EXCEPT ![m] = Provisional]
      <4>1. \A c : Answered(c)' <=> Answered(c)
        BY <3>2 DEF Answered, Annotated
      <4>2. ASSUME NEW bound \in Bounds, NEW n \in Names, cache'[n] # Unset
            PROVE  cache'[n] <= bound[n]
        <5>1. CASE n = m
          <6>1. cache'[n] = 0
            BY <5>1, <3>4, <1>t DEF TypeOK, Provisional
          <6>2. QED
            BY <6>1, BoundType
        <5>2. CASE n # m
          <6>1. cache'[n] = cache[n]
            BY <5>2, <3>4, <1>t DEF TypeOK
          <6>2. QED
            BY <6>1, <4>2, <1>j DEF Justified, Computed
        <5>3. QED
          BY <5>1, <5>2
      <4>3. QED
        BY <3>2, <4>1, <4>2, <1>j, <1>u, RigidContext DEF Justified, Computed
    <3>5. QED
      BY <3>1, <3>3, <3>4
  <2>6. QED
    BY <2>3, <2>4, <2>5, <1>t, <1>u, RigidContext DEF JInv
<1>6. CASE Return
  <2> DEFINE k == Len(stack) - 1
             g == stack[k]
  <2>1. /\ k \in Nat \ {0}
        /\ Top = stack[k + 1]
        /\ Len(stack') = k
        /\ stack'[k] = Stepped(g, Top.acc)
        /\ \A i \in 1 .. k - 1 : stack'[i] = stack[i]
    BY <1>6, <1>t, ReturnStack
  <2>2. Top.memo /\ Top.name \in Names /\ Top.acc \in Ranks
    BY <1>6, <1>t, TopType DEF Return, Frame
  <2>3. g \in Frame /\ (g.memo => g.name \in Names)
    BY <2>1, <1>t, ElementOfSeq DEF TInv, TypeOK, StackShape
  <2>4. Calls(g, Top.name)
    BY <2>1, <1>j DEF Chain
  <2>5. \A bound \in Bounds : Top.acc <= bound[Top.name]
    <3> SUFFICES ASSUME NEW bound \in Bounds PROVE Top.acc <= bound[Top.name]
      OBVIOUS
    <3>1. bound[Top.name] \in Levels
      BY <2>2, BoundType
    <3>2. Limits(bound, stack[k + 1], bound[Top.name])
      BY <2>1, <2>2 DEF Limits
    <3>3. StackBelow(bound, stack) /\ k + 1 \in 1 .. Len(stack)
      BY <2>1, <1>j
    <3>4. QED
      BY <2>1, <3>1, <3>2, <3>3 DEF StackBelow
  <2>6. Chain(stack')
    <3> SUFFICES ASSUME NEW i \in 1 .. k - 1
                 PROVE  Calls(stack'[i], stack'[i + 1].name)
      BY <2>1 DEF Chain
    <3>1. Calls(stack[i], stack[i + 1].name)
      BY <2>1, <1>j DEF Chain
    <3>2. stack'[i + 1].name = stack[i + 1].name
      <4>1. CASE i + 1 = k
        BY <4>1, <2>1 DEF Stepped
      <4>2. CASE i + 1 # k
        BY <4>2, <2>1
      <4>3. QED
        BY <4>1, <4>2
    <3>3. QED
      BY <3>1, <3>2, <2>1
  <2>7. ASSUME NEW bound \in Bounds PROVE StackBelow(bound, stack')
    <3> SUFFICES ASSUME NEW i \in 1 .. k, NEW rank \in Levels,
                        Limits(bound, stack'[i], rank)
                 PROVE  stack'[i].acc <= rank
      BY <2>1 DEF StackBelow
    <3>1. CASE i = k
      <4>1. Limits(bound, Stepped(g, Top.acc), rank)
        BY <3>1, <2>1
      <4>2. Limits(bound, g, rank) => g.acc <= rank
        BY <2>1, <1>j DEF StackBelow
      <4>3. /\ g.pos \in DOMAIN FrameLeaves(g)
            /\ IsRef(FrameLeaves(g)[g.pos])
            /\ FrameLeaves(g)[g.pos].base = Top.name
        BY <2>4 DEF Calls
      <4> HIDE DEF g
      <4>4. Stepped(g, Top.acc).acc <= rank
        BY <4>1, <4>2, <4>3, <2>2, <2>3, <2>5, <1>t, SteppedBelow
      <4>5. QED
        BY <4>4, <3>1, <2>1
    <3>2. CASE i # k
      <4>1. stack'[i] = stack[i] /\ i \in 1 .. Len(stack)
        BY <3>2, <2>1
      <4>2. QED
        BY <4>1, <1>j DEF StackBelow
    <3>3. QED
      BY <3>1, <3>2
  <2>8. Justified'
    <3>1. cache' = [cache EXCEPT ![Top.name] = Top.acc] /\ decision' = decision /\ args' = args
      BY <1>6, <1>u DEF Return, context
    <3>2. \A c : Answered(c)' <=> Answered(c)
      BY <3>1 DEF Answered, Annotated
    <3>3. ASSUME NEW bound \in Bounds, NEW n \in Names, cache'[n] # Unset
          PROVE  cache'[n] <= bound[n]
      <4>1. CASE n = Top.name
        BY <4>1, <3>1, <2>5, <1>t DEF TypeOK
      <4>2. CASE n # Top.name
        <5>1. cache'[n] = cache[n]
          BY <4>2, <3>1, <1>t DEF TypeOK
        <5>2. QED
          BY <5>1, <3>3, <1>j DEF Justified, Computed
      <4>3. QED
        BY <4>1, <4>2
    <3>4. QED
      BY <3>1, <3>2, <3>3, <1>j, <1>u, RigidContext DEF Justified, Computed
  <2>9. QED
    BY <2>6, <2>7, <2>8, <1>t, <1>u, RigidContext DEF JInv
<1>7. CASE Answer
  <2>1. /\ stack' = <<>>
        /\ cache' = cache
        /\ args' = args
        /\ decision' = [decision EXCEPT ![Top.name] = Top.acc]
        /\ ~Top.memo
    BY <1>7, <1>u DEF Answer, context
  <2>2. Chain(stack') /\ \A bound \in Bounds : StackBelow(bound, stack')
    BY <2>1 DEF Chain, StackBelow
  <2>3. /\ Len(stack) \in Nat \ {0}
        /\ Top = stack[Len(stack)]
        /\ Top.name \in Callers
    BY <1>7, <1>t, TopType DEF Answer
  <2>4. ASSUME NEW bound \in Bounds, NEW rank \in Levels,
               Covers(bound, CallerLeaves(Top.name), rank)
        PROVE  Top.acc <= rank
    <3>1. Limits(bound, stack[Len(stack)], rank)
      BY <2>1, <2>3, <2>4 DEF Limits
    <3>2. QED
      BY <3>1, <2>3, <1>j DEF StackBelow
  <2>5. \A n : Computed(n)' <=> Computed(n)
    BY <2>1 DEF Computed
  <2>6. \A c \in Callers : c # Top.name =>
          (Answered(c)' <=> Answered(c)) /\ decision'[c] = decision[c]
    BY <2>1 DEF Answered, Annotated
  <2>7. decision'[Top.name] = Top.acc
    BY <2>1, <2>3, <1>t, CallersKnown DEF TypeOK
  <2>8. ASSUME NEW bound \in Bounds, NEW c \in Callers, Answered(c)', NEW rank \in Levels,
               Covers(bound, CallerLeaves(c), rank)
        PROVE  decision'[c] <= rank
    <3>1. CASE c = Top.name
      BY <3>1, <2>4, <2>7, <2>8
    <3>2. CASE c # Top.name
      BY <3>2, <2>6, <2>8, <1>j DEF Justified
    <3>3. QED
      BY <3>1, <3>2
  <2>9. Justified'
    BY <2>1, <2>5, <2>8, <1>j, <1>u, RigidContext DEF Justified
  <2>10. QED
    BY <2>2, <2>9, <1>t, <1>u, RigidContext DEF JInv
<1>8. CASE UNCHANGED vars
  <2>1. stack' = stack /\ UNCHANGED <<cache, decision>>
    BY <1>8 DEF vars
  <2>2. QED
    BY <2>1, <1>k, <1>j, <1>t, <1>u, RigidContext DEF JInv
<1>9. QED
  BY <1>1, <1>2, <1>3, <1>4, <1>5, <1>6, <1>7, <1>8 DEF Next, Walk

(* A memoised or returned answer is never higher than what the definition  *)
(* it stands for warrants, for any IR file and any order of questions.     *)
THEOREM OneSidedSound == Spec => []Justified
<1>1. JInv => Justified
  BY DEF JInv
<1>2. QED
  BY <1>1, InitJInv, NextJInv, PTL DEF Spec

----------------------------------------------------------------------------
(***************************************************************************)
(* Bounded recursion.  A walk that breaks cycles has an entry in the memo  *)
(* for every name on its stack, and enters only names without one; the     *)
(* walk of is_copy descends from alias to alias, so that the heights of    *)
(* the names on its stack decrease.                                        *)
(***************************************************************************)
AliasHeight(height) ==
  \A n \in Names : types[n].form = "alias" =>
    \A i \in DOMAIN types[n].leaves :
      LET leaf == types[n].leaves[i]
      IN leaf.base \in Names /\ leaf.shape = "item" => height[leaf.base] < height[n]

AliasHeights == {height \in [Names -> 0 .. Cardinality(Names)] : AliasHeight(height)}

EnteredComputed ==
  BreaksCycles => \A i \in 2 .. Len(stack) : Computed(stack[i].name)

EnteredLower ==
  ~BreaksCycles =>
    \A height \in AliasHeights, i, j \in 2 .. Len(stack) :
      i < j => height[stack[j].name] < height[stack[i].name]

NInv ==
  /\ TInv
  /\ AliasHeights # {}
  /\ EnteredComputed
  /\ EnteredLower
  /\ NeverReentered

LEMMA InitNInv == Init => NInv
<1> SUFFICES ASSUME Init PROVE NInv
  OBVIOUS
<1>1. TInv
  BY InitTInv
<1>2. AliasHeights # {}
  <2>1. AliasesGrounded(types)
    BY InputsAssumption DEF Init
  <2>2. PICK height \in [Names -> 0 .. Cardinality(Names)] : AliasHeight(height)
    BY <2>1 DEF AliasesGrounded, AliasHeight
  <2>3. QED
    BY <2>2 DEF AliasHeights
<1>3. EnteredComputed /\ EnteredLower /\ NeverReentered
  BY DEF Init, EnteredComputed, EnteredLower, NeverReentered
<1>4. QED
  BY <1>1, <1>2, <1>3 DEF NInv

(* A step that keeps the names on the stack, or takes the last one off it. *)
LEMMA KeepsEntered ==
  ASSUME NInv, UNCHANGED context,
         Len(stack') \in Nat, Len(stack) \in Nat, Len(stack') <= Len(stack),
         \A i \in 2 .. Len(stack') : stack'[i].name = stack[i].name,
         \A n \in Names : Computed(n) => Computed(n)'
  PROVE  AliasHeights' # {} /\ EnteredComputed' /\ EnteredLower' /\ NeverReentered'
<1>1. AliasHeights' = AliasHeights
  BY DEF AliasHeights, AliasHeight, context
<1>2. BreaksCycles' <=> BreaksCycles
  BY DEF BreaksCycles, context
<1>3. \A i \in 2 .. Len(stack') : i \in 2 .. Len(stack) /\ stack'[i].name = stack[i].name
  OBVIOUS
<1>4. \A i \in 2 .. Len(stack) : stack[i].name \in Names
  BY DEF NInv, TInv, StackShape
<1>5. EnteredComputed'
  <2> SUFFICES ASSUME BreaksCycles, NEW i \in 2 .. Len(stack')
               PROVE  cache'[stack'[i].name] # Unset
    BY <1>2 DEF EnteredComputed, Computed
  <2>1. Computed(stack[i].name)
    BY <1>3 DEF NInv, EnteredComputed
  <2>2. QED
    BY <2>1, <1>3, <1>4 DEF Computed
<1>6. EnteredLower'
  BY <1>1, <1>2, <1>3 DEF NInv, EnteredLower
<1>7. NeverReentered'
  BY <1>3 DEF NInv, NeverReentered
<1>8. QED
  BY <1>1, <1>5, <1>6, <1>7 DEF NInv

LEMMA DescendNInv ==
  ASSUME NInv, Descend
  PROVE  AliasHeights' # {} /\ EnteredComputed' /\ EnteredLower' /\ NeverReentered'
<1> DEFINE m == NextLeaf.base
           k == Len(stack)
<1>1. /\ m \in Names
      /\ Len(stack') = k + 1
      /\ stack'[k + 1].name = m
      /\ \A i \in 1 .. k : stack'[i] = stack[i]
  BY DescendStack DEF NInv
<1>2. /\ k \in Nat \ {0}
      /\ Top = stack[k]
      /\ Top.memo <=> k > 1
      /\ Top.memo => Top.name \in Names
  BY TopType DEF NInv, Descend, Walking
<1>3. AliasHeights' = AliasHeights /\ (BreaksCycles' <=> BreaksCycles)
  BY DEF AliasHeights, AliasHeight, BreaksCycles, Descend, context
<1>4. /\ IsRef(NextLeaf) /\ ~Computed(m)
      /\ cache' = IF BreaksCycles THEN [cache EXCEPT ![m] = Provisional] ELSE cache
  BY DEF Descend
<1>5. cache \in [Names -> Ranks \cup {Unset}]
  BY DEF NInv, TInv, TypeOK
<1>6. \A i \in 2 .. k : stack'[i].name = stack[i].name /\ stack[i].name \in Names
  BY <1>1, <1>2 DEF NInv, TInv, StackShape
<1> HIDE DEF m, k
<1>7. EnteredComputed'
  <2> SUFFICES ASSUME BreaksCycles, NEW i \in 2 .. k + 1
               PROVE  cache'[stack'[i].name] # Unset
    BY <1>1, <1>3 DEF EnteredComputed, Computed
  <2>1. cache' = [cache EXCEPT ![m] = 0]
    BY <1>4 DEF Provisional
  <2>2. CASE i = k + 1
    BY <2>1, <2>2, <1>1, <1>5 DEF Unset
  <2>3. CASE i # k + 1
    <3>1. i \in 2 .. k
      BY <2>3, <1>2
    <3>2. cache[stack[i].name] # Unset /\ stack'[i].name \in Names
      BY <3>1, <1>6 DEF NInv, EnteredComputed, Computed, k
    <3>3. QED
      BY <3>1, <3>2, <2>1, <1>5, <1>6 DEF Unset
  <2>4. QED
    BY <2>2, <2>3
<1>8. ASSUME ~BreaksCycles, NEW height \in AliasHeights, NEW i \in 2 .. k
      PROVE  height[m] < height[stack[i].name]
  <2>1. Top.memo /\ Top.name \in Names /\ k \in 2 .. k
    BY <1>2
  <2>2. /\ Top.pos \in DOMAIN MemoLeaves(Top.name)
        /\ NextLeaf = MemoLeaves(Top.name)[Top.pos]
    BY <2>1, NextLeafType DEF NInv, Descend, FrameLeaves
  <2>3. analysis = "copy"
    BY <1>8 DEF BreaksCycles, NInv, TInv, TypeOK
  <2>4. types[Top.name].form = "alias" /\ MemoLeaves(Top.name) = types[Top.name].leaves
    <3>1. CASE types[Top.name].form \in {"alias"}
      BY <3>1, <2>3 DEF MemoLeaves
    <3>2. CASE types[Top.name].form \notin {"alias"}
      <4>1. MemoLeaves(Top.name) = <<>>
        BY <3>2, <2>3 DEF MemoLeaves
      <4>2. QED
        BY <4>1, <2>2
    <3>3. QED
      BY <3>1, <3>2
  <2>5. NextLeaf.shape = "item" /\ NextLeaf.base \in Names
    BY <1>4, <2>3 DEF IsRef
  <2>6. height[m] < height[Top.name]
    BY <2>1, <2>2, <2>4, <2>5 DEF AliasHeights, AliasHeight, m
  <2>7. height \in [Names -> 0 .. Cardinality(Names)]
    BY DEF AliasHeights
  <2>8. height[m] \in Int /\ height[Top.name] \in Int /\ height[stack[i].name] \in Int
    BY <2>1, <2>7, <1>1, <1>6
  <2>9. CASE i = k
    BY <2>6, <2>9, <1>2
  <2>10. CASE i # k
    <3>1. height[stack[k].name] < height[stack[i].name]
      BY <1>8, <2>1, <2>10 DEF NInv, EnteredLower, k
    <3>2. QED
      BY <3>1, <2>6, <2>8, <1>2
  <2>11. QED
    BY <2>9, <2>10
<1>9. EnteredLower'
  <2> SUFFICES ASSUME ~BreaksCycles, NEW height \in AliasHeights,
                      NEW i \in 2 .. k + 1, NEW j \in 2 .. k + 1, i < j
               PROVE  height[stack'[j].name] < height[stack'[i].name]
    BY <1>1, <1>3 DEF EnteredLower
  <2>1. i \in 2 .. k
    BY <1>2
  <2>2. CASE j = k + 1
    BY <2>1, <2>2, <1>1, <1>6, <1>8
  <2>3. CASE j # k + 1
    <3>1. j \in 2 .. k
      BY <2>3, <1>2
    <3>2. height[stack[j].name] < height[stack[i].name]
      BY <2>1, <3>1 DEF NInv, EnteredLower, k
    <3>3. QED
      BY <2>1, <3>1, <3>2, <1>6
  <2>4. QED
    BY <2>2, <2>3
<1>10. ASSUME NEW i \in 2 .. k PROVE stack[i].name # m
  <2>1. CASE BreaksCycles
    BY <2>1, <1>4 DEF NInv, EnteredComputed, k
  <2>2. CASE ~BreaksCycles
    <3>1. PICK height \in AliasHeights : TRUE
      BY DEF NInv
    <3>2. height[m] < height[stack[i].name]
      BY <2>2, <1>8
    <3>3. height[m] \in Int
      BY <1>1 DEF AliasHeights
    <3>4. QED
      BY <3>2, <3>3
  <2>3. QED
    BY <2>1, <2>2
<1>11. NeverReentered'
  <2> SUFFICES ASSUME NEW i \in 2 .. k + 1, NEW j \in 2 .. k + 1,
                      stack'[i].name = stack'[j].name
               PROVE  i = j
    BY <1>1 DEF NeverReentered
  <2>1. CASE i \in 2 .. k /\ j \in 2 .. k
    BY <2>1, <1>6 DEF NInv, NeverReentered, k
  <2>2. CASE i \in 2 .. k /\ j = k + 1
    BY <2>2, <1>1, <1>6, <1>10
  <2>3. CASE i = k + 1 /\ j \in 2 .. k
    BY <2>3, <1>1, <1>6, <1>10
  <2>4. QED
    BY <2>1, <2>2, <2>3, <1>2
<1>12. QED
  BY <1>3, <1>7, <1>9, <1>11 DEF NInv

LEMMA AdvanceKeepsNames ==
  ASSUME TInv, Walking, NEW rank \in Ranks, stack' = Advanced(stack, rank)
  PROVE  /\ Len(stack') = Len(stack)
         /\ \A i \in 2 .. Len(stack) : stack'[i].name = stack[i].name
<1>1. /\ Len(stack') = Len(stack)
      /\ stack'[Len(stack)] = Stepped(Top, rank)
      /\ \A i \in 1 .. Len(stack) - 1 : stack'[i] = stack[i]
  BY AdvanceStack
<1>2. Len(stack) \in Nat \ {0} /\ Top = stack[Len(stack)]
  BY TopType DEF Walking
<1>3. stack'[Len(stack)].name = stack[Len(stack)].name
  BY <1>1, <1>2 DEF Stepped
<1>4. QED
  BY <1>1, <1>2, <1>3

LEMMA NextNInv == NInv /\ [Next]_vars => NInv'
<1> SUFFICES ASSUME NInv, [Next]_vars PROVE NInv'
  OBVIOUS
<1>t. TInv /\ TInv' /\ Len(stack) \in Nat
  BY NextTInv DEF NInv, TInv, TypeOK
<1>1. ASSUME NEW c \in Callers, Call(c) PROVE NInv'
  <2>1. Len(stack') = 1 /\ stack = <<>> /\ UNCHANGED context /\ cache' = cache
    BY <1>1 DEF Call
  <2>2. AliasHeights' = AliasHeights
    BY <2>1 DEF AliasHeights, AliasHeight, context
  <2>3. EnteredComputed' /\ EnteredLower' /\ NeverReentered'
    BY <2>1 DEF EnteredComputed, EnteredLower, NeverReentered
  <2>4. QED
    BY <2>2, <2>3, <1>t DEF NInv
<1>2. ASSUME NEW c \in Callers, CallAnnotated(c) PROVE NInv'
  BY <1>2, <1>t, KeepsEntered DEF CallAnnotated, NInv, Computed
<1>3. CASE VisitLeaf
  <2>1. LeafRank(NextLeaf) \in Ranks
    BY <1>3, <1>t, NextLeafType, LeafRankType DEF VisitLeaf, TInv, TypeOK, Analyses
  <2>2. Len(stack') = Len(stack) /\ \A i \in 2 .. Len(stack) : stack'[i].name = stack[i].name
    BY <1>3, <1>t, <2>1, AdvanceKeepsNames DEF VisitLeaf
  <2>3. QED
    BY <1>3, <2>2, <1>t, KeepsEntered DEF VisitLeaf, NInv, Computed
<1>4. CASE VisitCached
  <2>1. cache[NextLeaf.base] \in Ranks
    BY <1>4, <1>t, NextLeafType DEF VisitCached, Computed, TInv, TypeOK, Unset, Ranks
  <2>2. Len(stack') = Len(stack) /\ \A i \in 2 .. Len(stack) : stack'[i].name = stack[i].name
    BY <1>4, <1>t, <2>1, AdvanceKeepsNames DEF VisitCached
  <2>3. QED
    BY <1>4, <2>2, <1>t, KeepsEntered DEF VisitCached, NInv, Computed
<1>5. CASE Descend
  BY <1>5, <1>t, DescendNInv DEF NInv
<1>6. CASE Return
  <2>1. /\ Len(stack') = Len(stack) - 1
        /\ Len(stack') \in Nat
        /\ \A i \in 2 .. Len(stack') : stack'[i].name = stack[i].name
    BY <1>6, <1>t, ReturnStack DEF Stepped
  <2>2. Top.acc \in Ranks
    BY <1>6, <1>t, TopType DEF Return, Frame
  <2>3. cache' = [cache EXCEPT ![Top.name] = Top.acc] /\ UNCHANGED context
    BY <1>6 DEF Return
  <2>4. cache \in [Names -> Ranks \cup {Unset}]
    BY <1>t DEF TInv, TypeOK
  <2>5. \A n \in Names : cache[n] # Unset => cache'[n] # Unset
    BY <2>2, <2>3, <2>4 DEF Ranks, Unset
  <2>6. QED
    BY <2>1, <2>3, <2>5, <1>t, KeepsEntered DEF NInv, Computed
<1>7. CASE Answer
  <2>1. Len(stack') = 0
    BY <1>7 DEF Answer
  <2>2. QED
    BY <1>7, <2>1, <1>t, KeepsEntered DEF Answer, NInv, Computed
<1>8. CASE UNCHANGED vars
  BY <1>8, <1>t, KeepsEntered DEF vars, NInv, Computed, context
<1>9. QED
  BY <1>1, <1>2, <1>3, <1>4, <1>5, <1>6, <1>7, <1>8 DEF Next, Walk

(* No walk enters a name that is still being answered, so its recursion is *)
(* never deeper than there are names, for any IR file.                     *)
THEOREM RecursionBounded == Spec => []NeverReentered
<1>1. NInv => NeverReentered
  BY DEF NInv
<1>2. QED
  BY <1>1, InitNInv, NextNInv, PTL DEF Spec

----------------------------------------------------------------------------
(***************************************************************************)
(* Exactness.  A memo entry is final when the call that computes it has    *)
(* returned: it is then never written again, and what is awaited is not    *)
(* final.  Every leaf that a call has visited is accounted for in what it  *)
(* has accumulated; of a name that a cycle can be reached from, only that  *)
(* it has an entry is known.                                               *)
(***************************************************************************)
Final(memo, frames, n) ==
  memo[n] # Unset /\ \A i \in 2 .. Len(frames) : frames[i].name # n

Accounted(memo, frames, height, leaf, rank) ==
  IF IsRef(leaf)
  THEN /\ memo[leaf.base] # Unset
       /\ height[leaf.base] > 0 =>
            Final(memo, frames, leaf.base) /\ memo[leaf.base] <= rank
  ELSE LeafRank(leaf) <= rank

\* A fold over all of the leaves, or one that was decided before.
Settled(memo, frames, height, leaves, rank) ==
  \/ Decisive(rank)
  \/ \A j \in DOMAIN leaves : Accounted(memo, frames, height, leaves[j], rank)

Visited(memo, frames, height, f) ==
  /\ f.memo => MemoStart(f.name) <= f.acc
  /\ \A j \in DOMAIN FrameLeaves(f) :
       j < f.pos => Accounted(memo, frames, height, FrameLeaves(f)[j], f.acc)

\* What is reached from a name without cycles comes at decreasing heights.
EnteredGrounded(frames) ==
  \A height \in Heights, i, j \in 2 .. Len(frames) :
    i < j /\ height[frames[i].name] > 0 =>
      height[frames[j].name] > 0 /\ height[frames[j].name] < height[frames[i].name]

InLevels(memo, frames, answers) ==
  /\ \A n \in Names : memo[n] # Unset => memo[n] \in Levels
  /\ \A i \in 1 .. Len(frames) : frames[i].acc \in Levels
  /\ \A c \in Callers : answers[c] # Undecided /\ ~Annotated(c) => answers[c] \in Levels

CallsAccount(memo, frames) ==
  \A height \in Heights, i \in 1 .. Len(frames) : Visited(memo, frames, height, frames[i])

MemoAccounts(memo, frames) ==
  \A height \in Heights, n \in Names :
    Final(memo, frames, n) =>
      MemoStart(n) <= memo[n] /\ Settled(memo, frames, height, MemoLeaves(n), memo[n])

AnswersAccount(memo, frames, answers) ==
  \A height \in Heights, c \in Callers :
    answers[c] # Undecided /\ ~Annotated(c) =>
      Settled(memo, frames, height, CallerLeaves(c), answers[c])

\* In the first walk of a fresh context, nothing that was memoised is higher
\* than what some call has accumulated, and in the end than the answer.
ColdBelow(memo, frames, answers, question) ==
  question.cold =>
    /\ question.caller \in Callers
    /\ frames # <<>> =>
         \A n \in Names : Final(memo, frames, n) =>
           \E i \in 1 .. Len(frames) : memo[n] <= frames[i].acc
    /\ frames = <<>> /\ answers[question.caller] # Undecided /\ ~Annotated(question.caller) =>
         \A n \in Names : memo[n] # Unset => memo[n] <= answers[question.caller]

QuestionAsked(frames, question) ==
  frames # <<>> => frames[1].name = question.caller /\ ~Annotated(frames[1].name)

XInv ==
  /\ EnteredGrounded(stack)
  /\ InLevels(cache, stack, decision)
  /\ CallsAccount(cache, stack)
  /\ MemoAccounts(cache, stack)
  /\ AnswersAccount(cache, stack, decision)
  /\ ColdBelow(cache, stack, decision, asked)
  /\ QuestionAsked(stack, asked)

(* The steps below are followed on explicit memos and stacks.              *)
LEMMA ExactRigid ==
  ASSUME UNCHANGED context
  PROVE  /\ EnteredGrounded(stack)' <=> EnteredGrounded(stack')
         /\ InLevels(cache, stack, decision)' <=> InLevels(cache', stack', decision')
         /\ CallsAccount(cache, stack)' <=> CallsAccount(cache', stack')
         /\ MemoAccounts(cache, stack)' <=> MemoAccounts(cache', stack')
         /\ AnswersAccount(cache, stack, decision)' <=> AnswersAccount(cache', stack', decision')
         /\ ColdBelow(cache, stack, decision, asked)' <=>
              ColdBelow(cache', stack', decision', asked')
         /\ QuestionAsked(stack, asked)' <=> QuestionAsked(stack', asked')
<1> USE DEF context
<1>1. Heights' = Heights
  BY DEF Heights, Grounds, Refs, MemoLeaves, IsRef
<1>2. Levels' = Levels /\ Callers' = Callers
  BY RigidContext
<1>3. EnteredGrounded(stack)' <=> EnteredGrounded(stack')
  BY <1>1 DEF EnteredGrounded
<1>4. InLevels(cache, stack, decision)' <=> InLevels(cache', stack', decision')
  BY <1>2 DEF InLevels, Annotated
<1>5. CallsAccount(cache, stack)' <=> CallsAccount(cache', stack')
  BY <1>1 DEF CallsAccount, Visited, MemoStart, FrameLeaves, MemoLeaves, CallerLeaves,
              Accounted, Final, IsRef, LeafRank
<1>6. MemoAccounts(cache, stack)' <=> MemoAccounts(cache', stack')
  BY <1>1 DEF MemoAccounts, Settled, Decisive, MemoStart, MemoLeaves,
              Accounted, Final, IsRef, LeafRank
<1>7. AnswersAccount(cache, stack, decision)' <=> AnswersAccount(cache', stack', decision')
  BY <1>1, <1>2 DEF AnswersAccount, Annotated, Settled, Decisive, CallerLeaves,
              Accounted, Final, IsRef, LeafRank
<1>8. ColdBelow(cache, stack, decision, asked)' <=> ColdBelow(cache', stack', decision', asked')
  BY <1>2 DEF ColdBelow, Annotated, Final
<1>9. QuestionAsked(stack, asked)' <=> QuestionAsked(stack', asked')
  BY DEF QuestionAsked, Annotated
<1>10. QED
  BY <1>3, <1>4, <1>5, <1>6, <1>7, <1>8, <1>9

(* Answers lie on a scale with a top, at which a fold may stop.            *)
TopLevel == IF analysis = "safety" THEN 3 ELSE 1

LEMMA LevelScale ==
  ASSUME analysis \in Analyses
  PROVE  /\ 0 \in Levels /\ TopLevel \in Levels
         /\ \A rank \in Levels : rank \in Ranks /\ rank \in Nat /\ rank <= TopLevel
         /\ \A rank : Decisive(rank) => rank = TopLevel
BY DEF Levels, TopLevel, Ranks, Decisive, Analyses

LEMMA LevelsOfTheWalk ==
  ASSUME analysis \in Analyses
  PROVE  /\ \A leaf \in Leaf : LeafRank(leaf) \in Levels
         /\ \A n : MemoStart(n) \in Levels
<1>1. ASSUME NEW leaf \in Leaf PROVE LeafRank(leaf) \in Levels
  <2>1. CASE analysis = "safety"
    BY <2>1, LeafRankType DEF Levels
  <2>2. CASE analysis # "safety"
    BY <2>2 DEF LeafRank, Levels, Yes, Analyses
  <2>3. QED
    BY <2>1, <2>2
<1>2. ASSUME NEW n PROVE MemoStart(n) \in Levels
  <2>1. CASE analysis = "safety"
    BY <2>1, MemoStartType DEF Levels
  <2>2. CASE analysis # "safety"
    BY <2>2 DEF MemoStart, Levels, Yes, Analyses
  <2>3. QED
    BY <2>1, <2>2
<1>3. QED
  BY <1>1, <1>2

LEMMA CombineAbove ==
  ASSUME analysis \in Analyses, NEW a \in Levels, NEW b \in Levels
  PROVE  /\ Combine(a, b) \in Levels
         /\ a <= Combine(a, b)
         /\ b <= Combine(a, b)
<1>1. CASE analysis = "safety"
  <2>1. a \in Ranks /\ b \in Ranks /\ Levels = Ranks
    BY <1>1 DEF Levels
  <2>2. Combine(a, b) = IF a >= b THEN a ELSE b
    BY <1>1, <2>1, CombineSafetyIsMax DEF Combine
  <2>3. QED
    BY <2>1, <2>2 DEF Ranks
<1>2. CASE analysis # "safety"
  <2>1. a \in {0, 1} /\ b \in {0, 1} /\ Levels = {0, 1}
    BY <1>2 DEF Levels
  <2>2. QED
    BY <1>2, <2>1 DEF Combine, Yes
<1>3. QED
  BY <1>1, <1>2

----------------------------------------------------------------------------
(* What stays accounted for when the memo and the stack change. *)
Extends(memo, frames, memo2, frames2) ==
  \A n \in Names :
    /\ memo[n] # Unset => memo2[n] # Unset
    /\ Final(memo, frames, n) => Final(memo2, frames2, n) /\ memo2[n] = memo[n]

Memos == [Names -> Ranks \cup {Unset}]

LEMMA AccountedKept ==
  ASSUME analysis \in Analyses, NEW memo \in Memos, NEW frames, NEW memo2, NEW frames2,
         Extends(memo, frames, memo2, frames2),
         NEW height, NEW leaf \in Leaf, NEW rank \in Ranks, NEW rank2 \in Ranks, rank <= rank2,
         Accounted(memo, frames, height, leaf, rank)
  PROVE  Accounted(memo2, frames2, height, leaf, rank2)
<1>1. CASE IsRef(leaf)
  <2>1. leaf.base \in Names /\ memo[leaf.base] # Unset
    BY <1>1 DEF IsRef, Accounted
  <2>2. memo[leaf.base] \in Ranks
    BY <2>1 DEF Memos
  <2>3. memo2[leaf.base] # Unset
    BY <2>1 DEF Extends
  <2>4. ASSUME height[leaf.base] > 0
        PROVE  Final(memo2, frames2, leaf.base) /\ memo2[leaf.base] <= rank2
    <3>1. Final(memo, frames, leaf.base) /\ memo[leaf.base] <= rank
      BY <1>1, <2>4 DEF Accounted
    <3>2. Final(memo2, frames2, leaf.base) /\ memo2[leaf.base] = memo[leaf.base]
      BY <2>1, <3>1 DEF Extends
    <3>3. memo[leaf.base] <= rank2
      BY <2>2, <3>1 DEF Ranks
    <3>4. QED
      BY <3>2, <3>3
  <2>5. QED
    BY <1>1, <2>3, <2>4 DEF Accounted
<1>2. CASE ~IsRef(leaf)
  <2>1. LeafRank(leaf) \in Ranks /\ LeafRank(leaf) <= rank
    BY <1>2, LeafRankType DEF Accounted
  <2>2. LeafRank(leaf) <= rank2
    BY <2>1 DEF Ranks
  <2>3. QED
    BY <1>2, <2>2 DEF Accounted
<1>3. QED
  BY <1>1, <1>2

LEMMA SettledKept ==
  ASSUME analysis \in Analyses, NEW memo \in Memos, NEW frames, NEW memo2, NEW frames2,
         Extends(memo, frames, memo2, frames2),
         NEW height, NEW leaves \in Seq(Leaf), NEW rank \in Ranks,
         Settled(memo, frames, height, leaves, rank)
  PROVE  Settled(memo2, frames2, height, leaves, rank)
<1>1. CASE Decisive(rank)
  BY <1>1 DEF Settled
<1>2. CASE ~Decisive(rank)
  <2>1. ASSUME NEW j \in DOMAIN leaves
        PROVE  Accounted(memo2, frames2, height, leaves[j], rank)
    <3>1. Accounted(memo, frames, height, leaves[j], rank)
      BY <1>2 DEF Settled
    <3>2. leaves[j] \in Leaf
      BY LenProperties, ElementOfSeq
    <3>3. rank <= rank
      BY DEF Ranks
    <3>4. QED
      BY <3>1, <3>2, <3>3, AccountedKept
  <2>2. QED
    BY <2>1 DEF Settled
<1>3. QED
  BY <1>1, <1>2

LEMMA VisitedKept ==
  ASSUME analysis \in Analyses, NEW memo \in Memos, NEW frames, NEW memo2, NEW frames2,
         Extends(memo, frames, memo2, frames2),
         NEW height, NEW f \in Frame, FrameLeaves(f) \in Seq(Leaf),
         Visited(memo, frames, height, f)
  PROVE  Visited(memo2, frames2, height, f)
<1>1. ASSUME NEW j \in DOMAIN FrameLeaves(f), j < f.pos
      PROVE  Accounted(memo2, frames2, height, FrameLeaves(f)[j], f.acc)
  <2>1. Accounted(memo, frames, height, FrameLeaves(f)[j], f.acc)
    BY <1>1 DEF Visited
  <2>2. FrameLeaves(f)[j] \in Leaf
    BY LenProperties, ElementOfSeq
  <2>3. f.acc \in Ranks /\ f.acc <= f.acc
    BY DEF Frame, Ranks
  <2>4. QED
    BY <2>1, <2>2, <2>3, AccountedKept
<1>2. QED
  BY <1>1 DEF Visited

(* A call that has got the rank of its next leaf.                          *)
LEMMA VisitedStepped ==
  ASSUME analysis \in Analyses, NEW memo \in Memos, NEW frames, NEW memo2, NEW frames2,
         Extends(memo, frames, memo2, frames2),
         NEW height, NEW f \in Frame, FrameLeaves(f) \in Seq(Leaf), f.acc \in Levels,
         Visited(memo, frames, height, f),
         NEW got \in Levels, f.pos \in DOMAIN FrameLeaves(f),
         IF IsRef(FrameLeaves(f)[f.pos])
           THEN /\ memo2[FrameLeaves(f)[f.pos].base] # Unset
                /\ height[FrameLeaves(f)[f.pos].base] > 0 =>
                     /\ Final(memo2, frames2, FrameLeaves(f)[f.pos].base)
                     /\ memo2[FrameLeaves(f)[f.pos].base] = got
           ELSE got = LeafRank(FrameLeaves(f)[f.pos])
  PROVE  Visited(memo2, frames2, height, Stepped(f, got))
<1> DEFINE g == Stepped(f, got)
           leaf == FrameLeaves(f)[f.pos]
<1>1. /\ g.memo = f.memo /\ g.name = f.name /\ g.pos = f.pos + 1
      /\ g.acc = Combine(f.acc, got)
  BY DEF Stepped
<1>2. FrameLeaves(g) = FrameLeaves(f)
  BY <1>1 DEF FrameLeaves
<1>3. /\ g.acc \in Levels /\ f.acc <= g.acc /\ got <= g.acc
  BY <1>1, CombineAbove
<1>4. f.acc \in Ranks /\ g.acc \in Ranks /\ g.acc \in Nat /\ f.acc \in Nat
  BY <1>3, LevelScale
<1>5. f.memo => MemoStart(f.name) <= g.acc
  <2>1. MemoStart(f.name) \in Nat
    BY LevelsOfTheWalk, LevelScale
  <2>2. f.memo => MemoStart(f.name) <= f.acc
    BY DEF Visited
  <2>3. QED
    BY <1>3, <1>4, <2>1, <2>2
<1> HIDE DEF g
<1>6. ASSUME NEW j \in DOMAIN FrameLeaves(f), j < f.pos + 1
      PROVE  Accounted(memo2, frames2, height, FrameLeaves(f)[j], g.acc)
  <2>0. j \in Nat /\ f.pos \in Nat
    BY LenProperties DEF Frame
  <2>1. CASE j < f.pos
    <3>1. Accounted(memo, frames, height, FrameLeaves(f)[j], f.acc)
      BY <2>1 DEF Visited
    <3>2. FrameLeaves(f)[j] \in Leaf
      BY LenProperties, ElementOfSeq
    <3>3. QED
      BY <1>3, <1>4, <3>1, <3>2, AccountedKept
  <2>2. CASE j = f.pos
    <3>1. IsRef(leaf) =>
            /\ memo2[leaf.base] # Unset
            /\ height[leaf.base] > 0 => Final(memo2, frames2, leaf.base) /\ memo2[leaf.base] = got
      OBVIOUS
    <3>2. ~IsRef(leaf) => got = LeafRank(leaf)
      OBVIOUS
    <3> HIDE DEF leaf
    <3>3. Accounted(memo2, frames2, height, leaf, g.acc)
      BY <1>3, <3>1, <3>2 DEF Accounted
    <3>4. QED
      BY <2>2, <3>3 DEF leaf
  <2>3. QED
    BY <1>6, <2>0, <2>1, <2>2
<1>7. QED
  BY <1>1, <1>2, <1>5, <1>6 DEF Visited, g

----------------------------------------------------------------------------
(* The frames on the stack, and what they await. *)
LEMMA FrameAt ==
  ASSUME TInv, NEW i \in 1 .. Len(stack)
  PROVE  /\ stack[i] \in Frame
         /\ FrameLeaves(stack[i]) \in Seq(Leaf)
         /\ stack[i].memo <=> i > 1
         /\ stack[i].memo => stack[i].name \in Names
<1>1. stack \in Seq(Frame)
  BY DEF TInv, TypeOK
<1>2. stack[i] \in Frame
  BY <1>1, LenProperties, ElementOfSeq
<1>3. /\ stack[i].memo <=> i > 1
      /\ stack[i].memo => stack[i].name \in Names
  BY DEF TInv, StackShape
<1>4. FrameLeaves(stack[i]) \in Seq(Leaf)
  BY <1>2, <1>3, FrameLeavesType DEF TInv
<1>5. QED
  BY <1>2, <1>3, <1>4

LEMMA HeightType ==
  ASSUME NEW height \in Heights, NEW n \in Names
  PROVE  height[n] \in Nat
<1>1. height \in [Names -> 0 .. Cardinality(Names)]
  BY DEF Heights
<1>2. height[n] \in 0 .. Cardinality(Names)
  BY <1>1
<1>3. QED
  BY <1>2

(* An entry that is read for a name without cycles is final: had the name  *)
(* been entered, all that was entered since would lie below it.            *)
LEMMA GroundedIsFinal ==
  ASSUME TInv, EnteredGrounded(stack), Walking, IsRef(NextLeaf), Computed(NextLeaf.base),
         NEW height \in Heights, height[NextLeaf.base] > 0
  PROVE  Final(cache, stack, NextLeaf.base)
<1> DEFINE m == NextLeaf.base
           k == Len(stack)
<1>1. /\ k \in Nat \ {0}
      /\ Top = stack[k]
      /\ Top.memo <=> k > 1
      /\ Top.memo => Top.name \in Names
  BY TopType DEF Walking
<1>2. /\ m \in Names
      /\ Top.pos \in DOMAIN FrameLeaves(Top)
      /\ NextLeaf = FrameLeaves(Top)[Top.pos]
  BY NextLeafType
<1>3. SUFFICES ASSUME NEW i \in 2 .. k, stack[i].name = m PROVE FALSE
  BY DEF Final, Computed
<1>4. Top.memo /\ Top.name \in Names
  BY <1>1
<1>5. m \in Refs(MemoLeaves(Top.name))
  BY <1>2, <1>4 DEF Refs, FrameLeaves
<1>6. height[Top.name] > 0 => height[m] < height[Top.name]
  BY <1>4, <1>5 DEF Heights, Grounds
<1>7. height[m] \in Nat /\ height[Top.name] \in Nat
  BY <1>2, <1>4, HeightType
<1>8. CASE i = k
  BY <1>1, <1>3, <1>6, <1>7, <1>8
<1>9. CASE i # k
  <2>1. i < k /\ k \in 2 .. k
    BY <1>1, <1>9
  <2>2. height[stack[k].name] > 0 /\ height[stack[k].name] < height[stack[i].name]
    BY <1>3, <2>1 DEF EnteredGrounded
  <2>3. QED
    BY <1>1, <1>3, <1>6, <1>7, <2>2
<1>10. QED
  BY <1>8, <1>9

(* What an answer that a call has got does: VisitLeaf and VisitCached keep  *)
(* the stack, Return takes the call that answers off it.                   *)
LEMMA GotXInv ==
  ASSUME JInv, XInv, UNCHANGED <<context, decision, asked>>, cache' \in Memos,
         Extends(cache, stack, cache', stack'),
         NEW k \in 1 .. Len(stack), NEW got \in Levels, Len(stack') = k,
         stack'[k] = Stepped(stack[k], got),
         \A i \in 1 .. k - 1 : stack'[i] = stack[i],
         stack[k].pos \in DOMAIN FrameLeaves(stack[k]),
         \A height \in Heights :
           IF IsRef(FrameLeaves(stack[k])[stack[k].pos])
             THEN /\ cache'[FrameLeaves(stack[k])[stack[k].pos].base] # Unset
                  /\ height[FrameLeaves(stack[k])[stack[k].pos].base] > 0 =>
                       /\ Final(cache', stack', FrameLeaves(stack[k])[stack[k].pos].base)
                       /\ cache'[FrameLeaves(stack[k])[stack[k].pos].base] = got
             ELSE got = LeafRank(FrameLeaves(stack[k])[stack[k].pos]),
         \A n \in Names : Final(cache', stack', n) =>
           \/ Final(cache, stack, n)
           \/ /\ cache'[n] = got
              /\ MemoStart(n) <= got
              /\ \A height \in Heights : Settled(cache', stack', height, MemoLeaves(n), got),
         \A n \in Names : cache'[n] # Unset => cache'[n] = cache[n] \/ cache'[n] = got,
         \A i \in 1 .. Len(stack) : i <= k \/ stack[i].acc = got
  PROVE  XInv'
<1>t. TInv /\ analysis \in Analyses /\ cache \in Memos /\ stack \in Seq(Frame)
  BY DEF JInv, TInv, TypeOK, Analyses, Memos
<1>k. k \in Nat \ {0} /\ Len(stack) \in Nat
  BY <1>t, LenProperties
<1>f. /\ stack[k] \in Frame
      /\ FrameLeaves(stack[k]) \in Seq(Leaf)
      /\ stack[k].acc \in Levels
  BY <1>t, FrameAt DEF XInv, InLevels
<1>a. /\ stack'[k].acc \in Levels
      /\ stack[k].acc <= stack'[k].acc
      /\ got <= stack'[k].acc
      /\ stack'[k].name = stack[k].name
  <2>1. /\ Combine(stack[k].acc, got) \in Levels
        /\ stack[k].acc <= Combine(stack[k].acc, got)
        /\ got <= Combine(stack[k].acc, got)
    BY <1>t, <1>f, CombineAbove
  <2>2. Stepped(stack[k], got).acc = Combine(stack[k].acc, got) /\ Stepped(stack[k], got).name = stack[k].name
    BY DEF Stepped
  <2>3. QED
    BY <2>1, <2>2
<1>n. \A i \in 1 .. k : stack'[i].name = stack[i].name
  BY <1>k, <1>a
<1>1. EnteredGrounded(stack')
  <2>1. \A i \in 2 .. k : i \in 2 .. Len(stack) /\ stack'[i].name = stack[i].name
    BY <1>k, <1>n
  <2>2. QED
    BY <2>1 DEF XInv, EnteredGrounded
<1>2. InLevels(cache', stack', decision')
  <2>1. \A n \in Names : cache'[n] # Unset => cache'[n] \in Levels
    BY DEF XInv, InLevels
  <2>2. \A i \in 1 .. k : stack'[i].acc \in Levels
    <3> TAKE i \in 1 .. k
    <3>1. CASE i = k
      BY <3>1, <1>a
    <3>2. CASE i # k
      BY <3>2, <1>k DEF XInv, InLevels
    <3>3. QED
      BY <3>1, <3>2
  <2>3. QED
    BY <2>1, <2>2 DEF XInv, InLevels
<1>3. CallsAccount(cache', stack')
  <2> SUFFICES ASSUME NEW height \in Heights, NEW i \in 1 .. k
               PROVE  Visited(cache', stack', height, stack'[i])
    BY DEF CallsAccount
  <2>1. Visited(cache, stack, height, stack[i]) /\ i \in 1 .. Len(stack)
    BY <1>k DEF XInv, CallsAccount
  <2>2. CASE i = k
    <3>1. Visited(cache', stack', height, Stepped(stack[k], got))
      BY <1>t, <1>f, <2>1, <2>2, VisitedStepped
    <3>2. QED
      BY <2>2, <3>1
  <2>3. CASE i # k
    <3>1. stack[i] \in Frame /\ FrameLeaves(stack[i]) \in Seq(Leaf)
      BY <1>t, <2>1, FrameAt
    <3>2. Visited(cache', stack', height, stack[i])
      BY <1>t, <2>1, <3>1, VisitedKept
    <3>3. stack'[i] = stack[i]
      BY <1>k, <2>3
    <3>4. QED
      BY <3>2, <3>3
  <2>4. QED
    BY <2>2, <2>3
<1>4. MemoAccounts(cache', stack')
  <2> SUFFICES ASSUME NEW height \in Heights, NEW n \in Names, Final(cache', stack', n)
               PROVE  /\ MemoStart(n) <= cache'[n]
                      /\ Settled(cache', stack', height, MemoLeaves(n), cache'[n])
    BY DEF MemoAccounts
  <2>1. CASE Final(cache, stack, n)
    <3>1. /\ MemoStart(n) <= cache[n]
          /\ Settled(cache, stack, height, MemoLeaves(n), cache[n])
          /\ cache'[n] = cache[n]
      BY <2>1 DEF XInv, MemoAccounts, Extends
    <3>2. cache[n] \in Ranks
      BY <1>t, <2>1 DEF Final, Memos
    <3>3. MemoLeaves(n) \in Seq(Leaf)
      BY <1>t, MemoLeavesType DEF TInv, TypeOK
    <3>4. Settled(cache', stack', height, MemoLeaves(n), cache[n])
      BY <1>t, <3>1, <3>2, <3>3, SettledKept
    <3>5. QED
      BY <3>1, <3>4
  <2>2. CASE ~Final(cache, stack, n)
    BY <2>2
  <2>3. QED
    BY <2>1, <2>2
<1>5. AnswersAccount(cache', stack', decision')
  <2> SUFFICES ASSUME NEW height \in Heights, NEW c \in Callers,
                      decision[c] # Undecided, ~Annotated(c)
               PROVE  Settled(cache', stack', height, CallerLeaves(c), decision[c])
    BY DEF AnswersAccount
  <2>1. Settled(cache, stack, height, CallerLeaves(c), decision[c])
    BY DEF XInv, AnswersAccount
  <2>2. decision[c] \in Ranks /\ CallerLeaves(c) \in Seq(Leaf)
    BY <1>t, CallersKnown, CallerLeavesType DEF TInv, TypeOK
  <2>3. QED
    BY <1>t, <2>1, <2>2, SettledKept
<1>6. ColdBelow(cache', stack', decision', asked')
  <2>1. stack # <<>> /\ stack' # <<>>
    BY <1>k, EmptySeq
  <2>2. ASSUME asked.cold, NEW n \in Names, Final(cache', stack', n)
        PROVE  \E i \in 1 .. k : cache'[n] <= stack'[i].acc
    <3>1. CASE cache'[n] = got
      BY <3>1, <1>a, <1>k
    <3>2. CASE Final(cache, stack, n)
      <4>1. PICK i \in 1 .. Len(stack) : cache[n] <= stack[i].acc
        BY <2>1, <2>2, <3>2 DEF XInv, ColdBelow
      <4>2. cache'[n] = cache[n]
        BY <3>2 DEF Extends
      <4>3. CASE i < k
        BY <4>1, <4>2, <4>3, <1>k
      <4>4. CASE i >= k
        <5>1. stack[i].acc <= stack'[k].acc
          BY <4>4, <1>a, <1>k
        <5>2. cache[n] \in Nat /\ stack[i].acc \in Nat /\ stack'[k].acc \in Nat
          <6>1. cache[n] \in Levels /\ stack[i].acc \in Levels
            BY <3>2 DEF XInv, InLevels, Final
          <6>2. QED
            BY <6>1, <1>a, <1>t, LevelScale
        <5>3. QED
          BY <4>1, <4>2, <5>1, <5>2, <1>k
      <4>5. QED
        BY <4>3, <4>4, <1>k
    <3>3. QED
      BY <2>2, <3>1, <3>2
  <2>3. QED
    BY <2>1, <2>2 DEF XInv, ColdBelow
<1>7. QuestionAsked(stack', asked')
  <2>1. stack # <<>> /\ stack'[1].name = stack[1].name
    BY <1>k, <1>n, EmptySeq
  <2>2. QED
    BY <2>1 DEF XInv, QuestionAsked
<1>8. QED
  BY <1>1, <1>2, <1>3, <1>4, <1>5, <1>6, <1>7, ExactRigid DEF XInv

LEMMA FlatHeights == Heights # {}
<1>1. Cardinality(Names) \in Nat
  BY NamesAssumption, FS_CardinalityType
<1>2. [n \in Names |-> 0] \in Heights
  BY <1>1 DEF Heights, Grounds
<1>3. QED
  BY <1>2

LEMMA SameNamesExtend ==
  ASSUME Len(stack') = Len(stack), \A i \in 2 .. Len(stack) : stack'[i].name = stack[i].name,
         cache' = cache
  PROVE  /\ Extends(cache, stack, cache', stack')
         /\ \A n \in Names : Final(cache', stack', n) => Final(cache, stack, n)
BY DEF Extends, Final

LEMMA VisitLeafXInv ==
  ASSUME JInv, XInv, VisitLeaf
  PROVE  XInv'
<1> DEFINE got == LeafRank(NextLeaf)
           k == Len(stack)
<1>t. TInv /\ analysis \in Analyses /\ cache \in Memos
  BY DEF JInv, TInv, TypeOK, Analyses, Memos
<1>1. /\ Walking /\ ~IsRef(NextLeaf)
      /\ stack' = Advanced(stack, got)
      /\ cache' = cache
      /\ UNCHANGED <<context, decision, asked>>
  BY DEF VisitLeaf
<1>2. k \in Nat \ {0} /\ Top = stack[k]
  BY <1>1, <1>t, TopType DEF Walking
<1>3. Top.pos \in DOMAIN FrameLeaves(Top) /\ NextLeaf = FrameLeaves(Top)[Top.pos] /\ NextLeaf \in Leaf
  BY <1>1, <1>t, NextLeafType
<1>4. got \in Levels /\ got \in Ranks
  BY <1>3, <1>t, LevelsOfTheWalk, LeafRankType
<1> HIDE DEF got
<1>5. /\ Len(stack') = k
      /\ stack'[k] = Stepped(Top, got)
      /\ \A i \in 1 .. k - 1 : stack'[i] = stack[i]
      /\ \A i \in 2 .. k : stack'[i].name = stack[i].name
  BY <1>1, <1>4, <1>t, AdvanceStack, AdvanceKeepsNames
<1>6. /\ Extends(cache, stack, cache', stack')
      /\ \A n \in Names : Final(cache', stack', n) => Final(cache, stack, n)
  BY <1>1, <1>5, SameNamesExtend
<1>7. ~IsRef(FrameLeaves(stack[k])[stack[k].pos]) /\ got = LeafRank(FrameLeaves(stack[k])[stack[k].pos])
  BY <1>1, <1>2, <1>3 DEF got
<1>8. k \in 1 .. Len(stack) /\ \A i \in 1 .. Len(stack) : i <= k
  BY <1>2
<1> HIDE DEF k
<1>9. QED
  BY <1>t, <1>1, <1>2, <1>3, <1>4, <1>5, <1>6, <1>7, <1>8, GotXInv

LEMMA VisitCachedXInv ==
  ASSUME JInv, XInv, VisitCached
  PROVE  XInv'
<1> DEFINE got == cache[NextLeaf.base]
           k == Len(stack)
<1>t. TInv /\ cache \in Memos
  BY DEF JInv, TInv, TypeOK, Memos
<1>1. /\ Walking /\ IsRef(NextLeaf) /\ Computed(NextLeaf.base)
      /\ stack' = Advanced(stack, got)
      /\ cache' = cache
      /\ UNCHANGED <<context, decision, asked>>
  BY DEF VisitCached
<1>2. k \in Nat \ {0} /\ Top = stack[k]
  BY <1>1, <1>t, TopType DEF Walking
<1>3. /\ Top.pos \in DOMAIN FrameLeaves(Top)
      /\ NextLeaf = FrameLeaves(Top)[Top.pos]
      /\ NextLeaf.base \in Names
  BY <1>1, <1>t, NextLeafType
<1>4. got \in Levels /\ got \in Ranks /\ got # Unset
  BY <1>1, <1>3, LevelsAreRanks DEF XInv, InLevels, Computed
<1>5. \A height \in Heights : height[NextLeaf.base] > 0 => Final(cache, stack, NextLeaf.base)
  BY <1>1, <1>t, GroundedIsFinal DEF XInv
<1>6. cache'[NextLeaf.base] = got
  BY <1>1
<1> HIDE DEF got
<1>7. /\ Len(stack') = k
      /\ stack'[k] = Stepped(Top, got)
      /\ \A i \in 1 .. k - 1 : stack'[i] = stack[i]
      /\ \A i \in 2 .. k : stack'[i].name = stack[i].name
  BY <1>1, <1>4, <1>t, AdvanceStack, AdvanceKeepsNames
<1>8. /\ Extends(cache, stack, cache', stack')
      /\ \A n \in Names : Final(cache', stack', n) => Final(cache, stack, n)
  BY <1>1, <1>7, SameNamesExtend
<1>9. \A height \in Heights : height[NextLeaf.base] > 0 => Final(cache', stack', NextLeaf.base)
  BY <1>3, <1>5, <1>8 DEF Extends
<1>10. /\ stack[k].pos \in DOMAIN FrameLeaves(stack[k])
       /\ FrameLeaves(stack[k])[stack[k].pos] = NextLeaf
  BY <1>2, <1>3
<1>11. k \in 1 .. Len(stack) /\ \A i \in 1 .. Len(stack) : i <= k
  BY <1>2
<1> HIDE DEF k
<1>12. QED
  BY <1>t, <1>1, <1>2, <1>4, <1>6, <1>7, <1>8, <1>9, <1>10, <1>11, GotXInv

LEMMA ReturnExtends ==
  ASSUME JInv, NInv, Return
  PROVE  /\ Top.name \in Names /\ Top.acc \in Ranks
         /\ cache' \in Memos
         /\ cache'[Top.name] = Top.acc
         /\ \A n \in Names : n # Top.name => cache'[n] = cache[n]
         /\ Extends(cache, stack, cache', stack')
         /\ Final(cache', stack', Top.name)
         /\ \A n \in Names : Final(cache', stack', n) => n = Top.name \/ Final(cache, stack, n)
<1> DEFINE k == Len(stack) - 1
<1>t. TInv /\ cache \in Memos /\ NeverReentered
  BY DEF JInv, NInv, TInv, TypeOK, Memos
<1>1. /\ k \in Nat \ {0}
      /\ Top = stack[k + 1]
      /\ Len(stack') = k
      /\ stack'[k] = Stepped(stack[k], Top.acc)
      /\ \A i \in 1 .. k - 1 : stack'[i] = stack[i]
  BY <1>t, ReturnStack
<1>2. Top.name \in Names /\ Top.acc \in Ranks /\ Top.acc # Unset
  BY <1>t, TopType DEF Return, Frame, Ranks, Unset
<1>3. cache' = [cache EXCEPT ![Top.name] = Top.acc]
  BY DEF Return
<1>4. \A i \in 1 .. k : stack'[i].name = stack[i].name
  BY <1>1 DEF Stepped
<1>5. \A i \in 2 .. k : stack[i].name # Top.name
  <2>1. Len(stack) = k + 1
    BY <1>1
  <2>2. QED
    BY <1>t, <1>1, <2>1 DEF NeverReentered
<1>6. /\ cache' \in Memos
      /\ cache'[Top.name] = Top.acc
      /\ \A n \in Names : n # Top.name => cache'[n] = cache[n]
  BY <1>t, <1>2, <1>3 DEF Memos
<1>7. Len(stack) = k + 1 /\ k + 1 \in 2 .. Len(stack)
  BY <1>1
<1>8. Final(cache', stack', Top.name)
  BY <1>1, <1>2, <1>4, <1>5, <1>6 DEF Final
<1>9. ASSUME NEW n \in Names, Final(cache, stack, n)
      PROVE  Final(cache', stack', n) /\ cache'[n] = cache[n]
  <2>1. n # Top.name
    BY <1>1, <1>7, <1>9 DEF Final
  <2>2. QED
    BY <2>1, <1>1, <1>4, <1>6, <1>7, <1>9 DEF Final
<1>10. ASSUME NEW n \in Names, Final(cache', stack', n), n # Top.name
       PROVE  Final(cache, stack, n)
  <2>1. \A i \in 2 .. k + 1 : stack[i].name # n
    <3> TAKE i \in 2 .. k + 1
    <3>1. CASE i = k + 1
      BY <3>1, <1>1, <1>10
    <3>2. CASE i # k + 1
      BY <3>2, <1>1, <1>4, <1>10 DEF Final
    <3>3. QED
      BY <3>1, <3>2
  <2>2. QED
    BY <2>1, <1>6, <1>7, <1>10 DEF Final
<1>11. Extends(cache, stack, cache', stack')
  BY <1>2, <1>6, <1>9 DEF Extends
<1>12. QED
  BY <1>2, <1>6, <1>8, <1>10, <1>11

(* A call that is done has settled its answer.                             *)
LEMMA DoneIsSettled ==
  ASSUME NEW memo, NEW frames, NEW height, NEW f \in Frame, FrameLeaves(f) \in Seq(Leaf),
         FrameDone(f), Visited(memo, frames, height, f)
  PROVE  Settled(memo, frames, height, FrameLeaves(f), f.acc)
<1>1. CASE Decisive(f.acc)
  BY <1>1 DEF Settled
<1>2. CASE ~Decisive(f.acc)
  <2>1. f.pos > Len(FrameLeaves(f)) /\ f.pos \in Nat
    BY <1>2 DEF FrameDone, Frame
  <2>2. \A j \in DOMAIN FrameLeaves(f) : j < f.pos
    BY <2>1, LenProperties
  <2>3. QED
    BY <2>2 DEF Visited, Settled
<1>3. QED
  BY <1>1, <1>2

LEMMA ReturnXInv ==
  ASSUME JInv, NInv, XInv, Return
  PROVE  XInv'
<1> DEFINE k == Len(stack) - 1
           got == Top.acc
           m == Top.name
<1>t. TInv /\ analysis \in Analyses /\ cache \in Memos
  BY DEF JInv, TInv, TypeOK, Analyses, Memos
<1>1. /\ k \in Nat \ {0}
      /\ Top = stack[k + 1]
      /\ Len(stack') = k
      /\ stack'[k] = Stepped(stack[k], got)
      /\ \A i \in 1 .. k - 1 : stack'[i] = stack[i]
  BY <1>t, ReturnStack
<1>2. UNCHANGED <<context, decision, asked>> /\ Top.memo /\ FrameDone(Top)
  BY DEF Return
<1>3. /\ m \in Names /\ got \in Ranks
      /\ cache' \in Memos
      /\ cache'[m] = got
      /\ \A n \in Names : n # m => cache'[n] = cache[n]
      /\ Extends(cache, stack, cache', stack')
      /\ Final(cache', stack', m)
      /\ \A n \in Names : Final(cache', stack', n) => n = m \/ Final(cache, stack, n)
  BY ReturnExtends
<1>4. Len(stack) = k + 1 /\ k \in 1 .. Len(stack) /\ k + 1 \in 1 .. Len(stack)
  BY <1>1
<1>5. got \in Levels
  BY <1>1, <1>4 DEF XInv, InLevels
<1>6. Calls(stack[k], m)
  BY <1>1, <1>4 DEF JInv, Chain
<1>7. Top \in Frame /\ FrameLeaves(Top) = MemoLeaves(m) /\ MemoLeaves(m) \in Seq(Leaf)
  BY <1>2, <1>t, TopType DEF Return, FrameLeaves
<1>8. MemoStart(m) <= got /\ \A height \in Heights : Settled(cache', stack', height, MemoLeaves(m), got)
  <2>1. \A height \in Heights : Visited(cache, stack, height, Top)
    BY <1>1, <1>4 DEF XInv, CallsAccount
  <2>2. \A height \in Heights : Settled(cache, stack, height, MemoLeaves(m), got)
    BY <1>2, <1>7, <2>1, DoneIsSettled
  <2>3. \A height \in Heights : Settled(cache', stack', height, MemoLeaves(m), got)
    BY <1>t, <1>3, <1>7, <2>2, SettledKept
  <2>4. Heights # {}
    BY FlatHeights
  <2>5. QED
    BY <1>2, <2>1, <2>3, <2>4 DEF Visited
<1>9. /\ stack[k].pos \in DOMAIN FrameLeaves(stack[k])
      /\ IsRef(FrameLeaves(stack[k])[stack[k].pos])
      /\ FrameLeaves(stack[k])[stack[k].pos].base = m
  BY <1>6 DEF Calls
<1>10. \A i \in 1 .. Len(stack) : i <= k \/ stack[i].acc = got
  BY <1>1, <1>4
<1>11. got # Unset
  BY <1>3 DEF Ranks, Unset
<1> HIDE DEF k, got, m
<1>12. QED
  BY <1>1, <1>2, <1>3, <1>4, <1>5, <1>8, <1>9, <1>10, <1>11, GotXInv

LEMMA DescendExtends ==
  ASSUME TInv, Descend
  PROVE  /\ Extends(cache, stack, cache', stack')
         /\ \A n \in Names : Final(cache', stack', n) =>
              Final(cache, stack, n) /\ cache'[n] = cache[n]
         /\ \A n \in Names : cache'[n] # Unset => cache'[n] = cache[n] \/ cache'[n] = 0
<1> DEFINE m == NextLeaf.base
           k == Len(stack)
<1>1. /\ m \in Names
      /\ Len(stack') = k + 1
      /\ stack'[k + 1].name = m
      /\ \A i \in 1 .. k : stack'[i] = stack[i]
  BY DescendStack
<1>2. k \in Nat \ {0} /\ k + 1 \in 2 .. k + 1
  BY TopType DEF Descend, Walking
<1>3. cache[m] = Unset /\ (cache' = cache \/ cache' = [cache EXCEPT ![m] = 0])
  BY DEF Descend, Computed, Provisional
<1>4. cache \in [Names -> Ranks \cup {Unset}]
  BY DEF TInv, TypeOK
<1> HIDE DEF m, k
<1>5. \A n \in Names : n # m => cache'[n] = cache[n]
  BY <1>3, <1>4
<1>6. cache'[m] = cache[m] \/ cache'[m] = 0
  BY <1>1, <1>3, <1>4
<1>7. ASSUME NEW n \in Names, Final(cache, stack, n)
      PROVE  Final(cache', stack', n) /\ cache'[n] = cache[n]
  <2>1. n # m
    BY <1>3, <1>7 DEF Final
  <2>2. \A i \in 2 .. k : stack'[i].name # n
    BY <1>1, <1>7 DEF Final, k
  <2>3. \A i \in 2 .. k + 1 : stack'[i].name # n
    BY <1>1, <1>2, <2>1, <2>2
  <2>4. QED
    BY <1>1, <1>5, <1>7, <2>1, <2>3 DEF Final
<1>8. ASSUME NEW n \in Names, Final(cache', stack', n)
      PROVE  Final(cache, stack, n) /\ cache'[n] = cache[n]
  <2>1. n # m
    BY <1>1, <1>2, <1>8 DEF Final
  <2>2. \A i \in 2 .. k : stack[i].name # n
    BY <1>1, <1>2, <1>8 DEF Final
  <2>3. QED
    BY <1>5, <1>8, <2>1, <2>2 DEF Final, k
<1>9. Extends(cache, stack, cache', stack')
  BY <1>1, <1>3, <1>5, <1>7 DEF Extends
<1>10. QED
  BY <1>5, <1>6, <1>8, <1>9

LEMMA DescendXInv ==
  ASSUME JInv, XInv, Descend
  PROVE  XInv'
<1> DEFINE m == NextLeaf.base
           k == Len(stack)
           f == [memo |-> TRUE, name |-> m, pos |-> 1, acc |-> MemoStart(m)]
<1>t. TInv /\ analysis \in Analyses /\ cache \in Memos
  BY DEF JInv, TInv, TypeOK, Analyses, Memos
<1>1. /\ m \in Names
      /\ Len(stack') = k + 1
      /\ stack'[k + 1] = f
      /\ \A i \in 1 .. k : stack'[i] = stack[i]
  BY <1>t, DescendStack
<1>2. /\ k \in Nat \ {0}
      /\ Top = stack[k]
      /\ Top.memo <=> k > 1
      /\ Top.memo => Top.name \in Names
  BY <1>t, TopType DEF Descend, Walking
<1>3. /\ Walking /\ IsRef(NextLeaf)
      /\ UNCHANGED <<context, decision, asked>>
  BY DEF Descend
<1>4. /\ Top.pos \in DOMAIN FrameLeaves(Top)
      /\ NextLeaf = FrameLeaves(Top)[Top.pos]
  BY <1>t, <1>3, NextLeafType
<1>5. /\ Extends(cache, stack, cache', stack')
      /\ \A n \in Names : Final(cache', stack', n) =>
           Final(cache, stack, n) /\ cache'[n] = cache[n]
      /\ \A n \in Names : cache'[n] # Unset => cache'[n] = cache[n] \/ cache'[n] = 0
  BY <1>t, DescendExtends
<1>6. MemoStart(m) \in Levels /\ MemoStart(m) <= MemoStart(m) /\ 0 \in Levels
  BY <1>t, LevelsOfTheWalk, LevelScale
<1>7. EnteredGrounded(stack')
  <2> SUFFICES ASSUME NEW height \in Heights, NEW i \in 2 .. k + 1, NEW j \in 2 .. k + 1,
                      i < j, height[stack'[i].name] > 0
               PROVE  /\ height[stack'[j].name] > 0
                      /\ height[stack'[j].name] < height[stack'[i].name]
    BY <1>1 DEF EnteredGrounded
  <2>1. i \in 2 .. k /\ i \in 1 .. k /\ stack'[i] = stack[i]
    BY <1>1, <1>2
  <2>2. CASE j \in 2 .. k
    <3>1. stack'[j] = stack[j]
      BY <1>1, <2>2
    <3>2. QED
      BY <2>1, <2>2, <3>1 DEF XInv, EnteredGrounded
  <2>3. CASE j = k + 1
    <3>1. Top.memo /\ Top.name \in Names /\ k \in 2 .. k
      BY <1>2, <2>1
    <3>2. height[Top.name] > 0 /\ height[Top.name] <= height[stack[i].name]
      <4>1. height[Top.name] \in Nat
        BY <3>1, HeightType
      <4>2. CASE i = k
        BY <4>1, <4>2, <1>2, <2>1
      <4>3. CASE i # k
        <5>1. height[stack[k].name] > 0 /\ height[stack[k].name] < height[stack[i].name]
          BY <2>1, <3>1, <4>3 DEF XInv, EnteredGrounded
        <5>2. stack[i].name \in Names
          BY <1>t, <2>1, FrameAt
        <5>3. height[stack[i].name] \in Nat
          BY <5>2, HeightType
        <5>4. QED
          BY <4>1, <5>1, <5>3, <1>2
      <4>4. QED
        BY <4>2, <4>3
    <3>3. m \in Refs(MemoLeaves(Top.name))
      BY <1>3, <1>4, <3>1 DEF Refs, FrameLeaves
    <3>4. height[m] > 0 /\ height[m] < height[Top.name]
      BY <3>1, <3>2, <3>3 DEF Heights, Grounds
    <3>5. stack[i].name \in Names
      BY <1>t, <2>1, FrameAt
    <3>6. height[m] \in Nat /\ height[Top.name] \in Nat /\ height[stack[i].name] \in Nat
      BY <1>1, <3>1, <3>5, HeightType
    <3>7. stack'[j].name = m
      BY <1>1, <2>3
    <3> HIDE DEF m
    <3>8. QED
      BY <2>1, <3>2, <3>4, <3>6, <3>7
  <2>4. QED
    BY <1>2, <2>2, <2>3
<1>f. f.acc = MemoStart(m) /\ f.memo /\ f.name = m /\ f.pos = 1
  OBVIOUS
<1> HIDE DEF f
<1>8. InLevels(cache', stack', decision')
  <2>1. \A i \in 1 .. k + 1 : i # k + 1 => i \in 1 .. Len(stack) /\ stack'[i] = stack[i]
    BY <1>1, <1>2
  <2>2. \A i \in 1 .. k + 1 : stack'[i].acc \in Levels
    BY <1>1, <1>6, <1>f, <2>1 DEF XInv, InLevels
  <2>3. \A n \in Names : cache'[n] # Unset => cache'[n] \in Levels
    BY <1>5, <1>6 DEF XInv, InLevels
  <2>4. QED
    BY <1>1, <1>3, <2>2, <2>3 DEF XInv, InLevels
<1>9. CallsAccount(cache', stack')
  <2> SUFFICES ASSUME NEW height \in Heights, NEW i \in 1 .. k + 1
               PROVE  Visited(cache', stack', height, stack'[i])
    BY <1>1 DEF CallsAccount
  <2>1. CASE i = k + 1
    <3>1. FrameLeaves(f) \in Seq(Leaf)
      BY <1>t, <1>1, <1>f, MemoLeavesType DEF FrameLeaves, TInv, TypeOK
    <3>2. \A j \in DOMAIN FrameLeaves(f) : ~(j < f.pos)
      BY <3>1, <1>f, LenProperties
    <3>3. QED
      BY <2>1, <1>1, <1>6, <1>f, <3>2 DEF Visited
  <2>2. CASE i # k + 1
    <3>1. i \in 1 .. Len(stack) /\ stack'[i] = stack[i]
      BY <2>2, <1>1, <1>2
    <3>2. stack[i] \in Frame /\ FrameLeaves(stack[i]) \in Seq(Leaf)
      BY <1>t, <3>1, FrameAt
    <3>3. Visited(cache, stack, height, stack[i])
      BY <3>1 DEF XInv, CallsAccount
    <3>4. QED
      BY <1>t, <1>5, <3>1, <3>2, <3>3, VisitedKept
  <2>3. QED
    BY <2>1, <2>2
<1>10. MemoAccounts(cache', stack')
  <2> SUFFICES ASSUME NEW height \in Heights, NEW n \in Names, Final(cache', stack', n)
               PROVE  /\ MemoStart(n) <= cache'[n]
                      /\ Settled(cache', stack', height, MemoLeaves(n), cache'[n])
    BY DEF MemoAccounts
  <2>1. Final(cache, stack, n) /\ cache'[n] = cache[n]
    BY <1>5
  <2>2. /\ MemoStart(n) <= cache[n]
        /\ Settled(cache, stack, height, MemoLeaves(n), cache[n])
    BY <2>1 DEF XInv, MemoAccounts
  <2>3. cache[n] \in Ranks /\ MemoLeaves(n) \in Seq(Leaf)
    BY <1>t, <2>1, MemoLeavesType DEF Final, Memos, TInv, TypeOK
  <2>4. Settled(cache', stack', height, MemoLeaves(n), cache[n])
    BY <1>t, <1>5, <2>2, <2>3, SettledKept
  <2>5. QED
    BY <2>1, <2>2, <2>4
<1>11. AnswersAccount(cache', stack', decision')
  <2> SUFFICES ASSUME NEW height \in Heights, NEW c \in Callers,
                      decision[c] # Undecided, ~Annotated(c)
               PROVE  Settled(cache', stack', height, CallerLeaves(c), decision[c])
    BY <1>3 DEF AnswersAccount
  <2>1. Settled(cache, stack, height, CallerLeaves(c), decision[c])
    BY DEF XInv, AnswersAccount
  <2>2. decision[c] \in Ranks /\ CallerLeaves(c) \in Seq(Leaf)
    BY <1>t, CallersKnown, CallerLeavesType DEF TInv, TypeOK
  <2>3. QED
    BY <1>t, <1>5, <2>1, <2>2, SettledKept
<1>12. ColdBelow(cache', stack', decision', asked')
  <2>1. stack # <<>> /\ stack' # <<>>
    BY <1>1, <1>2, EmptySeq
  <2>2. ASSUME asked.cold, NEW n \in Names, Final(cache', stack', n)
        PROVE  \E i \in 1 .. k + 1 : cache'[n] <= stack'[i].acc
    <3>1. PICK i \in 1 .. k : cache[n] <= stack[i].acc
      BY <1>5, <2>1, <2>2 DEF XInv, ColdBelow
    <3>2. cache'[n] = cache[n] /\ stack'[i] = stack[i] /\ i \in 1 .. k + 1
      BY <1>1, <1>2, <1>5, <2>2
    <3>3. QED
      BY <3>1, <3>2
  <2>3. QED
    BY <1>1, <1>3, <2>1, <2>2 DEF XInv, ColdBelow
<1>13. QuestionAsked(stack', asked')
  <2>1. stack # <<>> /\ stack'[1] = stack[1]
    BY <1>1, <1>2, EmptySeq
  <2>2. QED
    BY <1>3, <2>1 DEF XInv, QuestionAsked
<1>14. QED
  BY <1>3, <1>7, <1>8, <1>9, <1>10, <1>11, <1>12, <1>13, ExactRigid DEF XInv

(* Between walks every entry is final. *)
LEMMA IdleIsFinal ==
  ASSUME NEW memo, NEW frames, Len(frames) \in {0, 1}, NEW n
  PROVE  Final(memo, frames, n) <=> memo[n] # Unset
BY DEF Final

LEMMA AnswerXInv ==
  ASSUME JInv, XInv, Answer
  PROVE  XInv'
<1> DEFINE c == Top.name
<1>t. TInv /\ analysis \in Analyses /\ cache \in Memos
  BY DEF JInv, TInv, TypeOK, Analyses, Memos
<1>1. /\ stack # <<>> /\ stack' = <<>> /\ Len(stack') = 0
      /\ cache' = cache
      /\ decision' = [decision EXCEPT ![c] = Top.acc]
      /\ ~Top.memo /\ FrameDone(Top)
      /\ UNCHANGED <<context, asked>>
  BY DEF Answer
<1>2. Len(stack) = 1 /\ Top = stack[1] /\ c \in Callers /\ Top \in Frame
  <2>1. /\ Len(stack) \in Nat \ {0} /\ ~(Len(stack) > 1)
        /\ Top = stack[Len(stack)] /\ c \in Callers /\ Top \in Frame
    BY <1>t, <1>1, TopType
  <2>2. \A n \in Nat \ {0} : n > 1 \/ n = 1
    OBVIOUS
  <2>3. QED
    BY <2>1, <2>2
<1>3. /\ FrameLeaves(Top) = CallerLeaves(c)
      /\ CallerLeaves(c) \in Seq(Leaf)
      /\ c = asked.caller /\ ~Annotated(c)
      /\ Top.acc \in Levels
  BY <1>1, <1>2, <1>t, TopType DEF FrameLeaves, XInv, QuestionAsked, InLevels
<1>4. /\ decision'[c] = Top.acc
      /\ \A d \in Callers : d # c => decision'[d] = decision[d]
  <2>1. c \in Names \cup Args
    BY <1>2, CallersKnown
  <2>2. QED
    BY <1>1, <1>t, <2>1 DEF TInv, TypeOK
<1>5. /\ Extends(cache, stack, cache', stack')
      /\ \A n \in Names : /\ Final(cache', stack', n) <=> cache[n] # Unset
                          /\ Final(cache, stack, n) <=> cache[n] # Unset
  BY <1>1, <1>2, IdleIsFinal DEF Extends
<1>6. EnteredGrounded(stack') /\ CallsAccount(cache', stack') /\ QuestionAsked(stack', asked')
  BY <1>1 DEF EnteredGrounded, CallsAccount, QuestionAsked
<1>7. InLevels(cache', stack', decision')
  BY <1>1, <1>3, <1>4 DEF XInv, InLevels
<1>8. MemoAccounts(cache', stack')
  <2> SUFFICES ASSUME NEW height \in Heights, NEW n \in Names, Final(cache', stack', n)
               PROVE  /\ MemoStart(n) <= cache[n]
                      /\ Settled(cache', stack', height, MemoLeaves(n), cache[n])
    BY <1>1 DEF MemoAccounts
  <2>1. /\ MemoStart(n) <= cache[n]
        /\ Settled(cache, stack, height, MemoLeaves(n), cache[n])
    BY <1>5 DEF XInv, MemoAccounts
  <2>2. cache[n] \in Ranks /\ MemoLeaves(n) \in Seq(Leaf)
    BY <1>t, <1>5, MemoLeavesType DEF Memos, TInv, TypeOK
  <2>3. QED
    BY <1>t, <1>5, <2>1, <2>2, SettledKept
<1>9. AnswersAccount(cache', stack', decision')
  <2> SUFFICES ASSUME NEW height \in Heights, NEW d \in Callers,
                      decision'[d] # Undecided, ~Annotated(d)
               PROVE  Settled(cache', stack', height, CallerLeaves(d), decision'[d])
    BY DEF AnswersAccount
  <2>1. CASE d = c
    <3>1. Visited(cache, stack, height, Top)
      BY <1>2 DEF XInv, CallsAccount
    <3>2. Settled(cache, stack, height, CallerLeaves(c), Top.acc)
      BY <1>1, <1>2, <1>3, <3>1, DoneIsSettled
    <3>3. Settled(cache', stack', height, CallerLeaves(c), Top.acc)
      BY <1>t, <1>2, <1>3, <1>5, <3>2, SettledKept DEF Frame
    <3>4. QED
      BY <2>1, <3>3, <1>4
  <2>2. CASE d # c
    <3>1. decision'[d] = decision[d]
      BY <1>4, <2>2
    <3>2. Settled(cache, stack, height, CallerLeaves(d), decision[d])
      BY <3>1 DEF XInv, AnswersAccount
    <3>3. decision[d] \in Ranks /\ CallerLeaves(d) \in Seq(Leaf)
      BY <1>t, <3>1, CallersKnown, CallerLeavesType DEF TInv, TypeOK
    <3>4. QED
      BY <1>t, <1>5, <3>1, <3>2, <3>3, SettledKept
  <2>3. QED
    BY <2>1, <2>2
<1>10. ColdBelow(cache', stack', decision', asked')
  <2>1. ASSUME asked.cold, NEW n \in Names, cache[n] # Unset
        PROVE  cache[n] <= decision'[c]
    BY <2>1, <1>1, <1>2, <1>4, <1>5 DEF XInv, ColdBelow
  <2>2. QED
    BY <2>1, <1>1, <1>3 DEF XInv, ColdBelow
<1>11. QED
  BY <1>1, <1>6, <1>7, <1>8, <1>9, <1>10, ExactRigid DEF XInv

(* A question that begins, or is answered at once, leaves the memo and what *)
(* is final as they are.                                                   *)
LEMMA IdleXInv ==
  ASSUME JInv, XInv, stack = <<>>, UNCHANGED <<context, cache>>, Len(stack') \in {0, 1},
         \A c \in Callers : ~Annotated(c) => decision'[c] = decision[c]
  PROVE  /\ MemoAccounts(cache', stack')
         /\ AnswersAccount(cache', stack', decision')
         /\ \A n \in Names : cache'[n] # Unset => cache'[n] \in Levels
         /\ \A c \in Callers : decision'[c] # Undecided /\ ~Annotated(c) => decision'[c] \in Levels
<1>t. TInv /\ analysis \in Analyses /\ cache \in Memos
  BY DEF JInv, TInv, TypeOK, Analyses, Memos
<1>1. Len(stack) = 0
  OBVIOUS
<1>2. /\ Extends(cache, stack, cache', stack')
      /\ \A n \in Names : /\ Final(cache', stack', n) <=> cache[n] # Unset
                          /\ Final(cache, stack, n) <=> cache[n] # Unset
  BY <1>1, IdleIsFinal DEF Extends
<1>3. MemoAccounts(cache', stack')
  <2> SUFFICES ASSUME NEW height \in Heights, NEW n \in Names, Final(cache', stack', n)
               PROVE  /\ MemoStart(n) <= cache[n]
                      /\ Settled(cache', stack', height, MemoLeaves(n), cache[n])
    BY DEF MemoAccounts
  <2>1. /\ MemoStart(n) <= cache[n]
        /\ Settled(cache, stack, height, MemoLeaves(n), cache[n])
    BY <1>2 DEF XInv, MemoAccounts
  <2>2. cache[n] \in Ranks /\ MemoLeaves(n) \in Seq(Leaf)
    BY <1>t, <1>2, MemoLeavesType DEF Memos, TInv, TypeOK
  <2>3. QED
    BY <1>t, <1>2, <2>1, <2>2, SettledKept
<1>4. AnswersAccount(cache', stack', decision')
  <2> SUFFICES ASSUME NEW height \in Heights, NEW c \in Callers,
                      decision[c] # Undecided, ~Annotated(c)
               PROVE  Settled(cache', stack', height, CallerLeaves(c), decision[c])
    BY DEF AnswersAccount
  <2>1. Settled(cache, stack, height, CallerLeaves(c), decision[c])
    BY DEF XInv, AnswersAccount
  <2>2. decision[c] \in Ranks /\ CallerLeaves(c) \in Seq(Leaf)
    BY <1>t, CallersKnown, CallerLeavesType DEF TInv, TypeOK
  <2>3. QED
    BY <1>t, <1>2, <2>1, <2>2, SettledKept
<1>5. QED
  BY <1>3, <1>4 DEF XInv, InLevels

LEMMA CallXInv ==
  ASSUME JInv, XInv, NEW c \in Callers, Call(c)
  PROVE  XInv'
<1> DEFINE f == [memo |-> FALSE, name |-> c, pos |-> 1, acc |-> 0]
<1>t. TInv /\ analysis \in Analyses
  BY DEF JInv, TInv, TypeOK, Analyses
<1>1. /\ stack = <<>> /\ ~Annotated(c)
      /\ stack' = <<f>> /\ Len(stack') = 1 /\ stack'[1] = f
      /\ asked' = [caller |-> c, cold |-> Cold]
      /\ UNCHANGED <<context, cache, decision>>
  BY DEF Call
<1>2. /\ MemoAccounts(cache', stack')
      /\ AnswersAccount(cache', stack', decision')
      /\ \A n \in Names : cache'[n] # Unset => cache'[n] \in Levels
      /\ \A d \in Callers : decision'[d] # Undecided /\ ~Annotated(d) => decision'[d] \in Levels
  BY <1>1, IdleXInv
<1>3. EnteredGrounded(stack')
  BY <1>1 DEF EnteredGrounded
<1>f. ~f.memo /\ f.name = c /\ f.pos = 1 /\ f.acc = 0
  OBVIOUS
<1> HIDE DEF f
<1>4. InLevels(cache', stack', decision')
  BY <1>1, <1>2, <1>f, <1>t, LevelScale DEF InLevels
<1>5. CallsAccount(cache', stack')
  <2>1. CallerLeaves(c) \in Seq(Leaf)
    BY <1>t, CallersKnown, CallerLeavesType DEF TInv, TypeOK
  <2>2. \A j \in DOMAIN FrameLeaves(f) : ~(j < f.pos)
    BY <2>1, <1>f, LenProperties DEF FrameLeaves
  <2>3. QED
    BY <2>2, <1>1, <1>f DEF CallsAccount, Visited
<1>6. ColdBelow(cache', stack', decision', asked')
  <2>1. asked'.caller = c /\ asked'.cold = Cold /\ stack' # <<>>
    BY <1>1
  <2>2. Cold => \A n \in Names : ~Final(cache', stack', n)
    BY <1>1 DEF Cold, Computed, Final
  <2>3. QED
    BY <2>1, <2>2 DEF ColdBelow
<1>7. QuestionAsked(stack', asked')
  BY <1>1, <1>f DEF QuestionAsked
<1>8. QED
  BY <1>1, <1>2, <1>3, <1>4, <1>5, <1>6, <1>7, ExactRigid DEF XInv

LEMMA CallAnnotatedXInv ==
  ASSUME JInv, XInv, NEW c \in Callers, CallAnnotated(c)
  PROVE  XInv'
<1>1. /\ stack = <<>> /\ Annotated(c)
      /\ stack' = <<>> /\ Len(stack') = 0
      /\ asked' = [caller |-> c, cold |-> Cold]
      /\ decision' = [decision EXCEPT ![c] = AnnotatedRank(c)]
      /\ UNCHANGED <<context, cache>>
  BY DEF CallAnnotated
<1>2. \A d \in Callers : ~Annotated(d) => decision'[d] = decision[d]
  BY <1>1
<1>3. /\ MemoAccounts(cache', stack')
      /\ AnswersAccount(cache', stack', decision')
      /\ \A n \in Names : cache'[n] # Unset => cache'[n] \in Levels
      /\ \A d \in Callers : decision'[d] # Undecided /\ ~Annotated(d) => decision'[d] \in Levels
  BY <1>1, <1>2, IdleXInv
<1>4. /\ EnteredGrounded(stack')
      /\ InLevels(cache', stack', decision')
      /\ CallsAccount(cache', stack')
      /\ QuestionAsked(stack', asked')
  BY <1>1, <1>3 DEF EnteredGrounded, InLevels, CallsAccount, QuestionAsked
<1>5. ColdBelow(cache', stack', decision', asked')
  <2>1. asked'.caller = c
    BY <1>1
  <2>2. QED
    BY <2>1, <1>1 DEF ColdBelow
<1>6. QED
  BY <1>1, <1>3, <1>4, <1>5, ExactRigid DEF XInv

LEMMA InitXInv == Init => XInv
<1> SUFFICES ASSUME Init PROVE XInv
  OBVIOUS
<1>1. /\ stack = <<>> /\ Len(stack) = 0
      /\ \A n \in Names : cache[n] = Unset
      /\ \A c \in Callers : decision[c] = Undecided
      /\ ~asked.cold
  BY CallersKnown DEF Init
<1>2. QED
  BY <1>1 DEF XInv, EnteredGrounded, InLevels, CallsAccount, MemoAccounts, AnswersAccount,
              ColdBelow, QuestionAsked, Final

LEMMA NextXInv == JInv /\ NInv /\ XInv /\ [Next]_vars => XInv'
<1> SUFFICES ASSUME JInv, NInv, XInv, [Next]_vars PROVE XInv'
  OBVIOUS
<1>1. ASSUME NEW c \in Callers, Call(c) PROVE XInv'
  BY <1>1, CallXInv
<1>2. ASSUME NEW c \in Callers, CallAnnotated(c) PROVE XInv'
  BY <1>2, CallAnnotatedXInv
<1>3. CASE VisitLeaf
  BY <1>3, VisitLeafXInv
<1>4. CASE VisitCached
  BY <1>4, VisitCachedXInv
<1>5. CASE Descend
  BY <1>5, DescendXInv
<1>6. CASE Return
  BY <1>6, ReturnXInv
<1>7. CASE Answer
  BY <1>7, AnswerXInv
<1>8. CASE UNCHANGED vars
  <2>1. UNCHANGED <<context, cache, stack, decision, asked>>
    BY <1>8 DEF vars, context
  <2>2. QED
    BY <2>1, ExactRigid DEF XInv
<1>9. QED
  BY <1>1, <1>2, <1>3, <1>4, <1>5, <1>6, <1>7, <1>8 DEF Next, Walk

LEMMA XInvAlways == Spec => [](TInv /\ XInv)
<1>1. JInv => TInv
  BY DEF JInv
<1>2. QED
  BY <1>1, InitJInv, NextJInv, InitNInv, NextNInv, InitXInv, NextXInv, PTL DEF Spec

----------------------------------------------------------------------------
(* Theorems about exactness. *)

(* The top of the scale covers anything. *)
LEMMA TopCovers ==
  ASSUME analysis \in Analyses, NEW bound \in [Names -> Levels], NEW leaves \in Seq(Leaf)
  PROVE  Covers(bound, leaves, TopLevel)
<1> SUFFICES ASSUME NEW i \in DOMAIN leaves
             PROVE  IF IsRef(leaves[i]) THEN bound[leaves[i].base] <= TopLevel
                                        ELSE LeafRank(leaves[i]) <= TopLevel
  BY DEF Covers
<1>1. leaves[i] \in Leaf
  BY LenProperties, ElementOfSeq
<1>2. LeafRank(leaves[i]) <= TopLevel
  BY <1>1, LevelsOfTheWalk, LevelScale
<1>3. IsRef(leaves[i]) => bound[leaves[i].base] \in Levels
  BY DEF IsRef
<1>4. QED
  BY <1>2, <1>3, LevelScale

(* What was settled is covered by a bound that is nowhere higher than the  *)
(* settled rank where a leaf refers to it.                                 *)
LEMMA SettledCovers ==
  ASSUME analysis \in Analyses, NEW bound \in [Names -> Levels], NEW leaves \in Seq(Leaf),
         NEW memo, NEW frames, NEW height, NEW rank \in Levels, NEW above \in Levels,
         rank <= above,
         Settled(memo, frames, height, leaves, rank),
         \A j \in DOMAIN leaves :
           IsRef(leaves[j]) /\ Accounted(memo, frames, height, leaves[j], rank) =>
             bound[leaves[j].base] <= above
  PROVE  Covers(bound, leaves, above)
<1>n. rank \in Nat /\ above \in Nat /\ above <= TopLevel /\ TopLevel \in Nat
  BY LevelScale
<1>1. CASE Decisive(rank)
  <2>1. rank = TopLevel
    BY <1>1, LevelScale
  <2>2. above = TopLevel
    BY <2>1, <1>n
  <2>3. QED
    BY <2>2, TopCovers
<1>2. CASE ~Decisive(rank)
  <2> SUFFICES ASSUME NEW j \in DOMAIN leaves
               PROVE  IF IsRef(leaves[j]) THEN bound[leaves[j].base] <= above
                                          ELSE LeafRank(leaves[j]) <= above
    BY DEF Covers
  <2>1. Accounted(memo, frames, height, leaves[j], rank)
    BY <1>2 DEF Settled
  <2>2. LeafRank(leaves[j]) \in Nat
    BY LenProperties, ElementOfSeq, LevelsOfTheWalk, LevelScale
  <2>3. ~IsRef(leaves[j]) => LeafRank(leaves[j]) <= rank
    BY <2>1 DEF Accounted
  <2>4. QED
    BY <2>1, <2>2, <2>3, <1>n
<1>3. QED
  BY <1>1, <1>2

LEMMA ColdIsExact == TInv /\ XInv => ColdExact
<1> SUFFICES ASSUME TInv, XInv, stack = <<>>, asked.cold, Answered(asked.caller)
             PROVE  Exact(asked.caller)
  BY DEF ColdExact
<1> DEFINE c == asked.caller
           high == decision[c]
           bound == [n \in Names |-> IF cache[n] # Unset THEN high ELSE TopLevel]
<1>t. analysis \in Analyses
  BY DEF TInv, TypeOK, Analyses
<1>1. c \in Callers /\ decision[c] # Undecided /\ ~Annotated(c)
  BY DEF Answered, XInv, ColdBelow
<1>2. high \in Levels /\ \A n \in Names : cache[n] # Unset => cache[n] \in Levels /\ cache[n] <= high
  BY <1>1 DEF XInv, InLevels, ColdBelow
<1>3. \A n \in Names : Final(cache, stack, n) <=> cache[n] # Unset
  BY IdleIsFinal
<1>4. PICK height \in Heights : TRUE
  BY FlatHeights
<1> HIDE DEF high
<1>5. bound \in [Names -> Levels] /\ \A n \in Names : cache[n] # Unset => bound[n] = high
  BY <1>2, <1>t, LevelScale
<1>6. ASSUME NEW n \in Names, cache[n] = Unset PROVE bound[n] = TopLevel
  BY <1>6
<1> HIDE DEF bound
<1>7. \A leaf, rank : IsRef(leaf) /\ Accounted(cache, stack, height, leaf, rank) =>
                        bound[leaf.base] = high
  BY <1>5 DEF Accounted, IsRef
<1>8. high <= high
  BY <1>2, <1>t, LevelScale
<1>9. ASSUME NEW n \in Names
      PROVE  MemoStart(n) <= bound[n] /\ Covers(bound, MemoLeaves(n), bound[n])
  <2>1. MemoLeaves(n) \in Seq(Leaf) /\ MemoStart(n) \in Nat /\ MemoStart(n) <= TopLevel
    BY <1>t, MemoLeavesType, LevelsOfTheWalk, LevelScale DEF TInv, TypeOK
  <2>2. CASE cache[n] = Unset
    BY <2>1, <2>2, <1>5, <1>6, <1>t, TopCovers
  <2>3. CASE cache[n] # Unset
    <3>1. /\ MemoStart(n) <= cache[n]
          /\ Settled(cache, stack, height, MemoLeaves(n), cache[n])
      BY <2>3, <1>3 DEF XInv, MemoAccounts
    <3>2. /\ cache[n] \in Levels /\ cache[n] <= high
          /\ cache[n] \in Nat /\ high \in Nat
      BY <2>3, <1>2, <1>t, LevelScale
    <3>3. \A j \in DOMAIN MemoLeaves(n) :
            IsRef(MemoLeaves(n)[j]) /\ Accounted(cache, stack, height, MemoLeaves(n)[j], cache[n]) =>
              bound[MemoLeaves(n)[j].base] <= high
      BY <1>7, <1>8
    <3>4. Covers(bound, MemoLeaves(n), high)
      BY <1>2, <1>5, <1>t, <2>1, <3>1, <3>2, <3>3, SettledCovers
    <3>5. QED
      BY <2>1, <2>3, <3>1, <3>2, <3>4, <1>5
  <2>4. QED
    BY <2>2, <2>3
<1>10. bound \in Bounds
  BY <1>5, <1>9 DEF Bounds, IsBound
<1>11. Covers(bound, CallerLeaves(c), high)
  <2>1. CallerLeaves(c) \in Seq(Leaf)
    BY <1>1, CallersKnown, CallerLeavesType DEF TInv, TypeOK
  <2>2. Settled(cache, stack, height, CallerLeaves(c), high)
    BY <1>1 DEF XInv, AnswersAccount, high
  <2>3. \A j \in DOMAIN CallerLeaves(c) :
          IsRef(CallerLeaves(c)[j]) /\ Accounted(cache, stack, height, CallerLeaves(c)[j], high) =>
            bound[CallerLeaves(c)[j].base] <= high
    BY <1>7, <1>8
  <2>4. QED
    BY <1>2, <1>5, <1>8, <1>t, <2>1, <2>2, <2>3, SettledCovers
<1>12. QED
  BY <1>10, <1>11 DEF Exact, high

LEMMA AcyclicIsExact == TInv /\ XInv => AcyclicExact
<1> SUFFICES ASSUME TInv, XInv, NEW height \in Heights, NEW c \in Callers, Answered(c),
                    \A m \in Refs(CallerLeaves(c)) : height[m] > 0
             PROVE  Exact(c)
  BY DEF AcyclicExact
<1> DEFINE Exactly(n) == height[n] > 0 /\ Final(cache, stack, n)
           bound == [n \in Names |-> IF Exactly(n) THEN cache[n] ELSE TopLevel]
<1>t. analysis \in Analyses
  BY DEF TInv, TypeOK, Analyses
<1>1. decision[c] \in Levels /\ decision[c] # Undecided /\ ~Annotated(c)
  BY DEF Answered, XInv, InLevels
<1>2. \A n \in Names : Exactly(n) => cache[n] \in Levels
  BY DEF XInv, InLevels, Final
<1>3. /\ bound \in [Names -> Levels]
      /\ \A n \in Names : Exactly(n) => bound[n] = cache[n]
      /\ \A n \in Names : ~Exactly(n) => bound[n] = TopLevel
  BY <1>2, <1>t, LevelScale
<1> HIDE DEF bound
<1>4. \A leaf, rank :
        IsRef(leaf) /\ height[leaf.base] > 0 /\ Accounted(cache, stack, height, leaf, rank) =>
          bound[leaf.base] <= rank
  BY <1>3 DEF Accounted, IsRef
<1>5. ASSUME NEW n \in Names
      PROVE  MemoStart(n) <= bound[n] /\ Covers(bound, MemoLeaves(n), bound[n])
  <2>1. MemoLeaves(n) \in Seq(Leaf) /\ MemoStart(n) <= TopLevel
    BY <1>t, MemoLeavesType, LevelsOfTheWalk, LevelScale DEF TInv, TypeOK
  <2>2. CASE ~Exactly(n)
    BY <2>1, <2>2, <1>3, <1>t, TopCovers
  <2>3. CASE Exactly(n)
    <3>1. /\ MemoStart(n) <= cache[n]
          /\ Settled(cache, stack, height, MemoLeaves(n), cache[n])
      BY <2>3 DEF XInv, MemoAccounts
    <3>2. cache[n] \in Levels /\ cache[n] <= cache[n] /\ bound[n] = cache[n]
      BY <2>3, <1>2, <1>3, <1>t, LevelScale
    <3>3. \A j \in DOMAIN MemoLeaves(n) : IsRef(MemoLeaves(n)[j]) => height[MemoLeaves(n)[j].base] > 0
      BY <2>3 DEF Heights, Grounds, Refs
    <3>4. \A j \in DOMAIN MemoLeaves(n) :
            IsRef(MemoLeaves(n)[j]) /\ Accounted(cache, stack, height, MemoLeaves(n)[j], cache[n]) =>
              bound[MemoLeaves(n)[j].base] <= cache[n]
      BY <1>4, <3>3
    <3>5. Covers(bound, MemoLeaves(n), cache[n])
      BY <1>3, <1>t, <2>1, <3>1, <3>2, <3>4, SettledCovers
    <3>6. QED
      BY <3>1, <3>2, <3>5
  <2>4. QED
    BY <2>2, <2>3
<1>6. bound \in Bounds
  BY <1>3, <1>5 DEF Bounds, IsBound
<1>7. Covers(bound, CallerLeaves(c), decision[c])
  <2>1. CallerLeaves(c) \in Seq(Leaf)
    BY CallersKnown, CallerLeavesType DEF TInv, TypeOK
  <2>2. Settled(cache, stack, height, CallerLeaves(c), decision[c])
    BY <1>1 DEF XInv, AnswersAccount
  <2>3. \A j \in DOMAIN CallerLeaves(c) : IsRef(CallerLeaves(c)[j]) => height[CallerLeaves(c)[j].base] > 0
    BY DEF Refs
  <2>4. decision[c] <= decision[c]
    BY <1>1, <1>t, LevelScale
  <2>5. \A j \in DOMAIN CallerLeaves(c) :
          IsRef(CallerLeaves(c)[j]) /\ Accounted(cache, stack, height, CallerLeaves(c)[j], decision[c]) =>
            bound[CallerLeaves(c)[j].base] <= decision[c]
    BY <1>4, <2>3
  <2>6. QED
    BY <1>1, <1>3, <1>t, <2>1, <2>2, <2>4, <2>5, SettledCovers
<1>8. QED
  BY <1>6, <1>7 DEF Exact

(* For every IR file: an answer is only inexact when cycles and an earlier  *)
(* question come together.  The first answer of a context is exact however  *)
(* recursive the types are, and off the cycles every answer is.            *)
THEOREM ExactAlmostAlways == Spec => []ExactUnlessStale
<1>1. TInv /\ XInv => ExactUnlessStale
  BY ColdIsExact, AcyclicIsExact DEF ExactUnlessStale
<1>2. QED
  BY <1>1, XInvAlways, PTL

(* For every IR file, however stale the memo: no field gets a DoubleOps     *)
(* attribute in a type without the derive that reads it.                   *)
THEOREM DoublesAreDerived == Spec => []EduceCoversDoubles
<1>1. ASSUME TInv, XInv PROVE EduceCoversDoubles
  <2> SUFFICES ASSUME analysis = "double", NEW c \in Callers, Answered(c),
                      NEW i \in DOMAIN CallerLeaves(c), IsDouble(CallerLeaves(c)[i])
               PROVE  decision[c] = 1
    BY DEF EduceCoversDoubles
  <2>1. decision[c] \in {0, 1} /\ decision[c] # Undecided /\ ~Annotated(c)
    BY <1>1 DEF Answered, XInv, InLevels, Levels
  <2>2. PICK height \in Heights : TRUE
    BY FlatHeights
  <2>3. Settled(cache, stack, height, CallerLeaves(c), decision[c])
    BY <1>1, <2>1 DEF XInv, AnswersAccount
  <2>4. CASE Decisive(decision[c])
    BY <2>4 DEF Decisive
  <2>5. CASE ~Decisive(decision[c])
    <3>1. Accounted(cache, stack, height, CallerLeaves(c)[i], decision[c])
      BY <2>3, <2>5 DEF Settled
    <3>2. CallerLeaves(c)[i].base = "double" /\ "double" \in Prims
      BY DEF IsDouble, Prims
    <3>3. ~IsRef(CallerLeaves(c)[i])
      BY <3>2, NamesAssumption DEF IsRef
    <3>4. LeafRank(CallerLeaves(c)[i]) = 1
      BY <3>2 DEF LeafRank, PrimitiveHasDouble, Yes
    <3>5. QED
      BY <2>1, <3>1, <3>3, <3>4 DEF Accounted
  <2>6. QED
    BY <2>4, <2>5
<1>2. QED
  BY <1>1, XInvAlways, PTL

----------------------------------------------------------------------------
(***************************************************************************)
(* Stability.  An answer is the fold of ranks that never change again, and *)
(* so is what the outermost call has accumulated: a walk that repeats a    *)
(* question takes the same steps.                                          *)
(***************************************************************************)
RankAt(memo, leaf) == IF IsRef(leaf) THEN memo[leaf.base] ELSE LeafRank(leaf)

\* The values t[0], t[1] ... t[p] of a fold over the first p leaves.
Fold(memo, frames, leaves, p, t) ==
  /\ t \in [0 .. p -> Ranks]
  /\ t[0] = 0
  /\ \A k \in 1 .. p :
       /\ ~Decisive(t[k - 1])
       /\ IsRef(leaves[k]) => Final(memo, frames, leaves[k].base)
       /\ t[k] = Combine(t[k - 1], RankAt(memo, leaves[k]))

AnswersFold(memo, frames, answers) ==
  \A c \in Callers : answers[c] # Undecided /\ ~Annotated(c) =>
    \E p \in 0 .. Len(CallerLeaves(c)) : \E t \in [0 .. p -> Ranks] :
      /\ Fold(memo, frames, CallerLeaves(c), p, t)
      /\ p = Len(CallerLeaves(c)) \/ Decisive(t[p])
      /\ t[p] = answers[c]

OutermostFolds(memo, frames) ==
  frames # <<>> =>
    LET p == frames[1].pos - 1
    IN /\ p \in 0 .. Len(CallerLeaves(frames[1].name))
       /\ \E t \in [0 .. p -> Ranks] :
            /\ Fold(memo, frames, CallerLeaves(frames[1].name), p, t)
            /\ t[p] = frames[1].acc

\* A call that waits for another has not been decided.
WaitingIsOpen(frames) == \A i \in 1 .. Len(frames) - 1 : ~Decisive(frames[i].acc)

AnnotatedAnswers(answers) ==
  \A c \in Callers : Annotated(c) /\ answers[c] # Undecided => answers[c] = AnnotatedRank(c)

SInv ==
  /\ AnswersFold(cache, stack, decision)
  /\ OutermostFolds(cache, stack)
  /\ WaitingIsOpen(stack)
  /\ AnnotatedAnswers(decision)
  /\ QuestionAsked(stack, asked)


LEMMA StableRigid ==
  ASSUME UNCHANGED context
  PROVE  /\ AnswersFold(cache, stack, decision)' <=> AnswersFold(cache', stack', decision')
         /\ OutermostFolds(cache, stack)' <=> OutermostFolds(cache', stack')
         /\ WaitingIsOpen(stack)' <=> WaitingIsOpen(stack')
         /\ AnnotatedAnswers(decision)' <=> AnnotatedAnswers(decision')
         /\ QuestionAsked(stack, asked)' <=> QuestionAsked(stack', asked')
<1> USE DEF context
<1>1. Callers' = Callers
  BY RigidContext
<1>2. AnswersFold(cache, stack, decision)' <=> AnswersFold(cache', stack', decision')
  BY <1>1 DEF AnswersFold, Fold, Annotated, CallerLeaves, Decisive, Combine, RankAt, IsRef,
              LeafRank, Final
<1>3. OutermostFolds(cache, stack)' <=> OutermostFolds(cache', stack')
  BY DEF OutermostFolds, Fold, CallerLeaves, Decisive, Combine, RankAt, IsRef, LeafRank, Final
<1>4. WaitingIsOpen(stack)' <=> WaitingIsOpen(stack')
  BY DEF WaitingIsOpen, Decisive
<1>5. AnnotatedAnswers(decision)' <=> AnnotatedAnswers(decision')
  BY <1>1 DEF AnnotatedAnswers, Annotated, AnnotatedRank
<1>6. QuestionAsked(stack, asked)' <=> QuestionAsked(stack', asked')
  BY ExactRigid
<1>7. QED
  BY <1>2, <1>3, <1>4, <1>5, <1>6

LEMMA FoldKept ==
  ASSUME NEW memo, NEW frames, NEW memo2, NEW frames2, Extends(memo, frames, memo2, frames2),
         NEW leaves \in Seq(Leaf), NEW p \in 0 .. Len(leaves), NEW t,
         Fold(memo, frames, leaves, p, t)
  PROVE  Fold(memo2, frames2, leaves, p, t)
<1>1. ASSUME NEW k \in 1 .. p
      PROVE  /\ ~Decisive(t[k - 1])
             /\ IsRef(leaves[k]) => Final(memo2, frames2, leaves[k].base)
             /\ t[k] = Combine(t[k - 1], RankAt(memo2, leaves[k]))
  <2>1. /\ ~Decisive(t[k - 1])
        /\ IsRef(leaves[k]) => Final(memo, frames, leaves[k].base)
        /\ t[k] = Combine(t[k - 1], RankAt(memo, leaves[k]))
    BY DEF Fold
  <2>2. IsRef(leaves[k]) => leaves[k].base \in Names
    BY DEF IsRef
  <2>3. IsRef(leaves[k]) =>
          Final(memo2, frames2, leaves[k].base) /\ memo2[leaves[k].base] = memo[leaves[k].base]
    BY <2>1, <2>2 DEF Extends
  <2>4. RankAt(memo2, leaves[k]) = RankAt(memo, leaves[k])
    BY <2>3 DEF RankAt
  <2>5. QED
    BY <2>1, <2>3, <2>4
<1>2. QED
  BY <1>1 DEF Fold

(* Two folds of the same leaves go the same way as far as both go: they     *)
(* would have to part at a first step.                                     *)
LEMMA FoldsAgree ==
  ASSUME NEW memo, NEW frames, NEW leaves \in Seq(Leaf),
         NEW p \in Nat, NEW t, Fold(memo, frames, leaves, p, t),
         NEW q \in Nat, NEW u, Fold(memo, frames, leaves, q, u),
         NEW k \in Nat, k <= p, k <= q
  PROVE  t[k] = u[k]
<1> DEFINE S == {j \in Nat : j <= p /\ j <= q /\ t[j] # u[j]}
<1>1. SUFFICES ASSUME S # {} PROVE FALSE
  OBVIOUS
<1>2. PICK n \in S : \A m \in S : <<m, n>> \notin OpToRel(<, Nat)
  BY <1>1, WFMin, NatLessThanWellFounded, Zenon
<1>3. n \in Nat /\ n <= p /\ n <= q /\ t[n] # u[n]
  OBVIOUS
<1>4. n # 0
  BY <1>3 DEF Fold
<1>5. n - 1 \in Nat /\ n - 1 < n /\ n - 1 <= p /\ n - 1 <= q /\ n \in 1 .. p /\ n \in 1 .. q
  BY <1>3, <1>4
<1>6. n - 1 \notin S
  BY <1>2, <1>3, <1>5 DEF OpToRel
<1>7. t[n - 1] = u[n - 1]
  BY <1>5, <1>6
<1>8. t[n] = Combine(t[n - 1], RankAt(memo, leaves[n])) /\ u[n] = Combine(u[n - 1], RankAt(memo, leaves[n]))
  BY <1>5 DEF Fold
<1>9. QED
  BY <1>3, <1>7, <1>8

(* Two folds that have come to an end are one.                             *)
LEMMA FoldsEndAlike ==
  ASSUME NEW memo, NEW frames, NEW leaves \in Seq(Leaf),
         NEW p \in 0 .. Len(leaves), NEW t, Fold(memo, frames, leaves, p, t),
         p = Len(leaves) \/ Decisive(t[p]),
         NEW q \in 0 .. Len(leaves), NEW u, Fold(memo, frames, leaves, q, u),
         q = Len(leaves) \/ Decisive(u[q])
  PROVE  t[p] = u[q]
<1>1. p \in Nat /\ q \in Nat /\ p <= Len(leaves) /\ q <= Len(leaves) /\ Len(leaves) \in Nat
  BY LenProperties
<1>a. ASSUME NEW k \in Nat, k <= p, k <= q PROVE t[k] = u[k]
  BY <1>1, <1>a, FoldsAgree, SMTT(60)
<1>2. CASE p = q
  BY <1>1, <1>2, <1>a
<1>3. CASE p < q
  <2>1. Decisive(t[p])
    BY <1>1, <1>3
  <2>2. t[p] = u[p]
    BY <1>1, <1>3, <1>a
  <2>3. p + 1 \in 1 .. q /\ (p + 1) - 1 = p
    BY <1>1, <1>3
  <2>4. ~Decisive(u[p])
    BY <2>3 DEF Fold
  <2>5. QED
    BY <2>1, <2>2, <2>4
<1>4. CASE q < p
  <2>1. Decisive(u[q])
    BY <1>1, <1>4
  <2>2. t[q] = u[q]
    BY <1>1, <1>4, <1>a
  <2>3. q + 1 \in 1 .. p /\ (q + 1) - 1 = q
    BY <1>1, <1>4
  <2>4. ~Decisive(t[q])
    BY <2>3 DEF Fold
  <2>5. QED
    BY <2>1, <2>2, <2>4
<1>5. QED
  BY <1>1, <1>2, <1>3, <1>4

(* One step more.                                                          *)
LEMMA FoldExtended ==
  ASSUME analysis \in Analyses, NEW memo, NEW frames, NEW leaves \in Seq(Leaf),
         NEW p \in Nat, p < Len(leaves), NEW t, Fold(memo, frames, leaves, p, t),
         ~Decisive(t[p]), NEW got \in Ranks,
         IF IsRef(leaves[p + 1])
           THEN Final(memo, frames, leaves[p + 1].base) /\ memo[leaves[p + 1].base] = got
           ELSE got = LeafRank(leaves[p + 1])
  PROVE  \E u \in [0 .. p + 1 -> Ranks] :
           /\ Fold(memo, frames, leaves, p + 1, u)
           /\ u[p + 1] = Combine(t[p], got)
<1> DEFINE u == [k \in 0 .. p + 1 |-> IF k <= p THEN t[k] ELSE Combine(t[p], got)]
<1>1. \A k \in 0 .. p : k <= p /\ k \in 0 .. p + 1 /\ t[k] \in Ranks
  BY DEF Fold
<1>2. Combine(t[p], got) \in Ranks
  BY <1>1, CombineRank
<1>3. \A k \in 0 .. p + 1 : k <= p => k \in 0 .. p
  OBVIOUS
<1>4. u \in [0 .. p + 1 -> Ranks]
  BY <1>1, <1>2, <1>3
<1>5. (\A k \in 0 .. p : u[k] = t[k]) /\ u[p + 1] = Combine(t[p], got)
  BY <1>1
<1> HIDE DEF u
<1>6. RankAt(memo, leaves[p + 1]) = got
  BY DEF RankAt
<1>7. u[0] = 0
  BY <1>5 DEF Fold
<1>8. ASSUME NEW k \in 1 .. p + 1
      PROVE  /\ ~Decisive(u[k - 1])
             /\ IsRef(leaves[k]) => Final(memo, frames, leaves[k].base)
             /\ u[k] = Combine(u[k - 1], RankAt(memo, leaves[k]))
  <2>1. k - 1 \in 0 .. p /\ u[k - 1] = t[k - 1]
    BY <1>5
  <2>2. CASE k = p + 1
    <3>1. u[k - 1] = t[p]
      BY <2>1, <2>2
    <3>2. QED
      BY <2>2, <3>1, <1>5, <1>6
  <2>3. CASE k # p + 1
    <3>1. k \in 1 .. p /\ u[k] = t[k]
      BY <2>3, <1>5
    <3>2. QED
      BY <2>1, <3>1 DEF Fold
  <2>4. QED
    BY <2>2, <2>3
<1>9. Fold(memo, frames, leaves, p + 1, u)
  BY <1>4, <1>7, <1>8 DEF Fold
<1>10. QED
  BY <1>4, <1>5, <1>9

----------------------------------------------------------------------------
(* The steps of the walk. *)

LEMMA AnswersFoldKept ==
  ASSUME TInv, SInv, UNCHANGED context, Extends(cache, stack, cache', stack'),
         NEW c \in Callers, decision[c] # Undecided, ~Annotated(c)
  PROVE  \E p \in 0 .. Len(CallerLeaves(c)) : \E t \in [0 .. p -> Ranks] :
           /\ Fold(cache', stack', CallerLeaves(c), p, t)
           /\ p = Len(CallerLeaves(c)) \/ Decisive(t[p])
           /\ t[p] = decision[c]
<1>1. CallerLeaves(c) \in Seq(Leaf)
  BY CallersKnown, CallerLeavesType DEF TInv, TypeOK
<1>2. PICK p \in 0 .. Len(CallerLeaves(c)) : \E t \in [0 .. p -> Ranks] :
        /\ Fold(cache, stack, CallerLeaves(c), p, t)
        /\ p = Len(CallerLeaves(c)) \/ Decisive(t[p])
        /\ t[p] = decision[c]
  BY DEF SInv, AnswersFold
<1>3. PICK t \in [0 .. p -> Ranks] :
        /\ Fold(cache, stack, CallerLeaves(c), p, t)
        /\ p = Len(CallerLeaves(c)) \/ Decisive(t[p])
        /\ t[p] = decision[c]
  BY <1>2
<1>4. Fold(cache', stack', CallerLeaves(c), p, t)
  BY <1>1, <1>3, FoldKept
<1>5. QED
  BY <1>3, <1>4

(* The outermost call.                                                     *)
LEMMA Outermost ==
  ASSUME TInv, stack # <<>>
  PROVE  /\ stack[1] \in Frame /\ stack[1].name \in Callers
         /\ 1 \in 1 .. Len(stack)
         /\ FrameLeaves(stack[1]) = CallerLeaves(stack[1].name)
         /\ CallerLeaves(stack[1].name) \in Seq(Leaf)
         /\ stack[1].pos - 1 \in Nat
<1>1. 1 \in 1 .. Len(stack)
  BY TopType
<1>2. stack[1] \in Frame /\ ~stack[1].memo /\ FrameLeaves(stack[1]) \in Seq(Leaf)
  BY <1>1, FrameAt
<1>3. stack[1].name \in Callers
  BY <1>1, <1>2 DEF TInv, StackShape
<1>4. QED
  BY <1>1, <1>2, <1>3 DEF FrameLeaves, Frame

LEMMA OutermostKept ==
  ASSUME TInv, SInv, stack # <<>>, stack' # <<>>, stack'[1] = stack[1],
         Extends(cache, stack, cache', stack')
  PROVE  OutermostFolds(cache', stack')
<1> DEFINE c == stack[1].name
           p == stack[1].pos - 1
<1>1. p \in 0 .. Len(CallerLeaves(c))
  BY DEF SInv, OutermostFolds
<1>2. PICK t \in [0 .. p -> Ranks] :
        Fold(cache, stack, CallerLeaves(c), p, t) /\ t[p] = stack[1].acc
  BY DEF SInv, OutermostFolds
<1>3. CallerLeaves(c) \in Seq(Leaf)
  BY Outermost
<1>4. Fold(cache', stack', CallerLeaves(c), p, t)
  BY <1>1, <1>2, <1>3, FoldKept
<1>5. QED
  BY <1>1, <1>2, <1>4 DEF OutermostFolds

LEMMA GotSInv ==
  ASSUME TInv, SInv, UNCHANGED <<context, decision, asked>>,
         Extends(cache, stack, cache', stack'),
         NEW k \in 1 .. Len(stack), NEW got \in Ranks, Len(stack') = k,
         stack'[k] = Stepped(stack[k], got), ~Decisive(stack[k].acc),
         \A i \in 1 .. k - 1 : stack'[i] = stack[i],
         stack[k].pos \in DOMAIN FrameLeaves(stack[k]),
         k = 1 =>
           IF IsRef(FrameLeaves(stack[k])[stack[k].pos])
             THEN /\ Final(cache', stack', FrameLeaves(stack[k])[stack[k].pos].base)
                  /\ cache'[FrameLeaves(stack[k])[stack[k].pos].base] = got
             ELSE got = LeafRank(FrameLeaves(stack[k])[stack[k].pos])
  PROVE  SInv'
<1>t. analysis \in Analyses
  BY DEF TInv, TypeOK, Analyses
<1>k. k \in Nat \ {0} /\ Len(stack) \in Nat /\ stack # <<>> /\ stack' # <<>>
  BY LenProperties, EmptySeq DEF TInv, TypeOK
<1>1. AnswersFold(cache', stack', decision')
  BY AnswersFoldKept DEF AnswersFold
<1>2. OutermostFolds(cache', stack')
  <2>1. CASE k # 1
    <3>1. stack'[1] = stack[1]
      BY <1>k, <2>1
    <3>2. QED
      BY <1>k, <3>1, OutermostKept
  <2>2. CASE k = 1
    <3> DEFINE f == stack[1]
               leaves == CallerLeaves(f.name)
               p == f.pos - 1
    <3>1. f \in Frame /\ FrameLeaves(f) = leaves /\ leaves \in Seq(Leaf) /\ p \in Nat
      BY <1>k, Outermost
    <3>2. p \in 0 .. Len(leaves)
      BY <1>k DEF SInv, OutermostFolds
    <3>3. PICK t \in [0 .. p -> Ranks] : Fold(cache, stack, leaves, p, t) /\ t[p] = f.acc
      BY <1>k DEF SInv, OutermostFolds
    <3>4. Fold(cache', stack', leaves, p, t)
      BY <3>1, <3>2, <3>3, FoldKept
    <3>5. p + 1 = f.pos /\ p < Len(leaves) /\ p + 1 \in 0 .. Len(leaves)
      <4>1. f.pos \in 1 .. Len(leaves) /\ Len(leaves) \in Nat
        BY <2>2, <3>1, LenProperties
      <4>2. QED
        BY <4>1
    <3>6. /\ ~Decisive(t[p])
          /\ IF IsRef(leaves[p + 1])
               THEN Final(cache', stack', leaves[p + 1].base) /\ cache'[leaves[p + 1].base] = got
               ELSE got = LeafRank(leaves[p + 1])
      BY <2>2, <3>1, <3>3, <3>5
    <3>7. /\ stack'[1].name = f.name /\ stack'[1].pos = f.pos + 1
          /\ stack'[1].acc = Combine(t[p], got)
      BY <2>2, <3>3 DEF Stepped
    <3>8. stack'[1].pos - 1 = p + 1
      BY <3>1, <3>5, <3>7
    <3> HIDE DEF f, leaves, p
    <3>9. PICK u \in [0 .. p + 1 -> Ranks] :
            Fold(cache', stack', leaves, p + 1, u) /\ u[p + 1] = Combine(t[p], got)
      <4>1. leaves \in Seq(Leaf) /\ p \in Nat /\ p < Len(leaves)
        BY <3>1, <3>5
      <4>2. QED
        BY <1>t, <4>1, <3>4, <3>6, FoldExtended, SMTT(60)
    <3>10. CallerLeaves(stack'[1].name) = leaves
      BY <3>7 DEF leaves
    <3>11. QED
      BY <3>5, <3>7, <3>8, <3>9, <3>10 DEF OutermostFolds
  <2>3. QED
    BY <2>1, <2>2
<1>3. WaitingIsOpen(stack')
  <2>1. \A i \in 1 .. k - 1 : i \in 1 .. Len(stack) - 1 /\ stack'[i] = stack[i]
    BY <1>k
  <2>2. QED
    BY <2>1 DEF SInv, WaitingIsOpen
<1>4. QuestionAsked(stack', asked')
  <2>1. stack'[1].name = stack[1].name
    <3>1. CASE k = 1
      BY <3>1 DEF Stepped
    <3>2. CASE k # 1
      BY <3>2, <1>k
    <3>3. QED
      BY <3>1, <3>2
  <2>2. QED
    BY <1>k, <2>1 DEF SInv, QuestionAsked
<1>5. AnnotatedAnswers(decision')
  BY DEF SInv, AnnotatedAnswers
<1>6. QED
  BY <1>1, <1>2, <1>3, <1>4, <1>5, StableRigid DEF SInv

(* Where no call is on the stack but the outermost, what is read is final.  *)
LEMMA VisitSInv ==
  ASSUME TInv, SInv, VisitLeaf \/ VisitCached
  PROVE  SInv'
<1> DEFINE got == RankAt(cache, NextLeaf)
           k == Len(stack)
<1>t. analysis \in Analyses
  BY DEF TInv, TypeOK, Analyses
<1>1. /\ Walking
      /\ stack' = Advanced(stack, got)
      /\ IsRef(NextLeaf) => Computed(NextLeaf.base)
      /\ cache' = cache
      /\ UNCHANGED <<context, decision, asked>>
  BY DEF VisitLeaf, VisitCached, RankAt
<1>2. k \in Nat \ {0} /\ Top = stack[k] /\ ~Decisive(Top.acc)
  BY <1>1, TopType DEF Walking, FrameDone
<1>3. /\ Top.pos \in DOMAIN FrameLeaves(Top)
      /\ NextLeaf = FrameLeaves(Top)[Top.pos]
      /\ NextLeaf \in Leaf
      /\ IsRef(NextLeaf) => NextLeaf.base \in Names
  BY <1>1, NextLeafType
<1>4. got \in Ranks
  <2>1. CASE IsRef(NextLeaf)
    BY <2>1, <1>1, <1>3 DEF RankAt, Computed, TInv, TypeOK
  <2>2. CASE ~IsRef(NextLeaf)
    BY <2>2, <1>3, <1>t, LeafRankType DEF RankAt
  <2>3. QED
    BY <2>1, <2>2
<1>5. IF IsRef(NextLeaf) THEN cache'[NextLeaf.base] = got ELSE got = LeafRank(NextLeaf)
  BY <1>1 DEF RankAt
<1> HIDE DEF got
<1>6. /\ Len(stack') = k
      /\ stack'[k] = Stepped(Top, got)
      /\ \A i \in 1 .. k - 1 : stack'[i] = stack[i]
      /\ \A i \in 2 .. k : stack'[i].name = stack[i].name
  BY <1>1, <1>4, AdvanceStack, AdvanceKeepsNames
<1>7. Extends(cache, stack, cache', stack')
  BY <1>1, <1>6, SameNamesExtend
<1>8. k = 1 /\ IsRef(NextLeaf) => Final(cache', stack', NextLeaf.base)
  BY <1>1, <1>6, IdleIsFinal DEF Computed
<1>9. /\ stack[k].pos \in DOMAIN FrameLeaves(stack[k])
      /\ FrameLeaves(stack[k])[stack[k].pos] = NextLeaf
      /\ ~Decisive(stack[k].acc) /\ stack'[k] = Stepped(stack[k], got)
      /\ k \in 1 .. Len(stack)
  BY <1>2, <1>3, <1>6
<1>10. k = 1 =>
         IF IsRef(FrameLeaves(stack[k])[stack[k].pos])
           THEN /\ Final(cache', stack', FrameLeaves(stack[k])[stack[k].pos].base)
                /\ cache'[FrameLeaves(stack[k])[stack[k].pos].base] = got
           ELSE got = LeafRank(FrameLeaves(stack[k])[stack[k].pos])
  BY <1>5, <1>8, <1>9
<1> HIDE DEF k
<1>11. QED
  BY <1>1, <1>4, <1>6, <1>7, <1>9, <1>10, GotSInv

LEMMA ReturnSInv ==
  ASSUME JInv, NInv, SInv, Return
  PROVE  SInv'
<1> DEFINE k == Len(stack) - 1
           got == Top.acc
           m == Top.name
<1>t. TInv
  BY DEF JInv
<1>1. /\ k \in Nat \ {0}
      /\ Top = stack[k + 1]
      /\ Len(stack') = k
      /\ stack'[k] = Stepped(stack[k], got)
      /\ \A i \in 1 .. k - 1 : stack'[i] = stack[i]
  BY <1>t, ReturnStack
<1>2. UNCHANGED <<context, decision, asked>>
  BY DEF Return
<1>3. /\ got \in Ranks
      /\ cache'[m] = got
      /\ Extends(cache, stack, cache', stack')
      /\ Final(cache', stack', m)
  BY ReturnExtends
<1>4. k \in 1 .. Len(stack) /\ k \in 1 .. Len(stack) - 1
  BY <1>1
<1>5. Calls(stack[k], m)
  BY <1>1, <1>4 DEF JInv, Chain
<1>6. /\ stack[k].pos \in DOMAIN FrameLeaves(stack[k])
      /\ IsRef(FrameLeaves(stack[k])[stack[k].pos])
      /\ FrameLeaves(stack[k])[stack[k].pos].base = m
  BY <1>5 DEF Calls
<1>7. ~Decisive(stack[k].acc)
  BY <1>4 DEF SInv, WaitingIsOpen
<1> HIDE DEF k, got, m
<1>8. QED
  BY <1>t, <1>1, <1>2, <1>3, <1>4, <1>6, <1>7, GotSInv

LEMMA DescendSInv ==
  ASSUME TInv, SInv, Descend
  PROVE  SInv'
<1> DEFINE k == Len(stack)
<1>1. /\ Len(stack') = k + 1
      /\ \A i \in 1 .. k : stack'[i] = stack[i]
  BY DescendStack
<1>2. k \in Nat \ {0} /\ Top = stack[k] /\ ~Decisive(Top.acc)
  BY TopType DEF Descend, Walking, FrameDone
<1>3. UNCHANGED <<context, decision, asked>> /\ Extends(cache, stack, cache', stack')
  BY DescendExtends DEF Descend
<1>4. stack # <<>> /\ stack' # <<>> /\ stack'[1] = stack[1]
  BY <1>1, <1>2, EmptySeq
<1>5. AnswersFold(cache', stack', decision')
  BY <1>3, AnswersFoldKept DEF AnswersFold
<1>6. OutermostFolds(cache', stack')
  BY <1>3, <1>4, OutermostKept
<1>7. WaitingIsOpen(stack')
  <2> SUFFICES ASSUME NEW i \in 1 .. k PROVE ~Decisive(stack'[i].acc)
    BY <1>1, <1>2 DEF WaitingIsOpen
  <2>1. CASE i = k
    BY <2>1, <1>1, <1>2
  <2>2. CASE i # k
    <3>1. i \in 1 .. Len(stack) - 1
      BY <2>2, <1>2
    <3>2. QED
      BY <3>1, <1>1 DEF SInv, WaitingIsOpen
  <2>3. QED
    BY <2>1, <2>2
<1>8. QuestionAsked(stack', asked') /\ AnnotatedAnswers(decision')
  BY <1>3, <1>4 DEF SInv, QuestionAsked, AnnotatedAnswers
<1>9. QED
  BY <1>3, <1>5, <1>6, <1>7, <1>8, StableRigid DEF SInv

(* The answer is the one that was given before, if there was one.          *)
LEMMA AnswerSInv ==
  ASSUME TInv, SInv, Answer
  PROVE  /\ SInv'
         /\ decision[Top.name] # Undecided => Top.acc = decision[Top.name]
<1> DEFINE c == Top.name
           leaves == CallerLeaves(c)
           p == Top.pos - 1
<1>1. /\ stack # <<>> /\ stack' = <<>> /\ Len(stack') = 0
      /\ cache' = cache
      /\ decision' = [decision EXCEPT ![c] = Top.acc]
      /\ ~Top.memo /\ FrameDone(Top)
      /\ UNCHANGED <<context, asked>>
  BY DEF Answer
<1>2. Len(stack) = 1 /\ Top = stack[1] /\ c \in Callers /\ Top \in Frame
  <2>1. /\ Len(stack) \in Nat \ {0} /\ ~(Len(stack) > 1)
        /\ Top = stack[Len(stack)] /\ c \in Callers /\ Top \in Frame
    BY <1>1, TopType
  <2>2. \A n \in Nat \ {0} : n > 1 \/ n = 1
    OBVIOUS
  <2>3. QED
    BY <2>1, <2>2
<1>3. /\ FrameLeaves(Top) = leaves /\ leaves \in Seq(Leaf)
      /\ ~Annotated(c) /\ p \in Nat /\ Top.pos \in Nat
  BY <1>1, <1>2, Outermost DEF SInv, QuestionAsked, Frame
<1>4. /\ decision'[c] = Top.acc
      /\ \A d \in Callers : d # c => decision'[d] = decision[d]
  <2>1. c \in Names \cup Args
    BY <1>2, CallersKnown
  <2>2. QED
    BY <1>1, <2>1 DEF TInv, TypeOK
<1>5. Extends(cache, stack, cache', stack')
  <2>1. \A n \in Names : /\ Final(cache', stack', n) <=> cache'[n] # Unset
                         /\ Final(cache, stack, n) <=> cache[n] # Unset
    BY <1>1, <1>2, IdleIsFinal
  <2>2. QED
    BY <1>1, <2>1 DEF Extends
<1>6. p \in 0 .. Len(leaves)
  BY <1>1, <1>2 DEF SInv, OutermostFolds
<1>7. PICK t \in [0 .. p -> Ranks] : Fold(cache, stack, leaves, p, t) /\ t[p] = Top.acc
  BY <1>1, <1>2 DEF SInv, OutermostFolds
<1>8. p = Len(leaves) \/ Decisive(t[p])
  <2>1. CASE Decisive(Top.acc)
    BY <2>1, <1>7
  <2>2. CASE ~Decisive(Top.acc)
    <3>1. Top.pos > Len(leaves) /\ Len(leaves) \in Nat
      BY <2>2, <1>1, <1>3, LenProperties DEF FrameDone
    <3>2. QED
      BY <3>1, <1>3, <1>6
  <2>3. QED
    BY <2>1, <2>2
<1>9. Fold(cache', stack', leaves, p, t)
  BY <1>3, <1>5, <1>6, <1>7, FoldKept
<1> HIDE DEF p
<1>10. ASSUME decision[c] # Undecided PROVE Top.acc = decision[c]
  <2>1. PICK q \in 0 .. Len(leaves) : \E u \in [0 .. q -> Ranks] :
          /\ Fold(cache, stack, leaves, q, u)
          /\ q = Len(leaves) \/ Decisive(u[q])
          /\ u[q] = decision[c]
    BY <1>2, <1>3, <1>10 DEF SInv, AnswersFold
  <2>2. PICK u \in [0 .. q -> Ranks] :
          /\ Fold(cache, stack, leaves, q, u)
          /\ q = Len(leaves) \/ Decisive(u[q])
          /\ u[q] = decision[c]
    BY <2>1
  <2>3. t[p] = u[q]
    BY <1>3, <1>6, <1>7, <1>8, <2>2, FoldsEndAlike
  <2>4. QED
    BY <1>7, <2>2, <2>3
<1>11. AnswersFold(cache', stack', decision')
  <2> SUFFICES ASSUME NEW d \in Callers, decision'[d] # Undecided, ~Annotated(d)
               PROVE  \E q \in 0 .. Len(CallerLeaves(d)) : \E u \in [0 .. q -> Ranks] :
                        /\ Fold(cache', stack', CallerLeaves(d), q, u)
                        /\ q = Len(CallerLeaves(d)) \/ Decisive(u[q])
                        /\ u[q] = decision'[d]
    BY DEF AnswersFold
  <2>1. CASE d = c
    BY <2>1, <1>4, <1>6, <1>7, <1>8, <1>9
  <2>2. CASE d # c
    <3>1. decision'[d] = decision[d]
      BY <1>4, <2>2
    <3>2. QED
      BY <1>1, <1>5, <3>1, AnswersFoldKept
  <2>3. QED
    BY <2>1, <2>2
<1>12. OutermostFolds(cache', stack') /\ WaitingIsOpen(stack') /\ QuestionAsked(stack', asked')
  BY <1>1 DEF OutermostFolds, WaitingIsOpen, QuestionAsked
<1>13. AnnotatedAnswers(decision')
  BY <1>3, <1>4 DEF SInv, AnnotatedAnswers
<1>14. QED
  BY <1>1, <1>10, <1>11, <1>12, <1>13, StableRigid DEF SInv

LEMMA CallSInv ==
  ASSUME TInv, SInv, NEW c \in Callers, Call(c)
  PROVE  SInv'
<1> DEFINE f == [memo |-> FALSE, name |-> c, pos |-> 1, acc |-> 0]
<1>1. /\ stack = <<>> /\ Len(stack) = 0 /\ ~Annotated(c)
      /\ stack' = <<f>> /\ Len(stack') = 1 /\ stack'[1] = f
      /\ asked' = [caller |-> c, cold |-> Cold]
      /\ UNCHANGED <<context, cache, decision>>
  BY DEF Call
<1>f. f.name = c /\ f.pos - 1 = 0 /\ f.acc = 0
  OBVIOUS
<1> HIDE DEF f
<1>2. Extends(cache, stack, cache', stack')
  BY <1>1, IdleIsFinal DEF Extends
<1>3. AnswersFold(cache', stack', decision')
  BY <1>1, <1>2, AnswersFoldKept DEF AnswersFold
<1>4. OutermostFolds(cache', stack')
  <2> DEFINE t == [k \in 0 .. 0 |-> 0]
  <2>1. 0 \in Ranks /\ 0 \in 0 .. 0 /\ \A k : k \notin 1 .. 0
    BY DEF Ranks
  <2>2. t \in [0 .. 0 -> Ranks] /\ t[0] = 0
    BY <2>1
  <2> HIDE DEF t
  <2>3. Fold(cache', stack', CallerLeaves(c), 0, t)
    BY <2>1, <2>2 DEF Fold
  <2>4. CallerLeaves(c) \in Seq(Leaf)
    BY CallersKnown, CallerLeavesType DEF TInv, TypeOK
  <2>5. 0 \in 0 .. Len(CallerLeaves(c))
    BY <2>4, LenProperties
  <2>6. QED
    BY <1>1, <1>f, <2>2, <2>3, <2>5 DEF OutermostFolds
<1>5. WaitingIsOpen(stack')
  BY <1>1 DEF WaitingIsOpen
<1>6. QuestionAsked(stack', asked') /\ AnnotatedAnswers(decision')
  BY <1>1, <1>f DEF SInv, QuestionAsked, AnnotatedAnswers
<1>7. QED
  BY <1>1, <1>3, <1>4, <1>5, <1>6, StableRigid DEF SInv

LEMMA CallAnnotatedSInv ==
  ASSUME TInv, SInv, NEW c \in Callers, CallAnnotated(c)
  PROVE  /\ SInv'
         /\ decision[c] # Undecided => AnnotatedRank(c) = decision[c]
<1>1. /\ stack = <<>> /\ Annotated(c)
      /\ stack' = <<>> /\ Len(stack') = 0
      /\ decision' = [decision EXCEPT ![c] = AnnotatedRank(c)]
      /\ UNCHANGED <<context, cache>>
  BY DEF CallAnnotated
<1>2. /\ \A d \in Callers : d # c => decision'[d] = decision[d]
      /\ decision'[c] = AnnotatedRank(c)
  BY <1>1, CallersKnown DEF TInv, TypeOK
<1>3. Extends(cache, stack, cache', stack')
  BY <1>1 DEF Extends, Final
<1>4. AnswersFold(cache', stack', decision')
  <2> SUFFICES ASSUME NEW d \in Callers, decision'[d] # Undecided, ~Annotated(d)
               PROVE  \E q \in 0 .. Len(CallerLeaves(d)) : \E u \in [0 .. q -> Ranks] :
                        /\ Fold(cache', stack', CallerLeaves(d), q, u)
                        /\ q = Len(CallerLeaves(d)) \/ Decisive(u[q])
                        /\ u[q] = decision'[d]
    BY DEF AnswersFold
  <2>1. decision'[d] = decision[d]
    BY <1>1, <1>2
  <2>2. QED
    BY <1>1, <1>3, <2>1, AnswersFoldKept
<1>5. OutermostFolds(cache', stack') /\ WaitingIsOpen(stack') /\ QuestionAsked(stack', asked')
  BY <1>1 DEF OutermostFolds, WaitingIsOpen, QuestionAsked
<1>6. AnnotatedAnswers(decision')
  BY <1>2 DEF SInv, AnnotatedAnswers
<1>7. QED
  BY <1>1, <1>4, <1>5, <1>6, StableRigid DEF SInv, AnnotatedAnswers

LEMMA InitSInv == Init => SInv
<1> SUFFICES ASSUME Init PROVE SInv
  OBVIOUS
<1>1. /\ stack = <<>> /\ Len(stack) = 0
      /\ \A c \in Callers : decision[c] = Undecided
  BY CallersKnown DEF Init
<1>2. QED
  BY <1>1 DEF SInv, AnswersFold, OutermostFolds, WaitingIsOpen, AnnotatedAnswers, QuestionAsked

(* A step keeps the invariant and, because of it, every answer.            *)
LEMMA NextSInv ==
  ASSUME JInv, NInv, SInv, [Next]_vars
  PROVE  /\ SInv'
         /\ \A d \in Names \cup Args : decision[d] # Undecided => decision'[d] = decision[d]
<1>t. TInv /\ decision \in [Names \cup Args -> Ranks \cup {Undecided}]
  BY DEF JInv, TInv, TypeOK
<1>1. ASSUME NEW c \in Callers, Call(c)
      PROVE  SInv' /\ decision' = decision
  BY <1>1, <1>t, CallSInv DEF Call
<1>2. ASSUME NEW c \in Callers, CallAnnotated(c)
      PROVE  SInv' /\ \A d \in Names \cup Args : decision[d] # Undecided => decision'[d] = decision[d]
  <2>1. /\ SInv'
        /\ decision[c] # Undecided => AnnotatedRank(c) = decision[c]
        /\ decision' = [decision EXCEPT ![c] = AnnotatedRank(c)]
    BY <1>2, <1>t, CallAnnotatedSInv DEF CallAnnotated
  <2>2. QED
    BY <2>1, <1>t
<1>3. CASE VisitLeaf \/ VisitCached
  <2>1. decision' = decision
    BY <1>3 DEF VisitLeaf, VisitCached
  <2>2. QED
    BY <1>3, <1>t, <2>1, VisitSInv
<1>4. CASE Descend
  <2>1. decision' = decision
    BY <1>4 DEF Descend
  <2>2. QED
    BY <1>4, <1>t, <2>1, DescendSInv
<1>5. CASE Return
  <2>1. decision' = decision
    BY <1>5 DEF Return
  <2>2. QED
    BY <1>5, <2>1, ReturnSInv
<1>6. CASE Answer
  <2>1. /\ SInv'
        /\ decision[Top.name] # Undecided => Top.acc = decision[Top.name]
        /\ decision' = [decision EXCEPT ![Top.name] = Top.acc]
    BY <1>6, <1>t, AnswerSInv DEF Answer
  <2>2. QED
    BY <2>1, <1>t
<1>7. CASE UNCHANGED vars
  <2>1. UNCHANGED <<context, cache, stack, decision, asked>>
    BY <1>7 DEF vars, context
  <2>2. QED
    BY <2>1, StableRigid DEF SInv
<1>8. QED
  BY <1>1, <1>2, <1>3, <1>4, <1>5, <1>6, <1>7 DEF Next, Walk

(* servers.rs may ask twice: for every IR file, a question is answered in  *)
(* the same way whenever it is asked, whatever was asked in between.       *)
THEOREM AnswersNeverChange == Spec => AnswersStable
<1>1. JInv /\ NInv /\ SInv /\ [Next]_vars => SInv'
  BY NextSInv
<1>2. JInv /\ NInv /\ SInv /\ [Next]_vars =>
        [\A c \in Names \cup Args : decision[c] # Undecided => decision'[c] = decision[c]]_vars
  BY NextSInv
<1>3. QED
  BY <1>1, <1>2, InitJInv, NextJInv, InitNInv, NextNInv, InitSInv, PTL DEF Spec, AnswersStable
=============================================================================
