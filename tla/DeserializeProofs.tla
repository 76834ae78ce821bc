------------------------- MODULE DeserializeProofs -------------------------
(* Proofs about Deserialize, for every set of objects and unions, however    *)
(* they hold each other, and every document, however deep: the visitors and  *)
(* the entries they are at belong together, the server's error names the     *)
(* unknown field it stands at, the client is lenient in nothing else, and    *)
(* key by key each reads what the document means as a whole.  And for every  *)
(* value, which is finite: what is written of it is read back.               *)
EXTENDS Meanings, SequenceTheorems, FiniteSetTheorems, WellFoundedInduction, TLAPS

(* Any sequence, without a set that its elements are from.                   *)
IsSeq(s) == s \in Seq(ToSet(s))

LEMMA Pushed ==
    ASSUME NEW s, IsSeq(s), NEW f
    PROVE  LET r == Append(s, f)
           IN /\ IsSeq(r) /\ Len(r) = Len(s) + 1 /\ Len(s) \in Nat
              /\ r[Len(s) + 1] = f
              /\ \A d \in 1 .. Len(s) : r[d] = s[d]
<1> DEFINE P == ToSet(s) \cup {f}
           r == Append(s, f)
<1>1. s \in Seq(P) /\ f \in P
  <2>1. s \in Seq(ToSet(s))
    BY DEF IsSeq
  <2> HIDE DEF P
  <2>2. ToSet(s) \subseteq P
    BY DEF P
  <2>3. f \in P
    BY DEF P
  <2> QED BY <2>1, <2>2, <2>3, SeqMonotonic
<1> HIDE DEF P
<1>2. /\ r \in Seq(P) /\ Len(r) = Len(s) + 1 /\ Len(s) \in Nat
      /\ r[Len(s) + 1] = f /\ \A d \in 1 .. Len(s) : r[d] = s[d]
  BY <1>1
<1> HIDE DEF r
<1>3. r \in Seq(ToSet(r))
  <2>1. \A d \in 1 .. Len(r) : r[d] \in ToSet(r)
    BY <1>2 DEF ToSet
  <2> QED BY <1>2, <2>1
<1> QED BY <1>2, <1>3 DEF IsSeq, r

LEMMA Replaced ==
    ASSUME NEW s, IsSeq(s), NEW f, NEW n \in 1 .. Len(s)
    PROVE  LET r == [s EXCEPT ![n] = f]
           IN /\ IsSeq(r) /\ Len(r) = Len(s) /\ Len(s) \in Nat
              /\ r[n] = f
              /\ \A d \in 1 .. Len(s) : d # n => r[d] = s[d]
<1> DEFINE r == [s EXCEPT ![n] = f]
<1>1. s \in Seq(ToSet(s)) /\ Len(s) \in Nat /\ DOMAIN s = 1 .. Len(s)
  BY DEF IsSeq
<1>2. /\ DOMAIN r = 1 .. Len(s) /\ r = [d \in 1 .. Len(s) |-> r[d]]
      /\ r[n] = f /\ \A d \in 1 .. Len(s) : d # n => r[d] = s[d]
  BY <1>1
<1> HIDE DEF r
<1>3. \A d \in 1 .. Len(s) : r[d] \in ToSet(r)
  BY <1>2 DEF ToSet
<1>4. r \in Seq(ToSet(r))
  BY <1>1, <1>2, <1>3
<1>5. Len(r) = Len(s)
  BY <1>1, <1>2, <1>4
<1> QED BY <1>1, <1>2, <1>4, <1>5 DEF IsSeq, r

LEMMA Popped ==
    ASSUME NEW s, IsSeq(s), Len(s) # 0
    PROVE  /\ IsSeq(Front(s)) /\ Len(Front(s)) = Len(s) - 1 /\ Len(s) \in Nat
           /\ \A d \in 1 .. Len(s) - 1 : Front(s)[d] = s[d]
<1> DEFINE r == Front(s)
<1>1. s \in Seq(ToSet(s)) /\ Len(s) \in Nat
  BY DEF IsSeq
<1>2. /\ r \in Seq(ToSet(s)) /\ Len(r) = Len(s) - 1
      /\ \A d \in 1 .. Len(s) - 1 : r[d] = s[d]
  <2> DEFINE n == Len(s) - 1
  <2>1. n \in Int /\ n >= 0 /\ 1 \in Int
    BY <1>1
  <2>2. \A d \in 1 .. n : s[d] \in ToSet(s)
    BY <1>1
  <2>3. r = SubSeq(s, 1, n)
    BY DEF Front
  <2> HIDE DEF n, r
  <2>4. /\ SubSeq(s, 1, n) \in Seq(ToSet(s))
        /\ Len(SubSeq(s, 1, n)) = IF 1 <= n THEN n - 1 + 1 ELSE 0
        /\ \A d \in 1 .. n - 1 + 1 : SubSeq(s, 1, n)[d] = s[1 + d - 1]
    BY <2>1, <2>2, SubSeqProperties
  <2>5. Len(r) = n
    BY <2>1, <2>3, <2>4
  <2>6. \A d \in 1 .. n : r[d] = s[d]
    BY <2>1, <2>3, <2>4
  <2> QED BY <2>3, <2>4, <2>5, <2>6 DEF n
<1> HIDE DEF r
<1>3. \A d \in 1 .. Len(r) : r[d] \in ToSet(r)
  BY <1>2 DEF ToSet
<1>4. r \in Seq(ToSet(r))
  BY <1>2, <1>3
<1> QED BY <1>1, <1>2, <1>4 DEF IsSeq, r

-----------------------------------------------------------------------------
(* The visitors                                                              *)

Slots == {"type", "rest", "key", "fields", "at", "tagged", "value"}

FrameOK(frame) ==
    /\ DOMAIN frame = Slots
    /\ frame.type \in DOMAIN Types
    /\ DOMAIN frame.fields \subseteq Names(frame.type)
    /\ frame.at \in {"value", "tag", "check"} => frame.rest # <<>>
    /\ frame.at = "value" => Head(frame.rest).key = frame.key

(* A visitor that waits for the one inside it.                               *)
Waits(frame, inner) ==
    /\ frame.at = "value" /\ IsMap(Head(frame.rest).value)
    /\ Types[frame.type].kind = "object" => frame.key \in Names(frame.type)
    /\ inner.type = Variant(frame.type, frame.key).type

StackOK(s) ==
    /\ IsSeq(s) /\ Len(s) # 0
    /\ \A d \in 1 .. Len(s) : FrameOK(s[d])
    /\ \A d \in 1 .. Len(s) - 1 : Waits(s[d], s[d + 1])

LEMMA VisitorOK ==
    ASSUME NEW T \in DOMAIN Types, NEW map
    PROVE  FrameOK(Visitor(T, map)) /\ Visitor(T, map).type = T
<1>1. DOMAIN <<>> = {}
  OBVIOUS
<1> QED BY <1>1 DEF FrameOK, Visitor, Slots

LEMMA TookOK ==
    ASSUME NEW frame, FrameOK(frame), NEW v,
           Types[frame.type].kind = "object" => frame.key \in Names(frame.type)
    PROVE  FrameOK(Took(frame, v)) /\ Took(frame, v).type = frame.type
<1>1. CASE Types[frame.type].kind = "object"
  <2> DEFINE fields == [n \in DOMAIN frame.fields \cup {frame.key} |->
                           IF n = frame.key THEN v ELSE frame.fields[n]]
             r == [frame EXCEPT !.rest = Tail(frame.rest), !.at = "key", !.fields = fields]
  <2>1. Took(frame, v) = r
    BY <1>1 DEF Took
  <2>2. DOMAIN fields \subseteq Names(frame.type)
    BY <1>1 DEF FrameOK
  <2> HIDE DEF fields
  <2>3. /\ DOMAIN r = Slots /\ r.type = frame.type /\ r.fields = fields /\ r.at = "key"
    BY DEF FrameOK, Slots
  <2> QED BY <2>1, <2>2, <2>3 DEF FrameOK
<1>2. CASE Types[frame.type].kind # "object"
  <2> DEFINE at == IF frame.tagged THEN "end" ELSE "type"
             r == [frame EXCEPT !.rest = Tail(frame.rest), !.value = v, !.at = at]
  <2>1. Took(frame, v) = r
    BY <1>2 DEF Took
  <2>2. at \notin {"value", "tag", "check"}
    OBVIOUS
  <2> HIDE DEF at
  <2>3. DOMAIN r = Slots /\ r.type = frame.type /\ r.fields = frame.fields /\ r.at = at
    BY DEF FrameOK, Slots
  <2> QED BY <2>1, <2>2, <2>3 DEF FrameOK
<1> QED BY <1>1, <1>2

(* The three ways in which the stack changes.                                *)
LEMMA ReplaceKeeps ==
    ASSUME NEW s, StackOK(s), NEW f, FrameOK(f), f.type = s[Len(s)].type
    PROVE  StackOK([s EXCEPT ![Len(s)] = f])
<1> DEFINE r == [s EXCEPT ![Len(s)] = f]
<1>1. /\ IsSeq(r) /\ Len(r) = Len(s) /\ Len(s) \in Nat /\ Len(s) # 0
      /\ r[Len(s)] = f
      /\ \A d \in 1 .. Len(s) : d # Len(s) => r[d] = s[d]
  <2>1. Len(s) \in Nat /\ Len(s) # 0 /\ IsSeq(s)
    BY DEF StackOK, IsSeq
  <2>2. Len(s) \in 1 .. Len(s)
    BY <2>1
  <2> QED BY <2>1, <2>2, Replaced
<1> HIDE DEF r
<1>2. \A d \in 1 .. Len(r) : FrameOK(r[d])
  BY <1>1 DEF StackOK
<1>3. \A d \in 1 .. Len(r) - 1 : Waits(r[d], r[d + 1])
  <2> SUFFICES ASSUME NEW d \in 1 .. Len(s) - 1 PROVE Waits(r[d], r[d + 1])
    BY <1>1
  <2>1. r[d] = s[d] /\ r[d + 1].type = s[d + 1].type /\ Waits(s[d], s[d + 1])
    BY <1>1 DEF StackOK
  <2> QED BY <2>1 DEF Waits
<1>4. StackOK(r)
  BY <1>1, <1>2, <1>3 DEF StackOK
<1> QED BY <1>4 DEF r

LEMMA PushKeeps ==
    ASSUME NEW s, StackOK(s), NEW f, FrameOK(f), Waits(s[Len(s)], f)
    PROVE  StackOK(Append(s, f))
<1> DEFINE r == Append(s, f)
<1>1. /\ IsSeq(r) /\ Len(r) = Len(s) + 1 /\ Len(s) \in Nat /\ Len(s) # 0
      /\ r[Len(s) + 1] = f
      /\ \A d \in 1 .. Len(s) : r[d] = s[d]
  BY Pushed DEF StackOK
<1> HIDE DEF r
<1>2. \A d \in 1 .. Len(r) : FrameOK(r[d])
  BY <1>1 DEF StackOK
<1>3. \A d \in 1 .. Len(r) - 1 : Waits(r[d], r[d + 1])
  <2> SUFFICES ASSUME NEW d \in 1 .. Len(s) PROVE Waits(r[d], r[d + 1])
    BY <1>1
  <2>1. CASE d = Len(s)
    BY <1>1, <2>1
  <2>2. CASE d # Len(s)
    <3>1. d \in 1 .. Len(s) - 1 /\ d + 1 \in 1 .. Len(s)
      BY <1>1, <2>2
    <3> QED BY <1>1, <3>1 DEF StackOK
  <2> QED BY <2>1, <2>2
<1>4. StackOK(r)
  BY <1>1, <1>2, <1>3 DEF StackOK
<1> QED BY <1>4 DEF r

LEMMA PopKeeps ==
    ASSUME NEW s, StackOK(s), Len(s) # 1, NEW v
    PROVE  StackOK([Front(s) EXCEPT ![Len(s) - 1] = Took(@, v)])
<1> DEFINE front == Front(s)
           n == Len(s) - 1
           f == Took(s[n], v)
<1>1. /\ IsSeq(front) /\ Len(front) = n /\ n \in Nat /\ n # 0 /\ Len(s) \in Nat
      /\ \A d \in 1 .. n : front[d] = s[d]
  BY Popped DEF StackOK
<1>2. n \in 1 .. n /\ n \in 1 .. Len(s) /\ n \in 1 .. Len(s) - 1 /\ front[n] = s[n]
  BY <1>1
<1>3. [Front(s) EXCEPT ![Len(s) - 1] = Took(@, v)] = [front EXCEPT ![Len(front)] = f]
  BY <1>1, <1>2
<1>4. /\ FrameOK(f) /\ f.type = front[Len(front)].type
  <2>1. FrameOK(s[n]) /\ (Types[s[n].type].kind = "object" => s[n].key \in Names(s[n].type))
    BY <1>2 DEF StackOK, Waits
  <2>2. FrameOK(f) /\ f.type = s[n].type
    BY <2>1, TookOK
  <2> QED BY <1>1, <1>2, <2>2
<1> HIDE DEF front
<1>5. StackOK(front)
  <2>1. \A d \in 1 .. n : d \in 1 .. Len(s)
    BY <1>1
  <2>2. \A d \in 1 .. n - 1 : d \in 1 .. Len(s) - 1 /\ d \in 1 .. n /\ d + 1 \in 1 .. n
    BY <1>1
  <2>3. \A d \in 1 .. n : FrameOK(front[d])
    BY <1>1, <2>1 DEF StackOK
  <2>4. \A d \in 1 .. n - 1 : Waits(front[d], front[d + 1])
    BY <1>1, <2>2 DEF StackOK
  <2> QED BY <1>1, <2>3, <2>4 DEF StackOK
<1> HIDE DEF f
<1>6. StackOK([front EXCEPT ![Len(front)] = f])
  BY <1>4, <1>5, ReplaceKeeps
<1> QED BY <1>3, <1>6

LEMMA MemberTypes ==
    ASSUME NEW T \in DOMAIN Types, NEW name
    PROVE  /\ Variant(T, name).type \in DOMAIN Types \cup {"leaf", "any"}
           /\ name \in Names(T) => Variant(T, name) = MemberOf(T, name)
<1>1. CASE name \in Names(T)
  <2>1. MemberOf(T, name) \in ToSet(Types[T].members)
    BY <1>1 DEF Names, MemberOf
  <2> QED BY <1>1, <2>1, TypesAssumption DEF Variant
<1>2. CASE name \notin Names(T)
  BY <1>2 DEF Variant, Unknown, Member
<1> QED BY <1>1, <1>2

-----------------------------------------------------------------------------
(* A step as a function of the visitors                                      *)

(* What a question does to the visitors s, and what the deserializer returns.*)
Answer(s, out) == [stack |-> s, out |-> out]
Put(s, frame) == Answer([s EXCEPT ![Len(s)] = frame], Pending)
Hand(s, v) ==
    IF Len(s) = 1 THEN Answer(s, Ok(v))
    ELSE Answer([Front(s) EXCEPT ![Len(s) - 1] = Took(@, v)], Pending)

Value(s, member) ==
    LET top == s[Len(s)]
        json == Head(top.rest).value
    IN IF member.type = "any" THEN Put(s, Took(top, AnyValue(json)))
       ELSE IF json = Null THEN
            IF member.shape = "optional" THEN Put(s, Took(top, Default)) ELSE Answer(s, Refused)
       ELSE IF member.type = "leaf" THEN
            IF ~IsMap(json) /\ json.text \in Leaves
            THEN Put(s, Took(top, Leaf(json.text))) ELSE Answer(s, Refused)
       ELSE IF IsMap(json) THEN Answer(Append(s, Visitor(member.type, json)), Pending)
       ELSE Answer(s, Refused)

(* Objects, read by the deserializer m.                                      *)
ObjectKey(s) ==
    LET top == s[Len(s)]
    IN IF top.rest # <<>> THEN Put(s, [top EXCEPT !.key = Head(top.rest).key, !.at = "value"])
       ELSE IF Missing(top) # {} THEN Answer(s, Refused)
       ELSE Hand(s, Object(top.type, [n \in Names(top.type) |->
                       IF n \in DOMAIN top.fields THEN top.fields[n] ELSE Default]))

ObjectValue(m, s) ==
    LET top == s[Len(s)]
    IN IF top.key \in Names(top.type) THEN Value(s, MemberOf(top.type, top.key))
       ELSE IF m = "server" THEN Answer(s, UnknownField(top.key))
       ELSE Put(s, [top EXCEPT !.rest = Tail(top.rest), !.at = "key"])

(* Unions, exhaustive or not, read by either.                                *)
Accepts(e, T, name) == e => name \in Names(T)
Tag(e, T, json) == ~IsMap(json) /\ json # Null /\ Accepts(e, T, json.text)

UnionFirst(e, s) ==
    LET top == s[Len(s)]
    IN IF top.rest = <<>> THEN Answer(s, Refused)
       ELSE IF Head(top.rest).key = "type" THEN Put(s, [top EXCEPT !.at = "tag"])
       ELSE IF ~Accepts(e, top.type, Head(top.rest).key) THEN Answer(s, Refused)
       ELSE Put(s, [top EXCEPT !.key = Head(top.rest).key, !.at = "value"])

UnionTag(e, s) ==
    LET top == s[Len(s)]
    IN IF Tag(e, top.type, Head(top.rest).value)
       THEN Put(s, [top EXCEPT !.key = Head(top.rest).value.text, !.at = "second",
                               !.rest = Tail(top.rest), !.tagged = TRUE])
       ELSE Answer(s, Refused)

UnionSecond(s) ==
    LET top == s[Len(s)]
    IN IF top.rest = <<>> THEN Answer(s, Refused)
       ELSE IF Head(top.rest).key # top.key THEN Answer(s, Refused)
       ELSE Put(s, [top EXCEPT !.at = "value"])

UnionValue(s) ==
    LET top == s[Len(s)] IN Value(s, Variant(top.type, top.key))

UnionType(s) ==
    LET top == s[Len(s)]
    IN IF top.rest = <<>> THEN Answer(s, Refused)
       ELSE IF Head(top.rest).key # "type" THEN Answer(s, Refused)
       ELSE Put(s, [top EXCEPT !.at = "check"])

UnionCheck(e, s) ==
    LET top == s[Len(s)]
    IN IF ~Tag(e, top.type, Head(top.rest).value) THEN Answer(s, Refused)
       ELSE IF Head(top.rest).value.text # top.key THEN Answer(s, Refused)
       ELSE Put(s, [top EXCEPT !.rest = Tail(top.rest), !.at = "end"])

UnionEnd(s) ==
    LET top == s[Len(s)]
    IN IF top.rest # <<>> THEN Answer(s, Refused) ELSE Hand(s, Union(top.type, top.key, top.value))

Reading(e, m, s) ==
    LET kind == Types[s[Len(s)].type].kind
        at == s[Len(s)].at
    IN IF kind = "object" /\ at = "key" THEN ObjectKey(s)
       ELSE IF kind = "object" /\ at = "value" THEN ObjectValue(m, s)
       ELSE IF kind = "union" /\ at = "first" THEN UnionFirst(e, s)
       ELSE IF kind = "union" /\ at = "tag" THEN UnionTag(e, s)
       ELSE IF kind = "union" /\ at = "second" THEN UnionSecond(s)
       ELSE IF kind = "union" /\ at = "value" THEN UnionValue(s)
       ELSE IF kind = "union" /\ at = "type" THEN UnionType(s)
       ELSE IF kind = "union" /\ at = "check" THEN UnionCheck(e, s)
       ELSE IF kind = "union" /\ at = "end" THEN UnionEnd(s)
       ELSE Answer(s, Pending)

-----------------------------------------------------------------------------
(* What holds of every step                                                  *)

(* The visitors fit each other after it; a deserializer that returns leaves  *)
(* them as they are; and only the server's returns that a field is unknown,  *)
(* the one that the innermost object is at.                                  *)
Good(m, s, r) ==
    /\ StackOK(r.stack)
    /\ r.out # Pending => r.stack = s
    /\ r.out.tag = "unknown field" =>
          /\ r.out.key = Head(s[Len(s)].rest).key
          /\ r.out.key \notin Names(s[Len(s)].type)

LEMMA TopOK ==
    ASSUME NEW s, StackOK(s)
    PROVE  /\ FrameOK(s[Len(s)]) /\ s[Len(s)].type \in DOMAIN Types
           /\ DOMAIN s[Len(s)] = Slots
           /\ DOMAIN s[Len(s)].fields \subseteq Names(s[Len(s)].type)
<1>1. Len(s) \in Nat /\ Len(s) # 0
  BY DEF StackOK, IsSeq
<1>2. Len(s) \in 1 .. Len(s)
  BY <1>1
<1> QED BY <1>2 DEF StackOK, FrameOK

LEMMA AnswerGood ==
    ASSUME NEW s, StackOK(s), NEW m, NEW out, out.tag # "unknown field"
    PROVE  Good(m, s, Answer(s, out))
BY DEF Good, Answer

LEMMA Results ==
    /\ Refused.tag # "unknown field" /\ Pending.tag # "unknown field"
    /\ Refused # Pending
    /\ \A v : Ok(v).tag # "unknown field" /\ Ok(v) # Pending
    /\ \A key : UnknownField(key) # Pending
<1>1. Refused.tag = "error" /\ Pending.tag = "pending"
  BY DEF Refused, Pending
<1>2. \A v : Ok(v).tag = "ok"
  BY DEF Ok
<1>3. \A key : UnknownField(key).tag = "unknown field"
  BY DEF UnknownField
<1> QED BY <1>1, <1>2, <1>3

LEMMA MoveGood ==
    ASSUME NEW s, NEW m, NEW r, StackOK(r)
    PROVE  Good(m, s, Answer(r, Pending))
BY Results DEF Good, Answer

LEMMA PutGood ==
    ASSUME NEW s, StackOK(s), NEW m, NEW f, FrameOK(f), f.type = s[Len(s)].type
    PROVE  Good(m, s, Put(s, f))
<1>1. StackOK([s EXCEPT ![Len(s)] = f])
  BY ReplaceKeeps
<1> QED BY <1>1, MoveGood DEF Put

LEMMA HandGood ==
    ASSUME NEW s, StackOK(s), NEW m, NEW v
    PROVE  Good(m, s, Hand(s, v))
<1>1. CASE Len(s) = 1
  BY <1>1, Results, AnswerGood DEF Hand
<1>2. CASE Len(s) # 1
  <2>1. StackOK([Front(s) EXCEPT ![Len(s) - 1] = Took(@, v)])
    BY <1>2, PopKeeps
  <2> DEFINE r == [Front(s) EXCEPT ![Len(s) - 1] = Took(@, v)]
  <2>2. Hand(s, v) = Answer(r, Pending)
    BY <1>2 DEF Hand
  <2> HIDE DEF r
  <2>3. StackOK(r)
    BY <2>1 DEF r
  <2> QED BY <2>2, <2>3, MoveGood
<1> QED BY <1>1, <1>2

(* Changing some slots of a visitor other than its type and its fields.      *)
LEMMA Changed ==
    ASSUME NEW frame, FrameOK(frame), NEW f,
           DOMAIN f = Slots, f.type = frame.type, f.fields = frame.fields,
           f.at \in {"value", "tag", "check"} => f.rest # <<>>,
           f.at = "value" => Head(f.rest).key = f.key
    PROVE  FrameOK(f)
BY DEF FrameOK

LEMMA ValueGood ==
    ASSUME NEW s, StackOK(s), NEW m, s[Len(s)].at = "value", NEW member,
           member = Variant(s[Len(s)].type, s[Len(s)].key),
           Types[s[Len(s)].type].kind = "object" => s[Len(s)].key \in Names(s[Len(s)].type)
    PROVE  Good(m, s, Value(s, member))
<1> DEFINE top == s[Len(s)]
           json == Head(top.rest).value
<1>1. FrameOK(top) /\ top.type \in DOMAIN Types
  BY TopOK
<1>2. member.type \in DOMAIN Types \cup {"leaf", "any"}
  BY <1>1, MemberTypes
<1>3. \A v : Good(m, s, Put(s, Took(top, v)))
  <2> TAKE v
  <2>1. FrameOK(Took(top, v)) /\ Took(top, v).type = top.type
    BY <1>1, TookOK
  <2> QED BY <2>1, PutGood
<1>4. Good(m, s, Answer(s, Refused))
  BY Results, AnswerGood
<1>5. CASE member.type = "any"
  <2>1. Value(s, member) = Put(s, Took(top, AnyValue(json)))
    BY <1>5 DEF Value
  <2> QED BY <1>3, <2>1
<1>6. CASE member.type # "any" /\ json = Null
  <2>1. Value(s, member) \in {Put(s, Took(top, Default)), Answer(s, Refused)}
    BY <1>6 DEF Value
  <2> QED BY <1>3, <1>4, <2>1
<1>7. CASE member.type = "leaf" /\ json # Null
  <2>1. Value(s, member) \in {Put(s, Took(top, Leaf(json.text))), Answer(s, Refused)}
    BY <1>7 DEF Value
  <2> QED BY <1>3, <1>4, <2>1
<1>8. CASE member.type \in DOMAIN Types /\ member.type \notin {"leaf", "any"} /\ json # Null /\ IsMap(json)
  <2> DEFINE inner == Visitor(member.type, json)
  <2>1. FrameOK(inner) /\ inner.type = member.type
    BY <1>8, VisitorOK
  <2>2. Waits(top, inner)
    BY <1>8, <2>1 DEF Waits
  <2>3. Value(s, member) = Answer(Append(s, inner), Pending)
    BY <1>8 DEF Value
  <2> HIDE DEF inner
  <2>4. StackOK(Append(s, inner))
    BY <2>1, <2>2, PushKeeps
  <2> QED BY <2>3, <2>4, MoveGood
<1>9. CASE member.type \in DOMAIN Types /\ member.type \notin {"leaf", "any"} /\ json # Null /\ ~IsMap(json)
  <2>1. Value(s, member) = Answer(s, Refused)
    BY <1>9 DEF Value
  <2> QED BY <1>4, <2>1
<1> QED BY <1>2, <1>5, <1>6, <1>7, <1>8, <1>9, TypesAssumption

LEMMA ReadingGood ==
    ASSUME NEW s, StackOK(s), NEW e, NEW m
    PROVE  Good(m, s, Reading(e, m, s))
<1> DEFINE top == s[Len(s)]
           kind == Types[top.type].kind
<1>1. /\ FrameOK(top) /\ top.type \in DOMAIN Types /\ DOMAIN top = Slots
      /\ kind \in {"object", "union"}
  BY TopOK, TypesAssumption
<1>2. Good(m, s, Answer(s, Refused)) /\ Good(m, s, Answer(s, Pending))
  BY Results, AnswerGood
<1>3. \A f : FrameOK(f) /\ f.type = top.type => Good(m, s, Put(s, f))
  BY PutGood
<1>4. \A v : Good(m, s, Hand(s, v))
  BY HandGood
<1>5. CASE kind = "object" /\ top.at = "key"
  <2> DEFINE f == [top EXCEPT !.key = Head(top.rest).key, !.at = "value"]
  <2>1. DOMAIN f = Slots /\ f.type = top.type /\ f.fields = top.fields
    BY <1>1 DEF Slots
  <2>2. f.rest = top.rest /\ f.key = Head(top.rest).key
    BY <1>1 DEF Slots
  <2> HIDE DEF f
  <2>3. top.rest # <<>> => FrameOK(f)
    BY <1>1, <2>1, <2>2, Changed
  <2>4. top.rest # <<>> => Good(m, s, Put(s, f))
    BY <1>3, <2>1, <2>3
  <2>5. Good(m, s, ObjectKey(s))
    BY <1>2, <1>4, <2>4 DEF ObjectKey, f
  <2> QED BY <1>5, <2>5 DEF Reading
<1>6. CASE kind = "object" /\ top.at = "value"
  <2>1. CASE top.key \in Names(top.type)
    <3>1. MemberOf(top.type, top.key) = Variant(top.type, top.key)
      BY <1>1, <2>1, MemberTypes
    <3>2. Good(m, s, Value(s, MemberOf(top.type, top.key)))
      BY <1>6, <2>1, <3>1, ValueGood
    <3>3. Good(m, s, ObjectValue(m, s))
      BY <2>1, <3>2 DEF ObjectValue
    <3> QED BY <1>6, <3>3 DEF Reading
  <2>2. CASE top.key \notin Names(top.type) /\ m = "server"
    <3> DEFINE out == UnknownField(top.key)
    <3>1. out.key = top.key
      BY DEF UnknownField
    <3>2. Head(top.rest).key = top.key
      BY <1>1, <1>6 DEF FrameOK
    <3>3. Reading(e, m, s) = Answer(s, out)
      BY <1>6, <2>2 DEF Reading, ObjectValue
    <3> HIDE DEF out
    <3>4. Reading(e, m, s).stack = s /\ Reading(e, m, s).out = out
      BY <3>3 DEF Answer
    <3> QED BY <2>2, <3>1, <3>2, <3>4 DEF Good
  <2>3. CASE top.key \notin Names(top.type) /\ m # "server"
    <3> DEFINE f == [top EXCEPT !.rest = Tail(top.rest), !.at = "key"]
    <3>1. DOMAIN f = Slots /\ f.type = top.type /\ f.fields = top.fields /\ f.at = "key"
      BY <1>1 DEF Slots
    <3>2. Reading(e, m, s) = Put(s, f)
      BY <1>6, <2>3 DEF Reading, ObjectValue
    <3> HIDE DEF f
    <3>3. FrameOK(f)
      BY <1>1, <3>1, Changed
    <3> QED BY <1>3, <3>1, <3>2, <3>3
  <2> QED BY <2>1, <2>2, <2>3
<1>7. CASE kind = "union" /\ top.at = "first"
  <2> DEFINE f == [top EXCEPT !.at = "tag"]
             g == [top EXCEPT !.key = Head(top.rest).key, !.at = "value"]
  <2>1. /\ DOMAIN f = Slots /\ f.type = top.type /\ f.fields = top.fields /\ f.at = "tag"
        /\ f.rest = top.rest
    BY <1>1 DEF Slots
  <2>2. /\ DOMAIN g = Slots /\ g.type = top.type /\ g.fields = top.fields
        /\ g.rest = top.rest /\ g.key = Head(top.rest).key
    BY <1>1 DEF Slots
  <2>3. \/ UnionFirst(e, s) = Answer(s, Refused)
        \/ top.rest # <<>> /\ UnionFirst(e, s) \in {Put(s, f), Put(s, g)}
    BY DEF UnionFirst
  <2> HIDE DEF f, g
  <2>4. top.rest # <<>> => FrameOK(f) /\ FrameOK(g)
    BY <1>1, <2>1, <2>2, Changed
  <2>5. top.rest # <<>> => Good(m, s, Put(s, f)) /\ Good(m, s, Put(s, g))
    BY <1>3, <2>1, <2>2, <2>4
  <2>6. Reading(e, m, s) = UnionFirst(e, s)
    BY <1>7 DEF Reading
  <2> QED BY <1>2, <2>3, <2>5, <2>6
<1>8. CASE kind = "union" /\ top.at = "tag"
  <2> DEFINE f == [top EXCEPT !.key = Head(top.rest).value.text, !.at = "second",
                              !.rest = Tail(top.rest), !.tagged = TRUE]
  <2>1. DOMAIN f = Slots /\ f.type = top.type /\ f.fields = top.fields /\ f.at = "second"
    BY <1>1 DEF Slots
  <2>2. UnionTag(e, s) \in {Answer(s, Refused), Put(s, f)}
    BY DEF UnionTag
  <2> HIDE DEF f
  <2>3. FrameOK(f)
    BY <1>1, <2>1, Changed
  <2>4. Good(m, s, Put(s, f))
    BY <1>3, <2>1, <2>3
  <2>5. Reading(e, m, s) = UnionTag(e, s)
    BY <1>8 DEF Reading
  <2> QED BY <1>2, <2>2, <2>4, <2>5
<1>9. CASE kind = "union" /\ top.at = "second"
  <2> DEFINE f == [top EXCEPT !.at = "value"]
  <2>1. /\ DOMAIN f = Slots /\ f.type = top.type /\ f.fields = top.fields
        /\ f.rest = top.rest /\ f.key = top.key
    BY <1>1 DEF Slots
  <2>2. \/ UnionSecond(s) = Answer(s, Refused)
        \/ /\ UnionSecond(s) = Put(s, f)
           /\ top.rest # <<>> /\ Head(top.rest).key = top.key
    BY DEF UnionSecond
  <2> HIDE DEF f
  <2>3. Reading(e, m, s) = UnionSecond(s)
    BY <1>9 DEF Reading
  <2>4. CASE top.rest # <<>> /\ Head(top.rest).key = top.key
    <3>1. FrameOK(f)
      BY <1>1, <2>1, <2>4, Changed
    <3>2. Good(m, s, Put(s, f))
      BY <1>3, <2>1, <3>1
    <3> QED BY <1>2, <2>2, <2>3, <3>2
  <2> QED BY <1>2, <2>2, <2>3, <2>4
<1>10. CASE kind = "union" /\ top.at = "value"
  <2>1. Good(m, s, Value(s, Variant(top.type, top.key)))
    BY <1>10, ValueGood
  <2>2. Reading(e, m, s) = Value(s, Variant(top.type, top.key))
    BY <1>10 DEF Reading, UnionValue
  <2> QED BY <2>1, <2>2
<1>11. CASE kind = "union" /\ top.at = "type"
  <2> DEFINE f == [top EXCEPT !.at = "check"]
  <2>1. /\ DOMAIN f = Slots /\ f.type = top.type /\ f.fields = top.fields /\ f.at = "check"
        /\ f.rest = top.rest
    BY <1>1 DEF Slots
  <2>2. UnionType(s) = Answer(s, Refused) \/ (top.rest # <<>> /\ UnionType(s) = Put(s, f))
    BY DEF UnionType
  <2> HIDE DEF f
  <2>3. top.rest # <<>> => FrameOK(f)
    BY <1>1, <2>1, Changed
  <2>4. top.rest # <<>> => Good(m, s, Put(s, f))
    BY <1>3, <2>1, <2>3
  <2>5. Reading(e, m, s) = UnionType(s)
    BY <1>11 DEF Reading
  <2> QED BY <1>2, <2>2, <2>4, <2>5
<1>12. CASE kind = "union" /\ top.at = "check"
  <2> DEFINE f == [top EXCEPT !.rest = Tail(top.rest), !.at = "end"]
  <2>1. DOMAIN f = Slots /\ f.type = top.type /\ f.fields = top.fields /\ f.at = "end"
    BY <1>1 DEF Slots
  <2>2. UnionCheck(e, s) \in {Answer(s, Refused), Put(s, f)}
    BY DEF UnionCheck
  <2> HIDE DEF f
  <2>3. FrameOK(f)
    BY <1>1, <2>1, Changed
  <2>4. Good(m, s, Put(s, f))
    BY <1>3, <2>1, <2>3
  <2>5. Reading(e, m, s) = UnionCheck(e, s)
    BY <1>12 DEF Reading
  <2> QED BY <1>2, <2>2, <2>4, <2>5
<1>13. CASE kind = "union" /\ top.at = "end"
  <2>1. UnionEnd(s) \in {Answer(s, Refused), Hand(s, Union(top.type, top.key, top.value))}
    BY DEF UnionEnd
  <2>2. Reading(e, m, s) = UnionEnd(s)
    BY <1>13 DEF Reading
  <2> QED BY <1>2, <1>4, <2>1, <2>2
<1>14. CASE \/ kind = "object" /\ top.at \notin {"key", "value"}
            \/ kind = "union" /\ top.at \notin {"first", "tag", "second", "value", "type", "check", "end"}
  <2>1. Reading(e, m, s) = Answer(s, Pending)
    BY <1>14 DEF Reading
  <2> QED BY <1>2, <2>1
<1> QED BY <1>1, <1>5, <1>6, <1>7, <1>8, <1>9, <1>10, <1>11, <1>12, <1>13, <1>14

(* The client differs from the server in nothing but an unknown field.       *)
LEMMA SameUnless ==
    ASSUME NEW s, NEW e, Reading(e, "client", s) # Reading(e, "server", s)
    PROVE  Reading(e, "server", s).out.tag = "unknown field"
<1> DEFINE top == s[Len(s)]
<1>1. Types[top.type].kind = "object" /\ top.at = "value"
  BY DEF Reading
<1>2. /\ Reading(e, "server", s) = ObjectValue("server", s)
      /\ Reading(e, "client", s) = ObjectValue("client", s)
  BY <1>1 DEF Reading
<1>3. top.key \notin Names(top.type)
  BY <1>2 DEF ObjectValue
<1>4. Reading(e, "server", s) = Answer(s, UnknownField(top.key))
  BY <1>2, <1>3 DEF ObjectValue
<1>5. UnknownField(top.key).tag = "unknown field"
  BY DEF UnknownField
<1>6. Reading(e, "server", s).out = UnknownField(top.key)
  BY <1>4 DEF Answer
<1> QED BY <1>5, <1>6

-----------------------------------------------------------------------------
(* The actions are these steps                                               *)

Does(r) ==
    /\ stack' = r.stack
    /\ outcome' = [outcome EXCEPT ![mode] = r.out]
    /\ UNCHANGED <<doc, root, origin, exhaustive, mode>>

(* Two outcomes, of deserializers that read one after the other.             *)
Turns ==
    /\ mode \in {"server", "client"}
    /\ outcome = [m \in {"server", "client"} |-> outcome[m]]
    /\ mode = "server" => outcome["client"] = Pending
    /\ mode = "client" => outcome["server"] # Pending

LEMMA ReturnDoes ==
    ASSUME NEW out, Return(out)
    PROVE  Does(Answer(stack, out))
BY DEF Return, Does, Answer

LEMMA MoveDoes ==
    ASSUME Turns, outcome[mode] = Pending, NEW r, stack' = r,
           UNCHANGED <<doc, root, origin, exhaustive, mode, outcome>>
    PROVE  Does(Answer(r, Pending))
<1>1. Answer(r, Pending).stack = r /\ Answer(r, Pending).out = Pending
  BY DEF Answer
<1>2. outcome = [outcome EXCEPT ![mode] = Pending]
  BY DEF Turns
<1> QED BY <1>1, <1>2 DEF Does

LEMMA ReplaceDoes ==
    ASSUME Turns, outcome[mode] = Pending, NEW f, Replace(f)
    PROVE  Does(Put(stack, f))
BY MoveDoes DEF Replace, Put

LEMMA DeliverDoes ==
    ASSUME Turns, outcome[mode] = Pending, NEW v, Deliver(v)
    PROVE  Does(Hand(stack, v))
<1>1. CASE Len(stack) = 1
  BY <1>1, ReturnDoes DEF Deliver, Hand
<1>2. CASE Len(stack) # 1
  BY <1>2, MoveDoes DEF Deliver, Hand
<1> QED BY <1>1, <1>2

LEMMA ReadValueDoes ==
    ASSUME Turns, outcome[mode] = Pending, NEW member, ReadValue(member),
           member.type \in DOMAIN Types \cup {"leaf", "any"}
    PROVE  Does(Value(stack, member))
<1> DEFINE json == Head(Entries).value
<1>1. Top = stack[Len(stack)] /\ json = Head(stack[Len(stack)].rest).value
  BY DEF Top, Entries
<1>2. CASE member.type = "any"
  <2>1. Replace(Took(Top, AnyValue(json)))
    BY <1>2, TypesAssumption DEF ReadValue
  <2>2. Value(stack, member) = Put(stack, Took(Top, AnyValue(json)))
    BY <1>1, <1>2 DEF Value
  <2> QED BY <2>1, <2>2, ReplaceDoes
<1>3. CASE member.type # "any" /\ json = Null /\ member.shape = "optional"
  <2>1. Replace(Took(Top, Default))
    BY <1>3 DEF ReadValue
  <2>2. Value(stack, member) = Put(stack, Took(Top, Default))
    BY <1>1, <1>3 DEF Value
  <2> QED BY <2>1, <2>2, ReplaceDoes
<1>4. CASE member.type = "leaf" /\ json # Null /\ ~IsMap(json) /\ json.text \in Leaves
  <2>1. Replace(Took(Top, Leaf(json.text)))
    BY <1>4, TypesAssumption DEF ReadValue
  <2>2. Value(stack, member) = Put(stack, Took(Top, Leaf(json.text)))
    BY <1>1, <1>4 DEF Value
  <2> QED BY <2>1, <2>2, ReplaceDoes
<1>5. CASE member.type \in DOMAIN Types /\ json # Null /\ IsMap(json)
  <2>1. member.type \notin {"leaf", "any"}
    BY <1>5, TypesAssumption
  <2>2. /\ stack' = Append(stack, Visitor(member.type, json))
        /\ UNCHANGED <<doc, root, origin, exhaustive, mode, outcome>>
    BY <1>5, <2>1 DEF ReadValue
  <2>3. Value(stack, member) = Answer(Append(stack, Visitor(member.type, json)), Pending)
    BY <1>1, <1>5, <2>1 DEF Value
  <2> QED BY <2>2, <2>3, MoveDoes
<1>6. CASE \/ member.type # "any" /\ json = Null /\ member.shape # "optional"
           \/ member.type = "leaf" /\ json # Null /\ ~(~IsMap(json) /\ json.text \in Leaves)
           \/ member.type \in DOMAIN Types /\ json # Null /\ ~IsMap(json)
  <2>1. member.type \in DOMAIN Types => member.type \notin {"leaf", "any"}
    BY TypesAssumption
  <2>2. Return(Refused)
    BY <1>6, <2>1 DEF ReadValue
  <2>3. Value(stack, member) = Answer(stack, Refused)
    BY <1>1, <1>6, <2>1 DEF Value
  <2> QED BY <2>2, <2>3, ReturnDoes
<1> QED BY <1>2, <1>3, <1>4, <1>5, <1>6

(* The steps of a visitor.                                                   *)
Reads ==
    \/ NextKey \/ ReadField \/ IgnoreUnknown \/ FinishObject
    \/ FirstKey \/ ReadTag \/ SecondKey \/ ReadVariant \/ TypeKey \/ CheckTag \/ FinishUnion

LEMMA ActionsRead ==
    ASSUME Turns, StackOK(stack), Reads
    PROVE  outcome[mode] = Pending /\ Does(Reading(exhaustive, mode, stack))
<1> DEFINE top == stack[Len(stack)]
           kind == Types[top.type].kind
           r == Reading(exhaustive, mode, stack)
<1>1. outcome[mode] = Pending
  BY DEF Reads, NextKey, ReadField, IgnoreUnknown, FinishObject, FirstKey, ReadTag,
         SecondKey, ReadVariant, TypeKey, CheckTag, FinishUnion, At
<1> SUFFICES Does(r)
  BY <1>1
<1>2. Top = top /\ Entries = top.rest
  BY DEF Top, Entries
<1>3. top.type \in DOMAIN Types
  BY TopOK
<1>4. CASE NextKey
  <2>1. r = ObjectKey(stack)
    BY <1>2, <1>4 DEF NextKey, At, Reading
  <2>2. r = Put(stack, [Top EXCEPT !.key = Head(Entries).key, !.at = "value"])
    BY <1>2, <1>4, <2>1 DEF NextKey, ObjectKey
  <2> HIDE DEF r
  <2> QED BY <1>1, <1>4, <2>2, ReplaceDoes DEF NextKey
<1>5. CASE ReadField
  <2>1. r = ObjectValue(mode, stack)
    BY <1>2, <1>5 DEF ReadField, At, Reading
  <2>2. r = Value(stack, MemberOf(Top.type, Top.key))
    BY <1>2, <1>5, <2>1 DEF ReadField, ObjectValue
  <2>3. MemberOf(Top.type, Top.key).type \in DOMAIN Types \cup {"leaf", "any"}
    <3>1. MemberOf(Top.type, Top.key) = Variant(Top.type, Top.key)
      BY <1>2, <1>3, <1>5, MemberTypes DEF ReadField
    <3> QED BY <1>2, <1>3, <3>1, MemberTypes
  <2> HIDE DEF r
  <2> QED BY <1>1, <1>5, <2>2, <2>3, ReadValueDoes DEF ReadField
<1>6. CASE IgnoreUnknown
  <2>1. r = ObjectValue(mode, stack)
    BY <1>2, <1>6 DEF IgnoreUnknown, At, Reading
  <2>2. CASE mode = "server"
    <3>1. r = Answer(stack, UnknownField(Top.key))
      BY <1>2, <1>6, <2>1, <2>2 DEF IgnoreUnknown, ObjectValue
    <3> HIDE DEF r
    <3> QED BY <1>6, <2>2, <3>1, ReturnDoes DEF IgnoreUnknown
  <2>3. CASE mode # "server"
    <3>1. r = Put(stack, [Top EXCEPT !.rest = Tail(@), !.at = "key"])
      BY <1>2, <1>6, <2>1, <2>3 DEF IgnoreUnknown, ObjectValue
    <3> HIDE DEF r
    <3> QED BY <1>1, <1>6, <2>3, <3>1, ReplaceDoes DEF IgnoreUnknown
  <2> QED BY <2>2, <2>3
<1>7. CASE FinishObject
  <2> DEFINE v == Object(Top.type, [n \in Names(Top.type) |->
                      IF n \in DOMAIN Top.fields THEN Top.fields[n] ELSE Default])
  <2>1. r = ObjectKey(stack)
    BY <1>2, <1>7 DEF FinishObject, At, Reading
  <2>2. CASE Missing(Top) # {}
    <3>1. r = Answer(stack, Refused)
      BY <1>2, <1>7, <2>1, <2>2 DEF FinishObject, ObjectKey
    <3> HIDE DEF r
    <3> QED BY <1>7, <2>2, <3>1, ReturnDoes DEF FinishObject
  <2>3. CASE Missing(Top) = {}
    <3>1. r = Hand(stack, v)
      BY <1>2, <1>7, <2>1, <2>3 DEF FinishObject, ObjectKey
    <3>2. Deliver(v)
      BY <1>7, <2>3 DEF FinishObject
    <3> HIDE DEF r, v
    <3> QED BY <1>1, <3>1, <3>2, DeliverDoes
  <2> QED BY <2>2, <2>3
<1>8. CASE FirstKey
  <2>1. r = UnionFirst(exhaustive, stack)
    BY <1>2, <1>8 DEF FirstKey, At, Reading
  <2>2. \/ r = Answer(stack, Refused) /\ Return(Refused)
        \/ r = Put(stack, [Top EXCEPT !.at = "tag"]) /\ Replace([Top EXCEPT !.at = "tag"])
        \/ /\ r = Put(stack, [Top EXCEPT !.key = Head(Entries).key, !.at = "value"])
           /\ Replace([Top EXCEPT !.key = Head(Entries).key, !.at = "value"])
    BY <1>2, <1>8, <2>1 DEF FirstKey, UnionFirst, IsVariant, Accepts
  <2> HIDE DEF r
  <2> QED BY <1>1, <2>2, ReturnDoes, ReplaceDoes
<1>9. CASE ReadTag
  <2> DEFINE f == [Top EXCEPT !.key = Head(Entries).value.text, !.at = "second",
                              !.rest = Tail(@), !.tagged = TRUE]
  <2>1. r = UnionTag(exhaustive, stack)
    BY <1>2, <1>9 DEF ReadTag, At, Reading
  <2>2. IsTag(Head(Entries).value) <=> Tag(exhaustive, top.type, Head(top.rest).value)
    BY <1>2 DEF IsTag, Tag, IsVariant, Accepts
  <2>3. CASE IsTag(Head(Entries).value)
    <3>1. Replace(f)
      BY <1>9, <2>3 DEF ReadTag
    <3>2. r = Put(stack, f)
      BY <1>2, <2>1, <2>2, <2>3 DEF UnionTag
    <3> HIDE DEF r, f
    <3> QED BY <1>1, <3>1, <3>2, ReplaceDoes
  <2>4. CASE ~IsTag(Head(Entries).value)
    <3>1. Return(Refused)
      BY <1>9, <2>4 DEF ReadTag
    <3>2. r = Answer(stack, Refused)
      BY <1>2, <2>1, <2>2, <2>4 DEF UnionTag
    <3> HIDE DEF r
    <3> QED BY <3>1, <3>2, ReturnDoes
  <2> QED BY <2>3, <2>4
<1>10. CASE SecondKey
  <2>1. r = UnionSecond(stack)
    BY <1>2, <1>10 DEF SecondKey, At, Reading
  <2>2. \/ r = Answer(stack, Refused) /\ Return(Refused)
        \/ r = Put(stack, [Top EXCEPT !.at = "value"]) /\ Replace([Top EXCEPT !.at = "value"])
    BY <1>2, <1>10, <2>1 DEF SecondKey, UnionSecond
  <2> HIDE DEF r
  <2> QED BY <1>1, <2>2, ReturnDoes, ReplaceDoes
<1>11. CASE ReadVariant
  <2>1. r = UnionValue(stack)
    BY <1>2, <1>11 DEF ReadVariant, At, Reading
  <2>2. r = Value(stack, Variant(Top.type, Top.key))
    BY <1>2, <2>1 DEF UnionValue
  <2>3. Variant(Top.type, Top.key).type \in DOMAIN Types \cup {"leaf", "any"}
    BY <1>2, <1>3, MemberTypes
  <2> HIDE DEF r
  <2> QED BY <1>1, <1>11, <2>2, <2>3, ReadValueDoes DEF ReadVariant
<1>12. CASE TypeKey
  <2>1. r = UnionType(stack)
    BY <1>2, <1>12 DEF TypeKey, At, Reading
  <2>2. \/ r = Answer(stack, Refused) /\ Return(Refused)
        \/ r = Put(stack, [Top EXCEPT !.at = "check"]) /\ Replace([Top EXCEPT !.at = "check"])
    BY <1>2, <1>12, <2>1 DEF TypeKey, UnionType
  <2> HIDE DEF r
  <2> QED BY <1>1, <2>2, ReturnDoes, ReplaceDoes
<1>13. CASE CheckTag
  <2> DEFINE f == [Top EXCEPT !.rest = Tail(@), !.at = "end"]
  <2>1. r = UnionCheck(exhaustive, stack)
    BY <1>2, <1>13 DEF CheckTag, At, Reading
  <2>2. IsTag(Head(Entries).value) <=> Tag(exhaustive, top.type, Head(top.rest).value)
    BY <1>2 DEF IsTag, Tag, IsVariant, Accepts
  <2>3. CASE IsTag(Head(Entries).value) /\ Head(Entries).value.text = Top.key
    <3>1. Replace(f)
      BY <1>13, <2>3 DEF CheckTag
    <3>2. r = Put(stack, f)
      BY <1>2, <2>1, <2>2, <2>3 DEF UnionCheck
    <3> HIDE DEF r, f
    <3> QED BY <1>1, <3>1, <3>2, ReplaceDoes
  <2>4. CASE ~(IsTag(Head(Entries).value) /\ Head(Entries).value.text = Top.key)
    <3>1. Return(Refused)
      BY <1>13, <2>4 DEF CheckTag
    <3>2. r = Answer(stack, Refused)
      BY <1>2, <2>1, <2>2, <2>4 DEF UnionCheck
    <3> HIDE DEF r
    <3> QED BY <3>1, <3>2, ReturnDoes
  <2> QED BY <2>3, <2>4
<1>14. CASE FinishUnion
  <2>1. r = UnionEnd(stack)
    BY <1>2, <1>14 DEF FinishUnion, At, Reading
  <2>2. \/ r = Answer(stack, Refused) /\ Return(Refused)
        \/ r = Hand(stack, Union(Top.type, Top.key, Top.value)) /\ Deliver(Union(Top.type, Top.key, Top.value))
    BY <1>2, <1>14, <2>1 DEF FinishUnion, UnionEnd
  <2> HIDE DEF r
  <2> QED BY <1>1, <2>2, ReturnDoes, DeliverDoes
<1> QED BY <1>4, <1>5, <1>6, <1>7, <1>8, <1>9, <1>10, <1>11, <1>12, <1>13, <1>14 DEF Reads

-----------------------------------------------------------------------------
(* Every reachable state                                                     *)

DInv ==
    /\ root \in DOMAIN Types
    /\ Turns
    /\ StackOK(stack)
    /\ UnknownFieldIsThere

LEMMA FirstVisitor ==
    ASSUME NEW T \in DOMAIN Types, NEW map
    PROVE  StackOK(<<Visitor(T, map)>>)
<1> DEFINE f == Visitor(T, map)
<1>1. FrameOK(f)
  BY VisitorOK
<1> HIDE DEF f
<1>2. /\ Len(<<f>>) = 1 /\ <<f>>[1] = f /\ <<f>> \in Seq({f}) /\ ToSet(<<f>>) = {f}
  BY DEF ToSet
<1>3. StackOK(<<f>>)
  BY <1>1, <1>2 DEF StackOK, IsSeq
<1> QED BY <1>3 DEF f

LEMMA StartsGood == Init => DInv
<1> SUFFICES ASSUME Init PROVE DInv
  OBVIOUS
<1>1. root \in DOMAIN Types
  BY TypesAssumption DEF Init
<1>2. StackOK(stack)
  BY <1>1, FirstVisitor DEF Init
<1>3. Turns
  BY DEF Init, Turns
<1>4. UnknownFieldIsThere
  BY Results DEF Init, UnknownFieldIsThere
<1> QED BY <1>1, <1>2, <1>3, <1>4 DEF DInv

LEMMA ReadsKeeps == ASSUME DInv, Reads PROVE DInv'
<1> DEFINE r == Reading(exhaustive, mode, stack)
<1>1. /\ outcome[mode] = Pending /\ Does(r)
      /\ Turns /\ mode \in {"server", "client"} /\ root \in DOMAIN Types
  BY ActionsRead DEF DInv, Turns
<1>2. Good(mode, stack, r)
  BY ReadingGood DEF DInv
<1> HIDE DEF r
<1>3. /\ stack' = r.stack /\ mode' = mode /\ root' = root
      /\ outcome' = [outcome EXCEPT ![mode] = r.out]
  BY <1>1 DEF Does
<1>4. /\ outcome' = [m \in {"server", "client"} |-> outcome'[m]]
      /\ outcome'[mode] = r.out
      /\ \A m \in {"server", "client"} : m # mode => outcome'[m] = outcome[m]
  BY <1>1, <1>3 DEF Turns
<1>5. Turns'
  BY <1>1, <1>3, <1>4 DEF Turns
<1>6. StackOK(stack')
  BY <1>2, <1>3 DEF Good
<1>7. UnknownFieldIsThere'
  <2> SUFFICES ASSUME r.out.tag = "unknown field"
               PROVE  /\ r.out.key = Head(Entries').key
                      /\ r.out.key \notin Names(Top'.type)
    BY <1>3, <1>4 DEF UnknownFieldIsThere
  <2>1. r.out # Pending
    BY Results
  <2>2. stack' = stack
    BY <1>2, <1>3, <2>1 DEF Good
  <2>3. Top' = stack[Len(stack)] /\ Entries' = stack[Len(stack)].rest
    BY <2>2 DEF Top, Entries
  <2> QED BY <1>2, <2>3 DEF Good
<1> QED BY <1>1, <1>3, <1>5, <1>6, <1>7 DEF DInv

LEMMA AgainKeeps == ASSUME DInv, ReadAgain PROVE DInv'
<1>1. /\ mode' = "client" /\ outcome' = outcome /\ root' = root /\ root \in DOMAIN Types
      /\ stack' = <<Visitor(root, doc)>>
  BY DEF DInv, ReadAgain
<1>2. StackOK(stack')
  BY <1>1, FirstVisitor
<1>3. Turns' /\ outcome["client"] = Pending
  BY <1>1 DEF DInv, Turns, ReadAgain
<1>4. UnknownFieldIsThere'
  BY <1>1, <1>3, Results DEF UnknownFieldIsThere
<1> QED BY <1>1, <1>2, <1>3, <1>4 DEF DInv

LEMMA DInvKept == DInv /\ [Next]_vars => DInv'
<1>1. ASSUME DInv, Next PROVE DInv'
  BY <1>1, ReadsKeeps, AgainKeeps DEF Next, Reads
<1>2. ASSUME DInv, UNCHANGED vars PROVE DInv'
  BY <1>2 DEF vars, DInv, Turns, UnknownFieldIsThere, Top, Entries
<1> QED BY <1>1, <1>2

LEMMA DInvHolds == Spec => []DInv
BY StartsGood, DInvKept, PTL DEF Spec

(* The visitors and the entries they are at belong together, for every set   *)
(* of objects and unions: a value is only asked for after a key, where there *)
(* is an entry; every visitor but the innermost waits for the value of the   *)
(* entry whose key it read last, and the next one is of the type of that     *)
(* member; no object holds a field that its type does not have.              *)
THEOREM VisitorsBelong == Spec => []TypeOK
<1>1. DInv => TypeOK
  <2> SUFFICES ASSUME DInv PROVE TypeOK
    OBVIOUS
  <2>1. Turns /\ StackOK(stack) /\ Len(stack) \in Nat /\ DOMAIN stack = 1 .. Len(stack)
    BY DEF DInv, StackOK, IsSeq
  <2>2. stack # <<>>
    BY <2>1 DEF StackOK
  <2>3. ASSUME NEW d \in DOMAIN stack
        PROVE  /\ DOMAIN stack[d].fields \subseteq Names(stack[d].type)
               /\ stack[d].at \in {"value", "tag", "check"} => stack[d].rest # <<>>
               /\ stack[d].at = "value" => Head(stack[d].rest).key = stack[d].key
               /\ d < Len(stack) => /\ stack[d].at = "value" /\ IsMap(Head(stack[d].rest).value)
                                    /\ stack[d + 1].type = Variant(stack[d].type, stack[d].key).type
    <3>1. d \in 1 .. Len(stack) /\ (d < Len(stack) => d \in 1 .. Len(stack) - 1)
      BY <2>1
    <3> QED BY <2>1, <3>1 DEF StackOK, FrameOK, Waits
  <2> QED BY <2>1, <2>2, <2>3 DEF TypeOK, Turns
<1> QED BY <1>1, DInvHolds, PTL

(* The error of an unknown field names the key of the very entry whose value *)
(* was not skipped, and the innermost object has no such field.              *)
THEOREM UnknownFieldNamesItsEntry == Spec => []UnknownFieldIsThere
<1>1. DInv => UnknownFieldIsThere
  BY DEF DInv
<1> QED BY <1>1, DInvHolds, PTL

-----------------------------------------------------------------------------
(* The client follows the server                                             *)

(* The states t[0], ..., t[n] of the server's visitors.                      *)
Runs(t, n) ==
    /\ n \in Nat
    /\ t[0] = <<Visitor(root, doc)>>
    /\ \A k \in 0 .. n - 1 : Reading(exhaustive, "server", t[k]) = Answer(t[k + 1], Pending)

Returned(t, n) == outcome["server"] = Reading(exhaustive, "server", t[n]).out

(* The server has come to t[n]; or it has returned there, and the client is  *)
(* at one of the same states, and returns at t[n] what the server returned,  *)
(* or the server has met an unknown field.                                   *)
Follows(t, n) ==
    /\ Runs(t, n)
    /\ mode = "server" => stack = t[n] /\ (outcome["server"] = Pending \/ Returned(t, n))
    /\ mode = "client" =>
         /\ Returned(t, n)
         /\ \/ outcome["server"].tag = "unknown field"
            \/ \E k \in 0 .. n : /\ stack = t[k]
                                 /\ \/ outcome["client"] = Pending
                                    \/ k = n /\ outcome["client"] = outcome["server"]

FInv == DInv /\ \E t, n : Follows(t, n)

LEMMA FollowsAtFirst == Init => FInv
<1> SUFFICES ASSUME Init PROVE \E t, n : Follows(t, n)
  BY StartsGood DEF FInv
<1> DEFINE t == [k \in {0} |-> stack]
<1>1. t[0] = stack /\ stack = <<Visitor(root, doc)>> /\ mode = "server" /\ outcome["server"] = Pending
  BY DEF Init
<1> HIDE DEF t
<1>2. Follows(t, 0)
  BY <1>1 DEF Follows, Runs
<1> QED BY <1>2

LEMMA ServerFollows ==
    ASSUME DInv, Reads, mode = "server", NEW t, NEW n, Follows(t, n)
    PROVE  \E u, m : Follows(u, m)'
<1> DEFINE r == Reading(exhaustive, "server", stack)
<1>1. outcome["server"] = Pending /\ Does(r) /\ Turns
  BY ActionsRead DEF DInv
<1>2. Good(mode, stack, r)
  BY ReadingGood DEF DInv
<1>3. n \in Nat /\ stack = t[n] /\ t[0] = <<Visitor(root, doc)>>
  BY DEF Follows, Runs
<1>4. r = Reading(exhaustive, "server", t[n]) /\ r = Answer(r.stack, r.out)
  <2>1. \A s, o : Answer(s, o) = Answer(Answer(s, o).stack, Answer(s, o).out)
    BY DEF Answer
  <2>2. \E s, o : r = Answer(s, o)
    BY DEF Reading, ObjectKey, ObjectValue, UnionFirst, UnionTag, UnionSecond, UnionValue,
           UnionType, UnionCheck, UnionEnd, Value, Hand, Put
  <2> HIDE DEF r
  <2> QED BY <1>3, <2>1, <2>2 DEF r
<1> HIDE DEF r
<1>5. /\ stack' = r.stack /\ outcome'["server"] = r.out
      /\ mode' = "server" /\ root' = root /\ doc' = doc /\ exhaustive' = exhaustive
  BY <1>1 DEF Does, Turns
<1>6. CASE r.out # Pending
  <2>1. stack' = t[n]
    BY <1>2, <1>3, <1>5, <1>6 DEF Good
  <2>2. Follows(t, n)'
    BY <1>3, <1>4, <1>5, <2>1 DEF Follows, Runs, Returned
  <2> QED BY <2>2
<1>7. CASE r.out = Pending
  <2>0. PICK u : u = [k \in 0 .. n + 1 |-> IF k = n + 1 THEN r.stack ELSE t[k]]
    OBVIOUS
  <2>1. u[n + 1] = r.stack /\ \A k \in 0 .. n : u[k] = t[k]
    BY <1>3, <2>0
  <2>2. \A k \in 0 .. n : Reading(exhaustive, "server", u[k]) = Answer(u[k + 1], Pending)
    <3> SUFFICES ASSUME NEW k \in 0 .. n
                 PROVE  Reading(exhaustive, "server", u[k]) = Answer(u[k + 1], Pending)
      OBVIOUS
    <3>1. CASE k = n
      BY <1>3, <1>4, <1>7, <2>1, <3>1
    <3>2. CASE k # n
      <4>1. k \in 0 .. n - 1 /\ k \in 0 .. n /\ k + 1 \in 0 .. n
        BY <1>3, <3>2
      <4>2. u[k] = t[k] /\ u[k + 1] = t[k + 1]
        BY <2>1, <4>1
      <4>3. Reading(exhaustive, "server", t[k]) = Answer(t[k + 1], Pending)
        BY <4>1 DEF Follows, Runs
      <4> QED BY <4>2, <4>3
    <3> QED BY <3>1, <3>2
  <2>3. n + 1 \in Nat /\ (n + 1) - 1 = n /\ u[0] = t[0]
    BY <1>3, <2>1
  <2>4. Runs(u, n + 1)'
    BY <1>3, <1>5, <2>2, <2>3 DEF Runs
  <2>5. Follows(u, n + 1)'
    BY <1>5, <1>7, <2>1, <2>4 DEF Follows
  <2> QED BY <2>5
<1> QED BY <1>6, <1>7

LEMMA ClientFollows ==
    ASSUME DInv, Reads, mode = "client", NEW t, NEW n, Follows(t, n)
    PROVE  Follows(t, n)'
<1> DEFINE r == Reading(exhaustive, "client", stack)
<1>1. outcome["client"] = Pending /\ Does(r) /\ Turns
  BY ActionsRead DEF DInv
<1>2. Good(mode, stack, r)
  BY ReadingGood DEF DInv
<1>3. /\ stack' = r.stack /\ outcome'["server"] = outcome["server"] /\ outcome'["client"] = r.out
      /\ mode' = "client" /\ root' = root /\ doc' = doc /\ exhaustive' = exhaustive
  BY <1>1 DEF Does, Turns
<1>4. Runs(t, n)' /\ Returned(t, n)' /\ n \in Nat
  BY <1>3 DEF Follows, Runs, Returned
<1>5. CASE outcome["server"].tag = "unknown field"
  BY <1>3, <1>4, <1>5 DEF Follows
<1>6. CASE outcome["server"].tag # "unknown field"
  <2>1. PICK k \in 0 .. n : stack = t[k]
    BY <1>6 DEF Follows
  <2>2. CASE k # n
    <3>1. k \in 0 .. n - 1 /\ k + 1 \in 0 .. n
      BY <1>4, <2>2
    <3>2. Reading(exhaustive, "server", stack) = Answer(t[k + 1], Pending)
      BY <2>1, <3>1 DEF Follows, Runs
    <3>3. Reading(exhaustive, "server", stack).out = Pending
      BY <3>2 DEF Answer
    <3>4. r = Answer(t[k + 1], Pending)
      BY <3>2, <3>3, SameUnless, Results
    <3> HIDE DEF r
    <3>5. r.stack = t[k + 1] /\ r.out = Pending
      BY <3>4 DEF Answer
    <3> QED BY <1>3, <1>4, <3>1, <3>5 DEF Follows
  <2>3. CASE k = n
    <3>1. Reading(exhaustive, "server", stack).out = outcome["server"]
      BY <2>1, <2>3 DEF Follows, Returned
    <3>2. r = Reading(exhaustive, "server", stack)
      BY <1>6, <3>1, SameUnless
    <3>3. r.out = outcome["server"]
      BY <3>1, <3>2
    <3>4. outcome["server"] # Pending
      BY <1>1 DEF Turns
    <3> HIDE DEF r
    <3>5. r.stack = stack
      BY <1>2, <3>3, <3>4 DEF Good
    <3>6. n \in 0 .. n
      BY <1>4
    <3> QED BY <1>3, <1>4, <2>1, <2>3, <3>3, <3>5, <3>6 DEF Follows
  <2> QED BY <2>2, <2>3
<1> QED BY <1>5, <1>6

LEMMA AgainFollows ==
    ASSUME DInv, ReadAgain, NEW t, NEW n, Follows(t, n)
    PROVE  Follows(t, n)'
<1>1. /\ mode = "server" /\ mode' = "client" /\ stack' = <<Visitor(root, doc)>>
      /\ outcome["server"] # Pending /\ outcome["client"] = Pending
      /\ outcome' = outcome /\ root' = root /\ doc' = doc /\ exhaustive' = exhaustive
  BY DEF ReadAgain, DInv, Turns
<1>2. Returned(t, n) /\ Runs(t, n) /\ n \in Nat
  BY <1>1 DEF Follows, Runs
<1>3. Returned(t, n)' /\ Runs(t, n)'
  BY <1>1, <1>2 DEF Returned, Runs
<1>4. 0 \in 0 .. n /\ stack' = t[0]
  BY <1>1, <1>2 DEF Runs
<1> QED BY <1>1, <1>3, <1>4 DEF Follows

LEMMA FInvKept == FInv /\ [Next]_vars => FInv'
<1> SUFFICES ASSUME FInv, [Next]_vars PROVE FInv'
  OBVIOUS
<1>1. PICK t, n : Follows(t, n)
  BY DEF FInv
<1>2. DInv /\ DInv'
  BY DInvKept DEF FInv
<1>3. CASE Reads /\ mode = "server"
  BY <1>1, <1>2, <1>3, ServerFollows DEF FInv
<1>4. CASE Reads /\ mode = "client"
  BY <1>1, <1>2, <1>4, ClientFollows DEF FInv
<1>5. CASE ReadAgain
  BY <1>1, <1>2, <1>5, AgainFollows DEF FInv
<1>6. CASE UNCHANGED vars
  <2>1. Follows(t, n)'
    BY <1>1, <1>6 DEF Follows, Runs, Returned, vars
  <2> QED BY <1>2, <2>1 DEF FInv
<1>7. mode \in {"server", "client"}
  BY <1>2 DEF DInv, Turns
<1> QED BY <1>3, <1>4, <1>5, <1>6, <1>7 DEF Next, Reads

LEMMA FInvHolds == Spec => []FInv
BY FollowsAtFirst, FInvKept, PTL DEF Spec

(* The client's deserializer returns what the server's returns, value or     *)
(* error, unless the server has met a field it does not know: for every set  *)
(* of objects and unions, however deep, and for every document.              *)
THEOREM OnlyUnknownFieldsDiffer == Spec => []ModesAgree
<1>1. FInv => ModesAgree
  <2> SUFFICES ASSUME FInv, outcome["client"] # Pending
               PROVE  \/ outcome["server"] = outcome["client"]
                      \/ outcome["server"].tag = "unknown field"
    BY DEF ModesAgree
  <2>1. mode = "client"
    BY DEF FInv, DInv, Turns
  <2>2. PICK t, n : Follows(t, n)
    BY DEF FInv
  <2> QED BY <2>1, <2>2 DEF Follows
<1> QED BY <1>1, FInvHolds, PTL
-----------------------------------------------------------------------------
(* Ranks and heights                                                         *)

LEMMA Lowest ==
    ASSUME NEW S \in SUBSET Nat, S # {}
    PROVE  \E k \in S : \A n \in S : k <= n
<1>1. \E k \in S : \A n \in S : <<n, k>> \notin OpToRel(<, Nat)
  BY WFMin, NatLessThanWellFounded, Zenon
<1>2. PICK k \in S : \A n \in S : <<n, k>> \notin OpToRel(<, Nat)
  BY <1>1
<1>3. \A n \in S : ~(n < k)
  BY <1>2 DEF OpToRel
<1>4. k \in Nat /\ \A n \in S : n \in Nat
  OBVIOUS
<1>5. \A n \in S : k <= n
  BY <1>3, <1>4
<1> QED BY <1>5

(* Nth counts the elements of a set of positions.                            *)
LEMMA NthCounts ==
    ASSUME NEW k \in Nat, NEW S \in SUBSET (1 .. k)
    PROVE  /\ Cardinality(S) \in Nat
           /\ \A n \in 1 .. Cardinality(S) : Nth(S, n) \in S
           /\ \A i \in S : \E n \in 1 .. Cardinality(S) : Nth(S, n) = i
<1> DEFINE UpTo(i) == {j \in S : j <= i}
           rank == [i \in S |-> Cardinality(UpTo(i))]
           T == 1 .. Cardinality(S)
<1>1. IsFiniteSet(S) /\ Cardinality(S) \in Nat
  <2>1. IsFiniteSet(1 .. k)
    BY FS_Interval
  <2>2. IsFiniteSet(S)
    BY <2>1, FS_Subset
  <2> QED BY <2>2, FS_CardinalityType
<1>2. \A i \in S : IsFiniteSet(UpTo(i)) /\ Cardinality(UpTo(i)) \in Nat /\ Cardinality(UpTo(i)) \in T
  <2> SUFFICES ASSUME NEW i \in S
               PROVE  IsFiniteSet(UpTo(i)) /\ Cardinality(UpTo(i)) \in Nat /\ Cardinality(UpTo(i)) \in T
    OBVIOUS
  <2>1. UpTo(i) \in SUBSET S /\ i \in UpTo(i)
    BY <1>1
  <2> HIDE DEF UpTo
  <2>2. IsFiniteSet(UpTo(i)) /\ Cardinality(UpTo(i)) <= Cardinality(S)
    BY <1>1, <2>1, FS_Subset
  <2>3. Cardinality(UpTo(i)) \in Nat
    BY <2>2, FS_CardinalityType
  <2>4. Cardinality(UpTo(i)) # 0
    BY <2>1, <2>2, FS_EmptySet
  <2> QED BY <1>1, <2>2, <2>3, <2>4
<1>3. \A i, j \in S : i < j => Cardinality(UpTo(i)) # Cardinality(UpTo(j))
  <2> SUFFICES ASSUME NEW i \in S, NEW j \in S, i < j
               PROVE  Cardinality(UpTo(i)) # Cardinality(UpTo(j))
    OBVIOUS
  <2>0. i \in Nat /\ j \in Nat /\ \A x \in S : x \in Nat
    OBVIOUS
  <2>1. UpTo(i) \in SUBSET UpTo(j) /\ j \in UpTo(j) /\ j \notin UpTo(i)
    <3>1. \A x \in S : x <= i => x <= j
      BY <2>0
    <3>2. j <= j /\ ~(j <= i)
      BY <2>0
    <3> QED BY <3>1, <3>2
  <2>2. IsFiniteSet(UpTo(j))
    BY <1>2
  <2> HIDE DEF UpTo
  <2> QED BY <2>1, <2>2, FS_Subset
<1>4. rank \in Injection(S, T)
  <2>1. rank \in [S -> T]
    BY <1>2
  <2>2. \A i, j \in S : rank[i] = rank[j] => i = j
    <3> SUFFICES ASSUME NEW i \in S, NEW j \in S, i # j PROVE rank[i] # rank[j]
      OBVIOUS
    <3>1. i \in Nat /\ j \in Nat
      OBVIOUS
    <3>2. i < j \/ j < i
      BY <3>1
    <3>3. rank[i] = Cardinality(UpTo(i)) /\ rank[j] = Cardinality(UpTo(j))
      OBVIOUS
    <3> HIDE DEF rank, UpTo
    <3> QED BY <1>3, <3>2, <3>3
  <2> HIDE DEF rank, T
  <2> QED BY <2>1, <2>2 DEF Injection, IsInjective
<1>5. Cardinality(T) = Cardinality(S) /\ IsFiniteSet(T)
  BY <1>1, FS_Interval
<1>6. rank \in Surjection(S, T)
  <2> HIDE DEF rank, T
  <2> QED BY <1>4, <1>5, FS_Injection
<1>7. \A n \in T : \E i \in S : Cardinality(UpTo(i)) = n
  <2>1. \A n \in T : \E i \in S : rank[i] = n
    <3> HIDE DEF rank, T
    <3> QED BY <1>6 DEF Surjection
  <2> QED BY <2>1
<1>8. \A n \in T : Nth(S, n) \in S /\ Cardinality(UpTo(Nth(S, n))) = n
  BY <1>7 DEF Nth
<1>9. ASSUME NEW i \in S PROVE \E n \in T : Nth(S, n) = i
  <2> DEFINE n == Cardinality(UpTo(i))
  <2>1. n \in T
    BY <1>2
  <2>2. Nth(S, n) \in S /\ Cardinality(UpTo(Nth(S, n))) = n
    BY <1>8, <2>1
  <2>3. i \in Nat /\ Nth(S, n) \in Nat
    <3>1. \A x \in S : x \in Nat
      OBVIOUS
    <3> QED BY <2>2, <3>1
  <2>4. ~(i < Nth(S, n)) /\ ~(Nth(S, n) < i)
    <3> HIDE DEF UpTo
    <3>1. Cardinality(UpTo(i)) = Cardinality(UpTo(Nth(S, n)))
      BY <2>2
    <3> HIDE DEF n
    <3> QED BY <1>3, <2>2, <3>1
  <2>5. Nth(S, n) = i
    BY <2>3, <2>4
  <2> QED BY <2>1, <2>5
<1> QED BY <1>1, <1>8, <1>9
-----------------------------------------------------------------------------
(* The values that are written                                               *)

LEMMA Shapes ==
    /\ \A t : DOMAIN Leaf(t) = {"leaf"} /\ Leaf(t).leaf = t
    /\ \A d : DOMAIN AnyValue(d) = {"any"} /\ AnyValue(d).any = d
    /\ \A T, f : /\ DOMAIN Object(T, f) = {"type", "fields"}
                 /\ Object(T, f).type = T /\ Object(T, f).fields = f
    /\ \A T, n, w : /\ DOMAIN Union(T, n, w) = {"type", "variant", "value"}
                    /\ Union(T, n, w).type = T /\ Union(T, n, w).variant = n
                    /\ Union(T, n, w).value = w
    /\ DOMAIN Default = {"default"}
BY DEF Leaf, AnyValue, Object, Union, Default

LEMMA DocShapes ==
    /\ \A t : DOMAIN Text(t) = {"text"} /\ Text(t).text = t /\ ~IsMap(Text(t))
    /\ \A es : DOMAIN Map(es) = {"entries"} /\ Map(es).entries = es /\ IsMap(Map(es))
    /\ \A k, x : Entry(k, x).key = k /\ Entry(k, x).value = x
    /\ ~IsMap(Null) /\ Null.text = "null"
BY DEF Text, Map, Entry, IsMap, Null

LEMMA AllAre ==
    \A v : v \in AllValues <=>
              \/ v \in {Leaf(t) : t \in Leaves} \cup AnyValues
              \/ v \in UNION {Values[T] : T \in DOMAIN Values}
<1> DEFINE L == {Leaf(t) : t \in Leaves}
           U == (UNION {Values[T] : T \in DOMAIN Values})
<1>1. AllValues = U \cup L \cup AnyValues
  BY DEF AllValues
<1> HIDE DEF L, U
<1>2. \A v : v \in AllValues <=> v \in L \cup AnyValues \/ v \in U
  BY <1>1
<1> QED BY <1>2 DEF L, U

ObjectOf(T, v) ==
    /\ T \in DOMAIN Values /\ T \in DOMAIN Types /\ v \in Values[T]
    /\ Types[T].kind = "object" /\ IsObject(T, v)
    /\ v.type = T /\ DOMAIN v = {"type", "fields"}
UnionOf(T, v) ==
    /\ T \in DOMAIN Values /\ T \in DOMAIN Types /\ v \in Values[T]
    /\ Types[T].kind = "union" /\ IsUnion(T, v)
    /\ v.type = T /\ DOMAIN v = {"type", "variant", "value"}

LEMMA ValueOfType ==
    ASSUME NEW T \in DOMAIN Values, NEW v \in Values[T]
    PROVE  /\ T \in DOMAIN Types /\ T \notin {"leaf", "any"}
           /\ v \in AllValues /\ v.type = T
           /\ Types[T].kind = "object" => ObjectOf(T, v)
           /\ Types[T].kind # "object" => UnionOf(T, v)
<1>1. T \in DOMAIN Types /\ T \notin {"leaf", "any"} /\ Types[T].kind \in {"object", "union"}
  BY ValuesAssumption, TypesAssumption
<1>2. v \in AllValues
  BY DEF AllValues
<1>3. CASE Types[T].kind = "object"
  <2>1. IsObject(T, v)
    BY <1>3, ValuesAssumption
  <2>2. v.type = T /\ DOMAIN v = {"type", "fields"}
    <3>1. v = Object(T, v.fields)
      BY <2>1 DEF IsObject
    <3>2. \A f : Object(T, f).type = T /\ DOMAIN Object(T, f) = {"type", "fields"}
      BY Shapes
    <3> QED BY <3>1, <3>2, Zenon
  <2> QED BY <1>1, <1>2, <1>3, <2>1, <2>2 DEF ObjectOf
<1>4. CASE Types[T].kind # "object"
  <2>1. IsUnion(T, v)
    BY <1>4, ValuesAssumption
  <2>2. v.type = T /\ DOMAIN v = {"type", "variant", "value"}
    <3>1. v = Union(T, v.variant, v.value)
      BY <2>1 DEF IsUnion
    <3>2. \A n, w : /\ Union(T, n, w).type = T
                    /\ DOMAIN Union(T, n, w) = {"type", "variant", "value"}
      BY Shapes
    <3> QED BY <3>1, <3>2, Zenon
  <2> QED BY <1>1, <1>2, <1>4, <2>1, <2>2 DEF UnionOf
<1> QED BY <1>3, <1>4

LEMMA Kinds ==
    ASSUME NEW v \in AllValues
    PROVE  \/ \E t : v = Leaf(t) \/ v = AnyValue(t)
           \/ \E T : ObjectOf(T, v) \/ UnionOf(T, v)
<1>1. CASE v \in {Leaf(t) : t \in Leaves} \cup AnyValues
  BY <1>1 DEF AnyValues
<1>2. CASE \E T \in DOMAIN Values : v \in Values[T]
  BY <1>2, ValueOfType
<1>3. \/ v \in {Leaf(t) : t \in Leaves} \cup AnyValues
      \/ v \in UNION {Values[T] : T \in DOMAIN Values}
  BY AllAre
<1>4. v \in UNION {Values[T] : T \in DOMAIN Values} => \E T \in DOMAIN Values : v \in Values[T]
  OBVIOUS
<1> QED BY <1>1, <1>2, <1>3, <1>4

LEMMA ValuesIn ==
    /\ Default \notin AllValues
    /\ \A type : ValuesOf(type) \subseteq AllValues
<1>1. ASSUME NEW v \in AllValues PROVE v # Default
  <2>1. "default" \notin DOMAIN v
    BY Kinds, Shapes DEF ObjectOf, UnionOf
  <2> QED BY <2>1, Shapes
<1>2. ASSUME NEW type, NEW v \in ValuesOf(type) PROVE v \in AllValues
  <2>1. \/ v \in {Leaf(t) : t \in Leaves} \cup AnyValues
        \/ type \in DOMAIN Values /\ v \in Values[type]
    BY <1>2 DEF ValuesOf
  <2>2. CASE v \in {Leaf(t) : t \in Leaves} \cup AnyValues
    BY <2>2, AllAre
  <2>3. CASE type \in DOMAIN Values /\ v \in Values[type]
    BY <2>3, ValueOfType
  <2> QED BY <2>1, <2>2, <2>3
<1> QED BY <1>1, <1>2

(* What a value holds.                                                       *)
Parts(v) ==
    CASE "variant" \in DOMAIN v -> {v.value}
      [] "fields" \in DOMAIN v -> {v.fields[n] : n \in DOMAIN v.fields} \ {Default}
      [] OTHER -> {}

LEMMA PartsOfObject ==
    ASSUME NEW T, NEW v, ObjectOf(T, v)
    PROVE  /\ DOMAIN v.fields = Names(T)
           /\ \A m \in ToSet(Types[T].members) :
                 \/ v.fields[m.name] \in ValuesOf(m.type) /\ v.fields[m.name] # Default
                 \/ v.fields[m.name] = Default /\ m.shape # "required"
           /\ \A n \in Names(T) : v.fields[n] # Default =>
                 v.fields[n] \in Parts(v) /\ v.fields[n] \in AllValues /\ Height[v.fields[n]] < Height[v]
           /\ \A w \in Parts(v) : \E n \in Names(T) : w = v.fields[n] /\ w # Default
<1>1. DOMAIN v.fields = Names(T)
  BY DEF ObjectOf, IsObject
<1>2. Parts(v) = {v.fields[n] : n \in Names(T)} \ {Default}
  BY <1>1 DEF Parts, ObjectOf
<1>3. ASSUME NEW m \in ToSet(Types[T].members)
      PROVE  \/ v.fields[m.name] \in ValuesOf(m.type) /\ v.fields[m.name] \in AllValues
                /\ v.fields[m.name] # Default /\ Height[v.fields[m.name]] < Height[v]
             \/ v.fields[m.name] = Default /\ m.shape # "required"
  BY ValuesIn DEF ObjectOf, IsObject
<1>4. ASSUME NEW n \in Names(T), v.fields[n] # Default
      PROVE  v.fields[n] \in Parts(v) /\ v.fields[n] \in AllValues /\ Height[v.fields[n]] < Height[v]
  <2>1. PICK m \in ToSet(Types[T].members) : m.name = n
    BY DEF Names
  <2> QED BY <1>2, <1>3, <1>4, <2>1
<1> QED BY <1>1, <1>2, <1>3, <1>4

LEMMA PartsOfUnion ==
    ASSUME NEW T, NEW v, UnionOf(T, v)
    PROVE  /\ Parts(v) = {v.value} /\ v.variant \notin {"type", "null"}
           /\ v.value \in ValuesOf(Variant(T, v.variant).type)
           /\ v.value \in AllValues /\ Height[v.value] < Height[v]
           /\ v = Union(T, v.variant, v.value)
BY ValuesIn DEF UnionOf, IsUnion, Parts

LEMMA PartsLower ==
    ASSUME NEW v \in AllValues, NEW w \in Parts(v)
    PROVE  w \in AllValues /\ Height[w] < Height[v] /\ Height[w] \in Nat /\ Height[v] \in Nat
<1>1. Height \in [AllValues -> Nat]
  BY ValuesAssumption
<1>2. w \in AllValues /\ Height[w] < Height[v]
  <2>1. CASE \E t : v = Leaf(t) \/ v = AnyValue(t)
    <3>1. "variant" \notin DOMAIN v /\ "fields" \notin DOMAIN v
      BY <2>1, Shapes
    <3> QED BY <3>1 DEF Parts
  <2>2. CASE \E T : ObjectOf(T, v)
    BY <2>2, PartsOfObject
  <2>3. CASE \E T : UnionOf(T, v)
    BY <2>3, PartsOfUnion
  <2> QED BY <2>1, <2>2, <2>3, Kinds
<1> QED BY <1>1, <1>2
-----------------------------------------------------------------------------
(* Written and Known, which are recursive: values are finite                 *)

WrittenBody(f, v) ==
    CASE "leaf" \in DOMAIN v -> Text(v.leaf)
      [] "any" \in DOMAIN v -> v.any
      [] "variant" \in DOMAIN v ->
           Map(<<Entry("type", Text(v.variant)), Entry(v.variant, f[v.value])>>)
      [] "fields" \in DOMAIN v ->
           Map([n \in 1 .. Cardinality(Present(v)) |->
                  LET name == Types[v.type].members[Nth(Present(v), n)].name
                  IN Entry(name, f[v.fields[name]])])

KnownBody(f, v) ==
    CASE "variant" \in DOMAIN v -> v.variant \in Names(v.type) /\ f[v.value]
      [] "fields" \in DOMAIN v ->
           \A n \in DOMAIN v.fields : v.fields[n] = Default \/ f[v.fields[n]]
      [] OTHER -> TRUE

(* The fields that an object is written with.                                *)
LEMMA PresentFields ==
    ASSUME NEW T, NEW v, ObjectOf(T, v)
    PROVE  /\ Cardinality(Present(v)) \in Nat
           /\ \A n \in 1 .. Cardinality(Present(v)) :
                 LET name == Types[T].members[Nth(Present(v), n)].name
                 IN name \in Names(T) /\ v.fields[name] # Default
           /\ \A name \in Names(T) : v.fields[name] # Default =>
                 \E n \in 1 .. Cardinality(Present(v)) :
                    Types[T].members[Nth(Present(v), n)].name = name
<1> DEFINE members == Types[T].members
<1>1. T \in DOMAIN Types /\ v.type = T
  BY DEF ObjectOf
<1>2. members \in Seq(ToSet(members)) /\ Len(members) \in Nat /\ DOMAIN members = 1 .. Len(members)
  BY <1>1, TypesAssumption
<1>3. Present(v) = {i \in DOMAIN members : v.fields[members[i].name] # Default}
  BY <1>1 DEF Present
<1>4. Names(T) = {m.name : m \in ToSet(members)} /\ ToSet(members) = {members[i] : i \in DOMAIN members}
  BY DEF Names, ToSet
<1> HIDE DEF members
<1>5. Present(v) \in SUBSET (1 .. Len(members))
  BY <1>2, <1>3
<1>6. /\ Cardinality(Present(v)) \in Nat
      /\ \A n \in 1 .. Cardinality(Present(v)) : Nth(Present(v), n) \in Present(v)
      /\ \A i \in Present(v) : \E n \in 1 .. Cardinality(Present(v)) : Nth(Present(v), n) = i
  BY <1>2, <1>5, NthCounts
<1>7. \A i \in Present(v) : members[i].name \in Names(T) /\ v.fields[members[i].name] # Default
  BY <1>3, <1>4
<1>8. \A name \in Names(T) : v.fields[name] # Default =>
         \E i \in Present(v) : members[i].name = name
  BY <1>3, <1>4
<1>9. \A n \in 1 .. Cardinality(Present(v)) :
         members[Nth(Present(v), n)].name \in Names(T)
            /\ v.fields[members[Nth(Present(v), n)].name] # Default
  BY <1>6, <1>7
<1>10. \A name \in Names(T) : v.fields[name] # Default =>
          \E n \in 1 .. Cardinality(Present(v)) : members[Nth(Present(v), n)].name = name
  BY <1>6, <1>8
<1> QED BY <1>6, <1>9, <1>10 DEF members

(* What is written of a value, and what is known of it, depend on its parts. *)
LEMMA BodiesAgree ==
    ASSUME NEW v \in AllValues, NEW f, NEW g, \A w \in Parts(v) : f[w] = g[w]
    PROVE  WrittenBody(f, v) = WrittenBody(g, v) /\ KnownBody(f, v) = KnownBody(g, v)
<1>1. CASE \E t : v = Leaf(t) \/ v = AnyValue(t)
  <2>1. /\ "variant" \notin DOMAIN v /\ "fields" \notin DOMAIN v
        /\ "leaf" \in DOMAIN v \/ "any" \in DOMAIN v
        /\ ~("leaf" \in DOMAIN v /\ "any" \in DOMAIN v)
    BY <1>1, Shapes
  <2> QED BY <2>1 DEF WrittenBody, KnownBody
<1>2. ASSUME NEW T, ObjectOf(T, v)
      PROVE  WrittenBody(f, v) = WrittenBody(g, v) /\ KnownBody(f, v) = KnownBody(g, v)
  <2> DEFINE card == Cardinality(Present(v))
             name(n) == Types[v.type].members[Nth(Present(v), n)].name
             F == [n \in 1 .. card |-> Entry(name(n), f[v.fields[name(n)]])]
             G == [n \in 1 .. card |-> Entry(name(n), g[v.fields[name(n)]])]
  <2>1. DOMAIN v = {"type", "fields"} /\ v.type = T
    BY <1>2 DEF ObjectOf
  <2>2. WrittenBody(f, v) = Map(F) /\ WrittenBody(g, v) = Map(G)
    BY <2>1 DEF WrittenBody
  <2>3. \A n \in Names(T) : v.fields[n] # Default => f[v.fields[n]] = g[v.fields[n]]
    BY <1>2, PartsOfObject
  <2>4. F = G
    <3>1. \A n \in 1 .. card : f[v.fields[name(n)]] = g[v.fields[name(n)]]
      <4>1. \A n \in 1 .. card : name(n) \in Names(T) /\ v.fields[name(n)] # Default
        BY <1>2, <2>1, PresentFields
      <4> HIDE DEF name, card
      <4> QED BY <2>3, <4>1
    <3> HIDE DEF name, card
    <3> QED BY <3>1
  <2>5. DOMAIN v.fields = Names(T)
    BY <1>2, PartsOfObject
  <2>6. KnownBody(f, v) = KnownBody(g, v)
    <3>1. /\ KnownBody(f, v) = \A n \in Names(T) : v.fields[n] = Default \/ f[v.fields[n]]
          /\ KnownBody(g, v) = \A n \in Names(T) : v.fields[n] = Default \/ g[v.fields[n]]
      BY <2>1, <2>5 DEF KnownBody
    <3> QED BY <2>3, <3>1
  <2> HIDE DEF F, G
  <2> QED BY <2>2, <2>4, <2>6
<1>3. ASSUME NEW T, UnionOf(T, v)
      PROVE  WrittenBody(f, v) = WrittenBody(g, v) /\ KnownBody(f, v) = KnownBody(g, v)
  <2>1. DOMAIN v = {"type", "variant", "value"} /\ f[v.value] = g[v.value]
    BY <1>3, PartsOfUnion DEF UnionOf
  <2>2. \A h : /\ WrittenBody(h, v) = Map(<<Entry("type", Text(v.variant)), Entry(v.variant, h[v.value])>>)
               /\ KnownBody(h, v) = (v.variant \in Names(v.type) /\ h[v.value])
    BY <2>1 DEF WrittenBody, KnownBody
  <2> QED BY <2>1, <2>2
<1> QED BY <1>1, <1>2, <1>3, Kinds
-----------------------------------------------------------------------------
(* The meaning of a document, which is recursive too: JSON is finite         *)

MeaningBody(f, q) ==
    IF ~IsMap(q.json) THEN {}
    ELSE IF Types[q.type].kind = "object" THEN MeantObject(f, q, q.json.entries)
    ELSE MeantUnion(f, q, q.json.entries)

(* The questions that a question may lead to.                                *)
Asked(q) ==
    {p \in Questions : IsMap(q.json) /\ \E n \in DOMAIN q.json.entries : p.json = q.json.entries[n].value}

LEMMA JsonIs ==
    ASSUME NEW json \in Json
    PROVE  /\ Depth[json] \in Nat
           /\ ~IsMap(json) => json = Text(json.text)
           /\ IsMap(json) =>
                /\ json = Map(json.entries) /\ IsSeq(json.entries)
                /\ Len(json.entries) \in Nat /\ DOMAIN json.entries = 1 .. Len(json.entries)
                /\ \A n \in 1 .. Len(json.entries) :
                      LET entry == json.entries[n]
                      IN /\ entry = Entry(entry.key, entry.value) /\ entry.value \in Json
                         /\ Depth[entry.value] < Depth[json] /\ Depth[entry.value] \in Nat
<1> DEFINE es == json.entries
<1>1. Depth[json] \in Nat /\ (~IsMap(json) => json = Text(json.text))
  BY JsonAssumption
<1>2. CASE IsMap(json)
  <2>1. /\ json = Map(es) /\ es \in Seq(ToSet(es))
        /\ \A entry \in ToSet(es) : /\ entry = Entry(entry.key, entry.value)
                                    /\ entry.value \in Json /\ Depth[entry.value] < Depth[json]
    BY <1>2, JsonAssumption
  <2>2. \A value \in Json : Depth[value] \in Nat
    BY JsonAssumption
  <2>3. Len(es) \in Nat /\ DOMAIN es = 1 .. Len(es) /\ \A n \in 1 .. Len(es) : es[n] \in ToSet(es)
    BY <2>1
  <2> HIDE DEF es
  <2>4. \A n \in 1 .. Len(es) :
           /\ es[n] = Entry(es[n].key, es[n].value) /\ es[n].value \in Json
           /\ Depth[es[n].value] < Depth[json] /\ Depth[es[n].value] \in Nat
    BY <2>1, <2>2, <2>3
  <2> QED BY <1>1, <2>1, <2>3, <2>4 DEF IsSeq, es
<1> QED BY <1>1, <1>2

LEMMA QuestionIs ==
    /\ \A q \in Questions :
          /\ q.reader \in {"server", "client"} /\ q.exhaustive \in BOOLEAN
          /\ q.type \in DOMAIN Types /\ q.json \in Json
          /\ q = Question(q.reader, q.exhaustive, q.type, q.json)
    /\ \A m \in {"server", "client"}, e \in BOOLEAN, T \in DOMAIN Types, json \in Json :
          LET q == Question(m, e, T, json)
          IN q \in Questions /\ q.reader = m /\ q.exhaustive = e /\ q.type = T /\ q.json = json
BY DEF Questions, Question

LEMMA InnerLower ==
    ASSUME NEW q \in Questions, NEW p \in Asked(q)
    PROVE  p \in Questions /\ Depth[p.json] < Depth[q.json]
<1>1. p \in Questions /\ IsMap(q.json) /\ \E n \in DOMAIN q.json.entries : p.json = q.json.entries[n].value
  BY DEF Asked
<1>2. q.json \in Json
  BY QuestionIs
<1> QED BY <1>1, <1>2, JsonIs

(* The last of some positions.                                               *)
LEMMA LastIs ==
    ASSUME NEW k \in Nat, NEW S \in SUBSET (1 .. k), S # {}
    PROVE  LET last == CHOOSE n \in S : \A i \in S : i <= n
           IN last \in S /\ \A i \in S : i <= last
<1> DEFINE R == {n \in Nat : k - n \in S}
<1>1. R \in SUBSET Nat /\ R # {}
  <2>1. PICK n \in S : TRUE
    OBVIOUS
  <2>2. n \in Nat /\ k - n \in Nat /\ k - (k - n) = n
    OBVIOUS
  <2>3. k - n \in R
    BY <2>1, <2>2
  <2> QED BY <2>3
<1>2. PICK r \in R : \A n \in R : r <= n
  <2> HIDE DEF R
  <2> QED BY <1>1, Lowest
<1>3. k - r \in S /\ r \in Nat
  BY DEF R
<1>4. \A i \in S : i <= k - r
  <2> TAKE i \in S
  <2>1. i \in Nat /\ i <= k /\ k - i \in Nat /\ k - (k - i) = i
    OBVIOUS
  <2>2. k - i \in R
    BY <2>1
  <2>3. r <= k - i
    <3> HIDE DEF R
    <3> QED BY <1>2, <2>2
  <2> QED BY <1>3, <2>1, <2>3
<1> HIDE DEF R
<1>5. \E n \in S : \A i \in S : i <= n
  BY <1>3, <1>4
<1> QED BY <1>5

LEMMA MeantAgrees ==
    ASSUME NEW q \in Questions, IsMap(q.json), NEW f, NEW g, \A p \in Asked(q) : f[p] = g[p],
           NEW n \in DOMAIN q.json.entries, NEW member, member.type \in DOMAIN Types \cup {"leaf", "any"}
    PROVE  Meant(f, q, member, q.json.entries[n].value) = Meant(g, q, member, q.json.entries[n].value)
<1> DEFINE json == q.json.entries[n].value
           p == Question(q.reader, q.exhaustive, member.type, json)
<1>1. q.reader \in {"server", "client"} /\ q.exhaustive \in BOOLEAN /\ json \in Json
  <2>1. q.reader \in {"server", "client"} /\ q.exhaustive \in BOOLEAN /\ q.json \in Json
    BY QuestionIs
  <2>2. n \in 1 .. Len(q.json.entries) /\ json \in Json
    BY <2>1, JsonIs
  <2> QED BY <2>1, <2>2
<1>2. CASE member.type \in DOMAIN Types
  <2>1. p \in Questions /\ p.json = json
    <3> HIDE DEF json
    <3> QED BY <1>1, <1>2 DEF Questions, Question
  <2>2. p \in Asked(q)
    <3> HIDE DEF p
    <3> QED BY <2>1 DEF Asked
  <2>3. f[p] = g[p]
    BY <2>2
  <2>4. member.type \notin {"leaf", "any"}
    BY <1>2, TypesAssumption
  <2>5. \A h : Meant(h, q, member, json) =
                  IF json = Null THEN (IF member.shape = "optional" THEN {Default} ELSE {})
                  ELSE IF IsMap(json) THEN h[p] ELSE {}
    <3> HIDE DEF json
    <3> QED BY <1>2, <2>4 DEF Meant, p
  <2> HIDE DEF json, p
  <2> QED BY <2>3, <2>5 DEF json
<1>3. CASE member.type \notin DOMAIN Types /\ member.type \in {"leaf", "any"}
  <2>1. \A h : Meant(h, q, member, json) =
                  IF member.type = "any" THEN {AnyValue(json)}
                  ELSE IF json = Null THEN (IF member.shape = "optional" THEN {Default} ELSE {})
                  ELSE IF ~IsMap(json) /\ json.text \in Leaves THEN {Leaf(json.text)} ELSE {}
    <3> HIDE DEF json
    <3> QED BY <1>3 DEF Meant
  <2> QED BY <2>1
<1> QED BY <1>2, <1>3

LEMMA MeaningsAgree ==
    ASSUME NEW q \in Questions, NEW f, NEW g, \A p \in Asked(q) : f[p] = g[p]
    PROVE  MeaningBody(f, q) = MeaningBody(g, q)
<1> DEFINE es == q.json.entries
           T == q.type
<1>1. q.json \in Json /\ T \in DOMAIN Types
  BY QuestionIs
<1>2. CASE ~IsMap(q.json)
  BY <1>2 DEF MeaningBody
<1>3. CASE IsMap(q.json) /\ Types[T].kind = "object"
  <2> DEFINE of(name) == {n \in DOMAIN es : es[n].key = name}
             last(name) == CHOOSE n \in of(name) : \A k \in of(name) : k <= n
             field(h, n) == Meant(h, q, MemberOf(T, es[n].key), es[n].value)
             fine(h) == \A n \in DOMAIN es :
                           IF es[n].key \in Names(T) THEN field(h, n) # {} ELSE q.reader = "client"
             there == \A m \in ToSet(Types[T].members) : m.shape = "required" => of(m.name) # {}
             some(S) == CHOOSE v \in S : TRUE
             fields(h) == [name \in Names(T) |->
                              IF of(name) = {} THEN Default ELSE some(field(h, last(name)))]
  <2>1. \A h : MeaningBody(h, q) = IF fine(h) /\ there THEN {Object(T, fields(h))} ELSE {}
    BY <1>3 DEF MeaningBody, MeantObject
  <2>2. \A n \in DOMAIN es : es[n].key \in Names(T) => field(f, n) = field(g, n)
    <3> SUFFICES ASSUME NEW n \in DOMAIN es, es[n].key \in Names(T) PROVE field(f, n) = field(g, n)
      OBVIOUS
    <3>1. MemberOf(T, es[n].key).type \in DOMAIN Types \cup {"leaf", "any"}
      BY <1>1, MemberTypes
    <3> QED BY <1>3, <3>1, MeantAgrees
  <2>3. ASSUME NEW name, of(name) # {}
        PROVE  last(name) \in DOMAIN es /\ es[last(name)].key = name
    <3>1. Len(es) \in Nat /\ of(name) \in SUBSET (1 .. Len(es))
      BY <1>1, <1>3, JsonIs
    <3>2. last(name) \in of(name)
      <4> HIDE DEF of, es
      <4> QED BY <2>3, <3>1, LastIs
    <3> HIDE DEF last
    <3> QED BY <3>2
  <2> HIDE DEF es, T, of, last, field
  <2>4. fine(f) = fine(g)
    BY <2>2
  <2>5. fields(f) = fields(g)
    <3>1. ASSUME NEW name \in Names(T), of(name) # {}
          PROVE  field(f, last(name)) = field(g, last(name))
      BY <2>2, <2>3, <3>1
    <3>2. \A name \in Names(T) : of(name) # {} => field(f, last(name)) = field(g, last(name))
      BY <3>1
    <3> HIDE DEF some
    <3> QED BY <3>2
  <2> HIDE DEF fine, there, fields
  <2> QED BY <2>1, <2>4, <2>5
<1>4. CASE IsMap(q.json) /\ Types[T].kind # "object"
  <2> DEFINE tag == IF es[1].key = "type" THEN 1 ELSE 2
             held == es[3 - tag]
             fine == /\ Len(es) = 2
                     /\ es[tag] = Entry("type", Text(held.key))
                     /\ held.key # "null"
                     /\ q.exhaustive => held.key \in Names(T)
             values(h) == Meant(h, q, Variant(T, held.key), held.value)
  <2>1. \A h : MeaningBody(h, q) = IF fine THEN {Union(T, held.key, v) : v \in values(h)} ELSE {}
    BY <1>4 DEF MeaningBody, MeantUnion
  <2>2. ASSUME Len(es) = 2 PROVE values(f) = values(g)
    <3>1. 3 - tag \in DOMAIN es
      BY <1>1, <1>4, <2>2, JsonIs
    <3>2. Variant(T, held.key).type \in DOMAIN Types \cup {"leaf", "any"}
      BY <1>1, MemberTypes
    <3> QED BY <1>4, <3>1, <3>2, MeantAgrees
  <2> HIDE DEF values, held, tag
  <2> QED BY <2>1, <2>2
<1> QED BY <1>2, <1>3, <1>4
(* Any of the three: what it is defined for, how high that is, and what it   *)
(* asks itself about.                                                        *)
Body(b, f, v) ==
    IF b = "meaning" THEN MeaningBody(f, v)
    ELSE IF b = "written" THEN WrittenBody(f, v) ELSE KnownBody(f, v)
Carrier(b) == IF b = "meaning" THEN Questions ELSE AllValues
Rank(b, v) == IF b = "meaning" THEN Depth[v.json] ELSE Height[v]
Below(b, v) == IF b = "meaning" THEN Asked(v) ELSE Parts(v)

LEMMA Ranked ==
    ASSUME NEW b, NEW v \in Carrier(b)
    PROVE  /\ Rank(b, v) \in Nat
           /\ \A w \in Below(b, v) : w \in Carrier(b) /\ Rank(b, w) < Rank(b, v)
<1>1. CASE b = "meaning"
  <2>1. v \in Questions /\ v.json \in Json
    BY <1>1, QuestionIs DEF Carrier
  <2>2. Depth[v.json] \in Nat
    BY <2>1, JsonIs
  <2>3. \A w \in Asked(v) : w \in Questions /\ Depth[w.json] < Depth[v.json]
    BY <2>1, InnerLower
  <2> QED BY <1>1, <2>2, <2>3 DEF Carrier, Rank, Below
<1>2. CASE b # "meaning"
  <2>1. v \in AllValues
    BY <1>2 DEF Carrier
  <2>2. Height[v] \in Nat
    BY <2>1, ValuesAssumption
  <2>3. \A w \in Parts(v) : w \in AllValues /\ Height[w] < Height[v]
    BY <2>1, PartsLower
  <2> QED BY <1>2, <2>2, <2>3 DEF Carrier, Rank, Below
<1> QED BY <1>1, <1>2

(* A function that is right about all that is below a rank.                 *)
Right(b, f, n) == \A v \in Carrier(b) : Rank(b, v) < n => f[v] = Body(b, f, v)

LEMMA BodyAgrees ==
    ASSUME NEW b, NEW v \in Carrier(b), NEW f, NEW g, \A w \in Below(b, v) : f[w] = g[w]
    PROVE  Body(b, f, v) = Body(b, g, v)
<1>1. CASE b = "meaning"
  <2>1. v \in Questions /\ \A w \in Asked(v) : f[w] = g[w]
    BY <1>1 DEF Carrier, Below
  <2> QED BY <1>1, <2>1, MeaningsAgree DEF Body
<1>2. CASE b # "meaning"
  <2>1. v \in AllValues /\ \A w \in Parts(v) : f[w] = g[w]
    BY <1>2 DEF Carrier, Below
  <2> QED BY <1>2, <2>1, BodiesAgree DEF Body
<1> QED BY <1>1, <1>2

LEMMA RightExists ==
    ASSUME NEW b, NEW n \in Nat
    PROVE  \E f : Right(b, f, n)
<1> DEFINE Bad == {k \in Nat : ~ \E f : Right(b, f, k)}
<1> SUFFICES Bad = {}
  OBVIOUS
<1>1. SUFFICES ASSUME Bad # {} PROVE FALSE
  OBVIOUS
<1>2. PICK k \in Bad : \A j \in Bad : k <= j
  <2>1. Bad \in SUBSET Nat
    OBVIOUS
  <2> HIDE DEF Bad
  <2> QED BY <1>1, <2>1, Lowest
<1>3. \A v \in Carrier(b) : Rank(b, v) \in Nat
  BY Ranked
<1>4. k # 0
  <2>1. Right(b, <<>>, 0)
    BY <1>3 DEF Right
  <2> QED BY <2>1
<1>5. k - 1 \in Nat /\ k - 1 \notin Bad /\ k \in Nat
  <2>1. k \in Nat
    OBVIOUS
  <2>2. k - 1 \in Nat /\ ~(k <= k - 1)
    BY <1>4, <2>1
  <2> HIDE DEF Bad
  <2> QED BY <1>2, <2>1, <2>2
<1>6. PICK f : Right(b, f, k - 1)
  BY <1>5
<1> DEFINE g == [v \in Carrier(b) |-> IF Rank(b, v) < k THEN Body(b, f, v) ELSE f[v]]
<1>7. \A v \in Carrier(b) : Rank(b, v) < k - 1 => g[v] = f[v]
  <2> SUFFICES ASSUME NEW v \in Carrier(b), Rank(b, v) < k - 1 PROVE g[v] = f[v]
    OBVIOUS
  <2>1. Rank(b, v) < k
    BY <1>3, <1>5
  <2>2. f[v] = Body(b, f, v)
    BY <1>6 DEF Right
  <2> QED BY <2>1, <2>2
<1>8. \A v \in Carrier(b) : Rank(b, v) < k => g[v] = Body(b, f, v)
  OBVIOUS
<1> HIDE DEF g
<1>9. ASSUME NEW v \in Carrier(b), Rank(b, v) < k
      PROVE  Body(b, f, v) = Body(b, g, v)
  <2>1. \A w \in Below(b, v) : w \in Carrier(b) /\ Rank(b, w) < k - 1
    BY <1>5, <1>9, Ranked
  <2>2. \A w \in Below(b, v) : f[w] = g[w]
    BY <1>7, <2>1
  <2> QED BY <2>2, BodyAgrees
<1>10. Right(b, g, k)
  BY <1>8, <1>9 DEF Right
<1> QED BY <1>10

LEMMA RightAgree ==
    ASSUME NEW b, NEW n, NEW f, NEW g, n \in Nat, Right(b, f, n), Right(b, g, n)
    PROVE  \A v \in Carrier(b) : Rank(b, v) < n => f[v] = g[v]
<1> DEFINE Bad == {k \in Nat : \E v \in Carrier(b) : k = Rank(b, v) /\ k < n /\ f[v] # g[v]}
<1>1. \A v \in Carrier(b) : Rank(b, v) \in Nat
  BY Ranked
<1>2. SUFFICES ASSUME Bad # {} PROVE FALSE
  <2>1. \A v \in Carrier(b) : Rank(b, v) < n /\ f[v] # g[v] => Rank(b, v) \in Bad
    BY <1>1
  <2> HIDE DEF Bad
  <2> QED BY <2>1
<1>3. PICK k \in Bad : \A j \in Bad : k <= j
  <2>1. Bad \in SUBSET Nat
    OBVIOUS
  <2> HIDE DEF Bad
  <2> QED BY <1>2, <2>1, Lowest
<1>4. PICK v \in Carrier(b) : k = Rank(b, v) /\ k < n /\ f[v] # g[v]
  OBVIOUS
<1>5. \A w \in Below(b, v) : f[w] = g[w]
  <2> SUFFICES ASSUME NEW w \in Below(b, v), f[w] # g[w] PROVE FALSE
    OBVIOUS
  <2>1. w \in Carrier(b) /\ Rank(b, w) < k /\ Rank(b, w) \in Nat /\ k \in Nat
    BY <1>4, Ranked
  <2>2. Rank(b, w) < n
    BY <1>4, <2>1
  <2>3. Rank(b, w) \in Bad
    BY <2>1, <2>2
  <2>4. k <= Rank(b, w)
    <3> HIDE DEF Bad
    <3> QED BY <1>3, <2>3
  <2> QED BY <2>1, <2>4
<1>6. f[v] = Body(b, f, v) /\ g[v] = Body(b, g, v)
  BY <1>4 DEF Right
<1> QED BY <1>4, <1>5, <1>6, BodyAgrees

LEMMA Solution ==
    ASSUME NEW b
    PROVE  \E h : h = [v \in Carrier(b) |-> Body(b, h, v)]
<1> DEFINE F(n) == CHOOSE f : Right(b, f, n)
           h == [v \in Carrier(b) |-> F(Rank(b, v) + 1)[v]]
<1>1. \A v \in Carrier(b) : Rank(b, v) \in Nat /\ Rank(b, v) + 1 \in Nat
  BY Ranked
<1>2. \A n \in Nat : Right(b, F(n), n)
  <2> TAKE n \in Nat
  <2>1. \E f : Right(b, f, n)
    BY RightExists
  <2> QED BY <2>1
<1>3. \A v \in Carrier(b) : h[v] = F(Rank(b, v) + 1)[v]
  OBVIOUS
<1>4. h = [v \in Carrier(b) |-> h[v]]
  OBVIOUS
<1> HIDE DEF F, h
<1>5. ASSUME NEW v \in Carrier(b) PROVE h[v] = Body(b, h, v)
  <2> DEFINE n == Rank(b, v) + 1
             f == F(n)
  <2>1. n \in Nat /\ Rank(b, v) < n /\ Right(b, f, n)
    BY <1>1, <1>2
  <2>2. h[v] = Body(b, f, v)
    BY <1>3, <2>1 DEF Right
  <2>3. ASSUME NEW w \in Below(b, v) PROVE f[w] = h[w]
    <3> DEFINE k == Rank(b, w) + 1
               g == F(k)
    <3>1. w \in Carrier(b) /\ Rank(b, w) < Rank(b, v) /\ Rank(b, w) \in Nat /\ Rank(b, v) \in Nat
      BY <2>3, Ranked
    <3>2. k \in Nat /\ Rank(b, w) < k /\ \A x \in Carrier(b) : Rank(b, x) < k => Rank(b, x) < n
      BY <1>1, <3>1
    <3>3. Right(b, g, k)
      BY <1>2, <3>2
    <3>4. Right(b, f, k)
      <4> HIDE DEF f, k, n
      <4> QED BY <2>1, <3>2 DEF Right
    <3>5. h[w] = g[w]
      BY <1>3, <3>1
    <3> HIDE DEF f, g, k, n
    <3> QED BY <3>1, <3>2, <3>3, <3>4, <3>5, RightAgree
  <2> HIDE DEF f, n
  <2> QED BY <2>2, <2>3, BodyAgrees
<1>6. h = [v \in Carrier(b) |-> Body(b, h, v)]
  BY <1>4, <1>5
<1> QED BY <1>6

LEMMA WrittenIs ==
    ASSUME NEW v \in AllValues
    PROVE  Written[v] = WrittenBody(Written, v)
<1>1. \E h : h = [x \in AllValues |-> WrittenBody(h, x)]
  <2>1. PICK h : h = [x \in Carrier("written") |-> Body("written", h, x)]
    BY Solution
  <2>2. h = [x \in AllValues |-> WrittenBody(h, x)]
    BY <2>1 DEF Body, Carrier
  <2> QED BY <2>2
<1>2. Written = [x \in AllValues |-> WrittenBody(Written, x)]
  BY <1>1 DEF Written, WrittenBody
<1> QED BY <1>2

LEMMA KnownIs ==
    ASSUME NEW v \in AllValues
    PROVE  Known[v] = KnownBody(Known, v)
<1>1. \E h : h = [x \in AllValues |-> KnownBody(h, x)]
  <2>1. PICK h : h = [x \in Carrier("known") |-> Body("known", h, x)]
    BY Solution
  <2>2. h = [x \in AllValues |-> KnownBody(h, x)]
    <3>1. Carrier("known") = AllValues /\ \A x : Body("known", h, x) = KnownBody(h, x)
      BY DEF Body, Carrier
    <3> QED BY <2>1, <3>1
  <2> QED BY <2>2
<1>2. Known = [x \in AllValues |-> KnownBody(Known, x)]
  BY <1>1 DEF Known, KnownBody
<1> QED BY <1>2

LEMMA MeaningIs ==
    ASSUME NEW q \in Questions
    PROVE  Meaning[q] = MeaningBody(Meaning, q)
<1>1. \E h : h = [x \in Questions |-> MeaningBody(h, x)]
  <2>1. PICK h : h = [x \in Carrier("meaning") |-> Body("meaning", h, x)]
    BY Solution
  <2>2. Carrier("meaning") = Questions /\ \A x : Body("meaning", h, x) = MeaningBody(h, x)
    BY DEF Body, Carrier
  <2>3. h = [x \in Questions |-> MeaningBody(h, x)]
    BY <2>1, <2>2
  <2> QED BY <2>3
<1>2. Meaning = [x \in Questions |-> MeaningBody(Meaning, x)]
  BY <1>1 DEF Meaning, MeaningBody
<1> QED BY <1>2
-----------------------------------------------------------------------------
(* Reading what was written                                                  *)

(* The entries an object is written as, and those a union is.                *)
Item(v, name) == Entry(name, Written[v.fields[name]])
IsPresent(v, name) == name \in Names(v.type) /\ v.fields[name] # Default
Items(v) == {Item(v, name) : name \in {n \in Names(v.type) : IsPresent(v, n)}}
TagOf(v) == Entry("type", Text(v.variant))
ItemOf(v) == Entry(v.variant, Written[v.value])

(* They may come in any order.                                               *)
ItemsLeft(rest, v, read) ==
    /\ rest \in Seq(Items(v))
    /\ \A name : IsPresent(v, name) =>
                    name \in read \/ \E i \in DOMAIN rest : rest[i] = Item(v, name)

Arranged(entries, v) ==
    IF Types[v.type].kind = "object" THEN ItemsLeft(entries, v, {})
    ELSE entries \in {<<TagOf(v), ItemOf(v)>>, <<ItemOf(v), TagOf(v)>>}

(* A value that the deserializer does not refuse.                            *)
Fine(e, v) == e => Known[v]

ObjectAt(e, frame, v) ==
    /\ ItemsLeft(frame.rest, v, DOMAIN frame.fields)
    /\ \A name \in DOMAIN frame.fields :
          /\ IsPresent(v, name) /\ Fine(e, v.fields[name])
          /\ frame.fields[name] = v.fields[name]
    /\ frame.at \in {"key", "value"}
    /\ frame.at = "value" => frame.rest # <<>> /\ frame.key = Head(frame.rest).key

(* A visitor of a union that has read the name, and also the value.          *)
Named(e, frame, v) == frame.key = v.variant /\ Accepts(e, v.type, v.variant)
Valued(e, frame, v) == Named(e, frame, v) /\ frame.value = v.value /\ Fine(e, v.value)

UnionAt(e, frame, v) ==
    \/ /\ frame.at = "first" /\ ~frame.tagged /\ Arranged(frame.rest, v)
    \/ /\ frame.at = "tag" /\ ~frame.tagged /\ frame.rest = <<TagOf(v), ItemOf(v)>>
    \/ /\ frame.at \in {"second", "value"} /\ frame.tagged /\ frame.rest = <<ItemOf(v)>>
       /\ Named(e, frame, v)
    \/ /\ frame.at = "value" /\ ~frame.tagged /\ frame.rest = <<ItemOf(v), TagOf(v)>>
       /\ Named(e, frame, v)
    \/ /\ frame.at \in {"type", "check"} /\ ~frame.tagged /\ frame.rest = <<TagOf(v)>>
       /\ Valued(e, frame, v)
    \/ /\ frame.at = "end" /\ frame.rest = <<>>
       /\ Valued(e, frame, v)

Fits(e, frame, v) ==
    /\ v.type \in DOMAIN Values /\ v \in Values[v.type] /\ frame.type = v.type
    /\ IF Types[v.type].kind = "object" THEN ObjectAt(e, frame, v) ELSE UnionAt(e, frame, v)

(* The value that the entry at hand is of.                                   *)
Inner(frame, v) == IF Types[v.type].kind = "object" THEN v.fields[frame.key] ELSE v.value

(* The values w that the visitors s read, inside the value that was written. *)
Inside(e, s, w, v) ==
    /\ w[1] = v
    /\ \A d \in 1 .. Len(s) : Fits(e, s[d], w[d]) /\ (Known[v] => Known[w[d]])
    /\ \A d \in 1 .. Len(s) - 1 : w[d + 1] = Inner(s[d], w[d])

(* What becomes of it in the end.                                            *)
Expected(e, v) == IF e /\ ~Known[v] THEN Refused ELSE Ok(v)

OriginOK ==
    /\ origin \in Values[root] /\ root \in DOMAIN Values
    /\ doc = Map(doc.entries) /\ Arranged(doc.entries, origin)

WInv ==
    origin # Default =>
        /\ OriginOK
        /\ \A m \in {"server", "client"} : outcome[m] \in {Pending, Expected(exhaustive, origin)}
        /\ outcome[mode] = Pending => \E w : Inside(exhaustive, stack, w, origin)

LEMMA LeafIs ==
    ASSUME NEW t \in Leaves
    PROVE  /\ Written[Leaf(t)] = Text(t) /\ Known[Leaf(t)] = TRUE
           /\ Text(t) # Null /\ ~IsMap(Text(t))
<1>1. Leaf(t) \in AllValues
  BY AllAre
<1>2. \A f : WrittenBody(f, Leaf(t)) = Text(t) /\ KnownBody(f, Leaf(t)) = TRUE
  <2>1. DOMAIN Leaf(t) = {"leaf"} /\ Leaf(t).leaf = t
    BY Shapes
  <2> QED BY <2>1 DEF WrittenBody, KnownBody
<1>3. Text(t) # Null
  <2>1. Text(t).text = t /\ Null.text = "null"
    BY DocShapes
  <2> QED BY <2>1, ValuesAssumption
<1> QED BY <1>1, <1>2, <1>3, WrittenIs, KnownIs, DocShapes

LEMMA AnyIs ==
    ASSUME NEW json, AnyValue(json) \in AnyValues
    PROVE  Written[AnyValue(json)] = json /\ Known[AnyValue(json)] = TRUE
<1>1. AnyValue(json) \in AllValues
  BY AllAre
<1>2. \A f : WrittenBody(f, AnyValue(json)) = json /\ KnownBody(f, AnyValue(json)) = TRUE
  <2>1. DOMAIN AnyValue(json) = {"any"} /\ AnyValue(json).any = json
    BY Shapes
  <2> QED BY <2>1 DEF WrittenBody, KnownBody
<1> QED BY <1>1, <1>2, WrittenIs, KnownIs

LEMMA UnionIs ==
    ASSUME NEW T, NEW v, UnionOf(T, v)
    PROVE  /\ Written[v] = Map(<<TagOf(v), ItemOf(v)>>)
           /\ Known[v] = (v.variant \in Names(T) /\ Known[v.value])
<1>1. DOMAIN v = {"type", "variant", "value"} /\ v.type = T /\ v \in AllValues
  BY ValueOfType DEF UnionOf
<1>2. WrittenBody(Written, v) = Map(<<TagOf(v), ItemOf(v)>>)
  BY <1>1 DEF WrittenBody, TagOf, ItemOf
<1>3. KnownBody(Known, v) = (v.variant \in Names(T) /\ Known[v.value])
  BY <1>1 DEF KnownBody
<1> QED BY <1>1, <1>2, <1>3, WrittenIs, KnownIs

LEMMA ObjectIs ==
    ASSUME NEW T, NEW v, ObjectOf(T, v)
    PROVE  /\ \E es : Written[v] = Map(es) /\ es \in Seq(Items(v)) /\ ItemsLeft(es, v, {})
           /\ Known[v] = \A n \in Names(T) : v.fields[n] = Default \/ Known[v.fields[n]]
<1>1. DOMAIN v = {"type", "fields"} /\ v.type = T /\ v \in AllValues /\ DOMAIN v.fields = Names(T)
  BY ValueOfType, PartsOfObject DEF ObjectOf
<1>2. KnownBody(Known, v) = \A n \in Names(T) : v.fields[n] = Default \/ Known[v.fields[n]]
  BY <1>1 DEF KnownBody
<1> DEFINE card == Cardinality(Present(v))
           name(n) == Types[T].members[Nth(Present(v), n)].name
           es == [n \in 1 .. card |-> Item(v, name(n))]
<1>3. WrittenBody(Written, v) = Map(es)
  BY <1>1 DEF WrittenBody, Item
<1>4. /\ card \in Nat
      /\ \A n \in 1 .. card : name(n) \in Names(T) /\ v.fields[name(n)] # Default
      /\ \A x \in Names(T) : v.fields[x] # Default => \E n \in 1 .. card : name(n) = x
  BY PresentFields
<1>5. es \in Seq(Items(v)) /\ DOMAIN es = 1 .. card /\ \A n \in 1 .. card : es[n] = Item(v, name(n))
  <2> HIDE DEF card, name
  <2>1. \A n \in 1 .. card : Item(v, name(n)) \in Items(v)
    BY <1>1, <1>4 DEF Items, IsPresent
  <2> QED BY <1>4, <2>1
<1> HIDE DEF card, name, es
<1>6. ItemsLeft(es, v, {})
  <2>1. ASSUME NEW x, IsPresent(v, x) PROVE \E i \in DOMAIN es : es[i] = Item(v, x)
    <3>1. PICK n \in 1 .. card : name(n) = x
      BY <1>1, <1>4, <2>1 DEF IsPresent
    <3> QED BY <1>5, <3>1
  <2> QED BY <1>5, <2>1 DEF ItemsLeft
<1> QED BY <1>1, <1>2, <1>3, <1>5, <1>6, WrittenIs, KnownIs

(* A value of a named type is written as a map, in one of its orders.        *)
LEMMA WrittenArranged ==
    ASSUME NEW T \in DOMAIN Values, NEW v \in Values[T]
    PROVE  /\ Written[v] = Map(Written[v].entries) /\ Written[v] # Null /\ IsMap(Written[v])
           /\ Arranged(Written[v].entries, v)
<1>1. \E es : Written[v] = Map(es) /\ Arranged(es, v)
  <2>1. CASE Types[T].kind = "object"
    <3>1. ObjectOf(T, v) /\ v.type = T
      BY <2>1, ValueOfType
    <3> QED BY <2>1, <3>1, ObjectIs DEF Arranged
  <2>2. CASE Types[T].kind # "object"
    <3>1. UnionOf(T, v) /\ v.type = T
      BY <2>2, ValueOfType
    <3> QED BY <2>2, <3>1, UnionIs DEF Arranged
  <2> QED BY <2>1, <2>2
<1>2. PICK es : Written[v] = Map(es) /\ Arranged(es, v)
  BY <1>1
<1>3. Map(es).entries = es /\ IsMap(Map(es)) /\ ~IsMap(Null)
  BY DocShapes
<1> QED BY <1>2, <1>3

LEMMA PermutedArranged ==
    ASSUME NEW T \in DOMAIN Values, NEW v \in Values[T], NEW es, Arranged(es, v),
           NEW order \in Bijection(DOMAIN es, DOMAIN es)
    PROVE  Arranged([n \in DOMAIN es |-> es[order[n]]], v)
<1> DEFINE r == [n \in DOMAIN es |-> es[order[n]]]
<1>1. /\ order \in [DOMAIN es -> DOMAIN es]
      /\ \A i \in DOMAIN es : \E n \in DOMAIN es : order[n] = i
      /\ \A i, j \in DOMAIN es : order[i] = order[j] => i = j
  BY DEF Bijection, Injection, IsInjective, Surjection
<1>2. DOMAIN r = DOMAIN es /\ \A n \in DOMAIN es : r[n] = es[order[n]]
  OBVIOUS
<1>3. CASE Types[v.type].kind = "object"
  <2>1. es \in Seq(Items(v)) /\ ItemsLeft(es, v, {})
    BY <1>3 DEF Arranged, ItemsLeft
  <2>2. DOMAIN es = 1 .. Len(es) /\ Len(es) \in Nat
    BY <2>1
  <2>3. r \in Seq(Items(v))
    <3>1. \A n \in 1 .. Len(es) : es[order[n]] \in Items(v)
      BY <1>1, <2>1, <2>2
    <3> QED BY <2>2, <3>1
  <2> HIDE DEF r
  <2>4. ASSUME NEW name, IsPresent(v, name) PROVE \E n \in DOMAIN r : r[n] = Item(v, name)
    <3>1. PICK i \in DOMAIN es : es[i] = Item(v, name)
      BY <2>1, <2>4 DEF ItemsLeft
    <3> QED BY <1>1, <1>2, <3>1
  <2> QED BY <1>3, <2>3, <2>4 DEF Arranged, ItemsLeft, r
<1>4. CASE Types[v.type].kind # "object"
  <2>1. PICK a, b : es = <<a, b>> /\ {a, b} = {TagOf(v), ItemOf(v)}
                       /\ <<a, b>> \in {<<TagOf(v), ItemOf(v)>>, <<ItemOf(v), TagOf(v)>>}
    BY <1>4 DEF Arranged
  <2>2. DOMAIN es = {1, 2} /\ es[1] = a /\ es[2] = b
    BY <2>1
  <2>3. r = [n \in {1, 2} |-> r[n]] /\ DOMAIN r = 1 .. 2
    BY <1>2, <2>2
  <2>4. \/ r[1] = a /\ r[2] = b
        \/ r[1] = b /\ r[2] = a
    <3>1. 1 \in DOMAIN es /\ 2 \in DOMAIN es /\ \A i \in DOMAIN es : i = 1 \/ i = 2
      BY <2>2
    <3>2. /\ order[1] = 1 \/ order[1] = 2
          /\ order[2] = 1 \/ order[2] = 2
          /\ order[1] # order[2]
      BY <1>1, <3>1
    <3>3. r[1] = es[order[1]] /\ r[2] = es[order[2]]
      BY <1>2, <3>1
    <3> HIDE DEF r
    <3> QED BY <2>2, <3>2, <3>3
  <2> HIDE DEF r
  <2>5. r = <<a, b>> \/ r = <<b, a>>
    BY <2>3, <2>4
  <2>6. r \in {<<TagOf(v), ItemOf(v)>>, <<ItemOf(v), TagOf(v)>>}
    BY <2>1, <2>5
  <2> QED BY <1>4, <2>6 DEF Arranged, r
<1> QED BY <1>3, <1>4

LEMMA VisitorFits ==
    ASSUME NEW e, NEW T \in DOMAIN Values, NEW v \in Values[T], NEW es, Arranged(es, v)
    PROVE  Fits(e, Visitor(T, Map(es)), v)
<1> DEFINE f == Visitor(T, Map(es))
<1>1. T \in DOMAIN Types /\ v.type = T
  BY ValueOfType
<1>2. /\ f.type = T /\ f.rest = es /\ f.fields = <<>> /\ f.tagged = FALSE
      /\ f.at = IF Types[T].kind = "object" THEN "key" ELSE "first"
  BY DocShapes DEF Visitor
<1>3. DOMAIN <<>> = {}
  OBVIOUS
<1> HIDE DEF f
<1>4. CASE Types[T].kind = "object"
  BY <1>1, <1>2, <1>3, <1>4 DEF Fits, ObjectAt, Arranged, f
<1>5. CASE Types[T].kind # "object"
  BY <1>1, <1>2, <1>5 DEF Fits, UnionAt, f
<1> QED BY <1>4, <1>5

(* The entry that an object is at is that of a field of the value.           *)
LEMMA AtField ==
    ASSUME NEW e, NEW f, NEW v, ObjectAt(e, f, v), f.rest # <<>>
    PROVE  /\ f.rest \in Seq(Items(v)) /\ Len(f.rest) \in Nat /\ Len(f.rest) # 0
           /\ Head(f.rest) = f.rest[1]
           /\ IsPresent(v, Head(f.rest).key)
           /\ Head(f.rest) = Item(v, Head(f.rest).key)
           /\ Head(f.rest).value = Written[v.fields[Head(f.rest).key]]
           /\ Tail(f.rest) \in Seq(Items(v)) /\ DOMAIN Tail(f.rest) = 1 .. Len(f.rest) - 1
           /\ \A i \in 1 .. Len(f.rest) - 1 : Tail(f.rest)[i] = f.rest[i + 1]
<1> DEFINE r == f.rest
<1>1. r \in Seq(Items(v)) /\ r # <<>>
  BY DEF ObjectAt, ItemsLeft
<1> HIDE DEF r
<1>2. /\ Len(r) \in Nat /\ Len(r) # 0 /\ Head(r) = r[1] /\ r[1] \in Items(v)
      /\ Tail(r) \in Seq(Items(v)) /\ DOMAIN Tail(r) = 1 .. Len(r) - 1
      /\ \A i \in 1 .. Len(r) - 1 : Tail(r)[i] = r[i + 1]
  BY <1>1
<1>3. PICK n : IsPresent(v, n) /\ Head(r) = Item(v, n)
  BY <1>2 DEF Items
<1>4. Item(v, n).key = n /\ Item(v, n).value = Written[v.fields[n]]
  BY DocShapes DEF Item
<1> QED BY <1>1, <1>2, <1>3, <1>4 DEF r

(* A visitor has taken the value of the entry it is at.                      *)
LEMMA TookFits ==
    ASSUME NEW e, NEW f, NEW v, FrameOK(f), Fits(e, f, v), f.at = "value", Fine(e, Inner(f, v))
    PROVE  Fits(e, Took(f, Inner(f, v)), v)
<1> DEFINE x == Inner(f, v)
<1>1. /\ DOMAIN f = Slots /\ f.type = v.type
      /\ v.type \in DOMAIN Values /\ v \in Values[v.type]
  BY DEF FrameOK, Fits
<1>2. CASE Types[v.type].kind = "object"
  <2> DEFINE fields == [n \in DOMAIN f.fields \cup {f.key} |-> IF n = f.key THEN x ELSE f.fields[n]]
             g == [f EXCEPT !.rest = Tail(f.rest), !.at = "key", !.fields = fields]
  <2>1. Took(f, x) = g
    BY <1>1, <1>2 DEF Took
  <2>2. ObjectAt(e, f, v)
    BY <1>2 DEF Fits
  <2>3. f.rest # <<>> /\ f.key = Head(f.rest).key
    BY <2>2 DEF ObjectAt
  <2>4. x = v.fields[f.key] /\ Fine(e, v.fields[f.key]) /\ IsPresent(v, f.key)
    BY <1>2, <2>2, <2>3, AtField DEF Inner
  <2>5. g.type = f.type /\ g.rest = Tail(f.rest) /\ g.at = "key" /\ g.fields = fields
    <3> HIDE DEF fields, x
    <3> QED BY <1>1 DEF Slots
  <2>6. DOMAIN fields = DOMAIN f.fields \cup {f.key}
    OBVIOUS
  <2>7. \A n \in DOMAIN fields : /\ IsPresent(v, n) /\ Fine(e, v.fields[n])
                                 /\ fields[n] = v.fields[n]
    <3>1. \A n \in DOMAIN f.fields : /\ IsPresent(v, n) /\ Fine(e, v.fields[n])
                                     /\ f.fields[n] = v.fields[n]
      BY <2>2 DEF ObjectAt
    <3> HIDE DEF x
    <3> QED BY <2>4, <3>1
  <2> HIDE DEF fields, g, x
  <2>8. ItemsLeft(Tail(f.rest), v, DOMAIN fields)
    <3>1. ASSUME NEW name, IsPresent(v, name), name \notin DOMAIN fields
          PROVE  \E i \in DOMAIN Tail(f.rest) : Tail(f.rest)[i] = Item(v, name)
      <4>1. PICK i \in DOMAIN f.rest : f.rest[i] = Item(v, name)
        BY <2>2, <2>6, <3>1 DEF ObjectAt, ItemsLeft
      <4>2. Item(v, name).key = name
        BY DocShapes DEF Item
      <4>3. i # 1
        BY <2>2, <2>3, <2>6, <3>1, <4>1, <4>2, AtField
      <4>4. i \in 1 .. Len(f.rest) /\ Len(f.rest) \in Nat
        BY <2>2, <2>3, AtField
      <4>5. i - 1 \in 1 .. Len(f.rest) - 1 /\ (i - 1) + 1 = i
        BY <4>3, <4>4
      <4>6. Tail(f.rest)[i - 1] = f.rest[i] /\ i - 1 \in DOMAIN Tail(f.rest)
        BY <2>2, <2>3, <4>5, AtField
      <4> QED BY <4>1, <4>6
    <3>2. Tail(f.rest) \in Seq(Items(v))
      BY <2>2, <2>3, AtField
    <3> QED BY <3>1, <3>2 DEF ItemsLeft
  <2>9. ObjectAt(e, g, v)
    BY <2>5, <2>7, <2>8 DEF ObjectAt
  <2> QED BY <1>1, <1>2, <2>1, <2>5, <2>9 DEF Fits, x
<1>3. CASE Types[v.type].kind # "object"
  <2> DEFINE at == IF f.tagged THEN "end" ELSE "type"
             g == [f EXCEPT !.rest = Tail(f.rest), !.value = x, !.at = at]
  <2>1. Took(f, x) = g
    BY <1>1, <1>3 DEF Took
  <2>2. x = v.value /\ Fine(e, v.value)
    BY <1>3 DEF Inner
  <2>3. UnionAt(e, f, v)
    BY <1>3 DEF Fits
  <2> HIDE DEF x
  <2>4. /\ g.type = f.type /\ g.rest = Tail(f.rest) /\ g.value = x /\ g.at = at
        /\ g.key = f.key /\ g.tagged = f.tagged
    <3> HIDE DEF at
    <3> QED BY <1>1 DEF Slots
  <2>5. /\ Named(e, f, v)
        /\ \/ f.tagged /\ f.rest = <<ItemOf(v)>>
           \/ ~f.tagged /\ f.rest = <<ItemOf(v), TagOf(v)>>
    BY <2>3 DEF UnionAt
  <2> HIDE DEF g
  <2>6. Valued(e, g, v)
    BY <2>2, <2>4, <2>5 DEF Valued, Named
  <2>7. \/ g.at = "end" /\ g.rest = <<>>
        \/ g.at = "type" /\ ~g.tagged /\ g.rest = <<TagOf(v)>>
    <3>1. \A a, b : Tail(<<a>>) = <<>> /\ Tail(<<a, b>>) = <<b>>
      OBVIOUS
    <3>2. CASE f.tagged
      <4>1. f.rest = <<ItemOf(v)>> /\ at = "end"
        BY <2>5, <3>2
      <4> HIDE DEF at
      <4> QED BY <2>4, <3>1, <4>1
    <3>3. CASE ~f.tagged
      <4>1. f.rest = <<ItemOf(v), TagOf(v)>> /\ at = "type"
        BY <2>5, <3>3
      <4> HIDE DEF at
      <4>2. Tail(f.rest) = <<TagOf(v)>>
        BY <3>1, <4>1
      <4> QED BY <2>4, <3>3, <4>1, <4>2
    <3> QED BY <3>2, <3>3
  <2> HIDE DEF at
  <2>8. UnionAt(e, g, v)
    BY <2>6, <2>7 DEF UnionAt
  <2> QED BY <1>1, <1>3, <2>1, <2>4, <2>8 DEF Fits, x
<1> QED BY <1>2, <1>3

-----------------------------------------------------------------------------
(* The steps of reading what was written                                     *)

Goes(e, r, v) ==
    \/ r.out = Pending /\ \E w : Inside(e, r.stack, w, v)
    \/ r.out = Expected(e, v)

LEMMA AnswerIs ==
    ASSUME NEW s, NEW out
    PROVE  Answer(s, out).stack = s /\ Answer(s, out).out = out
BY DEF Answer

LEMMA InsideTop ==
    ASSUME NEW e, NEW s, NEW w, NEW v, StackOK(s), Inside(e, s, w, v)
    PROVE  /\ IsSeq(s) /\ Len(s) \in Nat /\ Len(s) # 0 /\ Len(s) \in 1 .. Len(s)
           /\ FrameOK(s[Len(s)]) /\ Fits(e, s[Len(s)], w[Len(s)])
           /\ Known[v] => Known[w[Len(s)]]
<1>1. IsSeq(s) /\ Len(s) \in Nat /\ Len(s) # 0
  BY DEF StackOK, IsSeq
<1>2. Len(s) \in 1 .. Len(s)
  BY <1>1
<1> QED BY <1>1, <1>2 DEF StackOK, Inside

LEMMA PutGoes ==
    ASSUME NEW e, NEW s, NEW w, NEW v, StackOK(s), Inside(e, s, w, v),
           NEW f, Fits(e, f, w[Len(s)])
    PROVE  Goes(e, Put(s, f), v)
<1> DEFINE r == [s EXCEPT ![Len(s)] = f]
<1>1. IsSeq(s) /\ Len(s) \in Nat /\ Len(s) \in 1 .. Len(s)
  BY InsideTop
<1>2. Len(r) = Len(s) /\ r[Len(s)] = f /\ \A d \in 1 .. Len(s) : d # Len(s) => r[d] = s[d]
  BY <1>1, Replaced
<1> HIDE DEF r
<1>3. Inside(e, r, w, v)
  <2>1. \A d \in 1 .. Len(r) : Fits(e, r[d], w[d]) /\ (Known[v] => Known[w[d]])
    BY <1>2 DEF Inside
  <2>2. \A d \in 1 .. Len(r) - 1 : w[d + 1] = Inner(r[d], w[d])
    <3>1. \A d \in 1 .. Len(s) - 1 : d \in 1 .. Len(s) /\ d # Len(s)
      BY <1>1
    <3> QED BY <1>2, <3>1 DEF Inside
  <2> QED BY <2>1, <2>2 DEF Inside
<1>4. Put(s, f) = Answer(r, Pending)
  BY DEF Put, r
<1> QED BY <1>3, <1>4, AnswerIs DEF Goes

LEMMA PushGoes ==
    ASSUME NEW e, NEW s, NEW w, NEW v, StackOK(s), Inside(e, s, w, v),
           NEW f, NEW x, x = Inner(s[Len(s)], w[Len(s)]), Fits(e, f, x),
           Known[w[Len(s)]] => Known[x]
    PROVE  Goes(e, Answer(Append(s, f), Pending), v)
<1> DEFINE r == Append(s, f)
<1>1. IsSeq(s) /\ Len(s) \in Nat /\ Len(s) # 0 /\ Len(s) \in 1 .. Len(s) /\ (Known[v] => Known[w[Len(s)]])
  BY InsideTop
<1>2. Len(r) = Len(s) + 1 /\ r[Len(s) + 1] = f /\ \A d \in 1 .. Len(s) : r[d] = s[d]
  BY <1>1, Pushed
<1> HIDE DEF r
<1>3. PICK u : u = [d \in 1 .. Len(s) + 1 |-> IF d = Len(s) + 1 THEN x ELSE w[d]]
  OBVIOUS
<1>4. u[Len(s) + 1] = x /\ \A d \in 1 .. Len(s) : u[d] = w[d]
  BY <1>1, <1>3
<1>5. Inside(e, r, u, v)
  <2>1. u[1] = v
    <3>1. 1 \in 1 .. Len(s)
      BY <1>1
    <3> QED BY <1>4, <3>1 DEF Inside
  <2>2. ASSUME NEW d \in 1 .. Len(s) + 1
        PROVE  Fits(e, r[d], u[d]) /\ (Known[v] => Known[u[d]])
    <3>1. CASE d = Len(s) + 1
      BY <1>1, <1>2, <1>4, <3>1
    <3>2. CASE d # Len(s) + 1
      <4>1. d \in 1 .. Len(s)
        BY <1>1, <3>2
      <4> QED BY <1>2, <1>4, <4>1 DEF Inside
    <3> QED BY <3>1, <3>2
  <2>3. ASSUME NEW d \in 1 .. Len(s)
        PROVE  u[d + 1] = Inner(r[d], u[d])
    <3>1. CASE d = Len(s)
      BY <1>2, <1>4, <3>1
    <3>2. CASE d # Len(s)
      <4>1. d \in 1 .. Len(s) - 1 /\ d + 1 \in 1 .. Len(s)
        BY <1>1, <3>2
      <4> QED BY <1>2, <1>4, <4>1 DEF Inside
    <3> QED BY <3>1, <3>2
  <2>4. Len(r) = Len(s) + 1 /\ Len(r) - 1 = Len(s)
    BY <1>1, <1>2
  <2> QED BY <2>1, <2>2, <2>3, <2>4 DEF Inside
<1> QED BY <1>5, AnswerIs DEF Goes, r

LEMMA HandGoes ==
    ASSUME NEW e, NEW s, NEW w, NEW v, StackOK(s), Inside(e, s, w, v), Fine(e, w[Len(s)])
    PROVE  Goes(e, Hand(s, w[Len(s)]), v)
<1> DEFINE x == w[Len(s)]
           n == Len(s) - 1
<1>1. IsSeq(s) /\ Len(s) \in Nat /\ Len(s) # 0 /\ Len(s) \in 1 .. Len(s)
  BY InsideTop
<1>2. CASE Len(s) = 1
  <2>1. x = v /\ Hand(s, x) = Answer(s, Ok(v))
    BY <1>2 DEF Inside, Hand
  <2>2. Expected(e, v) = Ok(v)
    BY <2>1 DEF Expected, Fine
  <2> QED BY <2>1, <2>2, AnswerIs DEF Goes
<1>3. CASE Len(s) # 1
  <2> DEFINE front == Front(s)
             f == Took(s[n], x)
             r == [front EXCEPT ![Len(front)] = f]
  <2>1. /\ IsSeq(front) /\ Len(front) = n /\ n \in Nat /\ n # 0
        /\ \A d \in 1 .. n : front[d] = s[d]
    BY <1>1, <1>3, Popped
  <2>2. n \in 1 .. n /\ n \in 1 .. Len(s) /\ n \in 1 .. Len(s) - 1 /\ n + 1 = Len(s)
    BY <1>1, <2>1
  <2>3. Hand(s, x) = Answer(r, Pending)
    <3>1. front[Len(front)] = s[n] /\ Len(front) = Len(s) - 1
      BY <2>1, <2>2
    <3>2. [Front(s) EXCEPT ![Len(s) - 1] = Took(@, x)] = r
      BY <2>1, <2>2, <3>1
    <3> QED BY <1>3, <3>2 DEF Hand
  <2>4. FrameOK(s[n]) /\ s[n].at = "value" /\ Fits(e, s[n], w[n]) /\ x = Inner(s[n], w[n])
    BY <2>2 DEF StackOK, Waits, Inside
  <2>5. Fits(e, f, w[n])
    BY <2>4, TookFits
  <2> HIDE DEF front, f
  <2>6. Len(r) = n /\ r[n] = f /\ \A d \in 1 .. n : d # n => r[d] = s[d]
    BY <2>1, <2>2, Replaced
  <2> HIDE DEF r
  <2>7. Inside(e, r, w, v)
    <3>1. \A d \in 1 .. n : d \in 1 .. Len(s)
      BY <1>1
    <3>2. \A d \in 1 .. n - 1 : d \in 1 .. Len(s) - 1 /\ d \in 1 .. n /\ d # n
      BY <1>1
    <3>3. \A d \in 1 .. n : Fits(e, r[d], w[d]) /\ (Known[v] => Known[w[d]])
      BY <2>5, <2>6, <3>1 DEF Inside
    <3>4. \A d \in 1 .. n - 1 : w[d + 1] = Inner(r[d], w[d])
      BY <2>6, <3>2 DEF Inside
    <3> QED BY <2>6, <3>3, <3>4 DEF Inside
  <2> QED BY <2>3, <2>7, AnswerIs DEF Goes
<1> QED BY <1>2, <1>3

LEMMA RefuseGoes ==
    ASSUME NEW e, NEW s, NEW w, NEW v, StackOK(s), Inside(e, s, w, v), e, ~Known[w[Len(s)]]
    PROVE  Goes(e, Answer(s, Refused), v)
<1>1. ~Known[v]
  BY InsideTop
<1>2. Expected(e, v) = Refused
  BY <1>1 DEF Expected
<1> QED BY <1>2, AnswerIs DEF Goes

LEMMA ValueGoes ==
    ASSUME NEW e, NEW s, NEW w, NEW v, StackOK(s), Inside(e, s, w, v), s[Len(s)].at = "value",
           NEW x, x = Inner(s[Len(s)], w[Len(s)]), Head(s[Len(s)].rest).value = Written[x],
           Known[w[Len(s)]] => Known[x],
           NEW member, member.type \in DOMAIN Types \cup {"leaf", "any"}, x \in ValuesOf(member.type)
    PROVE  Goes(e, Value(s, member), v)
<1> DEFINE top == s[Len(s)]
           y == w[Len(s)]
           json == Head(top.rest).value
<1>1. FrameOK(top) /\ Fits(e, top, y)
  BY InsideTop
<1>2. ASSUME Fine(e, x) PROVE Goes(e, Put(s, Took(top, x)), v)
  <2>1. Fits(e, Took(top, x), y)
    BY <1>1, <1>2, TookFits
  <2> QED BY <2>1, PutGoes
<1>3. CASE member.type = "any"
  <2>1. x \in AnyValues
    BY <1>3 DEF ValuesOf
  <2>2. PICK d : x = AnyValue(d)
    BY <2>1 DEF AnyValues
  <2>3. json = d /\ Known[x] = TRUE
    BY <2>1, <2>2, AnyIs
  <2>4. Value(s, member) = Put(s, Took(top, x))
    BY <1>3, <2>2, <2>3 DEF Value
  <2> QED BY <1>2, <2>3, <2>4 DEF Fine
<1>4. CASE member.type = "leaf"
  <2>1. x \in {Leaf(t) : t \in Leaves}
    BY <1>4 DEF ValuesOf
  <2>2. PICK t \in Leaves : x = Leaf(t)
    BY <2>1
  <2>3. json = Text(t) /\ Known[x] = TRUE /\ json # Null /\ ~IsMap(json) /\ json.text = t
    <3>1. Written[x] = Text(t) /\ Known[x] = TRUE /\ Text(t) # Null /\ ~IsMap(Text(t))
      BY <2>2, LeafIs
    <3>2. Text(t).text = t
      BY DocShapes
    <3>3. json = Text(t)
      BY <3>1
    <3> HIDE DEF json
    <3> QED BY <3>1, <3>2, <3>3
  <2>4. Value(s, member) = Put(s, Took(top, x))
    BY <1>4, <2>2, <2>3 DEF Value
  <2> QED BY <1>2, <2>3, <2>4 DEF Fine
<1>5. CASE member.type \in DOMAIN Types /\ member.type \notin {"leaf", "any"}
  <2>1. member.type \in DOMAIN Values /\ x \in Values[member.type]
    BY <1>5 DEF ValuesOf
  <2>2. /\ json = Map(json.entries) /\ json # Null /\ IsMap(json)
        /\ Arranged(json.entries, x)
    BY <2>1, WrittenArranged
  <2> DEFINE f == Visitor(member.type, json)
  <2>3. Fits(e, f, x)
    <3>1. Fits(e, Visitor(member.type, Map(json.entries)), x)
      BY <2>1, <2>2, VisitorFits
    <3> QED BY <2>2, <3>1
  <2>4. Value(s, member) = Answer(Append(s, f), Pending)
    BY <1>5, <2>2 DEF Value
  <2> HIDE DEF f
  <2> QED BY <2>3, <2>4, PushGoes
<1>6. "any" \notin DOMAIN Types /\ "leaf" \notin DOMAIN Types
  BY TypesAssumption
<1> QED BY <1>3, <1>4, <1>5, <1>6

LEMMA ObjectGoes ==
    ASSUME NEW e, NEW m, NEW s, NEW w, NEW v, StackOK(s), Inside(e, s, w, v),
           Types[s[Len(s)].type].kind = "object"
    PROVE  Goes(e, Reading(e, m, s), v)
<1> DEFINE top == s[Len(s)]
           y == w[Len(s)]
           T == top.type
<1>1. FrameOK(top) /\ Fits(e, top, y) /\ DOMAIN top = Slots
  BY InsideTop DEF FrameOK
<1>2. ObjectOf(T, y) /\ y.type = T /\ ObjectAt(e, top, y)
  BY <1>1, ValueOfType DEF Fits
<1>3. /\ DOMAIN y.fields = Names(T) /\ y = Object(T, y.fields)
      /\ y.fields = [n \in Names(T) |-> y.fields[n]]
  BY <1>2, PartsOfObject DEF ObjectOf, IsObject
<1>4. Known[y] = \A n \in Names(T) : y.fields[n] = Default \/ Known[y.fields[n]]
  BY <1>2, ObjectIs
<1>5. CASE top.at = "key" /\ top.rest # <<>>
  <2> DEFINE f == [top EXCEPT !.key = Head(top.rest).key, !.at = "value"]
  <2>1. Reading(e, m, s) = Put(s, f)
    BY <1>5 DEF Reading, ObjectKey
  <2>2. /\ f.type = top.type /\ f.rest = top.rest /\ f.fields = top.fields
        /\ f.at = "value" /\ f.key = Head(top.rest).key
    BY <1>1 DEF Slots
  <2> HIDE DEF f
  <2>3. ObjectAt(e, f, y)
    BY <1>2, <1>5, <2>2 DEF ObjectAt
  <2>4. Fits(e, f, y)
    BY <1>1, <1>2, <2>2, <2>3 DEF Fits
  <2> QED BY <2>1, <2>4, PutGoes
<1>6. CASE top.at = "key" /\ top.rest = <<>>
  <2>1. \A n \in Names(T) : y.fields[n] # Default => n \in DOMAIN top.fields
    <3>1. DOMAIN top.rest = {}
      BY <1>6
    <3> QED BY <1>2, <3>1 DEF ObjectAt, ItemsLeft, IsPresent
  <2>2. \A n \in DOMAIN top.fields : /\ n \in Names(T) /\ y.fields[n] # Default
                                     /\ Fine(e, y.fields[n]) /\ top.fields[n] = y.fields[n]
    BY <1>2 DEF ObjectAt, IsPresent
  <2>3. Missing(top) = {}
    <3>1. ASSUME NEW k \in ToSet(Types[T].members), k.shape = "required"
          PROVE  k.name \in DOMAIN top.fields
      <4>1. y.fields[k.name] # Default
        BY <1>2, <3>1, PartsOfObject
      <4>2. k.name \in Names(T)
        BY DEF Names
      <4> QED BY <2>1, <4>1, <4>2
    <3> QED BY <3>1 DEF Missing
  <2> DEFINE fields == [n \in Names(T) |-> IF n \in DOMAIN top.fields THEN top.fields[n] ELSE Default]
  <2>4. fields = y.fields
    <3>1. \A n \in Names(T) :
             (IF n \in DOMAIN top.fields THEN top.fields[n] ELSE Default) = y.fields[n]
      BY <2>1, <2>2
    <3> HIDE DEF T, top, y
    <3> QED BY <1>3, <3>1
  <2>5. Reading(e, m, s) = Hand(s, Object(T, fields))
    BY <1>6, <2>3 DEF Reading, ObjectKey
  <2> HIDE DEF fields
  <2>6. Object(T, fields) = y
    BY <1>3, <2>4
  <2>7. Fine(e, y)
    <3>1. \A n \in Names(T) : y.fields[n] = Default \/ (e => Known[y.fields[n]])
      BY <2>1, <2>2 DEF Fine
    <3> QED BY <1>4, <3>1 DEF Fine
  <2>8. Goes(e, Hand(s, y), v)
    BY <2>7, HandGoes
  <2> QED BY <2>5, <2>6, <2>8
<1>7. CASE top.at = "value"
  <2> DEFINE n == top.key
             member == MemberOf(T, n)
             x == Inner(top, y)
  <2>1. top.rest # <<>> /\ n = Head(top.rest).key
    BY <1>2, <1>7 DEF ObjectAt
  <2>2. IsPresent(y, n) /\ Head(top.rest).value = Written[y.fields[n]]
    <3>1. /\ IsPresent(y, Head(top.rest).key)
          /\ Head(top.rest).value = Written[y.fields[Head(top.rest).key]]
      <4>1. ObjectAt(e, top, y) /\ top.rest # <<>>
        BY <1>2, <2>1
      <4> HIDE DEF top, y
      <4> QED BY <4>1, AtField
    <3> QED BY <2>1, <3>1
  <2>3. n \in Names(T) /\ y.fields[n] # Default /\ x = y.fields[n]
    BY <1>2, <2>2 DEF IsPresent, Inner
  <2>4. member \in ToSet(Types[T].members) /\ member.name = n
    BY <2>3 DEF MemberOf, Names
  <2>5. x \in ValuesOf(member.type)
    BY <1>2, <2>3, <2>4, PartsOfObject
  <2>6. member.type \in DOMAIN Types \cup {"leaf", "any"}
    BY <1>2, <2>4, TypesAssumption DEF ObjectOf
  <2>7. Known[y] => Known[x]
    BY <1>4, <2>3
  <2>8. Reading(e, m, s) = Value(s, member)
    BY <1>7, <2>3 DEF Reading, ObjectValue
  <2> HIDE DEF member, x
  <2>9. Head(top.rest).value = Written[x] /\ x = Inner(s[Len(s)], w[Len(s)])
    BY <2>2, <2>3 DEF x
  <2>10. Goes(e, Value(s, member), v)
    BY <1>7, <2>5, <2>6, <2>7, <2>9, ValueGoes
  <2> QED BY <2>8, <2>10
<1>8. top.at \in {"key", "value"}
  BY <1>2 DEF ObjectAt
<1> QED BY <1>5, <1>6, <1>7, <1>8

LEMMA UnionGoes ==
    ASSUME NEW e, NEW m, NEW s, NEW w, NEW v, StackOK(s), Inside(e, s, w, v),
           Types[s[Len(s)].type].kind = "union"
    PROVE  Goes(e, Reading(e, m, s), v)
<1> DEFINE top == s[Len(s)]
           y == w[Len(s)]
           T == top.type
<1>1. FrameOK(top) /\ Fits(e, top, y) /\ DOMAIN top = Slots
  BY InsideTop DEF FrameOK
<1>2. UnionOf(T, y) /\ y.type = T /\ UnionAt(e, top, y) /\ y.type \in DOMAIN Values /\ y \in Values[y.type]
  BY <1>1, ValueOfType DEF Fits
<1>3. /\ y.variant \notin {"type", "null"} /\ y.value \in ValuesOf(Variant(T, y.variant).type)
      /\ y = Union(T, y.variant, y.value)
  BY <1>2, PartsOfUnion
<1>4. Known[y] = (y.variant \in Names(T) /\ Known[y.value])
  BY <1>2, UnionIs
<1>5. /\ TagOf(y).key = "type" /\ TagOf(y).value = Text(y.variant)
      /\ ItemOf(y).key = y.variant /\ ItemOf(y).value = Written[y.value]
  BY DocShapes DEF TagOf, ItemOf
<1>6. /\ ~IsMap(Text(y.variant)) /\ Text(y.variant).text = y.variant /\ Text(y.variant) # Null
  BY <1>3, DocShapes
<1>7. Tag(e, T, Text(y.variant)) <=> Accepts(e, T, y.variant)
  BY <1>6 DEF Tag
<1>8. \A a, b : /\ <<a>> # <<>> /\ <<a, b>> # <<>> /\ Head(<<a>>) = a /\ Head(<<a, b>>) = a
                /\ Tail(<<a>>) = <<>> /\ Tail(<<a, b>>) = <<b>>
  OBVIOUS
<1>9. ASSUME NEW f, f.type = T, UnionAt(e, f, y) PROVE Goes(e, Put(s, f), v)
  <2>1. Fits(e, f, y)
    BY <1>2, <1>9 DEF Fits
  <2> QED BY <2>1, PutGoes
<1>10. ASSUME ~Accepts(e, T, y.variant) PROVE Goes(e, Answer(s, Refused), v)
  <2>1. e /\ ~Known[y]
    BY <1>4, <1>10 DEF Accepts
  <2> QED BY <2>1, RefuseGoes
<1>11. CASE top.at = "first" /\ top.rest = <<TagOf(y), ItemOf(y)>>
  <2> DEFINE f == [top EXCEPT !.at = "tag"]
  <2>1. Reading(e, m, s) = Put(s, f)
    <3>1. top.rest # <<>> /\ Head(top.rest).key = "type"
      BY <1>5, <1>8, <1>11
    <3> QED BY <1>11, <3>1 DEF Reading, UnionFirst
  <2>2. f.type = T /\ f.at = "tag" /\ f.rest = top.rest /\ f.tagged = top.tagged
    BY <1>1 DEF Slots
  <2>3. ~top.tagged
    BY <1>2, <1>11 DEF UnionAt
  <2> HIDE DEF f
  <2>4. UnionAt(e, f, y)
    BY <1>11, <2>2, <2>3 DEF UnionAt
  <2> QED BY <1>9, <2>1, <2>2, <2>4
<1>12. CASE top.at = "first" /\ top.rest = <<ItemOf(y), TagOf(y)>>
  <2> DEFINE f == [top EXCEPT !.key = Head(top.rest).key, !.at = "value"]
  <2>1. top.rest # <<>> /\ Head(top.rest).key = y.variant /\ Head(top.rest).key # "type"
    BY <1>3, <1>5, <1>8, <1>12
  <2>2. Reading(e, m, s) = IF Accepts(e, T, y.variant) THEN Put(s, f) ELSE Answer(s, Refused)
    BY <1>12, <2>1 DEF Reading, UnionFirst
  <2>3. /\ f.type = T /\ f.at = "value" /\ f.rest = top.rest /\ f.tagged = top.tagged
        /\ f.key = y.variant
    BY <1>1, <2>1 DEF Slots
  <2>4. ~top.tagged
    BY <1>2, <1>12 DEF UnionAt
  <2> HIDE DEF f
  <2>5. CASE Accepts(e, T, y.variant)
    <3>1. UnionAt(e, f, y)
      BY <1>2, <1>12, <2>3, <2>4, <2>5 DEF UnionAt, Named
    <3> QED BY <1>9, <2>2, <2>3, <2>5, <3>1
  <2>6. CASE ~Accepts(e, T, y.variant)
    BY <1>10, <2>2, <2>6
  <2> QED BY <2>5, <2>6
<1>13. CASE top.at = "tag"
  <2> DEFINE f == [top EXCEPT !.key = Head(top.rest).value.text, !.at = "second",
                              !.rest = Tail(top.rest), !.tagged = TRUE]
  <2>1. top.rest = <<TagOf(y), ItemOf(y)>>
    BY <1>2, <1>13 DEF UnionAt
  <2>2. Head(top.rest).value = Text(y.variant) /\ Tail(top.rest) = <<ItemOf(y)>>
    BY <1>5, <1>8, <2>1
  <2>3. Reading(e, m, s) = IF Accepts(e, T, y.variant) THEN Put(s, f) ELSE Answer(s, Refused)
    BY <1>7, <1>13, <2>2 DEF Reading, UnionTag
  <2>4. /\ f.type = T /\ f.at = "second" /\ f.rest = <<ItemOf(y)>> /\ f.tagged = TRUE
        /\ f.key = y.variant
    BY <1>1, <1>6, <2>2 DEF Slots
  <2> HIDE DEF f
  <2>5. CASE Accepts(e, T, y.variant)
    <3>1. UnionAt(e, f, y)
      BY <1>2, <2>4, <2>5 DEF UnionAt, Named
    <3> QED BY <1>9, <2>3, <2>4, <2>5, <3>1
  <2>6. CASE ~Accepts(e, T, y.variant)
    BY <1>10, <2>3, <2>6
  <2> QED BY <2>5, <2>6
<1>14. CASE top.at = "second"
  <2> DEFINE f == [top EXCEPT !.at = "value"]
  <2>1. top.rest = <<ItemOf(y)>> /\ top.tagged /\ Named(e, top, y)
    BY <1>2, <1>14 DEF UnionAt
  <2>2. top.rest # <<>> /\ Head(top.rest).key = top.key
    BY <1>5, <1>8, <2>1 DEF Named
  <2>3. Reading(e, m, s) = Put(s, f)
    BY <1>14, <2>2 DEF Reading, UnionSecond
  <2>4. f.type = T /\ f.at = "value" /\ f.rest = top.rest /\ f.tagged = top.tagged /\ f.key = top.key
    BY <1>1 DEF Slots
  <2> HIDE DEF f
  <2>5. UnionAt(e, f, y)
    BY <2>1, <2>4 DEF UnionAt, Named
  <2> QED BY <1>9, <2>3, <2>4, <2>5
<1>15. CASE top.at = "value"
  <2> DEFINE member == Variant(T, top.key)
  <2>1. Named(e, top, y) /\ Head(top.rest) = ItemOf(y)
    BY <1>2, <1>8, <1>15 DEF UnionAt
  <2>2. top.key = y.variant /\ Head(top.rest).value = Written[y.value]
    BY <1>5, <2>1 DEF Named
  <2>3. y.value = Inner(top, y)
    BY <1>2 DEF Inner
  <2>4. member.type \in DOMAIN Types \cup {"leaf", "any"}
    BY <1>2, MemberTypes DEF UnionOf
  <2>5. y.value \in ValuesOf(member.type)
    BY <1>3, <2>2
  <2>6. Reading(e, m, s) = Value(s, member)
    BY <1>15 DEF Reading, UnionValue
  <2> HIDE DEF member
  <2>7. Goes(e, Value(s, member), v)
    BY <1>4, <1>15, <2>2, <2>3, <2>4, <2>5, ValueGoes
  <2> QED BY <2>6, <2>7
<1>16. CASE top.at = "type"
  <2> DEFINE f == [top EXCEPT !.at = "check"]
  <2>1. top.rest = <<TagOf(y)>> /\ ~top.tagged /\ Valued(e, top, y)
    BY <1>2, <1>16 DEF UnionAt
  <2>2. top.rest # <<>> /\ Head(top.rest).key = "type"
    BY <1>5, <1>8, <2>1
  <2>3. Reading(e, m, s) = Put(s, f)
    BY <1>16, <2>2 DEF Reading, UnionType
  <2>4. /\ f.type = T /\ f.at = "check" /\ f.rest = top.rest /\ f.tagged = top.tagged
        /\ f.key = top.key /\ f.value = top.value
    BY <1>1 DEF Slots
  <2> HIDE DEF f
  <2>5. UnionAt(e, f, y)
    BY <2>1, <2>4 DEF UnionAt, Valued, Named
  <2> QED BY <1>9, <2>3, <2>4, <2>5
<1>17. CASE top.at = "check"
  <2> DEFINE f == [top EXCEPT !.rest = Tail(top.rest), !.at = "end"]
  <2>1. top.rest = <<TagOf(y)>> /\ Valued(e, top, y)
    BY <1>2, <1>17 DEF UnionAt
  <2>2. Head(top.rest).value = Text(y.variant) /\ Tail(top.rest) = <<>>
    BY <1>5, <1>8, <2>1
  <2>3. top.key = y.variant /\ Accepts(e, T, y.variant)
    BY <1>2, <2>1 DEF Valued, Named
  <2>4. Tag(e, T, Head(top.rest).value) /\ Head(top.rest).value.text = top.key
    BY <1>6, <1>7, <2>2, <2>3
  <2>5. Reading(e, m, s) = Put(s, f)
    BY <1>17, <2>4 DEF Reading, UnionCheck
  <2>6. /\ f.type = T /\ f.at = "end" /\ f.rest = <<>> /\ f.key = top.key /\ f.value = top.value
    BY <1>1, <2>2 DEF Slots
  <2> HIDE DEF f
  <2>7. UnionAt(e, f, y)
    BY <2>1, <2>6 DEF UnionAt, Valued, Named
  <2> QED BY <1>9, <2>5, <2>6, <2>7
<1>18. CASE top.at = "end"
  <2>1. top.rest = <<>> /\ Valued(e, top, y)
    BY <1>2, <1>18 DEF UnionAt
  <2>2. Union(T, top.key, top.value) = y
    BY <1>3, <2>1 DEF Valued, Named
  <2>3. Reading(e, m, s) = Hand(s, Union(T, top.key, top.value))
    BY <1>18, <2>1 DEF Reading, UnionEnd
  <2>4. Fine(e, y)
    BY <1>2, <1>4, <2>1 DEF Valued, Named, Accepts, Fine
  <2>5. Goes(e, Hand(s, y), v)
    BY <2>4, HandGoes
  <2> QED BY <2>2, <2>3, <2>5
<1>19. \/ top.at = "first" /\ top.rest \in {<<TagOf(y), ItemOf(y)>>, <<ItemOf(y), TagOf(y)>>}
       \/ top.at \in {"tag", "second", "value", "type", "check", "end"}
  BY <1>2 DEF UnionAt, Arranged
<1> QED BY <1>11, <1>12, <1>13, <1>14, <1>15, <1>16, <1>17, <1>18, <1>19

LEMMA ReadingGoes ==
    ASSUME NEW e, NEW m, NEW s, NEW w, NEW v, StackOK(s), Inside(e, s, w, v)
    PROVE  Goes(e, Reading(e, m, s), v)
<1>1. Types[s[Len(s)].type].kind \in {"object", "union"}
  BY TopOK, TypesAssumption
<1> QED BY <1>1, ObjectGoes, UnionGoes

RInv == DInv /\ WInv

LEMMA StartInside ==
    ASSUME OriginOK, NEW e
    PROVE  \E w : Inside(e, <<Visitor(root, doc)>>, w, origin)
<1> DEFINE f == Visitor(root, doc)
<1>1. Fits(e, f, origin)
  <2>1. Fits(e, Visitor(root, Map(doc.entries)), origin)
    BY VisitorFits DEF OriginOK
  <2> QED BY <2>1 DEF OriginOK
<1> HIDE DEF f
<1>2. Len(<<f>>) = 1 /\ <<f>>[1] = f /\ <<origin>>[1] = origin
  OBVIOUS
<1>3. Inside(e, <<f>>, <<origin>>, origin)
  BY <1>1, <1>2 DEF Inside
<1> QED BY <1>3 DEF f

LEMMA RInvAtFirst == Init => RInv
<1> SUFFICES ASSUME Init, origin # Default PROVE WInv
  BY StartsGood DEF RInv, WInv
<1>1. /\ origin \in Values[root] /\ root \in DOMAIN Values
      /\ mode = "server" /\ stack = <<Visitor(root, doc)>>
      /\ outcome = [m \in {"server", "client"} |-> Pending]
  BY ValuesAssumption DEF Init
<1>2. OriginOK
  <2> DEFINE es == Written[origin].entries
             r(order) == [n \in DOMAIN es |-> es[order[n]]]
  <2>1. PICK order \in Bijection(DOMAIN es, DOMAIN es) : doc = Map(r(order))
    BY DEF Init, Arrangements
  <2>2. Arranged(es, origin)
    BY <1>1, WrittenArranged
  <2> HIDE DEF es
  <2>3. Arranged(r(order), origin)
    BY <1>1, <2>2, PermutedArranged
  <2> HIDE DEF r
  <2>4. doc.entries = r(order)
    BY <2>1, DocShapes
  <2> QED BY <1>1, <2>1, <2>3, <2>4 DEF OriginOK
<1>3. \E w : Inside(exhaustive, stack, w, origin)
  BY <1>1, <1>2, StartInside
<1> QED BY <1>1, <1>2, <1>3 DEF WInv

LEMMA ReadsKeepsWritten == ASSUME RInv, Reads PROVE WInv'
<1> DEFINE r == Reading(exhaustive, mode, stack)
<1>1. CASE origin = Default
  <2>1. origin' = origin
    BY ActionsRead DEF RInv, DInv, Does
  <2> QED BY <1>1, <2>1 DEF WInv
<1>2. CASE origin # Default
  <2>1. /\ outcome[mode] = Pending /\ Does(r) /\ Turns /\ StackOK(stack)
        /\ mode \in {"server", "client"}
    BY ActionsRead DEF RInv, DInv, Turns
  <2>2. /\ OriginOK /\ \A m \in {"server", "client"} : outcome[m] \in {Pending, Expected(exhaustive, origin)}
    BY <1>2 DEF RInv, WInv
  <2>3. PICK w : Inside(exhaustive, stack, w, origin)
    BY <1>2, <2>1 DEF RInv, WInv
  <2>4. Goes(exhaustive, r, origin)
    BY <2>1, <2>3, ReadingGoes
  <2> HIDE DEF r
  <2>5. /\ stack' = r.stack /\ outcome'[mode] = r.out
        /\ \A m \in {"server", "client"} : m # mode => outcome'[m] = outcome[m]
        /\ mode' = mode /\ origin' = origin /\ exhaustive' = exhaustive /\ doc' = doc /\ root' = root
    BY <2>1 DEF Does, Turns
  <2>6. OriginOK' /\ Expected(exhaustive, origin)' = Expected(exhaustive, origin)
    BY <2>2, <2>5 DEF OriginOK
  <2>7. r.out \in {Pending, Expected(exhaustive, origin)}
    BY <2>4 DEF Goes
  <2>8. \A m \in {"server", "client"} : outcome'[m] \in {Pending, Expected(exhaustive, origin)}
    BY <2>2, <2>5, <2>7
  <2>9. Expected(exhaustive, origin) # Pending
    BY Results DEF Expected
  <2>10. outcome'[mode'] = Pending => \E u : Inside(exhaustive, stack', u, origin)
    BY <2>4, <2>5, <2>9 DEF Goes
  <2>11. (\E u : Inside(exhaustive, stack', u, origin)) => (\E u : Inside(exhaustive, stack, u, origin))'
    BY <2>5
  <2> QED BY <2>5, <2>6, <2>8, <2>10, <2>11 DEF WInv
<1> QED BY <1>1, <1>2

LEMMA AgainKeepsWritten == ASSUME RInv, ReadAgain PROVE WInv'
<1>1. /\ mode' = "client" /\ outcome' = outcome /\ stack' = <<Visitor(root, doc)>>
      /\ root' = root /\ doc' = doc /\ origin' = origin /\ exhaustive' = exhaustive
  BY DEF ReadAgain
<1>2. CASE origin = Default
  BY <1>1, <1>2 DEF WInv
<1>3. CASE origin # Default
  <2>1. /\ OriginOK /\ \A m \in {"server", "client"} : outcome[m] \in {Pending, Expected(exhaustive, origin)}
    BY <1>3 DEF RInv, WInv
  <2>2. OriginOK' /\ Expected(exhaustive, origin)' = Expected(exhaustive, origin)
    BY <1>1, <2>1 DEF OriginOK
  <2>3. \E u : Inside(exhaustive, <<Visitor(root, doc)>>, u, origin)
    BY <2>1, StartInside
  <2>4. (\E u : Inside(exhaustive, stack, u, origin))'
    BY <1>1, <2>3
  <2> QED BY <1>1, <2>1, <2>2, <2>4 DEF WInv
<1> QED BY <1>2, <1>3

LEMMA RInvKept == RInv /\ [Next]_vars => RInv'
<1> SUFFICES ASSUME RInv, [Next]_vars PROVE RInv'
  OBVIOUS
<1>1. DInv'
  BY DInvKept DEF RInv
<1>2. CASE Reads
  BY <1>1, <1>2, ReadsKeepsWritten DEF RInv
<1>3. CASE ReadAgain
  BY <1>1, <1>3, AgainKeepsWritten DEF RInv
<1>4. CASE UNCHANGED vars
  <2>1. WInv
    BY DEF RInv
  <2>2. WInv'
    BY <1>4, <2>1 DEF WInv, OriginOK, vars
  <2> QED BY <1>1, <2>2 DEF RInv
<1> QED BY <1>2, <1>3, <1>4 DEF Next, Reads

(* What serialization writes of a value, which is finite but as deep as one  *)
(* likes, each deserializer reads back as that value, the entries of the     *)
(* outermost map in any order; and an exhaustive union refuses it only for a *)
(* variant that the generated code does not know.                            *)
THEOREM WrittenIsReadBack == Spec => []RoundTrip
<1>1. RInv => RoundTrip
  <2> SUFFICES ASSUME RInv, origin # Default, NEW m \in DOMAIN outcome
               PROVE  outcome[m] \in {Pending, IF exhaustive /\ ~Known[origin]
                                               THEN Refused ELSE Ok(origin)}
    BY DEF RoundTrip
  <2>1. m \in {"server", "client"}
    BY DEF RInv, DInv, Turns
  <2> QED BY <2>1 DEF RInv, WInv, Expected
<1>2. Spec => []RInv
  BY RInvAtFirst, RInvKept, PTL DEF Spec
<1> QED BY <1>1, <1>2, PTL
-----------------------------------------------------------------------------
(* Reading any document                                                      *)

(* A visitor of the map es has read p of its entries.                        *)
After(es, rest, p) ==
    /\ p \in 0 .. Len(es) /\ IsSeq(rest) /\ Len(rest) = Len(es) - p
    /\ \A i \in 1 .. Len(rest) : rest[i] = es[p + i]

(* What the n-th entry means as the field that it is of.                     *)
FieldAt(q, n) ==
    Meant(Meaning, q, MemberOf(q.type, q.json.entries[n].key), q.json.entries[n].value)

(* Every entry so far means something, and a field of the object is what the *)
(* last entry of that name means.                                            *)
ObjectSoFar(q, f, p) ==
    LET es == q.json.entries
    IN /\ \A n \in 1 .. p :
             IF es[n].key \in Names(q.type)
             THEN FieldAt(q, n) # {} /\ es[n].key \in DOMAIN f.fields
             ELSE q.reader = "client"
       /\ \A name \in DOMAIN f.fields :
             \E n \in 1 .. p : /\ es[n].key = name /\ FieldAt(q, n) = {f.fields[name]}
                               /\ \A k \in 1 .. p : n < k => es[k].key # name
       /\ f.at \in {"key", "value"}
       /\ f.at = "value" => f.rest # <<>> /\ f.key = Head(f.rest).key

(* The n-th entry is the type, and names the variant; the first is its value;*)
(* and what the n-th means as that.                                          *)
TagAt(q, n, key) ==
    /\ q.json.entries[n] = Entry("type", Text(key)) /\ key # "null"
    /\ Accepts(q.exhaustive, q.type, key)
ValueFirst(q, key) ==
    /\ Len(q.json.entries) # 0 /\ q.json.entries[1].key = key /\ key # "type"
    /\ Accepts(q.exhaustive, q.type, key)
VariantAt(q, n, key) == Meant(Meaning, q, Variant(q.type, key), q.json.entries[n].value)

UnionSoFar(q, f, p) ==
    LET es == q.json.entries
    IN \/ f.at = "first" /\ ~f.tagged /\ p = 0
       \/ f.at = "tag" /\ ~f.tagged /\ p = 0 /\ Len(es) # 0 /\ es[1].key = "type"
       \/ f.at = "second" /\ f.tagged /\ p = 1 /\ TagAt(q, 1, f.key)
       \/ /\ f.at = "value" /\ f.tagged /\ p = 1 /\ TagAt(q, 1, f.key)
          /\ Len(es) # 1 /\ es[2].key = f.key
       \/ f.at = "value" /\ ~f.tagged /\ p = 0 /\ ValueFirst(q, f.key)
       \/ /\ f.at \in {"type", "check"} /\ ~f.tagged /\ p = 1 /\ ValueFirst(q, f.key)
          /\ VariantAt(q, 1, f.key) = {f.value}
          /\ f.at = "check" => Len(es) # 1 /\ es[2].key = "type"
       \/ /\ f.at = "end" /\ p = 2 /\ TagAt(q, 1, f.key)
          /\ es[2].key = f.key /\ VariantAt(q, 2, f.key) = {f.value}
       \/ /\ f.at = "end" /\ p = 2 /\ ValueFirst(q, f.key)
          /\ TagAt(q, 2, f.key) /\ VariantAt(q, 1, f.key) = {f.value}

(* A visitor on its way to the answer of the question q.                     *)
SoFar(q, f, p) ==
    /\ After(q.json.entries, f.rest, p)
    /\ IF Types[q.type].kind = "object" THEN ObjectSoFar(q, f, p) ELSE UnionSoFar(q, f, p)
Stands(q, f) ==
    /\ q \in Questions /\ IsMap(q.json) /\ f.type = q.type
    /\ \E p : SoFar(q, f, p)

(* The JSON that the d-th visitor reads, and the question that is.           *)
JsonAt(s, json, d) == IF d = 1 THEN json ELSE Head(s[d - 1].rest).value
Ask(m, e, s, json, d) == Question(m, e, s[d].type, JsonAt(s, json, d))

AllStand(m, e, T, json, s) ==
    /\ s[1].type = T
    /\ \A d \in 1 .. Len(s) : Stands(Ask(m, e, s, json, d), s[d])

(* The answer that a deserializer gives is what the document means.          *)
IsMeant(m, e, T, json, out) ==
    LET meant == Meaning[Question(m, e, T, json)]
    IN IF out.tag = "ok" THEN meant = {out.value} ELSE meant = {}

Leads(m, e, T, json, r) ==
    IF r.out = Pending THEN AllStand(m, e, T, json, r.stack) ELSE IsMeant(m, e, T, json, r.out)

MInv ==
    /\ DInv
    /\ doc \in Json /\ IsMap(doc) /\ exhaustive \in BOOLEAN
    /\ \A m \in {"server", "client"} :
          outcome[m] # Pending => IsMeant(m, exhaustive, root, doc, outcome[m])
    /\ outcome[mode] = Pending => AllStand(mode, exhaustive, root, doc, stack)

LEMMA AfterIs ==
    ASSUME NEW es, IsSeq(es), NEW rest, NEW p, After(es, rest, p)
    PROVE  /\ p \in Nat /\ Len(es) \in Nat /\ (rest = <<>> <=> p = Len(es))
           /\ rest # <<>> => /\ p + 1 \in 1 .. Len(es) /\ Head(rest) = es[p + 1]
                             /\ After(es, Tail(rest), p + 1)
<1>1. /\ rest \in Seq(ToSet(rest)) /\ Len(es) \in Nat /\ p \in 0 .. Len(es)
      /\ Len(rest) = Len(es) - p /\ \A i \in 1 .. Len(rest) : rest[i] = es[p + i]
  BY DEF After, IsSeq
<1>2. rest = <<>> <=> p = Len(es)
  BY <1>1
<1>3. ASSUME rest # <<>>
      PROVE  p + 1 \in 1 .. Len(es) /\ Head(rest) = es[p + 1] /\ After(es, Tail(rest), p + 1)
  <2> DEFINE t == Tail(rest)
  <2>1. /\ t \in Seq(ToSet(rest)) /\ Len(t) = Len(rest) - 1 /\ Len(t) \in Nat
        /\ \A i \in 1 .. Len(t) : t[i] = rest[i + 1]
    BY <1>1, <1>3
  <2>2. Head(rest) = rest[1] /\ 1 \in 1 .. Len(rest) /\ p + 1 \in 1 .. Len(es)
    BY <1>1, <1>2, <1>3
  <2> HIDE DEF t
  <2>3. \A i \in 1 .. Len(t) : t[i] \in ToSet(t)
    BY <2>1 DEF ToSet
  <2>4. t \in Seq(ToSet(t))
    BY <2>1, <2>3
  <2>5. \A i \in 1 .. Len(t) : t[i] = es[p + 1 + i]
    <3> TAKE i \in 1 .. Len(t)
    <3>1. i + 1 \in 1 .. Len(rest) /\ p + (i + 1) = p + 1 + i
      BY <1>1, <2>1
    <3> QED BY <1>1, <2>1, <3>1
  <2>6. After(es, t, p + 1)
    BY <1>1, <2>1, <2>2, <2>4, <2>5 DEF After, IsSeq
  <2> QED BY <1>1, <2>2, <2>6 DEF t
<1> QED BY <1>1, <1>2, <1>3

LEMMA AfterNone ==
    ASSUME NEW es, IsSeq(es)
    PROVE  After(es, es, 0)
BY DEF After, IsSeq

(* What a map means, entry by entry.                                         *)
LEMMA ObjectMeans ==
    ASSUME NEW q \in Questions, IsMap(q.json), Types[q.type].kind = "object"
    PROVE  /\ \A n \in 1 .. Len(q.json.entries) :
                 IF q.json.entries[n].key \in Names(q.type) THEN FieldAt(q, n) = {} => Meaning[q] = {}
                 ELSE q.reader = "server" => Meaning[q] = {}
           /\ \A f : FrameOK(f) /\ f.type = q.type /\ ObjectSoFar(q, f, Len(q.json.entries)) =>
                 Meaning[q] = IF Missing(f) # {} THEN {}
                              ELSE {Object(q.type, [n \in Names(q.type) |->
                                       IF n \in DOMAIN f.fields THEN f.fields[n] ELSE Default])}
<1> DEFINE es == q.json.entries
           T == q.type
           of(name) == {n \in DOMAIN es : es[n].key = name}
           last(name) == CHOOSE n \in of(name) : \A k \in of(name) : k <= n
           fine == \A n \in DOMAIN es :
                      IF es[n].key \in Names(T) THEN FieldAt(q, n) # {} ELSE q.reader = "client"
           there == \A m \in ToSet(Types[T].members) : m.shape = "required" => of(m.name) # {}
           some(S) == CHOOSE v \in S : TRUE
           fields == [name \in Names(T) |->
                         IF of(name) = {} THEN Default ELSE some(FieldAt(q, last(name)))]
<1>1. Meaning[q] = IF fine /\ there THEN {Object(T, fields)} ELSE {}
  <2>1. Meaning[q] = MeaningBody(Meaning, q)
    BY MeaningIs
  <2> QED BY <2>1 DEF MeaningBody, MeantObject, FieldAt
<1>2. Len(es) \in Nat /\ DOMAIN es = 1 .. Len(es) /\ T \in DOMAIN Types
  BY QuestionIs, JsonIs
<1>3. \A S, x : S = {x} => some(S) = x
  OBVIOUS
<1> HIDE DEF fields, some, last, of
<1>4. ASSUME NEW n \in 1 .. Len(es)
      PROVE  IF es[n].key \in Names(T) THEN FieldAt(q, n) = {} => Meaning[q] = {}
             ELSE q.reader = "server" => Meaning[q] = {}
  <2> HIDE DEF there, es, T
  <2>1. n \in DOMAIN es
    BY <1>2, <1>4
  <2> QED BY <1>1, <2>1
<1>5. ASSUME NEW f, FrameOK(f), f.type = T, ObjectSoFar(q, f, Len(es))
      PROVE  Meaning[q] = IF Missing(f) # {} THEN {}
                          ELSE {Object(T, [n \in Names(T) |->
                                   IF n \in DOMAIN f.fields THEN f.fields[n] ELSE Default])}
  <2>1. DOMAIN f.fields \subseteq Names(T)
    BY <1>5 DEF FrameOK
  <2>2. \A n \in 1 .. Len(es) :
           IF es[n].key \in Names(T) THEN FieldAt(q, n) # {} /\ es[n].key \in DOMAIN f.fields
           ELSE q.reader = "client"
    BY <1>5 DEF ObjectSoFar
  <2>3. \A name \in DOMAIN f.fields :
           \E n \in 1 .. Len(es) : /\ es[n].key = name /\ FieldAt(q, n) = {f.fields[name]}
                                   /\ \A k \in 1 .. Len(es) : n < k => es[k].key # name
    BY <1>5 DEF ObjectSoFar
  <2>4. Missing(f) = {m \in ToSet(Types[T].members) : m.shape = "required" /\ m.name \notin DOMAIN f.fields}
    BY <1>5 DEF Missing
  <2> HIDE DEF es, T
  <2>5. fine
    BY <1>2, <2>2
  <2>6. \A name \in Names(T) : of(name) # {} <=> name \in DOMAIN f.fields
    BY <1>2, <2>1, <2>2, <2>3 DEF of
  <2>7. there <=> Missing(f) = {}
    <3>1. \A m \in ToSet(Types[T].members) : m.name \in Names(T)
      BY DEF Names
    <3> QED BY <2>4, <2>6, <3>1
  <2>8. ASSUME NEW name \in DOMAIN f.fields PROVE some(FieldAt(q, last(name))) = f.fields[name]
    <3>1. PICK n \in 1 .. Len(es) : /\ es[n].key = name /\ FieldAt(q, n) = {f.fields[name]}
                                    /\ \A k \in 1 .. Len(es) : n < k => es[k].key # name
      BY <2>3
    <3>2. n \in of(name) /\ of(name) \in SUBSET (1 .. Len(es)) /\ of(name) # {}
      BY <1>2, <3>1 DEF of
    <3>3. last(name) \in of(name) /\ \A k \in of(name) : k <= last(name)
      BY <1>2, <3>2, LastIs DEF last
    <3>4. last(name) \in 1 .. Len(es) /\ es[last(name)].key = name /\ n <= last(name)
      BY <1>2, <3>2, <3>3 DEF of
    <3>5. last(name) = n
      BY <3>1, <3>4
    <3> QED BY <1>3, <3>1, <3>5
  <2>9. fields = [n \in Names(T) |-> IF n \in DOMAIN f.fields THEN f.fields[n] ELSE Default]
    BY <2>6, <2>8 DEF fields
  <2> HIDE DEF fine, there
  <2> QED BY <1>1, <2>5, <2>7, <2>9
<1> QED BY <1>4, <1>5

LEMMA UnionMeans ==
    ASSUME NEW q \in Questions, IsMap(q.json), Types[q.type].kind # "object"
    PROVE  LET es == q.json.entries
           IN /\ \A key : Len(es) = 2 /\ TagAt(q, 1, key) /\ es[2].key = key =>
                    Meaning[q] = {Union(q.type, key, v) : v \in VariantAt(q, 2, key)}
              /\ \A key : Len(es) = 2 /\ ValueFirst(q, key) /\ TagAt(q, 2, key) =>
                    Meaning[q] = {Union(q.type, key, v) : v \in VariantAt(q, 1, key)}
              /\ Meaning[q] # {} =>
                    /\ Len(es) = 2
                    /\ \/ TagAt(q, 1, es[2].key) /\ VariantAt(q, 2, es[2].key) # {}
                       \/ /\ ValueFirst(q, es[1].key) /\ TagAt(q, 2, es[1].key)
                          /\ VariantAt(q, 1, es[1].key) # {}
<1> DEFINE es == q.json.entries
           T == q.type
           tag == IF es[1].key = "type" THEN 1 ELSE 2
           held == es[3 - tag]
           fine == /\ Len(es) = 2
                   /\ es[tag] = Entry("type", Text(held.key))
                   /\ held.key # "null"
                   /\ q.exhaustive => held.key \in Names(T)
           values == Meant(Meaning, q, Variant(T, held.key), held.value)
<1>1. Meaning[q] = IF fine THEN {Union(T, held.key, v) : v \in values} ELSE {}
  <2>1. Meaning[q] = MeaningBody(Meaning, q)
    BY MeaningIs
  <2> QED BY <2>1 DEF MeaningBody, MeantUnion
<1>2. /\ es[1].key = "type" => tag = 1 /\ held = es[2]
      /\ es[1].key # "type" => tag = 2 /\ held = es[1]
  OBVIOUS
<1>3. values = Meant(Meaning, q, Variant(T, held.key), held.value)
  OBVIOUS
<1>4. fine <=> /\ Len(es) = 2 /\ es[tag] = Entry("type", Text(held.key))
               /\ held.key # "null" /\ Accepts(q.exhaustive, T, held.key)
  BY DEF Accepts
<1>5. \A k, x : Entry(k, x).key = k
  BY DocShapes
<1> HIDE DEF fine, values, held, tag
<1>6. ASSUME NEW key, Len(es) = 2, TagAt(q, 1, key), es[2].key = key
      PROVE  Meaning[q] = {Union(T, key, v) : v \in VariantAt(q, 2, key)}
  <2>1. es[1].key = "type" /\ es[1] = Entry("type", Text(key)) /\ key # "null" /\ Accepts(q.exhaustive, T, key)
    BY <1>5, <1>6 DEF TagAt
  <2>2. tag = 1 /\ held = es[2] /\ held.key = key
    BY <1>2, <1>6, <2>1
  <2>3. fine /\ values = VariantAt(q, 2, key)
    BY <1>3, <1>4, <1>6, <2>1, <2>2 DEF VariantAt
  <2> QED BY <1>1, <2>2, <2>3
<1>7. ASSUME NEW key, Len(es) = 2, ValueFirst(q, key), TagAt(q, 2, key)
      PROVE  Meaning[q] = {Union(T, key, v) : v \in VariantAt(q, 1, key)}
  <2>1. /\ es[1].key = key /\ key # "type" /\ es[2] = Entry("type", Text(key)) /\ key # "null"
        /\ Accepts(q.exhaustive, T, key)
    BY <1>7 DEF TagAt, ValueFirst
  <2>2. tag = 2 /\ held = es[1] /\ held.key = key
    BY <1>2, <2>1
  <2>3. fine /\ values = VariantAt(q, 1, key)
    BY <1>3, <1>4, <1>7, <2>1, <2>2 DEF VariantAt
  <2> QED BY <1>1, <2>2, <2>3
<1>8. ASSUME Meaning[q] # {}
      PROVE  /\ Len(es) = 2
             /\ \/ TagAt(q, 1, es[2].key) /\ VariantAt(q, 2, es[2].key) # {}
                \/ /\ ValueFirst(q, es[1].key) /\ TagAt(q, 2, es[1].key)
                   /\ VariantAt(q, 1, es[1].key) # {}
  <2>1. fine /\ values # {}
    BY <1>1, <1>8
  <2>2. CASE es[1].key = "type"
    <3>1. tag = 1 /\ held = es[2]
      BY <1>2, <2>2
    <3>2. TagAt(q, 1, es[2].key) /\ VariantAt(q, 2, es[2].key) # {}
      BY <1>3, <1>4, <2>1, <3>1 DEF TagAt, VariantAt
    <3> QED BY <1>4, <2>1, <3>2
  <2>3. CASE es[1].key # "type"
    <3>1. tag = 2 /\ held = es[1]
      BY <1>2, <2>3
    <3>2. TagAt(q, 2, es[1].key) /\ VariantAt(q, 1, es[1].key) # {}
      BY <1>3, <1>4, <2>1, <3>1 DEF TagAt, VariantAt
    <3>3. ValueFirst(q, es[1].key)
      BY <1>4, <2>1, <2>3, <3>1 DEF ValueFirst
    <3> QED BY <1>4, <2>1, <3>2, <3>3
  <2> QED BY <2>2, <2>3
<1> QED BY <1>6, <1>7, <1>8

(* A visitor at the start of a map.                                          *)
LEMMA VisitorStands ==
    ASSUME NEW q \in Questions, IsMap(q.json)
    PROVE  Stands(q, Visitor(q.type, q.json))
<1> DEFINE f == Visitor(q.type, q.json)
           es == q.json.entries
<1>1. /\ f.type = q.type /\ f.rest = es /\ f.fields = <<>> /\ f.tagged = FALSE
      /\ f.at = IF Types[q.type].kind = "object" THEN "key" ELSE "first"
  BY DEF Visitor
<1>2. IsSeq(es) /\ After(es, es, 0)
  BY QuestionIs, JsonIs, AfterNone
<1>3. DOMAIN <<>> = {} /\ 1 .. 0 = {}
  OBVIOUS
<1> HIDE DEF f
<1>4. CASE Types[q.type].kind = "object"
  <2>1. ObjectSoFar(q, f, 0)
    BY <1>1, <1>3, <1>4 DEF ObjectSoFar
  <2>2. SoFar(q, f, 0)
    BY <1>1, <1>2, <1>4, <2>1 DEF SoFar
  <2> QED BY <1>1, <2>2 DEF Stands, f
<1>5. CASE Types[q.type].kind # "object"
  <2>1. UnionSoFar(q, f, 0)
    BY <1>1, <1>5 DEF UnionSoFar
  <2>2. SoFar(q, f, 0)
    BY <1>1, <1>2, <1>5, <2>1 DEF SoFar
  <2> QED BY <1>1, <2>2 DEF Stands, f
<1> QED BY <1>4, <1>5

(* The entry at hand, of a visitor that asks for its value.                  *)
AtHand(q, f) == Meant(Meaning, q, Variant(q.type, f.key), Head(f.rest).value)

LEMMA AtValue ==
    ASSUME NEW q, NEW f, NEW p, q \in Questions, IsMap(q.json), SoFar(q, f, p), f.at = "value"
    PROVE  /\ p \in Nat /\ p + 1 \in 1 .. Len(q.json.entries) /\ f.rest # <<>>
           /\ Head(f.rest) = q.json.entries[p + 1] /\ Head(f.rest).value \in Json
           /\ After(q.json.entries, Tail(f.rest), p + 1)
           /\ IF Types[q.type].kind = "object"
              THEN /\ q.json.entries[p + 1].key = f.key
                   /\ f.key \in Names(q.type) => AtHand(q, f) = FieldAt(q, p + 1)
              ELSE AtHand(q, f) = VariantAt(q, p + 1, f.key)
<1> DEFINE es == q.json.entries
<1>1. IsSeq(es) /\ Len(es) \in Nat /\ \A n \in 1 .. Len(es) : es[n].value \in Json
  BY QuestionIs, JsonIs
<1>2. After(es, f.rest, p)
  BY DEF SoFar
<1>3. p \in Nat /\ (f.rest = <<>> <=> p = Len(es))
  <2> DEFINE rest == f.rest
  <2>1. IsSeq(es) /\ After(es, rest, p)
    BY <1>1, <1>2
  <2> HIDE DEF es, rest
  <2>2. p \in Nat /\ (rest = <<>> <=> p = Len(es))
    BY <2>1, AfterIs
  <2> QED BY <2>2 DEF rest
<1>4. f.rest # <<>>
  <2>1. CASE Types[q.type].kind = "object"
    BY <2>1 DEF SoFar, ObjectSoFar
  <2>2. CASE Types[q.type].kind # "object"
    <3>1. \/ p = 1 /\ Len(es) # 1
          \/ p = 0 /\ Len(es) # 0
      BY <2>2 DEF SoFar, UnionSoFar, ValueFirst
    <3> QED BY <1>3, <3>1
  <2> QED BY <2>1, <2>2
<1>5. /\ p + 1 \in 1 .. Len(es) /\ Head(f.rest) = es[p + 1] /\ After(es, Tail(f.rest), p + 1)
  <2> DEFINE rest == f.rest
  <2>1. IsSeq(es) /\ After(es, rest, p) /\ rest # <<>>
    BY <1>1, <1>2, <1>4
  <2> HIDE DEF es, rest
  <2>2. p + 1 \in 1 .. Len(es) /\ Head(rest) = es[p + 1] /\ After(es, Tail(rest), p + 1)
    BY <2>1, AfterIs
  <2> QED BY <2>2 DEF rest
<1>6. CASE Types[q.type].kind = "object"
  <2>1. es[p + 1].key = f.key
    BY <1>5, <1>6 DEF SoFar, ObjectSoFar
  <2>2. ASSUME f.key \in Names(q.type) PROVE AtHand(q, f) = FieldAt(q, p + 1)
    <3>1. Variant(q.type, f.key) = MemberOf(q.type, f.key)
      BY <2>2 DEF Variant
    <3> QED BY <1>5, <2>1, <3>1 DEF AtHand, FieldAt
  <2> QED BY <1>1, <1>3, <1>4, <1>5, <1>6, <2>1, <2>2
<1>7. CASE Types[q.type].kind # "object"
  BY <1>1, <1>3, <1>4, <1>5, <1>7 DEF AtHand, VariantAt
<1> QED BY <1>6, <1>7

(* It takes the value that the entry means.                                  *)
LEMMA TookStands ==
    ASSUME NEW q, NEW f, FrameOK(f), Stands(q, f), f.at = "value", NEW v, AtHand(q, f) = {v},
           Types[q.type].kind = "object" => f.key \in Names(q.type)
    PROVE  Stands(q, Took(f, v))
<1> DEFINE es == q.json.entries
<1>1. PICK p : SoFar(q, f, p)
  BY DEF Stands
<1>2. q \in Questions /\ IsMap(q.json) /\ f.type = q.type /\ DOMAIN f = Slots
  BY DEF Stands, FrameOK
<1>3. /\ p \in Nat /\ p + 1 \in 1 .. Len(es) /\ f.rest # <<>> /\ After(es, Tail(f.rest), p + 1)
      /\ IF Types[q.type].kind = "object"
         THEN es[p + 1].key = f.key /\ (f.key \in Names(q.type) => AtHand(q, f) = FieldAt(q, p + 1))
         ELSE AtHand(q, f) = VariantAt(q, p + 1, f.key)
  BY <1>1, <1>2, AtValue
<1>4. CASE Types[q.type].kind = "object"
  <2> DEFINE fields == [n \in DOMAIN f.fields \cup {f.key} |-> IF n = f.key THEN v ELSE f.fields[n]]
             g == [f EXCEPT !.rest = Tail(f.rest), !.at = "key", !.fields = fields]
  <2>1. Took(f, v) = g
    BY <1>2, <1>4 DEF Took
  <2>2. g.type = f.type /\ g.rest = Tail(f.rest) /\ g.at = "key" /\ g.fields = fields
    <3> HIDE DEF fields
    <3> QED BY <1>2 DEF Slots
  <2>3. /\ DOMAIN fields = DOMAIN f.fields \cup {f.key} /\ fields[f.key] = v
        /\ \A n \in DOMAIN f.fields : n # f.key => fields[n] = f.fields[n]
    OBVIOUS
  <2> HIDE DEF fields, g, es
  <2>4. es[p + 1].key = f.key /\ FieldAt(q, p + 1) = {v} /\ f.key \in Names(q.type)
    BY <1>3, <1>4
  <2>5. ObjectSoFar(q, f, p)
    BY <1>1, <1>4 DEF SoFar
  <2>6. ASSUME NEW n \in 1 .. p + 1
        PROVE  IF es[n].key \in Names(q.type)
               THEN FieldAt(q, n) # {} /\ es[n].key \in DOMAIN fields ELSE q.reader = "client"
    <3>1. CASE n = p + 1
      BY <2>3, <2>4, <3>1
    <3>2. CASE n # p + 1
      <4>1. n \in 1 .. p
        BY <1>3, <3>2
      <4> QED BY <2>3, <2>5, <4>1 DEF ObjectSoFar, es
    <3> QED BY <3>1, <3>2
  <2>7. ASSUME NEW name \in DOMAIN fields
        PROVE  \E n \in 1 .. p + 1 : /\ es[n].key = name /\ FieldAt(q, n) = {fields[name]}
                                     /\ \A k \in 1 .. p + 1 : n < k => es[k].key # name
    <3>1. CASE name = f.key
      <4>1. p + 1 \in 1 .. p + 1 /\ \A k \in 1 .. p + 1 : ~(p + 1 < k)
        BY <1>3
      <4> QED BY <2>3, <2>4, <3>1, <4>1
    <3>2. CASE name # f.key
      <4>1. name \in DOMAIN f.fields /\ fields[name] = f.fields[name]
        BY <2>3, <3>2
      <4>2. PICK n \in 1 .. p : /\ es[n].key = name /\ FieldAt(q, n) = {f.fields[name]}
                                /\ \A k \in 1 .. p : n < k => es[k].key # name
        BY <2>5, <4>1 DEF ObjectSoFar, es
      <4>3. n \in 1 .. p + 1 /\ \A k \in 1 .. p + 1 : k = p + 1 \/ k \in 1 .. p
        BY <1>3
      <4>4. \A k \in 1 .. p + 1 : n < k => es[k].key # name
        BY <2>4, <3>2, <4>2, <4>3
      <4> QED BY <4>1, <4>2, <4>3, <4>4
    <3> QED BY <3>1, <3>2
  <2>8. ObjectSoFar(q, g, p + 1)
    BY <2>2, <2>6, <2>7 DEF ObjectSoFar, es
  <2>9. SoFar(q, g, p + 1)
    BY <1>3, <1>4, <2>2, <2>8 DEF SoFar, es
  <2> QED BY <1>2, <2>1, <2>2, <2>9 DEF Stands
<1>5. CASE Types[q.type].kind # "object"
  <2> DEFINE at == IF f.tagged THEN "end" ELSE "type"
             g == [f EXCEPT !.rest = Tail(f.rest), !.value = v, !.at = at]
  <2>1. Took(f, v) = g
    BY <1>2, <1>5 DEF Took
  <2>2. /\ g.type = f.type /\ g.rest = Tail(f.rest) /\ g.value = v /\ g.at = at
        /\ g.key = f.key /\ g.tagged = f.tagged
    <3> HIDE DEF at
    <3> QED BY <1>2 DEF Slots
  <2>3. at = IF f.tagged THEN "end" ELSE "type"
    OBVIOUS
  <2> HIDE DEF g, at
  <2>4. VariantAt(q, p + 1, f.key) = {v}
    BY <1>3, <1>5
  <2>5. \/ /\ f.tagged /\ p = 1 /\ TagAt(q, 1, f.key) /\ es[2].key = f.key
        \/ /\ ~f.tagged /\ p = 0 /\ ValueFirst(q, f.key)
    BY <1>1, <1>5 DEF SoFar, UnionSoFar
  <2>6. UnionSoFar(q, g, p + 1)
    <3>1. CASE f.tagged /\ p = 1 /\ TagAt(q, 1, f.key) /\ es[2].key = f.key
      <4>1. p + 1 = 2 /\ g.at = "end" /\ VariantAt(q, 2, g.key) = {g.value}
        BY <2>2, <2>3, <2>4, <3>1
      <4> QED BY <2>2, <3>1, <4>1 DEF UnionSoFar
    <3>2. CASE ~f.tagged /\ p = 0 /\ ValueFirst(q, f.key)
      <4>1. p + 1 = 1 /\ g.at = "type" /\ VariantAt(q, 1, g.key) = {g.value} /\ g.at # "check"
        BY <2>2, <2>3, <2>4, <3>2
      <4> QED BY <2>2, <3>2, <4>1 DEF UnionSoFar
    <3> QED BY <2>5, <3>1, <3>2
  <2>7. SoFar(q, g, p + 1)
    BY <1>3, <1>5, <2>2, <2>6 DEF SoFar
  <2> QED BY <1>2, <2>1, <2>2, <2>7 DEF Stands
<1> QED BY <1>4, <1>5

(* If the entry means nothing, then nor does the map.                        *)
LEMMA NothingAtHand ==
    ASSUME NEW q, NEW f, Stands(q, f), f.at = "value", AtHand(q, f) = {},
           Types[q.type].kind = "object" => f.key \in Names(q.type)
    PROVE  Meaning[q] = {}
<1> DEFINE es == q.json.entries
<1>1. PICK p : SoFar(q, f, p)
  BY DEF Stands
<1>2. q \in Questions /\ IsMap(q.json)
  BY DEF Stands
<1>3. /\ p + 1 \in 1 .. Len(es)
      /\ IF Types[q.type].kind = "object"
         THEN es[p + 1].key = f.key /\ (f.key \in Names(q.type) => AtHand(q, f) = FieldAt(q, p + 1))
         ELSE AtHand(q, f) = VariantAt(q, p + 1, f.key)
  BY <1>1, <1>2, AtValue
<1>4. CASE Types[q.type].kind = "object"
  <2>1. FieldAt(q, p + 1) = {} /\ es[p + 1].key \in Names(q.type)
    BY <1>3, <1>4
  <2> QED BY <1>2, <1>3, <1>4, <2>1, ObjectMeans
<1>5. CASE Types[q.type].kind # "object"
  <2>1. VariantAt(q, p + 1, f.key) = {}
    BY <1>3, <1>5
  <2>2. \/ p = 1 /\ TagAt(q, 1, f.key) /\ es[2].key = f.key
        \/ p = 0 /\ ValueFirst(q, f.key)
    BY <1>1, <1>5 DEF SoFar, UnionSoFar
  <2>3. SUFFICES ASSUME Meaning[q] # {} PROVE FALSE
    OBVIOUS
  <2>4. \/ TagAt(q, 1, es[2].key) /\ VariantAt(q, 2, es[2].key) # {}
        \/ /\ ValueFirst(q, es[1].key) /\ TagAt(q, 2, es[1].key)
           /\ VariantAt(q, 1, es[1].key) # {}
    BY <1>2, <1>5, <2>3, UnionMeans
  <2>5. \A k, x : Entry(k, x).key = k
    BY DocShapes
  <2>6. CASE p = 1 /\ TagAt(q, 1, f.key) /\ es[2].key = f.key
    <3>1. es[1].key = "type" /\ p + 1 = 2
      BY <2>5, <2>6 DEF TagAt
    <3> QED BY <2>1, <2>4, <2>6, <3>1 DEF ValueFirst
  <2>7. CASE p = 0 /\ ValueFirst(q, f.key)
    <3>1. es[1].key = f.key /\ f.key # "type" /\ p + 1 = 1
      BY <2>7 DEF ValueFirst
    <3>2. ~TagAt(q, 1, es[2].key)
      BY <2>5, <3>1 DEF TagAt
    <3> QED BY <2>1, <2>4, <3>1, <3>2
  <2> QED BY <2>2, <2>6, <2>7
<1> QED BY <1>4, <1>5

-----------------------------------------------------------------------------
(* The steps of reading any document                                         *)

LEMMA QuestionHas ==
    \A m, e, T, json :
       LET q == Question(m, e, T, json)
       IN q.reader = m /\ q.exhaustive = e /\ q.type = T /\ q.json = json
BY DEF Question

LEMMA TopStands ==
    ASSUME NEW m, NEW e, NEW T, NEW json, NEW s, StackOK(s), AllStand(m, e, T, json, s)
    PROVE  /\ IsSeq(s) /\ Len(s) \in Nat /\ Len(s) # 0 /\ Len(s) \in 1 .. Len(s)
           /\ FrameOK(s[Len(s)])
           /\ Stands(Ask(m, e, s, json, Len(s)), s[Len(s)])
<1>1. IsSeq(s) /\ Len(s) \in Nat /\ Len(s) # 0
  BY DEF StackOK, IsSeq
<1>2. Len(s) \in 1 .. Len(s)
  BY <1>1
<1> QED BY <1>1, <1>2 DEF StackOK, AllStand

(* A visitor that waits is at an entry that means what the map inside does.  *)
LEMMA WaitsFor ==
    ASSUME NEW m, NEW e, NEW T, NEW json, NEW s, StackOK(s), AllStand(m, e, T, json, s),
           NEW d \in 1 .. Len(s) - 1
    PROVE  /\ d \in 1 .. Len(s) /\ FrameOK(s[d]) /\ Stands(Ask(m, e, s, json, d), s[d])
           /\ s[d].at = "value"
           /\ LET q == Ask(m, e, s, json, d)
              IN /\ Types[q.type].kind = "object" => s[d].key \in Names(q.type)
                 /\ AtHand(q, s[d]) = Meaning[Ask(m, e, s, json, d + 1)]
<1> DEFINE q == Ask(m, e, s, json, d)
           p == Ask(m, e, s, json, d + 1)
           inner == Head(s[d].rest).value
           member == Variant(s[d].type, s[d].key)
<1>1. d \in 1 .. Len(s) /\ d + 1 \in 1 .. Len(s) /\ d + 1 # 1 /\ (d + 1) - 1 = d
  BY DEF StackOK, IsSeq
<1>2. FrameOK(s[d]) /\ FrameOK(s[d + 1]) /\ Waits(s[d], s[d + 1]) /\ Stands(q, s[d])
  BY <1>1 DEF StackOK, AllStand
<1>3. q.type = s[d].type /\ q.reader = m /\ q.exhaustive = e
  BY QuestionHas DEF Ask
<1>4. p = Question(m, e, s[d + 1].type, inner)
  BY <1>1 DEF Ask, JsonAt
<1>5. s[d + 1].type = member.type /\ member.type \in DOMAIN Types /\ IsMap(inner)
  BY <1>2 DEF Waits, FrameOK
<1>6. member.type \notin {"leaf", "any"} /\ inner # Null
  BY <1>5, TypesAssumption, DocShapes DEF Null
<1> HIDE DEF p, q, inner, member
<1>7. Meant(Meaning, q, member, inner) = Meaning[Question(q.reader, q.exhaustive, member.type, inner)]
  BY <1>5, <1>6 DEF Meant
<1>8. AtHand(q, s[d]) = Meaning[p]
  BY <1>3, <1>4, <1>5, <1>7 DEF AtHand, inner, member
<1> QED BY <1>1, <1>2, <1>3, <1>8 DEF Waits, p, q

LEMMA PutStands ==
    ASSUME NEW m, NEW e, NEW T, NEW json, NEW s, StackOK(s), AllStand(m, e, T, json, s),
           NEW f, Stands(Ask(m, e, s, json, Len(s)), f)
    PROVE  Leads(m, e, T, json, Put(s, f))
<1> DEFINE r == [s EXCEPT ![Len(s)] = f]
<1>1. IsSeq(s) /\ Len(s) \in Nat /\ Len(s) \in 1 .. Len(s)
  BY TopStands
<1>2. Len(r) = Len(s) /\ r[Len(s)] = f /\ \A d \in 1 .. Len(s) : d # Len(s) => r[d] = s[d]
  BY <1>1, Replaced
<1>3. f.type = s[Len(s)].type
  BY QuestionHas DEF Stands, Ask
<1> HIDE DEF r
<1>4. ASSUME NEW d \in 1 .. Len(s)
      PROVE  Ask(m, e, r, json, d) = Ask(m, e, s, json, d) /\ r[d].type = s[d].type
  <2>1. r[d].type = s[d].type
    BY <1>2, <1>3
  <2>2. d # 1 => d - 1 \in 1 .. Len(s) /\ d - 1 # Len(s)
    BY <1>1
  <2>3. d # 1 => r[d - 1] = s[d - 1]
    BY <1>2, <2>2
  <2> QED BY <2>1, <2>3 DEF Ask, JsonAt
<1>5. AllStand(m, e, T, json, r)
  <2>1. ASSUME NEW d \in 1 .. Len(s) PROVE Stands(Ask(m, e, r, json, d), r[d])
    <3>1. CASE d = Len(s)
      BY <1>2, <1>4, <3>1
    <3>2. CASE d # Len(s)
      BY <1>2, <1>4, <3>2 DEF AllStand
    <3> QED BY <3>1, <3>2
  <2>2. 1 \in 1 .. Len(s)
    BY <1>1
  <2> QED BY <1>2, <1>4, <2>1, <2>2 DEF AllStand
<1>6. Put(s, f) = Answer(r, Pending)
  BY DEF Put, r
<1> QED BY <1>5, <1>6, AnswerIs DEF Leads

LEMMA PushStands ==
    ASSUME NEW m, NEW e, NEW T, NEW json, NEW s, StackOK(s), AllStand(m, e, T, json, s),
           NEW f, Stands(Question(m, e, f.type, Head(s[Len(s)].rest).value), f)
    PROVE  Leads(m, e, T, json, Answer(Append(s, f), Pending))
<1> DEFINE r == Append(s, f)
<1>1. IsSeq(s) /\ Len(s) \in Nat /\ Len(s) # 0 /\ Len(s) \in 1 .. Len(s)
  BY TopStands
<1>2. Len(r) = Len(s) + 1 /\ r[Len(s) + 1] = f /\ \A d \in 1 .. Len(s) : r[d] = s[d]
  BY <1>1, Pushed
<1> HIDE DEF r
<1>3. ASSUME NEW d \in 1 .. Len(s) + 1
      PROVE  Stands(Ask(m, e, r, json, d), r[d])
  <2>1. CASE d = Len(s) + 1
    <3>1. d # 1 /\ d - 1 = Len(s)
      BY <1>1, <2>1
    <3>2. Ask(m, e, r, json, d) = Question(m, e, f.type, Head(s[Len(s)].rest).value)
      BY <1>1, <1>2, <2>1, <3>1 DEF Ask, JsonAt
    <3> QED BY <1>2, <2>1, <3>2
  <2>2. CASE d # Len(s) + 1
    <3>1. d \in 1 .. Len(s) /\ (d # 1 => d - 1 \in 1 .. Len(s))
      BY <1>1, <2>2
    <3>2. Ask(m, e, r, json, d) = Ask(m, e, s, json, d)
      BY <1>2, <3>1 DEF Ask, JsonAt
    <3> QED BY <1>2, <3>1, <3>2 DEF AllStand
  <2> QED BY <2>1, <2>2
<1>4. AllStand(m, e, T, json, r)
  <2>1. 1 \in 1 .. Len(s)
    BY <1>1
  <2> QED BY <1>2, <1>3, <2>1 DEF AllStand
<1> QED BY <1>4, AnswerIs DEF Leads, r

(* A visitor that is done returns what its map means.                        *)
LEMMA HandStands ==
    ASSUME NEW m, NEW e, NEW T, NEW json, NEW s, StackOK(s), AllStand(m, e, T, json, s),
           NEW v, Meaning[Ask(m, e, s, json, Len(s))] = {v}
    PROVE  Leads(m, e, T, json, Hand(s, v))
<1> DEFINE n == Len(s) - 1
<1>1. IsSeq(s) /\ Len(s) \in Nat /\ Len(s) # 0
  BY TopStands
<1>2. CASE Len(s) = 1
  <2>1. Hand(s, v) = Answer(s, Ok(v))
    BY <1>2 DEF Hand
  <2>2. Ask(m, e, s, json, 1) = Question(m, e, T, json)
    BY DEF AllStand, Ask, JsonAt
  <2>3. Ok(v).tag = "ok" /\ Ok(v).value = v
    BY DEF Ok
  <2>4. IsMeant(m, e, T, json, Ok(v))
    BY <1>2, <2>2, <2>3 DEF IsMeant
  <2>5. Answer(s, Ok(v)).out = Ok(v) /\ Ok(v) # Pending
    <3>1. Ok(v) # Pending
      BY Results
    <3> QED BY <3>1, AnswerIs
  <2> QED BY <2>1, <2>4, <2>5 DEF Leads
<1>3. CASE Len(s) # 1
  <2> DEFINE front == Front(s)
             f == Took(s[n], v)
             r == [front EXCEPT ![Len(front)] = f]
  <2>1. /\ IsSeq(front) /\ Len(front) = n /\ n \in Nat /\ n # 0
        /\ \A d \in 1 .. n : front[d] = s[d]
    BY <1>1, <1>3, Popped
  <2>2. n \in 1 .. n /\ n \in 1 .. Len(s) /\ n \in 1 .. Len(s) - 1 /\ n + 1 = Len(s)
    BY <1>1, <2>1
  <2>3. Hand(s, v) = Answer(r, Pending)
    <3>1. front[Len(front)] = s[n] /\ Len(front) = Len(s) - 1
      BY <2>1, <2>2
    <3>2. [Front(s) EXCEPT ![Len(s) - 1] = Took(@, v)] = r
      BY <2>1, <2>2, <3>1
    <3> QED BY <1>3, <3>2 DEF Hand
  <2>4. Stands(Ask(m, e, s, json, n), f)
    <3> DEFINE q == Ask(m, e, s, json, n)
    <3>1. /\ FrameOK(s[n]) /\ Stands(q, s[n]) /\ s[n].at = "value"
          /\ Types[q.type].kind = "object" => s[n].key \in Names(q.type)
          /\ AtHand(q, s[n]) = Meaning[Ask(m, e, s, json, n + 1)]
      BY <2>2, WaitsFor
    <3>2. AtHand(q, s[n]) = {v}
      BY <2>2, <3>1
    <3> HIDE DEF q, n
    <3>3. Stands(q, Took(s[n], v))
      BY <3>1, <3>2, TookStands
    <3> QED BY <3>3 DEF q, n
  <2>5. f.type = s[n].type
    BY <2>4, QuestionHas DEF Stands, Ask
  <2> HIDE DEF front, f
  <2>6. Len(r) = n /\ r[n] = f /\ \A d \in 1 .. n : d # n => r[d] = s[d]
    BY <2>1, <2>2, Replaced
  <2> HIDE DEF r
  <2>7. ASSUME NEW d \in 1 .. n
        PROVE  /\ Ask(m, e, r, json, d) = Ask(m, e, s, json, d) /\ r[d].type = s[d].type
               /\ Stands(Ask(m, e, r, json, d), r[d])
    <3>1. r[d].type = s[d].type
      BY <2>5, <2>6
    <3>2. /\ d # 1 => d - 1 \in 1 .. n /\ d - 1 # n
          /\ d \in 1 .. Len(s)
      BY <1>1, <2>1
    <3>3. Ask(m, e, r, json, d) = Ask(m, e, s, json, d)
      BY <2>6, <3>1, <3>2 DEF Ask, JsonAt
    <3>4. CASE d = n
      BY <2>4, <2>6, <3>1, <3>3, <3>4
    <3>5. CASE d # n
      BY <2>6, <3>1, <3>2, <3>3, <3>5 DEF AllStand
    <3> QED BY <3>1, <3>3, <3>4, <3>5
  <2>8. AllStand(m, e, T, json, r)
    <3>1. 1 \in 1 .. n
      BY <2>1
    <3> QED BY <2>6, <2>7, <3>1 DEF AllStand
  <2> QED BY <2>3, <2>8, AnswerIs DEF Leads
<1> QED BY <1>2, <1>3

(* If the innermost map means nothing, then nor does any around it.          *)
LEMMA RefuseStands ==
    ASSUME NEW m, NEW e, NEW T, NEW json, NEW s, StackOK(s), AllStand(m, e, T, json, s),
           Meaning[Ask(m, e, s, json, Len(s))] = {},
           NEW out, out # Pending, out.tag # "ok"
    PROVE  Leads(m, e, T, json, Answer(s, out))
<1> DEFINE Bad == {d \in 1 .. Len(s) : Meaning[Ask(m, e, s, json, d)] = {}}
<1>1. Len(s) \in Nat /\ Len(s) \in 1 .. Len(s)
  BY TopStands
<1>2. Bad \in SUBSET Nat /\ Len(s) \in Bad
  BY <1>1
<1>3. PICK d \in Bad : \A k \in Bad : d <= k
  <2> HIDE DEF Bad
  <2> QED BY <1>2, Lowest
<1>4. d = 1
  <2>1. SUFFICES ASSUME d # 1 PROVE FALSE
    OBVIOUS
  <2>2. d \in 1 .. Len(s)
    OBVIOUS
  <2> DEFINE n == d - 1
             q == Ask(m, e, s, json, n)
  <2>3. n \in 1 .. Len(s) - 1 /\ n \in 1 .. Len(s) /\ n + 1 = d /\ ~(d <= n)
    BY <1>1, <2>1, <2>2
  <2>4. /\ Stands(q, s[n]) /\ s[n].at = "value"
        /\ Types[q.type].kind = "object" => s[n].key \in Names(q.type)
        /\ AtHand(q, s[n]) = Meaning[Ask(m, e, s, json, n + 1)]
    BY <2>3, WaitsFor
  <2>5. AtHand(q, s[n]) = {}
    BY <2>3, <2>4
  <2>6. Meaning[q] = {}
    <3> HIDE DEF q, n
    <3> QED BY <2>4, <2>5, NothingAtHand
  <2>7. n \in Bad
    BY <2>3, <2>6
  <2> HIDE DEF Bad, n
  <2> QED BY <1>3, <2>3, <2>7
<1>5. Meaning[Ask(m, e, s, json, 1)] = {}
  BY <1>4
<1>6. Ask(m, e, s, json, 1) = Question(m, e, T, json)
  BY DEF AllStand, Ask, JsonAt
<1>7. IsMeant(m, e, T, json, out)
  BY <1>5, <1>6 DEF IsMeant
<1> QED BY <1>7, AnswerIs DEF Leads

LEMMA ValueStands ==
    ASSUME NEW m, NEW e, NEW T, NEW json, NEW s, StackOK(s), AllStand(m, e, T, json, s),
           s[Len(s)].at = "value", NEW member, member = Variant(s[Len(s)].type, s[Len(s)].key),
           Types[s[Len(s)].type].kind = "object" => s[Len(s)].key \in Names(s[Len(s)].type)
    PROVE  Leads(m, e, T, json, Value(s, member))
<1> DEFINE top == s[Len(s)]
           q == Ask(m, e, s, json, Len(s))
           inner == Head(top.rest).value
<1>1. FrameOK(top) /\ Stands(q, top)
  BY TopStands
<1>2. /\ q \in Questions /\ IsMap(q.json)
      /\ q.type = top.type /\ q.reader = m /\ q.exhaustive = e
  BY <1>1, QuestionHas DEF Stands, Ask
<1>3. inner \in Json
  <2>1. PICK p : SoFar(q, top, p)
    BY <1>1 DEF Stands
  <2> HIDE DEF q, top
  <2>2. Head(top.rest).value \in Json
    BY <1>2, <2>1, AtValue DEF top
  <2> QED BY <2>2
<1>4. AtHand(q, top) = Meant(Meaning, q, member, inner)
  BY <1>2 DEF AtHand
<1>5. \A v : AtHand(q, top) = {v} => Leads(m, e, T, json, Put(s, Took(top, v)))
  <2> SUFFICES ASSUME NEW v, AtHand(q, top) = {v} PROVE Leads(m, e, T, json, Put(s, Took(top, v)))
    OBVIOUS
  <2>1. Stands(q, Took(top, v))
    <3>1. top.at = "value" /\ (Types[q.type].kind = "object" => top.key \in Names(q.type))
      BY <1>2
    <3> HIDE DEF top, q
    <3> QED BY <1>1, <3>1, TookStands
  <2> QED BY <2>1, PutStands
<1>6. AtHand(q, top) = {} => Leads(m, e, T, json, Answer(s, Refused))
  <2> SUFFICES ASSUME AtHand(q, top) = {} PROVE Leads(m, e, T, json, Answer(s, Refused))
    OBVIOUS
  <2>1. Meaning[q] = {}
    <3>1. top.at = "value" /\ (Types[q.type].kind = "object" => top.key \in Names(q.type))
      BY <1>2
    <3> HIDE DEF top, q
    <3> QED BY <1>1, <3>1, NothingAtHand
  <2>2. Refused # Pending /\ Refused.tag # "ok"
    BY Results DEF Refused
  <2> QED BY <2>1, <2>2, RefuseStands
<1>7. member.type \in DOMAIN Types \cup {"leaf", "any"}
  <2>1. top.type \in DOMAIN Types
    BY <1>1 DEF FrameOK
  <2> QED BY <2>1, MemberTypes
<1>8. CASE member.type = "any"
  <2>1. Value(s, member) = Put(s, Took(top, AnyValue(inner)))
    BY <1>8 DEF Value
  <2>2. AtHand(q, top) = {AnyValue(inner)}
    <3>1. member.type \notin DOMAIN Types
      BY <1>8, TypesAssumption
    <3> HIDE DEF q, top, inner
    <3> QED BY <1>4, <1>8, <3>1 DEF Meant
  <2> QED BY <1>5, <2>1, <2>2
<1>9. CASE member.type # "any" /\ inner = Null
  <2>1. Value(s, member) = IF member.shape = "optional" THEN Put(s, Took(top, Default)) ELSE Answer(s, Refused)
    BY <1>9 DEF Value
  <2>2. AtHand(q, top) = IF member.shape = "optional" THEN {Default} ELSE {}
    <3> HIDE DEF q, top, inner
    <3> QED BY <1>4, <1>9 DEF Meant
  <2> HIDE DEF q, top, inner
  <2> QED BY <1>5, <1>6, <2>1, <2>2
<1>10. CASE member.type = "leaf" /\ inner # Null
  <2>1. Value(s, member) = IF ~IsMap(inner) /\ inner.text \in Leaves
                           THEN Put(s, Took(top, Leaf(inner.text))) ELSE Answer(s, Refused)
    BY <1>10 DEF Value
  <2>2. AtHand(q, top) = IF ~IsMap(inner) /\ inner.text \in Leaves THEN {Leaf(inner.text)} ELSE {}
    <3>1. member.type \notin DOMAIN Types
      BY <1>10, TypesAssumption
    <3> HIDE DEF q, top, inner
    <3> QED BY <1>4, <1>10, <3>1 DEF Meant
  <2> HIDE DEF q, top, inner
  <2> QED BY <1>5, <1>6, <2>1, <2>2
<1>11. CASE member.type \in DOMAIN Types /\ member.type \notin {"leaf", "any"} /\ inner # Null
  <2>1. CASE IsMap(inner)
    <3> DEFINE f == Visitor(member.type, inner)
               p == Question(m, e, member.type, inner)
    <3>1. Value(s, member) = Answer(Append(s, f), Pending)
      BY <1>11, <2>1 DEF Value
    <3>2. m \in {"server", "client"} /\ e \in BOOLEAN
      <4> HIDE DEF q
      <4> QED BY <1>2, QuestionIs
    <3>3. p \in Questions /\ p.type = member.type /\ p.json = inner
      <4> HIDE DEF inner
      <4> QED BY <1>3, <1>11, <3>2, QuestionIs
    <3>4. f.type = member.type
      BY DEF Visitor
    <3>5. Stands(p, f)
      <4>1. Stands(p, Visitor(p.type, p.json))
        <5> HIDE DEF inner, p
        <5> QED BY <2>1, <3>3, VisitorStands
      <4> QED BY <3>3, <4>1
    <3> HIDE DEF f
    <3>6. Stands(Question(m, e, f.type, Head(s[Len(s)].rest).value), f)
      BY <3>4, <3>5
    <3> QED BY <3>1, <3>6, PushStands
  <2>2. CASE ~IsMap(inner)
    <3>1. Value(s, member) = Answer(s, Refused)
      BY <1>11, <2>2 DEF Value
    <3>2. AtHand(q, top) = {}
      <4> HIDE DEF q, top, inner
      <4> QED BY <1>4, <1>11, <2>2 DEF Meant
    <3> QED BY <1>6, <3>1, <3>2
  <2> QED BY <2>1, <2>2
<1>12. "any" \notin DOMAIN Types /\ "leaf" \notin DOMAIN Types
  BY TypesAssumption
<1> HIDE DEF inner
<1> QED BY <1>7, <1>8, <1>9, <1>10, <1>11, <1>12

LEMMA ObjectStands ==
    ASSUME NEW m, NEW e, NEW T, NEW json, NEW s, StackOK(s), AllStand(m, e, T, json, s),
           Types[s[Len(s)].type].kind = "object"
    PROVE  Leads(m, e, T, json, Reading(e, m, s))
<1> DEFINE top == s[Len(s)]
           q == Ask(m, e, s, json, Len(s))
           es == q.json.entries
<1>1. FrameOK(top) /\ Stands(q, top) /\ DOMAIN top = Slots /\ DOMAIN top.fields \subseteq Names(top.type)
  BY TopStands DEF FrameOK
<1>2. /\ q \in Questions /\ IsMap(q.json)
      /\ q.type = top.type /\ q.reader = m /\ q.exhaustive = e
  BY <1>1, QuestionHas DEF Stands, Ask
<1>3. PICK p : SoFar(q, top, p)
  BY <1>1 DEF Stands
<1>4. Types[q.type].kind = "object"
  BY <1>2
<1>5. After(es, top.rest, p) /\ ObjectSoFar(q, top, p)
  <2> HIDE DEF q, top
  <2> QED BY <1>3, <1>4 DEF SoFar
<1>6. IsSeq(es)
  <2>1. q.json \in Json
    BY <1>2, QuestionIs
  <2> QED BY <1>2, <2>1, JsonIs
<1>7. ASSUME NEW f, NEW k, f.type = top.type, After(es, f.rest, k), ObjectSoFar(q, f, k)
      PROVE  Leads(m, e, T, json, Put(s, f))
  <2>1. SoFar(q, f, k)
    BY <1>4, <1>7 DEF SoFar
  <2>2. Stands(q, f)
    BY <1>2, <1>7, <2>1 DEF Stands
  <2> QED BY <2>2, PutStands
<1>8. ASSUME NEW out, out # Pending, out.tag # "ok", Meaning[q] = {}
      PROVE  Leads(m, e, T, json, Answer(s, out))
  BY <1>8, RefuseStands
<1>9. CASE top.at = "key" /\ top.rest # <<>>
  <2> DEFINE f == [top EXCEPT !.key = Head(top.rest).key, !.at = "value"]
  <2>1. Reading(e, m, s) = Put(s, f)
    BY <1>4, <1>9 DEF Reading, ObjectKey
  <2>2. /\ f.type = top.type /\ f.rest = top.rest /\ f.fields = top.fields
        /\ f.at = "value" /\ f.key = Head(top.rest).key
    BY <1>1 DEF Slots
  <2> HIDE DEF f
  <2>3. ObjectSoFar(q, f, p)
    <3> DEFINE Held(fields) ==
                  /\ \A n \in 1 .. p :
                        IF es[n].key \in Names(q.type)
                        THEN FieldAt(q, n) # {} /\ es[n].key \in DOMAIN fields
                        ELSE q.reader = "client"
                  /\ \A name \in DOMAIN fields :
                        \E n \in 1 .. p : /\ es[n].key = name /\ FieldAt(q, n) = {fields[name]}
                                          /\ \A k \in 1 .. p : n < k => es[k].key # name
    <3>1. Held(top.fields)
      <4> HIDE DEF q, top
      <4> QED BY <1>5 DEF ObjectSoFar
    <3>2. f.at \in {"key", "value"} /\ f.rest # <<>> /\ f.key = Head(f.rest).key
      BY <1>9, <2>2
    <3>3. Held(f.fields)
      <4> HIDE DEF Held, q, top
      <4> QED BY <2>2, <3>1
    <3> QED BY <3>2, <3>3 DEF ObjectSoFar
  <2> QED BY <1>5, <1>7, <2>1, <2>2, <2>3
<1>10. CASE top.at = "key" /\ top.rest = <<>>
  <2> DEFINE fields == [n \in Names(top.type) |-> IF n \in DOMAIN top.fields THEN top.fields[n] ELSE Default]
  <2>1. p = Len(es)
    <3> DEFINE rest == top.rest
    <3>1. After(es, rest, p) /\ rest = <<>>
      BY <1>5, <1>10
    <3> HIDE DEF es, rest
    <3> QED BY <1>6, <3>1, AfterIs
  <2>2. Meaning[q] = IF Missing(top) # {} THEN {} ELSE {Object(top.type, fields)}
    <3>1. ObjectSoFar(q, top, Len(q.json.entries)) /\ top.type = q.type
      BY <1>2, <1>5, <2>1
    <3> HIDE DEF q, top
    <3> QED BY <1>1, <1>2, <1>4, <3>1, ObjectMeans
  <2>3. Reading(e, m, s) = IF Missing(top) # {} THEN Answer(s, Refused)
                           ELSE Hand(s, Object(top.type, fields))
    BY <1>4, <1>10 DEF Reading, ObjectKey
  <2> HIDE DEF fields
  <2>4. CASE Missing(top) # {}
    <3>1. Refused # Pending /\ Refused.tag # "ok"
      BY Results DEF Refused
    <3> QED BY <1>8, <2>2, <2>3, <2>4, <3>1
  <2>5. CASE Missing(top) = {}
    <3>1. Meaning[q] = {Object(top.type, fields)}
      BY <2>2, <2>5
    <3>2. Leads(m, e, T, json, Hand(s, Object(top.type, fields)))
      BY <3>1, HandStands
    <3> QED BY <2>3, <2>5, <3>2
  <2> QED BY <2>4, <2>5
<1>11. CASE top.at = "value" /\ top.key \in Names(top.type)
  <2>1. Variant(top.type, top.key) = MemberOf(top.type, top.key)
    BY <1>11 DEF Variant
  <2>2. Reading(e, m, s) = Value(s, MemberOf(top.type, top.key))
    BY <1>4, <1>11 DEF Reading, ObjectValue
  <2> QED BY <1>11, <2>1, <2>2, ValueStands
<1>12. CASE top.at = "value" /\ top.key \notin Names(top.type)
  <2>1. /\ p \in Nat /\ p + 1 \in 1 .. Len(es) /\ es[p + 1].key = top.key
        /\ After(es, Tail(top.rest), p + 1)
    <3> HIDE DEF q, top
    <3> QED BY <1>2, <1>3, <1>4, <1>12, AtValue
  <2>2. Reading(e, m, s) = IF m = "server" THEN Answer(s, UnknownField(top.key))
                           ELSE Put(s, [top EXCEPT !.rest = Tail(top.rest), !.at = "key"])
    BY <1>4, <1>12 DEF Reading, ObjectValue
  <2>3. CASE m = "server"
    <3>1. Meaning[q] = {}
      <4> HIDE DEF q, top
      <4> QED BY <1>2, <1>4, <1>12, <2>1, <2>3, ObjectMeans
    <3>2. UnknownField(top.key) # Pending /\ UnknownField(top.key).tag # "ok"
      BY Results DEF UnknownField
    <3> QED BY <1>8, <2>2, <2>3, <3>1, <3>2
  <2>4. CASE m # "server"
    <3> DEFINE f == [top EXCEPT !.rest = Tail(top.rest), !.at = "key"]
    <3>1. f.type = top.type /\ f.rest = Tail(top.rest) /\ f.fields = top.fields /\ f.at = "key"
      BY <1>1 DEF Slots
    <3>2. q.reader = "client"
      <4> HIDE DEF q
      <4> QED BY <1>2, <2>4, QuestionIs
    <3> HIDE DEF f, q, top
    <3>3. \A n \in 1 .. p + 1 : n = p + 1 \/ n \in 1 .. p
      BY <2>1
    <3>4. \A n \in 1 .. p : n \in 1 .. p + 1
      BY <2>1
    <3>5. ASSUME NEW n \in 1 .. p + 1
          PROVE  IF es[n].key \in Names(q.type)
                 THEN FieldAt(q, n) # {} /\ es[n].key \in DOMAIN f.fields ELSE q.reader = "client"
      BY <1>2, <1>5, <1>12, <2>1, <3>1, <3>2, <3>3 DEF ObjectSoFar
    <3>6. ASSUME NEW name \in DOMAIN f.fields
          PROVE  \E n \in 1 .. p + 1 : /\ es[n].key = name /\ FieldAt(q, n) = {f.fields[name]}
                                       /\ \A k \in 1 .. p + 1 : n < k => es[k].key # name
      <4>1. name \in DOMAIN top.fields /\ name # es[p + 1].key
        BY <1>1, <1>12, <2>1, <3>1
      <4>2. PICK n \in 1 .. p : /\ es[n].key = name /\ FieldAt(q, n) = {top.fields[name]}
                                /\ \A k \in 1 .. p : n < k => es[k].key # name
        BY <1>5, <4>1 DEF ObjectSoFar
      <4> HIDE DEF es
      <4> QED BY <3>1, <3>3, <3>4, <4>1, <4>2
    <3>7. ObjectSoFar(q, f, p + 1)
      BY <3>1, <3>5, <3>6 DEF ObjectSoFar
    <3>8. Leads(m, e, T, json, Put(s, f))
      BY <1>7, <2>1, <3>1, <3>7
    <3> QED BY <2>2, <2>4, <3>8 DEF f, top
  <2> QED BY <2>3, <2>4
<1>13. top.at \in {"key", "value"}
  BY <1>5 DEF ObjectSoFar
<1> QED BY <1>9, <1>10, <1>11, <1>12, <1>13

(* A text that names a variant.                                              *)
LEMMA TagIs ==
    ASSUME NEW e, NEW T, NEW json \in Json
    PROVE  /\ Tag(e, T, json) => /\ json = Text(json.text) /\ json.text # "null"
                                 /\ Accepts(e, T, json.text)
           /\ \A key : json = Text(key) /\ key # "null" /\ Accepts(e, T, key) =>
                          Tag(e, T, json) /\ json.text = key
<1>1. ~IsMap(json) => json = Text(json.text)
  BY JsonIs
<1>2. ASSUME Tag(e, T, json)
      PROVE  json = Text(json.text) /\ json.text # "null" /\ Accepts(e, T, json.text)
  <2>1. json = Text(json.text) /\ json # Null /\ Accepts(e, T, json.text)
    BY <1>1, <1>2 DEF Tag
  <2> QED BY <2>1 DEF Null
<1>3. ASSUME NEW key, json = Text(key), key # "null", Accepts(e, T, key)
      PROVE  Tag(e, T, json) /\ json.text = key
  <2>1. ~IsMap(json) /\ json.text = key /\ Null.text = "null"
    BY <1>3, DocShapes
  <2>2. json # Null
    BY <1>3, <2>1
  <2> QED BY <1>3, <2>1, <2>2 DEF Tag
<1> QED BY <1>2, <1>3

LEMMA UnionStands ==
    ASSUME NEW m, NEW e, NEW T, NEW json, NEW s, StackOK(s), AllStand(m, e, T, json, s),
           Types[s[Len(s)].type].kind = "union"
    PROVE  Leads(m, e, T, json, Reading(e, m, s))
<1> DEFINE top == s[Len(s)]
           q == Ask(m, e, s, json, Len(s))
           es == q.json.entries
           rest == top.rest
           U == top.type
<1>1. FrameOK(top) /\ Stands(q, top) /\ DOMAIN top = Slots
  BY TopStands DEF FrameOK
<1>2. /\ q \in Questions /\ IsMap(q.json)
      /\ q.type = U /\ q.reader = m /\ q.exhaustive = e
  BY <1>1, QuestionHas DEF Stands, Ask
<1>3. PICK p : SoFar(q, top, p)
  BY <1>1 DEF Stands
<1>4. Types[q.type].kind = "union"
  BY <1>2
<1>5. After(es, rest, p) /\ UnionSoFar(q, top, p)
  <2> HIDE DEF q, top
  <2> QED BY <1>3, <1>4 DEF SoFar, rest
<1>6. /\ IsSeq(es) /\ Len(es) \in Nat
      /\ \A n \in 1 .. Len(es) : es[n] = Entry(es[n].key, es[n].value) /\ es[n].value \in Json
  <2>1. q.json \in Json
    BY <1>2, QuestionIs
  <2> QED BY <1>2, <2>1, JsonIs
<1>7. /\ p \in Nat /\ (rest = <<>> <=> p = Len(es))
      /\ rest # <<>> => /\ p + 1 \in 1 .. Len(es) /\ Head(rest) = es[p + 1]
                        /\ After(es, Tail(rest), p + 1)
  <2> HIDE DEF es, rest
  <2> QED BY <1>5, <1>6, AfterIs
<1>8. ASSUME NEW f, NEW k, f.type = U, After(es, f.rest, k), UnionSoFar(q, f, k)
      PROVE  Leads(m, e, T, json, Put(s, f))
  <2>1. SoFar(q, f, k)
    BY <1>4, <1>8 DEF SoFar
  <2>2. Stands(q, f)
    BY <1>2, <1>8, <2>1 DEF Stands
  <2> QED BY <2>2, PutStands
<1>9. ASSUME Meaning[q] = {} PROVE Leads(m, e, T, json, Answer(s, Refused))
  <2>1. Refused # Pending /\ Refused.tag # "ok"
    BY Results DEF Refused
  <2> QED BY <1>9, <2>1, RefuseStands
<1>10. Meaning[q] # {} =>
         /\ Len(es) = 2
         /\ \/ TagAt(q, 1, es[2].key) /\ es[1].key = "type" /\ es[1].value = Text(es[2].key)
            \/ /\ ValueFirst(q, es[1].key) /\ es[1].key # "type" /\ TagAt(q, 2, es[1].key)
               /\ es[2].key = "type" /\ es[2].value = Text(es[1].key)
  <2> HIDE DEF q
  <2>1. Meaning[q] # {} =>
          /\ Len(es) = 2
          /\ \/ TagAt(q, 1, es[2].key)
             \/ ValueFirst(q, es[1].key) /\ TagAt(q, 2, es[1].key)
    BY <1>2, <1>4, UnionMeans
  <2>2. \A n, key : TagAt(q, n, key) => es[n].key = "type" /\ es[n].value = Text(key)
    BY DocShapes DEF TagAt
  <2>3. ValueFirst(q, es[1].key) => es[1].key # "type"
    BY DEF ValueFirst
  <2> QED BY <2>1, <2>2, <2>3
<1>11. ASSUME NEW n \in 1 .. Len(es)
       PROVE  /\ Tag(e, U, es[n].value) /\ es[n].key = "type" => TagAt(q, n, es[n].value.text)
              /\ \A key : TagAt(q, n, key) => Tag(e, U, es[n].value) /\ es[n].value.text = key
  <2> DEFINE x == es[n].value
  <2>1. es[n] = Entry(es[n].key, x) /\ x \in Json
    BY <1>6
  <2>2. /\ Tag(e, U, x) => x = Text(x.text) /\ x.text # "null" /\ Accepts(e, U, x.text)
        /\ \A key : x = Text(key) /\ key # "null" /\ Accepts(e, U, key) => Tag(e, U, x) /\ x.text = key
    <3> HIDE DEF x, U
    <3> QED BY <2>1, TagIs
  <2> HIDE DEF x, es, q
  <2>3. Tag(e, U, x) /\ es[n].key = "type" => TagAt(q, n, x.text)
    BY <1>2, <2>1, <2>2 DEF TagAt, es
  <2>4. ASSUME NEW key, TagAt(q, n, key) PROVE Tag(e, U, x) /\ x.text = key
    <3>1. es[n] = Entry("type", Text(key)) /\ key # "null" /\ Accepts(e, U, key)
      BY <1>2, <2>4 DEF TagAt, es
    <3>2. x = Text(key)
      BY <3>1, DocShapes DEF x
    <3> QED BY <2>2, <3>1, <3>2
  <2> QED BY <2>3, <2>4 DEF x
<1>12. Reading(e, m, s) =
         CASE top.at = "first" -> UnionFirst(e, s)
           [] top.at = "tag" -> UnionTag(e, s)
           [] top.at = "second" -> UnionSecond(s)
           [] top.at = "value" -> UnionValue(s)
           [] top.at = "type" -> UnionType(s)
           [] top.at = "check" -> UnionCheck(e, s)
           [] top.at = "end" -> UnionEnd(s)
           [] OTHER -> Answer(s, Pending)
  BY <1>4, <1>2 DEF Reading
<1>13. ASSUME NEW key PROVE Accepts(q.exhaustive, q.type, key) = Accepts(e, U, key)
  BY <1>2
<1>14. CASE top.at = "first"
  <2>1. Reading(e, m, s) = UnionFirst(e, s) /\ p = 0 /\ ~top.tagged
    BY <1>5, <1>12, <1>14 DEF UnionSoFar
  <2>2. CASE rest = <<>>
    <3>1. Meaning[q] = {}
      <4> HIDE DEF q, es, rest
      <4> QED BY <1>7, <1>10, <2>1, <2>2
    <3>2. Reading(e, m, s) = Answer(s, Refused)
      BY <2>1, <2>2 DEF UnionFirst
    <3> QED BY <1>9, <3>1, <3>2
  <2>3. CASE rest # <<>> /\ Head(rest).key = "type"
    <3> DEFINE f == [top EXCEPT !.at = "tag"]
    <3>1. Reading(e, m, s) = Put(s, f)
      BY <2>1, <2>3 DEF UnionFirst
    <3>2. f.type = U /\ f.at = "tag" /\ f.rest = rest /\ f.tagged = top.tagged
      BY <1>1 DEF Slots
    <3> HIDE DEF f
    <3>3. Len(es) # 0 /\ es[1].key = "type"
      <4> HIDE DEF q, es, rest
      <4> QED BY <1>7, <2>1, <2>3
    <3>4. UnionSoFar(q, f, p)
      BY <2>1, <3>2, <3>3 DEF UnionSoFar
    <3> QED BY <1>5, <1>8, <3>1, <3>2, <3>4
  <2>4. CASE rest # <<>> /\ Head(rest).key # "type" /\ ~Accepts(e, U, Head(rest).key)
    <3>1. es[1].key = Head(rest).key
      <4> HIDE DEF q, es, rest
      <4> QED BY <1>7, <2>1, <2>4
    <3>2. ~ValueFirst(q, es[1].key)
      BY <1>13, <2>4, <3>1 DEF ValueFirst
    <3>3. Meaning[q] = {}
      <4> HIDE DEF q, es, rest
      <4> QED BY <1>10, <2>4, <3>1, <3>2
    <3>4. Reading(e, m, s) = Answer(s, Refused)
      BY <2>1, <2>4 DEF UnionFirst
    <3> QED BY <1>9, <3>3, <3>4
  <2>5. CASE rest # <<>> /\ Head(rest).key # "type" /\ Accepts(e, U, Head(rest).key)
    <3> DEFINE f == [top EXCEPT !.key = Head(top.rest).key, !.at = "value"]
    <3>1. Reading(e, m, s) = Put(s, f)
      BY <2>1, <2>5 DEF UnionFirst
    <3>2. /\ f.type = U /\ f.at = "value" /\ f.rest = rest /\ f.tagged = top.tagged
          /\ f.key = Head(rest).key
      BY <1>1 DEF Slots
    <3> HIDE DEF f
    <3>3. Len(es) # 0 /\ es[1].key = Head(rest).key
      <4> HIDE DEF q, es, rest
      <4> QED BY <1>7, <2>1, <2>5
    <3>4. ValueFirst(q, f.key)
      BY <1>13, <2>5, <3>2, <3>3 DEF ValueFirst
    <3>5. UnionSoFar(q, f, p)
      BY <2>1, <3>2, <3>4 DEF UnionSoFar
    <3> QED BY <1>5, <1>8, <3>1, <3>2, <3>5
  <2> QED BY <2>2, <2>3, <2>4, <2>5
<1>15. CASE top.at = "tag"
  <2>1. /\ Reading(e, m, s) = UnionTag(e, s) /\ p = 0 /\ ~top.tagged
        /\ Len(es) # 0 /\ es[1].key = "type"
    BY <1>5, <1>12, <1>15 DEF UnionSoFar
  <2>2. /\ rest # <<>> /\ 1 \in 1 .. Len(es) /\ Head(rest) = es[1] /\ After(es, Tail(rest), 1)
    <3> HIDE DEF q, es, rest
    <3> QED BY <1>6, <1>7, <2>1
  <2>3. CASE Tag(e, U, Head(rest).value)
    <3> DEFINE f == [top EXCEPT !.key = Head(top.rest).value.text, !.at = "second",
                                !.rest = Tail(top.rest), !.tagged = TRUE]
    <3>1. Reading(e, m, s) = Put(s, f)
      BY <2>1, <2>3 DEF UnionTag
    <3>2. /\ f.type = U /\ f.at = "second" /\ f.rest = Tail(rest) /\ f.tagged = TRUE
          /\ f.key = Head(rest).value.text
      BY <1>1 DEF Slots
    <3> HIDE DEF f
    <3>3. TagAt(q, 1, f.key)
      <4> HIDE DEF q, es, rest, U
      <4> QED BY <1>11, <2>1, <2>2, <2>3, <3>2
    <3>4. UnionSoFar(q, f, 1)
      BY <3>2, <3>3 DEF UnionSoFar
    <3> QED BY <1>8, <2>2, <3>1, <3>2, <3>4
  <2>4. CASE ~Tag(e, U, Head(rest).value)
    <3>1. Reading(e, m, s) = Answer(s, Refused)
      BY <2>1, <2>4 DEF UnionTag
    <3>2. Meaning[q] = {}
      <4> HIDE DEF q, es, rest, U
      <4> QED BY <1>10, <1>11, <2>1, <2>2, <2>4
    <3> QED BY <1>9, <3>1, <3>2
  <2> QED BY <2>3, <2>4
<1>16. CASE top.at = "second"
  <2>1. Reading(e, m, s) = UnionSecond(s) /\ p = 1 /\ top.tagged /\ TagAt(q, 1, top.key)
    BY <1>5, <1>12, <1>16 DEF UnionSoFar
  <2>2. es[1].key = "type" /\ es[1].value = Text(top.key)
    BY <2>1, DocShapes DEF TagAt
  <2>3. CASE rest = <<>>
    <3>1. Meaning[q] = {}
      <4> HIDE DEF q, es, rest
      <4> QED BY <1>7, <1>10, <2>1, <2>3
    <3>2. Reading(e, m, s) = Answer(s, Refused)
      BY <2>1, <2>3 DEF UnionSecond
    <3> QED BY <1>9, <3>1, <3>2
  <2>4. CASE rest # <<>> /\ Head(rest).key # top.key
    <3>1. es[2].key # top.key
      <4> HIDE DEF q, es, rest
      <4> QED BY <1>7, <2>1, <2>4
    <3>2. Text(es[2].key) # Text(top.key)
      <4>1. Text(es[2].key).text = es[2].key /\ Text(top.key).text = top.key
        BY DocShapes
      <4> QED BY <3>1, <4>1
    <3>3. Meaning[q] = {}
      <4> HIDE DEF q, es, rest
      <4> QED BY <1>10, <2>2, <3>2
    <3>4. Reading(e, m, s) = Answer(s, Refused)
      BY <2>1, <2>4 DEF UnionSecond
    <3> QED BY <1>9, <3>3, <3>4
  <2>5. CASE rest # <<>> /\ Head(rest).key = top.key
    <3> DEFINE f == [top EXCEPT !.at = "value"]
    <3>1. Reading(e, m, s) = Put(s, f)
      BY <2>1, <2>5 DEF UnionSecond
    <3>2. f.type = U /\ f.at = "value" /\ f.rest = rest /\ f.tagged = top.tagged /\ f.key = top.key
      BY <1>1 DEF Slots
    <3> HIDE DEF f
    <3>3. Len(es) # 1 /\ es[2].key = top.key
      <4> HIDE DEF q, es, rest
      <4> QED BY <1>7, <2>1, <2>5
    <3>4. UnionSoFar(q, f, p)
      BY <2>1, <3>2, <3>3 DEF UnionSoFar
    <3> QED BY <1>5, <1>8, <3>1, <3>2, <3>4
  <2> QED BY <2>3, <2>4, <2>5
<1>17. CASE top.at = "value"
  <2>1. Reading(e, m, s) = Value(s, Variant(U, top.key))
    BY <1>12, <1>17 DEF UnionValue
  <2>2. Types[U].kind # "object"
    BY <1>2, <1>4
  <2> QED BY <1>17, <2>1, <2>2, ValueStands
<1>18. CASE top.at = "type"
  <2>1. /\ Reading(e, m, s) = UnionType(s) /\ p = 1 /\ ~top.tagged /\ ValueFirst(q, top.key)
        /\ VariantAt(q, 1, top.key) = {top.value}
    BY <1>5, <1>12, <1>18 DEF UnionSoFar
  <2>2. es[1].key = top.key /\ es[1].key # "type"
    BY <2>1 DEF ValueFirst
  <2>3. CASE rest = <<>>
    <3>1. Meaning[q] = {}
      <4> HIDE DEF q, es, rest
      <4> QED BY <1>7, <1>10, <2>1, <2>3
    <3>2. Reading(e, m, s) = Answer(s, Refused)
      BY <2>1, <2>3 DEF UnionType
    <3> QED BY <1>9, <3>1, <3>2
  <2>4. CASE rest # <<>> /\ Head(rest).key # "type"
    <3>1. es[2].key # "type"
      <4> HIDE DEF q, es, rest
      <4> QED BY <1>7, <2>1, <2>4
    <3>2. Meaning[q] = {}
      <4> HIDE DEF q, es, rest
      <4> QED BY <1>10, <2>2, <3>1
    <3>3. Reading(e, m, s) = Answer(s, Refused)
      BY <2>1, <2>4 DEF UnionType
    <3> QED BY <1>9, <3>2, <3>3
  <2>5. CASE rest # <<>> /\ Head(rest).key = "type"
    <3> DEFINE f == [top EXCEPT !.at = "check"]
    <3>1. Reading(e, m, s) = Put(s, f)
      BY <2>1, <2>5 DEF UnionType
    <3>2. /\ f.type = U /\ f.at = "check" /\ f.rest = rest /\ f.tagged = top.tagged
          /\ f.key = top.key /\ f.value = top.value
      BY <1>1 DEF Slots
    <3> HIDE DEF f
    <3>3. Len(es) # 1 /\ es[2].key = "type"
      <4> HIDE DEF q, es, rest
      <4> QED BY <1>7, <2>1, <2>5
    <3>4. UnionSoFar(q, f, p)
      BY <2>1, <3>2, <3>3 DEF UnionSoFar
    <3> QED BY <1>5, <1>8, <3>1, <3>2, <3>4
  <2> QED BY <2>3, <2>4, <2>5
<1>19. CASE top.at = "check"
  <2>1. /\ Reading(e, m, s) = UnionCheck(e, s) /\ p = 1 /\ ValueFirst(q, top.key)
        /\ VariantAt(q, 1, top.key) = {top.value} /\ Len(es) # 1 /\ es[2].key = "type"
    BY <1>5, <1>12, <1>19 DEF UnionSoFar
  <2>2. es[1].key = top.key /\ es[1].key # "type"
    BY <2>1 DEF ValueFirst
  <2>3. /\ rest # <<>> /\ 2 \in 1 .. Len(es) /\ Head(rest) = es[2] /\ After(es, Tail(rest), 2)
    <3> HIDE DEF q, es, rest
    <3> QED BY <1>6, <1>7, <2>1
  <2>4. CASE ~Tag(e, U, Head(rest).value)
    <3>1. Reading(e, m, s) = Answer(s, Refused)
      BY <2>1, <2>4 DEF UnionCheck
    <3>2. Meaning[q] = {}
      <4> HIDE DEF q, es, rest, U
      <4> QED BY <1>10, <1>11, <2>2, <2>3, <2>4
    <3> QED BY <1>9, <3>1, <3>2
  <2>5. CASE Tag(e, U, Head(rest).value) /\ Head(rest).value.text # top.key
    <3>1. Reading(e, m, s) = Answer(s, Refused)
      BY <2>1, <2>5 DEF UnionCheck
    <3>2. Meaning[q] = {}
      <4> HIDE DEF q, es, rest, U
      <4> QED BY <1>10, <1>11, <2>2, <2>3, <2>5
    <3> QED BY <1>9, <3>1, <3>2
  <2>6. CASE Tag(e, U, Head(rest).value) /\ Head(rest).value.text = top.key
    <3> DEFINE f == [top EXCEPT !.rest = Tail(top.rest), !.at = "end"]
    <3>1. Reading(e, m, s) = Put(s, f)
      BY <2>1, <2>6 DEF UnionCheck
    <3>2. /\ f.type = U /\ f.at = "end" /\ f.rest = Tail(rest) /\ f.key = top.key
          /\ f.value = top.value
      BY <1>1 DEF Slots
    <3> HIDE DEF f
    <3>3. TagAt(q, 2, f.key)
      <4> HIDE DEF q, es, rest, U
      <4> QED BY <1>11, <2>1, <2>3, <2>6, <3>2
    <3>4. UnionSoFar(q, f, 2)
      BY <2>1, <3>2, <3>3 DEF UnionSoFar
    <3> QED BY <1>8, <2>3, <3>1, <3>2, <3>4
  <2> QED BY <2>4, <2>5, <2>6
<1>20. CASE top.at = "end"
  <2>1. /\ Reading(e, m, s) = UnionEnd(s) /\ p = 2
        /\ \/ TagAt(q, 1, top.key) /\ es[2].key = top.key /\ VariantAt(q, 2, top.key) = {top.value}
           \/ /\ ValueFirst(q, top.key) /\ TagAt(q, 2, top.key)
              /\ VariantAt(q, 1, top.key) = {top.value}
    BY <1>5, <1>12, <1>20 DEF UnionSoFar
  <2>2. CASE rest # <<>>
    <3>1. Reading(e, m, s) = Answer(s, Refused)
      BY <2>1, <2>2 DEF UnionEnd
    <3>2. Meaning[q] = {}
      <4> HIDE DEF q, es, rest
      <4> QED BY <1>7, <1>10, <2>1, <2>2
    <3> QED BY <1>9, <3>1, <3>2
  <2>3. CASE rest = <<>>
    <3> DEFINE u == Union(U, top.key, top.value)
    <3>1. Reading(e, m, s) = Hand(s, u)
      BY <2>1, <2>3 DEF UnionEnd
    <3>2. Len(es) = 2
      <4> HIDE DEF q, es, rest
      <4> QED BY <1>7, <2>1, <2>3
    <3>3. Meaning[q] = {Union(q.type, top.key, v) : v \in {top.value}}
      <4>1. /\ \A key : Len(es) = 2 /\ TagAt(q, 1, key) /\ es[2].key = key =>
                  Meaning[q] = {Union(q.type, key, v) : v \in VariantAt(q, 2, key)}
            /\ \A key : Len(es) = 2 /\ ValueFirst(q, key) /\ TagAt(q, 2, key) =>
                  Meaning[q] = {Union(q.type, key, v) : v \in VariantAt(q, 1, key)}
        <5> HIDE DEF q
        <5> QED BY <1>2, <1>4, UnionMeans
      <4> HIDE DEF q, es, top
      <4> QED BY <2>1, <3>2, <4>1
    <3>4. Meaning[q] = {u}
      BY <1>2, <3>3
    <3> HIDE DEF u
    <3>5. Leads(m, e, T, json, Hand(s, u))
      BY <3>4, HandStands
    <3> QED BY <3>1, <3>5
  <2> QED BY <2>2, <2>3
<1>21. top.at \in {"first", "tag", "second", "value", "type", "check", "end"}
  BY <1>5 DEF UnionSoFar
<1> QED BY <1>14, <1>15, <1>16, <1>17, <1>18, <1>19, <1>20, <1>21

LEMMA ReadingStands ==
    ASSUME NEW m, NEW e, NEW T, NEW json, NEW s, StackOK(s), AllStand(m, e, T, json, s)
    PROVE  Leads(m, e, T, json, Reading(e, m, s))
<1>1. Types[s[Len(s)].type].kind \in {"object", "union"}
  BY TopOK, TypesAssumption
<1> QED BY <1>1, ObjectStands, UnionStands

LEMMA FirstStands ==
    ASSUME NEW m \in {"server", "client"}, NEW e \in BOOLEAN, NEW T \in DOMAIN Types,
           NEW json \in Json, IsMap(json)
    PROVE  AllStand(m, e, T, json, <<Visitor(T, json)>>)
<1> DEFINE q == Question(m, e, T, json)
           f == Visitor(T, json)
<1>1. q \in Questions /\ q.type = T /\ q.json = json
  BY QuestionIs
<1>2. f.type = T
  BY DEF Visitor
<1>3. Stands(q, f)
  <2>1. Stands(q, Visitor(q.type, q.json))
    <3> HIDE DEF q
    <3> QED BY <1>1, VisitorStands
  <2> QED BY <1>1, <2>1
<1> HIDE DEF f
<1>4. Len(<<f>>) = 1 /\ <<f>>[1] = f
  OBVIOUS
<1>5. Ask(m, e, <<f>>, json, 1) = q
  BY <1>2, <1>4 DEF Ask, JsonAt
<1>6. \A d \in 1 .. 1 : d = 1
  OBVIOUS
<1>7. AllStand(m, e, T, json, <<f>>)
  BY <1>2, <1>3, <1>4, <1>5, <1>6 DEF AllStand
<1> QED BY <1>7 DEF f

LEMMA MInvAtFirst == Init => MInv
<1> SUFFICES ASSUME Init PROVE MInv
  OBVIOUS
<1>1. /\ DInv /\ root \in DOMAIN Types /\ exhaustive \in BOOLEAN
      /\ mode = "server" /\ stack = <<Visitor(root, doc)>>
      /\ outcome = [m \in {"server", "client"} |-> Pending]
  BY StartsGood DEF Init, DInv
<1>2. doc \in Json /\ IsMap(doc)
  <2>1. CASE doc \in Documents
    BY <2>1, JsonAssumption
  <2>2. CASE origin \in Values[root] /\ doc \in Arrangements(origin)
    <3>1. doc \in Json
      BY <2>2, JsonAssumption DEF Init
    <3>2. IsMap(doc)
      BY <2>2, DocShapes DEF Arrangements
    <3> QED BY <3>1, <3>2
  <2> QED BY <2>1, <2>2 DEF Init
<1>3. AllStand(mode, exhaustive, root, doc, stack)
  BY <1>1, <1>2, FirstStands
<1> QED BY <1>1, <1>2, <1>3 DEF MInv

LEMMA ReadsMeant == ASSUME MInv, Reads PROVE MInv'
<1> DEFINE r == Reading(exhaustive, mode, stack)
<1>1. /\ outcome[mode] = Pending /\ Does(r) /\ Turns /\ StackOK(stack)
      /\ mode \in {"server", "client"}
  BY ActionsRead DEF MInv, DInv, Turns
<1>2. DInv'
  BY ReadsKeeps DEF MInv
<1>3. AllStand(mode, exhaustive, root, doc, stack)
  BY <1>1 DEF MInv
<1>4. Leads(mode, exhaustive, root, doc, r)
  BY <1>1, <1>3, ReadingStands
<1> HIDE DEF r
<1>5. /\ stack' = r.stack /\ outcome'[mode] = r.out
      /\ \A m \in {"server", "client"} : m # mode => outcome'[m] = outcome[m]
      /\ mode' = mode /\ exhaustive' = exhaustive /\ doc' = doc /\ root' = root
  BY <1>1 DEF Does, Turns
<1>6. doc' \in Json /\ IsMap(doc') /\ exhaustive' \in BOOLEAN
  BY <1>5 DEF MInv
<1>7. ASSUME NEW m \in {"server", "client"}, outcome'[m] # Pending
      PROVE  IsMeant(m, exhaustive', root', doc', outcome'[m])
  <2>1. CASE m = mode
    BY <1>4, <1>5, <1>7, <2>1 DEF Leads
  <2>2. CASE m # mode
    BY <1>5, <1>7, <2>2 DEF MInv
  <2> QED BY <2>1, <2>2
<1>8. outcome'[mode'] = Pending => AllStand(mode', exhaustive', root', doc', stack')
  BY <1>4, <1>5 DEF Leads
<1> QED BY <1>2, <1>6, <1>7, <1>8 DEF MInv

LEMMA AgainMeant == ASSUME MInv, ReadAgain PROVE MInv'
<1>1. /\ mode' = "client" /\ outcome' = outcome /\ stack' = <<Visitor(root, doc)>>
      /\ root' = root /\ doc' = doc /\ exhaustive' = exhaustive
  BY DEF ReadAgain
<1>2. DInv' /\ root \in DOMAIN Types /\ doc \in Json /\ IsMap(doc) /\ exhaustive \in BOOLEAN
  BY AgainKeeps DEF MInv, DInv
<1>3. AllStand("client", exhaustive, root, doc, <<Visitor(root, doc)>>)
  BY <1>2, FirstStands
<1>4. \A m \in {"server", "client"} :
         outcome'[m] # Pending => IsMeant(m, exhaustive', root', doc', outcome'[m])
  BY <1>1 DEF MInv
<1>5. AllStand(mode', exhaustive', root', doc', stack')
  BY <1>1, <1>3
<1> QED BY <1>1, <1>2, <1>4, <1>5 DEF MInv

LEMMA MInvKept == MInv /\ [Next]_vars => MInv'
<1> SUFFICES ASSUME MInv, [Next]_vars PROVE MInv'
  OBVIOUS
<1>1. CASE Reads
  BY <1>1, ReadsMeant
<1>2. CASE ReadAgain
  BY <1>2, AgainMeant
<1>3. CASE UNCHANGED vars
  <2>1. DInv'
    BY DInvKept DEF MInv
  <2> QED BY <1>3, <2>1 DEF MInv, vars
<1> QED BY <1>1, <1>2, <1>3 DEF Next, Reads

(* Whatever the document, each deserializer accepts it exactly if it means   *)
(* something to it, and returns what it means: reading key by key, with a    *)
(* visitor for every object and union inside, agrees with the meaning of the *)
(* document as a whole, at every depth.                                      *)
THEOREM DocumentsReadAsMeant == Spec => []ReadsAsMeant
<1>1. MInv => ReadsAsMeant
  <2> SUFFICES ASSUME MInv, NEW m \in DOMAIN outcome, outcome[m] # Pending
               PROVE  LET meant == Meaning[Question(m, exhaustive, root, doc)]
                      IN IF outcome[m].tag = "ok" THEN meant = {outcome[m].value} ELSE meant = {}
    BY DEF ReadsAsMeant
  <2>1. m \in {"server", "client"}
    BY DEF MInv, DInv, Turns
  <2> QED BY <2>1 DEF MInv, IsMeant
<1>2. Spec => []MInv
  BY MInvAtFirst, MInvKept, PTL DEF Spec
<1> QED BY <1>1, <1>2, PTL
=============================================================================
