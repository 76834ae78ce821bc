----------------------------- MODULE RpcProofs -----------------------------
(* Proofs about Rpc, for every endpoint, every argument and every request    *)
(* and response, of a generated peer or a foreign one: what a handler is     *)
(* called with, what is logged, and what a client makes of a response.  And  *)
(* that a call between generated peers is a local call.                      *)
EXTENDS Rpc, FiniteSetTheorems, SequenceTheorems, WellFoundedInduction, TLAPS

(* A set has one ascending enumeration, and it has the members of the set.   *)
(* The k-th place is for the member that k - 1 others are below.             *)
LEMMA SetsHaveOrder ==
    ASSUME NEW members \in SUBSET Nat, IsFiniteSet(members)
    PROVE  /\ Cardinality(members) \in Nat
           /\ \E s \in [1 .. Cardinality(members) -> members] : Ascending(s)
<1> DEFINE n == Cardinality(members)
           below(x) == {y \in members : y < x}
           rank == [x \in members |-> Cardinality(below(x))]
<1>1. n \in Nat
  BY FS_CardinalityType
<1>2. \A x \in members : IsFiniteSet(below(x)) /\ Cardinality(below(x)) \in Nat
                         /\ Cardinality(below(x)) < n
  <2> SUFFICES ASSUME NEW x \in members
               PROVE  IsFiniteSet(below(x)) /\ Cardinality(below(x)) \in Nat
                      /\ Cardinality(below(x)) < n
    OBVIOUS
  <2>1. below(x) \in SUBSET members /\ x \notin below(x)
    OBVIOUS
  <2>2. IsFiniteSet(below(x)) /\ Cardinality(below(x)) <= n /\ Cardinality(below(x)) # n
    BY <2>1, FS_Subset
  <2>3. Cardinality(below(x)) \in Nat
    BY <2>2, FS_CardinalityType
  <2> QED BY <1>1, <2>2, <2>3
<1>3. \A x, y \in members : x < y => rank[x] < rank[y]
  <2> SUFFICES ASSUME NEW x \in members, NEW y \in members, x < y
               PROVE  Cardinality(below(x)) < Cardinality(below(y))
    OBVIOUS
  <2>1. below(x) \in SUBSET below(y) /\ x \in below(y) /\ x \notin below(x)
    <3>1. \A z \in members : z < x => z < y
      OBVIOUS
    <3>2. ~(x < x)
      OBVIOUS
    <3> QED BY <3>1, <3>2, Zenon
  <2>2. /\ Cardinality(below(x)) <= Cardinality(below(y))
        /\ Cardinality(below(x)) # Cardinality(below(y))
    BY <1>2, <2>1, FS_Subset
  <2> QED BY <1>2, <2>2
<1>4. rank \in [members -> 0 .. n - 1]
  BY <1>1, <1>2
<1>5. rank \in Injection(members, 0 .. n - 1)
  <2> HIDE DEF rank
  <2>1. \A x, y \in members : rank[x] = rank[y] => x = y
    <3> SUFFICES ASSUME NEW x \in members, NEW y \in members, rank[x] = rank[y], x # y
                 PROVE  FALSE
      OBVIOUS
    <3>1. x < y \/ y < x
      OBVIOUS
    <3>2. rank[x] \in Nat /\ rank[y] \in Nat
      BY <1>1, <1>4
    <3> QED BY <1>3, <3>1, <3>2
  <2> QED BY <1>4, <2>1 DEF Injection, IsInjective
<1>6. IsFiniteSet(0 .. n - 1) /\ Cardinality(0 .. n - 1) = n
  <2> HIDE DEF n
  <2>1. Cardinality(0 .. n - 1) = IF 0 > n - 1 THEN 0 ELSE (n - 1) - 0 + 1
    BY <1>1, FS_Interval
  <2>2. IsFiniteSet(0 .. n - 1)
    BY <1>1, FS_Interval
  <2> QED BY <1>1, <2>1, <2>2
<1>7. rank \in Surjection(members, 0 .. n - 1)
  <2> HIDE DEF rank
  <2> QED BY <1>5, <1>6, FS_Injection
<1> DEFINE s == [k \in 1 .. n |-> CHOOSE x \in members : rank[x] = k - 1]
<1>8. \A k \in 1 .. n : s[k] \in members /\ rank[s[k]] = k - 1
  <2> HIDE DEF rank
  <2> SUFFICES ASSUME NEW k \in 1 .. n
               PROVE  s[k] \in members /\ rank[s[k]] = k - 1
    OBVIOUS
  <2>1. k - 1 \in 0 .. n - 1
    BY <1>1
  <2>2. \E x \in members : rank[x] = k - 1
    BY <1>7, <2>1 DEF Surjection
  <2> QED BY <2>2
<1>9. Ascending(s)
  <2>1. DOMAIN s = 1 .. n
    OBVIOUS
  <2> HIDE DEF s, rank, n
  <2> SUFFICES ASSUME NEW k \in 1 .. n, NEW m \in 1 .. n, k < m
               PROVE  s[k] < s[m]
    BY <2>1 DEF Ascending
  <2>2. s[k] \in members /\ rank[s[k]] = k - 1 /\ s[m] \in members /\ rank[s[m]] = m - 1
    BY <1>8
  <2>3. ~(k - 1 > m - 1) /\ k - 1 # m - 1
    BY <1>1
  <2>4. ~(s[m] < s[k])
    BY <1>3, <1>1, <2>2, <2>3
  <2>5. s[m] # s[k]
    BY <2>2, <2>3
  <2>6. s[k] \in Nat /\ s[m] \in Nat
    BY <2>2
  <2> QED BY <2>4, <2>5, <2>6
<1> QED BY <1>1, <1>8, <1>9

LEMMA SetOfTexts ==
    ASSUME NEW texts \in Seq(Valid)
    PROVE  /\ AsSet(texts) \in Seq(Valid) /\ Ascending(AsSet(texts))
           /\ ToSet(AsSet(texts)) = ToSet(texts)
<1> DEFINE members == ToSet(texts)
           n == Cardinality(members)
           s == AsSet(texts)
<1>1. members \in SUBSET Valid /\ members \in SUBSET Nat
  <2>1. \A i \in DOMAIN texts : texts[i] \in Valid
    OBVIOUS
  <2> QED BY <2>1, TextsAssumption DEF ToSet, Valid
<1>2. IsFiniteSet(members)
  <2>1. texts \in Surjection(1 .. Len(texts), members)
    BY DEF Surjection, ToSet
  <2>2. IsFiniteSet(1 .. Len(texts))
    BY FS_Interval
  <2> QED BY <2>1, <2>2, FS_Surjection
<1>3. n \in Nat /\ s \in [1 .. n -> members] /\ Ascending(s)
  BY <1>1, <1>2, SetsHaveOrder DEF AsSet, InOrder
<1>4. s \in Seq(Valid)
  BY <1>1, <1>3
<1>5. ToSet(s) = members
  <2> HIDE DEF s, members
  <2>1. s \in Injection(1 .. n, members)
    <3>1. \A k, m \in 1 .. n : s[k] = s[m] => k = m
      <4> SUFFICES ASSUME NEW k \in 1 .. n, NEW m \in 1 .. n, s[k] = s[m], k # m
                   PROVE  FALSE
        OBVIOUS
      <4>1. k < m \/ m < k
        OBVIOUS
      <4>2. s[k] \in Nat /\ s[m] \in Nat
        BY <1>1, <1>3
      <4> QED BY <1>3, <4>1, <4>2 DEF Ascending
    <3> QED BY <1>3, <3>1 DEF Injection, IsInjective
  <2>2. IsFiniteSet(1 .. n) /\ Cardinality(1 .. n) = n
    BY <1>3, FS_Interval
  <2>3. s \in Surjection(1 .. n, members)
    BY <1>2, <2>1, <2>2, FS_Injection
  <2> QED BY <1>3, <2>3 DEF Surjection, ToSet
<1> QED BY <1>3, <1>4, <1>5

-----------------------------------------------------------------------------
(* What an argument is read as                                               *)

(* What a request is, from any client: texts where texts are expected, one   *)
(* for a path parameter, and at most one document as the body.               *)
RequestOK ==
    /\ request.body \in Streams
    /\ \A i \in In(Args, "path") : request.path[i] \in {<<t>> : t \in Texts}

LEMMA ArgsAreASequence ==
    ASSUME endpoint \in Endpoints
    PROVE  Len(Args) \in Nat /\ DOMAIN Args = 1 .. Len(Args)
<1> DEFINE Allowed == UNION {[place : {p}, shape : Shapes(p), safe : BOOLEAN] :
                                 p \in {"path", "query", "header", "body"}}
<1>1. Args \in Seq(Allowed)
  BY ArgsAssumption DEF Args
<1> HIDE DEF Allowed
<1> QED BY <1>1

(* The shapes that an argument can have in its place.                        *)
LEMMA ArgShapes ==
    ASSUME endpoint \in Endpoints, NEW i \in DOMAIN Args
    PROVE  /\ Args[i].place \in {"path", "query", "header", "body"}
           /\ Args[i].place = "path" => Args[i].shape = "required"
           /\ Args[i].place = "query" => Args[i].shape \in {"required", "optional", "list", "set"}
           /\ Args[i].place = "header" => Args[i].shape \in {"required", "optional"}
           /\ Args[i].place = "body" => Args[i].shape \in {"required", "optional", "binary"}
           /\ Args[i].safe \in BOOLEAN
           /\ endpoint.server = "trait" => Args[i].shape # "binary"
           /\ endpoint.server \in {"ir", "trait"}
           /\ Len(Args) \in Nat /\ DOMAIN Args = 1 .. Len(Args)
           /\ endpoint.auth \in BOOLEAN /\ endpoint.authAt \in 0 .. Len(Args)
<1> DEFINE Allowed == UNION {[place : {p}, shape : Shapes(p), safe : BOOLEAN] :
                                 p \in {"path", "query", "header", "body"}}
<1>1. Args \in Seq(Allowed)
  BY ArgsAssumption DEF Args
<1>2. PICK p \in {"path", "query", "header", "body"} :
        Args[i] \in [place : {p}, shape : Shapes(p), safe : BOOLEAN]
  <2>1. Args[i] \in Allowed
    <3> HIDE DEF Allowed
    <3> QED BY <1>1
  <2> QED BY <2>1
<1>3. Args[i].place = p /\ Args[i].shape \in Shapes(p) /\ Args[i].safe \in BOOLEAN
  BY <1>2
<1>4. Len(Args) \in Nat /\ DOMAIN Args = 1 .. Len(Args)
  BY ArgsAreASequence
<1>5. /\ endpoint.server = "trait" => Args[i].shape # "binary"
      /\ endpoint.server \in {"ir", "trait"}
      /\ endpoint.auth \in BOOLEAN /\ endpoint.authAt \in 0 .. Len(Args)
  BY EndpointsAssumption DEF Args
<1> QED BY <1>3, <1>4, <1>5 DEF Shapes

LEMMA OneText ==
    ASSUME NEW texts \in Seq(Valid)
    PROVE  /\ Len(texts) = 1 => texts \in Ones
           /\ Len(texts) <= 1 => texts \in {<<>>} \cup Ones
<1>1. CASE Len(texts) = 1
  <2>1. texts[1] \in Valid /\ texts = <<texts[1]>>
    BY <1>1
  <2> QED BY <1>1, <2>1 DEF Ones
<1>2. CASE Len(texts) = 0
  BY <1>2
<1>3. Len(texts) \in Nat
  OBVIOUS
<1> QED BY <1>1, <1>2, <1>3

(* A text that FromStr reads is spelled by what it is read as.               *)
LEMMA Spelled ==
    ASSUME NEW i, Args[i].place # "body", endpoint.server = "trait",
           NEW text \in Readable
    PROVE  FromStr(text) \in Valid /\ Spells(i, text, FromStr(text))
<1>1. CASE \E v \in DOMAIN Display : Display[v] = text
  <2>1. FromStr(text) \in DOMAIN Display /\ Display[FromStr(text)] = text
    BY <1>1 DEF FromStr
  <2> QED BY <2>1, DisplayAssumption DEF Spells, Valid
<1>2. CASE ~\E v \in DOMAIN Display : Display[v] = text
  BY <1>2, DisplayAssumption DEF FromStr, Spells, Readable, Valid
<1> QED BY <1>1, <1>2

(* What a trait's decoder makes of the texts of an argument.                 *)
LEMMA TextsDecoded ==
    ASSUME NEW i \in DOMAIN Args, Args[i].place # "body", endpoint.server = "trait",
           Args[i].shape \in {"required", "optional", "list", "set"},
           NEW texts, DecodeTexts(Args[i].shape, texts).ok
    PROVE  LET v == DecodeTexts(Args[i].shape, texts).value
           IN /\ v \in Seq(Valid) /\ OfShape(Args[i].shape, v)
              /\ Args[i].shape # "set" =>
                    Len(v) = Len(texts) /\ \A n \in DOMAIN v : Spells(i, texts[n], v[n])
              /\ Args[i].shape = "set" =>
                    /\ \A t \in ToSet(texts) : \E x \in ToSet(v) : Spells(i, t, x)
                    /\ \A x \in ToSet(v) : \E t \in ToSet(texts) : Spells(i, t, x)
<1> DEFINE shape == Args[i].shape
           read == [n \in DOMAIN texts |-> FromStr(texts[n])]
           v == DecodeTexts(shape, texts).value
<1>1. /\ texts \in Seq(Readable)
      /\ ~(shape = "required" /\ Len(texts) # 1)
      /\ ~(shape = "optional" /\ Len(texts) > 1)
      /\ v = IF shape = "set" THEN AsSet(read) ELSE read
  BY DEF DecodeTexts, Ok, Err
<1>2. \A n \in DOMAIN texts : FromStr(texts[n]) \in Valid /\ Spells(i, texts[n], FromStr(texts[n]))
  BY <1>1, Spelled
<1>3. read \in Seq(Valid) /\ Len(read) = Len(texts) /\ Len(texts) \in Nat
      /\ DOMAIN read = DOMAIN texts
  BY <1>1, <1>2
<1>4. CASE shape = "set"
  <2>1. v \in Seq(Valid) /\ Ascending(v) /\ ToSet(v) = ToSet(read)
    <3> HIDE DEF read
    <3> QED BY <1>1, <1>3, <1>4, SetOfTexts
  <2>2. \A t \in ToSet(texts) : \E x \in ToSet(read) : Spells(i, t, x)
    BY <1>2 DEF ToSet
  <2>3. \A x \in ToSet(read) : \E t \in ToSet(texts) : Spells(i, t, x)
    BY <1>2 DEF ToSet
  <2>4. OfShape(shape, v)
    BY <1>4, <2>1 DEF OfShape
  <2> HIDE DEF read
  <2> QED BY <1>4, <2>1, <2>2, <2>3, <2>4
<1>5. CASE shape # "set"
  <2>1. v = read
    BY <1>1, <1>5
  <2>2. \A n \in DOMAIN read : Spells(i, texts[n], read[n])
    BY <1>2
  <2>3. OfShape(shape, read)
    <3> HIDE DEF read
    <3>1. CASE shape = "required"
      <4>1. read \in Ones
        BY <1>1, <1>3, <3>1, OneText
      <4> QED BY <3>1, <4>1 DEF OfShape
    <3>2. CASE shape = "optional"
      <4>1. read \in {<<>>} \cup Ones
        BY <1>1, <1>3, <3>2, OneText
      <4> QED BY <3>2, <4>1 DEF OfShape
    <3>3. CASE shape = "list"
      BY <1>3, <3>3 DEF OfShape
    <3> QED BY <1>5, <3>1, <3>2, <3>3
  <2> HIDE DEF read
  <2> QED BY <1>3, <1>5, <2>1, <2>2, <2>3
<1> QED BY <1>4, <1>5

(* The reference's texts of a query argument are those the server groups.    *)
LEMMA QueryCarried ==
    ASSUME NEW i, Args[i].place = "query"
    PROVE  Carried(i) = QueryParams(request.query, i)
BY DEF Carried, QueryParams

LEMMA FromPlainReads ==
    ASSUME NEW texts, FromPlain(texts).ok
    PROVE  FromPlain(texts).value = texts /\ texts \in Seq(Valid)
BY DEF FromPlain, Ok, Err

(* The forms in which a request says a value.                                *)
LEMMA SaysInOrder ==
    ASSUME NEW i, NEW v, OfShape(Args[i].shape, v), Args[i].shape # "set",
           ~(Args[i].place = "header" /\ endpoint.server = "ir"),
           ~(Args[i].place = "body" /\ request.type = "none"),
           Len(v) = Len(Carried(i)), \A n \in DOMAIN v : Spells(i, Carried(i)[n], v[n])
    PROVE  Says(i, v)
<1> DEFINE texts == Carried(i)
<1> HIDE DEF texts
<1> QED BY DEF Says, texts

LEMMA SaysAsSet ==
    ASSUME NEW i, NEW v, OfShape("set", v), Args[i].shape = "set",
           \A t \in ToSet(Carried(i)) : \E x \in ToSet(v) : Spells(i, t, x),
           \A x \in ToSet(v) : \E t \in ToSet(Carried(i)) : Spells(i, t, x)
    PROVE  Says(i, v)
BY Zenon DEF Says

LEMMA SaysFirst ==
    ASSUME NEW i, NEW v, OfShape(Args[i].shape, v), Args[i].shape # "set",
           Args[i].place = "header", endpoint.server = "ir",
           IF Carried(i) = <<>> THEN v = <<>> ELSE v = <<Head(Carried(i))>>
    PROVE  Says(i, v)
<1> DEFINE texts == Carried(i)
<1> HIDE DEF texts
<1> QED BY DEF Says, texts

LEMMA SaysNothing ==
    ASSUME NEW i, Args[i].shape # "set", OfShape(Args[i].shape, <<>>),
           Args[i].place = "body", request.type = "none"
    PROVE  Says(i, <<>>)
BY DEF Says

LEMMA Nothing ==
    /\ <<>> \in Seq(Valid) /\ <<>> \in Seq(Texts) /\ <<>> \in Streams
    /\ OfShape("optional", <<>>) /\ OfShape("list", <<>>) /\ OfShape("set", <<>>)
<1>1. <<>> \in Seq(Valid) /\ <<>> \in Seq(Texts)
  OBVIOUS
<1>2. \A n \in DOMAIN <<>> : FALSE
  OBVIOUS
<1> QED BY <1>1, <1>2 DEF OfShape, Ascending, Streams

(* A JSON body is read as it is.                                             *)
LEMMA BodySays ==
    ASSUME RequestOK, NEW i, Args[i].place = "body",
           Args[i].shape \in {"required", "optional"},
           DecodeJsonBody(request, Args[i].shape).ok
    PROVE  LET v == DecodeJsonBody(request, Args[i].shape).value
           IN v \in Seq(Valid) /\ Says(i, v)
<1> DEFINE v == DecodeJsonBody(request, Args[i].shape).value
<1>1. /\ v = request.body /\ v \in Seq(Valid) /\ request.type = "json"
      /\ Args[i].shape = "required" => v # <<>>
  BY FromPlainReads DEF DecodeJsonBody, Err
<1>2. Carried(i) = v
  BY <1>1 DEF Carried
<1>3. v = <<>> \/ \E t \in Texts : v = <<t>>
  BY <1>1 DEF RequestOK, Streams
<1> HIDE DEF v
<1>4. v = <<>> \/ v \in Ones
  <2>1. ASSUME NEW t \in Texts, v = <<t>>
        PROVE  v \in Ones
    <3>1. Len(v) = 1
      BY <2>1
    <3> QED BY <1>1, <3>1, OneText
  <2> QED BY <1>3, <2>1
<1>5. OfShape(Args[i].shape, v)
  BY <1>1, <1>4 DEF OfShape
<1>6. \A n \in DOMAIN v : Spells(i, Carried(i)[n], v[n])
  BY <1>2 DEF Spells
<1>7. Says(i, v)
  BY <1>1, <1>2, <1>5, <1>6, SaysInOrder
<1> QED BY <1>1, <1>7 DEF v

(* A generated endpoint of the IR reads what the request says.               *)
LEMMA ParseSays ==
    ASSUME endpoint \in Endpoints, RequestOK, endpoint.server = "ir",
           NEW i \in DOMAIN Args, Parse(request, i, Args[i]).ok
    PROVE  LET v == Parse(request, i, Args[i]).value
           IN v \in Seq(Texts) /\ Says(i, v)
<1> DEFINE v == Parse(request, i, Args[i]).value
           shape == Args[i].shape
<1> SUFFICES v \in Seq(Texts) /\ Says(i, v)
  OBVIOUS
<1> HIDE DEF v
<1>a. \A w : w \in Seq(Valid) => w \in Seq(Texts)
  BY SeqMonotonic DEF Valid
<1>b. \A w : \A n \in DOMAIN w : Spells(i, w[n], w[n])
  BY DEF Spells
<1>1. CASE Args[i].place = "path"
  <2>1. /\ shape = "required" /\ v = request.path[i] /\ v \in Seq(Valid)
    BY <1>1, ArgShapes, FromPlainReads DEF Parse, ParsePathParam, v
  <2>2. \E t \in Texts : v = <<t>>
    BY <1>1, <2>1 DEF RequestOK, In
  <2>3. v \in Ones
    <3>1. Len(v) = 1
      BY <2>2
    <3> QED BY <2>1, <3>1, OneText
  <2>4. Carried(i) = v
    BY <1>1, <2>1 DEF Carried
  <2>5. OfShape(shape, v)
    BY <2>1, <2>3 DEF OfShape
  <2> QED BY <1>1, <1>a, <1>b, <2>1, <2>4, <2>5, SaysInOrder
<1>2. CASE Args[i].place = "query"
  <2> DEFINE texts == QueryParams(request.query, i)
  <2>1. Carried(i) = texts
    BY <1>2, QueryCarried
  <2>2. v = ParseQueryParam(request, i, shape).value /\ ParseQueryParam(request, i, shape).ok
    BY <1>2 DEF Parse, v
  <2>3. shape \in {"required", "optional", "list", "set"}
    BY <1>2, ArgShapes
  <2>4. /\ texts = <<>> => shape # "required" /\ v = <<>>
        /\ texts # <<>> /\ shape = "set" =>
              SetFromPlain(texts).ok /\ v = SetFromPlain(texts).value
        /\ texts # <<>> /\ shape # "set" =>
              /\ FromPlain(texts).ok /\ v = FromPlain(texts).value
              /\ shape \in {"required", "optional"} => Len(texts) = 1
    BY <2>2, <2>3 DEF ParseQueryParam, Ok, Err
  <2> HIDE DEF texts
  <2>5. CASE texts = <<>>
    <3>1. OfShape(shape, v) /\ v = texts
      BY <2>3, <2>4, <2>5, Nothing
    <3>2. CASE shape = "set"
      <4>1. \A t \in ToSet(v) : Spells(i, t, t)
        BY DEF Spells
      <4> QED BY <2>1, <2>4, <2>5, <3>1, <3>2, <4>1, Nothing, SaysAsSet
    <3>3. CASE shape # "set"
      BY <1>2, <1>b, <2>1, <2>4, <2>5, <3>1, <3>3, Nothing, SaysInOrder
    <3> QED BY <3>2, <3>3
  <2>6. CASE texts # <<>> /\ shape = "set"
    <3>1. texts \in Seq(Valid) /\ v = AsSet(texts)
      BY <2>4, <2>6, FromPlainReads DEF SetFromPlain, Ok
    <3>2. v \in Seq(Valid) /\ Ascending(v) /\ ToSet(v) = ToSet(texts)
      BY <3>1, SetOfTexts
    <3>3. OfShape("set", v)
      BY <3>2 DEF OfShape
    <3>4. \A t \in ToSet(v) : Spells(i, t, t)
      BY DEF Spells
    <3> QED BY <1>a, <2>1, <2>6, <3>2, <3>3, <3>4, SaysAsSet
  <2>7. CASE texts # <<>> /\ shape # "set"
    <3>1. v = texts /\ texts \in Seq(Valid)
      BY <2>4, <2>7, FromPlainReads
    <3>2. CASE shape = "list"
      BY <1>2, <1>a, <1>b, <2>1, <3>1, <3>2, SaysInOrder DEF OfShape
    <3>3. CASE shape \in {"required", "optional"}
      <4>1. v \in Ones
        BY <2>4, <2>7, <3>1, <3>3, OneText
      <4>2. OfShape(shape, v)
        BY <3>3, <4>1 DEF OfShape
      <4> QED BY <1>2, <1>a, <1>b, <2>1, <2>7, <3>1, <4>2, SaysInOrder
    <3> QED BY <2>3, <2>7, <3>2, <3>3
  <2> QED BY <2>5, <2>6, <2>7
<1>3. CASE Args[i].place = "header"
  <2> DEFINE texts == request.headers[i]
  <2>1. Carried(i) = texts
    BY <1>3 DEF Carried
  <2>2. shape \in {"required", "optional"}
    BY <1>3, ArgShapes
  <2>3. v = ParseHeader(request, i, shape).value /\ ParseHeader(request, i, shape).ok
    BY <1>3 DEF Parse, v
  <2>4. /\ texts = <<>> => shape = "optional" /\ v = <<>>
        /\ texts # <<>> => /\ FromPlain(<<Head(texts)>>).ok
                           /\ v = FromPlain(<<Head(texts)>>).value
    BY <2>2, <2>3 DEF ParseHeader, Ok, Err
  <2> HIDE DEF texts
  <2>5. CASE texts = <<>>
    BY <1>3, <2>1, <2>4, <2>5, Nothing, SaysFirst
  <2>6. CASE texts # <<>>
    <3>1. v = <<Head(texts)>> /\ v \in Seq(Valid)
      BY <2>4, <2>6, FromPlainReads
    <3>2. v \in Ones
      <4>1. Len(v) = 1
        BY <3>1
      <4> QED BY <3>1, <4>1, OneText
    <3>3. OfShape(shape, v)
      BY <2>2, <3>2 DEF OfShape
    <3> QED BY <1>3, <1>a, <2>1, <2>2, <2>6, <3>1, <3>3, SaysFirst
  <2> QED BY <2>5, <2>6
<1>4. CASE Args[i].place = "body"
  <2>1. Carried(i) = request.body /\ request.body \in Streams
    BY <1>4 DEF Carried, RequestOK
  <2>2. v = DecodeBody(request, shape).value /\ DecodeBody(request, shape).ok
    BY <1>4 DEF Parse, v
  <2>3. shape \in {"required", "optional", "binary"}
    BY <1>4, ArgShapes
  <2>4. \A w \in Streams : w \in Seq(Texts)
    <3>1. \A t \in Texts : <<t>> \in Seq(Texts)
      OBVIOUS
    <3> QED BY <3>1, Nothing DEF Streams
  <2>5. CASE shape = "binary"
    <3>1. v = request.body /\ request.type = "octet"
      BY <2>2, <2>5 DEF DecodeBody, Ok, Err
    <3>2. OfShape(shape, v)
      BY <2>1, <2>5, <3>1 DEF OfShape
    <3> QED BY <1>4, <1>b, <2>1, <2>4, <2>5, <3>1, <3>2, SaysInOrder
  <2>6. CASE shape = "optional" /\ request.type = "none"
    <3>1. v = <<>>
      BY <2>2, <2>6 DEF DecodeBody, Ok
    <3> QED BY <1>4, <2>6, <3>1, Nothing, SaysNothing
  <2>7. CASE shape # "binary" /\ ~(shape = "optional" /\ request.type = "none")
    <3>1. DecodeJsonBody(request, shape).ok /\ v = DecodeJsonBody(request, shape).value
      BY <2>2, <2>3, <2>7 DEF DecodeBody
    <3> QED BY <1>4, <1>a, <2>3, <2>7, <3>1, BodySays
  <2> QED BY <2>5, <2>6, <2>7
<1> QED BY <1>1, <1>2, <1>3, <1>4, ArgShapes

(* So does an endpoint of a trait.                                           *)
LEMMA TraitParseSays ==
    ASSUME endpoint \in Endpoints, RequestOK, endpoint.server = "trait",
           NEW i \in DOMAIN Args, TraitParse(request, i, Args[i]).ok
    PROVE  LET v == TraitParse(request, i, Args[i]).value
           IN v \in Seq(Texts) /\ Says(i, v)
<1> DEFINE v == TraitParse(request, i, Args[i]).value
           shape == Args[i].shape
<1> SUFFICES v \in Seq(Texts) /\ Says(i, v)
  OBVIOUS
<1> HIDE DEF v
<1>a. \A w : w \in Seq(Valid) => w \in Seq(Texts)
  BY SeqMonotonic DEF Valid
<1>1. CASE Args[i].place = "body"
  <2>1. /\ DecodeJsonBody(request, shape).ok /\ v = DecodeJsonBody(request, shape).value
        /\ shape \in {"required", "optional"}
    BY <1>1, ArgShapes DEF TraitParse, v
  <2> QED BY <1>1, <1>a, <2>1, BodySays
<1>2. CASE Args[i].place # "body"
  <2> DEFINE texts == Carried(i)
  <2>1. DecodeTexts(shape, texts).ok /\ v = DecodeTexts(shape, texts).value
    <3>1. CASE Args[i].place = "path"
      BY <3>1 DEF TraitParse, Carried, v
    <3>2. CASE Args[i].place = "query"
      <4>1. texts = QueryParams(request.query, i)
        BY <3>2, QueryCarried
      <4> HIDE DEF texts
      <4> QED BY <3>2, <4>1 DEF TraitParse, v
    <3>3. CASE Args[i].place = "header"
      BY <3>3 DEF TraitParse, Carried, Err, v
    <3> QED BY <1>2, <3>1, <3>2, <3>3, ArgShapes
  <2> HIDE DEF texts
  <2>2. shape \in {"required", "optional", "list", "set"}
    BY <1>2, ArgShapes
  <2>3. /\ v \in Seq(Valid) /\ OfShape(shape, v)
        /\ shape # "set" =>
              Len(v) = Len(texts) /\ \A n \in DOMAIN v : Spells(i, texts[n], v[n])
        /\ shape = "set" =>
              /\ \A t \in ToSet(texts) : \E x \in ToSet(v) : Spells(i, t, x)
              /\ \A x \in ToSet(v) : \E t \in ToSet(texts) : Spells(i, t, x)
    BY <1>2, <2>1, <2>2, TextsDecoded
  <2>4. CASE shape = "set"
    BY <1>a, <2>3, <2>4, SaysAsSet DEF texts
  <2>5. CASE shape # "set"
    <3>1. endpoint.server # "ir"
      OBVIOUS
    <3> QED BY <1>2, <1>a, <2>3, <2>5, <3>1, SaysInOrder DEF texts
  <2> QED BY <2>4, <2>5
<1> QED BY <1>1, <1>2

(* The argument that is next is read as the request says.                    *)
LEMMA NextSays ==
    ASSUME endpoint \in Endpoints, RequestOK, NEW i \in DOMAIN Args,
           i = Len(parsed) + 1, ParseNext.ok
    PROVE  ParseNext.value \in Seq(Texts) /\ Says(i, ParseNext.value)
<1>1. CASE endpoint.server = "trait"
  <2>1. ParseNext = TraitParse(request, i, Args[i])
    BY <1>1 DEF ParseNext
  <2> QED BY <1>1, <2>1, TraitParseSays
<1>2. CASE endpoint.server = "ir"
  <2>1. ParseNext = Parse(request, i, Args[i])
    BY <1>2 DEF ParseNext
  <2> QED BY <1>2, <2>1, ParseSays
<1> QED BY <1>1, <1>2, ArgShapes

-----------------------------------------------------------------------------
(* The requests there are                                                    *)

(* The values of the caller are those of the arguments.                      *)
ValuesOK ==
    /\ endpoint \in Endpoints
    /\ values # None => values \in Arguments(endpoint)

LEMMA TheBody ==
    ASSUME endpoint \in Endpoints, NEW i \in In(Args, "body")
    PROVE  (CHOOSE j \in In(Args, "body") : TRUE) = i
BY ArgsAssumption DEF Args

LEMMA ValuesFit ==
    ASSUME ValuesOK, values # None, NEW i \in DOMAIN Args
    PROVE  /\ values[i] \in Seq(Texts)
           /\ Args[i].place = "body" => values[i] \in Streams
           /\ Args[i].place = "path" => values[i] \in Ones
<1>1. values[i] \in ValuesOf(Args[i].shape) /\ values[i] \in Many \cup Streams
  BY DEF ValuesOK, Arguments, Args
<1>2. Valid \subseteq Texts
  BY DEF Valid
<1>3. \A t, u \in Texts : <<>> \in Seq(Texts) /\ <<t>> \in Seq(Texts) /\ <<t, u>> \in Seq(Texts)
  OBVIOUS
<1>4. values[i] \in Seq(Texts)
  <2>1. \A w \in Ones : w \in Seq(Texts)
    BY <1>2, <1>3 DEF Ones
  <2>2. \A w \in Many : w \in Seq(Texts)
    <3>1. \A t, u \in Valid : <<t, u>> \in Seq(Texts)
      BY <1>2, <1>3
    <3> DEFINE Pairs == {<<t, u>> : t, u \in Valid}
    <3>2. ASSUME NEW w \in Pairs
          PROVE  w \in Seq(Texts)
      <4>1. PICK t \in Valid, u \in Valid : w = <<t, u>>
        BY <3>2
      <4> QED BY <3>1, <4>1
    <3>3. Many = {<<>>} \cup Ones \cup Pairs
      BY DEF Many
    <3> HIDE DEF Pairs
    <3> QED BY <2>1, <3>2, <3>3, Nothing
  <2>3. \A w \in Streams : w \in Seq(Texts)
    BY <1>3, Nothing DEF Streams
  <2> QED BY <1>1, <2>2, <2>3
<1>5. Ones \subseteq Streams /\ <<>> \in Streams
  BY <1>2 DEF Ones, Streams
<1>6. endpoint \in Endpoints
  BY DEF ValuesOK
<1>7. Args[i].place = "body" => values[i] \in Streams
  BY <1>1, <1>5, <1>6, ArgShapes DEF ValuesOf
<1>8. Args[i].place = "path" => values[i] \in Ones
  BY <1>1, <1>6, ArgShapes DEF ValuesOf
<1> QED BY <1>4, <1>7, <1>8

(* The request for texts that travel as documents and single texts.          *)
LEMMA SentOK ==
    ASSUME ValuesOK, NEW texts,
           \A i \in In(Args, "body") : texts[i] \in Streams,
           \A i \in In(Args, "path") : texts[i] \in {<<t>> : t \in Texts},
           request' = Request(endpoint, texts), UNCHANGED endpoint
    PROVE  RequestOK'
<1>1. /\ request'.body = IF In(Args, "body") = {} THEN <<>>
                         ELSE texts[CHOOSE i \in In(Args, "body") : TRUE]
      /\ request'.path = [i \in In(Args, "path") |-> texts[i]]
      /\ Args' = Args
  BY DEF Request, Args
<1>2. request'.body \in Streams
  BY <1>1, Nothing
<1> QED BY <1>1, <1>2 DEF RequestOK

LEMMA TraitTextsFit ==
    ASSUME ValuesOK, values # None
    PROVE  /\ \A i \in In(Args, "body") : TraitTexts(Args, values)[i] \in Streams
           /\ \A i \in In(Args, "path") :
                 TraitTexts(Args, values)[i] \in {<<t>> : t \in Texts}
<1>1. \A i \in In(Args, "body") : TraitTexts(Args, values)[i] \in Streams
  <2> SUFFICES ASSUME NEW i \in In(Args, "body")
               PROVE  TraitTexts(Args, values)[i] \in Streams
    OBVIOUS
  <2>1. TraitTexts(Args, values)[i] = values[i]
    BY DEF TraitTexts, In
  <2> QED BY <2>1, ValuesFit DEF In
<1>2. ASSUME NEW i \in In(Args, "path")
      PROVE  TraitTexts(Args, values)[i] \in {<<t>> : t \in Texts}
  <2>1. TraitTexts(Args, values)[i] = Encoded(values[i])
    BY DEF TraitTexts, In
  <2>2. PICK t \in Valid : values[i] = <<t>>
    BY ValuesFit DEF In, Ones
  <2>3. Encoded(<<t>>) = <<Display[t]>>
    BY DEF Encoded
  <2>4. Display[t] \in Texts
    BY DisplayAssumption DEF Valid
  <2> QED BY <2>1, <2>2, <2>3, <2>4
<1> QED BY <1>1, <1>2

(* What does not parse is refused as invalid, or panics.                     *)
LEMMA ParseFails ==
    ASSUME endpoint \in Endpoints, NEW i \in DOMAIN Args, i = Len(parsed) + 1
    PROVE  ParseNext.ok \in BOOLEAN /\ (~ParseNext.ok => ParseNext.kind \in {"invalid", "panic"})
<1> DEFINE Outcome(o) == o.ok \in BOOLEAN /\ (~o.ok => o.kind \in {"invalid", "panic"})
<1>1. \A v : Outcome(Ok(v))
  BY DEF Ok
<1>2. Outcome(Err("invalid")) /\ Outcome(Err("panic"))
  BY DEF Err
<1>3. \A texts : Outcome(FromPlain(texts)) /\ Outcome(SetFromPlain(texts))
  BY DEF FromPlain, SetFromPlain, Ok, Err
<1>4. \A shape : Outcome(DecodeJsonBody(request, shape))
  BY <1>2, <1>3 DEF DecodeJsonBody
<1> HIDE DEF Outcome
<1>5. CASE endpoint.server = "trait"
  <2>1. ParseNext = TraitParse(request, i, Args[i])
    BY <1>5 DEF ParseNext
  <2>2. \A shape, texts : Outcome(DecodeTexts(shape, texts))
    BY <1>1, <1>2 DEF DecodeTexts
  <2>3. Outcome(TraitParse(request, i, Args[i]))
    BY <1>2, <1>4, <2>2, ArgShapes DEF TraitParse
  <2> QED BY <2>1, <2>3 DEF Outcome
<1>6. CASE endpoint.server # "trait"
  <2>1. ParseNext = Parse(request, i, Args[i])
    BY <1>6 DEF ParseNext
  <2> SUFFICES Outcome(Parse(request, i, Args[i]))
    BY <2>1 DEF Outcome
  <2>2. CASE Args[i].place = "path"
    <3>1. Parse(request, i, Args[i]) = FromPlain(request.path[i])
      BY <2>2 DEF Parse, ParsePathParam
    <3> QED BY <1>3, <3>1, Zenon
  <2>3. CASE Args[i].place = "query"
    <3> DEFINE texts == QueryParams(request.query, i)
    <3>1. \/ Parse(request, i, Args[i]) \in {Ok(<<>>), Err("invalid"), Err("panic")}
          \/ Parse(request, i, Args[i]) \in {FromPlain(texts), SetFromPlain(texts)}
      <4>1. Parse(request, i, Args[i]) = ParseQueryParam(request, i, Args[i].shape)
        BY <2>3 DEF Parse
      <4> HIDE DEF texts
      <4> QED BY <2>3, <4>1, ArgShapes DEF ParseQueryParam, texts
    <3> QED BY <1>1, <1>2, <1>3, <3>1, Zenon
  <2>4. CASE Args[i].place = "header"
    <3> DEFINE texts == request.headers[i]
    <3>1. Parse(request, i, Args[i]) \in
              {Ok(<<>>), Err("invalid"), FromPlain(<<Head(texts)>>)}
      BY <2>4 DEF Parse, ParseHeader
    <3> QED BY <1>1, <1>2, <1>3, <3>1, Zenon
  <2>5. CASE Args[i].place = "body"
    <3>1. Parse(request, i, Args[i]) \in
              {Ok(<<>>), Ok(request.body), Err("invalid"), DecodeJsonBody(request, Args[i].shape)}
      BY <2>5, ArgShapes DEF Parse, DecodeBody
    <3> QED BY <1>1, <1>2, <1>4, <3>1, Zenon
  <2> QED BY <2>2, <2>3, <2>4, <2>5, ArgShapes
<1> QED BY <1>5, <1>6

-----------------------------------------------------------------------------
(* The invariant                                                             *)

(* What has not begun has left nothing behind.                               *)
NotYet ==
    /\ pc \in {"build", "begin"} => parsed = <<>> /\ safe = None /\ token = None
    /\ pc \in {"build", "begin", "args"} => got = None
    /\ pc \in {"begin", "args"} => RequestOK

(* Every argument parsed so far is what the request says.                    *)
ParsedSays == \A i \in DOMAIN parsed : Says(i, parsed[i])

(* A trait's endpoint parses no argument behind the token without a good one.*)
TokenInTurn ==
    /\ endpoint.auth /\ endpoint.server = "trait" /\ Len(parsed) > endpoint.authAt =>
          request.auth = "good"
    /\ endpoint.auth /\ got # None => request.auth = "good"

(* What is logged is what was parsed, of the safe arguments and of all.      *)
Logged ==
    safe # None =>
        /\ safe \in Seq([arg : Nat, value : Seq(Texts)])
        /\ \A n \in DOMAIN safe :
              /\ safe[n].arg \in DOMAIN parsed /\ Args[safe[n].arg].safe
              /\ safe[n].value = parsed[safe[n].arg]
        /\ \A i \in DOMAIN parsed : Args[i].safe => \E n \in DOMAIN safe : safe[n].arg = i

(* A response that a client is about to read.                                *)
ResponseOK ==
    pc = "decode" =>
        /\ response.status \in {200, 204, 500}
        /\ response.status = 500 => response.type \in Kinds
        /\ response.status # 500 => response.body \in Seq(Texts)
        /\ response.status = 204 => response.type = "none"

RInv ==
    /\ TypeOK /\ ValuesOK /\ NotYet /\ ParsedSays /\ TokenInTurn /\ Logged
    /\ ResponseOK /\ AnswerIsTheResponse

(* What is said depends on the request alone.                                *)
LEMMA SaysStable ==
    ASSUME UNCHANGED <<endpoint, request>>
    PROVE  /\ Args' = Args
           /\ RequestOK => RequestOK'
           /\ \A i, v : Says(i, v) => Says(i, v)'
<1>1. Args' = Args
  BY DEF Args
<1>2. \A i : Carried(i)' = Carried(i)
  BY <1>1 DEF Carried
<1>3. \A i, t, v : Spells(i, t, v)' <=> Spells(i, t, v)
  BY <1>1 DEF Spells
<1>4. \A i, v : Says(i, v) => Says(i, v)'
  BY <1>1, <1>2, <1>3 DEF Says
<1> QED BY <1>1, <1>4 DEF RequestOK

LEMMA RInvHolds == Init => RInv
<1> SUFFICES ASSUME Init PROVE RInv
  OBVIOUS
<1>1. ValuesOK
  BY DEF Init, ValuesOK
<1>2. /\ pc = "build" /\ parsed = <<>> /\ safe = None /\ token = None /\ got = None
      /\ answer = None /\ endpoint \in Endpoints /\ foreign \in BOOLEAN
  BY DEF Init
<1>3. TypeOK
  <2>1. parsed \in Seq(Seq(Texts)) /\ Len(parsed) = 0
    BY <1>2
  <2>2. Len(Args) \in Nat
    BY <1>2, ArgsAreASequence
  <2> QED BY <1>2, <2>1, <2>2 DEF TypeOK
<1>4. NotYet /\ Logged /\ ResponseOK /\ AnswerIsTheResponse
  BY <1>2 DEF NotYet, Logged, ResponseOK, AnswerIsTheResponse
<1>5. ParsedSays
  BY <1>2 DEF ParsedSays
<1>6. TokenInTurn
  BY <1>2, EndpointsAssumption DEF TokenInTurn
<1> QED BY <1>1, <1>3, <1>4, <1>5, <1>6 DEF RInv

LEMMA NoneIsNoOutcome ==
    /\ \A kind \in Kinds : Err(kind) # None
    /\ \A v \in Seq(Texts) : Ok(v) # None
<1>1. \A kind \in Kinds : Err(kind) \in [ok : {FALSE}, kind : Kinds]
  BY DEF Err
<1>2. \A v \in Seq(Texts) : Ok(v) \in [ok : {TRUE}, value : Seq(Texts)]
  BY DEF Ok
<1> QED BY <1>1, <1>2, NoneAssumption

(* What a client comes to when it builds a request.                          *)
LEMMA BuiltKinds ==
    ASSUME NEW e, NEW v
    PROVE  Built(e, v) \in {Ok(Request(e, v)), Err("panic"), Err("internal")}
BY Zenon DEF Built

LEMMA OutcomesAre ==
    /\ \A v : Ok(v).ok /\ Ok(v).value = v
    /\ \A kind : ~Err(kind).ok /\ Err(kind).kind = kind
BY DEF Ok, Err

(* The client sends.                                                         *)
LEMMA SendKeeps ==
    ASSUME RInv, NEW texts, NEW built, Send(built),
           built \in {Ok(Request(endpoint, texts)), Err("panic"), Err("internal")},
           \A i \in In(Args, "body") : texts[i] \in Streams,
           \A i \in In(Args, "path") : texts[i] \in {<<t>> : t \in Texts}
    PROVE  RInv'
<1>0. pc = "build" /\ parsed = <<>> /\ safe = None /\ token = None /\ got = None
      /\ answer = None
  BY DEF Send, RInv, NotYet, TypeOK
<1>2. UNCHANGED <<endpoint, values, foreign, parsed, token, safe, got, returned>>
  BY DEF Send
<1>3. \/ pc' = "done" /\ answer' = Err("internal")
      \/ pc' = "unsent" /\ answer' = None
      \/ pc' = "begin" /\ answer' = None /\ request' = Request(endpoint, texts)
  <2> DEFINE sent == Request(endpoint, texts)
  <2> HIDE DEF sent
  <2>1. CASE built = Ok(sent)
    BY <1>0, <2>1, OutcomesAre DEF Send, sent
  <2>2. CASE built = Err("panic")
    BY <1>0, <2>2, OutcomesAre DEF Send
  <2>3. CASE built = Err("internal")
    BY <1>0, <2>3, OutcomesAre DEF Send
  <2> QED BY <2>1, <2>2, <2>3 DEF sent
<1>1. pc' \in {"done", "unsent", "begin"}
  BY <1>3
<1>4. Err("internal") # None /\ ~Err("internal").ok
  <2>1. Err("internal") # None
    <3>1. "internal" \in Kinds
      BY DEF Kinds
    <3> QED BY <3>1, NoneIsNoOutcome, Zenon
  <2> QED BY <2>1 DEF Err
<1>5. TypeOK' /\ ValuesOK'
  BY <1>0, <1>1, <1>2, <1>3, <1>4 DEF RInv, TypeOK, ValuesOK, HasSafeParams, Args
<1>6. NotYet'
  <2>1. pc' = "begin" => RequestOK'
    BY <1>0, <1>2, <1>3, SentOK DEF RInv
  <2> QED BY <1>0, <1>1, <1>2, <1>3, <2>1 DEF NotYet
<1>7. ParsedSays' /\ Logged' /\ ResponseOK' /\ AnswerIsTheResponse'
  BY <1>0, <1>1, <1>2, <1>3, <1>4 DEF ParsedSays, Logged, ResponseOK, AnswerIsTheResponse
<1>8. TokenInTurn'
  BY <1>0, <1>2, EndpointsAssumption DEF TokenInTurn, RInv, TypeOK
<1> QED BY <1>5, <1>6, <1>7, <1>8 DEF RInv

(* A step that leaves what was parsed alone: nothing of it is lost.          *)
LEMMA ParsedKept ==
    ASSUME RInv, UNCHANGED <<endpoint, values, request, parsed, safe, got>>
    PROVE  ValuesOK' /\ ParsedSays' /\ TokenInTurn' /\ Logged' /\ Args' = Args
<1>1. Args' = Args
  BY DEF Args
<1>2. ValuesOK' /\ TokenInTurn'
  BY DEF RInv, ValuesOK, TokenInTurn
<1>3. ParsedSays'
  BY SaysStable DEF RInv, ParsedSays
<1>4. Logged'
  BY <1>1 DEF RInv, Logged
<1> QED BY <1>1, <1>2, <1>3, <1>4

(* A refusal leaves an error response, or the server panics.                 *)
LEMMA FailKeeps ==
    ASSUME RInv, pc \in {"args", "handling", "encode"}, NEW kind \in Kinds \cup {"panic"},
           Fail(kind),
           UNCHANGED <<endpoint, values, foreign, request, parsed, token, safe, got,
                       answer>>
    PROVE  RInv'
<1>1. \/ pc' = "panicked"
      \/ pc' = "decode" /\ response' = Failure(kind) /\ kind \in Kinds
  BY DEF Fail
<1>2. answer = None
  BY DEF RInv, TypeOK
<1>3. ResponseOK'
  BY <1>1 DEF ResponseOK, Failure
<1>4. TypeOK'
  BY <1>1, <1>2 DEF RInv, TypeOK, HasSafeParams, Args, Failure
<1>5. NotYet' /\ AnswerIsTheResponse'
  BY <1>1, <1>2 DEF NotYet, AnswerIsTheResponse
<1> QED BY <1>3, <1>4, <1>5, ParsedKept DEF RInv

(* The value that a response holds, by the type of the result.               *)
HeldByResponse(v) ==
    CASE endpoint.returns = "void" -> v = <<>>
      [] endpoint.returns = "json" ->
           response.status = 200 /\ response.type = "json" /\ v = response.body
      [] endpoint.returns = "binary" -> response.type = "octet" /\ v = response.body
      [] OTHER -> v = IF response.status = 204 THEN <<>> ELSE response.body

(* The client takes the value that a response holds.                         *)
LEMMA DecodedFits ==
    ASSUME RInv, pc = "decode", response.status # 500,
           NEW o, o \in {Decode(endpoint.returns, response), TraitDecode(endpoint.returns, response)},
           endpoint.client = "trait" => o = TraitDecode(endpoint.returns, response),
           endpoint.client = "ir" => o = Decode(endpoint.returns, response)
    PROVE  /\ o # None
           /\ o.ok => HeldByResponse(o.value)
<1>1. /\ response.status \in {200, 204} /\ response.body \in Seq(Texts)
      /\ response.status = 204 => response.type = "none"
  BY DEF RInv, ResponseOK
<1>2. /\ endpoint.returns \in {"void", "json", "iterable", "binary", "optional binary"}
      /\ endpoint.client \in {"ir", "trait"}
      /\ endpoint.client = "trait" => endpoint.returns \in {"void", "json", "iterable"}
  BY ArgsAssumption, EndpointsAssumption DEF RInv, ValuesOK
<1>3. \A nullable :
        LET j == DecodeJson(response, nullable)
        IN j = Err("internal") \/ (j = Ok(response.body) /\ response.type = "json")
  BY DEF DecodeJson
<1>4. \/ DecodeBinary(response) = Err("internal")
      \/ DecodeBinary(response) = Ok(response.body) /\ response.type = "octet"
  BY DEF DecodeBinary
<1>5. \/ o = Err("internal")
      \/ o = Ok(<<>>) /\ endpoint.returns = "void"
      \/ o = Ok(<<>>) /\ response.status = 204 /\ endpoint.returns \in {"iterable", "optional binary"}
      \/ o = Ok(response.body) /\ response.type = "json" /\ endpoint.returns \in {"json", "iterable"}
      \/ o = Ok(response.body) /\ response.type = "octet"
         /\ endpoint.returns \in {"binary", "optional binary"}
  <2>1. CASE endpoint.client = "trait"
    BY <1>2, <1>3, <2>1 DEF TraitDecode
  <2>2. CASE endpoint.client = "ir"
    <3>1. CASE endpoint.returns = "void"
      BY <2>2, <3>1 DEF Decode
    <3>2. CASE endpoint.returns = "json"
      <4>1. o = DecodeJson(response, FALSE)
        BY <2>2, <3>2 DEF Decode
      <4> QED BY <1>3, <3>2, <4>1
    <3>3. CASE endpoint.returns = "iterable"
      BY <1>3, <2>2, <3>3 DEF Decode
    <3>4. CASE endpoint.returns = "binary"
      BY <1>4, <2>2, <3>4 DEF Decode
    <3>5. CASE endpoint.returns = "optional binary"
      <4>1. o = IF response.status = 204 THEN Ok(<<>>) ELSE DecodeBinary(response)
        BY <2>2, <3>5 DEF Decode
      <4> QED BY <1>4, <3>5, <4>1
    <3> QED BY <1>2, <3>1, <3>2, <3>3, <3>4, <3>5
  <2> QED BY <1>2, <2>1, <2>2
<1>6. o # None
  <2>1. Ok(<<>>) # None /\ Ok(response.body) # None
    <3>1. <<>> \in Seq(Texts) /\ response.body \in Seq(Texts)
      BY <1>1
    <3> QED BY <3>1, NoneIsNoOutcome, Zenon
  <2>2. Err("internal") # None
    <3>1. "internal" \in Kinds
      BY DEF Kinds
    <3> QED BY <3>1, NoneIsNoOutcome, Zenon
  <2> QED BY <1>5, <2>1, <2>2
<1>7. /\ ~Err("internal").ok
      /\ Ok(<<>>).value = <<>> /\ Ok(response.body).value = response.body
  BY DEF Err, Ok
<1>8. endpoint.returns = "void" => HeldByResponse(<<>>)
  BY DEF HeldByResponse
<1>9. response.status = 204 /\ endpoint.returns \in {"iterable", "optional binary"} =>
          HeldByResponse(<<>>)
  BY DEF HeldByResponse
<1>10. response.type = "json" /\ endpoint.returns \in {"json", "iterable"} =>
           HeldByResponse(response.body)
  BY <1>1 DEF HeldByResponse
<1>11. response.type = "octet" /\ endpoint.returns \in {"binary", "optional binary"} =>
           HeldByResponse(response.body)
  BY <1>1 DEF HeldByResponse
<1> QED BY <1>5, <1>6, <1>7, <1>8, <1>9, <1>10, <1>11

LEMMA DecodedKeeps ==
    ASSUME RInv, pc = "decode", NEW o, Decoded(o), o # None,
           o.ok => HeldByResponse(o.value)
    PROVE  RInv'
<1>1. /\ pc' = "done" /\ answer' = o
      /\ UNCHANGED <<endpoint, values, foreign, request, parsed, token, safe, got,
                     returned, response>>
  BY DEF Decoded
<1>2. AnswerIsTheResponse'
  BY <1>1 DEF AnswerIsTheResponse, HeldByResponse
<1>3. TypeOK'
  BY <1>1 DEF RInv, TypeOK, HasSafeParams, Args
<1>4. NotYet' /\ ResponseOK'
  BY <1>1 DEF NotYet, ResponseOK
<1> QED BY <1>1, <1>2, <1>3, <1>4, ParsedKept DEF RInv

LEMMA AnsweredKeeps ==
    ASSUME RInv,
           \/ endpoint.client = "ir" /\ Answered(Decode(endpoint.returns, response))
           \/ endpoint.client = "trait" /\ Answered(TraitDecode(endpoint.returns, response))
    PROVE  RInv'
<1>1. pc = "decode"
  BY DEF Answered
<1>2. CASE response.status = 500
  <2>1. Decoded(Err(response.type)) /\ response.type \in Kinds
    BY <1>1, <1>2 DEF Answered, RInv, ResponseOK
  <2>2. Err(response.type) # None /\ ~Err(response.type).ok
    BY <2>1, NoneIsNoOutcome DEF Err
  <2> DEFINE o == Err(response.type)
  <2> HIDE DEF o
  <2>3. Decoded(o) /\ o # None /\ ~o.ok
    BY <2>1, <2>2 DEF o
  <2> QED BY <1>1, <2>3, DecodedKeeps
<1>3. CASE response.status # 500
  <2>1. CASE endpoint.client = "ir"
    <3> DEFINE o == Decode(endpoint.returns, response)
    <3>1. Decoded(o)
      BY <1>3, <2>1 DEF Answered
    <3> QED BY <1>1, <1>3, <2>1, <3>1, DecodedFits, DecodedKeeps
  <2>2. CASE endpoint.client = "trait"
    <3> DEFINE o == TraitDecode(endpoint.returns, response)
    <3>1. Decoded(o)
      BY <1>3, <2>2 DEF Answered
    <3> QED BY <1>1, <1>3, <2>2, <3>1, DecodedFits, DecodedKeeps
  <2> QED BY <2>1, <2>2
<1> QED BY <1>2, <1>3

(* Mutual steps of the wire.                                                 *)
LEMMA ForeignRequestKeeps == RInv /\ ForeignRequest => RInv'
<1> SUFFICES ASSUME RInv, ForeignRequest PROVE RInv'
  OBVIOUS
<1>1. /\ pc = "build" /\ pc' = "begin" /\ request' \in ForeignRequests
      /\ UNCHANGED <<endpoint, values, foreign, parsed, token, safe, got, returned,
                     response, answer>>
  BY DEF ForeignRequest
<1>2. parsed = <<>> /\ safe = None /\ token = None /\ got = None /\ answer = None
  BY <1>1 DEF RInv, NotYet, TypeOK
<1>3. Args' = Args
  BY <1>1 DEF Args
<1>4. RequestOK'
  <2>1. /\ request'.body \in {<<>>} \cup Streams
        /\ request'.path \in [In(Args, "path") -> {<<t>> : t \in Texts}]
    BY <1>1 DEF ForeignRequests, Documents
  <2>2. request'.body \in Streams
    BY <2>1, Nothing
  <2> QED BY <1>3, <2>1, <2>2 DEF RequestOK
<1>5. TypeOK' /\ ValuesOK'
  BY <1>1, <1>2, <1>3 DEF RInv, TypeOK, ValuesOK, HasSafeParams
<1>6. NotYet' /\ ParsedSays' /\ Logged' /\ ResponseOK' /\ AnswerIsTheResponse'
  BY <1>1, <1>2, <1>4 DEF NotYet, ParsedSays, Logged, ResponseOK, AnswerIsTheResponse
<1>7. TokenInTurn'
  BY <1>1, <1>2, EndpointsAssumption DEF TokenInTurn, RInv, ValuesOK
<1> QED BY <1>5, <1>6, <1>7 DEF RInv

LEMMA ForeignAnswerKeeps == RInv /\ ForeignAnswer => RInv'
<1> SUFFICES ASSUME RInv, ForeignAnswer PROVE RInv'
  OBVIOUS
<1>1. /\ pc = "begin" /\ pc' = "decode" /\ answer = None
      /\ UNCHANGED <<endpoint, values, foreign, request, parsed, token, safe, got,
                     returned, answer>>
  BY DEF ForeignAnswer, RInv, TypeOK
<1>2. PICK type \in {"none", "json", "octet", "other"}, written \in Documents :
          response' \in {NoContent, Content(type, written)}
  BY DEF ForeignAnswer
<1>3. <<>> \in Seq(Texts) /\ written \in Seq(Texts)
  <2>1. written \in Streams
    BY DEF Documents
  <2>2. \A t \in Texts : <<t>> \in Seq(Texts)
    OBVIOUS
  <2> QED BY <2>1, <2>2, Nothing DEF Streams
<1>4. ResponseOK' /\ response'.status \in {200, 204, 500}
  <2>1. CASE response' = NoContent
    BY <1>3, <2>1 DEF ResponseOK, NoContent
  <2>2. ASSUME NEW body \in Seq(Texts), response' = Content(type, body)
        PROVE  ResponseOK' /\ response'.status \in {200, 204, 500}
    BY <2>2 DEF ResponseOK, Content
  <2> QED BY <1>2, <1>3, <2>1, <2>2
<1>5. TypeOK'
  BY <1>1, <1>4, ParsedKept DEF RInv, TypeOK, HasSafeParams
<1>6. NotYet' /\ AnswerIsTheResponse'
  BY <1>1 DEF NotYet, AnswerIsTheResponse
<1> QED BY <1>1, <1>4, <1>5, <1>6, ParsedKept DEF RInv

LEMMA BeginKeeps == RInv /\ Begin => RInv'
<1> SUFFICES ASSUME RInv, Begin PROVE RInv'
  OBVIOUS
<1>1. /\ pc = "begin" /\ pc' = "args" /\ safe' = IF HasSafeParams THEN <<>> ELSE None
      /\ UNCHANGED <<endpoint, values, foreign, request, parsed, token, got, returned,
                     response, answer>>
  BY DEF Begin
<1>2. parsed = <<>> /\ got = None /\ answer = None /\ RequestOK
  BY <1>1 DEF RInv, NotYet, TypeOK
<1>3. Args' = Args /\ RequestOK'
  BY <1>1, <1>2, SaysStable
<1>4. <<>> # None
  <2>1. <<>> \in Seq(Seq(Texts))
    OBVIOUS
  <2> QED BY <2>1, NoneAssumption
<1>5. TypeOK' /\ ValuesOK'
  BY <1>1, <1>2, <1>3, <1>4 DEF RInv, TypeOK, ValuesOK, HasSafeParams
<1>6. NotYet' /\ ParsedSays' /\ ResponseOK' /\ AnswerIsTheResponse' /\ TokenInTurn'
  BY <1>1, <1>2, <1>3
     DEF RInv, NotYet, ParsedSays, ResponseOK, AnswerIsTheResponse, TokenInTurn
<1>7. Logged'
  BY <1>1, <1>2 DEF Logged
<1> QED BY <1>5, <1>6, <1>7 DEF RInv

(* An argument is parsed: one more is what the request says, and if it is    *)
(* safe, one more is logged.                                                 *)
LEMMA ParseArgKeeps == RInv /\ ParseArg => RInv'
<1> SUFFICES ASSUME RInv, ParseArg PROVE RInv'
  OBVIOUS
<1> DEFINE i == Len(parsed) + 1
           v == ParseNext.value
<1>1. /\ pc = "args" /\ i \in DOMAIN Args /\ ~AuthDue
      /\ UNCHANGED <<endpoint, values, foreign, request, token, got, returned, answer>>
  BY DEF ParseArg
<1>2. /\ endpoint \in Endpoints /\ RequestOK /\ got = None /\ answer = None
      /\ parsed \in Seq(Seq(Texts))
  BY <1>1 DEF RInv, ValuesOK, NotYet, TypeOK
<1>3. Args' = Args /\ RequestOK'
  BY <1>1, <1>2, SaysStable
<1>4. CASE ~ParseNext.ok
  <2>1. Fail(ParseNext.kind) /\ UNCHANGED <<parsed, safe>>
    BY <1>4 DEF ParseArg
  <2>2. ParseNext.kind \in {"invalid", "panic"}
    BY <1>1, <1>2, <1>4, ParseFails
  <2>3. CASE ParseNext.kind = "invalid"
    BY <1>1, <2>1, <2>3, FailKeeps DEF Kinds
  <2>4. CASE ParseNext.kind = "panic"
    <3>1. pc' = "panicked" /\ UNCHANGED response
      BY <2>1, <2>4 DEF Fail
    <3>2. TypeOK'
      BY <1>1, <1>2, <1>3, <2>1, <3>1 DEF RInv, TypeOK, HasSafeParams
    <3>3. NotYet' /\ ResponseOK' /\ AnswerIsTheResponse'
      BY <1>1, <1>2, <3>1 DEF NotYet, ResponseOK, AnswerIsTheResponse
    <3> QED BY <1>1, <2>1, <3>2, <3>3, ParsedKept DEF RInv
  <2> QED BY <2>2, <2>3, <2>4
<1>5. CASE ParseNext.ok
  <2>1. /\ parsed' = Append(parsed, v) /\ safe' = PutSafe(i, v)
        /\ UNCHANGED <<pc, response>>
    BY <1>5 DEF ParseArg
  <2>2. v \in Seq(Texts) /\ Says(i, v)
    BY <1>1, <1>2, <1>5, NextSays
  <2>3. Len(Args) \in Nat /\ i \in 1 .. Len(Args) /\ Len(parsed) \in Nat
    BY <1>1, <1>2, ArgsAreASequence
  <2> HIDE DEF v
  <2>4. /\ parsed' \in Seq(Seq(Texts)) /\ Len(parsed') = i
        /\ DOMAIN parsed' = DOMAIN parsed \cup {i} /\ parsed'[i] = v
        /\ i \notin DOMAIN parsed /\ \A n \in DOMAIN parsed : parsed'[n] = parsed[n]
    BY <1>2, <2>1, <2>2
  <2> HIDE DEF i
  <2>5. ParsedSays'
    <3>1. \A n \in DOMAIN parsed' : Says(n, parsed'[n])
      BY <2>2, <2>4 DEF RInv, ParsedSays
    <3> QED BY <1>1, <3>1, SaysStable DEF ParsedSays
  <2>6. safe # None \/ ~Args[i].safe
    BY <1>1 DEF RInv, TypeOK, HasSafeParams
  <2>7. safe' # None => HasSafeParams
    BY <2>1, <2>6 DEF RInv, TypeOK, PutSafe
  <2>8. HasSafeParams => safe # None
    BY <1>1 DEF RInv, TypeOK
  <2>9. Logged' /\ (HasSafeParams => safe' # None)
    <3>1. CASE ~Args[i].safe
      <4>1. safe' = safe
        BY <2>1, <3>1 DEF PutSafe
      <4> QED BY <1>3, <2>4, <2>8, <3>1, <4>1 DEF RInv, Logged
    <3>2. CASE Args[i].safe
      <4> DEFINE entry == [arg |-> i, value |-> v]
      <4>1. safe' = Append(safe, entry) /\ safe # None
        BY <2>1, <2>6, <3>2 DEF PutSafe
      <4>2. safe \in Seq([arg : Nat, value : Seq(Texts)])
            /\ entry \in [arg : Nat, value : Seq(Texts)]
        BY <2>2, <2>3, <4>1 DEF RInv, Logged
      <4>3. entry.arg = i /\ entry.value = v
        OBVIOUS
      <4> HIDE DEF entry
      <4>4. /\ safe' \in Seq([arg : Nat, value : Seq(Texts)])
            /\ Len(safe) + 1 \in DOMAIN safe' /\ safe'[Len(safe) + 1] = entry
            /\ \A n \in DOMAIN safe : n \in DOMAIN safe' /\ safe'[n] = safe[n]
            /\ \A n \in DOMAIN safe' : n \in DOMAIN safe \/ safe'[n] = entry
        BY <4>1, <4>2
      <4>5. safe' # None
        BY <4>4, NoneAssumption
      <4>6. \A n \in DOMAIN safe' :
              /\ safe'[n].arg \in DOMAIN parsed' /\ Args[safe'[n].arg].safe
              /\ safe'[n].value = parsed'[safe'[n].arg]
        <5> SUFFICES ASSUME NEW n \in DOMAIN safe'
                     PROVE  /\ safe'[n].arg \in DOMAIN parsed' /\ Args[safe'[n].arg].safe
                            /\ safe'[n].value = parsed'[safe'[n].arg]
          OBVIOUS
        <5>1. CASE n \in DOMAIN safe
          <6>1. /\ safe[n].arg \in DOMAIN parsed /\ Args[safe[n].arg].safe
                /\ safe[n].value = parsed[safe[n].arg]
            BY <4>1, <5>1 DEF RInv, Logged
          <6> QED BY <2>4, <4>4, <5>1, <6>1
        <5>2. CASE safe'[n] = entry
          BY <2>4, <3>2, <4>3, <5>2
        <5> QED BY <4>4, <5>1, <5>2
      <4>7. \A k \in DOMAIN parsed' : Args[k].safe => \E n \in DOMAIN safe' : safe'[n].arg = k
        BY <2>4, <4>1, <4>3, <4>4 DEF RInv, Logged
      <4> QED BY <1>3, <4>4, <4>5, <4>6, <4>7 DEF Logged
    <3> QED BY <3>1, <3>2
  <2>10. TokenInTurn'
    <3>1. CASE endpoint.auth /\ endpoint.server = "trait" /\ i > endpoint.authAt
      <4>1. request.auth = "good"
        <5>1. CASE Len(parsed) > endpoint.authAt
          BY <3>1, <5>1 DEF RInv, TokenInTurn
        <5>2. CASE Len(parsed) = endpoint.authAt
          BY <1>1, <3>1, <5>2 DEF AuthDue, RInv, TypeOK
        <5>3. endpoint.authAt \in Nat
          BY <1>2, EndpointsAssumption, <2>3 DEF Args
        <5> QED BY <2>3, <3>1, <5>1, <5>2, <5>3 DEF i
      <4> QED BY <1>1, <1>2, <4>1 DEF TokenInTurn
    <3>2. CASE ~(endpoint.auth /\ endpoint.server = "trait" /\ i > endpoint.authAt)
      BY <1>1, <1>2, <2>4, <3>2 DEF TokenInTurn
    <3> QED BY <3>1, <3>2
  <2>11. TypeOK'
    <3>1. HasSafeParams' <=> HasSafeParams
      BY <1>3 DEF HasSafeParams
    <3>2. Len(parsed') <= Len(Args')
      BY <1>3, <2>3, <2>4
    <3> QED BY <1>1, <1>2, <2>1, <2>4, <2>7, <2>9, <3>1, <3>2 DEF RInv, TypeOK
  <2>12. ValuesOK' /\ NotYet' /\ ResponseOK' /\ AnswerIsTheResponse'
    BY <1>1, <1>2, <1>3, <2>1 DEF RInv, ValuesOK, NotYet, ResponseOK, AnswerIsTheResponse
  <2> QED BY <2>5, <2>9, <2>10, <2>11, <2>12 DEF RInv
<1> QED BY <1>4, <1>5

LEMMA AuthenticateKeeps == RInv /\ Authenticate => RInv'
<1> SUFFICES ASSUME RInv, Authenticate PROVE RInv'
  OBVIOUS
<1>1. /\ pc = "args" /\ AuthDue /\ endpoint.auth
      /\ UNCHANGED <<endpoint, values, foreign, request, parsed, safe, got, returned,
                     answer>>
  BY DEF Authenticate, AuthDue
<1>2. CASE request.auth = "good"
  <2>1. token' = "token" /\ UNCHANGED <<pc, response>>
    BY <1>2 DEF Authenticate, ParseAuth, Ok
  <2>2. TypeOK'
    BY <1>1, <1>2, <2>1, ParsedKept DEF RInv, TypeOK, HasSafeParams
  <2>3. NotYet' /\ ResponseOK' /\ AnswerIsTheResponse'
    BY <1>1, <2>1, SaysStable DEF RInv, NotYet, ResponseOK, AnswerIsTheResponse
  <2> QED BY <1>1, <2>2, <2>3, ParsedKept DEF RInv
<1>3. CASE request.auth # "good"
  <2>1. Fail("denied") /\ UNCHANGED token
    BY <1>3 DEF Authenticate, ParseAuth, Err
  <2> QED BY <1>1, <2>1, FailKeeps DEF Kinds
<1> QED BY <1>2, <1>3

(* The handler runs when all arguments are there and the token, if there is  *)
(* one, has had its turn.                                                    *)
LEMMA HandleKeeps == RInv /\ Handle => RInv'
<1> SUFFICES ASSUME RInv, Handle PROVE RInv'
  OBVIOUS
<1>1. /\ pc = "args" /\ pc' = "handling" /\ got' = parsed /\ ~AuthDue
      /\ Len(parsed) = Len(Args)
      /\ UNCHANGED <<endpoint, values, foreign, request, parsed, token, safe, returned,
                     response, answer>>
  BY DEF Handle
<1>2. endpoint \in Endpoints /\ answer = None
  BY <1>1 DEF RInv, ValuesOK, TypeOK
<1>3. Args' = Args
  BY <1>1, SaysStable
<1>4. endpoint.auth => request.auth = "good"
  <2>1. endpoint.authAt \in 0 .. Len(Args) /\ Len(Args) \in Nat
    BY <1>2, EndpointsAssumption, ArgsAreASequence DEF Args
  <2>2. CASE endpoint.server = "trait" /\ Len(parsed) > endpoint.authAt
    BY <2>2 DEF RInv, TokenInTurn
  <2>3. CASE endpoint.server = "trait" /\ Len(parsed) = endpoint.authAt
    BY <1>1, <2>3 DEF AuthDue, RInv, TypeOK
  <2>4. CASE endpoint.server # "trait"
    BY <1>1, <2>4 DEF AuthDue, RInv, TypeOK
  <2> QED BY <1>1, <2>1, <2>2, <2>3, <2>4
<1>5. TypeOK' /\ ValuesOK'
  BY <1>1, <1>2, <1>3 DEF RInv, TypeOK, ValuesOK, HasSafeParams
<1>6. ParsedSays' /\ Logged'
  <2>1. ParsedSays'
    BY <1>1, SaysStable DEF RInv, ParsedSays
  <2>2. Logged'
    BY <1>1, <1>3 DEF RInv, Logged
  <2> QED BY <2>1, <2>2
<1>7. NotYet' /\ ResponseOK' /\ AnswerIsTheResponse' /\ TokenInTurn'
  BY <1>1, <1>2, <1>4 DEF NotYet, ResponseOK, AnswerIsTheResponse, TokenInTurn
<1> QED BY <1>5, <1>6, <1>7 DEF RInv

LEMMA HandlerReturnsKeeps == RInv /\ HandlerReturns => RInv'
<1> SUFFICES ASSUME RInv, HandlerReturns PROVE RInv'
  OBVIOUS
<1>1. /\ pc = "handling" /\ pc' = "encode" /\ returned' \in Results(endpoint)
      /\ UNCHANGED <<endpoint, values, foreign, request, parsed, token, safe, got,
                     response, answer>>
  BY DEF HandlerReturns
<1>2. Results(endpoint)' = Results(endpoint)
  BY <1>1 DEF Results
<1>3. TypeOK'
  BY <1>1, <1>2, ParsedKept DEF RInv, TypeOK, HasSafeParams
<1>4. NotYet' /\ ResponseOK' /\ AnswerIsTheResponse'
  BY <1>1 DEF RInv, TypeOK, NotYet, ResponseOK, AnswerIsTheResponse
<1> QED BY <1>1, <1>3, <1>4, ParsedKept DEF RInv

LEMMA EncodeKeeps == RInv /\ EncodeResponse => RInv'
<1> SUFFICES ASSUME RInv, EncodeResponse PROVE RInv'
  OBVIOUS
<1> DEFINE refusal == IF endpoint.server = "trait" THEN "internal" ELSE "panic"
<1>0. CASE ResultRefused(endpoint.returns, returned)
  <2>1. /\ pc = "encode" /\ Fail(refusal)
        /\ UNCHANGED <<endpoint, values, foreign, request, parsed, token, safe, got,
                       returned, answer>>
    BY <1>0 DEF EncodeResponse
  <2>2. refusal \in Kinds \cup {"panic"}
    BY DEF Kinds
  <2> HIDE DEF refusal
  <2> QED BY <2>1, <2>2, FailKeeps
<1>00. SUFFICES ASSUME ~ResultRefused(endpoint.returns, returned) PROVE RInv'
  BY <1>0
<1>1. /\ pc = "encode" /\ pc' = "decode" /\ answer = None
      /\ returned \in Results(endpoint) /\ endpoint \in Endpoints
      /\ UNCHANGED <<endpoint, values, foreign, request, parsed, token, safe, got,
                     returned, answer>>
  BY <1>00 DEF EncodeResponse, RInv, TypeOK, ValuesOK
<1>2. returned \in {<<>>} \cup Ones
  <2>1. endpoint.returns \in {"void", "json", "iterable", "binary", "optional binary"}
    BY <1>1, ArgsAssumption
  <2> QED BY <1>1, <2>1 DEF Results
<1>3. returned \in Seq(Texts)
  <2>1. \A t \in Valid : <<t>> \in Seq(Texts)
    BY DEF Valid
  <2> QED BY <1>2, <2>1, Nothing DEF Ones
<1>4. \/ response' = NoContent
      \/ \E type \in {"json", "octet"} : response' = Content(type, returned)
  <2>1. CASE endpoint.server = "trait"
    BY <1>00, <2>1 DEF EncodeResponse, TraitEncode
  <2>2. CASE endpoint.server # "trait"
    <3>1. response' = Encode(endpoint.returns, returned)
      BY <1>00, <2>2 DEF EncodeResponse
    <3>2. endpoint.returns \in {"json", "binary"} => returned # <<>>
      <4>1. \A t \in Valid : <<t>> # <<>>
        OBVIOUS
      <4> QED BY <1>1, <4>1 DEF Results, Ones
    <3>3. endpoint.returns \in {"void", "json", "iterable", "binary", "optional binary"}
      BY <1>1, ArgsAssumption
    <3> QED BY <3>1, <3>2, <3>3 DEF Encode
  <2> QED BY <2>1, <2>2
<1>5. ResponseOK' /\ response'.status \in {200, 204, 500}
  <2>1. CASE response' = NoContent
    BY <2>1, Nothing DEF ResponseOK, NoContent
  <2>2. ASSUME NEW type, response' = Content(type, returned)
        PROVE  ResponseOK' /\ response'.status \in {200, 204, 500}
    BY <1>3, <2>2 DEF ResponseOK, Content
  <2> QED BY <1>4, <2>1, <2>2
<1>6. TypeOK'
  BY <1>1, <1>5, ParsedKept DEF RInv, TypeOK, HasSafeParams
<1>7. NotYet' /\ AnswerIsTheResponse'
  BY <1>1 DEF NotYet, AnswerIsTheResponse
<1> QED BY <1>1, <1>5, <1>6, <1>7, ParsedKept DEF RInv

LEMMA RInvKept == RInv /\ [Next]_vars => RInv'
<1> SUFFICES ASSUME RInv, [Next]_vars PROVE RInv'
  OBVIOUS
<1>1. CASE BuildRequest
  <2> DEFINE built == Built(endpoint, values)
  <2>1. Send(built) /\ values # None /\ ValuesOK
    BY <1>1 DEF BuildRequest, RInv
  <2>4. built \in {Ok(Request(endpoint, values)), Err("panic"), Err("internal")}
    BY BuiltKinds
  <2>2. \A i \in In(Args, "body") : values[i] \in Streams
    BY <2>1, ValuesFit DEF In
  <2>3. \A i \in In(Args, "path") : values[i] \in {<<t>> : t \in Texts}
    BY <2>1, ValuesFit DEF In, Ones, Valid
  <2> HIDE DEF built
  <2> QED BY <2>1, <2>2, <2>3, <2>4, SendKeeps
<1>2. CASE BuildTraitRequest
  <2> DEFINE texts == TraitTexts(Args, values)
             built == TraitBuilt(endpoint, values)
  <2>1. Send(built) /\ values # None /\ ValuesOK
    BY <1>2 DEF BuildTraitRequest, RInv
  <2>2. built \in {Ok(Request(endpoint, texts)), Err("panic"), Err("internal")}
    BY BuiltKinds, Zenon DEF TraitBuilt, Args
  <2>3. /\ \A i \in In(Args, "body") : texts[i] \in Streams
        /\ \A i \in In(Args, "path") : texts[i] \in {<<t>> : t \in Texts}
    BY <2>1, TraitTextsFit
  <2> HIDE DEF built, texts
  <2> QED BY <2>1, <2>2, <2>3, SendKeeps
<1>3. CASE DecodeResponse
  BY <1>3, AnsweredKeeps DEF DecodeResponse
<1>4. CASE DecodeTraitResponse
  BY <1>4, AnsweredKeeps DEF DecodeTraitResponse
<1>5. CASE ResponseBreaks
  <2>1. Err("broken") # None /\ ~Err("broken").ok
    <3>1. "broken" \in Kinds
      BY DEF Kinds
    <3>2. Err("broken") # None
      BY <3>1, NoneIsNoOutcome, Zenon
    <3> QED BY <3>2 DEF Err
  <2>2. pc = "decode" /\ Decoded(Err("broken"))
    BY <1>5 DEF ResponseBreaks
  <2> DEFINE o == Err("broken")
  <2> HIDE DEF o
  <2>3. Decoded(o) /\ o # None /\ ~o.ok
    BY <2>1, <2>2 DEF o
  <2> QED BY <2>2, <2>3, DecodedKeeps
<1>6. CASE ForeignRequest
  BY <1>6, ForeignRequestKeeps
<1>7. CASE ForeignAnswer
  BY <1>7, ForeignAnswerKeeps
<1>8. CASE Begin
  BY <1>8, BeginKeeps
<1>9. CASE ParseArg
  BY <1>9, ParseArgKeeps
<1>10. CASE RequestBreaks
  BY <1>10, FailKeeps DEF RequestBreaks, Kinds
<1>11. CASE Authenticate
  BY <1>11, AuthenticateKeeps
<1>12. CASE Handle
  BY <1>12, HandleKeeps
<1>13. CASE HandlerReturns
  BY <1>13, HandlerReturnsKeeps
<1>14. CASE HandlerFails
  BY <1>14, FailKeeps DEF HandlerFails, Kinds
<1>15. CASE EncodeResponse
  BY <1>15, EncodeKeeps
<1>16. CASE UNCHANGED vars
  <2>1. UNCHANGED <<endpoint, values, foreign, pc, request, parsed, token, safe, got,
                    returned, response, answer>>
    BY <1>16 DEF vars
  <2>2. TypeOK'
    <3>1. Results(endpoint)' = Results(endpoint)
      BY <2>1 DEF Results
    <3> QED BY <2>1, <3>1, ParsedKept DEF RInv, TypeOK, HasSafeParams
  <2>3. NotYet' /\ ResponseOK' /\ AnswerIsTheResponse'
    BY <2>1, SaysStable DEF RInv, NotYet, ResponseOK, AnswerIsTheResponse
  <2> QED BY <2>1, <2>2, <2>3, ParsedKept DEF RInv
<1> QED
  BY <1>1, <1>2, <1>3, <1>4, <1>5, <1>6, <1>7, <1>8, <1>9, <1>10, <1>11, <1>12, <1>13,
     <1>14, <1>15, <1>16 DEF Next, Client, Server

LEMMA RInvAlways == Spec => []RInv
BY RInvHolds, RInvKept, PTL DEF Spec

-----------------------------------------------------------------------------
(* The wire carries the caller's arguments                                   *)

(* There is only one enumeration of a set of numbers in order.               *)
LEMMA OrderIsUnique ==
    ASSUME NEW members \in SUBSET Nat, NEW n \in Nat,
           NEW s \in [1 .. n -> members], Ascending(s), \A x \in members : \E k \in 1 .. n : s[k] = x,
           NEW t \in [1 .. n -> members], Ascending(t), \A x \in members : \E k \in 1 .. n : t[k] = x
    PROVE  s = t
<1> DEFINE Apart == {k \in Nat : k \in 1 .. n /\ s[k] # t[k]}
<1>1. SUFFICES ASSUME s # t PROVE FALSE
  OBVIOUS
<1>2. Apart # {}
  <2>1. \E k \in 1 .. n : s[k] # t[k]
    BY <1>1
  <2> QED BY <2>1
<1>3. PICK k \in Apart : \A m \in Apart : <<m, k>> \notin OpToRel(<, Nat)
  BY <1>2, WFMin, NatLessThanWellFounded, Zenon
<1>4. k \in 1 .. n /\ k \in Nat /\ s[k] # t[k]
  OBVIOUS
<1>5. \A m \in 1 .. n : m < k => s[m] = t[m]
  <2> SUFFICES ASSUME NEW m \in 1 .. n, m < k, s[m] # t[m]
               PROVE  FALSE
    OBVIOUS
  <2>1. m \in Apart /\ <<m, k>> \in OpToRel(<, Nat)
    BY <1>4 DEF OpToRel
  <2> QED BY <1>3, <2>1
<1> HIDE DEF Apart
<1>6. \A i \in 1 .. n : s[i] \in Nat /\ t[i] \in Nat
  OBVIOUS
<1>7. \A i, j \in 1 .. n : i < j => s[i] < s[j] /\ t[i] < t[j]
  BY DEF Ascending
<1>8. PICK i \in 1 .. n : s[i] = t[k]
  BY <1>4
<1>9. PICK j \in 1 .. n : t[j] = s[k]
  BY <1>4
<1>10. ~(i < k) /\ ~(j < k)
  <2>1. i < k => t[k] < t[k]
    BY <1>4, <1>5, <1>7, <1>8
  <2>2. j < k => s[k] < s[k]
    BY <1>4, <1>5, <1>7, <1>9
  <2>3. s[k] \in Nat /\ t[k] \in Nat
    BY <1>4, <1>6
  <2>4. ~(s[k] < s[k]) /\ ~(t[k] < t[k])
    BY <2>3
  <2> QED BY <2>1, <2>2, <2>4
<1>11. i # k /\ j # k
  BY <1>4, <1>8, <1>9
<1>12. k < i /\ k < j
  BY <1>4, <1>10, <1>11
<1>13. s[k] < t[k] /\ t[k] < s[k]
  BY <1>4, <1>7, <1>8, <1>9, <1>12
<1> QED BY <1>4, <1>6, <1>13

(* A sequence that enumerates a set in order is InOrder of it.               *)
LEMMA InOrderIs ==
    ASSUME NEW members \in SUBSET Nat, NEW n \in Nat, NEW s \in [1 .. n -> members],
           Ascending(s), \A x \in members : \E k \in 1 .. n : s[k] = x
    PROVE  InOrder(members) = s
<1>1. DOMAIN s = 1 .. n
  OBVIOUS
<1>2. \A i, j \in 1 .. n : s[i] = s[j] => i = j
  <2> SUFFICES ASSUME NEW i \in 1 .. n, NEW j \in 1 .. n, s[i] = s[j], i # j
               PROVE  FALSE
    OBVIOUS
  <2>1. i < j \/ j < i
    OBVIOUS
  <2>2. s[i] < s[j] \/ s[j] < s[i]
    BY <1>1, <2>1 DEF Ascending
  <2>3. s[i] \in Nat /\ s[j] \in Nat
    OBVIOUS
  <2> QED BY <2>2, <2>3
<1>3. s \in Bijection(1 .. n, members)
  BY <1>2 DEF Bijection, Injection, IsInjective, Surjection
<1>4. IsFiniteSet(1 .. n) /\ Cardinality(1 .. n) = n
  BY FS_Interval
<1>5. IsFiniteSet(members) /\ Cardinality(members) = n
  BY <1>3, <1>4, FS_Bijection DEF ExistsBijection
<1> DEFINE t == InOrder(members)
<1>6. t \in [1 .. n -> members] /\ Ascending(t)
  BY <1>5, SetsHaveOrder DEF InOrder
<1> HIDE DEF t
<1>7. \A x \in members : \E k \in 1 .. n : t[k] = x
  <2>1. DOMAIN t = 1 .. n
    BY <1>6
  <2>2. \A i, j \in 1 .. n : t[i] = t[j] => i = j
    <3> SUFFICES ASSUME NEW i \in 1 .. n, NEW j \in 1 .. n, t[i] = t[j], i # j
                 PROVE  FALSE
      OBVIOUS
    <3>1. i < j \/ j < i
      OBVIOUS
    <3>2. t[i] < t[j] \/ t[j] < t[i]
      BY <1>6, <2>1, <3>1 DEF Ascending
    <3>3. t[i] \in Nat /\ t[j] \in Nat
      BY <1>6
    <3> QED BY <3>2, <3>3
  <2>3. t \in Injection(1 .. n, members)
    BY <1>6, <2>2 DEF Injection, IsInjective
  <2>4. t \in Surjection(1 .. n, members)
    BY <1>4, <1>5, <2>3, FS_Injection
  <2> QED BY <2>4 DEF Surjection
<1>8. t = s
  BY <1>6, <1>7, OrderIsUnique
<1> QED BY <1>8 DEF t

(* FlattenSeq concatenates: its recursion ends because there is an index at  *)
(* which it would first be without a value.                                  *)
LEMMA Flattens ==
    ASSUME NEW P, NEW blocks \in Seq(Seq(P)), Len(blocks) # 0
    PROVE  \E f \in [1 .. Len(blocks) -> Seq(P)] :
              /\ f[1] = blocks[1]
              /\ \A i \in 2 .. Len(blocks) : f[i] = f[i - 1] \o blocks[i]
              /\ FlattenSeq(blocks) = f[Len(blocks)]
<1> DEFINE n == Len(blocks)
           Sums(f, k) == /\ f \in [1 .. k -> Seq(P)]
                         /\ f[1] = blocks[1]
                         /\ \A i \in 2 .. k : f[i] = f[i - 1] \o blocks[i]
           Without == {k \in Nat : k \in 1 .. n /\ ~\E f : Sums(f, k)}
<1>n. n \in Nat /\ n # 0 /\ DOMAIN blocks = 1 .. n /\ \A i \in 1 .. n : blocks[i] \in Seq(P)
  OBVIOUS
<1>1. Without = {}
  <2> SUFFICES ASSUME Without # {} PROVE FALSE
    OBVIOUS
  <2>1. PICK k \in Without : \A m \in Without : <<m, k>> \notin OpToRel(<, Nat)
    BY WFMin, NatLessThanWellFounded, Zenon
  <2>2. k \in 1 .. n /\ k \in Nat /\ ~\E f : Sums(f, k)
    OBVIOUS
  <2> HIDE DEF n
  <2>3. k # 1
    <3> SUFFICES ASSUME k = 1 PROVE FALSE
      OBVIOUS
    <3> DEFINE f == [i \in 1 .. 1 |-> blocks[1]]
    <3>1. Sums(f, 1)
      BY <1>n
    <3> HIDE DEF f, Sums
    <3> QED BY <2>2, <3>1
  <2>4. k - 1 \in 1 .. n /\ k - 1 \in Nat /\ k - 1 < k
    BY <1>n, <2>2, <2>3
  <2>5. k - 1 \notin Without
    <3>1. <<k - 1, k>> \in OpToRel(<, Nat)
      BY <2>2, <2>4 DEF OpToRel
    <3> QED BY <2>1, <3>1
  <2>6. PICK g : Sums(g, k - 1)
    BY <2>4, <2>5
  <2> DEFINE f == [i \in 1 .. k |-> IF i = k THEN g[k - 1] \o blocks[k] ELSE g[i]]
  <2>7. g[k - 1] \o blocks[k] \in Seq(P)
    BY <1>n, <2>2, <2>4, <2>6
  <2>8. f \in [1 .. k -> Seq(P)]
    <3>1. \A i \in 1 .. k : i # k => i \in 1 .. k - 1
      BY <2>2
    <3> QED BY <2>6, <2>7, <3>1
  <2>9. f[1] = blocks[1]
    <3>1. 1 \in 1 .. k /\ 1 # k
      BY <2>2, <2>3
    <3> QED BY <2>6, <3>1
  <2>10. \A i \in 2 .. k : f[i] = f[i - 1] \o blocks[i]
    <3> SUFFICES ASSUME NEW i \in 2 .. k PROVE f[i] = f[i - 1] \o blocks[i]
      OBVIOUS
    <3>1. i \in 1 .. k /\ i - 1 \in 1 .. k /\ i - 1 # k /\ f[i - 1] = g[i - 1]
      BY <2>2
    <3>2. CASE i = k
      BY <3>1, <3>2
    <3>3. CASE i # k
      <4>1. i \in 2 .. k - 1
        BY <2>2, <3>3
      <4> QED BY <2>6, <3>1, <3>3, <4>1
    <3> QED BY <3>2, <3>3
  <2>11. Sums(f, k)
    <3> HIDE DEF f
    <3> QED BY <2>8, <2>9, <2>10
  <2> HIDE DEF f, Sums
  <2> QED BY <2>2, <2>11
<1> DEFINE Equation(f) == f = [i \in 1 .. n |-> IF i = 1 THEN blocks[i] ELSE f[i - 1] \o blocks[i]]
           flat == CHOOSE f : Equation(f)
<1>2. \E f : Sums(f, n)
  <2> HIDE DEF Sums, n
  <2>1. n \in 1 .. n /\ n \in Nat
    BY <1>n
  <2>2. n \notin Without
    <3> HIDE DEF Without
    <3> QED BY <1>1
  <2> QED BY <2>1, <2>2
<1>3. Equation(flat)
  <2>1. PICK f : Sums(f, n)
    BY <1>2
  <2>2. \A i \in 1 .. n : f[i] = IF i = 1 THEN blocks[i] ELSE f[i - 1] \o blocks[i]
    <3> HIDE DEF n
    <3>1. \A i \in 1 .. n : i = 1 \/ i \in 2 .. n
      BY <1>n
    <3> QED BY <2>1, <3>1
  <2>3. Equation(f)
    BY <2>1, <2>2
  <2> HIDE DEF Equation
  <2> QED BY <2>3
<1>4. FlattenSeq(blocks) = flat[n]
  BY <1>n DEF FlattenSeq
<1> HIDE DEF flat, Sums, Without
<1>5. DOMAIN flat = 1 .. n /\ flat = [i \in 1 .. n |-> flat[i]]
  BY <1>3
<1>6. flat[1] = blocks[1] /\ \A i \in 2 .. n : flat[i] = flat[i - 1] \o blocks[i]
  <2> HIDE DEF n
  <2>1. 1 \in 1 .. n /\ \A i \in 2 .. n : i \in 1 .. n /\ i # 1
    BY <1>n
  <2> QED BY <1>3, <2>1
<1> HIDE DEF Equation
<1>7. \A i \in 1 .. n : flat[i] \in Seq(P)
  <2> DEFINE Bad == {k \in Nat : k \in 1 .. n /\ flat[k] \notin Seq(P)}
  <2> SUFFICES ASSUME Bad # {} PROVE FALSE
    BY <1>n
  <2>1. PICK k \in Bad : \A m \in Bad : <<m, k>> \notin OpToRel(<, Nat)
    BY WFMin, NatLessThanWellFounded, Zenon
  <2>2. k \in 1 .. n /\ k \in Nat /\ flat[k] \notin Seq(P)
    OBVIOUS
  <2>3. k # 1
    BY <1>n, <1>6, <2>2
  <2> HIDE DEF n
  <2>4. k - 1 \in 1 .. n /\ k - 1 \in Nat /\ k - 1 < k /\ k \in 2 .. n
    BY <1>n, <2>2, <2>3
  <2>5. k - 1 \notin Bad
    <3>1. <<k - 1, k>> \in OpToRel(<, Nat)
      BY <2>2, <2>4 DEF OpToRel
    <3> QED BY <2>1, <3>1
  <2>6. flat[k - 1] \in Seq(P) /\ blocks[k] \in Seq(P) /\ flat[k] = flat[k - 1] \o blocks[k]
    BY <1>n, <1>6, <2>2, <2>4, <2>5
  <2> QED BY <2>2, <2>6
<1>8. flat \in [1 .. n -> Seq(P)]
  BY <1>5, <1>7
<1> QED BY <1>4, <1>6, <1>8

(* The texts of an argument stand together in the query, in order, and its   *)
(* key nowhere else.                                                         *)
Lies(query, i, texts) ==
    \E off \in Nat :
        /\ off + Len(texts) <= Len(query)
        /\ \A n \in 1 .. Len(texts) : query[off + n] = Pair(i, texts[n])
        /\ \A m \in DOMAIN query : query[m].key = i => m \in off + 1 .. off + Len(texts)

LEMMA QueryRead ==
    ASSUME NEW P, NEW query \in Seq(P), NEW i, NEW texts \in Seq(Texts), Lies(query, i, texts)
    PROVE  QueryParams(query, i) = texts
<1> DEFINE L == Len(texts)
           found == {n \in DOMAIN query : query[n].key = i}
<1>1. PICK off \in Nat :
        /\ off + L <= Len(query)
        /\ \A n \in 1 .. L : query[off + n] = Pair(i, texts[n])
        /\ \A m \in DOMAIN query : query[m].key = i => m \in off + 1 .. off + L
  BY DEF Lies
<1>2. L \in Nat /\ Len(query) \in Nat /\ DOMAIN query = 1 .. Len(query) /\ DOMAIN texts = 1 .. L
  OBVIOUS
<1> DEFINE s == [n \in 1 .. L |-> off + n]
<1> HIDE DEF L
<1>3. \A n \in 1 .. L : off + n \in DOMAIN query /\ query[off + n] = Pair(i, texts[n])
  BY <1>1, <1>2
<1>p. \A t : Pair(i, t).key = i /\ Pair(i, t).text = t
  BY DEF Pair
<1>4. \A n \in 1 .. L : off + n \in found
  BY <1>3, <1>p
<1>5. \A x \in found : x - off \in 1 .. L /\ off + (x - off) = x
  BY <1>1, <1>2
<1>6. found \in SUBSET Nat
  BY <1>2
<1> HIDE DEF found
<1>7. s \in [1 .. L -> found] /\ DOMAIN s = 1 .. L
  BY <1>4
<1>8. Ascending(s)
  BY <1>2 DEF Ascending
<1>9. \A x \in found : \E k \in 1 .. L : s[k] = x
  BY <1>5
<1> HIDE DEF s
<1>10. InOrder(found) = s
  BY <1>2, <1>6, <1>7, <1>8, <1>9, InOrderIs
<1>11. QueryParams(query, i) = [n \in 1 .. L |-> query[s[n]].text]
  BY <1>7, <1>10 DEF QueryParams, found
<1>12. \A n \in 1 .. L : query[s[n]].text = texts[n]
  BY <1>3, <1>p DEF s
<1> QED BY <1>2, <1>11, <1>12

Block(i, texts) == [n \in DOMAIN texts |-> Pair(i, texts[n])]
QueryPair == [key : Nat, text : Texts]

LEMMA BlockIs ==
    ASSUME NEW i \in Nat, NEW texts \in Seq(Texts)
    PROVE  /\ Block(i, texts) \in Seq(QueryPair)
           /\ Len(Block(i, texts)) = Len(texts)
           /\ \A n \in 1 .. Len(texts) :
                 Block(i, texts)[n] = Pair(i, texts[n]) /\ Block(i, texts)[n].key = i
<1>1. \A n \in 1 .. Len(texts) : Pair(i, texts[n]) \in QueryPair /\ Pair(i, texts[n]).key = i
  BY DEF Pair, QueryPair
<1> QED BY <1>1 DEF Block

(* Pairs with other keys do not come between the texts of an argument.       *)
LEMMA LiesBefore ==
    ASSUME NEW P, NEW q \in Seq(P), NEW r \in Seq(P), NEW i, NEW texts \in Seq(Texts),
           Lies(q, i, texts), \A m \in DOMAIN r : r[m].key # i
    PROVE  Lies(q \o r, i, texts)
<1>1. PICK off \in Nat :
        /\ off + Len(texts) <= Len(q)
        /\ \A n \in 1 .. Len(texts) : q[off + n] = Pair(i, texts[n])
        /\ \A m \in DOMAIN q : q[m].key = i => m \in off + 1 .. off + Len(texts)
  BY DEF Lies
<1>2. /\ q \o r \in Seq(P) /\ Len(q \o r) = Len(q) + Len(r)
      /\ Len(q) \in Nat /\ Len(r) \in Nat /\ Len(texts) \in Nat
      /\ DOMAIN (q \o r) = 1 .. Len(q) + Len(r)
      /\ DOMAIN q = 1 .. Len(q) /\ DOMAIN r = 1 .. Len(r)
      /\ \A m \in 1 .. Len(q) : (q \o r)[m] = q[m]
      /\ \A m \in Len(q) + 1 .. Len(q) + Len(r) : (q \o r)[m] = r[m - Len(q)]
  OBVIOUS
<1>3. \A n \in 1 .. Len(texts) : (q \o r)[off + n] = Pair(i, texts[n])
  <2> SUFFICES ASSUME NEW n \in 1 .. Len(texts)
               PROVE  (q \o r)[off + n] = Pair(i, texts[n])
    OBVIOUS
  <2>1. off + n \in 1 .. Len(q)
    BY <1>1, <1>2
  <2> QED BY <1>1, <1>2, <2>1
<1>4. \A m \in DOMAIN (q \o r) : (q \o r)[m].key = i => m \in off + 1 .. off + Len(texts)
  <2> SUFFICES ASSUME NEW m \in 1 .. Len(q) + Len(r), (q \o r)[m].key = i
               PROVE  m \in off + 1 .. off + Len(texts)
    BY <1>2
  <2>1. CASE m \in 1 .. Len(q)
    BY <1>1, <1>2, <2>1
  <2>2. CASE m \notin 1 .. Len(q)
    <3>1. m \in Len(q) + 1 .. Len(q) + Len(r) /\ m - Len(q) \in DOMAIN r
      BY <1>2, <2>2
    <3> QED BY <1>2, <3>1
  <2> QED BY <2>1, <2>2
<1>5. off + Len(texts) <= Len(q \o r)
  BY <1>1, <1>2
<1> QED BY <1>3, <1>4, <1>5 DEF Lies

LEMMA LiesAfter ==
    ASSUME NEW q \in Seq(QueryPair), NEW i \in Nat, NEW texts \in Seq(Texts),
           \A m \in DOMAIN q : q[m].key # i
    PROVE  Lies(q \o Block(i, texts), i, texts)
<1> DEFINE r == Block(i, texts)
<1>1. /\ r \in Seq(QueryPair) /\ Len(r) = Len(texts)
      /\ \A n \in 1 .. Len(texts) : r[n] = Pair(i, texts[n])
  BY BlockIs
<1> HIDE DEF r
<1>2. /\ Len(q \o r) = Len(q) + Len(texts)
      /\ Len(q) \in Nat /\ Len(texts) \in Nat
      /\ DOMAIN (q \o r) = 1 .. Len(q) + Len(texts)
      /\ DOMAIN q = 1 .. Len(q)
      /\ \A m \in 1 .. Len(q) : (q \o r)[m] = q[m]
      /\ \A m \in Len(q) + 1 .. Len(q) + Len(texts) : (q \o r)[m] = r[m - Len(q)]
  <2>1. q \in Seq(QueryPair) /\ r \in Seq(QueryPair) /\ Len(r) = Len(texts)
    BY <1>1
  <2>2. Len(q) \in Nat /\ Len(texts) \in Nat
    OBVIOUS
  <2>3. /\ Len(q \o r) = Len(q) + Len(r)
        /\ DOMAIN (q \o r) = 1 .. Len(q) + Len(r)
        /\ DOMAIN q = 1 .. Len(q)
        /\ \A m \in 1 .. Len(q) : (q \o r)[m] = q[m]
        /\ \A m \in Len(q) + 1 .. Len(q) + Len(r) : (q \o r)[m] = r[m - Len(q)]
    <3>1. /\ q \o r \in Seq(QueryPair) /\ Len(q \o r) = Len(q) + Len(r)
          /\ \A m \in 1 .. Len(q) + Len(r) :
                (q \o r)[m] = IF m <= Len(q) THEN q[m] ELSE r[m - Len(q)]
      BY <2>1, ConcatProperties
    <3>2. Len(r) \in Nat /\ DOMAIN q = 1 .. Len(q)
      BY <2>1, <2>2
    <3>3. DOMAIN (q \o r) = 1 .. Len(q) + Len(r)
      BY <3>1
    <3>4. \A m \in 1 .. Len(q) : m \in 1 .. Len(q) + Len(r) /\ m <= Len(q)
      BY <2>2, <3>2
    <3>5. \A m \in Len(q) + 1 .. Len(q) + Len(r) :
             m \in 1 .. Len(q) + Len(r) /\ ~(m <= Len(q))
      BY <2>2, <3>2
    <3> QED BY <3>1, <3>2, <3>3, <3>4, <3>5
  <2> QED BY <2>1, <2>2, <2>3
<1>3. \A n \in 1 .. Len(texts) : (q \o r)[Len(q) + n] = Pair(i, texts[n])
  <2> SUFFICES ASSUME NEW n \in 1 .. Len(texts)
               PROVE  (q \o r)[Len(q) + n] = Pair(i, texts[n])
    OBVIOUS
  <2>1. Len(q) + n \in Len(q) + 1 .. Len(q) + Len(texts) /\ (Len(q) + n) - Len(q) = n
    BY <1>2
  <2> QED BY <1>1, <1>2, <2>1
<1>4. \A m \in DOMAIN (q \o r) : (q \o r)[m].key = i => m \in Len(q) + 1 .. Len(q) + Len(texts)
  <2> SUFFICES ASSUME NEW m \in 1 .. Len(q) + Len(texts), m \in 1 .. Len(q)
               PROVE  (q \o r)[m].key # i
    BY <1>2
  <2> QED BY <1>2
<1>5. Len(q) + Len(texts) <= Len(q \o r)
  BY <1>2
<1>6. Lies(q \o r, i, texts)
  BY <1>2, <1>3, <1>4, <1>5 DEF Lies
<1> QED BY <1>6 DEF r

(* UriBuilder: every query argument is read from the query as it was put in. *)
LEMMA QueryArrives ==
    ASSUME endpoint \in Endpoints, NEW texts,
           \A j \in In(Args, "query") : texts[j] \in Seq(Texts),
           NEW i \in In(Args, "query")
    PROVE  QueryParams(QueryString(Args, texts), i) = texts[i]
<1> DEFINE L == Len(Args)
           asked == In(Args, "query")
           blocks == [j \in DOMAIN Args |-> IF j \in asked THEN Block(j, texts[j]) ELSE <<>>]
<1>1. L \in Nat /\ DOMAIN Args = 1 .. L /\ asked \subseteq 1 .. L /\ i \in asked
  BY ArgsAreASequence DEF In
<1>2. QueryString(Args, texts) = FlattenSeq(blocks)
  BY DEF QueryString, Block
<1> HIDE DEF L, asked
<1>3. /\ \A j \in 1 .. L : blocks[j] \in Seq(QueryPair)
      /\ \A j \in 1 .. L : j \in asked => blocks[j] = Block(j, texts[j])
      /\ \A j \in 1 .. L : j \notin asked => blocks[j] = <<>>
      /\ blocks \in Seq(Seq(QueryPair)) /\ Len(blocks) = L
  <2>1. <<>> \in Seq(QueryPair)
    OBVIOUS
  <2>2. \A j \in 1 .. L : j \in asked => Block(j, texts[j]) \in Seq(QueryPair)
    BY <1>1, BlockIs DEF asked
  <2>3. \A j \in 1 .. L : blocks[j] \in Seq(QueryPair)
    BY <1>1, <2>1, <2>2
  <2> QED BY <1>1, <2>3
<1> HIDE DEF blocks
<1>4. L # 0
  BY <1>1
<1>5. PICK f \in [1 .. L -> Seq(QueryPair)] :
        /\ f[1] = blocks[1]
        /\ \A k \in 2 .. L : f[k] = f[k - 1] \o blocks[k]
        /\ FlattenSeq(blocks) = f[L]
  BY <1>3, <1>4, Flattens
<1> DEFINE Good(k) == /\ \A j \in asked : j <= k => Lies(f[k], j, texts[j])
                      /\ \A m \in DOMAIN f[k] : f[k][m].key \in 1 .. k
           Bad == {k \in Nat : k \in 1 .. L /\ ~Good(k)}
<1>6. ASSUME NEW j \in 1 .. L
      PROVE  /\ \A m \in DOMAIN blocks[j] : blocks[j][m].key = j
             /\ j \in asked => texts[j] \in Seq(Texts)
  <2>1. CASE j \in asked
    <3>1. blocks[j] = Block(j, texts[j]) /\ texts[j] \in Seq(Texts)
      BY <1>3, <2>1 DEF asked
    <3>2. /\ Block(j, texts[j]) \in Seq(QueryPair)
          /\ Len(Block(j, texts[j])) = Len(texts[j])
          /\ \A n \in 1 .. Len(texts[j]) : Block(j, texts[j])[n].key = j
      BY <1>1, <3>1, BlockIs
    <3> QED BY <3>1, <3>2
  <2>2. CASE j \notin asked
    BY <1>3, <2>2
  <2> QED BY <2>1, <2>2
<1>7. ASSUME NEW k \in 1 .. L, NEW q \in Seq(QueryPair), f[k] = q \o blocks[k],
             \A j \in asked : j <= k - 1 => Lies(q, j, texts[j]),
             \A m \in DOMAIN q : q[m].key \in 1 .. k - 1
      PROVE  Good(k)
  <2>1. ASSUME NEW j \in asked, j <= k PROVE Lies(f[k], j, texts[j])
    <3>1. j \in Nat /\ j \in 1 .. L /\ texts[j] \in Seq(Texts)
      BY <1>1, <1>6
    <3>2. CASE j = k
      <4>1. blocks[k] = Block(j, texts[j])
        BY <1>3, <3>2
      <4>2. \A m \in DOMAIN q : q[m].key # j
        BY <1>7, <3>2
      <4> QED BY <1>7, <3>1, <4>1, <4>2, LiesAfter
    <3>3. CASE j # k
      <4>1. Lies(q, j, texts[j])
        BY <1>7, <2>1, <3>1, <3>3
      <4>2. \A m \in DOMAIN blocks[k] : blocks[k][m].key # j
        BY <1>6, <3>3
      <4>3. blocks[k] \in Seq(QueryPair)
        BY <1>3
      <4> QED BY <1>7, <3>1, <4>1, <4>2, <4>3, LiesBefore
    <3> QED BY <3>2, <3>3
  <2>2. \A m \in DOMAIN f[k] : f[k][m].key \in 1 .. k
    <3> DEFINE r == blocks[k]
    <3>1. r \in Seq(QueryPair) /\ \A m \in DOMAIN r : r[m].key = k
      BY <1>3, <1>6
    <3> HIDE DEF r
    <3>2. /\ DOMAIN (q \o r) = 1 .. Len(q) + Len(r) /\ Len(q) \in Nat /\ Len(r) \in Nat
          /\ DOMAIN q = 1 .. Len(q) /\ DOMAIN r = 1 .. Len(r)
          /\ \A m \in 1 .. Len(q) : (q \o r)[m] = q[m]
          /\ \A m \in Len(q) + 1 .. Len(q) + Len(r) : (q \o r)[m] = r[m - Len(q)]
      BY <3>1
    <3>3. ASSUME NEW m \in 1 .. Len(q) + Len(r) PROVE (q \o r)[m].key \in 1 .. k
      <4>1. CASE m \in 1 .. Len(q)
        BY <1>7, <3>2, <4>1
      <4>2. CASE m \notin 1 .. Len(q)
        <5>1. m \in Len(q) + 1 .. Len(q) + Len(r) /\ m - Len(q) \in DOMAIN r
          BY <3>2, <4>2
        <5> QED BY <3>1, <3>2, <5>1
      <4> QED BY <4>1, <4>2
    <3>4. f[k] = q \o r
      BY <1>7 DEF r
    <3> QED BY <3>2, <3>3, <3>4
  <2> QED BY <2>1, <2>2
<1>8. Bad = {}
  <2> HIDE DEF Good
  <2> SUFFICES ASSUME Bad # {} PROVE FALSE
    OBVIOUS
  <2>1. PICK k \in Bad : \A m \in Bad : <<m, k>> \notin OpToRel(<, Nat)
    BY WFMin, NatLessThanWellFounded, Zenon
  <2>2. k \in 1 .. L /\ k \in Nat /\ ~Good(k)
    OBVIOUS
  <2>3. CASE k = 1
    <3>1. f[1] = <<>> \o blocks[1] /\ <<>> \in Seq(QueryPair)
      BY <1>3, <1>5, <2>2, <2>3
    <3>2. /\ \A j \in asked : j <= k - 1 => Lies(<<>>, j, texts[j])
          /\ \A m \in DOMAIN <<>> : <<>>[m].key \in 1 .. k - 1
      BY <1>1, <2>3
    <3> QED BY <1>7, <2>2, <2>3, <3>1, <3>2
  <2>4. CASE k # 1
    <3>1. k - 1 \in 1 .. L /\ k - 1 \in Nat /\ k - 1 < k /\ k \in 2 .. L
      BY <1>1, <2>2, <2>4
    <3>2. k - 1 \notin Bad
      <4>1. <<k - 1, k>> \in OpToRel(<, Nat)
        BY <2>2, <3>1 DEF OpToRel
      <4> QED BY <2>1, <4>1
    <3>3. Good(k - 1)
      BY <3>1, <3>2
    <3>4. f[k - 1] \in Seq(QueryPair) /\ f[k] = f[k - 1] \o blocks[k]
      BY <1>5, <3>1
    <3> QED BY <1>7, <2>2, <3>3, <3>4 DEF Good
  <2> QED BY <2>3, <2>4
<1>9. Good(L)
  <2> HIDE DEF Good
  <2>1. L \in 1 .. L
    BY <1>1, <1>4
  <2> QED BY <1>1, <1>8, <2>1
<1>10. Lies(f[L], i, texts[i])
  <2>1. i \in asked /\ i <= L
    BY <1>1
  <2>2. \A j \in asked : j <= L => Lies(f[L], j, texts[j])
    BY <1>9
  <2> HIDE DEF asked
  <2> QED BY <2>1, <2>2
<1>11. f[L] \in Seq(QueryPair) /\ texts[i] \in Seq(Texts)
  BY <1>1, <1>4, <1>5 DEF asked
<1> QED BY <1>2, <1>5, <1>10, <1>11, QueryRead

(* The values of an argument, by its shape.                                  *)
LEMMA ValuesShaped ==
    ASSUME ValuesOK, values # None, NEW i \in DOMAIN Args
    PROVE  LET v == values[i]
               shape == Args[i].shape
           IN /\ shape # "binary" => v \in Seq(Valid)
              /\ shape = "required" => Len(v) = 1 /\ v # <<>>
              /\ shape = "optional" => Len(v) <= 1
              /\ shape = "set" => AsSet(v) = v
<1> DEFINE v == values[i]
           shape == Args[i].shape
<1> SUFFICES /\ shape # "binary" => v \in Seq(Valid)
             /\ shape = "required" => Len(v) = 1 /\ v # <<>>
             /\ shape = "optional" => Len(v) <= 1
             /\ shape = "set" => AsSet(v) = v
  OBVIOUS
<1>1. v \in ValuesOf(shape)
  BY DEF ValuesOK, Arguments, Args
<1>2. shape \in {"required", "optional", "list", "set", "binary"}
  BY ArgShapes DEF ValuesOK
<1>3. \A w \in Ones : w \in Seq(Valid) /\ Len(w) = 1 /\ w # <<>>
  <2>1. \A t \in Valid : <<t>> \in Seq(Valid) /\ Len(<<t>>) = 1 /\ <<t>> # <<>>
    OBVIOUS
  <2> QED BY <2>1 DEF Ones
<1>4. <<>> \in Seq(Valid) /\ Len(<<>>) <= 1
  OBVIOUS
<1>5. \A w \in Many : w \in Seq(Valid)
  <2> DEFINE Pairs == {<<t, u>> : t, u \in Valid}
  <2>1. \A t, u \in Valid : <<t, u>> \in Seq(Valid)
    OBVIOUS
  <2>2. ASSUME NEW w \in Pairs PROVE w \in Seq(Valid)
    <3>1. PICK t \in Valid, u \in Valid : w = <<t, u>>
      BY <2>2
    <3> QED BY <2>1, <3>1
  <2>3. Many = {<<>>} \cup Ones \cup Pairs
    BY DEF Many
  <2> HIDE DEF Pairs
  <2> QED BY <1>3, <1>4, <2>2, <2>3
<1> HIDE DEF v, shape
<1>6. CASE shape = "required"
  BY <1>1, <1>3, <1>6 DEF ValuesOf
<1>7. CASE shape = "optional"
  <2>1. v \in {<<>>} \cup Ones
    BY <1>1, <1>7 DEF ValuesOf
  <2>2. CASE v = <<>>
    <3>1. Len(v) = 0 /\ v \in Seq(Valid)
      BY <2>2
    <3> QED BY <1>7, <3>1
  <2>3. CASE v \in Ones
    <3>1. Len(v) = 1 /\ v \in Seq(Valid)
      BY <1>3, <2>3
    <3> QED BY <1>7, <3>1
  <2> QED BY <2>1, <2>2, <2>3
<1>8. CASE shape = "list"
  <2>1. v \in Many
    BY <1>1, <1>8 DEF ValuesOf
  <2> QED BY <1>5, <1>8, <2>1
<1>9. CASE shape = "set"
  <2>1. PICK w \in Many : v = AsSet(w)
    BY <1>1, <1>9 DEF ValuesOf
  <2>2. v \in Seq(Valid) /\ ToSet(v) = ToSet(w)
    BY <1>5, <2>1, SetOfTexts
  <2>3. AsSet(v) = v
    BY <2>1, <2>2 DEF AsSet
  <2> QED BY <1>9, <2>2, <2>3
<1>10. CASE shape = "binary"
  BY <1>10
<1> QED BY <1>2, <1>6, <1>7, <1>8, <1>9, <1>10

LEMMA EncodedIs ==
    ASSUME NEW v \in Seq(Valid)
    PROVE  /\ Encoded(v) \in Seq(Texts) /\ Len(Encoded(v)) = Len(v)
           /\ \A n \in 1 .. Len(v) : Encoded(v)[n] = Display[v[n]]
<1>1. \A n \in 1 .. Len(v) : v[n] \in Valid /\ Display[v[n]] \in Texts
  BY DisplayAssumption DEF Valid
<1> QED BY <1>1 DEF Encoded

(* Outside the body, the text is the value or its Display.                   *)
LEMMA TextsAre ==
    ASSUME ValuesOK, values # None, NEW i \in DOMAIN Args
    PROVE  /\ TheTexts[i] \in Seq(Texts)
           /\ Len(TheTexts[i]) = Len(values[i])
           /\ Args[i].place = "body" \/ endpoint.client # "trait" => TheTexts[i] = values[i]
           /\ Args[i].place # "body" =>
                 /\ values[i] \in Seq(Valid)
                 /\ \A n \in 1 .. Len(values[i]) :
                       TheTexts[i][n] \in {values[i][n], Display[values[i][n]]}
<1>1. values[i] \in Seq(Texts)
  BY ValuesFit
<1>2. Args[i].place # "body" => values[i] \in Seq(Valid)
  <2>1. Args[i].place # "body" => Args[i].shape # "binary"
    BY ArgShapes DEF ValuesOK
  <2> QED BY <2>1, ValuesShaped
<1>3. CASE Args[i].place = "body" \/ endpoint.client # "trait"
  <2>1. TheTexts[i] = values[i]
    BY <1>3 DEF TheTexts, TraitTexts, In
  <2> QED BY <1>1, <1>2, <2>1
<1>4. CASE Args[i].place # "body" /\ endpoint.client = "trait"
  <2>1. TheTexts[i] = Encoded(values[i])
    BY <1>4 DEF TheTexts, TraitTexts, In
  <2> QED BY <1>2, <1>4, <2>1, EncodedIs
<1> QED BY <1>3, <1>4

(* The request holds the client's texts, each in its argument's place.       *)
LEMMA TextsArrive ==
    ASSUME ValuesOK, values # None, request = Request(endpoint, TheTexts),
           NEW i \in DOMAIN Args
    PROVE  Carried(i) = TheTexts[i]
<1>1. endpoint \in Endpoints
  BY DEF ValuesOK
<1> DEFINE texts == TheTexts
<1>2. \A j \in In(Args, "query") : texts[j] \in Seq(Texts)
  BY TextsAre DEF In
<1> HIDE DEF texts
<1>3. /\ request.body = IF In(Args, "body") = {} THEN <<>>
                        ELSE texts[CHOOSE j \in In(Args, "body") : TRUE]
      /\ request.path = [j \in In(Args, "path") |-> texts[j]]
      /\ request.query = QueryString(Args, texts)
      /\ request.headers = [j \in In(Args, "header") |-> texts[j]]
  BY DEF Request, Args, texts
<1>4. CASE Args[i].place = "path"
  BY <1>3, <1>4 DEF Carried, In, texts
<1>5. CASE Args[i].place = "query"
  <2>1. i \in In(Args, "query")
    BY <1>5 DEF In
  <2>2. QueryParams(QueryString(Args, texts), i) = texts[i]
    BY <1>1, <1>2, <2>1, QueryArrives
  <2> QED BY <1>3, <1>5, <2>2, QueryCarried DEF texts
<1>6. CASE Args[i].place = "header"
  BY <1>3, <1>6 DEF Carried, In, texts
<1>7. CASE Args[i].place = "body"
  <2>1. i \in In(Args, "body")
    BY <1>7 DEF In
  <2>2. (CHOOSE j \in In(Args, "body") : TRUE) = i
    BY <1>1, <2>1, TheBody
  <2> QED BY <1>3, <1>7, <2>1, <2>2 DEF Carried, texts
<1> QED BY <1>1, <1>4, <1>5, <1>6, <1>7, ArgShapes

(* FromStr reads back what Display writes, and what a plain text says.       *)
LEMMA ReadBack ==
    ASSUME NEW v \in Valid, NEW text \in {v, Display[v]}
    PROVE  FromStr(text) = v /\ text \in Readable
<1>1. v \in DOMAIN Display /\ v \notin Malformed
  BY DisplayAssumption DEF Valid
<1>2. \A w \in DOMAIN Display : Display[w] = text => w = v
  <2> SUFFICES ASSUME NEW w \in DOMAIN Display, Display[w] = text
               PROVE  w = v
    OBVIOUS
  <2>1. CASE text = Display[v]
    BY <1>1, <2>1, DisplayAssumption
  <2>2. CASE text = v
    BY <1>1, <2>2, DisplayAssumption
  <2> QED BY <2>1, <2>2
<1>3. CASE text = Display[v]
  BY <1>1, <1>2, <1>3 DEF FromStr, Readable
<1>4. CASE text = v
  <2>1. FromStr(v) = v
    BY <1>1, <1>2, <1>4 DEF FromStr
  <2> QED BY <1>1, <1>4, <2>1 DEF Readable
<1> QED BY <1>3, <1>4

(* An endpoint of a trait reads the caller's value from the client's texts.  *)
LEMMA TraitReadsBack ==
    ASSUME ValuesOK, values # None, NEW i \in DOMAIN Args, Args[i].place # "body"
    PROVE  DecodeTexts(Args[i].shape, TheTexts[i]) = Ok(values[i])
<1> DEFINE texts == TheTexts[i]
           v == values[i]
           read == [n \in DOMAIN texts |-> FromStr(texts[n])]
<1>1. /\ texts \in Seq(Texts) /\ Len(texts) = Len(v) /\ v \in Seq(Valid)
      /\ \A n \in 1 .. Len(v) : texts[n] \in {v[n], Display[v[n]]}
  BY TextsAre
<1>2. /\ Args[i].shape = "required" => Len(v) = 1
      /\ Args[i].shape = "optional" => Len(v) <= 1
      /\ Args[i].shape = "set" => AsSet(v) = v
  BY ValuesShaped
<1> HIDE DEF texts, v
<1>3. \A n \in 1 .. Len(v) : FromStr(texts[n]) = v[n] /\ texts[n] \in Readable
  BY <1>1, ReadBack
<1>4. read = v
  BY <1>1, <1>3
<1>5. texts \in Seq(Readable)
  BY <1>1, <1>3
<1> HIDE DEF read
<1>6. DecodeTexts(Args[i].shape, texts) =
          Ok(IF Args[i].shape = "set" THEN AsSet(read) ELSE read)
  <2>1. ~(Args[i].shape = "required" /\ Len(texts) # 1)
        /\ ~(Args[i].shape = "optional" /\ Len(texts) > 1)
    <3>1. Len(v) \in Nat
      BY <1>1
    <3> QED BY <1>1, <1>2, <3>1
  <2> QED BY <1>5, <2>1 DEF DecodeTexts, read
<1>7. DecodeTexts(Args[i].shape, texts) = Ok(v)
  BY <1>2, <1>4, <1>6
<1> QED BY <1>7 DEF texts, v

(* An endpoint of the IR reads it too, unless a datetime's Display came,     *)
(* which it refuses.                                                         *)
LEMMA PlainReadsBack ==
    ASSUME ValuesOK, values # None, endpoint.server = "ir",
           NEW i \in DOMAIN Args, Args[i].place # "body"
    PROVE  \/ TheTexts[i] = values[i] /\ FromPlain(TheTexts[i]) = Ok(values[i])
           \/ Untransportable /\ FromPlain(TheTexts[i]) = Err("invalid")
<1> DEFINE texts == TheTexts[i]
           v == values[i]
<1>1. /\ texts \in Seq(Texts) /\ Len(texts) = Len(v) /\ v \in Seq(Valid)
      /\ \A n \in 1 .. Len(v) : texts[n] \in {v[n], Display[v[n]]}
      /\ endpoint.client # "trait" => texts = v
  BY TextsAre
<1>2. CASE texts = v
  BY <1>1, <1>2 DEF FromPlain
<1>3. CASE texts # v
  <2> HIDE DEF texts, v
  <2>1. PICK n \in 1 .. Len(v) : texts[n] # v[n]
    BY <1>1, <1>3
  <2>2. Display[v[n]] # v[n] /\ v[n] \in ToSet(v) /\ v[n] \in Valid /\ texts[n] = Display[v[n]]
    BY <1>1, <2>1 DEF ToSet
  <2>3. endpoint.client = "trait"
    BY <1>1, <1>3
  <2>4. texts[n] \in Malformed
    BY <2>2, DisplayAssumption DEF Valid
  <2>5. texts \notin Seq(Valid)
    <3>1. n \in DOMAIN texts /\ texts[n] \notin Valid
      BY <1>1, <2>1, <2>4 DEF Valid
    <3> QED BY <3>1
  <2>6. Untransportable
    BY <2>2, <2>3 DEF Untransportable, v
  <2>7. FromPlain(texts) = Err("invalid")
    BY <2>5 DEF FromPlain
  <2> QED BY <2>6, <2>7 DEF texts
<1> QED BY <1>2, <1>3

(* What a header cannot hold was in the caller's value: a Display is         *)
(* printable.                                                                *)
LEMMA BadHeader ==
    ASSUME ValuesOK, values # None, NEW i \in In(Args, "header"),
           ToSet(TheTexts[i]) \cap (NonAscii \cup Control) # {}
    PROVE  Untransportable
<1> DEFINE texts == TheTexts[i]
           v == values[i]
<1>1. i \in DOMAIN Args /\ Args[i].place = "header"
  BY DEF In
<1>2. /\ texts \in Seq(Texts) /\ Len(texts) = Len(v) /\ v \in Seq(Valid)
      /\ \A n \in 1 .. Len(v) : texts[n] \in {v[n], Display[v[n]]}
  BY <1>1, TextsAre
<1> HIDE DEF texts, v
<1>3. PICK n \in 1 .. Len(v) : texts[n] \in NonAscii \cup Control
  BY <1>2 DEF ToSet, texts
<1>4. v[n] \in DOMAIN Display /\ v[n] \in ToSet(v)
  BY <1>2, DisplayAssumption DEF Valid, ToSet
<1>5. texts[n] = v[n]
  BY <1>2, <1>3, <1>4, DisplayAssumption
<1> QED BY <1>1, <1>3, <1>4, <1>5 DEF Untransportable, v

(* The body of a generated client is announced as what it is.                *)
LEMMA BodyAnnounced ==
    ASSUME ValuesOK, values # None, request = Request(endpoint, TheTexts),
           NEW i \in DOMAIN Args, Args[i].place = "body"
    PROVE  /\ request.body = values[i]
           /\ request.type = IF Args[i].shape = "binary" THEN "octet" ELSE "json"
<1>1. i \in In(Args, "body") /\ endpoint \in Endpoints
  BY DEF In, ValuesOK
<1>2. \A j \in In(Args, "body") : j = i
  BY <1>1, ArgsAssumption DEF Args
<1>3. request.type = ContentType(Args)
  BY DEF Request, Args
<1>4. Carried(i) = values[i] /\ Carried(i) = request.body
  BY TextsArrive, TextsAre DEF Carried
<1> QED BY <1>1, <1>2, <1>3, <1>4 DEF ContentType

(* A JSON body that is no longer than the server allows is read as it is.    *)
LEMMA BodyReadsBack ==
    ASSUME ValuesOK, values # None, request = Request(endpoint, TheTexts),
           NEW i \in DOMAIN Args, Args[i].place = "body", Args[i].shape # "binary"
    PROVE  \/ DecodeJsonBody(request, Args[i].shape) = Ok(values[i])
           \/ Untransportable /\ DecodeJsonBody(request, Args[i].shape) = Err("invalid")
<1>1. request.body = values[i] /\ request.type = "json"
  BY BodyAnnounced
<1>2. values[i] \in Seq(Valid) /\ (Args[i].shape = "required" => values[i] # <<>>)
  BY ValuesShaped
<1>3. CASE ToSet(values[i]) \cap Oversized # {}
  <2>1. Untransportable
    BY <1>3 DEF Untransportable
  <2> QED BY <1>1, <1>3, <2>1 DEF DecodeJsonBody
<1>4. CASE ToSet(values[i]) \cap Oversized = {}
  BY <1>1, <1>2, <1>4 DEF DecodeJsonBody, FromPlain
<1> QED BY <1>3, <1>4

(* The next argument is read as the caller's, or refused because no wire     *)
(* carries it.                                                               *)
LEMMA ParseReadsBack ==
    ASSUME ValuesOK, values # None, request = Request(endpoint, TheTexts),
           NEW i \in DOMAIN Args, i = Len(parsed) + 1
    PROVE  ParseNext = Ok(values[i]) \/ (Untransportable /\ ParseNext = Err("invalid"))
<1> DEFINE texts == TheTexts[i]
           v == values[i]
           shape == Args[i].shape
<1>1. endpoint \in Endpoints /\ Carried(i) = texts
  BY TextsArrive DEF ValuesOK
<1>2. /\ texts \in Seq(Texts) /\ Len(texts) = Len(v)
      /\ Args[i].place # "body" => v \in Seq(Valid)
  BY TextsAre
<1>3. /\ shape = "required" => Len(v) = 1 /\ v # <<>>
      /\ shape = "optional" => Len(v) <= 1
      /\ shape = "set" => AsSet(v) = v
  BY ValuesShaped
<1>4. ~Err("invalid").ok
  BY DEF Err
<1>5. CASE endpoint.server = "trait"
  <2>1. ParseNext = TraitParse(request, i, Args[i])
    BY <1>5 DEF ParseNext
  <2>2. CASE Args[i].place = "body"
    <3>1. shape # "binary"
      BY <1>1, <1>5, ArgShapes
    <3>2. ParseNext = DecodeJsonBody(request, shape)
      BY <2>1, <2>2 DEF TraitParse
    <3> QED BY <1>4, <2>2, <3>1, <3>2, BodyReadsBack
  <2>3. CASE Args[i].place # "body"
    <3>1. DecodeTexts(shape, texts) = Ok(v)
      BY <2>3, TraitReadsBack
    <3>2. CASE Args[i].place = "path"
      <4>1. ParseNext = DecodeTexts(shape, Carried(i))
        BY <2>1, <3>2 DEF TraitParse, Carried
      <4> QED BY <1>1, <3>1, <4>1
    <3>3. CASE Args[i].place = "query"
      <4>1. ParseNext = DecodeTexts(shape, Carried(i))
        BY <2>1, <3>3, QueryCarried DEF TraitParse
      <4> QED BY <1>1, <3>1, <4>1
    <3>4. CASE Args[i].place = "header"
      <4>1. ParseNext = IF ToSet(texts) \cap (NonAscii \cup Control) # {} THEN Err("invalid")
                        ELSE DecodeTexts(shape, texts)
        BY <1>1, <2>1, <3>4 DEF TraitParse, Carried
      <4>2. CASE ToSet(texts) \cap (NonAscii \cup Control) # {}
        <5>1. i \in In(Args, "header")
          BY <3>4 DEF In
        <5>2. Untransportable
          BY <4>2, <5>1, BadHeader
        <5> QED BY <1>4, <4>1, <4>2, <5>2
      <4> QED BY <3>1, <4>1, <4>2
    <3> QED BY <1>1, <2>3, <3>2, <3>3, <3>4, ArgShapes
  <2> QED BY <2>2, <2>3
<1>6. CASE endpoint.server = "ir"
  <2>1. ParseNext = Parse(request, i, Args[i])
    BY <1>6 DEF ParseNext
  <2>2. CASE Args[i].place = "body"
    <3>1. CASE shape = "binary"
      <4>1. ParseNext = Ok(request.body)
        BY <2>1, <2>2, <3>1, BodyAnnounced DEF Parse, DecodeBody
      <4> QED BY <2>2, <4>1, BodyAnnounced
    <3>2. CASE shape # "binary"
      <4>1. request.type = "json" /\ shape \in {"required", "optional"}
        BY <1>1, <2>2, <3>2, BodyAnnounced, ArgShapes
      <4>2. ParseNext = DecodeJsonBody(request, shape)
        BY <2>1, <2>2, <4>1 DEF Parse, DecodeBody
      <4> QED BY <1>4, <2>2, <3>2, <4>2, BodyReadsBack
    <3> QED BY <3>1, <3>2
  <2>3. CASE Args[i].place # "body"
    <3>1. \/ texts = v /\ FromPlain(texts) = Ok(v)
          \/ Untransportable /\ FromPlain(texts) = Err("invalid")
      BY <1>6, <2>3, PlainReadsBack
    <3>e. /\ Len(v) \in Nat /\ (texts = <<>> <=> Len(texts) = 0)
          /\ (v = <<>> <=> Len(v) = 0)
      BY <1>2, <2>3
    <3> HIDE DEF texts, v, shape
    <3>2. CASE Args[i].place = "path"
      <4>1. ParseNext = FromPlain(texts)
        BY <1>1, <2>1, <3>2 DEF Parse, ParsePathParam, Carried
      <4> QED BY <1>4, <3>1, <4>1 DEF v
    <3>3. CASE Args[i].place = "query"
      <4>1. ParseNext = ParseQueryParam(request, i, shape) /\ QueryParams(request.query, i) = texts
        BY <1>1, <2>1, <3>3, QueryCarried DEF Parse, shape
      <4>2. shape \in {"required", "optional", "list", "set"}
        BY <1>1, <3>3, ArgShapes DEF shape
      <4>3. CASE texts = <<>>
        <5>1. v = <<>> /\ shape # "required"
          BY <1>2, <1>3, <3>e, <4>3
        <5> QED BY <4>1, <4>3, <5>1 DEF ParseQueryParam, v
      <4>4. CASE texts # <<>> /\ shape = "set"
        <5>1. ParseNext = SetFromPlain(texts)
          BY <4>1, <4>4 DEF ParseQueryParam
        <5>2. CASE texts = v /\ FromPlain(texts) = Ok(v)
          <6>1. SetFromPlain(texts) = Ok(AsSet(v))
            BY <5>2 DEF SetFromPlain, Ok
          <6> QED BY <1>3, <4>4, <5>1, <6>1 DEF v
        <5>3. CASE Untransportable /\ FromPlain(texts) = Err("invalid")
          <6>1. SetFromPlain(texts) = Err("invalid")
            BY <1>4, <5>3 DEF SetFromPlain
          <6> QED BY <1>4, <5>1, <5>3, <6>1
        <5> QED BY <3>1, <5>2, <5>3
      <4>5. CASE texts # <<>> /\ shape # "set"
        <5>1. shape \in {"required", "optional"} => Len(texts) = 1
          BY <1>2, <1>3, <3>e, <4>5
        <5>2. ParseNext = FromPlain(texts)
          BY <4>1, <4>2, <4>5, <5>1 DEF ParseQueryParam
        <5> QED BY <1>4, <3>1, <5>2 DEF v
      <4> QED BY <4>3, <4>4, <4>5
    <3>4. CASE Args[i].place = "header"
      <4>1. ParseNext = ParseHeader(request, i, shape) /\ request.headers[i] = texts
        BY <1>1, <2>1, <3>4 DEF Parse, Carried, shape
      <4>2. shape \in {"required", "optional"}
        BY <1>1, <3>4, ArgShapes DEF shape
      <4>3. CASE texts = <<>>
        <5>1. v = <<>> /\ shape # "required"
          BY <1>2, <1>3, <3>e, <4>3
        <5> QED BY <4>1, <4>3, <5>1 DEF ParseHeader, v
      <4>4. CASE texts # <<>> /\ Head(texts) \in NonAscii \cup Control
        <5>1. Head(texts) \in ToSet(texts)
          BY <1>2, <3>e, <4>4 DEF ToSet
        <5>2. i \in In(Args, "header")
          BY <3>4 DEF In
        <5>3. Untransportable
          BY <4>4, <5>1, <5>2, BadHeader DEF texts
        <5> QED BY <1>4, <4>1, <4>4, <5>3 DEF ParseHeader
      <4>5. CASE texts # <<>> /\ Head(texts) \notin NonAscii \cup Control
        <5>1. Len(texts) = 1
          BY <1>2, <1>3, <3>e, <4>2, <4>5
        <5>2. <<Head(texts)>> = texts
          BY <1>2, <5>1
        <5>3. ParseNext = FromPlain(texts)
          BY <4>1, <4>5, <5>2 DEF ParseHeader
        <5> QED BY <1>4, <3>1, <5>3 DEF v
      <4> QED BY <4>3, <4>4, <4>5
    <3> QED BY <1>1, <2>3, <3>2, <3>3, <3>4, ArgShapes
  <2> QED BY <2>2, <2>3
<1> QED BY <1>1, <1>5, <1>6, ArgShapes

-----------------------------------------------------------------------------
(* Between generated peers                                                   *)

(* What the server writes for the handler's value.                           *)
Written(v) ==
    IF endpoint.server = "trait" THEN TraitEncode(endpoint.returns, v)
    ELSE Encode(endpoint.returns, v)

LEMMA ResultsAreTexts ==
    ASSUME endpoint \in Endpoints, NEW v \in Results(endpoint)
    PROVE  /\ v \in Seq(Valid) /\ v # None
           /\ endpoint.returns = "void" => v = <<>>
           /\ endpoint.returns \in {"json", "binary"} => v # <<>>
<1>1. v \in {<<>>} \cup Ones
  BY ArgsAssumption DEF Results
<1>2. \A t \in Valid : <<t>> \in Seq(Valid) /\ <<t>> # <<>>
  OBVIOUS
<1>3. v \in Seq(Valid)
  BY <1>1, <1>2, Nothing DEF Ones
<1>4. v # None
  <2>1. v \in Seq(Texts)
    BY <1>3, SeqMonotonic DEF Valid
  <2> QED BY <2>1, ClassesAssumption
<1>5. endpoint.returns = "void" => v = <<>>
  BY DEF Results
<1>6. endpoint.returns \in {"json", "binary"} => v # <<>>
  BY <1>2 DEF Results, Ones
<1> QED BY <1>3, <1>4, <1>5, <1>6

(* The client reads the handler's value from what the server writes, unless  *)
(* that is the empty response of a default, which a trait's client does not  *)
(* read.                                                                     *)
LEMMA ResultArrives ==
    ASSUME endpoint \in Endpoints, returned \in Results(endpoint),
           response = Written(returned),
           NEW o,
           endpoint.client = "trait" => o = TraitDecode(endpoint.returns, response),
           endpoint.client = "ir" => o = Decode(endpoint.returns, response)
    PROVE  response.status # 500 /\ (o = Ok(returned) \/ (EmptyUnread /\ ~o.ok))
<1>1. /\ returned \in Seq(Valid)
      /\ endpoint.returns = "void" => returned = <<>>
      /\ endpoint.returns \in {"json", "binary"} => returned # <<>>
  BY ResultsAreTexts
<1>2. /\ endpoint.returns \in {"void", "json", "iterable", "binary", "optional binary"}
      /\ endpoint.client \in {"ir", "trait"} /\ endpoint.server \in {"ir", "trait"}
      /\ "trait" \in {endpoint.client, endpoint.server} =>
            endpoint.returns \in {"void", "json", "iterable"}
  BY ArgsAssumption, EndpointsAssumption
<1>3. ToSet(returned) \cap Malformed = {}
  <2>1. \A n \in DOMAIN returned : returned[n] \in Valid
    BY <1>1
  <2> QED BY <2>1 DEF ToSet, Valid
<1>a. response = NoContent => response.status = 204 /\ response.type = "none"
  BY DEF NoContent
<1>b. ASSUME NEW type, response = Content(type, returned)
      PROVE  /\ response.status = 200 /\ response.type = type
             /\ response.body = returned /\ response # NoContent
  <2>1. response.status = 200 /\ response.type = type /\ response.body = returned
    BY <1>b DEF Content
  <2> QED BY <1>a, <2>1
<1>4. CASE response = NoContent
  <2>1. response.status = 204 /\ response.type = "none" /\ response.status # 500
    BY <1>4, <1>a
  <2>2. endpoint.returns \in {"void", "iterable", "optional binary"} /\ returned = <<>>
        /\ (endpoint.returns # "void" => endpoint.server = "ir")
    <3>1. CASE endpoint.server = "trait"
      <4>1. response = IF endpoint.returns = "void" THEN NoContent
                       ELSE Content("json", returned)
        BY <3>1 DEF Written, TraitEncode
      <4>2. endpoint.returns = "void"
        BY <1>4, <1>b, <4>1
      <4> QED BY <1>1, <4>2
    <3>2. CASE endpoint.server = "ir"
      <4>1. response = Encode(endpoint.returns, returned)
        BY <3>2 DEF Written
      <4>2. CASE returned = <<>>
        BY <1>1, <1>2, <3>2, <4>2
      <4>3. CASE returned # <<>> /\ endpoint.returns # "void"
        <5>1. \E type \in {"json", "octet"} : response = Content(type, returned)
          BY <1>2, <4>1, <4>3 DEF Encode
        <5> QED BY <1>4, <1>b, <5>1
      <4> QED BY <1>1, <4>2, <4>3
    <3> QED BY <1>2, <3>1, <3>2
  <2>3. CASE endpoint.client = "ir"
    BY <2>1, <2>2, <2>3 DEF Decode
  <2>4. CASE endpoint.client = "trait"
    <3>1. CASE endpoint.returns = "void"
      BY <2>1, <2>2, <2>4, <3>1 DEF TraitDecode
    <3>2. CASE endpoint.returns # "void"
      <4>1. EmptyUnread
        BY <1>2, <2>2, <2>4, <3>2 DEF EmptyUnread
      <4>2. ~o.ok
        BY <2>1, <2>4, <3>2 DEF TraitDecode, DecodeJson, Err
      <4> QED BY <2>1, <4>1, <4>2
    <3> QED BY <3>1, <3>2
  <2> QED BY <1>2, <2>3, <2>4
<1>5. CASE response # NoContent
  <2>1. \/ /\ response = Content("json", returned)
           /\ endpoint.returns \in {"json", "iterable"}
        \/ /\ response = Content("octet", returned)
           /\ endpoint.returns \in {"binary", "optional binary"}
    <3>1. CASE endpoint.server = "trait"
      BY <1>2, <1>5, <3>1 DEF Written, TraitEncode
    <3>2. CASE endpoint.server = "ir"
      <4>1. response = Encode(endpoint.returns, returned)
        BY <3>2 DEF Written
      <4> QED BY <1>1, <1>2, <1>5, <4>1 DEF Encode
    <3> QED BY <1>2, <3>1, <3>2
  <2>3. CASE response = Content("json", returned) /\ endpoint.returns \in {"json", "iterable"}
    <3>a. response.status = 200 /\ response.type = "json" /\ response.body = returned
      BY <1>b, <2>3
    <3>1. /\ DecodeJson(response, TRUE) = Ok(returned)
          /\ returned # <<>> => DecodeJson(response, FALSE) = Ok(returned)
      BY <1>3, <3>a DEF DecodeJson
    <3>2. CASE endpoint.returns = "json"
      <4>1. endpoint.client = "trait" => o = DecodeJson(response, FALSE)
        BY <3>2 DEF TraitDecode
      <4>2. endpoint.client = "ir" => o = DecodeJson(response, FALSE)
        BY <3>2 DEF Decode
      <4>3. o = DecodeJson(response, FALSE)
        BY <1>2, <4>1, <4>2, Zenon
      <4>4. o = Ok(returned)
        BY <1>1, <3>1, <3>2, <4>3, Zenon
      <4> QED BY <3>a, <4>4
    <3>3. CASE endpoint.returns = "iterable"
      <4>1. endpoint.client = "trait" => o = DecodeJson(response, TRUE)
        BY <3>3 DEF TraitDecode
      <4>2. endpoint.client = "ir" => o = DecodeJson(response, TRUE)
        BY <3>a, <3>3 DEF Decode
      <4>3. o = DecodeJson(response, TRUE)
        BY <1>2, <4>1, <4>2, Zenon
      <4>4. o = Ok(returned)
        BY <3>1, <4>3, Zenon
      <4> QED BY <3>a, <4>4
    <3> QED BY <2>3, <3>2, <3>3
  <2>4. CASE /\ response = Content("octet", returned)
             /\ endpoint.returns \in {"binary", "optional binary"}
    <3>a. response.status = 200 /\ response.type = "octet" /\ response.body = returned
      BY <1>b, <2>4
    <3>1. endpoint.client = "ir" /\ DecodeBinary(response) = Ok(returned)
      BY <1>2, <2>4, <3>a DEF DecodeBinary
    <3>2. o = DecodeBinary(response)
      <4>1. CASE endpoint.returns = "binary"
        BY <3>1, <4>1 DEF Decode
      <4>2. CASE endpoint.returns = "optional binary"
        <5>1. o = IF response.status = 204 THEN Ok(<<>>) ELSE DecodeBinary(response)
          BY <3>1, <4>2 DEF Decode
        <5> QED BY <3>a, <5>1
      <4> QED BY <2>4, <4>1, <4>2
    <3> QED BY <3>a, <3>1, <3>2
  <2> QED BY <2>1, <2>3, <2>4
<1> QED BY <1>4, <1>5

(* The reasons of an error other than the connection's and the handler's.    *)
Refused ==
    \/ Untransportable
    \/ endpoint.client = "trait" /\ ArgumentNoJson
    \/ endpoint.server = "trait" /\ ResultNoJson

(* What holds at every moment of a call between generated peers: the request *)
(* is the client's, what was parsed is the caller's, what the handler was    *)
(* called with and returned is on its way, and a refusal has its reason.     *)
Faithful ==
    Generated =>
        /\ pc \in {"begin", "args"} => request = Request(endpoint, TheTexts)
        /\ \A i \in DOMAIN parsed : parsed[i] = values[i]
        /\ pc \in {"handling", "encode"} => got # None
        /\ pc \in {"build", "begin", "args", "handling"} => returned = None
        /\ returned # None => returned \in Results(endpoint) /\ got # None
        /\ pc = "encode" => returned # None
        /\ pc = "decode" =>
              \/ response.status = 500
                 /\ (response.type \in {"broken", "handler"} \/ Refused)
              \/ returned # None /\ response = Written(returned)
        /\ pc = "unsent" => UriTooLong \/ (endpoint.client = "ir" /\ ArgumentNoJson)
        /\ pc = "panicked" => endpoint.server = "ir" /\ ResultNoJson
        /\ pc = "done" =>
              \/ answer.ok
              \/ answer.kind \in {"broken", "handler"}
              \/ Refused
              \/ EmptyUnread

(* A step of the remote call, seen as one of the local call.                 *)
LocalStep == [Local!Next]_(Local!vars)

LEMMA Peers ==
    ASSUME UNCHANGED <<endpoint, values, foreign>>
    PROVE  /\ Generated' <=> Generated
           /\ TheTexts' = TheTexts
           /\ Request(endpoint, TheTexts)' = Request(endpoint, TheTexts)
           /\ Untransportable' <=> Untransportable
           /\ Results(endpoint)' = Results(endpoint)
           /\ \A v : Written(v)' = Written(v)
           /\ ArgumentNoJson' <=> ArgumentNoJson
           /\ UriTooLong' <=> UriTooLong
           /\ UNCHANGED returned =>
                 /\ EmptyUnread' <=> EmptyUnread
                 /\ ResultNoJson' <=> ResultNoJson
                 /\ Refused' <=> Refused
<1>1. Args' = Args
  BY DEF Args
<1>2. TheTexts' = TheTexts
  BY <1>1 DEF TheTexts
<1>3. Request(endpoint, TheTexts)' = Request(endpoint, TheTexts)
  BY <1>2
<1>4. Untransportable' <=> Untransportable
  BY <1>1 DEF Untransportable
<1>5. ArgumentNoJson' <=> ArgumentNoJson
  BY <1>1 DEF ArgumentNoJson
<1>6. UriTooLong' <=> UriTooLong
  BY <1>2, <1>3 DEF UriTooLong
<1>7. UNCHANGED returned => (ResultNoJson' <=> ResultNoJson)
  BY DEF ResultNoJson
<1>8. UNCHANGED returned => (Refused' <=> Refused)
  BY <1>4, <1>5, <1>7 DEF Refused
<1> QED BY <1>2, <1>3, <1>4, <1>5, <1>6, <1>7, <1>8 DEF Generated, Results, Written, EmptyUnread

LEMMA Unseen ==
    ASSUME UNCHANGED <<values, foreign, got, returned, answer>>
    PROVE  LocalStep
BY DEF LocalStep, Local!vars, IfGenerated, Generated

(* A refusal on the server's side has a reason the caller knows.             *)
LEMMA FailIsFaithful ==
    ASSUME RInv, Faithful, Generated, pc \in {"args", "handling", "encode"},
           NEW kind, Fail(kind),
           IF kind = "panic" THEN endpoint.server = "ir" /\ ResultNoJson
           ELSE kind \in {"broken", "handler"} \/ Refused,
           UNCHANGED <<endpoint, values, foreign, request, parsed, got, returned, answer>>
    PROVE  Faithful' /\ LocalStep
<1>1. \/ pc' = "panicked" /\ kind = "panic"
      \/ pc' = "decode" /\ response' = Failure(kind) /\ kind # "panic"
  BY DEF Fail
<1>2. /\ \A i \in DOMAIN parsed : parsed[i] = values[i]
      /\ returned # None => returned \in Results(endpoint) /\ got # None
  BY DEF Faithful
<1>3. pc' = "panicked" => endpoint'.server = "ir" /\ ResultNoJson'
  BY <1>1, Peers
<1>4. pc' = "decode" => /\ response'.status = 500
                        /\ response'.type \in {"broken", "handler"} \/ Refused'
  BY <1>1, Peers DEF Failure
<1>5. Results(endpoint)' = Results(endpoint)
  BY Peers
<1>6. Faithful'
  BY <1>1, <1>2, <1>3, <1>4, <1>5 DEF Faithful
<1> QED BY <1>6, Unseen

(* Why a client sends nothing, and what it sends otherwise: a trait's        *)
(* encoders leave the body alone.                                            *)
LEMMA BuiltTruly ==
    ASSUME ValuesOK, values # None, NEW built,
           \/ endpoint.client = "ir" /\ built = Built(endpoint, values)
           \/ endpoint.client = "trait" /\ built = TraitBuilt(endpoint, values)
    PROVE  \/ built = Ok(Request(endpoint, TheTexts))
           \/ /\ built = Err("panic")
              /\ UriTooLong \/ (endpoint.client = "ir" /\ ArgumentNoJson)
           \/ built = Err("internal") /\ Refused
<1> DEFINE sent == Request(endpoint, TheTexts)
           long == ~UriFits(sent.path, sent.query)
<1>1. long <=> UriTooLong
  BY DEF UriTooLong
<1>2. HeaderRefused(Args, TheTexts) => Untransportable
  <2> SUFFICES ASSUME HeaderRefused(Args, TheTexts) PROVE Untransportable
    OBVIOUS
  <2>1. PICK i \in In(Args, "header") : ToSet(TheTexts[i]) \cap Control # {}
    BY DEF HeaderRefused
  <2>2. ToSet(TheTexts[i]) \cap (NonAscii \cup Control) # {}
    BY <2>1
  <2> QED BY <2>1, <2>2, BadHeader
<1>3. CASE endpoint.client = "ir"
  <2>1. TheTexts = values /\ built = Built(endpoint, TheTexts)
    BY <1>3 DEF TheTexts
  <2>2. BodyRefused(Args, TheTexts) <=> ArgumentNoJson
    BY <2>1 DEF ArgumentNoJson
  <2>3. built = IF BodyRefused(Args, TheTexts) \/ long THEN Err("panic")
                ELSE IF HeaderRefused(Args, TheTexts) THEN Err("internal")
                ELSE Ok(sent)
    BY <2>1 DEF Built, Args
  <2> HIDE DEF sent, long
  <2> QED BY <1>1, <1>2, <1>3, <2>2, <2>3 DEF Refused, sent
<1>4. CASE endpoint.client = "trait"
  <2>1. TheTexts = TraitTexts(endpoint.args, values)
    BY <1>4 DEF TheTexts, Args
  <2>2. BodyRefused(Args, TheTexts) <=> ArgumentNoJson
    <3>1. \A i \in In(Args, "body") : TheTexts[i] = values[i]
      BY <2>1 DEF TraitTexts, In, Args
    <3> QED BY <3>1 DEF BodyRefused, ArgumentNoJson
  <2>3. built = IF ArgumentNoJson THEN Err("internal") ELSE Built(endpoint, TheTexts)
    BY <1>4, <2>1 DEF TraitBuilt, ArgumentNoJson, Args
  <2>4. ~ArgumentNoJson => built = IF long THEN Err("panic")
                ELSE IF HeaderRefused(Args, TheTexts) THEN Err("internal")
                ELSE Ok(sent)
    BY <2>2, <2>3 DEF Built, Args
  <2> HIDE DEF sent, long
  <2> QED BY <1>1, <1>2, <1>4, <2>3, <2>4 DEF Refused, sent
<1> QED BY <1>3, <1>4

(* The client's first step.                                                  *)
LEMMA SendIsFaithful ==
    ASSUME RInv, Faithful, Generated, RInv', NEW built, Send(built),
           \/ endpoint.client = "ir" /\ built = Built(endpoint, values)
           \/ endpoint.client = "trait" /\ built = TraitBuilt(endpoint, values)
    PROVE  Faithful' /\ LocalStep
<1> DEFINE sent == Request(endpoint, TheTexts)
<1>1. /\ pc = "build" /\ answer = None /\ parsed = <<>> /\ returned = None /\ got = None
      /\ ValuesOK /\ values # None
      /\ UNCHANGED <<endpoint, values, foreign, parsed, token, safe, got, returned, response>>
  BY DEF Send, RInv, NotYet, TypeOK, Faithful, Generated
<1>2. CASE built = Err("internal") /\ Refused
  <2>1. answer' = Err("internal") /\ pc' = "done"
    BY <1>2, OutcomesAre DEF Send
  <2>2. Faithful'
    BY <1>1, <1>2, <2>1, Peers DEF Faithful
  <2>3. answer' # None /\ ~answer'.ok
    BY <2>1 DEF RInv, TypeOK, Err
  <2>4. Generated'
    BY <1>1, Peers
  <2>5. Local!Fail
    BY <1>1, <2>3, <2>4 DEF Local!Fail, IfGenerated
  <2> QED BY <2>2, <2>5 DEF LocalStep, Local!Next
<1>3. CASE /\ built = Err("panic")
           /\ UriTooLong \/ (endpoint.client = "ir" /\ ArgumentNoJson)
  <2>1. pc' = "unsent" /\ UNCHANGED answer
    BY <1>3, OutcomesAre DEF Send
  <2>2. Faithful'
    BY <1>1, <1>3, <2>1, Peers DEF Faithful
  <2> QED BY <1>1, <2>1, <2>2, Unseen
<1>4. CASE built = Ok(sent)
  <2>1. request' = sent /\ pc' = "begin" /\ UNCHANGED answer
    BY <1>4, OutcomesAre DEF Send
  <2>2. request' = Request(endpoint, TheTexts)'
    BY <1>1, <2>1, Peers
  <2>3. Faithful'
    BY <1>1, <2>1, <2>2 DEF Faithful
  <2> QED BY <1>1, <2>1, <2>3, Unseen
<1> QED BY <1>1, <1>2, <1>3, <1>4, BuiltTruly

(* An argument that the wire carries is the caller's; another is refused.    *)
LEMMA ParseArgIsFaithful ==
    ASSUME RInv, Faithful, Generated, ParseArg
    PROVE  Faithful' /\ LocalStep
<1> DEFINE i == Len(parsed) + 1
<1>1. /\ pc = "args" /\ i \in DOMAIN Args /\ values # None
      /\ UNCHANGED <<endpoint, values, foreign, request, got, returned, answer>>
      /\ ValuesOK /\ parsed \in Seq(Seq(Texts))
      /\ request = Request(endpoint, TheTexts) /\ returned = None
      /\ \A n \in DOMAIN parsed : parsed[n] = values[n]
  BY DEF ParseArg, Generated, RInv, TypeOK, Faithful
<1>2. ParseNext = Ok(values[i]) \/ (Untransportable /\ ParseNext = Err("invalid"))
  BY <1>1, ParseReadsBack
<1>3. CASE ParseNext.ok
  <2>1. parsed' = Append(parsed, values[i]) /\ UNCHANGED <<pc, response>>
    BY <1>2, <1>3 DEF ParseArg, Ok, Err
  <2>2. \A n \in DOMAIN parsed' : parsed'[n] = values[n]
    BY <1>1, <2>1
  <2>3. request' = Request(endpoint, TheTexts)'
    BY <1>1, Peers
  <2>4. Faithful'
    BY <1>1, <2>1, <2>2, <2>3 DEF Faithful
  <2> QED BY <1>1, <2>4, Unseen
<1>4. CASE ~ParseNext.ok
  <2>1. Fail(ParseNext.kind) /\ UNCHANGED parsed
    BY <1>4 DEF ParseArg
  <2>2. Refused /\ ParseNext.kind = "invalid"
    BY <1>2, <1>4 DEF Ok, Err, Refused
  <2> DEFINE kind == ParseNext.kind
  <2>3. kind # "panic" /\ Fail(kind)
    BY <2>1, <2>2
  <2> HIDE DEF kind
  <2> QED BY <1>1, <2>1, <2>2, <2>3, FailIsFaithful
<1> QED BY <1>3, <1>4

(* The generated client sends the token the endpoint wants.                  *)
LEMMA AuthenticateIsFaithful ==
    ASSUME RInv, Faithful, Generated, Authenticate
    PROVE  Faithful' /\ LocalStep
<1>1. /\ pc = "args" /\ endpoint.auth
      /\ UNCHANGED <<endpoint, values, foreign, request, parsed, got, returned, answer>>
      /\ request = Request(endpoint, TheTexts)
  BY DEF Authenticate, AuthDue, Faithful
<1>2. request.auth = "good"
  BY <1>1 DEF Request
<1>3. UNCHANGED <<pc, response>>
  BY <1>2 DEF Authenticate, ParseAuth, Ok
<1>4. Faithful'
  BY <1>1, <1>3, Peers DEF Faithful
<1> QED BY <1>1, <1>4, Unseen

(* The handler is called with the caller's arguments.                        *)
LEMMA HandleIsLocal ==
    ASSUME RInv, Faithful, Generated, Handle
    PROVE  Faithful' /\ LocalStep
<1>1. /\ pc = "args" /\ pc' = "handling" /\ got' = parsed /\ Len(parsed) = Len(Args)
      /\ UNCHANGED <<endpoint, values, foreign, request, parsed, returned, response, answer>>
      /\ got = None /\ answer = None /\ returned = None
      /\ \A n \in DOMAIN parsed : parsed[n] = values[n]
      /\ parsed \in Seq(Seq(Texts)) /\ ValuesOK /\ values # None
  BY DEF Handle, RInv, NotYet, TypeOK, Faithful, Generated
<1>2. parsed # None
  BY <1>1, NoneAssumption
<1>3. parsed = values
  <2>1. DOMAIN Args = 1 .. Len(Args)
    BY <1>1, ArgsAreASequence DEF ValuesOK
  <2>2. values \in [DOMAIN Args -> Many \cup Streams]
    BY <1>1 DEF ValuesOK, Arguments, Args
  <2>3. DOMAIN parsed = DOMAIN values /\ parsed = [n \in DOMAIN parsed |-> parsed[n]]
    BY <1>1, <2>1, <2>2
  <2> QED BY <1>1, <2>2, <2>3
<1>4. Faithful'
  BY <1>1, <1>2 DEF Faithful
<1>5. Generated'
  BY <1>1, Peers
<1>6. Local!Handle
  BY <1>1, <1>3, <1>5 DEF Local!Handle, IfGenerated
<1> QED BY <1>4, <1>6 DEF LocalStep, Local!Next

LEMMA HandlerReturnsIsLocal ==
    ASSUME RInv, Faithful, Generated, HandlerReturns
    PROVE  Faithful' /\ LocalStep
<1>1. /\ pc = "handling" /\ pc' = "encode" /\ returned' \in Results(endpoint)
      /\ UNCHANGED <<endpoint, values, foreign, request, parsed, got, response, answer>>
      /\ got # None /\ answer = None /\ returned = None /\ endpoint \in Endpoints
      /\ \A n \in DOMAIN parsed : parsed[n] = values[n]
  BY DEF HandlerReturns, RInv, TypeOK, Faithful
<1>2. returned' # None
  BY <1>1, ResultsAreTexts
<1>3. Generated' /\ Results(endpoint)' = Results(endpoint)
  BY <1>1, Peers
<1>4. Faithful'
  BY <1>1, <1>2, <1>3 DEF Faithful
<1>5. Local!Return
  BY <1>1, <1>2, <1>3 DEF Local!Return, IfGenerated
<1> QED BY <1>4, <1>5 DEF LocalStep, Local!Next

LEMMA EncodeIsFaithful ==
    ASSUME RInv, Faithful, Generated, EncodeResponse
    PROVE  Faithful' /\ LocalStep
<1> DEFINE refusal == IF endpoint.server = "trait" THEN "internal" ELSE "panic"
<1>0. CASE ResultRefused(endpoint.returns, returned)
  <2>1. /\ pc = "encode" /\ Fail(refusal)
        /\ UNCHANGED <<endpoint, values, foreign, request, parsed, got, returned, answer>>
    BY <1>0 DEF EncodeResponse
  <2>2. returned # None /\ ResultNoJson
    BY <1>0, <2>1 DEF Faithful, ResultNoJson
  <2>3. endpoint.server \in {"ir", "trait"}
    BY EndpointsAssumption DEF RInv, TypeOK
  <2>4. IF refusal = "panic" THEN endpoint.server = "ir" /\ ResultNoJson
        ELSE refusal \in {"broken", "handler"} \/ Refused
    BY <2>2, <2>3 DEF Refused
  <2> HIDE DEF refusal
  <2> QED BY <2>1, <2>4, FailIsFaithful
<1>00. SUFFICES ASSUME ~ResultRefused(endpoint.returns, returned) PROVE Faithful' /\ LocalStep
  BY <1>0
<1>1. /\ pc = "encode" /\ pc' = "decode" /\ response' = Written(returned)
      /\ UNCHANGED <<endpoint, values, foreign, request, parsed, got, returned, answer>>
      /\ returned # None /\ returned \in Results(endpoint) /\ got # None
      /\ \A n \in DOMAIN parsed : parsed[n] = values[n]
  BY <1>00 DEF EncodeResponse, Written, Faithful
<1>2. response' = Written(returned)' /\ Results(endpoint)' = Results(endpoint)
  <2>1. Written(returned)' = Written(returned)
    BY <1>1 DEF Written
  <2> QED BY <1>1, <2>1, Peers
<1>3. Faithful'
  BY <1>1, <1>2 DEF Faithful
<1> QED BY <1>1, <1>3, Unseen

(* The caller is told the handler's value, or an error with its reason.      *)
LEMMA DecodedIsLocal ==
    ASSUME RInv, Faithful, Generated, RInv', pc = "decode", NEW o, Decoded(o),
           \/ o = Ok(returned) /\ returned # None
           \/ ~o.ok /\ (o.kind \in {"broken", "handler"} \/ Refused \/ EmptyUnread)
    PROVE  Faithful' /\ LocalStep
<1>1. /\ pc' = "done" /\ answer' = o
      /\ UNCHANGED <<endpoint, values, foreign, request, parsed, got, returned, response>>
      /\ answer = None
  BY DEF Decoded, RInv, TypeOK
<1>2. answer' # None
  BY <1>1 DEF RInv, TypeOK
<1>3. Generated' /\ (Refused' <=> Refused) /\ (EmptyUnread' <=> EmptyUnread)
      /\ Results(endpoint)' = Results(endpoint)
  BY <1>1, Peers
<1>4. /\ \A n \in DOMAIN parsed : parsed[n] = values[n]
      /\ returned # None => returned \in Results(endpoint) /\ got # None
  BY DEF Faithful
<1>5. CASE o = Ok(returned) /\ returned # None
  <2>1. answer'.ok /\ answer' = [ok |-> TRUE, value |-> returned]
    BY <1>1, <1>5 DEF Ok
  <2>2. Faithful'
    BY <1>1, <1>3, <1>4, <2>1 DEF Faithful
  <2>3. Local!Answer
    BY <1>1, <1>3, <1>5, <2>1 DEF Local!Answer, IfGenerated
  <2> QED BY <2>2, <2>3 DEF LocalStep, Local!Next
<1>6. CASE ~o.ok /\ (o.kind \in {"broken", "handler"} \/ Refused \/ EmptyUnread)
  <2>1. Faithful'
    BY <1>1, <1>3, <1>4, <1>6 DEF Faithful
  <2>2. Local!Fail
    BY <1>1, <1>2, <1>3, <1>6 DEF Local!Fail, IfGenerated
  <2> QED BY <2>1, <2>2 DEF LocalStep, Local!Next
<1> QED BY <1>5, <1>6

LEMMA AnsweredIsLocal ==
    ASSUME RInv, Faithful, Generated, RInv',
           \/ endpoint.client = "ir" /\ Answered(Decode(endpoint.returns, response))
           \/ endpoint.client = "trait" /\ Answered(TraitDecode(endpoint.returns, response))
    PROVE  Faithful' /\ LocalStep
<1> DEFINE o == IF endpoint.client = "ir" THEN Decode(endpoint.returns, response)
                ELSE TraitDecode(endpoint.returns, response)
<1>1. pc = "decode" /\ Answered(o)
  BY DEF Answered
<1>2. endpoint \in Endpoints /\ endpoint.client \in {"ir", "trait"}
  BY EndpointsAssumption DEF RInv, TypeOK
<1>3. /\ endpoint.client = "trait" => o = TraitDecode(endpoint.returns, response)
      /\ endpoint.client = "ir" => o = Decode(endpoint.returns, response)
  BY <1>2
<1> HIDE DEF o
<1>4. \/ response.status = 500 /\ (response.type \in {"broken", "handler"} \/ Refused)
      \/ returned # None /\ returned \in Results(endpoint) /\ response = Written(returned)
  BY <1>1 DEF Faithful
<1>5. CASE response.status = 500 /\ (response.type \in {"broken", "handler"} \/ Refused)
  <2> DEFINE e == Err(response.type)
  <2>1. Decoded(e)
    BY <1>1, <1>5 DEF Answered
  <2>2. ~e.ok /\ e.kind = response.type
    BY DEF Err
  <2> HIDE DEF e
  <2> QED BY <1>1, <1>5, <2>1, <2>2, DecodedIsLocal
<1>6. CASE returned # None /\ returned \in Results(endpoint) /\ response = Written(returned)
  <2>1. response.status # 500 /\ (o = Ok(returned) \/ (EmptyUnread /\ ~o.ok))
    BY <1>2, <1>3, <1>6, ResultArrives
  <2>2. Decoded(o)
    BY <1>1, <2>1 DEF Answered
  <2> QED BY <1>1, <1>6, <2>1, <2>2, DecodedIsLocal
<1> QED BY <1>4, <1>5, <1>6

(* Every step between generated peers keeps the invariant and is a step of   *)
(* the local call, or none.                                                  *)
LEMMA StepsAreLocal == RInv /\ Faithful /\ [Next]_vars => Faithful' /\ LocalStep
<1> SUFFICES ASSUME RInv, Faithful, [Next]_vars PROVE Faithful' /\ LocalStep
  OBVIOUS
<1>0. RInv'
  BY RInvKept
<1>1. UNCHANGED <<endpoint, values, foreign>>
  <2>1. CASE UNCHANGED vars
    BY <2>1 DEF vars
  <2>2. CASE Next
    BY <2>2 DEF Next, Client, Server, BuildRequest, BuildTraitRequest, Send, DecodeResponse,
         DecodeTraitResponse, ResponseBreaks, Answered, Decoded, Begin, ParseArg,
         RequestBreaks, Authenticate, Handle, HandlerReturns, HandlerFails, EncodeResponse,
         ForeignRequest, ForeignAnswer
  <2> QED BY <2>1, <2>2
<1>2. CASE ~Generated
  <2>1. ~Generated'
    BY <1>1, <1>2, Peers
  <2>2. LocalStep
    BY <1>1, <1>2, <2>1 DEF LocalStep, Local!vars, IfGenerated
  <2> QED BY <2>1, <2>2 DEF Faithful
<1>3. CASE Generated
  <2>1. CASE BuildRequest
    <3> DEFINE built == Built(endpoint, values)
    <3>1. Send(built) /\ endpoint.client = "ir"
      BY <2>1 DEF BuildRequest
    <3>2. endpoint.client = "ir" /\ built = Built(endpoint, values)
      BY <3>1
    <3> HIDE DEF built
    <3> QED BY <1>0, <1>3, <3>1, <3>2, SendIsFaithful
  <2>2. CASE BuildTraitRequest
    <3> DEFINE built == TraitBuilt(endpoint, values)
    <3>1. Send(built) /\ endpoint.client = "trait"
      BY <2>2 DEF BuildTraitRequest
    <3>2. endpoint.client = "trait" /\ built = TraitBuilt(endpoint, values)
      BY <3>1
    <3> HIDE DEF built
    <3> QED BY <1>0, <1>3, <3>1, <3>2, SendIsFaithful
  <2>3. CASE DecodeResponse
    BY <1>0, <1>3, <2>3, AnsweredIsLocal DEF DecodeResponse
  <2>4. CASE DecodeTraitResponse
    BY <1>0, <1>3, <2>4, AnsweredIsLocal DEF DecodeTraitResponse
  <2>5. CASE ResponseBreaks
    <3> DEFINE e == Err("broken")
    <3>1. pc = "decode" /\ Decoded(e)
      BY <2>5 DEF ResponseBreaks
    <3>2. ~e.ok /\ e.kind = "broken"
      BY DEF Err
    <3> HIDE DEF e
    <3> QED BY <1>0, <1>3, <3>1, <3>2, DecodedIsLocal
  <2>6. CASE ForeignRequest
    BY <1>3, <2>6 DEF ForeignRequest, Generated
  <2>7. CASE ForeignAnswer
    BY <1>3, <2>7 DEF ForeignAnswer, Generated
  <2>8. CASE Begin
    <3>1. /\ pc = "begin" /\ pc' = "args"
          /\ UNCHANGED <<endpoint, values, foreign, request, parsed, got, returned, answer>>
      BY <2>8 DEF Begin
    <3>2. Faithful'
      BY <1>3, <3>1, Peers DEF Faithful
    <3> QED BY <3>1, <3>2, Unseen
  <2>9. CASE ParseArg
    BY <1>3, <2>9, ParseArgIsFaithful
  <2>10. CASE RequestBreaks
    BY <1>3, <2>10, FailIsFaithful DEF RequestBreaks
  <2>11. CASE Authenticate
    BY <1>3, <2>11, AuthenticateIsFaithful
  <2>12. CASE Handle
    BY <1>3, <2>12, HandleIsLocal
  <2>13. CASE HandlerReturns
    BY <1>3, <2>13, HandlerReturnsIsLocal
  <2>14. CASE HandlerFails
    BY <1>3, <2>14, FailIsFaithful DEF HandlerFails
  <2>15. CASE EncodeResponse
    BY <1>3, <2>15, EncodeIsFaithful
  <2>16. CASE UNCHANGED vars
    <3>1. UNCHANGED <<endpoint, values, foreign, pc, request, parsed, token, safe, got,
                      returned, response, answer>>
      BY <2>16 DEF vars
    <3>2. Faithful'
      <4>1. response' = Written(returned)' <=> response = Written(returned)
        BY <3>1 DEF Written
      <4> QED BY <1>3, <3>1, <4>1, Peers DEF Faithful
    <3> QED BY <3>1, <3>2, Unseen
  <2> QED
    BY <2>1, <2>2, <2>3, <2>4, <2>5, <2>6, <2>7, <2>8, <2>9, <2>10, <2>11, <2>12, <2>13,
       <2>14, <2>15, <2>16 DEF Next, Client, Server
<1> QED BY <1>2, <1>3

LEMMA FaithfulAtFirst == Init => Faithful /\ Local!Init
<1> SUFFICES ASSUME Init PROVE Faithful /\ Local!Init
  OBVIOUS
<1>1. pc = "build" /\ parsed = <<>> /\ got = None /\ returned = None /\ answer = None
  BY DEF Init
<1>2. Faithful
  BY <1>1 DEF Faithful
<1>3. Local!Init
  BY <1>1 DEF Local!Init, IfGenerated
<1> QED BY <1>2, <1>3

LEMMA FaithfulAlways == Spec => []Faithful
<1>1. Init => RInv /\ Faithful
  BY RInvHolds, FaithfulAtFirst
<1>2. (RInv /\ Faithful) /\ [Next]_vars => (RInv /\ Faithful)'
  BY RInvKept, StepsAreLocal
<1> QED BY <1>1, <1>2, PTL DEF Spec

-----------------------------------------------------------------------------
(* Theorems                                                                  *)

(* Variables keep their types, and SafeParams are put into the extensions    *)
(* before the first argument is parsed (Begin).                              *)
THEOREM RpcTypeCorrect == Spec => []TypeOK
<1>1. RInv => TypeOK
  BY DEF RInv
<1> QED BY <1>1, RInvAlways, PTL

(* Whatever a request holds, a generated endpoint calls its handler only for *)
(* a good token and with arguments that the request says, for any number of  *)
(* arguments in any place and any number of repetitions in the query.        *)
THEOREM HandlersSeeTheRequest == Spec => []HandlerSeesTheRequest
<1>1. RInv => HandlerSeesTheRequest
  <2> SUFFICES ASSUME RInv, got # None
               PROVE  /\ endpoint.auth => request.auth = "good"
                      /\ \A i \in DOMAIN Args : Says(i, got[i])
    BY DEF HandlerSeesTheRequest
  <2>1. got = parsed /\ Len(parsed) = Len(Args) /\ parsed \in Seq(Seq(Texts))
    BY DEF RInv, TypeOK
  <2>2. DOMAIN Args = DOMAIN parsed
    BY <2>1, ArgsAreASequence DEF RInv, ValuesOK
  <2> QED BY <2>1, <2>2 DEF RInv, ParsedSays, TokenInTurn
<1> QED BY <1>1, RInvAlways, PTL

(* At every moment, what the endpoint has put up for logging is the values   *)
(* that the request says of the safe arguments parsed so far, and of no      *)
(* other.                                                                    *)
THEOREM SafeParamsAreTruthful == Spec => []SafeParamsTruthful
<1>1. RInv => SafeParamsTruthful
  <2> SUFFICES ASSUME RInv, safe # None
               PROVE  LET logged == {safe[n].arg : n \in DOMAIN safe}
                      IN /\ \A n \in DOMAIN safe :
                              Args[safe[n].arg].safe /\ Says(safe[n].arg, safe[n].value)
                         /\ logged = {i \in DOMAIN parsed : Args[i].safe}
    BY DEF SafeParamsTruthful
  <2>1. /\ \A n \in DOMAIN safe :
              /\ safe[n].arg \in DOMAIN parsed /\ Args[safe[n].arg].safe
              /\ safe[n].value = parsed[safe[n].arg]
        /\ \A i \in DOMAIN parsed : Args[i].safe => \E n \in DOMAIN safe : safe[n].arg = i
    BY DEF RInv, Logged
  <2>2. \A n \in DOMAIN safe : Says(safe[n].arg, safe[n].value)
    BY <2>1 DEF RInv, ParsedSays
  <2> QED BY <2>1, <2>2
<1> QED BY <1>1, RInvAlways, PTL

(* A client returns what the response holds, whatever server it came from.   *)
THEOREM AnswersAreTheResponse == Spec => []AnswerIsTheResponse
<1>1. RInv => AnswerIsTheResponse
  BY DEF RInv
<1> QED BY <1>1, RInvAlways, PTL

(* Between generated peers a call ends with the handler's value, a broken    *)
(* connection, the handler's own error, or one of the four texts and the one *)
(* empty response named as what the wire does not carry.  A client panics    *)
(* only for its caller's own arguments, which no URI or no JSON holds, and   *)
(* an endpoint only for a result of its handler that no JSON holds.          *)
THEOREM OnlyKnownFailuresHappen == Spec => []OnlyKnownFailures
<1>1. RInv /\ Faithful => OnlyKnownFailures
  BY DEF RInv, TypeOK, Faithful, OnlyKnownFailures, Refused
<1> QED BY <1>1, RInvAlways, FaithfulAlways, PTL

(* A remote call between generated peers is a local call: the handler sees   *)
(* the caller's arguments, the caller the handler's value or an error.       *)
THEOREM CallsAreLocal == Spec => RemoteIsLocal
<1>1. Init => Local!Init
  BY FaithfulAtFirst
<1>2. RInv /\ Faithful /\ [Next]_vars => [Local!Next]_(Local!vars)
  BY StepsAreLocal DEF LocalStep
<1>3. Spec => Local!Spec
  BY <1>1, <1>2, RInvAlways, FaithfulAlways, PTL DEF Spec, Local!Spec
<1> QED BY <1>3 DEF RemoteIsLocal
=============================================================================
