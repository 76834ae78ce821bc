------------------------- MODULE ConversionsProofs -------------------------
(* A value survives every supported route, for every set of values; and      *)
(* doubles, in optionals and lists too, are keys.                            *)
EXTENDS Conversions, SequenceTheorems, TLAPS

(* The call that a value makes of a format for people, and what it becomes   *)
(* in JSON and in a key.                                                     *)
Raw == Serialized(original.type, original.value, TRUE)
InJson == JsonText(Raw)
InKey == KeyToken(KeyText(Raw))

(* Below the top of a document every item is one of two, and which one       *)
(* follows from the formats it went through.                                 *)
ItemOK ==
    /\ form = "rust" => item = original.value
    /\ form # "rust" /\ original.at = "key" =>
          item = InKey \/ (item = Raw /\ form = "any")
    /\ form # "rust" /\ original.at # "key" =>
          /\ item = Raw \/ (item = InJson /\ "json" \in via)
          /\ form = "json" => item = InJson
          /\ form = "smile" => item = Raw

OriginalOK ==
    /\ original.type \in Types /\ original.at \in Positions
    /\ original.value \in Values[original.type]

FormOK ==
    /\ form \in {"rust", "any", "json", "smile", "refused"}
    /\ form = "json" => "json" \in via
    /\ form = "smile" => "smile" \in via

CInv == OriginalOK /\ FormOK /\ (Supported => form # "refused" /\ ItemOK)

(* Base64 is undone, and what is no Base64 is not.                           *)
LEMMA Decodes ==
    ASSUME NEW b \in Values["binary"], NEW otherwise
    PROVE  Decoded(Base64[b], otherwise) = Call("bytes", b)
<1> DEFINE P(c) == c \in Values["binary"] /\ Base64[c] = Base64[b]
<1>1. \A c : P(c) => c = b
  BY Base64Assumption
<1>2. (CHOOSE c \in Values["binary"] : Base64[c] = Base64[b]) = b
  BY <1>1
<1> QED BY <1>2 DEF Decoded

(* What is read of a document or an Any is the value again.                  *)
LEMMA ReadsBack ==
    ASSUME OriginalOK, FormOK, ItemOK, Supported,
           form \in {"any", "json", "smile"},
           NEW seen \in Seen(form, original.at, original.type, item),
           NEW forPeople \in ReadForPeople(form, original.at)
    PROVE  Accepts(original.type, forPeople, seen) /\ seen.x = original.value
<1> DEFINE v == original.value
<1>1. CASE original.type = "boolean"
  <2>1. Raw = Call("bool", v) /\ InJson = Raw /\ InKey = Call("str", v)
    BY <1>1 DEF Raw, InJson, InKey, Serialized, JsonText, KeyText, KeyToken, Call
  <2>2. CASE original.at = "key"
    <3>1. seen = Call("bool", v)
      BY <1>1, <2>1, <2>2 DEF Seen, AnySeen, AnyKeySeen, KeySeen, Parsed, DoubleSeen,
                               ItemOK, OriginalOK, Call
    <3> QED BY <1>1, <3>1 DEF Accepts, Call
  <2>3. CASE original.at # "key"
    <3>1. seen = Call("bool", v)
      BY <1>1, <2>1, <2>3 DEF Seen, AnySeen, JsonSeen, SmileSeen, DoubleSeen, ItemOK, Call
    <3> QED BY <1>1, <3>1 DEF Accepts, Call
  <2> QED BY <2>2, <2>3
<1>2. CASE original.type = "integer"
  <2>1. Raw = Call("int", v) /\ InJson = Raw /\ InKey = Call("str", v)
    BY <1>2 DEF Raw, InJson, InKey, Serialized, JsonText, KeyText, KeyToken, Call
  <2>2. CASE original.at = "key"
    <3>1. seen = Call("int", v)
      BY <1>2, <2>1, <2>2 DEF Seen, AnySeen, AnyKeySeen, KeySeen, Parsed, DoubleSeen,
                               ItemOK, OriginalOK, Call
    <3> QED BY <1>2, <3>1 DEF Accepts, Call
  <2>3. CASE original.at # "key"
    <3>1. seen = Call("int", v)
      BY <1>2, <2>1, <2>3 DEF Seen, AnySeen, JsonSeen, SmileSeen, DoubleSeen, ItemOK, Call
    <3> QED BY <1>2, <3>1 DEF Accepts, Call
  <2> QED BY <2>2, <2>3
<1>3. CASE original.type = "double"
  <2>1. /\ Raw = Call("f64", v) /\ InKey = Call("str", v)
        /\ InJson = IF v \in NonFinite THEN Call("str", v) ELSE Raw
    BY <1>3 DEF Raw, InJson, InKey, Serialized, JsonText, KeyText, KeyToken, Call
  <2>2. CASE original.at = "key"
    <3>1. seen = Call("f64", v)
      BY <1>3, <2>1, <2>2 DEF Seen, AnySeen, AnyKeySeen, KeySeen, Parsed, DoubleSeen,
                               ItemOK, OriginalOK, Call
    <3> QED BY <1>3, <3>1 DEF Accepts, Call
  <2>3. CASE original.at # "key"
    <3>1. seen = Call("f64", v)
      BY <1>3, <2>1, <2>3 DEF Seen, AnySeen, JsonSeen, SmileSeen, DoubleSeen, ItemOK, Call
    <3> QED BY <1>3, <3>1 DEF Accepts, Call
  <2> QED BY <2>2, <2>3
<1>4. CASE original.type = "binary"
  <2>1. /\ Raw = Call("bytes", v) /\ InKey = Call("str", Base64[v])
        /\ InJson = Call("str", Base64[v])
    BY <1>4 DEF Raw, InJson, InKey, Serialized, JsonText, KeyText, KeyToken, Call
  <2>2. \A otherwise : Decoded(Base64[v], otherwise) = Call("bytes", v)
    BY <1>4, Decodes DEF OriginalOK
  <2>3. CASE original.at = "key"
    <3>1. seen = Call("bytes", v)
      BY <1>4, <2>1, <2>2, <2>3 DEF Seen, AnySeen, AnyKeySeen, KeySeen, DoubleSeen,
                               ItemOK, Call
    <3> QED BY <1>4, <3>1 DEF Accepts, Call
  <2>4. CASE original.at # "key"
    <3>1. seen = Call("bytes", v)
      BY <1>4, <2>1, <2>2, <2>4 DEF Seen, AnySeen, JsonSeen, SmileSeen, DoubleSeen, ItemOK, Call
    <3> QED BY <1>4, <3>1 DEF Accepts, Call
  <2> QED BY <2>3, <2>4
<1>5. CASE original.type = "string"
  <2>1. Raw = Call("str", v) /\ InJson = Raw /\ InKey = Raw
    BY <1>5 DEF Raw, InJson, InKey, Serialized, JsonText, KeyText, KeyToken, Call
  <2>2. seen = Call("str", v)
    BY <1>5, <2>1 DEF Seen, AnySeen, AnyKeySeen, KeySeen, JsonSeen, SmileSeen, DoubleSeen, ItemOK, Call
  <2> QED BY <1>5, <2>2 DEF Accepts, Call
<1>6. CASE original.type = "uuid"
  <2>1. Raw = Call("str", v) /\ InJson = Raw /\ InKey = Raw
    BY <1>6 DEF Raw, InJson, InKey, Serialized, JsonText, KeyText, KeyToken, Call
  <2>2. form # "smile" /\ forPeople
    BY <1>6 DEF Supported, FormOK, ReadForPeople
  <2>3. seen = Call("str", v)
    BY <1>6, <2>1, <2>2 DEF Seen, AnySeen, AnyKeySeen, KeySeen, JsonSeen, SmileSeen, DoubleSeen, ItemOK, Call
  <2> QED BY <1>6, <2>2, <2>3 DEF Accepts, Call, OriginalOK
<1> QED BY <1>1, <1>2, <1>3, <1>4, <1>5, <1>6 DEF Types, OriginalOK

(* To write what was written changes nothing, and no writer refuses.         *)
LEMMA Settled ==
    ASSUME OriginalOK
    PROVE  /\ JsonText(Raw) = InJson /\ JsonText(InJson) = InJson
           /\ KeyToken(KeyText(Raw)) = InKey /\ KeyToken(KeyText(InKey)) = InKey
           /\ Raw # Refusal /\ InJson # Refusal /\ InKey # Refusal
<1>1. Raw.kind \in {"bool", "int", "f64", "bytes", "str"} /\ Raw = Call(Raw.kind, Raw.x)
  BY DEF Raw, Serialized, OriginalOK, Types, Call
<1>2. JsonText(Raw) = InJson /\ KeyToken(KeyText(Raw)) = InKey
  BY DEF InJson, InKey
<1>3. InJson = Raw \/ InJson.kind = "str"
  BY DEF InJson, JsonText, Call
<1>4. JsonText(InJson) = InJson
  BY <1>1, <1>2, <1>3 DEF JsonText
<1>5. InKey.kind = "str" /\ InKey = Call("str", InKey.x)
  BY <1>1 DEF InKey, KeyText, KeyToken, Call
<1>6. KeyToken(KeyText(InKey)) = InKey
  BY <1>5 DEF KeyText, KeyToken, Call
<1>7. Refusal.kind = "refused"
  BY DEF Refusal, Call
<1>8. Raw # Refusal /\ InJson # Refusal /\ InKey # Refusal
  BY <1>1, <1>3, <1>5, <1>7
<1> QED BY <1>2, <1>4, <1>6, <1>8

(* Outside a key, only what is a text in JSON is changed by JSON.            *)
LEMMA SameInJson ==
    ASSUME OriginalOK, original.at # "key", ~TextInJson
    PROVE  InJson = Raw
BY DEF OriginalOK, Types, TextInJson, InJson, Raw, JsonText, Serialized, Call

LEMMA CInvStart == Init => CInv
BY DEF Init, CInv, OriginalOK, FormOK, ItemOK, Types, Positions

LEMMA CInvKept == CInv /\ [Next]_vars => CInv'
<1> SUFFICES ASSUME CInv, [Next]_vars
             PROVE  CInv'
  OBVIOUS
<1> USE DEF CInv
<1>1. CASE Capture
  <2>1. OriginalOK' /\ FormOK' /\ form' = "any"
    BY <1>1 DEF Capture, OriginalOK, FormOK
  <2>2. item' = Raw' /\ Raw' = Raw
    BY <1>1 DEF Capture, AtHome, Raw
  <2> QED BY <2>1, <2>2 DEF ItemOK
<1>2. ASSUME NEW format \in {"json", "smile"}, Write(format)
      PROVE  CInv'
  <2>1. OriginalOK' /\ UNCHANGED <<Raw, InJson, InKey>>
    BY <1>2 DEF Write, Written, OriginalOK, Raw, InJson, InKey
  <2>2. FormOK'
    BY <1>2 DEF Write, Written, FormOK
  <2>3. ASSUME Supported'
        PROVE  form' # "refused" /\ ItemOK'
    <3>1. Serialized(original.type, item, WrittenForPeople(format, original.at)) = Raw
      <4>1. CASE original.type = "uuid"
        BY <1>2, <2>3, <4>1 DEF Write, Written, Supported, AtHome, Raw, WrittenForPeople
      <4>2. CASE original.type # "uuid"
        BY <1>2, <4>2 DEF Write, AtHome, Raw, Serialized
      <4> QED BY <4>1, <4>2
    <3>2. item' = Token(format, original.at, Raw)
      BY <1>2, <3>1 DEF Write, Written
    <3>3. item' = IF original.at = "key" THEN InKey ELSE IF format = "json" THEN InJson ELSE Raw
      BY <3>2, Settled DEF Token
    <3>4. form' = format
      BY <1>2, <3>1, <3>2, <3>3, Settled DEF Write, Written
    <3> QED BY <1>2, <2>1, <3>3, <3>4 DEF ItemOK, Write, Written
  <2> QED BY <2>1, <2>2, <2>3
<1>3. ASSUME NEW format \in {"json", "smile"}, WriteAny(format)
      PROVE  CInv'
  <2>1. OriginalOK' /\ UNCHANGED <<Raw, InJson, InKey>>
    BY <1>3 DEF WriteAny, Written, OriginalOK, Raw, InJson, InKey
  <2>2. FormOK'
    BY <1>3 DEF WriteAny, Written, FormOK
  <2>3. ASSUME Supported'
        PROVE  form' # "refused" /\ ItemOK'
    <3>1. Supported /\ ItemOK
      BY <1>3, <2>3 DEF WriteAny, Written, Supported, TextInJson
    <3>2. item' = Token(format, original.at, item)
      BY <1>3 DEF WriteAny, Written
    <3>3. item' = IF original.at = "key" THEN InKey ELSE IF format = "json" THEN InJson ELSE Raw
      <4>1. CASE original.at = "key"
        BY <1>3, <3>1, <3>2, <4>1, Settled DEF Token, ItemOK, WriteAny
      <4>2. CASE original.at # "key" /\ format = "json"
        BY <1>3, <3>1, <3>2, <4>2, Settled DEF Token, ItemOK, WriteAny
      <4>3. CASE original.at # "key" /\ format = "smile"
        <5>1. item = Raw \/ ~TextInJson
          BY <1>3, <2>3, <3>1, <4>3 DEF ItemOK, WriteAny, Written, Supported, TextInJson
        <5>2. item = Raw
          BY <1>3, <3>1, <4>3, <5>1, SameInJson DEF ItemOK, WriteAny
        <5> QED BY <3>2, <4>3, <5>2 DEF Token
      <4> QED BY <4>1, <4>2, <4>3
    <3>4. form' = format
      BY <1>3, <3>2, <3>3, Settled DEF WriteAny, Written
    <3> QED BY <1>3, <2>1, <3>3, <3>4 DEF ItemOK, WriteAny, Written
  <2> QED BY <2>1, <2>2, <2>3
<1>4. CASE Keep
  <2>1. OriginalOK' /\ FormOK' /\ UNCHANGED <<Raw, InJson, InKey, Supported>>
    BY <1>4 DEF Keep, OriginalOK, FormOK, Raw, InJson, InKey, Supported, TextInJson
  <2> QED BY <1>4, <2>1 DEF Keep, ItemOK, FormOK
<1>5. CASE Read
  <2>1. OriginalOK' /\ FormOK' /\ UNCHANGED Supported
    BY <1>5 DEF Read, OriginalOK, FormOK, Supported, TextInJson
  <2>2. ASSUME Supported
        PROVE  form' = "rust" /\ item' = original.value
    BY <1>5, <2>2, ReadsBack DEF Read
  <2> QED BY <1>5, <2>1, <2>2 DEF ItemOK, Read
<1>6. CASE UNCHANGED vars
  BY <1>6 DEF vars, OriginalOK, FormOK, ItemOK, Supported, TextInJson, Raw, InJson, InKey
<1> QED BY <1>1, <1>2, <1>3, <1>4, <1>5, <1>6 DEF Next

LEMMA CInvAlways == Spec => []CInv
BY CInvStart, CInvKept, PTL DEF Spec

(* A value of any type, in any position, that goes any supported route       *)
(* through JSON, Smile and Any is never refused and comes back as itself.    *)
THEOREM SurvivesSupportedRoutes == Spec => []Lossless
<1>1. CInv => Lossless
  BY DEF CInv, ItemOK, Lossless, AtHome
<1> QED BY <1>1, CInvAlways, PTL

(* On the other routes Lossless says nothing.  A double or a uuid on them is *)
(* one of these, whatever wrote it.                                          *)
Plain ==
    /\ original.type = "double" =>
          item \in {Call("f64", original.value), Call("str", original.value)}
    /\ original.type = "uuid" =>
          item \in {Call("str", original.value), Call("bytes", original.value),
                    Call("str", Base64[original.value])}

PInv ==
    /\ OriginalOK
    /\ form = "rust" /\ original.type \in {"double", "uuid"} => item = original.value
    /\ form \in {"any", "json", "smile"} => Plain

(* What a serializer makes of them is one of them again.                     *)
LEMMA StaysPlain ==
    ASSUME PInv, NEW format \in {"json", "smile"}, NEW call,
           original.type = "double" =>
              call \in {Call("f64", original.value), Call("str", original.value)},
           original.type = "uuid" =>
              call \in {Call("str", original.value), Call("bytes", original.value),
                        Call("str", Base64[original.value])},
           Token(format, original.at, call) # Refusal
    PROVE  /\ original.type = "double" =>
                Token(format, original.at, call) \in
                    {Call("f64", original.value), Call("str", original.value)}
           /\ original.type = "uuid" =>
                Token(format, original.at, call) \in
                    {Call("str", original.value), Call("bytes", original.value),
                     Call("str", Base64[original.value])}
<1>1. CASE original.type = "double"
  <2>1. KeyToken(KeyText(call)) = Call("str", original.value)
    BY <1>1 DEF KeyToken, KeyText, Call
  <2>2. JsonText(call) \in {Call("f64", original.value), Call("str", original.value)}
    BY <1>1 DEF JsonText, Call
  <2> QED BY <1>1, <2>1, <2>2 DEF Token
<1>2. CASE original.type = "uuid"
  <2>1. KeyToken(KeyText(call)) \in
            {Call("str", original.value), Call("str", Base64[original.value])}
    BY <1>2 DEF KeyToken, KeyText, Call
  <2>2. JsonText(call) \in {Call("str", original.value), Call("str", Base64[original.value])}
    BY <1>2 DEF JsonText, Call
  <2> QED BY <1>2, <2>1, <2>2 DEF Token
<1> QED BY <1>1, <1>2

(* Their visitors take the value, or nothing: the Base64 of a uuid is not    *)
(* the text of one.                                                          *)
LEMMA TakenAsItself ==
    ASSUME PInv, original.type \in {"double", "uuid"},
           form \in {"any", "json", "smile"},
           NEW seen \in Seen(form, original.at, original.type, item),
           NEW forPeople \in BOOLEAN,
           Accepts(original.type, forPeople, seen)
    PROVE  seen.x = original.value
<1>1. CASE original.type = "double"
  <2>1. item.x = original.value
    BY <1>1 DEF PInv, Plain, Call
  <2>2. seen \in {item, Call("f64", item.x), Refusal}
    <3>1. CASE original.at = "key"
      BY <1>1, <3>1 DEF Seen, AnySeen, AnyKeySeen, KeySeen, DoubleSeen, Parsed
    <3>2. CASE original.at # "key"
      BY <1>1, <3>2 DEF Seen, AnySeen, JsonSeen, SmileSeen, DoubleSeen
    <3> QED BY <3>1, <3>2
  <2>3. seen.kind \in {"f64", "int"}
    BY <1>1 DEF Accepts
  <2>4. Refusal.kind = "refused"
    BY DEF Refusal, Call
  <2> QED BY <2>1, <2>2, <2>3, <2>4 DEF Call
<1>2. CASE original.type = "uuid"
  <2>1. seen = item
    BY <1>2 DEF Seen, AnySeen, AnyKeySeen, KeySeen, JsonSeen, SmileSeen
  <2>2. Base64[original.value] \notin Values["uuid"]
    BY <1>2, Base64Assumption DEF PInv, OriginalOK
  <2>3. item \in {Call("str", original.value), Call("bytes", original.value),
                  Call("str", Base64[original.value])}
    BY <1>2 DEF PInv, Plain
  <2> QED BY <1>2, <2>1, <2>2, <2>3 DEF Accepts, Call
<1> QED BY <1>1, <1>2

LEMMA PInvKept == PInv /\ [Next]_vars => PInv'
<1> SUFFICES ASSUME PInv, [Next]_vars
             PROVE  PInv'
  OBVIOUS
<1>1. CASE Capture
  BY <1>1 DEF Capture, AtHome, PInv, OriginalOK, Plain, Serialized
<1>2. ASSUME NEW format \in {"json", "smile"}, Write(format)
      PROVE  PInv'
  <2> DEFINE call == Serialized(original.type, item, WrittenForPeople(format, original.at))
  <2>1. /\ original.type = "double" => call = Call("f64", original.value)
        /\ original.type = "uuid" =>
              call \in {Call("str", original.value), Call("bytes", original.value)}
    BY <1>2 DEF Write, AtHome, Serialized
  <2>2. /\ item' = Token(format, original.at, call) /\ UNCHANGED original
        /\ form' = IF Token(format, original.at, call) = Refusal THEN "refused" ELSE format
    BY <1>2 DEF Write, Written
  <2> HIDE DEF call
  <2>3. form' # "refused" => Plain'
    BY <2>1, <2>2, StaysPlain DEF Plain
  <2> QED BY <2>2, <2>3 DEF PInv, OriginalOK
<1>3. ASSUME NEW format \in {"json", "smile"}, WriteAny(format)
      PROVE  PInv'
  <2>1. /\ item' = Token(format, original.at, item) /\ UNCHANGED original
        /\ form' = IF Token(format, original.at, item) = Refusal THEN "refused" ELSE format
    BY <1>3 DEF WriteAny, Written
  <2>2. Plain
    BY <1>3 DEF WriteAny, PInv
  <2>3. form' # "refused" => Plain'
    BY <2>1, <2>2, StaysPlain DEF Plain
  <2> QED BY <2>1, <2>3 DEF PInv, OriginalOK
<1>4. CASE Keep
  BY <1>4 DEF Keep, PInv, OriginalOK, Plain
<1>5. CASE Read
  <2>1. PICK seen \in Seen(form, original.at, original.type, item),
             forPeople \in ReadForPeople(form, original.at) :
               IF Accepts(original.type, forPeople, seen)
                  THEN form' = "rust" /\ item' = seen.x
                  ELSE form' = "refused" /\ item' = seen
    BY <1>5 DEF Read
  <2>2. forPeople \in BOOLEAN
    BY DEF ReadForPeople
  <2>3. form' = "rust" /\ original.type \in {"double", "uuid"} => item' = original.value
    BY <1>5, <2>1, <2>2, TakenAsItself DEF Read
  <2> QED BY <1>5, <2>1, <2>3 DEF Read, PInv, OriginalOK
<1>6. CASE UNCHANGED vars
  BY <1>6 DEF vars, PInv, OriginalOK, Plain
<1> QED BY <1>1, <1>2, <1>3, <1>4, <1>5, <1>6 DEF Next

(* On every route, what cannot be read any more is refused: nothing but      *)
(* bytes that became a text in JSON is read as anything else.                *)
THEOREM RefusedRatherThanMisread == Spec => []NeverMisread
<1>1. Init => PInv
  BY DEF Init, PInv, OriginalOK, Types, Positions
<1>2. CInv /\ PInv => NeverMisread
  <2> SUFFICES ASSUME CInv, PInv, form = "rust", ~AtHome
               PROVE  original.type = "binary" /\ TextInJson /\ "smile after json" \in via
    BY DEF NeverMisread
  <2>1. ~Supported
    BY DEF CInv, ItemOK, AtHome
  <2>2. original.type \notin {"double", "uuid"}
    BY DEF PInv, AtHome
  <2> QED BY <2>1, <2>2 DEF Supported, TextInJson
<1> QED BY <1>1, <1>2, PInvKept, CInvAlways, PTL DEF Spec


-----------------------------------------------------------------------------
(* What DoubleOps promises of any items, for those of DoubleKey.             *)
F64Proofs == INSTANCE DoubleOpsProofs WITH
    Items <- Doubles, Cmp <- OrderedCmp, PartialCmp <- OrderedCmp, Eq <- OrderedEq,
    Hash <- OrderedHash
OptionF64Proofs == INSTANCE DoubleOpsProofs WITH
    Items <- F64!Options, Cmp <- F64!OptionCmp, PartialCmp <- F64!OptionPartialCmp,
    Eq <- F64!OptionEq, Hash <- F64!OptionHash
VecF64Proofs == INSTANCE DoubleOpsProofs WITH
    Items <- Vecs, Cmp <- F64!VecCmp, PartialCmp <- F64!VecPartialCmp,
    Eq <- F64!VecEq, Hash <- F64!VecHash

LEMMA DoublesOrdered == F64!ItemsOrdered
<1>1. \A x \in Doubles : Rank[x] \in Nat
    BY RankAssumption DEF Doubles
<1>2. QED
    BY <1>1 DEF F64!ItemsOrdered, F64!IsOrdered, F64!Orderings, OrderedCmp, OrderedEq,
                OrderedHash

LEMMA DoubleOptionsOrdered == F64!OptionsOrdered
<1>1. F64Proofs!ItemsOrdered => F64Proofs!OptionsOrdered
    BY F64Proofs!OptionsAreOrdered
<1>2. QED
    BY DoublesOrdered, <1>1, Zenon
       DEF F64!ItemsOrdered, F64!OptionsOrdered, F64!IsOrdered, F64!Orderings, F64!Options,
           F64!OptionCmp, F64!OptionPartialCmp, F64!OptionEq, F64!OptionHash,
           F64Proofs!ItemsOrdered, F64Proofs!OptionsOrdered, F64Proofs!IsOrdered,
           F64Proofs!Orderings, F64Proofs!Options, F64Proofs!OptionCmp,
           F64Proofs!OptionPartialCmp, F64Proofs!OptionEq, F64Proofs!OptionHash

LEMMA DoubleVecsOrdered == F64!VecsOrdered(Seq(Doubles))
<1>1. F64Proofs!ItemsOrdered => F64Proofs!VecsOrdered(Seq(Doubles))
    BY F64Proofs!VecsAreOrdered
<1>2. QED
    BY DoublesOrdered, <1>1, Zenon
       DEF F64!ItemsOrdered, F64!VecsOrdered, F64!IsOrdered, F64!Orderings, F64!Common,
           F64!First, F64!LenCmp, F64!VecCmp, F64!VecPartialCmp, F64!VecEq, F64!VecHash,
           F64Proofs!ItemsOrdered, F64Proofs!VecsOrdered, F64Proofs!IsOrdered,
           F64Proofs!Orderings, F64Proofs!Common, F64Proofs!First, F64Proofs!LenCmp,
           F64Proofs!VecCmp, F64Proofs!VecPartialCmp, F64Proofs!VecEq, F64Proofs!VecHash

(* Some of the values that are ordered are ordered too. *)
LEMMA FewerVecs ==
    ASSUME NEW S \in SUBSET Seq(Doubles) PROVE F64!VecsOrdered(S)
<1>1. \A a \in S : a \in Seq(Doubles)
    OBVIOUS
<1>2. QED
    BY <1>1, DoubleVecsOrdered DEF F64!VecsOrdered, F64!IsOrdered

LEMMA BoundedAreSeqs == ASSUME NEW S PROVE BoundedSeq(S, 2) \in SUBSET Seq(S)
<1>1. \A m \in 0 .. 2 : [1 .. m -> S] \subseteq Seq(S)
    BY SeqDef
<1>2. QED
    BY <1>1 DEF BoundedSeq, SeqOf

LEMMA OptionsInVecs == OptionF64!VecsOrdered(Seq(F64!Options))
<1>1. OptionF64Proofs!ItemsOrdered => OptionF64Proofs!VecsOrdered(Seq(F64!Options))
    BY OptionF64Proofs!VecsAreOrdered
<1>2. OptionF64Proofs!ItemsOrdered
    BY DoubleOptionsOrdered, Zenon
       DEF F64!OptionsOrdered, F64!IsOrdered, F64!Orderings, OptionF64Proofs!ItemsOrdered,
           OptionF64Proofs!IsOrdered, OptionF64Proofs!Orderings
<1>3. QED
    BY <1>1, <1>2, Zenon
       DEF OptionF64!VecsOrdered, OptionF64!IsOrdered, OptionF64!Orderings, OptionF64!Common,
           OptionF64!First, OptionF64!LenCmp, OptionF64!VecCmp, OptionF64!VecPartialCmp,
           OptionF64!VecEq, OptionF64!VecHash,
           OptionF64Proofs!VecsOrdered, OptionF64Proofs!IsOrdered,
           OptionF64Proofs!Orderings, OptionF64Proofs!Common, OptionF64Proofs!First,
           OptionF64Proofs!LenCmp, OptionF64Proofs!VecCmp, OptionF64Proofs!VecPartialCmp,
           OptionF64Proofs!VecEq, OptionF64Proofs!VecHash

LEMMA VecsInOptions == VecF64!OptionsOrdered
<1>1. VecF64Proofs!ItemsOrdered => VecF64Proofs!OptionsOrdered
    BY VecF64Proofs!OptionsAreOrdered
<1>2. F64!VecsOrdered(Vecs)
    BY FewerVecs, BoundedAreSeqs DEF Vecs
<1>3. VecF64Proofs!ItemsOrdered
    BY <1>2, Zenon
       DEF F64!VecsOrdered, F64!IsOrdered, F64!Orderings, VecF64Proofs!ItemsOrdered,
           VecF64Proofs!IsOrdered, VecF64Proofs!Orderings
<1>4. QED
    BY <1>1, <1>3, Zenon
       DEF VecF64!OptionsOrdered, VecF64!IsOrdered, VecF64!Orderings, VecF64!Options,
           VecF64!OptionCmp, VecF64!OptionPartialCmp, VecF64!OptionEq, VecF64!OptionHash,
           VecF64Proofs!OptionsOrdered, VecF64Proofs!IsOrdered, VecF64Proofs!Orderings,
           VecF64Proofs!Options, VecF64Proofs!OptionCmp, VecF64Proofs!OptionPartialCmp,
           VecF64Proofs!OptionEq, VecF64Proofs!OptionHash

(* Doubles, NaN and both zeros among them, are totally ordered, equal and    *)
(* hashed as keys must be, alone and in optionals and lists of them.         *)
LEMMA DoublesHaveOrder == DoublesAreOrdered
<1>1. F64!VecsOrdered(BoundedSeq(Doubles, 2))
    BY FewerVecs, BoundedAreSeqs
<1>2. OptionF64!VecsOrdered(BoundedSeq(F64!Options, 2))
    <2>1. \A a \in BoundedSeq(F64!Options, 2) : a \in Seq(F64!Options)
        BY BoundedAreSeqs
    <2>2. QED
        BY <2>1, OptionsInVecs DEF OptionF64!VecsOrdered, OptionF64!IsOrdered
<1>3. QED
    BY DoublesOrdered, DoubleOptionsOrdered, VecsInOptions, <1>1, <1>2 DEF DoublesAreOrdered

(* A double that was read can be a key, whatever doubles there are.          *)
THEOREM DoublesStayKeys == Spec => []DoublesAreKeys
<1>1. DoublesAreKeys
    BY DoublesHaveOrder DEF DoublesAreKeys
<1>2. QED
    BY <1>1, PTL

(* What a format has no room for.                                            *)
FitsJson(call) == call.kind # "bytes" /\ ~(call.kind = "f64" /\ call.x \in NonFinite)

(* Whatever call is written, as a key or not, the token fits the format.     *)
LEMMA TokensFit ==
    ASSUME NEW call, NEW at, NEW format \in {"json", "smile"},
           Token(format, at, call) # Refusal
    PROVE  /\ format = "json" => FitsJson(Token(format, at, call))
           /\ at = "key" => Token(format, at, call).kind = "str"
<1>1. CASE at = "key"
  <2>1. Token(format, at, call).kind = "str"
    BY <1>1 DEF Token, KeyToken, Refusal, Call
  <2> QED BY <2>1 DEF FitsJson
<1>2. CASE at # "key"
  <2>1. CASE format = "json"
    BY <1>2, <2>1 DEF Token, JsonText, FitsJson, Call
  <2>2. CASE format = "smile"
    BY <1>2, <2>2
  <2> QED BY <2>1, <2>2
<1> QED BY <1>1, <1>2

LEMMA WritingFits ==
    ASSUME TypeOK, NEW format \in {"json", "smile"}, NEW call, Written(format, call),
           via' \subseteq {"json", "smile", "smile after json"}
    PROVE  TypeOK'
<1> DEFINE token == Token(format, original.at, call)
<1>1. original' = original /\ item' = token
  BY DEF Written
<1>2. CASE token = Refusal
  <2>1. form' = "refused"
    BY <1>2 DEF Written
  <2> QED BY <1>1, <2>1 DEF TypeOK
<1>3. CASE token # Refusal
  <2>1. form' = format
    BY <1>3 DEF Written
  <2>2. /\ format = "json" => FitsJson(token)
        /\ original.at = "key" => token.kind = "str"
    BY <1>3, TokensFit
  <2> QED BY <1>1, <2>1, <2>2 DEF TypeOK, FitsJson
<1> QED BY <1>2, <1>3

(* JSON never holds bytes or a double that is no number, and a key is a text *)
(* in JSON and in Smile: of every value and on every route, the unsupported  *)
(* ones included.                                                            *)
THEOREM DocumentsAreWellFormed == Spec => []TypeOK
<1>1. Init => TypeOK
  BY DEF Init, TypeOK
<1>2. TypeOK /\ [Next]_vars => TypeOK'
  <2> SUFFICES ASSUME TypeOK, [Next]_vars PROVE TypeOK'
    OBVIOUS
  <2>1. CASE Capture
    BY <2>1 DEF Capture, TypeOK
  <2>2. ASSUME NEW format \in {"json", "smile"}, Write(format)
        PROVE  TypeOK'
    BY <2>2, WritingFits DEF Write
  <2>3. ASSUME NEW format \in {"json", "smile"}, WriteAny(format)
        PROVE  TypeOK'
    <3>1. via' \subseteq {"json", "smile", "smile after json"}
      BY <2>3 DEF WriteAny, TypeOK
    <3> QED BY <2>3, <3>1, WritingFits DEF WriteAny
  <2>4. CASE Keep
    BY <2>4 DEF Keep, TypeOK
  <2>5. CASE Read
    BY <2>5 DEF Read, TypeOK
  <2>6. CASE UNCHANGED vars
    BY <2>6 DEF vars, TypeOK
  <2> QED BY <2>1, <2>2, <2>3, <2>4, <2>5, <2>6 DEF Next
<1> QED BY <1>1, <1>2, PTL DEF Spec
=============================================================================
