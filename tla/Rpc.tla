-------------------------------- MODULE Rpc --------------------------------
(* One remote call: a client method, the wire and a server endpoint, each    *)
(* generated from the IR or from a trait.  Either peer may be somebody       *)
(* else's program: a foreign client may send any request, a foreign server   *)
(* any response.  A body is streamed, so the connection may break while      *)
(* either side reads one.  Routing, and the runtimes that turn an Err of the *)
(* endpoint into an error response and that response into an Err of the      *)
(* client, are outside the repository.                                       *)
EXTENDS TraitClient, TraitEndpoint

CONSTANTS
    Endpoints,   \* the endpoints that calls are made to
    MaxPairs     \* bound: query pairs, and values of a header, of a foreign request

(* What either side is generated from: the shapes that can travel in a place,*)
(* and at most one body (a list or a set in a body is one JSON document).    *)
Shapes(place) ==
    CASE place = "path"   -> {"required"}
      [] place = "query"  -> {"required", "optional", "list", "set"}
      [] place = "header" -> {"required", "optional"}
      [] place = "body"   -> {"required", "optional", "binary"}

ASSUME ArgsAssumption ==
    \A e \in Endpoints :
        /\ e.args \in Seq(UNION {[place : {p}, shape : Shapes(p), safe : BOOLEAN] :
                                    p \in {"path", "query", "header", "body"}})
        /\ \A i, j \in In(e.args, "body") : i = j
        /\ e.returns \in {"void", "json", "iterable", "binary", "optional binary"}

(* A trait's token is an argument among the others (authAt of them come      *)
(* before it), and its encoders have no streams of bytes, which are left to  *)
(* the application.                                                          *)
ASSUME EndpointsAssumption ==
    \A e \in Endpoints :
        /\ {e.client, e.server} \subseteq {"ir", "trait"}
        /\ e.auth \in BOOLEAN /\ e.authAt \in 0 .. Len(e.args)
        /\ "trait" \in {e.client, e.server} =>
              /\ e.returns \in {"void", "json", "iterable"}
              /\ \A i \in DOMAIN e.args : e.args[i].shape # "binary"

(* The errors of a call.                                                     *)
Kinds == {"internal", "invalid", "denied", "broken", "handler"}

(* What has not happened is told apart from what may happen.                 *)
ASSUME NoneAssumption ==
    /\ None \notin Seq(Seq(Texts))
    /\ None \notin Seq([arg : Nat, value : Seq(Texts)])
    /\ None \notin [ok : {TRUE}, value : Seq(Texts)] \cup [ok : {FALSE}, kind : Kinds]

VARIABLES
    endpoint,    \* the endpoint called
    values,      \* the caller's arguments, None if the client is foreign
    foreign,     \* whether the server is foreign
    pc,          \* what happens next
    request,     \* the request, once it is built
    parsed,      \* the arguments the endpoint has parsed, in order
    token,       \* the token the endpoint has parsed
    safe,        \* the SafeParams of response_extensions, None before they are inserted
    got,         \* the arguments the handler was called with
    returned,    \* what the handler returned
    response,    \* the response
    answer       \* what the client method returned

vars == <<endpoint, values, foreign, pc, request, parsed, token, safe, got,
          returned, response, answer>>

(* Values of an argument or a result; lists are short.                       *)
Ones == {<<t>> : t \in Valid}
Many == {<<>>} \cup Ones \cup {<<t, u>> : t, u \in Valid}

(* A stream of bytes may hold anything, or nothing.                          *)
Streams == {<<>>} \cup {<<t>> : t \in Texts}

(* What another program may write for a body.                                *)
Documents == {v \in Streams : ~NotJson(v)}

ValuesOf(shape) ==
    CASE shape = "required" -> Ones
      [] shape = "binary" -> Streams
      [] shape = "optional" -> {<<>>} \cup Ones
      [] shape = "list" -> Many
      [] shape = "set" -> {AsSet(v) : v \in Many}

Arguments(e) ==
    {v \in [DOMAIN e.args -> Many \cup Streams] : \A i \in DOMAIN e.args : v[i] \in ValuesOf(e.args[i].shape)}

Results(e) ==
    CASE e.returns = "void" -> {<<>>}
      [] e.returns \in {"json", "binary"} -> Ones
      [] e.returns \in {"iterable", "optional binary"} -> {<<>>} \cup Ones

Args == endpoint.args

HasSafeParams == \E i \in DOMAIN Args : Args[i].safe

Init ==
    /\ endpoint \in Endpoints
    /\ values \in Arguments(endpoint) \cup {None}
    /\ foreign \in BOOLEAN
    /\ values = None => ~foreign /\ endpoint.client = "ir"
    /\ foreign => endpoint.server = "ir"
    /\ pc = "build"
    /\ request = None
    /\ parsed = <<>>
    /\ token = None
    /\ safe = None
    /\ got = None
    /\ returned = None
    /\ response = None
    /\ answer = None

-----------------------------------------------------------------------------
(* The client.                                                               *)

(* A method sends the request it has built, returns an error or panics.      *)
Send(built) ==
    /\ pc = "build"
    /\ IF built.ok
       THEN /\ request' = built.value
            /\ pc' = "begin"
            /\ UNCHANGED answer
       ELSE IF built.kind = "panic"
       THEN pc' = "unsent" /\ UNCHANGED <<request, answer>>
       ELSE /\ answer' = Err(built.kind)
            /\ pc' = "done"
            /\ UNCHANGED request
    /\ UNCHANGED <<endpoint, values, foreign, parsed, token, safe, got, returned,
                   response>>

BuildRequest ==
    values # None /\ endpoint.client = "ir" /\ Send(Built(endpoint, values))

BuildTraitRequest ==
    values # None /\ endpoint.client = "trait" /\ Send(TraitBuilt(endpoint, values))

(* What a foreign client may send: a header repeated, a query parameter      *)
(* missing, repeated or unknown (0), any content type, body and credentials, *)
(* in a URI that http::Uri can hold.                                         *)
ForeignRequests ==
    LET pairs == {Pair(i, t) : i \in {0} \cup In(Args, "query"), t \in Texts}
        noBody == In(Args, "body") = {}
    IN [type : IF noBody THEN {"none"} ELSE {"none", "json", "octet", "other"},
        body : IF noBody THEN {<<>>} ELSE Documents,
        path : [In(Args, "path") -> {<<t>> : t \in Texts}],
        query : IF In(Args, "query") = {} THEN {<<>>} ELSE BoundedSeq(pairs, MaxPairs),
        headers : [In(Args, "header") -> BoundedSeq(Texts \ Control, MaxPairs)],
        auth : IF endpoint.auth THEN {"missing", "malformed", "good"} ELSE {"missing"}]

ForeignRequest ==
    /\ pc = "build" /\ values = None
    /\ request' \in ForeignRequests
    /\ UriFits(request'.path, request'.query)
    /\ pc' = "begin"
    /\ UNCHANGED <<endpoint, values, foreign, parsed, token, safe, got,
                   returned, response, answer>>

Decoded(outcome) ==
    /\ answer' = outcome
    /\ pc' = "done"
    /\ UNCHANGED <<endpoint, values, foreign, request, parsed, token, safe, got,
                   returned, response>>

Answered(outcome) ==
    /\ pc = "decode"
    /\ Decoded(IF response.status = 500 THEN Err(response.type) ELSE outcome)

DecodeResponse ==
    /\ endpoint.client = "ir"
    /\ Answered(Decode(endpoint.returns, response))

DecodeTraitResponse ==
    /\ endpoint.client = "trait"
    /\ Answered(TraitDecode(endpoint.returns, response))

(* The body of the response breaks off while read_body reads it.             *)
ResponseBreaks ==
    /\ pc = "decode" /\ response.status = 200 /\ response.type = "json"
    /\ ~(endpoint.client = "trait" /\ endpoint.returns = "void")
    /\ Decoded(Err("broken"))

-----------------------------------------------------------------------------
(* The server.                                                               *)

Fail(kind) ==
    IF kind = "panic"
    THEN pc' = "panicked" /\ UNCHANGED response
    ELSE pc' = "decode" /\ response' = Failure(kind)

(* Mutant: SafeParams are inserted only for endpoints with a token.          *)
BeginMutantNoSafe ==
    /\ pc = "begin" /\ ~foreign
    /\ safe' = IF HasSafeParams /\ endpoint.auth THEN <<>> ELSE None
    /\ pc' = "args"
    /\ UNCHANGED <<endpoint, values, foreign, request, parsed, token, got,
                   returned, response, answer>>

(* The endpoint takes the request apart and, if any argument is safe, puts   *)
(* an empty SafeParams into response_extensions.                             *)
Begin ==
    /\ pc = "begin" /\ ~foreign
    /\ safe' = IF HasSafeParams THEN <<>> ELSE None
    /\ pc' = "args"
    /\ UNCHANGED <<endpoint, values, foreign, request, parsed, token, got,
                   returned, response, answer>>

(* put_safe: the argument goes into SafeParams under its name as soon as it  *)
(* is parsed.  A sequence of entries, in the order of insertion.             *)
PutSafe(i, v) == IF Args[i].safe THEN Append(safe, [arg |-> i, value |-> v]) ELSE safe

ParseNext ==
    LET i == Len(parsed) + 1
    IN IF endpoint.server = "trait" THEN TraitParse(request, i, Args[i])
       ELSE Parse(request, i, Args[i])

(* The token is parsed where the trait has it, or after all arguments.       *)
AuthDue ==
    /\ endpoint.auth /\ token = None
    /\ Len(parsed) = IF endpoint.server = "trait" THEN endpoint.authAt ELSE Len(Args)

(* Mutant: put_safe takes the argument's default before it is parsed.        *)
ParseArgMutantEarly ==
    LET i == Len(parsed) + 1
        outcome == ParseNext
    IN /\ pc = "args" /\ i \in DOMAIN Args /\ ~AuthDue
       /\ safe' = PutSafe(i, IF outcome.ok THEN outcome.value ELSE <<>>)
       /\ IF outcome.ok
          THEN parsed' = Append(parsed, outcome.value) /\ UNCHANGED <<pc, response>>
          ELSE Fail(outcome.kind) /\ UNCHANGED parsed
       /\ UNCHANGED <<endpoint, values, foreign, request, token, got, returned,
                      answer>>

(* Mutant: an argument that does not parse is tried again.                   *)
ParseArgMutantRetry ==
    LET i == Len(parsed) + 1
        outcome == ParseNext
    IN /\ pc = "args" /\ i \in DOMAIN Args /\ ~AuthDue
       /\ outcome.ok
       /\ parsed' = Append(parsed, outcome.value)
       /\ safe' = PutSafe(i, outcome.value)
       /\ UNCHANGED <<endpoint, values, foreign, pc, request, token, got,
                      returned, response, answer>>

(* The next argument, in the order of the definition.                        *)
ParseArg ==
    LET i == Len(parsed) + 1
        outcome == ParseNext
    IN /\ pc = "args" /\ i \in DOMAIN Args /\ ~AuthDue
       /\ IF outcome.ok
          THEN /\ parsed' = Append(parsed, outcome.value)
               /\ safe' = PutSafe(i, outcome.value)
               /\ UNCHANGED <<pc, response>>
          ELSE /\ Fail(outcome.kind)
               /\ UNCHANGED <<parsed, safe>>
       /\ UNCHANGED <<endpoint, values, foreign, request, token, got, returned,
                      answer>>

(* The body of the request breaks off while read_body reads it.              *)
RequestBreaks ==
    LET i == Len(parsed) + 1
    IN /\ pc = "args" /\ i \in DOMAIN Args /\ ~AuthDue
       /\ Args[i].place = "body" /\ Args[i].shape # "binary"
       /\ request.type = "json"
       /\ Fail("broken")
       /\ UNCHANGED <<endpoint, values, foreign, request, parsed, token, safe, got,
                      returned, answer>>

Authenticate ==
    /\ pc = "args" /\ AuthDue
    /\ IF ParseAuth(request).ok
       THEN token' = ParseAuth(request).value /\ UNCHANGED <<pc, response>>
       ELSE Fail(ParseAuth(request).kind) /\ UNCHANGED token
    /\ UNCHANGED <<endpoint, values, foreign, request, parsed, safe, got,
                   returned, answer>>

(* The handler is called with all of the arguments.                          *)
Handle ==
    /\ pc = "args" /\ Len(parsed) = Len(Args) /\ ~AuthDue
    /\ got' = parsed
    /\ pc' = "handling"
    /\ UNCHANGED <<endpoint, values, foreign, request, parsed, token, safe,
                   returned, response, answer>>

(* The handler is the application's: it returns any value of its type.       *)
HandlerReturns ==
    /\ pc = "handling"
    /\ returned' \in Results(endpoint)
    /\ pc' = "encode"
    /\ UNCHANGED <<endpoint, values, foreign, request, parsed, token, safe, got,
                   response, answer>>

HandlerFails ==
    /\ pc = "handling"
    /\ Fail("handler")
    /\ UNCHANGED <<endpoint, values, foreign, request, parsed, token, safe, got,
                   returned, answer>>

EncodeResponse ==
    /\ pc = "encode"
    /\ IF ResultRefused(endpoint.returns, returned)
       THEN Fail(IF endpoint.server = "trait" THEN "internal" ELSE "panic")
       ELSE /\ response' = IF endpoint.server = "trait"
                            THEN TraitEncode(endpoint.returns, returned)
                            ELSE Encode(endpoint.returns, returned)
            /\ pc' = "decode"
    /\ UNCHANGED <<endpoint, values, foreign, request, parsed, token, safe, got,
                   returned, answer>>

ForeignAnswer ==
    /\ pc = "begin" /\ foreign
    /\ \E type \in {"none", "json", "octet", "other"}, body \in Documents :
           response' \in {NoContent, Content(type, body)}
    /\ pc' = "decode"
    /\ UNCHANGED <<endpoint, values, foreign, request, parsed, token, safe, got,
                   returned, answer>>

-----------------------------------------------------------------------------

Server ==
    \/ Begin
    \/ ParseArg
    \/ RequestBreaks
    \/ Authenticate
    \/ Handle
    \/ HandlerReturns
    \/ HandlerFails
    \/ EncodeResponse

Client ==
    \/ BuildRequest
    \/ BuildTraitRequest
    \/ DecodeResponse
    \/ DecodeTraitResponse
    \/ ResponseBreaks

Next == Client \/ Server \/ ForeignRequest \/ ForeignAnswer

Spec == Init /\ [][Next]_vars

(* Both sides are straight-line programs that run on by themselves, once the *)
(* handler and the transport answer, which the runtimes provide for.         *)
FairSpec == Spec /\ WF_vars(Next)

-----------------------------------------------------------------------------

(* Every variable has its type, and SafeParams are in the extensions from    *)
(* the first argument on, for the endpoints that have any.                   *)
TypeOK ==
    /\ endpoint \in Endpoints
    /\ foreign \in BOOLEAN
    /\ pc \in {"build", "begin", "args", "handling", "encode", "decode",
               "done", "unsent", "panicked"}
    /\ parsed \in Seq(Seq(Texts)) /\ Len(parsed) <= Len(Args)
    /\ safe # None => HasSafeParams
    /\ HasSafeParams /\ pc \in {"args", "handling", "encode"} => safe # None
    /\ token # None => endpoint.auth /\ request.auth = "good"
    /\ got # None => got = parsed /\ Len(got) = Len(Args)
    /\ pc = "encode" => returned \in Results(endpoint)
    /\ pc = "decode" => response.status \in {200, 204, 500}
    /\ pc = "done" <=> answer # None

(* Both peers were generated, from one definition or from traits that match. *)
Generated == values # None /\ ~foreign

IfGenerated(x) == IF Generated THEN x ELSE None

(* A remote call between generated peers is a local call: no encoding, order *)
(* of parameters, default left off the wire or empty response changes an     *)
(* argument or the result.                                                   *)
Local == INSTANCE LocalCall WITH
    values <- values, got <- IfGenerated(got), returned <- IfGenerated(returned),
    answer <- IfGenerated(answer)

RemoteIsLocal == Local!Spec

(* Texts that the client accepts and the wire does not carry: a header       *)
(* outside ASCII, which the client sends and the server refuses, a header    *)
(* with control characters, and a body over the server's limit.  And a       *)
(* datetime that a trait's client writes and an endpoint of the IR reads.    *)
Untransportable ==
    \E i \in DOMAIN Args :
        \/ Args[i].place = "header" /\ ToSet(values[i]) \cap (NonAscii \cup Control) # {}
        \/ Args[i].place = "body" /\ Args[i].shape # "binary"
           /\ ToSet(values[i]) \cap Oversized # {}
        \/ Args[i].place # "body" /\ endpoint.client = "trait" /\ endpoint.server = "ir"
           /\ \E v \in ToSet(values[i]) : Display[v] # v

(* An endpoint of the IR answers a default with 204, which a trait's client  *)
(* does not read.                                                            *)
EmptyUnread ==
    /\ endpoint.client = "trait" /\ endpoint.server = "ir"
    /\ endpoint.returns = "iterable" /\ returned = <<>>

(* The texts that the client writes.                                         *)
TheTexts == IF endpoint.client = "trait" THEN TraitTexts(Args, values) ELSE values

(* More than a URI holds, all of the caller's parameters together.           *)
UriTooLong ==
    LET sent == Request(endpoint, TheTexts)
    IN ~UriFits(sent.path, sent.query)

(* An argument or a result of type any that is no JSON.                      *)
ArgumentNoJson == BodyRefused(Args, values)
ResultNoJson == returned # None /\ ResultRefused(endpoint.returns, returned)

(* Nothing else comes between generated peers: every other call reaches the  *)
(* handler, and its result the caller, unless the connection breaks.  Where  *)
(* the code panics it is not for what the other peer sent: the client for    *)
(* its caller's arguments, the endpoint for its handler's result.            *)
OnlyKnownFailures ==
    Generated =>
        /\ pc = "unsent" => UriTooLong \/ (endpoint.client = "ir" /\ ArgumentNoJson)
        /\ pc = "panicked" => endpoint.server = "ir" /\ ResultNoJson
        /\ pc = "done" =>
              \/ answer.ok
              \/ answer.kind \in {"broken", "handler"}
              \/ Untransportable
              \/ EmptyUnread
              \/ endpoint.client = "trait" /\ ArgumentNoJson
              \/ endpoint.server = "trait" /\ ResultNoJson

(* The texts that the request holds in argument i's place.                   *)
Carried(i) ==
    CASE Args[i].place = "path"   -> request.path[i]
      [] Args[i].place = "query"  ->
           LET mine == InOrder({n \in DOMAIN request.query : request.query[n].key = i})
           IN [n \in DOMAIN mine |-> request.query[mine[n]].text]
      [] Args[i].place = "header" -> request.headers[i]
      [] Args[i].place = "body"   -> request.body

(* A text is the value, or to a trait's endpoint the value's Display.        *)
Spells(i, text, v) ==
    text = v \/ (Args[i].place # "body" /\ endpoint.server = "trait" /\ text = Display[v])

OfShape(shape, v) ==
    CASE shape = "required" -> v \in Ones
      [] shape = "optional" -> v \in {<<>>} \cup Ones
      [] shape = "binary"   -> v \in Streams
      [] shape = "list"     -> v \in Seq(Valid)
      [] shape = "set"      -> v \in Seq(Valid) /\ Ascending(v)

(* Whether the request says v for argument i: every text it carries there,   *)
(* in order; for a set, the same texts; for a header that is read by the     *)
(* endpoint of an IR, the first.                                             *)
Says(i, v) ==
    LET texts == Carried(i)
    IN /\ OfShape(Args[i].shape, v)
       /\ IF Args[i].shape = "set" THEN
              /\ \A t \in ToSet(texts) : \E x \in ToSet(v) : Spells(i, t, x)
              /\ \A x \in ToSet(v) : \E t \in ToSet(texts) : Spells(i, t, x)
          ELSE IF Args[i].place = "header" /\ endpoint.server = "ir" THEN
              IF texts = <<>> THEN v = <<>> ELSE v = <<Head(texts)>>
          ELSE IF Args[i].place = "body" /\ request.type = "none" THEN v = <<>>
          ELSE Len(v) = Len(texts) /\ \A n \in DOMAIN v : Spells(i, texts[n], v[n])

(* Whoever wrote the request, the handler runs only for a good token, and    *)
(* with arguments that the request says: a repeated parameter, a default or  *)
(* another argument's value never stands in for what a client sent.          *)
HandlerSeesTheRequest ==
    got # None =>
        /\ endpoint.auth => request.auth = "good"
        /\ \A i \in DOMAIN Args : Says(i, got[i])

(* What is put up for logging is only ever the value of a safe argument that *)
(* the request says, and all of those parsed before the request was refused: *)
(* a request that fails half-way is logged truthfully, and a handler never   *)
(* runs without its safe arguments recorded.                                 *)
SafeParamsTruthful ==
    safe # None =>
        LET logged == {safe[n].arg : n \in DOMAIN safe}
        IN /\ \A n \in DOMAIN safe :
                Args[safe[n].arg].safe /\ Says(safe[n].arg, safe[n].value)
           /\ logged = {i \in DOMAIN parsed : Args[i].safe}

(* The client takes no value out of a response that does not hold it: a      *)
(* foreign server's empty response is a default only for the types that have *)
(* one, and a body only with the content type the endpoint asked for.        *)
AnswerIsTheResponse ==
    (answer # None /\ response # None) /\ answer.ok =>
        CASE endpoint.returns = "void" -> answer.value = <<>>
          [] endpoint.returns = "json" -> response.status = 200 /\
                 response.type = "json" /\ answer.value = response.body
          [] endpoint.returns = "binary" ->
                 response.type = "octet" /\ answer.value = response.body
          [] OTHER -> answer.value = IF response.status = 204 THEN <<>> ELSE response.body

(* Every call comes to an end: no argument, refusal or response leaves it    *)
(* hanging.  (A panic is left to the caller and to the server's runtime.)    *)
CallAnswered == <>(pc \in {"done", "unsent", "panicked"})

(* The code's own error message for a query parameter that does not occur    *)
(* exactly once is an answer: a client's mistake is refused, not a panic.    *)
NeverPanics == pc # "panicked"
=============================================================================
