--------------------------- MODULE ClientMethod ---------------------------
(* A generated client method (conjure-codegen, clients.rs) over the helpers  *)
(* of conjure-http (private/client/mod.rs, private/client/uri_builder.rs):   *)
(* how it builds the request from its arguments, and what it makes of the    *)
(* response.                                                                 *)
EXTENDS Wire

(* Mutant: a stream of bytes is announced as JSON.                           *)
ContentTypeMutantJson(args) == IF In(args, "body") = {} THEN "none" ELSE "json"

(* Bodies are encoded first, as JSON or as a stream of bytes.                *)
ContentType(args) ==
    IF In(args, "body") = {} THEN "none"
    ELSE IF \E i \in In(args, "body") : args[i].shape = "binary" THEN "octet"
    ELSE "json"

(* Mutant: a repeated parameter replaces the one before it, as headers do.   *)
QueryStringMutantReplace(args, values) ==
    FlattenSeq([i \in DOMAIN args |->
        IF i \in In(args, "query") /\ values[i] # <<>>
        THEN <<Pair(i, Last(values[i]))>>
        ELSE <<>>])

(* UriBuilder: the values of every query argument, in argument order, each   *)
(* under the argument's key.                                                 *)
QueryString(args, values) ==
    FlattenSeq([i \in DOMAIN args |->
        IF i \in In(args, "query")
        THEN [n \in DOMAIN values[i] |-> Pair(i, values[i][n])]
        ELSE <<>>])

(* The body is written as JSON at once; a stream is left to the transport.   *)
BodyRefused(args, values) ==
    \E i \in In(args, "body") : args[i].shape # "binary" /\ NotJson(values[i])

(* encode_header refuses a text that is no header value.                     *)
HeaderRefused(args, values) ==
    \E i \in In(args, "header") : ToSet(values[i]) \cap Control # {}

Request(endpoint, values) ==
    LET args == endpoint.args
    IN [type    |-> ContentType(args),
        body    |-> IF In(args, "body") = {} THEN <<>>
                    ELSE values[CHOOSE i \in In(args, "body") : TRUE],
        path    |-> [i \in In(args, "path") |-> values[i]],
        query   |-> QueryString(args, values),
        headers |-> [i \in In(args, "header") |-> values[i]],
        auth    |-> IF endpoint.auth THEN "good" ELSE "missing"]

(* The client panics for a body that is no JSON and for a URI that is too    *)
(* long, which it builds next; a bad header is an error.                     *)
Built(endpoint, values) ==
    LET request == Request(endpoint, values)
    IN IF \/ BodyRefused(endpoint.args, values)
          \/ ~UriFits(request.path, request.query)
       THEN Err("panic")
       ELSE IF HeaderRefused(endpoint.args, values) THEN Err("internal")
       ELSE Ok(request)

(* decode_serializable_response: the content type must be JSON's, the body   *)
(* must be a value of the type; `null` is one only for an optional type.     *)
DecodeJson(response, nullable) ==
    IF response.type # "json" THEN Err("internal")
    ELSE IF ToSet(response.body) \cap Malformed # {} THEN Err("internal")
    ELSE IF response.body = <<>> /\ ~nullable THEN Err("internal")
    ELSE Ok(response.body)

DecodeBinary(response) ==
    IF response.type # "octet" THEN Err("internal") ELSE Ok(response.body)

(* Mutant: an empty response is the default of every type.                   *)
DecodeMutantEmpty(returns, response) ==
    IF response.status = 204 THEN Ok(<<>>)
    ELSE IF returns \in {"binary", "optional binary"} THEN DecodeBinary(response)
    ELSE DecodeJson(response, returns # "json")

(* What the method returns for each response, by the endpoint's return type. *)
(* A void method also accepts JSON, which it checks and drops (IgnoredAny).  *)
Decode(returns, response) ==
    CASE returns \in {"void", "iterable", "optional binary"}
         /\ response.status = 204 -> Ok(<<>>)
      [] returns = "void" /\ response.status # 204 ->
           IF DecodeJson(response, TRUE).ok THEN Ok(<<>>) ELSE Err("internal")
      [] returns = "iterable" /\ response.status # 204 ->
           DecodeJson(response, TRUE)
      [] returns = "optional binary" /\ response.status # 204 ->
           DecodeBinary(response)
      [] returns = "json" -> DecodeJson(response, FALSE)
      [] returns = "binary" -> DecodeBinary(response)
=============================================================================
