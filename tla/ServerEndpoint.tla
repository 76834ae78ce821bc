-------------------------- MODULE ServerEndpoint --------------------------
(* A generated server endpoint (conjure-codegen, servers.rs) over the        *)
(* helpers of conjure-http (private/server.rs): how it reads each argument   *)
(* and the token from a request, and how it writes the handler's value.      *)
EXTENDS Wire

(* from_plain, for every text of an argument.                                *)
FromPlain(texts) == IF texts \in Seq(Valid) THEN Ok(texts) ELSE Err("invalid")

(* from_plain into a BTreeSet.                                               *)
SetFromPlain(texts) ==
    IF FromPlain(texts).ok THEN Ok(AsSet(FromPlain(texts).value)) ELSE FromPlain(texts)

(* parse_query_params: the values of a key, in order.  A key that does not   *)
(* occur, and is not in the map, has none.                                   *)
QueryParams(query, key) ==
    LET found == InOrder({n \in DOMAIN query : query[n].key = key})
    IN [n \in DOMAIN found |-> query[found[n]].text]

ParsePathParam(request, i) == FromPlain(request.path[i])

(* parse_query_param indexes the map before it counts the values; its        *)
(* optional, list and set forms look the key up.                             *)
ParseQueryParam(request, i, shape) ==
    LET texts == QueryParams(request.query, i)
    IN IF texts = <<>>
       THEN IF shape = "required" THEN Err("panic") ELSE Ok(<<>>)
       ELSE CASE shape \in {"required", "optional"} ->
                   IF Len(texts) = 1 THEN FromPlain(texts) ELSE Err("invalid")
              [] shape = "list" -> FromPlain(texts)
              [] shape = "set"  -> SetFromPlain(texts)

(* parse_required_header and parse_optional_header read the first value.     *)
ParseHeader(request, i, shape) ==
    LET texts == request.headers[i]
    IN IF texts = <<>>
       THEN IF shape = "required" THEN Err("invalid") ELSE Ok(<<>>)
       ELSE IF Head(texts) \in NonAscii \cup Control THEN Err("invalid")
       ELSE FromPlain(<<Head(texts)>>)

(* decode_serializable_request: the content type, the size limit of          *)
(* read_body, and the value; `null` is one only for an optional type.        *)
DecodeJsonBody(request, shape) ==
    IF request.type # "json" THEN Err("invalid")
    ELSE IF ToSet(request.body) \cap Oversized # {} THEN Err("invalid")
    ELSE IF shape = "required" /\ request.body = <<>> THEN Err("invalid")
    ELSE FromPlain(request.body)

DecodeBody(request, shape) ==
    CASE shape = "binary" ->
           IF request.type = "octet" THEN Ok(request.body) ELSE Err("invalid")
      [] shape = "optional" ->
           IF request.type = "none" THEN Ok(<<>>) ELSE DecodeJsonBody(request, shape)
      [] shape = "required" -> DecodeJsonBody(request, shape)

(* Mutant: a repeated query parameter is read by its last value.             *)
ParseMutantLast(request, i, arg) ==
    LET texts == QueryParams(request.query, i)
    IN CASE arg.place = "path"   -> ParsePathParam(request, i)
         [] arg.place = "query"  ->
              IF texts # <<>> /\ arg.shape \in {"required", "optional"}
              THEN FromPlain(<<Last(texts)>>)
              ELSE ParseQueryParam(request, i, arg.shape)
         [] arg.place = "header" -> ParseHeader(request, i, arg.shape)
         [] arg.place = "body"   -> DecodeBody(request, arg.shape)

(* The parser that parse_path_arg, parse_query_arg, parse_header_arg and     *)
(* parse_body_arg generate for an argument.                                  *)
Parse(request, i, arg) ==
    CASE arg.place = "path"   -> ParsePathParam(request, i)
      [] arg.place = "query"  -> ParseQueryParam(request, i, arg.shape)
      [] arg.place = "header" -> ParseHeader(request, i, arg.shape)
      [] arg.place = "body"   -> DecodeBody(request, arg.shape)

(* parse_header_auth and parse_cookie_auth: a missing header, one without    *)
(* the prefix and one whose token does not parse are all refused alike.      *)
ParseAuth(request) == IF request.auth = "good" THEN Ok("token") ELSE Err("denied")

(* make_response panics for a value that is no JSON.                         *)
ResultRefused(returns, value) == returns \in {"json", "iterable"} /\ NotJson(value)

(* make_response: nothing for void, for an absent stream and for the default *)
(* of an optional or a collection; a stream; or JSON.                        *)
Encode(returns, value) ==
    CASE returns = "void" -> NoContent
      [] returns \in {"optional binary", "iterable"} /\ value = <<>> -> NoContent
      [] returns \in {"binary", "optional binary"} /\ value # <<>> ->
           Content("octet", value)
      [] returns \in {"json", "iterable"} /\ value # <<>> -> Content("json", value)
=============================================================================
