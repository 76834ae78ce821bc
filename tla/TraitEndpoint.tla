--------------------------- MODULE TraitEndpoint ---------------------------
(* A server endpoint that conjure_endpoints generates from a trait (conjure- *)
(* macros, endpoints.rs) with the decoders of conjure-http (server.rs).      *)
EXTENDS ServerEndpoint

(* FromStr, which reads the plain text of a value as well as its Display.    *)
FromStr(text) ==
    IF \E v \in DOMAIN Display : Display[v] = text
    THEN CHOOSE v \in DOMAIN Display : Display[v] = text
    ELSE text

Readable == DOMAIN Display \cup {Display[v] : v \in DOMAIN Display}

(* FromStrDecoder, FromStrOptionDecoder and FromStrSeqDecoder.               *)
DecodeTexts(shape, texts) ==
    LET values == [n \in DOMAIN texts |-> FromStr(texts[n])]
    IN IF \/ texts \notin Seq(Readable)
          \/ shape = "required" /\ Len(texts) # 1
          \/ shape = "optional" /\ Len(texts) > 1
       THEN Err("invalid")
       ELSE Ok(IF shape = "set" THEN AsSet(values) ELSE values)

(* The decoder that generate_path_arg, generate_query_arg,                   *)
(* generate_header_arg and generate_body_arg call.  A header's values are    *)
(* all looked at (get_all).  ConjureRequestDeserializer requires JSON.       *)
TraitParse(request, i, arg) ==
    CASE arg.place = "path"   -> DecodeTexts(arg.shape, request.path[i])
      [] arg.place = "query"  -> DecodeTexts(arg.shape, QueryParams(request.query, i))
      [] arg.place = "header" ->
           IF ToSet(request.headers[i]) \cap (NonAscii \cup Control) # {}
           THEN Err("invalid")
           ELSE DecodeTexts(arg.shape, request.headers[i])
      [] arg.place = "body"   -> DecodeJsonBody(request, arg.shape)

(* EmptyResponseSerializer, and ConjureResponseSerializer, which writes JSON *)
(* whatever the value.                                                       *)
TraitEncode(returns, value) ==
    IF returns = "void" THEN NoContent ELSE Content("json", value)
=============================================================================
