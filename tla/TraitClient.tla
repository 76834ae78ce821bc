---------------------------- MODULE TraitClient ----------------------------
(* A client method that conjure_client generates from a trait (conjure-      *)
(* macros, client.rs) with the encoders of conjure-http (client.rs): Display *)
(* for a required argument, its Seq form for an optional one, a list or a    *)
(* set, and JSON for a body.                                                 *)
EXTENDS ClientMethod

(* DisplayParamEncoder, DisplayHeaderEncoder and their Seq forms.            *)
Encoded(texts) == [n \in DOMAIN texts |-> Display[texts[n]]]

(* The arguments as the encoders leave them; the request is put together    *)
(* from these like that of the generated method.                             *)
TraitTexts(args, values) ==
    [i \in DOMAIN args |->
        IF i \in In(args, "body") THEN values[i] ELSE Encoded(values[i])]

(* ConjureRequestSerializer hands the error on where the generated method    *)
(* panics.                                                                   *)
TraitBuilt(endpoint, values) ==
    IF BodyRefused(endpoint.args, values) THEN Err("internal")
    ELSE Built(endpoint, TraitTexts(endpoint.args, values))

(* ConjureResponseDeserializer; a method without `accept` does not look at   *)
(* the response.                                                             *)
TraitDecode(returns, response) ==
    IF returns = "void" THEN Ok(<<>>) ELSE DecodeJson(response, returns = "iterable")
=============================================================================
