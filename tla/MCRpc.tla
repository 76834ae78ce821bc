------------------------------- MODULE MCRpc -------------------------------
(* Endpoints that between them have every place, shape and return type, with *)
(* either side generated from the IR or from a trait; texts of every class:  *)
(* two plain ones, malformed ones, one that only ASCII headers and bounded   *)
(* bodies refuse and no URI has room for, one that no header and no JSON may *)
(* hold, and a datetime with its Display.  Two or three of the shorter ones  *)
(* fill a URI, or are too many.                                              *)
EXTENDS Rpc

MCTexts == 1..7
MCMalformed == {3, 7}
MCDisplay == [v \in MCTexts \ MCMalformed |-> IF v = 6 THEN 7 ELSE v]
MCNonAscii == {4}
MCOversized == {4}
MCControl == {5}
MCUnwritable == {5}
MCUriBytes == [t \in MCTexts |-> CASE t \in {2, 7} -> 2 [] t = 4 -> 5 [] OTHER -> 1]
MCMaxUri == 4

Endpoint(args, auth, returns) ==
    [args |-> args, auth |-> auth, authAt |-> Len(args) \div 2, returns |-> returns]

Path == Arg("path", "required", TRUE)
Body(shape, log) == Arg("body", shape, log)
Query(shape, log) == Arg("query", shape, log)
Header(shape, log) == Arg("header", shape, log)

Plain ==
    {Endpoint(<<Path, Query("optional", FALSE)>>, TRUE, "json"),
     Endpoint(<<Query("required", TRUE), Query("list", FALSE)>>, FALSE, "iterable"),
     Endpoint(<<Header("optional", TRUE), Query("set", TRUE)>>, FALSE, "void"),
     Endpoint(<<Header("required", FALSE), Body("optional", TRUE)>>, TRUE, "json"),
     Endpoint(<<Body("required", FALSE), Path>>, FALSE, "iterable"),
     Endpoint(<<>>, FALSE, "void")}

Streaming ==
    {Endpoint(<<Header("required", FALSE)>>, TRUE, "optional binary"),
     Endpoint(<<Path>>, FALSE, "binary"),
     Endpoint(<<Body("binary", FALSE)>>, TRUE, "json")}

MadeFrom(e, client, server) ==
    [args |-> e.args, auth |-> e.auth, authAt |-> e.authAt, returns |-> e.returns,
     client |-> client, server |-> server]

MCEndpoints ==
    {MadeFrom(e, "ir", "ir") : e \in Plain \cup Streaming}
    \cup {MadeFrom(e, c, s) : e \in Plain, c \in {"ir", "trait"}, s \in {"ir", "trait"}}
=============================================================================
