------------------------------- MODULE Wire -------------------------------
(* The vocabulary of a remote call that a client method and a server         *)
(* endpoint share: the endpoint they were generated from, the request one    *)
(* writes and the other reads, and the response.  Either is generated from   *)
(* the IR (conjure-codegen) or from a Rust trait (conjure-macros).           *)
(*                                                                           *)
(* A text is a plain value as it stands in a path segment, a query parameter,*)
(* a header or a JSON body.  The value of an argument is the sequence of its *)
(* texts: one for a required argument, at most one for an optional argument, *)
(* any number for a list and an ascending sequence for a set (a BTreeSet).   *)
EXTENDS Integers, Sequences, SequencesExt, FiniteSets

CONSTANTS
    Texts,       \* the plain values
    Malformed,   \* texts that are no value of any argument's type
    NonAscii,    \* texts with characters outside ASCII
    Control,     \* texts that no header may hold
    Oversized,   \* texts longer than SERIALIZABLE_REQUEST_SIZE_LIMIT
    Unwritable,  \* values of type any that JSON cannot hold, in a body
    UriBytes,    \* text -> the bytes it adds to a URI
    MaxUri,      \* the bytes that a URI has for its parameters
    Display,     \* value -> its text by Display, which a trait's client writes
    None         \* what has not happened

ASSUME TextsAssumption == Texts \subseteq Nat
ASSUME ClassesAssumption ==
    /\ Malformed \cup NonAscii \cup Control \cup Oversized \subseteq Texts
    /\ Unwritable \subseteq Texts \ Malformed
    /\ None \notin Seq(Texts)

(* The plain text of most values is their Display; that of a datetime is not,*)
(* and its Display is no plain text, but printable ASCII.                    *)
ASSUME DisplayAssumption ==
    /\ Display \in [Texts \ Malformed -> Texts]
    /\ \A v, w \in DOMAIN Display :
           /\ Display[v] = v \/ Display[v] \in Malformed \ (NonAscii \cup Control)
           /\ Display[v] = Display[w] => v = w

(* A text is percent-encoded, and stands behind a separator and, in a query, *)
(* its key: the names of an API are short and counted with it.  The http     *)
(* crate allows a URI of 65534 bytes, 50 MiB are beyond it.                  *)
ASSUME UriAssumption ==
    /\ UriBytes \in [Texts -> Nat] /\ MaxUri \in Nat
    /\ \A t \in Oversized : UriBytes[t] > MaxUri

(* The values an argument or a result of the generated code can have.        *)
Valid == Texts \ Malformed

(* Where an argument travels, how many values it has, and whether it may be  *)
(* logged (is_safe_arg).  Its position in the endpoint names it.             *)
Arg(place, shape, safe) == [place |-> place, shape |-> shape, safe |-> safe]

(* The arguments that travel in one place.                                   *)
In(args, place) == {i \in DOMAIN args : args[i].place = place}

(* One pair of the URI's query string.                                       *)
Pair(key, text) == [key |-> key, text |-> text]

(* The bytes of a URI's parameters.                                          *)
UriLength(path, query) ==
    MapThenSumSet(LAMBDA i : UriBytes[path[i][1]], DOMAIN path)
    + MapThenSumSet(LAMBDA n : UriBytes[query[n].text], DOMAIN query)

(* Whether http::Uri can hold them.                                          *)
UriFits(path, query) == UriLength(path, query) <= MaxUri

(* Whether a value cannot be written as JSON: Any::new takes a map whose keys*)
(* are sequences or maps.                                                    *)
NotJson(value) == ToSet(value) \cap Unwritable # {}

Ascending(texts) == \A m, n \in DOMAIN texts : m < n => texts[m] < texts[n]

(* The members of a set of numbers, in order.                                *)
InOrder(members) ==
    CHOOSE s \in [1 .. Cardinality(members) -> members] : Ascending(s)

(* BTreeSet: the texts of a sequence in order, each once.                    *)
AsSet(texts) == InOrder(ToSet(texts))

(* An answer with a body, one without (204 No Content), or an error.         *)
Content(type, body) == [status |-> 200, type |-> type, body |-> body]
NoContent == [status |-> 204, type |-> "none", body |-> <<>>]
Failure(kind) == [status |-> 500, type |-> kind, body |-> <<>>]

(* The outcome of reading one thing.                                         *)
Ok(v)     == [ok |-> TRUE, value |-> v]
Err(kind) == [ok |-> FALSE, kind |-> kind]
=============================================================================
