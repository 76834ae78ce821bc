---------------------------- MODULE BodyReader ----------------------------
(* What a caller of `read_body` and `async_read_body` (conjure-http,         *)
(* private/mod.rs) may rely on, whatever the number of chunks: the answer is *)
(* the body put together in order, the stream's own error, or a refusal of   *)
(* the first prefix that is longer than the limit.                           *)
EXTENDS Naturals, Sequences

CONSTANTS
    Chunks,    \* the chunks a stream may hand over
    Limits,    \* the limits callers pass
    NoLimit    \* the limit `None`

VARIABLES
    limit,     \* the limit of this call, which never changes
    received,  \* the bytes the stream has handed over
    outcome    \* Reading, or the answer

vars == <<limit, received, outcome>>

Reading  == [tag |-> "reading"]
Ok(body) == [tag |-> "ok", body |-> body]
Broken   == [tag |-> "broken"]
TooLarge == [tag |-> "too_large"]

(* A body this long may be read on under the limit.                          *)
Fits(body) == limit = NoLimit \/ Len(body) <= limit

Init ==
    /\ limit \in Limits
    /\ received = <<>>
    /\ outcome = Reading

Receive(chunk) ==
    /\ outcome = Reading
    /\ received' = received \o chunk
    /\ outcome' = IF Fits(received') THEN Reading ELSE TooLarge
    /\ UNCHANGED limit

End ==
    /\ outcome = Reading
    /\ outcome' = Ok(received)
    /\ UNCHANGED <<limit, received>>

Break ==
    /\ outcome = Reading
    /\ outcome' = Broken
    /\ UNCHANGED <<limit, received>>

Next ==
    \/ \E chunk \in Chunks : Receive(chunk)
    \/ End
    \/ Break

Spec == Init /\ [][Next]_vars
=============================================================================
