----------------------------- MODULE LocalCall -----------------------------
(* What a service trait promises the caller of a generated client: a remote  *)
(* call is a call.  The handler sees the caller's own arguments, at most     *)
(* once, and the caller sees the handler's own value, or an error, which may *)
(* come before or after the handler has run.                                 *)
EXTENDS Naturals

CONSTANT None

VARIABLES
    values,    \* the caller's arguments
    got,       \* the arguments the handler was called with
    returned,  \* what the handler returned
    answer     \* what the caller was told

vars == <<values, got, returned, answer>>

Init ==
    /\ got = None
    /\ returned = None
    /\ answer = None

Handle ==
    /\ got = None /\ answer = None
    /\ got' = values
    /\ UNCHANGED <<values, returned, answer>>

Return ==
    /\ got # None /\ returned = None /\ answer = None
    /\ returned' # None
    /\ UNCHANGED <<values, got, answer>>

Answer ==
    /\ returned # None /\ answer = None
    /\ answer' = [ok |-> TRUE, value |-> returned]
    /\ UNCHANGED <<values, got, returned>>

Fail ==
    /\ answer = None
    /\ answer' # None /\ ~answer'.ok
    /\ UNCHANGED <<values, got, returned>>

Next == Handle \/ Return \/ Answer \/ Fail

Spec == Init /\ [][Next]_vars
=============================================================================
