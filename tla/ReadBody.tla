----------------------------- MODULE ReadBody -----------------------------
(* `read_body` and `async_read_body` of conjure-http (private/mod.rs): the   *)
(* loop that collects a streamed body under an optional limit.  Both take    *)
(* the first two chunks by hand so that a body of one chunk is returned      *)
(* without a copy, and only then start the buffer; the asynchronous one is   *)
(* the same program with an await before each chunk, where it holds the same *)
(* state, so one action per chunk is both.  The server calls them with       *)
(* SERIALIZABLE_REQUEST_SIZE_LIMIT, the client without a limit.              *)
EXTENDS Naturals, Sequences

CONSTANTS
    Byte,      \* the values of a byte
    Chunks,    \* the chunks a stream may hand over
    Limits,    \* the limits callers pass
    NoLimit,   \* the limit `None`
    MaxBytes   \* bound: the longest body read without a limit

ASSUME ChunksAssumption == Chunks \subseteq Seq(Byte)
ASSUME LimitsAssumption == Limits \subseteq Nat \cup {NoLimit}
ASSUME NoLimitAssumption == NoLimit \notin Nat
ASSUME MaxBytesAssumption == MaxBytes \in Nat

VARIABLES
    limit,     \* the caller's limit
    point,     \* which call of next() the reader is at
    first,     \* the first chunk
    buf,       \* the buffer, empty until the second chunk
    outcome    \* Reading, or what the function returned

vars == <<limit, point, first, buf, outcome>>

Reading  == [tag |-> "reading"]
Ok(body) == [tag |-> "ok", body |-> body]
Broken   == [tag |-> "broken"]
TooLarge == [tag |-> "too_large"]

(* check_limit: the answer after a chunk that leaves `bytes` collected.      *)
CheckLimit(bytes) ==
    IF limit = NoLimit \/ Len(bytes) <= limit THEN Reading ELSE TooLarge

Init ==
    /\ limit \in Limits
    /\ point = "first"
    /\ first = <<>>
    /\ buf = <<>>
    /\ outcome = Reading

(* What the reader holds: the chunk kept uncopied, then the buffer.          *)
Held == IF point = "rest" THEN buf ELSE first

(* The stream hands over `chunk`: bounded only where no limit stops it.      *)
Yields(chunk) ==
    /\ outcome = Reading
    /\ limit = NoLimit => Len(Held) + Len(chunk) <= MaxBytes

First(chunk) ==
    /\ point = "first"
    /\ Yields(chunk)
    /\ first' = chunk
    /\ outcome' = CheckLimit(chunk)
    /\ point' = "second"
    /\ UNCHANGED <<limit, buf>>

(* Mutant: the buffer starts without the first chunk.                        *)
SecondMutantLoses(chunk) ==
    /\ point = "second"
    /\ Yields(chunk)
    /\ buf' = chunk
    /\ outcome' = CheckLimit(first \o chunk)
    /\ point' = "rest"
    /\ UNCHANGED <<limit, first>>

(* Mutant: the buffer is not checked until the third chunk.                  *)
SecondMutantUnchecked(chunk) ==
    /\ point = "second"
    /\ Yields(chunk)
    /\ buf' = first \o chunk
    /\ point' = "rest"
    /\ UNCHANGED <<limit, first, outcome>>

Second(chunk) ==
    /\ point = "second"
    /\ Yields(chunk)
    /\ buf' = first \o chunk
    /\ outcome' = CheckLimit(first \o chunk)
    /\ point' = "rest"
    /\ UNCHANGED <<limit, first>>

(* Mutant: the loop assigns the chunk where it should append it.             *)
RestMutantAssigns(chunk) ==
    /\ point = "rest"
    /\ Yields(chunk)
    /\ buf' = chunk
    /\ outcome' = CheckLimit(chunk)
    /\ UNCHANGED <<limit, point, first>>

Rest(chunk) ==
    /\ point = "rest"
    /\ Yields(chunk)
    /\ buf' = buf \o chunk
    /\ outcome' = CheckLimit(buf \o chunk)
    /\ UNCHANGED <<limit, point, first>>

(* Mutant: a body of several chunks is cut to its first.                     *)
EndMutantFirst ==
    /\ outcome = Reading
    /\ outcome' = Ok(first)
    /\ UNCHANGED <<limit, point, first, buf>>

(* next() is None: the empty body, the first chunk itself, or the buffer.    *)
End ==
    /\ outcome = Reading
    /\ outcome' = Ok(CASE point = "first"  -> <<>>
                       [] point = "second" -> first
                       [] point = "rest"   -> buf)
    /\ UNCHANGED <<limit, point, first, buf>>

(* next() is an error, which every `?` passes on.                            *)
Break ==
    /\ outcome = Reading
    /\ outcome' = Broken
    /\ UNCHANGED <<limit, point, first, buf>>

Pull == \E chunk \in Chunks : First(chunk) \/ Second(chunk) \/ Rest(chunk)

Next == Pull \/ End \/ Break

Spec == Init /\ [][Next]_vars

(* The loop runs on as long as the stream hands over bytes: an empty chunk   *)
(* in the loop changes nothing, so fairness says that the stream does not    *)
(* hand over empty chunks for ever.  It says nothing about the stream ending.*)
FairSpec == Spec /\ WF_vars(Pull)

-----------------------------------------------------------------------------

(* Every variable has its type, the buffer is used only from the second      *)
(* chunk on, and a body that is returned is the one that is held.            *)
TypeOK ==
    /\ limit \in Limits
    /\ point \in {"first", "second", "rest"}
    /\ first \in Seq(Byte)
    /\ buf \in Seq(Byte)
    /\ outcome \in {Reading, Broken, TooLarge, Ok(Held)}
    /\ point = "first" => first = <<>>
    /\ point # "rest" => buf = <<>>

(* A reader that reads on holds no more than the limit allows: memory is     *)
(* bounded by the limit and one chunk, at whichever of the three reads the   *)
(* body grew, and an accepted body is within the limit.                      *)
WithinLimit ==
    outcome \notin {TooLarge, Broken} /\ limit # NoLimit => Len(Held) <= limit

(* The three-stage loop is the plain reader of BodyReader, in which the      *)
(* bytes received are the bytes held: no chunk is dropped, repeated or       *)
(* reordered when the reader goes from the kept chunk to the buffer, and the *)
(* limit is checked after every chunk.                                       *)
Reader == INSTANCE BodyReader WITH received <- Held

ReaderImplemented == Reader!Spec

(* A body that never ends is refused under a limit: no server thread reads   *)
(* an endless upload for ever.                                               *)
EndlessRefused == limit # NoLimit ~> outcome # Reading
=============================================================================
