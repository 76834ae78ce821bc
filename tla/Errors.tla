------------------------------- MODULE Errors -------------------------------
(***************************************************************************)
(* A Conjure error on its way through several services                     *)
(* (src/conjure-error/src): an object of an error type is built, raised as *)
(* an Error, encoded with every scalar parameter as a text, answered with  *)
(* its code's status, and raised again by the service that called.         *)
(*                                                                         *)
(* An Error keeps parameters for logs apart from the encoded error: safe   *)
(* ones, declared so by the type or added by the code at hand, and unsafe  *)
(* ones.  The wire does not say which is which.                            *)
(***************************************************************************)
EXTENDS GeneratedBuilder, ErrorTypes

CONSTANTS
  ErrorArgs,   \* the error types: code, name and safe arguments
  Ids,         \* instance ids (uuids)
  NoId,        \* the error type stores none
  Notes,       \* values for with_safe_param and with_unsafe_param
  NoteKeys,    \* names that code at hand adds parameters under
  MaxNotes,    \* bound: parameters added to an Error
  MaxHops      \* bound: services the error passes through

VARIABLES
  given,      \* the id that with_instance_id wrapped the object with, or NoId
  id,         \* the id the error was sent off with
  error,      \* Error.0 of the service at hand
  response,   \* what its server answers the caller with
  hops        \* the services that have the error behind them

errorVars == <<given, id, error, response, hops>>
vars == <<type, staged, stage, held, live, outcome, object, given, id, error, response, hops>>

\* ErrorCode
Codes == {"PermissionDenied", "InvalidArgument", "NotFound", "Conflict",
          "RequestEntityTooLarge", "FailedPrecondition", "Internal", "Timeout",
          "CustomClient", "CustomServer"}

ASSUME NoIdAssumption == NoId \notin Ids
ASSUME BoundsAssumption == MaxNotes \in Nat /\ MaxHops \in Nat
ASSUME ErrorArgsAssumption ==
  /\ DOMAIN ErrorArgs \subseteq DOMAIN Types
  /\ \A t \in DOMAIN ErrorArgs :
       /\ ErrorArgs[t].code \in Codes
       /\ ErrorArgs[t].safe \subseteq {Types[t][i].name : i \in DOMAIN Types[t]}

----------------------------------------------------------------------------
(***************************************************************************)
(* A value is what it captures as (Any::new) and the text that shows it.   *)
(***************************************************************************)
Text(value) == [form |-> "string", text |-> value.text]

\* StringSeed: a Boolean, a number or a text; not a null, bytes, a list or a
\* map.
IsScalar(value) == value.form \in {"bool", "integer", "double", "string"}

\* ParametersSerializer: the fields that Serialize writes.  A list or map that
\* is empty and a missing optional are skipped.
Written == {i \in Fields : object[i] # {}}

NameOf(i) == Types[type][i].name
Argument(k) == CHOOSE i \in Fields : NameOf(i) = k

EncodedFields ==
  {i \in Written : Kind(i) # "collection" /\ \A v \in object[i] : IsScalar(v)}

Parameters ==
  [k \in {NameOf(i) : i \in EncodedFields} |-> Text(CHOOSE v \in object[Argument(k)] : TRUE)]

\* encode
Encode(instance) ==
  [errorCode |-> ErrorArgs[type].code, errorName |-> ErrorArgs[type].name,
   errorInstanceId |-> instance, parameters |-> Parameters]

\* Mutant: a timeout is answered like an unavailable service.
StatusCodeMutantTimeout(code) == IF code \in {"Timeout", "CustomClient"} THEN 503 ELSE 500

\* ErrorCode::status_code
StatusCode(code) ==
  CASE code = "PermissionDenied" -> 403
    [] code \in {"InvalidArgument", "CustomClient"} -> 400
    [] code = "NotFound" -> 404
    [] code = "Conflict" -> 409
    [] code = "RequestEntityTooLarge" -> 413
    [] code \in {"FailedPrecondition", "Internal", "Timeout", "CustomServer"} -> 500

\* Serialize and Deserialize of SerializableError.
Skipped == serializable_error_json.skipped
Body(sent) ==
  [f \in {f \in DOMAIN sent : f \in Skipped => sent[f] # <<>>} |-> sent[f]]
Readable(body) == serializable_error_json.required \subseteq DOMAIN body
Read(body) ==
  [f \in DOMAIN body \cup Skipped |->
     IF f \in DOMAIN body THEN body[f] ELSE <<>>]

----------------------------------------------------------------------------
NoError == [kind |-> "none"]
NoResponse == [status |-> 0]
Raised == error.kind # "none"

Restricted(params, keys) == [k \in keys |-> params[k]]

\* Mutant: a propagated error is split like a local one.
PropagatedArgsMutantType == ErrorArgs[type].safe

SafeKeys(sent, safeArgs) == DOMAIN sent.parameters \cap safeArgs
PropagatedArgs == {}

\* Error::new
NewError(kind, causeSafe, sent, safe, unsafe) ==
  [kind |-> kind, causeSafe |-> causeSafe, sent |-> sent, safeParams |-> safe,
   unsafeParams |-> unsafe, backtraces |-> 1]

\* service_inner
ServiceInner(causeSafe, sent, safeArgs) ==
  LET safe == SafeKeys(sent, safeArgs)
  IN NewError("service", causeSafe, sent, Restricted(sent.parameters, safe),
              Restricted(sent.parameters, DOMAIN sent.parameters \ safe))

Init ==
  /\ BuilderInit
  /\ given = NoId
  /\ id = NoId
  /\ error = NoError
  /\ response = NoResponse
  /\ hops = 0

BuildObject ==
  /\ ~Raised
  /\ hops = 0
  /\ BuilderNext
  /\ UNCHANGED errorVars

\* ErrorType::with_instance_id
WithInstanceId ==
  /\ ~Raised
  /\ hops = 0
  /\ type \in DOMAIN ErrorArgs
  /\ outcome = "built"
  /\ given' \in Ids
  /\ UNCHANGED <<builderVars, id, error, response, hops>>

\* Error::service, service_safe (and internal, for the type Internal).
Service ==
  /\ ~Raised
  /\ hops = 0
  /\ type \in DOMAIN ErrorArgs
  /\ outcome = "built"
  /\ id' \in (IF given = NoId THEN Ids ELSE {given})
  /\ \E causeSafe \in BOOLEAN :
       error' = ServiceInner(causeSafe, Encode(id'), ErrorArgs[type].safe)
  /\ UNCHANGED <<builderVars, given, response, hops>>

\* Error::throttle, throttle_for and unavailable hold no parameters.  The code
\* that raises one has no use for an object: only a builder that has built
\* nothing goes on to it here, to explore it once.
Busy ==
  /\ ~Raised
  /\ hops = 0
  /\ type \in DOMAIN ErrorArgs
  /\ outcome = "none"
  /\ \E kind \in {"throttle", "unavailable"}, causeSafe \in BOOLEAN :
       error' = NewError(kind, causeSafe, <<>>, <<>>, <<>>)
  /\ UNCHANGED <<builderVars, given, id, response, hops>>

NotesOf(params) == Cardinality({k \in DOMAIN params : params[k] \in Notes})

Noted(params, k, value) == [j \in DOMAIN params \cup {k} |-> IF j = k THEN value ELSE params[j]]

WithSafeParam ==
  /\ Raised
  /\ NotesOf(error.safeParams) < MaxNotes
  /\ \E k \in NoteKeys, value \in Notes :
       error' = [error EXCEPT !.safeParams = Noted(@, k, value)]
  /\ UNCHANGED <<builderVars, given, id, response, hops>>

WithUnsafeParam ==
  /\ Raised
  /\ NotesOf(error.unsafeParams) < MaxNotes
  /\ \E k \in NoteKeys, value \in Notes :
       error' = [error EXCEPT !.unsafeParams = Noted(@, k, value)]
  /\ UNCHANGED <<builderVars, given, id, response, hops>>

WithBacktrace ==
  /\ Raised
  /\ error.backtraces < 2
  /\ error' = [error EXCEPT !.backtraces = @ + 1]
  /\ UNCHANGED <<builderVars, given, id, response, hops>>

\* The service's HTTP server, which is not in the repository, answers with the
\* status of the error's kind and the encoded error.
Respond ==
  /\ Raised
  /\ response' = CASE error.kind = "service" ->
                        [status |-> StatusCode(error.sent.errorCode), body |-> Body(error.sent)]
                   [] error.kind = "throttle" -> [status |-> 429]
                   [] error.kind = "unavailable" -> [status |-> 503]
  /\ error' = NoError
  /\ hops' = hops + 1
  /\ UNCHANGED <<builderVars, given, id>>

\* The caller's HTTP client, not in the repository either, raises what it was
\* answered: Error::propagated_service, propagated_service_safe.
Propagate ==
  /\ ~Raised
  /\ 0 < hops /\ hops <= MaxHops
  /\ \E causeSafe \in BOOLEAN :
       error' = CASE response.status = 429 -> NewError("throttle", causeSafe, <<>>, <<>>, <<>>)
                  [] response.status = 503 -> NewError("unavailable", causeSafe, <<>>, <<>>, <<>>)
                  [] response.status \notin {429, 503} /\ Readable(response.body) ->
                       ServiceInner(causeSafe, Read(response.body), PropagatedArgs)
                  [] OTHER -> NewError("unreadable", causeSafe, <<>>, <<>>, <<>>)
  /\ response' = NoResponse
  /\ UNCHANGED <<builderVars, given, id, hops>>

Next ==
  \/ BuildObject \/ WithInstanceId \/ Service \/ Busy
  \/ WithSafeParam \/ WithUnsafeParam \/ WithBacktrace
  \/ Respond \/ Propagate

Spec == Init /\ [][Next]_vars

----------------------------------------------------------------------------
ErrorKinds == {"none", "service", "throttle", "unavailable"}

TypeOK ==
  /\ BuilderTypeOK
  /\ given \in Ids \cup {NoId} /\ id \in Ids \cup {NoId}
  /\ error.kind \in ErrorKinds
  /\ hops \in 0 .. MaxHops + 1
  /\ Raised => error.backtraces \in 1 .. 2

(***************************************************************************)
(* No value that came over the wire, and no argument that is not declared  *)
(* safe, ever stands among the safe parameters of an Error, at any hop and *)
(* under whatever names code adds its own: what is there was put there by  *)
(* with_safe_param or is this service's own, safe argument.                *)
(***************************************************************************)
SafeIsDeclared ==
  Raised => \A k \in DOMAIN error.safeParams :
    \/ error.safeParams[k] \in Notes
    \/ /\ hops = 0
       /\ k \in ErrorArgs[type].safe
       /\ error.safeParams[k] = Parameters[k]

(***************************************************************************)
(* The error that a caller any number of hops away sees is the one that    *)
(* was raised: its code, name, instance id (the one it was given, if any)  *)
(* and every argument that has a text, and none that is not one.           *)
(***************************************************************************)
ErrorSurvives ==
  Raised /\ id # NoId =>
    /\ error.kind = "service"
    /\ error.sent = Encode(id)
    /\ given # NoId => id = given
=============================================================================
