----------------------------- MODULE ErrorTypes -----------------------------
(***************************************************************************)
(* The generated types of conjure-error (src/conjure-error/src/types): the *)
(* wire form of an error, its codes and the eight default errors.  With    *)
(* them an error with arguments, of the examples in conjure-codegen.       *)
(***************************************************************************)
EXTENDS CheckedIn

\* What an error's type adds to its struct: ErrorType::code, name, safe_args.
ErrorType(code, name, safe) == [code |-> code, name |-> name, safe |-> safe]

\* A default error has no arguments: an empty struct, that is Copy.
NoFields == Struct(<<>>, {}, {}, Constructor({}), {"copy"})
DefaultError(code, name) == [type |-> NoFields, error |-> ErrorType(code, name, {})]

conflict == DefaultError("Conflict", "Default:Conflict")
failed_precondition == DefaultError("FailedPrecondition", "Default:FailedPrecondition")
internal == DefaultError("Internal", "Default:Internal")
invalid_argument == DefaultError("InvalidArgument", "Default:InvalidArgument")
not_found == DefaultError("NotFound", "Default:NotFound")
permission_denied == DefaultError("PermissionDenied", "Default:PermissionDenied")
request_entity_too_large ==
  DefaultError("RequestEntityTooLarge", "Default:RequestEntityTooLarge")
timeout == DefaultError("Timeout", "Default:Timeout")

error_code == Enum(<<"PERMISSION_DENIED", "INVALID_ARGUMENT", "NOT_FOUND",
    "CONFLICT", "REQUEST_ENTITY_TOO_LARGE", "FAILED_PRECONDITION",
    "INTERNAL", "TIMEOUT", "CUSTOM_CLIENT", "CUSTOM_SERVER">>)

serializable_error == Struct(<<Field("errorCode", <<>>, "ErrorCode"),
    Field("errorName", <<>>, "string"),
    Field("errorInstanceId", <<>>, "integer"),
    Field("parameters", <<"map">>, "string")>>,
    {}, {"errorInstanceId"}, NoConstructor, {})
serializable_error_builder == Builder(
    {"errorCode", "errorName", "errorInstanceId"}, {}, {<<"parameters", "insert">>})
serializable_error_json == Json({"parameters"},
    {"errorCode", "errorName", "errorInstanceId"})

invalid_service_definition == Struct(<<Field("serviceName", <<>>, "string"),
    Field("serviceDef", <<>>, "any")>>, {}, {}, Constructor({}), {})
invalid_service_definition_builder == Builder({"serviceName", "serviceDef"}, {}, {})
invalid_service_definition_json == Json({}, {"serviceName", "serviceDef"})
invalid_service_definition_error ==
  ErrorType("InvalidArgument", "Conjure:InvalidServiceDefinition", {"serviceName"})

----------------------------------------------------------------------------
DefaultErrors == [
    Conflict |-> conflict, FailedPrecondition |-> failed_precondition,
    Internal |-> internal, InvalidArgument |-> invalid_argument,
    NotFound |-> not_found, PermissionDenied |-> permission_denied,
    RequestEntityTooLarge |-> request_entity_too_large, Timeout |-> timeout]

Runtime == [ErrorCode |-> error_code, SerializableError |-> serializable_error,
    InvalidServiceDefinition |-> invalid_service_definition]

ErrorFiles == [T \in DOMAIN Runtime \cup DOMAIN DefaultErrors |->
    IF T \in DOMAIN Runtime THEN Runtime[T] ELSE DefaultErrors[T].type]
ErrorBuilders == [T \in DOMAIN ErrorFiles \ {"ErrorCode"} |->
    CASE T = "SerializableError" -> serializable_error_builder
      [] T = "InvalidServiceDefinition" -> invalid_service_definition_builder
      [] OTHER -> Builder({}, {}, {})]
ErrorJsons == [T \in DOMAIN ErrorFiles \ {"ErrorCode"} |->
    CASE T = "SerializableError" -> serializable_error_json
      [] T = "InvalidServiceDefinition" -> invalid_service_definition_json
      [] OTHER -> Json({}, {})]

\* The types that implement conjure_error::ErrorType.
Declared == [T \in DOMAIN DefaultErrors \cup {"InvalidServiceDefinition"} |->
    IF T \in DOMAIN DefaultErrors THEN DefaultErrors[T].error
                                  ELSE invalid_service_definition_error]

(***************************************************************************)
(* The files of the types an error is made of and sent as that are not     *)
(* what the generator makes of their definitions: that were edited, or     *)
(* left behind when the generator changed.                                 *)
(***************************************************************************)
IsGenerated(T) ==
  /\ LayoutFits(ErrorFiles, T)
  /\ T \in DOMAIN ErrorBuilders => MembersFit(ErrorFiles, ErrorBuilders, ErrorJsons, T)

Edited == {T \in DOMAIN ErrorFiles : ~IsGenerated(T)}
=============================================================================
