------------------------------ MODULE IrTypes ------------------------------
(***************************************************************************)
(* The types of the Conjure IR, src/conjure-codegen/src/types: what the    *)
(* generator reads (parse_ir of lib.rs) and itself was used to make        *)
(* (regenerate.sh), one file per definition.  constant_definition.rs was   *)
(* written by hand.                                                        *)
(***************************************************************************)
EXTENDS CheckedIn

alias_definition == Struct(<<Field("typeName", <<"box">>, "TypeName"),
    Field("alias", <<"box">>, "Type"),
    Field("docs", <<"optional">>, "Documentation"),
    Field("safety", <<"optional">>, "LogSafety")>>,
    {"typeName", "alias"}, {}, NoConstructor, {})
alias_definition_builder == Builder({"typeName", "alias"},
    {"typeName", "alias"}, {})
alias_definition_json == Json({"docs", "safety"}, {"typeName", "alias"})

argument_definition == Struct(<<Field("argName", <<>>, "ArgumentName"),
    Field("type", <<"box">>, "Type"),
    Field("paramType", <<"box">>, "ParameterType"),
    Field("safety", <<"optional">>, "LogSafety"),
    Field("docs", <<"optional">>, "Documentation"),
    Field("markers", <<"list">>, "Type"), Field("tags", <<"set">>, "string")>>,
    {"type", "paramType"}, {}, NoConstructor, {})
argument_definition_builder == Builder({"argName", "type", "paramType"},
    {"type", "paramType"}, {<<"markers", "push">>, <<"tags", "insert">>})
argument_definition_json == Json({"safety", "docs", "markers", "tags"},
    {"argName", "type", "paramType"})

argument_name == Alias(<<>>, "string", {"default"})

auth_type == Union(<<Field("header", <<>>, "HeaderAuthType"),
    Field("cookie", <<>>, "CookieAuthType")>>)
auth_type_json == Tagged(<<"header", "cookie">>)

body_parameter_type == Struct(<<>>, {}, {}, Constructor({}), {"copy"})
body_parameter_type_builder == Builder({}, {}, {})
body_parameter_type_json == Json({}, {})

conjure_definition == Struct(<<Field("version", <<>>, "integer"),
    Field("errors", <<"list">>, "ErrorDefinition"),
    Field("types", <<"list">>, "TypeDefinition"),
    Field("services", <<"list">>, "ServiceDefinition"),
    Field("extensions", <<"map">>, "any")>>,
    {}, {"version"}, NoConstructor, {})
conjure_definition_builder == Builder({"version"}, {},
    {<<"errors", "push">>, <<"types", "push">>, <<"services", "push">>, <<"extensions", "insert">>})
conjure_definition_json == Json(
    {"errors", "types", "services", "extensions"}, {"version"})

constant_definition == Struct(<<Field("typeName", <<"box">>, "TypeName"),
    Field("value", <<>>, "string"), Field("type", <<>>, "PrimitiveType"),
    Field("docs", <<"optional">>, "Documentation")>>,
    {"typeName"}, {}, Constructor({"typeName"}), {})
constant_definition_builder == Builder({"typeName", "value", "type"},
    {"typeName"}, {})
constant_definition_json == Json({"docs"}, {"typeName", "value", "constType"})

cookie_auth_type == Struct(<<Field("cookieName", <<>>, "string")>>,
    {}, {}, Constructor({}), {})
cookie_auth_type_builder == Builder({"cookieName"}, {}, {})
cookie_auth_type_json == Json({}, {"cookieName"})

documentation == Alias(<<>>, "string", {"default"})

endpoint_definition == Struct(<<Field("endpointName", <<>>, "EndpointName"),
    Field("httpMethod", <<>>, "HttpMethod"),
    Field("httpPath", <<>>, "HttpPath"),
    Field("auth", <<"optional", "box">>, "AuthType"),
    Field("args", <<"list">>, "ArgumentDefinition"),
    Field("returns", <<"optional", "box">>, "Type"),
    Field("docs", <<"optional">>, "Documentation"),
    Field("deprecated", <<"optional">>, "Documentation"),
    Field("markers", <<"list">>, "Type"), Field("tags", <<"set">>, "string")>>,
    {"auth", "returns"}, {}, NoConstructor, {})
endpoint_definition_builder == Builder(
    {"endpointName", "httpMethod", "httpPath"}, {"auth", "returns"},
    {<<"args", "push">>, <<"markers", "push">>, <<"tags", "insert">>})
endpoint_definition_json == Json(
    {"auth", "args", "returns", "docs", "deprecated", "markers", "tags"},
    {"endpointName", "httpMethod", "httpPath"})

endpoint_name == Alias(<<>>, "string", {"default"})

enum_definition == Struct(<<Field("typeName", <<"box">>, "TypeName"),
    Field("values", <<"list">>, "EnumValueDefinition"),
    Field("docs", <<"optional">>, "Documentation")>>,
    {"typeName"}, {}, Constructor({"typeName"}), {})
enum_definition_builder == Builder({"typeName"}, {"typeName"},
    {<<"values", "push">>})
enum_definition_json == Json({"values", "docs"}, {"typeName"})

enum_value_definition == Struct(<<Field("value", <<>>, "string"),
    Field("docs", <<"optional">>, "Documentation"),
    Field("deprecated", <<"optional">>, "Documentation")>>,
    {}, {}, Constructor({}), {})
enum_value_definition_builder == Builder({"value"}, {}, {})
enum_value_definition_json == Json({"docs", "deprecated"}, {"value"})

error_code == Enum(<<"PERMISSION_DENIED", "INVALID_ARGUMENT", "NOT_FOUND",
    "CONFLICT", "REQUEST_ENTITY_TOO_LARGE", "FAILED_PRECONDITION",
    "INTERNAL", "TIMEOUT", "CUSTOM_CLIENT", "CUSTOM_SERVER">>)

error_definition == Struct(<<Field("errorName", <<"box">>, "TypeName"),
    Field("docs", <<"optional">>, "Documentation"),
    Field("namespace", <<>>, "ErrorNamespace"),
    Field("code", <<>>, "ErrorCode"),
    Field("safeArgs", <<"list">>, "FieldDefinition"),
    Field("unsafeArgs", <<"list">>, "FieldDefinition")>>,
    {"errorName"}, {}, NoConstructor, {})
error_definition_builder == Builder({"errorName", "namespace", "code"},
    {"errorName"}, {<<"safeArgs", "push">>, <<"unsafeArgs", "push">>})
error_definition_json == Json({"docs", "safeArgs", "unsafeArgs"},
    {"errorName", "namespace", "code"})

error_namespace == Alias(<<>>, "string", {"default"})

external_reference == Struct(<<
    Field("externalReference", <<"box">>, "TypeName"),
    Field("fallback", <<"box">>, "Type")>>,
    {"externalReference", "fallback"}, {},
    Constructor({"externalReference", "fallback"}), {})
external_reference_builder == Builder({"externalReference", "fallback"},
    {"externalReference", "fallback"}, {})
external_reference_json == Json({}, {"externalReference", "fallback"})

field_definition == Struct(<<Field("fieldName", <<>>, "FieldName"),
    Field("type", <<"box">>, "Type"),
    Field("docs", <<"optional">>, "Documentation"),
    Field("deprecated", <<"optional">>, "Documentation"),
    Field("safety", <<"optional">>, "LogSafety")>>,
    {"type"}, {}, NoConstructor, {})
field_definition_builder == Builder({"fieldName", "type"}, {"type"}, {})
field_definition_json == Json({"docs", "deprecated", "safety"},
    {"fieldName", "type"})

field_name == Alias(<<>>, "string", {"default"})

header_auth_type == Struct(<<>>, {}, {}, Constructor({}), {"copy"})
header_auth_type_builder == Builder({}, {}, {})
header_auth_type_json == Json({}, {})

header_parameter_type == Struct(<<Field("paramId", <<>>, "ParameterId")>>,
    {}, {}, Constructor({}), {})
header_parameter_type_builder == Builder({"paramId"}, {}, {})
header_parameter_type_json == Json({}, {"paramId"})

http_method == Enum(<<"GET", "POST", "PUT", "DELETE">>)

http_path == Alias(<<>>, "string", {"default"})

list_type == Struct(<<Field("itemType", <<"box">>, "Type")>>,
    {"itemType"}, {}, Constructor({"itemType"}), {})
list_type_builder == Builder({"itemType"}, {"itemType"}, {})
list_type_json == Json({}, {"itemType"})

log_safety == Enum(<<"SAFE", "UNSAFE", "DO_NOT_LOG">>)

map_type == Struct(<<Field("keyType", <<"box">>, "Type"),
    Field("valueType", <<"box">>, "Type")>>,
    {"keyType", "valueType"}, {}, Constructor({"keyType", "valueType"}), {})
map_type_builder == Builder({"keyType", "valueType"},
    {"keyType", "valueType"}, {})
map_type_json == Json({}, {"keyType", "valueType"})

object_definition == Struct(<<Field("typeName", <<"box">>, "TypeName"),
    Field("fields", <<"list">>, "FieldDefinition"),
    Field("docs", <<"optional">>, "Documentation")>>,
    {"typeName"}, {}, Constructor({"typeName"}), {})
object_definition_builder == Builder({"typeName"}, {"typeName"},
    {<<"fields", "push">>})
object_definition_json == Json({"fields", "docs"}, {"typeName"})

optional_type == Struct(<<Field("itemType", <<"box">>, "Type")>>,
    {"itemType"}, {}, Constructor({"itemType"}), {})
optional_type_builder == Builder({"itemType"}, {"itemType"}, {})
optional_type_json == Json({}, {"itemType"})

parameter_id == Alias(<<>>, "string", {"default"})

parameter_type == Union(<<Field("body", <<>>, "BodyParameterType"),
    Field("header", <<>>, "HeaderParameterType"),
    Field("path", <<>>, "PathParameterType"),
    Field("query", <<>>, "QueryParameterType")>>)
parameter_type_json == Tagged(<<"body", "header", "path", "query">>)

path_parameter_type == Struct(<<>>, {}, {}, Constructor({}), {"copy"})
path_parameter_type_builder == Builder({}, {}, {})
path_parameter_type_json == Json({}, {})

primitive_type == Enum(<<"STRING", "DATETIME", "INTEGER", "DOUBLE",
    "SAFELONG", "BINARY", "ANY", "BOOLEAN", "UUID", "RID", "BEARERTOKEN">>)

query_parameter_type == Struct(<<Field("paramId", <<>>, "ParameterId")>>,
    {}, {}, Constructor({}), {})
query_parameter_type_builder == Builder({"paramId"}, {}, {})
query_parameter_type_json == Json({}, {"paramId"})

service_definition == Struct(<<Field("serviceName", <<"box">>, "TypeName"),
    Field("endpoints", <<"list">>, "EndpointDefinition"),
    Field("docs", <<"optional">>, "Documentation")>>,
    {"serviceName"}, {}, Constructor({"serviceName"}), {})
service_definition_builder == Builder({"serviceName"}, {"serviceName"},
    {<<"endpoints", "push">>})
service_definition_json == Json({"endpoints", "docs"}, {"serviceName"})

set_type == Struct(<<Field("itemType", <<"box">>, "Type")>>,
    {"itemType"}, {}, Constructor({"itemType"}), {})
set_type_builder == Builder({"itemType"}, {"itemType"}, {})
set_type_json == Json({}, {"itemType"})

type_ == Union(<<Field("primitive", <<>>, "PrimitiveType"),
    Field("optional", <<>>, "OptionalType"), Field("list", <<>>, "ListType"),
    Field("set", <<>>, "SetType"), Field("map", <<>>, "MapType"),
    Field("reference", <<>>, "TypeName"),
    Field("external", <<>>, "ExternalReference")>>)
type__json == Tagged(<<"primitive", "optional", "list", "set", "map",
    "reference", "external">>)

type_definition == Union(<<Field("alias", <<>>, "AliasDefinition"),
    Field("enum", <<>>, "EnumDefinition"),
    Field("object", <<>>, "ObjectDefinition"),
    Field("union", <<>>, "UnionDefinition"),
    Field("constant", <<>>, "ConstantDefinition")>>)
type_definition_json == Tagged(<<"alias", "enum", "object", "union",
    "constant">>)

type_name == Struct(<<Field("name", <<>>, "string"),
    Field("package", <<>>, "string")>>,
    {}, {}, Constructor({}), {})
type_name_builder == Builder({"name", "package"}, {}, {})
type_name_json == Json({}, {"name", "package"})

union_definition == Struct(<<Field("typeName", <<"box">>, "TypeName"),
    Field("union", <<"list">>, "FieldDefinition"),
    Field("docs", <<"optional">>, "Documentation")>>,
    {"typeName"}, {}, Constructor({"typeName"}), {})
union_definition_builder == Builder({"typeName"}, {"typeName"},
    {<<"union", "push">>})
union_definition_json == Json({"union", "docs"}, {"typeName"})

----------------------------------------------------------------------------
IrFiles == [AliasDefinition |-> alias_definition,
    ArgumentDefinition |-> argument_definition,
    ArgumentName |-> argument_name, AuthType |-> auth_type,
    BodyParameterType |-> body_parameter_type,
    ConjureDefinition |-> conjure_definition,
    ConstantDefinition |-> constant_definition,
    CookieAuthType |-> cookie_auth_type, Documentation |-> documentation,
    EndpointDefinition |-> endpoint_definition,
    EndpointName |-> endpoint_name, EnumDefinition |-> enum_definition,
    EnumValueDefinition |-> enum_value_definition, ErrorCode |-> error_code,
    ErrorDefinition |-> error_definition, ErrorNamespace |-> error_namespace,
    ExternalReference |-> external_reference,
    FieldDefinition |-> field_definition, FieldName |-> field_name,
    HeaderAuthType |-> header_auth_type,
    HeaderParameterType |-> header_parameter_type,
    HttpMethod |-> http_method, HttpPath |-> http_path,
    ListType |-> list_type, LogSafety |-> log_safety, MapType |-> map_type,
    ObjectDefinition |-> object_definition, OptionalType |-> optional_type,
    ParameterId |-> parameter_id, ParameterType |-> parameter_type,
    PathParameterType |-> path_parameter_type,
    PrimitiveType |-> primitive_type,
    QueryParameterType |-> query_parameter_type,
    ServiceDefinition |-> service_definition, SetType |-> set_type,
    Type |-> type_, TypeDefinition |-> type_definition,
    TypeName |-> type_name, UnionDefinition |-> union_definition]

IrBuilders == [AliasDefinition |-> alias_definition_builder,
    ArgumentDefinition |-> argument_definition_builder,
    BodyParameterType |-> body_parameter_type_builder,
    ConjureDefinition |-> conjure_definition_builder,
    ConstantDefinition |-> constant_definition_builder,
    CookieAuthType |-> cookie_auth_type_builder,
    EndpointDefinition |-> endpoint_definition_builder,
    EnumDefinition |-> enum_definition_builder,
    EnumValueDefinition |-> enum_value_definition_builder,
    ErrorDefinition |-> error_definition_builder,
    ExternalReference |-> external_reference_builder,
    FieldDefinition |-> field_definition_builder,
    HeaderAuthType |-> header_auth_type_builder,
    HeaderParameterType |-> header_parameter_type_builder,
    ListType |-> list_type_builder, MapType |-> map_type_builder,
    ObjectDefinition |-> object_definition_builder,
    OptionalType |-> optional_type_builder,
    PathParameterType |-> path_parameter_type_builder,
    QueryParameterType |-> query_parameter_type_builder,
    ServiceDefinition |-> service_definition_builder,
    SetType |-> set_type_builder, TypeName |-> type_name_builder,
    UnionDefinition |-> union_definition_builder]

IrJsons == [AliasDefinition |-> alias_definition_json,
    ArgumentDefinition |-> argument_definition_json,
    BodyParameterType |-> body_parameter_type_json,
    ConjureDefinition |-> conjure_definition_json,
    ConstantDefinition |-> constant_definition_json,
    CookieAuthType |-> cookie_auth_type_json,
    EndpointDefinition |-> endpoint_definition_json,
    EnumDefinition |-> enum_definition_json,
    EnumValueDefinition |-> enum_value_definition_json,
    ErrorDefinition |-> error_definition_json,
    ExternalReference |-> external_reference_json,
    FieldDefinition |-> field_definition_json,
    HeaderAuthType |-> header_auth_type_json,
    HeaderParameterType |-> header_parameter_type_json,
    ListType |-> list_type_json, MapType |-> map_type_json,
    ObjectDefinition |-> object_definition_json,
    OptionalType |-> optional_type_json,
    PathParameterType |-> path_parameter_type_json,
    QueryParameterType |-> query_parameter_type_json,
    ServiceDefinition |-> service_definition_json, SetType |-> set_type_json,
    TypeName |-> type_name_json, UnionDefinition |-> union_definition_json]

(* A union reads the same variants from its type as from the key of its value.*)
IrTags == [AuthType |-> auth_type_json,
    ParameterType |-> parameter_type_json, Type |-> type__json,
    TypeDefinition |-> type_definition_json]

ByHand == {"ConstantDefinition"}

(***************************************************************************)
(* The files that are not what the generator makes of their definitions:   *)
(* that have a Box, a dereference, a copy, a skipped field, a default or a *)
(* check for an unset field where context.rs, objects/ and unions.rs do    *)
(* not put one, or lack one.                                               *)
(***************************************************************************)
IsGenerated(T) ==
  /\ LayoutFits(IrFiles, T)
  /\ T \in DOMAIN IrBuilders => MembersFit(IrFiles, IrBuilders, IrJsons, T)
  /\ T \in DOMAIN IrTags =>
       IrTags[T] = [i \in DOMAIN IrFiles[T].fields |-> IrFiles[T].fields[i].name]

Edited == {T \in DOMAIN IrFiles \ ByHand : ~IsGenerated(T)}
=============================================================================
