------------------------------ MODULE MCErrors ------------------------------
(***************************************************************************)
(* The objects of the IR and of conjure-error are built by both builders;  *)
(* the errors among them, and one with an argument of each kind, are       *)
(* raised.                                                                 *)
(***************************************************************************)
EXTENDS Errors, TLC

Ir == INSTANCE IrTypes

Integer == [form |-> "integer", text |-> "1"]
String == [form |-> "string", text |-> "1"]
Object == [form |-> "map", text |-> ""]
Note == [form |-> "string", text |-> "note"]

\* The fields of a checked-in file: what its builder expects is required, what
\* it adds to is a collection.
FieldsOf(file, builder, items) ==
  [i \in DOMAIN file.fields |->
     LET name == file.fields[i].name
     IN [name |-> name, items |-> items,
         kind |-> CASE name \in builder.expected -> "required"
                    [] \E add \in builder.adds : add[1] = name -> "collection"
                    [] OTHER -> "optional"]]

Sample ==
  <<[name |-> "reason", kind |-> "required", items |-> {Integer}],
    [name |-> "detail", kind |-> "optional", items |-> {String, Object}],
    [name |-> "causes", kind |-> "collection", items |-> {String}]>>

\* An object with no required field, whose staged builder has one stage.
Settings ==
  <<[name |-> "mode", kind |-> "optional", items |-> {String, Object}],
    [name |-> "tags", kind |-> "collection", items |-> {String, Object}]>>

MCTypes ==
  [t \in DOMAIN Ir!IrBuilders |-> FieldsOf(Ir!IrFiles[t], Ir!IrBuilders[t], {Object})]
  @@ [t \in DOMAIN ErrorBuilders |-> FieldsOf(ErrorFiles[t], ErrorBuilders[t], {Integer, Object})]
  @@ [Sample |-> Sample, Settings |-> Settings]

MCErrorArgs ==
  Declared
  @@ [Sample |-> [code |-> "CustomClient", name |-> "Test:Sample", safe |-> {"reason", "causes"}]]

MCNotes == {Note}
MCNoteKeys == {"serviceDef", "detail", "note"}

(***************************************************************************)
(* Whatever object is built, by the builder that is checked in for it in   *)
(* conjure-codegen or conjure-error, its file and those of what it is made *)
(* of are what the generator makes of their definitions; the wire form of  *)
(* an error that is on its way is one, too.                                *)
(***************************************************************************)
CheckedInIsGenerated ==
  /\ type \in DOMAIN Ir!IrFiles => Ir!MadeOf(Ir!IrFiles, type) \cap Ir!Edited = {}
  /\ type \in DOMAIN ErrorFiles => MadeOf(ErrorFiles, type) \cap Edited = {}
  /\ hops > 0 => MadeOf(ErrorFiles, "SerializableError") \cap Edited = {}
=============================================================================
