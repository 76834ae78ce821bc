----------------------------- MODULE Generator -----------------------------
(***************************************************************************)
(* The files conjure-codegen writes (create_modules, ModuleTrie and        *)
(* write_cargo_toml of lib.rs; module_path and type_path of context.rs):   *)
(* what TypeLayout emits for a definition is put into a tree of modules    *)
(* under its package, less a prefix, and the tree is written with a root   *)
(* file in each directory that declares the modules and exports the types. *)
(*                                                                         *)
(* A definition refers to another by a path of supers and modules that is  *)
(* computed from the packages alone; rustc follows it through the tree.    *)
(***************************************************************************)
EXTENDS TypeLayout

CONSTANTS
  Services,        \* the services defined by the IR
  LayoutsOf(_)     \* where an IR file's definitions are, and the Config

VARIABLES
  layout,     \* the packages of the IR and the Config
  trie,       \* ModuleTrie: what is in the module at each path
  files,      \* what is written to each path
  manifest    \* the dependencies in Cargo.toml

generatorVars == <<layout, trie, files, manifest>>

Definitions == Names \cup Errors \cup Services

\* The module of the constants is not named by a definition.
Constants == "constants"

(***************************************************************************)
(* Packages and names are given as the identifiers that ident_name makes of*)
(* them, which is never the keyword mod.                                   *)
(***************************************************************************)
ASSUME ServicesAssumption ==
  /\ Services \cap (Names \cup Errors) = {}
  /\ Constants \notin Definitions

ASSUME LayoutsAssumption ==
  \A input \in Inputs :
    \A placed \in LayoutsOf([types |-> input.types, errors |-> input.errors]) :
      /\ placed.package \in [Definitions -> Seq(STRING)]
      /\ placed.strip \in Seq(STRING)
      /\ placed.module \in [Definitions -> STRING] /\ \A d \in Definitions : placed.module[d] # "mod"
      /\ placed.uses \in [Services -> SUBSET Names]

Prefixes(path) == {SubSeq(path, 1, n) : n \in 0 .. Len(path)}
Drop(path, n) == SubSeq(path, n + 1, Len(path))

\* Context::module_path
ModulePath(d) ==
  LET raw == layout.package[d]
  IN IF layout.strip \in Prefixes(raw) THEN Drop(raw, Len(layout.strip)) ELSE raw

ModuleName(d) == IF d = Constants THEN Constants ELSE layout.module[d]

Shared(p, q) ==
  Cardinality({n \in 1 .. Len(p) : n <= Len(q) /\ SubSeq(p, 1, n) = SubSeq(q, 1, n)})

\* Mutant: no super out of the type's own module.
SupersMutantOwn(p, q) == Len(p) - Shared(p, q)

\* Context::type_path: one super out of this type's module, one for each part
\* of its path that the other does not share, and the rest of the other path.
Supers(p, q) == 1 + Len(p) - Shared(p, q)

TypePath(this, other) ==
  LET p == ModulePath(this) q == ModulePath(other)
  IN [supers |-> Supers(p, q), down |-> Drop(q, Shared(p, q))]

\* ModuleTrie::insert
Insert(d, path) ==
  trie' = [p \in DOMAIN trie \cup Prefixes(path) |->
             LET there == IF p \in DOMAIN trie THEN trie[p] ELSE <<>>
             IN IF p = path THEN Append(there, d) ELSE there]

Inserted == {d \in Definitions \cup {Constants} :
               \E p \in DOMAIN trie : \E i \in DOMAIN trie[p] : trie[p][i] = d}

\* write_cargo_toml
Dependencies ==
  (IF Names # {} \/ Errors # {} \/ Services # {} THEN {"conjure-object"} ELSE {})
  \cup (IF Errors # {} THEN {"conjure-error"} ELSE {})
  \cup (IF Services # {} THEN {"conjure-http"} ELSE {})

\* render: the types of a module in order, its submodules, then its root file.
RootFile(path) == IF path = <<>> /\ layout.crate THEN "lib" ELSE "mod"
Written(path) == {ModuleName(trie[path][i]) : i \in DOMAIN trie[path]} \cup {RootFile(path)}

Contents(path, file) ==
  IF file = RootFile(path) THEN "root"
  ELSE LET last == CHOOSE i \in DOMAIN trie[path] :
             /\ ModuleName(trie[path][i]) = file
             /\ \A j \in DOMAIN trie[path] : ModuleName(trie[path][j]) = file => j <= i
       IN trie[path][last]

----------------------------------------------------------------------------
GeneratorInit ==
  /\ Init
  /\ layout \in LayoutsOf([types |-> types, errors |-> errors])
  /\ trie = [path \in {<<>>} |-> <<>>]
  /\ files = <<>>
  /\ manifest = {}

GenerateType(n) ==
  /\ GenerateAlias(n) \/ GenerateEnum(n) \/ GenerateUnion(n) \/ GenerateObject(n)
  /\ Insert(n, ModulePath(n))
  /\ UNCHANGED <<layout, files, manifest>>

GenerateErrorType(e) ==
  /\ GenerateError(e)
  /\ Insert(e, ModulePath(e))
  /\ UNCHANGED <<layout, files, manifest>>

Dies(e) == GenerateErrorPanics(e) /\ UNCHANGED generatorVars

\* constants.rs; the module is there even when there are no constants.
GenerateConstants ==
  /\ ~panicked /\ Names \cup Errors \subseteq Inserted
  /\ Constants \notin Inserted
  /\ Insert(Constants, <<>>)
  /\ UNCHANGED <<vars, layout, files, manifest>>

\* The client and the server of a service go into one module.
GenerateService(s) ==
  /\ Constants \in Inserted
  /\ s \notin Inserted
  /\ Insert(s, ModulePath(s))
  /\ UNCHANGED <<vars, layout, files, manifest>>

Render ==
  /\ files = <<>>
  /\ Definitions \cup {Constants} \subseteq Inserted
  /\ files' = [f \in UNION {{<<p, file>> : file \in Written(p)} : p \in DOMAIN trie} |->
                 Contents(f[1], f[2])]
  /\ manifest' = IF layout.crate THEN Dependencies ELSE {}
  /\ UNCHANGED <<vars, layout, trie>>

GeneratorNext ==
  \/ \E n \in Names : GenerateType(n)
  \/ \E e \in Errors : GenerateErrorType(e) \/ Dies(e)
  \/ GenerateConstants
  \/ \E s \in Services : GenerateService(s)
  \/ Render

GeneratorSpec == GeneratorInit /\ [][GeneratorNext]_<<vars, generatorVars>>

----------------------------------------------------------------------------
(***************************************************************************)
(* What the generator does not check of an IR file.  Below one path no two *)
(* definitions have the same module, none has that of a package, and at    *)
(* the root none is called lib in a crate and nothing constants.           *)
(***************************************************************************)
At(d) == Append(ModulePath(d), ModuleName(d))

NamesApart ==
  LET packages == UNION {Prefixes(ModulePath(d)) : d \in Definitions}
  IN /\ \A d, e \in Definitions : At(d) = At(e) => d = e
     /\ \A d \in Definitions : At(d) \notin packages \cup {<<Constants>>}
     /\ <<Constants>> \notin packages
     /\ layout.crate => \A d \in Definitions : At(d) # <<"lib">>

\* The definitions that the code generated for one names.
Mentioned(parts) == {parts[i].base : i \in DOMAIN parts} \cap Names
Uses(d) ==
  CASE d \in Names -> Mentioned(types[d].parts)
    [] d \in Errors -> Mentioned(errors[d])
    [] d \in Services -> layout.uses[d]

\* What rustc makes of a path: the directory that it leads to.
Reaches(d, path) ==
  /\ path.supers <= Len(At(d))
  /\ LET up == SubSeq(At(d), 1, Len(At(d)) - path.supers)
     IN \A n \in 0 .. Len(path.down) : up \o SubSeq(path.down, 1, n) \in DOMAIN trie

Reached(d, path) == SubSeq(At(d), 1, Len(At(d)) - path.supers) \o path.down

\* The root file of a directory exports what is in the files beside it.
Exports(path, d) ==
  \E i \in DOMAIN trie[path] : trie[path][i] = d /\ files[<<path, ModuleName(d)>>] = d

(***************************************************************************)
(* What is written is whole: every definition's code is in a file of its   *)
(* own, every path by which one definition names another leads to the      *)
(* directory that exports it, whatever is stripped from the packages, and  *)
(* the manifest of a crate has the crates that its code uses.              *)
(***************************************************************************)
CrateIsWhole ==
  files # <<>> /\ NamesApart =>
    /\ \A d \in Definitions : Exports(ModulePath(d), d)
    /\ \A d \in Definitions : \A m \in Uses(d) :
         /\ Reaches(d, TypePath(d, m))
         /\ Exports(Reached(d, TypePath(d, m)), m)
    /\ layout.crate =>
         /\ DOMAIN emitted # {} \/ Services # {} => "conjure-object" \in manifest
         /\ DOMAIN emitted \cap Errors # {} => "conjure-error" \in manifest
         /\ Services # {} => "conjure-http" \in manifest
=============================================================================
