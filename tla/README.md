# A TLA+ development of conjure-rust

conjure-rust is a code generator and a set of runtime libraries. The generator
(`conjure-codegen`) reads a Conjure IR file, a description of types, errors and
services, and writes Rust: data types, clients and server endpoints. The
libraries (`conjure-http`, `conjure-serde`, `conjure-object`, `conjure-error`)
are what that Rust calls. This directory holds TLA+ modules translated from the
source, TLC configurations that check them on small instances, and proofs that
TLAPS checks for every instance.

Nothing in the repository starts a thread, persists anything or opens a
connection. What is hard in it is of four other kinds:

1. **Answers that depend on what was asked before.** The generator memoises
   walks over recursive types and breaks cycles with provisional answers.
2. **Separately written functions that must agree**: where the declaration of a
   field puts a `Box`, and where its setter, constructor and accessor do; what
   the serializer may skip and what the deserializer insists on; what a client
   writes and what a server reads.
3. **Partial progress.** A body that arrives in chunks, or breaks off; a request
   that is refused after half of its arguments were recorded; a document read
   key by key, whose entries come repeated, unknown or in the other order.
4. **Other people's programs.** A generated client may talk to any server and a
   generated server to any client.

## The system's parts

| Component | State | Operations | Interacts with | What makes it correct |
|---|---|---|---|---|
| `Context` memo (`context.rs`) | three cells per type: double, Copy, log safety | `has_double`, `is_copy`, `is_safe_arg` | asked by objects, unions, aliases, servers | terminates; errs only towards "safe"; never changes an answer; exact off cycles |
| Layout of generated types (`context.rs`, `objects/`, `unions.rs`, `aliases.rs`, `errors.rs`) | definitions emitted so far | one generator per form | all read `Context` | finite size; setters, constructor, accessors fit the declaration; skipped fields have defaults; Copy is deep |
| Body reader (`conjure-http/private/mod.rs`) | kept chunk, buffer, limit | `read_body`, `async_read_body` | the body's stream; clients and servers | the body in order; the limit at every chunk; an endless body is refused |
| Client methods (`clients.rs`, `private/client/`) | none between calls | build a request, decode a response | server over the wire | a remote call is a local call |
| Server endpoints (`servers.rs`, `private/server.rs`, `safe_params.rs`) | arguments parsed, `SafeParams` | parse, authenticate, handle, encode | client, application handler | the handler gets what the request says; what is logged is truthful |
| Deserializers (`objects/deserialize.rs`, `unions.rs`, `unknown_fields_behavior.rs`) | a stack of visitors, the key at hand | `visit_map`, `next_key`, `next_value` | serde_json, serde_smile | round trip; the two deserializers differ only in unknown fields |
| Builders (`objects/builder/`) | the fields set so far; of a staged one, the stage | setters, `build`, `From`, `new` | application, errors | both kinds keep one promise; each stage has the fields its methods name |
| `Any` (`conjure-object/any/`) | the value kept, without its type | serialize into, deserialize out of | `SafeParams`, errors, unknown variants, documents | lossless over any number of hops; what it cannot tell it refuses |
| Errors (`conjure-error`) | kind, encoded error, safe and unsafe parameters | construct, encode, answer, propagate, add parameters | every fallible function | only what is declared safe is logged so; the error arrives as it was raised |
| Conversions (`conjure-serde/ser.rs`, `de/mod.rs`, `json/`, `smile/`) | whether a key or a value is at hand | the form of a double, a Boolean or bytes, as a value and as a key | serde_json, serde_smile, `Any` | what is written is read back as itself; nothing is read as something else |
| Scalars (`plain.rs`, `safe_long.rs`, `double_key.rs`, `DoubleOps`) | none | parse, format, compare | generated types, maps and sets | doubles and what holds them have one total order, with equality and hash to match |
| Macros (`conjure-macros`, `conjure-http/client.rs`, `server.rs`) | arguments and token parsed, `SafeParams` | the same calls from a trait, through encoders and decoders | clients and servers of either kind, application | the same promises as a generated client or server, and calls between the two kinds |
| Module tree, `Cargo.toml` (`lib.rs`, `cargo_toml.rs`) | the trie of modules, files | `insert`, `render`, paths between types | layout; file system | every path leads to what it names, every definition is exported |
| Checked-in output (`conjure-codegen/types/`, `conjure-error/types/`) | none | struct, builder, JSON | the generator reads the first, errors are made of the second | they are what the generator makes of their definitions |
| Command line (`main.rs`) | options | calls the generator | | not modelled |

## Modules

| Module | Models | State and actions |
|---|---|---|
| `TypeContext` | the memo tables of `Context` | `cache` is the memo, `stack` the Rust call stack of the walk made explicit, `decision` what callers were told. `Call`/`CallAnnotated` is a question, `VisitLeaf`, `VisitCached`, `Descend`, `Return` are the steps of the walk, `Answer` its end |
| `TypeLayout` | what is emitted for each definition | `emitted` records, per definition, the answers of the functions of `context.rs` for each field; one action per generator, `GenerateErrorPanics` where the code indexes a missing key |
| `BodyReader` | what a caller may rely on (abstract) | the bytes received and the answer |
| `ReadBody` | `read_body`, `async_read_body` | `first` and `buf` as in the code, `point` the call of `next()` it is at; `First`, `Second`, `Rest`, `End`, `Break` |
| `Wire` | texts, requests and responses | operators only |
| `ClientMethod`, `ServerEndpoint` | what a generated method and endpoint compute | operators only, one per helper of the source |
| `TraitClient`, `TraitEndpoint` | what a method and an endpoint made from a trait compute, with the stock encoders and decoders | operators only, over those of `ClientMethod` and `ServerEndpoint` |
| `LocalCall` | a call of a function (abstract) | handler's arguments, its value, the caller's answer |
| `Rpc` | a call from client method to endpoint and back | `pc` walks both programs; `parsed`, `token`, `safe` are the endpoint's variables; either side is made from the IR or from a trait; `ForeignRequest` and `ForeignAnswer` put another program at either end |
| `Deserialize` | the generated visitors over both deserializers | `stack` is the nest of running visitors; `NextKey` … `FinishObject` for objects, `FirstKey` … `FinishUnion` for unions; `ReadAgain` reads the same document with the client's deserializer |
| `Meanings` | what a document means as a whole (reference) | EXTENDS `Deserialize`; `Meaning` is a recursive function of a question: which deserializer, exhaustive or not, which type, which JSON |
| `Conversions` | a value on its way through JSON, Smile and `Any`, over `DoubleKey` | `form` is what it is at the moment, `item` the Rust value or serde's call that stands for it, `via` the formats it went through; `Capture` is `Any::new`, `Write` and `WriteAny` the serializers, `Keep` reads a document as an `Any`, `Read` reads it as its type |
| `Builder` | what a builder promises (abstract) | the slots and the last object |
| `GeneratedBuilder` | the fallible and the staged builder | `held` is the struct's fields, `stage` which struct it is; `NextStage` consumes a stage, `Assign` and `Extend` are the setters, `Build`, `BuildPanics`, `From`, `New` |
| `Errors` | an error from its object over several services | EXTENDS `GeneratedBuilder`; `error` is the `Error` at hand, `response` what is on the wire; `Service` raises, `With…Param` add, `Respond` and `Propagate` make a hop |
| `Generator` | `create_modules`, `ModuleTrie`, `write_cargo_toml` | EXTENDS `TypeLayout`; each of its actions also inserts into `trie`; `Render` writes `files` and `manifest` |
| `CheckedIn`, `IrTypes`, `ErrorTypes` | the generated files that are checked in | operators only: one fact record per struct, builder and JSON of each file, compared with `TypeLayout` |
| `DoubleOps`, `DoubleKey` | `DoubleOps` for `Option` and `Vec` over items of any type; for `f64`, and `DoubleKey` | operators only |
| `MC…` | small instances | constants |
| `…Proofs` | theorems | |

`Rpc` composes `ClientMethod`, `ServerEndpoint`, `TraitClient`, `TraitEndpoint`
and `Wire`, and has the reader of
`ReadBody` as the two steps at which a body may break off. `Errors` composes the
builders with what is made of their objects, `Generator` the layout of each
definition with its place among the others. `Mutant` operators
stand before the definition they alter: each is a plausible mistake that makes
the property named in `PROJECT.json` fail, so that no property holds emptily.

### Abstractions

* A type expression is a sequence of wrappers around a primitive or a name
  (`TypeLayout`), or the innermost of them (`TypeContext`): exactly what the
  functions modelled look at. An external reference stands for its fallback,
  which is what `context.rs` follows; log safety, which does not follow it, keeps
  a flag.
* Numbers stand for answers, ordered so that every walk's fold is a maximum;
  `None`, no annotation, lies between Safe and Unsafe, as `combine_safety` has it.
* The `any`, `all` and fold of the walks stop where the iterators do.
* A text is a value of a small set with classes (malformed, outside ASCII, with
  control characters, over the size limit); percent-encoding and Base64 are not
  written out.
* `Display` is what the text of a value is when a trait's client writes it. For
  most values that is its plain text. A datetime's is not, and is none that
  `FromPlain` reads, while `FromStr`, on the other side, reads both.
* A trait names its encoders and decoders. The model gives it the stock ones that
  fit the argument: `Display` and `FromStr`, their optional and sequence forms, and
  JSON; the application's own are any code at all.
* External code is modelled from how the source uses it, and nothing more is
  assumed of it: the calls that `bool`, `i32`, `f64`, `ByteBuf`, `String` and
  `uuid::Uuid` make of a serializer and take from a deserializer (a uuid asks
  `is_human_readable`, whose default is true); that serde_json and serde_smile
  refuse keys other than texts and integers. What is not known of serde_smile (its
  answer to a key, a text where bytes are asked for) is a choice of the model.
* A field of a builder is the set of what it holds: none or one item, or any
  number. Order and repetition within a list are left out, and a map is the set of
  its entries. Builders are not cloned; a clone is another behaviour.
* An argument of an error is what it captures as (`Any::new`) and the text that
  shows it, which is all that `StringSeed` asks.
* Of `f64` and the crate `ordered_float`, `DoubleKey` assumes that doubles have
  places in one order (`Rank`), in which the zeros share one and NaN has the
  highest, and nothing else.
* Packages and module names are identifiers already: the spelling that
  `ident_name` gives them is left out, their clashes are not.
* A checked-in file is stated as facts read off it: field types with their boxes,
  accessors that copy or dereference, what setters box and `build` expects, what is
  skipped and required. `constant_definition.rs` alone was written by hand, and is
  excepted.
* The two variants of everything, synchronous and asynchronous, are one program:
  the awaits stand where the actions end, and nothing else runs on the state.

## Runs

| Run | Instance and bounds | Shows |
|---|---|---|
| `type_context` | three names of up to two leaves, every form, cycles of length 1 to 3, two arguments, three analyses; every order and repetition of questions | memo properties below |
| `type_layout` | an object with two of 13 field types, an alias or union, a third definition of any form, an error: recursive through every combination; every order of emission; and one service. One of these files, whose definitions name each other, has every layout: packages of up to three parts, three prefixes to strip, a crate or not | layout and module properties below |
| `errors` | every object of the IR and of `conjure-error`, an error with an argument of each kind and an object without required fields; both builders, up to four fields set at a time (`MaxFilled`); two instance ids, two hops after the first (`MaxHops`), one parameter of each kind added per hop (`MaxNotes`), under names that clash with the arguments' | builder and error properties below |
| `read_body` | two byte values, chunks of 0 to 2 bytes, limits 0 to 4 and none; without a limit at most 5 bytes (`MaxBytes`) | the reader implements `BodyReader` |
| `rpc` | nine endpoints that have every place, shape and return type, six of them in all four pairings of IR and trait (a trait has no streams of bytes); seven texts, one or more per class, among them a datetime and its `Display` and an `any` that is no JSON; two or three short texts fill a URI (`MaxUri`, `UriBytes`) or are too many for it; foreign requests with up to 2 query pairs or header values (`MaxPairs`) | the call implements `LocalCall` |
| `deserialize` | an object of three fields, a union of two variants and an inner object; documents of up to three entries at the top; both settings of `exhaustive` | both deserializers against a declarative meaning |
| `conversions` | up to six values of each scalar type, the strings among them looking like values of the other types; alone, nested and as a key; every route of any length (no bound: the states are finitely many). Doubles with NaN, both zeros and an infinity, in optionals and lists of up to two, one in the other | a value survives its routes; doubles are keys |
| `stale_safety` | the names and arguments of `type_context`, one file: the two objects of the finding | disagreement, below |
| `map_doubles`, `error_objects`, `missing_query`, `smile_uuids` | the same instances | disagreements, below |

Why the bounds suffice: a stale memo entry needs a cycle, an entry point outside
it and a second question, hence three names and two arguments. A box goes wrong
between one definition and the one it refers to, with at most an alias between.
The reader has three stages, so bodies of four chunks pass through each of them
and twice through the last. A query parameter is absent, single or repeated. A
union has two entries, so three are one too many. A conversion looks at one value
of one type; two of a kind show whether they are kept apart. A setter looks at one
field and a stage at the number of required ones, of which the IR's own types have
zero to three. An error is raised by one service, propagated by the next and
propagated again by a third, after which nothing new happens. Lists of two items
have a common prefix, a first difference and a length. A path between modules has
parts that are shared, left and entered: three parts and a prefix show each.

`Busy`, the raising of throttling and unavailability, holds nothing of the object,
so it starts only from a builder that has built nothing.

`CHECK_DEADLOCK FALSE` is said where the program ends: a generator that has
emitted everything, a reader or call that has returned, a value that was refused.

### The properties

*Memo* (`TypeContext`). `NeverReentered`: the recursion is bounded. `Justified`:
an answer is never higher than the least solution, so "has a double", "not Copy"
and "do not log" are always true when they are given. `ExactUnlessStale`: the first
question to a fresh context is answered exactly even on cycles (`ColdExact`), and a
caller that reaches no cycle is answered exactly whatever was asked before
(`AcyclicExact`): an answer is too low only for the reason of `stale_safety` below.
`EduceCoversDoubles`: no field gets a `DoubleOps` attribute without the derive it
belongs to. `AnswersStable`: the same question is never answered differently,
on which `servers.rs` relies when it asks twice. `QuestionsAnswered`: every walk
ends.

*Layout* (`TypeLayout`). `FiniteSize`, `SettersFit`, `AccessorsFit`,
`SkippedIsDefaulted`, `CopyIsDeep`: the conditions under which rustc accepts what
is generated and serialization loses nothing.

*Modules* (`Generator`). `CrateIsWhole`: each definition's code is in a file of its
own, each path from one to another leads through the written modules to the
directory that exports it, and a crate's manifest has what the code uses. It is
subject to `NamesApart`, which the generator does not check: two types whose names
have the same module, a type and a package of one name, and anything called
`constants` at the root or `lib` in the root of a crate overwrite one another or
are declared twice; stripping a prefix from some packages can bring this about.

*Builders* (`GeneratedBuilder`). `BuilderPromise`: refinement of `Builder` by both
kinds. `StageFieldsFit`: the struct literals that three functions write have the
fields that a fourth declares.

*Errors* (`Errors`). `SafeIsDeclared`: what is among the safe parameters was put
there by the code at hand or is this service's own argument declared safe; nothing
from the wire is. `ErrorSurvives`: code, name, instance id and parameters, over
every hop, and a service error is never taken for throttling.
`CheckedInIsGenerated`: layout, builder and JSON of the checked-in file of whatever
object is built, and of the files it is made of, are what the generator makes of
their definitions; every file is among those, and the wire form of errors; the types that the generator reads IR with,
and errors are sent as, follow the rules that are verified here.

*Bodies* (`ReadBody`). `ReaderImplemented`: refinement of `BodyReader`.
`WithinLimit`: what is held while reading on is within the limit.
`EndlessRefused`: under a limit the loop ends.

*Calls* (`Rpc`). `RemoteIsLocal`: refinement of `LocalCall` between generated
peers, whatever each is made from. `OnlyKnownFailures`: between them a call fails
only for a broken connection, the handler's own error, a header outside ASCII or
with control characters, or a body over the server's limit; and from a trait's
client to an endpoint of the IR also for a datetime outside a body, and for a
default result: the endpoint answers 204 No Content for it, which a trait's decoder
refuses. Two more failures are of one end alone. All path and query arguments share
a URI, which the `http` crate limits to 65534 bytes; `UriBuilder::build`
(`uri_builder.rs:138`) unwraps its refusal, so a client of either kind panics. And
an `any` may hold what JSON has no form for, a map whose keys are sequences or maps:
a generated client (`private/client/mod.rs:65`) panics on such an argument and a
generated endpoint (`private/server.rs:396`) on such a result, where those of a
trait return an error. `OnlyKnownFailures` gives the reasons for each way to end: a
client panics only over its caller's own arguments, an endpoint only over its
handler's own result. `HandlerSeesTheRequest`:
whoever wrote the request. `SafeParamsTruthful`: also for requests refused
half-way. `AnswerIsTheResponse`: whoever wrote the response. `CallAnswered`.

*Documents* (`Deserialize`, `Meanings`). `RoundTrip`, `ModesAgree`,
`UnknownFieldIsThere`. `ReadsAsMeant`: what a deserializer returns is what the
document means, read all at once: an object's field is its last entry of that name,
a union is its type and the value under that name, in either order, and whatever
means nothing is refused.

*Values* (`Conversions`). `Lossless`: a value that is written, kept as an `any` by
programs that do not know its type, written again, and read in the end is itself,
from JSON to JSON, Smile to Smile and Smile to JSON. Two routes are excepted. What
JSON holds as a text and Smile does not (bytes, NaN and the infinities) stays a
text when an `any` that was read from JSON is written as Smile; and a `uuid` in
Smile is the finding below. `NeverMisread` says what happens on those: the value
is itself or refused, and only bytes, for which serde_bytes takes any text, come
back as something else.
`DoublesAreKeys`: what holds
doubles has a total order, the partial order the same one, equality its
equality, and equal hashes of what is equal. `TypeOK` holds what the two formats cannot: bytes or non-finite numbers in JSON, a
key that is not a text.

### Fairness

* `TypeContext`: weak fairness of the walk's steps. One thread runs it to its
  end; nothing obliges anybody to ask a question.
* `ReadBody`: weak fairness of `Pull`, the arrival of one more chunk. The stream
  need not end, and may end or break at any time; an empty chunk changes nothing,
  so the assumption is that a stream does not consist of empty chunks for ever.
* `Rpc`: weak fairness of the next step. Client and endpoint are straight-line
  programs; the handler and the transport are taken to answer, which the runtimes
  around the library see to.

## Where code and documentation disagree

* **`stale_safety`**: "temporarily treat it as safe" (`context.rs:1118`) is not
  temporary for the other members of a recursive group: they keep the answer
  computed from it. Object A has a B and a bearer token, object B an A; an argument
  of type A is asked first, which memoises B as Safe, and then an argument of type B
  is put into `SafeParams`.
* **`map_doubles`**: "All generated types implement `Ord`, `Eq`, and `Hash`"
  (`changelog/2.0.0/pr-203.v2.yml`), but a map with double values holds plain
  `f64`s that `is_double` (`context.rs:843`) does not select.
* **`error_objects`**: an error is generated "as if it were a Conjure object"
  (`lib.rs:182`), but an argument of an object type makes `ref_boxed_rust_type`
  (`context.rs:371`) look the error's name up among the types, which panics.
* **`missing_query`**: `parse_query_param` (`private/server.rs:100`) panics on the
  absent parameter that its own error message is for.
* **`smile_uuids`**: Smile documents are not "for people" (`smile/ser.rs:80`), but
  the serializer around every nested value (`ser.rs:262`) does not pass that on,
  while the deserializer's (`de/mod.rs:343`) does: a nested uuid is written as its
  text and read as bytes, which refuses the document.

## Proofs

All theorems are of the specification, for every value of the constants that
satisfies the modules' assumptions: finitely many names, the names of types and
errors apart from each other and from primitives, wrappers and forms, error codes
those of `ErrorCode`, and IR files that the Conjure compiler accepts (no alias leads back
to itself, no optional of an optional); definitions in packages of any depth, with
services apart from types and no module called `mod` (`ident_name` escapes it);
objects and unions whose members have types of the file; of the values that are
written, that they are finite (a `Height` falls from each to what it holds) and that
no variant is called `type`, which would be two entries of one key, or `null`, which
is how the model spells JSON's null; of the JSON that documents are made of, that it
is finite too (a `Depth` falls from each map to what is in it) and that what is
written is among it; endpoints of any arguments
that travel where the IR lets them, with at most one body, and a `Display` that tells
values apart and writes printable ASCII where it does not write the text as it was;
any number of bytes per text in a URI, which has no room for a text that is over the
limit of a body.

* `TypeContextProofs!TypeCorrect`. The only difficulty is that answers stay in
  their range through `Combine`.
* `TypeContextProofs!OneSidedSound` (`Justified`). A frame's accumulated answer
  depends on a memo that holds provisional answers, so `Justified` is not
  inductive. The invariant `JInv` adds: each frame but the top waits at a
  reference to the frame above it (`Chain`), and each frame's accumulator is
  below every bound of what it has visited (`StackBelow`). A bound is any
  assignment closed under the definitions; that the provisional 0 is below every
  bound is what makes the cycle-breaking sound in this direction.
* `TypeContextProofs!RecursionBounded` (`NeverReentered`). For the two analyses
  with provisional answers, an entered name is one with a memo entry; for
  `is_copy`, which has none, the heights of `AliasesGrounded` fall along the
  stack. The invariant `NInv` has both.
* `TypeContextProofs!ExactAlmostAlways` (`ExactUnlessStale`) and
  `DoublesAreDerived` (`EduceCoversDoubles`). The lower bound that `Justified` has
  not: an answer leaves nothing out. The invariant `XInv` calls an entry final once
  the call that made it has returned. A final entry, and what a call has
  accumulated, is at least the rank of every leaf visited and the entry of every
  reference that leads to no cycle, and that entry is final. It is final because
  what is entered from a grounded name lies at ever lower heights
  (`AcyclicIsExact`). On a cycle provisional entries are read as well; in a cold
  walk no entry is higher than what some call on the stack has accumulated, so the
  outermost call accounts for all of them (`ColdIsExact`).
* `TypeContextProofs!AnswersNeverChange` (`AnswersStable`). The invariant `SInv`:
  each answer, and what the outermost call has accumulated, is a fold of ranks that
  are final. Two folds over the same leaves would have to part at a first step, and
  there they read the same entry (`FoldsAgree`).
* `GeneratorProofs!GeneratedTypesAreFinite` (`FiniteSize`). The invariant `LInv`
  says that what is emitted is what the definitions say. Call a name heavy if
  `needs_box` is true of it; `Named`, the least set closed under the recursion
  through aliases, is characterised by `NamedClosed` and `NamedJustified` first.
  `Held` says what a type can hold by value: an alias its target, an object only
  what is not heavy, a union that or an object. In a loop of types that hold each
  other, `NoLoop` finds one that holds none of the loop: the lowest alias that is
  not heavy, which holds only lower ones of its kind; or an object; or, without
  objects, a union; or the lowest of nothing but aliases.
  The other layout properties need the invariant `EInv`, in which an emission is the
  one its definition calls for in every part, and what the questions answer on a type
  of a given shape: `SettersAlwaysFit`, `AccessorsAlwaysFit`,
  `SkippedIsAlwaysDefaulted` and `CopyIsAlwaysDeep`, each by the wrapper at which
  the walk stops. `LayoutTypeCorrect` is the type invariant.
* `GeneratorProofs!CratesAreWhole` (`CrateIsWhole`). The invariant `GInv`: the tree
  is closed under prefixes, a definition is in the module of its own path and
  nowhere else (`TrieOK`), what is in the tree has been emitted, and files are only
  written once everything is there, after which nothing is left to do (`FilesOK`).
  `SharedIs` shows that the number of shared parts, a count of common prefixes, is
  the length of the longest one; from it `PathLeads` has that supers and modules
  lead from one path to the other through directories of the tree. That the file of
  a definition holds it, and not a later one of the same name, is `NamesApart`
  (`FileHolds`). `WrittenTypesAreSound`: every step of the generator is one of
  `TypeLayout` or none, which carries the theorems of the layout over.
* `ErrorsProofs!StagesFit` (`StageFieldsFit`) and
  `BuildersKeepThePromise` (`BuilderPromise`): the required fields are numbered
  without a gap (`RankGrows`), so the setter of stage k leads to the fields of stage
  k + 1. The invariant `BInv` has `StageFieldsFit` and that what is held and built
  fits its kind; it is needed because a setter copies what the stage before held.
* `ErrorsProofs!OnlyDeclaredIsSafe` (`SafeIsDeclared`), `ErrorsSurvive`
  (`ErrorSurvives`), `ErrorTypeCorrect`, and `ErrorsKeepTheBuilders`, which carries
  the builders' theorems over. The invariant `WInv` says what an error with an id,
  or a response on the wire, is, whichever hop it is at: `ErrorSurvives` says
  nothing of a response. `ReadIsSent` shows that the body, which leaves out empty
  parameters, is read as it was.
* `DoubleOpsProofs!VecsAreOrdered`, `OptionsAreOrdered`: for items of any type and
  lists of any length. Two lists are told apart at their first difference; `First`
  exists because the indexes are well-founded, and the cases of transitivity are
  which of two first differences comes before the other.
  `ConversionsProofs!DoublesStayKeys` (`DoublesAreKeys`) instantiates them with
  doubles and with each other.
* `ReadBodyProofs!ReadsTheBody` (`ReaderImplemented`): step simulation under the
  refinement mapping `received <- Held`. `LimitHolds` (`WithinLimit`) and
  `TypeCorrect` are invariants of the same proof.
* `ConversionsProofs!SurvivesSupportedRoutes` (`Lossless`). `CInv` says what the
  item is in each form: the call of the type (`Raw`), that call after JSON
  (`InJson`, only if JSON is among the formats it went through), or the key. It is
  needed because `Lossless` says nothing of a value that is still a document.
  `Decodes` undoes Base64 from its injectivity, `Settled` shows that writing what
  was written changes nothing, `ReadsBack` that every reader finds the value.
  `RefusedRatherThanMisread` (`NeverMisread`) adds `PInv` for the excepted routes:
  a double or a uuid carries its own text or Base64 wherever it is, and the latter
  is no uuid.
  `DocumentsAreWellFormed` (`TypeOK`) is what a writer of JSON leaves: `TokensFit`
  looks at each call a type makes, `WritingFits` at what becomes of it.
* `RpcProofs!HandlersSeeTheRequest` (`HandlerSeesTheRequest`),
  `SafeParamsAreTruthful` (`SafeParamsTruthful`), `AnswersAreTheResponse`
  (`AnswerIsTheResponse`) and `RpcTypeCorrect`, for endpoints with any arguments and
  requests with any number of query pairs and header values. The properties speak of the moment when the handler is
  called, so the invariant `RInv` says what is true on the way: each argument
  parsed so far is one the request says (`ParsedSays`), the safe ones among them
  and no others are logged, in order (`Logged`), the token is there from its turn
  on (`TokenInTurn`), and nothing is there before its step (`NotYet`). `ParseSays`
  and `TraitParseSays` are about the parsers, argument by argument: that a set is
  what its texts spell needs `SetsHaveOrder`, by which a finite set of texts has
  one ascending sequence, and that `FromStr` reads two spellings of a value needs
  that `Display` is injective (`TextsDecoded`).

  `OnlyKnownFailuresHappen` (`OnlyKnownFailures`) and `CallsAreLocal`
  (`RemoteIsLocal`, the refinement of `LocalCall`) are about the two peers
  together. Neither says what is on the wire between them, so the invariant
  `Faithful` does: between generated peers, a request says the caller's own
  arguments, whatever has been parsed is the caller's value for that argument, and a
  response says the handler's result. `QueryArrives` is the heart of it: the query
  that a client writes argument by argument gives each parameter its own texts back,
  in order, whichever others are absent or empty (`Flattens`); `ReadBack` and
  `TraitReadsBack` then read each argument as it was sent, and `BadHeader` says which
  texts a header cannot carry. `BuiltTruly` says that a request which is built
  is the caller's and that one which is not has its reason, `Refused` the same of
  the errors that come later. `ParseReadsBack` and `ResultArrives` put these
  together for each step, and `StepsAreLocal` maps each to a step of the local call
  or a stutter.
* `DeserializeProofs!OnlyUnknownFieldsDiffer` (`ModesAgree`), `VisitorsBelong`
  (`TypeOK`) and `UnknownFieldNamesItsEntry` (`UnknownFieldIsThere`), for documents
  of any depth. `Reading` is a step as a function of the visitors and the
  deserializer, and `ActionsRead` shows that every action is this function.
  `ReadingGood` says what it preserves: that the visitors fit each other
  (`StackOK`), and that a value is only asked for after a key, where there is an
  entry. `SameUnless`: for the client it differs only where the server meets an
  unknown field. The agreement is between two runs, one after the other, so the
  invariant `FInv` remembers the first: there are states of the visitors, each the
  server's step from the one before, and the client is at one of them
  (`ClientFollows`).
* `DeserializeProofs!DocumentsReadAsMeant` (`ReadsAsMeant`), for every document. The
  meaning of a document is a recursive function (`MeaningIs`, as below), and each
  visitor answers one question of it: what the map it reads means as a value of its
  type (`Ask`). The property speaks of the outermost question when it is answered, so
  the invariant `MInv` says of every visitor how far its answer is (`Stands`): the
  entries before the one at hand have been read, each field held is what the last of
  them under its name means, and a union has the type, the value, or both, of the two
  entries in the order they came. A visitor that waits is at an entry that means what
  the map inside does (`WaitsFor`). With that there are three things to show: a value
  that is handed over is what the entry means (`HandStands`, `TookStands`); what
  means nothing makes everything around it mean nothing (`NothingAtHand`, and
  `RefuseStands` outwards from the innermost map), so the refusal is right however
  deep it happens; and at the end of the entries what has been gathered is the
  meaning of the map (`ObjectMeans`, `UnionMeans`). `ReadingStands` shows, question
  by question, that a step leads to one of these.
* `DeserializeProofs!WrittenIsReadBack` (`RoundTrip`), for values of any depth. What
  is written of a value is defined by recursion; that such a function exists is
  `Solution`: every value has a height, functions that are right below a height can
  be made right at it (`RightExists`), and any two agree there (`RightAgree`).
  `WrittenIs` and `KnownIs` are the equations, and `MeaningIs` that of the meaning,
  where documents take the part of values, and their depth that of the height. The property speaks of the end of the
  reading, so the invariant `WInv` says what is true on the way: there is a value
  for each visitor, the outermost one's is what was written and each other one's is
  the part at hand of the one before (`Inside`); and what a visitor has read and has
  left to read make up its value (`Fits`). `ReadingGoes` shows, question by
  question, that a step leads to such visitors again, returns the value, or refuses
  a variant that is unknown to an exhaustive union.

Only model-checked: the liveness properties (out of the prover's reach) and
`CheckedInIsGenerated`, a statement about given files.

## Not modelled, and why

The generated `example_types` (but for one error) and `example-api` are output of
the same functions for test definitions; of `types/` the facts above are stated, not
their derived methods. The command line, the formatting of `Cargo.toml` and HTTP
paths are text. Spelling of identifiers, documentation strings and tokens have no
state and no property worth the model. `SafeLong` and `Plain` are a bound check and
a text form per type. `RequestContext` and endpoint metadata hand data through.
Routing and the answering of errors are the runtimes', outside the repository; of
them `Errors` has what the error library is made for. Of traits, custom encoders and
decoders, path parameters of several components and the compile-time errors of the
macros are left out. An endpoint at the path `/` trips a debug assertion of
`push_literal` (`uri_builder.rs:71`); the literals of paths are not in the model.

Documents are of any depth here, while serde_json refuses JSON that is nested more
than 128 levels deep: up to there the theorems about documents say what the code
does, beyond it the code refuses. `Display` writes an infinite double as `inf`, which
is not its plain form, but which `FromStr` and `FromPlain` both read: the model has
one spelling for it. What else remains is in the plan.

## Plan

1. The compound forms of `Any`: its key and value protocol, maps whose keys become
   equal as texts, enum variants.
2. `is_display`, `is_plain` and `is_binary`, which choose encoders and impls with
   further walks over a definition, and `parse_const_value`.
3. The protocol of `WriteBody` and `reset` with a client that retries.

## Running

`tlc -workers 2 -config MCReadBody.cfg MCReadBody` checks a run, `tlapm
ReadBodyProofs.tla` a module of proofs. The slowest run, `type_context`, takes
about a minute and a half.
