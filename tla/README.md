# Verification project for SSaC

SSaC reads Go files whose functions carry comment tags (`@get`, `@put`,
`@response`, `@publish`, ...), validates the tags, and generates Gin handlers and
queue subscribers from them. `pkg/` holds the run-time packages the generated
code calls. This directory models the tool and the stateful packages in TLA+,
checks the models with TLC and proves part of what is checked with TLAPS.

## Inventory

| part | state | operations | module |
|---|---|---|---|
| `parser/parser.go` | the scanner's locals (`inResponse`, `responseLines`, ...) | `ParseFile`, `parseComments`, `parseLine`; `ParseDir` | `Parser`, `Project`; the result is `Ssac!ServiceFunc` |
| `parser/types.go` | none | the parsed form | `Ssac` |
| `validator/validator.go`, internal rules | `declared`, `mutated`, `getVars` while it walks one function | `validateFunc` | `Ssac` (`Accepted`, `StaleWarning`) |
| `validator/symbol.go` | the symbol table; each scanner's `currentTable`, `currentMethod`, ... | `LoadSymbolTable`, `LoadPackageInterfaces` | `Schema`, `Symbols` |
| `validator/validator.go`, cross checks | none | `ValidateWithSymbols` | `Project` |
| `generator/go_*.go`, handlers | `errDeclared`, `declaredVars`, `funcHasTotal`, `committed` | `generateHTTPFunc`, `generateSubscribeFunc`, `buildTemplateData`, templates | `Codegen` |
| the generated functions | a database transaction, result variables, the reply | the emitted statements | `Handler`, `ServiceCall` |
| `generator/generator.go`, `go_target.go`, `go_interface.go` | the output directory | `GenerateWith`, `GenerateModelInterfaces`, `GenerateHandlerStruct` | `Project` |
| `cmd/ssac` | none | `parse`, `validate`, `gen` | `Project` (`gen`), `Codegen!Reject` |
| `pkg/queue` | six package variables under one RWMutex | `Init`, `SetBackend`, `Subscribe`, `Publish`, `PublishTx`, `Start`, `Close` | `Queue` |
| `pkg/auth`, refresh tokens | the `RefreshStore` | `RefreshToken`, `CreateRefresh`, `RefreshRotate`, `Logout` | `Refresh` |
| `pkg/session`, `pkg/cache` | a map with expiries under an RWMutex | `Get`, `Set`, `Delete`, `Init` | `Store` |
| `pkg/pgtypex`, intervals | the scanner's accumulators | `FromPgInterval`, `ToPgInterval` | `Interval` |
| `pkg/authz`, the other packages, `v1/` | none of their own, or external | conversions and I/O | not modelled |

How they interact: the parser hands `ServiceFunc`s to the validator, which
accepts or stops the tool; the generator trusts what was accepted. The symbol
table is read by the cross checks, by the argument order of a call and by the
derived interfaces, three readers that have to agree. What the generator decides
becomes visible at compile time (is the Go legal? do calls fit the interfaces?)
and at run time (what is durable when the client is answered?). A generated
handler calls the models, `authz`, `queue.Publish`, `session`, `cache` and `auth`;
a generated subscriber is called by the queue.

What is hard: the generator's tracking has to agree with Go's scoping for every
order of tags; line scanners carry state from one line, statement or file to the
next; Go's maps are ranged over in no order, here and there sorted afterwards; a
handler can fail or die between any two statements; the queue's lifecycle calls
come from different goroutines and one read of a shared variable is outside the
mutex; a refresh rotation is several store calls, and tokens are equal when they
are signed in one second; a `Get` reads the map and the clock apart; integer
products wrap. `PROJECT.json` lists the hazards at their lines.

## Modules

**Parser.** A file is its comment lines and, for each declaration, how many lines
come before it. A line is what `parseLine` makes of it: text, a tag, `@response {`,
`}`, a dropped `@` line, a line with a bad input. `NextFunc` is the loop over the
declarations, the five line actions are the body of `parseComments`, `Filter` is the
loop that takes `@subscribe` out of the sequences, one of them a step, and
`EndOfFunc` appends the `ServiceFunc`. `Meaning` and `Yields` define the
expected result without a scanner, from the lines that are a function's own (those
after the declaration before it): a line is in a block if an open comes before
it with no close between. The code collects every comment before the function, so
`ParsesMeaning` speaks of the first function of a file, and `OwnComments`, which
asks the same of every function, is violated.

**Ssac.** The parsed function and the validator. A reference `course.ID` is its
root variable, since that is all the validator and the generator look at;
`members` are the references of a sequence that take a field, which is what can
panic when the code runs.
`ParsedSequence` says which fields each kind of line fills; `Accepted` is
`validateFunc` without an ERROR. The rules on texts (missing messages, topics,
forbidden names of struct fields) are abstracted to "present"; the cross checks
against a symbol table are in `Project`. The comment at `validator.go:282` says that `!`
suppresses the foreign-key guard; the code, its tests and the manual say it does
not, and the model follows the code.

**Codegen** (extends Ssac). `Reject` or `Prolog`, then one action for each kind of
template (`GenResult`, `GenExec`, `GenInline`, `GenGuard`, `GenResponse`), then
`Epilog`. The four tracking variables are the code's; `scope`, `reads` and
`faults` are the Go compiler's view of the statements emitted, and external.
A statement is its kind, the names it defines, the operator (`:=`, `=`, or either
inside an `if`) and the names it reads.

**Handler** (extends Codegen). A function that compiled is run: every call out may
fail, a single-row read may find nothing, a field of a nil result panics, and the
process may die between two statements. A field is taken in an input, in the
target of an `@empty` or `@exists` and in a response, which comes after the Commit.
The reserved sources (`request`, `currentUser`, ...) are never nil and are left out
of `Derefs` and `TargetNil`. The database is external: a transaction keeps its
writes in `pending` until `CommitTx`. `published` holds the messages that are out;
`queue.Publish` knows nothing of the transaction.

**ServiceCall.** The abstract promise of a handler: writes are stored all together
or not at all, an error means not at all, success means all, one answer.
`Handler!ImplementsServiceCall` is the refinement; a function with a response
before its last sequence, or with one that may panic after the Commit (it takes a
field of a row that nothing has tested), maps to a call that never begins.
`AllOrNothing` says what is left of the promise for the second: the writes are all
there and the client is told of an error.

**Queue.** One action for each section under the mutex, and one for the read of
`done` in `defer close(done)`, which has no lock. Contexts and channels are the
numbers of the Starts that made them. `crashed` is a panic. `Orderly` restricts
the application, not the package: it waits for its publishers before `Init` and
`Close`, starts a loop when no other loop and no `Close` is running, and closes
only once its `Start` is in the loop. Callbacks that call the queue again are not
modelled.

**Refresh.** The store's methods are atomic, as the memory store's mutex makes
them; a rotation is `VerifyToken`, a Consume, `Sign` and `Create`, with an error
possible at each; the error of the `RevokeAll` of a lockout is dropped, as in the
code. A token is its claims and its expiry second, because the JWT
carries nothing else and HS256 is deterministic. `Restart` empties the memory
store. `signed`, `resigned`, `spent`, `respent`, `logins` and `shut` are history.

**Schema.** `parseDDLTables` as a scanner of lines, one action for each branch of
its loop. A line is what SQL means by it together with the spelling on which the
scanner's branch depends: the letters it begins with (`begins`: the scanner has no
notion of a word), which of the letters of a key occur anywhere in it (`says`), `IF
NOT EXISTS`, `users (id)` or `users(id)`, a clause after it. `ddl` is the text read so far, and `Declared` reads
it without a scanner: operators of a text and a set of line numbers say what columns,
keys and indexes those lines declare, and `Body` which lines belong to a statement.
`Dialect` is the SQL the scanner is made for; its part `AsSpelled` says that a line
begins with the keyword of what it declares and no other line does. The lines are assumed to be lines of
SQL: a CREATE TABLE has a name, and a list of columns is a list.

**Symbols** (extends Schema). `LoadSymbolTable`: DDL, then sqlc queries, OpenAPI,
`model/*.go`, each over the entries before it; an error at any point leaves no
table. Then `LoadPackageInterfaces`, whose three passes over a package's files are
`Pass`, one `Declare` after the other. A sort by placeholder is a rank: a pair stands
at place n if n - 1 pairs come before it. A query name is its prefix and the rest, so that `stripModelPrefix`
is what it does and not a string operation.

**Project.** `ssac gen` from `ParseDir` to the last file, on a symbol table of the
shape `Symbols` builds: `ValidateWithSymbols` (on top of the rules of `Ssac`, taken
as satisfied), one output file per function, `models_gen.go` and, for callers of
the library, `handler.go`. A column or a Request struct found by ranging over a map
is any of the candidates, an order left to a map any order; `MayAccept` and
`MayReject` can therefore both hold. Names are constants: `KeyOrder`, `Snake`,
`TableOf`, `IdTable` and `Pascal` stand for the sort and for the case conversions,
`Reserved` and `Keywords` for the keys that `toLowerFirst` (the validator) and
`ToGoCamel` (the generator) make a Go keyword. A write that fails leaves the file as
it was or cut short. A sequence
of the project is known by its place, the indices of its function and of itself in
it; the usages that `collectModelUsages` lists are places in lexicographic order.

**Interval.** A duration is its components, a component its sign, digits and unit.
Go's division, negation and wrapping are spelled out; the widths and the units are
constants, so that TLC covers whole ranges of them and their ends. Powers of ten and
the reference sums are recursive functions, about which the proofs reason.

**Store.** Set and Delete are one section under the lock; Get is two steps, because
the clock is read after the unlock. `could` is what a Get in one step would have
returned at each moment since the read, `reset` whether the key was written since.

`Parser`, `Codegen`, `Symbols`, `Project`, `Queue`, `Refresh`, `Store` and
`Interval` do not refer to each other: in the code they meet only through the
functions and the data listed above. `MC*` modules hold the
instances, `*Proofs` modules the proofs. Each operator marked "Mutant" is a
plausible bug in the definition that follows it, and is used by no specification:
replacing the definition by it makes a property of a run fail.

## Runs

| run | shows |
|---|---|
| `parser` | every file of up to 4 lines over 11 kinds of line, and up to 2 declarations: `ParsesMeaning`, the first function has what its own comments mean, unclosed and nested blocks and errors included |
| `parser_own` | violation: the second function of a file begins with the sequences of the first, although `parser.go:108` says that comments are filtered per function |
| `symbols` | every mix of up to 5 DDL lines, query items, operations and declarations: `TablesDeclared`, `QueriesLoaded`, `ParamsPositional`, `PackageComplete` |
| `project` | one or two functions, in one or two files, against 73 symbol tables, failing at any step and with every map order: `KeptUnlessShadowed`, `ModelsGenComplete`, `CallsFit`, `Deterministic` |
| `codegen_assigns` | violation: without `Tracked`, an accepted function is generated with an `=` to an undeclared `err`, or a `:=` that introduces nothing |
| `handler` | the generator on every function of up to 3 sequences over an alphabet with each kind of tag and reference, HTTP and subscriber, with int64 and time.Time parameters in path and body, and on every accepted function of up to 4 over the kinds that matter to a call: `Compiles`, `CommitPlaced`; and what it wrote, failing and dying everywhere: `AllOrNothing`, `MessagesKept`, `OneReply`, `DurableBeforeReply`, `StaleExact`, `NilExact`, and the refinement of `ServiceCall` |
| `queue_orderly` | a server with a publisher, a loop and two shutdowns, orderly: `StartEndsNormally`, `CloseStopsLoop`, `AcceptedReachesAll`, `CloseReturns` |
| `queue_free` | two loops, a publisher, a shutdown and the set-up, calls in any order: `PublishHasBackend` |
| `queue_start_ends` | violation: a `Close` between a Start's registration and its `defer` makes it `close(nil)` |
| `refresh` | two concurrent requests, two logins, failures and restarts: `ReuseOnlyIfResigned`, `RevokedForever`, `SessionsBounded`, `LockoutBounded`, `JwtExpiresFirst` |
| `store` | two requests, two keys, a running clock and a lifetime that overflows: `GetAtomic` |
| `interval` | intervals over an 11-bit range of microseconds and a 5-bit range of months, and durations of up to three components: `RoundTrip`, `ReadsTotal` |

Why the bounds are enough. Parser: four lines hold an open, a nested open, a field
and a close, and the two declarations can lie anywhere between them. Codegen: the
tracking is decided by pairs (the statement that declares and the one that
assigns) and the third sequence reads or repairs; the proof lifts the bound.
Handler: read, guard, write, response is four. Symbols: an open table, a second
CREATE, a column, a close and an index; or a file, two headers with SQL between
them and a second file; or a struct, an interface and a function in every order.
Project: what is compared is always two usages, two files, two tables or two
inputs. Store: one Get against one writer, over expiry and renewal; the proof
lifts the bound. Interval: every microsecond of the scaled range, both ends and
both sides of a year of months; two overflowing components and a third that
brings the sum back. Queue: orderly, one loop at a time with two Closes, a
publisher and the set-up; free, two loops with one Close, a publisher and the set-up.
Between them they have every pair of calls that can meet; the two goroutines with a
loop are interchangeable and the free run uses that symmetry. Refresh: two ticks
to the second, four ticks and a lifetime of three make both equal and different
expiry seconds and an expiry between verifying and consuming; two requests are
the pairs that race. `queue_free` turns the deadlock check off since a panic ends
the process.

`Tracked`, the hypothesis of `Compiles`, names what the tracking does not cover,
and is the interesting part of the run: its conjuncts come from counterexamples.
Besides the one of `codegen_assigns`:
`collectUsedVars` counts the UserID and Role inputs of an `@auth`, which
`buildTemplateData` drops, so a result used only there is declared and never read;
`currentUser` counts as declared everywhere but is bound only for an `@auth` or an
input, and never in a subscriber. `OneReader`, the hypothesis of `StaleExact`, does
the same for the stale warning: an `@get` of the model into any other variable, and
the shorthand `@response var`, hide a stale row from `validateStaleResponse`. And
`Orderly` for the queue: two overlapping Starts can leave the channel a `Close`
waits on open for ever, because one of them reads `done` after the other replaced
it (`start.go:28`); and a Start that registers between a Close's snapshot and its
reset goes on running after it. `Subscribe` before `Init` panics on a nil map,
although `init_queue.go:12` lists it under `ErrNotInitialized`.

The properties of the other modules carry their limits in the same way. `Dialect`
(of `TablesDeclared`) excludes the SQL that the scanner misreads, `Plain` (of
`ParamsPositional`) the statements that bind a column twice or mix forms,
`SameUse`, `Orderable` and `Conventional` (of `CallsFit`) what neither validator
nor generator compares, and `Unambiguous` (of `Deterministic`) the schemas on which
map order shows. Each was needed: dropping it gives a counterexample.

Fairness (only in `Queue!FairSpec`): a goroutine inside `Publish`, `Start` or
`Close` goes on when it can, which the Go scheduler gives, and a backend's loop
returns once its context has ended, which `Starter` asks for. Nothing makes the
application call a function or cancel a context, so no call is assumed to come.

## Observed, without a run

What the counterexamples and the exceptions in the properties say about the code:

* A response that takes a field of a row which may be nil panics after the Commit:
  the writes stay and the client gets a 500. An `@empty` or `@exists` on a field of a
  row panics as any other use does.
* A row read from `request.*` without an `@empty` may be nil when the next sequence
  takes a field of it; `validateFKReferenceGuard` asks for a guard only after a
  foreign key. And that guard may be any later `@empty`, one behind the use or one on a
  field of the row too, so it does not prevent what `validator.go:282` says it is for.
  `NilExact` says exactly where a run panics.
* A message that is published between BeginTx and Commit is out at once and stays out
  when the writes are rolled back. `pkg/queue/README.md:128` says that fullend's code
  generator emits `PublishTx` there, and that a message and the writes are atomic; the
  template here emits `Publish` (`go_templates.go:86`), and nothing in the repository
  calls `PublishTx`. `MessagesKept` is the half of the promise that holds.
* A rotation within the second of the login signs the consumed token again, and
  `Create` makes its revoked row active; `ReuseOnlyIfResigned` has this as its
  exception. A rotation under way when a lockout happens creates its token after
  it; `LockoutBounded` bounds how many. If `RevokeAll` fails, nothing is locked out
  and nobody is told.
* DDL: a column `check_in` or `constraint_id` is dropped; `unique_code` is taken for a
  UNIQUE constraint and `primary_email` for a PRIMARY KEY, which it then empties;
  `is_unique`, a comment or the name of an index with these letters makes an index
  unique; `CREATE TABLE IF NOT EXISTS users` declares a table `IF`; a comment line of
  two words is a column `--`; a PRIMARY KEY or UNIQUE that begins with CONSTRAINT is
  dropped; `REFERENCES users (id)` and a clause after it garble the reference;
  `NUMERIC(10,2)` is a string.
* Two query files of one model: the later replaces the earlier. A Go interface of
  that name in `model/` replaces both, without cardinality and parameters.
* Two or more inputs beside the known parameters are in map order in the interface
  and sorted in the call. Only the first usage of a method makes its signature.
* A model used with a package prefix becomes a field of the Handler struct whose
  type `models_gen.go` does not declare. So does a model that `ToGoPascal` respells:
  `order_items.sql` makes the interface `Order_itemModel`, the field and the calls say
  `OrderItemModel`. Two models that it spells alike make one field twice.
* An input key `GO` passes the validator, whose `toLowerFirst` gives `gO`; `ToGoCamel`
  gives `go`, and gofmt refuses `models_gen.go` when the handlers are already written.
* A write that fails may leave a file cut short in place of an earlier one.
* With one column name of two types, or two structs for one call, the verdict of
  `ValidateWithSymbols` changes from run to run.
* All functions of one `.ssac` file are written to one Go file, the last one
  staying; so are files of one name in two subdirectories of a domain.
* A symbol table that fails to load is ignored without a message, and the project
  is generated without cross checks and interfaces.
* The CLI calls neither `LoadPackageInterfaces` nor `GenerateHandlerStruct`; they
  are for callers of the library.
* An interval of -2^63 microseconds is written with two signs and read as NULL; a
  duration whose total is out of range is accepted as another value.
* A `Get` that holds an entry which expires while another request renews it
  reports a miss, although the key was live throughout. A TTL whose product with a
  second overflows makes an entry that is expired at once.

## Proofs

Each theorem holds for every value of the constants, under the named assumptions
of the modules.

* `HandlerProofs`, the generator: `TypeCorrect`, and `GeneratedCompiles`: a function of any length
  on which the tracking is exact compiles. The inductive invariant `CompileInv`
  has four parts: `ScopeInv` (the scope is the prolog's names and the used results
  declared so far), `ErrInv` (how far `errDeclared` and the declaration of `err` may
  differ, and what will repair the difference), `TotalInv` (`funcHasTotal` is the
  declaration of `total`) and `ReadInv` (what the earlier statements read). Each
  action has its lemma. `Compiles` is not inductive: an `errDeclared` that differs
  from the scope is harmless until a later statement believes it. A second
  invariant, `LayoutInv`, says where each statement of the body stands while it is
  still being emitted (which sequence it came from, in which order, before or after
  the Commit); `CommitIsPlaced` follows from it, and so does all that the proofs
  about calls need to know of a body.
* `HandlerProofs`, the calls: `HandlerTypeCorrect`, `CallsAtomic`,
  `WritesHaveMessages`, `RepliesOnce`, `AnswersAfterCommit` and `HandlersImplementServiceCall`, for functions of any
  length, every failure and a crash between any two statements. The invariant
  `CallInv` relates what has run (the statements before `ip`) to the transaction
  (`TxInv`: what is pending is the writes executed since BeginTx, what is durable was
  pending at the Commit) and to the replies (`ReplyInv`). `AllOrNothing` is not
  inductive because it says nothing of `pending`, which a Commit makes durable. A
  panic in the response finds the transaction committed (`LayoutInv`: a response stands
  after the Commit), any other panic finds it open. `MessageInv` adds that the messages
  out are those executed, which at a Commit before the last response is all. The
  refinement maps a step to the abstract one by its effect on the outcome, the
  replies and what is durable. `PanicsExact` (`NilExact`) and `WarningExact`
  (`StaleExact`) go along the sequences: `Due(n)` says that sequence n is the next to
  run, and `NilInv` and the stale invariant state, for the sequence that is due,
  what the ones before it imply of every row variable: a statement that took a field
  of a row and did not panic has tested it as an `@empty` does.
* `QueueProofs`: `TypeCorrect`; `PublishSafe` from `TableInv` (an initialised queue
  has a backend, and a local copy taken then keeps it); `OrderlyStartEnds` and
  `OrderlyCloseStops`, for `Orderly`, from `LoopInv` (`done` is the channel of the
  one registered Start and is closed only by it); `OrderlyReachesAll`, for `Orderly`,
  from `DeliverInv`: what a Publish owes is in the handler table until it looks it
  up and in its own list after, and no Close runs beside it.
* `RefreshProofs`: `TypeCorrect`; `UsedOnce` and `RevokedStays` from `FreshInv` (a
  token signed once that waits for its Create has no row, and no other request
  waits for it); `JwtFirst` from `ExpiryInv` (the bracket of the expiry holds from
  the moment of signing, for every lifetime and clock resolution);
  `SessionsConserved` and `LockoutHolds` from `SessionInv`: a session is an active
  row or a request at work, both finite sets, and every step loses some, moves one
  from the first to the second or back, or is a login, which is counted.
* `StoreProofs`: `TypeCorrect` (a lifetime is in range for every TTL because its
  product wraps) and `GetsAtomic`, from `ReadInv`: while a Get is between its two
  reads, `could` holds what one step would give now, the value of its entry until
  that expires, and a miss if there was no entry; and the map still holds its entry
  unless the key was written since. `GetAtomic` alone says nothing of a Get
  before its second read.

* `ParserProofs`: `ScansCollected` (every function has exactly what the comments
  before it mean, read as one list) and `ParsesExactly` (the first function of a file
  has what its own comments mean, because nothing before them is a tag), for files of
  any number of lines and declarations. `ParserInv` has a part for the functions already parsed
  (`FuncsInv`), one for the scan (`ScanInv`: the sequences found are the meanings of
  the lines so far that yield one, in order, and the scanner is inside a block
  exactly if the lines say so) and one for the filter (`FilterInv`). `ParsesMeaning`
  speaks only of finished functions and is not inductive.
* `ProjectProofs`: `CodeIsKept`, from `OutputInv`: which function, interface file or
  handler file was written last to each output path; a failed write ends the run and
  touches only a file that was to be written (`FailureKeeps`). `InterfacesComplete`,
  `CallsMatch` and `OrderIsInvisible` come from `GenInv`: the lists stay lists, a
  generated project has passed the definite checks, and every declared signature is
  one that the first usage of its method may give. From there they are about
  operators; a keyword that the generator would print is one that the validator has
  refused, where the two tests agree. The least of the places of a method exists because the naturals are
  well-founded; `Keep`, a filter, is a recursive function, and its laws (it selects
  exactly a set, keeps a list without repetition so, distributes over concatenation
  and composes) are proved by induction on the length; an order of a finite set
  names each element because an injection between sets of one size is onto. The
  assumptions are that what Go holds in slices are sequences, that `KeyOrder` has
  every input key once, that columns have Go types, and what the parser ensures of a
  sequence (its type, and no wrapper on @put and @delete).
* `IntervalProofs`: `IntervalRoundTrip` and `IntervalReadsTotal`, for every pair of
  widths, every choice of units, every interval and durations of any
  number of components. `IntervalInv` says that after n components an accumulator
  is the exact sum of what they are worth, reduced to its width; the arithmetic
  lemmas show that wrapping is a normal form of congruence, so that products and
  sums may overflow on the way. That every sequence of integers has its sums, that
  `Pow10` is a function and that a fraction has a last digit that is not zero need
  induction; it is proved here once, in the form "a set of naturals that holds 0 and
  with k also k + 1 holds every natural", from the well-foundedness of the
  naturals, with a set in place of the predicate the provers cannot instantiate.
  For the round trip, `FormatFacts` shows that the three components of a date and
  of a time are read back and add up to what was split. The first component of
  -W64 microseconds has two signs and is refused.

* `SymbolsProofs`: `TablesAreDeclared`, `QueriesAreLoaded`, `ParamsArePositional` and
  `PackagesAreComplete`, for texts, files, statements and packages of any length.
  `SchemaInv` adds to `TablesDeclared` what the scanner knows of the statement it is
  in: `currentTable` is the table of the one CREATE TABLE that nothing has ended yet,
  which is also the latest of its name. `DeclaredStep` shows what one more line of
  text adds to the table of a statement, part by part (`ColumnsStep`, `NamesStep`,
  `ForeignKeysStep`, `IndexesStep`, `PrimaryKeyStep`), and each action of the scanner
  is shown to add the same. `QueryInv` says the same of the query files: f is the item
  that began the open file and c the last one that is not SQL (`Scanning`); the files
  before f are in `Models`, the headers of f but the one at c are in `Methods`, and
  `currentMethod` and `currentSQL` are those of c. `QueriesLoaded` speaks only of the
  moment when all files are read and is not inductive. The sort by placeholder is a
  permutation because the ranks of the pairs of a plain statement are all different
  (`RankIs`). `PackageInv` says that the Request structs of the open package have all
  been read before its interfaces and functions; each pass has a lemma with an
  induction on the declarations. That the recursive functions `Lines`, `Pass` and
  the library's `FlattenSeq` exist and satisfy their equations is proved by the same
  induction as in `IntervalProofs`.

Every invariant and action property that a passing run checks is a theorem. Only
model-checked: `CloseReturns`, which is liveness under fairness and out of the
prover's reach.

## Not modelled

Texts, layout, status codes, imports and gofmt of the generated code; warnings
other than the stale-response one; the Go types of path parameters in the symbol
table; `runParse` and `runValidate`, which print. `pkg/authz` is one string set by
`Init`, one environment variable and a call of OPA. bcrypt, JWT signatures,
cookies, SMTP, S3, disks and images are external libraries; the other conversions
of `pgtypex` wrap one field each; trace headers and options of the queue are pure
setters; `v1/` is the archived first version. The status that `lookupCallErrStatus`
(`go_helpers.go:472`) takes from a map in any order is a status code and left out.
Guards on a result of a basic type compare with its zero value and are modelled only
for rows; that a guard on a field of a basic type compares it with nil, which Go
rejects, is not modelled. A DDL line is taken to hold one item: a column list over
several lines, or several columns on one, is not modelled.
`pkg/session/README.md` and `pkg/cache/README.md` speak of a PostgreSQL store that
the repository does not contain.

## Plan

1. Imports of the generated files (`collectImports`, `filterUsedImports`) as a part
   of `Codegen`, since Go rejects an unused one.
2. The tables that `Symbols` builds as the symbol tables of `Project`, which now
   takes any table of their shape.
