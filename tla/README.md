# dalgo in TLA+

dalgo is a database abstraction for Go: a set of interfaces (`dal`) for
sessions, transactions, keys, records and queries; adapters that implement them
(`adapters/dalgo2memory`, `adapters/dalgo2fs`); and packages built on the
interfaces (`access`, `recordops`, `recordset`, `ddl`, `dtql`, `branching`).

This directory models the parts that keep state or decide something. It starts
from the in-memory database, which is the only complete storage engine in the
repository, the reference other adapters are compared with, and the place where
locks, slot reuse, shared Go objects and lazily built structures meet. From
there it follows a program upwards: queries and readers, typed collections and
queued changes, access policies, and the packages that work on results
(`recordops`, `recordset`).

## 1. The system

| Part | State | Operations | Talks to |
|---|---|---|---|
| Storage engine seam (`engine.go`) | none, an interface | exists, store, load, delete, update, rows | called by the session with `db.mu` held |
| Columnar engine (`columnar.go`, `strategy.go`) | one slice per column, leftover fields, `live`, `slotToID`, `slotToKey`, `idToSlot`, `freeList`, `deadCount`, per-column strategies | the seam, plus candidateRows and compaction | external strategies through SetValue, ClearValue and EqualSlots |
| Serialized engine (`serialized.go`) | `records` (bytes) and `keys`, two maps | the seam | keeps the caller's key object |
| Database, sessions, transactions (`database.go`, `schema.go`) | `mu`, `enginesMu`, lazily filled `collections`, `hasWritten` of a transaction | Get, Set, Insert, Update, Delete and the Multi forms, read-only and read-write transactions | engines; worker callbacks that may call back |
| Query pipeline (`database.go`, `join.go`, `group.go`, `project.go`, `recordset.go`) | none beyond a call | filter, join, group, order, project, limit | engines' rows and candidateRows |
| Branching (`branching/branching.go`, dalgo2memory's `branching.go`) | checkpoints (snapshots of engines) and branch databases | Capture, Branch, Release, Close | takes both locks of the source |
| Generated inserts (`dal/tx_inserter.go`, `dal/id_generator.go`, `dal/collection.go`) | the id in the record's key, attempt counter | InsertWithIdGenerator, Collection.Insert | adapter callbacks exists and insert |
| Typed collection (`dal/collection.go`) | immutable handles: collection, parent, key options | In, Get, Exists, All, Count, First, the inserts, Set, Update, Delete | one session call each |
| Queued changes (`dal/changes.go`) | the queue of inserts, updates, deletes | ApplyChanges with excluded keys | InsertMulti, Update, Delete of a transaction |
| Hooks (`dal/hooks.go`) | hook lists | call in order up to the first error | adapters |
| Readers (`dal/reader*.go`) | records, position, open or closed | Next, Cursor, Close, read all with offset and limit | query results |
| Policy documents (`access/document.go`) | none | encode and decode access and audit policies | YAML and JSON codecs |
| Access policies (`access`) | immutable policies; a guard per handle: database policies, captured policies, whether a context policy is required | compile rules, decide, bind, begin a transaction, every session method | wraps any `dal.DB`; contexts carry policies |
| recordops | one cursor per sorted stream | Diff, compare, render | readers, pulled as iterators; a consumer that may stop |
| recordset | columns of one length; row objects with a memo | NewRow, GetRow, get and set by index and name, Data, computed columns | evaluators of computed columns |
| ddl, dbschema | schema descriptions, position in a batch | apply, alter, partial success | adapter's modifier |
| dtql | none | parse and print queries | `dal` query values |
| dalgo2fs | none in memory | reads files | file system |
| orm, mocks, end2end | descriptors, generated code, tests | none | `dal` |

### What is hard here

* **Slots move.** A columnar record lives in a numbered slot. Deletes free
  slots, inserts reuse them, and when half of the slots are dead a compaction
  renumbers all of them. Seven structures must follow.
* **Two engines, one behaviour.** The feature specifications ask that engines
  differ in representation only.
* **Two locks.** `mu` covers data; `enginesMu` covers engine creation, which
  readers also do. A worker runs while its transaction holds `mu`, and can call
  the database again.
* **Shared key objects.** `record.Key()` is a pointer. The caller, the id
  generator, the engine and a checkpoint can hold the same one.
* **A check and an act.** A generated insert asks whether an id is free and then
  inserts; what lies between depends on the adapter.
* **Authority along a chain of handles.** A secured database is bound to
  contexts, begins transactions and is called in other contexts; policies from
  all of these places must be consulted, by rules that can tie.
* **Rows in any order.** An engine returns rows in the order of a Go map. A
  query filters, joins, groups, orders and cuts them, and each stage can meet
  absent values, nil and values of mixed kinds.
* **A policy as text.** A policy is saved in another order than it was declared
  in, with operations grouped and ids escaped, and must decide alike when it is
  read back.
* **Streams that end early.** A diff pulls from several readers; any of them can
  fail, and the consumer can stop; readers must be closed once.
* **Retry bounds**, failure between the records of a multi-record write, and
  capture of a database while it is written.

The hazards are listed one by one, with their lines, in `PROJECT.json`.

## 2. Modules

| Module | Models | Role |
|---|---|---|
| `RecordData` | payloads, columns, leftover fields, field updates | data shared by the engines |
| `StorageEngine` | `engine.go` | the abstract specification: one collection is a map from ids to rows |
| `ColumnarEngine` | `columnar.go`, `strategy.go` | detailed; implements `StorageEngine` |
| `SerializedEngine` | `serialized.go` | detailed; implements `StorageEngine` for struct collections |
| `EngineParity` | the same calls on both engines | composition in lockstep |
| `MemoryDB` | `database.go`, `schema.go`: locks, sessions, transactions, lazy engines | composition of goroutines over engines seen as maps |
| `InsertGenerated` | `tx_inserter.go`, `id_generator.go`, `Collection.Insert`, `session.Insert` | goroutines, key objects, adapter kinds |
| `Branching` | dalgo2memory's `branching.go` | an explicit heap of engine and key objects |
| `AccessPolicy` | `access`: operations, resources, rules, their compilation and precedence | pure operators, with a reference definition of the decision |
| `SecuredDB` | `access`: guards, contexts, secured databases, transactions and sessions | handles over the policies of `AccessPolicy` |
| `PolicyDocuments` | `access/document.go`, audit policies | trees of rules, documents, and the handles of `SecuredDB` over both |
| `QueryEval` | conditions, comparison, ordering, projection (`database.go`, `project.go`) | pure operators on values and rows |
| `QueryExec` | one query from rows to records: `group.go`, `join.go`, `recordset.go` | pure operators |
| `QuerySession` | writes, queries over them, readers | state machine over `QueryExec`, with set-based references |
| `RecordsDiff` | `recordops`: `diff.go`, `compare.go`, `bridge.go` | the merge, step by step, with a reference on whole streams |
| `Recordset` | `recordset` | columns and row objects |
| `TypedCollection` | `dal/collection.go` over dalgo2memory's session | every terminal of a handle |
| `Workflow` | `dal/changes.go`, transactions | composes `TypedCollection` with a queue and a transaction |
| `EngineProofs` | | theorems about `ColumnarEngine`, `SerializedEngine` and the two in lockstep |
| `MemoryDBProofs` | | theorems about `MemoryDB` |
| `CollectionProofs` | | theorems about `InsertGenerated`, `TypedCollection` and `Workflow` |
| `BranchingProofs` | | theorems about `Branching` |
| `SecuredDBProofs` | | theorems about `AccessPolicy` and `SecuredDB` |
| `RecordsDiffProofs` | | theorems about `RecordsDiff` |
| `RecordsetProofs` | | theorems about `Recordset` |
| `QueryProofs` | | theorems about `QueryEval`, `QueryExec` and `QuerySession` |
| `MC*` | | instances for TLC |

Definitions named `...Late`, `...Shared`, `...Unguarded` and the like, marked
"Plausible bug", are alternatives to the definition that follows them. Nothing
uses them in the model. They serve to show that each property notices a
mistake of that kind.

### How state and actions correspond to the code

**RecordData.** A payload is a function from the fields it carries to values.
What the code tells apart of a value is kept: its identity, whether it is the
zero value, whether it can be encoded (`Unencodable`), and whether it has the
type its column declares (`Mistyped`). `applyUpdatesToMap` is the fold over
an update list. Paths of more than one segment edit the inside of one field and
are not told apart from setting that field.

**ColumnarEngine.** Every slice is a sequence, `values[s][c]` is the cell of
column `c` in slot `s`, and slots are numbered from 1 where Go counts from 0.
`index` is the content of the external strategies, as entries of column, slot
and value; a strategy with none (`Scanned`) is the default one, which compares
cells. `delete` has three outcomes (`deleteAbsent`, `deleteTombstone`,
`deleteCompact`), and compaction is part of the delete that triggers it, as in
the code. `store` splits in the same way into refusals and `storeRow`, whose
slot comes from `reuseOwnSlot`, `popFreeSlot` or `appendSlot`. `SameType` says
whether query constants have the column's Go type: the default strategy uses
`==` and the re-filter normalizes both sides.

**SerializedEngine.** The bytes of a record are the payload they encode. They
are read into the registered struct type, which fills absent fields with zero
values, or into a map, which does not (`view`); only a registered type makes the
engine look at what it stores (`accepts`).

**EngineParity.** Every call is made on both engines. Two kinds of write are
taken by the serialized engine only: a value that is not of its column's type in
a map collection (`columnar.go:582` refuses it, `serialized.go:52` marshals it),
and updates of a struct that name an unknown field and remove it
(`columnar.go:384` looks at every FieldName, `serialized.go:88` at the resulting
record). The ids they were about are in `apart`, until both engines take a record
or a deletion of the id, and the properties are about all other ids.

The engines are shown to implement `StorageEngine` in two parts: the abstract
specification is a property of the run, and every write that succeeds is the
abstract operation of the same name with the same arguments (`WritesMatch`).
The second part is needed because the wrong effect of one write can be the right
effect of another one.

**MemoryDB.** Each goroutine has a program counter and a stack of calls that
hold `mu`. `sync.RWMutex` is external and modelled as Go documents it: a writer
first announces itself, which blocks new readers, then waits for the readers
inside; Unlock admits the blocked readers. An operation resolves its engine
under `enginesMu` in a step of its own, then applies itself. A worker makes up
to `MaxCalls` session calls of its choice, can read through the database
instead of its session (`NestedCalls`), and returns with or without an error.
Engines are maps from ids to values, which is what `StorageEngine` says.

**InsertGenerated.** A record object owns a key object; `keyID` is the id in it.
`stored` maps an id to the key object that the engine keeps. `Generate`,
`Check`, `Exhaust` and `Save` are the steps of the loop, between which other
writers run unless the adapter holds an exclusive lock. `adapter` says whether
it honors insert options, holds such a lock, and may fail to check existence.

**Branching.** Databases and checkpoints refer to engine objects in `heap`, and
stored records refer to key objects, so that sharing by mistake is visible.
`Capture` takes the locks, validates, copies one engine per step and publishes.

**AccessPolicy.** A path is a sequence of collection names and record ids, a
rule is its directive with the chain of scopes around it. `compiles` is what
`NewPolicy` accepts, `compileRules` what it keeps. `winner` is the first rule
after the stable sort of `matchingRules`, as the element that nothing outranks
and that is declared first. `PermittedByRules` words the same decision without
an order, from the feature specification.

**SecuredDB.** Policies, contexts and guards never change once built, so the
module follows one `handle` and what is derived from it, and a sequential
caller: an action answers in `last`, `Return` clears it. `attached` is a history
of the policies met on the way; the code has no such thing, and the properties
compare the guard's answers with it. The twelve session methods share `Secured`:
the whole request is authorized before the adapter is called with all of it.
What the adapter then does is the subject of the other modules. A key is judged
as the caller gave it: an incomplete one has the id `NilID`, which only `AnyID`
matches, as the comment at `access/resource.go:118` says.

**PolicyDocuments.** A policy keeps the tree of rules it was declared with
(`declared`) next to the compiled ones. `documentScopeFromRule` writes a tree:
directives first, then nested scopes, operations by the name of a group where
one fits, ids escaped. `rulesFromDocument` reads one back; `decodes` has every
refusal of the decoder. A path segment in a document is its text and whether it
was escaped, since reading unescapes before it looks for the star. An audit
policy uses the same rules with other effects (`Classify`).

**QueryEval, QueryExec, QuerySession.** A value is its Go kind, a number (scaled
by `Scale`, so that averages stay whole) and, for a list, its elements; `Text`
orders what `fmt.Sprint` prints. An id has a Go type and a text, and the storage
identity of a key sees the text only (`Sprint`). `ExecuteQuery` is the pipeline
in the code's order: guard, rows, known sources, WHERE, parent, group and
HAVING, ORDER BY, LIMIT, projection; errors keep their place. An engine may
return the rows in any order, and only those an index selects (`engineRows`).
`Set` and `Delete` change what is stored; `written` records what was last
written under each printed key, which is the whole path also where the storage
id is not. One result at a time is read, by `Next_`, `Cursor` and `Close`, by
`SelectAll` with cancellation, failing reads and a failing close, or as a
recordset.

**RecordsDiff.** `pc` follows `DiffFunc`: `Begin` opens nothing without an
order, `Prime` advances the cursors one by one, `Merge` assembles the difference
at the smallest id, `Advance` moves the cursors that are at it, `Yield` hands it
to a consumer that goes on or breaks, `Stop` is the deferred stops. A stream
behind `iter.Pull2` (external) is idle until it is first asked, and only a
running one can clean up when it is stopped. `closes` counts Close calls. The
fields of a struct are looked up by position and skipped where the baseline's is
not exported (`comparedFields`).

**Recordset.** `cols` holds what each kind of column holds: values, a bitmap per
distinct value, or one bitmap. `rows` are the row objects callers hold, each
with its memo of computed values. `cells` is an observer: what was last written
to each cell. `SetValue` of a value of another type than the column's, and of a
column that does not exist, panics, as in the code.

**TypedCollection, Workflow.** A handle is a parent and a key option (none, one
that fails, or one that sets a parent); `idToKey` makes the key, or none. The
terminals that take a record or a key (`InsertRecord`, `SetRecord`,
`UpdateByKey`, `DeleteByKey`) take any key a caller can build, guarded by
`guardParent` only. Each terminal is an action over the records `db`; terminals
that differ in the type they return are one action. `Workflow` adds a
transaction, with or without rollback, and a queue; `ApplyChanges` inserts,
updates and deletes, stops at the first error and keeps the queue then.

## 3. Runs

| Run | Question | Result |
|---|---|---|
| `columnar` | Do all sequences of engine calls keep slot maps, free list and index together, and look like the map the contract promises? | holds |
| `parity` | Do both engines answer alike about the records both took; does the serialized one implement the contract for struct collections? | holds, with two exact exceptions |
| `memory_db` | Are concurrent calls and transactions serializable, engines created once, reads before writes? | holds |
| `memory_db_live` | Does every call return? | holds |
| `insert` | Is a generated insert all or nothing, never an overwrite, and always finite? | holds |
| `branching` | Are checkpoints atomic and frozen, and databases isolated? | holds |
| `access` | Does a call reach the adapter exactly when every policy attached anywhere permits all of its resources, and does a policy that was saved and read back decide alike? | holds, with one exact exception |
| `query` | Do queries, joins, groups, pages, pivots and readers give what a definition on sets of rows says, in whatever order rows come, and do only keys that print alike share a place? | holds, with one exact exception |
| `diff` | Does Diff report exactly the differing ids (of one candidate or more, and streams that are not nil), with deltas that rebuild the candidate, close its readers once and end? | holds |
| `recordset` | Does every cell hold what was last written, and is a computed value current when first asked for? | holds without bool columns |
| `recordset_bool` | The same with a bool column. | violated, see Finding |
| `workflow` | Does a handle list what it wrote; is a queue applied exactly; when can it be applied again? | holds |

The exact exceptions: `SameOutcome` says that rows of the two engines differ
only in that an absent column is a zero on the columnar one;
`SelectionsDifferByAbsent` says that their selections differ only by absent
fields; `PagesAreSlices` says that OFFSET counts for grouped queries only;
`ReloadAlike` says that a reloaded policy differs only where a literal id `*`
has become the wildcard.

### Bounds and why they are enough

* `columnar`: four ids, one indexed column, one undeclared field. With fewer
  than three slots every delete compacts; four ids give tombstones (1 dead of 3
  or 4), reuse of a freed slot, and compactions with survivors. There is no
  bound on the number of calls: the state space is finite.
* `parity`: two ids, of which one has two keys, data with and without the column
  and of the wrong type, updates that set, remove and fail, and both kinds of
  write that only one engine takes. Two slots never hold a tombstone (every
  delete compacts), and that is enough here: what slots go through is hidden by
  the contract, which run `columnar` checks with four ids.
* `memory_db`: two goroutines, up to two session calls in a transaction,
  nested reads, a collection outside the schema, and every kind of call,
  multi-record ones that fail halfway among them. Lock interference needs two
  parties; the no-reads-after-writes rule needs a write and a read.
* `memory_db_live`: three goroutines, so that a writer can meet two readers that
  replace each other, and two writers can compete.
* `insert`: two goroutines with two calls each, two record objects, two ids, two
  attempts, three kinds of adapter. All ids can be taken, so the bound on
  attempts is reached; records are inserted again; ids are deleted and
  generated again.
* `branching`: two capturing goroutines, two collections, two writes, two
  checkpoints, three databases: a branch of a branch, siblings, and a write
  between the copies of two collections.
* `access`: two policies. The first is one of nine rules or two that overlap
  (wildcards and literals at equal and different depths, both effects, nested
  and root scopes, groups, opaque queries, a scope before a directive), one that
  does not compile, or one that cannot be written or read back; the second one
  of two longer lists, or a document, of which six are wrong, each in its own
  way. Precedence is decided between pairs, so pairs in both orders cover it.
  `MaxContext` = 1 and `MaxPolicies` = 2 let a handle capture two policies in
  two steps and be called with another one.
* `query`: rows in two collections, three at a time, in the root and under two
  parents, with numbers, strings, lists and absent fields, two of them under ids
  (an int and a string) that print alike; 49 queries that between them use every
  operator, every refusal, ties, pages at, inside and past the end. Three rows
  give every order of a tie and a row outside it, a group of two and one of one,
  a page with something before and after it.
* `diff`: a baseline and up to two candidates of up to three records, which end
  well, fail, repeat an id or go back, or are nil; structs of three types, with
  exported and unexported fields; four sets of options. Two candidates let one
  lead, lag and fail while the other goes on.
* `recordset`: two rows, three row objects, so that two objects stand for one
  row and one of them is made after a write; columns of every kind but bool, and
  a computed column that can fail. `recordset_bool`: three rows.
* `workflow`: two ids at the root, under a parent and under one without an id,
  three record objects of which two have one key, two queued operations of each
  kind, five calls: queue, begin, apply, roll back and apply again.

Deadlock checking is off where the bounds on calls (`MaxCalls`, `MaxWrites` and
the like) let the system stop.

### Fairness

* `MemoryDB`: a goroutine that can take a step inside a call takes it (weak
  fairness), workers return, and lock acquisition is strongly fair: Go's
  mutexes switch to starvation mode, in which the lock is handed to the waiter
  at the front. Starting a call is not fair.
* `InsertGenerated`: weak fairness for the steps of a call, strong fairness for
  the lock. Generators may collide for ever; only the bound ends the loop.
* `RecordsDiff`: weak fairness for the next step. It is one goroutine that waits
  for nothing but the readers and the consumer's loop body, both of which are
  taken to return.

### Finding

**Bool columns lose rows** (`recordset/column_boolean.go:39`). `Add` takes the
number of rows that are true for the number of rows. `NewRow` adds the default,
false, so the second `NewRow` writes row 0 again: two rows, one value; and once
other rows are true, adding a row clears one of them. The test at
`column_boolean_test.go:71` expects two values after two Adds, and adds `true`
first.

### Differences between code and documents without a run of their own

Met while modelling. The models follow the code. Where a property leaves such a
case out, or states it as an exact exception, its comment or its bound says so.
The first five contradict a document word for word:

* A map stored without one of its declared columns comes back from the columnar
  engine, by Get and by queries, with the zero value there
  (`columnar.go:713`, `columnar.go:691`). The columnar-mixed-mode-maps feature,
  line 62: "producing a record equal to what was written". The serialized engine
  hands back what was written. This is the function `filled` in `SameOutcome`.
* OFFSET is ignored unless the query is grouped (`database.go:406`).
  `docs/queries.md:387`: "Skip first 20 results, then return next 10"; the
  comment at `recordset.go:15` lists it as applied too. `PagesAreSlices` states
  it.
* A nil stream makes Diff panic when it is first asked (`recordops/diff.go:140`).
  The diff feature, line 668: "Treated as empty stream; no error." `OutputExact`
  leaves nil streams out.
* Without candidates and with WithIncludeMatched, Diff yields every id of the
  baseline (`recordops/diff.go:258`). The diff feature, line 669: "Returns a
  stream that yields zero items". `OutputExact` asks for a candidate.
* `In` drops the key options (`dal/collection.go:421`). The typed-collection
  feature, line 90: "carrying over the configured key options". Carried over, an
  option that sets another parent would make a handle that writes where it does
  not list. `WrittenIsListed` is stated for handles whose option and parent agree
  (`Agrees`), and does not depend on the options being dropped.

The others:

* Storage: the default strategy compares by `==`, so an untyped `1` against an
  `int64` column finds nothing where a scan does (`strategy.go:98`;
  `columnar.go:440` says that re-filtering makes results identical).
  `CandidatesMatchScan` is false with `SameType = {TRUE, FALSE}`, and no
  property covers this hazard. A field absent from the data is a zero cell in
  the columnar engine, which a query for the zero value then finds
  (`columnar.go:637`; the columnar-storage feature, line 79, asks for identical
  results). Of two kinds of write one engine refuses what the other takes
  (section 2, EngineParity). Compaction never calls ClearValue, contrary to the
  comment at `strategy.go:25`; `CandidatesMatchScan` holds all the same.
* Database: no rollback (`database.go:71`; `docs/transactions.md:473` promises
  it). A worker of a read-only transaction that reads through the database waits
  for ever when a writer has come in between (`database.go:85`; the design note
  says "No deadlocks"): `CallsReturn` is false with `NestedCalls` set to
  `NestedReads`, and no property covers that hazard. Preconditions of an update
  are ignored (`database.go:319`; `docs/updates.md:209`).
* Keys: the serialized engine keeps the caller's key object, and inserting the
  same record object again changes the key that queries return for the record
  stored first (`serialized.go:62`; serialized-storage feature, line 34). Keys
  whose ids print alike, `1` and `"1"`, share a storage identity
  (`database.go:472`), which `KeysSeparate` says exactly.
* Queries: a collection without rows answers before the query is validated
  (`database.go:361`). A join skips the schema guard and answers keys without
  parents (`join.go:54`, `join.go:113`). Reading exactly `limit` rows into a
  recordset ends in ErrLimitReached (`reader_read_all.go:195`). `NewIDGenerator`
  ignores `maxAttempts` (`id_generator.go:27`).
* Policies: a literal id `*` is read back as the wildcard; a policy or scope
  without rules encodes and does not decode; a rule without a name, or an id
  that is not a string, cannot be encoded.
* Collections: `Insert` ignores key options. All, Count and First do not guard
  the parent and panic under one without an id. Excluded keys are compared as
  pointers, and excluded inserts are forgotten when the queue is reset.
* recordops: a reader that was never asked, because an earlier stream failed at
  once, is not closed (`bridge.go:27`).
* recordset: `NewRow` ignores errors of Add; two computed columns of one name
  share a memo.

## 4. Proofs

The runs show the properties on small instances; the theorems below show them
for every value of the constants that satisfies the named assumptions: any
number of goroutines, ids, columns, streams or policies, payloads and rules of
any shape, sequences of any length. Each specification has an inductive
invariant (`IInv`; for the engines in lockstep `PInv`, for the workflow `WInv`,
for queries `SessionInv`), one lemma per action or kind of action that shows that
it is kept, and the theorems that follow from it. Every invariant was first
checked by TLC on the instance of the module's run; `SessionInv`, which looks at
every order of the rows, completely with `MaxRows` = 1 and in part with 2 and 3.

Where an argument goes by induction (over a list of updates, a stream, a sort),
it takes the least element of the set of counterexamples, a set of naturals.

| Module | Theorem | Says |
|---|---|---|
| `EngineProofs` | `TypeCorrect` | the state is well typed |
| | `SlotsAlwaysAgree` | slices have one length, and ids and live slots stay inverse to each other |
| | `FreeListAlwaysExact` | the free list is exactly the dead slots, each once, and fewer than half are dead |
| | `IndexAlwaysMatches` | every external strategy agrees with the cells of every live slot |
| | `AcceleratedEqualsScan` | an accelerated query selects what a scan selects (`SameType = {TRUE}`) |
| | `RecordsKeepTheirSlots` | a record changes its slot only in a compaction, downwards and in order |
| | `EngineImplementsContract` | the engine implements `StorageEngine`, call by call (`SameType = {TRUE}`) |
| | `EnginesAnswerAlike` | both engines answer every call about a record both took alike, with zeros for absent columns |
| | `SelectionsAlwaysDifferByAbsent` | equality queries over these records differ by absent fields only |
| | `SerializedEngineImplements` | the serialized engine of a struct collection implements `StorageEngine`, call by call |
| `MemoryDBProofs` | `TypeCorrect` | the state is well typed |
| | `Serializable` | who holds `db.mu` sees the database it found, changed by its own operations only |
| | `OneEngine` | a collection never has two engines, and no operation works on one that is not registered |
| | `ReadsBeforeWrites` | with reads after writes forbidden, a transaction reads what was stored before it began |
| `CollectionProofs` | `TypeCorrect` | the state is well typed, attempts bounded |
| | `SuccessAlwaysStored` | with an adapter that locks for the whole insert, one that succeeds has stored this record under the id its key shows |
| | `FailureNeverStores` | an insert that fails has stored nothing and leaves an incomplete key |
| | `InsertsNeverOverwrite` | no step changes an entry that stays |
| | `CollectionInvariant` | handles, transactions and queues stay well formed |
| | `HandlesListWrites` | a handle whose option and parent agree lists and counts what it reports as written |
| | `ClearedIsApplied` | a queue is cleared only by a step that does exactly what was queued |
| | `PartialNeedsRollback` | a queue that was worked on in part cannot be applied again before a rollback while an insert is left in it |
| `BranchingProofs` | `TypeCorrect` | the state is well typed, every reference leads to an engine object |
| | `CheckpointsStayFrozen` | a checkpoint shows what its source showed under the locks |
| | `BranchesIsolated` | no step shows in two databases |
| | `BranchesFaithful` | a new branch shows what its checkpoint froze |
| `SecuredDBProofs` | `SortingSelects` | the first of the sorted matching rules decides as the specification words it without an order, for access and audit rules |
| | `TypeCorrect` | policies are compiled rules, guards and contexts hold declared policies |
| | `PrecedenceAlways` | every policy decides by depth, literal segments and deny on a tie |
| | `EnforcementAlways` | a call reaches the adapter exactly when every attached policy permits all of its resources |
| | `AuditSelects` | over any rules that compile, an audit policy audits a call exactly when the most specific rules for one of its resources all say so |
| | `CaptureAlwaysExact` | a handle that captured a context answers as its parent would in both |
| `RecordsDiffProofs` | `TypeCorrect` | what was yielded are differences of the whole streams |
| | `OutputAlwaysExact` | with a candidate and no nil stream, Diff yields exactly the ids to be reported, ascending and with the right statuses, up to where it is stopped or something breaks |
| | `DeltasAlwaysRebuild` | the baseline's record with a candidate's deltas applied is the candidate, apart from ignored fields |
| | `ReadersAlwaysClosed` | every reader that was asked is closed exactly once |
| `RecordsetProofs` | `TypeCorrect` | the state is well typed (`NoBool`, `DefaultsFit`) |
| | `CellsAlwaysHold` | every cell holds what was last written (`NoBool`, `DefaultsFit`) |
| | `ComputedAlwaysCurrent` | a computed value is current when it is first answered (`NoBool`, `DefaultsFit`) |
| `QueryProofs` | `SessionInvariant` | the store holds records under the ids of their keys, the answer is that of its query on them, what was read is part of it |
| | `KeysStaySeparate` | a write under one key leaves what every key that prints otherwise holds; keys that print alike share a place (`OneSegmentIDs`) |
| | `AnswersArePages` | a grouped query answers the page of its LIMIT and OFFSET, another one the page of its LIMIT from the first row |
| | `AnswersAreOrdered` | a query answers the first LIMIT rows of its order, ties by id, whatever order the rows come in |
| | `JoinsAreExact` | a join answers each base row once for each match, and once without one under LEFT |
| | `GroupsAreClasses` | a grouped query answers one record for each tuple of grouping values, with the aggregates of its rows (`GroupsDistinct`) |
| | `PivotsAgree` | a cell of a pivoted answer is the value of its record, or nil |
| | `ReadingsArePages` | what a reading returns is the page it asks for, or its beginning when it is cut short |

### The arguments

**ColumnarEngine.** None of the properties is inductive alone. That a popped
slot is dead needs the free list to be exact; that it stays exact needs ids and
live slots to be inverse; that a reused slot belongs to its id needs both; and
the index agrees only if all lengths do. The inductive invariant is

    IInv == TypeOK /\ SlicesAligned /\ SlotsAgree /\ FreeListExact
            /\ DeadBounded /\ IndexMatchesCells /\ BrokenIsEmpty

where `BrokenIsEmpty` says that a collection whose engine could not be built
holds nothing. The difficult action is compaction: `rank(s)`, the number of live
slots up to `s`, is shown to be a strictly increasing bijection from the live
slots to `1..Cardinality(LiveSlots)`, from cardinality facts of the library, and
each rebuilt structure is the old one read through it. For the refinement, each
write is shown to change the map seen through `idToSlot` as the contract says
(`StoreSeen`, `UpdateSeen`, `TombstoneSeen`, `CompactSeen`), and each call to be
the contract's call with the same arguments.

**EngineParity.** One engine keeps the fields that were written, the other a
row with a zero cell for an absent column. Data are `Alike` when they give one
row. Updates keep data alike (`UpdatesAlike`), data that are alike are accepted
or refused together (`AcceptedAlike`), and the map view of a row gives that row
(`RowDataRow`). So the two collections stay one map (`OneMap`) outside `apart`,
and an id leaves `apart` only when both engines hold the same about it again:

    PInv == IInv /\ OneMap /\ SameOutcome /\ SelectionsDifferByAbsent

**MemoryDB.** `LockInv` ties `readers` and `announced` to the call stacks: who
runs under a shared hold is in `readers`, and a writer that is inside has met no
reader and no other writer. `Control` says that a call under a shared hold has
only reads left, `EnginesInv` that between finding and creating an engine nobody
else creates one, `ReadsInv` that a transaction that has not written still sees
what it began with.

**InsertGenerated.** `OneCallPerRecord` (no two calls work on one key object),
`LockHeld` (an exclusive adapter's lock is held by the call past it),
`KeyComplete` (the id is complete where it is checked and saved), and
`EntriesByEnded`: an entry knows the call that stored it, and that call has
ended well. The last makes a failed call one that stored nothing.

**TypedCollection, Workflow.** `WrittenIsListed` compares the key that a write
went to with those a listing looks at. They agree because a key lies under the
parent that the option or else the handle gives (`Fits`), whichever handle `In`
has made. A queue is followed as three lists: what `WriteInOrder` has done after
the first `n` of them is known by induction on `n`, it stops at the first
refusal, and a record that a list writes twice keeps the last write. So a queue
that is cleared was done in full, and one that stopped has either changed
nothing or inserted a record whose insert is refused from then on.

**Branching.** `EnginesApart` and `KeysApart` say which objects are not shared:
an engine object of a database belongs to one collection of it and to no
snapshot, a key object to one engine object. `Copies` says that a capture under
way has copied exactly, since it holds the locks; `FiniteMaps` that there are
finitely many engines to copy.

**SecuredDB.** The order by which matching rules are sorted is a strict order on
compiled rules, so a first rule exists and none beats it; restrictive effects
come first among equally specific rules, which gives the wording without an
order. Along a chain of handles, `HandleInv` says that the guard's sequences
hold exactly the policies of `attached`.

**RecordsDiff.** There is always an id `f` such that every cursor stands before
`f` (`StandsBefore`): what it has passed is smaller, what it is at is not; and
what was yielded is exactly what is to be reported below `f`. While the cursors
are advanced past an id `d`, those that had their turn stand before `d + 1`, the
others before `d`. There is one conjunct of `IInv` per value of `pc`.

**Recordset.** `BitmapInv`: a row is in exactly one bitmap of a column, no two
bitmaps are of one value, and the row's bitmap is of the value last written.

**Queries.** `SessionInv` has four parts: `StoreInv` (a stored record is under
the id of its key), `AnswerInv` (the answer is `ExecuteQuery` of its query on
the stored rows in some order, some of them left out by an index), `ReaderInv`
and `AllRead` (reader and result against the answer). The properties then follow
from what the pipeline computes. Each stage on a list is described by what it
does to positions: filters keep an order-preserving selection (`FilterKeeps`),
pages a slice, projection the length. For the order, sorting is shown to permute
(`SortLists`) and to sort by any strict weak order; comparison by number or by
text is one where the values of a sort key compare alike, and the tie-break makes
it total on records. For joins, counts are carried through the two nested loops
(`FlattenedCount`, `PairsCount`, `JoinedCount`), and the conditions that the code
evaluates on named sources are shown to be those of the definition on sets. For
groups, placing a row keeps every row in the group of its key
(`PlacedGroups`), so that the groups list the classes of the rows with one key
(`ClassesOfGroups`); a class is then one tuple of grouping values
(`KeysAreTuples`). A sum over a list of rows does not depend on their order
(`SumIsWeight`), and MIN and MAX keep the least and the greatest value wherever
it stands (`ExtremesOfSet`), so that the aggregates of a group are those of the
set (`GroupValue`).

### Assumptions

The assumptions on constants are named and stand in the modules that declare the
constants; TLC evaluates them on every run. They say what a Go program cannot
violate: that distinguished values such as `NoProc`, `NilID` and `DeleteField`
are not ordinary ones; that a read-only session call consists of reads and no
call is empty (`DBAssumption`); that policies are declared from well-formed rules
and calls name well-formed resources (`SecuredAssumption`); that a table has a
list of columns (`RecordsetAssumption`); that streams are lists of records with
comparable ids, or of errors (`DiffAssumption`); that records have finitely many
fields and queries are the values the builder makes (`QueryAssumption`); that no
`==` has a list on both sides, which panics in Go (`NoListsCompared`); that
parents, the root and key options are different things and initial records have
keys (`CollectionAssumption`, `WorkflowAssumption`).

Hypotheses of single theorems are cases that the code does not handle alike; the
property is false without them, and the runs' instances satisfy them:

* `SameType = {TRUE}`: query constants have the column's Go type (section 3).
* `NoBool`: the table has no bool column (section 3, Finding).
* `DefaultsFit`: a column's default passes its own type. `NewRow` ignores the
  error of Add otherwise, and the column does not grow.
* `OneSegmentIDs`: ids print as single segments of a path. `keyID` joins the
  segments of a key by slashes and does not escape those inside an id, so that
  two keys can share a storage id otherwise.
* `GroupsDistinct`: two values of a grouping field have different types or print
  differently (the lists `["a b"]` and `["a", "b"]` do not, and fall into one
  group); values of which MIN or MAX is asked are equal when they compare as
  equal (of an int and a float of one number the code keeps the one that comes
  first); and a column without an aggregate is a grouping field (a constant that
  is selected comes back normalised).

`OneSegmentIDs` and `GroupsDistinct` are assumptions of `MCQuery`, which TLC
evaluates.

### Only model-checked

* Liveness: `CallsReturn`, `InsertReturns`, `DiffEnds`. The prover has no rules
  for fairness.
* `PolicyDocuments` (`AuditExact`, `ReloadAlike`): trees of rules need recursive
  operators, which the prover does not take. The decision of `AuditExact` is
  proved as `AuditSelects` for any flat list of rules; what is only checked is
  that trees flatten to such lists.

## 5. What is not modelled

* **Values and text**: JSON, YAML, reflection, error wording, key formatting.
  The storage identity of a key is a constant function in the engine models,
  which may map two keys to one identity, as `fmt.Sprint` does for `1` and
  `"1"`; `QueryEval` has ids of two types and their text. JSON null, which the
  engines keep in a column or in a map in their own ways, is not a value of the
  engine models.
* **In queries**: aggregates whose argument is a constant, and comparisons of two
  lists, which panic.
* **Reference breaking in the columnar engine** (`WithoutReferenceBreaking`)
  and its recordset view; record factories; transaction options that
  dalgo2memory ignores; values carried in contexts.
* **In access**: handles secured twice, and policies that are not declarative.
* **In recordset**: bitmap columns made with a capacity, whose bitmaps are nil.
* **The query builder**, whose methods assign one field each. That `Clone`
  shares slices with its original is listed as a hazard without a property.
* **hooks**: a list called in order; no adapter here calls it. **dal.Changes**:
  a list that nothing here applies.
* **ddl**: dispatch to an adapter that implements it, and none here does, so that
  the batch that stops halfway is not in this code.
* **dtql**: a conversion between queries and documents, mostly text.
* **dalgo2fs, orm, mocks, dbschema, renderers, capability flags**: no state to
  follow, or generated. **end2end, branchingtest**: tests, read as statements of
  intent.

## 6. Plan

Done: the engines and their contract, the database and its locks, generated
inserts, branching, access policies and their documents, queries and readers,
typed collections and queued changes, diff, recordset; proofs of the safety
properties of all modules without recursive operators, and of both
refinements of the contract. Next:

1. `dtql`: queries to documents and back, against `equal.go`.
