# SQLlin in TLA+

SQLlin is a Kotlin Multiplatform library: a DSL for SQLite (`sqllin-dsl`), the
KSP processor that generates the tables' objects (`sqllin-processor`), and a
driver over SQLite's C API, Android's SQLite or sqlite-jdbc (`sqllin-driver`).
These modules model the parts of it whose correctness depends on the order in
which things happen: the connection and its transactions, prepared statements
and the cursors of SELECT, the scopes of coroutines that share a database, the
statement list a scope builds, and the opening and migration of a file; and the
sequential parts whose outputs must fit each other: conditions and their
parameters, the processor's tables and the encoder's INSERTs. TLC checks them on
small instances; TLAPS proves the safety properties of the connection, its
statements, the scopes, the builder and the migration for any number of threads,
coroutines, openers and statements.

Paths below are relative to `src/`; `driver` stands for
`sqllin-driver/src/*/kotlin/com/ctrip/sqllin/driver`, `dsl` for
`sqllin-dsl/src/commonMain/kotlin/com/ctrip/sqllin/dsl`.

## 1. Inventory

| Component | Code | State | Operations | Model |
|---|---|---|---|---|
| Native connection | driver `RealDatabaseConnection`, `ConcurrentDatabaseConnection` | `transaction` record, `closedFlag`, two locks, the SQLite handle | execSQL, execInsert, execUpdateDelete, begin/setSuccessful/endTransaction, query, createStatement, close | `NativeConnection` |
| `withTransaction` | driver `Extension.kt` | where the caller is in it | begin, block, setSuccessful, end in `finally` | in `NativeConnection`, `DatabaseScopes`, `Migration` |
| SQLite session | external | open transaction, its work, the durable database | BEGIN, COMMIT, ROLLBACK, a modification | `SqliteSession` |
| JDBC connection | driver `JdbcDatabaseConnection` | auto-commit switch, `isTransactionSuccess` | the same calls | `DriverCalls` |
| Database | dsl `Database.kt`, `DatabaseExecuteEngine`, `TransactionStatementsGroup` | `executiveMutex`, the statement list | `suspendedScope`, `executeAllStatement` | `DatabaseScopes` |
| DatabaseScope | dsl `DatabaseScope.kt`, `sql/statement/*`, `StatementContainer` | engine's list, open group, stack of UNION groups, unfinished JOIN | operations, clauses, JOIN..ON, UNION, transaction | `ScopeBuilder` |
| SELECT results | dsl `SelectStatement`, driver cursors | cursor, cached result | `execute`, `getResults` | timing in `DatabaseScopes`, cursors in `NativeStatements` |
| openDatabase | driver `Extension.kt`, `ExtensionNative`, `NativeDatabase`, `ExtensionJdbc`, `DSLDBConfiguration` | creation lock, `user_version`, journal mode, handles | open, migrate, callbacks, close | `Migration` |
| Native statements | driver `NativeStatement`, `NativeDatabaseConnection`, `NativeCursor` | prepared statement, its row | prepare, bind, step, reset, finalize | `NativeStatements` |
| Platform locks | driver `platform/Lock` | pthread / Windows mutexes | lock, unlock, destroy | as the locks of `NativeConnection` |
| Conditions and clauses | dsl `sql/clause/*` | parameter lists | AND, OR, comparisons, SET, functions | `Conditions` |
| Operations | dsl `sql/operation/*` | none | SQL texts | INSERT and CREATE in `TableStatements`; layout not modelled |
| Codec | dsl `sql/compiler/*` | index of the element | entity to INSERT and from rows | encoder in `TableStatements` |
| Processor | `sqllin-processor` | parser state | annotations to CREATE TABLE | `TableSchema` (rules, not the text) |
| Paths | driver `DatabasePath`, helpers | none | join, fixSlashes | not modelled |
| Android driver | driver `androidMain` | none of its own | forwards to `android.database.sqlite` | not modelled |
| Samples, tests, build files | `sample`, `*Test`, Gradle | none | none | not modelled |

How they interact. A client's coroutine calls `database.suspendedScope { }`. The
block runs at once but executes nothing: each DSL expression adds a statement to
a container (`ScopeBuilder`). When the block has returned, `executeAllStatements`
runs the list under `executiveMutex` (`DatabaseScopes`), each statement being
calls of one shared connection. The non-suspending `database { }` runs the same
list with no mutex. On native the connection locks each call, and transaction
calls lock once more inside (`NativeConnection`); on the JVM one `ReentrantLock`
plays both parts. `getResults` of a SELECT is called whenever the client likes,
usually after the scope. Before all that `openDatabase` has opened the file
under the creation lock and run the migration callbacks, themselves scopes, in a
transaction (`Migration`).

What is hard here, and what must hold in each component:

* Connection: threads interleave between the calls of one transaction; BEGIN,
  COMMIT or the mark throws between two locks; a failing statement rolls the
  transaction back by itself. Blocks must not overlap, must be all or nothing,
  the record must agree with SQLite, clients must be told the truth, and the
  locks must be released on every path.
* Scopes: a statement in the middle of a list throws, a coroutine is cancelled
  while it waits. A scope's effects must be exactly the items it got past; no
  statement may enter another scope's transaction; all scopes must finish.
* Builder: immutable statements replace one another in a container found
  through mutable state that transaction, UNION and JOIN switch. What is executed must
  be what was written, in its order and in its transactions.
* Opening: two openers, in one process or two, migrate the same file; the
  process dies at any moment. A migration must be whole, run once, and
  `openDatabase` must return at the version asked for or leave nothing behind.
* Statements and SELECT results: rows are fetched long after the statement was
  executed, on any thread, without the lock; steps are BUSY, bind, step, decode
  and reset throw. No finalized statement may be used, no part of the rows may
  pass for the result, no statement may be lost or keep its read lock.
* Parameters, codec, processor: sequential code with mutable lists and flags,
  whose output must fit its input (one parameter per placeholder, one value per
  column, one primary key).

`PROJECT.json` lists each hazard at its line with the properties that cover it.

## 2. Modules

### SqliteSession (external), TransactionalStore (abstract)

`SqliteSession` says what `sqlite3_exec` and `sqlite3_step` may answer to BEGIN,
COMMIT, ROLLBACK and a modification. A database is the set of writes in it; a
session has `durable`, and `work` while a transaction is open. `Faults` admits
three rare failures of SQLite's documentation: `commitFails` (COMMIT fails and
the transaction stays open), `autoRollback` (a failing statement ends the
transaction) and `readRollsBack` (so does a failing step of `getResults`). Without
them a modification or a step still may fail, with no effect.

`TransactionalStore` is what a connection promises to a client that has it for
itself: begin, commit or rollback as a whole, and the truth about each write.

### NativeConnection

A thread's call is split where another thread can run: `phase` is which call of
`withTransaction`, execSQL or close the client is in, `at` where in it: waiting
for `accessLock` (`access`), for `transactionLock` (`transaction`), at the
SQLite call (`sql`), at the update of the record (`record`), at the unlocks
(`leaveTransaction`, `leave`). `thrown` carries an exception through the
`finally` blocks. `argument`, `blockWrites` and `fate` are what the clients
know: `fate[w]` becomes `pending` (a write succeeded in a block), `saved` or
`undone` according to what the calls returned or threw, and nothing else.

| Action | Code |
|---|---|
| AcquireAccess, Release | `accessLock.withLock` in `ConcurrentDatabaseConnection` |
| AcquireTransaction, LeaveTransaction | `transactionLock.withLock` in `RealDatabaseConnection` |
| BeginSql, BeginRecord | `beginTransaction`: `BEGIN;`, then the record |
| SetSuccessful | `setTransactionSuccessful`, throws without a record |
| EndSql, EndRecord | `endTransaction`: COMMIT or ROLLBACK by the record, cleared in `finally` |
| Exec | one INSERT, UPDATE, DELETE or text |
| CloseSql | `close`: locks destroyed, handle closed |
| StartTransaction, ReturnFromBlock, ThrowInBlock, BeginReturns, EndReturns... | `withTransaction` and its caller |

`NativeConnectionInvariant` holds the inductive invariant, in layers.

### DriverCalls and DatabaseScopes

`DriverCalls` has the calls of both drivers as outcomes of one atomic call,
JDBC's auto-commit switch included (turning it on in `finally` sends another
COMMIT). `NativeConnection` justifies atomicity for a client under a mutex, which is
how both users of this module call it. `DriverCallsProofs` has what both need to know of
the calls: what begin, end and a statement make of a connection in each of its states.

`DatabaseScopes`: each coroutine builds, waits for `executiveMutex`, executes its
items (a modification, a SELECT, or a transaction group of any of the two) and returns
or throws; it may be cancelled only while it waits, because nothing suspends after. Each
statement has an identity, its place: scope, item, and where it is in its group. Writes are
the members of a database; a SELECT has a cursor and, once read, what it has `seen`. Where a
scope is in a group is `inGroup` and `statement`.

| Action | Code |
|---|---|
| BlockReturns, BlockThrows | the block of `suspendedScope` has built its list |
| LockMutex, CancelWaiting, ScopeReturns | `executiveMutex.withLock` |
| ExecuteWrite | `execute` of the other statements, alone or in a group |
| ExecuteSelect | `SelectStatement.execute`: `connection.query` returns a cursor or throws |
| NextStatement, StatementThrows, Leave | the loops of the engine and of a group, and how an exception leaves them |
| BeginGroup, MarkGroup, EndGroup | `withTransaction` around a group |
| GetResults, GetResultsThrows | `getResults` of any SELECT whose cursor is open, at any time |

A statement that throws alone leaves `executeAllStatement`; one in a group first unwinds the
group, whose end rolls back. A native SELECT reads nothing in `execute`: its cursor is stepped
in `getResults`, which takes no mutex. On JDBC `executeQuery` makes the first step, which may or
may not settle the result.

### ScopeBuilder

A statement is an id, its clauses in order, the members of a UNION, and the
container it remembers. The engine is container 1; a transaction makes a
container in it, a UNION one that `unions` stacks. `AddStatement` and `Refine`
follow `addStatement` and `changeLastStatement`, with its rejection; JOIN without
ON remembers its container in `join`. Which clause may follow which is read off
the receiver types of the extension functions (`Refinements`). `written` is kept
beside the code's state: what the client wrote and in which block. The text of a UNION
is the texts of its SELECTs (`Texts`), which may be UNIONs themselves. Columns,
layout and parameters are abstracted away.

### Migration

`openDatabase` on one file: creation lock of the process, open flags, journal
mode, `withTransaction { migrateIfNeeded }` with its callback of `Parts`
statements and PRAGMA `user_version`, the `close` of the `catch`. `Crash(p)`
kills a process at any step. Between connections SQLite is external: a
transaction fixes its snapshot at its first read, one writer at a time, and a
write on a stale snapshot fails. Waiting in the busy timeout is abstracted to a
failure or to later success.

Two history variables are beside the code's state: `asked`, the configurations each opener
has asked for, and `lost`, its handles that an exception before the `try` left behind.
`OpensAtItsVersion` needs the first to say whose upgrade an opener may meet, `CommitsForBoth`
to name the callbacks that end the migration's transaction early, and `ThrowLeavesNothing`
the second to say which handles an opener that threw still has. `ConfigurationAssumption`
says that there is a configuration to open with.

### NativeStatements

One native connection and every `sqlite3_stmt` on it, from prepare to finalize. A
thread's call is split at each call of SQLite: `pc` in `Writing` is inside a
driver call and its lock, `pc` in `Reading` inside `getResults`, which has no lock.

| Action | Code |
|---|---|
| Prepare, BindThrows, BindQuery, BindWrite | `createStatement` and `bindParamsToSQL` in `NativeDatabaseConnection`, `SelectStatement.execute` |
| ExecuteNonQuery, ResetAndClear, FinalizeWrite | a write, and its `finally` |
| ReadResult, ReadCursor, Step, Decode, Store, CloseCursor | `getResults`: the two null checks, the loop, `use` |
| Close | `sqlite3_close_v2`, with the connection a zombie while statements are open |
| Misuse, Crash | a call on a finalized statement: undefined, any outcome a build may show |
| Lock, Unlock | another connection at the file |

Four history variables keep who is to blame: `unbound` (bind threw), `again`
(executed twice), `raced` (two threads in `getResults`), `failed` (read again
after an exception). The properties say that nobody else meets the damage.

### Conditions

Parameter lists are mutable objects shared by conditions and statements, so
`lists` is a heap and conditions and statements hold references. A text is its
comparisons in order with the operator before each; `Holds` gives it SQL's
precedence. `means` is what the client wrote, `mixed` and `reused` record an OR
under an AND and a condition used twice. ORDER BY, LIMIT and functions have no
parameters and are left out.

### TableSchema, TableStatements, MCTableStatements

`TableSchema` is the processor on one class: property by property, columns with
their comma, accessors, and the parser's fields. What SQLite makes of the text
(`CreateIsAccepted`) is external. `TableStatements` composes it with CREATE,
INSERT of several entities (column list, tuples with their marks, id left out
or not, where the processor takes a ULong key for a row id and SQLite does not; constraints
and row ids external) and with `Conditions`. What follows
the descriptor goes through `UpTo`, which selects places in order, and `Stored`
adds the entities one by one: recursive functions, so that they can be proved about.
`MCTableStatements` has the 24 classes.

## 3. Runs

| Run | Shows |
|---|---|
| `native_shared` | two uncoordinated threads, three writes: `OneTransaction`, `RecordTracksSession`, `UndoneIsGone`, `AllOrNothing`, `DurableOnlyByCommit`, `LocksAreReleased`, and the invariant the proofs use (`WriteInv`) |
| `native_exclusive` | the threads take turns: `SavedIsDurable`, `EndEndsTransaction`, `ClientsReturn`, `ExclusiveInv`, and the refinement `ImplementsStore` |
| `native_commit_fails` | finding: `EndEndsTransaction` fails when COMMIT does |
| `scopes` | two coroutines, five lists, both drivers, throwing SELECTs and writes, automatic rollbacks: `EffectsAreItemsPassed`, `TransactionIsOfMutexHolder`, `SelectSeesItsPast`, `ScopesFinish` |
| `select_isolation` | finding: `SelectReadsOnlyFinishedScopes` fails |
| `builder` | every block of the size below: `PlanIsWhatWasWritten`, `PlanIsInOrder`, `TransactionsAreBlocks`, `FluentIsNeverRejected` |
| `builder_nested` | finding: `TransactionsAreBlocks` fails for nested transactions |
| `migration` | three openers, two processes, both drivers: `MigrationsAreWhole`, `MigrationsFormAChain`, `ThrowLeavesNothing`, `OpensAtItsVersion` |
| `migration_journal` | finding: `OpensInItsJournalMode` fails |
| `native_statements` | two threads execute, read and close while another connection locks the file: `OnlyOpenStatementsAreUsed`, `ResultsAreWhole`, `OpenStatementsAreReachable`, `ReadLocksAreReleased`, `CallsEnd` |
| `table_statements` | 24 classes through processor, CREATE and INSERT; small conditions in statements: `GeneratedTablesAreExplained`, `InsertsStoreTheEntities`, `KeysIdentifyRows`, `ParametersMatchPlaceholders`, `PlainConditionsMeanWhatIsWritten` |
| `conditions_precedence` | finding: `ConditionsMeanWhatIsWritten` fails |

Bounds, and why they are enough:

* Two threads have every interference of the connection: the code never counts
  threads, an owner meets one other. Three writes make a block of two with a
  foreign one between. Each write is used once, which bounds the behaviour;
  begin, end and close are unbounded.
* In `scopes` one coroutine executes while the other waits, is cancelled, or has returned or
  thrown and reads its SELECTs; one waits for the other in every way it can leave the mutex.
  Lists have writes and SELECTs before, in and after groups of 0 to 3 statements, a SELECT in
  each place of a group. `autoRollback` is on; `commitFails` and `readRollsBack` are off because
  a scope does not survive them (finding 1, and the list after the findings).
* `MaxStatements` = 3 with two blocks of depth two puts a statement before, in and after
  a construct and one construct in another in either order; `MaxClauses` = 2 reaches each
  replacement. A UNION in a UNION takes five statements, three SELECTs and two UNIONs:
  `MaxSelects` = 5 admits them to blocks that write nothing else. `Freedom` adds what an unusual client does: catching an exception
  inside the scope, or nesting transactions.
* Statements: two threads share one SELECT of two rows, so both can be in
  `getResults` between any two rows; `MaxTries` = 2 stands for 50 (one retry and
  the last one); two statements are a write beside a SELECT, or a SELECT executed
  twice. Nothing is prepared after the second, hence no deadlock check.
* Conditions: three comparisons of 0 or 2 placeholders, four conditions, two
  statements and one execute give every chain and every sharing of one list by two
  statements. At most one comparison is reused, since what follows a reuse is outside the
  property. DELETE .. WHERE takes a condition as SELECT .. WHERE does
  and nothing can follow it, so the instance starts with SELECT, JOIN and UPDATE.
  Rows and conditions do not meet (what a comparison finds is SQLite's), so a
  class explores either: one class the conditions, the others up to two rows
  of two values. The run ends when a scope has executed or the table is full.
* Each of the 24 classes has one feature the processor or the encoder must get right: the key
  first, last, alone, nullable or not, of each type, twice, composite; a property without
  column or field in front or behind, or computed and part of the key; no property at all.
* Openers `o1`, `o2` share a process, `o3` has its own: both the lock and its
  absence occur. Versions 1 and 2 make create, upgrade and "newer file".
  `MaxOpens` = 1 per opener, and openers die and reopen through others.

Fairness is weak everywhere. `FairSpec` of the connection: a thread that can move
inside a call does (the system schedules threads), and a block that is running
returns or throws. Nothing is assumed between threads that wait for a mutex,
because pthread promises nothing there: with threads that share a connection only
`LocksAreReleased` is claimed, and `ClientsReturn` only for clients that take turns.
Starting a call is never fair: clients need not do anything. `FairSpec` of the
scopes: the dispatcher runs a coroutine that can run; building, cancelling and
reading results are the client's choice. Weak fairness is enough there because
each scope locks the mutex once. `NativeStatements`: a thread inside a call goes on
with it; clients need not start calls, and the other connection need never
unlock, so `CallsEnd` rests on the bounded retries alone. A thread that waits for the
connection's lock has not started its call in that model, so `CallsEnd` says nothing of
waiting; `LocksAreReleased` does.

## 4. Proofs

| Module | Theorem | Assumes |
|---|---|---|
| `NativeConnectionProofs` | `TypeCorrect` | nothing |
| | `TransactionsDoNotOverlap` (`OneTransaction`) | no `autoRollback` |
| | `RecordAgreesWithSession` (`RecordTracksSession`) | no faults |
| | `BlocksAreAtomic` (`AllOrNothing`) | no faults |
| | `UndoneStaysGone` (`UndoneIsGone`) | no faults |
| | `OnlyCommitMakesDurable` (`DurableOnlyByCommit`) | no faults |
| | `WritesAreAccounted` (`WriteInv`) | no faults |
| | `TransactionsEnd` (`EndEndsTransaction`) | no faults |
| | `SavedStaysDurable` (`SavedIsDurable`) | no faults, exclusive clients |
| | `ExclusiveWritesAreAccounted` (`ExclusiveInv`) | no faults, exclusive clients |
| | `ConnectionImplementsStore` (`ImplementsStore`) | no faults, exclusive clients |
| `NativeStatementsProofs` | `TypesAndLock` (`TypeOK`) | the bounds are numbers |
| | `ReadLocksEnd` (`ReadLocksAreReleased`) | the same |
| | `OpenStatementsStayReachable` (`OpenStatementsAreReachable`) | the same |
| | `FinalizedStatementsAreNotUsed` (`OnlyOpenStatementsAreUsed`) | the same |
| | `ResultsStayWhole` (`ResultsAreWhole`) | the same |
| `DatabaseScopesProofs` | `ScopesAreTyped` (`TypeOK`) | no `commitFails`, no `readRollsBack` |
| | `EffectsAreThoseOfItemsPassed` (`EffectsAreItemsPassed`) | no `commitFails`, no `readRollsBack` |
| | `TransactionBelongsToMutexHolder` (`TransactionIsOfMutexHolder`) | no `commitFails`, no `readRollsBack` |
| | `SelectsSeeTheirPast` (`SelectSeesItsPast`) | no `commitFails`, no `readRollsBack` |
| `MigrationProofs` | `MigrationIsTyped` (`TypeOK`) | nothing |
| | `ThrowsLeaveNothing` (`ThrowLeavesNothing`) | nothing |
| | `MigrationsStayWhole` (`MigrationsAreWhole`) | nothing |
| | `MigrationsStayAChain` (`MigrationsFormAChain`) | nothing |
| | `ReturnsAtItsVersion` (`OpensAtItsVersion`) | nothing |
| `ScopeBuilderProofs` | `BuilderIsTyped` (`TypeOK`) | nothing |
| | `ChainsAreAccepted` (`FluentIsNeverRejected`) | nothing |
| | `PlansAreWhatWasWritten` (`PlanIsWhatWasWritten`) | nothing |
| | `PlansAreInOrder` (`PlanIsInOrder`) | nothing |
| | `TransactionsStayBlocks` (`TransactionsAreBlocks`) | no `nest` |
| `TableStatementsProofs` | `ParametersMatch` (`ParametersMatchPlaceholders`) | nothing |
| | `ConditionsAreReadAsWritten` (`PlainConditionsMeanWhatIsWritten`) | nothing |
| | `Types` (`TypeOK`) | nothing |
| | `GeneratedTables` (`GeneratedTablesAreExplained`) | nothing |
| | `InsertsStore` (`InsertsStoreTheEntities`) | nothing |
| | `KeysIdentify` (`KeysIdentifyRows`) | nothing |

"Nothing" is: nothing but the named assumptions on the constants. The theorems hold for every
set of threads and writes; those on statements for every set of threads and SELECTs, every
number of rows, retries and statements; those on scopes for every set of coroutines and lists
of any length, groups of writes and SELECTs, both drivers, and automatic rollbacks by the
statements that scopes execute; those on migration for any openers,
processes, versions and length of callback, both drivers and every fault; those on the builder
for blocks of any size and nesting; those on conditions for any number of comparisons with any
number of placeholders, of conditions, statements and scopes; those on tables for classes of any number of
properties, any number of rows and of entities in one INSERT. "No faults" is `Faults = {}`:
statements still fail, BEGIN in a transaction still fails, but COMMIT does not
fail in one and SQLite does not roll back by itself. The assumptions are needed:
`native_commit_fails` shows what a failing COMMIT does to a connection (in `DatabaseScopes` the
next scope's group then fails to begin, and its single statements join the open transaction),
a `getResults` whose step rolls back takes the work of whichever scope executes, and
`builder_nested` shows what a nested transaction does. A migration bears a failing COMMIT because
`openDatabase` closes the connection on any exception.

The arguments. None of the properties of the connection is inductive: that blocks do not overlap
depends on SQLite refusing BEGIN, hence on an owner having the session's
transaction, hence on where a thread can be in each call. The invariant grows in
layers, each inductive with those before it:

1. `TypeInv`: types, and a call that writes carries a write.
2. `OwnerInv`: which call passes through which place (`PlacesFitPhases`), close is the
   last call, the owner of a transaction has it open (`OwnerHasSession`) and is alone.
3. `RecordInv`: who holds which lock, a transaction has an owner, the record is
   what the owner's phase says, mark and end do not throw.
4. `WriteInv`: where each write is against what was told; a block's writes are all
   in the session's work, all durable, or all gone.
5. `ExclusiveInv`: one client at a time, so a single write commits by itself and
   a pending write belongs to the running block.

For the statements, `TypeOK` includes that the thread in a driver call is the one
with the lock. It is not inductive: `CallsInv` adds that a crash ends every thread,
that a call past its beginning has a statement and a SELECT, and that the loop of
`step` has tries left. `ReadLocksAreReleased` needs more, `LocksInv`: a statement at a row must
be in somebody's hands, and nobody else may take it away, so the statement of a driver
call is of that call alone, and at no row before its bind. That follows from the
lock: at most one thread is in a driver call, and only a driver call sets a cursor. Every
step of a call is then one kind of move (`MovesOn`), treated once (`LocksMove`).

Each layer of the connection has a lemma for the steps inside the connection and one for the steps
of clients. `native_shared` and `native_exclusive` check the last two layers as
invariants, so TLC agrees with what is proved. The refinement needs
exclusiveness: with two threads a single write can land in the other's
transaction, and the store told `saved` would be lied to.

What becomes of a statement rests on `CallsInv`, `LocksInv` and two more layers. `ReachInv`: a
cursor, and the statement of a call, are of the SELECT they are used for; a result came from a
cursor; and a reader has the cursor of its SELECT unless that was executed again. `UseInv`: two
readers of one SELECT are recorded as a race, and in a read that is none of those the history
variables name (`Disturbed`) the statement is not finalized and the rows so far are all those
before the statement's position (`RowsFit`), which a BUSY step leaves where it was. `ResultsAreWhole`
is then the case of the last row.

The scopes (`ExecutionInv`): a scope executes exactly when it holds the mutex, at an item and a
statement of its list (`PlaceInv`), the connection is inside a transaction only for its group
(`ConnectionInv`), with exactly the writes of the group so far as its work, or nothing of it
after an automatic rollback, when the group unwinds; and the database is the union of the items that
scopes are past (`DurableInv`). `ScopesInv` adds the SELECTs (`SelectInv`): the cursor of a place the
scope has not reached is `none`, and one that was read has seen what was before its place, its own
group's writes as long as the group is not lost. It needs no more than that what is visible
contains what is before (`VisibleHas`), and that nothing before a place is added later.
`DriverCallsProofs` says once, for both drivers, what begin, end, a write, a query and a step do
to a connection that is `Inside` or `Outside`; for JDBC the `finally` of the end is the hard case, since switching auto-commit on
commits.

The migration has two invariants. `TypeInv` has what needs no trust in callbacks: handles counted
exactly (`HandlesInv`), the creation lock held by whom the stage says (`LockInv`), and a version
that PRAGMA `user_version` answers, since the marks in a file have a newest (`NewestInv`).
`ChainInv` needs that no two processes write on one file state: an opener that has work is the
only writer and its snapshot is the file (`WriterInv`), its work is the parts of its callback so
far, and the marks of the file form a chain that its migration extends by one. Callbacks that
commit for both (JDBC, with a transaction of their own) break wholeness and the chain;
`OneTransactionEach`, the condition of those two properties, is carried through the proof as an
implication, so `OpensAtItsVersion` and `ThrowLeavesNothing` do not depend on it.

The builder's invariant `Safe` is about containers that are not yet executed. `ContainersInv`: a
group is in the engine's list once, the groups of open UNIONs are nowhere else, and the open
transaction group is the engine's last entry. `HandlesInv`: the last statement of the container
that a chain remembers is the one the chain made. `TextsInv`: every text is in one place
(`SpotsDiffer`), every statement that is not dropped is in a place (`WrittenIsKept`), and a place
holds what was written (`SpotsAreWritten`), where a place is a text of a UNION as much as a
statement. `UnionsInv` pairs the open UNION groups with the UNION blocks by a function and bounds
the numbers of what is in them, so that an exception, which loses a group with all it holds,
drops only what its block wrote. `OrderInv`: numbers rise along each container and along the
engine's list. `BlocksInv` is needed by `TransactionsStayBlocks` alone and is not inductive where
transactions nest. The properties are about the plan, the concatenation of concatenations of
texts: `Flattened` says of `FlattenSeq` that its result has each element of each sequence once
and in order, and `PlanIs` that the plan is one execution of each text of each executed container.
The proof found what TLC's bounds had hidden: a UNION inside a UNION has a text of its own in the
outer one, which `Texts` left out, so `PlanIsWhatWasWritten` was false of such blocks in the model;
`builder` now has them.

The conditions' invariant (`ConditionInvariant`) has two halves. `ConditionsAreMeant`: the text of a
condition begins without an operator and has one before every other comparison (`Shaped`), and
SQLite reads it as it was meant unless an operand of AND is an OR; `HoldsOr` and `HoldsAnd` say what
chaining does to `Holds`, which looks for a group of comparisons between two ORs. `ListsAreSound`
is about the mutable parameter lists. A condition or statement *holds* a list; it is live while it
can still be executed with it, that is a statement until the end of the scope, and a condition until
it is used. A list begins with a parameter of a comparison of its holder; a live holder none of
whose comparisons is in `reused` has exactly its placeholders in its list; and two live holders
share a list only if that first parameter's comparison is in `reused`. The third part is what makes the
second inductive: appending to a list changes it for everybody who shares it. Every action then
hands the lists of some holders on to a new one (`Handed`), after which they are no longer live, or
their comparisons are in `reused`; `TakesOver` proves this once for AND, OR, the clauses and
UNION. For UNION, `MergesNext` goes through the statements one by one. `SequenceProofs` has the
lemmas on `FlattenSeq` and least counterexamples that this proof shares with the builder's.

The table's invariant (`TableInvariant`) begins with what the processor has done with the properties
before the one it is at (`SchemaInvariant`): one column for each that has one, in order and as
`ColumnFor` says (`ColumnsWritten`), accessors likewise, the keys among them, and that they passed
the checks. From it follow the columns SQLite finds in the text (`TableIs`), that commas are right
exactly when the last property has a column (`CommasAre`), and so when CREATE fails
(`CreateFailsFor`). `UpToSelects` says of `UpTo` that its result has each selected number once and in
order, hence what an INSERT names (`NamesAre`) and the row it makes of an entity (`NewRowIs`);
`StoredIs` goes through the entities one by one, with a fresh row id each that is larger than all
before it. An INSERT that has none of the four reasons to throw is well formed
(`InsertIsWellFormed`) and breaks no constraint (`ConstraintsHold`): its class then has a column and
an element for each property at the same place, and a key only if it is a row id that SQLite gives.
Rows keep a row id and every backed part of a composite key (`KeysAreGiven`), which with the
constraints makes keys identify rows. The proof found two kinds of class the
instance had not: one without properties, for which CREATE fails, and a computed property in a
composite key, which INSERT never fills, so that its key is NULL and identifies nothing;
`CreateFailureIsExplained` and `KeysIdentifyRows` name them now, and `table_statements` has them.

Only model-checked: `LocksAreReleased`, `ClientsReturn`, `ScopesFinish`, `CallsEnd`
(liveness under fairness, which the prover cannot treat, as it cannot treat ENABLED). Every
invariant and action property of a passing run is a theorem. The library's induction theorems take an
operator as a parameter, which the provers cannot instantiate; where induction was needed
(`Flattened`, `MergedAllIs`, `UnionMerges`, `UpToSelects`, `StoredIs`), it is on a least counterexample, from the library's
`WFMin` and `NatLessThanWellFounded`, and unfolds the recursive function by hand. No module has a
RECURSIVE operator.

## 5. Findings

1. `endTransaction` whose COMMIT fails clears its record and sends no ROLLBACK:
   SQLite's transaction stays open, every later BEGIN fails, later single
   statements land in it (`RealDatabaseConnection.kt:88`; `DatabaseConnection.kt:75`
   promises the end of the transaction).
2. A native SELECT is stepped in `getResults`, outside the mutex: it can read
   another scope's uncommitted rows (`SelectStatement.kt:59`; `concurrency-safety.md:51`).
3. Nested `transaction { }`: the inner end closes the outer group, the rest runs
   outside any transaction (`DatabaseScope.kt:116`; KDoc line 59 allows nesting).
4. `updateJournalMode` never steps its PRAGMA: on native the mode is not set
   (`Extension.kt:132`).
5. AND and OR join texts without parentheses: `(a OR b) AND c` is read as
   `a OR (b AND c)` (`SelectCondition.kt:57`; its KDoc lines 45 and 52 show parentheses).

Explained by properties of passing runs, where they appear as the exceptions those
properties name:

* a condition used in two clauses or twice in one has more parameters than
  placeholders (`ParametersMatchPlaceholders`);
* CREATE fails for a last property without a column, for `@PrimaryKey` together with
  `@CompositePrimaryKey` on another property (`CreateStatementModifiers.kt:70` says not to mix
  them; only one property's annotations are compared), for a ULong AUTOINCREMENT key, and
  for a class without properties; a computed property shifts the names of the accessors
  behind it; setters behind a Long key accept null (`GeneratedTablesAreExplained`);
* INSERT throws if the id it leaves out is declared last
  (`InsertsStoreTheEntities`); a ULong `@PrimaryKey` is left out as if it were a row id, so the
  value that the client gave is dropped and NULL stored (`ColumnConstraintParser.kt:216`, while
  `EncodeEntities2SQL.kt:37` says that only the ids of `Long?` keys are left out;
  `InsertsStoreTheEntities`); a computed part of a composite key is never inserted and stays
  NULL (`KeysIdentifyRows`);
* `getResults` after a `getResults` that threw, or on two threads at once, uses a
  finalized statement (`OnlyOpenStatementsAreUsed`); a bind that throws, or a
  second execute, loses a statement (`OpenStatementsAreReachable`).

Seen while modelling, with no run of their own: a native SELECT shows what its own scope
writes after it, because it is stepped after the whole list (`SelectStatement.kt:59`;
`Database.kt:58` says "executed in order"); a step of `getResults` that fails for I/O or memory
inside another scope's transaction may make SQLite roll that back, and the scope goes on and
commits the rest of its group by single statements (`SelectStatement.kt:73`; fault
`readRollsBack`); `isReadOnly` opens read-write and migrates when the file allows it (`NativeDatabase.kt:47`, `DatabaseConfiguration.kt:25`); a
`@PrimaryKey` of another type than Long must be nullable (`ColumnConstraintParser.kt:206`), where
`CreateStatementModifiers.kt:43` and `getting-start.md:234` say non-null; the comment at
`NativeDatabase.kt:125` expects `sqlite3_close_v2` to report open statements; a
`transaction { }` whose block throws and is caught in the scope keeps its group,
which then commits (`DatabaseScope.kt:133`); over JDBC a callback with its own
`transaction { }` commits the migration early, which `OneTransactionEach` excludes from two
properties; the mode updates before the `try` leak the handle when they throw
(`ExtensionNative.kt:36`, stage `threwEarly`); schema changes start with the text
`ALERT TABLE` (`Alert.kt:67`); a `UNION` in a `UNION_ALL` loses its grouping, because texts
are joined without parentheses and SQLite then reads from left to right
(`UnionSelectStatementGroup.kt:54`).

## 6. Limits of the models

* close waits until no other client is inside (`MayStart`); a close that races blocked
  threads destroys a locked mutex, which is undefined and not modelled.
* `query` and `createStatement` change no state of the connection and are left
  out of `NativeConnection`; their statements are in `NativeStatements`, which in
  turn knows no transactions. After close a client there calls only `getResults`.
* Cursors of JDBC and Android own no SQLite statement here; `ConcurrentStatement`
  is on the path of no connection call.
* The decoder is one step that gives the row or throws: its defaults for NULL and
  its treatment of missing columns are not modelled.
* Not in `TableSchema` and `TableStatements`: foreign keys, UNIQUE and COLLATE, the layout
  of texts, UPDATE and DELETE of rows, ORDER BY, LIMIT and functions, ALTER
  TABLE, indexes and PRAGMAs. ULong values above `Long.MAX_VALUE` sort as negative
  numbers (`ClauseNumber.kt:55`); values have no order in the model.
* `DatabaseScopes` has one Database; a second process at the file is only in
  `Migration`. Its runs of passing properties have no failing COMMIT and no rollback by
  `getResults`. A cursor is read in one step, not row by row, and what a second `getResults` does
  after one that threw is in `NativeStatements`.
* A fluent chain of the builder is written in one expression: a statement kept in a variable, and
  refined after another statement was written, cannot be written in `ScopeBuilder`.
* Where several threads share a connection without a mutex, nothing is claimed for a single write that
  lands in another thread's transaction, but that its failure leaves nothing behind. Several
  threads in transactions of one JDBC connection without the mutex are not modelled.
* Data is abstract: a modification is one write, a statement its clauses.

## 7. Plan

Built: the connection, its abstract store and proofs; scopes and migration, which
use it, and their proofs; the builder with its proofs; statements and cursors with theirs;
conditions and parameters; tables and INSERTs, with the proofs of both. Next:

1. The JDBC connection shared by threads without the mutex, where a second begin is
   silently none; close of a native connection with threads blocked on its lock.
2. The decoder against rows of `TableStatements`: NULL, missing columns, defaults.
3. Paths as an operator.
