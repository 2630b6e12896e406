------------------------------ MODULE Migration ------------------------------
(***************************************************************************)
(* openDatabase on one database file, by openers in one or more processes: *)
(* the creation lock of the process, the journal mode, and                 *)
(* migrateIfNeeded inside withTransaction, with create and upgrade         *)
(* callbacks of Parts statements; exceptions anywhere, and crashes of a    *)
(* process at any moment.                                                  *)
(*                                                                         *)
(* The calls on an opener's connection are those of DriverCalls; what      *)
(* SQLite does between connections (snapshots, one writer, BUSY) is an     *)
(* external model.                                                         *)
(***************************************************************************)
EXTENDS DriverCalls, Integers, FiniteSetsExt

CONSTANTS
  Opener, Process,
  ProcessOf,     \* the process each opener lives in
  Free,          \* the value of a creation lock nobody holds
  Versions,      \* versions a configuration may ask for
  MaxOpens,      \* bound: calls of openDatabase per opener
  JournalModes,  \* journal modes a configuration may ask for
  Parts,         \* statements of a callback
  ReadOnly,      \* the values isReadOnly may have in a configuration
  ScopedCallback \* whether a callback may wrap itself in transaction { }

ASSUME OpenersAssumption == ProcessOf \in [Opener -> Process] /\ Free \notin Opener
ASSUME BoundsAssumption == Parts \in Nat /\ MaxOpens \in Nat
(* A version of 0 cannot be told from a file without a schema. *)
ASSUME VersionsAssumption == Versions \subseteq Nat \ {0}
ASSUME JournalModesAssumption == JournalModes \subseteq {"DELETE", "WAL"}
ASSUME ConfigAssumption == ReadOnly \subseteq BOOLEAN /\ ScopedCallback \subseteq BOOLEAN

(* The changes a migration makes: part k of the callback that goes from    *)
(* one version to another, and, as part 0, PRAGMA user_version = to.       *)
Change(from, to, k) == [from |-> from, to |-> to, part |-> k]
ASSUME WriteAssumption ==
  Write = {Change(f, v, k) : f \in Versions \union {0}, v \in Versions, k \in 0 .. Parts}

UserVersion(db) == Max({w.to : w \in {x \in db : x.part = 0}} \union {0})

Configuration ==
  [version : Versions, isReadOnly : ReadOnly, journalMode : JournalModes, scoped : ScopedCallback]
ASSUME ConfigurationAssumption == Configuration # {}

VARIABLES
  file,          \* what is durable in the database file
  journalMode,   \* the journal mode recorded in the file
  writable,      \* whether the operating system lets us write the file
  connection,    \* the connection of each opener
  handles,       \* SQLite handles of each opener's process not closed yet
  snapshot,      \* the file as a transaction of an opener first read it
  creationLock,  \* connectionCreationLock (native), lock (jdbc), per process
  config,        \* the configuration of the openDatabase call
  stage,         \* where each opener is in openDatabase
  initialVersion,\* the version migrateIfNeeded read
  part,          \* the statement of the callback the opener is at
  opens,         \* calls of openDatabase so far
  asked, lost    \* history, see below

(* asked: the configurations each opener has asked for.  lost: its handles *)
(* that nobody can close any more.                                         *)
history == <<asked, lost>>
fileVars == <<file, journalMode, writable>>
openerVars == <<config, initialVersion, part, opens>>
vars == <<fileVars, connection, handles, snapshot, creationLock, stage, openerVars, history>>

Stages == {"closed", "waiting", "opening", "journal", "begin", "version",
           "scope", "callback", "leaveScope", "setVersion", "mark", "end",
           "unwind", "unwindScope", "close", "open", "threw", "threwEarly"}
Idle == {"closed", "threw", "threwEarly"}

Closed(o) == OpenConnection(connection[o].platform, EmptySession)

NoSnapshot == {Change(0, 0, 0)}   \* no file is ever this set

(* The variables stay within their types. *)
TypeOK ==
  /\ file \subseteq Write
  /\ journalMode \in {"DELETE", "WAL"}
  /\ writable \in BOOLEAN
  /\ connection \in [Opener -> Connection]
  /\ handles \in [Opener -> 0 .. MaxOpens]
  /\ snapshot \in [Opener -> (SUBSET Write) \union {NoSnapshot}]
  /\ creationLock \in [Process -> Opener \union {Free}]
  /\ config \in [Opener -> Configuration]
  /\ stage \in [Opener -> Stages]
  /\ initialVersion \in [Opener -> Versions \union {0}]
  /\ part \in [Opener -> 1 .. Parts + 1]
  /\ opens \in [Opener -> 0 .. MaxOpens]
  /\ asked \in [Opener -> SUBSET Configuration]
  /\ lost \in [Opener -> 0 .. MaxOpens]

(* No database yet, or one that create left at some version. *)
Init ==
  /\ file \in {{}} \union {{Change(0, v, k) : k \in 0 .. Parts} : v \in Versions}
  /\ journalMode = "DELETE"
  /\ writable \in BOOLEAN
  /\ connection \in {[o \in Opener |-> OpenConnection(p, EmptySession)] : p \in Platforms}
  /\ handles = [o \in Opener |-> 0]
  /\ snapshot = [o \in Opener |-> NoSnapshot]
  /\ creationLock = [p \in Process |-> Free]
  /\ config = [o \in Opener |-> CHOOSE c \in Configuration : TRUE]
  /\ stage = [o \in Opener |-> "closed"]
  /\ initialVersion = [o \in Opener |-> 0]
  /\ part = [o \in Opener |-> 1]
  /\ opens = [o \in Opener |-> 0]
  /\ asked = [o \in Opener |-> {}]
  /\ lost = [o \in Opener |-> 0]

-----------------------------------------------------------------------------
(* SQLite between connections (external) *)

(* The session of o over the file as it is now. *)
Now(o) == [connection[o] EXCEPT !.session.durable = file]

(* A write needs a file that can be written, no other writer, and, in a    *)
(* transaction that has read, a file nobody committed to since.            *)
MayWriteFile(o) ==
  /\ writable
  /\ \A u \in Opener \ {o} : connection[u].session.work = {}
  /\ snapshot[o] \in {NoSnapshot, file}

WriteCall(o, w) == IF MayWriteFile(o) THEN ExecCall(Now(o), w) ELSE {Throw(Now(o))}

(* PRAGMA journal_mode = m: other connections may keep the mode in force.  *)
JournalModeSet(o) ==
  LET alone == \A u \in Opener \ {o} : handles[u] = 0
  IN  CASE ~writable -> {journalMode}
        [] alone     -> {config[o].journalMode}
        [] OTHER     -> {journalMode, config[o].journalMode}

(* A call took effect: the connection, what became durable, and the end of *)
(* the read transaction if there is none any more.                         *)
Effect(o, outcome) ==
  LET s == outcome.connection.session
  IN  /\ connection' = [connection EXCEPT ![o] = [outcome.connection EXCEPT !.session.durable = {}]]
      /\ file' = s.durable
      /\ snapshot' = IF s.inTransaction THEN snapshot ELSE [snapshot EXCEPT ![o] = NoSnapshot]
      /\ UNCHANGED <<journalMode, writable, handles, history>>

-----------------------------------------------------------------------------
GoTo(o, s) == stage' = [stage EXCEPT ![o] = s]

(* o makes a call and goes on to stage next, or, if it throws, to failed.  *)
Calling(o, from, outcomes, next, failed) ==
  /\ stage[o] = from
  /\ \E outcome \in outcomes :
       /\ Effect(o, outcome)
       /\ GoTo(o, IF outcome.ok THEN next ELSE failed)
  /\ UNCHANGED creationLock

Step(o, from, next) ==
  /\ stage[o] = from
  /\ GoTo(o, next)
  /\ UNCHANGED <<fileVars, connection, handles, snapshot, creationLock, history>>

Call(o) ==
  /\ stage[o] \in Idle
  /\ opens[o] < MaxOpens
  /\ opens' = [opens EXCEPT ![o] = @ + 1]
  /\ \E c \in Configuration :
       /\ config' = [config EXCEPT ![o] = c]
       /\ asked' = [asked EXCEPT ![o] = @ \union {c}]
  /\ GoTo(o, "waiting")
  /\ UNCHANGED <<fileVars, connection, handles, snapshot, creationLock, initialVersion, part, lost>>

Lock(o) ==
  /\ stage[o] = "waiting"
  /\ creationLock[ProcessOf[o]] = Free
  /\ creationLock' = [creationLock EXCEPT ![ProcessOf[o]] = o]
  /\ GoTo(o, "opening")
  /\ UNCHANGED <<fileVars, connection, handles, snapshot, openerVars, history>>

Unlock(o) == creationLock' = [creationLock EXCEPT ![ProcessOf[o]] = Free]

(* sqlite3_open_v2 always asks for a read-write connection, isReadOnly or  *)
(* not; it gives a read-only one when the file cannot be written, which    *)
(* openNativeDatabase refuses unless the configuration is read-only.       *)
(* JDBC: DriverManager.getConnection, with the journal mode set.           *)
OpenFile(o) ==
  /\ stage[o] = "opening"
  /\ handles' = [handles EXCEPT ![o] = @ + 1]
  /\ IF connection[o].platform = "native"
     THEN /\ GoTo(o, IF writable \/ config[o].isReadOnly THEN "journal" ELSE "close")
          /\ UNCHANGED journalMode
     ELSE /\ GoTo(o, "begin")
          /\ journalMode' \in JournalModeSet(o)
  /\ UNCHANGED <<file, writable, connection, snapshot, creationLock, openerVars, history>>

(* No handle was given: withLock lets the exception out. *)
OpenFails(o) ==
  /\ stage[o] = "opening"
  /\ Unlock(o)
  /\ GoTo(o, "threw")
  /\ UNCHANGED <<fileVars, connection, handles, snapshot, openerVars, history>>

(* updateJournalMode: the PRAGMA that sets the mode is only prepared; its  *)
(* cursor is closed without a step.                                        *)
UpdateJournalMode(o) == Step(o, "journal", "begin") /\ UNCHANGED openerVars

(* Reading the modes in force failed.  The try block that closes the       *)
(* connection begins only after it: the handle stays open.                 *)
PragmaThrows(o) ==
  /\ stage[o] = "journal"
  /\ Unlock(o)
  /\ lost' = [lost EXCEPT ![o] = @ + 1]
  /\ GoTo(o, "threwEarly")
  /\ UNCHANGED <<fileVars, connection, handles, snapshot, openerVars, asked>>

(* Variant: migrateIfNeeded without withTransaction. *)
BeginNothing(o) == Step(o, "begin", "version") /\ UNCHANGED openerVars

BeginMigration(o) ==
  /\ Calling(o, "begin", BeginCall(Now(o)), "version", "close")
  /\ UNCHANGED openerVars

IsActualReadOnly(o) == connection[o].platform = "native" /\ ~writable

Callback(o) == IF config[o].scoped THEN "scope" ELSE "callback"

(* Variant: any other version is upgraded from, a newer one included. *)
ReadVersionOnly(o) ==
  /\ stage[o] = "version"
  /\ initialVersion' = [initialVersion EXCEPT ![o] = UserVersion(file)]
  /\ part' = [part EXCEPT ![o] = 1]
  /\ snapshot' = [snapshot EXCEPT ![o] = file]
  /\ GoTo(o, IF UserVersion(file) = config[o].version THEN "mark" ELSE Callback(o))
  /\ UNCHANGED <<fileVars, connection, handles, creationLock, config, opens, history>>

(* PRAGMA user_version, and what migrateIfNeeded decides from it. *)
ReadVersion(o) ==
  LET found == UserVersion(file)
      wanted == config[o].version
  IN  /\ stage[o] = "version"
      /\ initialVersion' = [initialVersion EXCEPT ![o] = found]
      /\ part' = [part EXCEPT ![o] = 1]
      /\ snapshot' = [snapshot EXCEPT ![o] = file]
      /\ GoTo(o, CASE found = 0      -> Callback(o)
                   [] found = wanted -> "mark"
                   [] found > wanted -> "unwind"
                   [] OTHER          -> IF IsActualReadOnly(o) THEN "unwind" ELSE Callback(o))
      /\ UNCHANGED <<fileVars, connection, handles, creationLock, config, opens, history>>

ReadVersionThrows(o) == Step(o, "version", "unwind") /\ UNCHANGED openerVars

(* create or upgrade: Parts statements, each of which may fail, as may the *)
(* callback's own code between them.  A DSL callback may put them in       *)
(* transaction { }, inside the transaction of migrateIfNeeded.             *)
Migrating(o, k) == Change(initialVersion[o], config[o].version, k)
AfterFailure(o) == IF config[o].scoped THEN "unwindScope" ELSE "unwind"

BeginScope(o) ==
  /\ Calling(o, "scope", BeginCall(Now(o)), "callback", "unwind")
  /\ UNCHANGED openerVars

CallbackStatement(o) ==
  /\ part[o] <= Parts
  /\ Calling(o, "callback", WriteCall(o, Migrating(o, part[o])), "callback", AfterFailure(o))
  /\ part' = IF stage'[o] = "callback" THEN [part EXCEPT ![o] = @ + 1] ELSE part
  /\ UNCHANGED <<config, initialVersion, opens>>

CallbackThrows(o) == Step(o, "callback", AfterFailure(o)) /\ UNCHANGED openerVars

CallbackReturns(o) ==
  /\ part[o] > Parts
  /\ IF config[o].scoped
     THEN Calling(o, "callback", SetSuccessfulCall(Now(o)), "leaveScope", "unwindScope")
     ELSE Step(o, "callback", "setVersion")
  /\ UNCHANGED openerVars

LeaveScope(o) ==
  /\ \/ Calling(o, "leaveScope", EndCall(Now(o)), "setVersion", "unwind")
     \/ Calling(o, "unwindScope", EndCall(Now(o)), "unwind", "unwind")
  /\ UNCHANGED openerVars

(* Variant: create and upgrade are trusted to set the version. *)
SetNoVersion(o) == Step(o, "setVersion", "mark") /\ UNCHANGED openerVars

SetVersion(o) ==
  /\ Calling(o, "setVersion", WriteCall(o, Migrating(o, 0)), "mark", "unwind")
  /\ UNCHANGED openerVars

Mark(o) ==
  /\ Calling(o, "mark", SetSuccessfulCall(Now(o)), "end", "unwind")
  /\ UNCHANGED openerVars

(* The local variables of migrateIfNeeded are gone when it is left. *)
LocalsDie(left) ==
  /\ initialVersion' = [o \in Opener |-> IF o \in left THEN 0 ELSE initialVersion[o]]
  /\ part' = [o \in Opener |-> IF o \in left THEN 1 ELSE part[o]]
  /\ UNCHANGED <<config, opens>>

EndMigration(o) ==
  /\ stage[o] = "end"
  /\ \E outcome \in EndCall(Now(o)) :
       /\ Effect(o, outcome)
       /\ IF outcome.ok
          THEN GoTo(o, "open") /\ Unlock(o)
          ELSE GoTo(o, "close") /\ UNCHANGED creationLock
  /\ LocalsDie({o})

(* The exception's way out: endTransaction, close, release, rethrow. *)
Unwind(o) ==
  /\ Calling(o, "unwind", EndCall(Now(o)), "close", "close")
  /\ LocalsDie({o})

(* Variants: the catch block does not close; it closes twice. *)
ThrowOnly(o) ==
  /\ stage[o] = "close"
  /\ Unlock(o)
  /\ GoTo(o, "threw")
  /\ UNCHANGED <<fileVars, connection, handles, snapshot, openerVars, history>>

CloseTwiceAndThrow(o) ==
  /\ stage[o] = "close"
  /\ connection' = [connection EXCEPT ![o] = Closed(o)]
  /\ handles' = [handles EXCEPT ![o] = @ - 2]
  /\ snapshot' = [snapshot EXCEPT ![o] = NoSnapshot]
  /\ Unlock(o)
  /\ GoTo(o, "threw")
  /\ UNCHANGED <<fileVars, openerVars, history>>

CloseAndThrow(o) ==
  /\ stage[o] = "close"
  /\ connection' = [connection EXCEPT ![o] = Closed(o)]
  /\ handles' = [handles EXCEPT ![o] = @ - 1]
  /\ snapshot' = [snapshot EXCEPT ![o] = NoSnapshot]
  /\ Unlock(o)
  /\ GoTo(o, "threw")
  /\ UNCHANGED <<fileVars, openerVars, history>>

Close(o) ==
  /\ stage[o] = "open"
  /\ connection' = [connection EXCEPT ![o] = Closed(o)]
  /\ handles' = [handles EXCEPT ![o] = @ - 1]
  /\ GoTo(o, "closed")
  /\ UNCHANGED <<fileVars, snapshot, creationLock, openerVars, history>>

(* A process dies: its connections and its lock are gone, the file stays.  *)
Crash(p) ==
  LET dead == {o \in Opener : ProcessOf[o] = p}
  IN  /\ \E o \in dead : stage[o] \notin Idle
      /\ connection' = [o \in Opener |-> IF o \in dead THEN Closed(o) ELSE connection[o]]
      /\ handles' = [o \in Opener |-> IF o \in dead THEN 0 ELSE handles[o]]
      /\ snapshot' = [o \in Opener |-> IF o \in dead THEN NoSnapshot ELSE snapshot[o]]
      /\ stage' = [o \in Opener |-> IF o \in dead THEN "closed" ELSE stage[o]]
      /\ creationLock' = [creationLock EXCEPT ![p] = Free]
      /\ LocalsDie(dead)
      /\ lost' = [o \in Opener |-> IF o \in dead THEN 0 ELSE lost[o]]
      /\ UNCHANGED <<fileVars, asked>>

Open(o) ==
  \/ Lock(o) \/ OpenFile(o) \/ OpenFails(o)
  \/ UpdateJournalMode(o) \/ PragmaThrows(o)
  \/ BeginMigration(o) \/ ReadVersion(o) \/ ReadVersionThrows(o)
  \/ BeginScope(o) \/ CallbackStatement(o) \/ CallbackThrows(o)
  \/ CallbackReturns(o) \/ LeaveScope(o)
  \/ SetVersion(o) \/ Mark(o) \/ EndMigration(o)
  \/ Unwind(o) \/ CloseAndThrow(o)

(* Nothing else stops: a lock held for good would show as a deadlock. *)
Terminated ==
  /\ \A o \in Opener : stage[o] \in Idle /\ opens[o] = MaxOpens
  /\ UNCHANGED vars

Next ==
  \/ \E o \in Opener : Call(o) \/ Open(o) \/ Close(o)
  \/ \E p \in Process : Crash(p)
  \/ Terminated

Spec == Init /\ [][Next]_vars

-----------------------------------------------------------------------------
(* Properties *)

Marks(db) == {w \in db : w.part = 0}

(* A callback with a transaction of its own over JDBC: the inner begin is  *)
(* a no-op, and the inner end commits, and ends, the outer transaction.    *)
(* The two properties after this say nothing of a file it worked on.       *)
CommitsForBoth(o) == connection[o].platform = "jdbc" /\ \E c \in asked[o] : c.scoped
OneTransactionEach == \A o \in Opener : ~CommitsForBoth(o)

(* A migration is in the file as a whole or not at all, its version mark   *)
(* included, whatever threw, crashed, or was opened at the same time       *)
(* (migrateIfNeeded inside withTransaction).                               *)
MigrationsAreWhole ==
  OneTransactionEach =>
    \A w \in file : \A k \in 0 .. Parts : Change(w.from, w.to, k) \in file

(* The migrations that ran form one chain from the empty file: create ran  *)
(* once, each upgrade started from the version an earlier one left, and no *)
(* two openers migrated from the same version.                             *)
MigrationsFormAChain ==
  OneTransactionEach =>
    \A m \in Marks(file) :
      /\ m.from < m.to
      /\ m.from # 0 => \E n \in Marks(file) : n.to = m.from
      /\ \A n \in Marks(file) : n.from = m.from => n = m

Returns(o) == stage[o] = "end" /\ stage'[o] = "open"

(* openDatabase returns a connection only to a file of the version that    *)
(* its configuration asks for: the creation lock keeps openers of the same *)
(* process apart.  Only an opener of another process, which the lock does  *)
(* not stop, may have upgraded the file further since the version was      *)
(* read.                                                                   *)
OpensAtItsVersion ==
  [][\A o \in Opener : Returns(o) =>
       \/ UserVersion(file') = config[o].version
       \/ /\ UserVersion(file') > config[o].version
          /\ \E u \in Opener : /\ ProcessOf[u] # ProcessOf[o]
                               /\ \E c \in asked[u] : c.version = UserVersion(file')]_vars

(* An openDatabase that threw leaves no transaction and no lock behind,    *)
(* and no open handle but those of calls that threw before the try block.  *)
ThrowLeavesNothing ==
  \A o \in Opener :
    stage[o] \in {"threw", "threwEarly"} =>
      /\ connection[o] = Closed(o) /\ creationLock[ProcessOf[o]] # o
      /\ handles[o] = lost[o]

(* The file is in the configured journal mode when openDatabase returns.   *)
OpensInItsJournalMode ==
  [][\A o \in Opener : Returns(o) /\ writable =>
       journalMode = config[o].journalMode]_vars

=============================================================================
