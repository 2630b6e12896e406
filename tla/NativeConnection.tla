-------------------------- MODULE NativeConnection --------------------------
(***************************************************************************)
(* A read-write connection of the native driver, used by several threads:  *)
(* ConcurrentDatabaseConnection (the access lock around every operation)   *)
(* over RealDatabaseConnection (the transaction lock and the nullable      *)
(* Transaction record) over one SQLite session.  Its clients run           *)
(* DatabaseConnection.withTransaction, single statements, and close.       *)
(*                                                                         *)
(* A call is split where another thread may run: before each lock, at the  *)
(* SQLite call, at the update of the transaction record, at each unlock.   *)
(***************************************************************************)
EXTENDS SqliteSession

CONSTANTS
  Thread,
  Exclusive   \* TRUE: a client starts only while the others are idle, as
              \* under the mutex of Database.suspendedScope

ASSUME ExclusiveAssumption == Exclusive \in BOOLEAN

CONSTANT NoWrite   \* the argument of a call that writes nothing
ASSUME NoWriteAssumption == NoWrite \notin Write

VARIABLES
  session,          \* the SQLite session behind dbPointer
  transaction,      \* RealDatabaseConnection.transaction
  closedFlag,       \* RealDatabaseConnection.closedFlag
  accessLock,       \* ConcurrentDatabaseConnection.accessLock
  transactionLock,  \* RealDatabaseConnection.transactionLock
  phase,            \* where each client is in withTransaction, execSQL or close
  at,               \* where each thread is inside the connection
  thrown,           \* whether the call of a thread is throwing
  argument,         \* the write a thread's execSQL call carries
  blockWrites,      \* writes acknowledged in a thread's running block
  fate              \* what the clients were told about each write

connectionVars == <<session, transaction, closedFlag>>
lockVars == <<accessLock, transactionLock>>
clientVars == <<phase, argument, blockWrites, fate>>
vars == <<connectionVars, lockVars, clientVars, at, thrown>>

-----------------------------------------------------------------------------
(* Types *)

Free == "free"
Destroyed == "destroyed"
ASSUME ThreadAssumption == Free \notin Thread /\ Destroyed \notin Thread

Lock == Thread \union {Free, Destroyed}

(* No transaction, Transaction(isSuccessful = false), ... = true. *)
Transaction == {"null", "started", "successful"}

EndPhases == {"endAfterReturn", "endAfterThrow"}
TransactionCalls == {"begin", "setSuccessful"} \union EndPhases
WriteCalls == {"singleWrite", "blockWrite"}
Phase == {"idle", "block", "close"} \union TransactionCalls \union WriteCalls

Place == {"outside", "access", "transaction", "sql", "record",
          "leaveTransaction", "leave"}

Fate == {"unused", "asked", "pending", "saved", "undone"}

(* The variables stay within their types. *)
TypeOK ==
  /\ session \in Session
  /\ transaction \in Transaction
  /\ closedFlag \in BOOLEAN
  /\ accessLock \in Lock
  /\ transactionLock \in Lock
  /\ phase \in [Thread -> Phase]
  /\ at \in [Thread -> Place]
  /\ thrown \in [Thread -> BOOLEAN]
  /\ argument \in [Thread -> Write \union {NoWrite}]
  /\ blockWrites \in [Thread -> SUBSET Write]
  /\ fate \in [Write -> Fate]

Init ==
  /\ session = EmptySession
  /\ transaction = "null"
  /\ closedFlag = FALSE
  /\ accessLock = Free
  /\ transactionLock = Free
  /\ phase = [t \in Thread |-> "idle"]
  /\ at = [t \in Thread |-> "outside"]
  /\ thrown = [t \in Thread |-> FALSE]
  /\ argument = [t \in Thread |-> NoWrite]
  /\ blockWrites = [t \in Thread |-> {}]
  /\ fate = [w \in Write |-> "unused"]

-----------------------------------------------------------------------------
(* Clients: the code around the calls.  A call starts at the access lock. *)

Call(t, p) ==
  /\ phase' = [phase EXCEPT ![t] = p]
  /\ at' = [at EXCEPT ![t] = "access"]
  /\ thrown' = [thrown EXCEPT ![t] = FALSE]

CallWrite(t, p, w) ==
  /\ fate[w] = "unused"
  /\ Call(t, p)
  /\ argument' = [argument EXCEPT ![t] = w]
  /\ fate' = [fate EXCEPT ![w] = "asked"]

MayStart(t) ==
  /\ ~closedFlag
  /\ phase[t] = "idle"
  /\ \A u \in Thread \ {t} : /\ Exclusive => phase[u] = "idle"
                             /\ phase[u] # "close"

StartTransaction(t) ==
  /\ MayStart(t)
  /\ Call(t, "begin")
  /\ blockWrites' = [blockWrites EXCEPT ![t] = {}]
  /\ UNCHANGED <<connectionVars, lockVars, argument, fate>>

StartWrite(t, w) ==
  /\ MayStart(t)
  /\ CallWrite(t, "singleWrite", w)
  /\ UNCHANGED <<connectionVars, lockVars, blockWrites>>

WriteInBlock(t, w) ==
  /\ phase[t] = "block"
  /\ CallWrite(t, "blockWrite", w)
  /\ UNCHANGED <<connectionVars, lockVars, blockWrites>>

ReturnFromBlock(t) ==
  /\ phase[t] = "block"
  /\ Call(t, "setSuccessful")
  /\ UNCHANGED <<connectionVars, lockVars, argument, blockWrites, fate>>

ThrowInBlock(t) ==
  /\ phase[t] = "block"
  /\ Call(t, "endAfterThrow")
  /\ UNCHANGED <<connectionVars, lockVars, argument, blockWrites, fate>>

(* An orderly close: nobody else is using the connection. *)
StartClose(t) ==
  /\ ~closedFlag
  /\ \A u \in Thread : phase[u] = "idle"
  /\ Call(t, "close")
  /\ UNCHANGED <<connectionVars, lockVars, argument, blockWrites, fate>>

-----------------------------------------------------------------------------
(* Inside the connection *)

Move(t, from, to) ==
  /\ at[t] = from
  /\ at' = [at EXCEPT ![t] = to]

AcquireAccess(t) ==
  /\ accessLock = Free
  /\ accessLock' = t
  /\ Move(t, "access", IF phase[t] \in TransactionCalls THEN "transaction" ELSE "sql")
  /\ UNCHANGED <<connectionVars, transactionLock, clientVars, thrown>>

AcquireTransaction(t) ==
  /\ transactionLock = Free
  /\ transactionLock' = t
  /\ Move(t, "transaction", "sql")
  /\ UNCHANGED <<connectionVars, accessLock, clientVars, thrown>>

Exec(t) ==
  /\ phase[t] \in WriteCalls
  /\ Move(t, "sql", "leave")
  /\ \E o \in ExecOutcomes(session, argument[t]) :
       /\ session' = o.session
       /\ thrown' = [thrown EXCEPT ![t] = ~o.ok]
  /\ UNCHANGED <<transaction, closedFlag, lockVars, clientVars>>

(* Variant: the result code of BEGIN is ignored. *)
BeginSqlUnchecked(t) ==
  /\ phase[t] = "begin"
  /\ \E o \in BeginOutcomes(session) : session' = o.session
  /\ Move(t, "sql", "record")
  /\ UNCHANGED <<transaction, closedFlag, lockVars, clientVars, thrown>>

(* rawExecSql("BEGIN;") throws before the record is assigned. *)
BeginSql(t) ==
  /\ phase[t] = "begin"
  /\ \E o \in BeginOutcomes(session) :
       /\ session' = o.session
       /\ thrown' = [thrown EXCEPT ![t] = ~o.ok]
       /\ Move(t, "sql", IF o.ok THEN "record" ELSE "leaveTransaction")
  /\ UNCHANGED <<transaction, closedFlag, lockVars, clientVars>>

BeginRecord(t) ==
  /\ phase[t] = "begin"
  /\ Move(t, "record", "leaveTransaction")
  /\ transaction' = "started"
  /\ UNCHANGED <<session, closedFlag, lockVars, clientVars, thrown>>

SetSuccessful(t) ==
  /\ phase[t] = "setSuccessful"
  /\ Move(t, "sql", "leaveTransaction")
  /\ IF transaction = "null"
     THEN thrown' = [thrown EXCEPT ![t] = TRUE] /\ UNCHANGED transaction
     ELSE transaction' = "successful" /\ UNCHANGED thrown
  /\ UNCHANGED <<session, closedFlag, lockVars, clientVars>>

(* Variants: the two ends swapped; an unmarked transaction is forgotten. *)
EndOutcomesSwapped ==
  CASE transaction = "null"       -> {Fails(session)}
    [] transaction = "started"    -> CommitOutcomes(session)
    [] transaction = "successful" -> RollbackOutcomes(session)

EndOutcomesForgetful ==
  CASE transaction = "null"       -> {Fails(session)}
    [] transaction = "started"    -> {Succeeds(session)}
    [] transaction = "successful" -> CommitOutcomes(session)

EndOutcomes ==
  CASE transaction = "null"       -> {Fails(session)}
    [] transaction = "started"    -> RollbackOutcomes(session)
    [] transaction = "successful" -> CommitOutcomes(session)

EndSql(t) ==
  /\ phase[t] \in EndPhases
  /\ Move(t, "sql", "record")
  /\ \E o \in EndOutcomes :
       /\ session' = o.session
       /\ thrown' = [thrown EXCEPT ![t] = ~o.ok]
  /\ UNCHANGED <<transaction, closedFlag, lockVars, clientVars>>

(* Variants: the record stays; the record becomes neither. *)
EndRecordKept(t) ==
  /\ phase[t] \in EndPhases
  /\ Move(t, "record", "leaveTransaction")
  /\ UNCHANGED <<connectionVars, lockVars, clientVars, thrown>>

EndRecordEnded(t) ==
  /\ phase[t] \in EndPhases
  /\ Move(t, "record", "leaveTransaction")
  /\ transaction' = "ended"
  /\ UNCHANGED <<session, closedFlag, lockVars, clientVars, thrown>>

(* The finally block: also after "No transaction" and after a failed COMMIT. *)
EndRecord(t) ==
  /\ phase[t] \in EndPhases
  /\ Move(t, "record", "leaveTransaction")
  /\ transaction' = "null"
  /\ UNCHANGED <<session, closedFlag, lockVars, clientVars, thrown>>

(* closedFlag, then sqlite3_close_v2, which rolls an open transaction back. *)
CloseSql(t) ==
  /\ phase[t] = "close"
  /\ Move(t, "sql", "leaveTransaction")
  /\ closedFlag' = TRUE
  /\ session' = RolledBack(session)
  /\ UNCHANGED <<transaction, lockVars, clientVars, thrown>>

LeaveTransaction(t) ==
  /\ Move(t, "leaveTransaction", "leave")
  /\ transactionLock' = IF phase[t] = "close" THEN Destroyed ELSE Free
  /\ UNCHANGED <<connectionVars, accessLock, clientVars, thrown>>

-----------------------------------------------------------------------------
(* Returning from a call: the access lock is released, and the client's    *)
(* code goes on with the result or the exception.                          *)

(* Variant: withLock without its finally. *)
ReleaseUnlessThrown(t) ==
  /\ at[t] = "leave"
  /\ accessLock' = IF thrown[t] THEN t ELSE Free
  /\ UNCHANGED <<connectionVars, transactionLock>>

Release(t) ==
  /\ at[t] = "leave"
  /\ accessLock' = IF phase[t] = "close" THEN Destroyed ELSE Free
  /\ UNCHANGED <<connectionVars, transactionLock>>

BackTo(t, p) ==
  /\ phase' = [phase EXCEPT ![t] = p]
  /\ at' = [at EXCEPT ![t] = "outside"]
  /\ UNCHANGED thrown

Forget(t) == argument' = [argument EXCEPT ![t] = NoWrite]

Tell(writes, f) == fate' = [w \in Write |-> IF w \in writes THEN f ELSE fate[w]]

BeginReturns(t) ==
  /\ phase[t] = "begin"
  /\ Release(t)
  /\ BackTo(t, IF thrown[t] THEN "idle" ELSE "block")
  /\ UNCHANGED <<argument, blockWrites, fate>>

SingleWriteReturns(t) ==
  /\ phase[t] = "singleWrite"
  /\ Release(t)
  /\ BackTo(t, "idle")
  /\ Tell({argument[t]}, IF thrown[t] THEN "undone" ELSE "saved")
  /\ Forget(t)
  /\ UNCHANGED blockWrites

BlockWriteReturns(t) ==
  /\ phase[t] = "blockWrite"
  /\ ~thrown[t]
  /\ Release(t)
  /\ BackTo(t, "block")
  /\ Tell({argument[t]}, "pending")
  /\ blockWrites' = [blockWrites EXCEPT ![t] = @ \union {argument[t]}]
  /\ Forget(t)

(* The block may catch the exception and go on, or let it end the block. *)
BlockWriteThrows(t) ==
  /\ phase[t] = "blockWrite"
  /\ thrown[t]
  /\ Release(t)
  /\ BackTo(t, "block") \/ Call(t, "endAfterThrow")
  /\ Tell({argument[t]}, "undone")
  /\ Forget(t)
  /\ UNCHANGED blockWrites

(* finally { endTransaction() } runs whether or not the mark was made. *)
SetSuccessfulReturns(t) ==
  /\ phase[t] = "setSuccessful"
  /\ Release(t)
  /\ Call(t, IF thrown[t] THEN "endAfterThrow" ELSE "endAfterReturn")
  /\ UNCHANGED <<argument, blockWrites, fate>>

(* withTransaction returns normally only after a COMMIT that succeeded. *)
EndReturns(t) ==
  /\ phase[t] \in EndPhases
  /\ Release(t)
  /\ BackTo(t, "idle")
  /\ Tell(blockWrites[t],
          IF phase[t] = "endAfterReturn" /\ ~thrown[t] THEN "saved" ELSE "undone")
  /\ blockWrites' = [blockWrites EXCEPT ![t] = {}]
  /\ UNCHANGED argument

CloseReturns(t) ==
  /\ phase[t] = "close"
  /\ Release(t)
  /\ BackTo(t, "idle")
  /\ UNCHANGED <<argument, blockWrites, fate>>

-----------------------------------------------------------------------------
(* The steps the connection and withTransaction take once called, and      *)
(* those a client takes of its own will.                                   *)
ConnectionStep(t) ==
  \/ AcquireAccess(t) \/ AcquireTransaction(t)
  \/ Exec(t)
  \/ BeginSql(t) \/ BeginRecord(t)
  \/ SetSuccessful(t)
  \/ EndSql(t) \/ EndRecord(t)
  \/ CloseSql(t)
  \/ LeaveTransaction(t)
  \/ BeginReturns(t) \/ SingleWriteReturns(t)
  \/ BlockWriteReturns(t) \/ BlockWriteThrows(t)
  \/ SetSuccessfulReturns(t) \/ EndReturns(t) \/ CloseReturns(t)

BlockEnds(t) == ReturnFromBlock(t) \/ ThrowInBlock(t)

ClientStep(t) ==
  \/ StartTransaction(t)
  \/ \E w \in Write : StartWrite(t, w) \/ WriteInBlock(t, w)
  \/ BlockEnds(t)
  \/ StartClose(t)

(* The connection is closed for good: nothing is left to do. *)
Finished ==
  /\ closedFlag
  /\ \A t \in Thread : phase[t] = "idle"
  /\ UNCHANGED vars

Next ==
  \/ \E t \in Thread : ConnectionStep(t) \/ ClientStep(t)
  \/ Finished

Spec == Init /\ [][Next]_vars

(* Threads are scheduled, and a block that is running returns or throws.   *)
(* No fairness between threads waiting for a mutex: pthread gives none.    *)
Fairness ==
  \A t \in Thread : WF_vars(ConnectionStep(t)) /\ WF_vars(BlockEnds(t))

FairSpec == Spec /\ Fairness

-----------------------------------------------------------------------------
(* Properties *)

(* The thread whose BEGIN succeeded and whose endTransaction has not yet   *)
(* sent COMMIT or ROLLBACK.                                                *)
OwnsTransaction(t) ==
  \/ phase[t] \in {"block", "blockWrite", "setSuccessful"}
  \/ /\ phase[t] = "begin"
     /\ at[t] \in {"record", "leaveTransaction", "leave"}
     /\ ~thrown[t]
  \/ /\ phase[t] \in EndPhases
     /\ at[t] \in {"access", "transaction", "sql"}

(* withTransaction blocks of two threads on one connection never overlap:  *)
(* the BEGIN of the second throws, and the transaction that a thread marks *)
(* and ends is the one it began (Extension.kt withTransaction,             *)
(* RealDatabaseConnection.beginTransaction).                               *)
OneTransaction ==
  \A t, u \in Thread : OwnsTransaction(t) /\ OwnsTransaction(u) => t = u

(* Whenever no call is inside the transaction lock, the Transaction record *)
(* says what SQLite says: it is there exactly while a transaction is open. *)
(* A failing BEGIN must not create it, nothing may leave it behind.        *)
RecordTracksSession ==
  transactionLock = Free /\ ~closedFlag =>
    (transaction # "null" <=> session.inTransaction)

(* What a client was told is done stays done: the writes of a              *)
(* withTransaction that returned, and a statement that returned outside    *)
(* any block, are in the durable part of the database, in every later      *)
(* state, close included.                                                  *)
SavedIsDurable == \A w \in Write : fate[w] = "saved" => w \in session.durable

(* What a client was told failed leaves nothing behind: neither the writes *)
(* of a withTransaction that threw, whatever threw, nor a single statement *)
(* that threw.                                                             *)
UndoneIsGone ==
  \A w \in Write : fate[w] = "undone" => w \notin session.durable \union session.work

(* The writes acknowledged in a running block become durable together or   *)
(* not at all, whoever else writes on the connection meanwhile.            *)
AllOrNothing ==
  \A t \in Thread : \/ blockWrites[t] \subseteq session.durable
                    \/ blockWrites[t] \cap session.durable = {}

(* Writes become durable in one of two ways only: a single statement       *)
(* outside any transaction, or the end of a transaction whose block        *)
(* returned and was marked successful.                                     *)
CommitStep ==
  \E t \in Thread :
    \/ phase[t] = "endAfterReturn" /\ session'.durable = session.durable \union session.work
    \/ phase[t] = "singleWrite" /\ \A u \in Thread : ~OwnsTransaction(u)

DurableStep == session'.durable # session.durable => CommitStep

(* The database changes only when a COMMIT runs for a block that was set   *)
(* successful, or a statement commits by itself outside every transaction. *)
DurableOnlyByCommit == [][DurableStep]_vars

(* endTransaction ends the transaction: when no withTransaction is running *)
(* on the connection, SQLite has no open transaction either.               *)
EndEndsTransaction ==
  (\A t \in Thread : phase[t] = "idle") => ~session.inTransaction

(* Every path through an operation, exceptions included, releases both     *)
(* locks: no thread holds one forever.                                     *)
LocksAreReleased ==
  \A t \in Thread : /\ accessLock = t ~> accessLock # t
                    /\ transactionLock = t ~> transactionLock # t

(* A client that has the connection for itself gets through its call,      *)
(* block and cleanup, whichever statement throws.                          *)
ClientsReturn == \A t \in Thread : phase[t] # "idle" ~> phase[t] = "idle"

-----------------------------------------------------------------------------
(* With the connection for itself, a client sees a transactional store:    *)
(* every step inside the connection is one step of the store or none.      *)
Store == INSTANCE TransactionalStore
           WITH durable <- session.durable, open <- session.inTransaction,
                work <- session.work, told <- fate

(* Every behaviour of the connection is one of the store.                  *)
ImplementsStore == Store!StoreSpec

=============================================================================
