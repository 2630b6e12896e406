-------------------------- MODULE NativeStatements --------------------------
(***************************************************************************)
(* Prepared statements of one native connection, from sqlite3_prepare to   *)
(* sqlite3_finalize: the statements of INSERT, UPDATE, DELETE, which live  *)
(* inside one driver call, and those of SELECT, which execute prepares and *)
(* getResults steps, decodes and finalizes later, on any thread, without   *)
(* the lock of the connection.                                             *)
(***************************************************************************)
EXTENDS Naturals, Sequences

CONSTANTS
  Thread,         \* threads that share the connection
  Select,         \* SelectStatement objects
  Rows,           \* rows a SELECT yields
  MaxTries,       \* bound: calls of sqlite3_step in one step, 50 in the code
  MaxStatements,  \* bound: statements prepared in all
  Null            \* Kotlin's null

ASSUME StatementBounds ==
  /\ Rows \in Nat
  /\ MaxTries \in Nat \ {0}
  /\ MaxStatements \in Nat
ASSUME NullAssumption == Null \notin Seq(Nat) \union Thread \union Nat

VARIABLES
  statements,   \* the sqlite3_stmt of every NativeStatement prepared so far
  cursor,       \* SelectStatement.cursor, as the statement below it
  result,       \* SelectStatement.result
  thread,       \* where each thread is
  accessLock,   \* ConcurrentDatabaseConnection.accessLock
  connection,   \* the sqlite3 object: open, zombie or freed
  locked,       \* another connection holds a lock that makes steps BUSY
  unbound, again, raced, failed   \* history, see below

(***************************************************************************)
(* unbound: statements whose bind threw.  again: SELECTs executed more     *)
(* than once.  raced: SELECTs that one thread used while another was in    *)
(* getResults.  failed: SELECTs whose getResults threw after it had opened *)
(* the present cursor.                                                     *)
(***************************************************************************)
history == <<unbound, again, raced, failed>>
vars == <<statements, cursor, result, thread, accessLock, connection, locked, history>>

StatementId == 1 .. Len(statements)
Finalized(i) == statements[i].state = "finalized"
IsOpen(i) == ~ Finalized(i)

Reading == {"checked", "stepping", "decoding", "storing", "closing", "throwing"}
Writing == {"binding", "executing", "resetting", "finalizing"}

Idle == [pc |-> "idle", select |-> Null, statement |-> 0, rows |-> <<>>, tries |-> 0]

Init ==
  /\ statements = <<>>
  /\ cursor = [q \in Select |-> 0]
  /\ result = [q \in Select |-> Null]
  /\ thread = [t \in Thread |-> Idle]
  /\ accessLock = Null
  /\ connection = "open"
  /\ locked = FALSE
  /\ unbound = {} /\ again = {} /\ raced = {} /\ failed = {}

At(t, pc) == thread[t].pc = pc
Go(t, pc) == thread' = [thread EXCEPT ![t].pc = pc]
Return(t) == thread' = [thread EXCEPT ![t] = Idle]
ReadByAnother(t, q) == \E u \in Thread \ {t} : thread[u].pc \in Reading /\ thread[u].select = q

-----------------------------------------------------------------------------
(* SQLite (external) *)

(* sqlite3_finalize; the last one frees a connection that was closed. *)
Finalize(i) ==
  /\ statements' = [statements EXCEPT ![i].state = "finalized"]
  /\ connection' = IF connection = "zombie" /\ \A j \in StatementId \ {i} : Finalized(j)
                   THEN "freed" ELSE connection

(* sqlite3_step of a query: BUSY or LOCKED only before it holds its read   *)
(* lock.  A statement that is done, or failed, starts again.               *)
RowsRead(i) == IF statements[i].state = "row" THEN statements[i].at ELSE 0
StepOutcomes(i) ==
  IF statements[i].state # "row" /\ locked THEN {"busy"}
  ELSE IF RowsRead(i) < Rows THEN {"row", "error"}
  ELSE {"done"}

(* Another connection: it cannot lock out readers that already read. *)
Lock ==
  /\ ~ locked
  /\ \A i \in StatementId : statements[i].state # "row"
  /\ locked' = TRUE
  /\ UNCHANGED <<statements, cursor, result, thread, accessLock, connection, history>>

Unlock ==
  /\ locked
  /\ locked' = FALSE
  /\ UNCHANGED <<statements, cursor, result, thread, accessLock, connection, history>>

-----------------------------------------------------------------------------
(* Driver calls, inside the lock of the connection *)

(* createStatement: the start of query (for a SELECT q) or of a write (Null). *)
Prepare(t, q) ==
  /\ At(t, "idle")
  /\ connection = "open"
  /\ accessLock = Null
  /\ Len(statements) < MaxStatements
  /\ accessLock' = t
  /\ statements' = Append(statements, [state |-> "ready", at |-> 0, select |-> q])
  /\ thread' = [thread EXCEPT ![t] =
       [Idle EXCEPT !.pc = "binding", !.select = q, !.statement = Len(statements) + 1]]
  /\ UNCHANGED <<cursor, result, connection, locked, history>>

(* Variant: the lock is released on return only. *)
BindThrowsLocked(t) ==
  /\ At(t, "binding")
  /\ unbound' = unbound \union {thread[t].statement}
  /\ Return(t)
  /\ UNCHANGED <<statements, cursor, result, accessLock, connection, locked, again, raced, failed>>

(* bindParamsToSQL: an empty array, a value of an unsupported type or an   *)
(* error of sqlite3_bind throws, and nobody finalizes the statement.       *)
BindThrows(t) ==
  /\ At(t, "binding")
  /\ unbound' = unbound \union {thread[t].statement}
  /\ accessLock' = Null
  /\ Return(t)
  /\ UNCHANGED <<statements, cursor, result, connection, locked, again, raced, failed>>

(* query, and the assignment in SelectStatement.execute, which drops the   *)
(* cursor of an earlier execute and leaves the result of an earlier        *)
(* getResults.                                                             *)
BindQuery(t) ==
  LET q == thread[t].select
  IN  /\ At(t, "binding")
      /\ q # Null
      /\ cursor' = [cursor EXCEPT ![q] = thread[t].statement]
      /\ again' = IF cursor[q] = 0 THEN again ELSE again \union {q}
      /\ raced' = IF ReadByAnother(t, q) THEN raced \union {q} ELSE raced
      /\ failed' = IF result[q] = Null THEN failed \ {q} ELSE failed
      /\ accessLock' = Null
      /\ Return(t)
      /\ UNCHANGED <<statements, result, connection, locked, unbound>>

BindWrite(t) ==
  /\ At(t, "binding")
  /\ thread[t].select = Null
  /\ Go(t, "executing")
  /\ UNCHANGED <<statements, cursor, result, accessLock, connection, locked, history>>

(* executeNonQuery: one step, no retry; only SQLITE_DONE is no exception.  *)
(* A statement that yields a row is not one for this call.                 *)
ExecuteNonQuery(t) ==
  /\ At(t, "executing")
  /\ \E outcome \in IF locked THEN {"error"} ELSE {"done", "row", "error"} :
       statements' = [statements EXCEPT ![thread[t].statement].state = outcome]
  /\ Go(t, "resetting")
  /\ UNCHANGED <<cursor, result, accessLock, connection, locked, history>>

(* Variant: the statement is finalized only when nothing threw. *)
ResetThrowsUnfinalized(t) ==
  /\ At(t, "resetting")
  /\ IF statements[thread[t].statement].state = "error"
     THEN Return(t) /\ accessLock' = Null
     ELSE Go(t, "finalizing") /\ UNCHANGED accessLock
  /\ statements' = [statements EXCEPT ![thread[t].statement].state = "ready"]
  /\ UNCHANGED <<cursor, result, connection, locked, history>>

(* resetStatement reports the error of the step again and throws; only     *)
(* without it clearBindings runs.  The finally of the caller comes next.   *)
ResetAndClear(t) ==
  /\ At(t, "resetting")
  /\ statements' = [statements EXCEPT ![thread[t].statement].state = "ready"]
  /\ Go(t, "finalizing")
  /\ UNCHANGED <<cursor, result, accessLock, connection, locked, history>>

(* finally { statement.finalizeStatement() }, and the lock is released. *)
FinalizeWrite(t) ==
  /\ At(t, "finalizing")
  /\ Finalize(thread[t].statement)
  /\ accessLock' = Null
  /\ Return(t)
  /\ UNCHANGED <<cursor, result, locked, history>>

(* sqlite3_close_v2: succeeds whatever is open; the statements left behind *)
(* keep the connection as a zombie.  A client makes no call of a           *)
(* connection after it closed it, getResults excepted.                     *)
Close(t) ==
  /\ At(t, "idle")
  /\ connection = "open"
  /\ accessLock = Null
  /\ connection' = IF \E i \in StatementId : IsOpen(i) THEN "zombie" ELSE "freed"
  /\ UNCHANGED <<statements, cursor, result, thread, accessLock, locked, history>>

-----------------------------------------------------------------------------
(* SelectStatement.getResults, outside every lock *)

(* Variant: every call decodes the rows anew. *)
ReadResultAnew(t, q) ==
  /\ At(t, "idle")
  /\ thread' = [thread EXCEPT ![t] = [Idle EXCEPT !.pc = "checked", !.select = q]]
  /\ raced' = IF ReadByAnother(t, q) THEN raced \union {q} ELSE raced
  /\ UNCHANGED <<statements, cursor, result, accessLock, connection, locked, unbound, again, failed>>

(* result ?: -- when there is a result the call returns it and changes     *)
(* nothing.                                                                *)
ReadResult(t, q) ==
  /\ At(t, "idle")
  /\ result[q] = Null
  /\ thread' = [thread EXCEPT ![t] = [Idle EXCEPT !.pc = "checked", !.select = q]]
  /\ raced' = IF ReadByAnother(t, q) THEN raced \union {q} ELSE raced
  /\ UNCHANGED <<statements, cursor, result, accessLock, connection, locked, unbound, again, failed>>

(* cursor?.use { ... } ?: throw IllegalStateException; closing does not    *)
(* set cursor to null.                                                     *)
ReadCursor(t) ==
  /\ At(t, "checked")
  /\ LET i == cursor[thread[t].select]
     IN  IF i = 0 THEN Return(t)
         ELSE thread' = [thread EXCEPT ![t].pc = "stepping", ![t].statement = i]
  /\ UNCHANGED <<statements, cursor, result, accessLock, connection, locked, history>>

(* NativeStatement.step *)
StepRow(t, i) ==
  /\ "row" \in StepOutcomes(i)
  /\ statements' = [statements EXCEPT ![i].state = "row", ![i].at = RowsRead(i) + 1]
  /\ thread' = [thread EXCEPT ![t].pc = "decoding", ![t].tries = 0]

StepDone(t, i) ==
  /\ "done" \in StepOutcomes(i)
  /\ statements' = [statements EXCEPT ![i].state = "done"]
  /\ thread' = [thread EXCEPT ![t].pc = "storing", ![t].tries = 0]

StepError(t, i) ==
  /\ "error" \in StepOutcomes(i)
  /\ statements' = [statements EXCEPT ![i].state = "error"]
  /\ Go(t, "throwing")

(* Variant: too many tries end the loop over the rows. *)
StepBusyIsDone(t, i) ==
  /\ "busy" \in StepOutcomes(i)
  /\ thread' = [thread EXCEPT ![t].tries = @ + 1,
                             ![t].pc = IF thread[t].tries + 1 = MaxTries THEN "storing" ELSE @]
  /\ UNCHANGED statements

(* Variant: as long as it is busy. *)
StepBusyForever(t, i) ==
  /\ "busy" \in StepOutcomes(i)
  /\ thread' = [thread EXCEPT ![t].tries = 1 - @]
  /\ UNCHANGED statements

StepBusy(t, i) ==
  /\ "busy" \in StepOutcomes(i)
  /\ thread' = [thread EXCEPT ![t].tries = @ + 1,
                             ![t].pc = IF thread[t].tries + 1 = MaxTries THEN "throwing" ELSE @]
  /\ UNCHANGED statements

Step(t) ==
  LET i == thread[t].statement
  IN  /\ At(t, "stepping")
      /\ IsOpen(i)
      /\ StepRow(t, i) \/ StepDone(t, i) \/ StepError(t, i) \/ StepBusy(t, i)
      /\ UNCHANGED <<cursor, result, accessLock, connection, locked, history>>

(* The columns are those of the row the statement is at by now, or NULL    *)
(* (row 0) when it is at none.                                             *)
Decode(t) ==
  /\ At(t, "decoding")
  /\ IsOpen(thread[t].statement)
  /\ thread' = [thread EXCEPT ![t].pc = "stepping",
                             ![t].rows = Append(@, RowsRead(thread[t].statement))]
  /\ UNCHANGED <<statements, cursor, result, accessLock, connection, locked, history>>

(* A column is missing, or NULL where the property is not nullable. *)
DecodeThrows(t) ==
  /\ At(t, "decoding")
  /\ IsOpen(thread[t].statement)
  /\ Go(t, "throwing")
  /\ UNCHANGED <<statements, cursor, result, accessLock, connection, locked, history>>

Store(t) ==
  /\ At(t, "storing")
  /\ result' = [result EXCEPT ![thread[t].select] = thread[t].rows]
  /\ Go(t, "closing")
  /\ UNCHANGED <<statements, cursor, accessLock, connection, locked, history>>

(* Variant: the cursor is closed after the last row only. *)
CloseCursorAtEnd(t) ==
  /\ At(t, "closing") \/ At(t, "throwing")
  /\ IsOpen(thread[t].statement)
  /\ IF At(t, "closing") THEN Finalize(thread[t].statement) ELSE UNCHANGED <<statements, connection>>
  /\ failed' = IF At(t, "throwing") THEN failed \union {thread[t].select} ELSE failed
  /\ Return(t)
  /\ UNCHANGED <<cursor, result, accessLock, locked, unbound, again, raced>>

(* The end of use, with or without an exception. *)
CloseCursor(t) ==
  /\ At(t, "closing") \/ At(t, "throwing")
  /\ IsOpen(thread[t].statement)
  /\ Finalize(thread[t].statement)
  /\ failed' = IF At(t, "throwing") THEN failed \union {thread[t].select} ELSE failed
  /\ Return(t)
  /\ UNCHANGED <<cursor, result, accessLock, locked, unbound, again, raced>>

(***************************************************************************)
(* A call on a finalized statement is undefined: an error, the look of a   *)
(* statement without rows, a row of nothing, or the end of the process.    *)
(***************************************************************************)
UsesFinalized(t) ==
  /\ thread[t].pc \in {"stepping", "decoding", "closing", "throwing"}
  /\ Finalized(thread[t].statement)

AfterMisuse == [stepping |-> {"throwing", "storing"}, decoding |-> {"throwing", "stepping"},
                closing |-> {"idle"}, throwing |-> {"idle"}]

Misuse(t) ==
  /\ UsesFinalized(t)
  /\ \E pc \in AfterMisuse[thread[t].pc] : IF pc = "idle" THEN Return(t) ELSE Go(t, pc)
  /\ UNCHANGED <<statements, cursor, result, accessLock, connection, locked, history>>

Crash(t) ==
  /\ UsesFinalized(t)
  /\ thread' = [u \in Thread |-> [Idle EXCEPT !.pc = "crashed"]]
  /\ UNCHANGED <<statements, cursor, result, accessLock, connection, locked, history>>

-----------------------------------------------------------------------------

(* A thread starts a call. *)
Start(t) ==
  \/ \E q \in Select \union {Null} : Prepare(t, q)
  \/ \E q \in Select : ReadResult(t, q)
  \/ Close(t)

(* A thread goes on with its call. *)
Continue(t) ==
  \/ BindThrows(t) \/ BindQuery(t) \/ BindWrite(t)
  \/ ExecuteNonQuery(t) \/ ResetAndClear(t) \/ FinalizeWrite(t)
  \/ ReadCursor(t) \/ Step(t) \/ Decode(t) \/ DecodeThrows(t) \/ Store(t) \/ CloseCursor(t)
  \/ Misuse(t) \/ Crash(t)

Next ==
  \/ \E t \in Thread : Start(t) \/ Continue(t)
  \/ Lock \/ Unlock

(* Threads run; nothing makes a client start a call, nor the other         *)
(* connection give up its lock.                                            *)
Spec == Init /\ [][Next]_vars /\ \A t \in Thread : WF_vars(Continue(t))

-----------------------------------------------------------------------------
(* Properties *)

Alive == \A t \in Thread : ~ At(t, "crashed")

StatementRecord ==
  [state : {"ready", "row", "done", "error", "finalized"}, at : 0 .. Rows,
   select : Select \union {Null}]

ThreadRecord ==
  [pc : Reading \union Writing \union {"idle", "crashed"}, select : Select \union {Null},
   statement : 0 .. Len(statements), rows : Seq(0 .. Rows), tries : 0 .. MaxTries]

(* Types; and the lock of the connection is held exactly by the thread     *)
(* that is in a driver call (withLock in ConcurrentDatabaseConnection).    *)
TypeOK ==
  /\ statements \in Seq(StatementRecord) /\ Len(statements) <= MaxStatements
  /\ cursor \in [Select -> 0 .. Len(statements)]
  /\ result \in [Select -> Seq(0 .. Rows) \union {Null}]
  /\ thread \in [Thread -> ThreadRecord]
  /\ accessLock \in Thread \union {Null}
  /\ Alive => \A t \in Thread : thread[t].pc \in Writing <=> accessLock = t
  /\ connection \in {"open", "zombie", "freed"}
  /\ locked \in BOOLEAN
  /\ unbound \subseteq StatementId /\ again \subseteq Select
  /\ raced \subseteq Select /\ failed \subseteq Select

Holds(t, i) == thread[t].pc \in (Reading \union Writing) \ {"checked"} /\ thread[t].statement = i

(* No thread steps, reads or finalizes a finalized statement, except one   *)
(* that reads a SELECT together with another thread, or again after a      *)
(* getResults that threw (getResults never clears cursor).                 *)
OnlyOpenStatementsAreUsed ==
  \A t \in Thread : UsesFinalized(t) => thread[t].select \in raced \union failed

(* What getResults returns and caches is every row, once, in order, unless *)
(* two threads read at once or the statement was finalized by a failure:   *)
(* neither a step that stayed BUSY nor a decoding error leaves a part.     *)
ResultsAreWhole ==
  \A q \in Select : result[q] # Null /\ q \notin raced \union failed
                     => result[q] = [n \in 1 .. Rows |-> n]

(* Every statement that is not finalized is on its way to it: a driver     *)
(* call or getResults holds it, or it is the unread cursor of a SELECT;    *)
(* else its bind threw, or its SELECT was executed again.                  *)
OpenStatementsAreReachable ==
  Alive => \A i \in StatementId : IsOpen(i) =>
             \/ i \in unbound
             \/ statements[i].select \in again
             \/ \E t \in Thread : Holds(t, i)
             \/ \E q \in Select : cursor[q] = i /\ result[q] = Null

(* A read lock on the database file is held only while a thread is in      *)
(* getResults: no exception, in whatever step, leaves a statement at a row. *)
ReadLocksAreReleased ==
  Alive => \A i \in StatementId : statements[i].state = "row" => \E t \in Thread : Holds(t, i)

(* Every call ends, also when another connection never gives up its lock:  *)
(* the retries of step are bounded and every exception frees the lock.     *)
CallsEnd ==
  \A t \in Thread : thread[t].pc # "idle" ~> thread[t].pc \in {"idle", "crashed"}
=============================================================================
