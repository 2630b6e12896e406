--------------------------- MODULE SqliteSession ---------------------------
(***************************************************************************)
(* One SQLite connection as the driver uses it: the outcomes that          *)
(* sqlite3_exec / sqlite3_step may have for the SQL texts the driver       *)
(* sends.  The library is not under src/: these operators are an external  *)
(* model, written from the calls in cinterop/NativeDatabase.kt and         *)
(* cinterop/NativeStatement.kt and from the contract quoted in             *)
(* sqllin-driver/src/include/sqlite3.h (sqlite3_get_autocommit,            *)
(* sqlite3_close_v2).                                                      *)
(*                                                                         *)
(* A database is the set of writes that are in it.  A session has a        *)
(* durable part, which other sessions and later openings see, and, while   *)
(* a transaction is open, the writes made in it so far.                    *)
(***************************************************************************)
EXTENDS FiniteSets

CONSTANTS
  Write,   \* the distinguishable modifications clients may ask for
  Faults   \* which rare failures of SQLite this instance admits

AllFaults == {"commitFails", "autoRollback", "readRollsBack"}

ASSUME FaultsAssumption == Faults \subseteq AllFaults

Session == [inTransaction : BOOLEAN, work : SUBSET Write, durable : SUBSET Write]

EmptySession == [inTransaction |-> FALSE, work |-> {}, durable |-> {}]

(* What a call returns: whether it succeeded, and the session after it.    *)
Outcome == [ok : BOOLEAN, session : Session]

Succeeds(s) == [ok |-> TRUE, session |-> s]
Fails(s)    == [ok |-> FALSE, session |-> s]

RolledBack(s) == [s EXCEPT !.inTransaction = FALSE, !.work = {}]
Committed(s)  == [s EXCEPT !.inTransaction = FALSE, !.work = {},
                           !.durable = @ \union s.work]

(* "BEGIN;" fails inside a transaction: they do not nest.                  *)
BeginOutcomes(s) ==
  IF s.inTransaction
  THEN {Fails(s)}
  ELSE {Succeeds([s EXCEPT !.inTransaction = TRUE, !.work = {}])}

(* "COMMIT;" fails outside a transaction.  With the fault, it also fails   *)
(* inside one (SQLITE_BUSY while another connection reads, a deferred      *)
(* foreign key that is not satisfied); the transaction then stays open.    *)
CommitOutcomes(s) ==
  IF s.inTransaction
  THEN {Succeeds(Committed(s))}
         \union (IF "commitFails" \in Faults THEN {Fails(s)} ELSE {})
  ELSE {Fails(s)}

(* "ROLLBACK;" fails outside a transaction.                                *)
RollbackOutcomes(s) ==
  IF s.inTransaction THEN {Succeeds(RolledBack(s))} ELSE {Fails(s)}

(* An INSERT, UPDATE or DELETE joins the open transaction, or commits by   *)
(* itself when there is none.  A failing statement leaves no trace; with   *)
(* the fault, its failure (SQLITE_FULL, SQLITE_IOERR, SQLITE_NOMEM...)     *)
(* rolls the whole transaction back, as sqlite3_get_autocommit documents.  *)
ExecOutcomes(s, w) ==
  {Succeeds(IF s.inTransaction THEN [s EXCEPT !.work = @ \union {w}]
                               ELSE [s EXCEPT !.durable = @ \union {w}]),
   Fails(s)}
    \union (IF "autoRollback" \in Faults THEN {Fails(RolledBack(s))} ELSE {})

(* A step of a SELECT changes nothing; with the fault, its failure         *)
(* (SQLITE_IOERR, SQLITE_NOMEM) rolls back the transaction that is open on *)
(* its connection, as the failure of a modification does.                  *)
StepOutcomes(s, fault) ==
  {Succeeds(s), Fails(s)} \union (IF fault \in Faults THEN {Fails(RolledBack(s))} ELSE {})

=============================================================================
