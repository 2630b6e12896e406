---------------------------- MODULE DriverCalls ----------------------------
(***************************************************************************)
(* The calls of DatabaseConnection as its users see them: each call takes  *)
(* effect at once (NativeConnection shows why that is right for the native *)
(* driver; the JVM's ConcurrentDatabaseConnection holds a ReentrantLock    *)
(* around each call).  A call maps a connection to the set of its possible *)
(* outcomes.                                                               *)
(*                                                                         *)
(* Two drivers: "native" is RealDatabaseConnection over SQLite's C API,    *)
(* "jdbc" is JdbcDatabaseConnection over sqlite-jdbc, whose auto-commit    *)
(* switch is modelled from its use in JdbcDatabaseConnection: turning it   *)
(* off sends "begin;", turning it on sends "commit;", and commit and       *)
(* rollback, which are refused while it is on, send a new "begin;" after.  *)
(***************************************************************************)
EXTENDS SqliteSession

CONSTANT Platforms   \* the drivers this instance covers

ASSUME PlatformsAssumption == Platforms \subseteq {"native", "jdbc"}

Connection ==
  [platform : Platforms,
   session : Session,
   transaction : {"null", "started", "successful"},  \* native: the Transaction record
   autoCommit : BOOLEAN,                             \* jdbc: connection.autoCommit
   isTransactionSuccess : BOOLEAN]                   \* jdbc: the AtomicBoolean

OpenConnection(p, s) ==
  [platform |-> p, session |-> s, transaction |-> "null",
   autoCommit |-> TRUE, isTransactionSuccess |-> FALSE]

Return(c) == [ok |-> TRUE, connection |-> c]
Throw(c)  == [ok |-> FALSE, connection |-> c]

(* The outcomes of a call that sends one SQL text, then goes on with       *)
(* Then(c) if the text succeeded, or throws.                               *)
Sending(c, outcomes, Then(_)) ==
  UNION {LET after == [c EXCEPT !.session = o.session]
         IN  IF o.ok THEN Then(after) ELSE {Throw(after)} : o \in outcomes}

Done(c) == {Return(c)}

ExecCall(c, w) == Sending(c, ExecOutcomes(c.session, w), Done)

(* query: native prepares the statement and binds it, which leaves the     *)
(* session alone; JDBC's executeQuery makes the first step as well.        *)
QueryCall(c) ==
  IF c.platform = "native" THEN {Return(c), Throw(c)}
  ELSE Sending(c, StepOutcomes(c.session, "autoRollback"), Done)

(* A step of a cursor in getResults. *)
StepCall(c) == Sending(c, StepOutcomes(c.session, "readRollsBack"), Done)

-----------------------------------------------------------------------------
(* RealDatabaseConnection *)

NativeBegin(c) ==
  LET Record(d) == {Return([d EXCEPT !.transaction = "started"])}
  IN  Sending(c, BeginOutcomes(c.session), Record)

NativeSetSuccessful(c) ==
  IF c.transaction = "null" THEN {Throw(c)}
  ELSE {Return([c EXCEPT !.transaction = "successful"])}

NativeEnd(c) ==
  LET sent == CASE c.transaction = "null"       -> {Throw(c)}
                [] c.transaction = "started"    -> Sending(c, RollbackOutcomes(c.session), Done)
                [] c.transaction = "successful" -> Sending(c, CommitOutcomes(c.session), Done)
  IN  {[o EXCEPT !.connection.transaction = "null"] : o \in sent}

-----------------------------------------------------------------------------
(* JdbcDatabaseConnection *)

(* connection.autoCommit = on: nothing to do when it is so already. *)
SetAutoCommit(c, on) ==
  IF c.autoCommit = on THEN {Return(c)}
  ELSE Sending([c EXCEPT !.autoCommit = on],
               IF on THEN CommitOutcomes(c.session) ELSE BeginOutcomes(c.session),
               Done)

JdbcBegin(c) == SetAutoCommit([c EXCEPT !.isTransactionSuccess = FALSE], FALSE)

JdbcSetSuccessful(c) == {Return([c EXCEPT !.isTransactionSuccess = TRUE])}

(* connection.commit() and connection.rollback() *)
Finishing(c, outcomes) ==
  LET BeginAgain(d) == Sending(d, BeginOutcomes(d.session), Done)
  IN  IF c.autoCommit THEN {Throw(c)} ELSE Sending(c, outcomes, BeginAgain)

(* The finally block runs after either result and may throw itself; the    *)
(* flag is only reset when turning auto-commit on did not throw.           *)
JdbcEnd(c) ==
  LET finished == Finishing(c, IF c.isTransactionSuccess
                               THEN CommitOutcomes(c.session)
                               ELSE RollbackOutcomes(c.session))
      Cleanup(f) == {IF o.ok
                     THEN [ok |-> f.ok,
                           connection |-> [o.connection EXCEPT !.isTransactionSuccess = FALSE]]
                     ELSE o : o \in SetAutoCommit(f.connection, TRUE)}
  IN  UNION {Cleanup(f) : f \in finished}

-----------------------------------------------------------------------------
BeginCall(c) == IF c.platform = "native" THEN NativeBegin(c) ELSE JdbcBegin(c)
SetSuccessfulCall(c) ==
  IF c.platform = "native" THEN NativeSetSuccessful(c) ELSE JdbcSetSuccessful(c)
EndCall(c) == IF c.platform = "native" THEN NativeEnd(c) ELSE JdbcEnd(c)

=============================================================================
