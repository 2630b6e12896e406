--------------------------- MODULE DatabaseScopes ---------------------------
(***************************************************************************)
(* Coroutines that share one Database.  Each runs one suspendedScope: its  *)
(* block builds a list of statements, then executeAllStatements runs the   *)
(* list under executiveMutex, statement by statement, over the calls of    *)
(* one connection (DriverCalls).  A transaction { } is one item of the     *)
(* list (TransactionStatementsGroup).  A SELECT, alone or in a group, is   *)
(* executed when its cursor is created, and read when the client asks for  *)
(* getResults, usually after the scope has returned.                       *)
(***************************************************************************)
EXTENDS DriverCalls, Sequences, Naturals

CONSTANTS
  Coroutine,
  Nobody,      \* nobody holds the mutex
  Programs,    \* the statement lists a block may build
  Query        \* the identities of SELECTs

ASSUME NobodyAssumption == Nobody \notin Coroutine

(* An item of a list: a single statement, or a transaction of any.         *)
Item == [kind : {"single"}, statements : {<<"write">>, <<"select">>}]
          \union [kind : {"group"}, statements : Seq({"write", "select"})]

ASSUME ProgramsAssumption == Programs \subseteq Seq(Item)

(* The j-th statement of item i in the list of coroutine c is <<c, i, j>>. *)
ASSUME IdentityAssumption ==
  \A c \in Coroutine, p \in Programs : \A i \in DOMAIN p : \A j \in DOMAIN p[i].statements :
    <<c, i, j>> \in (IF p[i].statements[j] = "write" THEN Write ELSE Query)

VARIABLES
  connection,  \* Database.databaseConnection
  mutex,       \* Database.executiveMutex
  program,     \* DatabaseExecuteEngine.statementList of each scope
  stage,       \* where each scope is
  item,        \* the item of its list a scope is at
  inGroup,     \* where a scope is in TransactionStatementsGroup.execute
  statement,   \* the statement of the item it is at
  cursor,      \* the cursor of each SELECT: none yet, open, read, or closed unread
  seen         \* the writes visible to each SELECT when it was read

scopeVars == <<stage, item, inGroup, statement>>
selectVars == <<cursor, seen>>
vars == <<connection, mutex, program, scopeVars, selectVars>>

Stage == {"building", "waiting", "executing", "returned", "threw"}

(* The variables stay within their types, and a scope within its list: it  *)
(* is at an item or past the last one, in a group at one of its statements *)
(* or past the last one.                                                   *)
TypeOK ==
  /\ connection \in Connection
  /\ mutex \in Coroutine \union {Nobody}
  /\ program \in [Coroutine -> Programs]
  /\ stage \in [Coroutine -> Stage]
  /\ item \in [Coroutine -> Nat]
  /\ inGroup \in [Coroutine -> {"no", "running", "marked", "unwinding"}]
  /\ statement \in [Coroutine -> Nat]
  /\ cursor \in [Query -> {"none", "open", "read", "closed"}]
  /\ seen \in [Query -> SUBSET Write]
  /\ \A c \in Coroutine :
       /\ item[c] \in 1 .. (Len(program[c]) + 1)
       /\ inGroup[c] # "no" =>
            /\ item[c] <= Len(program[c])
            /\ statement[c] \in 1 .. (Len(program[c][item[c]].statements) + 1)

Init ==
  /\ connection \in {OpenConnection(p, EmptySession) : p \in Platforms}
  /\ mutex = Nobody
  /\ program \in [Coroutine -> Programs]
  /\ stage = [c \in Coroutine |-> "building"]
  /\ item = [c \in Coroutine |-> 1]
  /\ inGroup = [c \in Coroutine |-> "no"]
  /\ statement = [c \in Coroutine |-> 1]
  /\ cursor = [q \in Query |-> "none"]
  /\ seen = [q \in Query |-> {}]

-----------------------------------------------------------------------------
Current(c) == program[c][item[c]]

(* Coroutine c is in executeAllStatement at an item of this kind. *)
At(c, kind) ==
  /\ stage[c] = "executing"
  /\ item[c] <= Len(program[c])
  /\ Current(c).kind = kind

(* It is at a statement of this kind, by itself or in a running group.     *)
AtStatement(c, kind) ==
  /\ At(c, "single") \/ inGroup[c] = "running"
  /\ statement[c] <= Len(Current(c).statements)
  /\ Current(c).statements[statement[c]] = kind

Here(c) == <<c, item[c], statement[c]>>

GoTo(c, s) == stage' = [stage EXCEPT ![c] = s]

(* Variant: the group is not left. *)
NextItemInGroup(c) ==
  /\ item' = [item EXCEPT ![c] = @ + 1]
  /\ statement' = [statement EXCEPT ![c] = 1]
  /\ UNCHANGED <<mutex, stage, inGroup>>

NextItem(c) ==
  /\ item' = [item EXCEPT ![c] = @ + 1]
  /\ inGroup' = [inGroup EXCEPT ![c] = "no"]
  /\ statement' = [statement EXCEPT ![c] = 1]
  /\ UNCHANGED <<mutex, stage>>

(* Variant: the mutex is not unlocked on the way out. *)
LeaveLocked(c) ==
  /\ GoTo(c, "threw")
  /\ inGroup' = [inGroup EXCEPT ![c] = "no"]
  /\ UNCHANGED <<mutex, item, statement>>

(* An exception leaves executeAllStatement; withLock unlocks on the way.   *)
Leave(c) ==
  /\ GoTo(c, "threw")
  /\ mutex' = Nobody
  /\ inGroup' = [inGroup EXCEPT ![c] = "no"]
  /\ UNCHANGED <<item, statement>>

(* A statement has been executed. *)
NextStatement(c) ==
  IF inGroup[c] = "running"
  THEN /\ statement' = [statement EXCEPT ![c] = @ + 1]
       /\ UNCHANGED <<mutex, stage, item, inGroup>>
  ELSE NextItem(c)

(* It throws: in a group, endTransaction follows in finally. *)
StatementThrows(c) ==
  IF inGroup[c] = "running"
  THEN /\ inGroup' = [inGroup EXCEPT ![c] = "unwinding"]
       /\ UNCHANGED <<mutex, stage, item, statement>>
  ELSE Leave(c)

-----------------------------------------------------------------------------
(* The block.  Statements it built are only a list until it returns. *)

BlockReturns(c) ==
  /\ stage[c] = "building"
  /\ GoTo(c, "waiting")
  /\ UNCHANGED <<connection, mutex, program, item, inGroup, statement, selectVars>>

BlockThrows(c) ==
  /\ stage[c] = "building"
  /\ GoTo(c, "threw")
  /\ UNCHANGED <<connection, mutex, program, item, inGroup, statement, selectVars>>

(* Variant: no mutex. *)
LockNothing(c) ==
  /\ stage[c] = "waiting"
  /\ mutex' = c
  /\ GoTo(c, "executing")
  /\ UNCHANGED <<connection, program, item, inGroup, statement, selectVars>>

LockMutex(c) ==
  /\ stage[c] = "waiting"
  /\ mutex = Nobody
  /\ mutex' = c
  /\ GoTo(c, "executing")
  /\ UNCHANGED <<connection, program, item, inGroup, statement, selectVars>>

(* Mutex.lock is cancellable; once locked, nothing suspends any more. *)
CancelWaiting(c) ==
  /\ stage[c] = "waiting"
  /\ GoTo(c, "threw")
  /\ UNCHANGED <<connection, mutex, program, item, inGroup, statement, selectVars>>

-----------------------------------------------------------------------------
(* executeAllStatement, and the same loop in a group *)

(* Variant: the exception of a statement is swallowed. *)
ExecuteWriteOn(c) ==
  /\ AtStatement(c, "write")
  /\ \E o \in ExecCall(connection, Here(c)) : connection' = o.connection
  /\ NextStatement(c)
  /\ UNCHANGED <<program, selectVars>>

ExecuteWrite(c) ==
  /\ AtStatement(c, "write")
  /\ \E o \in ExecCall(connection, Here(c)) :
       /\ connection' = o.connection
       /\ IF o.ok THEN NextStatement(c) ELSE StatementThrows(c)
  /\ UNCHANGED <<program, selectVars>>

Visible == connection.session.durable \union connection.session.work

Read(q) ==
  /\ cursor' = [cursor EXCEPT ![q] = "read"]
  /\ seen' = [seen EXCEPT ![q] = Visible]

(* SelectStatement.execute prepares and binds the query and keeps the      *)
(* cursor, or throws.  A native cursor has not stepped yet.  executeQuery  *)
(* of JDBC has made the first step, which may decide the whole result (one *)
(* row, a sort) or not.                                                    *)
ExecuteSelect(c) ==
  /\ AtStatement(c, "select")
  /\ \E o \in QueryCall(connection) :
       /\ connection' = o.connection
       /\ IF o.ok
          THEN /\ NextStatement(c)
               /\ \/ connection.platform = "jdbc" /\ Read(Here(c))
                  \/ cursor' = [cursor EXCEPT ![Here(c)] = "open"] /\ UNCHANGED seen
          ELSE StatementThrows(c) /\ UNCHANGED selectVars
  /\ UNCHANGED program

BeginGroup(c) ==
  /\ At(c, "group") /\ inGroup[c] = "no"
  /\ \E o \in BeginCall(connection) :
       /\ connection' = o.connection
       /\ IF o.ok
          THEN /\ inGroup' = [inGroup EXCEPT ![c] = "running"]
               /\ UNCHANGED <<mutex, stage, item, statement>>
          ELSE Leave(c)
  /\ UNCHANGED <<program, selectVars>>

MarkGroup(c) ==
  /\ inGroup[c] = "running"
  /\ statement[c] > Len(Current(c).statements)
  /\ \E o \in SetSuccessfulCall(connection) :
       /\ connection' = o.connection
       /\ inGroup' = [inGroup EXCEPT ![c] = IF o.ok THEN "marked" ELSE "unwinding"]
  /\ UNCHANGED <<mutex, program, stage, item, statement, selectVars>>

(* Variant: the exception that ended the group is swallowed. *)
EndGroupOn(c) ==
  /\ inGroup[c] \in {"marked", "unwinding"}
  /\ \E o \in EndCall(connection) :
       /\ connection' = o.connection
       /\ IF o.ok THEN NextItem(c) ELSE Leave(c)
  /\ UNCHANGED <<program, selectVars>>

EndGroup(c) ==
  /\ inGroup[c] \in {"marked", "unwinding"}
  /\ \E o \in EndCall(connection) :
       /\ connection' = o.connection
       /\ IF o.ok /\ inGroup[c] = "marked" THEN NextItem(c) ELSE Leave(c)
  /\ UNCHANGED <<program, selectVars>>

ScopeReturns(c) ==
  /\ stage[c] = "executing"
  /\ item[c] > Len(program[c])
  /\ GoTo(c, "returned")
  /\ mutex' = Nobody
  /\ UNCHANGED <<connection, program, item, inGroup, statement, selectVars>>

(* getResults steps an open cursor now, whoever is executing: it takes no  *)
(* mutex.  The client may have kept the SELECT of a scope that threw.      *)
GetResults(q) ==
  /\ cursor[q] = "open"
  /\ Read(q)
  /\ UNCHANGED <<connection, mutex, program, scopeVars>>

(* A step or the decoder throws: use closes the cursor, which a further    *)
(* getResults finds closed (NativeStatements has what happens then).       *)
GetResultsThrows(q) ==
  /\ cursor[q] = "open"
  /\ cursor' = [cursor EXCEPT ![q] = "closed"]
  /\ \E o \in StepCall(connection) : connection' = o.connection
  /\ UNCHANGED <<mutex, program, scopeVars, seen>>

-----------------------------------------------------------------------------
Execute(c) ==
  \/ LockMutex(c)
  \/ ExecuteWrite(c) \/ ExecuteSelect(c)
  \/ BeginGroup(c) \/ MarkGroup(c) \/ EndGroup(c)
  \/ ScopeReturns(c)

Terminated ==
  /\ \A c \in Coroutine : stage[c] \in {"returned", "threw"}
  /\ UNCHANGED vars

Next ==
  \/ \E c \in Coroutine : \/ BlockReturns(c) \/ BlockThrows(c) \/ CancelWaiting(c)
                          \/ Execute(c)
  \/ \E q \in Query : GetResults(q) \/ GetResultsThrows(q)
  \/ Terminated

Spec == Init /\ [][Next]_vars

(* The dispatcher runs every coroutine that can run. *)
FairSpec == Spec /\ \A c \in Coroutine : WF_vars(Execute(c))

-----------------------------------------------------------------------------
(* Properties *)

ItemWrites(c, i) ==
  {<<c, i, j>> : j \in {j \in DOMAIN program[c][i].statements :
                          program[c][i].statements[j] = "write"}}

PastItems(c) == 1 .. (item[c] - 1)

(* At every moment the database holds, of each scope, exactly the items it *)
(* is past: in order, nothing skipped, a transaction all or not at all,    *)
(* nothing of the item that threw nor of any item after it, nothing of a   *)
(* block that threw or of a scope cancelled while it waited; and whatever  *)
(* other scopes do, fail or roll back meanwhile takes nothing of it away.  *)
EffectsAreItemsPassed ==
  \A c \in Coroutine :
    {w \in connection.session.durable : w[1] = c}
      = UNION {ItemWrites(c, i) : i \in PastItems(c)}

(* An open transaction belongs to the scope that holds the mutex, and      *)
(* holds only statements of the group that scope is in: no statement of    *)
(* another scope ends up inside it.                                        *)
TransactionIsOfMutexHolder ==
  connection.session.inTransaction =>
    /\ mutex # Nobody
    /\ inGroup[mutex] # "no"
    /\ connection.session.work \subseteq ItemWrites(mutex, item[mutex])

(* Every scope that waits for the mutex returns or throws: no path through *)
(* executeAllStatement, with whichever statement or call of the            *)
(* transaction throwing, leaves the mutex locked.                          *)
ScopesFinish ==
  \A c \in Coroutine : stage[c] = "waiting" ~> stage[c] \in {"returned", "threw"}

(* A SELECT is one of the operations of its scope: it reads none of the    *)
(* work of a transaction that another scope has open and may roll back.    *)
SelectReadsOnlyFinishedScopes ==
  [][\A q \in Query :
       cursor[q] = "open" /\ cursor'[q] = "read" /\ stage[q[1]] = "returned" =>
         seen'[q] \subseteq connection.session.durable]_vars

(* The statements before the j-th in its own item. *)
Before(c, i, j) == {w \in ItemWrites(c, i) : w[3] < j}

(* The rows of a SELECT, whenever they are read and whatever other scopes  *)
(* have done, rolled back or still have open by then, have every item      *)
(* before it in its scope; and the statements before it in its             *)
(* transaction, if that was committed.                                     *)
SelectSeesItsPast ==
  \A c \in Coroutine : \A i \in DOMAIN program[c] : \A j \in DOMAIN program[c][i].statements :
    program[c][i].statements[j] = "select" /\ cursor[<<c, i, j>>] = "read" =>
      /\ UNION {ItemWrites(c, k) : k \in 1 .. (i - 1)} \subseteq seen[<<c, i, j>>]
      /\ i \in PastItems(c) => Before(c, i, j) \subseteq seen[<<c, i, j>>]

=============================================================================
