----------------------- MODULE NativeStatementsProofs -----------------------
(***************************************************************************)
(* Types and read locks of NativeStatements, proved for every set of       *)
(* threads and SELECTs, every number of rows and of retries.               *)
(***************************************************************************)
EXTENDS NativeStatements, TLAPS

(* A crash ends every thread. *)
CrashesTogether == ~ Alive => \A t \in Thread : At(t, "crashed")

Holding == (Reading \union Writing) \ {"checked"}

(* A call past its beginning has a statement. *)
CallsHaveStatements ==
  \A t \in Thread : thread[t].pc \in Holding => thread[t].statement \in StatementId

ReadersHaveSelects ==
  \A t \in Thread : thread[t].pc \in Reading => thread[t].select \in Select

(* The loop of step. *)
TriesAreBounded ==
  \A t \in Thread :
    /\ thread[t].pc \in {"idle", "checked", "decoding"} => thread[t].tries = 0
    /\ thread[t].pc = "stepping" => thread[t].tries < MaxTries

(* The statement of a driver call is of that call alone: nobody else has   *)
(* it and no SELECT has it as its cursor; before its bind it has no row.   *)
DriverCallsOwnStatements ==
  \A t \in Thread : thread[t].pc \in Writing =>
    /\ \A u \in Thread \ {t} : ~ Holds(u, thread[t].statement)
    /\ \A q \in Select : cursor[q] # thread[t].statement

BindingIsReady ==
  \A t \in Thread : At(t, "binding") => statements[thread[t].statement].state = "ready"

CallsInv ==
  /\ TypeOK
  /\ CrashesTogether
  /\ CallsHaveStatements
  /\ ReadersHaveSelects
  /\ TriesAreBounded

-----------------------------------------------------------------------------
(* The threads: how the record of one thread may change *)

LockFits == Alive => \A t \in Thread : thread[t].pc \in Writing <=> accessLock = t

ThreadsInv ==
  /\ thread \in [Thread -> ThreadRecord]
  /\ accessLock \in Thread \union {Null}
  /\ LockFits
  /\ CrashesTogether
  /\ CallsHaveStatements
  /\ ReadersHaveSelects
  /\ TriesAreBounded

(* The lock goes with the driver call: taken, kept, released, or not met. *)
LockFollows(t, pc) ==
  IF pc \in Writing THEN accessLock' = t /\ accessLock \in {t, Null}
  ELSE accessLock' = IF thread[t].pc \in Writing THEN Null ELSE accessLock

FitsRecord(r) ==
  /\ r \in ThreadRecord'
  /\ r.pc # "crashed"
  /\ r.pc \in Holding => r.statement # 0
  /\ r.pc \in Reading => r.select \in Select
  /\ r.pc \in {"idle", "checked", "decoding"} => r.tries = 0
  /\ r.pc = "stepping" => r.tries < MaxTries

(* A thread that changes only its own record, to one that fits, keeps the  *)
(* facts about all threads.                                                *)
LEMMA OneThreadMoves ==
  ASSUME ThreadsInv, NEW t \in Thread, thread[t].pc # "crashed", NEW r, FitsRecord(r),
         thread' = [thread EXCEPT ![t] = r], LockFollows(t, r.pc),
         Len(statements) \in Nat, Len(statements') \in Nat, Len(statements) <= Len(statements')
  PROVE  ThreadsInv'
<1> USE DEF ThreadsInv, FitsRecord
<1>1. thread[t] \in ThreadRecord /\ r \in ThreadRecord'
  OBVIOUS
<1>2. \A u \in Thread : thread[u] \in ThreadRecord'
  BY DEF ThreadRecord
<1>3. thread' \in [Thread -> ThreadRecord']
  BY <1>1, <1>2
<1>4. \A u \in Thread : thread'[u] = IF u = t THEN r ELSE thread[u]
  OBVIOUS
<1>5. Alive
  BY DEF Alive, CrashesTogether, At
<1>6. Alive' /\ CrashesTogether'
  BY <1>4, <1>5 DEF Alive, CrashesTogether, At
<1>7. accessLock' \in Thread \union {Null}
  BY DEF LockFollows
<1>8. LockFits'
  BY <1>4, <1>5, NullAssumption DEF LockFits, LockFollows
<1>9. CallsHaveStatements'
  <2>1. r.statement \in 0 .. Len(statements')
    BY <1>1 DEF ThreadRecord
  <2>2. \A u \in Thread : thread[u].statement \in StatementId => thread[u].statement \in StatementId'
    BY DEF StatementId
  <2> QED BY <1>4, <2>1, <2>2 DEF CallsHaveStatements, StatementId
<1>10. TriesAreBounded' /\ ReadersHaveSelects'
  BY <1>4 DEF TriesAreBounded, ReadersHaveSelects
<1> QED BY <1>3, <1>6, <1>7, <1>8, <1>9, <1>10

(* The record of one statement changes, or none. *)
LEMMA OneStatementMoves ==
  ASSUME statements \in Seq(StatementRecord), NEW i \in StatementId,
         NEW s \in StatementRecord, statements' = [statements EXCEPT ![i] = s]
  PROVE  statements' \in Seq(StatementRecord) /\ Len(statements') = Len(statements)
BY DEF StatementId

DataInv ==
  /\ statements \in Seq(StatementRecord) /\ Len(statements) <= MaxStatements
  /\ cursor \in [Select -> 0 .. Len(statements)]
  /\ result \in [Select -> Seq(0 .. Rows) \union {Null}]
  /\ connection \in {"open", "zombie", "freed"}
  /\ locked \in BOOLEAN
  /\ unbound \subseteq StatementId /\ again \subseteq Select
  /\ raced \subseteq Select /\ failed \subseteq Select

(* The invariant is what holds of the data and what holds of the threads. *)
LEMMA CallsInvParts ==
  /\ CallsInv <=> DataInv /\ ThreadsInv
  /\ CallsInv' <=> DataInv' /\ ThreadsInv'
BY DEF CallsInv, DataInv, ThreadsInv, TypeOK, LockFits

(* The thread that ends its call, or goes on with another step. *)
LEMMA IdleFits == FitsRecord(Idle)
BY StatementBounds DEF FitsRecord, Idle, ThreadRecord, Holding, Reading, Writing

(* A call with a statement may go on to any step that needs no more.      *)
LEMMA GoFits ==
  ASSUME DataInv, ThreadsInv, NEW t \in Thread, NEW pc \in Reading \union Writing,
         thread[t].pc \in Holding, pc \notin {"checked", "decoding", "stepping"},
         pc \in Reading => thread[t].pc \in Reading,
         Len(statements') = Len(statements)
  PROVE  FitsRecord([thread[t] EXCEPT !.pc = pc])
<1>1. thread[t] \in ThreadRecord /\ ThreadRecord' = ThreadRecord
  BY DEF ThreadsInv, ThreadRecord
<1>2. thread[t].statement # 0
  BY DEF ThreadsInv, CallsHaveStatements, StatementId
<1>3. pc # "crashed" /\ pc # "idle"
  BY DEF Reading, Writing
<1>4. pc \in Reading => thread[t].select \in Select
  BY DEF ThreadsInv, ReadersHaveSelects
<1> QED BY <1>1, <1>2, <1>3, <1>4 DEF FitsRecord, ThreadRecord

(* A call that goes on with record r, or ends, makes no statement. *)
LEMMA CallMoves ==
  ASSUME CallsInv, NEW t \in Thread, thread[t].pc # "crashed", NEW r, FitsRecord(r),
         thread' = [thread EXCEPT ![t] = r], LockFollows(t, r.pc),
         DataInv', Len(statements') = Len(statements)
  PROVE  CallsInv'
<1>1. DataInv /\ ThreadsInv
  BY CallsInvParts
<1>2. Len(statements) \in Nat
  BY <1>1 DEF DataInv
<1>3. Len(statements') \in Nat /\ Len(statements) <= Len(statements')
  BY <1>2
<1>4. ThreadsInv'
  BY <1>1, <1>2, <1>3, OneThreadMoves
<1> QED BY <1>4, CallsInvParts

(* There is a number of statements. *)
LEMMA Lengths ==
  ASSUME DataInv
  PROVE  Len(statements) \in Nat
BY DEF DataInv

(* While a thread runs, it is in a driver call if and only if it has the lock. *)
LEMMA WriterHasLock ==
  ASSUME ThreadsInv, NEW t \in Thread, thread[t].pc # "crashed"
  PROVE  Alive /\ (thread[t].pc \in Writing <=> accessLock = t)
BY DEF ThreadsInv, CrashesTogether, Alive, At, LockFits

(* The steps of a call keep the invariant. *)
LEMMA CallsContinue ==
  ASSUME CallsInv, NEW t \in Thread, Continue(t)
  PROVE  CallsInv'
<1> USE StatementBounds, NullAssumption
<1>1. DataInv /\ ThreadsInv /\ Len(statements) \in Nat
  BY CallsInvParts, Lengths
<1>2. thread[t] \in ThreadRecord /\ thread \in [Thread -> ThreadRecord]
  BY <1>1 DEF ThreadsInv
<1>3. thread[t].pc \in Holding => thread[t].statement \in StatementId
  BY <1>1 DEF ThreadsInv, CallsHaveStatements
<1>a. thread[t].pc # "crashed" => (thread[t].pc \in Writing <=> accessLock = t)
  BY <1>1, WriterHasLock
<1>b. \A i \in StatementId : statements[i] \in StatementRecord
  BY <1>1 DEF DataInv, StatementId
<1>4. CASE BindThrows(t)
  <2>1. thread' = [thread EXCEPT ![t] = Idle] /\ LockFollows(t, Idle.pc)
    BY <1>a, <1>4 DEF BindThrows, At, Return, Idle, LockFollows, Writing
  <2>2. thread[t].pc \in Holding /\ thread[t].pc # "crashed"
    BY <1>4 DEF BindThrows, At, Holding, Reading, Writing
  <2>3. DataInv' /\ Len(statements') = Len(statements)
    BY <1>1, <1>2, <1>3, <1>4, <2>2 DEF DataInv, BindThrows, ThreadRecord, StatementId
  <2> QED BY <1>1, <2>1, <2>2, <2>3, IdleFits, CallMoves
<1>5. CASE BindQuery(t)
  <2>1. thread' = [thread EXCEPT ![t] = Idle] /\ LockFollows(t, Idle.pc)
    BY <1>a, <1>5 DEF BindQuery, At, Return, Idle, LockFollows, Writing
  <2>2. thread[t].pc \in Holding /\ thread[t].pc # "crashed"
    BY <1>5 DEF BindQuery, At, Holding, Reading, Writing
  <2>3. DataInv' /\ Len(statements') = Len(statements)
    BY <1>1, <1>2, <1>3, <1>5, <2>2 DEF DataInv, BindQuery, ThreadRecord, StatementId
  <2> QED BY <1>1, <2>1, <2>2, <2>3, IdleFits, CallMoves
<1>6. CASE BindWrite(t)
  <2>1. thread' = [thread EXCEPT ![t] = [thread[t] EXCEPT !.pc = "executing"]]
    BY <1>2, <1>6 DEF BindWrite, Go
  <2>2. thread[t].pc \in Holding /\ thread[t].pc # "crashed"
    BY <1>6 DEF BindWrite, At, Holding, Reading, Writing
  <2>3. LockFollows(t, "executing")
    BY <1>a, <1>6, <2>2 DEF BindWrite, At, LockFollows, Writing
  <2>4. DataInv' /\ Len(statements') = Len(statements)
    BY <1>1, <1>2, <1>3, <1>6, <2>2 DEF DataInv, BindWrite, ThreadRecord, StatementId, history
  <2>5. FitsRecord([thread[t] EXCEPT !.pc = "executing"])
    BY <1>1, <1>6, <2>2, <2>4, GoFits DEF Reading, Writing, At, BindWrite
  <2>6. [thread[t] EXCEPT !.pc = "executing"].pc = "executing"
    BY <1>2 DEF ThreadRecord
  <2> QED BY <1>1, <2>1, <2>2, <2>3, <2>4, <2>5, <2>6, CallMoves
<1>7. CASE ExecuteNonQuery(t)
  <2>1. thread' = [thread EXCEPT ![t] = [thread[t] EXCEPT !.pc = "resetting"]]
    BY <1>2, <1>7 DEF ExecuteNonQuery, Go
  <2>2. thread[t].pc \in Holding /\ thread[t].pc # "crashed"
    BY <1>7 DEF ExecuteNonQuery, At, Holding, Reading, Writing
  <2>3. LockFollows(t, "resetting")
    BY <1>a, <1>7, <2>2 DEF ExecuteNonQuery, At, LockFollows, Writing
  <2>4. DataInv' /\ Len(statements') = Len(statements)
    <3>1. PICK outcome \in {"done", "row", "error"} :
            statements' = [statements EXCEPT ![thread[t].statement].state = outcome]
      BY <1>7 DEF ExecuteNonQuery
    <3>2. [statements[thread[t].statement] EXCEPT !.state = outcome] \in StatementRecord
      BY <1>b, <1>3, <2>2 DEF StatementRecord
    <3>3. statements' = [statements EXCEPT ![thread[t].statement] =
                           [statements[thread[t].statement] EXCEPT !.state = outcome]]
      BY <1>1, <1>3, <2>2, <3>1 DEF DataInv, StatementId
    <3>4. statements' \in Seq(StatementRecord) /\ Len(statements') = Len(statements)
      BY <1>1, <1>3, <2>2, <3>2, <3>3, OneStatementMoves DEF DataInv
    <3> QED BY <1>1, <1>7, <3>4 DEF DataInv, ExecuteNonQuery, StatementId, history
  <2>5. FitsRecord([thread[t] EXCEPT !.pc = "resetting"])
    BY <1>1, <1>7, <2>2, <2>4, GoFits DEF Reading, Writing, At, ExecuteNonQuery
  <2>6. [thread[t] EXCEPT !.pc = "resetting"].pc = "resetting"
    BY <1>2 DEF ThreadRecord
  <2> QED BY <1>1, <2>1, <2>2, <2>3, <2>4, <2>5, <2>6, CallMoves
<1>8. CASE ResetAndClear(t)
  <2>1. thread' = [thread EXCEPT ![t] = [thread[t] EXCEPT !.pc = "finalizing"]]
    BY <1>2, <1>8 DEF ResetAndClear, Go
  <2>2. thread[t].pc \in Holding /\ thread[t].pc # "crashed"
    BY <1>8 DEF ResetAndClear, At, Holding, Reading, Writing
  <2>3. LockFollows(t, "finalizing")
    BY <1>a, <1>8, <2>2 DEF ResetAndClear, At, LockFollows, Writing
  <2>4. DataInv' /\ Len(statements') = Len(statements)
    <3>1. [statements[thread[t].statement] EXCEPT !.state = "ready"] \in StatementRecord
      BY <1>b, <1>3, <2>2 DEF StatementRecord
    <3>2. statements' = [statements EXCEPT ![thread[t].statement] = [statements[thread[t].statement] EXCEPT !.state = "ready"]]
      BY <1>1, <1>3, <1>8, <2>2 DEF ResetAndClear, DataInv, StatementId
    <3>3. statements' \in Seq(StatementRecord) /\ Len(statements') = Len(statements)
      BY <1>1, <1>3, <2>2, <3>1, <3>2, OneStatementMoves DEF DataInv
    <3> QED BY <1>1, <1>8, <3>3 DEF DataInv, ResetAndClear, StatementId, history
  <2>5. FitsRecord([thread[t] EXCEPT !.pc = "finalizing"])
    BY <1>1, <1>8, <2>2, <2>4, GoFits DEF Reading, Writing, At, ResetAndClear
  <2>6. [thread[t] EXCEPT !.pc = "finalizing"].pc = "finalizing"
    BY <1>2 DEF ThreadRecord
  <2> QED BY <1>1, <2>1, <2>2, <2>3, <2>4, <2>5, <2>6, CallMoves
<1>9. CASE FinalizeWrite(t)
  <2>1. thread' = [thread EXCEPT ![t] = Idle] /\ LockFollows(t, Idle.pc)
    BY <1>a, <1>9 DEF FinalizeWrite, At, Return, Idle, LockFollows, Writing
  <2>2. thread[t].pc \in Holding /\ thread[t].pc # "crashed"
    BY <1>9 DEF FinalizeWrite, At, Holding, Reading, Writing
  <2>3. DataInv' /\ Len(statements') = Len(statements)
    <3>1. [statements[thread[t].statement] EXCEPT !.state = "finalized"] \in StatementRecord
      BY <1>b, <1>3, <2>2 DEF StatementRecord
    <3>2. statements' = [statements EXCEPT ![thread[t].statement] =
                           [statements[thread[t].statement] EXCEPT !.state = "finalized"]]
      BY <1>1, <1>3, <1>9, <2>2 DEF FinalizeWrite, Finalize, DataInv, StatementId
    <3>3. statements' \in Seq(StatementRecord) /\ Len(statements') = Len(statements)
      BY <1>1, <1>3, <2>2, <3>1, <3>2, OneStatementMoves DEF DataInv
    <3>4. connection' \in {"open", "zombie", "freed"}
      BY <1>1, <1>9 DEF FinalizeWrite, Finalize, DataInv
    <3> QED BY <1>1, <1>9, <3>3, <3>4 DEF DataInv, FinalizeWrite, StatementId, history
  <2> QED BY <1>1, <2>1, <2>2, <2>3, IdleFits, CallMoves
<1>10. CASE ReadCursor(t)
  <2>1. thread[t].pc = "checked" /\ thread[t].tries = 0 /\ Len(statements') = Len(statements)
    BY <1>1, <1>10 DEF ReadCursor, At, ThreadsInv, TriesAreBounded
  <2>2. DataInv'
    BY <1>1, <1>10 DEF DataInv, ReadCursor, StatementId, history
  <2>3. CASE cursor[thread[t].select] = 0
    <3>1. thread' = [thread EXCEPT ![t] = Idle] /\ LockFollows(t, Idle.pc)
      BY <1>10, <2>1, <2>3 DEF ReadCursor, Return, Idle, LockFollows, Writing
    <3> QED BY <1>1, <2>1, <2>2, <3>1, IdleFits, CallMoves
  <2>4. CASE cursor[thread[t].select] # 0
    <3> DEFINE r == [thread[t] EXCEPT !.pc = "stepping", !.statement = cursor[thread[t].select]]
    <3>1. thread' = [thread EXCEPT ![t] = r]
      BY <1>2, <1>10, <2>4 DEF ReadCursor
    <3>2. LockFollows(t, "stepping")
      BY <1>10, <2>1 DEF ReadCursor, LockFollows, Writing
    <3>3. thread[t].select \in Select
      BY <1>1, <2>1 DEF ThreadsInv, ReadersHaveSelects, Reading
    <3>4. cursor[thread[t].select] \in 0 .. Len(statements)
      BY <1>1, <3>3 DEF DataInv
    <3>a. r.pc = "stepping" /\ r.statement # 0 /\ r.select \in Select /\ r.tries < MaxTries
      BY <1>2, <2>1, <2>4, <3>3 DEF ThreadRecord
    <3>b. r \in ThreadRecord'
      BY <1>2, <2>1, <3>4 DEF ThreadRecord, Reading
    <3>5. FitsRecord(r)
      BY <3>a, <3>b DEF FitsRecord
    <3>6. r.pc = "stepping"
      BY <1>2 DEF ThreadRecord
    <3> HIDE DEF r
    <3> QED BY <1>1, <2>1, <2>2, <3>1, <3>2, <3>5, <3>6, CallMoves
  <2> QED BY <2>3, <2>4
<1>11. CASE DecodeThrows(t)
  <2>1. thread' = [thread EXCEPT ![t] = [thread[t] EXCEPT !.pc = "throwing"]]
    BY <1>2, <1>11 DEF DecodeThrows, Go
  <2>2. thread[t].pc \in Holding /\ thread[t].pc # "crashed"
    BY <1>11 DEF DecodeThrows, At, Holding, Reading, Writing
  <2>3. LockFollows(t, "throwing")
    BY <1>a, <1>11, <2>2 DEF DecodeThrows, At, LockFollows, Writing
  <2>4. DataInv' /\ Len(statements') = Len(statements)
    BY <1>1, <1>2, <1>3, <1>11, <2>2 DEF DataInv, DecodeThrows, ThreadRecord, StatementId, history
  <2>5. FitsRecord([thread[t] EXCEPT !.pc = "throwing"])
    BY <1>1, <1>11, <2>2, <2>4, GoFits DEF Reading, Writing, At, DecodeThrows
  <2>6. [thread[t] EXCEPT !.pc = "throwing"].pc = "throwing"
    BY <1>2 DEF ThreadRecord
  <2> QED BY <1>1, <2>1, <2>2, <2>3, <2>4, <2>5, <2>6, CallMoves
<1>12. CASE Store(t)
  <2>1. thread' = [thread EXCEPT ![t] = [thread[t] EXCEPT !.pc = "closing"]]
    BY <1>2, <1>12 DEF Store, Go
  <2>2. thread[t].pc \in Holding /\ thread[t].pc # "crashed"
    BY <1>12 DEF Store, At, Holding, Reading, Writing
  <2>3. LockFollows(t, "closing")
    BY <1>a, <1>12, <2>2 DEF Store, At, LockFollows, Writing
  <2>4. DataInv' /\ Len(statements') = Len(statements)
    BY <1>1, <1>2, <1>3, <1>12, <2>2 DEF DataInv, Store, ThreadRecord, StatementId, history
  <2>5. FitsRecord([thread[t] EXCEPT !.pc = "closing"])
    BY <1>1, <1>12, <2>2, <2>4, GoFits DEF Reading, Writing, At, Store
  <2>6. [thread[t] EXCEPT !.pc = "closing"].pc = "closing"
    BY <1>2 DEF ThreadRecord
  <2> QED BY <1>1, <2>1, <2>2, <2>3, <2>4, <2>5, <2>6, CallMoves
<1>13. CASE CloseCursor(t)
  <2>1. thread' = [thread EXCEPT ![t] = Idle] /\ LockFollows(t, Idle.pc)
    BY <1>a, <1>13 DEF CloseCursor, At, Return, Idle, LockFollows, Writing
  <2>2. thread[t].pc \in Holding /\ thread[t].pc # "crashed"
    BY <1>13 DEF CloseCursor, At, Holding, Reading, Writing
  <2>3. DataInv' /\ Len(statements') = Len(statements)
    <3>1. [statements[thread[t].statement] EXCEPT !.state = "finalized"] \in StatementRecord
      BY <1>b, <1>3, <2>2 DEF StatementRecord
    <3>2. statements' = [statements EXCEPT ![thread[t].statement] =
                           [statements[thread[t].statement] EXCEPT !.state = "finalized"]]
      BY <1>1, <1>3, <1>13, <2>2 DEF CloseCursor, Finalize, DataInv, StatementId
    <3>3. statements' \in Seq(StatementRecord) /\ Len(statements') = Len(statements)
      BY <1>1, <1>3, <2>2, <3>1, <3>2, OneStatementMoves DEF DataInv
    <3>4. connection' \in {"open", "zombie", "freed"}
      BY <1>1, <1>13 DEF CloseCursor, Finalize, DataInv
    <3>5. thread[t].select \in Select
      BY <1>1, <1>13 DEF CloseCursor, At, ThreadsInv, ReadersHaveSelects, Reading
    <3> QED BY <1>1, <1>13, <3>3, <3>4, <3>5 DEF DataInv, CloseCursor, StatementId, history
  <2> QED BY <1>1, <2>1, <2>2, <2>3, IdleFits, CallMoves
<1>14. CASE Step(t)
  <2> DEFINE i == thread[t].statement
  <2>1. /\ thread[t].pc = "stepping" /\ i \in StatementId /\ thread[t].tries < MaxTries
        /\ thread[t].select \in Select
        /\ UNCHANGED <<cursor, result, accessLock, connection, locked, history>>
    BY <1>1, <1>14 DEF Step, At, ThreadsInv, CallsHaveStatements, TriesAreBounded, ReadersHaveSelects,
                     Holding, Reading
  <2>2. StepRow(t, i) \/ StepDone(t, i) \/ StepError(t, i) \/ StepBusy(t, i)
    BY <1>14 DEF Step
  <2>3. PICK pc \in {"stepping", "decoding", "storing", "throwing"}, k \in 0 .. MaxTries :
          /\ thread' = [thread EXCEPT ![t] = [thread[t] EXCEPT !.pc = pc, !.tries = k]]
          /\ pc = "decoding" => k = 0
          /\ pc = "stepping" => k < MaxTries
    <3>1. CASE StepRow(t, i)
      <4>1. thread' = [thread EXCEPT ![t] = [thread[t] EXCEPT !.pc = "decoding", !.tries = 0]]
        BY <1>2, <3>1 DEF StepRow
      <4>2. 0 \in 0 .. MaxTries
        OBVIOUS
      <4> QED BY <4>1, <4>2
    <3>2. CASE StepDone(t, i)
      <4>1. thread' = [thread EXCEPT ![t] = [thread[t] EXCEPT !.pc = "storing", !.tries = 0]]
        BY <1>2, <3>2 DEF StepDone
      <4>2. 0 \in 0 .. MaxTries
        OBVIOUS
      <4> QED BY <4>1, <4>2
    <3>3. CASE StepError(t, i)
      <4>1. thread' = [thread EXCEPT ![t] = [thread[t] EXCEPT !.pc = "throwing", !.tries = thread[t].tries]]
        BY <1>2, <3>3 DEF StepError, Go, ThreadRecord
      <4>2. thread[t].tries \in 0 .. MaxTries
        BY <1>2 DEF ThreadRecord
      <4> QED BY <4>1, <4>2
    <3>4. CASE StepBusy(t, i)
      <4> DEFINE pc == IF thread[t].tries + 1 = MaxTries THEN "throwing" ELSE "stepping"
      <4>1. thread[t].tries \in Nat
        BY <1>2 DEF ThreadRecord
      <4>2. thread[t].tries + 1 \in 0 .. MaxTries /\ (pc = "stepping" => thread[t].tries + 1 < MaxTries)
        BY <2>1, <4>1
      <4>3. thread' = [thread EXCEPT ![t] = [thread[t] EXCEPT !.pc = pc, !.tries = thread[t].tries + 1]]
        BY <1>2, <2>1, <3>4 DEF StepBusy, ThreadRecord
      <4> QED BY <4>2, <4>3
    <3> QED BY <2>2, <3>1, <3>2, <3>3, <3>4
  <2>4. statements' \in Seq(StatementRecord) /\ Len(statements') = Len(statements)
    <3>1. PICK state \in {"row", "done", "error"}, at \in 0 .. Rows :
            \/ statements' = [statements EXCEPT ![i] = [statements[i] EXCEPT !.state = state, !.at = at]]
            \/ statements' = statements
      <4>1. statements[i] \in StatementRecord
        BY <1>b, <2>1
      <4>2. CASE StepRow(t, i)
        <5>1. RowsRead(i) \in Nat /\ RowsRead(i) < Rows
          BY <4>1, <4>2 DEF StepRow, StepOutcomes, RowsRead, StatementRecord
        <5>2. statements' = [statements EXCEPT ![i] =
                               [statements[i] EXCEPT !.state = "row", !.at = RowsRead(i) + 1]]
          BY <1>1, <2>1, <4>2 DEF StepRow, DataInv, StatementId
        <5>3. RowsRead(i) + 1 \in 0 .. Rows
          BY <5>1
        <5> QED BY <5>2, <5>3
      <4>3. CASE StepDone(t, i)
        <5>1. statements' = [statements EXCEPT ![i] =
                               [statements[i] EXCEPT !.state = "done", !.at = statements[i].at]]
          BY <1>1, <2>1, <4>1, <4>3 DEF StepDone, DataInv, StatementId, StatementRecord
        <5>2. statements[i].at \in 0 .. Rows
          BY <4>1 DEF StatementRecord
        <5> QED BY <5>1, <5>2
      <4>4. CASE StepError(t, i)
        <5>1. statements' = [statements EXCEPT ![i] =
                               [statements[i] EXCEPT !.state = "error", !.at = statements[i].at]]
          BY <1>1, <2>1, <4>1, <4>4 DEF StepError, DataInv, StatementId, StatementRecord
        <5>2. statements[i].at \in 0 .. Rows
          BY <4>1 DEF StatementRecord
        <5> QED BY <5>1, <5>2
      <4>5. CASE StepBusy(t, i)
        <5>1. statements[i].at \in 0 .. Rows
          BY <4>1 DEF StatementRecord
        <5> QED BY <4>5, <5>1 DEF StepBusy
      <4> QED BY <2>2, <4>2, <4>3, <4>4, <4>5
    <3>2. [statements[i] EXCEPT !.state = state, !.at = at] \in StatementRecord
      BY <1>b, <2>1 DEF StatementRecord
    <3> QED BY <1>1, <2>1, <3>1, <3>2, OneStatementMoves DEF DataInv
  <2>5. DataInv'
    BY <1>1, <2>1, <2>4 DEF DataInv, StatementId, history
  <2> DEFINE r == [thread[t] EXCEPT !.pc = pc, !.tries = k]
  <2>6. r.pc = pc /\ r.tries = k /\ r.statement = i /\ r.select \in Select
    BY <1>2, <2>1 DEF ThreadRecord
  <2>7. r \in ThreadRecord'
    BY <1>2, <2>4 DEF ThreadRecord, Reading
  <2>8. FitsRecord(r)
    BY <2>1, <2>3, <2>6, <2>7 DEF FitsRecord, StatementId
  <2>9. LockFollows(t, pc)
    BY <2>1 DEF LockFollows, Writing
  <2>10. thread' = [thread EXCEPT ![t] = r] /\ thread[t].pc # "crashed"
    BY <2>1, <2>3
  <2> HIDE DEF r
  <2> QED BY <2>4, <2>5, <2>6, <2>8, <2>9, <2>10, CallMoves
<1>15. CASE Decode(t)
  <2> DEFINE i == thread[t].statement
  <2> DEFINE r == [thread[t] EXCEPT !.pc = "stepping", !.rows = Append(thread[t].rows, RowsRead(i))]
  <2>1. /\ thread[t].pc = "decoding" /\ i \in StatementId /\ thread[t].tries = 0
        /\ thread[t].select \in Select
        /\ UNCHANGED <<statements, cursor, result, accessLock, connection, locked, history>>
    BY <1>1, <1>15 DEF Decode, At, ThreadsInv, CallsHaveStatements, TriesAreBounded, ReadersHaveSelects,
                     Holding, Reading
  <2>2. DataInv' /\ Len(statements') = Len(statements)
    BY <1>1, <2>1 DEF DataInv, StatementId, history
  <2>3. RowsRead(i) \in 0 .. Rows
    BY <1>b, <2>1 DEF RowsRead, StatementRecord
  <2>4. Append(thread[t].rows, RowsRead(i)) \in Seq(0 .. Rows)
    BY <1>2, <2>3 DEF ThreadRecord
  <2>5. thread' = [thread EXCEPT ![t] = r]
    BY <1>2, <1>15 DEF Decode
  <2>6. r.pc = "stepping" /\ r.tries = 0 /\ r.statement = i /\ r.select \in Select
    BY <1>2, <2>1 DEF ThreadRecord
  <2>7. r \in ThreadRecord'
    BY <1>2, <2>2, <2>4 DEF ThreadRecord, Reading
  <2>8. FitsRecord(r)
    BY <2>1, <2>6, <2>7 DEF FitsRecord, StatementId
  <2>9. LockFollows(t, "stepping")
    BY <2>1 DEF LockFollows, Writing
  <2> HIDE DEF r
  <2> QED BY <2>1, <2>2, <2>5, <2>6, <2>8, <2>9, CallMoves
<1>16. CASE Misuse(t)
  <2>1. /\ thread[t].pc \in {"stepping", "decoding", "closing", "throwing"}
        /\ UNCHANGED <<statements, cursor, result, accessLock, connection, locked, history>>
    BY <1>16 DEF Misuse, UsesFinalized
  <2>2. DataInv' /\ Len(statements') = Len(statements)
    BY <1>1, <2>1 DEF DataInv, StatementId, history
  <2>3. \A pc \in {"idle", "stepping", "storing", "throwing"} : LockFollows(t, pc)
    BY <2>1 DEF LockFollows, Writing
  <2>4. CASE Return(t)
    BY <2>1, <2>2, <2>3, <2>4, IdleFits, CallMoves DEF Return, Idle
  <2>5. ASSUME NEW pc \in {"storing", "throwing"}, Go(t, pc) PROVE CallsInv'
    <3>1. thread' = [thread EXCEPT ![t] = [thread[t] EXCEPT !.pc = pc]]
      BY <1>2, <2>5 DEF Go
    <3>2. FitsRecord([thread[t] EXCEPT !.pc = pc])
      BY <1>1, <2>1, <2>2, GoFits DEF Reading, Writing, Holding
    <3>3. [thread[t] EXCEPT !.pc = pc].pc = pc
      BY <1>2 DEF ThreadRecord
    <3>4. LockFollows(t, pc) /\ thread[t].pc # "crashed"
      BY <2>1, <2>3
    <3> QED BY <2>2, <3>1, <3>2, <3>3, <3>4, CallMoves
  <2>6. ASSUME Go(t, "stepping"), thread[t].pc = "decoding" PROVE CallsInv'
    <3> DEFINE r == [thread[t] EXCEPT !.pc = "stepping"]
    <3>1. thread' = [thread EXCEPT ![t] = r]
      BY <1>2, <2>6 DEF Go
    <3>2. thread[t].tries = 0 /\ thread[t].statement \in StatementId /\ thread[t].select \in Select
      BY <1>1, <2>6 DEF ThreadsInv, TriesAreBounded, CallsHaveStatements, ReadersHaveSelects, Holding, Reading
    <3>3. r.pc = "stepping" /\ r.tries = 0 /\ r.statement # 0 /\ r.select \in Select
      BY <1>2, <3>2 DEF ThreadRecord, StatementId
    <3>4. r \in ThreadRecord'
      BY <1>2, <2>2 DEF ThreadRecord, Reading
    <3>5. FitsRecord(r)
      BY <3>3, <3>4 DEF FitsRecord
    <3> HIDE DEF r
    <3> QED BY <2>2, <2>3, <2>6, <3>1, <3>3, <3>5, CallMoves
  <2>7. \/ Return(t)
        \/ \E pc \in {"storing", "throwing"} : Go(t, pc)
        \/ Go(t, "stepping") /\ thread[t].pc = "decoding"
    BY <1>16, <2>1 DEF Misuse, AfterMisuse
  <2> QED BY <2>4, <2>5, <2>6, <2>7
<1>17. CASE Crash(t)
  <2>1. /\ thread' = [u \in Thread |-> [Idle EXCEPT !.pc = "crashed"]]
        /\ UNCHANGED <<statements, cursor, result, accessLock, connection, locked, history>>
    BY <1>17 DEF Crash
  <2>2. DataInv' /\ Len(statements') = Len(statements)
    BY <1>1, <2>1 DEF DataInv, StatementId, history
  <2>3. [Idle EXCEPT !.pc = "crashed"] \in ThreadRecord'
    <3>1. Idle \in ThreadRecord'
      BY IdleFits DEF FitsRecord
    <3> QED BY <3>1 DEF ThreadRecord
  <2>4. \A u \in Thread : thread'[u].pc = "crashed"
    BY <2>1 DEF Idle
  <2>5. ~ Alive'
    BY <2>4 DEF Alive, At
  <2>6. ThreadsInv'
    BY <1>1, <2>1, <2>3, <2>4, <2>5 DEF ThreadsInv, LockFits, CrashesTogether, At, CallsHaveStatements,
       ReadersHaveSelects, TriesAreBounded, Holding, Reading, Writing
  <2> QED BY <2>2, <2>6, CallsInvParts
<1> QED BY <1>4, <1>5, <1>6, <1>7, <1>8, <1>9, <1>10, <1>11, <1>12, <1>13, <1>14, <1>15, <1>16, <1>17 DEF Continue

(* The start of a call keeps the invariant; only Prepare makes a statement. *)
LEMMA CallsStart ==
  ASSUME CallsInv, NEW t \in Thread, Start(t)
  PROVE  CallsInv'
<1> USE StatementBounds, NullAssumption
<1>1. DataInv /\ ThreadsInv /\ Len(statements) \in Nat
  BY CallsInvParts, Lengths
<1>2. thread[t] \in ThreadRecord /\ thread \in [Thread -> ThreadRecord]
  BY <1>1 DEF ThreadsInv
<1>3. ASSUME NEW q \in Select \union {Null}, Prepare(t, q) PROVE CallsInv'
  <2> DEFINE s == [state |-> "ready", at |-> 0, select |-> q]
  <2> DEFINE r == [Idle EXCEPT !.pc = "binding", !.select = q, !.statement = Len(statements) + 1]
  <2>1. /\ thread[t].pc = "idle" /\ accessLock = Null /\ accessLock' = t
        /\ statements' = Append(statements, s) /\ Len(statements) < MaxStatements
        /\ thread' = [thread EXCEPT ![t] = r]
        /\ UNCHANGED <<cursor, result, connection, locked, history>>
    BY <1>3 DEF Prepare, At
  <2>2. s \in StatementRecord
    BY DEF StatementRecord
  <2> HIDE DEF s
  <2>3. /\ statements' \in Seq(StatementRecord) /\ Len(statements') = Len(statements) + 1
        /\ Len(statements') <= MaxStatements
    BY <1>1, <2>1, <2>2 DEF DataInv
  <2>4. cursor' \in [Select -> 0 .. Len(statements')] /\ unbound' \subseteq StatementId'
    BY <1>1, <2>1, <2>3 DEF DataInv, StatementId, history
  <2>5. DataInv'
    BY <1>1, <2>1, <2>3, <2>4 DEF DataInv, history
  <2>6. r.pc = "binding" /\ r.statement = Len(statements) + 1
    BY DEF Idle
  <2>7. r \in ThreadRecord'
    <3>1. Idle \in ThreadRecord'
      BY IdleFits DEF FitsRecord
    <3>2. Len(statements) + 1 \in 0 .. Len(statements')
      BY <1>1, <2>3
    <3> QED BY <3>1, <3>2 DEF ThreadRecord, Writing
  <2>8. FitsRecord(r)
    BY <1>1, <2>6, <2>7 DEF FitsRecord, Holding, Reading
  <2>9. LockFollows(t, "binding")
    BY <2>1 DEF LockFollows, Writing
  <2> HIDE DEF r
  <2>10. Len(statements') \in Nat /\ Len(statements) <= Len(statements')
    BY <1>1, <2>3
  <2>11. ThreadsInv'
    BY <1>1, <2>1, <2>6, <2>8, <2>9, <2>10, OneThreadMoves
  <2> QED BY <2>5, <2>11, CallsInvParts
<1>4. ASSUME NEW q \in Select, ReadResult(t, q) PROVE CallsInv'
  <2> DEFINE r == [Idle EXCEPT !.pc = "checked", !.select = q]
  <2>1. /\ thread[t].pc = "idle" /\ accessLock' = accessLock
        /\ UNCHANGED <<statements, cursor, result, connection, locked, unbound, again, failed>>
        /\ raced' \in {raced, raced \union {q}}
        /\ thread' = [thread EXCEPT ![t] = r]
    BY <1>4 DEF ReadResult, At
  <2>2. DataInv' /\ Len(statements') = Len(statements)
    BY <1>1, <2>1 DEF DataInv, StatementId
  <2>3. r.pc = "checked" /\ r.select = q /\ r.tries = 0
    BY DEF Idle
  <2>4. r \in ThreadRecord'
    <3>1. Idle \in ThreadRecord'
      BY IdleFits DEF FitsRecord
    <3> QED BY <3>1 DEF ThreadRecord, Reading
  <2>5. FitsRecord(r)
    BY <2>3, <2>4 DEF FitsRecord, Holding
  <2>6. LockFollows(t, "checked")
    BY <2>1 DEF LockFollows, Writing
  <2> HIDE DEF r
  <2> QED BY <2>1, <2>2, <2>3, <2>5, <2>6, CallMoves
<1>5. ASSUME Close(t) PROVE CallsInv'
  <2>1. /\ connection' \in {"zombie", "freed"}
        /\ UNCHANGED <<statements, cursor, result, thread, accessLock, locked, history>>
    BY <1>5 DEF Close
  <2>2. DataInv'
    BY <1>1, <2>1 DEF DataInv, StatementId, history
  <2>3. ThreadsInv'
    BY <1>1, <2>1 DEF ThreadsInv, LockFits, CrashesTogether, CallsHaveStatements, ReadersHaveSelects,
       TriesAreBounded, ThreadRecord, StatementId, Alive, At
  <2> QED BY <2>2, <2>3, CallsInvParts
<1> QED BY <1>3, <1>4, <1>5 DEF Start

(* Every step keeps the invariant; those of SQLite's other connection     *)
(* touch neither statements nor threads.                                   *)
LEMMA CallsStep == CallsInv /\ [Next]_vars => CallsInv'
<1> SUFFICES ASSUME CallsInv, [Next]_vars PROVE CallsInv'
  OBVIOUS
<1>1. ASSUME NEW t \in Thread, Start(t) \/ Continue(t) PROVE CallsInv'
  BY <1>1, CallsStart, CallsContinue
<1>2. ASSUME Lock \/ Unlock \/ UNCHANGED vars PROVE CallsInv'
  <2>1. DataInv /\ ThreadsInv
    BY CallsInvParts
  <2>2. /\ locked' \in BOOLEAN
        /\ UNCHANGED <<statements, cursor, result, thread, accessLock, connection, unbound, again, raced, failed>>
    BY <1>2, <2>1 DEF Lock, Unlock, vars, history, DataInv
  <2>3. DataInv'
    BY <2>1, <2>2 DEF DataInv, StatementId
  <2>4. ThreadsInv'
    BY <2>1, <2>2 DEF ThreadsInv, LockFits, CrashesTogether, CallsHaveStatements, ReadersHaveSelects,
       TriesAreBounded, ThreadRecord, StatementId, Alive, At
  <2> QED BY <2>3, <2>4, CallsInvParts
<1> QED BY <1>1, <1>2 DEF Next

(* The invariant holds at the start. *)
LEMMA CallsInit == Init => CallsInv
<1> SUFFICES ASSUME Init PROVE CallsInv
  OBVIOUS
<1> USE StatementBounds, NullAssumption
<1>1. Idle \in ThreadRecord
  BY DEF Init, Idle, ThreadRecord
<1>2. DataInv
  <2>1. statements = <<>> /\ Len(statements) = 0
    BY DEF Init
  <2>2. statements \in Seq(StatementRecord) /\ Len(statements) <= MaxStatements
    BY <2>1
  <2>3. cursor \in [Select -> 0 .. Len(statements)] /\ result \in [Select -> Seq(0 .. Rows) \union {Null}]
    BY <2>1 DEF Init
  <2> QED BY <2>2, <2>3 DEF Init, DataInv, StatementId
<1>3. \A t \in Thread : thread[t] = Idle /\ Idle.pc = "idle" /\ Idle.tries = 0
  BY DEF Init, Idle
<1>4. ThreadsInv
  BY <1>1, <1>3 DEF Init, ThreadsInv, LockFits, CrashesTogether, CallsHaveStatements, ReadersHaveSelects,
     TriesAreBounded, Holding, Reading, Writing, Alive, At
<1> QED BY <1>2, <1>4, CallsInvParts

(* Types, and that exactly the thread in a driver call holds the lock of   *)
(* the connection, in every reachable state: every exception releases it.  *)
THEOREM TypesAndLock == Spec => []TypeOK
<1>1. CallsInv => TypeOK
  BY DEF CallsInv
<1> QED BY CallsInit, CallsStep, <1>1, PTL DEF Spec

-----------------------------------------------------------------------------
(* Read locks *)

(* Why a statement at a row is held: nobody else can take a statement away *)
(* from a driver call, and a call that throws in bind has not stepped.     *)
LocksInv == DriverCallsOwnStatements /\ BindingIsReady /\ ReadLocksAreReleased

(* A step of t inside its call, or out of it: t changes its own statement  *)
(* only, takes over none but the cursor of a SELECT, and does not leave    *)
(* one at a row.                                                           *)
MovesOn(t, r) ==
  /\ thread' = [thread EXCEPT ![t] = r]
  /\ Len(statements') = Len(statements)
  /\ cursor' = cursor \/ (thread[t].pc \in Writing /\ r.pc \notin Writing)
  /\ r.pc \in Writing => thread[t].pc \in Writing /\ r.pc # "binding"
  /\ r.pc \in Holding =>
       \/ thread[t].pc \in Holding /\ r.statement = thread[t].statement
       \/ r.pc \notin Writing /\ \E q \in Select : r.statement = cursor[q]
  /\ \A i \in StatementId : statements'[i] = statements[i] \/ Holds(t, i)
  /\ \A i \in StatementId :
       Holds(t, i) /\ statements'[i].state = "row" => r.pc \in Holding /\ r.statement = i

(* Such a move keeps a statement at a row in somebody's hands, and the     *)
(* statements of driver calls apart: at most one thread is in a driver     *)
(* call, since it has the lock of the connection (CallsInv).               *)
LEMMA LocksMove ==
  ASSUME CallsInv, LocksInv, NEW t \in Thread, thread[t].pc # "crashed", NEW r, MovesOn(t, r)
  PROVE  LocksInv'
<1>1. thread \in [Thread -> ThreadRecord] /\ Alive /\ StatementId' = StatementId
  BY CallsInvParts DEF ThreadsInv, CrashesTogether, Alive, At, MovesOn, StatementId
<1>2. \A u \in Thread : thread'[u] = IF u = t THEN r ELSE thread[u]
  BY <1>1 DEF MovesOn
<1>3. \A u, v \in Thread : thread[u].pc \in Writing /\ thread[v].pc \in Writing => u = v
  BY <1>1, CallsInvParts, NullAssumption DEF ThreadsInv, LockFits
<1>4. Writing \subseteq Holding /\ "binding" \in Writing
  BY DEF Writing, Holding, Reading
<1>5. \A u \in Thread, i \in StatementId : Holds(u, i) <=> thread[u].pc \in Holding /\ thread[u].statement = i
  BY DEF Holds, Holding
<1>6. \A u \in Thread, i \in StatementId : Holds(u, i)' <=> thread'[u].pc \in Holding /\ thread'[u].statement = i
  BY DEF Holds, Holding
<1>7. \A u \in Thread : thread[u].pc \in Holding => thread[u].statement \in StatementId
  BY CallsInvParts DEF ThreadsInv, CallsHaveStatements
<1>8. ASSUME NEW v \in Thread \ {t}, thread[v].pc \in Writing
      PROVE  /\ \A u \in Thread \ {v} : ~ Holds(u, thread[v].statement)'
             /\ \A q \in Select : cursor'[q] # thread[v].statement
             /\ ~ Holds(t, thread[v].statement)
  <2>1. /\ \A u \in Thread \ {v} : ~ Holds(u, thread[v].statement)
        /\ \A q \in Select : cursor[q] # thread[v].statement
    BY <1>8 DEF LocksInv, DriverCallsOwnStatements
  <2>2. cursor' = cursor
    BY <1>3, <1>8 DEF MovesOn
  <2>3. thread[v].statement \in StatementId
    BY <1>4, <1>7, <1>8
  <2>4. ~ (r.pc \in Holding /\ r.statement = thread[v].statement)
    BY <1>5, <1>8, <2>1, <2>3 DEF MovesOn
  <2>5. ASSUME NEW u \in Thread \ {v} PROVE ~ Holds(u, thread[v].statement)'
    BY <1>2, <1>5, <1>8, <2>1, <2>3, <2>4 DEF Holds, Holding
  <2> QED BY <2>1, <2>2, <2>5
<1>9. DriverCallsOwnStatements'
  <2> SUFFICES ASSUME NEW v \in Thread, thread'[v].pc \in Writing
               PROVE  /\ \A u \in Thread \ {v} : ~ Holds(u, thread[v].statement)'
                      /\ \A q \in Select : cursor'[q] # thread'[v].statement
    BY DEF DriverCallsOwnStatements
  <2>1. CASE v # t
    BY <1>2, <1>8, <2>1 DEF Holds
  <2>2. CASE v = t
    <3>1. /\ thread[t].pc \in Writing /\ thread'[t] = r /\ r.statement = thread[t].statement
          /\ cursor' = cursor
      BY <1>2, <1>4, <2>2 DEF MovesOn
    <3>2. /\ \A u \in Thread \ {t} : ~ Holds(u, thread[t].statement)
          /\ \A q \in Select : cursor[q] # thread[t].statement
      BY <3>1 DEF LocksInv, DriverCallsOwnStatements
    <3> QED BY <1>2, <2>2, <3>1, <3>2 DEF Holds
  <2> QED BY <2>1, <2>2
<1>10. BindingIsReady'
  <2> SUFFICES ASSUME NEW v \in Thread, thread'[v].pc = "binding"
               PROVE  statements'[thread'[v].statement].state = "ready"
    BY DEF BindingIsReady, At
  <2>1. v # t /\ thread'[v] = thread[v]
    BY <1>2, <1>4 DEF MovesOn
  <2>2. thread[v].statement \in StatementId /\ ~ Holds(t, thread[v].statement)
    BY <1>4, <1>7, <1>8, <2>1
  <2>3. statements'[thread[v].statement] = statements[thread[v].statement]
    BY <2>2 DEF MovesOn
  <2> QED BY <2>1, <2>3 DEF LocksInv, BindingIsReady, At
<1>11. ReadLocksAreReleased'
  <2> SUFFICES ASSUME NEW i \in StatementId, statements'[i].state = "row"
               PROVE  \E u \in Thread : Holds(u, i)'
    BY <1>1 DEF ReadLocksAreReleased
  <2>1. CASE Holds(t, i)
    <3>1. r.pc \in Holding /\ r.statement = i
      BY <2>1 DEF MovesOn
    <3> QED BY <1>2, <1>6, <3>1
  <2>2. CASE ~ Holds(t, i)
    <3>1. PICK u \in Thread : Holds(u, i)
      BY <1>1, <2>2 DEF MovesOn, LocksInv, ReadLocksAreReleased
    <3> QED BY <1>2, <1>5, <1>6, <2>2, <3>1
  <2> QED BY <2>1, <2>2
<1> QED BY <1>9, <1>10, <1>11 DEF LocksInv

(* Every step of a call moves on in this sense, a crash excepted. *)
LEMMA LocksContinue ==
  ASSUME CallsInv, LocksInv, NEW t \in Thread, Continue(t)
  PROVE  LocksInv'
<1>1. DataInv /\ ThreadsInv /\ thread[t] \in ThreadRecord /\ thread \in [Thread -> ThreadRecord]
  BY CallsInvParts DEF ThreadsInv
<1>2. \A i \in StatementId : Holds(t, i) <=> thread[t].pc \in Holding /\ thread[t].statement = i
  BY DEF Holds, Holding
<1>3. thread[t].pc \in Holding => thread[t].statement \in StatementId
  BY <1>1 DEF ThreadsInv, CallsHaveStatements
<1>4. Idle.pc = "idle" /\ "idle" \notin Writing /\ "idle" \notin Holding
  BY DEF Idle, Writing, Reading, Holding
<1>5. statements \in Seq(StatementRecord) /\ Len(statements) \in Nat
  BY <1>1, Lengths DEF DataInv
<1>6. At(t, "binding") => statements[thread[t].statement].state # "row"
  BY DEF LocksInv, BindingIsReady
<1>7. CASE BindThrows(t)
  <2>1. /\ thread' = [thread EXCEPT ![t] = Idle] /\ statements' = statements
        /\ thread[t].pc = "binding" /\ (cursor' = cursor \/ thread[t].pc \in Writing)
    BY <1>7 DEF BindThrows, Return, At, Writing
  <2>2. \A i \in StatementId : Holds(t, i) => statements'[i].state # "row"
    BY <1>2, <1>6, <2>1 DEF At
  <2>3. MovesOn(t, Idle)
    BY <1>4, <2>1, <2>2 DEF MovesOn
  <2> QED BY <2>1, <2>3, LocksMove
<1>8. CASE BindQuery(t)
  <2>1. /\ thread' = [thread EXCEPT ![t] = Idle] /\ statements' = statements
        /\ thread[t].pc = "binding" /\ (cursor' = cursor \/ thread[t].pc \in Writing)
    BY <1>8 DEF BindQuery, Return, At, Writing
  <2>2. \A i \in StatementId : Holds(t, i) => statements'[i].state # "row"
    BY <1>2, <1>6, <2>1 DEF At
  <2>3. MovesOn(t, Idle)
    BY <1>4, <2>1, <2>2 DEF MovesOn
  <2> QED BY <2>1, <2>3, LocksMove
<1>9. CASE BindWrite(t)
  <2> DEFINE r == [thread[t] EXCEPT !.pc = "executing"]
  <2>1. thread' = [thread EXCEPT ![t] = r] /\ cursor' = cursor /\ thread[t].pc = "binding"
    BY <1>1, <1>9 DEF BindWrite, Go, At, history
  <2>2. r.pc = "executing" /\ r.statement = thread[t].statement
    BY <1>1 DEF ThreadRecord
  <2>3. thread[t].pc \in Holding /\ r.pc \in Holding /\ (r.pc \in Writing => thread[t].pc \in Writing)
    BY <2>1, <2>2 DEF Holding, Reading, Writing
  <2>4. /\ Len(statements') = Len(statements)
        /\ \A i \in StatementId \ {thread[t].statement} : statements'[i] = statements[i]
    BY <1>3, <1>5, <1>9, <2>3 DEF BindWrite, StatementId, history
  <2>5. \A i \in StatementId : statements'[i] = statements[i] \/ Holds(t, i)
    BY <1>2, <2>3, <2>4
  <2> HIDE DEF r
  <2>6. r.pc \in Writing => thread[t].pc \in Writing /\ r.pc # "binding"
    BY <2>2, <2>3
  <2>7. \A i \in StatementId : Holds(t, i) => r.pc \in Holding /\ r.statement = i
    BY <1>2, <2>2, <2>3
  <2>8. MovesOn(t, r)
    BY <2>1, <2>2, <2>3, <2>4, <2>5, <2>6, <2>7 DEF MovesOn
  <2> QED BY <2>1, <2>8, LocksMove
<1>10. CASE ExecuteNonQuery(t)
  <2> DEFINE r == [thread[t] EXCEPT !.pc = "resetting"]
  <2>1. thread' = [thread EXCEPT ![t] = r] /\ cursor' = cursor /\ thread[t].pc = "executing"
    BY <1>1, <1>10 DEF ExecuteNonQuery, Go, At, history
  <2>2. r.pc = "resetting" /\ r.statement = thread[t].statement
    BY <1>1 DEF ThreadRecord
  <2>3. thread[t].pc \in Holding /\ r.pc \in Holding /\ (r.pc \in Writing => thread[t].pc \in Writing)
    BY <2>1, <2>2 DEF Holding, Reading, Writing
  <2>4. /\ Len(statements') = Len(statements)
        /\ \A i \in StatementId \ {thread[t].statement} : statements'[i] = statements[i]
    BY <1>3, <1>5, <1>10, <2>3 DEF ExecuteNonQuery, StatementId, history
  <2>5. \A i \in StatementId : statements'[i] = statements[i] \/ Holds(t, i)
    BY <1>2, <2>3, <2>4
  <2> HIDE DEF r
  <2>6. r.pc \in Writing => thread[t].pc \in Writing /\ r.pc # "binding"
    BY <2>2, <2>3
  <2>7. \A i \in StatementId : Holds(t, i) => r.pc \in Holding /\ r.statement = i
    BY <1>2, <2>2, <2>3
  <2>8. MovesOn(t, r)
    BY <2>1, <2>2, <2>3, <2>4, <2>5, <2>6, <2>7 DEF MovesOn
  <2> QED BY <2>1, <2>8, LocksMove
<1>11. CASE ResetAndClear(t)
  <2> DEFINE r == [thread[t] EXCEPT !.pc = "finalizing"]
  <2>1. thread' = [thread EXCEPT ![t] = r] /\ cursor' = cursor /\ thread[t].pc = "resetting"
    BY <1>1, <1>11 DEF ResetAndClear, Go, At, history
  <2>2. r.pc = "finalizing" /\ r.statement = thread[t].statement
    BY <1>1 DEF ThreadRecord
  <2>3. thread[t].pc \in Holding /\ r.pc \in Holding /\ (r.pc \in Writing => thread[t].pc \in Writing)
    BY <2>1, <2>2 DEF Holding, Reading, Writing
  <2>4. /\ Len(statements') = Len(statements)
        /\ \A i \in StatementId \ {thread[t].statement} : statements'[i] = statements[i]
    BY <1>3, <1>5, <1>11, <2>3 DEF ResetAndClear, StatementId, history
  <2>5. \A i \in StatementId : statements'[i] = statements[i] \/ Holds(t, i)
    BY <1>2, <2>3, <2>4
  <2> HIDE DEF r
  <2>6. r.pc \in Writing => thread[t].pc \in Writing /\ r.pc # "binding"
    BY <2>2, <2>3
  <2>7. \A i \in StatementId : Holds(t, i) => r.pc \in Holding /\ r.statement = i
    BY <1>2, <2>2, <2>3
  <2>8. MovesOn(t, r)
    BY <2>1, <2>2, <2>3, <2>4, <2>5, <2>6, <2>7 DEF MovesOn
  <2> QED BY <2>1, <2>8, LocksMove
<1>12. CASE FinalizeWrite(t)
  <2>1. /\ thread' = [thread EXCEPT ![t] = Idle] /\ cursor' = cursor
        /\ thread[t].pc \in {"finalizing"}
        /\ statements' = [statements EXCEPT ![thread[t].statement].state = "finalized"]
    BY <1>12 DEF FinalizeWrite, Finalize, Return, At
  <2>2. thread[t].statement \in StatementId
    BY <1>3, <2>1 DEF Holding, Reading, Writing
  <2>3. Len(statements') = Len(statements) /\ statements'[thread[t].statement].state = "finalized"
    BY <1>5, <2>1, <2>2 DEF StatementId, StatementRecord
  <2>4. \A i \in StatementId \ {thread[t].statement} : statements'[i] = statements[i]
    BY <1>5, <2>1, <2>2 DEF StatementId
  <2>5. \A i \in StatementId : Holds(t, i) => statements'[i].state # "row"
    BY <1>2, <2>3
  <2>6. \A i \in StatementId : statements'[i] = statements[i] \/ Holds(t, i)
    BY <1>2, <2>1, <2>4 DEF Holding, Reading, Writing
  <2>7. MovesOn(t, Idle)
    BY <1>4, <2>1, <2>3, <2>5, <2>6 DEF MovesOn
  <2> QED BY <2>1, <2>7, LocksMove
<1>13. CASE ReadCursor(t)
  <2>1. statements' = statements /\ cursor' = cursor /\ thread[t].pc = "checked"
    BY <1>13 DEF ReadCursor, At
  <2>2. \A i \in StatementId : ~ Holds(t, i)
    BY <1>2, <2>1 DEF Holding
  <2>3. thread[t].select \in Select
    BY <1>1, <2>1 DEF ThreadsInv, ReadersHaveSelects, Reading
  <2>4. CASE cursor[thread[t].select] = 0
    <3>1. thread' = [thread EXCEPT ![t] = Idle]
      BY <1>13, <2>4 DEF ReadCursor, Return
    <3>2. MovesOn(t, Idle)
      BY <1>4, <2>1, <2>2, <3>1 DEF MovesOn
    <3> QED BY <2>1, <3>2, LocksMove
  <2>5. CASE cursor[thread[t].select] # 0
    <3> DEFINE r == [thread[t] EXCEPT !.pc = "stepping", !.statement = cursor[thread[t].select]]
    <3>1. thread' = [thread EXCEPT ![t] = r]
      BY <1>1, <1>13, <2>5 DEF ReadCursor
    <3>2. r.pc = "stepping" /\ r.statement = cursor[thread[t].select] /\ r.pc \notin Writing
      BY <1>1 DEF ThreadRecord, Writing
    <3> HIDE DEF r
    <3>3. MovesOn(t, r)
      BY <2>1, <2>2, <2>3, <3>1, <3>2 DEF MovesOn
    <3> QED BY <2>1, <3>3, LocksMove
  <2> QED BY <2>4, <2>5
<1>14. CASE Step(t)
  <2> DEFINE i == thread[t].statement
  <2>1. /\ thread[t].pc = "stepping" /\ i \in StatementId /\ cursor' = cursor
        /\ StepRow(t, i) \/ StepDone(t, i) \/ StepError(t, i) \/ StepBusy(t, i)
    BY <1>3, <1>14 DEF Step, At, Holding, Reading
  <2>2. PICK pc \in {"stepping", "decoding", "storing", "throwing"}, k \in Nat :
          thread' = [thread EXCEPT ![t] = [thread[t] EXCEPT !.pc = pc, !.tries = k]]
    <3>1. CASE StepRow(t, i)
      <4>1. thread' = [thread EXCEPT ![t] = [thread[t] EXCEPT !.pc = "decoding", !.tries = 0]]
        BY <1>1, <3>1 DEF StepRow
      <4> QED BY <4>1
    <3>2. CASE StepDone(t, i)
      <4>1. thread' = [thread EXCEPT ![t] = [thread[t] EXCEPT !.pc = "storing", !.tries = 0]]
        BY <1>1, <3>2 DEF StepDone
      <4> QED BY <4>1
    <3>3. CASE StepError(t, i)
      <4>1. thread' = [thread EXCEPT ![t] = [thread[t] EXCEPT !.pc = "throwing", !.tries = thread[t].tries]]
        BY <1>1, <3>3 DEF StepError, Go, ThreadRecord
      <4>2. thread[t].tries \in Nat
        BY <1>1, StatementBounds DEF ThreadRecord
      <4> QED BY <4>1, <4>2
    <3>4. CASE StepBusy(t, i)
      <4> DEFINE pc == IF thread[t].tries + 1 = MaxTries THEN "throwing" ELSE "stepping"
      <4>1. thread' = [thread EXCEPT ![t] = [thread[t] EXCEPT !.pc = pc, !.tries = thread[t].tries + 1]]
        BY <1>1, <2>1, <3>4 DEF StepBusy, ThreadRecord
      <4>2. thread[t].tries + 1 \in Nat
        BY <1>1, StatementBounds DEF ThreadRecord
      <4> QED BY <4>1, <4>2
    <3> QED BY <2>1, <3>1, <3>2, <3>3, <3>4
  <2>3. /\ Len(statements') = Len(statements)
        /\ \A j \in StatementId \ {i} : statements'[j] = statements[j]
    BY <1>5, <2>1 DEF StepRow, StepDone, StepError, StepBusy, StatementId
  <2> DEFINE r == [thread[t] EXCEPT !.pc = pc, !.tries = k]
  <2>4. r.pc = pc /\ r.statement = i
    BY <1>1 DEF ThreadRecord
  <2>5. thread[t].pc \in Holding /\ r.pc \in Holding /\ r.pc \notin Writing
    BY <2>1, <2>4 DEF Holding, Reading, Writing
  <2>6. thread' = [thread EXCEPT ![t] = r]
    BY <2>2
  <2>7. \A j \in StatementId : statements'[j] = statements[j] \/ Holds(t, j)
    BY <1>2, <2>3, <2>5
  <2> HIDE DEF r
  <2>8. MovesOn(t, r)
    BY <1>2, <2>1, <2>3, <2>4, <2>5, <2>6, <2>7 DEF MovesOn
  <2> QED BY <2>1, <2>8, LocksMove
<1>15. CASE Decode(t)
  <2> DEFINE r == [thread[t] EXCEPT !.pc = "stepping",
                                    !.rows = Append(thread[t].rows, RowsRead(thread[t].statement))]
  <2>1. /\ thread' = [thread EXCEPT ![t] = r] /\ cursor' = cursor /\ statements' = statements
        /\ thread[t].pc = "decoding"
    BY <1>1, <1>15 DEF Decode, At
  <2>2. r.pc = "stepping" /\ r.statement = thread[t].statement
    BY <1>1 DEF ThreadRecord
  <2>3. thread[t].pc \in Holding /\ r.pc \in Holding /\ r.pc \notin Writing
    BY <2>1, <2>2 DEF Holding, Reading, Writing
  <2> HIDE DEF r
  <2>4. MovesOn(t, r)
    BY <1>2, <2>1, <2>2, <2>3 DEF MovesOn
  <2> QED BY <2>1, <2>4, LocksMove
<1>16. CASE DecodeThrows(t)
  <2> DEFINE r == [thread[t] EXCEPT !.pc = "throwing"]
  <2>1. thread' = [thread EXCEPT ![t] = r] /\ cursor' = cursor /\ thread[t].pc = "decoding"
    BY <1>1, <1>16 DEF DecodeThrows, Go, At, history
  <2>2. r.pc = "throwing" /\ r.statement = thread[t].statement
    BY <1>1 DEF ThreadRecord
  <2>3. thread[t].pc \in Holding /\ r.pc \in Holding /\ (r.pc \in Writing => thread[t].pc \in Writing)
    BY <2>1, <2>2 DEF Holding, Reading, Writing
  <2>4. /\ Len(statements') = Len(statements)
        /\ \A i \in StatementId \ {thread[t].statement} : statements'[i] = statements[i]
    BY <1>3, <1>5, <1>16, <2>3 DEF DecodeThrows, StatementId, history
  <2>5. \A i \in StatementId : statements'[i] = statements[i] \/ Holds(t, i)
    BY <1>2, <2>3, <2>4
  <2> HIDE DEF r
  <2>6. r.pc \in Writing => thread[t].pc \in Writing /\ r.pc # "binding"
    BY <2>2, <2>3
  <2>7. \A i \in StatementId : Holds(t, i) => r.pc \in Holding /\ r.statement = i
    BY <1>2, <2>2, <2>3
  <2>8. MovesOn(t, r)
    BY <2>1, <2>2, <2>3, <2>4, <2>5, <2>6, <2>7 DEF MovesOn
  <2> QED BY <2>1, <2>8, LocksMove
<1>17. CASE Store(t)
  <2> DEFINE r == [thread[t] EXCEPT !.pc = "closing"]
  <2>1. thread' = [thread EXCEPT ![t] = r] /\ cursor' = cursor /\ thread[t].pc = "storing"
    BY <1>1, <1>17 DEF Store, Go, At, history
  <2>2. r.pc = "closing" /\ r.statement = thread[t].statement
    BY <1>1 DEF ThreadRecord
  <2>3. thread[t].pc \in Holding /\ r.pc \in Holding /\ (r.pc \in Writing => thread[t].pc \in Writing)
    BY <2>1, <2>2 DEF Holding, Reading, Writing
  <2>4. /\ Len(statements') = Len(statements)
        /\ \A i \in StatementId \ {thread[t].statement} : statements'[i] = statements[i]
    BY <1>3, <1>5, <1>17, <2>3 DEF Store, StatementId, history
  <2>5. \A i \in StatementId : statements'[i] = statements[i] \/ Holds(t, i)
    BY <1>2, <2>3, <2>4
  <2> HIDE DEF r
  <2>6. r.pc \in Writing => thread[t].pc \in Writing /\ r.pc # "binding"
    BY <2>2, <2>3
  <2>7. \A i \in StatementId : Holds(t, i) => r.pc \in Holding /\ r.statement = i
    BY <1>2, <2>2, <2>3
  <2>8. MovesOn(t, r)
    BY <2>1, <2>2, <2>3, <2>4, <2>5, <2>6, <2>7 DEF MovesOn
  <2> QED BY <2>1, <2>8, LocksMove
<1>18. CASE CloseCursor(t)
  <2>1. /\ thread' = [thread EXCEPT ![t] = Idle] /\ cursor' = cursor
        /\ thread[t].pc \in {"closing", "throwing"}
        /\ statements' = [statements EXCEPT ![thread[t].statement].state = "finalized"]
    BY <1>18 DEF CloseCursor, Finalize, Return, At
  <2>2. thread[t].statement \in StatementId
    BY <1>3, <2>1 DEF Holding, Reading, Writing
  <2>3. Len(statements') = Len(statements) /\ statements'[thread[t].statement].state = "finalized"
    BY <1>5, <2>1, <2>2 DEF StatementId, StatementRecord
  <2>4. \A i \in StatementId \ {thread[t].statement} : statements'[i] = statements[i]
    BY <1>5, <2>1, <2>2 DEF StatementId
  <2>5. \A i \in StatementId : Holds(t, i) => statements'[i].state # "row"
    BY <1>2, <2>3
  <2>6. \A i \in StatementId : statements'[i] = statements[i] \/ Holds(t, i)
    BY <1>2, <2>1, <2>4 DEF Holding, Reading, Writing
  <2>7. MovesOn(t, Idle)
    BY <1>4, <2>1, <2>3, <2>5, <2>6 DEF MovesOn
  <2> QED BY <2>1, <2>7, LocksMove
<1>19. CASE Misuse(t)
  <2>1. /\ thread[t].pc \in {"stepping", "decoding", "closing", "throwing"}
        /\ statements' = statements /\ cursor' = cursor
        /\ statements[thread[t].statement].state = "finalized"
    BY <1>19 DEF Misuse, UsesFinalized, Finalized
  <2>2. \A i \in StatementId : Holds(t, i) => statements'[i].state # "row"
    BY <1>2, <2>1
  <2>3. CASE Return(t)
    <3>1. MovesOn(t, Idle)
      BY <1>4, <2>1, <2>2, <2>3 DEF MovesOn, Return
    <3> QED BY <2>1, <3>1, LocksMove
  <2>4. ASSUME NEW pc \in {"storing", "throwing", "stepping"}, Go(t, pc) PROVE LocksInv'
    <3> DEFINE r == [thread[t] EXCEPT !.pc = pc]
    <3>1. thread' = [thread EXCEPT ![t] = r]
      BY <1>1, <2>4 DEF Go
    <3>2. r.pc = pc /\ r.statement = thread[t].statement
      BY <1>1 DEF ThreadRecord
    <3>3. thread[t].pc \in Holding /\ r.pc \in Holding /\ r.pc \notin Writing
      BY <2>1, <3>2 DEF Holding, Reading, Writing
    <3> HIDE DEF r
    <3>4. MovesOn(t, r)
      BY <1>2, <2>1, <3>1, <3>2, <3>3 DEF MovesOn
    <3> QED BY <2>1, <3>4, LocksMove
  <2>5. Return(t) \/ \E pc \in {"storing", "throwing", "stepping"} : Go(t, pc)
    BY <1>19, <2>1 DEF Misuse, AfterMisuse
  <2> QED BY <2>3, <2>4, <2>5
<1>20. CASE Crash(t)
  <2>1. \A u \in Thread : thread'[u].pc = "crashed"
    BY <1>20 DEF Crash, Idle
  <2> QED BY <2>1 DEF LocksInv, DriverCallsOwnStatements, BindingIsReady, ReadLocksAreReleased, Alive, At,
             Writing
<1> QED BY <1>7, <1>8, <1>9, <1>10, <1>11, <1>12, <1>13, <1>14, <1>15, <1>16, <1>17, <1>18, <1>19, <1>20 DEF Continue

(* The statement a call begins with is new, and at no row. *)
LEMMA LocksStart ==
  ASSUME CallsInv, LocksInv, NEW t \in Thread, Start(t)
  PROVE  LocksInv'
<1>1. DataInv /\ ThreadsInv /\ thread[t] \in ThreadRecord /\ thread \in [Thread -> ThreadRecord]
  BY CallsInvParts DEF ThreadsInv
<1>2. statements \in Seq(StatementRecord) /\ Len(statements) \in Nat
  BY <1>1, Lengths DEF DataInv
<1>3. ASSUME NEW q \in Select \union {Null}, Prepare(t, q) PROVE LocksInv'
  <2> DEFINE s == [state |-> "ready", at |-> 0, select |-> q]
  <2> DEFINE n == Len(statements) + 1
  <2> DEFINE r == [Idle EXCEPT !.pc = "binding", !.select = q, !.statement = n]
  <2>1. /\ thread[t].pc = "idle" /\ accessLock = Null /\ cursor' = cursor
        /\ statements' = Append(statements, s) /\ thread' = [thread EXCEPT ![t] = r]
    BY <1>3 DEF Prepare, At
  <2>2. r.pc = "binding" /\ r.statement = n /\ s.state = "ready"
    BY DEF Idle
  <2>3. /\ StatementId' = StatementId \union {n} /\ n \notin StatementId /\ statements'[n] = s
        /\ \A i \in StatementId : statements'[i] = statements[i]
    BY <1>2, <2>1 DEF StatementId
  <2> HIDE DEF s, n, r
  <2>4. \A u \in Thread : thread[u].statement # n
    <3>1. \A u \in Thread : thread[u].statement \in 0 .. Len(statements)
      BY <1>1 DEF ThreadRecord
    <3> SUFFICES ASSUME NEW u \in Thread PROVE thread[u].statement # n
      OBVIOUS
    <3>2. thread[u].statement \in Nat /\ thread[u].statement <= Len(statements)
      BY <1>2, <3>1
    <3> QED BY <1>2, <3>2 DEF n
  <2>5. \A p \in Select : cursor[p] # n
    <3>1. \A p \in Select : cursor[p] \in 0 .. Len(statements)
      BY <1>1 DEF DataInv
    <3> SUFFICES ASSUME NEW p \in Select PROVE cursor[p] # n
      OBVIOUS
    <3>2. cursor[p] \in Nat /\ cursor[p] <= Len(statements)
      BY <1>2, <3>1
    <3> QED BY <1>2, <3>2 DEF n
  <2>6. \A u \in Thread : thread'[u] = IF u = t THEN r ELSE thread[u]
    BY <1>1, <2>1
  <2>7. Alive /\ \A u \in Thread : thread[u].pc \notin Writing
    BY <1>1, <2>1, NullAssumption DEF ThreadsInv, CrashesTogether, LockFits, Alive, At
  <2>8. DriverCallsOwnStatements'
    <3> SUFFICES ASSUME NEW v \in Thread, thread'[v].pc \in Writing
                 PROVE  /\ \A u \in Thread \ {v} : ~ Holds(u, thread[v].statement)'
                        /\ \A p \in Select : cursor'[p] # thread'[v].statement
      BY DEF DriverCallsOwnStatements
    <3>1. v = t /\ thread'[v].statement = n
      BY <2>2, <2>6, <2>7
    <3> QED BY <2>1, <2>4, <2>5, <2>6, <3>1 DEF Holds
  <2>9. BindingIsReady'
    BY <2>2, <2>3, <2>6, <2>7 DEF BindingIsReady, At, Writing
  <2>10. ReadLocksAreReleased'
    <3> SUFFICES ASSUME NEW i \in StatementId', statements'[i].state = "row"
                 PROVE  \E u \in Thread : Holds(u, i)'
      BY DEF ReadLocksAreReleased
    <3>1. i \in StatementId /\ statements[i].state = "row"
      BY <2>2, <2>3
    <3>2. PICK u \in Thread : Holds(u, i)
      BY <2>7, <3>1 DEF LocksInv, ReadLocksAreReleased
    <3>3. u # t
      BY <2>1, <3>2 DEF Holds, Reading, Writing
    <3> QED BY <2>6, <3>2, <3>3 DEF Holds
  <2> QED BY <2>8, <2>9, <2>10 DEF LocksInv
<1>4. ASSUME NEW q \in Select, ReadResult(t, q) PROVE LocksInv'
  <2> DEFINE r == [Idle EXCEPT !.pc = "checked", !.select = q]
  <2>1. /\ thread[t].pc = "idle" /\ statements' = statements /\ cursor' = cursor
        /\ thread' = [thread EXCEPT ![t] = r]
    BY <1>4 DEF ReadResult, At
  <2>2. r.pc = "checked"
    BY DEF Idle
  <2>3. r.pc \notin Holding /\ r.pc \notin Writing /\ \A i \in StatementId : ~ Holds(t, i)
    BY <2>1, <2>2 DEF Holding, Holds, Reading, Writing
  <2> HIDE DEF r
  <2>4. MovesOn(t, r)
    BY <2>1, <2>3 DEF MovesOn
  <2> QED BY <2>1, <2>4, LocksMove
<1>5. ASSUME Close(t) PROVE LocksInv'
  BY <1>5 DEF Close, LocksInv, DriverCallsOwnStatements, BindingIsReady, ReadLocksAreReleased, Holds, StatementId,
     Alive, At
<1> QED BY <1>3, <1>4, <1>5 DEF Start

(* Every step keeps the three facts. *)
LEMMA LocksStep == CallsInv /\ LocksInv /\ [Next]_vars => LocksInv'
<1> SUFFICES ASSUME CallsInv, LocksInv, [Next]_vars PROVE LocksInv'
  OBVIOUS
<1>1. ASSUME NEW t \in Thread, Start(t) \/ Continue(t) PROVE LocksInv'
  BY <1>1, LocksStart, LocksContinue
<1>2. ASSUME Lock \/ Unlock \/ UNCHANGED vars PROVE LocksInv'
  <2>1. UNCHANGED <<statements, cursor, thread>>
    BY <1>2 DEF Lock, Unlock, vars
  <2> QED BY <2>1 DEF LocksInv, DriverCallsOwnStatements, BindingIsReady, ReadLocksAreReleased, Holds,
             StatementId, Alive, At
<1> QED BY <1>1, <1>2 DEF Next

(* However calls of any number of threads interleave and fail, no          *)
(* statement keeps its read lock on the file when the call that stepped    *)
(* it is over.                                                             *)
THEOREM ReadLocksEnd == Spec => []ReadLocksAreReleased
<1>1. Init => LocksInv
  BY DEF Init, Idle, LocksInv, DriverCallsOwnStatements, BindingIsReady, ReadLocksAreReleased, StatementId, At,
     Writing
<1>2. LocksInv => ReadLocksAreReleased
  BY DEF LocksInv
<1> QED BY CallsInit, CallsStep, LocksStep, <1>1, <1>2, PTL DEF Spec

-----------------------------------------------------------------------------
(***************************************************************************)
(* What becomes of a prepared statement and of a result: which statements  *)
(* stay open, which are used after they were finalized, and what           *)
(* getResults returns.                                                     *)
(***************************************************************************)

(* What the steps of a call do *)

(* A thread changes its own record, and no statement but its own, whose    *)
(* SELECT stays the same.                                                  *)
OwnStep(t) ==
  /\ \A u \in Thread \ {t} : thread'[u] = thread[u]
  /\ Len(statements') = Len(statements)
  /\ \A i \in StatementId : statements'[i].select = statements[i].select
  /\ \A i \in StatementId : statements'[i] = statements[i] \/ Holds(t, i)

(* A step of a driver call before its end, or an end that leaves nothing   *)
(* to finalize but a statement whose bind threw.                           *)
WriterMoves(t) ==
  /\ OwnStep(t)
  /\ thread[t].pc \in Writing
  /\ UNCHANGED <<cursor, result, again, raced, failed>> /\ unbound \subseteq unbound'
  /\ \/ /\ thread'[t].pc \in Writing /\ thread'[t].statement = thread[t].statement
        /\ thread'[t].select = thread[t].select
     \/ /\ thread'[t].pc = "idle"
        /\ \/ statements'[thread[t].statement].state = "finalized"
           \/ thread[t].statement \in unbound'

(* A step over the rows of a cursor, which finalizes nothing. *)
ReaderMoves(t) ==
  /\ OwnStep(t)
  /\ thread[t].pc \in Reading \ {"checked"}
  /\ UNCHANGED <<cursor, result, unbound, again, raced, failed>>
  /\ \A i \in StatementId : statements'[i].state = "finalized" <=> Finalized(i)
  /\ \/ /\ thread'[t].pc \in Reading \ {"checked", "closing"}
        /\ thread'[t].statement = thread[t].statement /\ thread'[t].select = thread[t].select
     \/ thread'[t].pc = "idle" /\ Finalized(thread[t].statement)

(* Facts about a thread that every proof below starts from. *)
LEMMA ThreadFacts ==
  ASSUME CallsInv
  PROVE  /\ thread \in [Thread -> ThreadRecord] /\ statements \in Seq(StatementRecord)
         /\ cursor \in [Select -> 0 .. Len(statements)]
         /\ result \in [Select -> Seq(0 .. Rows) \union {Null}]
         /\ Len(statements) \in Nat
         /\ \A i \in StatementId : statements[i] \in StatementRecord
         /\ \A t \in Thread : thread[t].pc \in Holding => thread[t].statement \in StatementId
         /\ \A t \in Thread : thread[t].pc \in Reading => thread[t].select \in Select
         /\ \A t \in Thread, i \in StatementId :
              Holds(t, i) <=> thread[t].pc \in Holding /\ thread[t].statement = i
         /\ \A q \in Select : cursor[q] # 0 => cursor[q] \in StatementId
BY DEF CallsInv, TypeOK, CallsHaveStatements, ReadersHaveSelects, Holds, Holding, StatementId

(* The steps of the modifying calls. *)
LEMMA WriterSteps ==
  ASSUME CallsInv, NEW t \in Thread,
         BindThrows(t) \/ BindWrite(t) \/ ExecuteNonQuery(t) \/ ResetAndClear(t) \/ FinalizeWrite(t)
  PROVE  WriterMoves(t)
<1> DEFINE i == thread[t].statement
<1>1. thread[t].pc \in Writing /\ thread[t].pc \in Holding
  BY DEF BindThrows, BindWrite, ExecuteNonQuery, ResetAndClear, FinalizeWrite, At, Writing, Holding
<1>2. i \in StatementId /\ thread[t] \in ThreadRecord /\ Holds(t, i)
  BY <1>1, ThreadFacts
<1>3. CASE BindThrows(t)
  <2>1. /\ thread' = [thread EXCEPT ![t] = Idle] /\ unbound' = unbound \union {i}
        /\ UNCHANGED <<statements, cursor, result, again, raced, failed>>
    BY <1>3 DEF BindThrows, Return
  <2>2. thread'[t].pc = "idle" /\ \A u \in Thread \ {t} : thread'[u] = thread[u]
    BY <2>1, ThreadFacts DEF Idle
  <2> QED BY <1>1, <1>2, <2>1, <2>2 DEF WriterMoves, OwnStep
<1>4. CASE BindWrite(t)
  <2>1. /\ thread' = [thread EXCEPT ![t].pc = "executing"]
        /\ UNCHANGED <<statements, cursor, result, unbound, again, raced, failed>>
    BY <1>4 DEF BindWrite, Go, history
  <2>2. /\ thread'[t].pc = "executing" /\ thread'[t].statement = i
        /\ thread'[t].select = thread[t].select
        /\ \A u \in Thread \ {t} : thread'[u] = thread[u]
    BY <1>2, <2>1, ThreadFacts DEF ThreadRecord
  <2>3. "executing" \in Writing
    BY DEF Writing
  <2> QED BY <1>1, <1>2, <2>1, <2>2, <2>3 DEF WriterMoves, OwnStep
<1>5. ASSUME NEW pc \in Writing, NEW state, thread' = [thread EXCEPT ![t].pc = pc],
             statements' = [statements EXCEPT ![i].state = state],
             UNCHANGED <<cursor, result, unbound, again, raced, failed>>
      PROVE  WriterMoves(t)
  <2>1. /\ thread'[t].pc = pc /\ thread'[t].statement = i
        /\ thread'[t].select = thread[t].select
        /\ \A u \in Thread \ {t} : thread'[u] = thread[u]
    BY <1>2, <1>5, ThreadFacts DEF ThreadRecord
  <2>2. /\ Len(statements') = Len(statements) /\ statements'[i].select = statements[i].select
        /\ \A j \in StatementId \ {i} : statements'[j] = statements[j]
    BY <1>2, <1>5, ThreadFacts DEF StatementId, StatementRecord
  <2>3. OwnStep(t)
    BY <1>2, <2>1, <2>2 DEF OwnStep
  <2> QED BY <1>1, <1>5, <2>1, <2>3 DEF WriterMoves
<1>6. CASE ExecuteNonQuery(t)
  <2>1. PICK state : statements' = [statements EXCEPT ![i].state = state]
    BY <1>6 DEF ExecuteNonQuery
  <2>2. /\ thread' = [thread EXCEPT ![t].pc = "resetting"] /\ "resetting" \in Writing
        /\ UNCHANGED <<cursor, result, unbound, again, raced, failed>>
    BY <1>6 DEF ExecuteNonQuery, Go, Writing, history
  <2> QED BY <1>5, <2>1, <2>2
<1>7. CASE ResetAndClear(t)
  <2>1. /\ thread' = [thread EXCEPT ![t].pc = "finalizing"] /\ "finalizing" \in Writing
        /\ statements' = [statements EXCEPT ![i].state = "ready"]
        /\ UNCHANGED <<cursor, result, unbound, again, raced, failed>>
    BY <1>7 DEF ResetAndClear, Go, Writing, history
  <2> QED BY <1>5, <2>1
<1>8. CASE FinalizeWrite(t)
  <2>1. /\ thread' = [thread EXCEPT ![t] = Idle]
        /\ statements' = [statements EXCEPT ![i].state = "finalized"]
        /\ UNCHANGED <<cursor, result, unbound, again, raced, failed>>
    BY <1>8 DEF FinalizeWrite, Finalize, Return, history
  <2>2. thread'[t].pc = "idle" /\ \A u \in Thread \ {t} : thread'[u] = thread[u]
    BY <2>1, ThreadFacts DEF Idle
  <2>3. /\ Len(statements') = Len(statements) /\ statements'[i].select = statements[i].select
        /\ statements'[i].state = "finalized"
        /\ \A j \in StatementId \ {i} : statements'[j] = statements[j]
    BY <1>2, <2>1, ThreadFacts DEF StatementId, StatementRecord
  <2>4. OwnStep(t)
    BY <1>2, <2>2, <2>3 DEF OwnStep
  <2> QED BY <1>1, <2>1, <2>2, <2>3, <2>4 DEF WriterMoves
<1> QED BY <1>3, <1>4, <1>6, <1>7, <1>8

(* The steps over rows, those on a finalized statement included. *)
LEMMA ReaderSteps ==
  ASSUME CallsInv, NEW t \in Thread,
         Step(t) \/ Decode(t) \/ DecodeThrows(t) \/ Misuse(t)
  PROVE  ReaderMoves(t)
<1> DEFINE i == thread[t].statement
<1>1. thread[t].pc \in Reading \ {"checked"} /\ thread[t].pc \in Holding
  BY DEF Step, Decode, DecodeThrows, Misuse, UsesFinalized, At, Reading, Holding
<1>2. i \in StatementId /\ thread[t] \in ThreadRecord /\ Holds(t, i) /\ statements[i] \in StatementRecord
  BY <1>1, ThreadFacts
<1>4. CASE Step(t)
  <2>1. /\ UNCHANGED <<cursor, result, unbound, again, raced, failed>> /\ IsOpen(i)
        /\ StepRow(t, i) \/ StepDone(t, i) \/ StepError(t, i) \/ StepBusy(t, i)
    BY <1>4 DEF Step, history
  <2>2. PICK pc \in {"stepping", "decoding", "storing", "throwing"}, tries \in Nat :
          thread' = [thread EXCEPT ![t] = [thread[t] EXCEPT !.pc = pc, !.tries = tries]]
    <3>1. CASE StepRow(t, i)
      BY <1>2, <3>1, ThreadFacts DEF StepRow
    <3>2. CASE StepDone(t, i)
      BY <1>2, <3>2, ThreadFacts DEF StepDone
    <3>3. CASE StepError(t, i)
      <4>1. thread' = [thread EXCEPT ![t] = [thread[t] EXCEPT !.pc = "throwing", !.tries = thread[t].tries]]
        BY <1>2, <3>3, ThreadFacts DEF StepError, Go, ThreadRecord
      <4>2. thread[t].tries \in Nat
        BY <1>2, StatementBounds DEF ThreadRecord
      <4> QED BY <4>1, <4>2
    <3>4. CASE StepBusy(t, i)
      <4> DEFINE pc == IF thread[t].tries + 1 = MaxTries THEN "throwing" ELSE "stepping"
      <4>1. thread[t].pc = "stepping"
        BY <1>4 DEF Step, At
      <4>2. thread' = [thread EXCEPT ![t] = [thread[t] EXCEPT !.pc = pc, !.tries = thread[t].tries + 1]]
        BY <1>2, <3>4, <4>1, ThreadFacts DEF StepBusy, ThreadRecord
      <4>3. thread[t].tries + 1 \in Nat
        BY <1>2, StatementBounds DEF ThreadRecord
      <4> QED BY <4>2, <4>3
    <3> QED BY <2>1, <3>1, <3>2, <3>3, <3>4
  <2>3. /\ Len(statements') = Len(statements) /\ statements'[i].select = statements[i].select
        /\ statements'[i].state # "finalized"
        /\ \A j \in StatementId \ {i} : statements'[j] = statements[j]
    BY <1>2, <2>1, ThreadFacts DEF StepRow, StepDone, StepError, StepBusy, StatementId, StatementRecord,
       IsOpen, Finalized
  <2>4. /\ \A u \in Thread \ {t} : thread'[u] = thread[u]
        /\ thread'[t].pc \in Reading \ {"checked", "closing"}
        /\ thread'[t].statement = i /\ thread'[t].select = thread[t].select
    BY <1>2, <2>2, ThreadFacts DEF ThreadRecord, Reading
  <2>5. OwnStep(t)
    BY <1>2, <2>3, <2>4 DEF OwnStep
  <2>6. \A j \in StatementId : statements'[j].state = "finalized" <=> Finalized(j)
    BY <2>1, <2>3 DEF Finalized, IsOpen
  <2> QED BY <1>1, <2>1, <2>4, <2>5, <2>6 DEF ReaderMoves
<1>5. ASSUME UNCHANGED <<statements, cursor, result, unbound, again, raced, failed>>,
             NEW pc \in {"stepping", "storing", "throwing"},
             \/ thread' = [thread EXCEPT ![t].pc = pc]
             \/ \E rows : thread' = [thread EXCEPT ![t].pc = pc, ![t].rows = rows]
      PROVE  ReaderMoves(t)
  <2>1. /\ \A u \in Thread \ {t} : thread'[u] = thread[u]
        /\ thread'[t].pc \in Reading \ {"checked", "closing"}
        /\ thread'[t].statement = i /\ thread'[t].select = thread[t].select
    <3>1. CASE thread' = [thread EXCEPT ![t].pc = pc]
      BY <1>2, <3>1, ThreadFacts DEF ThreadRecord, Reading
    <3>2. ASSUME NEW rows, thread' = [thread EXCEPT ![t].pc = pc, ![t].rows = rows]
          PROVE  /\ \A u \in Thread \ {t} : thread'[u] = thread[u]
                 /\ thread'[t].pc \in Reading \ {"checked", "closing"}
                 /\ thread'[t].statement = i /\ thread'[t].select = thread[t].select
      BY <1>2, <3>2, ThreadFacts DEF ThreadRecord, Reading
    <3> QED BY <1>5, <3>1, <3>2
  <2>2. OwnStep(t)
    BY <1>5, <2>1 DEF OwnStep
  <2> QED BY <1>1, <1>5, <2>1, <2>2 DEF ReaderMoves, Finalized
<1>6. CASE Decode(t)
  BY <1>5, <1>6 DEF Decode, history
<1>7. CASE DecodeThrows(t)
  BY <1>5, <1>7 DEF DecodeThrows, Go, history
<1>8. CASE Misuse(t)
  <2>1. /\ UNCHANGED <<statements, cursor, result, unbound, again, raced, failed>> /\ Finalized(i)
    BY <1>8 DEF Misuse, UsesFinalized, history
  <2>2. Return(t) \/ \E pc \in {"storing", "throwing", "stepping"} : Go(t, pc)
    BY <1>8 DEF Misuse, UsesFinalized, AfterMisuse
  <2>3. CASE Return(t)
    <3>1. thread'[t].pc = "idle" /\ \A u \in Thread \ {t} : thread'[u] = thread[u]
      BY <2>3, ThreadFacts DEF Return, Idle
    <3> QED BY <1>1, <2>1, <3>1 DEF ReaderMoves, OwnStep, Finalized
  <2> QED BY <1>5, <2>1, <2>2, <2>3 DEF Go
<1> QED BY <1>4, <1>6, <1>7, <1>8

(* The cursor is taken over, or there is none. *)
LEMMA ReadCursorDoes ==
  ASSUME CallsInv, NEW t \in Thread, ReadCursor(t)
  PROVE  /\ OwnStep(t) /\ thread[t].pc = "checked" /\ thread[t].select \in Select
         /\ UNCHANGED <<statements, cursor, result, unbound, again, raced, failed>>
         /\ \/ cursor[thread[t].select] = 0 /\ thread'[t].pc = "idle"
            \/ /\ cursor[thread[t].select] # 0 /\ thread'[t].pc = "stepping"
               /\ thread'[t].statement = cursor[thread[t].select]
               /\ thread'[t].select = thread[t].select /\ thread'[t].rows = thread[t].rows
<1>1. /\ thread[t].pc = "checked" /\ thread[t].select \in Select /\ thread[t] \in ThreadRecord
      /\ UNCHANGED <<statements, cursor, result, unbound, again, raced, failed>>
  BY ThreadFacts DEF ReadCursor, At, Reading, history
<1>2. CASE cursor[thread[t].select] = 0
  <2>1. thread' = [thread EXCEPT ![t] = Idle]
    BY <1>2 DEF ReadCursor, Return
  <2> QED BY <1>1, <1>2, <2>1, ThreadFacts DEF OwnStep, Idle
<1>3. CASE cursor[thread[t].select] # 0
  <2>1. thread' = [thread EXCEPT ![t].pc = "stepping", ![t].statement = cursor[thread[t].select]]
    BY <1>3 DEF ReadCursor
  <2>2. /\ \A u \in Thread \ {t} : thread'[u] = thread[u]
        /\ thread'[t].pc = "stepping" /\ thread'[t].statement = cursor[thread[t].select]
        /\ thread'[t].select = thread[t].select /\ thread'[t].rows = thread[t].rows
    BY <1>1, <2>1, ThreadFacts DEF ThreadRecord
  <2> QED BY <1>1, <1>3, <2>2 DEF OwnStep
<1> QED BY <1>2, <1>3

(* The rows become the result. *)
LEMMA StoreDoes ==
  ASSUME CallsInv, NEW t \in Thread, Store(t)
  PROVE  /\ OwnStep(t) /\ thread[t].pc = "storing" /\ thread[t].select \in Select
         /\ thread[t].rows \in Seq(0 .. Rows)
         /\ UNCHANGED <<statements, cursor, unbound, again, raced, failed>>
         /\ result' = [result EXCEPT ![thread[t].select] = thread[t].rows]
         /\ thread'[t].pc = "closing" /\ thread'[t].statement = thread[t].statement
         /\ thread'[t].select = thread[t].select
<1>1. /\ thread[t].pc = "storing" /\ thread[t].select \in Select /\ thread[t] \in ThreadRecord
      /\ UNCHANGED <<statements, cursor, unbound, again, raced, failed>>
  BY ThreadFacts DEF Store, At, Reading, history
<1>2. /\ thread' = [thread EXCEPT ![t].pc = "closing"]
      /\ result' = [result EXCEPT ![thread[t].select] = thread[t].rows]
  BY DEF Store, Go
<1>3. /\ \A u \in Thread \ {t} : thread'[u] = thread[u]
      /\ thread'[t].pc = "closing" /\ thread'[t].statement = thread[t].statement
      /\ thread'[t].select = thread[t].select /\ thread[t].rows \in Seq(0 .. Rows)
  BY <1>1, <1>2, ThreadFacts DEF ThreadRecord
<1> QED BY <1>1, <1>2, <1>3 DEF OwnStep

(* The statement is finalized; after an exception its SELECT is noted. *)
LEMMA CloseCursorDoes ==
  ASSUME CallsInv, NEW t \in Thread, CloseCursor(t)
  PROVE  /\ OwnStep(t) /\ thread[t].pc \in {"closing", "throwing"} /\ thread[t].select \in Select
         /\ thread[t].statement \in StatementId
         /\ UNCHANGED <<cursor, result, unbound, again, raced>>
         /\ failed' = IF thread[t].pc = "throwing" THEN failed \union {thread[t].select} ELSE failed
         /\ thread'[t].pc = "idle"
         /\ statements'[thread[t].statement].state = "finalized"
         /\ \A j \in StatementId \ {thread[t].statement} : statements'[j] = statements[j]
<1> DEFINE i == thread[t].statement
<1>1. /\ thread[t].pc \in {"closing", "throwing"} /\ thread[t].select \in Select
      /\ thread[t] \in ThreadRecord /\ i \in StatementId /\ Holds(t, i)
      /\ UNCHANGED <<cursor, result, unbound, again, raced>>
      /\ failed' = IF thread[t].pc = "throwing" THEN failed \union {thread[t].select} ELSE failed
  BY ThreadFacts DEF CloseCursor, At, Reading, Holding
<1>2. /\ thread' = [thread EXCEPT ![t] = Idle]
      /\ statements' = [statements EXCEPT ![i].state = "finalized"]
  BY DEF CloseCursor, Finalize, Return
<1>3. /\ Len(statements') = Len(statements) /\ statements'[i].select = statements[i].select
      /\ statements'[i].state = "finalized"
      /\ \A j \in StatementId \ {i} : statements'[j] = statements[j]
  BY <1>1, <1>2, ThreadFacts DEF StatementId, StatementRecord
<1>4. thread'[t].pc = "idle" /\ \A u \in Thread \ {t} : thread'[u] = thread[u]
  BY <1>2, ThreadFacts DEF Idle
<1> QED BY <1>1, <1>3, <1>4 DEF OwnStep

(* The SELECT gets its new cursor. *)
LEMMA BindQueryDoes ==
  ASSUME CallsInv, NEW t \in Thread, BindQuery(t)
  PROVE  /\ OwnStep(t) /\ thread[t].pc = "binding" /\ thread[t].select \in Select
         /\ thread[t].statement \in StatementId
         /\ UNCHANGED <<statements, result, unbound>>
         /\ cursor' = [cursor EXCEPT ![thread[t].select] = thread[t].statement]
         /\ again' = IF cursor[thread[t].select] = 0 THEN again ELSE again \union {thread[t].select}
         /\ raced' = IF ReadByAnother(t, thread[t].select) THEN raced \union {thread[t].select} ELSE raced
         /\ failed' = IF result[thread[t].select] = Null THEN failed \ {thread[t].select} ELSE failed
         /\ thread'[t].pc = "idle"
<1>1. /\ thread[t].pc = "binding" /\ thread[t].select \in Select
      /\ thread[t] \in ThreadRecord /\ thread[t].statement \in StatementId
      /\ UNCHANGED <<statements, result, unbound>>
      /\ thread' = [thread EXCEPT ![t] = Idle]
  BY ThreadFacts DEF BindQuery, At, Writing, Holding, ThreadRecord, Return
<1>2. thread'[t].pc = "idle" /\ \A u \in Thread \ {t} : thread'[u] = thread[u]
  BY <1>1, ThreadFacts DEF Idle
<1>3. OwnStep(t)
  BY <1>1, <1>2 DEF OwnStep
<1> QED BY <1>1, <1>2, <1>3 DEF BindQuery

(* A new statement, at the end. *)
LEMMA PrepareDoes ==
  ASSUME CallsInv, NEW t \in Thread, NEW q \in Select \union {Null}, Prepare(t, q)
  PROVE  /\ \A u \in Thread \ {t} : thread'[u] = thread[u]
         /\ thread[t].pc = "idle" /\ UNCHANGED <<cursor, result, unbound, again, raced, failed>>
         /\ StatementId' = StatementId \union {Len(statements) + 1}
         /\ Len(statements) + 1 \notin StatementId
         /\ \A i \in StatementId : statements'[i] = statements[i]
         /\ statements'[Len(statements) + 1] = [state |-> "ready", at |-> 0, select |-> q]
         /\ thread'[t].pc = "binding" /\ thread'[t].select = q
         /\ thread'[t].statement = Len(statements) + 1
<1>1. /\ thread[t].pc = "idle" /\ UNCHANGED <<cursor, result, unbound, again, raced, failed>>
      /\ statements' = Append(statements, [state |-> "ready", at |-> 0, select |-> q])
      /\ thread' = [thread EXCEPT ![t] =
           [Idle EXCEPT !.pc = "binding", !.select = q, !.statement = Len(statements) + 1]]
  BY DEF Prepare, At, history
<1>2. /\ \A u \in Thread \ {t} : thread'[u] = thread[u]
      /\ thread'[t].pc = "binding" /\ thread'[t].select = q
      /\ thread'[t].statement = Len(statements) + 1
  BY <1>1, ThreadFacts DEF Idle
<1> DEFINE s == [state |-> "ready", at |-> 0, select |-> q]
<1>3. statements' = Append(statements, s) /\ statements \in Seq(StatementRecord) /\ Len(statements) \in Nat
  BY <1>1, ThreadFacts
<1> HIDE DEF s
<1>4. /\ StatementId' = StatementId \union {Len(statements) + 1}
      /\ Len(statements) + 1 \notin StatementId
      /\ \A i \in StatementId : statements'[i] = statements[i]
      /\ statements'[Len(statements) + 1] = s
  BY <1>3 DEF StatementId
<1> QED BY <1>1, <1>2, <1>4 DEF s

(* getResults begins. *)
LEMMA ReadResultDoes ==
  ASSUME CallsInv, NEW t \in Thread, NEW q \in Select, ReadResult(t, q)
  PROVE  /\ \A u \in Thread \ {t} : thread'[u] = thread[u]
         /\ thread[t].pc = "idle" /\ result[q] = Null
         /\ UNCHANGED <<statements, cursor, result, unbound, again, failed>>
         /\ raced' = IF ReadByAnother(t, q) THEN raced \union {q} ELSE raced
         /\ thread'[t].pc = "checked" /\ thread'[t].select = q /\ thread'[t].rows = <<>>
<1>1. /\ thread[t].pc = "idle" /\ result[q] = Null
      /\ UNCHANGED <<statements, cursor, result, unbound, again, failed>>
      /\ raced' = IF ReadByAnother(t, q) THEN raced \union {q} ELSE raced
      /\ thread' = [thread EXCEPT ![t] = [Idle EXCEPT !.pc = "checked", !.select = q]]
  BY DEF ReadResult, At
<1>2. /\ \A u \in Thread \ {t} : thread'[u] = thread[u]
      /\ thread'[t].pc = "checked" /\ thread'[t].select = q /\ thread'[t].rows = <<>>
  BY <1>1, ThreadFacts DEF Idle
<1> QED BY <1>1, <1>2

-----------------------------------------------------------------------------
(* Statements that stay open *)

(* The cursor of a SELECT, and the statement of a call, were prepared for  *)
(* that SELECT, or for that call.                                          *)
StatementsAreOfTheirSelects ==
  /\ \A q \in Select : cursor[q] # 0 => statements[cursor[q]].select = q
  /\ \A t \in Thread : thread[t].pc \in Holding =>
       statements[thread[t].statement].select = thread[t].select

(* A result came from a cursor, and who reads has the cursor of its SELECT *)
(* unless that was executed again.                                         *)
ResultsHaveCursors ==
  /\ \A q \in Select : result[q] # Null => cursor[q] # 0
  /\ \A t \in Thread : thread[t].pc \in Reading \ {"checked"} =>
       /\ cursor[thread[t].select] # 0
       /\ thread[t].statement = cursor[thread[t].select] \/ thread[t].select \in again

ReachInv == StatementsAreOfTheirSelects /\ ResultsHaveCursors /\ OpenStatementsAreReachable

(* What a statement that is still open may be. *)
Reached(i) ==
  \/ i \in unbound
  \/ statements[i].select \in again
  \/ \E t \in Thread : Holds(t, i)
  \/ \E q \in Select : cursor[q] = i /\ result[q] = Null

(* While no call ends, cursor and result stay: nothing gets out of reach.  *)
LEMMA ReachSteps ==
  ASSUME CallsInv, CallsInv', ReachInv, Alive, NEW t \in Thread, WriterMoves(t) \/ ReaderMoves(t)
  PROVE  ReachInv'
<1>1. /\ OwnStep(t) /\ UNCHANGED <<cursor, result, again>> /\ unbound \subseteq unbound'
      /\ StatementId' = StatementId
      /\ thread[t].pc \in Holding
  <2>1. CASE WriterMoves(t)
    BY <2>1 DEF WriterMoves, Holding, Writing, OwnStep, StatementId
  <2>2. CASE ReaderMoves(t)
    BY <2>2 DEF ReaderMoves, Holding, OwnStep, StatementId
  <2> QED BY <2>1, <2>2
<1>2. /\ thread'[t].pc \in Holding => /\ thread'[t].statement = thread[t].statement
                                      /\ thread'[t].select = thread[t].select
      /\ thread'[t].pc \notin Holding => \/ statements'[thread[t].statement].state = "finalized"
                                         \/ thread[t].statement \in unbound'
      /\ thread'[t].pc \in Reading \ {"checked"} => thread[t].pc \in Reading \ {"checked"}
  <2>1. CASE WriterMoves(t)
    BY <2>1 DEF WriterMoves, Holding, Reading, Writing
  <2>2. CASE ReaderMoves(t)
    BY <2>2, ThreadFacts DEF ReaderMoves, Holding, Reading, Writing, Finalized
  <2> QED BY <2>1, <2>2
<1>3. StatementsAreOfTheirSelects'
  <2>1. \A q \in Select : cursor'[q] # 0 => statements'[cursor'[q]].select = q
    BY <1>1, ThreadFacts DEF ReachInv, StatementsAreOfTheirSelects, OwnStep
  <2>2. ASSUME NEW u \in Thread, thread'[u].pc \in Holding
        PROVE  statements'[thread'[u].statement].select = thread'[u].select
    <3>1. /\ thread'[u].statement = thread[u].statement /\ thread'[u].select = thread[u].select
          /\ thread[u].pc \in Holding
      BY <1>1, <1>2, <2>2 DEF OwnStep
    <3> QED BY <1>1, <3>1, ThreadFacts DEF ReachInv, StatementsAreOfTheirSelects, OwnStep
  <2> QED BY <2>1, <2>2 DEF StatementsAreOfTheirSelects
<1>4. ResultsHaveCursors'
  <2>1. ASSUME NEW u \in Thread, thread'[u].pc \in Reading \ {"checked"}
        PROVE  /\ cursor'[thread'[u].select] # 0
               /\ thread'[u].statement = cursor'[thread'[u].select] \/ thread'[u].select \in again'
    <3>1. /\ thread'[u].statement = thread[u].statement /\ thread'[u].select = thread[u].select
          /\ thread[u].pc \in Reading \ {"checked"}
      BY <1>1, <1>2, <2>1 DEF OwnStep, Holding
    <3> QED BY <1>1, <3>1 DEF ReachInv, ResultsHaveCursors
  <2> QED BY <1>1, <2>1 DEF ReachInv, ResultsHaveCursors
<1>5. ASSUME NEW i \in StatementId, statements'[i].state # "finalized"
      PROVE  Reached(i)'
  <2>1. Reached(i)
    <3>1. CASE Holds(t, i)
      BY <3>1 DEF Reached
    <3>2. CASE statements'[i] = statements[i]
      BY <1>5, <3>2 DEF ReachInv, OpenStatementsAreReachable, Reached, IsOpen, Finalized
    <3> QED BY <1>1, <3>1, <3>2 DEF OwnStep
  <2>2. ASSUME NEW u \in Thread, Holds(u, i) PROVE Holds(u, i)' \/ i \in unbound'
    <3>1. thread[u].pc \in Holding /\ thread[u].statement = i
      BY <2>2, ThreadFacts
    <3>2. (thread'[u].pc \in Holding /\ thread'[u].statement = i) \/ i \in unbound'
      BY <1>1, <1>2, <1>5, <3>1 DEF OwnStep
    <3> QED BY <3>2 DEF Holds, Holding
  <2> QED BY <1>1, <2>1, <2>2 DEF Reached, OwnStep
<1>6. OpenStatementsAreReachable'
  BY <1>1, <1>5 DEF OpenStatementsAreReachable, Reached, IsOpen, Finalized
<1> QED BY <1>3, <1>4, <1>6 DEF ReachInv

(* Who starts to step holds the cursor. *)
LEMMA ReachReadCursor ==
  ASSUME CallsInv, CallsInv', ReachInv, Alive, NEW t \in Thread, ReadCursor(t)
  PROVE  ReachInv'
<1>1. /\ OwnStep(t) /\ thread[t].pc = "checked" /\ thread[t].select \in Select
      /\ UNCHANGED <<statements, cursor, result, unbound, again, raced, failed>>
      /\ \/ cursor[thread[t].select] = 0 /\ thread'[t].pc = "idle"
         \/ /\ cursor[thread[t].select] # 0 /\ thread'[t].pc = "stepping"
            /\ thread'[t].statement = cursor[thread[t].select]
            /\ thread'[t].select = thread[t].select
  BY ReadCursorDoes
<1>2. StatementsAreOfTheirSelects'
  BY <1>1 DEF ReachInv, StatementsAreOfTheirSelects, OwnStep, Holding, Reading, Writing
<1>3. ResultsHaveCursors'
  BY <1>1 DEF ReachInv, ResultsHaveCursors, OwnStep, Reading
<1>4. \A u \in Thread, i \in StatementId : Holds(u, i) => Holds(u, i)'
  BY <1>1 DEF Holds, OwnStep
<1>5. OpenStatementsAreReachable'
  BY <1>1, <1>4 DEF ReachInv, OpenStatementsAreReachable, StatementId, IsOpen, Finalized
<1> QED BY <1>2, <1>3, <1>5 DEF ReachInv

(* The result of a SELECT puts its cursor out of reach, but the thread     *)
(* that stores it still holds that cursor, or it was executed again.       *)
LEMMA ReachStore ==
  ASSUME CallsInv, CallsInv', ReachInv, Alive, NEW t \in Thread, Store(t)
  PROVE  ReachInv'
<1> DEFINE q == thread[t].select
<1>1. /\ OwnStep(t) /\ thread[t].pc = "storing" /\ q \in Select
      /\ UNCHANGED <<statements, cursor, unbound, again, raced, failed>>
      /\ result' = [result EXCEPT ![q] = thread[t].rows]
      /\ thread'[t].pc = "closing" /\ thread'[t].statement = thread[t].statement
      /\ thread'[t].select = q
  BY StoreDoes
<1>2. cursor[q] # 0 /\ (thread[t].statement = cursor[q] \/ q \in again)
  BY <1>1 DEF ReachInv, ResultsHaveCursors, Reading
<1>3. StatementsAreOfTheirSelects'
  BY <1>1 DEF ReachInv, StatementsAreOfTheirSelects, OwnStep, Holding, Reading, Writing
<1>4. ResultsHaveCursors'
  <2>1. \A p \in Select \ {q} : result'[p] = result[p]
    BY <1>1, ThreadFacts
  <2> QED BY <1>1, <1>2, <2>1 DEF ReachInv, ResultsHaveCursors, OwnStep, Reading
<1>5. \A u \in Thread, i \in StatementId : Holds(u, i) => Holds(u, i)'
  BY <1>1 DEF Holds, OwnStep, Reading
<1>6. ASSUME NEW i \in StatementId, IsOpen(i) PROVE Reached(i)'
  <2>1. Reached(i)
    BY <1>6 DEF ReachInv, OpenStatementsAreReachable, Reached
  <2>2. ASSUME NEW p \in Select, cursor[p] = i, result[p] = Null PROVE Reached(i)'
    <3>1. CASE p = q /\ thread[t].statement = cursor[q]
      <4>1. Holds(t, i)
        BY <1>1, <2>2, <3>1 DEF Holds, Reading
      <4> QED BY <1>5, <4>1 DEF Reached
    <3>2. CASE p = q /\ q \in again
      <4>1. statements[i].select = q
        BY <1>2, <2>2, <3>2 DEF ReachInv, StatementsAreOfTheirSelects
      <4> QED BY <1>1, <3>2, <4>1 DEF Reached
    <3>3. CASE p # q
      BY <1>1, <2>2, <3>3, ThreadFacts DEF Reached
    <3> QED BY <1>2, <3>1, <3>2, <3>3
  <2> QED BY <1>1, <1>5, <2>1, <2>2 DEF Reached
<1>7. OpenStatementsAreReachable'
  BY <1>1, <1>6 DEF OpenStatementsAreReachable, Reached, StatementId, IsOpen, Finalized
<1> QED BY <1>3, <1>4, <1>7 DEF ReachInv

(* The end of getResults finalizes what it held. *)
LEMMA ReachCloseCursor ==
  ASSUME CallsInv, CallsInv', ReachInv, Alive, NEW t \in Thread, CloseCursor(t)
  PROVE  ReachInv'
<1>1. /\ OwnStep(t) /\ thread[t].pc \in {"closing", "throwing"}
      /\ thread[t].statement \in StatementId
      /\ UNCHANGED <<cursor, result, unbound, again, raced>>
      /\ thread'[t].pc = "idle"
      /\ statements'[thread[t].statement].state = "finalized"
      /\ \A j \in StatementId \ {thread[t].statement} : statements'[j] = statements[j]
  BY CloseCursorDoes
<1>2. StatementsAreOfTheirSelects'
  <2>1. \A q \in Select : cursor'[q] # 0 => statements'[cursor'[q]].select = q
    BY <1>1, ThreadFacts DEF ReachInv, StatementsAreOfTheirSelects, OwnStep
  <2>2. ASSUME NEW u \in Thread, thread'[u].pc \in Holding
        PROVE  statements'[thread'[u].statement].select = thread'[u].select
    <3>1. u # t
      BY <1>1, <2>2 DEF Holding, Reading, Writing
    <3> QED BY <1>1, <2>2, <3>1, ThreadFacts DEF ReachInv, StatementsAreOfTheirSelects, OwnStep
  <2> QED BY <2>1, <2>2 DEF StatementsAreOfTheirSelects
<1>3. ResultsHaveCursors'
  BY <1>1 DEF ReachInv, ResultsHaveCursors, OwnStep, Reading
<1>4. StatementId' = StatementId
  BY <1>1 DEF OwnStep, StatementId
<1>5. ASSUME NEW i \in StatementId, statements'[i].state # "finalized" PROVE Reached(i)'
  <2>1. i # thread[t].statement /\ statements'[i] = statements[i]
    BY <1>1, <1>5
  <2>2. Reached(i)
    BY <1>5, <2>1 DEF ReachInv, OpenStatementsAreReachable, Reached, IsOpen, Finalized
  <2>3. \A u \in Thread : Holds(u, i) => Holds(u, i)'
    BY <1>1, <2>1 DEF Holds, OwnStep
  <2> QED BY <1>1, <2>1, <2>2, <2>3 DEF Reached
<1>6. OpenStatementsAreReachable'
  BY <1>4, <1>5 DEF OpenStatementsAreReachable, Reached, IsOpen, Finalized
<1> QED BY <1>2, <1>3, <1>6 DEF ReachInv

(* execute replaces the cursor: the old one is that of a SELECT executed   *)
(* again, and so is the new one if the result of the old one is still kept. *)
LEMMA ReachBindQuery ==
  ASSUME CallsInv, CallsInv', ReachInv, Alive, NEW t \in Thread, BindQuery(t)
  PROVE  ReachInv'
<1> DEFINE q == thread[t].select
<1> DEFINE n == thread[t].statement
<1>1. /\ OwnStep(t) /\ thread[t].pc = "binding" /\ q \in Select /\ n \in StatementId
      /\ UNCHANGED <<statements, result, unbound>>
      /\ cursor' = [cursor EXCEPT ![q] = n]
      /\ again' = (IF cursor[q] = 0 THEN again ELSE again \union {q})
      /\ thread'[t].pc = "idle"
  BY BindQueryDoes
<1>2. statements[n].select = q /\ n # 0
  BY <1>1 DEF ReachInv, StatementsAreOfTheirSelects, Holding, Writing, StatementId
<1>3. cursor'[q] = n /\ \A p \in Select \ {q} : cursor'[p] = cursor[p]
  BY <1>1, ThreadFacts
<1>4. again \subseteq again' /\ (cursor[q] # 0 => q \in again')
  BY <1>1
<1>5. StatementsAreOfTheirSelects'
  BY <1>1, <1>2, <1>3 DEF ReachInv, StatementsAreOfTheirSelects, OwnStep, Holding, Reading, Writing
<1>6. ResultsHaveCursors'
  <2>1. \A p \in Select : result'[p] # Null => cursor'[p] # 0
    BY <1>1, <1>2, <1>3 DEF ReachInv, ResultsHaveCursors
  <2>2. ASSUME NEW u \in Thread, thread'[u].pc \in Reading \ {"checked"}
        PROVE  /\ cursor'[thread'[u].select] # 0
               /\ thread'[u].statement = cursor'[thread'[u].select] \/ thread'[u].select \in again'
    <3>1. u # t /\ thread'[u] = thread[u]
      BY <1>1, <2>2 DEF OwnStep, Reading
    <3>2. /\ cursor[thread[u].select] # 0 /\ thread[u].select \in Select
          /\ thread[u].statement = cursor[thread[u].select] \/ thread[u].select \in again
      BY <2>2, <3>1, ThreadFacts DEF ReachInv, ResultsHaveCursors
    <3>3. CASE thread[u].select = q
      BY <1>2, <1>3, <1>4, <3>1, <3>2, <3>3
    <3>4. CASE thread[u].select # q
      BY <1>3, <1>4, <3>1, <3>2, <3>4
    <3> QED BY <3>3, <3>4
  <2> QED BY <2>1, <2>2 DEF ResultsHaveCursors
<1>7. ASSUME NEW i \in StatementId, IsOpen(i) PROVE Reached(i)'
  <2>1. Reached(i)
    BY <1>7 DEF ReachInv, OpenStatementsAreReachable, Reached
  <2>2. ASSUME NEW u \in Thread, Holds(u, i) PROVE Reached(i)'
    <3>1. CASE u = t
      <4>1. i = n
        BY <2>2, <3>1 DEF Holds
      <4>2. CASE result[q] = Null
        BY <1>1, <1>3, <4>1, <4>2 DEF Reached
      <4>3. CASE result[q] # Null
        <5>1. q \in again'
          BY <1>1, <1>4, <4>3 DEF ReachInv, ResultsHaveCursors
        <5> QED BY <1>1, <1>2, <4>1, <5>1 DEF Reached
      <4> QED BY <4>2, <4>3
    <3>2. CASE u # t
      <4>1. Holds(u, i)'
        BY <1>1, <2>2, <3>2 DEF Holds, OwnStep
      <4> QED BY <4>1 DEF Reached
    <3> QED BY <3>1, <3>2
  <2>3. ASSUME NEW p \in Select, cursor[p] = i, result[p] = Null PROVE Reached(i)'
    <3>1. CASE p = q
      <4>1. i # 0
        BY DEF StatementId
      <4>2. statements[i].select = q /\ q \in again'
        BY <1>4, <2>3, <3>1, <4>1 DEF ReachInv, StatementsAreOfTheirSelects
      <4> QED BY <1>1, <4>2 DEF Reached
    <3>2. CASE p # q
      BY <1>1, <1>3, <2>3, <3>2 DEF Reached
    <3> QED BY <3>1, <3>2
  <2> QED BY <1>1, <1>4, <2>1, <2>2, <2>3 DEF Reached
<1>8. OpenStatementsAreReachable'
  BY <1>1, <1>7 DEF OpenStatementsAreReachable, Reached, StatementId, IsOpen, Finalized
<1> QED BY <1>5, <1>6, <1>8 DEF ReachInv

(* A new statement is held by the call that prepared it. *)
LEMMA ReachPrepare ==
  ASSUME CallsInv, CallsInv', ReachInv, Alive, NEW t \in Thread, NEW q \in Select \union {Null}, Prepare(t, q)
  PROVE  ReachInv'
<1> DEFINE n == Len(statements) + 1
<1>1. /\ \A u \in Thread \ {t} : thread'[u] = thread[u]
      /\ thread[t].pc = "idle" /\ UNCHANGED <<cursor, result, unbound, again, raced, failed>>
      /\ StatementId' = StatementId \union {n} /\ n \notin StatementId
      /\ \A i \in StatementId : statements'[i] = statements[i]
      /\ statements'[n] = [state |-> "ready", at |-> 0, select |-> q]
      /\ thread'[t].pc = "binding" /\ thread'[t].select = q /\ thread'[t].statement = n
  BY PrepareDoes
<1> HIDE DEF n
<1>2. statements'[n].select = q
  BY <1>1
<1>3. StatementsAreOfTheirSelects'
  <2>1. \A p \in Select : cursor'[p] # 0 => statements'[cursor'[p]].select = p
    BY <1>1, ThreadFacts DEF ReachInv, StatementsAreOfTheirSelects
  <2>2. ASSUME NEW u \in Thread, thread'[u].pc \in Holding
        PROVE  statements'[thread'[u].statement].select = thread'[u].select
    <3>1. CASE u = t
      BY <1>1, <1>2, <3>1
    <3>2. CASE u # t
      BY <1>1, <2>2, <3>2, ThreadFacts DEF ReachInv, StatementsAreOfTheirSelects
    <3> QED BY <3>1, <3>2
  <2> QED BY <2>1, <2>2 DEF StatementsAreOfTheirSelects
<1>4. ResultsHaveCursors'
  BY <1>1 DEF ReachInv, ResultsHaveCursors, Reading
<1>5. ASSUME NEW i \in StatementId', statements'[i].state # "finalized" PROVE Reached(i)'
  <2>1. CASE i = n
    <3>1. thread'[t].pc \in (Reading \union Writing) \ {"checked"} /\ thread'[t].statement = i
      BY <1>1, <2>1 DEF Reading, Writing
    <3>2. Holds(t, i)'
      BY <3>1 DEF Holds
    <3> QED BY <3>2 DEF Reached
  <2>2. CASE i # n
    <3>1. i \in StatementId /\ statements'[i] = statements[i]
      BY <1>1, <1>5, <2>2
    <3>2. Reached(i)
      BY <1>5, <3>1 DEF ReachInv, OpenStatementsAreReachable, Reached, IsOpen, Finalized
    <3>3. \A u \in Thread : Holds(u, i) => Holds(u, i)'
      BY <1>1 DEF Holds, Reading, Writing
    <3> QED BY <1>1, <3>1, <3>2, <3>3 DEF Reached
  <2> QED BY <2>1, <2>2
<1>6. OpenStatementsAreReachable'
  BY <1>5 DEF OpenStatementsAreReachable, Reached, IsOpen, Finalized
<1> QED BY <1>3, <1>4, <1>6 DEF ReachInv

(* Every step keeps open statements in reach. *)
LEMMA ReachStep == CallsInv /\ CallsInv' /\ ReachInv /\ [Next]_vars => ReachInv'
<1> SUFFICES ASSUME CallsInv, CallsInv', ReachInv, [Next]_vars PROVE ReachInv'
  OBVIOUS
<1>1. ASSUME UNCHANGED <<statements, cursor, result, thread, unbound, again>> PROVE ReachInv'
  BY <1>1 DEF ReachInv, StatementsAreOfTheirSelects, ResultsHaveCursors, OpenStatementsAreReachable,
     StatementId, IsOpen, Finalized, Holds, Alive, At
<1>2. ASSUME NEW t \in Thread, Continue(t) PROVE ReachInv'
  <2>1. CASE Crash(t)
    <3>1. /\ UNCHANGED <<statements, cursor, result, unbound, again>>
          /\ \A u \in Thread : thread'[u].pc = "crashed"
      BY <2>1 DEF Crash, Idle, history
    <3>2. StatementsAreOfTheirSelects' /\ ResultsHaveCursors'
      BY <3>1 DEF ReachInv, StatementsAreOfTheirSelects, ResultsHaveCursors, Holding, Reading, Writing
    <3> QED BY <3>1, <3>2 DEF ReachInv, OpenStatementsAreReachable, Alive, At
  <2>2. CASE ~ Crash(t)
    <3>1. thread[t].pc # "crashed"
      BY <1>2, <2>2 DEF Continue, BindThrows, BindQuery, BindWrite, ExecuteNonQuery, ResetAndClear,
         FinalizeWrite, ReadCursor, Step, Decode, DecodeThrows, Store, CloseCursor, Misuse, UsesFinalized, At
    <3>2. Alive
      BY <3>1 DEF CallsInv, CrashesTogether, Alive, At
    <3> QED BY <1>2, <2>2, <3>2, WriterSteps, ReaderSteps, ReachSteps, ReachReadCursor, ReachStore,
           ReachCloseCursor, ReachBindQuery DEF Continue
  <2> QED BY <2>1, <2>2
<1>3. ASSUME NEW t \in Thread, Start(t) PROVE ReachInv'
  <2>1. ASSUME NEW q \in Select \union {Null}, Prepare(t, q) PROVE ReachInv'
    <3>1. Alive
      BY <2>1 DEF Prepare, At, CallsInv, CrashesTogether, Alive
    <3> QED BY <2>1, <3>1, ReachPrepare
  <2>2. ASSUME NEW q \in Select, ReadResult(t, q) PROVE ReachInv'
    <3>1. /\ \A u \in Thread \ {t} : thread'[u] = thread[u]
          /\ thread[t].pc = "idle" /\ thread'[t].pc = "checked"
          /\ UNCHANGED <<statements, cursor, result, unbound, again>>
      BY <2>2, ReadResultDoes
    <3>2. Alive
      BY <3>1 DEF CallsInv, CrashesTogether, Alive, At
    <3>3. StatementsAreOfTheirSelects' /\ ResultsHaveCursors'
      BY <3>1 DEF ReachInv, StatementsAreOfTheirSelects, ResultsHaveCursors, Holding, Reading, Writing
    <3>4. \A u \in Thread, i \in StatementId : Holds(u, i) => Holds(u, i)'
      BY <3>1 DEF Holds, Reading, Writing
    <3>5. OpenStatementsAreReachable'
      BY <3>1, <3>2, <3>4 DEF ReachInv, OpenStatementsAreReachable, StatementId, IsOpen, Finalized
    <3> QED BY <3>3, <3>5 DEF ReachInv
  <2>3. CASE Close(t)
    BY <1>1, <2>3 DEF Close, history
  <2> QED BY <1>3, <2>1, <2>2, <2>3 DEF Start
<1>4. CASE Lock \/ Unlock \/ UNCHANGED vars
  BY <1>1, <1>4 DEF Lock, Unlock, vars, history
<1> QED BY <1>2, <1>3, <1>4 DEF Next

(* A statement that is not finalized is in the hands of a call, or the     *)
(* unread cursor of a SELECT; what the code leaks are statements whose     *)
(* bind threw and cursors of SELECTs that were executed again, no others.  *)
THEOREM OpenStatementsStayReachable == Spec => []OpenStatementsAreReachable
<1>1. Init => ReachInv
  BY DEF Init, Idle, ReachInv, StatementsAreOfTheirSelects, ResultsHaveCursors, OpenStatementsAreReachable,
     StatementId, Holding, Reading, Writing
<1>2. ReachInv => OpenStatementsAreReachable
  BY DEF ReachInv
<1> QED BY CallsInit, CallsStep, ReachStep, <1>1, <1>2, PTL DEF Spec

-----------------------------------------------------------------------------
(* Statements that are used, and results *)

Disturbed(q) == q \in raced \union failed
UpTo(k) == [n \in 1 .. k |-> n]

(* Two threads in getResults of one SELECT are noted as they enter. *)
ReadersRace ==
  \A t, u \in Thread :
    /\ t # u
    /\ thread[t].pc \in Reading /\ thread[u].pc \in Reading
    /\ thread[t].select = thread[u].select
    => thread[t].select \in raced

(* A cursor that is finalized while there is no result is that of a        *)
(* getResults that threw.                                                  *)
CursorsAreFresh ==
  \A q \in Select : cursor[q] # 0 /\ ~ Disturbed(q) /\ Finalized(cursor[q]) => result[q] # Null

(* A thread in getResults: there is a result from the moment it stored     *)
(* one, its statement is open, and it has the rows stepped so far.         *)
RowsFit(t) ==
  LET i == thread[t].statement
      rows == thread[t].rows
  IN  /\ thread[t].pc = "checked" => rows = <<>>
      /\ thread[t].pc = "stepping" => rows = UpTo(RowsRead(i))
      /\ thread[t].pc = "decoding" =>
           /\ statements[i].state = "row" /\ statements[i].at # 0
           /\ rows = UpTo(statements[i].at - 1)
      /\ thread[t].pc = "storing" => rows = UpTo(Rows)

ReaderFits(t) ==
  LET q == thread[t].select
  IN  /\ IF thread[t].pc = "closing" THEN result[q] # Null ELSE result[q] = Null \/ q \in raced
      /\ thread[t].pc # "checked" /\ Finalized(thread[t].statement) => Disturbed(q)
      /\ ~ Disturbed(q) => RowsFit(t)

UseInv ==
  /\ ReadersRace
  /\ CursorsAreFresh
  /\ ResultsAreWhole
  /\ \A t \in Thread : thread[t].pc \in Reading => ReaderFits(t)

(* The rows up to the next one. *)
LEMMA NoRows == UpTo(0) = <<>>
BY DEF UpTo

(* Storing the next row extends the rows up to it. *)
LEMMA OneMoreRow ==
  ASSUME NEW k \in Nat, k # 0
  PROVE  Append(UpTo(k - 1), k) = UpTo(k)
<1>1. UpTo(k - 1) \in Seq(Nat) /\ Len(UpTo(k - 1)) = k - 1
  BY DEF UpTo
<1>2. Append(UpTo(k - 1), k) \in Seq(Nat) /\ Len(Append(UpTo(k - 1), k)) = k
  BY <1>1
<1>3. UpTo(k) \in Seq(Nat) /\ Len(UpTo(k)) = k
  BY DEF UpTo
<1>4. ASSUME NEW n \in 1 .. k PROVE Append(UpTo(k - 1), k)[n] = UpTo(k)[n]
  <2>1. UpTo(k)[n] = n
    BY DEF UpTo
  <2>2. CASE n = k
    BY <1>1, <2>1, <2>2
  <2>3. CASE n # k
    <3>1. n \in 1 .. (k - 1)
      BY <2>3
    <3>2. UpTo(k - 1)[n] = n
      BY <3>1 DEF UpTo
    <3> QED BY <1>1, <2>1, <3>1, <3>2
  <2> QED BY <2>2, <2>3
<1> QED BY <1>2, <1>3, <1>4

(* The statement that a thread reads is not used by another one, unless    *)
(* both read the same SELECT.                                              *)
LEMMA SharedIsRaced ==
  ASSUME CallsInv, LocksInv, ReachInv, ReadersRace, NEW t \in Thread, NEW u \in Thread \ {t},
         NEW i \in StatementId, Holds(t, i), Holds(u, i), thread[u].pc \in Reading
  PROVE  thread[u].select \in raced /\ thread[t].pc \in Reading /\ thread[t].select = thread[u].select
<1>1. thread[t].pc \in Holding /\ thread[u].pc \in Holding
      /\ thread[t].statement = i /\ thread[u].statement = i
  BY ThreadFacts
<1>2. thread[t].pc \in Reading
  BY <1>1 DEF LocksInv, DriverCallsOwnStatements, Holding
<1>3. thread[t].select = thread[u].select
  BY <1>1 DEF ReachInv, StatementsAreOfTheirSelects
<1> QED BY <1>2, <1>3 DEF ReadersRace

(* A thread that makes no step still fits, unless its SELECT was raced.    *)
LEMMA OthersFit ==
  ASSUME CallsInv, NEW u \in Thread, thread'[u] = thread[u], thread[u].pc \in Reading, ReaderFits(u),
         raced \subseteq raced',
         result[thread[u].select] # Null => result'[thread[u].select] # Null,
         \/ thread[u].select \in raced'
         \/ /\ thread[u].pc # "checked" =>
                 statements'[thread[u].statement] = statements[thread[u].statement]
            /\ result'[thread[u].select] = result[thread[u].select]
            /\ thread[u].select \in failed => thread[u].select \in failed'
  PROVE  ReaderFits(u)'
<1>1. CASE thread[u].select \in raced'
  BY <1>1 DEF ReaderFits, Disturbed
<1>2. CASE /\ thread[u].select \notin raced'
           /\ thread[u].pc # "checked" =>
                 statements'[thread[u].statement] = statements[thread[u].statement]
           /\ result'[thread[u].select] = result[thread[u].select]
           /\ thread[u].select \in failed => thread[u].select \in failed'
  <2>1. RowsFit(u) => RowsFit(u)'
    BY <1>2 DEF RowsFit, RowsRead
  <2> QED BY <1>2, <2>1 DEF ReaderFits, Disturbed, Finalized
<1> QED BY <1>1, <1>2

(* A thread that is in getResults already, or in a driver call, goes on or *)
(* ends: what is asked of its step is about its own SELECT and statement.  *)
LEMMA UseMoves ==
  ASSUME CallsInv, LocksInv, ReachInv, UseInv, NEW t \in Thread, OwnStep(t),
         UNCHANGED <<cursor, raced>>, failed \subseteq failed',
         thread'[t].pc \in Reading =>
           thread[t].pc \in Reading /\ thread'[t].select = thread[t].select /\ ReaderFits(t)',
         \A q \in Select : result'[q] # result[q] =>
           /\ thread[t].pc \in Reading /\ thread[t].select = q /\ result'[q] # Null
           /\ q \notin raced \union failed' => result'[q] = UpTo(Rows),
         \A q \in Select : cursor[q] # 0 /\ IsOpen(cursor[q]) /\ statements'[cursor[q]].state = "finalized"
                           => result[q] # Null \/ q \in failed'
  PROVE  UseInv'
<1>1. \A u \in Thread \ {t} : thread'[u] = thread[u]
  BY DEF OwnStep
<1>2. ReadersRace'
  <2> SUFFICES ASSUME NEW u \in Thread, NEW v \in Thread, u # v,
                      thread'[u].pc \in Reading, thread'[v].pc \in Reading,
                      thread'[u].select = thread'[v].select
               PROVE  thread'[u].select \in raced
    BY DEF ReadersRace
  <2>1. /\ thread[u].pc \in Reading /\ thread[v].pc \in Reading
        /\ thread'[u].select = thread[u].select /\ thread'[v].select = thread[v].select
    BY <1>1
  <2> QED BY <2>1 DEF UseInv, ReadersRace
<1>3. CursorsAreFresh'
  <2> SUFFICES ASSUME NEW q \in Select, cursor[q] # 0, q \notin raced \union failed',
                      statements'[cursor[q]].state = "finalized"
               PROVE  result'[q] # Null
    BY DEF CursorsAreFresh, Disturbed, Finalized
  <2>1. result[q] # Null => result'[q] # Null
    OBVIOUS
  <2>2. CASE IsOpen(cursor[q])
    BY <2>1, <2>2
  <2>3. CASE Finalized(cursor[q])
    BY <2>1, <2>3 DEF UseInv, CursorsAreFresh, Disturbed
  <2> QED BY <2>2, <2>3 DEF IsOpen
<1>4. ResultsAreWhole'
  <2> SUFFICES ASSUME NEW q \in Select, result'[q] # Null, q \notin raced \union failed'
               PROVE  result'[q] = UpTo(Rows)
    BY DEF ResultsAreWhole, UpTo
  <2>1. CASE result'[q] = result[q]
    BY <2>1 DEF UseInv, ResultsAreWhole, UpTo
  <2> QED BY <2>1
<1>5. ASSUME NEW u \in Thread, thread'[u].pc \in Reading PROVE ReaderFits(u)'
  <2>1. CASE u = t
    BY <1>5, <2>1
  <2>2. CASE u # t
    <3>1. thread'[u] = thread[u] /\ thread[u].pc \in Reading /\ ReaderFits(u) /\ thread[u].select \in Select
      BY <1>1, <1>5, <2>2, ThreadFacts DEF UseInv
    <3>2. CASE thread[u].select \in raced
      BY <3>1, <3>2, OthersFit
    <3>3. CASE thread[u].select \notin raced
      <4>1. result'[thread[u].select] = result[thread[u].select]
        BY <2>2, <3>1, <3>3 DEF UseInv, ReadersRace
      <4>2. ASSUME thread[u].pc # "checked"
            PROVE  statements'[thread[u].statement] = statements[thread[u].statement]
        <5>1. thread[u].statement \in StatementId /\ Holds(u, thread[u].statement)
          BY <3>1, <4>2, ThreadFacts DEF Holding
        <5>2. ~ Holds(t, thread[u].statement)
          BY <2>2, <3>1, <3>3, <5>1, SharedIsRaced DEF UseInv
        <5> QED BY <5>1, <5>2 DEF OwnStep
      <4> QED BY <3>1, <4>1, <4>2, OthersFit
    <3> QED BY <3>2, <3>3
  <2> QED BY <2>1, <2>2
<1> QED BY <1>2, <1>3, <1>4, <1>5 DEF UseInv

(* What step did. *)
LEMMA StepDoes ==
  ASSUME CallsInv, NEW t \in Thread, Step(t)
  PROVE  LET i == thread[t].statement
         IN  /\ thread[t].pc = "stepping" /\ IsOpen(i)
             /\ thread'[t].rows = thread[t].rows /\ thread'[t].statement = i
             /\ \/ /\ thread'[t].pc = "decoding" /\ RowsRead(i) \in Nat
                   /\ statements'[i].state = "row" /\ statements'[i].at = RowsRead(i) + 1
                \/ thread'[t].pc = "storing" /\ RowsRead(i) = Rows
                \/ thread'[t].pc = "throwing"
                \/ thread'[t].pc = "stepping" /\ statements' = statements
<1> DEFINE i == thread[t].statement
<1>1. /\ thread[t].pc = "stepping" /\ IsOpen(i) /\ i \in StatementId
      /\ StepRow(t, i) \/ StepDone(t, i) \/ StepError(t, i) \/ StepBusy(t, i)
  BY ThreadFacts DEF Step, At, Holding, Reading
<1>2. thread[t] \in ThreadRecord /\ statements[i] \in StatementRecord /\ RowsRead(i) \in 0 .. Rows
  BY <1>1, ThreadFacts, StatementBounds DEF RowsRead, StatementRecord
<1> HIDE DEF i
<1>3. CASE StepRow(t, i)
  <2>1. /\ thread' = [thread EXCEPT ![t].pc = "decoding", ![t].tries = 0]
        /\ statements' = [statements EXCEPT ![i].state = "row", ![i].at = RowsRead(i) + 1]
    BY <1>3 DEF StepRow
  <2>2. thread'[t].pc = "decoding" /\ thread'[t].rows = thread[t].rows
        /\ thread'[t].statement = thread[t].statement
    BY <1>2, <2>1, ThreadFacts DEF ThreadRecord
  <2>3. statements'[i].state = "row" /\ statements'[i].at = RowsRead(i) + 1
    BY <1>1, <1>2, <2>1, ThreadFacts DEF StatementRecord, StatementId
  <2> QED BY <1>1, <1>2, <2>2, <2>3 DEF i
<1>4. CASE StepDone(t, i)
  <2>1. thread' = [thread EXCEPT ![t].pc = "storing", ![t].tries = 0]
    BY <1>4 DEF StepDone
  <2>2. thread'[t].pc = "storing" /\ thread'[t].rows = thread[t].rows
        /\ thread'[t].statement = thread[t].statement
    BY <1>2, <2>1, ThreadFacts DEF ThreadRecord
  <2>3. RowsRead(i) = Rows
    BY <1>2, <1>4, StatementBounds DEF StepDone, StepOutcomes
  <2> QED BY <1>1, <2>2, <2>3 DEF i
<1>5. CASE StepError(t, i)
  BY <1>1, <1>2, <1>5, ThreadFacts DEF StepError, Go, ThreadRecord, i
<1>6. CASE StepBusy(t, i)
  <2> DEFINE pc == IF thread[t].tries + 1 = MaxTries THEN "throwing" ELSE "stepping"
  <2>1. thread' = [thread EXCEPT ![t] = [thread[t] EXCEPT !.pc = pc, !.tries = thread[t].tries + 1]]
    BY <1>1, <1>2, <1>6, ThreadFacts DEF StepBusy, ThreadRecord
  <2>2. pc \in {"throwing", "stepping"} /\ statements' = statements
    BY <1>6 DEF StepBusy
  <2> HIDE DEF pc
  <2>3. thread'[t].pc = pc /\ thread'[t].rows = thread[t].rows
        /\ thread'[t].statement = thread[t].statement
    BY <1>2, <2>1, ThreadFacts DEF ThreadRecord
  <2> QED BY <1>1, <2>2, <2>3 DEF i
<1> QED BY <1>1, <1>3, <1>4, <1>5, <1>6

(* The row is added to those the thread has. *)
LEMMA DecodeDoes ==
  ASSUME CallsInv, NEW t \in Thread, Decode(t)
  PROVE  /\ thread[t].pc = "decoding" /\ statements' = statements
         /\ thread'[t].pc = "stepping" /\ thread'[t].statement = thread[t].statement
         /\ thread'[t].rows = Append(thread[t].rows, RowsRead(thread[t].statement))
<1>1. /\ thread[t].pc = "decoding" /\ statements' = statements
      /\ thread' = [thread EXCEPT ![t].pc = "stepping",
                                  ![t].rows = Append(thread[t].rows, RowsRead(thread[t].statement))]
  BY ThreadFacts DEF Decode, At
<1> QED BY <1>1, ThreadFacts DEF ThreadRecord

(* The steps of getResults that leave its SELECT as it is. *)
LEMMA UseReader ==
  ASSUME CallsInv, LocksInv, ReachInv, UseInv, NEW t \in Thread,
         Step(t) \/ Decode(t) \/ DecodeThrows(t) \/ Misuse(t)
  PROVE  UseInv'
<1> DEFINE q == thread[t].select
<1> DEFINE i == thread[t].statement
<1>1. ReaderMoves(t)
  BY ReaderSteps
<1>2. /\ OwnStep(t) /\ UNCHANGED <<cursor, result, raced, failed>> /\ thread[t].pc \in Reading \ {"checked"}
      /\ \A j \in StatementId : statements'[j].state = "finalized" <=> Finalized(j)
  BY <1>1 DEF ReaderMoves
<1>3. i \in StatementId /\ q \in Select /\ ReaderFits(t) /\ statements[i] \in StatementRecord
  BY <1>2, ThreadFacts DEF UseInv, Holding
<1>4. thread'[t].pc \in Reading =>
        /\ thread'[t].pc \notin {"checked", "closing"} /\ thread'[t].select = q /\ thread'[t].statement = i
  BY <1>1 DEF ReaderMoves, Reading
<1>5. thread[t].pc = "closing" => thread'[t].pc \notin Reading
  <2> SUFFICES ASSUME thread[t].pc = "closing" PROVE thread'[t].pc \notin Reading
    OBVIOUS
  <2>1. Return(t)
    BY DEF Step, Decode, DecodeThrows, Misuse, AfterMisuse, At
  <2> QED BY <2>1, ThreadFacts DEF Return, Idle, Reading
<1>6. ASSUME thread'[t].pc \in Reading, ~ Disturbed(q) PROVE RowsFit(t)'
  <2>1. ~ Misuse(t) /\ RowsFit(t)
    BY <1>2, <1>3, <1>6 DEF ReaderFits, Misuse, UsesFinalized
  <2>2. CASE Step(t)
    <3>1. /\ thread[t].pc = "stepping" /\ thread'[t].rows = thread[t].rows /\ thread'[t].statement = i
          /\ \/ /\ thread'[t].pc = "decoding" /\ RowsRead(i) \in Nat
                /\ statements'[i].state = "row" /\ statements'[i].at = RowsRead(i) + 1
             \/ thread'[t].pc = "storing" /\ RowsRead(i) = Rows
             \/ thread'[t].pc = "throwing"
             \/ thread'[t].pc = "stepping" /\ statements' = statements
      BY <2>2, StepDoes
    <3>2. thread'[t].rows = UpTo(RowsRead(i))
      BY <2>1, <3>1 DEF RowsFit
    <3>3. CASE /\ thread'[t].pc = "decoding" /\ RowsRead(i) \in Nat
               /\ statements'[i].state = "row" /\ statements'[i].at = RowsRead(i) + 1
      <4>1. statements'[i].at # 0 /\ statements'[i].at - 1 = RowsRead(i)
        BY <3>3
      <4> QED BY <3>1, <3>2, <3>3, <4>1 DEF RowsFit
    <3>4. CASE thread'[t].pc = "storing" /\ RowsRead(i) = Rows
      BY <3>2, <3>4 DEF RowsFit
    <3>5. CASE thread'[t].pc = "throwing"
      BY <3>5 DEF RowsFit
    <3>6. CASE thread'[t].pc = "stepping" /\ statements' = statements
      <4>1. statements'[i] = statements[i]
        BY <3>6
      <4> QED BY <3>1, <3>2, <3>6, <4>1 DEF RowsFit, RowsRead
    <3> QED BY <3>1, <3>3, <3>4, <3>5, <3>6
  <2>3. CASE Decode(t)
    <3>1. /\ thread[t].pc = "decoding" /\ statements' = statements
          /\ thread'[t].pc = "stepping" /\ thread'[t].statement = i
          /\ thread'[t].rows = Append(thread[t].rows, RowsRead(i))
      BY <2>3, DecodeDoes
    <3>2. /\ statements[i].state = "row" /\ statements[i].at # 0
          /\ thread[t].rows = UpTo(statements[i].at - 1)
      BY <2>1, <3>1 DEF RowsFit
    <3>3. statements[i].at \in Nat /\ RowsRead(i) = statements[i].at
      BY <1>3, <3>2, StatementBounds DEF StatementRecord, RowsRead
    <3>4. thread'[t].rows = UpTo(RowsRead(i))
      BY <3>1, <3>2, <3>3, OneMoreRow
    <3>5. statements'[i] = statements[i]
      BY <3>1
    <3> QED BY <3>1, <3>4, <3>5 DEF RowsFit, RowsRead
  <2>4. CASE DecodeThrows(t)
    <3>1. thread'[t].pc = "throwing"
      BY <2>4, ThreadFacts DEF DecodeThrows, Go, ThreadRecord
    <3> QED BY <3>1 DEF RowsFit
  <2> QED BY <2>1, <2>2, <2>3, <2>4
<1>7. ASSUME thread'[t].pc \in Reading PROVE ReaderFits(t)'
  <2>1. result'[thread'[t].select] = result[q] /\ raced' = raced /\ failed' = failed
    BY <1>2, <1>4, <1>7
  <2>2. thread'[t].pc # "closing"
    BY <1>4, <1>7
  <2>3. statements'[thread'[t].statement].state = "finalized" => Disturbed(q)
    BY <1>2, <1>3, <1>4, <1>7 DEF ReaderFits
  <2>4. result[q] = Null \/ q \in raced
    BY <1>2, <1>3, <1>5, <1>7 DEF ReaderFits
  <2> QED BY <1>4, <1>6, <1>7, <2>1, <2>2, <2>3, <2>4 DEF ReaderFits, Disturbed, Finalized
<1>8. \A p \in Select : cursor[p] # 0 /\ IsOpen(cursor[p]) => statements'[cursor[p]].state # "finalized"
  BY <1>2, ThreadFacts DEF IsOpen
<1> QED BY <1>2, <1>4, <1>7, <1>8, UseMoves

(* The cursor that a thread takes over is open and at no row. *)
LEMMA UseReadCursor ==
  ASSUME CallsInv, LocksInv, ReachInv, UseInv, NEW t \in Thread, ReadCursor(t)
  PROVE  UseInv'
<1> DEFINE q == thread[t].select
<1> DEFINE i == cursor[q]
<1>1. /\ OwnStep(t) /\ thread[t].pc = "checked" /\ q \in Select
      /\ UNCHANGED <<statements, cursor, result, raced, failed>>
      /\ \/ i = 0 /\ thread'[t].pc = "idle"
         \/ /\ i # 0 /\ thread'[t].pc = "stepping" /\ thread'[t].statement = i
            /\ thread'[t].select = q /\ thread'[t].rows = thread[t].rows
  BY ReadCursorDoes
<1>2. thread[t].pc \in Reading /\ ReaderFits(t) /\ Alive
  BY <1>1 DEF UseInv, Reading, CallsInv, CrashesTogether, Alive, At
<1>3. ASSUME thread'[t].pc \in Reading PROVE ReaderFits(t)'
  <2>1. /\ i # 0 /\ thread'[t].pc = "stepping" /\ thread'[t].statement = i
        /\ thread'[t].select = q /\ thread'[t].rows = thread[t].rows /\ i \in StatementId
    BY <1>1, <1>3, ThreadFacts DEF Reading
  <2>2. result[q] = Null \/ q \in raced
    BY <1>1, <1>2 DEF ReaderFits
  <2>3. Finalized(i) => Disturbed(q)
    BY <1>1, <2>1, <2>2 DEF UseInv, CursorsAreFresh, Disturbed
  <2>4. ASSUME ~ Disturbed(q) PROVE thread[t].rows = UpTo(RowsRead(i))
    <3>1. thread[t].rows = UpTo(0)
      BY <1>1, <1>2, <2>4, NoRows DEF ReaderFits, RowsFit
    <3>2. statements[i].state # "row"
      <4> SUFFICES ASSUME statements[i].state = "row" PROVE FALSE
        OBVIOUS
      <4>1. PICK u \in Thread : Holds(u, i)
        BY <1>2, <2>1 DEF LocksInv, ReadLocksAreReleased
      <4>2. thread[u].pc \in Holding /\ thread[u].statement = i
        BY <2>1, <4>1, ThreadFacts
      <4>3. thread[u].pc \in Reading
        BY <1>1, <4>2 DEF LocksInv, DriverCallsOwnStatements, Holding
      <4>4. thread[u].select = q /\ u # t
        BY <1>1, <2>1, <4>2 DEF ReachInv, StatementsAreOfTheirSelects, Holding
      <4> QED BY <1>2, <2>4, <4>3, <4>4 DEF UseInv, ReadersRace, Disturbed
    <3> QED BY <3>1, <3>2 DEF RowsRead
  <2>5. statements'[thread'[t].statement] = statements[i]
    BY <1>1, <2>1
  <2>6. ~ Disturbed(q) => RowsFit(t)'
    BY <2>1, <2>4, <2>5 DEF RowsFit, RowsRead
  <2> QED BY <1>1, <2>1, <2>2, <2>3, <2>5, <2>6 DEF ReaderFits, Disturbed, Finalized
<1>4. thread'[t].pc \in Reading => thread'[t].select = q
  BY <1>1 DEF Reading
<1>5. \A p \in Select : cursor[p] # 0 /\ IsOpen(cursor[p]) => statements'[cursor[p]].state # "finalized"
  BY <1>1 DEF IsOpen, Finalized
<1> QED BY <1>1, <1>2, <1>3, <1>4, <1>5, UseMoves

(* The rows that become the result are all of them. *)
LEMMA UseStore ==
  ASSUME CallsInv, LocksInv, ReachInv, UseInv, NEW t \in Thread, Store(t)
  PROVE  UseInv'
<1> DEFINE q == thread[t].select
<1> DEFINE i == thread[t].statement
<1>1. /\ OwnStep(t) /\ thread[t].pc = "storing" /\ q \in Select /\ thread[t].rows \in Seq(0 .. Rows)
      /\ UNCHANGED <<statements, cursor, raced, failed>>
      /\ result' = [result EXCEPT ![q] = thread[t].rows]
      /\ thread'[t].pc = "closing" /\ thread'[t].statement = i /\ thread'[t].select = q
  BY StoreDoes
<1>2. thread[t].pc \in Reading /\ ReaderFits(t)
  BY <1>1 DEF UseInv, Reading
<1>3. result'[q] = thread[t].rows /\ \A p \in Select \ {q} : result'[p] = result[p]
  BY <1>1, ThreadFacts
<1>4. thread[t].rows # Null
  <2>1. thread[t].rows \in Seq(Nat)
    BY <1>1, StatementBounds
  <2> QED BY <2>1, NullAssumption
<1>5. q \notin raced \union failed => thread[t].rows = UpTo(Rows)
  BY <1>1, <1>2 DEF ReaderFits, RowsFit, Disturbed
<1>6. ReaderFits(t)'
  <2>1. RowsFit(t)'
    BY <1>1 DEF RowsFit
  <2> QED BY <1>1, <1>2, <1>3, <1>4, <2>1 DEF ReaderFits, Disturbed, Finalized
<1>7. \A p \in Select : cursor[p] # 0 /\ IsOpen(cursor[p]) => statements'[cursor[p]].state # "finalized"
  BY <1>1 DEF IsOpen, Finalized
<1> QED BY <1>1, <1>2, <1>3, <1>4, <1>5, <1>6, <1>7, UseMoves

(* What is finalized has a result, or is noted. *)
LEMMA UseCloseCursor ==
  ASSUME CallsInv, LocksInv, ReachInv, UseInv, NEW t \in Thread, CloseCursor(t)
  PROVE  UseInv'
<1> DEFINE i == thread[t].statement
<1>1. /\ OwnStep(t) /\ thread[t].pc \in {"closing", "throwing"} /\ thread[t].select \in Select
      /\ i \in StatementId /\ UNCHANGED <<cursor, result, raced>>
      /\ failed' = IF thread[t].pc = "throwing" THEN failed \union {thread[t].select} ELSE failed
      /\ thread'[t].pc = "idle"
      /\ \A j \in StatementId \ {i} : statements'[j] = statements[j]
  BY CloseCursorDoes
<1>2. thread[t].pc \in Reading /\ thread[t].pc \in Holding /\ ReaderFits(t)
  BY <1>1 DEF UseInv, Reading, Holding
<1>3. ASSUME NEW p \in Select, cursor[p] # 0, IsOpen(cursor[p]),
             statements'[cursor[p]].state = "finalized"
      PROVE  result[p] # Null \/ p \in failed'
  <2>1. cursor[p] = i
    BY <1>1, <1>3, ThreadFacts DEF IsOpen, Finalized
  <2>2. p = thread[t].select
    BY <1>2, <1>3, <2>1 DEF ReachInv, StatementsAreOfTheirSelects
  <2>3. CASE thread[t].pc = "throwing"
    BY <1>1, <2>2, <2>3
  <2>4. CASE thread[t].pc = "closing"
    BY <1>2, <2>2, <2>4 DEF ReaderFits
  <2> QED BY <1>1, <2>3, <2>4
<1>4. thread'[t].pc \notin Reading /\ failed \subseteq failed'
  BY <1>1 DEF Reading
<1> QED BY <1>1, <1>3, <1>4, UseMoves

(* The modifying calls touch no cursor. *)
LEMMA UseWriter ==
  ASSUME CallsInv, LocksInv, ReachInv, UseInv, NEW t \in Thread, WriterMoves(t)
  PROVE  UseInv'
<1>1. OwnStep(t) /\ thread[t].pc \in Writing /\ UNCHANGED <<cursor, result, raced, failed>>
      /\ thread'[t].pc \notin Reading
  BY DEF WriterMoves, Writing, Reading
<1>2. \A p \in Select : cursor[p] # 0 /\ IsOpen(cursor[p]) => statements'[cursor[p]].state # "finalized"
  <2> SUFFICES ASSUME NEW p \in Select, cursor[p] # 0, IsOpen(cursor[p])
               PROVE  statements'[cursor[p]].state # "finalized"
    OBVIOUS
  <2>1. cursor[p] \in StatementId /\ cursor[p] # thread[t].statement
    BY <1>1, ThreadFacts DEF LocksInv, DriverCallsOwnStatements
  <2>2. statements'[cursor[p]] = statements[cursor[p]]
    BY <1>1, <2>1 DEF OwnStep, Holds
  <2> QED BY <2>2 DEF IsOpen, Finalized
<1> QED BY <1>1, <1>2, UseMoves

(* A new cursor is open; a thread that still reads the old one is noted.   *)
LEMMA UseBindQuery ==
  ASSUME CallsInv, LocksInv, ReachInv, UseInv, NEW t \in Thread, BindQuery(t)
  PROVE  UseInv'
<1> DEFINE q == thread[t].select
<1> DEFINE n == thread[t].statement
<1>1. /\ OwnStep(t) /\ thread[t].pc = "binding" /\ q \in Select /\ n \in StatementId
      /\ UNCHANGED <<statements, result>>
      /\ cursor' = [cursor EXCEPT ![q] = n]
      /\ raced' = (IF ReadByAnother(t, q) THEN raced \union {q} ELSE raced)
      /\ failed' = (IF result[q] = Null THEN failed \ {q} ELSE failed)
      /\ thread'[t].pc = "idle"
  BY BindQueryDoes
<1>2. cursor'[q] = n /\ \A p \in Select \ {q} : cursor'[p] = cursor[p]
  BY <1>1, ThreadFacts
<1>3. statements[n].state = "ready"
  BY <1>1 DEF LocksInv, BindingIsReady, At
<1>4. /\ raced \subseteq raced' /\ \A p \in Select \ {q} : p \in failed => p \in failed'
      /\ result[q] # Null => failed' = failed
  BY <1>1
<1>5. \A u \in Thread : thread'[u].pc \in Reading => u # t /\ thread'[u] = thread[u]
  BY <1>1 DEF OwnStep, Reading
<1>6. ReadersRace'
  BY <1>4, <1>5 DEF UseInv, ReadersRace
<1>7. CursorsAreFresh'
  <2> SUFFICES ASSUME NEW p \in Select, cursor'[p] # 0, p \notin raced' \union failed',
                      statements[cursor'[p]].state = "finalized"
               PROVE  result[p] # Null
    BY <1>1 DEF CursorsAreFresh, Disturbed, Finalized
  <2>1. p # q
    BY <1>2, <1>3
  <2> QED BY <1>2, <1>4, <2>1 DEF UseInv, CursorsAreFresh, Disturbed, Finalized
<1>8. ResultsAreWhole'
  <2> SUFFICES ASSUME NEW p \in Select, result[p] # Null, p \notin raced' \union failed'
               PROVE  result[p] = UpTo(Rows)
    BY <1>1 DEF ResultsAreWhole, UpTo
  <2> QED BY <1>4 DEF UseInv, ResultsAreWhole, UpTo
<1>9. ASSUME NEW u \in Thread, thread'[u].pc \in Reading PROVE ReaderFits(u)'
  <2>1. u # t /\ thread'[u] = thread[u] /\ thread[u].pc \in Reading /\ ReaderFits(u) /\ thread[u].select \in Select
    BY <1>5, <1>9, ThreadFacts DEF UseInv
  <2>2. thread[u].select = q => thread[u].select \in raced'
    BY <1>1, <2>1 DEF ReadByAnother
  <2>3. thread[u].select # q => (thread[u].select \in failed => thread[u].select \in failed')
    BY <1>4, <2>1
  <2> QED BY <1>1, <1>4, <2>1, <2>2, <2>3, OthersFit
<1> QED BY <1>6, <1>7, <1>8, <1>9 DEF UseInv

(* The start of a call. *)
LEMMA UseStart ==
  ASSUME CallsInv, LocksInv, ReachInv, UseInv, NEW t \in Thread, Start(t)
  PROVE  UseInv'
<1>1. ASSUME NEW q \in Select \union {Null}, Prepare(t, q) PROVE UseInv'
  <2>1. /\ \A u \in Thread \ {t} : thread'[u] = thread[u]
        /\ thread'[t].pc = "binding" /\ UNCHANGED <<cursor, result, raced, failed>>
        /\ \A i \in StatementId : statements'[i] = statements[i]
    BY <1>1, PrepareDoes
  <2>2. \A u \in Thread : thread'[u].pc \in Reading => thread'[u] = thread[u]
    BY <2>1 DEF Reading
  <2>3. ReadersRace'
    BY <2>1, <2>2 DEF UseInv, ReadersRace
  <2>4. CursorsAreFresh' /\ ResultsAreWhole'
    BY <2>1, ThreadFacts DEF UseInv, CursorsAreFresh, ResultsAreWhole, Disturbed, Finalized
  <2>5. ASSUME NEW u \in Thread, thread'[u].pc \in Reading PROVE ReaderFits(u)'
    <3>1. thread'[u] = thread[u] /\ thread[u].pc \in Reading /\ ReaderFits(u) /\ thread[u].select \in Select
      BY <2>2, <2>5, ThreadFacts DEF UseInv
    <3>2. thread[u].pc # "checked" => thread[u].statement \in StatementId
      BY <3>1, ThreadFacts DEF Holding
    <3> QED BY <2>1, <3>1, <3>2, OthersFit
  <2> QED BY <2>3, <2>4, <2>5 DEF UseInv
<1>2. ASSUME NEW q \in Select, ReadResult(t, q) PROVE UseInv'
  <2>1. /\ \A u \in Thread \ {t} : thread'[u] = thread[u]
        /\ result[q] = Null /\ UNCHANGED <<statements, cursor, result, failed>>
        /\ raced' = (IF ReadByAnother(t, q) THEN raced \union {q} ELSE raced)
        /\ thread'[t].pc = "checked" /\ thread'[t].select = q /\ thread'[t].rows = <<>>
    BY <1>2, ReadResultDoes
  <2>2. raced \subseteq raced'
    BY <2>1
  <2>3. \A u \in Thread \ {t} : thread[u].pc \in Reading /\ thread[u].select = q => q \in raced'
    BY <2>1 DEF ReadByAnother
  <2>4. ReadersRace'
    <3> SUFFICES ASSUME NEW u \in Thread, NEW v \in Thread, u # v,
                        thread'[u].pc \in Reading, thread'[v].pc \in Reading,
                        thread'[u].select = thread'[v].select
                 PROVE  thread'[u].select \in raced'
      BY DEF ReadersRace
    <3>1. CASE u # t /\ v # t
      BY <2>1, <2>2, <3>1 DEF UseInv, ReadersRace
    <3>2. CASE u = t
      BY <2>1, <2>3, <3>2
    <3>3. CASE v = t
      BY <2>1, <2>3, <3>3
    <3> QED BY <3>1, <3>2, <3>3
  <2>5. CursorsAreFresh' /\ ResultsAreWhole'
    BY <2>1, <2>2 DEF UseInv, CursorsAreFresh, ResultsAreWhole, Disturbed, Finalized
  <2>6. ASSUME NEW u \in Thread, thread'[u].pc \in Reading PROVE ReaderFits(u)'
    <3>1. CASE u = t
      BY <2>1, <3>1 DEF ReaderFits, RowsFit
    <3>2. CASE u # t
      <4>1. thread'[u] = thread[u] /\ thread[u].pc \in Reading /\ ReaderFits(u)
        BY <2>1, <2>6, <3>2 DEF UseInv
      <4> QED BY <2>1, <2>2, <4>1, OthersFit
    <3> QED BY <3>1, <3>2
  <2> QED BY <2>4, <2>5, <2>6 DEF UseInv
<1>3. CASE Close(t)
  BY <1>3 DEF Close, history, UseInv, ReadersRace, CursorsAreFresh, ResultsAreWhole, ReaderFits, RowsFit,
     RowsRead, Disturbed, Finalized
<1> QED BY <1>1, <1>2, <1>3 DEF Start

(* Every step keeps the invariant. *)
LEMMA UseStep == CallsInv /\ LocksInv /\ ReachInv /\ UseInv /\ [Next]_vars => UseInv'
<1> SUFFICES ASSUME CallsInv, LocksInv, ReachInv, UseInv, [Next]_vars PROVE UseInv'
  OBVIOUS
<1>1. ASSUME NEW t \in Thread, Continue(t) PROVE UseInv'
  <2>1. CASE Crash(t)
    <3>1. /\ UNCHANGED <<statements, cursor, result, raced, failed>>
          /\ \A u \in Thread : thread'[u].pc \notin Reading
      BY <2>1 DEF Crash, Idle, history, Reading
    <3> QED BY <3>1 DEF UseInv, ReadersRace, CursorsAreFresh, ResultsAreWhole, Disturbed, Finalized
  <2> QED BY <1>1, <2>1, WriterSteps, UseWriter, UseReader, UseReadCursor, UseStore, UseCloseCursor,
           UseBindQuery DEF Continue
<1>2. CASE Lock \/ Unlock \/ UNCHANGED vars
  <2>1. UNCHANGED <<statements, cursor, result, thread, raced, failed>>
    BY <1>2 DEF Lock, Unlock, vars, history
  <2> QED BY <2>1 DEF UseInv, ReadersRace, CursorsAreFresh, ResultsAreWhole, ReaderFits, RowsFit, RowsRead,
             Disturbed, Finalized
<1> QED BY <1>1, <1>2, UseStart DEF Next

(* At the start there is nothing to use. *)
LEMMA UseInit == Init => UseInv
BY DEF Init, Idle, UseInv, ReadersRace, CursorsAreFresh, ResultsAreWhole, Reading

(* At the start nothing is out of reach, or locked. *)
LEMMA ReachAndLocksInit == Init => LocksInv /\ ReachInv
BY DEF Init, Idle, LocksInv, DriverCallsOwnStatements, BindingIsReady, ReadLocksAreReleased,
   ReachInv, StatementsAreOfTheirSelects, ResultsHaveCursors, OpenStatementsAreReachable,
   StatementId, At, Holding, Reading, Writing

(* No thread steps, reads or finalizes a finalized statement but one that  *)
(* reads a SELECT together with another thread or after a getResults that  *)
(* threw: neither calls on other statements nor another execute get there. *)
THEOREM FinalizedStatementsAreNotUsed == Spec => []OnlyOpenStatementsAreUsed
<1>1. UseInv => OnlyOpenStatementsAreUsed
  BY DEF UseInv, OnlyOpenStatementsAreUsed, UsesFinalized, ReaderFits, Disturbed, Reading
<1> QED BY CallsInit, CallsStep, ReachAndLocksInit, LocksStep, ReachStep, UseInit, UseStep, <1>1, PTL DEF Spec

(* What getResults keeps as the result is every row of the query, once and *)
(* in order, whatever was busy, failed or ran in between, unless two       *)
(* threads read at once or the cursor is that of a getResults that threw.  *)
THEOREM ResultsStayWhole == Spec => []ResultsAreWhole
<1>1. UseInv => ResultsAreWhole
  BY DEF UseInv
<1> QED BY CallsInit, CallsStep, ReachAndLocksInit, LocksStep, ReachStep, UseInit, UseStep, <1>1, PTL DEF Spec
=============================================================================
