----------------------- MODULE NativeConnectionProofs -----------------------
(***************************************************************************)
(* Proofs about NativeConnection, for every set of threads and writes.     *)
(* The invariant of NativeConnectionInvariant is proved in its layers:     *)
(* types; then, if no statement rolls a transaction back on its own, who   *)
(* owns the transaction; then, without any fault, the transaction record,  *)
(* and where the clients' writes are.                                      *)
(***************************************************************************)
EXTENDS NativeConnectionInvariant, TLAPS

USE DEF Free, Destroyed

(* What a call of the driver does to a session is again a session.         *)
LEMMA OutcomesTyped ==
  ASSUME NEW s \in Session
  PROVE  /\ RolledBack(s) \in Session
         /\ Fails(s) \in Outcome
         /\ \A o \in BeginOutcomes(s) \union CommitOutcomes(s) \union RollbackOutcomes(s) :
              o \in Outcome
         /\ \A w \in Write : \A o \in ExecOutcomes(s, w) : o \in Outcome
<1>1. RolledBack(s) \in Session /\ Committed(s) \in Session
  BY DEF Session, RolledBack, Committed
<1>2. ASSUME NEW w \in Write
      PROVE  /\ [s EXCEPT !.work = @ \union {w}] \in Session
             /\ [s EXCEPT !.durable = @ \union {w}] \in Session
  BY DEF Session
<1>3. [s EXCEPT !.inTransaction = TRUE, !.work = {}] \in Session
  BY DEF Session
<1>4. ASSUME NEW r \in Session
      PROVE  Succeeds(r) \in Outcome /\ Fails(r) \in Outcome
  BY DEF Succeeds, Fails, Outcome
<1>5. \A o \in BeginOutcomes(s) : o \in Outcome
  BY <1>3, <1>4 DEF BeginOutcomes
<1>6. \A o \in CommitOutcomes(s) \union RollbackOutcomes(s) : o \in Outcome
  BY <1>1, <1>4 DEF CommitOutcomes, RollbackOutcomes
<1>7. ASSUME NEW w \in Write
      PROVE  \A o \in ExecOutcomes(s, w) : o \in Outcome
  BY <1>1, <1>2, <1>4 DEF ExecOutcomes
<1> QED BY <1>1, <1>4, <1>5, <1>6, <1>7

(* endTransaction, whatever the record says, leaves a session.             *)
LEMMA EndOutcomesTyped ==
  ASSUME session \in Session, transaction \in Transaction
  PROVE  \A o \in EndOutcomes : o \in Outcome
<1>1. CASE transaction = "null"
  BY <1>1, OutcomesTyped DEF EndOutcomes
<1>2. CASE transaction = "started"
  BY <1>2, OutcomesTyped DEF EndOutcomes
<1>3. CASE transaction = "successful"
  BY <1>3, OutcomesTyped DEF EndOutcomes
<1> QED BY <1>1, <1>2, <1>3 DEF Transaction

-----------------------------------------------------------------------------
(* Layer 1: types *)

(* Every variable starts with a value of its type.                         *)
LEMMA TypeInit == Init => TypeInv
<1> SUFFICES ASSUME Init PROVE TypeInv
  OBVIOUS
<1>1. session \in Session
  BY DEF Init, EmptySession, Session
<1>2. TypeOK
  BY <1>1 DEF Init, TypeOK, Transaction, Lock, Phase, Place, Fate
<1>3. ArgumentOK
  BY DEF Init, ArgumentOK, WriteCalls
<1> QED BY <1>2, <1>3 DEF TypeInv

(* No step inside a call of the connection leaves the types. *)
LEMMA TypeConnectionStep ==
  ASSUME TypeInv, NEW t \in Thread, ConnectionStep(t)
  PROVE  TypeInv'
<1> USE DEF TypeInv, TypeOK, ArgumentOK, Transaction, Lock, Phase, Place, Fate,
            WriteCalls, TransactionCalls, EndPhases,
            connectionVars, lockVars, clientVars, Move
<1>1. CASE AcquireAccess(t)
  BY <1>1 DEF AcquireAccess
<1>2. CASE AcquireTransaction(t)
  BY <1>2 DEF AcquireTransaction
<1>3. CASE Exec(t)
  BY <1>3, OutcomesTyped DEF Exec, Outcome
<1>4. CASE BeginSql(t)
  BY <1>4, OutcomesTyped DEF BeginSql, Outcome
<1>5. CASE BeginRecord(t)
  BY <1>5 DEF BeginRecord
<1>6. CASE SetSuccessful(t)
  BY <1>6 DEF SetSuccessful
<1>7. CASE EndSql(t)
  BY <1>7, EndOutcomesTyped DEF EndSql, Outcome
<1>8. CASE EndRecord(t)
  BY <1>8 DEF EndRecord
<1>9. CASE CloseSql(t)
  BY <1>9, OutcomesTyped DEF CloseSql
<1>10. CASE LeaveTransaction(t)
  BY <1>10 DEF LeaveTransaction
<1>11. CASE BeginReturns(t)
  BY <1>11 DEF BeginReturns, Release, BackTo
<1>12. CASE SingleWriteReturns(t)
  BY <1>12 DEF SingleWriteReturns, Release, BackTo, Tell, Forget
<1>13. CASE BlockWriteReturns(t)
  BY <1>13 DEF BlockWriteReturns, Release, BackTo, Tell, Forget
<1>14. CASE BlockWriteThrows(t)
  BY <1>14 DEF BlockWriteThrows, Release, BackTo, Tell, Forget, Call
<1>15. CASE SetSuccessfulReturns(t)
  BY <1>15 DEF SetSuccessfulReturns, Release, Call
<1>16. CASE EndReturns(t)
  BY <1>16 DEF EndReturns, Release, BackTo, Tell
<1>17. CASE CloseReturns(t)
  BY <1>17 DEF CloseReturns, Release, BackTo
<1> QED
  BY <1>1, <1>2, <1>3, <1>4, <1>5, <1>6, <1>7, <1>8, <1>9, <1>10, <1>11,
     <1>12, <1>13, <1>14, <1>15, <1>16, <1>17 DEF ConnectionStep

(* Nor does starting a call, or going on in a block. *)
LEMMA TypeClientStep ==
  ASSUME TypeInv, NEW t \in Thread, ClientStep(t)
  PROVE  TypeInv'
<1> USE DEF TypeInv, TypeOK, ArgumentOK, Lock, Phase, Place, Fate,
            WriteCalls, TransactionCalls, EndPhases,
            connectionVars, lockVars, Call
<1>1. CASE StartTransaction(t)
  BY <1>1 DEF StartTransaction
<1>2. ASSUME NEW w \in Write, StartWrite(t, w) PROVE TypeInv'
  BY <1>2 DEF StartWrite, CallWrite
<1>3. ASSUME NEW w \in Write, WriteInBlock(t, w) PROVE TypeInv'
  BY <1>3 DEF WriteInBlock, CallWrite
<1>4. CASE ReturnFromBlock(t)
  BY <1>4 DEF ReturnFromBlock
<1>5. CASE ThrowInBlock(t)
  BY <1>5 DEF ThrowInBlock
<1>6. CASE StartClose(t)
  BY <1>6 DEF StartClose
<1> QED
  BY <1>1, <1>2, <1>3, <1>4, <1>5, <1>6 DEF ClientStep, BlockEnds

(* Every variable keeps its type, and a call that writes carries a write,  *)
(* whatever faults there are and however many threads share a connection.  *)
THEOREM TypeCorrect == Spec => []TypeOK
<1>1. TypeInv /\ [Next]_vars => TypeInv'
  <2> SUFFICES ASSUME TypeInv, [Next]_vars PROVE TypeInv'
    OBVIOUS
  <2>1. CASE Next
    <3>1. CASE Finished
      BY <3>1 DEF Finished, vars, connectionVars, lockVars, clientVars, TypeInv, TypeOK, ArgumentOK
    <3> QED BY <2>1, <3>1, TypeConnectionStep, TypeClientStep DEF Next
  <2>2. CASE UNCHANGED vars
    BY <2>2 DEF vars, connectionVars, lockVars, clientVars, TypeInv, TypeOK, ArgumentOK
  <2> QED BY <2>1, <2>2
<1>2. TypeInv => TypeOK
  BY DEF TypeInv
<1> QED BY TypeInit, <1>1, <1>2, PTL DEF Spec

-----------------------------------------------------------------------------
(* Layer 2: who owns the transaction, when no failing statement rolls it   *)
(* back on its own                                                         *)

NoAutoRollback == "autoRollback" \notin Faults

(* A statement neither opens nor closes a transaction.                     *)
LEMMA ExecKeepsTransaction ==
  ASSUME NoAutoRollback, NEW s \in Session, NEW w, NEW o \in ExecOutcomes(s, w)
  PROVE  o.session.inTransaction = s.inTransaction
BY DEF NoAutoRollback, ExecOutcomes, Succeeds, Fails, Session

(* BEGIN succeeds exactly outside a transaction, and then opens one.       *)
LEMMA BeginOpens ==
  ASSUME NEW s \in Session, NEW o \in BeginOutcomes(s)
  PROVE  /\ s.inTransaction => o.ok = FALSE /\ o.session = s
         /\ ~s.inTransaction => /\ o.ok = TRUE
                                /\ o.session.inTransaction = TRUE
                                /\ o.session.work = {}
                                /\ o.session.durable = s.durable
<1>1. CASE s.inTransaction
  BY <1>1 DEF BeginOutcomes, Fails
<1>2. CASE ~s.inTransaction
  <2> DEFINE r == [s EXCEPT !.inTransaction = TRUE, !.work = {}]
  <2>1. r.inTransaction = TRUE /\ r.work = {} /\ r.durable = s.durable
    BY DEF Session
  <2>2. o = Succeeds(r)
    BY <1>2 DEF BeginOutcomes
  <2>3. o.ok = TRUE /\ o.session = r
    BY <2>2 DEF Succeeds
  <2> HIDE DEF r
  <2> QED BY <1>2, <2>1, <2>3
<1> QED BY <1>1, <1>2

(* BeginSql either goes on to the record or throws with nothing changed.   *)
BeginRefused(t) ==
  /\ session.inTransaction = TRUE
  /\ session' = session
  /\ thrown' = [thrown EXCEPT ![t] = TRUE]
  /\ Move(t, "sql", "leaveTransaction")

BeginDone(t) ==
  /\ session.inTransaction = FALSE
  /\ session'.inTransaction = TRUE
  /\ session'.work = {}
  /\ session'.durable = session.durable
  /\ thrown' = [thrown EXCEPT ![t] = FALSE]
  /\ Move(t, "sql", "record")

(* The two ways beginTransaction comes out of its BEGIN. *)
LEMMA BeginSqlCases ==
  ASSUME session \in Session, NEW t \in Thread, BeginSql(t)
  PROVE  BeginRefused(t) \/ BeginDone(t)
<1>1. PICK o \in BeginOutcomes(session) :
        /\ session' = o.session
        /\ thrown' = [thrown EXCEPT ![t] = ~o.ok]
        /\ Move(t, "sql", IF o.ok THEN "record" ELSE "leaveTransaction")
  BY DEF BeginSql
<1>2. CASE session.inTransaction
  <2>1. o.ok = FALSE /\ o.session = session
    BY <1>2, BeginOpens
  <2> QED BY <1>1, <1>2, <2>1 DEF BeginRefused, Session
<1>3. CASE ~session.inTransaction
  <2>1. /\ o.ok = TRUE
        /\ o.session.inTransaction = TRUE
        /\ o.session.work = {}
        /\ o.session.durable = session.durable
    BY <1>3, BeginOpens
  <2> QED BY <1>1, <1>3, <2>1 DEF BeginDone, Session
<1> QED BY <1>2, <1>3

(* A call goes through its places in order, and close() stays the last call. *)
LEMMA PlaceConnectionStep ==
  ASSUME TypeInv, PlacesFitPhases, CloseIsLast, NEW t \in Thread, ConnectionStep(t)
  PROVE  PlacesFitPhases' /\ CloseIsLast'
<1> USE DEF TypeInv, TypeOK, PlacesFitPhases, CloseIsLast, Phase, Place,
            WriteCalls, TransactionCalls, EndPhases,
            connectionVars, lockVars, clientVars, Move
<1>1. CASE AcquireAccess(t)
  BY <1>1 DEF AcquireAccess
<1>2. CASE AcquireTransaction(t)
  BY <1>2 DEF AcquireTransaction
<1>3. CASE Exec(t)
  BY <1>3 DEF Exec
<1>4. CASE BeginSql(t)
  BY <1>4 DEF BeginSql
<1>5. CASE BeginRecord(t)
  BY <1>5 DEF BeginRecord
<1>6. CASE SetSuccessful(t)
  BY <1>6 DEF SetSuccessful
<1>7. CASE EndSql(t)
  BY <1>7 DEF EndSql
<1>8. CASE EndRecord(t)
  BY <1>8 DEF EndRecord
<1>9. CASE CloseSql(t)
  BY <1>9 DEF CloseSql
<1>10. CASE LeaveTransaction(t)
  BY <1>10 DEF LeaveTransaction
<1>11. CASE BeginReturns(t)
  BY <1>11 DEF BeginReturns, Release, BackTo
<1>12. CASE SingleWriteReturns(t)
  BY <1>12 DEF SingleWriteReturns, Release, BackTo, Tell, Forget
<1>13. CASE BlockWriteReturns(t)
  BY <1>13 DEF BlockWriteReturns, Release, BackTo, Tell, Forget
<1>14. CASE BlockWriteThrows(t)
  BY <1>14 DEF BlockWriteThrows, Release, BackTo, Tell, Forget, Call
<1>15. CASE SetSuccessfulReturns(t)
  BY <1>15 DEF SetSuccessfulReturns, Release, Call
<1>16. CASE EndReturns(t)
  BY <1>16 DEF EndReturns, Release, BackTo, Tell
<1>17. CASE CloseReturns(t)
  BY <1>17 DEF CloseReturns, Release, BackTo
<1> QED
  BY <1>1, <1>2, <1>3, <1>4, <1>5, <1>6, <1>7, <1>8, <1>9, <1>10, <1>11,
     <1>12, <1>13, <1>14, <1>15, <1>16, <1>17 DEF ConnectionStep

(* The next call starts at its first place, and never after close(). *)
LEMMA PlaceClientStep ==
  ASSUME TypeInv, PlacesFitPhases, CloseIsLast, NEW t \in Thread, ClientStep(t)
  PROVE  PlacesFitPhases' /\ CloseIsLast'
<1> USE DEF TypeInv, TypeOK, PlacesFitPhases, CloseIsLast, Phase, Place,
            WriteCalls, TransactionCalls, EndPhases,
            connectionVars, lockVars, Call
<1>1. CASE StartTransaction(t)
  BY <1>1 DEF StartTransaction, MayStart
<1>2. ASSUME NEW w \in Write, StartWrite(t, w) PROVE PlacesFitPhases' /\ CloseIsLast'
  BY <1>2 DEF StartWrite, CallWrite, MayStart
<1>3. ASSUME NEW w \in Write, WriteInBlock(t, w) PROVE PlacesFitPhases' /\ CloseIsLast'
  BY <1>3 DEF WriteInBlock, CallWrite
<1>4. CASE ReturnFromBlock(t)
  BY <1>4 DEF ReturnFromBlock
<1>5. CASE ThrowInBlock(t)
  BY <1>5 DEF ThrowInBlock
<1>6. CASE StartClose(t)
  BY <1>6 DEF StartClose
<1> QED
  BY <1>1, <1>2, <1>3, <1>4, <1>5, <1>6 DEF ClientStep, BlockEnds

(* Only BEGIN makes an owner, and SQLite refuses it while there is one. *)
LEMMA OwnerConnectionStep ==
  ASSUME NoAutoRollback, OwnerInv, NEW t \in Thread, ConnectionStep(t)
  PROVE  OwnerHasSession' /\ OneTransaction'
<1> USE DEF OwnerInv, TypeInv, TypeOK, PlacesFitPhases, CloseIsLast,
            OwnerHasSession, OneTransaction, OwnsTransaction, Phase, Place,
            WriteCalls, TransactionCalls, EndPhases,
            connectionVars, lockVars, clientVars, Move
<1>1. CASE AcquireAccess(t)
  BY <1>1 DEF AcquireAccess
<1>2. CASE AcquireTransaction(t)
  BY <1>2 DEF AcquireTransaction
<1>3. CASE Exec(t)
  BY <1>3, ExecKeepsTransaction DEF Exec
<1>4. CASE BeginSql(t)
  <2>1. CASE BeginRefused(t)
    BY <1>4, <2>1 DEF BeginSql, BeginRefused
  <2>2. CASE BeginDone(t)
    BY <1>4, <2>2 DEF BeginSql, BeginDone
  <2> QED BY <1>4, <2>1, <2>2, BeginSqlCases
<1>5. CASE BeginRecord(t)
  BY <1>5 DEF BeginRecord
<1>6. CASE SetSuccessful(t)
  BY <1>6 DEF SetSuccessful
<1>7. CASE EndSql(t)
  BY <1>7 DEF EndSql
<1>8. CASE EndRecord(t)
  BY <1>8 DEF EndRecord
<1>9. CASE CloseSql(t)
  BY <1>9 DEF CloseSql
<1>10. CASE LeaveTransaction(t)
  BY <1>10 DEF LeaveTransaction
<1>11. CASE BeginReturns(t)
  BY <1>11 DEF BeginReturns, Release, BackTo
<1>12. CASE SingleWriteReturns(t)
  BY <1>12 DEF SingleWriteReturns, Release, BackTo, Tell, Forget
<1>13. CASE BlockWriteReturns(t)
  BY <1>13 DEF BlockWriteReturns, Release, BackTo, Tell, Forget
<1>14. CASE BlockWriteThrows(t)
  BY <1>14 DEF BlockWriteThrows, Release, BackTo, Tell, Forget, Call
<1>15. CASE SetSuccessfulReturns(t)
  BY <1>15 DEF SetSuccessfulReturns, Release, Call
<1>16. CASE EndReturns(t)
  BY <1>16 DEF EndReturns, Release, BackTo, Tell
<1>17. CASE CloseReturns(t)
  BY <1>17 DEF CloseReturns, Release, BackTo
<1> QED
  BY <1>1, <1>2, <1>3, <1>4, <1>5, <1>6, <1>7, <1>8, <1>9, <1>10, <1>11,
     <1>12, <1>13, <1>14, <1>15, <1>16, <1>17 DEF ConnectionStep

(* Between its calls a thread keeps what it owns. *)
LEMMA OwnerClientStep ==
  ASSUME OwnerInv, NEW t \in Thread, ClientStep(t)
  PROVE  OwnerHasSession' /\ OneTransaction'
<1> USE DEF OwnerInv, TypeInv, TypeOK, PlacesFitPhases,
            OwnerHasSession, OneTransaction, OwnsTransaction, Phase, Place,
            WriteCalls, TransactionCalls, EndPhases,
            connectionVars, lockVars, Call
<1>1. CASE StartTransaction(t)
  BY <1>1 DEF StartTransaction, MayStart
<1>2. ASSUME NEW w \in Write, StartWrite(t, w) PROVE OwnerHasSession' /\ OneTransaction'
  BY <1>2 DEF StartWrite, CallWrite, MayStart
<1>3. ASSUME NEW w \in Write, WriteInBlock(t, w) PROVE OwnerHasSession' /\ OneTransaction'
  BY <1>3 DEF WriteInBlock, CallWrite
<1>4. CASE ReturnFromBlock(t)
  BY <1>4 DEF ReturnFromBlock
<1>5. CASE ThrowInBlock(t)
  BY <1>5 DEF ThrowInBlock
<1>6. CASE StartClose(t)
  BY <1>6 DEF StartClose
<1> QED
  BY <1>1, <1>2, <1>3, <1>4, <1>5, <1>6 DEF ClientStep, BlockEnds

(* No failing statement rolling the transaction back, a step keeps owners. *)
LEMMA OwnerStep ==
  ASSUME NoAutoRollback, OwnerInv, [Next]_vars
  PROVE  OwnerInv'
<1>1. ASSUME NEW t \in Thread, ConnectionStep(t) PROVE OwnerInv'
  BY <1>1, TypeConnectionStep, PlaceConnectionStep, OwnerConnectionStep DEF OwnerInv
<1>2. ASSUME NEW t \in Thread, ClientStep(t) PROVE OwnerInv'
  BY <1>2, TypeClientStep, PlaceClientStep, OwnerClientStep DEF OwnerInv
<1>3. CASE UNCHANGED vars
  BY <1>3 DEF vars, connectionVars, lockVars, clientVars, OwnerInv, TypeInv, TypeOK,
     ArgumentOK, PlacesFitPhases, CloseIsLast, OwnerHasSession, OneTransaction, OwnsTransaction
<1> QED BY <1>1, <1>2, <1>3 DEF Next, Finished

(* No failing statement rolling the transaction back on its own, blocks of *)
(* withTransaction never overlap on a connection, whatever threads do.     *)
THEOREM TransactionsDoNotOverlap ==
  ASSUME NoAutoRollback
  PROVE  Spec => []OneTransaction
<1>1. Init => OwnerInv
  <2> SUFFICES ASSUME Init PROVE OwnerInv
    OBVIOUS
  <2>1. PlacesFitPhases /\ CloseIsLast
    BY DEF Init, PlacesFitPhases, CloseIsLast, TransactionCalls, EndPhases
  <2>2. \A t \in Thread : ~OwnsTransaction(t)
    BY DEF Init, OwnsTransaction, EndPhases
  <2> QED BY <2>1, <2>2, TypeInit DEF OwnerInv, OwnerHasSession, OneTransaction
<1>2. OwnerInv /\ [Next]_vars => OwnerInv'
  BY OwnerStep
<1>3. OwnerInv => OneTransaction
  BY DEF OwnerInv
<1> QED BY <1>1, <1>2, <1>3, PTL DEF Spec

-----------------------------------------------------------------------------
(* Layer 3: the transaction record, when SQLite fails none of the ways     *)
(* Faults names                                                            *)

NoFaults == Faults = {}

(* An automatic rollback is one of the faults. *)
LEMMA NoFaultsNoAutoRollback == NoFaults => NoAutoRollback
BY DEF NoFaults, NoAutoRollback

(* What COMMIT and ROLLBACK leave, field by field. *)
LEMMA SessionFields ==
  ASSUME NEW s \in Session
  PROVE  /\ RolledBack(s).inTransaction = FALSE
         /\ RolledBack(s).work = {}
         /\ RolledBack(s).durable = s.durable
         /\ Committed(s).inTransaction = FALSE
         /\ Committed(s).work = {}
         /\ Committed(s).durable = s.durable \union s.work
BY DEF Session, RolledBack, Committed

(* The COMMIT or ROLLBACK that the record calls for ends the transaction.  *)
LEMMA EndCloses ==
  ASSUME NoFaults, session \in Session, session.inTransaction = TRUE,
         transaction \in {"started", "successful"}, NEW o \in EndOutcomes
  PROVE  /\ o.ok = TRUE
         /\ transaction = "started" => o.session = RolledBack(session)
         /\ transaction = "successful" => o.session = Committed(session)
<1>1. CASE transaction = "started"
  <2>1. o = Succeeds(RolledBack(session))
    BY <1>1 DEF EndOutcomes, RollbackOutcomes
  <2> QED BY <1>1, <2>1 DEF Succeeds
<1>2. CASE transaction = "successful"
  <2>1. o = Succeeds(Committed(session))
    BY <1>2 DEF EndOutcomes, CommitOutcomes, NoFaults
  <2> QED BY <1>2, <2>1 DEF Succeeds
<1> QED BY <1>1, <1>2

(* So EndSql does not throw, and goes on to clear the record. *)
EndDone(t) ==
  /\ session'.inTransaction = FALSE
  /\ session'.work = {}
  /\ session'.durable = IF transaction = "successful"
                         THEN session.durable \union session.work
                         ELSE session.durable
  /\ thrown' = [thrown EXCEPT ![t] = FALSE]

(* The step that runs COMMIT or ROLLBACK takes that outcome. *)
LEMMA EndSqlEnds ==
  ASSUME NoFaults, session \in Session, session.inTransaction = TRUE,
         transaction \in {"started", "successful"}, NEW t \in Thread, EndSql(t)
  PROVE  EndDone(t)
<1>1. PICK o \in EndOutcomes :
        session' = o.session /\ thrown' = [thrown EXCEPT ![t] = ~o.ok]
  BY DEF EndSql
<1>2. o.ok = TRUE
  BY EndCloses
<1>3. CASE transaction = "started"
  <2>1. session' = RolledBack(session)
    BY <1>1, <1>3, EndCloses
  <2> QED BY <1>1, <1>2, <1>3, <2>1, SessionFields DEF EndDone
<1>4. CASE transaction = "successful"
  <2>1. session' = Committed(session)
    BY <1>1, <1>4, EndCloses
  <2> QED BY <1>1, <1>2, <1>4, <2>1, SessionFields DEF EndDone
<1> QED BY <1>3, <1>4

(* A thread past the acquisition of a lock holds it, at every step of a call. *)
LEMMA LockConnectionStep ==
  ASSUME TypeInv, PlacesFitPhases, CloseIsLast, LocksAreHeld,
         NEW t \in Thread, ConnectionStep(t)
  PROVE  LocksAreHeld'
<1> USE ThreadAssumption DEF TypeInv, TypeOK, PlacesFitPhases, CloseIsLast,
            LocksAreHeld, InsideTransactionLock, Phase, Place, Lock,
            WriteCalls, TransactionCalls, EndPhases,
            connectionVars, lockVars, clientVars, Move
<1>1. CASE AcquireAccess(t)
  BY <1>1 DEF AcquireAccess
<1>2. CASE AcquireTransaction(t)
  BY <1>2 DEF AcquireTransaction
<1>3. CASE Exec(t)
  BY <1>3 DEF Exec
<1>4. CASE BeginSql(t)
  BY <1>4 DEF BeginSql
<1>5. CASE BeginRecord(t)
  BY <1>5 DEF BeginRecord
<1>6. CASE SetSuccessful(t)
  BY <1>6 DEF SetSuccessful
<1>7. CASE EndSql(t)
  BY <1>7 DEF EndSql
<1>8. CASE EndRecord(t)
  BY <1>8 DEF EndRecord
<1>9. CASE CloseSql(t)
  BY <1>9 DEF CloseSql
<1>10. CASE LeaveTransaction(t)
  BY <1>10 DEF LeaveTransaction
<1>11. CASE BeginReturns(t)
  BY <1>11 DEF BeginReturns, Release, BackTo
<1>12. CASE SingleWriteReturns(t)
  BY <1>12 DEF SingleWriteReturns, Release, BackTo, Tell, Forget
<1>13. CASE BlockWriteReturns(t)
  BY <1>13 DEF BlockWriteReturns, Release, BackTo, Tell, Forget
<1>14. CASE BlockWriteThrows(t)
  BY <1>14 DEF BlockWriteThrows, Release, BackTo, Tell, Forget, Call
<1>15. CASE SetSuccessfulReturns(t)
  BY <1>15 DEF SetSuccessfulReturns, Release, Call
<1>16. CASE EndReturns(t)
  BY <1>16 DEF EndReturns, Release, BackTo, Tell
<1>17. CASE CloseReturns(t)
  BY <1>17 DEF CloseReturns, Release, BackTo
<1> QED
  BY <1>1, <1>2, <1>3, <1>4, <1>5, <1>6, <1>7, <1>8, <1>9, <1>10, <1>11,
     <1>12, <1>13, <1>14, <1>15, <1>16, <1>17 DEF ConnectionStep

(* No thread starts or leaves a call holding a lock. *)
LEMMA LockClientStep ==
  ASSUME TypeInv, PlacesFitPhases, LocksAreHeld, NEW t \in Thread, ClientStep(t)
  PROVE  LocksAreHeld'
<1> USE DEF TypeInv, TypeOK, PlacesFitPhases, LocksAreHeld, InsideTransactionLock,
            Phase, Place, WriteCalls, TransactionCalls, EndPhases,
            connectionVars, lockVars, Call
<1>1. CASE StartTransaction(t)
  BY <1>1 DEF StartTransaction, MayStart
<1>2. ASSUME NEW w \in Write, StartWrite(t, w) PROVE LocksAreHeld'
  BY <1>2 DEF StartWrite, CallWrite, MayStart
<1>3. ASSUME NEW w \in Write, WriteInBlock(t, w) PROVE LocksAreHeld'
  BY <1>3 DEF WriteInBlock, CallWrite
<1>4. CASE ReturnFromBlock(t)
  BY <1>4 DEF ReturnFromBlock
<1>5. CASE ThrowInBlock(t)
  BY <1>5 DEF ThrowInBlock
<1>6. CASE StartClose(t)
  BY <1>6 DEF StartClose
<1> QED
  BY <1>1, <1>2, <1>3, <1>4, <1>5, <1>6 DEF ClientStep, BlockEnds

RecordParts ==
  /\ SessionHasOwner
  /\ RecordOfOwner /\ RecordHasOwner
  /\ EndingHasNoSession /\ EndsDoNotThrow

(* Each step of a call keeps the record and the session in agreement. *)
LEMMA RecordConnectionStep ==
  ASSUME NoFaults, RecordInv, NEW t \in Thread, ConnectionStep(t)
  PROVE  RecordParts'
<1> USE DEF RecordInv, OwnerInv, TypeInv, TypeOK, PlacesFitPhases, CloseIsLast,
            OwnerHasSession, OneTransaction, OwnsTransaction,
            LocksAreHeld, InsideTransactionLock, RecordParts, SessionHasOwner,
            RecordOfOwner, RecordHasOwner, EndingHasNoSession, EndsDoNotThrow,
            BeforeRecord, EndingRecord, Marked, Phase, Place, Transaction,
            WriteCalls, TransactionCalls, EndPhases,
            connectionVars, lockVars, clientVars, Move
<1>1. CASE AcquireAccess(t)
  BY <1>1 DEF AcquireAccess
<1>2. CASE AcquireTransaction(t)
  BY <1>2 DEF AcquireTransaction
<1>3. CASE Exec(t)
  BY <1>3, ExecKeepsTransaction, NoFaultsNoAutoRollback DEF Exec
<1>4. CASE BeginSql(t)
  <2>1. CASE BeginRefused(t)
    BY <1>4, <2>1 DEF BeginSql, BeginRefused
  <2>2. CASE BeginDone(t)
    BY <1>4, <2>2 DEF BeginSql, BeginDone
  <2> QED BY <1>4, <2>1, <2>2, BeginSqlCases
<1>5. CASE BeginRecord(t)
  <2>1. OwnsTransaction(t)
    BY <1>5 DEF BeginRecord, BeforeRecord
  <2>2. RecordOfOwner'
    BY <1>5, <2>1 DEF BeginRecord
  <2>3. RecordHasOwner'
    BY <1>5, <2>1 DEF BeginRecord
  <2>4. SessionHasOwner' /\ EndingHasNoSession' /\ EndsDoNotThrow'
    BY <1>5 DEF BeginRecord
  <2> QED BY <2>2, <2>3, <2>4
<1>6. CASE SetSuccessful(t)
  BY <1>6 DEF SetSuccessful
<1>7. CASE EndSql(t)
  <2>1. OwnsTransaction(t) /\ session.inTransaction = TRUE /\ transaction \in {"started", "successful"}
    BY <1>7 DEF EndSql, BeforeRecord
  <2>2. EndDone(t)
    BY <1>7, <2>1, EndSqlEnds
  <2> QED BY <1>7, <2>1, <2>2 DEF EndSql, EndDone
<1>8. CASE EndRecord(t)
  BY <1>8 DEF EndRecord
<1>9. CASE CloseSql(t)
  BY <1>9, SessionFields DEF CloseSql
<1>10. CASE LeaveTransaction(t)
  BY <1>10 DEF LeaveTransaction
<1>11. CASE BeginReturns(t)
  BY <1>11 DEF BeginReturns, Release, BackTo
<1>12. CASE SingleWriteReturns(t)
  BY <1>12 DEF SingleWriteReturns, Release, BackTo, Tell, Forget
<1>13. CASE BlockWriteReturns(t)
  BY <1>13 DEF BlockWriteReturns, Release, BackTo, Tell, Forget
<1>14. CASE BlockWriteThrows(t)
  BY <1>14 DEF BlockWriteThrows, Release, BackTo, Tell, Forget, Call
<1>15. CASE SetSuccessfulReturns(t)
  BY <1>15 DEF SetSuccessfulReturns, Release, Call
<1>16. CASE EndReturns(t)
  BY <1>16 DEF EndReturns, Release, BackTo, Tell
<1>17. CASE CloseReturns(t)
  BY <1>17 DEF CloseReturns, Release, BackTo
<1> QED
  BY <1>1, <1>2, <1>3, <1>4, <1>5, <1>6, <1>7, <1>8, <1>9, <1>10, <1>11,
     <1>12, <1>13, <1>14, <1>15, <1>16, <1>17 DEF ConnectionStep

(* The steps between the calls touch neither. *)
LEMMA RecordClientStep ==
  ASSUME RecordInv, NEW t \in Thread, ClientStep(t)
  PROVE  RecordParts'
<1> USE DEF RecordInv, OwnerInv, TypeInv, TypeOK, PlacesFitPhases, CloseIsLast,
            OwnsTransaction, RecordParts, SessionHasOwner,
            RecordOfOwner, RecordHasOwner, EndingHasNoSession, EndsDoNotThrow,
            BeforeRecord, EndingRecord, Marked, Phase, Place, Transaction,
            WriteCalls, TransactionCalls, EndPhases,
            connectionVars, lockVars, Call
<1>1. CASE StartTransaction(t)
  BY <1>1 DEF StartTransaction, MayStart
<1>2. ASSUME NEW w \in Write, StartWrite(t, w) PROVE RecordParts'
  BY <1>2 DEF StartWrite, CallWrite, MayStart
<1>3. ASSUME NEW w \in Write, WriteInBlock(t, w) PROVE RecordParts'
  BY <1>3 DEF WriteInBlock, CallWrite
<1>4. CASE ReturnFromBlock(t)
  BY <1>4 DEF ReturnFromBlock
<1>5. CASE ThrowInBlock(t)
  BY <1>5 DEF ThrowInBlock
<1>6. CASE StartClose(t)
  BY <1>6 DEF StartClose
<1> QED
  BY <1>1, <1>2, <1>3, <1>4, <1>5, <1>6 DEF ClientStep, BlockEnds

(* The record layer is inductive without the faults. *)
LEMMA RecordStep ==
  ASSUME NoFaults, RecordInv, [Next]_vars
  PROVE  RecordInv'
<1>1. OwnerInv'
  BY OwnerStep, NoFaultsNoAutoRollback DEF RecordInv
<1>2. ASSUME NEW t \in Thread, ConnectionStep(t) PROVE LocksAreHeld' /\ RecordParts'
  BY <1>2, LockConnectionStep, RecordConnectionStep DEF RecordInv, OwnerInv
<1>3. ASSUME NEW t \in Thread, ClientStep(t) PROVE LocksAreHeld' /\ RecordParts'
  BY <1>3, LockClientStep, RecordClientStep DEF RecordInv, OwnerInv
<1>4. ASSUME UNCHANGED vars PROVE LocksAreHeld' /\ RecordParts'
  BY <1>4 DEF vars, connectionVars, lockVars, clientVars, RecordInv, LocksAreHeld,
     InsideTransactionLock, RecordParts, SessionHasOwner, RecordOfOwner, RecordHasOwner,
     EndingHasNoSession, EndsDoNotThrow, OwnsTransaction, BeforeRecord, EndingRecord, Marked
<1>5. LocksAreHeld' /\ RecordParts'
  BY <1>2, <1>3, <1>4 DEF Next, Finished, RecordInv, RecordParts
<1> QED BY <1>1, <1>5 DEF RecordInv, RecordParts

(* A new connection has no record, no owner and no transaction. *)
LEMMA RecordInit == Init => RecordInv
<1> SUFFICES ASSUME Init PROVE RecordInv
  OBVIOUS
<1>1. PlacesFitPhases /\ CloseIsLast
  BY DEF Init, PlacesFitPhases, CloseIsLast, TransactionCalls, EndPhases
<1>2. \A t \in Thread : ~OwnsTransaction(t) /\ phase[t] = "idle" /\ at[t] = "outside"
  BY DEF Init, OwnsTransaction, EndPhases
<1>3. OwnerInv
  BY <1>1, <1>2, TypeInit DEF OwnerInv, OwnerHasSession, OneTransaction
<1>4. LocksAreHeld
  BY <1>2 DEF LocksAreHeld, InsideTransactionLock
<1>5. RecordParts
  BY <1>2 DEF Init, EmptySession, RecordParts, SessionHasOwner, RecordOfOwner,
     RecordHasOwner, EndingHasNoSession, EndsDoNotThrow, BeforeRecord, EndingRecord, EndPhases
<1> QED BY <1>3, <1>4, <1>5 DEF RecordInv, RecordParts

(* Without faults, whenever no call is inside the transaction lock, the    *)
(* driver's record and SQLite agree on whether a transaction is open.      *)
THEOREM RecordAgreesWithSession ==
  ASSUME NoFaults
  PROVE  Spec => []RecordTracksSession
<1>1. RecordInv /\ [Next]_vars => RecordInv'
  BY RecordStep
<1>2. RecordInv => RecordTracksSession
  <2> SUFFICES ASSUME RecordInv, transactionLock = Free
               PROVE  transaction # "null" <=> session.inTransaction
    BY DEF RecordTracksSession
  <2>1. \A t \in Thread : ~InsideTransactionLock(t)
    BY ThreadAssumption DEF RecordInv, LocksAreHeld
  <2>2. \A t \in Thread : ~BeforeRecord(t) /\ ~EndingRecord(t)
    BY <2>1 DEF InsideTransactionLock, BeforeRecord, EndingRecord, TransactionCalls
  <2>3. ASSUME transaction # "null" PROVE session.inTransaction
    BY <2>2, <2>3 DEF RecordInv, RecordHasOwner, OwnerInv, OwnerHasSession
  <2>4. ASSUME session.inTransaction PROVE transaction # "null"
    BY <2>2, <2>4 DEF RecordInv, SessionHasOwner, RecordOfOwner
  <2> QED BY <2>3, <2>4
<1> QED BY RecordInit, <1>1, <1>2, PTL DEF Spec

-----------------------------------------------------------------------------
(* Layer 4: the writes, still without faults *)

(* A statement that is executed joins the transaction or is durable.       *)
ExecFailed(t) == session' = session /\ thrown' = [thrown EXCEPT ![t] = TRUE]

ExecDone(t) ==
  /\ session'.inTransaction = session.inTransaction
  /\ session'.work = IF session.inTransaction THEN session.work \union {argument[t]}
                                              ELSE session.work
  /\ session'.durable = IF session.inTransaction THEN session.durable
                                                 ELSE session.durable \union {argument[t]}
  /\ thrown' = [thrown EXCEPT ![t] = FALSE]

(* The two ways a statement ends: with an error, or applied. *)
LEMMA ExecCases ==
  ASSUME NoFaults, session \in Session, NEW t \in Thread, Exec(t)
  PROVE  ExecFailed(t) \/ ExecDone(t)
<1> DEFINE w == argument[t]
           joined == IF session.inTransaction THEN [session EXCEPT !.work = @ \union {w}]
                                              ELSE [session EXCEPT !.durable = @ \union {w}]
<1>1. PICK o \in ExecOutcomes(session, w) :
        session' = o.session /\ thrown' = [thrown EXCEPT ![t] = ~o.ok]
  BY DEF Exec
<1>2. o = Succeeds(joined) \/ o = Fails(session)
  BY <1>1 DEF ExecOutcomes, NoFaults
<1>3. CASE o = Fails(session)
  <2>1. o.ok = FALSE /\ o.session = session
    BY <1>3 DEF Fails
  <2> QED BY <1>1, <2>1 DEF ExecFailed
<1>4. CASE o = Succeeds(joined)
  <2>1. o.ok = TRUE /\ o.session = joined
    BY <1>4 DEF Succeeds
  <2>2. /\ joined.inTransaction = session.inTransaction
        /\ joined.work = IF session.inTransaction THEN session.work \union {w} ELSE session.work
        /\ joined.durable = IF session.inTransaction THEN session.durable
                                                    ELSE session.durable \union {w}
    BY DEF Session
  <2> HIDE DEF joined
  <2> QED BY <1>1, <2>1, <2>2 DEF ExecDone
<1> QED BY <1>2, <1>3, <1>4

WriteParts ==
  /\ WritesAreFresh
  /\ ArgumentsAreAsked /\ ArgumentsAreWhereToldSo
  /\ BlockWritesArePending

(* Each step of a call moves a write to where its fate says it is. *)
LEMMA WriteConnectionStep ==
  ASSUME NoFaults, WriteInv, NEW t \in Thread, ConnectionStep(t)
  PROVE  WriteParts'
<1> USE NoWriteAssumption DEF WriteInv, RecordInv, OwnerInv, TypeInv, TypeOK, ArgumentOK,
            PlacesFitPhases, CloseIsLast,
            OwnerHasSession, OneTransaction, OwnsTransaction,
            LocksAreHeld, InsideTransactionLock, SessionHasOwner,
            RecordOfOwner, RecordHasOwner, EndingHasNoSession, EndsDoNotThrow,
            BeforeRecord, EndingRecord, Marked,
            WriteParts, WritesAreFresh, ArgumentsAreAsked, ArgumentsAreWhereToldSo,
            BlockWritesArePending, Present, Running, Phase, Place, Transaction, Session,
            WriteCalls, TransactionCalls, EndPhases,
            connectionVars, lockVars, clientVars, Move
<1>1. CASE AcquireAccess(t)
  BY <1>1 DEF AcquireAccess
<1>2. CASE AcquireTransaction(t)
  BY <1>2 DEF AcquireTransaction
<1>3. CASE Exec(t)
  <2>1. argument[t] \in Write /\ argument[t] \notin Present
    BY <1>3 DEF Exec
  <2>2. \A u \in Thread : /\ argument[t] \notin blockWrites[u]
                          /\ u # t => argument[u] # argument[t]
    BY <2>1
  <2>3. CASE ExecFailed(t)
    BY <1>3, <2>1, <2>2, <2>3 DEF Exec, ExecFailed
  <2>4. CASE ExecDone(t)
    BY <1>3, <2>1, <2>2, <2>4 DEF Exec, ExecDone
  <2> QED BY <1>3, <2>1, <2>3, <2>4, ExecCases
<1>4. CASE BeginSql(t)
  <2>1. CASE BeginRefused(t)
    BY <1>4, <2>1 DEF BeginSql, BeginRefused
  <2>2. CASE BeginDone(t)
    BY <1>4, <2>2 DEF BeginSql, BeginDone
  <2> QED BY <1>4, <2>1, <2>2, BeginSqlCases
<1>5. CASE BeginRecord(t)
  BY <1>5 DEF BeginRecord
<1>6. CASE SetSuccessful(t)
  BY <1>6 DEF SetSuccessful
<1>7. CASE EndSql(t)
  <2>1. OwnsTransaction(t) /\ session.inTransaction = TRUE /\ transaction \in {"started", "successful"}
    BY <1>7 DEF EndSql, BeforeRecord
  <2>2. EndDone(t)
    BY <1>7, <2>1, EndSqlEnds
  <2> QED BY <1>7, <2>1, <2>2 DEF EndSql, EndDone
<1>8. CASE EndRecord(t)
  BY <1>8 DEF EndRecord
<1>9. CASE CloseSql(t)
  <2>1. /\ session'.inTransaction = FALSE
        /\ session'.work = {}
        /\ session'.durable = session.durable
    BY <1>9, SessionFields DEF CloseSql
  <2>2. \A u \in Thread : phase[u] \in {"idle", "close"}
    BY <1>9 DEF CloseSql
  <2>3. WritesAreFresh' /\ ArgumentsAreAsked'
    BY <1>9, <2>1 DEF CloseSql
  <2>4. ArgumentsAreWhereToldSo' /\ BlockWritesArePending'
    BY <1>9, <2>1, <2>2 DEF CloseSql
  <2> QED BY <2>3, <2>4
<1>10. CASE LeaveTransaction(t)
  BY <1>10 DEF LeaveTransaction
<1>11. CASE BeginReturns(t)
  BY <1>11 DEF BeginReturns, Release, BackTo
<1>12. CASE SingleWriteReturns(t)
  BY <1>12 DEF SingleWriteReturns, Release, BackTo, Tell, Forget
<1>13. CASE BlockWriteReturns(t)
  BY <1>13 DEF BlockWriteReturns, Release, BackTo, Tell, Forget
<1>14. CASE BlockWriteThrows(t)
  BY <1>14 DEF BlockWriteThrows, Release, BackTo, Tell, Forget, Call
<1>15. CASE SetSuccessfulReturns(t)
  BY <1>15 DEF SetSuccessfulReturns, Release, Call
<1>16. CASE EndReturns(t)
  BY <1>16 DEF EndReturns, Release, BackTo, Tell
<1>17. CASE CloseReturns(t)
  BY <1>17 DEF CloseReturns, Release, BackTo
<1> QED
  BY <1>1, <1>2, <1>3, <1>4, <1>5, <1>6, <1>7, <1>8, <1>9, <1>10, <1>11,
     <1>12, <1>13, <1>14, <1>15, <1>16, <1>17 DEF ConnectionStep

(* The steps between the calls ask for a write nobody asked for before. *)
LEMMA WriteClientStep ==
  ASSUME WriteInv, NEW t \in Thread, ClientStep(t)
  PROVE  WriteParts'
<1> USE NoWriteAssumption DEF WriteInv, RecordInv, OwnerInv, TypeInv, TypeOK, ArgumentOK,
            PlacesFitPhases, OwnsTransaction,
            WriteParts, WritesAreFresh, ArgumentsAreAsked, ArgumentsAreWhereToldSo,
            BlockWritesArePending, Present, Running, Phase, Place, Fate,
            WriteCalls, TransactionCalls, EndPhases,
            connectionVars, lockVars, Call
<1>1. CASE StartTransaction(t)
  BY <1>1 DEF StartTransaction, MayStart
<1>2. ASSUME NEW w \in Write, StartWrite(t, w) PROVE WriteParts'
  BY <1>2 DEF StartWrite, CallWrite, MayStart
<1>3. ASSUME NEW w \in Write, WriteInBlock(t, w) PROVE WriteParts'
  BY <1>3 DEF WriteInBlock, CallWrite
<1>4. CASE ReturnFromBlock(t)
  BY <1>4 DEF ReturnFromBlock
<1>5. CASE ThrowInBlock(t)
  BY <1>5 DEF ThrowInBlock
<1>6. CASE StartClose(t)
  BY <1>6 DEF StartClose
<1> QED
  BY <1>1, <1>2, <1>3, <1>4, <1>5, <1>6 DEF ClientStep, BlockEnds

(* The write layer is inductive without the faults. *)
LEMMA WriteStep ==
  ASSUME NoFaults, WriteInv, [Next]_vars
  PROVE  WriteInv'
<1>1. RecordInv'
  BY RecordStep DEF WriteInv
<1>2. ASSUME NEW t \in Thread, ConnectionStep(t) PROVE WriteParts'
  BY <1>2, WriteConnectionStep
<1>3. ASSUME NEW t \in Thread, ClientStep(t) PROVE WriteParts'
  BY <1>3, WriteClientStep
<1>4. ASSUME UNCHANGED vars PROVE WriteParts'
  BY <1>4 DEF vars, connectionVars, lockVars, clientVars, WriteInv, WriteParts,
     WritesAreFresh, ArgumentsAreAsked, ArgumentsAreWhereToldSo, BlockWritesArePending,
     OwnsTransaction, Present
<1>5. WriteParts'
  BY <1>2, <1>3, <1>4 DEF Next, Finished
<1> QED BY <1>1, <1>5 DEF WriteInv, WriteParts

(* A new connection holds no write. *)
LEMMA WriteInit == Init => WriteInv
<1> SUFFICES ASSUME Init PROVE WriteInv
  OBVIOUS
<1>1. WritesAreFresh
  BY DEF Init, EmptySession, WritesAreFresh, Present
<1>2. ArgumentsAreAsked /\ ArgumentsAreWhereToldSo
  BY NoWriteAssumption DEF Init, ArgumentsAreAsked, ArgumentsAreWhereToldSo, WriteCalls
<1>3. BlockWritesArePending
  BY DEF Init, EmptySession, BlockWritesArePending
<1> QED BY <1>1, <1>2, <1>3, RecordInit DEF WriteInv

(* What a block wrote becomes durable as a whole or not at all, whatever   *)
(* other threads do with the same connection.                              *)
THEOREM BlocksAreAtomic ==
  ASSUME NoFaults
  PROVE  Spec => []AllOrNothing
<1>1. WriteInv /\ [Next]_vars => WriteInv'
  BY WriteStep
<1>2. WriteInv => AllOrNothing
  <2> SUFFICES ASSUME WriteInv, NEW t \in Thread
               PROVE  \/ blockWrites[t] \subseteq session.durable
                      \/ blockWrites[t] \cap session.durable = {}
    BY DEF AllOrNothing
  <2>1. CASE OwnsTransaction(t)
    BY <2>1 DEF WriteInv, WritesAreFresh, BlockWritesArePending
  <2>2. CASE ~OwnsTransaction(t) /\ phase[t] \in EndPhases
    BY <2>2 DEF WriteInv, BlockWritesArePending, Present, EndPhases
  <2>3. CASE ~OwnsTransaction(t) /\ phase[t] \notin EndPhases
    BY <2>3 DEF WriteInv, BlockWritesArePending, OwnsTransaction, Running
  <2> QED BY <2>1, <2>2, <2>3
<1> QED BY WriteInit, <1>1, <1>2, PTL DEF Spec

(* What a client was told failed is neither durable nor pending.           *)
THEOREM UndoneStaysGone ==
  ASSUME NoFaults
  PROVE  Spec => []UndoneIsGone
<1>1. WriteInv /\ [Next]_vars => WriteInv'
  BY WriteStep
<1>2. WriteInv => UndoneIsGone
  BY DEF WriteInv, WritesAreFresh, UndoneIsGone, Present
<1> QED BY WriteInit, <1>1, <1>2, PTL DEF Spec

-----------------------------------------------------------------------------
(* Layer 5: exclusive clients *)

ExclusiveParts ==
  OneClient /\ AcknowledgedIsDurable /\ PendingIsInBlock /\ SavedIsDurable

(* With one client at a time a statement outside a block commits by itself. *)
LEMMA ExclusiveConnectionStep ==
  ASSUME NoFaults, Exclusive = TRUE, ExclusiveInv, NEW t \in Thread, ConnectionStep(t)
  PROVE  ExclusiveParts'
<1> USE NoWriteAssumption DEF ExclusiveInv, ExclusiveParts, OneClient,
            AcknowledgedIsDurable, PendingIsInBlock, SavedIsDurable,
            WriteInv, RecordInv, OwnerInv, TypeInv, TypeOK, ArgumentOK,
            PlacesFitPhases, CloseIsLast,
            OwnerHasSession, OneTransaction, OwnsTransaction,
            SessionHasOwner, RecordOfOwner, EndsDoNotThrow,
            BeforeRecord, Marked,
            WritesAreFresh, ArgumentsAreAsked, ArgumentsAreWhereToldSo,
            BlockWritesArePending, Present, Running, Phase, Place, Transaction, Session,
            WriteCalls, TransactionCalls, EndPhases,
            connectionVars, lockVars, clientVars, Move
<1>1. CASE AcquireAccess(t)
  BY <1>1 DEF AcquireAccess
<1>2. CASE AcquireTransaction(t)
  BY <1>2 DEF AcquireTransaction
<1>3. CASE Exec(t)
  <2>1. CASE ExecFailed(t)
    BY <1>3, <2>1 DEF Exec, ExecFailed
  <2>2. CASE ExecDone(t)
    BY <1>3, <2>2 DEF Exec, ExecDone
  <2> QED BY <1>3, <2>1, <2>2, ExecCases
<1>4. CASE BeginSql(t)
  <2>1. CASE BeginRefused(t)
    BY <1>4, <2>1 DEF BeginSql, BeginRefused
  <2>2. CASE BeginDone(t)
    BY <1>4, <2>2 DEF BeginSql, BeginDone
  <2> QED BY <1>4, <2>1, <2>2, BeginSqlCases
<1>5. CASE BeginRecord(t)
  BY <1>5 DEF BeginRecord
<1>6. CASE SetSuccessful(t)
  BY <1>6 DEF SetSuccessful
<1>7. CASE EndSql(t)
  <2>1. OwnsTransaction(t) /\ session.inTransaction = TRUE /\ transaction \in {"started", "successful"}
    BY <1>7 DEF EndSql, BeforeRecord
  <2>2. EndDone(t)
    BY <1>7, <2>1, EndSqlEnds
  <2> QED BY <1>7, <2>1, <2>2 DEF EndSql, EndDone
<1>8. CASE EndRecord(t)
  BY <1>8 DEF EndRecord
<1>9. CASE CloseSql(t)
  <2>1. session'.durable = session.durable
    BY <1>9, SessionFields DEF CloseSql
  <2> QED BY <1>9, <2>1 DEF CloseSql
<1>10. CASE LeaveTransaction(t)
  BY <1>10 DEF LeaveTransaction
<1>11. CASE BeginReturns(t)
  BY <1>11 DEF BeginReturns, Release, BackTo
<1>12. CASE SingleWriteReturns(t)
  BY <1>12 DEF SingleWriteReturns, Release, BackTo, Tell, Forget
<1>13. CASE BlockWriteReturns(t)
  BY <1>13 DEF BlockWriteReturns, Release, BackTo, Tell, Forget
<1>14. CASE BlockWriteThrows(t)
  BY <1>14 DEF BlockWriteThrows, Release, BackTo, Tell, Forget, Call
<1>15. CASE SetSuccessfulReturns(t)
  BY <1>15 DEF SetSuccessfulReturns, Release, Call
<1>16. CASE EndReturns(t)
  BY <1>16 DEF EndReturns, Release, BackTo, Tell
<1>17. CASE CloseReturns(t)
  BY <1>17 DEF CloseReturns, Release, BackTo
<1> QED
  BY <1>1, <1>2, <1>3, <1>4, <1>5, <1>6, <1>7, <1>8, <1>9, <1>10, <1>11,
     <1>12, <1>13, <1>14, <1>15, <1>16, <1>17 DEF ConnectionStep

(* A client starts only when the others are done. *)
LEMMA ExclusiveClientStep ==
  ASSUME Exclusive = TRUE, ExclusiveInv, NEW t \in Thread, ClientStep(t)
  PROVE  ExclusiveParts'
<1> USE NoWriteAssumption DEF ExclusiveInv, ExclusiveParts, OneClient,
            AcknowledgedIsDurable, PendingIsInBlock, SavedIsDurable,
            WriteInv, RecordInv, OwnerInv, TypeInv, TypeOK, ArgumentOK, PlacesFitPhases,
            BlockWritesArePending, Running, Phase, Place, Fate,
            WriteCalls, TransactionCalls, EndPhases,
            connectionVars, lockVars, Call
<1>1. CASE StartTransaction(t)
  BY <1>1 DEF StartTransaction, MayStart
<1>2. ASSUME NEW w \in Write, StartWrite(t, w) PROVE ExclusiveParts'
  BY <1>2 DEF StartWrite, CallWrite, MayStart
<1>3. ASSUME NEW w \in Write, WriteInBlock(t, w) PROVE ExclusiveParts'
  BY <1>3 DEF WriteInBlock, CallWrite
<1>4. CASE ReturnFromBlock(t)
  BY <1>4 DEF ReturnFromBlock
<1>5. CASE ThrowInBlock(t)
  BY <1>5 DEF ThrowInBlock
<1>6. CASE StartClose(t)
  BY <1>6 DEF StartClose
<1> QED
  BY <1>1, <1>2, <1>3, <1>4, <1>5, <1>6 DEF ClientStep, BlockEnds

(* The exclusive layer is inductive for clients that take turns. *)
LEMMA ExclusiveStep ==
  ASSUME NoFaults, Exclusive = TRUE, ExclusiveInv, [Next]_vars
  PROVE  ExclusiveInv'
<1>1. WriteInv'
  BY WriteStep DEF ExclusiveInv
<1>2. ASSUME NEW t \in Thread, ConnectionStep(t) PROVE ExclusiveParts'
  BY <1>2, ExclusiveConnectionStep
<1>3. ASSUME NEW t \in Thread, ClientStep(t) PROVE ExclusiveParts'
  BY <1>3, ExclusiveClientStep
<1>4. ASSUME UNCHANGED vars PROVE ExclusiveParts'
  BY <1>4 DEF vars, connectionVars, lockVars, clientVars, ExclusiveInv, ExclusiveParts,
     OneClient, AcknowledgedIsDurable, PendingIsInBlock, SavedIsDurable
<1>5. ExclusiveParts'
  BY <1>2, <1>3, <1>4 DEF Next, Finished
<1> QED BY <1>1, <1>5 DEF ExclusiveInv, ExclusiveParts

(* It holds of a new connection. *)
LEMMA ExclusiveInit == Init => ExclusiveInv
<1> SUFFICES ASSUME Init PROVE ExclusiveInv
  OBVIOUS
<1>1. OneClient /\ AcknowledgedIsDurable
  BY DEF Init, OneClient, AcknowledgedIsDurable
<1>2. PendingIsInBlock /\ SavedIsDurable
  BY DEF Init, PendingIsInBlock, SavedIsDurable
<1> QED BY <1>1, <1>2, WriteInit DEF ExclusiveInv

(* With the connection for itself, what a client was told is done is       *)
(* durable from then on.                                                   *)
THEOREM SavedStaysDurable ==
  ASSUME NoFaults, Exclusive = TRUE
  PROVE  Spec => []SavedIsDurable
<1>1. ExclusiveInv /\ [Next]_vars => ExclusiveInv'
  BY ExclusiveStep
<1>2. ExclusiveInv => SavedIsDurable
  BY DEF ExclusiveInv
<1> QED BY ExclusiveInit, <1>1, <1>2, PTL DEF Spec

(* Where a write is, among the work, durable or nowhere, always is what    *)
(* its client knows of it; whatever the threads interleave.                *)
THEOREM WritesAreAccounted ==
  ASSUME NoFaults
  PROVE  Spec => []WriteInv
<1>1. WriteInv /\ [Next]_vars => WriteInv'
  BY WriteStep
<1> QED BY WriteInit, <1>1, PTL DEF Spec

(* With the connection for itself, a client's acknowledged statement is    *)
(* durable and its pending ones belong to the block it is in.              *)
THEOREM ExclusiveWritesAreAccounted ==
  ASSUME NoFaults, Exclusive = TRUE
  PROVE  Spec => []ExclusiveInv
<1>1. ExclusiveInv /\ [Next]_vars => ExclusiveInv'
  BY ExclusiveStep
<1> QED BY ExclusiveInit, <1>1, PTL DEF Spec

(* endTransaction ends the transaction: with no call running, SQLite has   *)
(* no open transaction, however many threads shared the connection.        *)
THEOREM TransactionsEnd ==
  ASSUME NoFaults
  PROVE  Spec => []EndEndsTransaction
<1>1. RecordInv /\ [Next]_vars => RecordInv'
  BY RecordStep
<1>2. RecordInv => EndEndsTransaction
  <2> SUFFICES ASSUME RecordInv, \A t \in Thread : phase[t] = "idle"
               PROVE  ~session.inTransaction
    BY DEF EndEndsTransaction
  <2>1. \A t \in Thread : ~OwnsTransaction(t)
    BY DEF RecordInv, OwnerInv, PlacesFitPhases, OwnsTransaction, Running, EndPhases
  <2> QED BY <2>1 DEF RecordInv, SessionHasOwner
<1> QED BY RecordInit, <1>1, <1>2, PTL DEF Spec

(* The steps that change the database: a COMMIT, or a statement in autocommit. *)
LEMMA OnlyCommitSteps ==
  ASSUME NoFaults, RecordInv, [Next]_vars, session'.durable # session.durable
  PROVE  CommitStep
<1> USE DEF RecordInv, OwnerInv, TypeInv, TypeOK
<1>1. PICK t \in Thread : Exec(t) \/ BeginSql(t) \/ EndSql(t) \/ CloseSql(t)
  <2>1. session' # session
    OBVIOUS
  <2> QED
    BY <2>1 DEF Next, Finished, vars, connectionVars, ConnectionStep, ClientStep, BlockEnds,
       AcquireAccess, AcquireTransaction, BeginRecord, SetSuccessful, EndRecord,
       LeaveTransaction, Release, BeginReturns, SingleWriteReturns, BlockWriteReturns,
       BlockWriteThrows, SetSuccessfulReturns, EndReturns, CloseReturns, StartTransaction,
       StartWrite, WriteInBlock, ReturnFromBlock, ThrowInBlock, StartClose
<1>2. CASE Exec(t)
  <2>1. ExecDone(t) /\ ~session.inTransaction
    BY <1>2, ExecCases DEF ExecFailed, ExecDone
  <2>2. \A u \in Thread : ~OwnsTransaction(u)
    BY <2>1 DEF OwnerHasSession
  <2>3. phase[t] = "singleWrite"
    BY <1>2, <2>2 DEF Exec, WriteCalls, OwnsTransaction
  <2> QED BY <2>2, <2>3 DEF CommitStep
<1>3. CASE BeginSql(t)
  BY <1>3, BeginSqlCases DEF BeginRefused, BeginDone
<1>4. CASE EndSql(t)
  <2>1. OwnsTransaction(t) /\ phase[t] \in EndPhases /\ ~BeforeRecord(t)
    BY <1>4 DEF EndSql, Move, OwnsTransaction, BeforeRecord, EndPhases
  <2>2. session.inTransaction = TRUE
    BY <2>1 DEF OwnerHasSession, Session
  <2>3. transaction = IF Marked(t) THEN "successful" ELSE "started"
    BY <2>1 DEF RecordOfOwner
  <2>4. EndDone(t)
    BY <1>4, <2>2, <2>3, EndSqlEnds
  <2>5. transaction = "successful" /\ session'.durable = session.durable \union session.work
    BY <2>3, <2>4 DEF EndDone
  <2>6. phase[t] = "endAfterReturn"
    BY <2>1, <2>3, <2>5 DEF Marked, EndPhases
  <2> QED BY <2>5, <2>6 DEF CommitStep
<1>5. CASE CloseSql(t)
  BY <1>5, SessionFields DEF CloseSql
<1> QED BY <1>1, <1>2, <1>3, <1>4, <1>5

(* Writes become durable only by a COMMIT of a block that returned, or by  *)
(* a statement outside every transaction.                                  *)
THEOREM OnlyCommitMakesDurable ==
  ASSUME NoFaults
  PROVE  Spec => DurableOnlyByCommit
<1>1. RecordInv /\ [Next]_vars => RecordInv'
  BY RecordStep
<1>2. RecordInv /\ [Next]_vars => DurableStep
  BY OnlyCommitSteps DEF DurableStep
<1> QED BY RecordInit, <1>1, <1>2, PTL DEF Spec, DurableOnlyByCommit

-----------------------------------------------------------------------------
(***************************************************************************)
(* With clients that take turns, and without faults, NativeConnection      *)
(* implements TransactionalStore: its initial states are initial states of *)
(* the store, and each of its steps is a step of the store or stutters.    *)
(***************************************************************************)

StoreStep == [Store!StoreNext]_(Store!storeVars)

(* A step that leaves the session and the clients' knowledge alone.        *)
LEMMA Stutters ==
  ASSUME UNCHANGED <<session, fate>>
  PROVE  StoreStep
BY DEF StoreStep, Store!storeVars

(* Telling a client what became of a write is what the store calls Learn.  *)
LEMMA TellIsLearn ==
  ASSUME NEW writes, NEW f, Tell(writes, f)
  PROVE  Store!Learn(writes, f)
BY DEF Tell, Store!Learn

(* A call that writes returns: the store reports what became of the write. *)
LEMMA AnswerSteps ==
  ASSUME ExclusiveInv, NEW t \in Thread,
         SingleWriteReturns(t) \/ BlockWriteReturns(t) \/ BlockWriteThrows(t)
  PROVE  StoreStep
<1> DEFINE w == argument[t]
<1> USE DEF ExclusiveInv, WriteInv, RecordInv, OwnerInv, TypeInv, TypeOK
<1>1. w \in Write /\ phase[t] \in WriteCalls /\ at[t] = "leave"
  BY DEF ArgumentOK, WriteCalls, SingleWriteReturns, BlockWriteReturns, BlockWriteThrows, Release
<1>2. fate[w] = "asked"
  BY <1>1 DEF ArgumentsAreAsked
<1>3. UNCHANGED session
  BY DEF SingleWriteReturns, BlockWriteReturns, BlockWriteThrows, Release, connectionVars
<1>4. \/ w \in session.work /\ Tell({w}, "pending")
      \/ w \in session.durable /\ Tell({w}, "saved")
      \/ w \notin session.durable \union session.work /\ Tell({w}, "undone")
  <2>1. CASE thrown[t]
    <3>1. Tell({w}, "undone")
      BY <2>1 DEF SingleWriteReturns, BlockWriteReturns, BlockWriteThrows
    <3>2. w \notin session.durable \union session.work
      BY <1>1, <2>1 DEF ArgumentsAreWhereToldSo, Present
    <3> QED BY <3>1, <3>2
  <2>2. CASE ~thrown[t] /\ phase[t] = "singleWrite"
    <3>1. Tell({w}, "saved")
      BY <2>2 DEF SingleWriteReturns, BlockWriteReturns, BlockWriteThrows
    <3>2. w \in session.durable
      BY <1>1, <2>2 DEF AcknowledgedIsDurable
    <3> QED BY <3>1, <3>2
  <2>3. CASE ~thrown[t] /\ phase[t] = "blockWrite"
    <3>1. Tell({w}, "pending")
      BY <2>3 DEF SingleWriteReturns, BlockWriteReturns, BlockWriteThrows
    <3>2. w \in session.work
      BY <1>1, <2>3 DEF ArgumentsAreWhereToldSo
    <3> QED BY <3>1, <3>2
  <2> QED BY <1>1, <2>1, <2>2, <2>3 DEF WriteCalls
<1>5. Store!Answer(w)
  <2> HIDE DEF w
  <2> QED BY <1>2, <1>3, <1>4, TellIsLearn DEF Store!Answer, Store!Applied
<1> QED BY <1>1, <1>5 DEF StoreStep, Store!StoreNext

(* A statement is applied by the store, or fails and is a stutter. *)
LEMMA ExecIsApply ==
  ASSUME NoFaults, ExclusiveInv, NEW t \in Thread, Exec(t)
  PROVE  StoreStep
<1> USE DEF ExclusiveInv, WriteInv, RecordInv, OwnerInv, TypeInv, TypeOK
<1>1. UNCHANGED fate /\ phase[t] \in WriteCalls /\ at[t] = "sql"
  BY DEF Exec, Move, clientVars
<1>2. CASE ExecFailed(t)
  BY <1>1, <1>2, Stutters DEF ExecFailed
<1>3. CASE ExecDone(t)
  <2>1. argument[t] \in Write
    BY <1>1 DEF ArgumentOK
  <2>2. fate[argument[t]] = "asked" /\ argument[t] \notin session.durable \union session.work
    BY <1>1, <2>1 DEF ArgumentsAreAsked, ArgumentsAreWhereToldSo, Present
  <2>3. Store!Apply(argument[t])
    BY <1>1, <1>3, <2>2 DEF ExecDone, Store!Apply, Store!Applied, Session
  <2> QED BY <2>1, <2>3 DEF StoreStep, Store!StoreNext
<1> QED BY <1>2, <1>3, ExecCases

(* BEGIN opens the transaction of the store, or is refused. *)
LEMMA BeginIsBegin ==
  ASSUME ExclusiveInv, NEW t \in Thread, BeginSql(t)
  PROVE  StoreStep
<1> USE DEF ExclusiveInv, WriteInv, RecordInv, OwnerInv, TypeInv, TypeOK
<1>1. UNCHANGED fate
  BY DEF BeginSql, clientVars
<1>2. CASE BeginRefused(t)
  BY <1>1, <1>2, Stutters DEF BeginRefused
<1>3. CASE BeginDone(t)
  <2>1. session.work = {}
    BY <1>3 DEF BeginDone, WritesAreFresh
  <2>2. Store!Begin
    BY <1>1, <1>3, <2>1 DEF BeginDone, Store!Begin
  <2> QED BY <2>2 DEF StoreStep, Store!StoreNext
<1> QED BY <1>2, <1>3, BeginSqlCases

(* endTransaction is the commit or the rollback of the store. *)
LEMMA EndIsCommitOrRollback ==
  ASSUME NoFaults, ExclusiveInv, NEW t \in Thread, EndSql(t)
  PROVE  StoreStep
<1> USE DEF ExclusiveInv, WriteInv, RecordInv, OwnerInv, TypeInv, TypeOK
<1>1. UNCHANGED fate
  BY DEF EndSql, clientVars
<1>2. OwnsTransaction(t) /\ ~BeforeRecord(t)
  BY DEF EndSql, Move, OwnsTransaction, BeforeRecord, EndPhases
<1>3. session.inTransaction = TRUE
  BY <1>2 DEF OwnerHasSession, Session
<1>4. transaction \in {"started", "successful"}
  BY <1>2 DEF RecordOfOwner
<1>5. EndDone(t)
  BY <1>3, <1>4, EndSqlEnds
<1>6. Store!Commit \/ Store!Rollback
  BY <1>1, <1>3, <1>5 DEF EndDone, Store!Commit, Store!Rollback
<1> QED BY <1>6 DEF StoreStep, Store!StoreNext

(* withTransaction's outcome is told for all the writes of its block.      *)
LEMMA EndReturnsIsReport ==
  ASSUME ExclusiveInv, NEW t \in Thread, EndReturns(t)
  PROVE  StoreStep
<1> USE DEF ExclusiveInv, WriteInv, RecordInv, OwnerInv, TypeInv, TypeOK
<1>1. UNCHANGED session /\ phase[t] \in EndPhases /\ at[t] = "leave" /\ ~thrown[t]
  BY DEF EndReturns, Release, connectionVars, EndsDoNotThrow
<1>2. \A u \in Thread : ~OwnsTransaction(u)
  BY <1>1 DEF OneClient, OwnsTransaction, EndPhases
<1>3. session.inTransaction = FALSE
  BY <1>2 DEF SessionHasOwner, Session
<1>4. \A u \in Thread \ {t} : blockWrites[u] = {}
  BY <1>1 DEF OneClient, BlockWritesArePending, Running, EndPhases
<1>5. Store!Pending = blockWrites[t]
  BY <1>4 DEF Store!Pending, PendingIsInBlock, BlockWritesArePending
<1>6. CASE phase[t] = "endAfterReturn"
  <2>1. blockWrites[t] \subseteq session.durable
    BY <1>2, <1>6 DEF BlockWritesArePending
  <2>2. Tell(blockWrites[t], "saved")
    BY <1>1, <1>6 DEF EndReturns
  <2> QED BY <1>1, <1>3, <1>5, <2>1, <2>2, TellIsLearn DEF Store!Report, StoreStep, Store!StoreNext
<1>7. CASE phase[t] = "endAfterThrow"
  <2>1. blockWrites[t] \cap session.durable = {}
    BY <1>2, <1>7 DEF BlockWritesArePending, Present
  <2>2. Tell(blockWrites[t], "undone")
    BY <1>7 DEF EndReturns
  <2> QED BY <1>1, <1>3, <1>5, <2>1, <2>2, TellIsLearn DEF Store!Report, StoreStep, Store!StoreNext
<1> QED BY <1>1, <1>6, <1>7 DEF EndPhases

(* Nothing is open when the connection is closed.                          *)
LEMMA CloseStutters ==
  ASSUME ExclusiveInv, NEW t \in Thread, CloseSql(t)
  PROVE  StoreStep
<1> USE DEF ExclusiveInv, WriteInv, RecordInv, OwnerInv, TypeInv, TypeOK
<1>1. \A u \in Thread : ~OwnsTransaction(u)
  BY DEF CloseSql, OneClient, OwnsTransaction, EndPhases
<1>2. session.inTransaction = FALSE
  BY <1>1 DEF SessionHasOwner, Session
<1>3. session.work = {}
  BY <1>2 DEF WritesAreFresh
<1>4. /\ session'.inTransaction = session.inTransaction
      /\ session'.work = session.work
      /\ session'.durable = session.durable
  BY <1>2, <1>3, SessionFields DEF CloseSql
<1> QED BY <1>4 DEF StoreStep, Store!storeVars, CloseSql, clientVars

(* A call that writes asks the store for its write. *)
LEMMA AskSteps ==
  ASSUME TypeInv, NEW t \in Thread, NEW w \in Write, StartWrite(t, w) \/ WriteInBlock(t, w)
  PROVE  StoreStep
<1>1. UNCHANGED session /\ CallWrite(t, IF phase[t] = "block" THEN "blockWrite" ELSE "singleWrite", w)
  BY DEF StartWrite, WriteInBlock, MayStart, connectionVars
<1>2. Store!Ask(w)
  BY <1>1 DEF CallWrite, Store!Ask, Store!Learn, TypeInv, TypeOK
<1> QED BY <1>2 DEF StoreStep, Store!StoreNext

(* Every step of the connection is a step or a stutter of the store. *)
LEMMA StepRefines ==
  ASSUME NoFaults, ExclusiveInv, [Next]_vars
  PROVE  StoreStep
<1>1. ASSUME NEW t \in Thread, ConnectionStep(t) PROVE StoreStep
  <2>1. CASE Exec(t) \/ BeginSql(t) \/ EndSql(t) \/ CloseSql(t)
    BY <2>1, ExecIsApply, BeginIsBegin, EndIsCommitOrRollback, CloseStutters
  <2>2. CASE SingleWriteReturns(t) \/ BlockWriteReturns(t) \/ BlockWriteThrows(t) \/ EndReturns(t)
    BY <2>2, AnswerSteps, EndReturnsIsReport
  <2>3. CASE \/ AcquireAccess(t) \/ AcquireTransaction(t) \/ BeginRecord(t)
             \/ SetSuccessful(t) \/ EndRecord(t) \/ LeaveTransaction(t)
    BY <2>3, Stutters DEF AcquireAccess, AcquireTransaction, BeginRecord, SetSuccessful,
       EndRecord, LeaveTransaction, connectionVars, clientVars
  <2>4. CASE BeginReturns(t) \/ SetSuccessfulReturns(t) \/ CloseReturns(t)
    BY <2>4, Stutters DEF BeginReturns, SetSuccessfulReturns, CloseReturns, Release, connectionVars
  <2> QED BY <1>1, <2>1, <2>2, <2>3, <2>4 DEF ConnectionStep
<1>2. ASSUME NEW t \in Thread, ClientStep(t) PROVE StoreStep
  <2>1. ASSUME NEW w \in Write, StartWrite(t, w) \/ WriteInBlock(t, w) PROVE StoreStep
    BY <2>1, AskSteps DEF ExclusiveInv, WriteInv, RecordInv, OwnerInv
  <2>2. CASE StartTransaction(t) \/ BlockEnds(t) \/ StartClose(t)
    BY <2>2, Stutters DEF StartTransaction, BlockEnds, ReturnFromBlock, ThrowInBlock,
       StartClose, connectionVars
  <2> QED BY <1>2, <2>1, <2>2 DEF ClientStep
<1>3. CASE UNCHANGED vars
  BY <1>3, Stutters DEF vars, connectionVars, clientVars
<1> QED BY <1>1, <1>2, <1>3 DEF Next, Finished

(* A client that has a connection for itself sees a transactional store.   *)
THEOREM ConnectionImplementsStore ==
  ASSUME NoFaults, Exclusive = TRUE
  PROVE  Spec => ImplementsStore
<1>1. Init => Store!StoreInit
  BY DEF Init, EmptySession, Store!StoreInit
<1>2. ExclusiveInv /\ [Next]_vars => ExclusiveInv'
  BY ExclusiveStep
<1>3. ExclusiveInv /\ [Next]_vars => [Store!StoreNext]_(Store!storeVars)
  BY StepRefines DEF StoreStep
<1> QED BY ExclusiveInit, <1>1, <1>2, <1>3, PTL DEF Spec, ImplementsStore, Store!StoreSpec
=============================================================================
