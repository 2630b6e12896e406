--------------------------- MODULE DriverCallsProofs ---------------------------
(***************************************************************************)
(* What the calls of a connection do to its session and to the state of    *)
(* its driver, for both drivers: the lemmas that the proofs about the      *)
(* users of DriverCalls share.                                             *)
(***************************************************************************)
EXTENDS DriverCalls, TLAPS

-----------------------------------------------------------------------------
(* The connection between calls *)

(* Nobody is in a transaction { }. *)
Outside(k) ==
  /\ k.transaction = "null" /\ k.autoCommit = TRUE
  /\ k.session.inTransaction = FALSE /\ k.session.work = {}

(* Somebody is, and has marked it successful or not yet. *)
Inside(k, marked) ==
  IF k.platform = "native"
  THEN k.transaction = (IF marked THEN "successful" ELSE "started") /\ k.autoCommit = TRUE
  ELSE k.transaction = "null" /\ k.autoCommit = FALSE /\ k.isTransactionSuccess = marked

(* Two connections that differ in their sessions only. *)
SameDriver(k, l) ==
  /\ k.platform = l.platform /\ k.transaction = l.transaction /\ k.autoCommit = l.autoCommit
  /\ k.isTransactionSuccess = l.isTransactionSuccess

(* A write adds itself to the work or to the database, or it fails and     *)
(* leaves both alone, or rolls the work back.                              *)
LEMMA ExecDoes ==
  ASSUME NEW k \in Connection, NEW w \in Write, NEW o \in ExecCall(k, w)
  PROVE  /\ o.connection \in Connection /\ o.ok \in BOOLEAN /\ SameDriver(o.connection, k)
         /\ o.ok => o.connection.session =
              IF k.session.inTransaction
              THEN [k.session EXCEPT !.work = @ \union {w}]
              ELSE [k.session EXCEPT !.durable = @ \union {w}]
         /\ ~ o.ok => o.connection.session \in {k.session, RolledBack(k.session)}
<1> DEFINE s == k.session
<1> DEFINE yes == IF s.inTransaction THEN [s EXCEPT !.work = @ \union {w}]
                                     ELSE [s EXCEPT !.durable = @ \union {w}]
<1> DEFINE after(p) == [k EXCEPT !.session = p.session]
<1>1. ExecCall(k, w) = UNION {IF p.ok THEN {Return(after(p))} ELSE {Throw(after(p))} : p \in ExecOutcomes(s, w)}
  BY DEF ExecCall, Sending, Done
<1>2. PICK p \in ExecOutcomes(s, w) : o \in IF p.ok THEN {Return(after(p))} ELSE {Throw(after(p))}
  BY <1>1
<1>3. s \in Session
  BY DEF Connection
<1>4. yes \in Session /\ RolledBack(s) \in Session
  BY <1>3 DEF Session, RolledBack
<1>5. p \in {Succeeds(yes), Fails(s), Fails(RolledBack(s))}
  BY DEF ExecOutcomes
<1> HIDE DEF yes
<1>6. /\ p.ok \in BOOLEAN /\ p.session \in Session
      /\ p.ok => p.session = yes
      /\ ~ p.ok => p.session \in {s, RolledBack(s)}
  <2>1. CASE p = Succeeds(yes)
    BY <1>4, <2>1 DEF Succeeds
  <2>2. CASE p = Fails(s)
    BY <1>3, <2>2 DEF Fails
  <2>3. CASE p = Fails(RolledBack(s))
    BY <1>4, <2>3 DEF Fails
  <2> QED BY <1>5, <2>1, <2>2, <2>3
<1>7. o = [ok |-> p.ok, connection |-> after(p)]
  BY <1>2, <1>6 DEF Return, Throw
<1>8. o.connection.session = p.session /\ o.connection \in Connection /\ o.ok = p.ok /\ SameDriver(o.connection, k)
  BY <1>6, <1>7 DEF Connection, SameDriver
<1> QED BY <1>6, <1>8 DEF yes

(* A query succeeds and changes nothing, or it fails and leaves the        *)
(* session alone, or rolls the work back.                                  *)
LEMMA QueryDoes ==
  ASSUME NEW k \in Connection, NEW o \in QueryCall(k)
  PROVE  /\ o.connection \in Connection /\ o.ok \in BOOLEAN /\ SameDriver(o.connection, k)
         /\ o.ok => o.connection.session = k.session
         /\ ~ o.ok => o.connection.session \in {k.session, RolledBack(k.session)}
<1> DEFINE s == k.session
<1> DEFINE after(p) == [k EXCEPT !.session = p.session]
<1>1. s \in Session /\ RolledBack(s) \in Session
  BY DEF Connection, Session, RolledBack
<1>2. CASE k.platform = "native"
  <2>1. o \in {Return(k), Throw(k)}
    BY <1>2 DEF QueryCall
  <2>2. o.connection = k /\ o.ok \in BOOLEAN
    <3>1. CASE o = Return(k)
      BY <3>1 DEF Return
    <3>2. CASE o = Throw(k)
      BY <3>2 DEF Throw
    <3> QED BY <2>1, <3>1, <3>2
  <2> QED BY <2>2 DEF SameDriver
<1>3. CASE k.platform # "native"
  <2>1. QueryCall(k) = UNION {IF p.ok THEN {Return(after(p))} ELSE {Throw(after(p))} :
                                p \in StepOutcomes(s, "autoRollback")}
    BY <1>3 DEF QueryCall, Sending, Done
  <2>2. PICK p \in StepOutcomes(s, "autoRollback") :
          o \in IF p.ok THEN {Return(after(p))} ELSE {Throw(after(p))}
    BY <2>1
  <2>3. p \in {Succeeds(s), Fails(s), Fails(RolledBack(s))}
    BY DEF StepOutcomes
  <2>4. /\ p.ok \in BOOLEAN /\ p.session \in Session
        /\ p.ok => p.session = s
        /\ ~ p.ok => p.session \in {s, RolledBack(s)}
    <3>1. CASE p = Succeeds(s)
      BY <1>1, <3>1 DEF Succeeds
    <3>2. CASE p = Fails(s)
      BY <1>1, <3>2 DEF Fails
    <3>3. CASE p = Fails(RolledBack(s))
      BY <1>1, <3>3 DEF Fails
    <3> QED BY <2>3, <3>1, <3>2, <3>3
  <2>5. o = [ok |-> p.ok, connection |-> after(p)]
    BY <2>2, <2>4 DEF Return, Throw
  <2>6. o.connection.session = p.session /\ o.connection \in Connection /\ o.ok = p.ok
        /\ SameDriver(o.connection, k)
    BY <2>4, <2>5 DEF Connection, SameDriver
  <2> QED BY <2>4, <2>6
<1> QED BY <1>2, <1>3

(* A step of a cursor changes nothing, unless its failure rolls back. *)
LEMMA StepDoes ==
  ASSUME "readRollsBack" \notin Faults, NEW k \in Connection, NEW o \in StepCall(k)
  PROVE  o.connection = k
<1> DEFINE s == k.session
<1> DEFINE after(p) == [k EXCEPT !.session = p.session]
<1>1. StepCall(k) = UNION {IF p.ok THEN {Return(after(p))} ELSE {Throw(after(p))} :
                             p \in StepOutcomes(s, "readRollsBack")}
  BY DEF StepCall, Sending, Done
<1>2. PICK p \in StepOutcomes(s, "readRollsBack") :
        o \in IF p.ok THEN {Return(after(p))} ELSE {Throw(after(p))}
  BY <1>1
<1>3. p \in {Succeeds(s), Fails(s)}
  BY DEF StepOutcomes
<1>4. p.ok \in BOOLEAN /\ p.session = s
  <2>1. CASE p = Succeeds(s)
    BY <2>1 DEF Succeeds
  <2>2. CASE p = Fails(s)
    BY <2>2 DEF Fails
  <2> QED BY <1>3, <2>1, <2>2
<1>5. o = [ok |-> p.ok, connection |-> after(p)]
  BY <1>2, <1>4 DEF Return, Throw
<1>6. after(p) = k
  BY <1>4 DEF Connection
<1> QED BY <1>5, <1>6

(* Sending without a continuation, and with one possible outcome. *)
Sent(k, outcomes) ==
  UNION {LET after == [k EXCEPT !.session = p.session]
         IN  IF p.ok THEN {Return(after)} ELSE {Throw(after)} : p \in outcomes}

(* A text with one possible outcome returns or throws with it. *)
LEMMA SentOne ==
  ASSUME NEW k, NEW r
  PROVE  /\ Sent(k, {Succeeds(r)}) = {Return([k EXCEPT !.session = r])}
         /\ Sent(k, {Fails(r)}) = {Throw([k EXCEPT !.session = r])}
<1>1. Succeeds(r).ok = TRUE /\ Fails(r).ok = FALSE /\ Succeeds(r).session = r /\ Fails(r).session = r
  BY DEF Succeeds, Fails
<1> QED BY <1>1 DEF Sent

(* BEGIN outside a transaction succeeds. *)
LEMMA BeginDoes ==
  ASSUME NEW k \in Connection, Outside(k), NEW o \in BeginCall(k)
  PROVE  /\ o.ok = TRUE /\ o.connection \in Connection /\ Inside(o.connection, FALSE)
         /\ o.connection.session = [k.session EXCEPT !.inTransaction = TRUE, !.work = {}]
         /\ o.connection.platform = k.platform
<1> DEFINE begun == [k.session EXCEPT !.inTransaction = TRUE, !.work = {}]
<1>1. begun \in Session /\ k.session \in Session
  BY DEF Connection, Session
<1>2. BeginOutcomes(k.session) = {Succeeds(begun)}
  BY DEF Outside, BeginOutcomes
<1>3. Succeeds(begun).ok = TRUE /\ Succeeds(begun).session = begun
  BY DEF Succeeds
<1>a. k.platform \in {"native", "jdbc"}
  BY PlatformsAssumption DEF Connection
<1> HIDE DEF begun
<1>4. CASE k.platform = "native"
  <2> DEFINE after == [[k EXCEPT !.session = begun] EXCEPT !.transaction = "started"]
  <2>1. NativeBegin(k) = UNION {IF p.ok THEN {Return([[k EXCEPT !.session = p.session] EXCEPT !.transaction = "started"])}
               ELSE {Throw([k EXCEPT !.session = p.session])} : p \in {Succeeds(begun)}}
    BY <1>2 DEF NativeBegin, Sending
  <2>2. o = Return(after)
    BY <1>3, <1>4, <2>1 DEF BeginCall
  <2>3. after \in Connection /\ after.session = begun /\ after.platform = k.platform
        /\ after.transaction = "started" /\ after.autoCommit = k.autoCommit
    BY <1>1 DEF Connection
  <2> HIDE DEF after
  <2>4. o.ok = TRUE /\ o.connection = after
    BY <2>2 DEF Return
  <2> QED BY <1>4, <2>3, <2>4 DEF Inside, Outside, begun
<1>5. CASE k.platform = "jdbc"
  <2> DEFINE unset == [k EXCEPT !.isTransactionSuccess = FALSE]
  <2> DEFINE off == [unset EXCEPT !.autoCommit = FALSE]
  <2> DEFINE after == [off EXCEPT !.session = begun]
  <2>1. unset \in Connection /\ unset.session = k.session /\ unset.autoCommit = TRUE
        /\ off \in Connection /\ after \in Connection
        /\ after.session = begun /\ after.platform = k.platform /\ after.transaction = k.transaction
        /\ after.autoCommit = FALSE /\ after.isTransactionSuccess = FALSE
    BY <1>1 DEF Connection, Outside
  <2> HIDE DEF unset
  <2>2. JdbcBegin(k) = Sent(off, {Succeeds(begun)})
    BY <1>2, <2>1 DEF JdbcBegin, SetAutoCommit, unset, Sending, Done, Sent
  <2> HIDE DEF off
  <2>a. Sent(off, {Succeeds(begun)}) = {Return(after)}
    BY SentOne
  <2>b. BeginCall(k) = JdbcBegin(k)
    BY <1>5 DEF BeginCall
  <2>3. o = Return(after)
    BY <2>2, <2>a, <2>b
  <2> HIDE DEF after
  <2>4. o.ok = TRUE /\ o.connection = after
    BY <2>3 DEF Return
  <2> QED BY <1>5, <2>1, <2>4 DEF Inside, Outside, begun
<1> QED BY <1>a, <1>4, <1>5

(* The mark is set. *)
LEMMA MarkDoes ==
  ASSUME NEW k \in Connection, Inside(k, FALSE), NEW o \in SetSuccessfulCall(k)
  PROVE  /\ o.ok = TRUE /\ o.connection \in Connection /\ Inside(o.connection, TRUE)
         /\ o.connection.session = k.session /\ o.connection.platform = k.platform
<1>1. k.platform \in {"native", "jdbc"}
  BY PlatformsAssumption DEF Connection
<1>2. CASE k.platform = "native"
  <2>1. o = Return([k EXCEPT !.transaction = "successful"])
    BY <1>2 DEF SetSuccessfulCall, NativeSetSuccessful, Inside
  <2> QED BY <1>2, <2>1 DEF Return, Connection, Inside
<1>3. CASE k.platform = "jdbc"
  <2>1. o = Return([k EXCEPT !.isTransactionSuccess = TRUE])
    BY <1>3 DEF SetSuccessfulCall, JdbcSetSuccessful
  <2> QED BY <1>3, <2>1 DEF Return, Connection, Inside
<1> QED BY <1>1, <1>2, <1>3

(* ROLLBACK and COMMIT, when COMMIT does not fail. *)
LEMMA FinishOutcomes ==
  ASSUME NEW s \in Session, "commitFails" \notin Faults
  PROVE  /\ s.inTransaction = TRUE => /\ CommitOutcomes(s) = {Succeeds(Committed(s))}
                                      /\ RollbackOutcomes(s) = {Succeeds(RolledBack(s))}
         /\ s.inTransaction = FALSE => /\ CommitOutcomes(s) = {Fails(s)}
                                       /\ RollbackOutcomes(s) = {Fails(s)}
         /\ Committed(s) \in Session /\ RolledBack(s) \in Session
         /\ Committed(s).durable = s.durable \union s.work /\ RolledBack(s).durable = s.durable
         /\ Committed(s).inTransaction = FALSE /\ RolledBack(s).inTransaction = FALSE
         /\ Committed(s).work = {} /\ RolledBack(s).work = {}
         /\ s.inTransaction \in BOOLEAN
BY DEF CommitOutcomes, RollbackOutcomes, Session, Committed, RolledBack

(* connection.autoCommit = true in the finally block. *)
LEMMA AutoCommitOn ==
  ASSUME NEW k \in Connection, k.autoCommit = FALSE, "commitFails" \notin Faults,
         NEW o \in SetAutoCommit(k, TRUE)
  PROVE  /\ o.connection \in Connection
         /\ o.connection.autoCommit = TRUE /\ o.connection.platform = k.platform
         /\ o.connection.transaction = k.transaction
         /\ k.session.inTransaction = TRUE =>
              o.ok = TRUE /\ o.connection.session = Committed(k.session)
         /\ k.session.inTransaction = FALSE =>
              o.ok = FALSE /\ o.connection.session = k.session
<1> DEFINE on == [k EXCEPT !.autoCommit = TRUE]
<1> DEFINE s == k.session
<1>1. on \in Connection /\ s \in Session
  BY DEF Connection
<1>2. SetAutoCommit(k, TRUE) = Sent(on, CommitOutcomes(s))
  BY DEF SetAutoCommit, Sending, Done, Sent
<1>3. ASSUME NEW r \in Session
      PROVE  LET l == [on EXCEPT !.session = r]
             IN  /\ l \in Connection /\ l.autoCommit = TRUE /\ l.platform = k.platform
                 /\ l.transaction = k.transaction /\ l.session = r
  BY <1>3 DEF Connection
<1> HIDE DEF on, s
<1>4. CASE s.inTransaction = TRUE
  <2>1. /\ CommitOutcomes(s) = {Succeeds(Committed(s))} /\ Committed(s) \in Session
    BY <1>1, <1>4, FinishOutcomes
  <2>2. Sent(on, {Succeeds(Committed(s))}) = {Return([on EXCEPT !.session = Committed(s)])}
    BY SentOne
  <2>3. o = Return([on EXCEPT !.session = Committed(s)])
    BY <1>2, <2>1, <2>2
  <2>4. o.ok = TRUE /\ o.connection = [on EXCEPT !.session = Committed(s)]
    BY <2>3 DEF Return
  <2>5. LET l == [on EXCEPT !.session = Committed(s)]
        IN  /\ l \in Connection /\ l.autoCommit = TRUE /\ l.platform = k.platform
            /\ l.transaction = k.transaction /\ l.session = Committed(s)
    BY <1>3, <2>1
  <2> QED BY <1>4, <2>4, <2>5 DEF s
<1>5. CASE s.inTransaction = FALSE
  <2>1. CommitOutcomes(s) = {Fails(s)}
    BY <1>1, <1>5, FinishOutcomes
  <2>2. Sent(on, {Fails(s)}) = {Throw([on EXCEPT !.session = s])}
    BY SentOne
  <2>3. o = Throw([on EXCEPT !.session = s])
    BY <1>2, <2>1, <2>2
  <2>4. o.ok = FALSE /\ o.connection = [on EXCEPT !.session = s]
    BY <2>3 DEF Throw
  <2> QED BY <1>1, <1>3, <1>5, <2>4 DEF s
<1>6. s.inTransaction \in BOOLEAN
  BY <1>1 DEF Session
<1> QED BY <1>4, <1>5, <1>6

(* A session that has just begun. *)
Begun(s) == [s EXCEPT !.inTransaction = TRUE, !.work = {}]

(* Finishing without its continuations. *)
LEMMA FinishingIs ==
  ASSUME NEW k \in Connection, k.autoCommit = FALSE, NEW outcomes
  PROVE  Finishing(k, outcomes) =
           UNION {LET l == [k EXCEPT !.session = p.session]
                  IN  IF p.ok THEN Sent(l, BeginOutcomes(l.session)) ELSE {Throw(l)} : p \in outcomes}
BY DEF Finishing, Sending, Done, Sent

(* connection.commit() and rollback() over JDBC: success begins anew. *)
LEMMA FinishingSucceeds ==
  ASSUME NEW k \in Connection, k.autoCommit = FALSE, NEW r \in Session, r.inTransaction = FALSE,
         NEW f \in Finishing(k, {Succeeds(r)})
  PROVE  /\ f.connection \in Connection /\ SameDriver(f.connection, k)
         /\ f.ok = TRUE /\ f.connection.session = Begun(r)
<1> DEFINE after == [k EXCEPT !.session = r]
<1> DEFINE begun == Begun(r)
<1>1. after.session = r /\ after \in Connection /\ begun \in Session
  BY DEF Connection, Session, Begun
<1>2. Succeeds(r).ok = TRUE /\ Succeeds(r).session = r
  BY DEF Succeeds
<1>3. SameDriver(after, k) /\ SameDriver([after EXCEPT !.session = begun], k)
      /\ [after EXCEPT !.session = begun] \in Connection
      /\ [after EXCEPT !.session = begun].session = begun
  BY <1>1 DEF SameDriver, Connection
<1> HIDE DEF after, begun
<1>4. Finishing(k, {Succeeds(r)}) = Sent(after, BeginOutcomes(r))
  <2> DEFINE outcomes == {Succeeds(r)}
  <2> HIDE DEF outcomes
  <2>1. Finishing(k, outcomes) =
          UNION {LET l == [k EXCEPT !.session = p.session]
                 IN  IF p.ok THEN Sent(l, BeginOutcomes(l.session)) ELSE {Throw(l)} : p \in outcomes}
    BY FinishingIs
  <2> QED BY <1>1, <1>2, <2>1 DEF after, outcomes
<1>5. BeginOutcomes(r) = {Succeeds(begun)}
  BY DEF BeginOutcomes, Begun, begun
<1>6. Sent(after, {Succeeds(begun)}) = {Return([after EXCEPT !.session = begun])}
  BY SentOne
<1>7. f = Return([after EXCEPT !.session = begun])
  BY <1>4, <1>5, <1>6
<1>8. f.ok = TRUE /\ f.connection = [after EXCEPT !.session = begun]
  BY <1>7 DEF Return
<1> QED BY <1>3, <1>8 DEF begun

(* When they fail, they throw and send nothing else. *)
LEMMA FinishingFails ==
  ASSUME NEW k \in Connection, k.autoCommit = FALSE, NEW r \in Session,
         NEW f \in Finishing(k, {Fails(r)})
  PROVE  /\ f.connection \in Connection /\ SameDriver(f.connection, k)
         /\ f.ok = FALSE /\ f.connection.session = r
<1> DEFINE after == [k EXCEPT !.session = r]
<1>1. after.session = r /\ after \in Connection /\ SameDriver(after, k)
  BY DEF Connection, Session, SameDriver
<1>2. Fails(r).ok = FALSE /\ Fails(r).session = r
  BY DEF Fails
<1> HIDE DEF after
<1>3. Finishing(k, {Fails(r)}) = {Throw(after)}
  <2> DEFINE outcomes == {Fails(r)}
  <2> HIDE DEF outcomes
  <2>1. Finishing(k, outcomes) =
          UNION {LET l == [k EXCEPT !.session = p.session]
                 IN  IF p.ok THEN Sent(l, BeginOutcomes(l.session)) ELSE {Throw(l)} : p \in outcomes}
    BY FinishingIs
  <2> QED BY <1>1, <1>2, <2>1 DEF after, outcomes
<1>4. f.ok = FALSE /\ f.connection = after
  BY <1>3 DEF Throw
<1> QED BY <1>1, <1>4

(* The native end: COMMIT or ROLLBACK, and the record is forgotten.        *)
LEMMA NativeEndDoes ==
  ASSUME NEW k \in Connection, k.platform = "native", NEW marked \in BOOLEAN, Inside(k, marked),
         marked => k.session.inTransaction = TRUE,
         k.session.inTransaction = FALSE => k.session.work = {},
         "commitFails" \notin Faults, NEW o \in EndCall(k)
  PROVE  /\ o.connection \in Connection /\ Outside(o.connection)
         /\ marked => o.ok = TRUE
         /\ o.connection.session.durable =
              IF marked THEN k.session.durable \union k.session.work ELSE k.session.durable
<1> DEFINE s == k.session
<1> DEFINE over(r) == [[k EXCEPT !.session = r] EXCEPT !.transaction = "null"]
<1>1. s \in Session
  BY DEF Connection
<1>2. k.transaction = (IF marked THEN "successful" ELSE "started") /\ k.autoCommit = TRUE
  BY DEF Inside
<1>3. EndCall(k) = {[p EXCEPT !.connection.transaction = "null"] :
                      p \in Sent(k, IF marked THEN CommitOutcomes(s) ELSE RollbackOutcomes(s))}
  <2>1. CASE marked = TRUE
    <3>1. EndCall(k) = {[p EXCEPT !.connection.transaction = "null"] :
                          p \in Sending(k, CommitOutcomes(s), Done)}
      BY <1>2, <2>1 DEF EndCall, NativeEnd
    <3> QED BY <2>1, <3>1 DEF Sending, Done, Sent
  <2>2. CASE marked = FALSE
    <3>1. EndCall(k) = {[p EXCEPT !.connection.transaction = "null"] :
                          p \in Sending(k, RollbackOutcomes(s), Done)}
      BY <1>2, <2>2 DEF EndCall, NativeEnd
    <3> QED BY <2>2, <3>1 DEF Sending, Done, Sent
  <2> QED BY <2>1, <2>2
<1>4. ASSUME NEW r \in Session, r.inTransaction = FALSE, r.work = {}
      PROVE  over(r) \in Connection /\ Outside(over(r)) /\ over(r).session = r
  BY <1>2, <1>4 DEF Connection, Outside
<1>5. ASSUME NEW l
      PROVE  /\ [Return(l) EXCEPT !.connection.transaction = "null"].ok = TRUE
             /\ [Return(l) EXCEPT !.connection.transaction = "null"].connection
                  = [l EXCEPT !.transaction = "null"]
             /\ [Throw(l) EXCEPT !.connection.transaction = "null"].connection
                  = [l EXCEPT !.transaction = "null"]
  BY DEF Return, Throw
<1>a. s.inTransaction \in BOOLEAN
  BY <1>1 DEF Session
<1> HIDE DEF s, over
<1>8. CASE marked = TRUE
  <2>1. CommitOutcomes(s) = {Succeeds(Committed(s))} /\ Committed(s) \in Session
        /\ Committed(s).inTransaction = FALSE /\ Committed(s).work = {}
        /\ Committed(s).durable = s.durable \union s.work
    BY <1>1, <1>8, FinishOutcomes DEF s
  <2>2. Sent(k, {Succeeds(Committed(s))}) = {Return([k EXCEPT !.session = Committed(s)])}
    BY SentOne
  <2>3. o = [Return([k EXCEPT !.session = Committed(s)]) EXCEPT !.connection.transaction = "null"]
    BY <1>3, <1>8, <2>1, <2>2
  <2>4. o.ok = TRUE /\ o.connection = over(Committed(s))
    BY <1>5, <2>3 DEF over
  <2>5. over(Committed(s)) \in Connection /\ Outside(over(Committed(s)))
        /\ over(Committed(s)).session = Committed(s)
    BY <1>4, <2>1
  <2> QED BY <1>8, <2>1, <2>4, <2>5 DEF s
<1>9. CASE marked = FALSE /\ s.inTransaction = TRUE
  <2>1. RollbackOutcomes(s) = {Succeeds(RolledBack(s))} /\ RolledBack(s) \in Session
        /\ RolledBack(s).inTransaction = FALSE /\ RolledBack(s).work = {}
        /\ RolledBack(s).durable = s.durable
    BY <1>1, <1>9, FinishOutcomes
  <2>2. Sent(k, {Succeeds(RolledBack(s))}) = {Return([k EXCEPT !.session = RolledBack(s)])}
    BY SentOne
  <2>3. o = [Return([k EXCEPT !.session = RolledBack(s)]) EXCEPT !.connection.transaction = "null"]
    BY <1>3, <1>9, <2>1, <2>2
  <2>4. o.connection = over(RolledBack(s))
    BY <1>5, <2>3 DEF over
  <2>5. over(RolledBack(s)) \in Connection /\ Outside(over(RolledBack(s)))
        /\ over(RolledBack(s)).session = RolledBack(s)
    BY <1>4, <2>1
  <2> QED BY <1>9, <2>1, <2>4, <2>5 DEF s
<1>10. CASE marked = FALSE /\ s.inTransaction = FALSE
  <2>1. RollbackOutcomes(s) = {Fails(s)}
    BY <1>1, <1>10, FinishOutcomes
  <2>2. Sent(k, {Fails(s)}) = {Throw([k EXCEPT !.session = s])}
    BY SentOne
  <2>3. o = [Throw([k EXCEPT !.session = s]) EXCEPT !.connection.transaction = "null"]
    BY <1>3, <1>10, <2>1, <2>2
  <2>4. o.connection = over(s)
    BY <1>5, <2>3 DEF over
  <2>5. s.work = {}
    BY <1>10 DEF s
  <2>6. over(s) \in Connection /\ Outside(over(s)) /\ over(s).session = s
    BY <1>1, <1>4, <1>10, <2>5
  <2> QED BY <1>10, <2>4, <2>6 DEF s
<1> QED BY <1>8, <1>9, <1>10, <1>a

(* The end over JDBC: COMMIT or ROLLBACK, which begin anew, and then       *)
(* auto-commit again, whose COMMIT finds an empty transaction or none.     *)
LEMMA JdbcEndDoes ==
  ASSUME NEW k \in Connection, k.platform = "jdbc", NEW marked \in BOOLEAN, Inside(k, marked),
         marked => k.session.inTransaction = TRUE,
         k.session.inTransaction = FALSE => k.session.work = {},
         "commitFails" \notin Faults, NEW o \in EndCall(k)
  PROVE  /\ o.connection \in Connection /\ Outside(o.connection)
         /\ marked => o.ok = TRUE
         /\ o.connection.session.durable =
              IF marked THEN k.session.durable \union k.session.work ELSE k.session.durable
<1> DEFINE s == k.session
<1> DEFINE outcomes == IF marked THEN CommitOutcomes(s) ELSE RollbackOutcomes(s)
<1> DEFINE r == IF marked THEN Committed(s) ELSE IF s.inTransaction THEN RolledBack(s) ELSE s
<1>1. s \in Session /\ s.inTransaction \in BOOLEAN
  BY DEF Connection, Session
<1>2. k.transaction = "null" /\ k.autoCommit = FALSE /\ k.isTransactionSuccess = marked
  BY DEF Inside
<1>3. PICK f \in Finishing(k, outcomes) :
        \E e \in SetAutoCommit(f.connection, TRUE) :
          o = IF e.ok
              THEN [ok |-> f.ok, connection |-> [e.connection EXCEPT !.isTransactionSuccess = FALSE]]
              ELSE e
  <2>1. EndCall(k) =
          UNION {{IF e.ok
                  THEN [ok |-> f.ok, connection |-> [e.connection EXCEPT !.isTransactionSuccess = FALSE]]
                  ELSE e : e \in SetAutoCommit(f.connection, TRUE)} :
                 f \in Finishing(k, IF k.isTransactionSuccess THEN CommitOutcomes(s)
                                                               ELSE RollbackOutcomes(s))}
    BY DEF EndCall, JdbcEnd
  <2>2. (IF k.isTransactionSuccess THEN CommitOutcomes(s) ELSE RollbackOutcomes(s)) = outcomes
    BY <1>2
  <2> HIDE DEF s, outcomes
  <2>3. PICK f \in Finishing(k, outcomes) :
          o \in {IF e.ok
                 THEN [ok |-> f.ok, connection |-> [e.connection EXCEPT !.isTransactionSuccess = FALSE]]
                 ELSE e : e \in SetAutoCommit(f.connection, TRUE)}
    <3>1. o \in EndCall(k)
      OBVIOUS
    <3> QED BY <2>1, <2>2, <3>1, Zenon
  <2> QED BY <2>3
<1>4. PICK e \in SetAutoCommit(f.connection, TRUE) :
          o = IF e.ok
              THEN [ok |-> f.ok, connection |-> [e.connection EXCEPT !.isTransactionSuccess = FALSE]]
              ELSE e
  BY <1>3
<1>5. /\ r \in Session /\ r.inTransaction = FALSE /\ r.work = {}
      /\ r.durable = IF marked THEN s.durable \union s.work ELSE s.durable
  BY <1>1, FinishOutcomes
<1>6. outcomes = {Succeeds(r)} \/ (outcomes = {Fails(r)} /\ marked = FALSE)
  BY <1>1, FinishOutcomes
<1>7. /\ f.connection.session \in {r, Begun(r)}
      /\ f.connection \in Connection /\ SameDriver(f.connection, k)
      /\ f.connection.session = r => marked = FALSE
      /\ f.connection.session # r => f.ok = TRUE
  <2> HIDE DEF outcomes, r
  <2>1. CASE outcomes = {Succeeds(r)}
    <3>1. f.ok = TRUE /\ f.connection.session = Begun(r)
          /\ f.connection \in Connection /\ SameDriver(f.connection, k)
      <4> HIDE DEF s
      <4>1. outcomes = {Succeeds(r)} /\ r \in Session /\ k.autoCommit = FALSE /\ r.inTransaction = FALSE
        BY <1>2, <1>5, <2>1
      <4>2. f \in Finishing(k, {Succeeds(r)})
        BY <4>1, Zenon
      <4> QED BY <4>1, <4>2, FinishingSucceeds, ZenonT(30)
    <3>2. f.connection.session.inTransaction = TRUE
      BY <1>5, <3>1 DEF Session, Begun
    <3> QED BY <1>5, <3>1, <3>2
  <2>2. CASE outcomes = {Fails(r)} /\ marked = FALSE
    <3>1. f.ok = FALSE /\ f.connection.session = r
          /\ f.connection \in Connection /\ SameDriver(f.connection, k)
      <4> HIDE DEF s
      <4>1. outcomes = {Fails(r)} /\ r \in Session /\ k.autoCommit = FALSE
        BY <1>2, <1>5, <2>2
      <4>2. f \in Finishing(k, {Fails(r)})
        BY <4>1, Zenon
      <4> QED BY <4>1, <4>2, FinishingFails, ZenonT(30)
    <3> QED BY <2>2, <3>1
  <2> QED BY <1>6, <2>1, <2>2
<1>8. f.connection.autoCommit = FALSE /\ f.connection.transaction = "null"
  BY <1>2, <1>7 DEF SameDriver
<1>9. /\ e.connection \in Connection /\ e.connection.autoCommit = TRUE
      /\ e.connection.transaction = "null"
      /\ f.connection.session.inTransaction = TRUE =>
           e.ok = TRUE /\ e.connection.session = Committed(f.connection.session)
      /\ f.connection.session.inTransaction = FALSE =>
           e.ok = FALSE /\ e.connection.session = f.connection.session
  <2> HIDE DEF s, outcomes, r
  <2> QED BY <1>7, <1>8, AutoCommitOn
<1> HIDE DEF r
<1>10. CASE f.connection.session = r
  <2>1. e.ok = FALSE /\ e.connection.session = r
    BY <1>5, <1>9, <1>10
  <2>2. o = e
    BY <1>4, <2>1
  <2>3. Outside(e.connection)
    BY <1>5, <1>9, <2>1 DEF Outside
  <2> QED BY <1>5, <1>7, <1>9, <1>10, <2>1, <2>2, <2>3
<1>11. CASE f.connection.session = Begun(r) /\ f.ok = TRUE
  <2>1. f.connection.session.inTransaction = TRUE /\ f.connection.session.durable = r.durable
        /\ f.connection.session.work = {} /\ f.connection.session \in Session
    BY <1>5, <1>11 DEF Session, Begun
  <2>2. e.ok = TRUE /\ e.connection.session = Committed(f.connection.session)
    BY <1>9, <2>1
  <2>3. e.connection.session.durable = r.durable /\ e.connection.session.work = {}
        /\ e.connection.session.inTransaction = FALSE
    <3> DEFINE q == f.connection.session
    <3>1. q \in Session /\ q.work = {} /\ q.durable = r.durable /\ e.connection.session = Committed(q)
      BY <2>1, <2>2
    <3> HIDE DEF q
    <3> QED BY <3>1 DEF Committed, Session
  <2>4. o = [ok |-> TRUE, connection |-> [e.connection EXCEPT !.isTransactionSuccess = FALSE]]
    BY <1>4, <1>11, <2>2
  <2>5. [e.connection EXCEPT !.isTransactionSuccess = FALSE] \in Connection
        /\ [e.connection EXCEPT !.isTransactionSuccess = FALSE].session = e.connection.session
        /\ Outside([e.connection EXCEPT !.isTransactionSuccess = FALSE])
    BY <1>9, <2>3 DEF Connection, Outside
  <2> HIDE DEF s
  <2>6. o.ok = TRUE /\ o.connection.session = e.connection.session
        /\ o.connection \in Connection /\ Outside(o.connection)
    BY <2>4, <2>5
  <2> QED BY <1>5, <2>3, <2>6 DEF s
<1> QED BY <1>7, <1>10, <1>11

(* The end of a transaction { }: with the mark its work becomes durable,   *)
(* without it is gone, and either way the transaction is over.             *)
LEMMA EndDoes ==
  ASSUME NEW k \in Connection, NEW marked \in BOOLEAN, Inside(k, marked),
         marked => k.session.inTransaction = TRUE,
         k.session.inTransaction = FALSE => k.session.work = {},
         "commitFails" \notin Faults, NEW o \in EndCall(k)
  PROVE  /\ o.connection \in Connection /\ Outside(o.connection)
         /\ marked => o.ok = TRUE
         /\ o.connection.session.durable =
              IF marked THEN k.session.durable \union k.session.work ELSE k.session.durable
<1>1. k.platform \in {"native", "jdbc"}
  BY PlatformsAssumption DEF Connection
<1> QED BY <1>1, NativeEndDoes, JdbcEndDoes

-----------------------------------------------------------------------------
(* What a call may do in any state, when COMMIT may fail too *)

(* A session after some calls that wrote W: nothing durable is lost, and   *)
(* what is new comes from the work and from W.                             *)
After(s, W) ==
  {r \in Session : /\ r.work \subseteq s.work \union W
                   /\ s.durable \subseteq r.durable
                   /\ r.durable \subseteq s.durable \union s.work \union W}

(* An outcome of a call on connection k that wrote W. *)
OutcomeOf(o, k, W) ==
  /\ o.ok \in BOOLEAN /\ o.connection \in Connection
  /\ o.connection.platform = k.platform /\ o.connection.session \in After(k.session, W)

(* The outcomes of a SQL text. *)
LEMMA TextsDo ==
  ASSUME NEW s \in Session
  PROVE  /\ \A p \in BeginOutcomes(s) : p.ok \in BOOLEAN /\ p.session \in After(s, {})
         /\ \A p \in CommitOutcomes(s) : p.ok \in BOOLEAN /\ p.session \in After(s, {})
         /\ \A p \in RollbackOutcomes(s) : p.ok \in BOOLEAN /\ p.session \in After(s, {})
         /\ \A w \in Write : \A p \in ExecOutcomes(s, w) : p.ok \in BOOLEAN /\ p.session \in After(s, {w})
<1> DEFINE begun == [s EXCEPT !.inTransaction = TRUE, !.work = {}]
<1>1. begun \in After(s, {}) /\ s \in After(s, {}) /\ RolledBack(s) \in After(s, {}) /\ Committed(s) \in After(s, {})
  BY DEF After, Session, RolledBack, Committed
<1> HIDE DEF begun
<1>2. ASSUME NEW r PROVE /\ Succeeds(r).ok \in BOOLEAN /\ Succeeds(r).session = r
                         /\ Fails(r).ok \in BOOLEAN /\ Fails(r).session = r
  BY DEF Succeeds, Fails
<1>3. BeginOutcomes(s) \subseteq {Fails(s), Succeeds(begun)}
  BY DEF BeginOutcomes, begun
<1>4. CommitOutcomes(s) \subseteq {Fails(s), Succeeds(Committed(s))}
  BY DEF CommitOutcomes
<1>5. RollbackOutcomes(s) \subseteq {Fails(s), Succeeds(RolledBack(s))}
  BY DEF RollbackOutcomes
<1>6. ASSUME NEW w \in Write, NEW p \in ExecOutcomes(s, w)
      PROVE  p.ok \in BOOLEAN /\ p.session \in After(s, {w})
  <2> DEFINE wrote == IF s.inTransaction THEN [s EXCEPT !.work = @ \union {w}]
                                         ELSE [s EXCEPT !.durable = @ \union {w}]
  <2>1. wrote \in After(s, {w}) /\ s \in After(s, {w}) /\ RolledBack(s) \in After(s, {w})
    BY DEF After, Session, RolledBack
  <2>2. p \in {Fails(s), Succeeds(wrote), Fails(RolledBack(s))}
    BY DEF ExecOutcomes
  <2> HIDE DEF wrote
  <2> QED BY <1>2, <2>1, <2>2
<1> QED BY <1>1, <1>2, <1>3, <1>4, <1>5, <1>6

(* A text that is sent, and nothing after it. *)
LEMMA SentIs ==
  ASSUME NEW k, NEW outcomes, \A p \in outcomes : p.ok \in BOOLEAN, NEW o \in Sent(k, outcomes)
  PROVE  \E p \in outcomes : o = [ok |-> p.ok, connection |-> [k EXCEPT !.session = p.session]]
<1>1. PICK p \in outcomes : o \in IF p.ok THEN {Return([k EXCEPT !.session = p.session])}
                                          ELSE {Throw([k EXCEPT !.session = p.session])}
  BY DEF Sent
<1> QED BY <1>1 DEF Return, Throw

(* A text, in terms of what it may change. *)
LEMMA SentDoes ==
  ASSUME NEW k \in Connection, NEW W, NEW outcomes,
         \A p \in outcomes : p.ok \in BOOLEAN /\ p.session \in After(k.session, W),
         NEW o \in Sent(k, outcomes)
  PROVE  OutcomeOf(o, k, W) /\ SameDriver(o.connection, k)
<1>1. PICK p \in outcomes : o = [ok |-> p.ok, connection |-> [k EXCEPT !.session = p.session]]
  BY SentIs
<1>2. p.session \in Session /\ p.session \in After(k.session, W)
  BY DEF After
<1>3. /\ o.ok = p.ok /\ o.connection = [k EXCEPT !.session = p.session]
      /\ o.connection \in Connection /\ o.connection.session = p.session
      /\ SameDriver(o.connection, k) /\ o.connection.platform = k.platform
  BY <1>1, <1>2 DEF Connection, SameDriver
<1> QED BY <1>2, <1>3 DEF OutcomeOf

(* Two calls, one after the other. *)
LEMMA OutcomesCompose ==
  ASSUME NEW k, NEW l \in Connection, NEW o, NEW W, l.session \in After(k.session, W), l.platform = k.platform,
         OutcomeOf(o, l, {})
  PROVE  OutcomeOf(o, k, W)
<1>1. o.connection.session \in After(k.session, W)
  BY DEF OutcomeOf, After
<1> QED BY <1>1 DEF OutcomeOf

(* A call that sends nothing may change what the driver keeps. *)
LEMMA KeptSession ==
  ASSUME NEW k \in Connection, NEW l \in Connection, l.session = k.session, l.platform = k.platform, NEW ok \in BOOLEAN
  PROVE  OutcomeOf([ok |-> ok, connection |-> l], k, {})
BY DEF OutcomeOf, After, Connection

(* A write, in any state. *)
LEMMA ExecIsOutcome ==
  ASSUME NEW k \in Connection, NEW w \in Write, NEW o \in ExecCall(k, w)
  PROVE  OutcomeOf(o, k, {w})
<1>1. k.session \in Session
  BY DEF Connection
<1>2. o \in Sent(k, ExecOutcomes(k.session, w))
  BY DEF ExecCall, Sending, Done, Sent
<1> QED BY <1>1, <1>2, TextsDo, SentDoes

(* connection.autoCommit = on, in any state. *)
LEMMA SetAutoCommitIsOutcome ==
  ASSUME NEW k \in Connection, NEW on \in BOOLEAN, NEW o \in SetAutoCommit(k, on)
  PROVE  OutcomeOf(o, k, {})
<1> DEFINE l == [k EXCEPT !.autoCommit = on]
<1> DEFINE outcomes == IF on THEN CommitOutcomes(k.session) ELSE BeginOutcomes(k.session)
<1>1. l \in Connection /\ l.session = k.session /\ l.platform = k.platform /\ k.session \in Session
  BY DEF Connection
<1>2. CASE k.autoCommit = on
  <2>1. o = [ok |-> TRUE, connection |-> k]
    BY <1>2 DEF SetAutoCommit, Return
  <2> QED BY <2>1, KeptSession
<1>3. CASE k.autoCommit # on
  <2>1. o \in Sent(l, outcomes)
    BY <1>3 DEF SetAutoCommit, Sending, Done, Sent
  <2>2. \A p \in outcomes : p.ok \in BOOLEAN /\ p.session \in After(l.session, {})
    BY <1>1, TextsDo
  <2> HIDE DEF l, outcomes
  <2>3. OutcomeOf(o, l, {})
    BY <1>1, <2>1, <2>2, SentDoes
  <2> QED BY <1>1, <2>3 DEF OutcomeOf
<1> QED BY <1>2, <1>3

(* The beginning of a transaction, in any state. *)
LEMMA BeginIsOutcome ==
  ASSUME NEW k \in Connection, NEW o \in BeginCall(k)
  PROVE  OutcomeOf(o, k, {})
<1>1. k.session \in Session /\ k.platform \in {"native", "jdbc"}
  BY PlatformsAssumption DEF Connection
<1>2. CASE k.platform = "native"
  <2>1. NativeBegin(k) =
          UNION {IF p.ok THEN {Return([[k EXCEPT !.session = p.session] EXCEPT !.transaction = "started"])}
                 ELSE {Throw([k EXCEPT !.session = p.session])} : p \in BeginOutcomes(k.session)}
    BY DEF NativeBegin, Sending
  <2>2. PICK p \in BeginOutcomes(k.session) :
          o \in IF p.ok THEN {Return([[k EXCEPT !.session = p.session] EXCEPT !.transaction = "started"])}
                ELSE {Throw([k EXCEPT !.session = p.session])}
    BY <1>2, <2>1 DEF BeginCall
  <2>3. p.ok \in BOOLEAN /\ p.session \in After(k.session, {}) /\ p.session \in Session
    BY <1>1, TextsDo DEF After
  <2>4. CASE p.ok = TRUE
    <3> DEFINE l == [[k EXCEPT !.session = p.session] EXCEPT !.transaction = "started"]
    <3>1. l \in Connection /\ l.platform = k.platform /\ l.session = p.session
      BY <2>3 DEF Connection
    <3> HIDE DEF l
    <3>2. o = Return(l)
      BY <2>2, <2>4 DEF l
    <3> QED BY <2>3, <3>1, <3>2 DEF OutcomeOf, Return
  <2>5. CASE p.ok = FALSE
    <3> DEFINE l == [k EXCEPT !.session = p.session]
    <3>1. l \in Connection /\ l.platform = k.platform /\ l.session = p.session
      BY <2>3 DEF Connection
    <3> HIDE DEF l
    <3>2. o = Throw(l)
      BY <2>2, <2>5 DEF l
    <3> QED BY <2>3, <3>1, <3>2 DEF OutcomeOf, Throw
  <2> QED BY <2>3, <2>4, <2>5
<1>3. CASE k.platform = "jdbc"
  <2> DEFINE l == [k EXCEPT !.isTransactionSuccess = FALSE]
  <2>1. l \in Connection /\ l.session = k.session /\ l.platform = k.platform
    BY DEF Connection
  <2>2. o \in SetAutoCommit(l, FALSE)
    BY <1>3 DEF BeginCall, JdbcBegin
  <2> HIDE DEF l
  <2>3. OutcomeOf(o, l, {})
    BY <2>1, <2>2, SetAutoCommitIsOutcome
  <2> QED BY <2>1, <2>3 DEF OutcomeOf
<1> QED BY <1>1, <1>2, <1>3

(* The mark, in any state. *)
LEMMA SetSuccessfulIsOutcome ==
  ASSUME NEW k \in Connection, NEW o \in SetSuccessfulCall(k)
  PROVE  OutcomeOf(o, k, {})
<1>1. k.platform \in {"native", "jdbc"}
  BY PlatformsAssumption DEF Connection
<1>2. CASE o = Throw(k)
  BY <1>2, KeptSession DEF Throw
<1>3. CASE o = Return([k EXCEPT !.transaction = "successful"])
  <2> DEFINE l == [k EXCEPT !.transaction = "successful"]
  <2>1. l \in Connection /\ l.session = k.session /\ l.platform = k.platform
    BY DEF Connection
  <2> HIDE DEF l
  <2>2. o = [ok |-> TRUE, connection |-> l]
    BY <1>3 DEF Return, l
  <2> QED BY <2>1, <2>2, KeptSession
<1>4. CASE o = Return([k EXCEPT !.isTransactionSuccess = TRUE])
  <2> DEFINE l == [k EXCEPT !.isTransactionSuccess = TRUE]
  <2>1. l \in Connection /\ l.session = k.session /\ l.platform = k.platform
    BY DEF Connection
  <2> HIDE DEF l
  <2>2. o = [ok |-> TRUE, connection |-> l]
    BY <1>4 DEF Return, l
  <2> QED BY <2>1, <2>2, KeptSession
<1> QED BY <1>1, <1>2, <1>3, <1>4 DEF SetSuccessfulCall, NativeSetSuccessful, JdbcSetSuccessful

(* The native end, piece by piece. *)
NativeEndedAs(o, k, p) ==
  o.ok = p.ok /\ o.connection = [k EXCEPT !.session = p.session, !.transaction = "null"]

(* The native end throws without a record, else sends ROLLBACK or COMMIT   *)
(* by it, and clears it.                                                   *)
LEMMA NativeEndIs ==
  ASSUME NEW k \in Connection, k.platform = "native", NEW o \in EndCall(k)
  PROVE  \/ /\ k.transaction = "null" /\ o.ok = FALSE /\ o.connection = [k EXCEPT !.transaction = "null"]
         \/ /\ k.transaction # "null"
            /\ \E p \in IF k.transaction = "started" THEN RollbackOutcomes(k.session)
                                                    ELSE CommitOutcomes(k.session) : NativeEndedAs(o, k, p)
<1>1. k.session \in Session /\ k.transaction \in {"null", "started", "successful"}
  BY DEF Connection
<1> DEFINE sent == CASE k.transaction = "null"       -> {Throw(k)}
                     [] k.transaction = "started"    -> Sent(k, RollbackOutcomes(k.session))
                     [] k.transaction = "successful" -> Sent(k, CommitOutcomes(k.session))
<1>2. EndCall(k) = {[p EXCEPT !.connection.transaction = "null"] : p \in sent}
  BY DEF EndCall, NativeEnd, Sending, Done, Sent
<1>3. PICK q \in sent : o = [q EXCEPT !.connection.transaction = "null"]
  <2> HIDE DEF sent
  <2>1. o \in EndCall(k)
    OBVIOUS
  <2> QED BY <1>2, <2>1
<1>4. CASE k.transaction = "null"
  <2>1. q = Throw(k)
    BY <1>4
  <2> QED BY <1>3, <1>4, <2>1 DEF Throw
<1>5. ASSUME NEW outcomes, \A p \in outcomes : p.ok \in BOOLEAN, q \in Sent(k, outcomes)
      PROVE  \E p \in outcomes : NativeEndedAs(o, k, p)
  <2>1. PICK p \in outcomes : q = [ok |-> p.ok, connection |-> [k EXCEPT !.session = p.session]]
    BY <1>5, SentIs
  <2> QED BY <1>3, <2>1 DEF NativeEndedAs
<1>6. CASE k.transaction = "started"
  <2>1. q \in Sent(k, RollbackOutcomes(k.session))
    BY <1>6
  <2>2. \A p \in RollbackOutcomes(k.session) : p.ok \in BOOLEAN
    BY <1>1, TextsDo
  <2> DEFINE outcomes == RollbackOutcomes(k.session)
  <2> HIDE DEF outcomes, sent
  <2>3. \E p \in outcomes : NativeEndedAs(o, k, p)
    BY <1>5, <2>1, <2>2 DEF outcomes
  <2> QED BY <1>6, <2>3 DEF outcomes
<1>7. CASE k.transaction = "successful"
  <2>1. q \in Sent(k, CommitOutcomes(k.session))
    BY <1>7
  <2>2. \A p \in CommitOutcomes(k.session) : p.ok \in BOOLEAN
    BY <1>1, TextsDo
  <2> DEFINE outcomes == CommitOutcomes(k.session)
  <2> HIDE DEF outcomes, sent
  <2>3. \E p \in outcomes : NativeEndedAs(o, k, p)
    BY <1>5, <2>1, <2>2 DEF outcomes
  <2> QED BY <1>7, <2>3 DEF outcomes
<1> QED BY <1>1, <1>4, <1>6, <1>7

(* commit() and rollback() over JDBC, piece by piece. *)
FinishedAs(f, k, p) ==
  \/ p.ok /\ \E b \in BeginOutcomes(p.session) :
               f = [ok |-> b.ok, connection |-> [k EXCEPT !.session = b.session]]
  \/ ~ p.ok /\ f = [ok |-> FALSE, connection |-> [k EXCEPT !.session = p.session]]

(* A JDBC commit or rollback sends its text and, if that worked, the BEGIN *)
(* of the next transaction.                                                *)
LEMMA FinishingDoes ==
  ASSUME NEW k \in Connection, k.autoCommit = FALSE, NEW outcomes, \A p \in outcomes : p.ok \in BOOLEAN,
         \A p \in outcomes : p.session \in Session,
         NEW f \in Finishing(k, outcomes)
  PROVE  \E p \in outcomes : FinishedAs(f, k, p)
<1> DEFINE Rest(p) == LET l == [k EXCEPT !.session = p.session]
                      IN  IF p.ok THEN Sent(l, BeginOutcomes(l.session)) ELSE {Throw(l)}
<1>a. Finishing(k, outcomes) = UNION {Rest(p) : p \in outcomes}
  BY FinishingIs
<1> HIDE DEF Rest
<1>b. PICK p \in outcomes : f \in Rest(p)
  BY <1>a
<1>1. f \in LET l == [k EXCEPT !.session = p.session]
            IN  IF p.ok THEN Sent(l, BeginOutcomes(l.session)) ELSE {Throw(l)}
  BY <1>b DEF Rest
<1>2. CASE p.ok
  <2> DEFINE l == [k EXCEPT !.session = p.session]
  <2>1. l.session = p.session /\ l \in Connection /\ p.session \in Session
    BY DEF Connection
  <2>2. ASSUME NEW b PROVE [l EXCEPT !.session = b] = [k EXCEPT !.session = b]
    BY DEF Connection
  <2>3. f \in Sent(l, BeginOutcomes(p.session))
    BY <1>1, <1>2, <2>1
  <2> HIDE DEF l
  <2>4. \A b \in BeginOutcomes(p.session) : b.ok \in BOOLEAN
    BY <2>1, TextsDo
  <2>5. PICK b \in BeginOutcomes(p.session) : f = [ok |-> b.ok, connection |-> [l EXCEPT !.session = b.session]]
    BY <2>3, <2>4, SentIs
  <2> QED BY <1>2, <2>2, <2>5 DEF FinishedAs
<1>3. CASE ~ p.ok
  BY <1>1, <1>3 DEF Throw, FinishedAs
<1> QED BY <1>2, <1>3

(* What follows commit() and rollback(). *)
LEMMA JdbcEndIs ==
  ASSUME NEW k \in Connection, k.platform = "jdbc", NEW o \in EndCall(k)
  PROVE  \E f \in Finishing(k, IF k.isTransactionSuccess THEN CommitOutcomes(k.session)
                                                         ELSE RollbackOutcomes(k.session)) :
           \E e \in SetAutoCommit(f.connection, TRUE) :
             o = IF e.ok
                 THEN [ok |-> f.ok, connection |-> [e.connection EXCEPT !.isTransactionSuccess = FALSE]]
                 ELSE e
<1> DEFINE outcomes == IF k.isTransactionSuccess THEN CommitOutcomes(k.session)
                                                 ELSE RollbackOutcomes(k.session)
<1>1. EndCall(k) =
        UNION {{IF e.ok
                THEN [ok |-> f.ok, connection |-> [e.connection EXCEPT !.isTransactionSuccess = FALSE]]
                ELSE e : e \in SetAutoCommit(f.connection, TRUE)} : f \in Finishing(k, outcomes)}
  BY DEF EndCall, JdbcEnd
<1> HIDE DEF outcomes
<1>2. PICK f \in Finishing(k, outcomes) :
        o \in {IF e.ok
               THEN [ok |-> f.ok, connection |-> [e.connection EXCEPT !.isTransactionSuccess = FALSE]]
               ELSE e : e \in SetAutoCommit(f.connection, TRUE)}
  <2>1. o \in EndCall(k)
    OBVIOUS
  <2> QED BY <1>1, <2>1, Zenon
<1>3. PICK e \in SetAutoCommit(f.connection, TRUE) :
        o = IF e.ok
            THEN [ok |-> f.ok, connection |-> [e.connection EXCEPT !.isTransactionSuccess = FALSE]]
            ELSE e
  BY <1>2
<1> QED BY <1>3 DEF outcomes

(* The end of a transaction, in any state. *)
LEMMA EndIsOutcome ==
  ASSUME NEW k \in Connection, NEW o \in EndCall(k)
  PROVE  OutcomeOf(o, k, {})
<1>1. k.session \in Session /\ k.platform \in {"native", "jdbc"}
  BY PlatformsAssumption DEF Connection
<1>2. CASE k.platform = "native"
  <2> DEFINE outcomes == IF k.transaction = "started" THEN RollbackOutcomes(k.session)
                                                      ELSE CommitOutcomes(k.session)
  <2>1. \A p \in outcomes : p.ok \in BOOLEAN /\ p.session \in After(k.session, {})
    BY <1>1, TextsDo
  <2> HIDE DEF outcomes
  <2>2. CASE o.ok = FALSE /\ o.connection = [k EXCEPT !.transaction = "null"]
    <3> DEFINE l == [k EXCEPT !.transaction = "null"]
    <3>1. l \in Connection /\ l.session = k.session /\ l.platform = k.platform
      BY DEF Connection
    <3> HIDE DEF l
    <3>2. k.session \in After(k.session, {})
      BY <1>1 DEF After
    <3> QED BY <2>2, <3>1, <3>2 DEF OutcomeOf, l
  <2>3. ASSUME NEW p \in outcomes, o.ok = p.ok,
               o.connection = [k EXCEPT !.session = p.session, !.transaction = "null"]
        PROVE  OutcomeOf(o, k, {})
    <3>1. p.ok \in BOOLEAN /\ p.session \in After(k.session, {}) /\ p.session \in Session
      BY <2>1 DEF After
    <3>2. o.connection \in Connection /\ o.connection.session = p.session /\ o.connection.platform = k.platform
      BY <2>3, <3>1 DEF Connection
    <3> QED BY <2>3, <3>1, <3>2 DEF OutcomeOf
  <2>4. \/ o.ok = FALSE /\ o.connection = [k EXCEPT !.transaction = "null"]
        \/ \E p \in outcomes : NativeEndedAs(o, k, p)
    BY <1>2, NativeEndIs DEF outcomes
  <2> QED BY <2>2, <2>3, <2>4 DEF NativeEndedAs
<1>3. CASE k.platform = "jdbc"
  <2> DEFINE outcomes == IF k.isTransactionSuccess THEN CommitOutcomes(k.session)
                                                   ELSE RollbackOutcomes(k.session)
  <2>1. PICK f \in Finishing(k, outcomes) :
          \E e \in SetAutoCommit(f.connection, TRUE) :
            o = IF e.ok
                THEN [ok |-> f.ok, connection |-> [e.connection EXCEPT !.isTransactionSuccess = FALSE]]
                ELSE e
    BY <1>3, JdbcEndIs
  <2>2. \A p \in outcomes : p.ok \in BOOLEAN /\ p.session \in After(k.session, {})
    BY <1>1, TextsDo
  <2> HIDE DEF outcomes
  <2>3. OutcomeOf(f, k, {})
    <3>1. CASE k.autoCommit = TRUE
      <4>1. f = [ok |-> FALSE, connection |-> k]
        BY <3>1 DEF Finishing, Throw
      <4> QED BY <4>1, KeptSession
    <3>2. CASE k.autoCommit = FALSE
      <4>1. \A p \in outcomes : p.ok \in BOOLEAN /\ p.session \in Session
        BY <2>2 DEF After
      <4>a. (\A p \in outcomes : p.ok \in BOOLEAN) /\ (\A p \in outcomes : p.session \in Session)
        BY <4>1
      <4>b. PICK p \in outcomes : FinishedAs(f, k, p)
        BY <3>2, <4>a, FinishingDoes
      <4>2. \/ p.ok /\ \E b \in BeginOutcomes(p.session) :
                           f = [ok |-> b.ok, connection |-> [k EXCEPT !.session = b.session]]
            \/ ~ p.ok /\ f = [ok |-> FALSE, connection |-> [k EXCEPT !.session = p.session]]
        BY <4>b DEF FinishedAs
      <4>3. PICK r \in After(k.session, {}), ok \in BOOLEAN : f = [ok |-> ok, connection |-> [k EXCEPT !.session = r]]
        <5>1. ASSUME NEW b \in BeginOutcomes(p.session),
                     f = [ok |-> b.ok, connection |-> [k EXCEPT !.session = b.session]]
              PROVE  b.session \in After(k.session, {}) /\ b.ok \in BOOLEAN
          <6>1. b.ok \in BOOLEAN /\ b.session \in After(p.session, {}) /\ p.session \in After(k.session, {})
            BY <2>2, <4>1, TextsDo
          <6> QED BY <6>1 DEF After
        <5> QED BY <2>2, <4>2, <5>1
      <4>4. r \in Session
        BY DEF After
      <4>5. f.ok = ok /\ f.connection \in Connection /\ f.connection.session = r /\ f.connection.platform = k.platform
        BY <4>3, <4>4 DEF Connection
      <4> QED BY <4>5 DEF OutcomeOf
    <3>3. k.autoCommit \in BOOLEAN
      BY DEF Connection
    <3> QED BY <3>1, <3>2, <3>3
  <2>4. PICK e \in SetAutoCommit(f.connection, TRUE) :
          o = IF e.ok
              THEN [ok |-> f.ok, connection |-> [e.connection EXCEPT !.isTransactionSuccess = FALSE]]
              ELSE e
    BY <2>1
  <2>5. f.connection \in Connection
    BY <2>3 DEF OutcomeOf
  <2>6. OutcomeOf(e, f.connection, {})
    BY <2>5, SetAutoCommitIsOutcome
  <2>7. OutcomeOf(o, f.connection, {})
    <3>1. CASE e.ok = TRUE
      <4> DEFINE l == [e.connection EXCEPT !.isTransactionSuccess = FALSE]
      <4>1. l \in Connection /\ l.session = e.connection.session /\ l.platform = e.connection.platform
        BY <2>6 DEF OutcomeOf, Connection
      <4> HIDE DEF l
      <4>2. o.ok = f.ok /\ o.connection = l
        BY <2>4, <3>1 DEF l
      <4> QED BY <2>3, <2>6, <4>1, <4>2 DEF OutcomeOf
    <3>2. CASE e.ok = FALSE
      BY <2>4, <2>6, <3>2
    <3> QED BY <2>6, <3>1, <3>2 DEF OutcomeOf
  <2> QED BY <2>3, <2>5, <2>7, OutcomesCompose DEF OutcomeOf
<1> QED BY <1>1, <1>2, <1>3

-----------------------------------------------------------------------------
(* The end of a transaction, when COMMIT may fail *)

(* The texts that end a transaction. *)
LEMMA FinishingTexts ==
  ASSUME NEW s \in Session
  PROVE  /\ \A p \in CommitOutcomes(s) :
              \/ p.ok = TRUE /\ p.session = Committed(s) /\ s.inTransaction = TRUE
              \/ p.ok = FALSE /\ p.session = s
         /\ s.inTransaction = FALSE => \A p \in CommitOutcomes(s) : p.ok = FALSE /\ p.session = s
         /\ \A p \in RollbackOutcomes(s) :
              \/ p.ok = TRUE /\ p.session = RolledBack(s) /\ s.inTransaction = TRUE
              \/ p.ok = FALSE /\ p.session = s /\ s.inTransaction = FALSE
         /\ \A p \in BeginOutcomes(s) :
              \/ p.ok = TRUE /\ p.session = Begun(s) /\ s.inTransaction = FALSE
              \/ p.ok = FALSE /\ p.session = s /\ s.inTransaction = TRUE
         /\ s.inTransaction \in BOOLEAN
<1>1. s.inTransaction \in BOOLEAN
  BY DEF Session
<1>2. ASSUME NEW r PROVE /\ Succeeds(r).ok = TRUE /\ Succeeds(r).session = r
                         /\ Fails(r).ok = FALSE /\ Fails(r).session = r
  BY DEF Succeeds, Fails
<1>3. CommitOutcomes(s) \subseteq (IF s.inTransaction THEN {Succeeds(Committed(s)), Fails(s)} ELSE {Fails(s)})
  BY DEF CommitOutcomes
<1>4. RollbackOutcomes(s) = (IF s.inTransaction THEN {Succeeds(RolledBack(s))} ELSE {Fails(s)})
  BY DEF RollbackOutcomes
<1>5. BeginOutcomes(s) = (IF s.inTransaction THEN {Fails(s)} ELSE {Succeeds(Begun(s))})
  BY DEF BeginOutcomes, Begun
<1>6. ASSUME NEW p \in CommitOutcomes(s)
      PROVE  /\ \/ p.ok = TRUE /\ p.session = Committed(s) /\ s.inTransaction = TRUE
                \/ p.ok = FALSE /\ p.session = s
             /\ s.inTransaction = FALSE => p.ok = FALSE /\ p.session = s
  <2>1. CASE s.inTransaction = TRUE
    <3>1. p \in {Succeeds(Committed(s)), Fails(s)}
      BY <1>3, <2>1
    <3> QED BY <1>2, <2>1, <3>1
  <2>2. CASE s.inTransaction = FALSE
    <3>1. p = Fails(s)
      BY <1>3, <2>2
    <3> QED BY <1>2, <3>1
  <2> QED BY <1>1, <2>1, <2>2
<1>7. ASSUME NEW p \in RollbackOutcomes(s)
      PROVE  \/ p.ok = TRUE /\ p.session = RolledBack(s) /\ s.inTransaction = TRUE
             \/ p.ok = FALSE /\ p.session = s /\ s.inTransaction = FALSE
  <2>1. CASE s.inTransaction = TRUE
    <3>1. p = Succeeds(RolledBack(s))
      BY <1>4, <2>1
    <3> QED BY <1>2, <2>1, <3>1
  <2>2. CASE s.inTransaction = FALSE
    <3>1. p = Fails(s)
      BY <1>4, <2>2
    <3> QED BY <1>2, <2>2, <3>1
  <2> QED BY <1>1, <2>1, <2>2
<1>8. ASSUME NEW p \in BeginOutcomes(s)
      PROVE  \/ p.ok = TRUE /\ p.session = Begun(s) /\ s.inTransaction = FALSE
             \/ p.ok = FALSE /\ p.session = s /\ s.inTransaction = TRUE
  <2>1. CASE s.inTransaction = TRUE
    <3>1. p = Fails(s)
      BY <1>5, <2>1
    <3> QED BY <1>2, <2>1, <3>1
  <2>2. CASE s.inTransaction = FALSE
    <3>1. p = Succeeds(Begun(s))
      BY <1>5, <2>2
    <3> QED BY <1>2, <2>2, <3>1
  <2> QED BY <1>1, <2>1, <2>2
<1> QED BY <1>1, <1>6, <1>7, <1>8

(* The driver after an end: the transaction is over, unless COMMIT failed. *)
EndedAs(o, k, durable) ==
  /\ o.connection.session.durable = durable /\ o.connection.session.work = {}
  /\ o.ok => Outside(o.connection)

(* The native end sends one text and drops its record. *)
LEMMA NativeEndEither ==
  ASSUME NEW k \in Connection, k.platform = "native", NEW marked \in BOOLEAN, Inside(k, marked),
         k.session.inTransaction = FALSE => k.session.work = {}, NEW o \in EndCall(k)
  PROVE  \/ EndedAs(o, k, IF marked THEN k.session.durable \union k.session.work ELSE k.session.durable)
         \/ marked /\ o.ok = FALSE /\ o.connection.session = k.session
<1> DEFINE s == k.session
<1> DEFINE outcomes == IF marked THEN CommitOutcomes(s) ELSE RollbackOutcomes(s)
<1>1. k.transaction = (IF marked THEN "successful" ELSE "started") /\ k.autoCommit = TRUE /\ s \in Session
  BY DEF Inside, Connection
<1>a. PICK p \in outcomes : NativeEndedAs(o, k, p)
  BY <1>1, NativeEndIs
<1>2. o.ok = p.ok /\ o.connection = [k EXCEPT !.session = p.session, !.transaction = "null"]
  BY <1>a DEF NativeEndedAs
<1>3. /\ o.connection.session = p.session /\ o.connection.transaction = "null"
      /\ o.connection.autoCommit = TRUE
  BY <1>1, <1>2 DEF Connection
<1>4. CASE marked = TRUE
  <2>1. \/ p.ok = TRUE /\ p.session = Committed(s) /\ s.inTransaction = TRUE
        \/ p.ok = FALSE /\ p.session = s
    BY <1>1, <1>4, FinishingTexts
  <2>2. Committed(s).durable = s.durable \union s.work /\ Committed(s).work = {}
        /\ Committed(s).inTransaction = FALSE
    BY <1>1 DEF Committed, Session
  <2> QED BY <1>2, <1>3, <1>4, <2>1, <2>2 DEF EndedAs, Outside
<1>5. CASE marked = FALSE
  <2>1. \/ p.ok = TRUE /\ p.session = RolledBack(s) /\ s.inTransaction = TRUE
        \/ p.ok = FALSE /\ p.session = s /\ s.inTransaction = FALSE
    BY <1>1, <1>5, FinishingTexts
  <2>2. RolledBack(s).durable = s.durable /\ RolledBack(s).work = {}
        /\ RolledBack(s).inTransaction = FALSE
    BY <1>1 DEF RolledBack, Session
  <2> QED BY <1>2, <1>3, <1>5, <2>1, <2>2 DEF EndedAs, Outside
<1> QED BY <1>4, <1>5

(* After rollback() or commit(), and then auto-commit again. *)
LEMMA JdbcEndEither ==
  ASSUME NEW k \in Connection, k.platform = "jdbc", NEW marked \in BOOLEAN, Inside(k, marked),
         k.session.inTransaction = FALSE => k.session.work = {}, NEW o \in EndCall(k)
  PROVE  \/ EndedAs(o, k, IF marked THEN k.session.durable \union k.session.work ELSE k.session.durable)
         \/ marked /\ o.ok = FALSE /\ o.connection.session = k.session
<1> DEFINE s == k.session
<1> DEFINE outcomes == IF marked THEN CommitOutcomes(s) ELSE RollbackOutcomes(s)
<1> DEFINE final == IF marked THEN s.durable \union s.work ELSE s.durable
<1>1. /\ k.transaction = "null" /\ k.autoCommit = FALSE /\ k.isTransactionSuccess = marked /\ s \in Session
  BY DEF Inside, Connection
<1>2. PICK f \in Finishing(k, outcomes) :
        \E e \in SetAutoCommit(f.connection, TRUE) :
          o = IF e.ok
              THEN [ok |-> f.ok, connection |-> [e.connection EXCEPT !.isTransactionSuccess = FALSE]]
              ELSE e
  BY <1>1, JdbcEndIs
<1>3. \A p \in outcomes : p.ok \in BOOLEAN /\ p.session \in Session
  BY <1>1, TextsDo DEF After
<1>a. PICK p \in outcomes : FinishedAs(f, k, p)
  <2> HIDE DEF outcomes
  <2>1. (\A p \in outcomes : p.ok \in BOOLEAN) /\ (\A p \in outcomes : p.session \in Session)
    BY <1>3
  <2> QED BY <1>1, <2>1, FinishingDoes
<1>4. \/ p.ok /\ \E b \in BeginOutcomes(p.session) :
                     f = [ok |-> b.ok, connection |-> [k EXCEPT !.session = b.session]]
      \/ ~ p.ok /\ f = [ok |-> FALSE, connection |-> [k EXCEPT !.session = p.session]]
  BY <1>a DEF FinishedAs
<1>5. PICK e \in SetAutoCommit(f.connection, TRUE) :
        o = IF e.ok
            THEN [ok |-> f.ok, connection |-> [e.connection EXCEPT !.isTransactionSuccess = FALSE]]
            ELSE e
  BY <1>2
(* What commit() and rollback() leave. *)
<1>6. /\ f.connection = [k EXCEPT !.session = f.connection.session] /\ f.connection.session \in Session
      /\ \/ /\ f.connection.session.durable = final /\ f.connection.session.work = {}
         \/ marked /\ f.ok = FALSE /\ f.connection.session = s
  <2>1. \/ p.ok = TRUE /\ p.session.durable = final /\ p.session.inTransaction = FALSE
        \/ p.ok = FALSE /\ p.session = s /\ (marked \/ s.inTransaction = FALSE)
    <3>1. Committed(s).durable = s.durable \union s.work /\ Committed(s).inTransaction = FALSE
          /\ RolledBack(s).durable = s.durable /\ RolledBack(s).inTransaction = FALSE
      BY <1>1 DEF Committed, RolledBack, Session
    <3> QED BY <1>1, <3>1, FinishingTexts
  <2>2. CASE p.ok = TRUE
    <3>1. PICK b \in BeginOutcomes(p.session) :
             f = [ok |-> b.ok, connection |-> [k EXCEPT !.session = b.session]]
      BY <1>4, <2>2
    <3>2. b.session = Begun(p.session) /\ p.session \in Session
      <4>1. p.session \in Session /\ p.session.inTransaction = FALSE
        BY <1>3, <2>1, <2>2
      <4> QED BY <4>1, FinishingTexts
    <3>3. b.session \in Session /\ b.session.durable = final /\ b.session.work = {}
      BY <2>1, <2>2, <3>2 DEF Begun, Session
    <3>4. f.connection = [k EXCEPT !.session = b.session]
      BY <3>1
    <3>5. f.connection.session = b.session
      BY <3>4 DEF Connection
    <3> QED BY <3>3, <3>4, <3>5
  <2>3. CASE p.ok = FALSE
    <3>1. f = [ok |-> FALSE, connection |-> [k EXCEPT !.session = s]]
      BY <1>4, <2>1, <2>3
    <3>2. f.ok = FALSE /\ f.connection = [k EXCEPT !.session = s]
      BY <3>1
    <3>3. f.connection.session = s
      BY <3>2 DEF Connection
    <3> QED BY <1>1, <2>1, <2>3, <3>2, <3>3
  <2> QED BY <2>1, <2>2, <2>3
(* What turning auto-commit on makes of it. *)
<1> DEFINE r == f.connection.session
<1> DEFINE on == [f.connection EXCEPT !.autoCommit = TRUE]
<1>7. /\ on.session = r /\ on.transaction = "null" /\ on.autoCommit = TRUE /\ on \in Connection
      /\ f.connection.autoCommit = FALSE
  BY <1>1, <1>6 DEF Connection
<1>8. PICK c \in CommitOutcomes(r) : e = [ok |-> c.ok, connection |-> [on EXCEPT !.session = c.session]]
  <2>1. e \in Sent(on, CommitOutcomes(r))
    BY <1>5, <1>7 DEF SetAutoCommit, Sending, Done, Sent
  <2>2. \A c \in CommitOutcomes(r) : c.ok \in BOOLEAN
    BY <1>6, TextsDo
  <2> HIDE DEF on, r
  <2> QED BY <2>1, <2>2, SentIs
<1>9. \/ c.ok = TRUE /\ c.session = Committed(r) /\ r.inTransaction = TRUE
      \/ c.ok = FALSE /\ c.session = r
  BY <1>6, FinishingTexts
<1>10. Committed(r).durable = r.durable \union r.work /\ Committed(r).work = {}
       /\ Committed(r).inTransaction = FALSE /\ Committed(r) \in Session
  BY <1>6 DEF Committed, Session
<1>11. /\ e.ok = c.ok /\ e.connection.session = c.session /\ e.connection.transaction = "null"
       /\ e.connection.autoCommit = TRUE /\ e.connection \in Connection
  BY <1>6, <1>7, <1>8, <1>9, <1>10 DEF Connection
<1> HIDE DEF on, r, final, s
<1>12. CASE c.ok = TRUE
  <2>1. o = [ok |-> f.ok, connection |-> [e.connection EXCEPT !.isTransactionSuccess = FALSE]]
    BY <1>5, <1>11, <1>12
  <2>2. /\ o.connection.session = Committed(r) /\ o.connection.transaction = "null"
        /\ o.connection.autoCommit = TRUE
    BY <1>9, <1>11, <1>12, <2>1 DEF Connection
  <2>3. r.durable \union r.work = final
    BY <1>6 DEF r, final, s
  <2> QED BY <1>10, <2>2, <2>3 DEF EndedAs, Outside, final, s
<1>13. CASE c.ok = FALSE
  <2>1. o = e /\ o.ok = FALSE /\ o.connection.session = r
    BY <1>5, <1>9, <1>11, <1>13
  <2> QED BY <1>6, <2>1 DEF EndedAs, final, s, r
<1> QED BY <1>9, <1>12, <1>13

(* With the mark the work becomes durable or, if COMMIT fails each time,   *)
(* stays the work of the open transaction; without it, it is gone.         *)
LEMMA EndEither ==
  ASSUME NEW k \in Connection, NEW marked \in BOOLEAN, Inside(k, marked),
         k.session.inTransaction = FALSE => k.session.work = {}, NEW o \in EndCall(k)
  PROVE  \/ EndedAs(o, k, IF marked THEN k.session.durable \union k.session.work ELSE k.session.durable)
         \/ marked /\ o.ok = FALSE /\ o.connection.session = k.session
<1>1. k.platform \in {"native", "jdbc"}
  BY PlatformsAssumption DEF Connection
<1> QED BY <1>1, NativeEndEither, JdbcEndEither

================================================================================
