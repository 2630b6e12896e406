--------------------------- MODULE MigrationProofs ---------------------------
(***************************************************************************)
(* Proofs about Migration, for every set of openers, processes, versions   *)
(* and journal modes, callbacks of any length, both drivers, and all the   *)
(* faults of SqliteSession: failing statements, automatic rollbacks and    *)
(* failing COMMITs.                                                        *)
(***************************************************************************)
EXTENDS Migration, DriverCallsProofs

-----------------------------------------------------------------------------
(* The inductive invariant of every instance *)

(* The stages before an opener's connection is used, and those without a   *)
(* handle of their own.                                                    *)
Fresh == {"closed", "waiting", "opening", "journal", "begin", "threw", "threwEarly"}
Handleless == {"closed", "waiting", "opening", "threw", "threwEarly"}
Unlocked == {"closed", "threw", "threwEarly", "waiting", "open"}

FreshInv == \A o \in Opener : stage[o] \in Fresh => connection[o] = Closed(o)

(* Handles are counted exactly: those nobody can close, and the one in use. *)
HandlesInv ==
  \A o \in Opener :
    /\ stage[o] \in Handleless => handles[o] = lost[o]
    /\ stage[o] \notin Handleless => handles[o] = lost[o] + 1
    /\ lost[o] <= opens[o]
    /\ stage[o] \notin Idle => lost[o] < opens[o]

(* The creation lock is held by the opener that is in openDatabase. *)
LockInv == \A o \in Opener : creationLock[ProcessOf[o]] = o <=> stage[o] \notin Unlocked

WorkOf(o) == connection[o].session.work

(* An opener writes for the version it was asked for. *)
WorkInv == \A o \in Opener : \A w \in WorkOf(o) : w.to = config[o].version

(* The newest mark of a database, if there is one. *)
Tos(db) == {w.to : w \in {x \in db : x.part = 0}} \union {0}
Newest(db, v) == v \in Tos(db) /\ \A y \in Tos(db) : y <= v
NewestInv == \E v \in Tos(file) : Newest(file, v)

AskedInv == \A o \in Opener : stage[o] # "closed" => config[o] \in asked[o]

TypeInv ==
  /\ TypeOK /\ FreshInv /\ HandlesInv /\ LockInv
  /\ WorkInv /\ NewestInv /\ AskedInv

-----------------------------------------------------------------------------
(* Versions, marks and changes *)

(* The changes are what their fields say. *)
LEMMA ChangesAre ==
  ASSUME NEW f, NEW v, NEW k
  PROVE  Change(f, v, k).from = f /\ Change(f, v, k).to = v /\ Change(f, v, k).part = k
BY DEF Change

(* A write is a change, and the changes of migrations are writes. *)
LEMMA WritesAre ==
  /\ \A w \in Write : /\ w.from \in Versions \union {0} /\ w.to \in Versions /\ w.part \in 0 .. Parts
                      /\ w = Change(w.from, w.to, w.part)
  /\ \A f \in Versions \union {0}, v \in Versions, k \in 0 .. Parts : Change(f, v, k) \in Write
  /\ Versions \subseteq Nat \ {0} /\ Parts \in Nat
<1>1. \A f \in Versions \union {0}, v \in Versions, k \in 0 .. Parts : Change(f, v, k) \in Write
  BY WriteAssumption
<1>2. ASSUME NEW w \in Write
      PROVE  /\ w.from \in Versions \union {0} /\ w.to \in Versions /\ w.part \in 0 .. Parts
             /\ w = Change(w.from, w.to, w.part)
  <2>1. PICK f \in Versions \union {0}, v \in Versions, k \in 0 .. Parts : w = Change(f, v, k)
    BY WriteAssumption
  <2> QED BY <2>1, ChangesAre
<1> QED BY <1>1, <1>2, VersionsAssumption, BoundsAssumption

(* Versions are numbers. *)
LEMMA TosAreNumbers ==
  ASSUME NEW db \in SUBSET Write, NEW y \in Tos(db)
  PROVE  y \in Nat
<1>1. Tos(db) \subseteq Versions \union {0} /\ Versions \subseteq Nat
  BY WritesAre DEF Tos
<1>2. y \in Versions \/ y = 0
  BY <1>1
<1>3. CASE y \in Versions
  BY <1>1, <1>3
<1>4. CASE y = 0
  BY <1>4
<1> QED BY <1>2, <1>3, <1>4

(* PRAGMA user_version gives the newest mark. *)
LEMMA NewestIsUserVersion ==
  ASSUME NEW db \in SUBSET Write, NEW v, Newest(db, v)
  PROVE  UserVersion(db) = v /\ v \in Versions \union {0}
<1>1. Tos(db) \subseteq Versions \union {0} /\ Versions \subseteq Nat
  BY WritesAre DEF Tos
<1>a. ASSUME NEW y \in Tos(db) PROVE y \in Nat
  BY <1>a, TosAreNumbers
<1>b. v \in Tos(db)
  BY DEF Newest
<1>2. UserVersion(db) = Max(Tos(db))
  BY DEF UserVersion, Tos
<1>3. v \in Tos(db) /\ \A y \in Tos(db) : v >= y
  BY <1>1 DEF Newest
<1>4. ASSUME NEW x \in Tos(db), \A y \in Tos(db) : x >= y PROVE x = v
  <2>1. x \in Nat /\ v \in Nat
    BY <1>a, <1>b
  <2>2. x >= v
    BY <1>3, <1>4
  <2>3. v >= x
    BY <1>3
  <2> QED BY <2>1, <2>2, <2>3
<1>5. Max(Tos(db)) = v
  BY <1>3, <1>4 DEF Max
<1> QED BY <1>1, <1>2, <1>3, <1>5

(* Marks of one more version leave a newest one. *)
LEMMA NewestStays ==
  ASSUME NEW db \in SUBSET Write, NEW more \in SUBSET Write, NEW v \in Versions,
         \E x \in Tos(db) : Newest(db, x), db \subseteq more, \A w \in more \ db : w.to = v
  PROVE  \E x \in Tos(more) : Newest(more, x)
<1>1. PICK x \in Tos(db) : Newest(db, x)
  OBVIOUS
<1>2. Tos(db) \subseteq Tos(more) /\ Tos(more) \subseteq Tos(db) \union {v}
  BY DEF Tos
<1>3. Tos(db) \subseteq Nat /\ v \in Nat
  BY WritesAre DEF Tos
<1>4. CASE v \in Tos(more) /\ x <= v
  <2>1. \A y \in Tos(more) : y <= v
    BY <1>1, <1>2, <1>3, <1>4 DEF Newest
  <2> QED BY <1>4, <2>1 DEF Newest
<1>5. CASE ~ (v \in Tos(more) /\ x <= v)
  <2>1. \A y \in Tos(more) : y <= x
    BY <1>1, <1>2, <1>3, <1>5 DEF Newest
  <2> QED BY <1>2, <2>1 DEF Newest
<1> QED BY <1>4, <1>5

-----------------------------------------------------------------------------
(* Calls over the file *)

(* The connection of an opener, over the file. *)
LEMMA NowIs ==
  ASSUME TypeOK, NEW o \in Opener
  PROVE  /\ Now(o) \in Connection /\ SameDriver(Now(o), connection[o])
         /\ Now(o).session \in Session /\ Now(o).session.durable = file
         /\ Now(o).session.work = WorkOf(o)
         /\ Now(o).session.inTransaction = connection[o].session.inTransaction
<1>1. connection[o] \in Connection /\ file \in SUBSET Write
  BY DEF TypeOK
<1> QED BY <1>1 DEF Now, Connection, Session, SameDriver, WorkOf

(* A write over the file. *)
LEMMA WriteIsOutcome ==
  ASSUME TypeOK, NEW o \in Opener, NEW w \in Write, NEW outcome \in WriteCall(o, w)
  PROVE  OutcomeOf(outcome, Now(o), {w})
<1>1. Now(o) \in Connection /\ Now(o).session \in Session
  BY NowIs
<1>2. CASE MayWriteFile(o)
  BY <1>1, <1>2, ExecIsOutcome DEF WriteCall
<1>3. CASE ~ MayWriteFile(o)
  <2>1. outcome.ok = FALSE /\ outcome.connection = Now(o)
    BY <1>3 DEF WriteCall, Throw
  <2>2. Now(o).session \in After(Now(o).session, {w})
    BY <1>1 DEF After
  <2> QED BY <1>1, <2>1, <2>2 DEF OutcomeOf
<1> QED BY <1>2, <1>3

(* What the rest of the system sees of a call: the file only grows, by     *)
(* writes of this opener, and no other connection changes.                 *)
Touches(o, W) ==
  /\ connection' \in [Opener -> Connection]
  /\ \A u \in Opener \ {o} : connection'[u] = connection[u]
  /\ connection'[o].platform = connection[o].platform
  /\ WorkOf(o)' \subseteq WorkOf(o) \union W
  /\ file' \subseteq Write /\ file \subseteq file' /\ file' \subseteq file \union WorkOf(o) \union W
  /\ snapshot' \in [Opener -> (SUBSET Write) \union {NoSnapshot}]
  /\ UNCHANGED <<journalMode, writable, handles, history>>

(* Every call of the driver touches no more than that. *)
LEMMA EffectTouches ==
  ASSUME TypeOK, NEW o \in Opener, NEW W \in SUBSET Write, NEW outcome,
         OutcomeOf(outcome, Now(o), W), Effect(o, outcome)
  PROVE  Touches(o, W)
<1> DEFINE c == outcome.connection
<1> DEFINE t == c.session
<1>1. /\ c \in Connection /\ c.platform = Now(o).platform /\ t \in Session
      /\ t.work \subseteq Now(o).session.work \union W /\ Now(o).session.durable \subseteq t.durable
      /\ t.durable \subseteq Now(o).session.durable \union Now(o).session.work \union W
  BY DEF OutcomeOf, After
<1>2. /\ Now(o).session.durable = file /\ Now(o).session.work = WorkOf(o)
      /\ Now(o).platform = connection[o].platform
  BY NowIs DEF SameDriver
<1>3. /\ connection' = [connection EXCEPT ![o] = [c EXCEPT !.session.durable = {}]]
      /\ file' = t.durable
      /\ snapshot' = IF t.inTransaction THEN snapshot ELSE [snapshot EXCEPT ![o] = NoSnapshot]
      /\ UNCHANGED <<journalMode, writable, handles, history>>
  BY DEF Effect
<1> HIDE DEF c
<1> DEFINE d == [c EXCEPT !.session.durable = {}]
<1>4. d \in Connection /\ d.platform = c.platform /\ d.session.work = t.work
  BY <1>1 DEF Connection, Session
<1> HIDE DEF d, t
<1>5. /\ connection' \in [Opener -> Connection] /\ connection'[o] = d
      /\ \A u \in Opener \ {o} : connection'[u] = connection[u]
  BY <1>3, <1>4 DEF d, TypeOK
<1>6. WorkOf(o)' = t.work
  BY <1>4, <1>5 DEF WorkOf
<1>7. snapshot' \in [Opener -> (SUBSET Write) \union {NoSnapshot}]
  BY <1>3 DEF TypeOK
<1>8. file' \subseteq Write
  BY <1>1, <1>3 DEF Session
<1> QED BY <1>1, <1>2, <1>3, <1>4, <1>5, <1>6, <1>7, <1>8 DEF Touches

-----------------------------------------------------------------------------
(* Steps within migrateIfNeeded *)

(* The stages of migrateIfNeeded after its BEGIN, and those it leaves to. *)
Inner == {"version", "scope", "callback", "leaveScope", "setVersion", "mark", "end", "unwind", "unwindScope"}
Left == {"close", "open"}

(* Opener o goes on to stage s, having written W, and unlocks if it        *)
(* returns the connection.                                                 *)
Migrates(o, s, W) ==
  /\ stage[o] \in Inner \union {"begin"} /\ s \in Inner \union Left
  /\ stage' = [stage EXCEPT ![o] = s]
  /\ W \subseteq Write /\ \A w \in W : w.to = config[o].version
  /\ Touches(o, W)
  /\ creationLock' = IF s = "open" THEN [creationLock EXCEPT ![ProcessOf[o]] = Free] ELSE creationLock
  /\ UNCHANGED <<config, opens>>
  /\ initialVersion' \in [Opener -> Versions \union {0}]
  /\ part' \in [Opener -> 1 .. Parts + 1]

(* Such a step keeps the invariant. *)
LEMMA MigratesKeeps ==
  ASSUME TypeInv, NEW o \in Opener, NEW s, NEW W, Migrates(o, s, W)
  PROVE  TypeInv'
<1> USE DEF TypeInv
<1>1. /\ stage[o] \notin Fresh \/ stage[o] = "begin"
      /\ stage[o] \notin Handleless /\ stage[o] \notin Unlocked /\ stage[o] \notin Idle
      /\ s \notin Fresh /\ s \notin Handleless /\ s \notin Idle /\ s \in Stages
      /\ s \in Unlocked <=> s = "open"
      /\ stage[o] # "closed"
  BY DEF Migrates, Inner, Left, Fresh, Handleless, Unlocked, Idle, Stages
<1>2. /\ stage' \in [Opener -> Stages] /\ stage'[o] = s
      /\ \A u \in Opener \ {o} : stage'[u] = stage[u]
  BY <1>1 DEF Migrates, TypeOK
<1>3. Touches(o, W) /\ UNCHANGED <<config, opens>> /\ handles' = handles /\ lost' = lost /\ asked' = asked
      /\ journalMode' = journalMode /\ writable' = writable
  BY DEF Migrates, Touches, history
<1>4. ProcessOf[o] \in Process /\ creationLock[ProcessOf[o]] = o /\ Free \notin Opener
  BY <1>1, OpenersAssumption DEF LockInv
<1>5. TypeOK'
  <2>1. creationLock' \in [Process -> Opener \union {Free}]
    BY DEF Migrates, TypeOK
  <2>2. initialVersion' \in [Opener -> Versions \union {0}] /\ part' \in [Opener -> 1 .. Parts + 1]
    BY DEF Migrates
  <2>3. /\ connection' \in [Opener -> Connection] /\ file' \subseteq Write
        /\ snapshot' \in [Opener -> (SUBSET Write) \union {NoSnapshot}]
    BY <1>3 DEF Touches
  <2> QED BY <1>2, <1>3, <2>1, <2>2, <2>3 DEF TypeOK
<1>6. FreshInv'
  <2>1. ASSUME NEW u \in Opener, stage'[u] \in Fresh PROVE connection'[u] = Closed(u)'
    <3>1. u # o
      BY <1>1, <1>2, <2>1
    <3>2. connection'[u] = connection[u] /\ stage[u] \in Fresh
      BY <1>2, <1>3, <2>1, <3>1 DEF Touches
    <3> QED BY <3>2 DEF FreshInv, Closed
  <2> QED BY <2>1 DEF FreshInv
<1>7. HandlesInv'
  <2>1. ASSUME NEW u \in Opener
        PROVE  /\ stage'[u] \in Handleless => handles[u] = lost[u]
               /\ stage'[u] \notin Handleless => handles[u] = lost[u] + 1
               /\ lost[u] <= opens[u] /\ stage'[u] \notin Idle => lost[u] < opens[u]
    BY <1>1, <1>2 DEF HandlesInv
  <2> QED BY <1>3, <2>1 DEF HandlesInv
<1>8. LockInv'
  <2>1. ASSUME NEW u \in Opener PROVE creationLock'[ProcessOf[u]] = u <=> stage'[u] \notin Unlocked
    <3>1. ProcessOf[u] \in Process
      BY OpenersAssumption
    <3>2. CASE s = "open"
      <4>1. creationLock' = [creationLock EXCEPT ![ProcessOf[o]] = Free]
        BY <3>2 DEF Migrates
      <4>2. CASE ProcessOf[u] = ProcessOf[o]
        <5>1. creationLock'[ProcessOf[u]] = Free
          BY <1>4, <4>1, <4>2 DEF TypeOK
        <5>2. u = o \/ stage[u] \in Unlocked
          BY <1>4, <4>2 DEF LockInv
        <5> QED BY <1>1, <1>2, <1>4, <3>2, <5>1, <5>2
      <4>3. CASE ProcessOf[u] # ProcessOf[o]
        <5>1. creationLock'[ProcessOf[u]] = creationLock[ProcessOf[u]] /\ u # o
          BY <3>1, <4>1, <4>3 DEF TypeOK
        <5> QED BY <1>2, <5>1 DEF LockInv
      <4> QED BY <4>2, <4>3
    <3>3. CASE s # "open"
      <4>1. creationLock' = creationLock
        BY <3>3 DEF Migrates
      <4> QED BY <1>1, <1>2, <1>4, <3>3, <4>1 DEF LockInv
    <3> QED BY <3>2, <3>3
  <2> QED BY <2>1 DEF LockInv
<1>9. WorkInv'
  <2>1. ASSUME NEW u \in Opener, NEW w \in WorkOf(u)' PROVE w.to = config[u].version
    <3>1. CASE u = o
      BY <1>3, <2>1, <3>1 DEF WorkInv, Migrates, Touches
    <3>2. CASE u # o
      <4>1. WorkOf(u)' = WorkOf(u)
        BY <1>3, <3>2 DEF Touches, WorkOf
      <4> QED BY <2>1, <4>1 DEF WorkInv
    <3> QED BY <3>1, <3>2
  <2> QED BY <1>3, <2>1 DEF WorkInv
<1>10. NewestInv'
  <2>1. file \in SUBSET Write /\ file' \in SUBSET Write /\ file \subseteq file' /\ config[o].version \in Versions
    BY <1>3 DEF Touches, TypeOK, Configuration
  <2>2. \A w \in file' \ file : w.to = config[o].version
    BY <1>3 DEF Touches, Migrates, WorkInv
  <2>3. \E x \in Tos(file') : Newest(file', x)
    BY <2>1, <2>2, NewestStays DEF NewestInv
  <2> QED BY <2>3 DEF NewestInv, Newest, Tos
<1>11. AskedInv'
  BY <1>1, <1>2, <1>3 DEF AskedInv
<1> QED BY <1>5, <1>6, <1>7, <1>8, <1>9, <1>10, <1>11

(* A call of the driver is such a step. *)
LEMMA CallingMigrates ==
  ASSUME TypeInv, NEW o \in Opener, NEW from \in Inner \union {"begin"}, NEW outcomes, NEW W \in SUBSET Write,
         NEW next \in Inner \union {"close"}, NEW failed \in Inner \union {"close"},
         \A x \in outcomes : OutcomeOf(x, Now(o), W), \A w \in W : w.to = config[o].version,
         Calling(o, from, outcomes, next, failed), UNCHANGED <<config, opens>>,
         initialVersion' \in [Opener -> Versions \union {0}], part' \in [Opener -> 1 .. Parts + 1]
  PROVE  \E s : Migrates(o, s, W)
<1>1. PICK x \in outcomes : Effect(o, x) /\ GoTo(o, IF x.ok THEN next ELSE failed)
  BY DEF Calling
<1>2. Touches(o, W)
  BY <1>1, EffectTouches DEF TypeInv
<1>3. PICK s \in {next, failed} : stage' = [stage EXCEPT ![o] = s]
  BY <1>1 DEF GoTo
<1>4. stage[o] = from /\ creationLock' = creationLock
  BY DEF Calling
<1>5. s \in Inner \union Left /\ s # "open"
  BY DEF Inner, Left
<1>6. Migrates(o, s, W)
  BY <1>2, <1>3, <1>4, <1>5 DEF Migrates
<1> QED BY <1>6

(* So is a step that touches nothing but, perhaps, the snapshot. *)
LEMMA StepMigrates ==
  ASSUME TypeInv, NEW o \in Opener, NEW next \in Inner \union {"close"},
         stage[o] \in Inner \union {"begin"}, stage' = [stage EXCEPT ![o] = next],
         UNCHANGED <<fileVars, connection, handles, creationLock, history, config, opens>>,
         snapshot' \in [Opener -> (SUBSET Write) \union {NoSnapshot}],
         initialVersion' \in [Opener -> Versions \union {0}], part' \in [Opener -> 1 .. Parts + 1]
  PROVE  \E s : Migrates(o, s, {})
<1>1. Touches(o, {})
  BY DEF Touches, TypeInv, TypeOK, fileVars, WorkOf
<1>2. next \in Inner \union Left /\ next # "open"
  BY DEF Inner, Left
<1>3. Migrates(o, next, {})
  BY <1>1, <1>2 DEF Migrates
<1> QED BY <1>3

(* The changes an opener makes are writes for its version. *)
LEMMA MigratingIs ==
  ASSUME TypeInv, NEW o \in Opener, NEW k \in 0 .. Parts
  PROVE  /\ Migrating(o, k) \in Write /\ Migrating(o, k).to = config[o].version
         /\ Migrating(o, k).from = initialVersion[o] /\ Migrating(o, k).part = k
<1>1. initialVersion[o] \in Versions \union {0} /\ config[o].version \in Versions
  BY DEF TypeInv, TypeOK, Configuration
<1>2. Migrating(o, k) = Change(initialVersion[o], config[o].version, k)
  BY DEF Migrating
<1> DEFINE f == initialVersion[o]
<1> DEFINE v == config[o].version
<1>3. f \in Versions \union {0} /\ v \in Versions
  BY <1>1
<1> HIDE DEF f, v
<1>4. Change(f, v, k) \in Write
  BY <1>3, WritesAre
<1>5. Change(f, v, k).from = f /\ Change(f, v, k).to = v /\ Change(f, v, k).part = k
  BY ChangesAre
<1> QED BY <1>2, <1>4, <1>5 DEF f, v

(* The local variables of migrateIfNeeded, gone. *)
LEMMA LocalsDieTypes ==
  ASSUME TypeInv, NEW left, LocalsDie(left)
  PROVE  /\ initialVersion' \in [Opener -> Versions \union {0}] /\ part' \in [Opener -> 1 .. Parts + 1]
         /\ UNCHANGED <<config, opens>>
<1>1. 1 \in 1 .. Parts + 1
  BY BoundsAssumption
<1> QED BY <1>1 DEF LocalsDie, TypeInv, TypeOK

(* Reading the version. *)
LEMMA ReadVersionMigrates ==
  ASSUME TypeInv, NEW o \in Opener, ReadVersion(o)
  PROVE  \E s : Migrates(o, s, {})
<1>1. UserVersion(file) \in Versions \union {0}
  <2>1. PICK v \in Tos(file) : Newest(file, v)
    BY DEF TypeInv, NewestInv
  <2> QED BY <2>1, NewestIsUserVersion DEF TypeInv, TypeOK
<1>2. 1 \in 1 .. Parts + 1
  BY BoundsAssumption
<1>3. PICK next \in {"scope", "callback", "mark", "unwind"} : stage' = [stage EXCEPT ![o] = next]
  <2> DEFINE found == UserVersion(file)
  <2> DEFINE wanted == config[o].version
  <2> DEFINE next == CASE found = 0      -> Callback(o)
                       [] found = wanted -> "mark"
                       [] found > wanted -> "unwind"
                       [] OTHER          -> IF IsActualReadOnly(o) THEN "unwind" ELSE Callback(o)
  <2>1. stage' = [stage EXCEPT ![o] = next]
    BY DEF ReadVersion, GoTo
  <2>2. Callback(o) \in {"scope", "callback"}
    BY DEF Callback
  <2>3. next \in {"scope", "callback", "mark", "unwind"}
    BY <2>2
  <2> HIDE DEF next
  <2> QED BY <2>1, <2>3
<1>4. next \in Inner \union {"close"} /\ stage[o] \in Inner \union {"begin"}
  BY DEF Inner, ReadVersion
<1>5. /\ snapshot' \in [Opener -> (SUBSET Write) \union {NoSnapshot}]
      /\ initialVersion' \in [Opener -> Versions \union {0}] /\ part' \in [Opener -> 1 .. Parts + 1]
  <2>1. snapshot' = [snapshot EXCEPT ![o] = file] /\ file \in SUBSET Write
    BY DEF ReadVersion, TypeInv, TypeOK
  <2>2. initialVersion' = [initialVersion EXCEPT ![o] = UserVersion(file)] /\ part' = [part EXCEPT ![o] = 1]
    BY DEF ReadVersion
  <2> QED BY <1>1, <1>2, <2>1, <2>2 DEF TypeInv, TypeOK
<1>6. UNCHANGED <<fileVars, connection, handles, creationLock, history, config, opens>>
  BY DEF ReadVersion
<1> QED BY <1>3, <1>4, <1>5, <1>6, StepMigrates

(* Every step of migrateIfNeeded. *)
InnerStep(o) ==
  \/ BeginMigration(o) \/ ReadVersion(o) \/ ReadVersionThrows(o)
  \/ BeginScope(o) \/ CallbackStatement(o) \/ CallbackThrows(o)
  \/ CallbackReturns(o) \/ LeaveScope(o)
  \/ SetVersion(o) \/ Mark(o) \/ EndMigration(o) \/ Unwind(o)

(* They migrate, as above. *)
LEMMA InnerMigrates ==
  ASSUME TypeInv, NEW o \in Opener, InnerStep(o)
  PROVE  \E s, W : Migrates(o, s, W)
<1>1. Now(o) \in Connection
  BY NowIs DEF TypeInv
<1>2. /\ \A x \in BeginCall(Now(o)) : OutcomeOf(x, Now(o), {})
      /\ \A x \in SetSuccessfulCall(Now(o)) : OutcomeOf(x, Now(o), {})
      /\ \A x \in EndCall(Now(o)) : OutcomeOf(x, Now(o), {})
  BY <1>1, BeginIsOutcome, SetSuccessfulIsOutcome, EndIsOutcome
<1>3. /\ {} \in SUBSET Write
      /\ "version" \in Inner \union {"close"} /\ "callback" \in Inner \union {"close"}
      /\ "leaveScope" \in Inner \union {"close"} /\ "setVersion" \in Inner \union {"close"}
      /\ "mark" \in Inner \union {"close"} /\ "end" \in Inner \union {"close"}
      /\ "unwind" \in Inner \union {"close"} /\ "unwindScope" \in Inner \union {"close"}
      /\ "close" \in Inner \union {"close"}
      /\ "begin" \in Inner \union {"begin"} /\ "version" \in Inner \union {"begin"}
      /\ "scope" \in Inner \union {"begin"} /\ "callback" \in Inner \union {"begin"}
      /\ "leaveScope" \in Inner \union {"begin"} /\ "setVersion" \in Inner \union {"begin"}
      /\ "mark" \in Inner \union {"begin"} /\ "unwind" \in Inner \union {"begin"}
      /\ "unwindScope" \in Inner \union {"begin"} /\ AfterFailure(o) \in Inner \union {"close"}
  BY DEF Inner, AfterFailure
<1>4. /\ snapshot \in [Opener -> (SUBSET Write) \union {NoSnapshot}]
      /\ initialVersion \in [Opener -> Versions \union {0}] /\ part \in [Opener -> 1 .. Parts + 1]
  BY DEF TypeInv, TypeOK
<1>5. ASSUME UNCHANGED openerVars
      PROVE  /\ initialVersion' \in [Opener -> Versions \union {0}] /\ part' \in [Opener -> 1 .. Parts + 1]
             /\ UNCHANGED <<config, opens>>
  BY <1>4, <1>5 DEF openerVars
(* A call that writes nothing, and a step without a call. *)
<1>6. ASSUME NEW from \in Inner \union {"begin"}, NEW outcomes, NEW next \in Inner \union {"close"},
             NEW failed \in Inner \union {"close"}, \A x \in outcomes : OutcomeOf(x, Now(o), {}),
             Calling(o, from, outcomes, next, failed), UNCHANGED openerVars
      PROVE  \E s, W : Migrates(o, s, W)
  <2>1. \A w \in {} : w.to = config[o].version
    OBVIOUS
  <2>2. \E s : Migrates(o, s, {})
    BY <1>3, <1>5, <1>6, <2>1, CallingMigrates
  <2> QED BY <2>2
<1>7. ASSUME NEW from \in Inner \union {"begin"}, NEW next \in Inner \union {"close"},
             Step(o, from, next), UNCHANGED openerVars
      PROVE  \E s, W : Migrates(o, s, W)
  <2>1. /\ stage[o] = from /\ stage' = [stage EXCEPT ![o] = next]
        /\ UNCHANGED <<fileVars, connection, handles, creationLock, history>> /\ snapshot' = snapshot
    BY <1>7 DEF Step, GoTo
  <2>2. \E s : Migrates(o, s, {})
    BY <1>4, <1>5, <1>7, <2>1, StepMigrates
  <2> QED BY <2>2
<1>8. CASE BeginMigration(o)
  BY <1>2, <1>3, <1>6, <1>8 DEF BeginMigration
<1>9. CASE ReadVersion(o)
  BY <1>9, ReadVersionMigrates
<1>10. CASE ReadVersionThrows(o)
  BY <1>3, <1>7, <1>10 DEF ReadVersionThrows
<1>11. CASE BeginScope(o)
  BY <1>2, <1>3, <1>6, <1>11 DEF BeginScope
<1>12. CASE CallbackStatement(o)
  <2>1. /\ part[o] <= Parts /\ UNCHANGED <<config, opens>> /\ initialVersion' = initialVersion
        /\ Calling(o, "callback", WriteCall(o, Migrating(o, part[o])), "callback", AfterFailure(o))
        /\ part' = IF stage'[o] = "callback" THEN [part EXCEPT ![o] = @ + 1] ELSE part
    BY <1>12 DEF CallbackStatement
  <2>2. part[o] \in 0 .. Parts /\ part[o] + 1 \in 1 .. Parts + 1
    BY <1>4, <2>1, BoundsAssumption
  <2>3. part' \in [Opener -> 1 .. Parts + 1]
    BY <1>4, <2>1, <2>2
  <2> DEFINE w == Migrating(o, part[o])
  <2>4. w \in Write /\ w.to = config[o].version
    BY <2>2, MigratingIs
  <2> HIDE DEF w
  <2>5. \A x \in WriteCall(o, w) : OutcomeOf(x, Now(o), {w})
    BY <2>4, WriteIsOutcome DEF TypeInv
  <2>6. {w} \in SUBSET Write /\ \A z \in {w} : z.to = config[o].version
    BY <2>4
  <2>7. Calling(o, "callback", WriteCall(o, w), "callback", AfterFailure(o))
    BY <2>1 DEF w
  <2>8. initialVersion' \in [Opener -> Versions \union {0}] /\ UNCHANGED <<config, opens>>
    BY <1>4, <2>1
  <2>9. \E s : Migrates(o, s, {w})
    BY <1>3, <2>3, <2>5, <2>6, <2>7, <2>8, CallingMigrates
  <2> QED BY <2>9
<1>13. CASE CallbackThrows(o)
  BY <1>3, <1>7, <1>13 DEF CallbackThrows
<1>14. CASE CallbackReturns(o)
  BY <1>2, <1>3, <1>6, <1>7, <1>14 DEF CallbackReturns
<1>15. CASE LeaveScope(o)
  BY <1>2, <1>3, <1>6, <1>15 DEF LeaveScope
<1>16. CASE SetVersion(o)
  <2> DEFINE w == Migrating(o, 0)
  <2>1. w \in Write /\ w.to = config[o].version
    BY MigratingIs, BoundsAssumption
  <2>2. Calling(o, "setVersion", WriteCall(o, w), "mark", "unwind") /\ UNCHANGED openerVars
    BY <1>16 DEF SetVersion
  <2> HIDE DEF w
  <2>3. \A x \in WriteCall(o, w) : OutcomeOf(x, Now(o), {w})
    BY <2>1, WriteIsOutcome DEF TypeInv
  <2>4. {w} \in SUBSET Write /\ \A z \in {w} : z.to = config[o].version
    BY <2>1
  <2>5. \E s : Migrates(o, s, {w})
    BY <1>3, <1>5, <2>2, <2>3, <2>4, CallingMigrates
  <2> QED BY <2>5
<1>17. CASE Mark(o)
  BY <1>2, <1>3, <1>6, <1>17 DEF Mark
<1>18. CASE EndMigration(o)
  <2>1. PICK x \in EndCall(Now(o)) :
           /\ Effect(o, x)
           /\ IF x.ok THEN GoTo(o, "open") /\ Unlock(o) ELSE GoTo(o, "close") /\ UNCHANGED creationLock
    BY <1>18 DEF EndMigration
  <2>2. Touches(o, {})
    BY <1>2, <1>3, <2>1, EffectTouches DEF TypeInv
  <2>3. PICK s \in Left :
           /\ stage' = [stage EXCEPT ![o] = s]
           /\ creationLock' = IF s = "open" THEN [creationLock EXCEPT ![ProcessOf[o]] = Free] ELSE creationLock
    BY <2>1 DEF GoTo, Unlock, Left
  <2>4. stage[o] \in Inner \union {"begin"}
    BY <1>18 DEF EndMigration, Inner
  <2>5. /\ initialVersion' \in [Opener -> Versions \union {0}] /\ part' \in [Opener -> 1 .. Parts + 1]
        /\ UNCHANGED <<config, opens>>
    BY <1>18, LocalsDieTypes DEF EndMigration
  <2>6. Migrates(o, s, {})
    BY <2>2, <2>3, <2>4, <2>5 DEF Migrates
  <2> QED BY <2>6
<1>19. CASE Unwind(o)
  <2>1. Calling(o, "unwind", EndCall(Now(o)), "close", "close") /\ LocalsDie({o})
    BY <1>19 DEF Unwind
  <2>2. /\ initialVersion' \in [Opener -> Versions \union {0}] /\ part' \in [Opener -> 1 .. Parts + 1]
        /\ UNCHANGED <<config, opens>>
    BY <2>1, LocalsDieTypes
  <2>3. \A w \in {} : w.to = config[o].version
    OBVIOUS
  <2>4. \E s : Migrates(o, s, {})
    BY <1>2, <1>3, <2>1, <2>2, <2>3, CallingMigrates
  <2> QED BY <2>4
<1> QED BY <1>8, <1>9, <1>10, <1>11, <1>12, <1>13, <1>14, <1>15, <1>16, <1>17, <1>18, <1>19 DEF InnerStep

-----------------------------------------------------------------------------
(* Steps outside migrateIfNeeded *)

(* The creation lock: left alone, taken, or given back. *)
LockMoves(o, s) ==
  \/ creationLock' = creationLock /\ (stage[o] \in Unlocked <=> s \in Unlocked)
  \/ /\ creationLock[ProcessOf[o]] = Free /\ s \notin Unlocked
     /\ creationLock' = [creationLock EXCEPT ![ProcessOf[o]] = o]
  \/ /\ stage[o] \notin Unlocked /\ s \in Unlocked
     /\ creationLock' = [creationLock EXCEPT ![ProcessOf[o]] = Free]

(* Opener o goes on to stage s; the file stays. *)
Moves(o, s) ==
  /\ TypeOK' /\ s \in Stages /\ stage' = [stage EXCEPT ![o] = s] /\ file' = file
  /\ \A u \in Opener \ {o} :
       /\ connection'[u] = connection[u] /\ config'[u] = config[u] /\ asked'[u] = asked[u]
       /\ handles'[u] = handles[u] /\ lost'[u] = lost[u] /\ opens'[u] = opens[u]
  /\ connection'[o] \in {connection[o], Closed(o)}
  /\ s \in Fresh => connection'[o] = Closed(o)
  /\ s \in Handleless => handles'[o] = lost'[o]
  /\ s \notin Handleless => handles'[o] = lost'[o] + 1
  /\ lost'[o] <= opens'[o] /\ (s \notin Idle => lost'[o] < opens'[o])
  /\ LockMoves(o, s)
  /\ config'[o] = config[o] \/ WorkOf(o) = {}
  /\ s # "closed" => config'[o] \in asked'[o]

(* A closed connection has no work, and its platform stays. *)
LEMMA ClosedIs ==
  ASSUME TypeOK, NEW o \in Opener
  PROVE  /\ Closed(o) \in Connection /\ Closed(o).platform = connection[o].platform
         /\ Closed(o).session = EmptySession /\ Closed(o).session.work = {}
         /\ Closed(o).session.durable = {} /\ Closed(o).session.inTransaction = FALSE
         /\ Closed(o).transaction = "null" /\ Closed(o).autoCommit = TRUE /\ Outside(Closed(o))
<1>1. connection[o].platform \in Platforms
  BY DEF TypeOK, Connection
<1> QED BY <1>1 DEF Closed, OpenConnection, EmptySession, Connection, Session, Outside

(* Such a step keeps the invariant. *)
LEMMA MovesKeeps ==
  ASSUME TypeInv, NEW o \in Opener, NEW s, Moves(o, s)
  PROVE  TypeInv'
<1>1. /\ stage'[o] = s /\ \A u \in Opener \ {o} : stage'[u] = stage[u]
  BY DEF Moves, TypeInv, TypeOK
<1>2. /\ Closed(o).session.work = {} /\ Closed(o).platform = connection[o].platform
      /\ connection'[o].platform = connection[o].platform
      /\ WorkOf(o)' \subseteq WorkOf(o)
  BY ClosedIs DEF TypeInv, Moves, WorkOf
<1>3. FreshInv'
  <2>1. ASSUME NEW u \in Opener, stage'[u] \in Fresh PROVE connection'[u] = Closed(u)'
    <3>1. CASE u = o
      BY <1>1, <1>2, <2>1, <3>1 DEF Moves, Closed
    <3>2. CASE u # o
      BY <1>1, <2>1, <3>2 DEF Moves, Closed, FreshInv, TypeInv
    <3> QED BY <3>1, <3>2
  <2> QED BY <2>1 DEF FreshInv
<1>4. HandlesInv'
  <2>1. ASSUME NEW u \in Opener, u # o
        PROVE  /\ stage'[u] \in Handleless => handles'[u] = lost'[u]
               /\ stage'[u] \notin Handleless => handles'[u] = lost'[u] + 1
               /\ lost'[u] <= opens'[u] /\ (stage'[u] \notin Idle => lost'[u] < opens'[u])
    BY <1>1, <2>1 DEF Moves, HandlesInv, TypeInv
  <2>2. /\ stage'[o] \in Handleless => handles'[o] = lost'[o]
        /\ stage'[o] \notin Handleless => handles'[o] = lost'[o] + 1
        /\ lost'[o] <= opens'[o] /\ (stage'[o] \notin Idle => lost'[o] < opens'[o])
    BY <1>1 DEF Moves
  <2> QED BY <2>1, <2>2 DEF HandlesInv
<1>5. LockInv'
  <2>1. ASSUME NEW u \in Opener PROVE creationLock'[ProcessOf[u]] = u <=> stage'[u] \notin Unlocked
    <3>1. ProcessOf[u] \in Process /\ ProcessOf[o] \in Process /\ Free \notin Opener
      BY OpenersAssumption
    <3>2. /\ creationLock[ProcessOf[u]] = u <=> stage[u] \notin Unlocked
          /\ creationLock[ProcessOf[o]] = o <=> stage[o] \notin Unlocked
      BY DEF TypeInv, LockInv
    <3>3. creationLock \in [Process -> Opener \union {Free}]
      BY DEF TypeInv, TypeOK
    <3>4. LockMoves(o, s)
      BY DEF Moves
    <3>5. CASE u = o
      BY <1>1, <3>1, <3>2, <3>3, <3>4, <3>5 DEF LockMoves
    <3>6. CASE u # o /\ ProcessOf[u] = ProcessOf[o]
      BY <1>1, <3>1, <3>2, <3>3, <3>4, <3>6 DEF LockMoves
    <3>7. CASE u # o /\ ProcessOf[u] # ProcessOf[o]
      BY <1>1, <3>1, <3>2, <3>3, <3>4, <3>7 DEF LockMoves
    <3> QED BY <3>5, <3>6, <3>7
  <2> QED BY <2>1 DEF LockInv
<1>6. WorkInv'
  <2>1. ASSUME NEW u \in Opener, NEW w \in WorkOf(u)' PROVE w.to = config'[u].version
    <3>1. CASE u = o
      BY <1>2, <2>1, <3>1 DEF Moves, TypeInv, WorkInv
    <3>2. CASE u # o
      <4>1. WorkOf(u)' = WorkOf(u) /\ config'[u] = config[u]
        BY <3>2 DEF Moves, WorkOf
      <4> QED BY <2>1, <4>1 DEF TypeInv, WorkInv
    <3> QED BY <3>1, <3>2
  <2> QED BY <2>1 DEF WorkInv
<1>7. NewestInv'
  BY DEF TypeInv, Moves, NewestInv, Newest, Tos
<1>8. AskedInv'
  <2>1. ASSUME NEW u \in Opener, u # o, stage'[u] # "closed" PROVE config'[u] \in asked'[u]
    BY <1>1, <2>1 DEF Moves, TypeInv, AskedInv
  <2> QED BY <1>1, <2>1 DEF Moves, AskedInv
<1>9. TypeOK'
  BY DEF Moves
<1> QED BY <1>3, <1>4, <1>5, <1>6, <1>7, <1>8, <1>9 DEF TypeInv

(* openDatabase outside migrateIfNeeded, and close. *)
OuterStep(o) ==
  \/ Call(o) \/ Lock(o) \/ OpenFile(o) \/ OpenFails(o) \/ UpdateJournalMode(o)
  \/ PragmaThrows(o) \/ CloseAndThrow(o) \/ Close(o)

(* They move, as above. *)
LEMMA OuterMoves ==
  ASSUME TypeInv, NEW o \in Opener, OuterStep(o)
  PROVE  \E s : Moves(o, s)
<1> USE DEF TypeInv
<1>1. /\ Closed(o) \in Connection /\ lost[o] \in Nat /\ opens[o] \in Nat /\ handles[o] \in Nat
      /\ lost[o] <= opens[o] /\ opens[o] <= MaxOpens /\ MaxOpens \in Nat
      /\ stage[o] \in Handleless => handles[o] = lost[o]
      /\ stage[o] \notin Handleless => handles[o] = lost[o] + 1
      /\ stage[o] \notin Idle => lost[o] < opens[o]
      /\ stage[o] \in Fresh => connection[o] = Closed(o)
      /\ stage[o] # "closed" => config[o] \in asked[o]
  <2>1. Closed(o) \in Connection
    BY ClosedIs
  <2>2. MaxOpens \in Nat
    BY BoundsAssumption
  <2>3. lost[o] \in 0 .. MaxOpens /\ opens[o] \in 0 .. MaxOpens /\ handles[o] \in 0 .. MaxOpens
    BY DEF TypeOK
  <2>4. /\ stage[o] \in Handleless => handles[o] = lost[o]
        /\ stage[o] \notin Handleless => handles[o] = lost[o] + 1
        /\ lost[o] <= opens[o]
        /\ stage[o] \notin Idle => lost[o] < opens[o]
    BY DEF HandlesInv
  <2>5. /\ stage[o] \in Fresh => connection[o] = Closed(o)
        /\ stage[o] # "closed" => config[o] \in asked[o]
    BY DEF FreshInv, AskedInv
  <2> QED BY <2>1, <2>2, <2>3, <2>4, <2>5
<1>2. ProcessOf[o] \in Process
  BY OpenersAssumption
<1>3. CASE Call(o)
  <2>1. PICK c \in Configuration : /\ config' = [config EXCEPT ![o] = c]
                                   /\ asked' = [asked EXCEPT ![o] = @ \union {c}]
    BY <1>3 DEF Call
  <2>2. /\ stage[o] \in Idle /\ opens[o] < MaxOpens /\ opens' = [opens EXCEPT ![o] = @ + 1]
        /\ stage' = [stage EXCEPT ![o] = "waiting"]
        /\ UNCHANGED <<fileVars, connection, handles, snapshot, creationLock, initialVersion, part, lost>>
    BY <1>3 DEF Call, GoTo
  <2>3. /\ stage[o] \in Unlocked /\ stage[o] \in Fresh /\ stage[o] \in Handleless
        /\ "waiting" \in Unlocked /\ "waiting" \in Handleless /\ "waiting" \in Fresh /\ "waiting" \in Stages
    BY <2>2 DEF Idle, Unlocked, Fresh, Handleless, Stages
  <2>4. /\ config' \in [Opener -> Configuration] /\ asked' \in [Opener -> SUBSET Configuration]
        /\ config'[o] \in asked'[o] /\ stage' \in [Opener -> Stages]
        /\ \A u \in Opener \ {o} : config'[u] = config[u] /\ asked'[u] = asked[u] /\ opens'[u] = opens[u]
    BY <2>1, <2>2, <2>3 DEF TypeOK
  <2>5. opens'[o] = opens[o] + 1 /\ opens' \in [Opener -> 0 .. MaxOpens]
    BY <1>1, <2>2 DEF TypeOK
  <2>6. TypeOK'
    BY <2>2, <2>4, <2>5 DEF TypeOK, fileVars
  <2>7. WorkOf(o) = {}
    BY <1>1, <2>3, ClosedIs DEF WorkOf
  <2>8. LockMoves(o, "waiting")
    BY <2>2, <2>3 DEF LockMoves
  <2>9. Moves(o, "waiting")
    BY <1>1, <2>2, <2>3, <2>4, <2>5, <2>6, <2>7, <2>8 DEF Moves, fileVars
  <2> QED BY <2>9
<1>4. CASE Lock(o)
  <2>1. /\ stage[o] = "waiting" /\ creationLock[ProcessOf[o]] = Free
        /\ creationLock' = [creationLock EXCEPT ![ProcessOf[o]] = o]
        /\ stage' = [stage EXCEPT ![o] = "opening"]
        /\ UNCHANGED <<fileVars, connection, handles, snapshot, openerVars, history>>
    BY <1>4 DEF Lock, GoTo
  <2>2. TypeOK'
    BY <2>1 DEF TypeOK, fileVars, openerVars, history, Stages
  <2>3. LockMoves(o, "opening")
    BY <2>1 DEF LockMoves, Unlocked
  <2>4. Moves(o, "opening")
    BY <1>1, <2>1, <2>2, <2>3 DEF Moves, fileVars, openerVars, history, Stages, Fresh, Handleless, Idle
  <2> QED BY <2>4
<1>5. CASE OpenFile(o)
  <2>1. /\ stage[o] = "opening" /\ handles' = [handles EXCEPT ![o] = @ + 1]
        /\ UNCHANGED <<file, writable, connection, snapshot, creationLock, openerVars, history>>
    BY <1>5 DEF OpenFile
  <2>2. PICK s \in {"journal", "close", "begin"} : stage' = [stage EXCEPT ![o] = s]
    BY <1>5 DEF OpenFile, GoTo
  <2>3. journalMode' \in {"DELETE", "WAL"}
    <3>1. config[o].journalMode \in {"DELETE", "WAL"} /\ journalMode \in {"DELETE", "WAL"}
      BY JournalModesAssumption DEF TypeOK, Configuration
    <3>2. JournalModeSet(o) \subseteq {journalMode, config[o].journalMode}
      BY DEF JournalModeSet
    <3>3. journalMode' = journalMode \/ journalMode' \in JournalModeSet(o)
      BY <1>5 DEF OpenFile
    <3> QED BY <3>1, <3>2, <3>3
  <2>4. handles'[o] = lost[o] + 1 /\ handles' \in [Opener -> 0 .. MaxOpens]
        /\ \A u \in Opener \ {o} : handles'[u] = handles[u]
    <3>1. handles[o] = lost[o] /\ lost[o] < opens[o]
      BY <1>1, <2>1 DEF Handleless, Idle
    <3> QED BY <1>1, <2>1, <3>1 DEF TypeOK
  <2>5. /\ s \in Stages /\ s \notin Unlocked /\ s \notin Handleless /\ s \notin Idle /\ s # "closed"
        /\ stage[o] \notin Unlocked /\ stage[o] \notin Idle /\ stage[o] # "closed"
        /\ stage[o] \in Fresh
    BY <2>1 DEF Stages, Unlocked, Handleless, Idle, Fresh
  <2>6. TypeOK'
    BY <2>1, <2>2, <2>3, <2>4, <2>5 DEF TypeOK, openerVars, history
  <2>7. LockMoves(o, s)
    BY <2>1, <2>5 DEF LockMoves
  <2>8. Moves(o, s)
    BY <1>1, <2>1, <2>2, <2>4, <2>5, <2>6, <2>7 DEF Moves, openerVars, history
  <2> QED BY <2>8
<1>6. CASE OpenFails(o)
  <2>1. /\ stage[o] = "opening" /\ creationLock' = [creationLock EXCEPT ![ProcessOf[o]] = Free]
        /\ stage' = [stage EXCEPT ![o] = "threw"]
        /\ UNCHANGED <<fileVars, connection, handles, snapshot, openerVars, history>>
    BY <1>6 DEF OpenFails, GoTo, Unlock
  <2>2. TypeOK'
    BY <2>1 DEF TypeOK, fileVars, openerVars, history, Stages
  <2>3. LockMoves(o, "threw")
    BY <2>1 DEF LockMoves, Unlocked
  <2>4. Moves(o, "threw")
    BY <1>1, <2>1, <2>2, <2>3 DEF Moves, fileVars, openerVars, history, Stages, Fresh, Handleless, Idle
  <2> QED BY <2>4
<1>7. CASE UpdateJournalMode(o)
  <2>1. /\ stage[o] = "journal" /\ stage' = [stage EXCEPT ![o] = "begin"]
        /\ UNCHANGED <<fileVars, connection, handles, snapshot, creationLock, history, openerVars>>
    BY <1>7 DEF UpdateJournalMode, Step, GoTo
  <2>2. TypeOK'
    BY <2>1 DEF TypeOK, fileVars, openerVars, history, Stages
  <2>3. LockMoves(o, "begin")
    BY <2>1 DEF LockMoves, Unlocked
  <2>4. Moves(o, "begin")
    BY <1>1, <2>1, <2>2, <2>3 DEF Moves, fileVars, openerVars, history, Stages, Fresh, Handleless, Idle
  <2> QED BY <2>4
<1>8. CASE PragmaThrows(o)
  <2>1. /\ stage[o] = "journal" /\ creationLock' = [creationLock EXCEPT ![ProcessOf[o]] = Free]
        /\ stage' = [stage EXCEPT ![o] = "threwEarly"] /\ lost' = [lost EXCEPT ![o] = @ + 1]
        /\ UNCHANGED <<fileVars, connection, handles, snapshot, openerVars, asked>>
    BY <1>8 DEF PragmaThrows, GoTo, Unlock
  <2>2. lost'[o] = lost[o] + 1 /\ lost[o] < opens[o] /\ handles[o] = lost[o] + 1
        /\ \A u \in Opener \ {o} : lost'[u] = lost[u]
    BY <1>1, <2>1 DEF TypeOK, Handleless, Idle
  <2>3. lost' \in [Opener -> 0 .. MaxOpens]
    BY <1>1, <2>1, <2>2 DEF TypeOK
  <2>4. TypeOK'
    BY <2>1, <2>3 DEF TypeOK, fileVars, openerVars, Stages
  <2>5. LockMoves(o, "threwEarly")
    BY <2>1 DEF LockMoves, Unlocked
  <2>6. Moves(o, "threwEarly")
    BY <1>1, <2>1, <2>2, <2>4, <2>5 DEF Moves, fileVars, openerVars, Stages, Fresh, Handleless, Idle
  <2> QED BY <2>6
<1>9. CASE CloseAndThrow(o)
  <2>1. /\ stage[o] = "close" /\ creationLock' = [creationLock EXCEPT ![ProcessOf[o]] = Free]
        /\ connection' = [connection EXCEPT ![o] = Closed(o)]
        /\ handles' = [handles EXCEPT ![o] = @ - 1] /\ snapshot' = [snapshot EXCEPT ![o] = NoSnapshot]
        /\ stage' = [stage EXCEPT ![o] = "threw"]
        /\ UNCHANGED <<fileVars, openerVars, history>>
    BY <1>9 DEF CloseAndThrow, GoTo, Unlock
  <2>2. handles'[o] = lost[o] /\ handles[o] = lost[o] + 1 /\ handles' \in [Opener -> 0 .. MaxOpens]
        /\ \A u \in Opener \ {o} : handles'[u] = handles[u] /\ connection'[u] = connection[u]
    <3>1. handles[o] = lost[o] + 1
      BY <1>1, <2>1 DEF Handleless
    <3> QED BY <1>1, <2>1, <3>1 DEF TypeOK
  <2>3. connection' \in [Opener -> Connection] /\ connection'[o] = Closed(o)
    BY <1>1, <2>1 DEF TypeOK
  <2>4. TypeOK'
    BY <2>1, <2>2, <2>3 DEF TypeOK, fileVars, openerVars, history, Stages
  <2>5. LockMoves(o, "threw")
    BY <2>1 DEF LockMoves, Unlocked
  <2>6. Moves(o, "threw")
    BY <1>1, <2>1, <2>2, <2>3, <2>4, <2>5 DEF Moves, fileVars, openerVars, history, Stages, Fresh, Handleless, Idle
  <2> QED BY <2>6
<1>10. CASE Close(o)
  <2>1. /\ stage[o] = "open" /\ creationLock' = creationLock /\ snapshot' = snapshot
        /\ connection' = [connection EXCEPT ![o] = Closed(o)]
        /\ handles' = [handles EXCEPT ![o] = @ - 1]
        /\ stage' = [stage EXCEPT ![o] = "closed"]
        /\ UNCHANGED <<fileVars, openerVars, history>>
    BY <1>10 DEF Close, GoTo
  <2>2. handles'[o] = lost[o] /\ handles' \in [Opener -> 0 .. MaxOpens]
        /\ \A u \in Opener \ {o} : handles'[u] = handles[u] /\ connection'[u] = connection[u]
    <3>1. handles[o] = lost[o] + 1
      BY <1>1, <2>1 DEF Handleless
    <3> QED BY <1>1, <2>1, <3>1 DEF TypeOK
  <2>3. connection' \in [Opener -> Connection] /\ connection'[o] = Closed(o)
    BY <1>1, <2>1 DEF TypeOK
  <2>4. TypeOK'
    BY <2>1, <2>2, <2>3 DEF TypeOK, fileVars, openerVars, history, Stages
  <2>5. LockMoves(o, "closed")
    BY <2>1 DEF LockMoves, Unlocked
  <2>6. Moves(o, "closed")
    BY <1>1, <2>1, <2>2, <2>3, <2>4, <2>5 DEF Moves, fileVars, openerVars, history, Stages, Fresh, Handleless, Idle
  <2> QED BY <2>6
<1> QED BY <1>3, <1>4, <1>5, <1>6, <1>7, <1>8, <1>9, <1>10 DEF OuterStep

-----------------------------------------------------------------------------
(* A crash, and the invariant of every step *)

(* The connections, the lock and the local variables of the process that   *)
(* dies are gone.                                                          *)
LEMMA CrashKeeps ==
  ASSUME TypeInv, NEW p \in Process, Crash(p)
  PROVE  TypeInv'
<1> DEFINE dead == {o \in Opener : ProcessOf[o] = p}
<1>1. /\ connection' = [o \in Opener |-> IF o \in dead THEN Closed(o) ELSE connection[o]]
      /\ handles' = [o \in Opener |-> IF o \in dead THEN 0 ELSE handles[o]]
      /\ snapshot' = [o \in Opener |-> IF o \in dead THEN NoSnapshot ELSE snapshot[o]]
      /\ stage' = [o \in Opener |-> IF o \in dead THEN "closed" ELSE stage[o]]
      /\ creationLock' = [creationLock EXCEPT ![p] = Free]
      /\ LocalsDie(dead)
      /\ lost' = [o \in Opener |-> IF o \in dead THEN 0 ELSE lost[o]]
      /\ UNCHANGED <<fileVars, asked>>
  BY DEF Crash
<1>2. /\ initialVersion' \in [Opener -> Versions \union {0}] /\ part' \in [Opener -> 1 .. Parts + 1]
      /\ config' = config /\ opens' = opens
  BY <1>1, LocalsDieTypes
<1>3. TypeOK /\ FreshInv /\ HandlesInv /\ LockInv /\ WorkInv /\ NewestInv /\ AskedInv
  BY DEF TypeInv
<1>4. \A o \in Opener : /\ Closed(o) \in Connection /\ Closed(o).platform = connection[o].platform
                        /\ Closed(o).session.work = {}
  BY <1>3, ClosedIs
<1>5. \A o \in Opener : 0 \in 0 .. MaxOpens /\ "closed" \in Stages /\ opens[o] \in 0 .. MaxOpens
  BY <1>3, BoundsAssumption DEF TypeOK, Stages
(* What it does to an opener. *)
<1>6. ASSUME NEW o \in Opener
      PROVE  /\ ProcessOf[o] = p => /\ connection'[o] = Closed(o) /\ handles'[o] = 0 /\ lost'[o] = 0
                                    /\ stage'[o] = "closed"
             /\ ProcessOf[o] # p => /\ connection'[o] = connection[o] /\ handles'[o] = handles[o]
                                    /\ lost'[o] = lost[o] /\ stage'[o] = stage[o]
  BY <1>1
<1>7. TypeOK'
  <2>1. connection' \in [Opener -> Connection]
    BY <1>1, <1>3, <1>4 DEF TypeOK
  <2>2. handles' \in [Opener -> 0 .. MaxOpens] /\ lost' \in [Opener -> 0 .. MaxOpens]
        /\ stage' \in [Opener -> Stages]
    BY <1>1, <1>3, <1>5 DEF TypeOK
  <2>3. snapshot' \in [Opener -> (SUBSET Write) \union {NoSnapshot}]
        /\ creationLock' \in [Process -> Opener \union {Free}]
    BY <1>1, <1>3 DEF TypeOK
  <2> QED BY <1>1, <1>2, <1>3, <2>1, <2>2, <2>3 DEF TypeOK, fileVars
<1>8. FreshInv'
  <2>1. ASSUME NEW o \in Opener, stage'[o] \in Fresh PROVE connection'[o] = Closed(o)'
    <3>1. CASE ProcessOf[o] = p
      BY <1>4, <1>6, <3>1 DEF Closed
    <3>2. CASE ProcessOf[o] # p
      BY <1>3, <1>6, <2>1, <3>2 DEF FreshInv, Closed
    <3> QED BY <3>1, <3>2
  <2> QED BY <2>1 DEF FreshInv
<1>9. HandlesInv'
  <2>1. ASSUME NEW o \in Opener
        PROVE  /\ stage'[o] \in Handleless => handles'[o] = lost'[o]
               /\ stage'[o] \notin Handleless => handles'[o] = lost'[o] + 1
               /\ lost'[o] <= opens[o] /\ (stage'[o] \notin Idle => lost'[o] < opens[o])
    <3>1. CASE ProcessOf[o] = p
      <4>1. "closed" \in Handleless /\ "closed" \in Idle /\ 0 <= opens[o]
        BY <1>3, <1>5 DEF Handleless, Idle
      <4> QED BY <1>6, <3>1, <4>1
    <3>2. CASE ProcessOf[o] # p
      BY <1>3, <1>6, <3>2 DEF HandlesInv
    <3> QED BY <3>1, <3>2
  <2> QED BY <1>2, <2>1 DEF HandlesInv
<1>10. LockInv'
  <2>1. ASSUME NEW o \in Opener PROVE creationLock'[ProcessOf[o]] = o <=> stage'[o] \notin Unlocked
    <3>1. ProcessOf[o] \in Process /\ Free \notin Opener
      BY OpenersAssumption
    <3>2. CASE ProcessOf[o] = p
      <4>1. creationLock'[ProcessOf[o]] = Free
        BY <1>1, <1>3, <3>2 DEF TypeOK
      <4>2. stage'[o] \in Unlocked
        BY <1>6, <3>2 DEF Unlocked
      <4> QED BY <3>1, <4>1, <4>2
    <3>3. CASE ProcessOf[o] # p
      <4>1. creationLock'[ProcessOf[o]] = creationLock[ProcessOf[o]]
        BY <1>1, <1>3, <3>1, <3>3 DEF TypeOK
      <4> QED BY <1>3, <1>6, <3>3, <4>1 DEF LockInv
    <3> QED BY <3>2, <3>3
  <2> QED BY <2>1 DEF LockInv
<1>11. WorkInv'
  <2>1. ASSUME NEW o \in Opener, NEW w \in WorkOf(o)' PROVE w.to = config[o].version
    <3>1. ProcessOf[o] # p
      BY <1>4, <1>6, <2>1 DEF WorkOf
    <3> QED BY <1>3, <1>6, <2>1, <3>1 DEF WorkInv, WorkOf
  <2> QED BY <1>2, <2>1 DEF WorkInv
<1>12. NewestInv'
  BY <1>1, <1>3 DEF fileVars, NewestInv, Newest, Tos
<1>13. AskedInv'
  BY <1>1, <1>2, <1>3, <1>6 DEF AskedInv
<1> QED BY <1>7, <1>8, <1>9, <1>10, <1>11, <1>12, <1>13 DEF TypeInv

(* A file of one version, or of none, has a newest mark or none. *)
LEMMA InitTypeInv ==
  ASSUME Init
  PROVE  TypeInv
<1>1. TypeOK
  <2>1. file \in SUBSET Write
    <3>1. ASSUME NEW v \in Versions, NEW k \in 0 .. Parts PROVE Change(0, v, k) \in Write
      BY WritesAre
    <3>2. CASE file = {}
      BY <3>2
    <3>3. CASE file # {}
      <4>1. PICK v \in Versions : file = {Change(0, v, k) : k \in 0 .. Parts}
        BY <3>3 DEF Init
      <4> QED BY <3>1, <4>1
    <3> QED BY <3>2, <3>3
  <2>2. connection \in [Opener -> Connection]
    <3>1. PICK p \in Platforms : connection = [o \in Opener |-> OpenConnection(p, EmptySession)]
      BY DEF Init
    <3>2. OpenConnection(p, EmptySession) \in Connection
      BY DEF OpenConnection, EmptySession, Connection, Session
    <3> QED BY <3>1, <3>2
  <2>3. config \in [Opener -> Configuration]
    <3>1. config = [o \in Opener |-> CHOOSE c \in Configuration : TRUE]
      BY DEF Init
    <3>2. ASSUME NEW o \in Opener PROVE (CHOOSE c \in Configuration : TRUE) \in Configuration
      BY ConfigurationAssumption
    <3> QED BY <3>1, <3>2
  <2>4. 0 \in 0 .. MaxOpens /\ 1 \in 1 .. Parts + 1 /\ "closed" \in Stages
    BY BoundsAssumption DEF Stages
  <2> QED BY <2>1, <2>2, <2>3, <2>4 DEF Init, TypeOK
<1>2. FreshInv
  <2>1. PICK p \in Platforms : connection = [o \in Opener |-> OpenConnection(p, EmptySession)]
    BY DEF Init
  <2>2. ASSUME NEW o \in Opener PROVE connection[o] = Closed(o)
    BY <2>1 DEF Closed, OpenConnection
  <2> QED BY <2>2 DEF FreshInv
<1>3. HandlesInv
  BY DEF Init, HandlesInv, Handleless, Idle
<1>4. LockInv
  <2>1. ASSUME NEW o \in Opener PROVE creationLock[ProcessOf[o]] # o /\ stage[o] \in Unlocked
    BY OpenersAssumption DEF Init, Unlocked
  <2> QED BY <2>1 DEF LockInv
<1>5. WorkInv
  <2>1. \A o \in Opener : WorkOf(o) = {}
    BY DEF Init, WorkOf, OpenConnection, EmptySession
  <2> QED BY <2>1 DEF WorkInv
<1>6. NewestInv
  <2>1. CASE file = {}
    <3>1. Tos(file) = {0}
      BY <2>1 DEF Tos
    <3> QED BY <3>1 DEF NewestInv, Newest
  <2>2. CASE file # {}
    <3>1. PICK v \in Versions : file = {Change(0, v, k) : k \in 0 .. Parts}
      BY <2>2 DEF Init
    <3>2. 0 \in 0 .. Parts /\ v \in Nat \ {0}
      BY BoundsAssumption, VersionsAssumption
    <3>3. \A k \in 0 .. Parts : Change(0, v, k).to = v /\ Change(0, v, k).part = k
      BY ChangesAre
    <3>4. Tos(file) = {v, 0}
      BY <3>1, <3>2, <3>3 DEF Tos
    <3> QED BY <3>2, <3>4 DEF NewestInv, Newest
  <2> QED BY <2>1, <2>2
<1>7. AskedInv
  BY DEF Init, AskedInv
<1> QED BY <1>1, <1>2, <1>3, <1>4, <1>5, <1>6, <1>7 DEF TypeInv

(* Every step keeps the invariant. *)
LEMMA NextTypeInv ==
  ASSUME TypeInv, [Next]_vars
  PROVE  TypeInv'
<1>1. CASE \E o \in Opener : Call(o) \/ Open(o) \/ Close(o)
  <2>1. PICK o \in Opener : OuterStep(o) \/ InnerStep(o)
    BY <1>1 DEF Open, OuterStep, InnerStep
  <2>2. CASE OuterStep(o)
    BY <2>2, OuterMoves, MovesKeeps
  <2>3. CASE InnerStep(o)
    BY <2>3, InnerMigrates, MigratesKeeps
  <2> QED BY <2>1, <2>2, <2>3
<1>2. CASE \E p \in Process : Crash(p)
  BY <1>2, CrashKeeps
<1>3. CASE UNCHANGED vars
  <2>1. /\ UNCHANGED <<file, journalMode, writable, connection, handles, snapshot, creationLock, stage>>
        /\ UNCHANGED <<config, initialVersion, part, opens, asked, lost>>
    BY <1>3 DEF vars, fileVars, openerVars, history
  <2>2. TypeOK'
    BY <2>1 DEF TypeInv, TypeOK
  <2>3. FreshInv' /\ HandlesInv' /\ LockInv'
    BY <2>1 DEF TypeInv, FreshInv, Closed, HandlesInv, LockInv
  <2>4. WorkInv' /\ NewestInv' /\ AskedInv'
    BY <2>1 DEF TypeInv, WorkInv, WorkOf, NewestInv, Newest, Tos, AskedInv
  <2> QED BY <2>2, <2>3, <2>4 DEF TypeInv
<1> QED BY <1>1, <1>2, <1>3 DEF Next, Terminated

(* The invariant holds throughout. *)
LEMMA TypeInvHolds == Spec => []TypeInv
<1>1. Init => TypeInv
  BY InitTypeInv
<1>2. TypeInv /\ [Next]_vars => TypeInv'
  BY NextTypeInv
<1> QED BY <1>1, <1>2, PTL DEF Spec

(* openDatabase keeps its state well-formed: in particular every version   *)
(* it reads is one some configuration asked for, and it never closes a     *)
(* handle twice or keeps more of them than it has been called (openDatabase *)
(* and migrateIfNeeded, with every fault).                                 *)
THEOREM MigrationIsTyped == Spec => []TypeOK
<1>1. TypeInv => TypeOK
  BY DEF TypeInv
<1> QED BY <1>1, TypeInvHolds, PTL

(* A call of openDatabase that threw, wherever it threw, has ended its     *)
(* transaction, released the creation lock and closed its handle, but for  *)
(* the handle of an exception before the try block (the catch block of     *)
(* openDatabase around migrateIfNeeded).                                   *)
THEOREM ThrowsLeaveNothing == Spec => []ThrowLeavesNothing
<1>1. TypeInv => ThrowLeavesNothing
  <2> SUFFICES ASSUME TypeInv, NEW o \in Opener, stage[o] \in {"threw", "threwEarly"}
               PROVE  /\ connection[o] = Closed(o) /\ creationLock[ProcessOf[o]] # o
                      /\ handles[o] = lost[o]
    BY DEF ThrowLeavesNothing
  <2>1. stage[o] \in Fresh /\ stage[o] \in Handleless /\ stage[o] \in Unlocked
    BY DEF Fresh, Handleless, Unlocked
  <2> QED BY <2>1 DEF TypeInv, FreshInv, HandlesInv, LockInv
<1> QED BY <1>1, TypeInvHolds, PTL

-----------------------------------------------------------------------------
(* The inductive invariant of whole migrations *)

(* Some changes of the migration that opener o is making. *)
Changes(o, S) == {Change(initialVersion[o], config[o].version, k) : k \in S}

(* It migrates from the version of the file it has read. *)
Reading(o) ==
  /\ initialVersion[o] < config[o].version /\ snapshot[o] # NoSnapshot
  /\ Newest(snapshot[o], initialVersion[o])

InTransaction(o, marked) == Inside(connection[o], marked) /\ connection[o].session.inTransaction = TRUE

(* A transaction { } inside the callback, over JDBC: its end commits, and  *)
(* ends, the transaction of migrateIfNeeded, which is adrift from then on. *)
OwnScope(o) == connection[o].platform = "jdbc" /\ config[o].scoped = TRUE
Adrift(o) == OwnScope(o) /\ connection[o].autoCommit = TRUE

(* Where an opener is in migrateIfNeeded tells what it has written, and    *)
(* how its driver stands.                                                  *)
MigratingAt(o) ==
  /\ connection[o].session.durable = {}
  /\ connection[o].session.inTransaction = FALSE => WorkOf(o) = {}
  /\ stage[o] = "version" => InTransaction(o, FALSE) /\ WorkOf(o) = {}
  /\ stage[o] = "scope" =>
       /\ InTransaction(o, FALSE) /\ Reading(o) /\ WorkOf(o) = {}
       /\ part[o] = 1 /\ config[o].scoped = TRUE
  /\ stage[o] = "callback" =>
       /\ InTransaction(o, FALSE) /\ Reading(o) /\ WorkOf(o) = Changes(o, 1 .. part[o] - 1)
       /\ config[o].scoped = TRUE => OwnScope(o)
  /\ stage[o] = "leaveScope" =>
       OwnScope(o) /\ InTransaction(o, TRUE) /\ Reading(o) /\ WorkOf(o) = Changes(o, 1 .. Parts)
  /\ stage[o] = "unwindScope" => OwnScope(o) /\ Inside(connection[o], FALSE)
  /\ stage[o] = "setVersion" =>
       \/ Adrift(o) /\ Outside(connection[o])
       \/ InTransaction(o, FALSE) /\ Reading(o) /\ WorkOf(o) = Changes(o, 1 .. Parts)
  /\ stage[o] \in {"mark", "end"} =>
       \/ Adrift(o) /\ Outside(connection[o])
       \/ /\ InTransaction(o, stage[o] = "end")
          /\ WorkOf(o) = {} \/ (Reading(o) /\ WorkOf(o) = Changes(o, 0 .. Parts))
  /\ stage[o] = "unwind" => Adrift(o) \/ Inside(connection[o], FALSE)
  /\ stage[o] = "open" => Outside(connection[o])

(* The file is at the version o asked for, but for what openers of other   *)
(* processes have made of it since.                                        *)
Settled(o) ==
  /\ config[o].version \in Tos(file)
  /\ \A y \in Tos(file) : y > config[o].version =>
       \E u \in Opener : ProcessOf[u] # ProcessOf[o] /\ \E c \in asked[u] : c.version = y

(* An opener that has nothing to write has found it so. *)
SettledAt(o) ==
  stage[o] \in {"mark", "end"} /\ ~ Adrift(o) /\ WorkOf(o) = {} => Settled(o)

(* Only one opener has unfinished work, on the file as it is. *)
Writes(o) == snapshot[o] = file /\ \A u \in Opener \ {o} : WorkOf(u) = {}
WriterInv == \A o \in Opener : WorkOf(o) # {} => Writes(o)

Whole(db) == \A w \in db : \A k \in 0 .. Parts : Change(w.from, w.to, k) \in db

Chain(db) ==
  \A m \in Marks(db) :
    /\ m.from < m.to
    /\ m.from # 0 => \E n \in Marks(db) : n.to = m.from
    /\ \A n \in Marks(db) : n.from = m.from => n = m

ChainInv ==
  /\ \A o \in Opener : MigratingAt(o) /\ SettledAt(o)
  /\ WriterInv
  /\ OneTransactionEach => Whole(file) /\ Chain(file)

(* One more migration, from the newest version. *)
LEMMA ChainGrows ==
  ASSUME NEW db \in SUBSET Write, Whole(db), Chain(db), NEW f \in Versions \union {0}, NEW v \in Versions,
         f < v, Newest(db, f)
  PROVE  Whole(db \union {Change(f, v, k) : k \in 0 .. Parts})
         /\ Chain(db \union {Change(f, v, k) : k \in 0 .. Parts})
<1> DEFINE step == {Change(f, v, k) : k \in 0 .. Parts}
<1> DEFINE more == db \union step
<1>1. \A w \in step : w.from = f /\ w.to = v
  BY ChangesAre
<1>2. Change(f, v, 0) \in step /\ Change(f, v, 0).part = 0
  BY ChangesAre, BoundsAssumption
<1>3. \A w \in step : w.part = 0 => w = Change(f, v, 0)
  BY ChangesAre
<1>4. Marks(more) = Marks(db) \union {Change(f, v, 0)}
  BY <1>2, <1>3 DEF Marks
<1>5. Whole(more)
  BY <1>1 DEF Whole
<1>6. /\ f \in Nat /\ v \in Nat /\ \A m \in Marks(db) : m.from \in Nat /\ m.to \in Nat
  <2>1. \A m \in Marks(db) : m.from \in Versions \union {0} /\ m.to \in Versions
    BY WritesAre DEF Marks
  <2>2. Versions \subseteq Nat
    BY VersionsAssumption
  <2>3. f \in Nat /\ v \in Nat
    BY <2>2
  <2>4. ASSUME NEW m \in Marks(db) PROVE m.from \in Nat /\ m.to \in Nat
    <3>1. (m.from \in Versions \/ m.from = 0) /\ m.to \in Versions
      BY <2>1, <2>4
    <3>2. m.to \in Nat
      BY <2>2, <3>1
    <3>3. CASE m.from \in Versions
      BY <2>2, <3>2, <3>3
    <3>4. CASE m.from = 0
      BY <3>2, <3>4
    <3> QED BY <3>1, <3>3, <3>4
  <2> QED BY <2>3, <2>4
<1>7. \A m \in Marks(db) : m.to <= f
  BY DEF Newest, Tos, Marks
<1>8. f # 0 => \E n \in Marks(db) : n.to = f
  BY DEF Newest, Tos, Marks
<1>9. ASSUME NEW m \in Marks(db) PROVE m.from < m.to /\ m.from # f
  <2>1. m.from < m.to
    BY <1>9 DEF Chain
  <2>2. m.to <= f /\ m.from \in Nat /\ m.to \in Nat
    BY <1>6, <1>7, <1>9
  <2> QED BY <1>6, <2>1, <2>2
<1>10. Chain(more)
  <2> DEFINE new == Change(f, v, 0)
  <2>1. new.from = f /\ new.to = v
    BY ChangesAre
  <2> HIDE DEF new, more, step
  <2>2. Marks(more) = Marks(db) \union {new}
    BY <1>4 DEF new
  <2>3. ASSUME NEW m \in Marks(db)
        PROVE  /\ m.from < m.to /\ (m.from # 0 => \E n \in Marks(more) : n.to = m.from)
               /\ \A n \in Marks(more) : n.from = m.from => n = m
    BY <1>9, <2>1, <2>2, <2>3 DEF Chain
  <2>4. /\ new.from < new.to /\ (new.from # 0 => \E n \in Marks(more) : n.to = new.from)
        /\ \A n \in Marks(more) : n.from = new.from => n = new
    BY <1>8, <1>9, <2>1, <2>2
  <2> QED BY <2>2, <2>3, <2>4 DEF Chain
<1> QED BY <1>5, <1>10

-----------------------------------------------------------------------------
(* Calls, when an opener has a transaction of its own *)

(* The connection after a call, field by field. *)
LEMMA EffectIs ==
  ASSUME TypeOK, NEW o \in Opener, NEW x, x.connection \in Connection, Effect(o, x)
  PROVE  /\ SameDriver(connection'[o], x.connection)
         /\ connection'[o].session.durable = {}
         /\ WorkOf(o)' = x.connection.session.work
         /\ connection'[o].session.inTransaction = x.connection.session.inTransaction
         /\ file' = x.connection.session.durable
         /\ x.connection.session.inTransaction = TRUE => snapshot' = snapshot
         /\ \A u \in Opener \ {o} : connection'[u] = connection[u] /\ snapshot'[u] = snapshot[u]
<1> DEFINE c == x.connection
<1>1. /\ connection' = [connection EXCEPT ![o] = [c EXCEPT !.session.durable = {}]]
      /\ file' = c.session.durable
      /\ snapshot' = IF c.session.inTransaction THEN snapshot ELSE [snapshot EXCEPT ![o] = NoSnapshot]
  BY DEF Effect
<1> DEFINE d == [c EXCEPT !.session.durable = {}]
<1> HIDE DEF c
<1>2. /\ SameDriver(d, c) /\ d.session.work = c.session.work /\ d.session.durable = {}
      /\ d.session.inTransaction = c.session.inTransaction
  BY DEF Connection, Session, SameDriver, c
<1> HIDE DEF d
<1>3. connection'[o] = d /\ \A u \in Opener \ {o} : connection'[u] = connection[u]
  BY <1>1 DEF TypeOK, d
<1>4. \A u \in Opener \ {o} : snapshot'[u] = snapshot[u]
  BY <1>1 DEF TypeOK
<1> QED BY <1>1, <1>2, <1>3, <1>4 DEF c, WorkOf

(* Inside and Outside do not depend on what is durable. *)
LEMMA InsideOf ==
  ASSUME NEW k, NEW l, SameDriver(k, l)
  PROVE  /\ \A marked \in BOOLEAN : Inside(k, marked) <=> Inside(l, marked)
         /\ k.session.work = l.session.work /\ k.session.inTransaction = l.session.inTransaction =>
              (Outside(k) <=> Outside(l))
BY DEF SameDriver, Inside, Outside

(* A write inside a transaction. *)
LEMMA WriteDoes ==
  ASSUME TypeOK, NEW o \in Opener, NEW w \in Write, connection[o].session.inTransaction = TRUE,
         NEW x \in WriteCall(o, w)
  PROVE  /\ x.connection \in Connection /\ x.ok \in BOOLEAN /\ SameDriver(x.connection, Now(o))
         /\ x.connection.session.durable = file
         /\ x.ok = TRUE => /\ MayWriteFile(o) /\ x.connection.session.inTransaction = TRUE
                           /\ x.connection.session.work = WorkOf(o) \union {w}
         /\ x.ok = FALSE => \/ x.connection.session.inTransaction = TRUE /\ x.connection.session.work = WorkOf(o)
                            \/ x.connection.session.inTransaction = FALSE /\ x.connection.session.work = {}
<1> DEFINE k == Now(o)
<1>1. /\ k \in Connection /\ k.session \in Session /\ k.session.durable = file
      /\ k.session.work = WorkOf(o) /\ k.session.inTransaction = TRUE
  BY NowIs
<1> HIDE DEF k
<1>2. CASE MayWriteFile(o)
  <2>1. x \in ExecCall(k, w)
    BY <1>2 DEF WriteCall, k
  <2>2. /\ x.connection \in Connection /\ x.ok \in BOOLEAN /\ SameDriver(x.connection, k)
        /\ x.ok => x.connection.session =
             IF k.session.inTransaction
             THEN [k.session EXCEPT !.work = @ \union {w}]
             ELSE [k.session EXCEPT !.durable = @ \union {w}]
        /\ ~ x.ok => x.connection.session \in {k.session, RolledBack(k.session)}
    BY <1>1, <2>1, ExecDoes
  <2>3. CASE x.ok = TRUE
    <3>1. x.connection.session = [k.session EXCEPT !.work = @ \union {w}]
      BY <1>1, <2>2, <2>3
    <3> QED BY <1>1, <1>2, <2>2, <2>3, <3>1 DEF Session, k
  <2>4. CASE x.ok = FALSE
    <3>1. CASE x.connection.session = k.session
      BY <1>1, <2>2, <2>4, <3>1 DEF k
    <3>2. CASE x.connection.session = RolledBack(k.session)
      BY <1>1, <2>2, <2>4, <3>2 DEF k, RolledBack, Session
    <3> QED BY <2>2, <2>4, <3>1, <3>2
  <2> QED BY <2>2, <2>3, <2>4
<1>3. CASE ~ MayWriteFile(o)
  <2>1. x.ok = FALSE /\ x.connection = k
    BY <1>3 DEF WriteCall, Throw, k
  <2> QED BY <1>1, <2>1 DEF SameDriver, k
<1> QED BY <1>2, <1>3

(* BEGIN inside a transaction. *)
LEMMA NestedBegin ==
  ASSUME NEW k \in Connection, k.platform = "native", k.session.inTransaction = TRUE, NEW x \in BeginCall(k)
  PROVE  /\ x.ok = FALSE /\ x.connection \in Connection /\ x.connection.session = k.session
         /\ SameDriver(x.connection, k)
<1>1. BeginOutcomes(k.session) = {Fails(k.session)}
  BY DEF BeginOutcomes
<1>2. NativeBegin(k) =
        UNION {IF p.ok THEN {Return([[k EXCEPT !.session = p.session] EXCEPT !.transaction = "started"])}
               ELSE {Throw([k EXCEPT !.session = p.session])} : p \in {Fails(k.session)}}
  BY <1>1 DEF NativeBegin, Sending
<1>3. Fails(k.session).ok = FALSE /\ Fails(k.session).session = k.session
  BY DEF Fails
<1>4. x = Throw([k EXCEPT !.session = k.session])
  BY <1>2, <1>3 DEF BeginCall
<1>5. [k EXCEPT !.session = k.session] = k
  BY DEF Connection
<1> QED BY <1>4, <1>5 DEF Throw, SameDriver

(* Over JDBC it does nothing. *)
LEMMA JdbcNestedBegin ==
  ASSUME NEW k \in Connection, k.platform = "jdbc", Inside(k, FALSE), NEW x \in BeginCall(k)
  PROVE  x.ok = TRUE /\ x.connection \in Connection /\ x.connection.session = k.session /\ SameDriver(x.connection, k)
<1> DEFINE l == [k EXCEPT !.isTransactionSuccess = FALSE]
<1>1. /\ l \in Connection /\ l.session = k.session /\ SameDriver(l, k) /\ l.autoCommit = FALSE
  BY DEF Connection, SameDriver, Inside
<1>2. x \in SetAutoCommit(l, FALSE)
  BY DEF BeginCall, JdbcBegin
<1> HIDE DEF l
<1>3. x = Return(l)
  BY <1>1, <1>2 DEF SetAutoCommit
<1> QED BY <1>1, <1>3 DEF Return

(* The end of a JDBC transaction leaves auto-commit on, and without a      *)
(* transaction it throws and does nothing else.                            *)
LEMMA JdbcEndAutoCommits ==
  ASSUME NEW k \in Connection, k.platform = "jdbc", NEW x \in EndCall(k)
  PROVE  /\ x.connection.autoCommit = TRUE /\ x.connection.platform = "jdbc"
         /\ k.autoCommit = TRUE => x.ok = FALSE /\ x.connection.session = k.session
<1> DEFINE outcomes == IF k.isTransactionSuccess THEN CommitOutcomes(k.session) ELSE RollbackOutcomes(k.session)
<1>1. PICK f \in Finishing(k, outcomes) :
        \E e \in SetAutoCommit(f.connection, TRUE) :
          x = IF e.ok
              THEN [ok |-> f.ok, connection |-> [e.connection EXCEPT !.isTransactionSuccess = FALSE]]
              ELSE e
  BY JdbcEndIs
<1>2. PICK e \in SetAutoCommit(f.connection, TRUE) :
        x = IF e.ok
            THEN [ok |-> f.ok, connection |-> [e.connection EXCEPT !.isTransactionSuccess = FALSE]]
            ELSE e
  BY <1>1
<1>3. x.connection.platform = "jdbc"
  BY EndIsOutcome DEF OutcomeOf
<1>4. k.session \in Session /\ \A p \in outcomes : p.ok \in BOOLEAN /\ p.session \in Session
  <2>1. k.session \in Session
    BY DEF Connection
  <2>2. /\ \A p \in CommitOutcomes(k.session) : p.ok \in BOOLEAN /\ p.session \in Session
        /\ \A p \in RollbackOutcomes(k.session) : p.ok \in BOOLEAN /\ p.session \in Session
    BY <2>1, TextsDo DEF After
  <2> QED BY <2>1, <2>2
<1> HIDE DEF outcomes
<1>5. k.autoCommit = TRUE => f.ok = FALSE /\ f.connection = k
  BY DEF Finishing, Throw
<1>6. f.connection \in Connection
  <2>1. CASE k.autoCommit = TRUE
    BY <1>5, <2>1
  <2>2. CASE k.autoCommit = FALSE
    <3>1. (\A p \in outcomes : p.ok \in BOOLEAN) /\ (\A p \in outcomes : p.session \in Session)
      BY <1>4
    <3>2. PICK p \in outcomes : FinishedAs(f, k, p)
      BY <2>2, <3>1, FinishingDoes
    <3>3. p.session \in Session
      BY <3>1
    <3>4. PICK r \in Session : f.connection = [k EXCEPT !.session = r]
      <4>1. \A b \in BeginOutcomes(p.session) : b.session \in Session
        BY <3>3, TextsDo DEF After
      <4> QED BY <3>2, <3>3, <4>1 DEF FinishedAs
    <3> QED BY <3>4 DEF Connection
  <2> QED BY <2>1, <2>2 DEF Connection
<1>7. e.connection.autoCommit = TRUE /\ e.connection \in Connection
  <2>1. e.connection \in Connection
    BY <1>6, SetAutoCommitIsOutcome DEF OutcomeOf
  <2>2. CASE f.connection.autoCommit = TRUE
    <3>1. e = Return(f.connection)
      BY <2>2 DEF SetAutoCommit
    <3> QED BY <2>1, <2>2, <3>1 DEF Return
  <2>3. CASE f.connection.autoCommit = FALSE
    <3> DEFINE on == [f.connection EXCEPT !.autoCommit = TRUE]
    <3>1. e \in Sent(on, CommitOutcomes(f.connection.session))
      BY <2>3 DEF SetAutoCommit, Sending, Done, Sent
    <3>2. f.connection.session \in Session /\ on \in Connection /\ on.autoCommit = TRUE
      BY <1>6 DEF Connection
    <3>3. \A c \in CommitOutcomes(f.connection.session) : c.ok \in BOOLEAN
      BY <3>2, TextsDo
    <3> HIDE DEF on
    <3>4. PICK c \in CommitOutcomes(f.connection.session) :
             e = [ok |-> c.ok, connection |-> [on EXCEPT !.session = c.session]]
      BY <3>1, <3>3, SentIs
    <3> QED BY <2>1, <3>2, <3>4 DEF Connection
  <2> QED BY <1>6, <2>1, <2>2, <2>3 DEF Connection
<1>8. x.connection.autoCommit = TRUE
  BY <1>2, <1>7 DEF Connection
<1>9. ASSUME k.autoCommit = TRUE PROVE x.ok = FALSE /\ x.connection.session = k.session
  <2>1. e = Return(k)
    BY <1>5, <1>9 DEF SetAutoCommit
  <2>2. e.ok = TRUE /\ e.connection = k
    BY <2>1 DEF Return
  <2>3. x = [ok |-> f.ok, connection |-> [k EXCEPT !.isTransactionSuccess = FALSE]]
    BY <1>2, <2>2
  <2> QED BY <1>5, <1>9, <2>3 DEF Connection
<1> QED BY <1>3, <1>8, <1>9

-----------------------------------------------------------------------------
(* Steps of one opener *)

(* What an opener has asked for stays asked for, on the same driver. *)
LEMMA AskedStays ==
  ASSUME TypeInv, [Next]_vars, NEW o \in Opener
  PROVE  connection'[o].platform = connection[o].platform /\ asked[o] \subseteq asked'[o]
<1>1. TypeOK /\ Closed(o).platform = connection[o].platform
  BY ClosedIs DEF TypeInv
<1>2. ASSUME NEW u \in Opener, OuterStep(u)
      PROVE  connection'[o].platform = connection[o].platform /\ asked[o] \subseteq asked'[o]
  <2>1. PICK s : Moves(u, s)
    BY <1>2, OuterMoves
  <2>2. connection'[o] \in {connection[o], Closed(o)}
    BY <2>1 DEF Moves
  <2>3. asked' = asked \/ \E c : asked' = [asked EXCEPT ![u] = @ \union {c}]
    BY <1>2 DEF OuterStep, Call, Lock, OpenFile, OpenFails, UpdateJournalMode, PragmaThrows, CloseAndThrow, Close,
                Step, history
  <2> QED BY <1>1, <2>2, <2>3 DEF TypeOK
<1>3. ASSUME NEW u \in Opener, InnerStep(u)
      PROVE  connection'[o].platform = connection[o].platform /\ asked[o] \subseteq asked'[o]
  <2>1. PICK s, W : Migrates(u, s, W)
    BY <1>3, InnerMigrates
  <2> QED BY <2>1 DEF Migrates, Touches, history
<1>4. ASSUME NEW p \in Process, Crash(p)
      PROVE  connection'[o].platform = connection[o].platform /\ asked[o] \subseteq asked'[o]
  BY <1>1, <1>4 DEF Crash
<1>5. CASE UNCHANGED vars
  BY <1>5 DEF vars, history
<1>6. (\E u \in Opener : OuterStep(u) \/ InnerStep(u)) \/ (\E p \in Process : Crash(p)) \/ UNCHANGED vars
  BY DEF Next, Terminated, Open, OuterStep, InnerStep
<1> QED BY <1>2, <1>3, <1>4, <1>5, <1>6

(* What a step of opener o leaves alone. *)
OthersStay(o) ==
  \A u \in Opener \ {o} :
    /\ connection'[u] = connection[u] /\ snapshot'[u] = snapshot[u] /\ config'[u] = config[u]
    /\ stage'[u] = stage[u] /\ initialVersion'[u] = initialVersion[u] /\ part'[u] = part[u]

(* The file grows by a whole migration, from the version it is at. *)
Finishes(o) ==
  /\ Writes(o) /\ Reading(o) /\ WorkOf(o)' = {}
  /\ file' = file \union Changes(o, 0 .. Parts)

(* The file grows by a part of a migration, which a callback with a        *)
(* transaction of its own has committed.                                   *)
Strays(o) ==
  /\ OwnScope(o)' /\ stage'[o] # "closed" /\ WorkOf(o)' = {}
  /\ \A u \in Opener \ {o} : WorkOf(u) = {}

(* What a step of opener o may do. *)
Progress(o) ==
  /\ OthersStay(o) /\ MigratingAt(o)' /\ SettledAt(o)'
  /\ \/ file' = file /\ (WorkOf(o)' # {} => snapshot'[o] = file /\ \A u \in Opener \ {o} : WorkOf(u) = {})
     \/ Finishes(o)
     \/ Strays(o)

(* An opener that no step touches stays as it is. *)
LEMMA MigratingStays ==
  ASSUME NEW u, MigratingAt(u), connection'[u] = connection[u], snapshot'[u] = snapshot[u],
         config'[u] = config[u], stage'[u] = stage[u], initialVersion'[u] = initialVersion[u],
         part'[u] = part[u]
  PROVE  MigratingAt(u)' /\ WorkOf(u)' = WorkOf(u)
<1>1. WorkOf(u)' = WorkOf(u) /\ (InTransaction(u, FALSE)' <=> InTransaction(u, FALSE))
      /\ (InTransaction(u, TRUE)' <=> InTransaction(u, TRUE))
  BY DEF WorkOf, InTransaction, Inside
<1>2. (Reading(u)' <=> Reading(u)) /\ Changes(u, 0 .. Parts)' = Changes(u, 0 .. Parts)
      /\ Changes(u, 1 .. Parts)' = Changes(u, 1 .. Parts)
      /\ Changes(u, 1 .. part[u] - 1)' = Changes(u, 1 .. part[u] - 1)
  BY DEF Reading, Changes, Newest, Tos
<1>3. (Inside(connection[u], FALSE)' <=> Inside(connection[u], FALSE))
      /\ (Outside(connection[u])' <=> Outside(connection[u]))
      /\ (OwnScope(u)' <=> OwnScope(u)) /\ (Adrift(u)' <=> Adrift(u))
  BY DEF Inside, Outside, OwnScope, Adrift
<1> QED BY <1>1, <1>2, <1>3 DEF MigratingAt, InTransaction

(* Another opener that is in migrateIfNeeded lives in another process, and *)
(* the file grows for it as Settled says.                                  *)
LEMMA SettledStays ==
  ASSUME TypeInv, [Next]_vars, NEW o \in Opener, NEW u \in Opener, u # o, Settled(u), config'[u] = config[u],
         file' = file \/ (stage[u] \in Inner /\ InnerStep(o))
  PROVE  Settled(u)'
<1>1. \A v \in Opener : asked[v] \subseteq asked'[v]
  BY AskedStays
<1>2. CASE file' = file
  BY <1>1, <1>2 DEF Settled, Tos
<1>3. CASE stage[u] \in Inner /\ InnerStep(o)
  <2>1. PICK s, W : Migrates(o, s, W)
    BY <1>3, InnerMigrates
  <2>2. stage[o] \notin Unlocked /\ stage[u] \notin Unlocked /\ stage[o] # "closed"
    BY <1>3, <2>1 DEF Migrates, Inner, Unlocked
  <2>3. ProcessOf[u] # ProcessOf[o]
    BY <2>2 DEF TypeInv, LockInv
  <2>4. /\ file \subseteq file' /\ \A w \in file' \ file : w.to = config[o].version
    BY <2>1 DEF Migrates, Touches, TypeInv, WorkInv
  <2>5. Tos(file) \subseteq Tos(file') /\ Tos(file') \subseteq Tos(file) \union {config[o].version}
    BY <2>4 DEF Tos
  <2>6. config[o] \in asked'[o]
    BY <1>1, <2>2 DEF TypeInv, AskedInv
  <2>7. ASSUME NEW y \in Tos(file'), y > config[u].version
        PROVE  \E v \in Opener : ProcessOf[v] # ProcessOf[u] /\ \E c \in asked'[v] : c.version = y
    <3>1. CASE y \in Tos(file)
      BY <1>1, <2>7, <3>1 DEF Settled
    <3>2. CASE y = config[o].version
      BY <2>3, <2>6, <3>2
    <3> QED BY <2>5, <2>7, <3>1, <3>2
  <2>8. config[u].version \in Tos(file')
    BY <2>5 DEF Settled
  <2>9. Tos(file)' = Tos(file')
    BY DEF Tos
  <2> QED BY <2>7, <2>8, <2>9 DEF Settled
<1> QED BY <1>2, <1>3

(* Such a step keeps the invariant. *)
LEMMA ProgressKeeps ==
  ASSUME TypeInv, TypeInv', ChainInv, [Next]_vars, NEW o \in Opener, Progress(o),
         file' = file \/ InnerStep(o)
  PROVE  ChainInv'
<1>1. \A u \in Opener \ {o} : MigratingAt(u)' /\ WorkOf(u)' = WorkOf(u)
  BY MigratingStays DEF Progress, OthersStay, ChainInv
<1>2. ASSUME NEW u \in Opener PROVE MigratingAt(u)' /\ SettledAt(u)'
  <2>1. CASE u = o
    BY <2>1 DEF Progress
  <2>2. CASE u # o
    <3>1. ASSUME stage'[u] \in {"mark", "end"}, ~ Adrift(u)', WorkOf(u)' = {} PROVE Settled(u)'
      <4>1. /\ stage[u] \in {"mark", "end"} /\ ~ Adrift(u) /\ WorkOf(u) = {} /\ config'[u] = config[u]
        BY <1>1, <2>2, <3>1 DEF Progress, OthersStay, Adrift, OwnScope
      <4>2. Settled(u) /\ stage[u] \in Inner
        BY <4>1 DEF ChainInv, SettledAt, Inner
      <4> QED BY <2>2, <4>1, <4>2, SettledStays
    <3> QED BY <1>1, <2>2, <3>1 DEF SettledAt
  <2> QED BY <2>1, <2>2
<1>3. WriterInv'
  <2>1. ASSUME NEW u \in Opener, WorkOf(u)' # {} PROVE Writes(u)'
    <3>1. CASE u = o
      <4>1. file' = file /\ snapshot'[o] = file /\ \A v \in Opener \ {o} : WorkOf(v) = {}
        BY <2>1, <3>1 DEF Progress, Finishes, Strays
      <4> QED BY <1>1, <3>1, <4>1 DEF Writes
    <3>2. CASE u # o
      <4>1. WorkOf(u) # {} /\ Writes(u)
        BY <1>1, <2>1, <3>2 DEF ChainInv, WriterInv
      <4>2. file' = file /\ WorkOf(o)' = {}
        BY <3>2, <4>1 DEF Progress, Finishes, Strays, Writes
      <4>3. snapshot'[u] = snapshot[u]
        BY <3>2 DEF Progress, OthersStay
      <4> QED BY <1>1, <4>1, <4>2, <4>3 DEF Writes
    <3> QED BY <3>1, <3>2
  <2> QED BY <2>1 DEF WriterInv
<1>4. ASSUME OneTransactionEach' PROVE Whole(file') /\ Chain(file')
  <2>1. OneTransactionEach
    BY <1>4, AskedStays DEF OneTransactionEach, CommitsForBoth
  <2>2. Whole(file) /\ Chain(file)
    BY <2>1 DEF ChainInv
  <2>3. CASE file' = file
    BY <2>2, <2>3
  <2>4. CASE Finishes(o)
    <3> DEFINE f == initialVersion[o]
    <3> DEFINE v == config[o].version
    <3>1. f \in Versions \union {0} /\ v \in Versions /\ file \in SUBSET Write
      BY DEF TypeInv, TypeOK, Configuration
    <3>2. f < v /\ Newest(file, f) /\ file' = file \union {Change(f, v, k) : k \in 0 .. Parts}
      BY <2>4 DEF Finishes, Reading, Writes, Changes
    <3> HIDE DEF f, v
    <3>3. /\ Whole(file \union {Change(f, v, k) : k \in 0 .. Parts})
          /\ Chain(file \union {Change(f, v, k) : k \in 0 .. Parts})
      BY <2>2, <3>1, <3>2, ChainGrows
    <3> QED BY <3>2, <3>3
  <2>5. CASE Strays(o)
    <3>1. config'[o] \in asked'[o] /\ config'[o].scoped = TRUE /\ connection'[o].platform = "jdbc"
      BY <2>5 DEF Strays, OwnScope, TypeInv, AskedInv
    <3> QED BY <1>4, <3>1 DEF OneTransactionEach, CommitsForBoth
  <2> QED BY <2>3, <2>4, <2>5 DEF Progress
<1>5. OneTransactionEach' => Whole(file)' /\ Chain(file)'
  BY <1>4 DEF Whole, Chain, Marks
<1> QED BY <1>2, <1>3, <1>5 DEF ChainInv

(* openDatabase outside migrateIfNeeded, and close. *)
LEMMA OuterProgress ==
  ASSUME TypeInv, ChainInv, NEW o \in Opener, OuterStep(o)
  PROVE  Progress(o) /\ file' = file
<1>1. TypeOK /\ FreshInv
  BY DEF TypeInv
<1>2. OthersStay(o)
  <2>1. /\ stage \in [Opener -> Stages] /\ connection \in [Opener -> Connection]
        /\ snapshot \in [Opener -> (SUBSET Write) \union {NoSnapshot}] /\ config \in [Opener -> Configuration]
    BY <1>1 DEF TypeOK
  <2>2. /\ \E s : stage' = [stage EXCEPT ![o] = s]
        /\ connection' = connection \/ \E c : connection' = [connection EXCEPT ![o] = c]
        /\ snapshot' = snapshot \/ \E c : snapshot' = [snapshot EXCEPT ![o] = c]
        /\ config' = config \/ \E c : config' = [config EXCEPT ![o] = c]
        /\ initialVersion' = initialVersion /\ part' = part
    BY DEF OuterStep, Call, Lock, OpenFile, OpenFails, UpdateJournalMode, PragmaThrows, CloseAndThrow, Close,
           Step, GoTo, openerVars
  <2> QED BY <2>1, <2>2 DEF OthersStay
<1>3. stage'[o] \in Fresh \union {"close"}
  <2>1. \E s \in Fresh \union {"close"} : stage' = [stage EXCEPT ![o] = s]
    BY DEF OuterStep, Call, Lock, OpenFile, OpenFails, UpdateJournalMode, PragmaThrows, CloseAndThrow, Close,
           Step, GoTo, Fresh
  <2> QED BY <1>1, <2>1 DEF TypeOK
<1>4. connection'[o] = Closed(o)
  <2>1. CASE CloseAndThrow(o) \/ Close(o)
    BY <1>1, <2>1 DEF CloseAndThrow, Close, TypeOK
  <2>2. CASE ~ (CloseAndThrow(o) \/ Close(o))
    <3>1. stage[o] \in Fresh /\ connection' = connection
      BY <2>2 DEF OuterStep, Call, Lock, OpenFile, OpenFails, UpdateJournalMode, PragmaThrows, Step, Fresh, Idle
    <3> QED BY <1>1, <3>1 DEF FreshInv
  <2> QED BY <2>1, <2>2
<1>5. file' = file
  BY DEF OuterStep, Call, Lock, OpenFile, OpenFails, UpdateJournalMode, PragmaThrows, CloseAndThrow, Close,
         Step, fileVars
<1>6. connection'[o].session.durable = {} /\ WorkOf(o)' = {} /\ connection'[o].session.inTransaction = FALSE
  BY <1>1, <1>4, ClosedIs DEF WorkOf
<1>7. MigratingAt(o)' /\ SettledAt(o)'
  BY <1>3, <1>6 DEF MigratingAt, SettledAt, Fresh
<1> QED BY <1>2, <1>5, <1>6, <1>7 DEF Progress

(* A crash. *)
LEMMA CrashChain ==
  ASSUME TypeInv, ChainInv, NEW p \in Process, Crash(p)
  PROVE  ChainInv'
<1> DEFINE dead == {o \in Opener : ProcessOf[o] = p}
<1>1. /\ connection' = [o \in Opener |-> IF o \in dead THEN Closed(o) ELSE connection[o]]
      /\ snapshot' = [o \in Opener |-> IF o \in dead THEN NoSnapshot ELSE snapshot[o]]
      /\ stage' = [o \in Opener |-> IF o \in dead THEN "closed" ELSE stage[o]]
      /\ initialVersion' = [o \in Opener |-> IF o \in dead THEN 0 ELSE initialVersion[o]]
      /\ part' = [o \in Opener |-> IF o \in dead THEN 1 ELSE part[o]]
      /\ config' = config /\ file' = file /\ asked' = asked
  BY DEF Crash, LocalsDie, fileVars
<1>2. ASSUME NEW o \in dead PROVE MigratingAt(o)' /\ SettledAt(o)' /\ WorkOf(o)' = {} /\ connection'[o] = Closed(o)
  <2>1. stage'[o] = "closed" /\ connection'[o] = Closed(o)
    BY <1>1, <1>2
  <2>2. connection'[o].session.durable = {} /\ WorkOf(o)' = {} /\ connection'[o].session.inTransaction = FALSE
    BY <2>1, ClosedIs DEF WorkOf, TypeInv
  <2> QED BY <2>1, <2>2 DEF MigratingAt, SettledAt
<1>3. ASSUME NEW o \in Opener \ dead
      PROVE  /\ MigratingAt(o)' /\ SettledAt(o)' /\ WorkOf(o)' = WorkOf(o)
             /\ snapshot'[o] = snapshot[o] /\ connection'[o] = connection[o]
  <2>1. /\ connection'[o] = connection[o] /\ snapshot'[o] = snapshot[o] /\ config'[o] = config[o]
        /\ stage'[o] = stage[o] /\ initialVersion'[o] = initialVersion[o] /\ part'[o] = part[o]
    BY <1>1, <1>3
  <2>2. MigratingAt(o) /\ SettledAt(o)
    BY DEF ChainInv
  <2>3. MigratingAt(o)' /\ WorkOf(o)' = WorkOf(o)
    BY <2>1, <2>2, MigratingStays
  <2>4. SettledAt(o)'
    BY <1>1, <2>1, <2>2, <2>3 DEF SettledAt, Settled, Adrift, OwnScope, Tos
  <2> QED BY <2>1, <2>3, <2>4
<1> HIDE DEF dead
<1>4. WriterInv'
  <2>1. ASSUME NEW o \in Opener, WorkOf(o)' # {} PROVE Writes(o)'
    <3>1. o \notin dead /\ Writes(o)
      BY <1>2, <1>3, <2>1 DEF ChainInv, WriterInv
    <3> QED BY <1>1, <1>2, <1>3, <3>1 DEF Writes
  <2> QED BY <2>1 DEF WriterInv
<1>5. OneTransactionEach' => Whole(file)' /\ Chain(file)'
  <2>1. \A o \in Opener : connection'[o].platform = connection[o].platform
    BY <1>2, <1>3, ClosedIs DEF TypeInv
  <2>2. OneTransactionEach' => OneTransactionEach
    BY <1>1, <2>1 DEF OneTransactionEach, CommitsForBoth
  <2> QED BY <1>1, <2>2 DEF ChainInv, Whole, Chain, Marks
<1>6. \A o \in Opener : MigratingAt(o)' /\ SettledAt(o)'
  BY <1>2, <1>3
<1> QED BY <1>4, <1>5, <1>6 DEF ChainInv

-----------------------------------------------------------------------------
(* Steps of migrateIfNeeded, one by one *)

(* A call that leaves the file as it is. *)
LEMMA CallProgress ==
  ASSUME TypeInv, ChainInv, NEW o \in Opener, NEW x, x.connection \in Connection, Effect(o, x),
         x.connection.session.durable = file, MigratingAt(o)', SettledAt(o)',
         x.connection.session.work = {} \/
           /\ x.connection.session.inTransaction = TRUE /\ snapshot[o] = file
           /\ \A u \in Opener \ {o} : WorkOf(u) = {},
         NEW s, stage' = [stage EXCEPT ![o] = s], config' = config,
         \A u \in Opener \ {o} : initialVersion'[u] = initialVersion[u] /\ part'[u] = part[u]
  PROVE  Progress(o)
<1>1. /\ WorkOf(o)' = x.connection.session.work /\ file' = file
      /\ x.connection.session.inTransaction = TRUE => snapshot' = snapshot
      /\ \A u \in Opener \ {o} : connection'[u] = connection[u] /\ snapshot'[u] = snapshot[u]
  BY EffectIs DEF TypeInv
<1>2. \A u \in Opener \ {o} : stage'[u] = stage[u]
  BY DEF TypeInv, TypeOK
<1>3. OthersStay(o)
  BY <1>1, <1>2 DEF OthersStay
<1> QED BY <1>1, <1>3 DEF Progress

(* A step without a call. *)
LEMMA QuietProgress ==
  ASSUME TypeInv, ChainInv, NEW o \in Opener, MigratingAt(o)', SettledAt(o)', UNCHANGED <<file, connection, config>>,
         NEW s, stage' = [stage EXCEPT ![o] = s], WorkOf(o) = {} \/ snapshot' = snapshot,
         \A u \in Opener \ {o} :
           snapshot'[u] = snapshot[u] /\ initialVersion'[u] = initialVersion[u] /\ part'[u] = part[u]
  PROVE  Progress(o)
<1>1. \A u \in Opener \ {o} : stage'[u] = stage[u]
  BY DEF TypeInv, TypeOK
<1>2. OthersStay(o)
  BY <1>1 DEF OthersStay
<1>3. WorkOf(o)' = WorkOf(o)
  BY DEF WorkOf
<1>4. WorkOf(o) # {} => Writes(o)
  BY DEF ChainInv, WriterInv
<1> QED BY <1>2, <1>3, <1>4 DEF Progress, Writes

(* BEGIN, on a connection that was just opened. *)
LEMMA BeginProgress ==
  ASSUME TypeInv, ChainInv, NEW o \in Opener, BeginMigration(o)
  PROVE  Progress(o)
<1>1. PICK x \in BeginCall(Now(o)) : Effect(o, x) /\ GoTo(o, IF x.ok THEN "version" ELSE "close")
  BY DEF BeginMigration, Calling
<1>2. stage[o] = "begin" /\ config' = config /\ initialVersion' = initialVersion /\ part' = part
  BY DEF BeginMigration, Calling, openerVars
<1>3. TypeOK /\ connection[o] = Closed(o)
  BY <1>2 DEF TypeInv, FreshInv, Fresh
<1>4. /\ Now(o) \in Connection /\ SameDriver(Now(o), connection[o]) /\ Now(o).session.durable = file
      /\ Now(o).session.work = {} /\ Now(o).session.inTransaction = FALSE /\ Now(o).session \in Session
  BY <1>3, NowIs, ClosedIs DEF WorkOf
<1>5. Outside(Now(o))
  BY <1>3, <1>4, ClosedIs DEF Outside, SameDriver
<1>6. /\ x.ok = TRUE /\ x.connection \in Connection /\ Inside(x.connection, FALSE)
      /\ x.connection.session = [Now(o).session EXCEPT !.inTransaction = TRUE, !.work = {}]
  BY <1>4, <1>5, BeginDoes
<1>7. /\ x.connection.session.durable = file /\ x.connection.session.work = {}
      /\ x.connection.session.inTransaction = TRUE
  BY <1>4, <1>6 DEF Session
<1>8. stage' = [stage EXCEPT ![o] = "version"] /\ stage'[o] = "version"
  BY <1>1, <1>3, <1>6 DEF GoTo, TypeOK
<1>9. /\ SameDriver(connection'[o], x.connection) /\ connection'[o].session.durable = {} /\ WorkOf(o)' = {}
      /\ connection'[o].session.inTransaction = TRUE
  BY <1>1, <1>3, <1>6, <1>7, EffectIs
<1>10. Inside(connection'[o], FALSE)
  BY <1>6, <1>9, InsideOf
<1>11. MigratingAt(o)' /\ SettledAt(o)'
  BY <1>8, <1>9, <1>10 DEF MigratingAt, SettledAt, InTransaction
<1> QED BY <1>1, <1>2, <1>6, <1>7, <1>8, <1>11, CallProgress

(* Reading the version decides whether to migrate. *)
LEMMA ReadVersionProgress ==
  ASSUME TypeInv, ChainInv, NEW o \in Opener, ReadVersion(o)
  PROVE  Progress(o)
<1> DEFINE found == UserVersion(file)
<1> DEFINE wanted == config[o].version
<1>1. /\ stage[o] = "version" /\ initialVersion' = [initialVersion EXCEPT ![o] = found]
      /\ part' = [part EXCEPT ![o] = 1] /\ snapshot' = [snapshot EXCEPT ![o] = file]
      /\ UNCHANGED <<fileVars, connection, config>>
  BY DEF ReadVersion
<1>2. TypeOK
  BY DEF TypeInv
<1>3. /\ initialVersion'[o] = found /\ part'[o] = 1 /\ snapshot'[o] = file
      /\ \A u \in Opener \ {o} :
           snapshot'[u] = snapshot[u] /\ initialVersion'[u] = initialVersion[u] /\ part'[u] = part[u]
  BY <1>1, <1>2 DEF TypeOK
<1>4. InTransaction(o, FALSE) /\ WorkOf(o) = {} /\ connection[o].session.durable = {}
  BY <1>1 DEF ChainInv, MigratingAt
<1>5. found \in Versions \union {0} /\ Newest(file, found)
  <2>1. PICK v \in Tos(file) : Newest(file, v)
    BY DEF TypeInv, NewestInv
  <2> QED BY <1>2, <2>1, NewestIsUserVersion DEF TypeOK
<1>6. wanted \in Nat \ {0} /\ wanted \in Versions
  BY <1>2, VersionsAssumption DEF TypeOK, Configuration
<1>7. found \in Nat
  <2>1. CASE found = 0
    BY <2>1
  <2>2. CASE found \in Versions
    BY <2>2, VersionsAssumption
  <2> QED BY <1>5, <2>1, <2>2
<1> HIDE DEF found
<1> DEFINE next == CASE found = 0      -> Callback(o)
                     [] found = wanted -> "mark"
                     [] found > wanted -> "unwind"
                     [] OTHER          -> IF IsActualReadOnly(o) THEN "unwind" ELSE Callback(o)
<1>8. stage' = [stage EXCEPT ![o] = next]
  BY DEF ReadVersion, GoTo, found
<1>9. next \in {"mark", "unwind"} \/ (next = Callback(o) /\ found < wanted)
  <2> HIDE DEF wanted
  <2>1. CASE found = 0
    BY <1>6, <2>1 DEF wanted
  <2>2. CASE found # 0 /\ found = wanted
    BY <2>2
  <2>3. CASE found # 0 /\ found # wanted /\ found > wanted
    BY <2>3
  <2>4. CASE found # 0 /\ found # wanted /\ ~ (found > wanted)
    <3>1. next = IF IsActualReadOnly(o) THEN "unwind" ELSE Callback(o)
      BY <2>4
    <3>2. wanted \in Nat
      BY <1>6 DEF wanted
    <3>3. found < wanted
      BY <1>7, <2>4, <3>2
    <3> QED BY <3>1, <3>3
  <2> QED BY <2>1, <2>2, <2>3, <2>4
<1> HIDE DEF next
<1>10. stage'[o] = next
  BY <1>2, <1>8 DEF TypeOK
<1>11. /\ WorkOf(o)' = {} /\ connection'[o].session.durable = {} /\ InTransaction(o, FALSE)'
  BY <1>1, <1>4 DEF WorkOf, InTransaction, Inside
<1>12. config[o].scoped \in BOOLEAN
  BY <1>2, ConfigAssumption DEF TypeOK, Configuration
<1>13. found < wanted => Reading(o)'
  <2>1. file # NoSnapshot
    <3>1. Change(0, 0, 0) \notin Write
      BY WritesAre, ChangesAre
    <3> QED BY <1>2, <3>1 DEF TypeOK, NoSnapshot
  <2>2. Newest(file, found)'
    BY <1>1, <1>5 DEF found, fileVars
  <2> QED BY <1>1, <1>3, <1>5, <2>1, <2>2 DEF Reading, NoSnapshot, Newest, Tos
<1>14. Changes(o, 1 .. part[o] - 1)' = {}
  <2>1. 1 .. part'[o] - 1 = {}
    BY <1>3
  <2> QED BY <2>1 DEF Changes
<1>15. MigratingAt(o)'
  <2>1. CASE next \in {"mark", "unwind"}
    BY <1>10, <1>11, <2>1 DEF MigratingAt, InTransaction
  <2>2. CASE next = "scope" /\ next = Callback(o) /\ found < wanted
    <3>1. config[o].scoped = TRUE
      BY <1>12, <2>2 DEF Callback
    <3> QED BY <1>1, <1>3, <1>10, <1>11, <1>13, <2>2, <3>1 DEF MigratingAt, InTransaction
  <2>3. CASE next = "callback" /\ next = Callback(o) /\ found < wanted
    <3>1. config[o].scoped = FALSE
      BY <1>12, <2>3 DEF Callback
    <3> QED BY <1>1, <1>10, <1>11, <1>13, <1>14, <2>3, <3>1 DEF MigratingAt, InTransaction
  <2>4. Callback(o) \in {"scope", "callback"}
    BY DEF Callback
  <2> QED BY <1>9, <2>1, <2>2, <2>3, <2>4
<1>16. SettledAt(o)'
  <2>1. CASE next = "mark"
    <3>1. found = wanted
      <4> HIDE DEF wanted
      <4>1. Callback(o) # "mark" /\ "unwind" # "mark"
        BY DEF Callback
      <4> QED BY <2>1, <4>1 DEF next
    <3>2. Newest(file, wanted)
      BY <1>5, <3>1
    <3>3. wanted \in Tos(file) /\ \A y \in Tos(file) : ~ (y > wanted)
      <4>1. \A y \in Tos(file) : y \in Nat
        <5>1. file \in SUBSET Write
          BY <1>2 DEF TypeOK
        <5> QED BY <5>1, TosAreNumbers
      <4> HIDE DEF wanted
      <4>2. wanted \in Nat
        BY <1>6 DEF wanted
      <4> QED BY <3>2, <4>1, <4>2 DEF Newest
    <3>4. Settled(o)'
      BY <1>1, <3>3 DEF Settled, Tos, fileVars
    <3> QED BY <3>4 DEF SettledAt
  <2>2. CASE next # "mark"
    <3>1. stage'[o] \notin {"mark", "end"}
      BY <1>9, <1>10, <2>2 DEF Callback
    <3> QED BY <3>1 DEF SettledAt
  <2> QED BY <2>1, <2>2
<1>17. UNCHANGED <<file, connection, config>>
  BY <1>1 DEF fileVars
<1> QED BY <1>3, <1>4, <1>8, <1>15, <1>16, <1>17, QuietProgress

(* A transaction inside the migration: BEGIN fails on native, and over     *)
(* JDBC there is nothing to begin.                                         *)
LEMMA BeginScopeProgress ==
  ASSUME TypeInv, ChainInv, NEW o \in Opener, BeginScope(o)
  PROVE  Progress(o)
<1>1. PICK x \in BeginCall(Now(o)) : Effect(o, x) /\ GoTo(o, IF x.ok THEN "callback" ELSE "unwind")
  BY DEF BeginScope, Calling
<1>2. stage[o] = "scope" /\ config' = config /\ initialVersion' = initialVersion /\ part' = part
  BY DEF BeginScope, Calling, openerVars
<1>3. TypeOK /\ InTransaction(o, FALSE) /\ WorkOf(o) = {} /\ Reading(o) /\ part[o] = 1
  BY <1>2 DEF TypeInv, ChainInv, MigratingAt
<1>4. /\ Now(o) \in Connection /\ SameDriver(Now(o), connection[o]) /\ Now(o).session.durable = file
      /\ Now(o).session.work = {} /\ Now(o).session.inTransaction = TRUE
      /\ Now(o).platform = connection[o].platform
  BY <1>3, NowIs DEF SameDriver, InTransaction
<1>5. connection[o].platform = "native" \/ connection[o].platform = "jdbc"
  BY <1>3, PlatformsAssumption DEF TypeOK, Connection
<1>6. /\ x.connection \in Connection /\ x.connection.session = Now(o).session
      /\ SameDriver(x.connection, Now(o))
      /\ (connection[o].platform = "native" /\ x.ok = FALSE) \/ (connection[o].platform = "jdbc" /\ x.ok = TRUE)
  <2>1. CASE connection[o].platform = "native"
    BY <1>4, <2>1, NestedBegin
  <2>2. CASE connection[o].platform = "jdbc"
    <3>1. Inside(Now(o), FALSE)
      BY <1>3, <1>4, InsideOf DEF InTransaction
    <3> QED BY <1>4, <2>2, <3>1, JdbcNestedBegin
  <2> QED BY <1>5, <2>1, <2>2
<1>7. PICK s : /\ stage' = [stage EXCEPT ![o] = s]
               /\ s = "unwind" \/ (s = "callback" /\ connection[o].platform = "jdbc")
  BY <1>1, <1>6 DEF GoTo
<1>8. stage'[o] = s
  BY <1>3, <1>7 DEF TypeOK
<1>9. x.connection.session.work = {} /\ x.connection.session.inTransaction = TRUE
      /\ x.connection.session.durable = file
  BY <1>4, <1>6
<1>10. /\ SameDriver(connection'[o], x.connection) /\ connection'[o].session.durable = {} /\ WorkOf(o)' = {}
       /\ connection'[o].session.inTransaction = TRUE /\ snapshot' = snapshot
  <2>1. x.connection \in Connection /\ Effect(o, x) /\ TypeOK
    BY <1>1, <1>3, <1>6
  <2>2. /\ SameDriver(connection'[o], x.connection) /\ connection'[o].session.durable = {}
        /\ WorkOf(o)' = x.connection.session.work
        /\ connection'[o].session.inTransaction = x.connection.session.inTransaction
        /\ x.connection.session.inTransaction = TRUE => snapshot' = snapshot
    BY <2>1, EffectIs
  <2> QED BY <1>9, <2>2
<1>11. Inside(connection'[o], FALSE) /\ connection'[o].platform = connection[o].platform
  <2>1. SameDriver(connection'[o], connection[o])
    BY <1>4, <1>6, <1>10 DEF SameDriver
  <2> QED BY <1>3, <2>1, InsideOf DEF InTransaction, SameDriver
<1>12. MigratingAt(o)'
  <2>1. CASE s = "unwind"
    BY <1>8, <1>10, <1>11, <2>1 DEF MigratingAt
  <2>2. CASE s = "callback" /\ connection[o].platform = "jdbc"
    <3>1. Reading(o)'
      BY <1>2, <1>3, <1>10 DEF Reading, Newest, Tos
    <3>2. Changes(o, 1 .. part[o] - 1)' = {}
      <4>1. 1 .. part'[o] - 1 = {}
        BY <1>2, <1>3
      <4> QED BY <4>1 DEF Changes
    <3>3. OwnScope(o)'
      BY <1>2, <1>11, <2>2 DEF ChainInv, MigratingAt, OwnScope
    <3> QED BY <1>8, <1>10, <1>11, <2>2, <3>1, <3>2, <3>3 DEF MigratingAt, InTransaction
  <2> QED BY <1>7, <2>1, <2>2
<1>13. SettledAt(o)'
  BY <1>7, <1>8 DEF SettledAt
<1> QED BY <1>1, <1>2, <1>6, <1>7, <1>9, <1>12, <1>13, CallProgress

(* A write of the migration: it joins the work, or the work stays, or is   *)
(* rolled back.                                                            *)
LEMMA WriteProgress ==
  ASSUME TypeInv, ChainInv, NEW o \in Opener, NEW w \in Write, NEW x \in WriteCall(o, w), Effect(o, x),
         InTransaction(o, FALSE), Reading(o), NEW s, stage' = [stage EXCEPT ![o] = s], config' = config,
         initialVersion' = initialVersion, \A u \in Opener \ {o} : part'[u] = part[u],
         \/ s = "unwind" \/ (s = "unwindScope" /\ OwnScope(o))
         \/ x.ok = TRUE /\ s \in {"callback", "mark"},
         x.ok = TRUE /\ s = "callback" =>
           /\ config[o].scoped = TRUE => OwnScope(o)
           /\ WorkOf(o) \union {w} = {Change(initialVersion[o], config[o].version, k) : k \in 1 .. part'[o] - 1},
         x.ok = TRUE /\ s = "mark" => WorkOf(o) \union {w} = Changes(o, 0 .. Parts)
  PROVE  Progress(o)
<1>1. TypeOK
  BY DEF TypeInv
<1>2. /\ Now(o) \in Connection /\ SameDriver(Now(o), connection[o])
      /\ connection[o].session.inTransaction = TRUE
  BY <1>1, NowIs DEF InTransaction
<1>3. /\ x.connection \in Connection /\ x.ok \in BOOLEAN /\ SameDriver(x.connection, Now(o))
      /\ x.connection.session.durable = file
      /\ x.ok = TRUE => /\ MayWriteFile(o) /\ x.connection.session.inTransaction = TRUE
                        /\ x.connection.session.work = WorkOf(o) \union {w}
      /\ x.ok = FALSE => \/ x.connection.session.inTransaction = TRUE /\ x.connection.session.work = WorkOf(o)
                         \/ x.connection.session.inTransaction = FALSE /\ x.connection.session.work = {}
  BY <1>1, <1>2, WriteDoes
<1>4. /\ SameDriver(connection'[o], x.connection) /\ connection'[o].session.durable = {}
      /\ WorkOf(o)' = x.connection.session.work
      /\ connection'[o].session.inTransaction = x.connection.session.inTransaction
      /\ x.connection.session.inTransaction = TRUE => snapshot' = snapshot
  BY <1>1, <1>3, EffectIs
<1>5. Inside(connection'[o], FALSE)
  <2>1. SameDriver(connection'[o], connection[o])
    BY <1>2, <1>3, <1>4 DEF SameDriver
  <2> QED BY <2>1, InsideOf DEF InTransaction
<1>6. \/ x.connection.session.work = {}
      \/ /\ x.connection.session.inTransaction = TRUE /\ snapshot[o] = file
         /\ \A u \in Opener \ {o} : WorkOf(u) = {}
  <2>1. CASE x.ok = TRUE
    BY <1>3, <2>1 DEF MayWriteFile, Reading, WorkOf
  <2>2. CASE x.ok = FALSE
    BY <1>3, <2>2 DEF ChainInv, WriterInv, Writes
  <2> QED BY <1>3, <2>1, <2>2
<1>7. stage'[o] = s
  BY <1>1 DEF TypeOK
<1>8. x.ok = TRUE => Reading(o)'
  <2>1. ASSUME x.ok = TRUE PROVE Reading(o)'
    <3>1. snapshot' = snapshot
      BY <1>3, <1>4, <2>1
    <3> QED BY <3>1 DEF Reading, Newest, Tos
  <2> QED BY <2>1
<1>9. OwnScope(o)' <=> OwnScope(o)
  BY <1>2, <1>3, <1>4 DEF OwnScope, SameDriver
<1>10. MigratingAt(o)'
  <2>1. CASE s = "unwind"
    <3>1. x.connection.session.inTransaction = FALSE => x.connection.session.work = {}
      BY <1>3
    <3> QED BY <1>4, <1>5, <1>7, <2>1, <3>1 DEF MigratingAt
  <2>2. CASE s = "unwindScope" /\ OwnScope(o)
    <3>1. x.connection.session.inTransaction = FALSE => x.connection.session.work = {}
      BY <1>3
    <3> QED BY <1>4, <1>5, <1>7, <1>9, <2>2, <3>1 DEF MigratingAt
  <2>3. CASE x.ok = TRUE /\ s = "callback"
    <3>1. /\ WorkOf(o)' = WorkOf(o) \union {w} /\ connection'[o].session.inTransaction = TRUE
      BY <1>3, <1>4, <2>3
    <3>2. WorkOf(o)' = Changes(o, 1 .. part[o] - 1)'
      BY <2>3, <3>1 DEF Changes
    <3> QED BY <1>4, <1>5, <1>7, <1>8, <1>9, <2>3, <3>1, <3>2 DEF MigratingAt, InTransaction
  <2>4. CASE x.ok = TRUE /\ s = "mark"
    <3>1. /\ WorkOf(o)' = WorkOf(o) \union {w} /\ connection'[o].session.inTransaction = TRUE
      BY <1>3, <1>4, <2>4
    <3>2. WorkOf(o)' = Changes(o, 0 .. Parts)'
      BY <2>4, <3>1 DEF Changes
    <3> QED BY <1>4, <1>5, <1>7, <1>8, <2>4, <3>1, <3>2 DEF MigratingAt, InTransaction
  <2> QED BY <2>1, <2>2, <2>3, <2>4
<1>11. SettledAt(o)'
  <2>1. CASE s = "mark"
    <3>1. w \in WorkOf(o)'
      BY <1>3, <1>4, <2>1
    <3> QED BY <3>1 DEF SettledAt
  <2>2. CASE s # "mark"
    BY <1>7, <2>2 DEF SettledAt
  <2> QED BY <2>1, <2>2
<1> QED BY <1>3, <1>6, <1>10, <1>11, CallProgress

(* A statement of the callback. *)
LEMMA StatementProgress ==
  ASSUME TypeInv, ChainInv, NEW o \in Opener, CallbackStatement(o)
  PROVE  Progress(o)
<1> DEFINE w == Migrating(o, part[o])
<1>1. PICK x \in WriteCall(o, w) : Effect(o, x) /\ GoTo(o, IF x.ok THEN "callback" ELSE AfterFailure(o))
  BY DEF CallbackStatement, Calling
<1>2. /\ stage[o] = "callback" /\ config' = config /\ initialVersion' = initialVersion /\ part[o] <= Parts
      /\ part' = IF stage'[o] = "callback" THEN [part EXCEPT ![o] = @ + 1] ELSE part
  BY DEF CallbackStatement, Calling
<1>3. TypeOK /\ part[o] \in 1 .. Parts + 1 /\ Parts \in Nat
  BY BoundsAssumption DEF TypeInv, TypeOK
<1>4. /\ InTransaction(o, FALSE) /\ Reading(o) /\ WorkOf(o) = Changes(o, 1 .. part[o] - 1)
      /\ config[o].scoped = TRUE => OwnScope(o)
  BY <1>2 DEF ChainInv, MigratingAt
<1>5. w \in Write
  BY <1>2, <1>3, MigratingIs
<1>6. w = Change(initialVersion[o], config[o].version, part[o])
  BY DEF Migrating
<1> HIDE DEF w
<1>7. x.ok \in BOOLEAN
  <2>1. connection[o].session.inTransaction = TRUE
    BY <1>4 DEF InTransaction
  <2> QED BY <1>3, <1>5, <2>1, WriteDoes
<1>8. PICK s : /\ stage' = [stage EXCEPT ![o] = s]
               /\ x.ok = TRUE => s = "callback"
               /\ x.ok = FALSE => s = "unwind" \/ (s = "unwindScope" /\ OwnScope(o))
  <2>1. config[o].scoped \in BOOLEAN
    BY <1>3, ConfigAssumption DEF TypeOK, Configuration
  <2> QED BY <1>1, <1>4, <1>7, <2>1 DEF GoTo, AfterFailure
<1>9. stage'[o] = s
  BY <1>3, <1>8 DEF TypeOK
<1>10. \A u \in Opener \ {o} : part'[u] = part[u]
  BY <1>2, <1>3 DEF TypeOK
<1>11. ASSUME x.ok = TRUE
       PROVE  WorkOf(o) \union {w} = {Change(initialVersion[o], config[o].version, k) : k \in 1 .. part'[o] - 1}
  <2>1. part'[o] = part[o] + 1
    BY <1>2, <1>3, <1>8, <1>9, <1>11 DEF TypeOK
  <2>2. 1 .. part'[o] - 1 = (1 .. part[o] - 1) \union {part[o]}
    BY <1>3, <2>1
  <2> QED BY <1>4, <1>6, <2>2 DEF Changes
<1>12. s # "mark"
  BY <1>7, <1>8
<1>13. \/ s = "unwind" \/ (s = "unwindScope" /\ OwnScope(o))
       \/ x.ok = TRUE /\ s \in {"callback", "mark"}
  BY <1>7, <1>8
<1> QED BY <1>1, <1>2, <1>4, <1>5, <1>8, <1>10, <1>11, <1>12, <1>13, WriteProgress

(* A write outside a transaction is durable at once, or is not done.       *)
LEMMA WriteOutsideDoes ==
  ASSUME TypeOK, NEW o \in Opener, NEW w \in Write, Outside(connection[o]), NEW x \in WriteCall(o, w)
  PROVE  /\ x.connection \in Connection /\ x.ok \in BOOLEAN /\ SameDriver(x.connection, Now(o))
         /\ Outside(x.connection)
         /\ x.connection.session.durable = file \/ MayWriteFile(o)
<1> DEFINE k == Now(o)
<1>1. /\ k \in Connection /\ k.session \in Session /\ k.session.durable = file
      /\ k.session.work = {} /\ k.session.inTransaction = FALSE /\ SameDriver(k, connection[o])
  BY NowIs DEF Outside, WorkOf
<1>2. k.transaction = "null" /\ k.autoCommit = TRUE
  BY <1>1 DEF Outside, SameDriver
<1> HIDE DEF k
<1>3. CASE MayWriteFile(o)
  <2>1. x \in ExecCall(k, w)
    BY <1>3 DEF WriteCall, k
  <2>2. /\ x.connection \in Connection /\ x.ok \in BOOLEAN /\ SameDriver(x.connection, k)
        /\ x.ok => x.connection.session =
             IF k.session.inTransaction
             THEN [k.session EXCEPT !.work = @ \union {w}]
             ELSE [k.session EXCEPT !.durable = @ \union {w}]
        /\ ~ x.ok => x.connection.session \in {k.session, RolledBack(k.session)}
    BY <1>1, <2>1, ExecDoes
  <2>3. x.connection.session.inTransaction = FALSE /\ x.connection.session.work = {}
    <3>1. CASE x.ok = TRUE
      <4>1. x.connection.session = [k.session EXCEPT !.durable = @ \union {w}]
        BY <1>1, <2>2, <3>1
      <4> QED BY <1>1, <4>1 DEF Session
    <3>2. CASE x.ok = FALSE
      BY <1>1, <2>2, <3>2 DEF RolledBack, Session
    <3> QED BY <2>2, <3>1, <3>2
  <2> QED BY <1>2, <1>3, <2>2, <2>3 DEF Outside, SameDriver, k
<1>4. CASE ~ MayWriteFile(o)
  <2>1. x.ok = FALSE /\ x.connection = k
    BY <1>4 DEF WriteCall, Throw, k
  <2> QED BY <1>1, <1>2, <2>1 DEF Outside, SameDriver, k
<1> QED BY <1>3, <1>4

(* A call of an opener whose transaction is adrift. *)
LEMMA AdriftProgress ==
  ASSUME TypeInv, ChainInv, NEW o \in Opener, OwnScope(o), NEW x, x.connection \in Connection, Effect(o, x),
         x.connection.platform = "jdbc", x.connection.autoCommit = TRUE,
         x.connection.session.inTransaction = FALSE => x.connection.session.work = {},
         \/ x.connection.session.durable = file /\ x.connection.session = Now(o).session
         \/ x.connection.session.durable = file /\ x.connection.session.work = {}
         \/ x.connection.session.work = {} /\ \A u \in Opener \ {o} : WorkOf(u) = {},
         NEW s, stage' = [stage EXCEPT ![o] = s], s \in {"setVersion", "mark", "end"} => Outside(x.connection),
         s \in {"setVersion", "mark", "end", "unwind", "close"}, config' = config,
         \A u \in Opener \ {o} : initialVersion'[u] = initialVersion[u] /\ part'[u] = part[u]
  PROVE  Progress(o)
<1>1. /\ SameDriver(connection'[o], x.connection) /\ connection'[o].session.durable = {}
      /\ WorkOf(o)' = x.connection.session.work /\ file' = x.connection.session.durable
      /\ connection'[o].session.inTransaction = x.connection.session.inTransaction
      /\ x.connection.session.inTransaction = TRUE => snapshot' = snapshot
      /\ \A u \in Opener \ {o} : connection'[u] = connection[u] /\ snapshot'[u] = snapshot[u]
  <2>1. TypeOK
    BY DEF TypeInv
  <2> QED BY <2>1, EffectIs
<1>2. stage'[o] = s /\ \A u \in Opener \ {o} : stage'[u] = stage[u]
  BY DEF TypeInv, TypeOK
<1>3. OthersStay(o)
  BY <1>1, <1>2 DEF OthersStay
<1>4. OwnScope(o)' /\ Adrift(o)'
  BY <1>1 DEF OwnScope, Adrift, SameDriver
<1>5. s \in {"setVersion", "mark", "end"} => Outside(connection'[o])
  <2>1. connection'[o].session.work = x.connection.session.work
    BY <1>1 DEF WorkOf
  <2> QED BY <1>1, <2>1, InsideOf
<1>6. MigratingAt(o)' /\ SettledAt(o)'
  BY <1>1, <1>2, <1>4, <1>5 DEF MigratingAt, SettledAt
<1>7. CASE x.connection.session.durable = file /\ x.connection.session = Now(o).session
  <2>1. WorkOf(o)' = WorkOf(o) /\ file' = file
    BY <1>1, <1>7, NowIs DEF TypeInv
  <2>2. WorkOf(o)' # {} => snapshot'[o] = snapshot[o]
    <3>1. x.connection.session.inTransaction \in BOOLEAN
      BY DEF Connection, Session
    <3> QED BY <1>1, <3>1
  <2> QED BY <1>3, <1>6, <2>1, <2>2 DEF Progress, ChainInv, WriterInv, Writes
<1>8. CASE x.connection.session.durable = file /\ x.connection.session.work = {}
  BY <1>1, <1>3, <1>6, <1>8 DEF Progress
<1>9. CASE x.connection.session.work = {} /\ \A u \in Opener \ {o} : WorkOf(u) = {}
  <2>1. Strays(o)
    BY <1>1, <1>2, <1>4, <1>9 DEF Strays
  <2> QED BY <1>3, <1>6, <2>1 DEF Progress
<1> QED BY <1>7, <1>8, <1>9

(* PRAGMA user_version = ..., the last write. *)
LEMMA SetVersionProgress ==
  ASSUME TypeInv, ChainInv, NEW o \in Opener, SetVersion(o)
  PROVE  Progress(o)
<1> DEFINE w == Migrating(o, 0)
<1>1. PICK x \in WriteCall(o, w) : Effect(o, x) /\ GoTo(o, IF x.ok THEN "mark" ELSE "unwind")
  BY DEF SetVersion, Calling
<1>2. stage[o] = "setVersion" /\ config' = config /\ initialVersion' = initialVersion /\ part' = part
  BY DEF SetVersion, Calling, openerVars
<1>3. TypeOK /\ Parts \in Nat
  BY BoundsAssumption DEF TypeInv
<1>4. w \in Write
  BY <1>3, MigratingIs
<1>5. w = Change(initialVersion[o], config[o].version, 0)
  BY DEF Migrating
<1> HIDE DEF w
<1>6. PICK s : /\ stage' = [stage EXCEPT ![o] = s] /\ s \in {"mark", "unwind"}
               /\ x.ok = TRUE => s = "mark"
               /\ x.ok = FALSE => s = "unwind"
  BY <1>1 DEF GoTo
<1>7. CASE InTransaction(o, FALSE) /\ Reading(o) /\ WorkOf(o) = Changes(o, 1 .. Parts)
  <2>1. x.ok \in BOOLEAN
    <3>1. connection[o].session.inTransaction = TRUE
      BY <1>7 DEF InTransaction
    <3> QED BY <1>3, <1>4, <3>1, WriteDoes
  <2>2. WorkOf(o) \union {w} = Changes(o, 0 .. Parts)
    <3>1. 0 .. Parts = (1 .. Parts) \union {0}
      BY <1>3
    <3> QED BY <1>5, <1>7, <3>1 DEF Changes
  <2>3. \/ s = "unwind" \/ (s = "unwindScope" /\ OwnScope(o))
        \/ x.ok = TRUE /\ s \in {"callback", "mark"}
    BY <1>6, <2>1
  <2>4. s # "callback"
    BY <1>6
  <2> QED BY <1>1, <1>2, <1>4, <1>6, <1>7, <2>2, <2>3, <2>4, WriteProgress
<1>8. CASE Adrift(o) /\ Outside(connection[o])
  <2>1. /\ x.connection \in Connection /\ SameDriver(x.connection, Now(o)) /\ Outside(x.connection)
        /\ x.connection.session.durable = file \/ MayWriteFile(o)
    BY <1>3, <1>4, <1>8, WriteOutsideDoes
  <2>2. x.connection.platform = "jdbc" /\ x.connection.autoCommit = TRUE /\ OwnScope(o)
    <3>1. SameDriver(Now(o), connection[o])
      BY <1>3, NowIs
    <3> QED BY <1>8, <2>1, <3>1 DEF Adrift, OwnScope, SameDriver
  <2>3. x.connection.session.work = {}
    BY <2>1 DEF Outside
  <2>4. \/ x.connection.session.durable = file /\ x.connection.session = Now(o).session
        \/ x.connection.session.durable = file /\ x.connection.session.work = {}
        \/ x.connection.session.work = {} /\ \A u \in Opener \ {o} : WorkOf(u) = {}
    BY <2>1, <2>3 DEF MayWriteFile, WorkOf
  <2>5. s \in {"setVersion", "mark", "end", "unwind", "close"}
    BY <1>6
  <2> QED BY <1>1, <1>2, <1>6, <2>1, <2>2, <2>3, <2>4, <2>5, AdriftProgress
<1> QED BY <1>2, <1>7, <1>8 DEF ChainInv, MigratingAt

(* An exception, or the end of a callback without a transaction. *)
LEMMA StepProgress ==
  ASSUME TypeInv, ChainInv, NEW o \in Opener,
         ReadVersionThrows(o) \/ CallbackThrows(o) \/ (CallbackReturns(o) /\ config[o].scoped = FALSE)
  PROVE  Progress(o)
<1>1. TypeOK /\ part[o] \in 1 .. Parts + 1 /\ Parts \in Nat
  BY BoundsAssumption DEF TypeInv, TypeOK
<1>2. MigratingAt(o)
  BY DEF ChainInv
<1>3. stage[o] \in {"version", "callback"} /\ (stage[o] = "callback" /\ config[o].scoped = TRUE => OwnScope(o))
  BY <1>2 DEF ReadVersionThrows, CallbackThrows, CallbackReturns, Step, Calling, MigratingAt
<1>4. PICK s :
        /\ stage' = [stage EXCEPT ![o] = s]
        /\ UNCHANGED <<file, connection, snapshot, config, initialVersion, part>>
        /\ \/ s = "unwind" \/ (s = "unwindScope" /\ OwnScope(o))
           \/ s = "setVersion" /\ stage[o] = "callback" /\ part[o] > Parts
  <2>1. CASE ReadVersionThrows(o)
    BY <2>1 DEF ReadVersionThrows, Step, GoTo, fileVars, openerVars
  <2>2. CASE CallbackThrows(o)
    <3>1. config[o].scoped \in BOOLEAN
      BY <1>1, ConfigAssumption DEF TypeOK, Configuration
    <3> QED BY <1>3, <2>2, <3>1 DEF CallbackThrows, Step, GoTo, fileVars, openerVars, AfterFailure
  <2>3. CASE CallbackReturns(o) /\ config[o].scoped = FALSE
    <3>1. stage[o] = "callback"
      BY <2>3 DEF CallbackReturns, Step, Calling
    <3> QED BY <2>3, <3>1 DEF CallbackReturns, Step, GoTo, fileVars, openerVars
  <2> QED BY <2>1, <2>2, <2>3
<1>5. stage'[o] = s /\ WorkOf(o)' = WorkOf(o) /\ connection'[o] = connection[o]
  BY <1>1, <1>4 DEF TypeOK, WorkOf
<1>6. InTransaction(o, FALSE) /\ connection[o].session.durable = {}
      /\ (connection[o].session.inTransaction = FALSE => WorkOf(o) = {})
  BY <1>2, <1>3 DEF MigratingAt
<1>7. MigratingAt(o)'
  <2>1. CASE s = "unwind"
    BY <1>5, <1>6, <2>1 DEF MigratingAt, InTransaction
  <2>2. CASE s = "unwindScope" /\ OwnScope(o)
    <3>1. OwnScope(o)'
      BY <1>4, <2>2 DEF OwnScope
    <3> QED BY <1>5, <1>6, <2>2, <3>1 DEF MigratingAt, InTransaction
  <2>3. CASE s = "setVersion" /\ stage[o] = "callback" /\ part[o] > Parts
    <3>1. part[o] - 1 = Parts
      BY <1>1, <2>3
    <3>2. Reading(o) /\ WorkOf(o) = Changes(o, 1 .. Parts)
      BY <1>2, <2>3, <3>1 DEF MigratingAt
    <3>3. Reading(o)' /\ Changes(o, 1 .. Parts)' = Changes(o, 1 .. Parts)
      BY <1>4, <3>2 DEF Reading, Newest, Tos, Changes
    <3>4. InTransaction(o, FALSE)'
      BY <1>5, <1>6 DEF InTransaction
    <3> QED BY <1>5, <1>6, <2>3, <3>2, <3>3, <3>4 DEF MigratingAt
  <2> QED BY <1>4, <2>1, <2>2, <2>3
<1>8. SettledAt(o)'
  BY <1>4, <1>5 DEF SettledAt
<1> QED BY <1>4, <1>7, <1>8, QuietProgress

(* The end of a callback with a transaction of its own, over JDBC: it is   *)
(* marked,                                                                 *)
LEMMA ScopeMarkProgress ==
  ASSUME TypeInv, ChainInv, NEW o \in Opener, CallbackReturns(o), config[o].scoped = TRUE
  PROVE  Progress(o)
<1>1. PICK x \in SetSuccessfulCall(Now(o)) : Effect(o, x) /\ GoTo(o, IF x.ok THEN "leaveScope" ELSE "unwindScope")
  BY DEF CallbackReturns, Calling
<1>2. /\ stage[o] = "callback" /\ config' = config /\ initialVersion' = initialVersion /\ part' = part
      /\ part[o] > Parts
  BY DEF CallbackReturns, Calling, openerVars
<1>3. /\ TypeOK /\ InTransaction(o, FALSE) /\ Reading(o) /\ OwnScope(o) /\ WorkOf(o) = Changes(o, 1 .. part[o] - 1)
  BY <1>2 DEF TypeInv, ChainInv, MigratingAt
<1>4. WorkOf(o) = Changes(o, 1 .. Parts)
  <2>1. part[o] \in 1 .. Parts + 1 /\ Parts \in Nat
    BY <1>3, BoundsAssumption DEF TypeOK
  <2>2. part[o] - 1 = Parts
    BY <1>2, <2>1
  <2> QED BY <1>3, <2>2
<1>5. /\ Now(o) \in Connection /\ SameDriver(Now(o), connection[o]) /\ Now(o).session.durable = file
      /\ Now(o).session.work = WorkOf(o) /\ Now(o).session.inTransaction = TRUE
  BY <1>3, NowIs DEF InTransaction
<1>6. Inside(Now(o), FALSE)
  BY <1>3, <1>5, InsideOf DEF InTransaction
<1>7. /\ x.ok = TRUE /\ x.connection \in Connection /\ Inside(x.connection, TRUE)
      /\ x.connection.session = Now(o).session /\ x.connection.platform = Now(o).platform
  BY <1>5, <1>6, MarkDoes
<1>8. /\ x.connection.session.durable = file /\ x.connection.session.work = WorkOf(o)
      /\ x.connection.session.inTransaction = TRUE
  BY <1>5, <1>7
<1>9. stage' = [stage EXCEPT ![o] = "leaveScope"] /\ stage'[o] = "leaveScope"
  BY <1>1, <1>3, <1>7 DEF GoTo, TypeOK
<1>10. /\ SameDriver(connection'[o], x.connection) /\ connection'[o].session.durable = {}
       /\ WorkOf(o)' = x.connection.session.work
       /\ connection'[o].session.inTransaction = x.connection.session.inTransaction
       /\ x.connection.session.inTransaction = TRUE => snapshot' = snapshot
  <2>1. x.connection \in Connection /\ Effect(o, x) /\ TypeOK
    BY <1>1, <1>3, <1>7
  <2> QED BY <2>1, EffectIs
<1>11. Inside(connection'[o], TRUE)
  BY <1>7, <1>10, InsideOf
<1>12. OwnScope(o)'
  BY <1>2, <1>3, <1>5, <1>7, <1>10 DEF OwnScope, SameDriver
<1>13. Reading(o)' /\ WorkOf(o)' = Changes(o, 1 .. Parts)'
  <2>1. Reading(o)' <=> Reading(o)
    BY <1>2, <1>8, <1>10 DEF Reading, Newest, Tos
  <2>2. Changes(o, 1 .. Parts)' = Changes(o, 1 .. Parts)
    BY <1>2 DEF Changes
  <2> QED BY <1>3, <1>4, <1>8, <1>10, <2>1, <2>2
<1>14. MigratingAt(o)' /\ SettledAt(o)'
  <2>1. InTransaction(o, TRUE)'
    BY <1>8, <1>10, <1>11 DEF InTransaction
  <2> QED BY <1>8, <1>9, <1>10, <1>12, <1>13, <2>1 DEF MigratingAt, SettledAt, InTransaction
<1>15. x.connection.session.work = {} \/
         /\ x.connection.session.inTransaction = TRUE /\ snapshot[o] = file
         /\ \A u \in Opener \ {o} : WorkOf(u) = {}
  BY <1>8 DEF ChainInv, WriterInv, Writes
<1> QED BY <1>1, <1>2, <1>7, <1>8, <1>9, <1>14, <1>15, CallProgress

(* and then ended, or ended without a mark if it threw.                    *)
LEMMA LeaveScopeProgress ==
  ASSUME TypeInv, ChainInv, NEW o \in Opener, LeaveScope(o)
  PROVE  Progress(o)
<1> DEFINE marked == stage[o] = "leaveScope"
<1>1. PICK x \in EndCall(Now(o)) :
        /\ Effect(o, x)
        /\ stage' = [stage EXCEPT ![o] = IF marked /\ x.ok THEN "setVersion" ELSE "unwind"]
  <2>1. CASE Calling(o, "leaveScope", EndCall(Now(o)), "setVersion", "unwind")
    BY <2>1 DEF Calling, GoTo
  <2>2. CASE Calling(o, "unwindScope", EndCall(Now(o)), "unwind", "unwind")
    BY <2>2 DEF Calling, GoTo
  <2> QED BY <2>1, <2>2 DEF LeaveScope
<1>2. /\ stage[o] \in {"leaveScope", "unwindScope"} /\ config' = config
      /\ initialVersion' = initialVersion /\ part' = part
  BY DEF LeaveScope, Calling, openerVars
<1>3. TypeOK
  BY DEF TypeInv
<1>4. /\ OwnScope(o) /\ Inside(connection[o], marked)
      /\ connection[o].session.inTransaction = FALSE => WorkOf(o) = {}
  BY <1>2 DEF ChainInv, MigratingAt, InTransaction
<1>5. marked \in BOOLEAN
  OBVIOUS
<1>6. /\ Now(o) \in Connection /\ Inside(Now(o), marked) /\ Now(o).platform = "jdbc"
      /\ Now(o).session.inTransaction = FALSE => Now(o).session.work = {}
      /\ Now(o).session.durable = file /\ Now(o).session.work = WorkOf(o)
  BY <1>3, <1>4, <1>5, NowIs, InsideOf DEF OwnScope, SameDriver
<1>7. x.ok \in BOOLEAN /\ x.connection \in Connection
  BY <1>6, EndIsOutcome DEF OutcomeOf
<1>8. x.connection.autoCommit = TRUE /\ x.connection.platform = "jdbc"
  BY <1>6, JdbcEndAutoCommits
<1> HIDE DEF marked
<1> DEFINE final == IF marked THEN Now(o).session.durable \union Now(o).session.work ELSE Now(o).session.durable
<1>9. \/ EndedAs(x, Now(o), final)
      \/ marked /\ x.ok = FALSE /\ x.connection.session = Now(o).session
  BY <1>5, <1>6, EndEither
<1>10. final = IF marked THEN file \union WorkOf(o) ELSE file
  BY <1>6
<1> HIDE DEF final
<1> DEFINE s == IF marked /\ x.ok THEN "setVersion" ELSE "unwind"
<1>11. s \in {"setVersion", "mark", "end", "unwind", "close"} /\ stage' = [stage EXCEPT ![o] = s]
  BY <1>1
<1>12. CASE EndedAs(x, Now(o), final)
  <2>1. x.connection.session.work = {} /\ x.connection.session.durable = final
    BY <1>12 DEF EndedAs
  <2>2. s \in {"setVersion", "mark", "end"} => Outside(x.connection)
    BY <1>7, <1>12 DEF EndedAs
  <2>3. \/ x.connection.session.durable = file /\ x.connection.session = Now(o).session
        \/ x.connection.session.durable = file /\ x.connection.session.work = {}
        \/ x.connection.session.work = {} /\ \A u \in Opener \ {o} : WorkOf(u) = {}
    <3>1. CASE WorkOf(o) = {} \/ ~ marked
      BY <1>5, <1>10, <2>1, <3>1
    <3>2. CASE WorkOf(o) # {}
      BY <2>1, <3>2 DEF ChainInv, WriterInv, Writes
    <3> QED BY <3>1, <3>2
  <2> HIDE DEF s
  <2> QED BY <1>1, <1>2, <1>4, <1>7, <1>8, <1>11, <2>1, <2>2, <2>3, AdriftProgress
<1>13. CASE marked /\ x.ok = FALSE /\ x.connection.session = Now(o).session
  <2>1. x.connection.session.durable = file /\ s = "unwind"
    BY <1>6, <1>13
  <2>2. x.connection.session.inTransaction = FALSE => x.connection.session.work = {}
    BY <1>6, <1>13
  <2> HIDE DEF s
  <2> QED BY <1>1, <1>2, <1>4, <1>7, <1>8, <1>11, <1>13, <2>1, <2>2, AdriftProgress
<1> QED BY <1>9, <1>12, <1>13

(* The mark. *)
LEMMA InnerMarkProgress ==
  ASSUME TypeInv, ChainInv, NEW o \in Opener, Mark(o), InTransaction(o, FALSE)
  PROVE  Progress(o)
<1>1. PICK x \in SetSuccessfulCall(Now(o)) : Effect(o, x) /\ GoTo(o, IF x.ok THEN "end" ELSE "unwind")
  BY DEF Mark, Calling
<1>2. stage[o] = "mark" /\ config' = config /\ initialVersion' = initialVersion /\ part' = part
  BY DEF Mark, Calling, openerVars
<1>3. TypeOK /\ ~ Adrift(o)
      /\ (WorkOf(o) = {} \/ (Reading(o) /\ WorkOf(o) = Changes(o, 0 .. Parts)))
  BY <1>2 DEF TypeInv, ChainInv, MigratingAt, Adrift, OwnScope, InTransaction, Inside
<1>4. /\ Now(o) \in Connection /\ SameDriver(Now(o), connection[o]) /\ Now(o).session.durable = file
      /\ Now(o).session.work = WorkOf(o) /\ Now(o).session.inTransaction = TRUE
  BY <1>3, NowIs DEF InTransaction
<1>5. Inside(Now(o), FALSE)
  BY <1>3, <1>4, InsideOf DEF InTransaction
<1>6. /\ x.ok = TRUE /\ x.connection \in Connection /\ Inside(x.connection, TRUE)
      /\ x.connection.session = Now(o).session
  BY <1>4, <1>5, MarkDoes
<1>7. /\ x.connection.session.durable = file /\ x.connection.session.work = WorkOf(o)
      /\ x.connection.session.inTransaction = TRUE
  BY <1>4, <1>6
<1>8. stage' = [stage EXCEPT ![o] = "end"] /\ stage'[o] = "end"
  BY <1>1, <1>3, <1>6 DEF GoTo, TypeOK
<1>9. /\ SameDriver(connection'[o], x.connection) /\ connection'[o].session.durable = {}
      /\ WorkOf(o)' = x.connection.session.work
      /\ connection'[o].session.inTransaction = x.connection.session.inTransaction
      /\ x.connection.session.inTransaction = TRUE => snapshot' = snapshot
  <2>1. x.connection \in Connection /\ Effect(o, x) /\ TypeOK
    BY <1>1, <1>3, <1>6
  <2> QED BY <2>1, EffectIs
<1>10. Inside(connection'[o], TRUE)
  BY <1>6, <1>9, InsideOf
<1>11. WorkOf(o)' = {} \/ (Reading(o)' /\ WorkOf(o)' = Changes(o, 0 .. Parts)')
  <2>1. Reading(o)' <=> Reading(o)
    BY <1>2, <1>7, <1>9 DEF Reading, Newest, Tos
  <2>2. Changes(o, 0 .. Parts)' = Changes(o, 0 .. Parts)
    BY <1>2 DEF Changes
  <2> QED BY <1>3, <1>7, <1>9, <2>1, <2>2
<1>12. MigratingAt(o)'
  <2>1. InTransaction(o, TRUE)'
    BY <1>7, <1>9, <1>10 DEF InTransaction
  <2> QED BY <1>7, <1>8, <1>9, <1>11, <2>1 DEF MigratingAt, InTransaction
<1>13. x.connection.session.work = {} \/
         /\ x.connection.session.inTransaction = TRUE /\ snapshot[o] = file
         /\ \A u \in Opener \ {o} : WorkOf(u) = {}
  BY <1>7 DEF ChainInv, WriterInv, Writes
<1>14. SettledAt(o)'
  <2>1. ASSUME WorkOf(o)' = {} PROVE Settled(o)'
    <3>1. Settled(o)
      BY <1>2, <1>3, <1>7, <1>9, <2>1 DEF ChainInv, SettledAt
    <3>2. file' = file /\ asked' = asked
      BY <1>1, <1>7 DEF Effect, history
    <3> QED BY <1>2, <3>1, <3>2 DEF Settled, Tos
  <2> QED BY <2>1 DEF SettledAt
<1> QED BY <1>1, <1>2, <1>6, <1>7, <1>8, <1>12, <1>13, <1>14, CallProgress

(* A mark outside a transaction says nothing, over JDBC. *)
LEMMA JdbcMarkOutside ==
  ASSUME NEW k \in Connection, k.platform = "jdbc", Outside(k), NEW x \in SetSuccessfulCall(k)
  PROVE  /\ x.ok = TRUE /\ x.connection \in Connection /\ x.connection.session = k.session
         /\ Outside(x.connection) /\ x.connection.platform = "jdbc" /\ x.connection.autoCommit = TRUE
<1>1. x = Return([k EXCEPT !.isTransactionSuccess = TRUE])
  BY DEF SetSuccessfulCall, JdbcSetSuccessful
<1>2. [k EXCEPT !.isTransactionSuccess = TRUE] \in Connection
  BY DEF Connection
<1> QED BY <1>1, <1>2 DEF Return, Connection, Outside

(* So the mark, wherever the transaction is. *)
LEMMA MarkProgress ==
  ASSUME TypeInv, ChainInv, NEW o \in Opener, Mark(o)
  PROVE  Progress(o)
<1>1. CASE InTransaction(o, FALSE)
  BY <1>1, InnerMarkProgress
<1>2. CASE Adrift(o) /\ Outside(connection[o])
  <2>1. PICK x \in SetSuccessfulCall(Now(o)) : Effect(o, x) /\ GoTo(o, IF x.ok THEN "end" ELSE "unwind")
    BY DEF Mark, Calling
  <2>2. config' = config /\ initialVersion' = initialVersion /\ part' = part /\ OwnScope(o)
    BY <1>2 DEF Mark, Calling, openerVars, Adrift
  <2>3. /\ Now(o) \in Connection /\ Now(o).platform = "jdbc" /\ Outside(Now(o))
        /\ Now(o).session.durable = file /\ Now(o).session.inTransaction = FALSE /\ Now(o).session.work = {}
    <3>1. /\ Now(o) \in Connection /\ SameDriver(Now(o), connection[o]) /\ Now(o).session.durable = file
          /\ Now(o).session.work = connection[o].session.work
          /\ Now(o).session.inTransaction = connection[o].session.inTransaction
      BY NowIs DEF TypeInv, WorkOf
    <3> QED BY <1>2, <2>2, <3>1 DEF Outside, SameDriver, OwnScope
  <2>4. /\ x.ok = TRUE /\ x.connection \in Connection /\ x.connection.session = Now(o).session
        /\ Outside(x.connection) /\ x.connection.platform = "jdbc" /\ x.connection.autoCommit = TRUE
    BY <2>3, JdbcMarkOutside
  <2>5. stage' = [stage EXCEPT ![o] = "end"]
    BY <2>1, <2>4 DEF GoTo
  <2>6. x.connection.session.durable = file /\ x.connection.session.work = {}
    BY <2>3, <2>4
  <2> QED BY <2>1, <2>2, <2>4, <2>5, <2>6, AdriftProgress
<1>3. stage[o] = "mark"
  BY DEF Mark, Calling
<1> QED BY <1>1, <1>2, <1>3 DEF ChainInv, MigratingAt

(* The end of the transaction: COMMIT if it was marked, ROLLBACK if not. *)
LEMMA InnerEndProgress ==
  ASSUME TypeInv, ChainInv, NEW o \in Opener, EndMigration(o) \/ Unwind(o), ~ Adrift(o)
  PROVE  Progress(o)
<1> DEFINE marked == stage[o] = "end"
<1>1. PICK x \in EndCall(Now(o)) :
        /\ Effect(o, x)
        /\ stage' = [stage EXCEPT ![o] = IF marked /\ x.ok THEN "open" ELSE "close"]
  <2>1. CASE EndMigration(o)
    BY <2>1 DEF EndMigration, GoTo
  <2>2. CASE Unwind(o)
    BY <2>2 DEF Unwind, Calling, GoTo
  <2> QED BY <2>1, <2>2
<1>2. /\ stage[o] \in {"end", "unwind"} /\ config' = config
      /\ \A u \in Opener \ {o} : initialVersion'[u] = initialVersion[u] /\ part'[u] = part[u]
  BY DEF EndMigration, Unwind, Calling, LocalsDie
<1>3. TypeOK
  BY DEF TypeInv
<1>4. /\ Inside(connection[o], marked)
      /\ connection[o].session.inTransaction = FALSE => WorkOf(o) = {}
      /\ marked => WorkOf(o) = {} \/ (Reading(o) /\ WorkOf(o) = Changes(o, 0 .. Parts))
  BY <1>2 DEF ChainInv, MigratingAt, InTransaction
<1>5. marked \in BOOLEAN
  OBVIOUS
<1>6. x.ok \in BOOLEAN /\ x.connection \in Connection
  <2>1. Now(o) \in Connection
    BY <1>3, NowIs
  <2> QED BY <2>1, EndIsOutcome DEF OutcomeOf
<1> HIDE DEF marked
<1> DEFINE final == IF marked THEN Now(o).session.durable \union Now(o).session.work ELSE Now(o).session.durable
<1>7. \/ EndedAs(x, Now(o), final)
      \/ marked /\ x.ok = FALSE /\ x.connection.session = Now(o).session
  <2>1. Now(o) \in Connection /\ Inside(Now(o), marked)
    BY <1>3, <1>4, <1>5, NowIs, InsideOf
  <2>2. Now(o).session.inTransaction = FALSE => Now(o).session.work = {}
    BY <1>3, <1>4, NowIs
  <2> QED BY <1>5, <2>1, <2>2, EndEither
<1>8. final = IF marked THEN file \union WorkOf(o) ELSE file
  BY <1>3, NowIs
<1> HIDE DEF final
<1>9. /\ SameDriver(connection'[o], x.connection) /\ connection'[o].session.durable = {}
      /\ WorkOf(o)' = x.connection.session.work /\ file' = x.connection.session.durable
      /\ connection'[o].session.inTransaction = x.connection.session.inTransaction
      /\ \A u \in Opener \ {o} : connection'[u] = connection[u] /\ snapshot'[u] = snapshot[u]
  BY <1>1, <1>3, <1>6, EffectIs
<1>10. stage'[o] = (IF marked /\ x.ok THEN "open" ELSE "close")
       /\ \A u \in Opener \ {o} : stage'[u] = stage[u]
  BY <1>1, <1>3 DEF TypeOK
<1>11. OthersStay(o)
  BY <1>2, <1>9, <1>10 DEF OthersStay
<1>12. CASE EndedAs(x, Now(o), final)
  <2>1. WorkOf(o)' = {} /\ file' = final
    BY <1>9, <1>12 DEF EndedAs
  <2>2. x.ok = TRUE => Outside(connection'[o])
    <3>1. x.ok = TRUE => Outside(x.connection)
      BY <1>12 DEF EndedAs
    <3>2. connection'[o].session.work = x.connection.session.work
      BY <1>9 DEF WorkOf
    <3> QED BY <1>9, <3>1, <3>2, InsideOf
  <2>3. MigratingAt(o)' /\ SettledAt(o)'
    BY <1>6, <1>9, <1>10, <2>1, <2>2 DEF MigratingAt, SettledAt
  <2>4. file' = file \/ Finishes(o)
    <3>1. CASE marked /\ WorkOf(o) # {}
      <4>1. file' = file \union Changes(o, 0 .. Parts) /\ Reading(o)
        BY <1>4, <1>8, <2>1, <3>1
      <4>2. Writes(o)
        BY <3>1 DEF ChainInv, WriterInv
      <4> QED BY <2>1, <4>1, <4>2 DEF Finishes
    <3>2. CASE ~ (marked /\ WorkOf(o) # {})
      BY <1>5, <1>8, <2>1, <3>2
    <3> QED BY <3>1, <3>2
  <2> QED BY <1>11, <2>1, <2>3, <2>4 DEF Progress
<1>13. CASE marked /\ x.ok = FALSE /\ x.connection.session = Now(o).session
  <2>1. /\ x.connection.session.durable = file /\ x.connection.session.work = WorkOf(o)
        /\ x.connection.session.inTransaction = connection[o].session.inTransaction
    BY <1>3, <1>13, NowIs
  <2>2. MigratingAt(o)' /\ SettledAt(o)'
    BY <1>4, <1>9, <1>10, <1>13, <2>1 DEF MigratingAt, SettledAt
  <2>3. x.connection.session.work = {} \/
          /\ x.connection.session.inTransaction = TRUE /\ snapshot[o] = file
          /\ \A u \in Opener \ {o} : WorkOf(u) = {}
    <3>1. connection[o].session.inTransaction \in BOOLEAN
      BY <1>3 DEF TypeOK, Connection, Session
    <3> QED BY <1>4, <2>1, <3>1 DEF ChainInv, WriterInv, Writes
  <2>4. stage' = [stage EXCEPT ![o] = "close"]
    BY <1>1, <1>13
  <2> QED BY <1>1, <1>2, <1>6, <2>1, <2>2, <2>3, <2>4, CallProgress
<1> QED BY <1>7, <1>12, <1>13

(* Or it is adrift, and its end throws. *)
LEMMA EndProgress ==
  ASSUME TypeInv, ChainInv, NEW o \in Opener, EndMigration(o) \/ Unwind(o)
  PROVE  Progress(o)
<1>1. CASE ~ Adrift(o)
  BY <1>1, InnerEndProgress
<1>2. CASE Adrift(o)
  <2>1. /\ Now(o) \in Connection /\ Now(o).platform = "jdbc" /\ Now(o).autoCommit = TRUE
        /\ Now(o).session.durable = file /\ Now(o).session.work = WorkOf(o)
        /\ Now(o).session.inTransaction = connection[o].session.inTransaction
    BY <1>2, NowIs DEF TypeInv, Adrift, OwnScope, SameDriver
  <2>2. \A x \in EndCall(Now(o)) :
          /\ x.connection \in Connection /\ x.connection.platform = "jdbc" /\ x.connection.autoCommit = TRUE
          /\ x.ok = FALSE /\ x.connection.session = Now(o).session
    BY <2>1, JdbcEndAutoCommits, EndIsOutcome DEF OutcomeOf
  <2>3. PICK x \in EndCall(Now(o)) : Effect(o, x) /\ stage' = [stage EXCEPT ![o] = "close"]
    <3>1. CASE EndMigration(o)
      BY <2>2, <3>1 DEF EndMigration, GoTo
    <3>2. CASE Unwind(o)
      BY <3>2 DEF Unwind, Calling, GoTo
    <3> QED BY <3>1, <3>2
  <2>4. /\ config' = config /\ \A u \in Opener \ {o} : initialVersion'[u] = initialVersion[u] /\ part'[u] = part[u]
    BY DEF EndMigration, Unwind, LocalsDie
  <2>5. x.connection.session.durable = file
    BY <2>1, <2>2, <2>3
  <2>6. x.connection.session.inTransaction = FALSE => x.connection.session.work = {}
    BY <2>1, <2>2, <2>3 DEF ChainInv, MigratingAt
  <2>7. OwnScope(o)
    BY <1>2 DEF Adrift
  <2>8. /\ x.connection \in Connection /\ x.connection.platform = "jdbc" /\ x.connection.autoCommit = TRUE
        /\ x.connection.session = Now(o).session
    BY <2>2, <2>3
  <2>9. PICK s \in {"close"} : stage' = [stage EXCEPT ![o] = s]
    BY <2>3
  <2>10. /\ s \in {"setVersion", "mark", "end", "unwind", "close"}
         /\ s \in {"setVersion", "mark", "end"} => Outside(x.connection)
    BY <2>9
  <2> QED BY <2>3, <2>4, <2>5, <2>6, <2>7, <2>8, <2>9, <2>10, AdriftProgress
<1> QED BY <1>1, <1>2

-----------------------------------------------------------------------------
(* Whole migrations, in every state *)

(* A file of one version, or of none, is whole. *)
LEMMA InitChain ==
  ASSUME Init
  PROVE  ChainInv
<1>1. ASSUME NEW o \in Opener
      PROVE  MigratingAt(o) /\ SettledAt(o) /\ WorkOf(o) = {}
  <2>1. /\ connection[o].session.durable = {} /\ connection[o].session.work = {} /\ stage[o] = "closed"
    BY DEF Init, OpenConnection, EmptySession
  <2> QED BY <2>1 DEF MigratingAt, SettledAt, WorkOf
<1>2. Whole(file) /\ Chain(file)
  <2>1. CASE file = {}
    BY <2>1 DEF Whole, Chain, Marks
  <2>2. CASE file # {}
    <3>1. PICK v \in Versions : file = {Change(0, v, k) : k \in 0 .. Parts}
      BY <2>2 DEF Init
    <3>2. Whole({}) /\ Chain({}) /\ Newest({}, 0) /\ 0 < v
      <4>1. Tos({}) = {0}
        BY DEF Tos
      <4>2. v \in Nat \ {0}
        BY VersionsAssumption
      <4> QED BY <4>1, <4>2 DEF Whole, Chain, Marks, Newest
    <3>3. {} \in SUBSET Write /\ 0 \in Versions \union {0}
      OBVIOUS
    <3>4. /\ Whole({} \union {Change(0, v, k) : k \in 0 .. Parts})
          /\ Chain({} \union {Change(0, v, k) : k \in 0 .. Parts})
      BY <3>2, <3>3, ChainGrows
    <3>5. {} \union {Change(0, v, k) : k \in 0 .. Parts} = file
      BY <3>1
    <3> QED BY <3>4, <3>5
  <2> QED BY <2>1, <2>2
<1> QED BY <1>1, <1>2 DEF ChainInv, WriterInv

(* Every step keeps the invariant. *)
LEMMA NextChain ==
  ASSUME TypeInv, TypeInv', ChainInv, [Next]_vars
  PROVE  ChainInv'
<1>1. ASSUME NEW o \in Opener, OuterStep(o) PROVE ChainInv'
  BY <1>1, OuterProgress, ProgressKeeps
<1>2. ASSUME NEW o \in Opener, InnerStep(o) PROVE ChainInv'
  <2>1. CallbackReturns(o) => Progress(o)
    <3>1. config[o].scoped \in BOOLEAN
      BY ConfigAssumption DEF TypeInv, TypeOK, Configuration
    <3> QED BY <3>1, StepProgress, ScopeMarkProgress
  <2>2. Progress(o)
    BY <1>2, <2>1, BeginProgress, ReadVersionProgress, BeginScopeProgress, StatementProgress, StepProgress,
       LeaveScopeProgress, SetVersionProgress, MarkProgress, EndProgress DEF InnerStep
  <2> QED BY <1>2, <2>2, ProgressKeeps
<1>3. ASSUME NEW p \in Process, Crash(p) PROVE ChainInv'
  BY <1>3, CrashChain
<1>4. CASE UNCHANGED vars
  <2>1. /\ UNCHANGED <<file, connection, snapshot, config, stage, initialVersion, part, asked>>
    BY <1>4 DEF vars, fileVars, openerVars, history
  <2>2. \A o \in Opener : MigratingAt(o)' /\ WorkOf(o)' = WorkOf(o)
    BY <2>1, MigratingStays DEF ChainInv
  <2>3. \A o \in Opener : SettledAt(o)'
    BY <2>1, <2>2 DEF ChainInv, SettledAt, Settled, Adrift, OwnScope, Tos
  <2>4. WriterInv'
    BY <2>1, <2>2 DEF ChainInv, WriterInv, Writes
  <2>5. OneTransactionEach' => Whole(file)' /\ Chain(file)'
    BY <2>1 DEF ChainInv, OneTransactionEach, CommitsForBoth, Whole, Chain, Marks
  <2> QED BY <2>2, <2>3, <2>4, <2>5 DEF ChainInv
<1>5. (\E o \in Opener : OuterStep(o) \/ InnerStep(o)) \/ (\E p \in Process : Crash(p)) \/ UNCHANGED vars
  BY DEF Next, Terminated, Open, OuterStep, InnerStep
<1> QED BY <1>1, <1>2, <1>3, <1>4, <1>5

(* The invariant holds throughout. *)
LEMMA ChainHolds == Spec => []ChainInv
<1>1. Init => ChainInv
  BY InitChain
<1>2. TypeInv /\ TypeInv' /\ ChainInv /\ [Next]_vars => ChainInv'
  BY NextChain
<1> QED BY <1>1, <1>2, TypeInvHolds, PTL DEF Spec

(* Whatever threw, failed to commit, crashed or ran at the same time, a    *)
(* migration is in the file with all its statements and its version mark,  *)
(* or not at all, but for files that a callback with a transaction of its  *)
(* own over JDBC worked on (migrateIfNeeded inside withTransaction).       *)
THEOREM MigrationsStayWhole == Spec => []MigrationsAreWhole
<1>1. ChainInv => MigrationsAreWhole
  BY DEF ChainInv, Whole, MigrationsAreWhole
<1> QED BY <1>1, ChainHolds, PTL

(* The migrations in the file form one chain from the empty file, on the   *)
(* same terms: no two openers, of one process or of several, have migrated *)
(* from the same version (the version is read in the transaction that      *)
(* migrates, whose first write SQLite refuses if the file has changed).    *)
THEOREM MigrationsStayAChain == Spec => []MigrationsFormAChain
<1>1. ChainInv => MigrationsFormAChain
  BY DEF ChainInv, Chain, MigrationsFormAChain
<1> QED BY <1>1, ChainHolds, PTL

-----------------------------------------------------------------------------
(* The version of the file when openDatabase returns *)

(* Only the end of the transaction of migrateIfNeeded returns. *)
LEMMA OnlyEndReturns ==
  ASSUME TypeInv, ChainInv, [Next]_vars, NEW o \in Opener, Returns(o)
  PROVE  EndMigration(o)
<1>1. TypeOK /\ stage[o] = "end" /\ stage'[o] = "open"
  BY DEF TypeInv, Returns
<1>2. ASSUME NEW u \in Opener, OuterStep(u) PROVE FALSE
  <2>1. \E s \in Fresh \union {"close"} : stage' = [stage EXCEPT ![u] = s]
    BY <1>2 DEF OuterStep, Call, Lock, OpenFile, OpenFails, UpdateJournalMode, PragmaThrows, CloseAndThrow, Close,
                Step, GoTo, Fresh
  <2> QED BY <1>1, <2>1 DEF TypeOK, Fresh
<1>3. ASSUME NEW u \in Opener, InnerStep(u) PROVE EndMigration(o)
  <2>1. PICK s, W : Migrates(u, s, W)
    BY <1>3, InnerMigrates
  <2>2. u = o
    BY <1>1, <2>1 DEF Migrates, TypeOK
  <2> QED BY <1>1, <1>3, <2>2 DEF InnerStep, BeginMigration, ReadVersion, ReadVersionThrows, BeginScope,
        CallbackStatement, CallbackThrows, CallbackReturns, LeaveScope, SetVersion, Mark, Unwind, Calling, Step
<1>4. ASSUME NEW p \in Process, Crash(p) PROVE FALSE
  BY <1>1, <1>4 DEF Crash
<1>5. CASE UNCHANGED vars
  BY <1>1, <1>5 DEF vars
<1>6. (\E u \in Opener : OuterStep(u) \/ InnerStep(u)) \/ (\E p \in Process : Crash(p)) \/ UNCHANGED vars
  BY DEF Next, Terminated, Open, OuterStep, InnerStep
<1> QED BY <1>2, <1>3, <1>4, <1>5, <1>6

(* And it leaves the file at the version asked for, or beyond. *)
LEMMA ReturnsSettled ==
  ASSUME TypeInv, ChainInv, NEW o \in Opener, EndMigration(o), stage'[o] = "open"
  PROVE  /\ config[o].version \in Tos(file')
         /\ \A y \in Tos(file') : y > config[o].version =>
              \E u \in Opener : ProcessOf[u] # ProcessOf[o] /\ \E c \in asked[u] : c.version = y
<1>1. PICK x \in EndCall(Now(o)) :
        Effect(o, x) /\ GoTo(o, IF x.ok THEN "open" ELSE "close") /\ stage[o] = "end"
  BY DEF EndMigration
<1>2. TypeOK /\ Now(o) \in Connection
  BY NowIs DEF TypeInv
<1>3. x.ok \in BOOLEAN /\ x.connection \in Connection
  BY <1>2, EndIsOutcome DEF OutcomeOf
<1>4. x.ok = TRUE
  BY <1>1, <1>2, <1>3 DEF GoTo, TypeOK
<1>5. ~ Adrift(o)
  <2>1. ASSUME Adrift(o) PROVE FALSE
    <3>1. Now(o).platform = "jdbc" /\ Now(o).autoCommit = TRUE
      BY <1>2, <2>1, NowIs DEF Adrift, OwnScope, SameDriver
    <3> QED BY <1>2, <1>4, <3>1, JdbcEndAutoCommits
  <2> QED BY <2>1
<1>6. /\ InTransaction(o, TRUE)
      /\ WorkOf(o) = {} \/ (Reading(o) /\ WorkOf(o) = Changes(o, 0 .. Parts))
      /\ WorkOf(o) = {} => Settled(o)
      /\ WorkOf(o) # {} => snapshot[o] = file
  BY <1>1, <1>5 DEF ChainInv, MigratingAt, SettledAt, WriterInv, Writes
<1>7. /\ Inside(Now(o), TRUE) /\ Now(o).session.inTransaction = TRUE
      /\ Now(o).session.durable = file /\ Now(o).session.work = WorkOf(o)
  BY <1>2, <1>6, NowIs, InsideOf DEF InTransaction
<1>8. EndedAs(x, Now(o), Now(o).session.durable \union Now(o).session.work)
  BY <1>2, <1>4, <1>7, EndEither
<1>9. file' = file \union WorkOf(o)
  BY <1>1, <1>2, <1>3, <1>7, <1>8, EffectIs DEF EndedAs
<1>10. CASE WorkOf(o) = {}
  <2>1. file' = file
    BY <1>9, <1>10
  <2> QED BY <1>6, <1>10, <2>1 DEF Settled
<1>11. CASE WorkOf(o) # {}
  <2>1. Reading(o) /\ WorkOf(o) = Changes(o, 0 .. Parts) /\ snapshot[o] = file
    BY <1>6, <1>11
  <2> DEFINE f == initialVersion[o]
  <2> DEFINE v == config[o].version
  <2>2. /\ f < v /\ Newest(file, f) /\ file' = file \union {Change(f, v, k) : k \in 0 .. Parts}
    BY <1>9, <2>1 DEF Reading, Changes
  <2>3. v \in Nat /\ f \in Nat
    <3>1. v \in Versions
      BY <1>2 DEF TypeOK, Configuration
    <3>2. file \in SUBSET Write /\ f \in Tos(file)
      BY <1>2, <2>2 DEF TypeOK, Newest
    <3>3. f \in Nat
      <4> HIDE DEF f
      <4> QED BY <3>2, TosAreNumbers
    <3> QED BY <3>1, <3>3, VersionsAssumption
  <2> HIDE DEF f, v
  <2>4. Change(f, v, 0) \in file' /\ Change(f, v, 0).part = 0 /\ Change(f, v, 0).to = v
    BY <2>2, ChangesAre, BoundsAssumption
  <2>5. v \in Tos(file')
    BY <2>4 DEF Tos
  <2>6. \A w \in file' \ file : w.to = v
    BY <2>2, ChangesAre
  <2>7. Tos(file') \subseteq Tos(file) \union {v}
    BY <2>6 DEF Tos
  <2>8. ASSUME NEW y \in Tos(file') PROVE ~ (y > v)
    <3>1. CASE y = v
      BY <2>3, <3>1
    <3>2. CASE y \in Tos(file)
      <4>1. y <= f /\ y \in Nat
        BY <1>2, <2>2, <3>2, TosAreNumbers DEF Newest, TypeOK
      <4> QED BY <2>2, <2>3, <4>1
    <3> QED BY <2>7, <2>8, <3>1, <3>2
  <2> QED BY <2>5, <2>8 DEF v
<1> QED BY <1>10, <1>11

(* openDatabase returns a connection only to a file of the version that    *)
(* its configuration asks for, or to one that an opener of another process *)
(* has upgraded further: whatever failed, crashed or ran at the same time, *)
(* with callbacks that hold a transaction of their own as well             *)
(* (migrateIfNeeded, under the creation lock of the process).              *)
THEOREM ReturnsAtItsVersion == Spec => OpensAtItsVersion
<1>1. ASSUME TypeInv, TypeInv', ChainInv, [Next]_vars
      PROVE  \A o \in Opener : Returns(o) =>
               \/ UserVersion(file') = config[o].version
               \/ /\ UserVersion(file') > config[o].version
                  /\ \E u \in Opener : /\ ProcessOf[u] # ProcessOf[o]
                                       /\ \E c \in asked[u] : c.version = UserVersion(file')
  <2> SUFFICES ASSUME NEW o \in Opener, Returns(o)
               PROVE  \/ UserVersion(file') = config[o].version
                      \/ /\ UserVersion(file') > config[o].version
                         /\ \E u \in Opener : /\ ProcessOf[u] # ProcessOf[o]
                                              /\ \E c \in asked[u] : c.version = UserVersion(file')
    OBVIOUS
  <2> DEFINE wanted == config[o].version
  <2>1. /\ wanted \in Tos(file')
        /\ \A y \in Tos(file') : y > wanted =>
             \E u \in Opener : ProcessOf[u] # ProcessOf[o] /\ \E c \in asked[u] : c.version = y
    BY <1>1, OnlyEndReturns, ReturnsSettled DEF Returns
  <2>2. file' \in SUBSET Write
    BY <1>1 DEF TypeInv, TypeOK
  <2>3. PICK v \in Tos(file') : Newest(file', v)
    BY <1>1 DEF TypeInv, NewestInv, Newest, Tos
  <2>4. UserVersion(file') = v
    BY <2>2, <2>3, NewestIsUserVersion
  <2> HIDE DEF wanted
  <2>5. wanted <= v /\ v \in Nat /\ wanted \in Nat
    BY <2>1, <2>2, <2>3, TosAreNumbers DEF Newest
  <2>6. v = wanted \/ v > wanted
    BY <2>5
  <2> QED BY <2>1, <2>3, <2>4, <2>6 DEF wanted
<1> QED BY <1>1, TypeInvHolds, ChainHolds, PTL DEF Spec, OpensAtItsVersion

==============================================================================
