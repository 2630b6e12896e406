------------------------ MODULE DatabaseScopesProofs ------------------------
(***************************************************************************)
(* Proofs about DatabaseScopes, for every set of coroutines, every set of  *)
(* programs of any length and both drivers, statements that fail and       *)
(* automatic rollbacks included; COMMIT does not fail, and a failing       *)
(* getResults does not roll back.                                          *)
(***************************************************************************)
EXTENDS DatabaseScopes, DriverCallsProofs

-----------------------------------------------------------------------------
(* The inductive invariant *)

CursorTypes ==
  /\ cursor \in [Query -> {"none", "open", "read", "closed"}]
  /\ seen \in [Query -> SUBSET Write]

Types ==
  /\ connection \in Connection
  /\ mutex \in Coroutine \union {Nobody}
  /\ program \in [Coroutine -> Programs]
  /\ stage \in [Coroutine -> Stage]
  /\ item \in [Coroutine -> Nat]
  /\ inGroup \in [Coroutine -> {"no", "running", "marked", "unwinding"}]
  /\ statement \in [Coroutine -> Nat]
  /\ CursorTypes

Size(c) == Len(Current(c).statements)

(* Only the scope that holds the mutex executes; only an executing scope   *)
(* is inside a group, and there at one of its statements or past the last. *)
PlaceOf(c) ==
  /\ stage[c] = "executing" <=> mutex = c
  /\ item[c] \in 1 .. (Len(program[c]) + 1)
  /\ stage[c] \in {"building", "waiting"} => item[c] = 1
  /\ inGroup[c] = "no" /\ stage[c] # "threw" => statement[c] = 1
  /\ inGroup[c] # "no" => At(c, "group") /\ statement[c] \in 1 .. (Size(c) + 1)
  /\ inGroup[c] = "marked" => statement[c] = Size(c) + 1

PlaceInv == \A c \in Coroutine : PlaceOf(c)

(* The modifications among the first statements of the item c is at. *)
FirstWrites(c, n) ==
  {<<c, item[c], j>> : j \in {j \in 1 .. n : Current(c).statements[j] = "write"}}

(* What the group of scope c has made of the connection. *)
GroupInv(c) ==
  LET s == connection.session
  IN  /\ Inside(connection, inGroup[c] = "marked")
      /\ s.inTransaction = FALSE => s.work = {}
      /\ inGroup[c] \in {"running", "marked"} =>
           s.inTransaction = TRUE /\ s.work = FirstWrites(c, statement[c] - 1)
      /\ s.work \subseteq FirstWrites(c, Size(c))

(* The connection is in a transaction only for the group that is running.  *)
ConnectionInv ==
  /\ mutex \in Coroutine /\ inGroup[mutex] # "no" => GroupInv(mutex)
  /\ mutex = Nobody \/ inGroup[mutex] = "no" => Outside(connection)

Past(c) == UNION {ItemWrites(c, i) : i \in PastItems(c)}

(* The database holds the items that scopes are past, and nothing else. *)
DurableInv == connection.session.durable = UNION {Past(c) : c \in Coroutine}

ExecutionInv == Types /\ PlaceInv /\ ConnectionInv /\ DurableInv

(* A SELECT that has a cursor is one its scope is past. *)
CursorOf(c, i, j) ==
  cursor[<<c, i, j>>] # "none" => i < item[c] \/ (i = item[c] /\ j < statement[c])

(* The group of item i is over and committed, or may still be. *)
StillWhole(c, i) == i < item[c] \/ (i = item[c] /\ inGroup[c] \in {"running", "marked"})

(* One that was read has seen its past. *)
SeenBy(c, i, j) ==
  cursor[<<c, i, j>>] = "read" =>
    /\ UNION {ItemWrites(c, k) : k \in 1 .. (i - 1)} \subseteq seen[<<c, i, j>>]
    /\ StillWhole(c, i) => Before(c, i, j) \subseteq seen[<<c, i, j>>]

SelectInv ==
  \A c \in Coroutine : \A i \in DOMAIN program[c] : \A j \in DOMAIN program[c][i].statements :
    program[c][i].statements[j] = "select" => CursorOf(c, i, j) /\ SeenBy(c, i, j)

ScopesInv == ExecutionInv /\ SelectInv

-----------------------------------------------------------------------------
(* Lists and what stays of them *)

(* What an item of a list is. *)
LEMMA ItemTypes ==
  ASSUME Types, NEW c \in Coroutine
  PROVE  /\ Len(program[c]) \in Nat /\ DOMAIN program[c] = 1 .. Len(program[c])
         /\ \A i \in 1 .. Len(program[c]) :
              /\ program[c][i].kind \in {"single", "group"}
              /\ Len(program[c][i].statements) \in Nat
              /\ DOMAIN program[c][i].statements = 1 .. Len(program[c][i].statements)
              /\ program[c][i].kind = "single" => Len(program[c][i].statements) = 1
              /\ \A j \in 1 .. Len(program[c][i].statements) :
                   /\ program[c][i].statements[j] \in {"write", "select"}
                   /\ program[c][i].statements[j] = "write" => <<c, i, j>> \in Write
                   /\ program[c][i].statements[j] = "select" => <<c, i, j>> \in Query
<1>1. program[c] \in Programs /\ program[c] \in Seq(Item)
  BY ProgramsAssumption DEF Types
<1>2. Len(program[c]) \in Nat /\ DOMAIN program[c] = 1 .. Len(program[c])
  BY <1>1
<1>3. ASSUME NEW i \in 1 .. Len(program[c])
      PROVE  /\ program[c][i].kind \in {"single", "group"}
             /\ program[c][i].statements \in Seq({"write", "select"})
             /\ program[c][i].kind = "single" => Len(program[c][i].statements) = 1
  <2>1. program[c][i] \in Item
    BY <1>1, <1>3
  <2>2. PICK x : x = program[c][i]
    OBVIOUS
  <2>3. x \in Item
    BY <2>1, <2>2
  <2>4. CASE x \in [kind : {"single"}, statements : {<<"write">>, <<"select">>}]
    <3>1. x.kind = "single" /\ (x.statements = <<"write">> \/ x.statements = <<"select">>)
      BY <2>4
    <3>2. ASSUME NEW a \in {"write", "select"}
          PROVE  <<a>> \in Seq({"write", "select"}) /\ Len(<<a>>) = 1
      OBVIOUS
    <3>3. x.statements \in Seq({"write", "select"}) /\ Len(x.statements) = 1
      BY <3>1, <3>2
    <3> QED BY <2>2, <3>1, <3>3
  <2>5. CASE x \in [kind : {"group"}, statements : Seq({"write", "select"})]
    BY <2>2, <2>5
  <2> QED BY <2>3, <2>4, <2>5 DEF Item
<1>4. ASSUME NEW i \in 1 .. Len(program[c])
      PROVE  /\ Len(program[c][i].statements) \in Nat
             /\ DOMAIN program[c][i].statements = 1 .. Len(program[c][i].statements)
             /\ \A j \in 1 .. Len(program[c][i].statements) :
                  program[c][i].statements[j] \in {"write", "select"}
  <2>1. PICK t : t = program[c][i].statements
    OBVIOUS
  <2>2. t \in Seq({"write", "select"})
    BY <1>3, <2>1
  <2>3. Len(t) \in Nat /\ DOMAIN t = 1 .. Len(t) /\ \A j \in 1 .. Len(t) : t[j] \in {"write", "select"}
    BY <2>2
  <2> QED BY <2>1, <2>3
<1>5. ASSUME NEW i \in 1 .. Len(program[c]), NEW j \in 1 .. Len(program[c][i].statements)
      PROVE  /\ program[c][i].statements[j] = "write" => <<c, i, j>> \in Write
             /\ program[c][i].statements[j] = "select" => <<c, i, j>> \in Query
  <2>1. PICK p \in Programs : p = program[c]
    BY <1>1
  <2>2. i \in DOMAIN p /\ j \in DOMAIN p[i].statements
    BY <1>2, <1>4, <2>1
  <2>3. <<c, i, j>> \in (IF p[i].statements[j] = "write" THEN Write ELSE Query)
    BY <2>2, IdentityAssumption
  <2> QED BY <2>1, <2>3
<1> QED BY <1>2, <1>3, <1>4, <1>5

(* What the item of an executing scope is. *)
LEMMA HereTypes ==
  ASSUME Types, PlaceInv, NEW c \in Coroutine, item[c] <= Len(program[c])
  PROVE  /\ item[c] \in 1 .. Len(program[c]) /\ Size(c) \in Nat
         /\ Current(c).kind \in {"single", "group"}
         /\ Current(c).kind = "single" => Size(c) = 1
<1>1. item[c] \in 1 .. Len(program[c])
  BY ItemTypes DEF PlaceInv, PlaceOf
<1> QED BY <1>1, ItemTypes DEF Current, Size

(* The modifications of an item, and its first ones. *)
LEMMA ItemWritesAre ==
  ASSUME Types, NEW c \in Coroutine, item[c] \in 1 .. Len(program[c])
  PROVE  ItemWrites(c, item[c]) = FirstWrites(c, Size(c))
BY ItemTypes DEF ItemWrites, FirstWrites, Size, Current

(* The database is unchanged while no scope goes on to its next item. *)
LEMMA DurableStays ==
  ASSUME DurableInv, item' = item, program' = program,
         connection'.session.durable = connection.session.durable
  PROVE  DurableInv'
BY DEF DurableInv, Past, PastItems, ItemWrites

(* It grows by the item a scope goes past. *)
LEMMA DurableAdvances ==
  ASSUME Types, DurableInv, NEW c \in Coroutine, item[c] \in Nat \ {0},
         item' = [item EXCEPT ![c] = @ + 1], program' = program,
         connection'.session.durable = connection.session.durable \union ItemWrites(c, item[c])
  PROVE  DurableInv'
<1>1. item'[c] = item[c] + 1 /\ \A d \in Coroutine \ {c} : item'[d] = item[d]
  BY DEF Types
<1>2. \A d \in Coroutine, i \in Nat : ItemWrites(d, i)' = ItemWrites(d, i)
  BY DEF ItemWrites
<1>3. Past(c)' = Past(c) \union ItemWrites(c, item[c])
  <2>1. PastItems(c)' = PastItems(c) \union {item[c]} /\ PastItems(c) \subseteq Nat
    BY <1>1 DEF PastItems
  <2>2. Past(c)' = UNION {ItemWrites(c, i) : i \in PastItems(c)'}
    BY DEF Past, ItemWrites
  <2> QED BY <2>1, <2>2 DEF Past
<1>4. \A d \in Coroutine \ {c} : Past(d)' = Past(d)
  BY <1>1 DEF Past, PastItems, ItemWrites
<1> QED BY <1>3, <1>4 DEF DurableInv

(* Only the place of scope c changes. *)
LEMMA PlaceMoves ==
  ASSUME PlaceInv, NEW c \in Coroutine, program' = program,
         \A d \in Coroutine \ {c} :
           /\ item'[d] = item[d] /\ inGroup'[d] = inGroup[d] /\ statement'[d] = statement[d]
           /\ stage'[d] = stage[d] /\ (mutex' = d <=> mutex = d),
         PlaceOf(c)'
  PROVE  PlaceInv'
<1> SUFFICES ASSUME NEW d \in Coroutine \ {c} PROVE PlaceOf(d)'
  BY DEF PlaceInv
<1>1. PlaceOf(d)
  BY DEF PlaceInv
<1>2. /\ item'[d] = item[d] /\ inGroup'[d] = inGroup[d] /\ statement'[d] = statement[d]
      /\ stage'[d] = stage[d] /\ (mutex' = d <=> mutex = d)
  OBVIOUS
<1>3. At(d, "group")' <=> At(d, "group")
  BY <1>2 DEF At, Current
<1>4. Size(d)' = Size(d)
  BY <1>2 DEF Size, Current
<1> QED BY <1>1, <1>2, <1>3, <1>4 DEF PlaceOf

-----------------------------------------------------------------------------
(* SELECTs and what stays of them *)

(* A step leaves scope c where it is or takes it on in its item, or past   *)
(* an item that is a single statement or a marked group.                   *)
Stays(c) ==
  /\ item'[c] = item[c] /\ statement'[c] \in Nat /\ statement'[c] >= statement[c]
  /\ inGroup'[c] \in {"running", "marked"} =>
       inGroup[c] \in {"running", "marked"} \/ statement[c] = 1

GoesOn(c) ==
  /\ item'[c] = item[c] + 1 /\ inGroup'[c] = "no"
  /\ inGroup[c] = "marked" \/ statement[c] = 1

Moves == \A c \in Coroutine : Stays(c) \/ GoesOn(c)

(* A SELECT that the step does not touch. *)
LEMMA SelectStays ==
  ASSUME Types, program' = program, NEW c \in Coroutine, Stays(c) \/ GoesOn(c),
         NEW i \in Nat \ {0}, NEW j \in Nat \ {0}, CursorOf(c, i, j), SeenBy(c, i, j),
         cursor'[<<c, i, j>>] = cursor[<<c, i, j>>], seen'[<<c, i, j>>] = seen[<<c, i, j>>]
  PROVE  CursorOf(c, i, j)' /\ SeenBy(c, i, j)'
<1> DEFINE q == <<c, i, j>>
<1>1. item[c] \in Nat /\ statement[c] \in Nat /\ item'[c] \in Nat
  BY DEF Types, Stays, GoesOn
<1>2. CASE cursor[q] = "none"
  BY <1>2 DEF CursorOf, SeenBy
<1>3. CASE cursor[q] # "none"
  <2>1. i < item[c] \/ (i = item[c] /\ j < statement[c])
    BY <1>3 DEF CursorOf
  <2>2. i < item'[c] \/ (i = item'[c] /\ j < statement'[c])
    BY <1>1, <2>1 DEF Stays, GoesOn
  <2>3. StillWhole(c, i)' => StillWhole(c, i)
    BY <1>1, <2>1 DEF Stays, GoesOn, StillWhole
  <2>4. Before(c, i, j)' = Before(c, i, j) /\ \A k : ItemWrites(c, k)' = ItemWrites(c, k)
    BY DEF Before, ItemWrites
  <2>5. CursorOf(c, i, j)'
    BY <2>2 DEF CursorOf
  <2>6. SeenBy(c, i, j)'
    BY <2>3, <2>4 DEF SeenBy
  <2> QED BY <2>5, <2>6
<1> QED BY <1>2, <1>3

(* A step that touches none. *)
LEMMA SelectsStay ==
  ASSUME Types, SelectInv, UNCHANGED <<program, selectVars>>, Moves
  PROVE  SelectInv'
<1> SUFFICES ASSUME NEW c \in Coroutine, NEW i \in DOMAIN program[c],
                    NEW j \in DOMAIN program[c][i].statements,
                    program[c][i].statements[j] = "select"
             PROVE  CursorOf(c, i, j)' /\ SeenBy(c, i, j)'
  BY DEF SelectInv
<1>1. i \in Nat \ {0} /\ j \in Nat \ {0}
  <2>1. i \in 1 .. Len(program[c])
    BY ItemTypes
  <2>2. /\ DOMAIN program[c][i].statements = 1 .. Len(program[c][i].statements)
        /\ Len(program[c][i].statements) \in Nat
    BY <2>1, ItemTypes
  <2> QED BY <2>1, <2>2, ItemTypes
<1>2. CursorOf(c, i, j) /\ SeenBy(c, i, j) /\ (Stays(c) \/ GoesOn(c))
  BY DEF SelectInv, Moves
<1>3. cursor' = cursor /\ seen' = seen
  BY DEF selectVars
<1> QED BY <1>1, <1>2, <1>3, SelectStays

(* What a SELECT reads at its place or later. *)
LEMMA VisibleHas ==
  ASSUME ExecutionInv, NEW c \in Coroutine, NEW i \in 1 .. Len(program[c]),
         NEW j \in 1 .. Len(program[c][i].statements),
         i < item[c] \/ (i = item[c] /\ j <= statement[c])
  PROVE  /\ UNION {ItemWrites(c, k) : k \in 1 .. (i - 1)} \subseteq Visible
         /\ StillWhole(c, i) => Before(c, i, j) \subseteq Visible
         /\ Visible \subseteq Write
<1> USE DEF ExecutionInv
<1>1. item[c] \in Nat /\ statement[c] \in Nat /\ Len(program[c]) \in Nat
      /\ Len(program[c][i].statements) \in Nat /\ i \in Nat \ {0} /\ j \in Nat \ {0}
  BY ItemTypes DEF Types
<1>i. i <= item[c]
  BY <1>1
<1>2. \A k \in 1 .. (item[c] - 1) : ItemWrites(c, k) \subseteq Visible
  BY DEF DurableInv, Past, PastItems, Visible
<1>3. UNION {ItemWrites(c, k) : k \in 1 .. (i - 1)} \subseteq Visible
  <2>1. 1 .. (i - 1) \subseteq 1 .. (item[c] - 1)
    BY <1>1, <1>i
  <2> QED BY <1>2, <2>1
<1>4. ASSUME i < item[c] PROVE Before(c, i, j) \subseteq Visible
  <2>1. Before(c, i, j) \subseteq ItemWrites(c, i) /\ i \in 1 .. (item[c] - 1)
    BY <1>1, <1>4 DEF Before
  <2> QED BY <1>2, <2>1
<1>5. ASSUME i = item[c], j <= statement[c], inGroup[c] \in {"running", "marked"}
      PROVE  Before(c, i, j) \subseteq Visible
  <2>1. connection.session.work = FirstWrites(c, statement[c] - 1)
    <3>1. mutex = c
      BY <1>5 DEF PlaceInv, PlaceOf, At
    <3>2. GroupInv(c)
      BY <1>5, <3>1 DEF ConnectionInv
    <3> QED BY <1>5, <3>2 DEF GroupInv
  <2>2. Before(c, i, j) \subseteq FirstWrites(c, statement[c] - 1)
    <3> SUFFICES ASSUME NEW w \in Before(c, i, j) PROVE w \in FirstWrites(c, statement[c] - 1)
      OBVIOUS
    <3>1. PICK k \in DOMAIN program[c][i].statements :
            w = <<c, i, k>> /\ program[c][i].statements[k] = "write"
      BY DEF Before, ItemWrites
    <3>2. w[3] < j /\ w[3] = k
      BY <3>1 DEF Before
    <3>a. k \in Nat \ {0}
      BY <1>1, ItemTypes
    <3>3. k \in 1 .. (statement[c] - 1)
      BY <1>1, <1>5, <3>2, <3>a
    <3> QED BY <1>5, <3>1, <3>3 DEF FirstWrites, Current
  <2> QED BY <2>1, <2>2 DEF Visible
<1>6. Visible \subseteq Write
  BY DEF Visible, Types, Connection, Session
<1> QED BY <1>1, <1>3, <1>4, <1>5, <1>6 DEF StillWhole

-----------------------------------------------------------------------------
(* What a step does to the scope that executes and to its connection *)

(* The executing scope goes past its item, outside any transaction. *)
LEMMA NextKeeps ==
  ASSUME ExecutionInv, NEW c \in Coroutine, stage[c] = "executing", item[c] <= Len(program[c]),
         inGroup[c] \in {"no", "marked"}, NextItem(c), program' = program, CursorTypes',
         connection' \in Connection, Outside(connection'),
         connection'.session.durable = connection.session.durable \union ItemWrites(c, item[c])
  PROVE  ExecutionInv' /\ Moves
<1> USE DEF ExecutionInv
<1>1. /\ item' = [item EXCEPT ![c] = @ + 1] /\ inGroup' = [inGroup EXCEPT ![c] = "no"]
      /\ statement' = [statement EXCEPT ![c] = 1] /\ mutex' = mutex /\ stage' = stage
      /\ Len(program[c]) \in Nat /\ item[c] \in Nat \ {0} /\ PlaceOf(c) /\ mutex = c
  BY ItemTypes DEF NextItem, PlaceInv, PlaceOf
<1>2. Types'
  BY <1>1 DEF Types
<1>3. PlaceInv'
  <2>1. PlaceOf(c)'
    BY <1>1 DEF PlaceOf, Types
  <2> QED BY <1>1, <2>1, PlaceMoves DEF Types
<1>4. ConnectionInv'
  BY <1>1, NobodyAssumption DEF ConnectionInv, Types
<1>5. DurableInv'
  BY <1>1, DurableAdvances
<1>6. Moves
  <2>1. GoesOn(c)
    BY <1>1 DEF GoesOn, Types, PlaceOf
  <2>2. ASSUME NEW d \in Coroutine, d # c PROVE Stays(d)
    BY <1>1, <2>2 DEF Stays, Types
  <2> QED BY <2>1, <2>2 DEF Moves
<1> QED BY <1>2, <1>3, <1>4, <1>5, <1>6

(* It leaves, with no transaction and nothing of its item in the database. *)
LEMMA LeaveKeeps ==
  ASSUME ExecutionInv, NEW c \in Coroutine, stage[c] = "executing", Leave(c),
         program' = program, CursorTypes', connection' \in Connection, Outside(connection'),
         connection'.session.durable = connection.session.durable
  PROVE  ExecutionInv' /\ Moves
<1> USE DEF ExecutionInv
<1>1. /\ stage' = [stage EXCEPT ![c] = "threw"] /\ mutex' = Nobody /\ mutex = c
      /\ inGroup' = [inGroup EXCEPT ![c] = "no"] /\ UNCHANGED <<item, statement>>
      /\ \A d \in Coroutine : d # Nobody
  BY NobodyAssumption DEF Leave, GoTo, PlaceInv, PlaceOf
<1>2. Types'
  BY <1>1 DEF Types, Stage
<1>3. PlaceInv'
  <2>1. PlaceOf(c)'
    BY <1>1 DEF PlaceInv, PlaceOf, Types
  <2> QED BY <1>1, <2>1, PlaceMoves DEF Types
<1>4. ConnectionInv'
  BY <1>1 DEF ConnectionInv
<1>5. DurableInv'
  BY <1>1, DurableStays
<1>6. Moves
  BY <1>1 DEF Moves, Stays, Types
<1> QED BY <1>2, <1>3, <1>4, <1>5, <1>6

(* It is in a group before and after the step, and the database is the     *)
(* same.                                                                   *)
LEMMA GroupKeeps ==
  ASSUME ExecutionInv, NEW c \in Coroutine, At(c, "group"), UNCHANGED <<program, mutex, stage, item>>,
         CursorTypes', connection' \in Connection,
         connection'.session.durable = connection.session.durable,
         NEW g \in {"running", "marked", "unwinding"}, NEW n \in 1 .. (Size(c) + 1),
         inGroup' = [inGroup EXCEPT ![c] = g], statement' = [statement EXCEPT ![c] = n],
         n >= statement[c], g = "marked" => n = Size(c) + 1,
         g \in {"running", "marked"} => inGroup[c] \in {"no", "running"},
         Inside(connection', g = "marked"),
         connection'.session.inTransaction = FALSE => connection'.session.work = {},
         g \in {"running", "marked"} =>
           connection'.session.inTransaction = TRUE /\ connection'.session.work = FirstWrites(c, n - 1),
         connection'.session.work \subseteq FirstWrites(c, Size(c))
  PROVE  ExecutionInv' /\ Moves
<1> USE DEF ExecutionInv
<1>1. /\ inGroup'[c] = g /\ statement'[c] = n /\ mutex = c /\ mutex' = c /\ c # Nobody
      /\ stage[c] = "executing" /\ item[c] <= Len(program[c]) /\ Size(c) \in Nat /\ n \in Nat
  BY HereTypes, NobodyAssumption DEF Types, At, PlaceInv, PlaceOf
<1>2. Types'
  BY <1>1 DEF Types
<1>3. Current(c)' = Current(c) /\ Size(c)' = Size(c) /\ At(c, "group")'
  BY DEF Current, Size, At
<1>4. PlaceInv'
  <2>1. PlaceOf(c)'
    BY <1>1, <1>3 DEF PlaceInv, PlaceOf
  <2> QED BY <2>1, PlaceMoves DEF Types
<1>5. ConnectionInv'
  <2>1. \A k : FirstWrites(c, k)' = FirstWrites(c, k)
    BY <1>3 DEF FirstWrites
  <2>2. FirstWrites(c, statement[c] - 1)' = FirstWrites(c, n - 1)
        /\ FirstWrites(c, Size(c))' = FirstWrites(c, Size(c))
    BY <1>1, <1>3 DEF FirstWrites
  <2>3. GroupInv(c)'
    BY <1>1, <2>2 DEF GroupInv
  <2> QED BY <1>1, <2>3 DEF ConnectionInv
<1>6. DurableInv'
  BY DurableStays
<1>7. Moves
  <2>1. Stays(c)
    BY <1>1 DEF Stays, PlaceInv, PlaceOf
  <2>2. ASSUME NEW d \in Coroutine, d # c PROVE Stays(d)
    BY <2>2 DEF Stays, Types
  <2> QED BY <2>1, <2>2 DEF Moves
<1> QED BY <1>2, <1>4, <1>5, <1>6, <1>7

(* Where a scope is that executes a statement. *)
LEMMA AtStatementIs ==
  ASSUME ExecutionInv, NEW c \in Coroutine, NEW kind \in {"write", "select"}, AtStatement(c, kind)
  PROVE  /\ stage[c] = "executing" /\ mutex = c /\ item[c] \in 1 .. Len(program[c])
         /\ Size(c) \in Nat /\ statement[c] \in 1 .. Size(c)
         /\ program[c][item[c]].statements[statement[c]] = kind
         /\ Here(c) \in (IF kind = "write" THEN Write ELSE Query)
         /\ \/ inGroup[c] = "running" /\ At(c, "group") /\ GroupInv(c)
            \/ inGroup[c] = "no" /\ statement[c] = 1 /\ Outside(connection)
         /\ inGroup[c] = "no" => ItemWrites(c, item[c]) = IF kind = "write" THEN {Here(c)} ELSE {}
<1> USE DEF ExecutionInv
<1>1. At(c, "single") \/ (inGroup[c] = "running" /\ At(c, "group"))
  BY DEF AtStatement, PlaceInv, PlaceOf
<1>2. stage[c] = "executing" /\ mutex = c /\ c # Nobody /\ item[c] <= Len(program[c]) /\ PlaceOf(c)
  BY <1>1, NobodyAssumption DEF At, PlaceInv, PlaceOf
<1>3. item[c] \in 1 .. Len(program[c]) /\ Size(c) \in Nat
  BY <1>2, HereTypes
<1>4. statement[c] \in 1 .. Size(c) /\ Current(c).statements[statement[c]] = kind
  BY <1>1, <1>2, <1>3 DEF AtStatement, PlaceOf, At, Size
<1>5. Here(c) \in (IF kind = "write" THEN Write ELSE Query)
  BY <1>3, <1>4, ItemTypes DEF Here, Current, Size
<1>6. CASE At(c, "single")
  <2>1. inGroup[c] = "no" /\ statement[c] = 1 /\ Outside(connection) /\ Size(c) = 1
    BY <1>2, <1>6, HereTypes DEF PlaceOf, At, ConnectionInv
  <2>2. ItemWrites(c, item[c]) = {<<c, item[c], j>> : j \in {j \in {1} : Current(c).statements[j] = "write"}}
    <3>1. 1 .. 1 = {1}
      OBVIOUS
    <3> QED BY <1>3, <2>1, <3>1, ItemWritesAre DEF FirstWrites
  <2>3. ItemWrites(c, item[c]) = IF kind = "write" THEN {Here(c)} ELSE {}
    BY <1>4, <2>1, <2>2 DEF Here
  <2> QED BY <1>2, <1>3, <1>4, <1>5, <2>1, <2>3 DEF Current
<1>7. CASE inGroup[c] = "running" /\ At(c, "group")
  BY <1>2, <1>3, <1>4, <1>5, <1>7 DEF ConnectionInv, Current
<1> QED BY <1>1, <1>6, <1>7

(* A statement has been executed, with its write in the transaction or in  *)
(* the database.                                                           *)
LEMMA AdvanceKeeps ==
  ASSUME ExecutionInv, NEW c \in Coroutine, NEW kind \in {"write", "select"}, AtStatement(c, kind),
         NextStatement(c), program' = program, CursorTypes', connection' \in Connection,
         SameDriver(connection', connection), NEW W \in SUBSET Write,
         W = (IF kind = "write" THEN {Here(c)} ELSE {}),
         connection'.session =
           IF connection.session.inTransaction
           THEN [connection.session EXCEPT !.work = @ \union W]
           ELSE [connection.session EXCEPT !.durable = @ \union W]
  PROVE  ExecutionInv' /\ Moves
<1> USE DEF ExecutionInv
<1> DEFINE s == connection.session
<1>1. /\ stage[c] = "executing" /\ mutex = c /\ item[c] \in 1 .. Len(program[c])
      /\ Size(c) \in Nat /\ statement[c] \in 1 .. Size(c)
      /\ program[c][item[c]].statements[statement[c]] = kind
  BY AtStatementIs
<1>2. s \in Session /\ connection \in Connection /\ statement \in [Coroutine -> Nat]
      /\ inGroup \in [Coroutine -> {"no", "running", "marked", "unwinding"}]
  BY DEF Types, Connection
<1>3. CASE inGroup[c] = "running" /\ At(c, "group") /\ GroupInv(c)
  <2>1. /\ s.inTransaction = TRUE /\ s.work = FirstWrites(c, statement[c] - 1)
        /\ Inside(connection, FALSE)
    BY <1>3 DEF GroupInv
  <2>2. /\ connection'.session.durable = s.durable /\ connection'.session.inTransaction = TRUE
        /\ connection'.session.work = s.work \union W
    BY <1>2, <2>1 DEF Session
  <2>3. FirstWrites(c, statement[c]) = FirstWrites(c, statement[c] - 1) \union W
    <3>1. 1 .. statement[c] = (1 .. (statement[c] - 1)) \union {statement[c]}
      BY <1>1
    <3>2. kind = "write" <=> Current(c).statements[statement[c]] = "write"
      BY <1>1 DEF Current
    <3> QED BY <3>1, <3>2 DEF FirstWrites, Here
  <2>4. FirstWrites(c, statement[c]) \subseteq FirstWrites(c, Size(c))
    BY <1>1 DEF FirstWrites
  <2>5. /\ statement' = [statement EXCEPT ![c] = statement[c] + 1]
        /\ inGroup' = [inGroup EXCEPT ![c] = "running"]
        /\ UNCHANGED <<mutex, stage, item>>
    BY <1>2, <1>3 DEF NextStatement
  <2>6. Inside(connection', FALSE)
    BY <2>1 DEF Inside, SameDriver
  <2> DEFINE n == statement[c] + 1
  <2>7. n \in 1 .. (Size(c) + 1) /\ n >= statement[c] /\ n - 1 = statement[c]
    BY <1>1
  <2>8. /\ connection'.session.work = FirstWrites(c, n - 1)
        /\ connection'.session.work \subseteq FirstWrites(c, Size(c))
    BY <2>1, <2>2, <2>3, <2>4, <2>7
  <2>9. statement' = [statement EXCEPT ![c] = n]
    BY <2>5
  <2> HIDE DEF n
  <2> QED BY <1>3, <2>2, <2>5, <2>6, <2>7, <2>8, <2>9, GroupKeeps
<1>4. CASE inGroup[c] = "no" /\ statement[c] = 1 /\ Outside(connection)
  <2>a. ItemWrites(c, item[c]) = W
    <3>1. CASE kind = "write"
      <4>1. ItemWrites(c, item[c]) = IF "write" = "write" THEN {Here(c)} ELSE {}
        BY <1>4, <3>1, AtStatementIs
      <4> QED BY <3>1, <4>1
    <3>2. CASE kind = "select"
      <4>1. ItemWrites(c, item[c]) = IF "select" = "write" THEN {Here(c)} ELSE {}
        BY <1>4, <3>2, AtStatementIs
      <4> QED BY <3>2, <4>1
    <3> QED BY <3>1, <3>2
  <2>1. s.inTransaction = FALSE /\ s.work = {}
    BY <1>4 DEF Outside
  <2>2. /\ connection'.session.durable = s.durable \union ItemWrites(c, item[c])
        /\ connection'.session.inTransaction = FALSE /\ connection'.session.work = {}
    BY <1>2, <2>a, <2>1 DEF Session
  <2>3. Outside(connection')
    BY <1>4, <2>2 DEF Outside, SameDriver
  <2>4. NextItem(c) /\ item[c] <= Len(program[c])
    BY <1>1, <1>4, ItemTypes DEF NextStatement
  <2> QED BY <1>1, <1>4, <2>2, <2>3, <2>4, NextKeeps
<1>5. \/ inGroup[c] = "running" /\ At(c, "group") /\ GroupInv(c)
      \/ inGroup[c] = "no" /\ statement[c] = 1 /\ Outside(connection)
  BY AtStatementIs
<1> QED BY <1>3, <1>4, <1>5

(* It throws, and nothing of it stays; the transaction may be gone. *)
LEMMA ThrowKeeps ==
  ASSUME ExecutionInv, NEW c \in Coroutine, NEW kind \in {"write", "select"}, AtStatement(c, kind),
         StatementThrows(c), program' = program, CursorTypes', connection' \in Connection,
         SameDriver(connection', connection),
         connection'.session \in {connection.session, RolledBack(connection.session)}
  PROVE  ExecutionInv' /\ Moves
<1> USE DEF ExecutionInv
<1> DEFINE s == connection.session
<1>1. /\ stage[c] = "executing" /\ mutex = c /\ item[c] \in 1 .. Len(program[c])
      /\ Size(c) \in Nat /\ statement[c] \in 1 .. Size(c)
  BY AtStatementIs
<1>2. s \in Session /\ connection \in Connection /\ statement \in [Coroutine -> Nat]
  BY DEF Types, Connection
<1>3. /\ connection'.session.durable = s.durable
      /\ s.work = {} => connection'.session.work = {}
      /\ s.inTransaction = FALSE => connection'.session.inTransaction = FALSE
      /\ connection'.session.work \subseteq s.work
      /\ connection'.session.inTransaction = FALSE => connection'.session.work = {} \/ s.inTransaction = FALSE
  BY <1>2 DEF Session, RolledBack
<1>4. CASE inGroup[c] = "running" /\ At(c, "group") /\ GroupInv(c)
  <2>1. /\ Inside(connection, FALSE) /\ s.inTransaction = TRUE
        /\ s.work \subseteq FirstWrites(c, Size(c))
    BY <1>4 DEF GroupInv
  <2>2. Inside(connection', FALSE)
    BY <2>1 DEF Inside, SameDriver
  <2>3. /\ inGroup' = [inGroup EXCEPT ![c] = "unwinding"]
        /\ statement' = [statement EXCEPT ![c] = statement[c]]
        /\ UNCHANGED <<mutex, stage, item>>
    BY <1>2, <1>4 DEF StatementThrows
  <2> DEFINE n == statement[c]
  <2>4. n \in 1 .. (Size(c) + 1) /\ n >= statement[c] /\ statement' = [statement EXCEPT ![c] = n]
    BY <1>1, <2>3
  <2> HIDE DEF n
  <2>5. connection'.session.work \subseteq FirstWrites(c, Size(c))
    BY <1>3, <2>1
  <2> QED BY <1>3, <1>4, <2>1, <2>2, <2>3, <2>4, <2>5, GroupKeeps
<1>5. CASE inGroup[c] = "no" /\ Outside(connection)
  <2>1. Outside(connection')
    BY <1>3, <1>5 DEF Outside, SameDriver
  <2>2. Leave(c)
    BY <1>5 DEF StatementThrows
  <2> QED BY <1>1, <1>3, <2>1, <2>2, LeaveKeeps
<1>6. \/ inGroup[c] = "running" /\ At(c, "group") /\ GroupInv(c)
      \/ inGroup[c] = "no" /\ Outside(connection)
  BY AtStatementIs
<1> QED BY <1>4, <1>5, <1>6

-----------------------------------------------------------------------------
(* The actions *)

(* A modification succeeds, or fails and leaves nothing. *)
LEMMA WriteKeeps ==
  ASSUME ScopesInv, NEW c \in Coroutine, ExecuteWrite(c)
  PROVE  ScopesInv'
<1> USE DEF ScopesInv
<1>1. PICK o \in ExecCall(connection, Here(c)) :
        /\ connection' = o.connection
        /\ IF o.ok THEN NextStatement(c) ELSE StatementThrows(c)
  BY DEF ExecuteWrite
<1>2. AtStatement(c, "write") /\ UNCHANGED <<program, selectVars>> /\ CursorTypes'
  BY DEF ExecuteWrite, ExecutionInv, Types, CursorTypes, selectVars
<1>3. Here(c) \in Write /\ connection \in Connection
  BY <1>2, AtStatementIs DEF ExecutionInv, Types
<1> DEFINE w == Here(c)
<1>4. w \in Write /\ o \in ExecCall(connection, w) /\ w = Here(c)
  BY <1>1, <1>3
<1> HIDE DEF w
<1>5. /\ o.connection \in Connection /\ o.ok \in BOOLEAN /\ SameDriver(o.connection, connection)
      /\ o.ok => o.connection.session =
           IF connection.session.inTransaction
           THEN [connection.session EXCEPT !.work = @ \union {w}]
           ELSE [connection.session EXCEPT !.durable = @ \union {w}]
      /\ ~ o.ok => o.connection.session \in {connection.session, RolledBack(connection.session)}
  BY <1>3, <1>4, ExecDoes
<1>6. ExecutionInv' /\ Moves
  <2>1. CASE o.ok = TRUE
    <3>1. PICK W \in SUBSET Write : W = {w}
      BY <1>4
    <3>2. W = (IF "write" = "write" THEN {Here(c)} ELSE {})
      BY <1>4, <3>1
    <3> QED BY <1>1, <1>2, <1>5, <2>1, <3>1, <3>2, AdvanceKeeps
  <2>2. CASE o.ok = FALSE
    BY <1>1, <1>2, <1>5, <2>2, ThrowKeeps
  <2> QED BY <1>5, <2>1, <2>2
<1>7. SelectInv'
  BY <1>2, <1>6, SelectsStay DEF ExecutionInv
<1> QED BY <1>6, <1>7

(* The SELECT a step gives a cursor, and those that it does not touch. *)
LEMMA SelectsAfter ==
  ASSUME ExecutionInv, SelectInv, program' = program, Moves, NEW q,
         \A p \in Query \ {q} : cursor'[p] = cursor[p] /\ seen'[p] = seen[p],
         \A c \in Coroutine : \A i \in DOMAIN program[c] : \A j \in DOMAIN program[c][i].statements :
           program[c][i].statements[j] = "select" /\ q = <<c, i, j>> =>
             CursorOf(c, i, j)' /\ SeenBy(c, i, j)'
  PROVE  SelectInv'
<1> SUFFICES ASSUME NEW c \in Coroutine, NEW i \in DOMAIN program[c],
                    NEW j \in DOMAIN program[c][i].statements,
                    program[c][i].statements[j] = "select"
             PROVE  CursorOf(c, i, j)' /\ SeenBy(c, i, j)'
  BY DEF SelectInv
<1>1. i \in 1 .. Len(program[c]) /\ j \in 1 .. Len(program[c][i].statements)
  <2>1. i \in 1 .. Len(program[c])
    BY ItemTypes DEF ExecutionInv
  <2>2. DOMAIN program[c][i].statements = 1 .. Len(program[c][i].statements)
    BY <2>1, ItemTypes DEF ExecutionInv
  <2> QED BY <2>1, <2>2
<1>2. /\ i \in Nat \ {0} /\ j \in Nat \ {0} /\ <<c, i, j>> \in Query
  <2>1. Len(program[c]) \in Nat /\ Len(program[c][i].statements) \in Nat
    BY <1>1, ItemTypes DEF ExecutionInv
  <2>2. <<c, i, j>> \in Query
    BY <1>1, ItemTypes DEF ExecutionInv
  <2> QED BY <1>1, <2>1, <2>2
<1>3. CASE q = <<c, i, j>>
  BY <1>3
<1>4. CASE q # <<c, i, j>>
  <2>1. cursor'[<<c, i, j>>] = cursor[<<c, i, j>>] /\ seen'[<<c, i, j>>] = seen[<<c, i, j>>]
    BY <1>2, <1>4
  <2>2. CursorOf(c, i, j) /\ SeenBy(c, i, j) /\ (Stays(c) \/ GoesOn(c)) /\ Types
    BY DEF SelectInv, Moves, ExecutionInv
  <2> QED BY <1>2, <2>1, <2>2, SelectStays
<1> QED BY <1>3, <1>4

(* A SELECT is executed, and sees its past if it is read at once; or it    *)
(* throws.                                                                 *)
LEMMA SelectKeeps ==
  ASSUME ScopesInv, NEW c \in Coroutine, ExecuteSelect(c)
  PROVE  ScopesInv'
<1> USE DEF ScopesInv
<1>1. PICK o \in QueryCall(connection) :
        /\ connection' = o.connection
        /\ IF o.ok
           THEN /\ NextStatement(c)
                /\ \/ connection.platform = "jdbc" /\ Read(Here(c))
                   \/ cursor' = [cursor EXCEPT ![Here(c)] = "open"] /\ UNCHANGED seen
           ELSE StatementThrows(c) /\ UNCHANGED selectVars
  BY DEF ExecuteSelect
<1>2. AtStatement(c, "select") /\ program' = program
  BY DEF ExecuteSelect
<1>3. connection \in Connection /\ connection.session \in Session
  BY DEF ExecutionInv, Types, Connection
<1>4. /\ o.connection \in Connection /\ o.ok \in BOOLEAN /\ SameDriver(o.connection, connection)
      /\ o.ok => o.connection.session = connection.session
      /\ ~ o.ok => o.connection.session \in {connection.session, RolledBack(connection.session)}
  BY <1>3, QueryDoes
<1>5. CASE o.ok = FALSE
  <2>1. UNCHANGED selectVars /\ CursorTypes'
    BY <1>1, <1>5 DEF ExecutionInv, Types, CursorTypes, selectVars
  <2>2. ExecutionInv' /\ Moves
    BY <1>1, <1>2, <1>4, <1>5, <2>1, ThrowKeeps
  <2>3. SelectInv'
    BY <1>2, <2>1, <2>2, SelectsStay DEF ExecutionInv
  <2> QED BY <2>2, <2>3
<1>6. CASE o.ok = TRUE
  <2>1. /\ item[c] \in 1 .. Len(program[c]) /\ statement[c] \in 1 .. Size(c) /\ Here(c) \in Query
        /\ stage[c] = "executing"
        /\ inGroup[c] = "running" \/ (inGroup[c] = "no" /\ statement[c] = 1)
    BY <1>2, AtStatementIs
  <2>2. PICK q \in Query : q = Here(c)
    BY <2>1
  <2>3. \/ Read(q)
        \/ cursor' = [cursor EXCEPT ![q] = "open"] /\ UNCHANGED seen
    BY <1>1, <1>6, <2>2
  <2>4. Visible \subseteq Write
    BY <1>3 DEF Visible, Session
  <2>5. CursorTypes' /\ \A p \in Query \ {q} : cursor'[p] = cursor[p] /\ seen'[p] = seen[p]
    BY <2>3, <2>4 DEF Read, ExecutionInv, Types, CursorTypes
  <2>6. ExecutionInv' /\ Moves
    <3>1. PICK W \in SUBSET Write : W = {}
      OBVIOUS
    <3>2. connection'.session =
            IF connection.session.inTransaction
            THEN [connection.session EXCEPT !.work = @ \union W]
            ELSE [connection.session EXCEPT !.durable = @ \union W]
      BY <1>1, <1>3, <1>4, <1>6, <3>1 DEF Session
    <3>3. W = (IF "select" = "write" THEN {Here(c)} ELSE {})
      BY <3>1
    <3>4. NextStatement(c) /\ SameDriver(connection', connection) /\ connection' \in Connection
      BY <1>1, <1>4, <1>6
    <3> QED BY <1>2, <2>5, <3>2, <3>3, <3>4, AdvanceKeeps
  <2>7. ASSUME NEW d \in Coroutine, NEW i \in DOMAIN program[d],
               NEW j \in DOMAIN program[d][i].statements, q = <<d, i, j>>
        PROVE  CursorOf(d, i, j)' /\ SeenBy(d, i, j)'
    <3>1. d = c /\ i = item[c] /\ j = statement[c]
      BY <2>2, <2>7 DEF Here
    <3>2. Size(c) = Len(program[c][item[c]].statements) /\ item[c] \in Nat /\ statement[c] \in Nat
      BY <2>1 DEF Size, Current, ExecutionInv, Types
    <3>3. \/ item'[c] = item[c] /\ statement'[c] = statement[c] + 1 /\ inGroup[c] = "running"
          \/ item'[c] = item[c] + 1 /\ statement[c] = 1
      BY <1>1, <1>6, <2>1 DEF NextStatement, NextItem, ExecutionInv, Types
    <3>4. CursorOf(d, i, j)'
      BY <3>1, <3>2, <3>3 DEF CursorOf
    <3>5. SeenBy(d, i, j)'
      <4> SUFFICES ASSUME cursor'[q] = "read" PROVE SeenBy(d, i, j)'
        BY <2>7 DEF SeenBy
      <4>1. seen'[q] = Visible
        BY <2>3 DEF Read, ExecutionInv, Types, CursorTypes
      <4>2. /\ UNION {ItemWrites(c, k) : k \in 1 .. (i - 1)} \subseteq Visible
            /\ StillWhole(c, i) => Before(c, i, j) \subseteq Visible
        <5>1. i \in 1 .. Len(program[c]) /\ j \in 1 .. Len(program[c][i].statements)
              /\ (i < item[c] \/ (i = item[c] /\ j <= statement[c]))
          BY <2>1, <3>1, <3>2
        <5> QED BY <5>1, VisibleHas
      <4>3. Before(c, i, j) \subseteq Visible
        <5>1. CASE inGroup[c] = "running"
          BY <3>1, <4>2, <5>1 DEF StillWhole
        <5>2. CASE statement[c] = 1
          <6>1. \A w \in Before(c, i, j) : w[3] < 1 /\ w[3] \in DOMAIN program[c][i].statements
            BY <3>1, <5>2 DEF Before, ItemWrites
          <6>2. DOMAIN program[c][i].statements = 1 .. Len(program[c][i].statements)
            BY <2>1, <3>1, ItemTypes DEF ExecutionInv
          <6> QED BY <6>1, <6>2
        <5> QED BY <2>1, <5>1, <5>2
      <4>4. Before(c, i, j)' = Before(c, i, j) /\ \A k : ItemWrites(c, k)' = ItemWrites(c, k)
        BY <1>2 DEF Before, ItemWrites
      <4> QED BY <2>7, <3>1, <4>1, <4>2, <4>3, <4>4 DEF SeenBy
    <3> QED BY <3>4, <3>5
  <2>8. SelectInv'
    BY <1>2, <2>5, <2>6, <2>7, SelectsAfter
  <2> QED BY <2>6, <2>8
<1> QED BY <1>4, <1>5, <1>6

(* BEGIN opens the transaction of the group. *)
LEMMA BeginGroupKeeps ==
  ASSUME ScopesInv, NEW c \in Coroutine, BeginGroup(c)
  PROVE  ScopesInv'
<1> USE DEF ScopesInv, ExecutionInv
<1>1. PICK o \in BeginCall(connection) :
        /\ connection' = o.connection
        /\ IF o.ok
           THEN /\ inGroup' = [inGroup EXCEPT ![c] = "running"]
                /\ UNCHANGED <<mutex, stage, item, statement>>
           ELSE Leave(c)
  BY DEF BeginGroup
<1>2. /\ At(c, "group") /\ inGroup[c] = "no" /\ mutex = c /\ Outside(connection) /\ statement[c] = 1
      /\ UNCHANGED <<program, selectVars>> /\ CursorTypes' /\ Size(c) \in Nat
  BY HereTypes DEF BeginGroup, At, PlaceInv, PlaceOf, ConnectionInv, selectVars, Types, CursorTypes
<1>3. /\ o.ok = TRUE /\ connection' \in Connection /\ Inside(connection', FALSE)
      /\ connection'.session = [connection.session EXCEPT !.inTransaction = TRUE, !.work = {}]
  <2>1. connection \in Connection
    BY DEF Types
  <2>2. /\ o.ok = TRUE /\ o.connection \in Connection /\ Inside(o.connection, FALSE)
        /\ o.connection.session = [connection.session EXCEPT !.inTransaction = TRUE, !.work = {}]
    BY <1>1, <1>2, <2>1, BeginDoes, Zenon
  <2> QED BY <1>1, <2>2
<1>4. /\ connection'.session.inTransaction = TRUE /\ connection'.session.work = {}
      /\ connection'.session.durable = connection.session.durable
  BY <1>3 DEF Types, Connection, Session
<1>5. inGroup' = [inGroup EXCEPT ![c] = "running"] /\ UNCHANGED <<mutex, stage, item, statement>>
  BY <1>1, <1>3
<1> DEFINE n == 1
<1>6. /\ n \in 1 .. (Size(c) + 1) /\ n >= statement[c] /\ statement' = [statement EXCEPT ![c] = n]
      /\ FirstWrites(c, n - 1) = {}
  BY <1>2, <1>5 DEF Types, FirstWrites
<1> HIDE DEF n
<1>7. ExecutionInv' /\ Moves
  BY <1>2, <1>3, <1>4, <1>5, <1>6, GroupKeeps
<1>8. SelectInv'
  BY <1>2, <1>7, SelectsStay
<1> QED BY <1>7, <1>8

(* The group is marked when all its statements are done. *)
LEMMA MarkGroupKeeps ==
  ASSUME ScopesInv, NEW c \in Coroutine, MarkGroup(c)
  PROVE  ScopesInv'
<1> USE DEF ScopesInv, ExecutionInv
<1>1. PICK o \in SetSuccessfulCall(connection) :
        /\ connection' = o.connection
        /\ inGroup' = [inGroup EXCEPT ![c] = IF o.ok THEN "marked" ELSE "unwinding"]
  BY DEF MarkGroup
<1>2. /\ inGroup[c] = "running" /\ UNCHANGED <<mutex, program, stage, item, statement, selectVars>>
      /\ At(c, "group") /\ mutex = c /\ statement[c] > Size(c) /\ statement[c] \in 1 .. (Size(c) + 1)
      /\ CursorTypes'
  BY DEF MarkGroup, At, PlaceInv, PlaceOf, Size, selectVars, Types, CursorTypes
<1>3. Size(c) \in Nat /\ statement[c] = Size(c) + 1 /\ GroupInv(c)
  BY <1>2, HereTypes, NobodyAssumption DEF At, ConnectionInv
<1>4. /\ Inside(connection, FALSE) /\ connection.session.inTransaction = TRUE
      /\ connection.session.work = FirstWrites(c, statement[c] - 1)
      /\ connection.session.work \subseteq FirstWrites(c, Size(c))
  BY <1>2, <1>3 DEF GroupInv
<1>5. /\ o.ok = TRUE /\ connection' \in Connection /\ Inside(connection', TRUE)
      /\ connection'.session = connection.session
  BY <1>1, <1>4, MarkDoes DEF Types
<1>6. inGroup' = [inGroup EXCEPT ![c] = "marked"]
  BY <1>1, <1>5
<1> DEFINE n == statement[c]
<1>7. /\ n \in 1 .. (Size(c) + 1) /\ n >= statement[c] /\ statement' = [statement EXCEPT ![c] = n]
      /\ n = Size(c) + 1 /\ connection'.session.work = FirstWrites(c, n - 1)
  BY <1>2, <1>3, <1>4, <1>5 DEF Types
<1> HIDE DEF n
<1>8. ExecutionInv' /\ Moves
  BY <1>2, <1>4, <1>5, <1>6, <1>7, GroupKeeps
<1>9. SelectInv'
  BY <1>2, <1>8, SelectsStay
<1> QED BY <1>8, <1>9

(* The group commits and its scope goes past it, or it is rolled back and  *)
(* the scope leaves.                                                       *)
LEMMA EndGroupKeeps ==
  ASSUME ScopesInv, "commitFails" \notin Faults, NEW c \in Coroutine, EndGroup(c)
  PROVE  ScopesInv'
<1> USE DEF ScopesInv, ExecutionInv
<1> DEFINE s == connection.session
<1>1. PICK o \in EndCall(connection) :
        /\ connection' = o.connection
        /\ IF o.ok /\ inGroup[c] = "marked" THEN NextItem(c) ELSE Leave(c)
  BY DEF EndGroup
<1>2. /\ inGroup[c] \in {"marked", "unwinding"} /\ UNCHANGED <<program, selectVars>>
      /\ At(c, "group") /\ stage[c] = "executing" /\ item[c] <= Len(program[c]) /\ mutex = c
      /\ CursorTypes'
  BY DEF EndGroup, PlaceInv, PlaceOf, At, selectVars, Types, CursorTypes
<1>3. connection \in Connection /\ GroupInv(c) /\ item[c] \in 1 .. Len(program[c])
  BY <1>2, HereTypes, NobodyAssumption DEF Types, ConnectionInv
<1>4. CASE inGroup[c] = "marked"
  <2>1. /\ Inside(connection, TRUE) /\ s.inTransaction = TRUE
        /\ s.work = FirstWrites(c, statement[c] - 1)
    BY <1>3, <1>4 DEF GroupInv
  <2>2. s.work = ItemWrites(c, item[c])
    <3>1. statement[c] = Size(c) + 1 /\ Size(c) \in Nat
      BY <1>2, <1>4, HereTypes DEF PlaceInv, PlaceOf
    <3>2. statement[c] - 1 = Size(c)
      BY <3>1
    <3> QED BY <1>3, <2>1, <3>2, ItemWritesAre
  <2>3. /\ o.connection \in Connection /\ Outside(o.connection) /\ o.ok = TRUE
        /\ o.connection.session.durable = s.durable \union s.work
    BY <1>3, <2>1, EndDoes
  <2>4. ExecutionInv' /\ Moves
    BY <1>1, <1>2, <1>4, <2>2, <2>3, NextKeeps
  <2> QED BY <1>2, <2>4, SelectsStay
<1>5. CASE inGroup[c] = "unwinding"
  <2>1. Inside(connection, FALSE) /\ (s.inTransaction = FALSE => s.work = {})
    BY <1>3, <1>5 DEF GroupInv
  <2>2. /\ o.connection \in Connection /\ Outside(o.connection)
        /\ o.connection.session.durable = s.durable
    BY <1>3, <2>1, EndDoes
  <2>3. ExecutionInv' /\ Moves
    BY <1>1, <1>2, <1>5, <2>2, LeaveKeeps
  <2> QED BY <1>2, <2>3, SelectsStay
<1> QED BY <1>2, <1>4, <1>5

(* Nothing a connection or an open group depends on changes. *)
LEMMA ConnectionStays ==
  ASSUME ConnectionInv, DurableInv, UNCHANGED <<connection, mutex, program, item, inGroup, statement>>
  PROVE  ConnectionInv' /\ DurableInv'
<1>1. ConnectionInv'
  BY DEF ConnectionInv, GroupInv, FirstWrites, Size, Current
<1> QED BY <1>1, DurableStays

(* A block ends, or a scope is cancelled while it waits. *)
LEMMA QuietKeeps ==
  ASSUME ScopesInv, NEW c \in Coroutine, BlockReturns(c) \/ BlockThrows(c) \/ CancelWaiting(c)
  PROVE  ScopesInv'
<1> USE DEF ScopesInv, ExecutionInv
<1>1. /\ stage[c] \in {"building", "waiting"}
      /\ UNCHANGED <<connection, mutex, program, item, inGroup, statement, selectVars>>
      /\ stage' = [stage EXCEPT ![c] = "waiting"] \/ stage' = [stage EXCEPT ![c] = "threw"]
  BY DEF BlockReturns, BlockThrows, CancelWaiting, GoTo
<1>2. Types'
  BY <1>1 DEF Types, CursorTypes, Stage, selectVars
<1>3. PlaceInv'
  <2>1. PlaceOf(c) /\ inGroup[c] = "no" /\ stage'[c] \in {"waiting", "threw"} /\ mutex # c
    BY <1>1 DEF PlaceInv, PlaceOf, At, Types
  <2>2. PlaceOf(c)'
    BY <1>1, <2>1 DEF PlaceOf
  <2> QED BY <1>1, <2>2, PlaceMoves DEF Types
<1>4. ConnectionInv' /\ DurableInv'
  BY <1>1, ConnectionStays
<1>5. Moves
  BY <1>1 DEF Moves, Stays, Types
<1> QED BY <1>1, <1>2, <1>3, <1>4, <1>5, SelectsStay

(* A waiting scope locks the mutex. *)
LEMMA LockKeeps ==
  ASSUME ScopesInv, NEW c \in Coroutine, LockMutex(c)
  PROVE  ScopesInv'
<1> USE DEF ScopesInv, ExecutionInv
<1>1. /\ stage[c] = "waiting" /\ mutex = Nobody /\ mutex' = c
      /\ stage' = [stage EXCEPT ![c] = "executing"]
      /\ UNCHANGED <<connection, program, item, inGroup, statement, selectVars>>
  BY DEF LockMutex, GoTo
<1>2. Types'
  BY <1>1 DEF Types, CursorTypes, Stage, selectVars
<1>3. PlaceOf(c) /\ inGroup[c] = "no" /\ stage'[c] = "executing" /\ Outside(connection)
  BY <1>1 DEF PlaceInv, PlaceOf, At, ConnectionInv, Types
<1>4. PlaceInv'
  <2>1. PlaceOf(c)'
    BY <1>1, <1>3 DEF PlaceOf
  <2> QED BY <1>1, <2>1, PlaceMoves, NobodyAssumption DEF Types
<1>5. ConnectionInv'
  BY <1>1, <1>3 DEF ConnectionInv
<1>6. DurableInv'
  BY <1>1, DurableStays
<1>7. Moves
  BY <1>1 DEF Moves, Stays, Types
<1> QED BY <1>1, <1>2, <1>4, <1>5, <1>6, <1>7, SelectsStay

(* The scope is past its last item and unlocks the mutex. *)
LEMMA ReturnKeeps ==
  ASSUME ScopesInv, NEW c \in Coroutine, ScopeReturns(c)
  PROVE  ScopesInv'
<1> USE DEF ScopesInv, ExecutionInv
<1>1. /\ stage[c] = "executing" /\ item[c] > Len(program[c]) /\ mutex' = Nobody
      /\ stage' = [stage EXCEPT ![c] = "returned"]
      /\ UNCHANGED <<connection, program, item, inGroup, statement, selectVars>>
  BY DEF ScopeReturns, GoTo
<1>2. PlaceOf(c) /\ mutex = c /\ Len(program[c]) \in Nat /\ item[c] \in Nat /\ c # Nobody
  BY <1>1, ItemTypes, NobodyAssumption DEF PlaceInv, PlaceOf, Types
<1>3. inGroup[c] = "no" /\ Outside(connection) /\ stage'[c] = "returned"
  BY <1>1, <1>2 DEF PlaceOf, At, ConnectionInv, Types
<1>4. Types'
  BY <1>1 DEF Types, CursorTypes, Stage, selectVars
<1>5. PlaceInv'
  <2>1. PlaceOf(c)'
    BY <1>1, <1>2, <1>3 DEF PlaceOf
  <2> QED BY <1>1, <1>2, <2>1, PlaceMoves, NobodyAssumption DEF Types
<1>6. ConnectionInv'
  BY <1>1, <1>3, NobodyAssumption DEF ConnectionInv
<1>7. DurableInv'
  BY <1>1, DurableStays
<1>8. Moves
  BY <1>1 DEF Moves, Stays, Types
<1> QED BY <1>1, <1>4, <1>5, <1>6, <1>7, <1>8, SelectsStay

(* Only SELECTs change. *)
LEMMA ScopesStay ==
  ASSUME ExecutionInv, UNCHANGED <<connection, mutex, program, scopeVars>>, CursorTypes'
  PROVE  ExecutionInv' /\ Moves
<1> USE DEF ExecutionInv
<1>1. UNCHANGED <<connection, mutex, program, stage, item, inGroup, statement>>
  BY DEF scopeVars
<1>2. Types'
  BY <1>1 DEF Types
<1>3. PlaceInv'
  BY <1>1 DEF PlaceInv, PlaceOf, At, Size, Current
<1>4. ConnectionInv' /\ DurableInv'
  BY <1>1, ConnectionStays
<1>5. Moves
  BY <1>1 DEF Moves, Stays, Types
<1> QED BY <1>2, <1>3, <1>4, <1>5

(* A cursor is read, and has seen its past: what was written before it is  *)
(* in the database by then, or still in the transaction it is part of.     *)
LEMMA GetResultsKeeps ==
  ASSUME ScopesInv, NEW q \in Query, GetResults(q)
  PROVE  ScopesInv'
<1> USE DEF ScopesInv
<1>1. cursor[q] = "open" /\ Read(q) /\ UNCHANGED <<connection, mutex, program, scopeVars>>
  BY DEF GetResults
<1>2. Visible \subseteq Write
  BY DEF Visible, ExecutionInv, Types, Connection, Session
<1>3. /\ CursorTypes' /\ seen'[q] = Visible
      /\ \A p \in Query \ {q} : cursor'[p] = cursor[p] /\ seen'[p] = seen[p]
  BY <1>1, <1>2 DEF Read, CursorTypes, ExecutionInv, Types
<1>4. ExecutionInv' /\ Moves
  BY <1>1, <1>3, ScopesStay
<1>5. ASSUME NEW c \in Coroutine, NEW i \in DOMAIN program[c],
             NEW j \in DOMAIN program[c][i].statements,
             program[c][i].statements[j] = "select", q = <<c, i, j>>
      PROVE  CursorOf(c, i, j)' /\ SeenBy(c, i, j)'
  <2>1. i < item[c] \/ (i = item[c] /\ j < statement[c])
    BY <1>1, <1>5 DEF SelectInv, CursorOf
  <2>2. i \in 1 .. Len(program[c])
    BY ItemTypes DEF ExecutionInv
  <2>3. j \in 1 .. Len(program[c][i].statements) /\ j \in Nat /\ statement[c] \in Nat
    <3>1. /\ DOMAIN program[c][i].statements = 1 .. Len(program[c][i].statements)
          /\ Len(program[c][i].statements) \in Nat
      BY <2>2, ItemTypes DEF ExecutionInv
    <3> QED BY <3>1 DEF ExecutionInv, Types
  <2>4. i < item[c] \/ (i = item[c] /\ j <= statement[c])
    BY <2>1, <2>3
  <2>5. /\ UNION {ItemWrites(c, k) : k \in 1 .. (i - 1)} \subseteq Visible
        /\ StillWhole(c, i) => Before(c, i, j) \subseteq Visible
    BY <2>2, <2>3, <2>4, VisibleHas
  <2>6. UNCHANGED <<item, statement, inGroup, program>>
    BY <1>1 DEF scopeVars
  <2>7. /\ Before(c, i, j)' = Before(c, i, j) /\ \A k : ItemWrites(c, k)' = ItemWrites(c, k)
        /\ StillWhole(c, i)' = StillWhole(c, i)
    BY <2>6 DEF Before, ItemWrites, StillWhole
  <2>8. CursorOf(c, i, j)'
    BY <2>1, <2>6 DEF CursorOf
  <2>9. SeenBy(c, i, j)'
    BY <1>3, <1>5, <2>5, <2>7 DEF SeenBy
  <2> QED BY <2>8, <2>9
<1>6. SelectInv'
  BY <1>1, <1>3, <1>4, <1>5, SelectsAfter
<1> QED BY <1>4, <1>6

(* A cursor is closed unread. *)
LEMMA GetResultsThrowsKeeps ==
  ASSUME ScopesInv, "readRollsBack" \notin Faults, NEW q \in Query, GetResultsThrows(q)
  PROVE  ScopesInv'
<1> USE DEF ScopesInv
<1>1. /\ cursor[q] = "open" /\ cursor' = [cursor EXCEPT ![q] = "closed"]
      /\ UNCHANGED <<mutex, program, scopeVars, seen>>
  BY DEF GetResultsThrows
<1>2. connection' = connection
  <2>1. PICK o \in StepCall(connection) : connection' = o.connection
    BY DEF GetResultsThrows
  <2> QED BY <2>1, StepDoes DEF ExecutionInv, Types
<1>3. /\ CursorTypes' /\ cursor'[q] = "closed"
      /\ \A p \in Query \ {q} : cursor'[p] = cursor[p] /\ seen'[p] = seen[p]
  BY <1>1 DEF CursorTypes, ExecutionInv, Types
<1>4. ExecutionInv' /\ Moves
  BY <1>1, <1>2, <1>3, ScopesStay
<1>5. ASSUME NEW c \in Coroutine, NEW i \in DOMAIN program[c],
             NEW j \in DOMAIN program[c][i].statements,
             program[c][i].statements[j] = "select", q = <<c, i, j>>
      PROVE  CursorOf(c, i, j)' /\ SeenBy(c, i, j)'
  <2>1. i < item[c] \/ (i = item[c] /\ j < statement[c])
    BY <1>1, <1>5 DEF SelectInv, CursorOf
  <2>2. UNCHANGED <<item, statement>>
    BY <1>1 DEF scopeVars
  <2> QED BY <1>3, <1>5, <2>1, <2>2 DEF CursorOf, SeenBy
<1>6. SelectInv'
  BY <1>1, <1>3, <1>4, <1>5, SelectsAfter
<1> QED BY <1>4, <1>6

-----------------------------------------------------------------------------
(* The specification *)

(* Every initial state satisfies the invariant. *)
LEMMA InitScopesInv == Init => ScopesInv
<1> SUFFICES ASSUME Init PROVE ScopesInv
  OBVIOUS
<1>1. PICK p \in Platforms : connection = OpenConnection(p, EmptySession)
  BY DEF Init
<1>2. connection \in Connection /\ Outside(connection) /\ connection.session.durable = {}
  BY <1>1 DEF OpenConnection, EmptySession, Connection, Session, Outside
<1>3. Types
  BY <1>2 DEF Init, Types, CursorTypes, Stage
<1>4. PlaceInv
  BY <1>3, ItemTypes, NobodyAssumption DEF Init, PlaceInv, PlaceOf
<1>5. ConnectionInv
  BY <1>2, NobodyAssumption DEF Init, ConnectionInv
<1>6. DurableInv
  BY <1>2 DEF Init, DurableInv, Past, PastItems
<1>7. SelectInv
  <2> SUFFICES ASSUME NEW c \in Coroutine, NEW i \in DOMAIN program[c],
                      NEW j \in DOMAIN program[c][i].statements,
                      program[c][i].statements[j] = "select"
               PROVE  CursorOf(c, i, j) /\ SeenBy(c, i, j)
    BY DEF SelectInv
  <2>1. i \in 1 .. Len(program[c])
    BY <1>3, ItemTypes
  <2>2. j \in 1 .. Len(program[c][i].statements)
    <3>1. DOMAIN program[c][i].statements = 1 .. Len(program[c][i].statements)
      BY <1>3, <2>1, ItemTypes
    <3> QED BY <3>1
  <2>3. <<c, i, j>> \in Query
    BY <1>3, <2>1, <2>2, ItemTypes
  <2>4. cursor[<<c, i, j>>] = "none"
    BY <2>3 DEF Init
  <2> QED BY <2>4 DEF CursorOf, SeenBy
<1> QED BY <1>3, <1>4, <1>5, <1>6, <1>7 DEF ScopesInv, ExecutionInv

(* Every step keeps it, unless a COMMIT fails or a failing getResults      *)
(* rolls back.                                                             *)
LEMMA NextScopesInv ==
  ASSUME "commitFails" \notin Faults, "readRollsBack" \notin Faults, ScopesInv, [Next]_vars
  PROVE  ScopesInv'
<1>1. ASSUME NEW c \in Coroutine, BlockReturns(c) \/ BlockThrows(c) \/ CancelWaiting(c)
      PROVE  ScopesInv'
  BY <1>1, QuietKeeps
<1>2. ASSUME NEW c \in Coroutine, Execute(c)
      PROVE  ScopesInv'
  BY <1>2, LockKeeps, WriteKeeps, SelectKeeps, BeginGroupKeeps,
     MarkGroupKeeps, EndGroupKeeps, ReturnKeeps DEF Execute
<1>3. ASSUME NEW q \in Query, GetResults(q) \/ GetResultsThrows(q)
      PROVE  ScopesInv'
  BY <1>3, GetResultsKeeps, GetResultsThrowsKeeps
<1>4. CASE UNCHANGED vars
  <2>1. /\ UNCHANGED <<connection, mutex, program, scopeVars>> /\ UNCHANGED <<program, selectVars>>
        /\ CursorTypes'
    BY <1>4 DEF vars, selectVars, ScopesInv, ExecutionInv, Types, CursorTypes
  <2>2. ExecutionInv' /\ Moves
    BY <2>1, ScopesStay DEF ScopesInv
  <2> QED BY <2>1, <2>2, SelectsStay DEF ScopesInv, ExecutionInv
<1> QED BY <1>1, <1>2, <1>3, <1>4 DEF Next, Terminated

(* The invariant holds in every state. *)
LEMMA ScopesInvariant ==
  ASSUME "commitFails" \notin Faults, "readRollsBack" \notin Faults
  PROVE  Spec => []ScopesInv
<1>1. ScopesInv /\ [Next]_vars => ScopesInv'
  BY NextScopesInv
<1> QED BY <1>1, InitScopesInv, PTL DEF Spec

(* The variables of Database, executiveMutex, the scopes and their SELECTs *)
(* keep their types, and a scope never goes beyond the end of its list or  *)
(* of the transaction it is in.                                            *)
THEOREM ScopesAreTyped ==
  ASSUME "commitFails" \notin Faults, "readRollsBack" \notin Faults
  PROVE  Spec => []TypeOK
<1>1. ScopesInv => TypeOK
  <2> SUFFICES ASSUME ScopesInv PROVE TypeOK
    OBVIOUS
  <2>1. Types /\ PlaceInv
    BY DEF ScopesInv, ExecutionInv
  <2>2. ASSUME NEW c \in Coroutine
        PROVE  /\ item[c] \in 1 .. (Len(program[c]) + 1)
               /\ inGroup[c] # "no" =>
                    /\ item[c] <= Len(program[c])
                    /\ statement[c] \in 1 .. (Len(program[c][item[c]].statements) + 1)
    BY <2>1 DEF PlaceInv, PlaceOf, At, Size, Current
  <2> QED BY <2>1, <2>2 DEF TypeOK, Types, CursorTypes
<1> QED BY <1>1, ScopesInvariant, PTL

(* The database holds of every suspendedScope exactly the items            *)
(* executeAllStatements is past: a transaction { } all or not at all,      *)
(* nothing of what threw or comes after, and no other scope disturbs that. *)
THEOREM EffectsAreThoseOfItemsPassed ==
  ASSUME "commitFails" \notin Faults, "readRollsBack" \notin Faults
  PROVE  Spec => []EffectsAreItemsPassed
<1>1. ScopesInv => EffectsAreItemsPassed
  <2> SUFFICES ASSUME ScopesInv, NEW c \in Coroutine
               PROVE  {w \in connection.session.durable : w[1] = c} = Past(c)
    BY DEF EffectsAreItemsPassed, Past
  <2>1. \A d \in Coroutine : \A w \in Past(d) : w[1] = d
    BY DEF Past, ItemWrites
  <2>2. connection.session.durable = UNION {Past(d) : d \in Coroutine}
    BY DEF ScopesInv, ExecutionInv, DurableInv
  <2> QED BY <2>1, <2>2
<1> QED BY <1>1, ScopesInvariant, PTL

(* An open transaction is that of the group of the scope that holds        *)
(* executiveMutex, and no statement of another scope is in it.             *)
THEOREM TransactionBelongsToMutexHolder ==
  ASSUME "commitFails" \notin Faults, "readRollsBack" \notin Faults
  PROVE  Spec => []TransactionIsOfMutexHolder
<1>1. ScopesInv => TransactionIsOfMutexHolder
  <2> SUFFICES ASSUME ScopesInv, connection.session.inTransaction = TRUE
               PROVE  /\ mutex # Nobody /\ inGroup[mutex] # "no"
                      /\ connection.session.work \subseteq ItemWrites(mutex, item[mutex])
    BY DEF TransactionIsOfMutexHolder, ScopesInv, ExecutionInv, Types, Connection, Session
  <2>1. mutex \in Coroutine /\ inGroup[mutex] # "no"
    BY DEF ScopesInv, ExecutionInv, ConnectionInv, Outside, Types
  <2>2. PICK c \in Coroutine : c = mutex
    BY <2>1
  <2>3. /\ connection.session.work \subseteq FirstWrites(c, Size(c)) /\ At(c, "group")
    BY <2>1, <2>2 DEF ScopesInv, ExecutionInv, ConnectionInv, GroupInv, PlaceInv, PlaceOf
  <2>4. item[c] \in 1 .. Len(program[c])
    BY <2>3, HereTypes DEF ScopesInv, ExecutionInv, At
  <2>5. ItemWrites(c, item[c]) = FirstWrites(c, Size(c))
    BY <2>4, ItemWritesAre DEF ScopesInv, ExecutionInv
  <2> QED BY <2>1, <2>2, <2>3, <2>5, NobodyAssumption
<1> QED BY <1>1, ScopesInvariant, PTL

(* A SELECT, alone or in a transaction { }, whenever its cursor is stepped *)
(* and whatever else executes then, has seen every item before it in its   *)
(* scope, and what its transaction wrote before it, if that is committed.  *)
THEOREM SelectsSeeTheirPast ==
  ASSUME "commitFails" \notin Faults, "readRollsBack" \notin Faults
  PROVE  Spec => []SelectSeesItsPast
<1>1. ScopesInv => SelectSeesItsPast
  <2> SUFFICES ASSUME ScopesInv, NEW c \in Coroutine, NEW i \in DOMAIN program[c],
                      NEW j \in DOMAIN program[c][i].statements,
                      program[c][i].statements[j] = "select", cursor[<<c, i, j>>] = "read"
               PROVE  /\ UNION {ItemWrites(c, k) : k \in 1 .. (i - 1)} \subseteq seen[<<c, i, j>>]
                      /\ i \in PastItems(c) => Before(c, i, j) \subseteq seen[<<c, i, j>>]
    BY DEF SelectSeesItsPast
  <2>1. SeenBy(c, i, j)
    BY DEF ScopesInv, SelectInv
  <2>2. i \in PastItems(c) => StillWhole(c, i)
    BY DEF PastItems, StillWhole, ScopesInv, ExecutionInv, Types
  <2> QED BY <2>1, <2>2 DEF SeenBy
<1> QED BY <1>1, ScopesInvariant, PTL

=============================================================================
