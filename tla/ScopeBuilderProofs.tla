-------------------------- MODULE ScopeBuilderProofs --------------------------
(***************************************************************************)
(* Proofs about ScopeBuilder, for blocks with any number of statements,    *)
(* clauses, and transaction and UNION blocks, nested to any depth.         *)
(***************************************************************************)
EXTENDS ScopeBuilder, SequenceProofs

-----------------------------------------------------------------------------
(* The inductive invariant *)

Clauses == Seq(Class) \ {<<>>}
Text == [id : Nat, clauses : Clauses]
Entry == [id : Nat, clauses : Seq(Class), members : Seq(Text), group : Nat]
Block == [kind : {"transaction", "union"}, number : Nat]
Record == [clauses : Clauses, transaction : Nat, dropped : BOOLEAN]
Handle == [id : Nat, clauses : Clauses, home : Nat]

TypesInv ==
  /\ containers \in Seq(Seq(Entry)) /\ containers # <<>>
  /\ group \in Nat /\ join \in Nat
  /\ unions \in Seq(Nat)
  /\ blocks \in Seq(Block)
  /\ written \in Seq(Record)
  /\ handles \subseteq Handle
  /\ stage \in {"building", "returned", "threw"}
  /\ stage = "returned" => blocks = <<>>

(* The containers that are or will be executed, and those that can still   *)
(* get into the result.                                                    *)
GroupPlaces == {i \in DOMAIN containers[Engine] : IsGroup(containers[Engine][i])}
Groups == {containers[Engine][i].group : i \in GroupPlaces}
Executed == {Engine} \union Groups
Live == Executed \union {unions[k] : k \in DOMAIN unions}

(* What each container is for. *)
ContainersInv ==
  /\ \A i \in GroupPlaces :
       /\ containers[Engine][i].group \in DOMAIN containers \ {Engine}
       /\ containers[Engine][i].id = 0
  /\ \A i, m \in GroupPlaces : containers[Engine][i].group = containers[Engine][m].group => i = m
  /\ \A k \in DOMAIN unions : unions[k] \in DOMAIN containers \ Executed
  /\ \A k, l \in DOMAIN unions : unions[k] = unions[l] => k = l
  /\ \A c \in DOMAIN containers : \A i \in DOMAIN containers[c] :
       /\ containers[c][i].id <= Len(written)
       /\ IsGroup(containers[c][i]) => c = Engine
       /\ ~IsGroup(containers[c][i]) => containers[c][i].clauses # <<>>
  /\ group # 0 => /\ containers[Engine] # <<>>
                  /\ Last(containers[Engine]).group = group
  /\ join # 0 => join = SelectContainer

(* A fluent chain's statement is the last of the container it remembers.   *)
HandlesInv ==
  \A h \in handles :
    /\ h.home \in Live /\ containers[h.home] # <<>>
    /\ Last(containers[h.home]) = Statement(h.id, h.clauses)
    /\ h.id \in DOMAIN written

(* Blocks begin at the statement that is next. *)
NumbersInv ==
  \A b, d \in DOMAIN blocks :
    /\ 1 <= blocks[b].number /\ blocks[b].number <= Len(written) + 1
    /\ b <= d => blocks[b].number <= blocks[d].number

(* The j-th text of the i-th entry of container c. *)
Spot(c, i, j) ==
  /\ c \in Live /\ i \in DOMAIN containers[c]
  /\ ~IsGroup(containers[c][i])
  /\ j \in DOMAIN Texts(containers[c][i])
TextAt(c, i, j) == Texts(containers[c][i])[j]

(* The stack of UNION groups is the stack of UNION blocks, and what is in  *)
(* a group was written in its block.                                       *)
Pairs(f) ==
  /\ \A k \in DOMAIN unions : blocks[f[k]].kind = "union"
  /\ \A k, l \in DOMAIN unions : k < l => f[k] < f[l]
  /\ \A b \in DOMAIN blocks : blocks[b].kind = "union" => \E k \in DOMAIN unions : f[k] = b
Within(f) ==
  \A k \in DOMAIN unions : \A c, i, j \in Nat :
    c = unions[k] /\ Spot(c, i, j) => TextAt(c, i, j).id >= blocks[f[k]].number
UnionsInv == \E f \in [DOMAIN unions -> DOMAIN blocks] : Pairs(f) /\ Within(f)

(* No text is in two places. *)
SpotsDiffer ==
  \A c, i, j, d, m, n \in Nat :
    /\ Spot(c, i, j) /\ Spot(d, m, n)
    /\ TextAt(c, i, j).id = TextAt(d, m, n).id
    => c = d /\ i = m /\ j = n

(* A statement of a block that has not thrown is in some place. *)
WrittenIsKept ==
  \A w \in DOMAIN written : ~written[w].dropped =>
    \E c, i, j \in Nat : Spot(c, i, j) /\ TextAt(c, i, j).id = w

(* What is in a place is what was written. *)
SpotsAreWritten ==
  \A c, i, j \in Nat : Spot(c, i, j) =>
    /\ TextAt(c, i, j).id \in DOMAIN written
    /\ TextAt(c, i, j).clauses = written[TextAt(c, i, j).id].clauses

TextsInv == SpotsDiffer /\ WrittenIsKept /\ SpotsAreWritten

(* The i-th statement of container c, which is executed. *)
Head1(c, i) ==
  c \in Executed /\ i \in DOMAIN containers[c] /\ ~IsGroup(containers[c][i])
IdAt(c, i) == containers[c][i].id

(* p is the place, in the engine's list, of entry i of container c. *)
Place(c, i, p) ==
  IF c = Engine THEN p = i ELSE p \in GroupPlaces /\ containers[Engine][p].group = c

OrderInv ==
  \A c, i, d, m \in Nat : Head1(c, i) /\ Head1(d, m) =>
    /\ c = d /\ i < m => IdAt(c, i) < IdAt(d, m)
    /\ \A p, q \in Nat : Place(c, i, p) /\ Place(d, m, q) /\ p < q => IdAt(c, i) < IdAt(d, m)

(* The number of the block in which the i-th statement of c was written. *)
BlockAt(c, i) == written[IdAt(c, i)].transaction

(* The executed statements of one container were written in one outermost  *)
(* transaction block, or outside of any.                                   *)
BlocksInv ==
  /\ \A b, d \in TransactionBlocks : b = d
  /\ group # 0 <=> TransactionBlocks # {}
  /\ \A c, i \in Nat : Head1(c, i) =>
       /\ c = Engine <=> BlockAt(c, i) = 0
       /\ BlockAt(c, i) <= IdAt(c, i)
       /\ group # 0 /\ c = group => BlockAt(c, i) = OutermostTransaction
       /\ group # 0 /\ c # group => IdAt(c, i) < OutermostTransaction
  /\ \A c, i, d, m \in Nat : Head1(c, i) /\ Head1(d, m) => (c = d <=> BlockAt(c, i) = BlockAt(d, m))

-----------------------------------------------------------------------------
(* Statements and containers *)

(* The classes of statements, one by one. *)
LEMMA ClassIs ==
  Class = {"insert", "delete", "define", "updateWhere", "final", "update", "where", "join",
           "groupBy", "having", "orderBy", "limit"}
BY DEF Class, Refinements

(* What can be refined is an UPDATE or a SELECT. *)
LEMMA RefinableIs ==
  ASSUME NEW k \in Class, NEW l \in Refinements[k]
  PROVE  l \in Class /\ (k = "update" \/ k \in SelectClass)
BY ClassIs DEF Refinements, SelectClass

(* The engine is a container, the first one. *)
LEMMA EngineIs ==
  ASSUME TypesInv
  PROVE  Engine \in DOMAIN containers /\ Engine = 1 /\ DOMAIN containers = 1 .. Len(containers)
         /\ Len(containers) \in Nat /\ Len(containers) > 0
<1>1. Len(containers) \in Nat /\ DOMAIN containers = 1 .. Len(containers)
  BY DEF TypesInv
<1>2. Len(containers) > 0
  BY EmptySeq, <1>1 DEF TypesInv
<1> QED BY <1>1, <1>2 DEF Engine

(* The texts of a statement: its own, then those of its members. *)
LEMMA TextsAre ==
  ASSUME NEW e \in Entry, e.clauses # <<>>
  PROVE  /\ Texts(e) \in Seq(Text)
         /\ Len(Texts(e)) = Len(e.members) + 1 /\ Len(e.members) \in Nat
         /\ DOMAIN Texts(e) = 1 .. Len(Texts(e))
         /\ Texts(e)[1] = [id |-> e.id, clauses |-> e.clauses]
         /\ \A j \in DOMAIN Texts(e) : j # 1 => Texts(e)[j] = e.members[j - 1]
<1> DEFINE h == [id |-> e.id, clauses |-> e.clauses]
<1>1. h \in Text /\ e.members \in Seq(Text)
  BY DEF Entry, Text, Clauses
<1>2. <<h>> \in Seq(Text) /\ Len(<<h>>) = 1 /\ <<h>>[1] = h
  BY <1>1
<1>3. Texts(e) = <<h>> \o e.members
  BY DEF Texts
<1> HIDE DEF h
<1>4. Len(e.members) \in Nat
  BY <1>1
<1>5. /\ Texts(e) \in Seq(Text) /\ Len(Texts(e)) = 1 + Len(e.members)
      /\ \A j \in 1 .. (1 + Len(e.members)) :
           Texts(e)[j] = IF j <= 1 THEN <<h>>[j] ELSE e.members[j - 1]
  BY <1>1, <1>2, <1>3, <1>4, ConcatProperties
<1>6. DOMAIN Texts(e) = 1 .. Len(Texts(e))
  BY <1>5
<1>7. Texts(e)[1] = h
  BY <1>5, <1>2, <1>4
<1>8. \A j \in DOMAIN Texts(e) : j # 1 => Texts(e)[j] = e.members[j - 1]
  BY <1>5, <1>6, <1>4
<1> QED BY <1>4, <1>5, <1>6, <1>7, <1>8 DEF h

(* A plain statement is one text. *)
LEMMA StatementIs ==
  ASSUME NEW id \in Nat, NEW clauses \in Clauses
  PROVE  LET s == Statement(id, clauses)
         IN  /\ s \in Entry /\ s.id = id /\ s.clauses = clauses /\ ~IsGroup(s) /\ s.clauses # <<>>
             /\ DOMAIN Texts(s) = {1} /\ Texts(s)[1] = [id |-> id, clauses |-> clauses]
<1> DEFINE s == Statement(id, clauses)
<1>1. /\ s \in Entry /\ s.id = id /\ s.clauses = clauses /\ s.members = <<>> /\ ~IsGroup(s)
      /\ s.clauses # <<>>
  BY DEF Statement, Entry, Clauses, IsGroup
<1> HIDE DEF s
<1>2. DOMAIN Texts(s) = {1}
  <2>1. Len(s.members) = 0 BY <1>1
  <2>2. DOMAIN Texts(s) = 1 .. Len(Texts(s)) /\ Len(Texts(s)) = Len(s.members) + 1
    BY <1>1, TextsAre
  <2> QED BY <2>1, <2>2
<1> QED BY <1>1, <1>2, TextsAre DEF s

(* The containers statements are added to. *)
LEMMA TargetsAre ==
  ASSUME TypesInv, ContainersInv
  PROVE  /\ StatementContainer \in Executed
         /\ SelectContainer \in Live
         /\ Executed \subseteq Live /\ Live \subseteq DOMAIN containers
         /\ group # 0 => StatementContainer = group /\ group \in Groups
         /\ Engine \notin Groups
<1>1. Groups \subseteq DOMAIN containers \ {Engine}
  BY DEF Groups, ContainersInv
<1>2. {unions[k] : k \in DOMAIN unions} \subseteq DOMAIN containers
  BY DEF ContainersInv
<1>3. Executed \subseteq Live /\ Live \subseteq DOMAIN containers
  BY <1>1, <1>2, EngineIs DEF Live, Executed
<1>4. group # 0 => group \in Groups
  <2>1. SUFFICES ASSUME group # 0 PROVE group \in Groups
    OBVIOUS
  <2>2. /\ containers[Engine] # <<>> /\ containers[Engine] \in Seq(Entry)
        /\ Last(containers[Engine]).group = group
    BY <2>1, EngineIs DEF ContainersInv, TypesInv
  <2>3. Len(containers[Engine]) \in DOMAIN containers[Engine]
    BY <2>2, EmptySeq
  <2>4. Len(containers[Engine]) \in GroupPlaces
    BY <2>1, <2>2, <2>3 DEF GroupPlaces, IsGroup, Last
  <2> QED BY <2>4, <2>2 DEF Groups, Last
<1>5. StatementContainer \in Executed
  BY <1>4 DEF StatementContainer, Executed
<1>6. SelectContainer \in Live
  <2>1. CASE unions = <<>> BY <2>1, <1>3, <1>5 DEF SelectContainer
  <2>2. CASE unions # <<>>
    <3>1. Len(unions) \in DOMAIN unions
      BY <2>2, EmptySeq DEF TypesInv
    <3> QED BY <3>1, <2>2 DEF SelectContainer, Last, Live
  <2> QED BY <2>1, <2>2
<1> QED BY <1>1, <1>3, <1>4, <1>5, <1>6 DEF StatementContainer

(* What an entry added to a container changes. *)
LEMMA Grown ==
  ASSUME TypesInv, NEW c \in DOMAIN containers, NEW e \in Entry, AddTo(c, e)
  PROVE  LET n == Len(containers[c]) + 1
         IN  /\ containers' \in Seq(Seq(Entry)) /\ containers' # <<>>
             /\ DOMAIN containers' = DOMAIN containers /\ Len(containers') = Len(containers)
             /\ \A d \in DOMAIN containers : d # c => containers'[d] = containers[d]
             /\ n \in Nat /\ n > 0
             /\ DOMAIN containers[c] = 1 .. (n - 1)
             /\ containers'[c] \in Seq(Entry) /\ Len(containers'[c]) = n /\ containers'[c] # <<>>
             /\ DOMAIN containers'[c] = 1 .. n
             /\ \A i \in 1 .. (n - 1) : containers'[c][i] = containers[c][i]
             /\ containers'[c][n] = e /\ Last(containers'[c]) = e
<1> DEFINE old == containers[c]
           n == Len(old) + 1
<1>1. old \in Seq(Entry) /\ Len(old) \in Nat /\ DOMAIN old = 1 .. Len(old)
  BY DEF TypesInv
<1>2. containers' = [containers EXCEPT ![c] = Append(old, e)]
  BY DEF AddTo
<1>3. /\ Append(old, e) \in Seq(Entry) /\ Len(Append(old, e)) = n
      /\ Append(old, e)[n] = e
      /\ \A i \in 1 .. Len(old) : Append(old, e)[i] = old[i]
  BY <1>1, AppendProperties
<1>4. containers'[c] = Append(old, e) /\ DOMAIN containers' = DOMAIN containers
      /\ \A d \in DOMAIN containers : d # c => containers'[d] = containers[d]
  BY <1>2
<1>5. containers' \in Seq(Seq(Entry)) /\ Len(containers') = Len(containers)
  BY <1>2, <1>3, ExceptSeq DEF TypesInv
<1> HIDE DEF old
<1>6. containers' # <<>>
  BY <1>4, <1>5, EngineIs, EmptySeq
<1>7. DOMAIN containers'[c] = 1 .. n /\ containers'[c] # <<>>
  BY <1>3, <1>4, <1>1, EmptySeq
<1> QED BY <1>1, <1>3, <1>4, <1>5, <1>6, <1>7 DEF old, Last

(* Added statements change neither the groups nor their places. *)
LEMMA GrownGroups ==
  ASSUME TypesInv, NEW c \in DOMAIN containers, NEW e \in Entry, AddTo(c, e), ~IsGroup(e)
  PROVE  /\ GroupPlaces' = GroupPlaces /\ Groups' = Groups /\ Executed' = Executed
         /\ \A i \in GroupPlaces : containers'[Engine][i] = containers[Engine][i]
<1> DEFINE n == Len(containers[c]) + 1
<1>1. /\ Engine \in DOMAIN containers
      /\ \A d \in DOMAIN containers : d # c => containers'[d] = containers[d]
      /\ DOMAIN containers[c] = 1 .. (n - 1) /\ DOMAIN containers'[c] = 1 .. n /\ n \in Nat /\ n > 0
      /\ \A i \in 1 .. (n - 1) : containers'[c][i] = containers[c][i]
      /\ containers'[c][n] = e
  BY EngineIs, Grown
<1> HIDE DEF n
<1>2. \A i \in 1 .. n : i # n => i \in 1 .. (n - 1)
  BY <1>1
<1>3. \A i \in 1 .. (n - 1) : i \in 1 .. n
  BY <1>1
<1>4. GroupPlaces' = GroupPlaces /\ \A i \in GroupPlaces : containers'[Engine][i] = containers[Engine][i]
  <2>1. CASE c # Engine
    BY <2>1, <1>1 DEF GroupPlaces
  <2>2. CASE c = Engine
    BY <2>2, <1>1, <1>2, <1>3 DEF GroupPlaces
  <2> QED BY <2>1, <2>2
<1> QED BY <1>4 DEF Groups, Executed

(* The spots after an entry is added, and perhaps a container has left. *)
LEMMA GrownSpots ==
  ASSUME TypesInv, ContainersInv, NEW c \in DOMAIN containers, NEW e \in Entry, AddTo(c, e),
         ~IsGroup(e), c \in Live', Live' \subseteq Live
  PROVE  LET n == Len(containers[c]) + 1
         IN  /\ \A d, i, j \in Nat :
                  Spot(d, i, j)' <=> \/ d \in Live' /\ Spot(d, i, j)
                                     \/ d = c /\ i = n /\ j \in DOMAIN Texts(e)
             /\ \A d, i, j \in Nat : Spot(d, i, j) => /\ TextAt(d, i, j)' = TextAt(d, i, j)
                                                      /\ ~(d = c /\ i = n)
             /\ \A i, j \in Nat : i = n => TextAt(c, i, j)' = Texts(e)[j]
<1> DEFINE n == Len(containers[c]) + 1
<1>1. /\ \A d \in DOMAIN containers : d # c => containers'[d] = containers[d]
      /\ DOMAIN containers[c] = 1 .. (n - 1) /\ DOMAIN containers'[c] = 1 .. n /\ n \in Nat /\ n > 0
      /\ \A i \in 1 .. (n - 1) : containers'[c][i] = containers[c][i]
      /\ containers'[c][n] = e
  BY Grown
<1>2. Live \subseteq DOMAIN containers
  BY TargetsAre
<1> HIDE DEF n
<1>3. \A i \in 1 .. n : i # n => i \in 1 .. (n - 1)
  BY <1>1
<1>4. n \notin 1 .. (n - 1) /\ \A i \in 1 .. (n - 1) : i \in 1 .. n
  BY <1>1
<1>5. ASSUME NEW d \in Nat, NEW i \in Nat, NEW j \in Nat
      PROVE  /\ Spot(d, i, j)' <=> \/ d \in Live' /\ Spot(d, i, j)
                                   \/ d = c /\ i = n /\ j \in DOMAIN Texts(e)
             /\ Spot(d, i, j) => TextAt(d, i, j)' = TextAt(d, i, j) /\ ~(d = c /\ i = n)
  <2>1. CASE d # c
    BY <2>1, <1>1, <1>2 DEF Spot, TextAt
  <2>2. CASE d = c /\ i # n
    BY <2>2, <1>1, <1>2, <1>3, <1>4 DEF Spot, TextAt
  <2>3. CASE d = c /\ i = n
    BY <2>3, <1>1, <1>4 DEF Spot, TextAt
  <2> QED BY <2>1, <2>2, <2>3
<1>6. ASSUME NEW i \in Nat, NEW j \in Nat, i = n PROVE TextAt(c, i, j)' = Texts(e)[j]
  BY <1>1, <1>6 DEF TextAt
<1> QED BY <1>5, <1>6 DEF n

(* The number of the outermost transaction block. *)
LEMMA OutermostIs ==
  ASSUME TypesInv
  PROVE  /\ OutermostTransaction \in Nat
         /\ TransactionBlocks = {} => OutermostTransaction = 0
         /\ TransactionBlocks # {} => \E b \in TransactionBlocks : OutermostTransaction = blocks[b].number
<1>1. blocks \in Seq(Block) /\ DOMAIN blocks = 1 .. Len(blocks) /\ TransactionBlocks \subseteq Nat
  BY DEF TypesInv, TransactionBlocks
<1>2. CASE TransactionBlocks = {}
  BY <1>2 DEF OutermostTransaction
<1>3. CASE TransactionBlocks # {}
  <2> DEFINE first == CHOOSE b \in TransactionBlocks : \A d \in TransactionBlocks : b <= d
  <2>1. first \in TransactionBlocks
    BY <1>1, <1>3, NatMin
  <2>2. OutermostTransaction = blocks[first].number
    BY <1>3 DEF OutermostTransaction
  <2>3. blocks[first] \in Block
    BY <2>1, <1>1 DEF TransactionBlocks
  <2> QED BY <1>3, <2>1, <2>2, <2>3 DEF Block
<1> QED BY <1>2, <1>3

(* The record of a new statement. *)
LEMMA Recorded ==
  ASSUME TypesInv, NEW r \in Record, written' = Append(written, r)
  PROVE  LET id == Len(written) + 1
         IN  /\ written' \in Seq(Record) /\ id \in Nat /\ id > 0
             /\ Len(written') = id /\ DOMAIN written' = 1 .. id
             /\ DOMAIN written = 1 .. (id - 1) /\ Len(written) \in Nat
             /\ written'[id] = r
             /\ \A w \in 1 .. (id - 1) : written'[w] = written[w]
<1>1. written \in Seq(Record) /\ Len(written) \in Nat /\ DOMAIN written = 1 .. Len(written)
  BY DEF TypesInv
<1>2. /\ written' \in Seq(Record) /\ Len(written') = Len(written) + 1
      /\ written'[Len(written) + 1] = r
      /\ \A w \in 1 .. Len(written) : written'[w] = written[w]
  BY <1>1, AppendProperties
<1> QED BY <1>1, <1>2

(* The i-th statements after one is added to container c. *)
LEMMA GrownHeads ==
  ASSUME TypesInv, ContainersInv, NEW c \in DOMAIN containers, NEW e \in Entry, AddTo(c, e), ~IsGroup(e)
  PROVE  LET n == Len(containers[c]) + 1
         IN  /\ \A d, i \in Nat : Head1(d, i)' <=> Head1(d, i) \/ (d = c /\ i = n /\ c \in Executed)
             /\ \A d, i \in Nat : Head1(d, i) => /\ IdAt(d, i)' = IdAt(d, i)
                                                 /\ ~(d = c /\ i = n)
             /\ \A i \in Nat : i = n => IdAt(c, i)' = e.id
             /\ \A d, i, p \in Nat : Place(d, i, p)' <=> Place(d, i, p)
<1> DEFINE n == Len(containers[c]) + 1
<1>1. /\ \A d \in DOMAIN containers : d # c => containers'[d] = containers[d]
      /\ DOMAIN containers[c] = 1 .. (n - 1) /\ DOMAIN containers'[c] = 1 .. n /\ n \in Nat /\ n > 0
      /\ \A i \in 1 .. (n - 1) : containers'[c][i] = containers[c][i]
      /\ containers'[c][n] = e
  BY Grown
<1>2. Executed \subseteq DOMAIN containers /\ Executed' = Executed
  BY TargetsAre, GrownGroups
<1> HIDE DEF n
<1>3. \A i \in 1 .. n : i # n => i \in 1 .. (n - 1)
  BY <1>1
<1>4. n \notin 1 .. (n - 1) /\ \A i \in 1 .. (n - 1) : i \in 1 .. n
  BY <1>1
<1>5. ASSUME NEW d \in Nat, NEW i \in Nat
      PROVE  /\ Head1(d, i)' <=> Head1(d, i) \/ (d = c /\ i = n /\ c \in Executed)
             /\ Head1(d, i) => IdAt(d, i)' = IdAt(d, i) /\ ~(d = c /\ i = n)
  <2>1. CASE d # c
    BY <2>1, <1>1, <1>2 DEF Head1, IdAt
  <2>2. CASE d = c /\ i # n
    BY <2>2, <1>1, <1>2, <1>3, <1>4 DEF Head1, IdAt
  <2>3. CASE d = c /\ i = n
    <3>1. /\ Head1(d, i)' <=> d \in Executed' /\ i \in DOMAIN containers'[d] /\ ~IsGroup(containers'[d][i])
          /\ ~Head1(d, i)
      BY <2>3, <1>1, <1>4 DEF Head1
    <3>2. i \in DOMAIN containers'[d] /\ containers'[d][i] = e
      BY <2>3, <1>1
    <3> QED BY <3>1, <3>2, <2>3, <1>2
  <2> QED BY <2>1, <2>2, <2>3
<1>6. ASSUME NEW i \in Nat, i = n PROVE IdAt(c, i)' = e.id
  BY <1>1, <1>6 DEF IdAt
<1>7. ASSUME NEW d \in Nat, NEW i \in Nat, NEW p \in Nat
      PROVE  Place(d, i, p)' <=> Place(d, i, p)
  BY GrownGroups DEF Place
<1> QED BY <1>5, <1>6, <1>7 DEF n

(* The current group is the last entry of the engine; other entries come   *)
(* before it.                                                              *)
LEMMA GroupIsLast ==
  ASSUME TypesInv, ContainersInv, NEW i \in Nat, NEW p \in Nat, Place(StatementContainer, i, p),
         NEW d \in Nat, NEW m \in Nat, NEW q \in Nat, Head1(d, m), Place(d, m, q),
         i = Len(containers[StatementContainer]) + 1
  PROVE  q <= p
<1>1. containers[Engine] \in Seq(Entry) /\ DOMAIN containers[Engine] = 1 .. Len(containers[Engine])
      /\ Len(containers[Engine]) \in Nat
  BY EngineIs DEF TypesInv
<1>2. q \in DOMAIN containers[Engine]
  BY <1>1 DEF Place, Head1, GroupPlaces
<1>3. CASE group = 0
  <2>1. p = Len(containers[Engine]) + 1
    BY <1>3 DEF Place, StatementContainer
  <2> QED BY <2>1, <1>2, <1>1
<1>4. CASE group # 0
  <2>1. StatementContainer = group /\ group # Engine
    BY <1>4, TargetsAre
  <2>2. containers[Engine] # <<>> /\ Last(containers[Engine]).group = group
    BY <1>4 DEF ContainersInv
  <2>3. Len(containers[Engine]) \in DOMAIN containers[Engine]
    BY <1>1, <2>2, EmptySeq
  <2>4. Len(containers[Engine]) \in GroupPlaces
        /\ containers[Engine][Len(containers[Engine])].group = group
    BY <2>2, <2>3, <1>4 DEF GroupPlaces, IsGroup, Last
  <2>5. p \in GroupPlaces /\ containers[Engine][p].group = group
    BY <2>1 DEF Place
  <2>6. p = Len(containers[Engine])
    BY <2>4, <2>5 DEF ContainersInv
  <2> QED BY <2>6, <1>2, <1>1
<1> QED BY <1>3, <1>4

(* An added statement is the last in the order of execution. *)
LEMMA OrderGrows ==
  ASSUME TypesInv, ContainersInv, OrderInv,
         NEW c \in DOMAIN containers, NEW e \in Entry, AddTo(c, e), ~IsGroup(e),
         e.id = Len(written) + 1, c = StatementContainer \/ c \notin Executed
  PROVE  OrderInv'
<1> DEFINE n == Len(containers[c]) + 1
<1>1. /\ \A d, i \in Nat : Head1(d, i)' <=> Head1(d, i) \/ (d = c /\ i = n /\ c \in Executed)
      /\ \A d, i \in Nat : Head1(d, i) => IdAt(d, i)' = IdAt(d, i) /\ ~(d = c /\ i = n)
      /\ \A i \in Nat : i = n => IdAt(c, i)' = e.id
      /\ \A d, i, p \in Nat : Place(d, i, p)' <=> Place(d, i, p)
  BY GrownHeads
<1>2. n \in Nat /\ DOMAIN containers[c] = 1 .. (n - 1) /\ c \in Nat /\ Len(written) \in Nat
  BY Grown, EngineIs DEF TypesInv
<1>3. \A d, i \in Nat : Head1(d, i) => IdAt(d, i) <= Len(written) /\ IdAt(d, i) \in Nat
  <2> SUFFICES ASSUME NEW d \in Nat, NEW i \in Nat, Head1(d, i)
               PROVE  IdAt(d, i) <= Len(written) /\ IdAt(d, i) \in Nat
    OBVIOUS
  <2>1. d \in DOMAIN containers /\ i \in DOMAIN containers[d] /\ containers[d] \in Seq(Entry)
    BY TargetsAre DEF Head1, TypesInv
  <2>2. containers[d][i] \in Entry
    BY <2>1
  <2> QED BY <2>1, <2>2 DEF ContainersInv, IdAt, Entry
<1> SUFFICES ASSUME NEW d \in Nat, NEW i \in Nat, NEW f \in Nat, NEW m \in Nat,
                    Head1(d, i)', Head1(f, m)'
             PROVE  /\ d = f /\ i < m => IdAt(d, i)' < IdAt(f, m)'
                    /\ \A p, q \in Nat :
                         Place(d, i, p)' /\ Place(f, m, q)' /\ p < q => IdAt(d, i)' < IdAt(f, m)'
  BY DEF OrderInv
<1>4. CASE Head1(d, i) /\ Head1(f, m)
  BY <1>1, <1>4 DEF OrderInv
<1>5. CASE Head1(d, i) /\ f = c /\ m = n
  <2>1. IdAt(d, i)' = IdAt(d, i) /\ IdAt(f, m)' = e.id
    BY <1>1, <1>5
  <2> QED BY <2>1, <1>2, <1>3, <1>5
<1>6. CASE d = c /\ i = n /\ c \in Executed /\ Head1(f, m)
  <2>1. d = f => ~ i < m
    BY <1>6, <1>2 DEF Head1
  <2>2. ASSUME NEW p \in Nat, NEW q \in Nat, Place(d, i, p), Place(f, m, q) PROVE ~ p < q
    <3>1. c = StatementContainer BY <1>6
    <3>2. q <= p BY <3>1, <1>6, <2>2, GroupIsLast
    <3> QED BY <3>2
  <2> QED BY <2>1, <2>2, <1>1
<1>7. CASE d = c /\ i = n /\ f = c /\ m = n
  <2>1. d = f /\ ~ i < m BY <1>7, <1>2
  <2>2. ASSUME NEW p \in Nat, NEW q \in Nat, Place(d, i, p), Place(f, m, q) PROVE p = q
    BY <1>7, <2>2 DEF Place, ContainersInv
  <2> QED BY <2>1, <2>2, <1>1
<1> QED BY <1>1, <1>4, <1>5, <1>6, <1>7

(* A statement that is executed is a spot; its number is one of a written  *)
(* statement.                                                              *)
LEMMA HeadsAreSpots ==
  ASSUME TypesInv, ContainersInv, NEW c \in Nat, NEW i \in Nat, Head1(c, i)
  PROVE  /\ Spot(c, i, 1) /\ TextAt(c, i, 1).id = IdAt(c, i)
         /\ TextsInv => IdAt(c, i) \in DOMAIN written
<1>1. c \in Live /\ c \in DOMAIN containers /\ i \in DOMAIN containers[c]
      /\ ~IsGroup(containers[c][i]) /\ containers[c] \in Seq(Entry)
  BY TargetsAre DEF Head1, TypesInv
<1>2. containers[c][i] \in Entry /\ containers[c][i].clauses # <<>>
  BY <1>1 DEF ContainersInv
<1>3. 1 \in DOMAIN Texts(containers[c][i]) /\ Texts(containers[c][i])[1].id = containers[c][i].id
  <2> DEFINE e == containers[c][i]
  <2>1. e \in Entry /\ e.clauses # <<>> BY <1>2
  <2> HIDE DEF e
  <2>2. 1 \in DOMAIN Texts(e) /\ Texts(e)[1] = [id |-> e.id, clauses |-> e.clauses]
    BY <2>1, TextsAre
  <2>3. Texts(e)[1].id = e.id BY <2>2
  <2> QED BY <2>2, <2>3 DEF e
<1>4. Spot(c, i, 1) /\ TextAt(c, i, 1).id = IdAt(c, i)
  BY <1>1, <1>3 DEF Spot, TextAt, IdAt
<1>5. ASSUME TextsInv PROVE TextAt(c, i, 1).id \in DOMAIN written
  BY <1>4, <1>5 DEF TextsInv, SpotsAreWritten
<1> QED BY <1>4, <1>5

(* A statement is added to the transaction of the block it is written in.  *)
LEMMA BlocksGrow ==
  ASSUME TypesInv, ContainersInv, NumbersInv, TextsInv, BlocksInv,
         NEW c \in DOMAIN containers, NEW e \in Entry, AddTo(c, e), ~IsGroup(e),
         e.id = Len(written) + 1, c = StatementContainer \/ c \notin Executed,
         NEW r \in Record, written' = Append(written, r), r.transaction = OutermostTransaction,
         group' = group, TransactionBlocks' = TransactionBlocks,
         OutermostTransaction' = OutermostTransaction
  PROVE  BlocksInv'
<1> DEFINE n == Len(containers[c]) + 1
<1>1. /\ \A d, i \in Nat : Head1(d, i)' <=> Head1(d, i) \/ (d = c /\ i = n /\ c \in Executed)
      /\ \A d, i \in Nat : Head1(d, i) => IdAt(d, i)' = IdAt(d, i) /\ ~(d = c /\ i = n)
      /\ \A i \in Nat : i = n => IdAt(c, i)' = e.id
  BY GrownHeads
<1>2. /\ written'[Len(written) + 1] = r /\ Len(written) \in Nat
      /\ DOMAIN written = 1 .. Len(written)
      /\ \A w \in DOMAIN written : written'[w] = written[w]
  BY Recorded
<1>3. \A d, i \in Nat : Head1(d, i) => BlockAt(d, i)' = BlockAt(d, i)
                                       /\ BlockAt(d, i) \in Nat /\ IdAt(d, i) \in Nat
  <2> SUFFICES ASSUME NEW d \in Nat, NEW i \in Nat, Head1(d, i)
               PROVE  BlockAt(d, i)' = BlockAt(d, i) /\ BlockAt(d, i) \in Nat /\ IdAt(d, i) \in Nat
    OBVIOUS
  <2>1. IdAt(d, i) \in DOMAIN written BY HeadsAreSpots
  <2>2. written[IdAt(d, i)] \in Record BY <2>1 DEF TypesInv
  <2> QED BY <2>1, <2>2, <1>1, <1>2 DEF Record, BlockAt
<1>4. \A d, i \in Nat : d = c /\ i = n => BlockAt(d, i)' = OutermostTransaction
                                          /\ IdAt(d, i)' = Len(written) + 1
  BY <1>1, <1>2 DEF BlockAt
<1>5. OutermostTransaction \in Nat /\ OutermostTransaction <= Len(written) + 1
      /\ (OutermostTransaction = 0 <=> TransactionBlocks = {})
  <2>1. CASE TransactionBlocks = {} BY <2>1, OutermostIs, <1>2
  <2>2. CASE TransactionBlocks # {}
    <3>1. PICK b \in TransactionBlocks : OutermostTransaction = blocks[b].number
      BY <2>2, OutermostIs
    <3>2. b \in DOMAIN blocks BY DEF TransactionBlocks
    <3> QED BY <2>2, <3>1, <3>2, OutermostIs DEF NumbersInv
  <2> QED BY <2>1, <2>2
<1>6. c \in Executed => c = StatementContainer /\ (c = Engine <=> group = 0) /\ (group # 0 => c = group)
  BY TargetsAre DEF StatementContainer
<1>7. /\ \A b, d \in TransactionBlocks' : b = d
      /\ group' # 0 <=> TransactionBlocks' # {}
  BY DEF BlocksInv
<1>11. \A d, i \in Nat : Head1(d, i) =>
         /\ d = Engine <=> BlockAt(d, i) = 0
         /\ BlockAt(d, i) <= IdAt(d, i)
         /\ group # 0 /\ d = group => BlockAt(d, i) = OutermostTransaction
         /\ group # 0 /\ d # group => IdAt(d, i) < OutermostTransaction
  BY DEF BlocksInv
<1>12. \A d, i, f, m \in Nat : Head1(d, i) /\ Head1(f, m) => (d = f <=> BlockAt(d, i) = BlockAt(f, m))
  BY DEF BlocksInv
<1>13. group # 0 <=> TransactionBlocks # {}
  BY DEF BlocksInv
<1>14. c \in Nat
  BY EngineIs
<1> HIDE DEF n
<1>8. ASSUME NEW d \in Nat, NEW i \in Nat, Head1(d, i)'
      PROVE  /\ d = Engine <=> BlockAt(d, i)' = 0
             /\ BlockAt(d, i)' <= IdAt(d, i)'
             /\ group' # 0 /\ d = group' => BlockAt(d, i)' = OutermostTransaction'
             /\ group' # 0 /\ d # group' => IdAt(d, i)' < OutermostTransaction'
  <2>1. CASE Head1(d, i)
    BY <2>1, <1>1, <1>3, <1>11
  <2>2. CASE d = c /\ i = n /\ c \in Executed
    BY <2>2, <1>4, <1>5, <1>6, <1>13
  <2> QED BY <2>1, <2>2, <1>8, <1>1
<1>9. ASSUME NEW i \in Nat, NEW f \in Nat, NEW m \in Nat, c \in Executed, i = n,
             Head1(f, m)
      PROVE  c = f <=> BlockAt(c, i)' = BlockAt(f, m)'
  <2>1. BlockAt(c, i)' = OutermostTransaction
    BY <1>9, <1>4, <1>14
  <2>2. BlockAt(f, m)' = BlockAt(f, m) /\ BlockAt(f, m) \in Nat /\ IdAt(f, m) \in Nat
    BY <1>9, <1>3
  <2>3. BlockAt(f, m) <= IdAt(f, m) /\ (f = Engine <=> BlockAt(f, m) = 0)
        /\ (group # 0 /\ f # group => IdAt(f, m) < OutermostTransaction)
        /\ (group # 0 /\ f = group => BlockAt(f, m) = OutermostTransaction)
    BY <1>9, <1>11
  <2>4. CASE group = 0
    BY <2>4, <2>1, <2>2, <2>3, <1>5, <1>6, <1>9, <1>13
  <2>5. CASE group # 0
    BY <2>5, <2>1, <2>2, <2>3, <1>5, <1>6, <1>9
  <2> QED BY <2>4, <2>5
<1>10. ASSUME NEW d \in Nat, NEW i \in Nat, NEW f \in Nat, NEW m \in Nat, Head1(d, i)', Head1(f, m)'
       PROVE  d = f <=> BlockAt(d, i)' = BlockAt(f, m)'
  <2>1. CASE Head1(d, i) /\ Head1(f, m)
    BY <2>1, <1>3, <1>10, <1>12
  <2>2. CASE d = c /\ i = n /\ c \in Executed /\ Head1(f, m)
    BY <2>2, <1>9, <1>10
  <2>3. CASE f = c /\ m = n /\ c \in Executed /\ Head1(d, i)
    BY <2>3, <1>9, <1>10
  <2>4. CASE d = c /\ i = n /\ f = c /\ m = n
    BY <2>4
  <2> QED BY <2>1, <2>2, <2>3, <2>4, <1>10, <1>1
<1> QED BY <1>7, <1>8, <1>10 DEF BlocksInv

(* Containers keep what they are for when a statement is added. *)
LEMMA ContainersGrow ==
  ASSUME TypesInv, ContainersInv,
         NEW c \in DOMAIN containers, NEW e \in Entry, AddTo(c, e), ~IsGroup(e), e.clauses # <<>>,
         e.id = Len(written) + 1, c = StatementContainer \/ c \notin Executed,
         NEW r \in Record, written' = Append(written, r),
         group' = group, join' = 0,
         \A k \in DOMAIN unions' : k \in DOMAIN unions /\ unions'[k] = unions[k]
  PROVE  ContainersInv'
<1> DEFINE n == Len(containers[c]) + 1
<1>1. /\ DOMAIN containers' = DOMAIN containers
      /\ \A d \in DOMAIN containers : d # c => containers'[d] = containers[d]
      /\ DOMAIN containers[c] = 1 .. (n - 1) /\ DOMAIN containers'[c] = 1 .. n /\ n \in Nat /\ n > 0
      /\ \A i \in 1 .. (n - 1) : containers'[c][i] = containers[c][i]
      /\ containers'[c][n] = e
  BY Grown
<1>2. /\ GroupPlaces' = GroupPlaces /\ Groups' = Groups /\ Executed' = Executed
      /\ \A i \in GroupPlaces : containers'[Engine][i] = containers[Engine][i]
  BY GrownGroups
<1>3. Len(written') = Len(written) + 1 /\ Len(written) \in Nat
  BY Recorded
<1> HIDE DEF n
<1>4. \A i \in 1 .. n : i # n => i \in 1 .. (n - 1)
  BY <1>1
<1>5. /\ \A i \in GroupPlaces' :
           /\ containers'[Engine][i].group \in DOMAIN containers' \ {Engine}
           /\ containers'[Engine][i].id = 0
      /\ \A i, m \in GroupPlaces' :
           containers'[Engine][i].group = containers'[Engine][m].group => i = m
  BY <1>1, <1>2 DEF ContainersInv
<1>6. /\ \A k \in DOMAIN unions' : unions'[k] \in DOMAIN containers' \ Executed'
      /\ \A k, l \in DOMAIN unions' : unions'[k] = unions'[l] => k = l
  BY <1>1, <1>2 DEF ContainersInv
<1>7. ASSUME NEW d \in DOMAIN containers', NEW i \in DOMAIN containers'[d]
      PROVE  /\ containers'[d][i].id <= Len(written')
             /\ IsGroup(containers'[d][i]) => d = Engine
             /\ ~IsGroup(containers'[d][i]) => containers'[d][i].clauses # <<>>
  <2>1. CASE d = c /\ i = n
    BY <2>1, <1>1, <1>3
  <2>2. CASE ~(d = c /\ i = n)
    <3>1. d \in DOMAIN containers /\ i \in DOMAIN containers[d] /\ containers'[d][i] = containers[d][i]
          /\ containers[d] \in Seq(Entry)
      <4>1. CASE d = c BY <4>1, <2>2, <1>1, <1>4 DEF TypesInv
      <4>2. CASE d # c BY <4>2, <1>1 DEF TypesInv
      <4> QED BY <4>1, <4>2
    <3>2. containers[d][i] \in Entry BY <3>1
    <3>3. containers[d][i].id \in Nat BY <3>2 DEF Entry
    <3> QED BY <3>1, <3>3, <1>3 DEF ContainersInv
  <2> QED BY <2>1, <2>2
<1>8. group' # 0 => containers'[Engine] # <<>> /\ Last(containers'[Engine]).group = group'
  <2>1. SUFFICES ASSUME group # 0 PROVE containers'[Engine] = containers[Engine]
    BY DEF ContainersInv
  <2>2. c # Engine
    BY <2>1, TargetsAre DEF Executed
  <2> QED BY <2>2, <1>1, EngineIs
<1> QED BY <1>5, <1>6, <1>7, <1>8 DEF ContainersInv

(* The next number is not before any block. *)
LEMMA NumbersGrow ==
  ASSUME TypesInv, NumbersInv, NEW r \in Record, written' = Append(written, r),
         \A b \in DOMAIN blocks' : b \in DOMAIN blocks /\ blocks'[b] = blocks[b]
  PROVE  NumbersInv'
<1>1. Len(written') = Len(written) + 1 /\ Len(written) \in Nat
  BY Recorded
<1>2. \A b \in DOMAIN blocks : blocks[b].number \in Nat
  <2>1. blocks \in Seq(Block) BY DEF TypesInv
  <2>2. \A b \in DOMAIN blocks : blocks[b] \in Block BY <2>1
  <2> QED BY <2>2 DEF Block
<1> QED BY <1>1, <1>2 DEF NumbersInv

-----------------------------------------------------------------------------
(* A new statement *)

Adds(k, c) ==
  /\ stage = "building"
  /\ Write(k, c, c)
  /\ join' = 0
  /\ UNCHANGED <<group, unions, blocks, stage>>

(* What the code adds, and where. *)
LEMMA AddsAre ==
  ASSUME TypesInv, ContainersInv, NEW k \in Class,
         NEW c \in {StatementContainer, SelectContainer}, Adds(k, c)
  PROVE  LET id == Len(written) + 1
             e == Statement(id, <<k>>)
             r == [clauses |-> <<k>>, transaction |-> OutermostTransaction, dropped |-> FALSE]
         IN  /\ c \in DOMAIN containers /\ c \in Live /\ c \in Nat
             /\ c = StatementContainer \/ c \notin Executed
             /\ <<k>> \in Clauses /\ id \in Nat
             /\ e \in Entry /\ AddTo(c, e) /\ ~IsGroup(e) /\ e.clauses # <<>> /\ e.id = id
             /\ DOMAIN Texts(e) = {1} /\ Texts(e)[1] = [id |-> id, clauses |-> <<k>>]
             /\ r \in Record /\ written' = Append(written, r)
             /\ handles' = {[id |-> id, clauses |-> <<k>>, home |-> c]}
             /\ Executed' = Executed /\ Live' = Live
<1> DEFINE id == Len(written) + 1
           e == Statement(id, <<k>>)
           r == [clauses |-> <<k>>, transaction |-> OutermostTransaction, dropped |-> FALSE]
<1>1. c \in DOMAIN containers /\ c \in Live /\ c \in Nat
  BY TargetsAre, EngineIs
<1>2. c = StatementContainer \/ c \notin Executed
  <2>1. CASE unions = <<>> BY <2>1 DEF SelectContainer
  <2>2. CASE unions # <<>>
    <3>1. Len(unions) \in DOMAIN unions
      BY <2>2, EmptySeq DEF TypesInv
    <3>2. unions[Len(unions)] \notin Executed
      BY <3>1 DEF ContainersInv
    <3> QED BY <3>2, <2>2 DEF SelectContainer, Last
  <2> QED BY <2>1, <2>2
<1>3. id \in Nat /\ <<k>> \in Clauses
  BY DEF TypesInv, Clauses
<1>4. e \in Entry /\ ~IsGroup(e) /\ e.clauses # <<>> /\ e.id = id
      /\ DOMAIN Texts(e) = {1} /\ Texts(e)[1] = [id |-> id, clauses |-> <<k>>]
  BY <1>3, StatementIs
<1>5. /\ AddTo(c, e) /\ written' = Append(written, r)
      /\ handles' = {[id |-> id, clauses |-> <<k>>, home |-> c]}
  BY DEF Adds, Write, Keep
<1>6. r \in Record
  BY <1>3, OutermostIs DEF Record
<1>7. Executed' = Executed
  BY <1>1, <1>4, <1>5, GrownGroups
<1>8. Live' = Live
  BY <1>7 DEF Live, Adds
<1> QED BY <1>1, <1>2, <1>3, <1>4, <1>5, <1>6, <1>7, <1>8

(* A statement that is added keeps the types. *)
LEMMA AddsTypes ==
  ASSUME TypesInv, ContainersInv, NEW k \in Class,
         NEW c \in {StatementContainer, SelectContainer}, Adds(k, c)
  PROVE  TypesInv'
<1>1. containers' \in Seq(Seq(Entry)) /\ containers' # <<>>
  BY AddsAre, Grown
<1>2. written' \in Seq(Record)
  BY AddsAre, Recorded
<1>3. handles' \subseteq Handle
  <2> DEFINE h == [id |-> Len(written) + 1, clauses |-> <<k>>, home |-> c]
  <2>1. h \in Handle
    BY AddsAre DEF Handle
  <2>2. handles' = {h}
    BY AddsAre
  <2> QED BY <2>1, <2>2
<1> QED BY <1>1, <1>2, <1>3 DEF TypesInv, Adds

(* A statement that is added has a text of its own, which is what was      *)
(* written.                                                                *)
LEMMA AddsTexts ==
  ASSUME TypesInv, ContainersInv, TextsInv, NEW k \in Class,
         NEW c \in {StatementContainer, SelectContainer}, Adds(k, c)
  PROVE  TextsInv'
<1> DEFINE id == Len(written) + 1
           n == Len(containers[c]) + 1
<1>1. /\ \A d, i, j \in Nat : Spot(d, i, j)' <=> Spot(d, i, j) \/ (d = c /\ i = n /\ j = 1)
      /\ \A d, i, j \in Nat : Spot(d, i, j) => TextAt(d, i, j)' = TextAt(d, i, j) /\ ~(d = c /\ i = n)
      /\ \A d, i, j \in Nat : d = c /\ i = n /\ j = 1 => TextAt(d, i, j)' = [id |-> id, clauses |-> <<k>>]
  <2> DEFINE e == Statement(id, <<k>>)
  <2>1. c \in DOMAIN containers /\ e \in Entry /\ AddTo(c, e) /\ ~IsGroup(e) /\ c \in Live'
        /\ Live' \subseteq Live /\ DOMAIN Texts(e) = {1} /\ Texts(e)[1] = [id |-> id, clauses |-> <<k>>]
        /\ Live' = Live
    BY AddsAre
  <2> HIDE DEF e
  <2>2. /\ \A d, i, j \in Nat :
             Spot(d, i, j)' <=> (d \in Live' /\ Spot(d, i, j)) \/ (d = c /\ i = n /\ j \in DOMAIN Texts(e))
        /\ \A d, i, j \in Nat : Spot(d, i, j) => TextAt(d, i, j)' = TextAt(d, i, j) /\ ~(d = c /\ i = n)
        /\ \A i, j \in Nat : i = n => TextAt(c, i, j)' = Texts(e)[j]
    BY <2>1, GrownSpots
  <2>3. \A d, i, j \in Nat : Spot(d, i, j) => d \in Live
    BY DEF Spot
  <2> QED BY <2>1, <2>2, <2>3
<1>2. /\ DOMAIN written' = 1 .. id /\ DOMAIN written = 1 .. (id - 1) /\ id \in Nat /\ id > 0
      /\ written'[id] = [clauses |-> <<k>>, transaction |-> OutermostTransaction, dropped |-> FALSE]
      /\ \A w \in 1 .. (id - 1) : written'[w] = written[w]
  BY AddsAre, Recorded
<1>3. n \in Nat /\ c \in Nat
  BY AddsAre, Grown
<1> HIDE DEF n, id
<1>4. id \notin DOMAIN written /\ (\A w \in DOMAIN written' : w = id \/ w \in DOMAIN written)
      /\ DOMAIN written \subseteq DOMAIN written' /\ id \in DOMAIN written'
      /\ \A w \in DOMAIN written : written'[w] = written[w]
  BY <1>2
<1>5. \A d, i, j \in Nat : Spot(d, i, j) => TextAt(d, i, j).id \in DOMAIN written
                                            /\ TextAt(d, i, j).clauses = written[TextAt(d, i, j).id].clauses
  BY DEF TextsInv, SpotsAreWritten
<1>6. ASSUME NEW d \in Nat, NEW i \in Nat, NEW j \in Nat, Spot(d, i, j)',
             NEW f \in Nat, NEW m \in Nat, NEW o \in Nat, Spot(f, m, o)',
             TextAt(d, i, j)'.id = TextAt(f, m, o)'.id
      PROVE  d = f /\ i = m /\ j = o
  <2>1. CASE Spot(d, i, j) /\ Spot(f, m, o)
    <3>1. TextAt(d, i, j)' = TextAt(d, i, j) /\ TextAt(f, m, o)' = TextAt(f, m, o)
      BY <2>1, <1>1
    <3> QED BY <2>1, <3>1, <1>6 DEF TextsInv, SpotsDiffer
  <2>2. CASE Spot(d, i, j) /\ (f = c /\ m = n /\ o = 1)
    <3>1. TextAt(d, i, j)' = TextAt(d, i, j) /\ TextAt(d, i, j).id \in DOMAIN written
      BY <2>2, <1>1, <1>5
    <3>2. TextAt(f, m, o)' = [id |-> id, clauses |-> <<k>>] BY <2>2, <1>1
    <3> QED BY <3>1, <3>2, <1>4, <1>6
  <2>3. CASE Spot(f, m, o) /\ (d = c /\ i = n /\ j = 1)
    <3>1. TextAt(f, m, o)' = TextAt(f, m, o) /\ TextAt(f, m, o).id \in DOMAIN written
      BY <2>3, <1>1, <1>5
    <3>2. TextAt(d, i, j)' = [id |-> id, clauses |-> <<k>>] BY <2>3, <1>1
    <3> QED BY <3>1, <3>2, <1>4, <1>6
  <2> QED BY <2>1, <2>2, <2>3, <1>1, <1>6
<1>7. ASSUME NEW w \in DOMAIN written', ~written'[w].dropped
      PROVE  \E d, i, j \in Nat : Spot(d, i, j)' /\ TextAt(d, i, j)'.id = w
  <2>1. CASE w \in DOMAIN written
    <3>1. PICK d, i, j \in Nat : Spot(d, i, j) /\ TextAt(d, i, j).id = w
      BY <2>1, <1>4, <1>7 DEF TextsInv, WrittenIsKept
    <3> QED BY <3>1, <1>1
  <2>2. CASE w = id
    BY <2>2, <1>1, <1>3
  <2> QED BY <2>1, <2>2, <1>4
<1>8. ASSUME NEW d \in Nat, NEW i \in Nat, NEW j \in Nat, Spot(d, i, j)'
      PROVE  /\ TextAt(d, i, j)'.id \in DOMAIN written'
             /\ TextAt(d, i, j)'.clauses = written'[TextAt(d, i, j)'.id].clauses
  <2>1. CASE Spot(d, i, j)
    BY <2>1, <1>1, <1>4, <1>5
  <2>2. CASE d = c /\ i = n /\ j = 1
    BY <2>2, <1>1, <1>2, <1>4
  <2> QED BY <2>1, <2>2, <1>1, <1>8
<1>9. SpotsDiffer'
  BY <1>6 DEF SpotsDiffer
<1>10. WrittenIsKept'
  BY <1>7 DEF WrittenIsKept
<1>11. SpotsAreWritten'
  BY <1>8 DEF SpotsAreWritten
<1> QED BY <1>9, <1>10, <1>11 DEF TextsInv

(* A statement that is added to a UNION group was written in its block,    *)
(* since numbers only grow.                                                *)
LEMMA AddsUnions ==
  ASSUME TypesInv, ContainersInv, NumbersInv, UnionsInv, NEW k \in Class,
         NEW c \in {StatementContainer, SelectContainer}, Adds(k, c)
  PROVE  UnionsInv'
<1> DEFINE id == Len(written) + 1
           n == Len(containers[c]) + 1
           e == Statement(id, <<k>>)
<1>1. PICK f \in [DOMAIN unions -> DOMAIN blocks] : Pairs(f) /\ Within(f)
  BY DEF UnionsInv
<1>2. unions' = unions /\ blocks' = blocks
  BY DEF Adds
<1>3. c \in DOMAIN containers /\ e \in Entry /\ AddTo(c, e) /\ ~IsGroup(e) /\ c \in Live'
      /\ Live' \subseteq Live /\ DOMAIN Texts(e) = {1} /\ Texts(e)[1] = [id |-> id, clauses |-> <<k>>]
  BY AddsAre
<1> HIDE DEF e
<1>4. /\ \A d, i, j \in Nat :
           Spot(d, i, j)' <=> (d \in Live' /\ Spot(d, i, j)) \/ (d = c /\ i = n /\ j \in DOMAIN Texts(e))
      /\ \A d, i, j \in Nat : Spot(d, i, j) => TextAt(d, i, j)' = TextAt(d, i, j) /\ ~(d = c /\ i = n)
      /\ \A i, j \in Nat : i = n => TextAt(c, i, j)' = Texts(e)[j]
  BY <1>3, GrownSpots
<1>5. ASSUME NEW l \in DOMAIN unions, NEW d \in Nat, NEW i \in Nat, NEW j \in Nat,
             d = unions[l], Spot(d, i, j)'
      PROVE  TextAt(d, i, j)'.id >= blocks[f[l]].number
  <2>1. CASE Spot(d, i, j)
    <3>1. TextAt(d, i, j)' = TextAt(d, i, j) BY <2>1, <1>4
    <3> QED BY <2>1, <3>1, <1>1, <1>5 DEF Within
  <2>2. CASE d = c /\ i = n /\ j = 1
    <3>1. TextAt(d, i, j)' = [id |-> id, clauses |-> <<k>>]
      BY <2>2, <1>3, <1>4
    <3>2. f[l] \in DOMAIN blocks /\ blocks \in Seq(Block) /\ Len(written) \in Nat
      BY <1>1 DEF TypesInv
    <3>3. blocks[f[l]] \in Block
      BY <3>2
    <3>4. blocks[f[l]].number \in Nat /\ blocks[f[l]].number <= Len(written) + 1
      BY <3>2, <3>3 DEF NumbersInv, Block
    <3> QED BY <3>1, <3>2, <3>4
  <2> QED BY <2>1, <2>2, <1>3, <1>4, <1>5
<1>6. Pairs(f)' /\ Within(f)'
  BY <1>1, <1>2, <1>5 DEF Pairs, Within
<1> QED BY <1>1, <1>2, <1>6 DEF UnionsInv

(* A statement that is added is the last of the container that its fluent  *)
(* chain remembers.                                                        *)
LEMMA AddsHandles ==
  ASSUME TypesInv, ContainersInv, NEW k \in Class,
         NEW c \in {StatementContainer, SelectContainer}, Adds(k, c)
  PROVE  HandlesInv'
<1> DEFINE id == Len(written) + 1
           h == [id |-> id, clauses |-> <<k>>, home |-> c]
           e == Statement(id, <<k>>)
<1>1. handles' = {h} /\ c \in Live' /\ c \in DOMAIN containers /\ e \in Entry /\ AddTo(c, e)
  BY AddsAre
<1>2. id \in DOMAIN written'
  <2> DEFINE r == [clauses |-> <<k>>, transaction |-> OutermostTransaction, dropped |-> FALSE]
  <2>1. r \in Record /\ written' = Append(written, r)
    BY AddsAre
  <2> HIDE DEF r
  <2>2. DOMAIN written' = 1 .. id /\ id \in Nat /\ id > 0
    BY <2>1, Recorded
  <2> QED BY <2>2
<1>3. containers'[c] # <<>> /\ Last(containers'[c]) = e
  BY <1>1, Grown
<1> HIDE DEF id
<1>4. h.home = c /\ h.id = id /\ h.clauses = <<k>>
  OBVIOUS
<1> QED BY <1>1, <1>2, <1>3, <1>4 DEF HandlesInv

Safe == TypesInv /\ ContainersInv /\ HandlesInv /\ NumbersInv /\ UnionsInv /\ TextsInv /\ OrderInv

(* A statement is added. *)
LEMMA AddsKeep ==
  ASSUME Safe, NEW k \in Class, NEW c \in {StatementContainer, SelectContainer}, Adds(k, c)
  PROVE  Safe' /\ (BlocksInv => BlocksInv')
<1> USE DEF Safe
<1> DEFINE e == Statement(Len(written) + 1, <<k>>)
           r == [clauses |-> <<k>>, transaction |-> OutermostTransaction, dropped |-> FALSE]
<1>1. /\ c \in DOMAIN containers /\ (c = StatementContainer \/ c \notin Executed)
      /\ e \in Entry /\ AddTo(c, e) /\ ~IsGroup(e) /\ e.clauses # <<>> /\ e.id = Len(written) + 1
      /\ r \in Record /\ written' = Append(written, r) /\ r.transaction = OutermostTransaction
  BY AddsAre
<1>2. UNCHANGED <<group, unions, blocks>> /\ join' = 0
  BY DEF Adds
<1> HIDE DEF e, r
<1>3. TransactionBlocks' = TransactionBlocks /\ OutermostTransaction' = OutermostTransaction
  BY <1>2 DEF TransactionBlocks, OutermostTransaction
<1>4. TypesInv' /\ HandlesInv' /\ UnionsInv' /\ TextsInv'
  BY AddsTypes, AddsHandles, AddsUnions, AddsTexts
<1>5. ContainersInv'
  BY <1>1, <1>2, ContainersGrow
<1>6. NumbersInv'
  BY <1>1, <1>2, NumbersGrow
<1>7. OrderInv'
  BY <1>1, OrderGrows
<1>8. BlocksInv => BlocksInv'
  BY <1>1, <1>2, <1>3, BlocksGrow
<1> QED BY <1>4, <1>5, <1>6, <1>7, <1>8

-----------------------------------------------------------------------------
(* The end of a UNION *)

(* Front and Last of a sequence that is not empty. *)
LEMMA FrontIs ==
  ASSUME NEW S, NEW s \in Seq(S), s # <<>>
  PROVE  /\ Front(s) \in Seq(S) /\ Len(s) \in Nat /\ Len(s) > 0 /\ Len(s) \in DOMAIN s
         /\ DOMAIN s = 1 .. Len(s) /\ Len(Front(s)) = Len(s) - 1
         /\ DOMAIN Front(s) = 1 .. (Len(s) - 1)
         /\ \A i \in 1 .. (Len(s) - 1) : Front(s)[i] = s[i]
         /\ Last(s) = s[Len(s)]
<1>1. Len(s) \in Nat /\ Len(s) > 0 /\ DOMAIN s = 1 .. Len(s)
  BY EmptySeq
<1>2. Front(s) = SubSeq(s, 1, Len(s) - 1)
  BY DEF Front
<1>3. \A i \in 1 .. (Len(s) - 1) : s[i] \in S
  BY <1>1
<1>4. /\ Front(s) \in Seq(S) /\ Len(Front(s)) = Len(s) - 1
      /\ \A i \in 1 .. (Len(s) - 1) : Front(s)[i] = s[i]
  <2>1. /\ SubSeq(s, 1, Len(s) - 1) \in Seq(S)
        /\ Len(SubSeq(s, 1, Len(s) - 1)) = IF 1 <= Len(s) - 1 THEN Len(s) - 1 - 1 + 1 ELSE 0
        /\ \A i \in 1 .. Len(s) - 1 - 1 + 1 : SubSeq(s, 1, Len(s) - 1)[i] = s[1 + i - 1]
    BY <1>1, <1>3, SubSeqProperties
  <2> QED BY <1>1, <1>2, <2>1
<1>5. DOMAIN Front(s) = 1 .. (Len(s) - 1)
  BY <1>4
<1> QED BY <1>1, <1>4, <1>5 DEF Last

(* The block that ends is that of the group on top of the stack. *)
LEMMA UnionPops ==
  ASSUME TypesInv, ContainersInv, blocks # <<>>, Last(blocks).kind = "union",
         unions' = Front(unions), blocks' = Front(blocks), Executed' = Executed,
         NEW f \in [DOMAIN unions -> DOMAIN blocks], Pairs(f)
  PROVE  /\ unions # <<>> /\ Len(unions) \in DOMAIN unions /\ f[Len(unions)] = Len(blocks)
         /\ Last(unions) = unions[Len(unions)] /\ Last(unions) \in Live
         /\ Len(blocks) \in DOMAIN blocks
         /\ unions' \in Seq(Nat) /\ blocks' \in Seq(Block)
         /\ \A k \in DOMAIN unions' : k \in DOMAIN unions /\ unions'[k] = unions[k] /\ k < Len(unions)
         /\ \A k \in DOMAIN unions : k # Len(unions) => k \in DOMAIN unions'
         /\ \A b \in DOMAIN blocks' : b \in DOMAIN blocks /\ blocks'[b] = blocks[b] /\ b < Len(blocks)
         /\ \A b \in DOMAIN blocks : b # Len(blocks) => b \in DOMAIN blocks'
         /\ Live' = Live \ {Last(unions)}
         /\ \E g \in [DOMAIN unions' -> DOMAIN blocks'] :
              Pairs(g)' /\ \A k \in DOMAIN unions' : g[k] = f[k]
<1>1. /\ blocks \in Seq(Block) /\ unions \in Seq(Nat)
      /\ DOMAIN blocks = 1 .. Len(blocks) /\ DOMAIN unions = 1 .. Len(unions)
      /\ Len(blocks) \in Nat /\ Len(unions) \in Nat
  BY DEF TypesInv
<1>2. /\ Len(blocks) \in DOMAIN blocks /\ blocks[Len(blocks)].kind = "union"
      /\ blocks' \in Seq(Block) /\ DOMAIN blocks' = 1 .. (Len(blocks) - 1)
      /\ \A b \in 1 .. (Len(blocks) - 1) : blocks'[b] = blocks[b]
  BY <1>1, FrontIs
<1>3. PICK k \in DOMAIN unions : f[k] = Len(blocks)
  BY <1>2 DEF Pairs
<1>4. unions # <<>>
  BY <1>3, <1>1
<1>5. /\ unions' \in Seq(Nat) /\ DOMAIN unions' = 1 .. (Len(unions) - 1)
      /\ \A l \in 1 .. (Len(unions) - 1) : unions'[l] = unions[l]
      /\ Len(unions) \in DOMAIN unions /\ Last(unions) = unions[Len(unions)]
  BY <1>1, <1>4, FrontIs
<1>6. k = Len(unions)
  <2>1. SUFFICES ASSUME k # Len(unions) PROVE FALSE OBVIOUS
  <2>2. k < Len(unions) BY <2>1, <1>1
  <2>3. f[k] < f[Len(unions)] BY <2>2, <1>5 DEF Pairs
  <2>4. f[Len(unions)] \in 1 .. Len(blocks) BY <1>5, <1>1
  <2> QED BY <2>3, <2>4, <1>3, <1>1
<1>7. /\ \A l \in DOMAIN unions' : l \in DOMAIN unions /\ unions'[l] = unions[l] /\ l < Len(unions)
      /\ \A l \in DOMAIN unions : l # Len(unions) => l \in DOMAIN unions'
      /\ \A b \in DOMAIN blocks' : b \in DOMAIN blocks /\ blocks'[b] = blocks[b] /\ b < Len(blocks)
      /\ \A b \in DOMAIN blocks : b # Len(blocks) => b \in DOMAIN blocks'
  <2>1. ASSUME NEW n \in Nat
        PROVE  /\ \A i \in 1 .. (n - 1) : i \in 1 .. n /\ i < n
               /\ \A i \in 1 .. n : i # n => i \in 1 .. (n - 1)
    OBVIOUS
  <2> QED BY <2>1, <1>1, <1>2, <1>5
<1>8. Live' = Live \ {Last(unions)}
  <2>1. Last(unions) \notin Executed
    BY <1>5 DEF ContainersInv
  <2>2. \A l \in DOMAIN unions : l # Len(unions) => unions[l] # Last(unions)
    BY <1>5 DEF ContainersInv
  <2> QED BY <2>1, <2>2, <1>5, <1>7 DEF Live
<1>9. Last(unions) \in Live
  BY <1>5 DEF Live
<1>10. PICK g : g = [l \in DOMAIN unions' |-> f[l]]
  OBVIOUS
<1>13. \A l \in DOMAIN unions' : g[l] = f[l] /\ g[l] \in DOMAIN blocks'
  <2>1. SUFFICES ASSUME NEW l \in DOMAIN unions' PROVE f[l] \in DOMAIN blocks'
    BY <1>10
  <2>2. f[l] < f[Len(unions)] /\ f[l] \in 1 .. Len(blocks)
    BY <1>1, <1>5, <1>7 DEF Pairs
  <2> QED BY <2>2, <1>1, <1>2, <1>3, <1>6
<1>11. g \in [DOMAIN unions' -> DOMAIN blocks']
  BY <1>10, <1>13
<1>12. Pairs(g)'
  <2>1. ASSUME NEW l \in DOMAIN unions' PROVE blocks'[g[l]].kind = "union"
    BY <1>7, <1>13 DEF Pairs
  <2>2. ASSUME NEW l \in DOMAIN unions', NEW m \in DOMAIN unions', l < m PROVE g[l] < g[m]
    BY <2>2, <1>7, <1>13 DEF Pairs
  <2>3. ASSUME NEW b \in DOMAIN blocks', blocks'[b].kind = "union"
        PROVE  \E l \in DOMAIN unions' : g[l] = b
    <3>1. PICK l \in DOMAIN unions : f[l] = b
      BY <2>3, <1>7 DEF Pairs
    <3>2. l # Len(unions)
      BY <3>1, <1>3, <1>6, <1>7, <1>1
    <3> QED BY <3>1, <3>2, <1>7, <1>13
  <2> QED BY <2>1, <2>2, <2>3 DEF Pairs
<1> QED BY <1>2, <1>3, <1>4, <1>5, <1>6, <1>7, <1>8, <1>9, <1>11, <1>12, <1>13

(* The texts of a UNION: its own, and those of its SELECTs in their order. *)
UnionOf(id, selects) ==
  [Statement(id, <<"final">>) EXCEPT
     !.members = FlattenSeq([i \in DOMAIN selects |-> Texts(selects[i])])]

Assembled(e, selects, row, col) ==
  /\ \A j \in DOMAIN Texts(e) : j # 1 =>
       /\ row[j] \in DOMAIN selects /\ col[j] \in DOMAIN Texts(selects[row[j]])
       /\ Texts(e)[j] = Texts(selects[row[j]])[col[j]]
  /\ \A i \in DOMAIN selects : \A m \in DOMAIN Texts(selects[i]) :
       \E j \in DOMAIN Texts(e) : j # 1 /\ row[j] = i /\ col[j] = m
  /\ \A j, m \in DOMAIN Texts(e) :
       j # 1 /\ m # 1 /\ row[j] = row[m] /\ col[j] = col[m] => j = m

(* The texts of a UNION are its own and each text of each SELECT of its    *)
(* group, once.                                                            *)
LEMMA UnionTexts ==
  ASSUME NEW id \in Nat, NEW selects \in Seq(Entry),
         \A i \in DOMAIN selects : selects[i].clauses # <<>>
  PROVE  LET e == UnionOf(id, selects)
         IN  /\ e \in Entry /\ ~IsGroup(e) /\ e.clauses # <<>> /\ e.id = id
             /\ 1 \in DOMAIN Texts(e) /\ DOMAIN Texts(e) \subseteq Nat
             /\ Texts(e)[1] = [id |-> id, clauses |-> <<"final">>]
             /\ \E row, col : Assembled(e, selects, row, col)
<1> DEFINE tx == [i \in DOMAIN selects |-> Texts(selects[i])]
           ms == FlattenSeq(tx)
           e == UnionOf(id, selects)
<1>1. DOMAIN selects = 1 .. Len(selects) /\ Len(selects) \in Nat /\ \A i \in DOMAIN selects : selects[i] \in Entry
  OBVIOUS
<1>2. \A i \in DOMAIN selects : Texts(selects[i]) \in Seq(Text)
  BY <1>1, TextsAre
<1>3. tx \in Seq(Seq(Text)) /\ Len(tx) = Len(selects) /\ \A i \in DOMAIN selects : tx[i] = Texts(selects[i])
  BY <1>1, <1>2
<1> HIDE DEF tx
<1>4. ms \in Seq(Text) /\ \E row, col : Joins(ms, tx, Len(tx), row, col)
  BY <1>3, Flattened
<1>5. e = [id |-> id, clauses |-> <<"final">>, members |-> ms, group |-> 0]
  BY DEF UnionOf, Statement, tx
<1> HIDE DEF ms, e
<1>6. e \in Entry /\ e.clauses # <<>> /\ e.id = id /\ e.members = ms /\ ~IsGroup(e) /\ e.clauses = <<"final">>
  BY <1>4, <1>5, ClassIs DEF Entry, IsGroup
<1>7. /\ DOMAIN Texts(e) = 1 .. (Len(ms) + 1) /\ Len(ms) \in Nat
      /\ Texts(e)[1] = [id |-> id, clauses |-> <<"final">>]
      /\ \A j \in DOMAIN Texts(e) : j # 1 => Texts(e)[j] = ms[j - 1]
  <2>1. /\ DOMAIN Texts(e) = 1 .. Len(Texts(e)) /\ Len(Texts(e)) = Len(e.members) + 1
        /\ Len(e.members) \in Nat /\ Texts(e)[1] = [id |-> e.id, clauses |-> e.clauses]
        /\ \A j \in DOMAIN Texts(e) : j # 1 => Texts(e)[j] = e.members[j - 1]
    BY <1>6, TextsAre
  <2> QED BY <2>1, <1>6
<1>8. PICK row, col : Joins(ms, tx, Len(tx), row, col)
  BY <1>4
<1>9. /\ \A p \in 1 .. Len(ms) :
           /\ row[p] \in DOMAIN selects /\ col[p] \in DOMAIN Texts(selects[row[p]])
           /\ ms[p] = Texts(selects[row[p]])[col[p]]
      /\ \A i \in DOMAIN selects : \A m \in DOMAIN Texts(selects[i]) :
           \E p \in 1 .. Len(ms) : row[p] = i /\ col[p] = m
      /\ \A p, q \in 1 .. Len(ms) : p < q => row[p] < row[q] \/ (row[p] = row[q] /\ col[p] < col[q])
  <2>1. \A i \in DOMAIN selects : DOMAIN Texts(selects[i]) = 1 .. Len(tx[i])
    BY <1>2, <1>3
  <2>2. /\ \A p \in 1 .. Len(ms) : /\ row[p] \in DOMAIN selects /\ col[p] \in 1 .. Len(tx[row[p]])
                                    /\ ms[p] = tx[row[p]][col[p]]
        /\ \A i \in DOMAIN selects : \A m \in 1 .. Len(tx[i]) :
             \E p \in 1 .. Len(ms) : row[p] = i /\ col[p] = m
        /\ \A p, q \in 1 .. Len(ms) : p < q => row[p] < row[q] \/ (row[p] = row[q] /\ col[p] < col[q])
    BY <1>1, <1>3, <1>8 DEF Joins
  <2>3. ASSUME NEW p \in 1 .. Len(ms)
        PROVE  /\ row[p] \in DOMAIN selects /\ col[p] \in DOMAIN Texts(selects[row[p]])
               /\ ms[p] = Texts(selects[row[p]])[col[p]]
    BY <2>1, <2>2, <1>3
  <2>4. ASSUME NEW i \in DOMAIN selects, NEW m \in DOMAIN Texts(selects[i])
        PROVE  \E p \in 1 .. Len(ms) : row[p] = i /\ col[p] = m
    <3>1. m \in 1 .. Len(tx[i])
      BY <2>1
    <3> QED BY <2>2, <3>1
  <2> QED BY <2>2, <2>3, <2>4
<1> DEFINE row2 == [j \in 1 .. (Len(ms) + 1) |-> row[j - 1]]
           col2 == [j \in 1 .. (Len(ms) + 1) |-> col[j - 1]]
<1>10. \A j \in 1 .. (Len(ms) + 1) : row2[j] = row[j - 1] /\ col2[j] = col[j - 1]
  OBVIOUS
<1> HIDE DEF row2, col2
<1>11. ASSUME NEW j \in DOMAIN Texts(e), j # 1
       PROVE  /\ row2[j] \in DOMAIN selects /\ col2[j] \in DOMAIN Texts(selects[row2[j]])
              /\ Texts(e)[j] = Texts(selects[row2[j]])[col2[j]]
  <2>1. j - 1 \in 1 .. Len(ms) /\ j \in 1 .. (Len(ms) + 1) BY <1>7, <1>11
  <2>2. row2[j] = row[j - 1] /\ col2[j] = col[j - 1] /\ Texts(e)[j] = ms[j - 1]
    BY <2>1, <1>7, <1>10, <1>11
  <2> QED BY <2>1, <2>2, <1>9
<1>12. ASSUME NEW i \in DOMAIN selects, NEW m \in DOMAIN Texts(selects[i])
       PROVE  \E j \in DOMAIN Texts(e) : j # 1 /\ row2[j] = i /\ col2[j] = m
  <2>1. PICK p \in 1 .. Len(ms) : row[p] = i /\ col[p] = m BY <1>9
  <2>2. p + 1 \in DOMAIN Texts(e) /\ p + 1 # 1 /\ (p + 1) - 1 = p BY <1>7
  <2> QED BY <2>1, <2>2, <1>7, <1>10
<1>13. ASSUME NEW j \in DOMAIN Texts(e), NEW m \in DOMAIN Texts(e), j # 1, m # 1,
              row2[j] = row2[m], col2[j] = col2[m]
       PROVE  j = m
  <2>1. j - 1 \in 1 .. Len(ms) /\ m - 1 \in 1 .. Len(ms) BY <1>7, <1>13
  <2>2. row[j - 1] = row[m - 1] /\ col[j - 1] = col[m - 1] BY <1>7, <1>10, <1>13
  <2>3. row[j - 1] \in Nat /\ col[j - 1] \in Nat
    <3>1. row[j - 1] \in DOMAIN selects /\ col[j - 1] \in DOMAIN Texts(selects[row[j - 1]])
      BY <2>1, <1>9
    <3>2. DOMAIN Texts(selects[row[j - 1]]) \subseteq Nat
      BY <3>1, <1>2
    <3> QED BY <3>1, <3>2, <1>1
  <2>4. ASSUME NEW p \in 1 .. Len(ms), NEW q \in 1 .. Len(ms), p < q,
               row[p] = row[q], col[p] = col[q], row[q] \in Nat, col[q] \in Nat
        PROVE  FALSE
    <3>1. row[p] < row[q] \/ (row[p] = row[q] /\ col[p] < col[q])
      BY <2>4, <1>9
    <3>2. ~ row[p] < row[q] /\ ~ col[p] < col[q]
      BY <2>4
    <3> QED BY <3>1, <3>2
  <2>5. ~ j - 1 < m - 1
    BY <2>1, <2>2, <2>3, <2>4
  <2>6. ~ m - 1 < j - 1
    BY <2>1, <2>2, <2>3, <2>4
  <2> QED BY <2>1, <2>5, <2>6, <1>7
<1>14. 1 \in DOMAIN Texts(e) /\ DOMAIN Texts(e) \subseteq Nat
  BY <1>7
<1>15. Assembled(e, selects, row2, col2)
  BY <1>11, <1>12, <1>13 DEF Assembled
<1> QED BY <1>6, <1>7, <1>14, <1>15 DEF e

(* Numbers up to n, and those before n. *)
LEMMA Ranges ==
  ASSUME NEW n \in Nat
  PROVE  /\ \A i \in 1 .. (n - 1) : i \in 1 .. n /\ i < n
         /\ \A i \in 1 .. n : i # n => i \in 1 .. (n - 1)
OBVIOUS

(* The transaction blocks stay when a UNION block ends. *)
LEMMA UnionIsNoTransaction ==
  ASSUME TypesInv, blocks # <<>>, Last(blocks).kind = "union", blocks' = Front(blocks)
  PROVE  TransactionBlocks' = TransactionBlocks /\ OutermostTransaction' = OutermostTransaction
<1>1. /\ Len(blocks) \in Nat /\ DOMAIN blocks = 1 .. Len(blocks)
      /\ blocks[Len(blocks)].kind = "union" /\ DOMAIN blocks' = 1 .. (Len(blocks) - 1)
      /\ \A b \in 1 .. (Len(blocks) - 1) : blocks'[b] = blocks[b]
  BY FrontIs DEF TypesInv
<1>2. \A b \in 1 .. Len(blocks) : b # Len(blocks) => b \in 1 .. (Len(blocks) - 1)
  BY <1>1, Ranges
<1>3. \A b \in 1 .. (Len(blocks) - 1) : b \in 1 .. Len(blocks)
  BY <1>1, Ranges
<1>4. TransactionBlocks' = TransactionBlocks
  BY <1>1, <1>2, <1>3 DEF TransactionBlocks
<1>5. \A b \in TransactionBlocks : blocks'[b] = blocks[b]
  BY <1>1, <1>2 DEF TransactionBlocks
<1>6. CASE TransactionBlocks = {}
  BY <1>4, <1>6 DEF OutermostTransaction
<1>7. CASE TransactionBlocks # {}
  <2> DEFINE first == CHOOSE b \in TransactionBlocks : \A d \in TransactionBlocks : b <= d
  <2>5. TransactionBlocks \subseteq Nat
    BY <1>1 DEF TransactionBlocks
  <2>1. first \in TransactionBlocks
    BY <2>5, <1>7, NatMin
  <2>2. OutermostTransaction = blocks[first].number
    BY <1>7 DEF OutermostTransaction
  <2>3. OutermostTransaction' = blocks'[CHOOSE b \in TransactionBlocks' : \A d \in TransactionBlocks' : b <= d].number
    BY <1>4, <1>7 DEF OutermostTransaction
  <2>4. OutermostTransaction' = blocks'[first].number
    BY <2>3, <1>4
  <2> QED BY <1>4, <1>5, <2>1, <2>2, <2>4
<1> QED BY <1>4, <1>6, <1>7

(* What the end of a UNION adds, and where. *)
LEMMA EndUnionIs ==
  ASSUME TypesInv, ContainersInv, UnionsInv, EndUnion
  PROVE  LET u == Last(unions)
             id == Len(written) + 1
             e == UnionOf(id, containers[u])
             outer == IF Len(unions) > 1 THEN unions[Len(unions) - 1] ELSE StatementContainer
             r == [clauses |-> <<"final">>, transaction |-> OutermostTransaction, dropped |-> FALSE]
         IN  /\ u \in Live /\ u \in DOMAIN containers /\ u \notin Executed
             /\ containers[u] \in Seq(Entry)
             /\ \A i \in DOMAIN containers[u] : /\ containers[u][i].clauses # <<>>
                                                /\ ~IsGroup(containers[u][i])
             /\ outer \in DOMAIN containers /\ outer \in Live' /\ outer \in Nat
             /\ outer = StatementContainer \/ outer \notin Executed
             /\ id \in Nat /\ AddTo(outer, e)
             /\ e \in Entry /\ ~IsGroup(e) /\ e.clauses # <<>> /\ e.id = id
             /\ r \in Record /\ written' = Append(written, r)
             /\ Executed' = Executed /\ Live' = Live \ {u}
             /\ blocks # <<>> /\ Last(blocks).kind = "union"
             /\ unions' = Front(unions) /\ blocks' = Front(blocks)
             /\ group' = group /\ join' = 0 /\ handles' = {} /\ stage = "building" /\ stage' = "building"
<1> DEFINE u == Last(unions)
           id == Len(written) + 1
           e == UnionOf(id, containers[u])
           outer == IF Len(unions) > 1 THEN unions[Len(unions) - 1] ELSE StatementContainer
           r == [clauses |-> <<"final">>, transaction |-> OutermostTransaction, dropped |-> FALSE]
<1>1. /\ blocks # <<>> /\ Last(blocks).kind = "union" /\ stage = "building" /\ join = 0
      /\ AddTo(outer, e) /\ written' = Append(written, r)
      /\ unions' = Front(unions) /\ blocks' = Front(blocks)
      /\ group' = group /\ join' = join /\ handles' = {} /\ stage' = stage
  BY DEF EndUnion, InnermostIs, MayWrite, Building, Forget, UnionOf
<1>2. PICK f \in [DOMAIN unions -> DOMAIN blocks] : Pairs(f)
  BY DEF UnionsInv
<1>3. unions # <<>>
  <2>1. Len(blocks) \in DOMAIN blocks /\ blocks[Len(blocks)].kind = "union"
    BY <1>1, FrontIs DEF TypesInv
  <2>2. \E k \in DOMAIN unions : f[k] = Len(blocks)
    BY <1>2, <2>1 DEF Pairs
  <2> QED BY <2>2
<1>4. /\ Len(unions) \in DOMAIN unions /\ DOMAIN unions = 1 .. Len(unions) /\ Len(unions) \in Nat
      /\ u = unions[Len(unions)] /\ unions \in Seq(Nat)
  BY <1>3, FrontIs DEF TypesInv
<1>5. u \in DOMAIN containers /\ u \in Live /\ u \notin Executed
  BY <1>4 DEF ContainersInv, Live
<1>6. /\ containers[u] \in Seq(Entry)
      /\ \A i \in DOMAIN containers[u] : containers[u][i].clauses # <<>> /\ ~IsGroup(containers[u][i])
  <2>1. u # Engine BY <1>5 DEF Executed
  <2> QED BY <2>1, <1>5 DEF TypesInv, ContainersInv
<1>7. id \in Nat /\ r \in Record
  <2>1. <<"final">> \in Clauses BY ClassIs DEF Clauses
  <2> QED BY <2>1, OutermostIs DEF TypesInv, Record
<1>8. e \in Entry /\ ~IsGroup(e) /\ e.clauses # <<>> /\ e.id = id
  <2> HIDE DEF id, u
  <2> QED BY <1>6, <1>7, UnionTexts
<1>9. /\ outer \in DOMAIN containers /\ outer \in Nat /\ outer # u /\ outer \in Live
      /\ outer = StatementContainer \/ outer \notin Executed
  <2>1. CASE Len(unions) > 1
    <3>1. ASSUME NEW n \in Nat, n > 1 PROVE n - 1 \in 1 .. n /\ n - 1 # n
      BY <3>1
    <3>2. outer = unions[Len(unions) - 1]
      BY <2>1
    <3>3. PICK k \in DOMAIN unions : outer = unions[k] /\ k # Len(unions)
      BY <3>1, <3>2, <2>1, <1>4
    <3>4. outer \in DOMAIN containers /\ outer \notin Executed /\ outer # u
      BY <3>3, <1>4 DEF ContainersInv
    <3>5. outer \in Live
      BY <3>3 DEF Live
    <3> HIDE DEF outer
    <3> QED BY <3>4, <3>5, EngineIs
  <2>2. CASE ~ Len(unions) > 1
    <3>1. outer = StatementContainer
      BY <2>2
    <3> QED BY <3>1, TargetsAre, EngineIs, <1>5
  <2> QED BY <2>1, <2>2
<1>10. Executed' = Executed
  <2> HIDE DEF e, outer
  <2> QED BY <1>1, <1>8, <1>9, GrownGroups
<1>11. Live' = Live \ {u}
  BY <1>1, <1>2, <1>10, UnionPops
<1> QED BY <1>1, <1>5, <1>6, <1>7, <1>8, <1>9, <1>10, <1>11

(* Every spot after the end of a UNION is the UNION's own, or that of an   *)
(* old text.                                                               *)
FromOld(e, outer, n, row, col, d, i, j) ==
  LET u == Last(unions)
  IN  \/ d # u /\ Spot(d, i, j) /\ TextAt(d, i, j)' = TextAt(d, i, j) /\ ~(d = outer /\ i = n)
      \/ d = outer /\ i = n /\ j = 1 /\ TextAt(d, i, j)' = Texts(e)[1]
      \/ /\ d = outer /\ i = n /\ j # 1 /\ j \in DOMAIN Texts(e)
         /\ row[j] \in Nat /\ col[j] \in Nat
         /\ Spot(u, row[j], col[j]) /\ TextAt(d, i, j)' = TextAt(u, row[j], col[j])

(* The end of a UNION moves every text of its group to a place behind the  *)
(* UNION's own, and leaves the others.                                     *)
LEMMA EndUnionSpots ==
  ASSUME TypesInv, ContainersInv, UnionsInv, EndUnion
  PROVE  LET u == Last(unions)
             id == Len(written) + 1
             e == UnionOf(id, containers[u])
             outer == IF Len(unions) > 1 THEN unions[Len(unions) - 1] ELSE StatementContainer
             n == Len(containers[outer]) + 1
         IN  /\ n \in Nat /\ outer \in Nat /\ outer # u /\ 1 \in DOMAIN Texts(e)
             /\ Texts(e)[1] = [id |-> id, clauses |-> <<"final">>]
             /\ \A d, i, j \in Nat :
                  Spot(d, i, j)' <=> \/ d # u /\ Spot(d, i, j)
                                     \/ d = outer /\ i = n /\ j \in DOMAIN Texts(e)
             /\ \A d, i, j \in Nat : Spot(d, i, j) => ~(d = outer /\ i = n)
             /\ DOMAIN Texts(e) \subseteq Nat
             /\ \E row, col : /\ Assembled(e, containers[u], row, col)
                              /\ \A d, i, j \in Nat : Spot(d, i, j)' => FromOld(e, outer, n, row, col, d, i, j)
<1> DEFINE u == Last(unions)
           id == Len(written) + 1
           e == UnionOf(id, containers[u])
           outer == IF Len(unions) > 1 THEN unions[Len(unions) - 1] ELSE StatementContainer
           n == Len(containers[outer]) + 1
<1>1. /\ u \in Live /\ u \in DOMAIN containers
      /\ containers[u] \in Seq(Entry)
      /\ \A i \in DOMAIN containers[u] : containers[u][i].clauses # <<>> /\ ~IsGroup(containers[u][i])
      /\ outer \in DOMAIN containers /\ outer \in Live' /\ outer \in Nat
      /\ id \in Nat /\ AddTo(outer, e)
      /\ e \in Entry /\ ~IsGroup(e) /\ e.clauses # <<>> /\ e.id = id
      /\ Live' = Live \ {u} /\ u \in Nat
  BY EndUnionIs, EngineIs
<1>2. /\ 1 \in DOMAIN Texts(e) /\ DOMAIN Texts(e) \subseteq Nat
      /\ Texts(e)[1] = [id |-> id, clauses |-> <<"final">>]
      /\ \E row, col : Assembled(e, containers[u], row, col)
  <2> HIDE DEF u, id
  <2> QED BY <1>1, UnionTexts
<1>3. PICK row, col : Assembled(e, containers[u], row, col)
  BY <1>2
<1> HIDE DEF e, outer, id
<1>9. Live' \subseteq Live
  BY <1>1
<1>4. ASSUME NEW c \in Nat, c = outer
      PROVE  /\ \A d, i, j \in Nat :
                  Spot(d, i, j)' <=> \/ d \in Live' /\ Spot(d, i, j)
                                     \/ d = c /\ i = n /\ j \in DOMAIN Texts(e)
             /\ \A d, i, j \in Nat : Spot(d, i, j) => TextAt(d, i, j)' = TextAt(d, i, j) /\ ~(d = c /\ i = n)
             /\ \A i, j \in Nat : i = n => TextAt(c, i, j)' = Texts(e)[j]
  BY <1>1, <1>4, <1>9, GrownSpots
<1>5. n \in Nat
  BY <1>1, Grown
<1> HIDE DEF n, u
<1>6. \A d, i, j \in Nat :
        Spot(d, i, j)' <=> \/ d # u /\ Spot(d, i, j)
                           \/ d = outer /\ i = n /\ j \in DOMAIN Texts(e)
  <2>1. \A d, i, j \in Nat : Spot(d, i, j) => d \in Live
    BY DEF Spot
  <2> QED BY <2>1, <1>1, <1>4
<1>7. ASSUME NEW d \in Nat, NEW i \in Nat, NEW j \in Nat, Spot(d, i, j)'
      PROVE  FromOld(e, outer, n, row, col, d, i, j)
  <2>1. CASE d # u /\ Spot(d, i, j)
    <3>1. TextAt(d, i, j)' = TextAt(d, i, j) /\ ~(d = outer /\ i = n)
      BY <2>1, <1>1, <1>4
    <3> QED BY <2>1, <3>1 DEF FromOld, u
  <2>2. CASE d = outer /\ i = n /\ j = 1
    BY <2>2, <1>4 DEF FromOld
  <2>3. CASE d = outer /\ i = n /\ j # 1 /\ j \in DOMAIN Texts(e)
    <3>1. /\ row[j] \in DOMAIN containers[u] /\ col[j] \in DOMAIN Texts(containers[u][row[j]])
          /\ Texts(e)[j] = Texts(containers[u][row[j]])[col[j]]
      BY <2>3, <1>3 DEF Assembled
    <3>2. row[j] \in Nat /\ containers[u][row[j]] \in Entry /\ containers[u][row[j]].clauses # <<>>
      BY <3>1, <1>1
    <3>3. col[j] \in Nat
      <4>1. DOMAIN Texts(containers[u][row[j]]) = 1 .. Len(Texts(containers[u][row[j]]))
        BY <3>2, TextsAre
      <4> QED BY <4>1, <3>1
    <3>4. Spot(u, row[j], col[j]) /\ TextAt(u, row[j], col[j]) = Texts(e)[j]
      BY <3>1, <1>1 DEF Spot, TextAt
    <3>5. TextAt(d, i, j)' = TextAt(u, row[j], col[j])
      BY <3>4, <1>4, <2>3
    <3> QED BY <2>3, <3>2, <3>3, <3>4, <3>5 DEF FromOld, u
  <2> QED BY <2>1, <2>2, <2>3, <1>6, <1>7
<1>8. outer # u
  BY <1>1
<1>10. \A d, i, j \in Nat : Spot(d, i, j) => ~(d = outer /\ i = n)
  BY <1>1, <1>4
<1> QED BY <1>1, <1>2, <1>3, <1>5, <1>6, <1>7, <1>8, <1>10 DEF e, outer, id, n, u

(* So texts stay what was written, each in one place. *)
LEMMA EndUnionTexts ==
  ASSUME TypesInv, ContainersInv, UnionsInv, TextsInv, EndUnion
  PROVE  TextsInv'
<1> DEFINE u == Last(unions)
           id == Len(written) + 1
           e == UnionOf(id, containers[u])
           outer == IF Len(unions) > 1 THEN unions[Len(unions) - 1] ELSE StatementContainer
           n == Len(containers[outer]) + 1
           r == [clauses |-> <<"final">>, transaction |-> OutermostTransaction, dropped |-> FALSE]
<1>1. /\ n \in Nat /\ outer \in Nat /\ outer # u /\ 1 \in DOMAIN Texts(e)
      /\ Texts(e)[1] = [id |-> id, clauses |-> <<"final">>]
      /\ \A d, i, j \in Nat :
           Spot(d, i, j)' <=> \/ d # u /\ Spot(d, i, j)
                              \/ d = outer /\ i = n /\ j \in DOMAIN Texts(e)
      /\ \A d, i, j \in Nat : Spot(d, i, j) => ~(d = outer /\ i = n)
      /\ DOMAIN Texts(e) \subseteq Nat
  BY EndUnionSpots
<1>2. PICK row, col : /\ Assembled(e, containers[u], row, col)
                      /\ \A d, i, j \in Nat : Spot(d, i, j)' => FromOld(e, outer, n, row, col, d, i, j)
  BY EndUnionSpots
<1>3. r \in Record /\ written' = Append(written, r)
  BY EndUnionIs
<1>15. containers[u] \in Seq(Entry)
       /\ \A i \in DOMAIN containers[u] : containers[u][i].clauses # <<>> /\ ~IsGroup(containers[u][i])
       /\ u \in Live
  BY EndUnionIs
<1>16. u \in Nat
  BY EndUnionIs, EngineIs
<1>4. /\ DOMAIN written' = 1 .. id /\ DOMAIN written = 1 .. (id - 1) /\ id \in Nat /\ id > 0
      /\ written'[id] = r /\ r.clauses = <<"final">>
      /\ \A w \in 1 .. (id - 1) : written'[w] = written[w]
  BY <1>3, Recorded
<1> HIDE DEF n, id, e, outer, r
<1>5. id \notin DOMAIN written /\ (\A w \in DOMAIN written' : w = id \/ w \in DOMAIN written)
      /\ DOMAIN written \subseteq DOMAIN written' /\ id \in DOMAIN written'
      /\ \A w \in DOMAIN written : written'[w] = written[w]
  BY <1>4
<1>6. \A d, i, j \in Nat : Spot(d, i, j) => TextAt(d, i, j).id \in DOMAIN written
                                            /\ TextAt(d, i, j).clauses = written[TextAt(d, i, j).id].clauses
  BY DEF TextsInv, SpotsAreWritten
<1>7. \A c, i, j, d, m, o \in Nat :
        Spot(c, i, j) /\ Spot(d, m, o) /\ TextAt(c, i, j).id = TextAt(d, m, o).id => c = d /\ i = m /\ j = o
  BY DEF TextsInv, SpotsDiffer
<1> DEFINE Old(d, i, j) == d # u /\ Spot(d, i, j) /\ TextAt(d, i, j)' = TextAt(d, i, j) /\ ~(d = outer /\ i = n)
           Own(d, i, j) == d = outer /\ i = n /\ j = 1 /\ TextAt(d, i, j)' = [id |-> id, clauses |-> <<"final">>]
           Part(d, i, j) == /\ d = outer /\ i = n /\ j # 1 /\ j \in DOMAIN Texts(e)
                            /\ row[j] \in Nat /\ col[j] \in Nat
                            /\ Spot(u, row[j], col[j]) /\ TextAt(d, i, j)' = TextAt(u, row[j], col[j])
<1>8. \A d, i, j \in Nat : Spot(d, i, j)' => Old(d, i, j) \/ Own(d, i, j) \/ Part(d, i, j)
  BY <1>1, <1>2 DEF FromOld
<1> HIDE DEF u
<1>9. ASSUME NEW d \in Nat, NEW i \in Nat, NEW j \in Nat, Spot(d, i, j)',
             NEW f \in Nat, NEW m \in Nat, NEW o \in Nat, Spot(f, m, o)',
             TextAt(d, i, j)'.id = TextAt(f, m, o)'.id
      PROVE  d = f /\ i = m /\ j = o
  <2>1. Old(d, i, j) \/ Own(d, i, j) \/ Part(d, i, j)
    BY <1>8, <1>9
  <2>2. Old(f, m, o) \/ Own(f, m, o) \/ Part(f, m, o)
    BY <1>8, <1>9
  <2>3. CASE Old(d, i, j) /\ Old(f, m, o)
    BY <2>3, <1>7, <1>9
  <2>4. CASE Old(d, i, j) /\ Own(f, m, o)
    BY <2>4, <1>5, <1>6, <1>9
  <2>5. CASE Own(d, i, j) /\ Old(f, m, o)
    BY <2>5, <1>5, <1>6, <1>9
  <2>6. CASE Old(d, i, j) /\ Part(f, m, o)
    BY <2>6, <1>7, <1>9, <1>16
  <2>7. CASE Part(d, i, j) /\ Old(f, m, o)
    BY <2>7, <1>7, <1>9, <1>16
  <2>8. CASE Own(d, i, j) /\ Own(f, m, o)
    BY <2>8
  <2>9. CASE Own(d, i, j) /\ Part(f, m, o)
    BY <2>9, <1>5, <1>6, <1>9, <1>16
  <2>10. CASE Part(d, i, j) /\ Own(f, m, o)
    BY <2>10, <1>5, <1>6, <1>9, <1>16
  <2>11. CASE Part(d, i, j) /\ Part(f, m, o)
    <3>1. row[j] = row[o] /\ col[j] = col[o]
      BY <2>11, <1>7, <1>9, <1>16
    <3> QED BY <2>11, <3>1, <1>2 DEF Assembled
  <2> QED BY <2>1, <2>2, <2>3, <2>4, <2>5, <2>6, <2>7, <2>8, <2>9, <2>10, <2>11
<1>10. ASSUME NEW w \in DOMAIN written', ~written'[w].dropped
       PROVE  \E d, i, j \in Nat : Spot(d, i, j)' /\ TextAt(d, i, j)'.id = w
  <2>1. CASE w = id
    <3>1. PICK d, i \in Nat : d = outer /\ i = n
      BY <1>1
    <3>2. Spot(d, i, 1)' /\ ~Part(d, i, 1)
      BY <3>1, <1>1
    <3>3. ~Old(d, i, 1)
      BY <3>1
    <3> QED BY <2>1, <3>2, <3>3, <1>8
  <2>2. CASE w \in DOMAIN written
    <3>1. PICK d, i, j \in Nat : Spot(d, i, j) /\ TextAt(d, i, j).id = w
      BY <2>2, <1>5, <1>10 DEF TextsInv, WrittenIsKept
    <3>2. CASE d # u
      <4>1. Spot(d, i, j)' /\ ~(d = outer /\ i = n)
        BY <3>1, <3>2, <1>1
      <4>2. Old(d, i, j)
        BY <4>1, <1>8
      <4> QED BY <3>1, <4>1, <4>2
    <3>3. CASE d = u
      <4>1. /\ i \in DOMAIN containers[u] /\ j \in DOMAIN Texts(containers[u][i])
            /\ TextAt(u, i, j) = TextAt(d, i, j)
        BY <3>1, <3>3 DEF Spot
      <4>2. PICK o \in DOMAIN Texts(e) : o # 1 /\ row[o] = i /\ col[o] = j
        BY <4>1, <1>2 DEF Assembled
      <4>3. PICK c, m \in Nat : c = outer /\ m = n
        BY <1>1
      <4>4. Spot(c, m, o)' /\ o \in Nat
        BY <4>2, <4>3, <1>1
      <4>5. ~Old(c, m, o) /\ ~Own(c, m, o)
        BY <4>2, <4>3
      <4>6. Part(c, m, o)
        BY <4>4, <4>5, <1>8
      <4> QED BY <3>1, <4>1, <4>2, <4>4, <4>6
    <3> QED BY <3>2, <3>3
  <2> QED BY <2>1, <2>2, <1>5
<1>11. ASSUME NEW d \in Nat, NEW i \in Nat, NEW j \in Nat, Spot(d, i, j)'
       PROVE  /\ TextAt(d, i, j)'.id \in DOMAIN written'
              /\ TextAt(d, i, j)'.clauses = written'[TextAt(d, i, j)'.id].clauses
  <2>1. CASE Old(d, i, j)
    BY <2>1, <1>5, <1>6
  <2>2. CASE Own(d, i, j)
    BY <2>2, <1>4, <1>5
  <2>3. CASE Part(d, i, j)
    BY <2>3, <1>5, <1>6, <1>16
  <2> QED BY <2>1, <2>2, <2>3, <1>8, <1>11
<1>12. SpotsDiffer'
  BY <1>9 DEF SpotsDiffer
<1>13. WrittenIsKept'
  BY <1>10 DEF WrittenIsKept
<1>14. SpotsAreWritten'
  BY <1>11 DEF SpotsAreWritten
<1> QED BY <1>12, <1>13, <1>14 DEF TextsInv

(* What a place holds is a text of a statement. *)
LEMMA SpotIs ==
  ASSUME TypesInv, ContainersInv, NEW c, NEW i, NEW j, Spot(c, i, j)
  PROVE  /\ containers[c][i] \in Entry /\ containers[c][i].clauses # <<>>
         /\ TextAt(c, i, j) \in Text /\ TextAt(c, i, j).id \in Nat
         /\ c \in Nat /\ i \in Nat /\ j \in Nat
<1>1. c \in DOMAIN containers /\ c \in Nat /\ i \in DOMAIN containers[c] /\ ~IsGroup(containers[c][i])
  BY TargetsAre, EngineIs DEF Spot
<1>2. containers[c] \in Seq(Entry)
  BY <1>1 DEF TypesInv
<1>3. containers[c][i] \in Entry /\ containers[c][i].clauses # <<>> /\ i \in Nat
  BY <1>1, <1>2 DEF ContainersInv
<1>4. /\ Texts(containers[c][i]) \in Seq(Text) /\ j \in DOMAIN Texts(containers[c][i])
      /\ DOMAIN Texts(containers[c][i]) = 1 .. Len(Texts(containers[c][i]))
  BY <1>3, TextsAre DEF Spot
<1>5. TextAt(c, i, j) \in Text /\ j \in Nat
  BY <1>4 DEF TextAt
<1>6. TextAt(c, i, j).id \in Nat
  BY <1>5 DEF Text
<1> QED BY <1>1, <1>3, <1>5, <1>6

(* What a UNION adds to the group around it was written in that group's    *)
(* block.                                                                  *)
LEMMA EndUnionUnions ==
  ASSUME TypesInv, ContainersInv, NumbersInv, UnionsInv, EndUnion
  PROVE  UnionsInv'
<1> DEFINE u == Last(unions)
           id == Len(written) + 1
           e == UnionOf(id, containers[u])
           outer == IF Len(unions) > 1 THEN unions[Len(unions) - 1] ELSE StatementContainer
           n == Len(containers[outer]) + 1
<1>1. PICK row, col : /\ Assembled(e, containers[u], row, col)
                      /\ \A d, i, j \in Nat : Spot(d, i, j)' => FromOld(e, outer, n, row, col, d, i, j)
  BY EndUnionSpots
<1>2. Texts(e)[1] = [id |-> id, clauses |-> <<"final">>]
  BY EndUnionSpots
<1> HIDE DEF e, outer, n
<1>3. PICK f \in [DOMAIN unions -> DOMAIN blocks] : Pairs(f) /\ Within(f)
  BY DEF UnionsInv
<1>4. /\ blocks # <<>> /\ Last(blocks).kind = "union"
      /\ unions' = Front(unions) /\ blocks' = Front(blocks) /\ Executed' = Executed
  BY EndUnionIs
<1>5. /\ Len(unions) \in DOMAIN unions /\ f[Len(unions)] = Len(blocks) /\ u = unions[Len(unions)]
      /\ Len(blocks) \in DOMAIN blocks
      /\ \A k \in DOMAIN unions' : k \in DOMAIN unions /\ unions'[k] = unions[k] /\ k < Len(unions)
      /\ \A b \in DOMAIN blocks' : b \in DOMAIN blocks /\ blocks'[b] = blocks[b] /\ b < Len(blocks)
      /\ \E g \in [DOMAIN unions' -> DOMAIN blocks'] :
           Pairs(g)' /\ \A k \in DOMAIN unions' : g[k] = f[k]
  BY <1>3, <1>4, UnionPops
<1>6. PICK g \in [DOMAIN unions' -> DOMAIN blocks'] : Pairs(g)' /\ \A k \in DOMAIN unions' : g[k] = f[k]
  BY <1>5
<1>7. \A b \in DOMAIN blocks : blocks[b].number \in Nat /\ blocks[b].number <= Len(written) + 1
  <2>1. \A b \in DOMAIN blocks : blocks[b] \in Block
    BY DEF TypesInv
  <2> QED BY <2>1 DEF Block, NumbersInv
<1>8. id \in Nat
  BY DEF TypesInv
<1>9. u \in Nat
  BY EndUnionIs, EngineIs
<1> HIDE DEF u
<1>10. ASSUME NEW k \in DOMAIN unions', NEW c \in Nat, NEW i \in Nat, NEW j \in Nat,
              c = unions'[k], Spot(c, i, j)'
       PROVE  TextAt(c, i, j)'.id >= blocks'[g[k]].number
  <2>1. /\ k \in DOMAIN unions /\ c = unions[k] /\ g[k] = f[k] /\ k < Len(unions)
        /\ f[k] \in DOMAIN blocks /\ blocks'[g[k]] = blocks[f[k]]
    BY <1>3, <1>5, <1>6, <1>10
  <2>2. FromOld(e, outer, n, row, col, c, i, j)
    BY <1>1, <1>10
  <2>3. CASE Spot(c, i, j) /\ TextAt(c, i, j)' = TextAt(c, i, j)
    BY <2>1, <2>3, <1>3 DEF Within
  <2>4. CASE TextAt(c, i, j)' = Texts(e)[1]
    BY <2>1, <2>4, <1>2, <1>7, <1>8 DEF id
  <2>5. CASE /\ row[j] \in Nat /\ col[j] \in Nat
             /\ Spot(u, row[j], col[j]) /\ TextAt(c, i, j)' = TextAt(u, row[j], col[j])
    <3>1. TextAt(u, row[j], col[j]).id >= blocks[f[Len(unions)]].number
      BY <2>5, <1>3, <1>5, <1>9 DEF Within
    <3>2. f[k] < f[Len(unions)]
      BY <2>1, <1>3, <1>5 DEF Pairs
    <3>3. blocks[f[k]].number <= blocks[f[Len(unions)]].number
      <4>1. f[Len(unions)] \in Nat /\ f[k] \in Nat /\ f[Len(unions)] \in DOMAIN blocks
        BY <2>1, <1>3, <1>5 DEF TypesInv
      <4> QED BY <2>1, <3>2, <4>1 DEF NumbersInv
    <3>4. TextAt(u, row[j], col[j]).id \in Nat
      BY <2>5, SpotIs
    <3> QED BY <2>1, <2>5, <3>1, <3>3, <3>4, <1>7, <1>5
  <2> QED BY <2>2, <2>3, <2>4, <2>5 DEF FromOld, u
<1>11. Within(g)'
  BY <1>10 DEF Within
<1> QED BY <1>6, <1>11 DEF UnionsInv

(* The end of a UNION keeps the invariant. *)
LEMMA EndUnionKeeps ==
  ASSUME Safe, EndUnion
  PROVE  Safe' /\ (BlocksInv => BlocksInv')
<1> USE DEF Safe
<1> DEFINE u == Last(unions)
           id == Len(written) + 1
           e == UnionOf(id, containers[u])
           outer == IF Len(unions) > 1 THEN unions[Len(unions) - 1] ELSE StatementContainer
           r == [clauses |-> <<"final">>, transaction |-> OutermostTransaction, dropped |-> FALSE]
<1>1. /\ outer \in DOMAIN containers /\ (outer = StatementContainer \/ outer \notin Executed)
      /\ AddTo(outer, e)
      /\ e \in Entry /\ ~IsGroup(e) /\ e.clauses # <<>> /\ e.id = Len(written) + 1
      /\ r \in Record /\ written' = Append(written, r) /\ r.transaction = OutermostTransaction
      /\ Executed' = Executed
      /\ blocks # <<>> /\ Last(blocks).kind = "union"
      /\ unions' = Front(unions) /\ blocks' = Front(blocks)
      /\ group' = group /\ join' = 0 /\ handles' = {} /\ stage = "building" /\ stage' = "building"
  BY EndUnionIs
<1> HIDE DEF e, r, outer
<1>2. PICK f \in [DOMAIN unions -> DOMAIN blocks] : Pairs(f) /\ Within(f)
  BY DEF UnionsInv
<1>3. /\ unions' \in Seq(Nat) /\ blocks' \in Seq(Block)
      /\ \A k \in DOMAIN unions' : k \in DOMAIN unions /\ unions'[k] = unions[k]
      /\ \A b \in DOMAIN blocks' : b \in DOMAIN blocks /\ blocks'[b] = blocks[b]
  BY <1>1, <1>2, UnionPops
<1>4. TransactionBlocks' = TransactionBlocks /\ OutermostTransaction' = OutermostTransaction
  BY <1>1, UnionIsNoTransaction
<1>5. TypesInv'
  <2>1. containers' \in Seq(Seq(Entry)) /\ containers' # <<>>
    BY <1>1, Grown
  <2>2. written' \in Seq(Record)
    BY <1>1, Recorded
  <2> QED BY <2>1, <2>2, <1>1, <1>3 DEF TypesInv
<1>6. HandlesInv'
  BY <1>1 DEF HandlesInv
<1>7. UnionsInv' /\ TextsInv'
  BY EndUnionUnions, EndUnionTexts
<1>8. ContainersInv'
  BY <1>1, <1>3, ContainersGrow
<1>9. NumbersInv'
  BY <1>1, <1>3, NumbersGrow
<1>10. OrderInv'
  BY <1>1, OrderGrows
<1>11. BlocksInv => BlocksInv'
  BY <1>1, <1>4, BlocksGrow
<1> QED BY <1>5, <1>6, <1>7, <1>8, <1>9, <1>10, <1>11

-----------------------------------------------------------------------------
(* A clause *)

(* The statement a clause refines is the last of its container, and of a   *)
(* class that changeLastStatement accepts: a clause is never rejected.     *)
LEMMA RefineIsAccepted ==
  ASSUME TypesInv, HandlesInv, NEW h \in handles, NEW k \in Class, Refine(h, k)
  PROVE  /\ Replaceable(h.home) /\ Append(h.clauses, k) \in Clauses
<1>1. h \in Handle
  BY DEF TypesInv
<1>2. h.clauses \in Seq(Class) /\ h.clauses # <<>> /\ h.id \in Nat
  BY <1>1 DEF Handle, Clauses
<1>3. Last(h.clauses) \in Class
  <2>1. Len(h.clauses) \in DOMAIN h.clauses /\ Last(h.clauses) = h.clauses[Len(h.clauses)]
    BY <1>2, FrontIs
  <2> QED BY <2>1, <1>2
<1>4. k \in Refinements[Last(h.clauses)]
  BY DEF Refine
<1>5. Last(h.clauses) = "update" \/ Last(h.clauses) \in SelectClass
  BY <1>3, <1>4, RefinableIs
<1>6. containers[h.home] # <<>> /\ Last(containers[h.home]) = Statement(h.id, h.clauses)
  BY DEF HandlesInv
<1>7. ~IsGroup(Statement(h.id, h.clauses)) /\ ClassOf(Statement(h.id, h.clauses)) = Last(h.clauses)
  BY DEF IsGroup, Statement, ClassOf
<1>8. Replaceable(h.home)
  BY <1>5, <1>6, <1>7 DEF Replaceable, IsSelect
<1>9. Append(h.clauses, k) \in Clauses
  <2>1. Append(h.clauses, k) \in Seq(Class) /\ Len(Append(h.clauses, k)) = Len(h.clauses) + 1
    BY <1>2, AppendProperties
  <2>2. Append(h.clauses, k) # <<>>
    BY <2>1, <1>2, EmptySeq
  <2> QED BY <2>1, <2>2 DEF Clauses
<1> QED BY <1>8, <1>9

(* What the clause changes: the clauses of the last statement of c. *)
Refined(c, n, id, old, new) ==
  /\ c \in Live /\ c \in DOMAIN containers /\ c \in Nat /\ id \in DOMAIN written /\ id \in Nat
  /\ n \in Nat /\ n > 0 /\ DOMAIN containers[c] = 1 .. n /\ DOMAIN containers'[c] = 1 .. n
  /\ Len(containers[c]) = n
  /\ containers[c][n] = old /\ old \in Entry /\ old.id = id /\ ~IsGroup(old)
  /\ DOMAIN Texts(old) = {1} /\ Texts(old)[1].id = id /\ old.group = 0
  /\ containers'[c][n] = Statement(id, new) /\ new \in Clauses
  /\ containers'[c] # <<>> /\ Last(containers'[c]) = Statement(id, new)
  /\ containers' \in Seq(Seq(Entry)) /\ containers' # <<>>
  /\ DOMAIN containers' = DOMAIN containers
  /\ \A d \in DOMAIN containers : d # c => containers'[d] = containers[d]
  /\ \A i \in 1 .. (n - 1) : containers'[c][i] = containers[c][i]
  /\ written' \in Seq(Record) /\ DOMAIN written' = DOMAIN written /\ Len(written') = Len(written)
  /\ written'[id].clauses = new
  /\ \A w \in DOMAIN written : w # id => written'[w] = written[w]
  /\ \A w \in DOMAIN written : /\ written'[w].dropped = written[w].dropped
                               /\ written'[w].transaction = written[w].transaction
  /\ handles' = {[id |-> id, clauses |-> new, home |-> c]}
  /\ stage = "building" /\ UNCHANGED <<group, unions, join, blocks, stage>>

(* A clause finds the statement it refines: it is the last of the          *)
(* container that the chain remembers, so it is replaced by itself with    *)
(* the clause.                                                             *)
LEMMA RefineIs ==
  ASSUME TypesInv, ContainersInv, HandlesInv, NEW h \in handles, NEW k \in Class, Refine(h, k)
  PROVE  \E n, old : Refined(h.home, n, h.id, old, Append(h.clauses, k))
<1> DEFINE new == Append(h.clauses, k)
           e == Statement(h.id, new)
           old == Statement(h.id, h.clauses)
           box == containers[h.home]
           n == Len(box)
           put == Append(Front(box), e)
<1>1. Replaceable(h.home) /\ new \in Clauses
  BY RefineIsAccepted
<1>2. /\ containers' = [containers EXCEPT ![h.home] = put]
      /\ written' = [written EXCEPT ![h.id].clauses = new]
      /\ handles' = {[h EXCEPT !.clauses = new]}
      /\ UNCHANGED <<group, unions, join, blocks, stage>> /\ stage = "building"
  BY <1>1 DEF Refine, Keep, Building
<1>3. /\ h \in Handle /\ h.id \in Nat /\ h.clauses \in Clauses
      /\ [h EXCEPT !.clauses = new] = [id |-> h.id, clauses |-> new, home |-> h.home]
  <2>1. h \in Handle
    BY DEF TypesInv
  <2>2. h.id \in Nat /\ h.clauses \in Clauses
    BY <2>1 DEF Handle
  <2> HIDE DEF new
  <2>3. [h EXCEPT !.clauses = new] = [id |-> h.id, clauses |-> new, home |-> h.home]
    BY <2>1 DEF Handle
  <2> QED BY <2>1, <2>2, <2>3
<1>4. h.home \in Live /\ h.home \in DOMAIN containers /\ h.home \in Nat
      /\ box # <<>> /\ Last(box) = old /\ h.id \in DOMAIN written /\ box \in Seq(Entry)
  BY TargetsAre, EngineIs DEF HandlesInv, TypesInv
<1>5. /\ old \in Entry /\ old.id = h.id /\ ~IsGroup(old) /\ DOMAIN Texts(old) = {1}
      /\ Texts(old)[1].id = h.id /\ old.group = 0
  <2>1. Texts(old)[1] = [id |-> h.id, clauses |-> h.clauses]
    BY <1>3, StatementIs
  <2> QED BY <2>1, <1>3, StatementIs DEF IsGroup
<1>6. e \in Entry
  BY <1>1, <1>3, StatementIs
<1> HIDE DEF old, e, new
<1>7. /\ Front(box) \in Seq(Entry) /\ n \in Nat /\ n > 0 /\ DOMAIN box = 1 .. n
      /\ Len(Front(box)) = n - 1 /\ \A i \in 1 .. (n - 1) : Front(box)[i] = box[i]
      /\ box[n] = old
  BY <1>4, FrontIs
<1>8. /\ put \in Seq(Entry) /\ Len(put) = n /\ put[n] = e
      /\ \A i \in 1 .. (n - 1) : put[i] = box[i]
  BY <1>6, <1>7, AppendProperties
<1>9. DOMAIN put = 1 .. n /\ put # <<>> /\ Last(put) = e
  BY <1>7, <1>8, EmptySeq DEF Last
<1> HIDE DEF put
<1>10. /\ containers'[h.home] = put /\ DOMAIN containers' = DOMAIN containers
       /\ \A d \in DOMAIN containers : d # h.home => containers'[d] = containers[d]
  BY <1>2, <1>4
<1>11. containers' \in Seq(Seq(Entry)) /\ containers' # <<>>
  <2>1. containers' \in Seq(Seq(Entry)) /\ Len(containers') = Len(containers)
    BY <1>2, <1>4, <1>8, ExceptSeq DEF TypesInv
  <2> QED BY <2>1, EngineIs, EmptySeq
<1>12. written[h.id] \in Record /\ written \in Seq(Record)
  BY <1>4 DEF TypesInv
<1> DEFINE rec == [written[h.id] EXCEPT !.clauses = new]
<1>13. /\ rec \in Record /\ rec.clauses = new /\ rec.dropped = written[h.id].dropped
       /\ rec.transaction = written[h.id].transaction
  BY <1>1, <1>12 DEF Record
<1>14. written' = [written EXCEPT ![h.id] = rec]
  BY <1>2
<1> HIDE DEF rec
<1>15. /\ written' \in Seq(Record) /\ DOMAIN written' = DOMAIN written /\ Len(written') = Len(written)
       /\ written'[h.id] = rec
       /\ \A w \in DOMAIN written : w # h.id => written'[w] = written[w]
  BY <1>4, <1>12, <1>13, <1>14, ExceptSeq
<1>16. \A w \in DOMAIN written : /\ written'[w].dropped = written[w].dropped
                                 /\ written'[w].transaction = written[w].transaction
  BY <1>13, <1>15
<1>17. handles' = {[id |-> h.id, clauses |-> new, home |-> h.home]}
  BY <1>2, <1>3
<1>18. Refined(h.home, n, h.id, old, new)
  BY <1>1, <1>2, <1>3, <1>4, <1>5, <1>7, <1>8, <1>9, <1>10, <1>11, <1>13, <1>15, <1>16, <1>17
     DEF Refined, e
<1> QED BY <1>5, <1>7, <1>18 DEF new

(* A refinement changes the clauses of one text and nothing else about     *)
(* what is where.                                                          *)
LEMMA RefinedSpots ==
  ASSUME TypesInv, ContainersInv, NEW c, NEW n, NEW id, NEW old, NEW new, Refined(c, n, id, old, new)
  PROVE  /\ GroupPlaces' = GroupPlaces /\ Groups' = Groups /\ Executed' = Executed /\ Live' = Live
         /\ \A i \in GroupPlaces : containers'[Engine][i] = containers[Engine][i]
         /\ \A d, i, j \in Nat : Spot(d, i, j)' <=> Spot(d, i, j)
         /\ \A d, i, j \in Nat : ~(d = c /\ i = n) => (Spot(d, i, j) => TextAt(d, i, j)' = TextAt(d, i, j))
         /\ Spot(c, n, 1) /\ TextAt(c, n, 1).id = id
         /\ \A d, i, j \in Nat : d = c /\ i = n /\ Spot(d, i, j) =>
              j = 1 /\ TextAt(d, i, j)' = [id |-> id, clauses |-> new]
         /\ \A d, i \in Nat : Head1(d, i)' <=> Head1(d, i)
         /\ \A d, i \in Nat : Head1(d, i) => IdAt(d, i)' = IdAt(d, i)
         /\ \A d, i, p \in Nat : Place(d, i, p)' <=> Place(d, i, p)
<1> DEFINE e == Statement(id, new)
<1>1. /\ c \in Live /\ c \in DOMAIN containers /\ c \in Nat /\ id \in DOMAIN written /\ id \in Nat
      /\ n \in Nat /\ n > 0 /\ DOMAIN containers[c] = 1 .. n /\ DOMAIN containers'[c] = 1 .. n
      /\ containers[c][n] = old /\ old.id = id /\ ~IsGroup(old)
      /\ DOMAIN Texts(old) = {1} /\ Texts(old)[1].id = id
      /\ containers'[c][n] = e /\ new \in Clauses
      /\ DOMAIN containers' = DOMAIN containers
      /\ \A d \in DOMAIN containers : d # c => containers'[d] = containers[d]
      /\ \A i \in 1 .. (n - 1) : containers'[c][i] = containers[c][i]
      /\ unions' = unions
  BY DEF Refined
<1>2. /\ e \in Entry /\ e.id = id /\ ~IsGroup(e) /\ DOMAIN Texts(e) = {1}
      /\ Texts(e)[1] = [id |-> id, clauses |-> new]
  BY <1>1, StatementIs
<1> HIDE DEF e
<1>3. \A i \in 1 .. n : i # n => i \in 1 .. (n - 1)
  BY <1>1, Ranges
<1>4. n \in 1 .. n
  BY <1>1
<1>5. GroupPlaces' = GroupPlaces /\ \A i \in GroupPlaces : containers'[Engine][i] = containers[Engine][i]
  <2>1. CASE c # Engine
    BY <2>1, <1>1, EngineIs DEF GroupPlaces
  <2>2. CASE c = Engine
    BY <2>2, <1>1, <1>2, <1>3 DEF GroupPlaces
  <2> QED BY <2>1, <2>2
<1>6. Groups' = Groups /\ Executed' = Executed /\ Live' = Live
  BY <1>1, <1>5 DEF Groups, Executed, Live
<1>7. Live \subseteq DOMAIN containers /\ Executed \subseteq Live
  BY TargetsAre
<1>8. ASSUME NEW d \in Nat, NEW i \in Nat
      PROVE  /\ \A j \in Nat : Spot(d, i, j)' <=> Spot(d, i, j)
             /\ ~(d = c /\ i = n) => \A j \in Nat : Spot(d, i, j) => TextAt(d, i, j)' = TextAt(d, i, j)
             /\ d = c /\ i = n => \A j \in Nat : Spot(d, i, j) =>
                                    j = 1 /\ TextAt(d, i, j)' = [id |-> id, clauses |-> new]
             /\ Head1(d, i)' <=> Head1(d, i)
             /\ Head1(d, i) => IdAt(d, i)' = IdAt(d, i)
  <2>1. CASE d # c
    BY <2>1, <1>1, <1>6, <1>7 DEF Spot, TextAt, Head1, IdAt
  <2>2. CASE d = c /\ i # n
    BY <2>2, <1>1, <1>3, <1>6 DEF Spot, TextAt, Head1, IdAt
  <2>3. CASE d = c /\ i = n
    BY <2>3, <1>1, <1>2, <1>4, <1>6 DEF Spot, TextAt, Head1, IdAt
  <2> QED BY <2>1, <2>2, <2>3
<1>9. Spot(c, n, 1) /\ TextAt(c, n, 1).id = id
  BY <1>1, <1>4 DEF Spot, TextAt
<1>10. \A d, i, p \in Nat : Place(d, i, p)' <=> Place(d, i, p)
  BY <1>5 DEF Place
<1> QED BY <1>5, <1>6, <1>8, <1>9, <1>10

(* A refinement keeps the invariant. *)
LEMMA RefineKeeps ==
  ASSUME Safe, NEW h \in handles, NEW k \in Class, Refine(h, k)
  PROVE  Safe' /\ (BlocksInv => BlocksInv')
<1> USE DEF Safe
<1>1. PICK n, old : Refined(h.home, n, h.id, old, Append(h.clauses, k))
  BY RefineIs
<1>2. PICK c, id, new : c = h.home /\ id = h.id /\ new = Append(h.clauses, k)
  OBVIOUS
<1>3. Refined(c, n, id, old, new)
  BY <1>1, <1>2
<1>4. /\ GroupPlaces' = GroupPlaces /\ Groups' = Groups /\ Executed' = Executed /\ Live' = Live
      /\ \A i \in GroupPlaces : containers'[Engine][i] = containers[Engine][i]
      /\ \A d, i, j \in Nat : Spot(d, i, j)' <=> Spot(d, i, j)
      /\ \A d, i, j \in Nat : ~(d = c /\ i = n) => (Spot(d, i, j) => TextAt(d, i, j)' = TextAt(d, i, j))
      /\ Spot(c, n, 1) /\ TextAt(c, n, 1).id = id
      /\ \A d, i, j \in Nat : d = c /\ i = n /\ Spot(d, i, j) =>
           j = 1 /\ TextAt(d, i, j)' = [id |-> id, clauses |-> new]
  BY <1>3, RefinedSpots
<1>5. /\ \A d, i \in Nat : Head1(d, i)' <=> Head1(d, i)
      /\ \A d, i \in Nat : Head1(d, i) => IdAt(d, i)' = IdAt(d, i)
      /\ \A d, i, p \in Nat : Place(d, i, p)' <=> Place(d, i, p)
  BY <1>3, RefinedSpots
<1>6. /\ c \in Live /\ c \in DOMAIN containers /\ c \in Nat /\ id \in DOMAIN written /\ id \in Nat
      /\ n \in Nat /\ n > 0 /\ DOMAIN containers[c] = 1 .. n /\ DOMAIN containers'[c] = 1 .. n
      /\ Len(containers[c]) = n
      /\ containers[c][n] = old /\ old.id = id /\ ~IsGroup(old) /\ old.group = 0
      /\ containers'[c][n] = Statement(id, new) /\ new \in Clauses
      /\ containers'[c] # <<>> /\ Last(containers'[c]) = Statement(id, new)
      /\ DOMAIN containers' = DOMAIN containers
      /\ \A d \in DOMAIN containers : d # c => containers'[d] = containers[d]
      /\ \A i \in 1 .. (n - 1) : containers'[c][i] = containers[c][i]
  BY <1>3 DEF Refined
<1>7. /\ containers' \in Seq(Seq(Entry)) /\ containers' # <<>>
      /\ written' \in Seq(Record) /\ DOMAIN written' = DOMAIN written /\ Len(written') = Len(written)
      /\ written'[id].clauses = new
      /\ \A w \in DOMAIN written : w # id => written'[w] = written[w]
      /\ \A w \in DOMAIN written : /\ written'[w].dropped = written[w].dropped
                                   /\ written'[w].transaction = written[w].transaction
      /\ handles' = {[id |-> id, clauses |-> new, home |-> c]}
      /\ stage = "building" /\ UNCHANGED <<group, unions, join, blocks, stage>>
  BY <1>3 DEF Refined
<1>8. TypesInv'
  <2>1. handles' \subseteq Handle
    <3>1. [id |-> id, clauses |-> new, home |-> c] \in Handle
      BY <1>6 DEF Handle
    <3> QED BY <3>1, <1>7
  <2> QED BY <2>1, <1>7 DEF TypesInv
<1>9. /\ Statement(id, new).id = id /\ ~IsGroup(Statement(id, new)) /\ Statement(id, new).clauses # <<>>
  <2>1. id \in Nat /\ new \in Clauses
    BY <1>6
  <2> QED BY <2>1, StatementIs
<1>10. ContainersInv'
  <2>1. /\ \A i \in GroupPlaces' :
             /\ containers'[Engine][i].group \in DOMAIN containers' \ {Engine}
             /\ containers'[Engine][i].id = 0
        /\ \A i, m \in GroupPlaces' : containers'[Engine][i].group = containers'[Engine][m].group => i = m
    <3>1. /\ GroupPlaces' = GroupPlaces /\ DOMAIN containers' = DOMAIN containers
          /\ \A i \in GroupPlaces : containers'[Engine][i] = containers[Engine][i]
      BY <1>4, <1>6
    <3> QED BY <3>1 DEF ContainersInv
  <2>5. /\ \A l \in DOMAIN unions' : unions'[l] \in DOMAIN containers' \ Executed'
        /\ \A l, m \in DOMAIN unions' : unions'[l] = unions'[m] => l = m
    <3>1. Executed' = Executed /\ DOMAIN containers' = DOMAIN containers /\ unions' = unions
      BY <1>4, <1>6, <1>7
    <3> QED BY <3>1 DEF ContainersInv
  <2>2. ASSUME NEW d \in DOMAIN containers', NEW i \in DOMAIN containers'[d]
        PROVE  /\ containers'[d][i].id <= Len(written')
               /\ IsGroup(containers'[d][i]) => d = Engine
               /\ ~IsGroup(containers'[d][i]) => containers'[d][i].clauses # <<>>
    <3>1. CASE d = c /\ i = n
      <4>1. id <= Len(written)
        BY <1>6 DEF TypesInv
      <4> QED BY <3>1, <4>1, <1>6, <1>7, <1>9
    <3>2. CASE ~(d = c /\ i = n)
      <4>1. d \in DOMAIN containers /\ i \in DOMAIN containers[d] /\ containers'[d][i] = containers[d][i]
        <5>1. CASE d = c BY <5>1, <3>2, <1>6, Ranges
        <5>2. CASE d # c BY <5>2, <1>6
        <5> QED BY <5>1, <5>2
      <4> QED BY <4>1, <1>7 DEF ContainersInv
    <3> QED BY <3>1, <3>2
  <2>3. group' # 0 => containers'[Engine] # <<>> /\ Last(containers'[Engine]).group = group'
    <3>1. SUFFICES ASSUME group # 0 PROVE c # Engine
      BY <1>6, <1>7, EngineIs DEF ContainersInv
    <3>2. Last(containers[Engine]).group = group
      BY <3>1 DEF ContainersInv
    <3> QED BY <3>1, <3>2, <1>6 DEF Last
  <2>4. join' # 0 => join' = SelectContainer'
    BY <1>7 DEF ContainersInv, SelectContainer, StatementContainer
  <2> QED BY <2>1, <2>2, <2>3, <2>4, <2>5 DEF ContainersInv
<1>11. HandlesInv'
  <2>1. ASSUME NEW g \in handles'
        PROVE  /\ g.home \in Live' /\ containers'[g.home] # <<>>
               /\ Last(containers'[g.home]) = Statement(g.id, g.clauses)
               /\ g.id \in DOMAIN written'
    <3>1. g.home = c /\ g.id = id /\ g.clauses = new
      BY <1>7
    <3> QED BY <3>1, <1>4, <1>6, <1>7
  <2> QED BY <2>1 DEF HandlesInv
<1>12. NumbersInv'
  BY <1>7 DEF NumbersInv
<1>13. UnionsInv'
  <2>1. PICK f \in [DOMAIN unions -> DOMAIN blocks] : Pairs(f) /\ Within(f)
    BY DEF UnionsInv
  <2>2. ASSUME NEW l \in DOMAIN unions', NEW d \in Nat, NEW i \in Nat, NEW j \in Nat,
               d = unions'[l], Spot(d, i, j)'
        PROVE  TextAt(d, i, j)'.id >= blocks'[f[l]].number
    <3>1. TextAt(d, i, j)'.id = TextAt(d, i, j).id /\ Spot(d, i, j)
      BY <2>2, <1>4
    <3> QED BY <2>1, <2>2, <3>1, <1>7 DEF Within
  <2>3. Pairs(f)' /\ Within(f)'
    BY <2>1, <2>2, <1>7 DEF Pairs, Within
  <2> QED BY <2>1, <2>3, <1>7 DEF UnionsInv
<1>14. \A d, i, j \in Nat : Spot(d, i, j) => TextAt(d, i, j)'.id = TextAt(d, i, j).id
  BY <1>4
<1>15. TextsInv'
  <2>1. SpotsDiffer'
    BY <1>4, <1>14 DEF TextsInv, SpotsDiffer
  <2>2. WrittenIsKept'
    <3>1. SUFFICES ASSUME NEW w \in DOMAIN written, ~written[w].dropped
                   PROVE  \E d, i, j \in Nat : Spot(d, i, j)' /\ TextAt(d, i, j)'.id = w
      BY <1>7 DEF WrittenIsKept
    <3>2. PICK d, i, j \in Nat : Spot(d, i, j) /\ TextAt(d, i, j).id = w
      BY <3>1 DEF TextsInv, WrittenIsKept
    <3>3. Spot(d, i, j)'
      BY <3>2, <1>4
    <3> QED BY <3>2, <3>3, <1>14
  <2>3. SpotsAreWritten'
    <3>1. SUFFICES ASSUME NEW d \in Nat, NEW i \in Nat, NEW j \in Nat, Spot(d, i, j)'
                   PROVE  /\ TextAt(d, i, j)'.id \in DOMAIN written'
                          /\ TextAt(d, i, j)'.clauses = written'[TextAt(d, i, j)'.id].clauses
      BY DEF SpotsAreWritten
    <3>2. Spot(d, i, j) /\ TextAt(d, i, j).id \in DOMAIN written
          /\ TextAt(d, i, j).clauses = written[TextAt(d, i, j).id].clauses
      BY <3>1, <1>4 DEF TextsInv, SpotsAreWritten
    <3>3. CASE d = c /\ i = n
      <4>1. TextAt(d, i, j)' = [id |-> id, clauses |-> new]
        BY <3>2, <3>3, <1>4
      <4> QED BY <4>1, <1>6, <1>7
    <3>4. CASE ~(d = c /\ i = n)
      <4>1. TextAt(d, i, j)' = TextAt(d, i, j)
        BY <3>2, <3>4, <1>4
      <4>2. TextAt(d, i, j).id # id
        <5>1. Spot(c, n, 1) /\ TextAt(c, n, 1).id = id /\ c \in Nat /\ n \in Nat
          BY <1>4, <1>6
        <5> QED BY <3>2, <3>4, <5>1 DEF TextsInv, SpotsDiffer
      <4> QED BY <3>2, <4>1, <4>2, <1>7
    <3> QED BY <3>3, <3>4
  <2> QED BY <2>1, <2>2, <2>3 DEF TextsInv
<1>16. OrderInv'
  BY <1>5 DEF OrderInv
<1>17. BlocksInv => BlocksInv'
  <2>1. \A d, i \in Nat : Head1(d, i) => BlockAt(d, i)' = BlockAt(d, i)
    <3>1. \A d, i \in Nat : Head1(d, i) => IdAt(d, i) \in DOMAIN written
      BY HeadsAreSpots
    <3> QED BY <3>1, <1>5, <1>7 DEF BlockAt
  <2>2. TransactionBlocks' = TransactionBlocks /\ OutermostTransaction' = OutermostTransaction
    BY <1>7 DEF TransactionBlocks, OutermostTransaction
  <2>3. SUFFICES ASSUME BlocksInv PROVE BlocksInv'
    OBVIOUS
  <2>4. /\ \A b, d \in TransactionBlocks' : b = d
        /\ group' # 0 <=> TransactionBlocks' # {}
    BY <2>2, <2>3, <1>7 DEF BlocksInv
  <2>5. ASSUME NEW d \in Nat, NEW i \in Nat, Head1(d, i)'
        PROVE  /\ d = Engine <=> BlockAt(d, i)' = 0
               /\ BlockAt(d, i)' <= IdAt(d, i)'
               /\ group' # 0 /\ d = group' => BlockAt(d, i)' = OutermostTransaction'
               /\ group' # 0 /\ d # group' => IdAt(d, i)' < OutermostTransaction'
    BY <2>1, <2>2, <2>3, <2>5, <1>5, <1>7 DEF BlocksInv
  <2>6. ASSUME NEW d \in Nat, NEW i \in Nat, NEW f \in Nat, NEW m \in Nat, Head1(d, i)', Head1(f, m)'
        PROVE  d = f <=> BlockAt(d, i)' = BlockAt(f, m)'
    BY <2>1, <2>3, <2>6, <1>5 DEF BlocksInv
  <2> QED BY <2>4, <2>5, <2>6 DEF BlocksInv
<1> QED BY <1>8, <1>10, <1>11, <1>12, <1>13, <1>15, <1>16, <1>17

-----------------------------------------------------------------------------
(* Steps that write nothing *)

(* The written statements, some of them perhaps dropped. *)
Marked ==
  /\ written' \in Seq(Record) /\ DOMAIN written' = DOMAIN written /\ Len(written') = Len(written)
  /\ \A w \in DOMAIN written : /\ written'[w].clauses = written[w].clauses
                               /\ written'[w].transaction = written[w].transaction
                               /\ written[w].dropped => written'[w].dropped

(* Nothing is dropped by a step that leaves the record of what was         *)
(* written.                                                                *)
LEMMA UnmarkedIs ==
  ASSUME TypesInv, written' = written
  PROVE  Marked
BY DEF Marked, TypesInv

(* Drop marks the statements since the block began, and changes nothing    *)
(* else of the record.                                                     *)
LEMMA DropIs ==
  ASSUME TypesInv, NEW b, Drop(b)
  PROVE  Marked /\ \A w \in DOMAIN written : w >= b.number => written'[w].dropped
<1>1. written \in Seq(Record) /\ DOMAIN written = 1 .. Len(written) /\ Len(written) \in Nat
      /\ \A w \in DOMAIN written : written[w] \in Record
  BY DEF TypesInv
<1>2. written' = [w \in DOMAIN written |->
                    IF w >= b.number THEN [written[w] EXCEPT !.dropped = TRUE] ELSE written[w]]
  BY DEF Drop
<1>3. ASSUME NEW w \in DOMAIN written
      PROVE  /\ written'[w] \in Record
             /\ written'[w].clauses = written[w].clauses
             /\ written'[w].transaction = written[w].transaction
             /\ written[w].dropped => written'[w].dropped
             /\ w >= b.number => written'[w].dropped
  <2>1. written[w] \in Record
    BY <1>1
  <2>2. CASE w >= b.number
    <3>1. written'[w] = [written[w] EXCEPT !.dropped = TRUE]
      BY <1>2, <2>2
    <3> QED BY <2>1, <3>1 DEF Record
  <2>3. CASE ~(w >= b.number)
    <3>1. written'[w] = written[w]
      BY <1>2, <2>3
    <3> QED BY <2>1, <2>3, <3>1
  <2> QED BY <2>2, <2>3
<1>4. DOMAIN written' = 1 .. Len(written)
  BY <1>1, <1>2
<1>5. written' \in Seq(Record)
  <2>1. written' = [w \in 1 .. Len(written) |-> written'[w]]
    BY <1>1, <1>2
  <2>2. \A w \in 1 .. Len(written) : written'[w] \in Record
    BY <1>1, <1>3
  <2>3. written' \in [1 .. Len(written) -> Record]
    BY <2>1, <2>2
  <2> QED BY <2>3, <1>1
<1>6. Len(written') = Len(written)
  BY <1>1, <1>4, <1>5
<1> QED BY <1>1, <1>3, <1>4, <1>5, <1>6 DEF Marked

(* Steps that move no text keep what is known of the texts. *)
LEMMA FrameTexts ==
  ASSUME TextsInv, Marked,
         \A d, i, j \in Nat : Spot(d, i, j)' <=> Spot(d, i, j),
         \A d, i, j \in Nat : Spot(d, i, j) => TextAt(d, i, j)' = TextAt(d, i, j)
  PROVE  TextsInv'
<1>1. SpotsDiffer'
  BY DEF TextsInv, SpotsDiffer
<1>2. ASSUME NEW w \in DOMAIN written', ~written'[w].dropped
      PROVE  \E d, i, j \in Nat : Spot(d, i, j)' /\ TextAt(d, i, j)'.id = w
  <2>1. PICK d, i, j \in Nat : Spot(d, i, j) /\ TextAt(d, i, j).id = w
    BY <1>2 DEF TextsInv, WrittenIsKept, Marked
  <2>2. Spot(d, i, j)' /\ TextAt(d, i, j)' = TextAt(d, i, j)
    BY <2>1
  <2> QED BY <2>1, <2>2
<1>3. ASSUME NEW d \in Nat, NEW i \in Nat, NEW j \in Nat, Spot(d, i, j)'
      PROVE  /\ TextAt(d, i, j)'.id \in DOMAIN written'
             /\ TextAt(d, i, j)'.clauses = written'[TextAt(d, i, j)'.id].clauses
  <2>1. Spot(d, i, j) /\ TextAt(d, i, j)' = TextAt(d, i, j)
    BY <1>3
  <2> QED BY <2>1 DEF TextsInv, SpotsAreWritten, Marked
<1> QED BY <1>1, <1>2, <1>3 DEF TextsInv, WrittenIsKept, SpotsAreWritten

(* Steps that move no executed statement keep the order. *)
LEMMA FrameOrder ==
  ASSUME OrderInv,
         \A d, i \in Nat : Head1(d, i)' <=> Head1(d, i),
         \A d, i \in Nat : Head1(d, i) => IdAt(d, i)' = IdAt(d, i),
         \A d, i, p \in Nat : Head1(d, i) => (Place(d, i, p)' <=> Place(d, i, p))
  PROVE  OrderInv'
BY DEF OrderInv

(* The transaction that a statement was written in does not change. *)
LEMMA FrameBlocks ==
  ASSUME TypesInv, ContainersInv, TextsInv, Marked,
         \A d, i \in Nat : Head1(d, i) => IdAt(d, i)' = IdAt(d, i)
  PROVE  \A d, i \in Nat : Head1(d, i) => BlockAt(d, i)' = BlockAt(d, i)
<1>1. \A d, i \in Nat : Head1(d, i) => IdAt(d, i) \in DOMAIN written
  BY HeadsAreSpots
<1> QED BY <1>1 DEF BlockAt, Marked

(* Steps that leave the containers leave what is where. *)
LEMMA SameContainers ==
  ASSUME containers' = containers
  PROVE  /\ GroupPlaces' = GroupPlaces /\ Groups' = Groups /\ Executed' = Executed
         /\ \A d, i \in Nat : Head1(d, i)' <=> Head1(d, i)
         /\ \A d, i \in Nat : IdAt(d, i)' = IdAt(d, i)
         /\ \A d, i, p \in Nat : Place(d, i, p)' <=> Place(d, i, p)
         /\ \A d, i, j \in Nat : TextAt(d, i, j)' = TextAt(d, i, j)
         /\ unions' = unions => Live' = Live
         /\ \A d, i, j \in Nat : d \in Live /\ d \in Live' => (Spot(d, i, j)' <=> Spot(d, i, j))
BY DEF GroupPlaces, Groups, Executed, Head1, IdAt, Place, TextAt, Live, Spot

(* The end of a transaction block, by return or by exception. *)
LEMMA TransactionEnds ==
  ASSUME Safe, stage = "building", blocks # <<>>, Last(blocks).kind = "transaction",
         group' = 0, blocks' = Front(blocks), handles' = {}, join' = 0,
         UNCHANGED <<containers, unions, stage>>, Marked
  PROVE  Safe' /\ (BlocksInv => BlocksInv')
<1> USE DEF Safe
<1>1. /\ blocks' \in Seq(Block) /\ DOMAIN blocks = 1 .. Len(blocks) /\ Len(blocks) \in Nat
      /\ DOMAIN blocks' = 1 .. (Len(blocks) - 1)
      /\ \A b \in 1 .. (Len(blocks) - 1) : blocks'[b] = blocks[b]
      /\ blocks[Len(blocks)].kind = "transaction" /\ Len(blocks) \in DOMAIN blocks
  BY FrontIs DEF TypesInv
<1>2. /\ \A b \in DOMAIN blocks' : b \in DOMAIN blocks /\ blocks'[b] = blocks[b] /\ b # Len(blocks)
      /\ \A b \in DOMAIN blocks : b # Len(blocks) => b \in DOMAIN blocks'
  BY <1>1, Ranges
<1>3. TypesInv'
  BY <1>1 DEF TypesInv, Marked
<1>4. /\ GroupPlaces' = GroupPlaces /\ Executed' = Executed /\ Live' = Live
      /\ \A d, i \in Nat : Head1(d, i)' <=> Head1(d, i)
      /\ \A d, i \in Nat : IdAt(d, i)' = IdAt(d, i)
      /\ \A d, i, p \in Nat : Place(d, i, p)' <=> Place(d, i, p)
      /\ \A d, i, j \in Nat : TextAt(d, i, j)' = TextAt(d, i, j)
  BY SameContainers
<1>5. \A d, i, j \in Nat : Spot(d, i, j)' <=> Spot(d, i, j)
  BY <1>4 DEF Spot
<1>6. ContainersInv'
  BY <1>4 DEF ContainersInv, Marked
<1>7. HandlesInv'
  BY DEF HandlesInv
<1>8. NumbersInv'
  BY <1>2 DEF NumbersInv, Marked
<1>9. UnionsInv'
  <2>1. PICK f \in [DOMAIN unions -> DOMAIN blocks] : Pairs(f) /\ Within(f)
    BY DEF UnionsInv
  <2>2. \A k \in DOMAIN unions : f[k] \in DOMAIN blocks' /\ f[k] \in DOMAIN blocks
    BY <2>1, <1>1, <1>2 DEF Pairs
  <2>3. f \in [DOMAIN unions' -> DOMAIN blocks']
    BY <2>2
  <2>4. Pairs(f)'
    <3>1. ASSUME NEW b \in DOMAIN blocks', blocks'[b].kind = "union"
          PROVE  \E k \in DOMAIN unions' : f[k] = b
      BY <2>1, <3>1, <1>2 DEF Pairs
    <3>2. /\ \A k \in DOMAIN unions' : blocks'[f[k]].kind = "union"
          /\ \A k, l \in DOMAIN unions' : k < l => f[k] < f[l]
      BY <2>1, <2>2, <1>2 DEF Pairs
    <3> QED BY <3>1, <3>2 DEF Pairs
  <2>5. Within(f)'
    <3>1. SUFFICES ASSUME NEW k \in DOMAIN unions', NEW d \in Nat, NEW i \in Nat, NEW j \in Nat,
                          d = unions'[k], Spot(d, i, j)'
                   PROVE  TextAt(d, i, j)'.id >= blocks'[f[k]].number
      BY DEF Within
    <3>2. Spot(d, i, j) /\ TextAt(d, i, j)' = TextAt(d, i, j) /\ blocks'[f[k]] = blocks[f[k]]
      BY <3>1, <1>2, <1>4, <1>5, <2>2
    <3> QED BY <2>1, <3>1, <3>2 DEF Within
  <2> QED BY <2>3, <2>4, <2>5 DEF UnionsInv
<1>10. TextsInv'
  BY <1>4, <1>5, FrameTexts
<1>11. OrderInv'
  BY <1>4, FrameOrder
<1>12. BlocksInv => BlocksInv'
  <2>1. SUFFICES ASSUME BlocksInv PROVE BlocksInv'
    OBVIOUS
  <2>2. TransactionBlocks' = {}
    <3>1. Len(blocks) \in TransactionBlocks
      BY <1>1 DEF TransactionBlocks
    <3>2. \A b, d \in TransactionBlocks : b = d
      BY <2>1 DEF BlocksInv
    <3>3. \A b \in TransactionBlocks' : b \in TransactionBlocks /\ b # Len(blocks)
      BY <1>2 DEF TransactionBlocks
    <3> QED BY <3>1, <3>2, <3>3
  <2>3. \A d, i \in Nat : Head1(d, i) => BlockAt(d, i)' = BlockAt(d, i)
    BY <1>4, FrameBlocks
  <2>4. ASSUME NEW d \in Nat, NEW i \in Nat, Head1(d, i)'
        PROVE  (d = Engine <=> BlockAt(d, i)' = 0) /\ BlockAt(d, i)' <= IdAt(d, i)'
    BY <2>1, <2>3, <2>4, <1>4 DEF BlocksInv
  <2>5. ASSUME NEW d \in Nat, NEW i \in Nat, NEW f \in Nat, NEW m \in Nat, Head1(d, i)', Head1(f, m)'
        PROVE  d = f <=> BlockAt(d, i)' = BlockAt(f, m)'
    BY <2>1, <2>3, <2>5, <1>4 DEF BlocksInv
  <2> QED BY <2>2, <2>4, <2>5 DEF BlocksInv
<1> QED BY <1>3, <1>6, <1>7, <1>8, <1>9, <1>10, <1>11, <1>12

(* A UNION block that throws takes the texts of its group with it, and     *)
(* only those that it drops.                                               *)
LEMMA UnionThrows ==
  ASSUME Safe, ThrowAndCatch, Last(blocks).kind # "transaction"
  PROVE  Safe' /\ (BlocksInv => BlocksInv')
<1> USE DEF Safe
<1> DEFINE u == Last(unions)
<1>1. /\ stage = "building" /\ blocks # <<>> /\ unions' = Front(unions) /\ blocks' = Front(blocks)
      /\ Drop(Last(blocks)) /\ join' = 0 /\ handles' = {}
      /\ UNCHANGED <<containers, group, stage>>
  BY DEF ThrowAndCatch, Building
<1>2. /\ Len(blocks) \in DOMAIN blocks /\ Last(blocks) = blocks[Len(blocks)]
      /\ blocks[Len(blocks)] \in Block /\ Last(blocks).kind = "union"
  <2>1. Len(blocks) \in DOMAIN blocks /\ Last(blocks) = blocks[Len(blocks)]
    BY <1>1, FrontIs DEF TypesInv
  <2>2. blocks[Len(blocks)] \in Block
    BY <2>1 DEF TypesInv
  <2> QED BY <2>1, <2>2 DEF Block
<1>3. Marked /\ \A w \in DOMAIN written : w >= blocks[Len(blocks)].number => written'[w].dropped
  BY <1>1, <1>2, DropIs
<1>4. /\ GroupPlaces' = GroupPlaces /\ Executed' = Executed
      /\ \A d, i \in Nat : Head1(d, i)' <=> Head1(d, i)
      /\ \A d, i \in Nat : IdAt(d, i)' = IdAt(d, i)
      /\ \A d, i, p \in Nat : Place(d, i, p)' <=> Place(d, i, p)
      /\ \A d, i, j \in Nat : TextAt(d, i, j)' = TextAt(d, i, j)
  BY <1>1, SameContainers
<1>5. PICK f \in [DOMAIN unions -> DOMAIN blocks] : Pairs(f) /\ Within(f)
  BY DEF UnionsInv
<1>6. /\ Len(unions) \in DOMAIN unions /\ f[Len(unions)] = Len(blocks) /\ u = unions[Len(unions)]
      /\ u \in Live
      /\ unions' \in Seq(Nat) /\ blocks' \in Seq(Block)
      /\ \A k \in DOMAIN unions' : k \in DOMAIN unions /\ unions'[k] = unions[k]
      /\ \A b \in DOMAIN blocks' : b \in DOMAIN blocks /\ blocks'[b] = blocks[b]
      /\ Live' = Live \ {u}
      /\ \E g \in [DOMAIN unions' -> DOMAIN blocks'] :
           Pairs(g)' /\ \A k \in DOMAIN unions' : g[k] = f[k]
  BY <1>1, <1>2, <1>4, <1>5, UnionPops
<1>7. PICK g \in [DOMAIN unions' -> DOMAIN blocks'] : Pairs(g)' /\ \A k \in DOMAIN unions' : g[k] = f[k]
  BY <1>6
<1>8. u \in Nat
  BY <1>6, TargetsAre, EngineIs
<1> HIDE DEF u
<1>9. \A d, i, j \in Nat : Spot(d, i, j)' <=> d # u /\ Spot(d, i, j)
  BY <1>1, <1>6 DEF Spot
<1>10. TypesInv'
  BY <1>1, <1>3, <1>6 DEF TypesInv, Marked
<1>11. ContainersInv'
  <2>1. /\ \A k \in DOMAIN unions' : unions'[k] \in DOMAIN containers' \ Executed'
        /\ \A k, l \in DOMAIN unions' : unions'[k] = unions'[l] => k = l
    BY <1>1, <1>4, <1>6 DEF ContainersInv
  <2> QED BY <2>1, <1>1, <1>3, <1>4 DEF ContainersInv, Marked
<1>12. HandlesInv'
  BY <1>1 DEF HandlesInv
<1>13. NumbersInv'
  BY <1>3, <1>6 DEF NumbersInv, Marked
<1>14. UnionsInv'
  <2>1. SUFFICES ASSUME NEW k \in DOMAIN unions', NEW d \in Nat, NEW i \in Nat, NEW j \in Nat,
                        d = unions'[k], Spot(d, i, j)'
                 PROVE  TextAt(d, i, j)'.id >= blocks'[g[k]].number
    BY <1>7 DEF UnionsInv, Within
  <2>2. Spot(d, i, j) /\ TextAt(d, i, j)' = TextAt(d, i, j)
    BY <2>1, <1>4, <1>9
  <2>3. k \in DOMAIN unions /\ d = unions[k] /\ blocks'[g[k]] = blocks[f[k]]
    BY <2>1, <1>6, <1>7
  <2> QED BY <2>2, <2>3, <1>5 DEF Within
<1>15. TextsInv'
  <2>1. SpotsDiffer'
    BY <1>4, <1>9 DEF TextsInv, SpotsDiffer
  <2>2. SpotsAreWritten'
    <3>1. SUFFICES ASSUME NEW d \in Nat, NEW i \in Nat, NEW j \in Nat, Spot(d, i, j)'
                   PROVE  /\ TextAt(d, i, j)'.id \in DOMAIN written'
                          /\ TextAt(d, i, j)'.clauses = written'[TextAt(d, i, j)'.id].clauses
      BY DEF SpotsAreWritten
    <3>2. Spot(d, i, j) /\ TextAt(d, i, j)' = TextAt(d, i, j)
      BY <3>1, <1>4, <1>9
    <3>3. TextAt(d, i, j).id \in DOMAIN written
          /\ TextAt(d, i, j).clauses = written[TextAt(d, i, j).id].clauses
      BY <3>2 DEF TextsInv, SpotsAreWritten
    <3>4. Marked
      BY <1>3
    <3> QED BY <3>2, <3>3, <3>4 DEF Marked
  <2>3. WrittenIsKept'
    <3>1. SUFFICES ASSUME NEW w \in DOMAIN written', ~written'[w].dropped
                   PROVE  \E d, i, j \in Nat : Spot(d, i, j)' /\ TextAt(d, i, j)'.id = w
      BY DEF WrittenIsKept
    <3>2. PICK d, i, j \in Nat : Spot(d, i, j) /\ TextAt(d, i, j).id = w
      BY <3>1, <1>3 DEF TextsInv, WrittenIsKept, Marked
    <3>3. d # u
      <4>1. SUFFICES ASSUME d = u PROVE FALSE
        OBVIOUS
      <4>2. TextAt(d, i, j).id >= blocks[f[Len(unions)]].number
        BY <4>1, <3>2, <1>5, <1>6 DEF Within
      <4>3. w \in DOMAIN written
        BY <3>1, <1>3 DEF Marked
      <4> QED BY <4>2, <4>3, <3>1, <3>2, <1>3, <1>6
    <3> QED BY <3>2, <3>3, <1>4, <1>9
  <2> QED BY <2>1, <2>2, <2>3 DEF TextsInv
<1>16. OrderInv'
  BY <1>4, FrameOrder
<1>17. BlocksInv => BlocksInv'
  <2>1. SUFFICES ASSUME BlocksInv PROVE BlocksInv'
    OBVIOUS
  <2>2. TransactionBlocks' = TransactionBlocks /\ OutermostTransaction' = OutermostTransaction
    BY <1>1, <1>2, UnionIsNoTransaction
  <2>3. \A d, i \in Nat : Head1(d, i) => BlockAt(d, i)' = BlockAt(d, i)
    BY <1>3, <1>4, FrameBlocks
  <2>4. /\ \A b, d \in TransactionBlocks' : b = d
        /\ group' # 0 <=> TransactionBlocks' # {}
    BY <2>1, <2>2, <1>1 DEF BlocksInv
  <2>5. ASSUME NEW d \in Nat, NEW i \in Nat, Head1(d, i)'
        PROVE  /\ d = Engine <=> BlockAt(d, i)' = 0
               /\ BlockAt(d, i)' <= IdAt(d, i)'
               /\ group' # 0 /\ d = group' => BlockAt(d, i)' = OutermostTransaction'
               /\ group' # 0 /\ d # group' => IdAt(d, i)' < OutermostTransaction'
    BY <2>1, <2>2, <2>3, <2>5, <1>1, <1>4 DEF BlocksInv
  <2>6. ASSUME NEW d \in Nat, NEW i \in Nat, NEW c \in Nat, NEW m \in Nat, Head1(d, i)', Head1(c, m)'
        PROVE  d = c <=> BlockAt(d, i)' = BlockAt(c, m)'
    BY <2>1, <2>3, <2>6, <1>4 DEF BlocksInv
  <2> QED BY <2>4, <2>5, <2>6 DEF BlocksInv
<1> QED BY <1>10, <1>11, <1>12, <1>13, <1>14, <1>15, <1>16, <1>17

(* An exception that is caught outside the block it ends keeps the         *)
(* invariant.                                                              *)
LEMMA ThrowAndCatchKeeps ==
  ASSUME Safe, ThrowAndCatch
  PROVE  Safe' /\ (BlocksInv => BlocksInv')
<1>1. CASE Last(blocks).kind = "transaction"
  <2>1. Drop(Last(blocks))
    BY DEF ThrowAndCatch
  <2>2. Marked
    BY <2>1, DropIs DEF Safe
  <2> QED BY <1>1, <2>2, TransactionEnds DEF ThrowAndCatch, Building
<1>2. CASE Last(blocks).kind # "transaction"
  BY <1>2, UnionThrows
<1> QED BY <1>1, <1>2

(* The end of a transaction { } keeps the invariant. *)
LEMMA EndTransactionKeeps ==
  ASSUME Safe, EndTransaction
  PROVE  Safe' /\ (BlocksInv => BlocksInv')
<1>1. Marked
  BY UnmarkedIs DEF Safe, EndTransaction
<1> QED BY <1>1, TransactionEnds DEF EndTransaction, InnermostIs, MayWrite, Building, Forget

(* Steps that change neither the containers nor the blocks. *)
LEMMA QuietKeeps ==
  ASSUME Safe, StartJoin \/ Throw \/ BlockReturns \/ UNCHANGED vars
  PROVE  Safe' /\ (BlocksInv => BlocksInv')
<1> USE DEF Safe
<1>1. /\ UNCHANGED <<containers, group, unions, blocks, written>>
      /\ (join' = 0 \/ join' = SelectContainer \/ join' = join)
      /\ handles' \subseteq handles
  BY DEF StartJoin, Throw, BlockReturns, vars, Forget
<1>2. TypesInv'
  <2>1. CASE StartJoin
    <3>1. SelectContainer \in Nat
      BY TargetsAre, EngineIs
    <3> QED BY <2>1, <3>1, <1>1 DEF StartJoin, TypesInv
  <2>2. CASE Throw
    BY <2>2 DEF Throw, TypesInv
  <2>3. CASE BlockReturns
    BY <2>3 DEF BlockReturns, TypesInv
  <2>4. CASE UNCHANGED vars
    BY <2>4 DEF vars, TypesInv
  <2> QED BY <2>1, <2>2, <2>3, <2>4
<1>3. /\ GroupPlaces' = GroupPlaces /\ Executed' = Executed /\ Live' = Live
      /\ SelectContainer' = SelectContainer
      /\ \A d, i \in Nat : Head1(d, i)' <=> Head1(d, i)
      /\ \A d, i \in Nat : IdAt(d, i)' = IdAt(d, i)
      /\ \A d, i, p \in Nat : Place(d, i, p)' <=> Place(d, i, p)
      /\ \A d, i, j \in Nat : TextAt(d, i, j)' = TextAt(d, i, j)
  BY <1>1, SameContainers DEF SelectContainer, StatementContainer
<1>4. \A d, i, j \in Nat : Spot(d, i, j)' <=> Spot(d, i, j)
  BY <1>1, <1>3 DEF Spot
<1>5. ContainersInv'
  BY <1>1, <1>3 DEF ContainersInv
<1>6. HandlesInv'
  BY <1>1, <1>3 DEF HandlesInv
<1>7. NumbersInv'
  BY <1>1 DEF NumbersInv
<1>8. UnionsInv'
  <2>1. PICK f \in [DOMAIN unions -> DOMAIN blocks] : Pairs(f) /\ Within(f)
    BY DEF UnionsInv
  <2>2. Pairs(f)' /\ Within(f)'
    BY <2>1, <1>1, <1>3, <1>4 DEF Pairs, Within
  <2> QED BY <2>1, <2>2, <1>1 DEF UnionsInv
<1>9. TextsInv'
  BY <1>1, <1>3, <1>4, UnmarkedIs, FrameTexts
<1>10. OrderInv'
  BY <1>3, FrameOrder
<1>11. BlocksInv => BlocksInv'
  <2>1. \A d, i \in Nat : BlockAt(d, i)' = BlockAt(d, i)
    BY <1>1, <1>3 DEF BlockAt
  <2>2. TransactionBlocks' = TransactionBlocks /\ OutermostTransaction' = OutermostTransaction
    BY <1>1 DEF TransactionBlocks, OutermostTransaction
  <2> QED BY <2>1, <2>2, <1>1, <1>3 DEF BlocksInv
<1> QED BY <1>2, <1>5, <1>6, <1>7, <1>8, <1>9, <1>10, <1>11

-----------------------------------------------------------------------------
(* The beginning of a block *)

(* A block that begins is the innermost one, and begins at the next        *)
(* statement.                                                              *)
LEMMA EntersBlock ==
  ASSUME TypesInv, NumbersInv, NEW kind \in {"transaction", "union"}, Enter(kind), written' = written
  PROVE  LET n == Len(blocks) + 1
         IN  /\ blocks' \in Seq(Block) /\ n \in Nat /\ n > 0
             /\ DOMAIN blocks = 1 .. (n - 1) /\ DOMAIN blocks' = 1 .. n
             /\ \A b \in DOMAIN blocks : blocks'[b] = blocks[b] /\ b \in DOMAIN blocks' /\ b < n
             /\ \A b \in DOMAIN blocks' : b = n \/ b \in DOMAIN blocks
             /\ blocks'[n].kind = kind /\ blocks'[n].number = Len(written) + 1
             /\ stage = "building" /\ join = 0 /\ handles' = {}
             /\ NumbersInv' /\ HandlesInv'
<1> DEFINE n == Len(blocks) + 1
           b1 == [kind |-> kind, number |-> Len(written) + 1]
<1>1. /\ blocks' = Append(blocks, b1) /\ stage = "building" /\ join = 0 /\ handles' = {}
  BY DEF Enter, MayWrite, Building, Forget
<1>2. b1 \in Block /\ b1.kind = kind /\ b1.number = Len(written) + 1 /\ Len(written) \in Nat
  BY DEF TypesInv, Block
<1> HIDE DEF b1
<1>3. blocks \in Seq(Block) /\ Len(blocks) \in Nat /\ DOMAIN blocks = 1 .. Len(blocks)
  BY DEF TypesInv
<1>4. /\ blocks' \in Seq(Block) /\ Len(blocks') = Len(blocks) + 1 /\ blocks'[Len(blocks) + 1] = b1
      /\ \A b \in 1 .. Len(blocks) : blocks'[b] = blocks[b]
  BY <1>1, <1>2, <1>3, AppendProperties
<1>5. /\ n \in Nat /\ n > 0 /\ DOMAIN blocks = 1 .. (n - 1) /\ DOMAIN blocks' = 1 .. n
  BY <1>3, <1>4
<1>6. /\ \A b \in DOMAIN blocks : blocks'[b] = blocks[b] /\ b \in DOMAIN blocks' /\ b < n
      /\ \A b \in DOMAIN blocks' : b = n \/ b \in DOMAIN blocks
  BY <1>3, <1>4, <1>5, Ranges
<1>7. \A b \in DOMAIN blocks : blocks[b].number \in Nat
  <2>1. \A b \in DOMAIN blocks : blocks[b] \in Block
    BY <1>3
  <2> QED BY <2>1 DEF Block
<1>8. blocks'[n] = b1
  BY <1>4
<1> HIDE DEF n
<1>9. ASSUME NEW b \in DOMAIN blocks', NEW d \in DOMAIN blocks'
      PROVE  /\ 1 <= blocks'[b].number /\ blocks'[b].number <= Len(written) + 1
             /\ b <= d => blocks'[b].number <= blocks'[d].number
  <2>1. CASE b \in DOMAIN blocks /\ d \in DOMAIN blocks
    BY <2>1, <1>6 DEF NumbersInv
  <2>2. CASE b \in DOMAIN blocks /\ d = n
    BY <2>2, <1>2, <1>6, <1>8 DEF NumbersInv
  <2>3. CASE b = n /\ d \in DOMAIN blocks
    BY <2>3, <1>2, <1>5, <1>6, <1>8
  <2>4. CASE b = n /\ d = n
    BY <2>4, <1>2, <1>8
  <2> QED BY <2>1, <2>2, <2>3, <2>4, <1>6
<1>10. NumbersInv'
  BY <1>9 DEF NumbersInv
<1>11. HandlesInv'
  BY <1>1 DEF HandlesInv
<1> QED BY <1>1, <1>2, <1>4, <1>5, <1>6, <1>8, <1>10, <1>11 DEF n

(* The beginning of a UNION { } keeps the invariant: its group is new. *)
LEMMA BeginUnionKeeps ==
  ASSUME Safe, BeginUnion
  PROVE  Safe' /\ (BlocksInv => BlocksInv')
<1> USE DEF Safe
<1> DEFINE g == Len(containers) + 1
           n == Len(blocks) + 1
           k1 == Len(unions) + 1
<1>1. /\ Enter("union") /\ containers' = Append(containers, <<>>) /\ unions' = Append(unions, g)
      /\ UNCHANGED <<group, join, written, stage>>
  BY DEF BeginUnion
<1>2. /\ blocks' \in Seq(Block) /\ n \in Nat /\ n > 0
      /\ DOMAIN blocks = 1 .. (n - 1) /\ DOMAIN blocks' = 1 .. n
      /\ \A b \in DOMAIN blocks : blocks'[b] = blocks[b] /\ b \in DOMAIN blocks' /\ b < n
      /\ \A b \in DOMAIN blocks' : b = n \/ b \in DOMAIN blocks
      /\ blocks'[n].kind = "union" /\ blocks'[n].number = Len(written) + 1
      /\ stage = "building" /\ join = 0 /\ handles' = {}
      /\ NumbersInv' /\ HandlesInv'
  BY <1>1, EntersBlock
<1>3. /\ containers' \in Seq(Seq(Entry)) /\ Len(containers') = g /\ containers'[g] = <<>>
      /\ g \in Nat /\ g > 0 /\ DOMAIN containers = 1 .. (g - 1) /\ DOMAIN containers' = 1 .. g
      /\ \A d \in DOMAIN containers : containers'[d] = containers[d]
  <2>1. containers \in Seq(Seq(Entry)) /\ <<>> \in Seq(Entry)
    BY DEF TypesInv
  <2>2. /\ containers' \in Seq(Seq(Entry)) /\ Len(containers') = Len(containers) + 1
        /\ containers'[Len(containers) + 1] = <<>>
        /\ \A d \in 1 .. Len(containers) : containers'[d] = containers[d]
    BY <2>1, <1>1, AppendProperties
  <2>3. Len(containers) \in Nat /\ DOMAIN containers = 1 .. Len(containers)
    BY EngineIs
  <2>4. DOMAIN containers' = 1 .. g
    BY <2>2
  <2>5. g \in Nat /\ g > 0 /\ DOMAIN containers = 1 .. (g - 1)
    BY <2>3
  <2> QED BY <2>2, <2>3, <2>4, <2>5
<1>4. /\ unions' \in Seq(Nat) /\ unions'[k1] = g /\ k1 \in Nat /\ k1 > 0
      /\ DOMAIN unions = 1 .. (k1 - 1) /\ DOMAIN unions' = 1 .. k1
      /\ \A k \in DOMAIN unions : unions'[k] = unions[k]
  <2>1. unions \in Seq(Nat)
    BY DEF TypesInv
  <2>2. /\ unions' \in Seq(Nat) /\ Len(unions') = Len(unions) + 1 /\ unions'[Len(unions) + 1] = g
        /\ \A k \in 1 .. Len(unions) : unions'[k] = unions[k]
    BY <2>1, <1>1, <1>3, AppendProperties
  <2> QED BY <2>1, <2>2
<1> HIDE DEF g, n, k1
<1>5. /\ g \notin DOMAIN containers /\ g \in DOMAIN containers'
      /\ \A d \in DOMAIN containers : d \in DOMAIN containers'
      /\ \A d \in DOMAIN containers' : d = g \/ d \in DOMAIN containers
  BY <1>3, Ranges
<1>6. /\ k1 \notin DOMAIN unions /\ k1 \in DOMAIN unions'
      /\ \A k \in DOMAIN unions : k \in DOMAIN unions' /\ k < k1
      /\ \A k \in DOMAIN unions' : k = k1 \/ k \in DOMAIN unions
  BY <1>4, Ranges
<1>7. Engine \in DOMAIN containers /\ containers'[Engine] = containers[Engine] /\ Engine # g
  BY <1>3, <1>5, EngineIs
<1>8. GroupPlaces' = GroupPlaces /\ Groups' = Groups /\ Executed' = Executed
  BY <1>7 DEF GroupPlaces, Groups, Executed
<1>9. Live' = Live \union {g}
  BY <1>4, <1>6, <1>8 DEF Live
<1>10. Executed \subseteq Live /\ Live \subseteq DOMAIN containers
  BY TargetsAre
<1>11. /\ \A d, i, j \in Nat : Spot(d, i, j)' <=> Spot(d, i, j)
       /\ \A d, i, j \in Nat : Spot(d, i, j) => TextAt(d, i, j)' = TextAt(d, i, j) /\ d # g
       /\ \A d, i \in Nat : Head1(d, i)' <=> Head1(d, i)
       /\ \A d, i \in Nat : Head1(d, i) => IdAt(d, i)' = IdAt(d, i)
       /\ \A d, i, p \in Nat : Place(d, i, p)' <=> Place(d, i, p)
  <2>1. ASSUME NEW d \in Nat, NEW i \in Nat, NEW j \in Nat
        PROVE  /\ Spot(d, i, j)' <=> Spot(d, i, j)
               /\ Spot(d, i, j) => TextAt(d, i, j)' = TextAt(d, i, j) /\ d # g
    <3>1. CASE d = g
      BY <3>1, <1>3, <1>5, <1>10 DEF Spot
    <3>2. CASE d # g
      BY <3>2, <1>3, <1>9, <1>10 DEF Spot, TextAt
    <3> QED BY <3>1, <3>2
  <2>2. ASSUME NEW d \in Nat, NEW i \in Nat
        PROVE  /\ Head1(d, i)' <=> Head1(d, i)
               /\ Head1(d, i) => IdAt(d, i)' = IdAt(d, i)
    BY <1>3, <1>8, <1>10 DEF Head1, IdAt
  <2>3. \A d, i, p \in Nat : Place(d, i, p)' <=> Place(d, i, p)
    BY <1>7, <1>8 DEF Place
  <2> QED BY <2>1, <2>2, <2>3
<1>12. TypesInv'
  <2>1. containers' # <<>>
    BY <1>3, EmptySeq
  <2> QED BY <2>1, <1>1, <1>2, <1>3, <1>4 DEF TypesInv
<1>13. ContainersInv'
  <2>1. /\ \A i \in GroupPlaces' :
             /\ containers'[Engine][i].group \in DOMAIN containers' \ {Engine}
             /\ containers'[Engine][i].id = 0
        /\ \A i, m \in GroupPlaces' : containers'[Engine][i].group = containers'[Engine][m].group => i = m
    BY <1>5, <1>7, <1>8 DEF ContainersInv
  <2>2. /\ \A k \in DOMAIN unions' : unions'[k] \in DOMAIN containers' \ Executed'
        /\ \A k, l \in DOMAIN unions' : unions'[k] = unions'[l] => k = l
    <3>1. \A k \in DOMAIN unions : unions[k] \in DOMAIN containers \ Executed
      BY DEF ContainersInv
    <3>2. \A k, l \in DOMAIN unions : unions[k] = unions[l] => k = l
      BY DEF ContainersInv
    <3>3. ASSUME NEW k \in DOMAIN unions' PROVE unions'[k] \in DOMAIN containers' \ Executed'
      BY <3>1, <1>4, <1>5, <1>6, <1>8, <1>10
    <3>4. ASSUME NEW k \in DOMAIN unions', NEW l \in DOMAIN unions', unions'[k] = unions'[l]
          PROVE  k = l
      BY <3>1, <3>2, <3>4, <1>4, <1>5, <1>6
    <3> QED BY <3>3, <3>4
  <2>3. ASSUME NEW d \in DOMAIN containers', NEW i \in DOMAIN containers'[d]
        PROVE  /\ containers'[d][i].id <= Len(written')
               /\ IsGroup(containers'[d][i]) => d = Engine
               /\ ~IsGroup(containers'[d][i]) => containers'[d][i].clauses # <<>>
    <3>1. d # g
      BY <1>3
    <3>2. d \in DOMAIN containers /\ containers'[d] = containers[d]
      BY <3>1, <1>3, <1>5
    <3> QED BY <3>2, <1>1 DEF ContainersInv
  <2>4. group' # 0 => containers'[Engine] # <<>> /\ Last(containers'[Engine]).group = group'
    BY <1>1, <1>7 DEF ContainersInv
  <2> QED BY <2>1, <2>2, <2>3, <2>4, <1>1, <1>2 DEF ContainersInv
<1>14. UnionsInv'
  <2>1. PICK f \in [DOMAIN unions -> DOMAIN blocks] : Pairs(f) /\ Within(f)
    BY DEF UnionsInv
  <2>2. PICK h : h = [k \in DOMAIN unions' |-> IF k = k1 THEN n ELSE f[k]]
    OBVIOUS
  <2>3. h[k1] = n /\ \A k \in DOMAIN unions : h[k] = f[k] /\ f[k] \in DOMAIN blocks
    BY <2>1, <2>2, <1>6
  <2>4. h \in [DOMAIN unions' -> DOMAIN blocks']
    <3>1. \A k \in DOMAIN unions' : h[k] \in DOMAIN blocks'
      BY <2>3, <1>2, <1>6
    <3> QED BY <2>2, <3>1
  <2>5. Pairs(h)'
    <3>1. \A k \in DOMAIN unions' : blocks'[h[k]].kind = "union"
      BY <2>1, <2>3, <1>2, <1>6 DEF Pairs
    <3>2. ASSUME NEW k \in DOMAIN unions', NEW l \in DOMAIN unions', k < l PROVE h[k] < h[l]
      <4>1. k \in DOMAIN unions
        BY <3>2, <1>4, <1>6
      <4>2. CASE l \in DOMAIN unions
        BY <4>1, <4>2, <3>2, <2>1, <2>3 DEF Pairs
      <4>3. CASE l = k1
        BY <4>1, <4>3, <2>3, <1>2
      <4> QED BY <4>2, <4>3, <1>6
    <3>3. ASSUME NEW b \in DOMAIN blocks', blocks'[b].kind = "union"
          PROVE  \E k \in DOMAIN unions' : h[k] = b
      <4>1. CASE b = n
        BY <4>1, <2>3, <1>6
      <4>2. CASE b \in DOMAIN blocks
        <5>1. PICK k \in DOMAIN unions : f[k] = b
          BY <4>2, <3>3, <2>1, <1>2 DEF Pairs
        <5> QED BY <5>1, <2>3, <1>6
      <4> QED BY <4>1, <4>2, <1>2
    <3> QED BY <3>1, <3>2, <3>3 DEF Pairs
  <2>6. Within(h)'
    <3>1. SUFFICES ASSUME NEW k \in DOMAIN unions', NEW d \in Nat, NEW i \in Nat, NEW j \in Nat,
                          d = unions'[k], Spot(d, i, j)'
                   PROVE  TextAt(d, i, j)'.id >= blocks'[h[k]].number
      BY DEF Within
    <3>2. Spot(d, i, j) /\ TextAt(d, i, j)' = TextAt(d, i, j) /\ d # g
      BY <3>1, <1>11
    <3>3. k \in DOMAIN unions /\ d = unions[k]
      BY <3>1, <3>2, <1>4, <1>6
    <3>4. blocks'[h[k]] = blocks[f[k]]
      BY <3>3, <2>3, <1>2
    <3>5. TextAt(d, i, j).id >= blocks[f[k]].number
      BY <3>2, <3>3, <2>1 DEF Within
    <3> QED BY <3>2, <3>4, <3>5
  <2> QED BY <2>4, <2>5, <2>6 DEF UnionsInv
<1>15. Marked
  BY <1>1, UnmarkedIs
<1>16. TextsInv'
  BY <1>11, <1>15, FrameTexts
<1>17. OrderInv'
  BY <1>11, FrameOrder
<1>18. TransactionBlocks' = TransactionBlocks
  BY <1>2 DEF TransactionBlocks
<1>19. OutermostTransaction' = OutermostTransaction
  <2>1. CASE TransactionBlocks = {}
    BY <2>1, <1>18 DEF OutermostTransaction
  <2>2. CASE TransactionBlocks # {}
    <3> DEFINE first == CHOOSE b \in TransactionBlocks : \A d \in TransactionBlocks : b <= d
    <3>1. TransactionBlocks \subseteq Nat
      BY DEF TransactionBlocks, TypesInv
    <3>2. first \in TransactionBlocks
      BY <3>1, <2>2, NatMin
    <3>3. OutermostTransaction' = blocks'[CHOOSE b \in TransactionBlocks' : \A d \in TransactionBlocks' : b <= d].number
      BY <2>2, <1>18 DEF OutermostTransaction
    <3>4. OutermostTransaction' = blocks'[first].number
      BY <3>3, <1>18
    <3>5. OutermostTransaction = blocks[first].number
      BY <2>2 DEF OutermostTransaction
    <3> HIDE DEF first
    <3>6. blocks'[first] = blocks[first]
      BY <3>2, <1>2 DEF TransactionBlocks
    <3> QED BY <3>4, <3>5, <3>6
  <2> QED BY <2>1, <2>2
<1>20. BlocksInv => BlocksInv'
  <2>1. \A d, i \in Nat : Head1(d, i) => BlockAt(d, i)' = BlockAt(d, i)
    BY <1>11, <1>15, FrameBlocks
  <2>2. SUFFICES ASSUME BlocksInv PROVE BlocksInv'
    OBVIOUS
  <2>3. /\ \A b, d \in TransactionBlocks' : b = d
        /\ group' # 0 <=> TransactionBlocks' # {}
    BY <2>2, <1>1, <1>18 DEF BlocksInv
  <2>4. ASSUME NEW d \in Nat, NEW i \in Nat, Head1(d, i)'
        PROVE  /\ d = Engine <=> BlockAt(d, i)' = 0
               /\ BlockAt(d, i)' <= IdAt(d, i)'
               /\ group' # 0 /\ d = group' => BlockAt(d, i)' = OutermostTransaction'
               /\ group' # 0 /\ d # group' => IdAt(d, i)' < OutermostTransaction'
    BY <2>1, <2>2, <2>4, <1>1, <1>11, <1>19 DEF BlocksInv
  <2>5. ASSUME NEW d \in Nat, NEW i \in Nat, NEW c \in Nat, NEW m \in Nat, Head1(d, i)', Head1(c, m)'
        PROVE  d = c <=> BlockAt(d, i)' = BlockAt(c, m)'
    BY <2>1, <2>2, <2>5, <1>11 DEF BlocksInv
  <2> QED BY <2>3, <2>4, <2>5 DEF BlocksInv
<1> QED BY <1>2, <1>12, <1>13, <1>14, <1>16, <1>17, <1>20

(* What a new transaction group changes in the containers: an entry of the *)
(* engine, and an empty container.                                         *)
LEMMA GroupBegins ==
  ASSUME TypesInv, ContainersInv, BeginTransaction, group = 0
  PROVE  LET g == Len(containers) + 1
             n == Len(containers[Engine]) + 1
         IN  /\ containers' \in Seq(Seq(Entry)) /\ containers' # <<>> /\ group' = g
             /\ g \in Nat /\ g > 0 /\ g \notin DOMAIN containers /\ g # Engine
             /\ DOMAIN containers' = DOMAIN containers \union {g}
             /\ containers'[g] = <<>>
             /\ \A d \in DOMAIN containers : d # Engine => containers'[d] = containers[d]
             /\ n \in Nat /\ n > 0 /\ n \notin DOMAIN containers[Engine]
             /\ DOMAIN containers'[Engine] = DOMAIN containers[Engine] \union {n}
             /\ \A i \in DOMAIN containers[Engine] : containers'[Engine][i] = containers[Engine][i]
             /\ containers'[Engine][n] = GroupEntry(g)
             /\ containers'[Engine] # <<>> /\ Last(containers'[Engine]) = GroupEntry(g)
<1> DEFINE g == Len(containers) + 1
           n == Len(containers[Engine]) + 1
           grown == Append(containers[Engine], GroupEntry(g))
           mid == [containers EXCEPT ![Engine] = grown]
<1>1. containers' = Append(mid, <<>>) /\ group' = g
  BY DEF BeginTransaction
<1>2. containers \in Seq(Seq(Entry)) /\ Len(containers) \in Nat /\ Len(containers) > 0
      /\ DOMAIN containers = 1 .. Len(containers) /\ Engine \in DOMAIN containers /\ Engine = 1
  BY EngineIs DEF TypesInv
<1>3. containers[Engine] \in Seq(Entry) /\ Len(containers[Engine]) \in Nat
      /\ DOMAIN containers[Engine] = 1 .. Len(containers[Engine])
  BY <1>2
<1>4. g \in Nat /\ g > 0 /\ g # Engine /\ g \notin DOMAIN containers
  BY <1>2
<1> HIDE DEF g
<1>5. GroupEntry(g) \in Entry
  BY <1>4 DEF GroupEntry, Entry
<1>6. /\ grown \in Seq(Entry) /\ Len(grown) = n /\ grown[n] = GroupEntry(g)
      /\ \A i \in 1 .. Len(containers[Engine]) : grown[i] = containers[Engine][i]
  BY <1>3, <1>5, AppendProperties
<1>7. /\ n \in Nat /\ n > 0 /\ n \notin DOMAIN containers[Engine]
      /\ DOMAIN grown = DOMAIN containers[Engine] \union {n}
  <2>1. n \in Nat /\ n > 0 /\ n \notin DOMAIN containers[Engine]
    BY <1>3
  <2>2. DOMAIN grown = 1 .. n
    BY <1>6
  <2>3. \A i \in 1 .. n : i # n => i \in 1 .. Len(containers[Engine])
    BY <1>3
  <2>4. \A i \in 1 .. Len(containers[Engine]) : i \in 1 .. n
    BY <1>3
  <2> QED BY <2>1, <2>2, <2>3, <2>4, <1>3
<1>8. grown # <<>> /\ Last(grown) = GroupEntry(g)
  BY <1>6, <1>7 DEF Last
<1> HIDE DEF n, grown
<1>9. /\ mid \in Seq(Seq(Entry)) /\ Len(mid) = Len(containers) /\ mid[Engine] = grown
      /\ DOMAIN mid = DOMAIN containers
      /\ \A d \in DOMAIN containers : d # Engine => mid[d] = containers[d]
  BY <1>2, <1>6, ExceptSeq
<1> HIDE DEF mid
<1>10. /\ containers' \in Seq(Seq(Entry)) /\ Len(containers') = Len(containers) + 1
       /\ containers'[Len(containers) + 1] = <<>>
       /\ \A d \in 1 .. Len(containers) : containers'[d] = mid[d]
  <2>1. <<>> \in Seq(Entry) /\ Len(mid) \in Nat
    BY <1>2, <1>9
  <2>2. /\ containers' \in Seq(Seq(Entry)) /\ Len(containers') = Len(mid) + 1
        /\ containers'[Len(mid) + 1] = <<>>
        /\ \A d \in 1 .. Len(mid) : containers'[d] = mid[d]
    BY <1>1, <1>9, <2>1, AppendProperties
  <2> QED BY <2>2, <1>9
<1>11. DOMAIN containers' = DOMAIN containers \union {g}
  <2>1. DOMAIN containers' = 1 .. (Len(containers) + 1)
    BY <1>10
  <2>2. \A i \in 1 .. (Len(containers) + 1) : i # Len(containers) + 1 => i \in 1 .. Len(containers)
    BY <1>2
  <2>3. \A i \in 1 .. Len(containers) : i \in 1 .. (Len(containers) + 1)
    BY <1>2
  <2>4. Len(containers) + 1 \in 1 .. (Len(containers) + 1)
    BY <1>2
  <2> QED BY <2>1, <2>2, <2>3, <2>4, <1>2 DEF g
<1>12. containers'[g] = <<>> /\ containers'[Engine] = grown
       /\ \A d \in DOMAIN containers : d # Engine => containers'[d] = containers[d]
  BY <1>2, <1>9, <1>10 DEF g
<1>13. containers' # <<>>
  BY <1>2, <1>10, EmptySeq
<1> QED BY <1>1, <1>4, <1>6, <1>7, <1>8, <1>10, <1>11, <1>12, <1>13, <1>3 DEF g, n

(* A transaction inside of a UNION or a transaction leaves the UNIONs. *)
LEMMA TransactionInUnions ==
  ASSUME TypesInv, UnionsInv, unions' = unions,
         \A d, i, j \in Nat : Spot(d, i, j)' <=> Spot(d, i, j),
         \A d, i, j \in Nat : Spot(d, i, j) => TextAt(d, i, j)' = TextAt(d, i, j),
         \A b \in DOMAIN blocks : blocks'[b] = blocks[b] /\ b \in DOMAIN blocks',
         \A b \in DOMAIN blocks' : b \notin DOMAIN blocks => blocks'[b].kind = "transaction"
  PROVE  UnionsInv'
<1>1. PICK f \in [DOMAIN unions -> DOMAIN blocks] : Pairs(f) /\ Within(f)
  BY DEF UnionsInv
<1>2. \A k \in DOMAIN unions : f[k] \in DOMAIN blocks /\ blocks'[f[k]] = blocks[f[k]] /\ f[k] \in DOMAIN blocks'
  BY <1>1
<1>3. f \in [DOMAIN unions' -> DOMAIN blocks']
  BY <1>2
<1>4. Pairs(f)'
  <2>1. ASSUME NEW b \in DOMAIN blocks', blocks'[b].kind = "union"
        PROVE  \E k \in DOMAIN unions' : f[k] = b
    <3>1. b \in DOMAIN blocks
      BY <2>1
    <3> QED BY <1>1, <2>1, <3>1 DEF Pairs
  <2>2. /\ \A k \in DOMAIN unions' : blocks'[f[k]].kind = "union"
        /\ \A k, l \in DOMAIN unions' : k < l => f[k] < f[l]
    BY <1>1, <1>2 DEF Pairs
  <2> QED BY <2>1, <2>2 DEF Pairs
<1>5. Within(f)'
  <2>1. SUFFICES ASSUME NEW k \in DOMAIN unions', NEW d \in Nat, NEW i \in Nat, NEW j \in Nat,
                        d = unions'[k], Spot(d, i, j)'
                 PROVE  TextAt(d, i, j)'.id >= blocks'[f[k]].number
    BY DEF Within
  <2>2. Spot(d, i, j) /\ TextAt(d, i, j)' = TextAt(d, i, j) /\ blocks'[f[k]] = blocks[f[k]]
    BY <2>1, <1>2
  <2> QED BY <1>1, <2>1, <2>2 DEF Within
<1> QED BY <1>3, <1>4, <1>5 DEF UnionsInv

(* The beginning of a transaction { } keeps the invariant; that blocks are *)
(* transactions, only outside of any other.                                *)
LEMMA BeginTransactionKeeps ==
  ASSUME Safe, BeginTransaction
  PROVE  Safe' /\ ("nest" \notin Freedom => (BlocksInv => BlocksInv'))
<1> USE DEF Safe
<1> DEFINE b1 == Len(blocks) + 1
           g == Len(containers) + 1
           n == Len(containers[Engine]) + 1
<1>1. /\ Enter("transaction") /\ UNCHANGED <<unions, join, written, stage>>
      /\ TransactionBlocks # {} => "nest" \in Freedom
      /\ group # 0 => UNCHANGED <<containers, group>>
  BY DEF BeginTransaction
<1>2. /\ blocks' \in Seq(Block)
      /\ \A b \in DOMAIN blocks : blocks'[b] = blocks[b] /\ b \in DOMAIN blocks'
      /\ \A b \in DOMAIN blocks' : b = b1 \/ b \in DOMAIN blocks
      /\ b1 \in DOMAIN blocks'
      /\ blocks'[b1].kind = "transaction" /\ blocks'[b1].number = Len(written) + 1
      /\ stage = "building" /\ join = 0 /\ handles' = {}
      /\ NumbersInv' /\ HandlesInv'
  BY <1>1, EntersBlock
<1> HIDE DEF b1
<1>3. Marked
  BY <1>1, UnmarkedIs
<1>4. CASE group # 0
  <2>1. UNCHANGED <<containers, group>>
    BY <1>1, <1>4
  <2>2. /\ GroupPlaces' = GroupPlaces /\ Executed' = Executed /\ Live' = Live
        /\ \A d, i \in Nat : Head1(d, i)' <=> Head1(d, i)
        /\ \A d, i \in Nat : IdAt(d, i)' = IdAt(d, i)
        /\ \A d, i, p \in Nat : Place(d, i, p)' <=> Place(d, i, p)
        /\ \A d, i, j \in Nat : TextAt(d, i, j)' = TextAt(d, i, j)
    BY <1>1, <2>1, SameContainers
  <2>3. \A d, i, j \in Nat : Spot(d, i, j)' <=> Spot(d, i, j)
    BY <2>1, <2>2 DEF Spot
  <2>4. TypesInv'
    BY <1>1, <1>2, <2>1 DEF TypesInv
  <2>5. ContainersInv'
    BY <1>1, <1>2, <2>1, <2>2 DEF ContainersInv
  <2>6. UnionsInv'
    BY <1>1, <1>2, <2>2, <2>3, TransactionInUnions
  <2>7. TextsInv'
    BY <1>3, <2>2, <2>3, FrameTexts
  <2>8. OrderInv'
    BY <2>2, FrameOrder
  <2>9. ASSUME "nest" \notin Freedom, BlocksInv PROVE FALSE
    BY <1>1, <1>4, <2>9 DEF BlocksInv
  <2> QED BY <1>2, <2>4, <2>5, <2>6, <2>7, <2>8, <2>9
<1>5. CASE group = 0
  <2>1. /\ containers' \in Seq(Seq(Entry)) /\ containers' # <<>> /\ group' = g
        /\ g \in Nat /\ g > 0 /\ g \notin DOMAIN containers /\ g # Engine
        /\ DOMAIN containers' = DOMAIN containers \union {g}
        /\ containers'[g] = <<>>
        /\ \A d \in DOMAIN containers : d # Engine => containers'[d] = containers[d]
        /\ n \in Nat /\ n > 0 /\ n \notin DOMAIN containers[Engine]
        /\ DOMAIN containers'[Engine] = DOMAIN containers[Engine] \union {n}
        /\ \A i \in DOMAIN containers[Engine] : containers'[Engine][i] = containers[Engine][i]
        /\ containers'[Engine][n] = GroupEntry(g)
        /\ containers'[Engine] # <<>> /\ Last(containers'[Engine]) = GroupEntry(g)
    BY <1>5, GroupBegins
  <2> HIDE DEF g, n
  <2>2. IsGroup(GroupEntry(g)) /\ GroupEntry(g).group = g /\ GroupEntry(g).id = 0
    BY <2>1 DEF IsGroup, GroupEntry
  <2>3. /\ Executed \subseteq DOMAIN containers /\ Live \subseteq DOMAIN containers
        /\ Executed \subseteq Live /\ Engine \in DOMAIN containers
        /\ g \notin Live /\ g \notin Executed /\ Engine \notin Groups
    BY <2>1, TargetsAre, EngineIs
  <2>4. /\ GroupPlaces' = GroupPlaces \union {n} /\ n \notin GroupPlaces
        /\ \A i \in GroupPlaces : containers'[Engine][i] = containers[Engine][i]
    BY <2>1, <2>2 DEF GroupPlaces
  <2>5. Groups' = Groups \union {g}
    BY <2>1, <2>2, <2>4 DEF Groups
  <2>6. Executed' = Executed \union {g} /\ Live' = Live \union {g}
    BY <2>5, <1>1 DEF Executed, Live
  <2>7. ASSUME NEW d \in Nat, NEW i \in Nat
        PROVE  /\ \A j \in Nat : Spot(d, i, j)' <=> Spot(d, i, j)
               /\ \A j \in Nat : Spot(d, i, j) => TextAt(d, i, j)' = TextAt(d, i, j)
               /\ Head1(d, i)' <=> Head1(d, i)
               /\ Head1(d, i) => IdAt(d, i)' = IdAt(d, i)
    <3>1. CASE d = g
      BY <3>1, <2>1, <2>3 DEF Spot, Head1
    <3>2. CASE d # g /\ d # Engine
      BY <3>2, <2>1, <2>3, <2>6 DEF Spot, Head1, TextAt, IdAt
    <3>3. CASE d = Engine /\ i = n
      BY <3>3, <2>1, <2>2 DEF Spot, Head1
    <3>4. CASE d = Engine /\ i # n
      BY <3>4, <2>1, <2>3, <2>6 DEF Spot, Head1, TextAt, IdAt
    <3> QED BY <3>1, <3>2, <3>3, <3>4
  <2>8. \A d, i, p \in Nat : Head1(d, i) => (Place(d, i, p)' <=> Place(d, i, p))
    <3>1. SUFFICES ASSUME NEW d \in Nat, NEW i \in Nat, NEW p \in Nat, Head1(d, i)
                   PROVE  Place(d, i, p)' <=> Place(d, i, p)
      OBVIOUS
    <3>2. d # g
      BY <3>1, <2>3 DEF Head1
    <3> QED BY <3>2, <2>1, <2>2, <2>4 DEF Place
  <2>9. TypesInv'
    BY <1>1, <1>2, <2>1 DEF TypesInv
  <2>10. ContainersInv'
    <3>1. \A i \in GroupPlaces : /\ containers[Engine][i].group \in DOMAIN containers \ {Engine}
                                 /\ containers[Engine][i].id = 0
      BY DEF ContainersInv
    <3>2. \A i \in GroupPlaces' :
            /\ containers'[Engine][i].group \in DOMAIN containers' \ {Engine}
            /\ containers'[Engine][i].id = 0
      BY <3>1, <2>1, <2>2, <2>4
    <3>3. ASSUME NEW i \in GroupPlaces', NEW m \in GroupPlaces',
                 containers'[Engine][i].group = containers'[Engine][m].group
          PROVE  i = m
      <4>1. CASE i \in GroupPlaces /\ m \in GroupPlaces
        BY <4>1, <3>3, <2>4 DEF ContainersInv
      <4>2. CASE i = n /\ m \in GroupPlaces
        BY <4>2, <3>1, <3>3, <2>1, <2>2, <2>4
      <4>3. CASE i \in GroupPlaces /\ m = n
        BY <4>3, <3>1, <3>3, <2>1, <2>2, <2>4
      <4> QED BY <4>1, <4>2, <4>3, <2>4
    <3>4. /\ \A k \in DOMAIN unions' : unions'[k] \in DOMAIN containers' \ Executed'
          /\ \A k, l \in DOMAIN unions' : unions'[k] = unions'[l] => k = l
      BY <1>1, <2>1, <2>6 DEF ContainersInv
    <3>5. ASSUME NEW d \in DOMAIN containers', NEW i \in DOMAIN containers'[d]
          PROVE  /\ containers'[d][i].id <= Len(written')
                 /\ IsGroup(containers'[d][i]) => d = Engine
                 /\ ~IsGroup(containers'[d][i]) => containers'[d][i].clauses # <<>>
      <4>1. CASE d = Engine /\ i = n
        <5>1. Len(written) \in Nat
          BY DEF TypesInv
        <5> QED BY <4>1, <5>1, <2>1, <2>2, <1>1
      <4>2. CASE ~(d = Engine /\ i = n)
        <5>1. d # g
          BY <2>1
        <5>2. d \in DOMAIN containers /\ i \in DOMAIN containers[d] /\ containers'[d][i] = containers[d][i]
          BY <4>2, <5>1, <2>1
        <5> QED BY <5>2, <1>1 DEF ContainersInv
      <4> QED BY <4>1, <4>2
    <3> QED BY <3>2, <3>3, <3>4, <3>5, <2>1, <2>2, <1>1, <1>2 DEF ContainersInv
  <2>11. UnionsInv'
    BY <1>1, <1>2, <2>7, TransactionInUnions
  <2>12. TextsInv'
    BY <1>3, <2>7, FrameTexts
  <2>13. OrderInv'
    BY <2>7, <2>8, FrameOrder
  <2>14. ASSUME "nest" \notin Freedom, BlocksInv PROVE BlocksInv'
    <3>1. TransactionBlocks = {} /\ TransactionBlocks' = {b1}
      <4>1. TransactionBlocks = {}
        BY <1>1, <2>14
      <4>2. \A b \in TransactionBlocks' : b = b1
        BY <4>1, <1>2 DEF TransactionBlocks
      <4>3. b1 \in TransactionBlocks'
        BY <1>2 DEF TransactionBlocks
      <4> QED BY <4>1, <4>2, <4>3
    <3>2. OutermostTransaction' = Len(written) + 1
      <4> DEFINE first(T) == CHOOSE b \in T : \A d \in T : b <= d
      <4>1. OutermostTransaction' = blocks'[first(TransactionBlocks')].number
        BY <3>1 DEF OutermostTransaction
      <4>2. b1 \in Nat
        BY DEF TypesInv, b1
      <4>3. first({b1}) \in {b1}
        <5>1. \E b \in {b1} : \A d \in {b1} : b <= d
          BY <4>2
        <5> QED BY <5>1
      <4> QED BY <4>1, <4>3, <3>1, <1>2
    <3>3. \A d, i \in Nat : Head1(d, i) => BlockAt(d, i)' = BlockAt(d, i)
      BY <1>3, <2>7, FrameBlocks
    <3>4. \A d, i \in Nat : Head1(d, i) => IdAt(d, i) < Len(written) + 1 /\ d # g
      <4>1. SUFFICES ASSUME NEW d \in Nat, NEW i \in Nat, Head1(d, i)
                     PROVE  IdAt(d, i) < Len(written) + 1 /\ d # g
        OBVIOUS
      <4>2. IdAt(d, i) \in DOMAIN written
        BY <4>1, HeadsAreSpots
      <4>3. d # g
        BY <4>1, <2>3 DEF Head1
      <4> QED BY <4>2, <4>3 DEF TypesInv
    <3>5. ASSUME NEW d \in Nat, NEW i \in Nat, Head1(d, i)'
          PROVE  /\ d = Engine <=> BlockAt(d, i)' = 0
                 /\ BlockAt(d, i)' <= IdAt(d, i)'
                 /\ group' # 0 /\ d = group' => BlockAt(d, i)' = OutermostTransaction'
                 /\ group' # 0 /\ d # group' => IdAt(d, i)' < OutermostTransaction'
      BY <3>2, <3>3, <3>4, <3>5, <2>1, <2>7, <2>14 DEF BlocksInv
    <3>6. ASSUME NEW d \in Nat, NEW i \in Nat, NEW c \in Nat, NEW m \in Nat, Head1(d, i)', Head1(c, m)'
          PROVE  d = c <=> BlockAt(d, i)' = BlockAt(c, m)'
      BY <3>3, <3>6, <2>7, <2>14 DEF BlocksInv
    <3>7. /\ \A b, d \in TransactionBlocks' : b = d
          /\ group' # 0 <=> TransactionBlocks' # {}
      BY <3>1, <2>1
    <3> QED BY <3>5, <3>6, <3>7 DEF BlocksInv
  <2> QED BY <1>2, <2>9, <2>10, <2>11, <2>12, <2>13, <2>14
<1> QED BY <1>4, <1>5

-----------------------------------------------------------------------------
(* The invariant *)

(* The invariant holds of an empty block. *)
LEMMA InitIsSafe ==
  ASSUME Init
  PROVE  Safe /\ BlocksInv
<1>1. /\ containers = << <<>> >> /\ group = 0 /\ unions = <<>> /\ join = 0 /\ handles = {}
      /\ blocks = <<>> /\ written = <<>> /\ stage = "building"
  BY DEF Init
<1>2. /\ containers \in Seq(Seq(Entry)) /\ containers # <<>> /\ DOMAIN containers = {1}
      /\ containers[Engine] = <<>> /\ DOMAIN containers[Engine] = {}
      /\ DOMAIN unions = {} /\ DOMAIN blocks = {} /\ DOMAIN written = {}
  <2>1. <<>> \in Seq(Entry)
    OBVIOUS
  <2>2. containers \in Seq(Seq(Entry))
    BY <1>1, <2>1
  <2> QED BY <2>2, <1>1 DEF Engine
<1>3. TypesInv
  BY <1>1, <1>2 DEF TypesInv
<1>4. GroupPlaces = {} /\ Groups = {} /\ Executed = {Engine} /\ Live = {Engine}
  BY <1>2 DEF GroupPlaces, Groups, Executed, Live
<1>5. ContainersInv
  BY <1>1, <1>2, <1>4 DEF ContainersInv, Engine
<1>6. HandlesInv /\ NumbersInv
  BY <1>1, <1>2 DEF HandlesInv, NumbersInv
<1>7. \A c, i, j \in Nat : ~Spot(c, i, j)
  BY <1>2, <1>4 DEF Spot
<1>8. UnionsInv
  <2>1. PICK f : f = [k \in DOMAIN unions |-> 0]
    OBVIOUS
  <2>2. f \in [DOMAIN unions -> DOMAIN blocks] /\ Pairs(f) /\ Within(f)
    BY <2>1, <1>2 DEF Pairs, Within
  <2> QED BY <2>2 DEF UnionsInv
<1>9. TextsInv
  BY <1>2, <1>7 DEF TextsInv, SpotsDiffer, WrittenIsKept, SpotsAreWritten
<1>10. \A c, i \in Nat : ~Head1(c, i)
  BY <1>2, <1>4 DEF Head1
<1>11. OrderInv
  BY <1>10 DEF OrderInv
<1>12. BlocksInv
  BY <1>1, <1>2, <1>10 DEF BlocksInv, TransactionBlocks
<1> QED BY <1>3, <1>5, <1>6, <1>8, <1>9, <1>11, <1>12 DEF Safe

(* Every step keeps the invariant. *)
LEMMA NextIsSafe ==
  ASSUME Safe, [Next]_vars
  PROVE  Safe' /\ ("nest" \notin Freedom => (BlocksInv => BlocksInv'))
<1>1. ASSUME NEW k \in Class, AddStatement(k)
      PROVE  Safe' /\ (BlocksInv => BlocksInv')
  <2>1. Adds(k, StatementContainer)
    BY <1>1 DEF AddStatement, Adds, MayWrite, Building
  <2> QED BY <2>1, AddsKeep
<1>2. CASE Insert \/ Update \/ Delete \/ CreateOrDrop \/ Alter
  BY <1>1, <1>2, ClassIs DEF Insert, Update, Delete, CreateOrDrop, Alter
<1>3. ASSUME NEW k \in SelectClass, Select(k)
      PROVE  Safe' /\ (BlocksInv => BlocksInv')
  <2>1. Adds(k, SelectContainer)
    BY <1>3 DEF Select, Adds, MayWrite, Building
  <2>2. k \in Class
    BY ClassIs DEF SelectClass
  <2> QED BY <2>1, <2>2, AddsKeep
<1>4. CASE FinishJoin
  <2>1. join = SelectContainer
    BY <1>4 DEF FinishJoin, Safe, ContainersInv
  <2>2. Adds("join", SelectContainer)
    BY <1>4, <2>1 DEF FinishJoin, Adds, Building
  <2>3. "join" \in Class
    BY ClassIs
  <2> QED BY <2>2, <2>3, AddsKeep
<1>5. CASE StartJoin \/ Throw \/ BlockReturns \/ Over \/ UNCHANGED vars
  BY <1>5, QuietKeeps DEF Over
<1>6. ASSUME NEW h \in handles, NEW k \in Class, Refine(h, k)
      PROVE  Safe' /\ (BlocksInv => BlocksInv')
  BY <1>6, RefineKeeps
<1>7. CASE BeginTransaction
  BY <1>7, BeginTransactionKeeps
<1>8. CASE EndTransaction
  BY <1>8, EndTransactionKeeps
<1>9. CASE BeginUnion
  BY <1>9, BeginUnionKeeps
<1>10. CASE EndUnion
  BY <1>10, EndUnionKeeps
<1>11. CASE ThrowAndCatch
  BY <1>11, ThrowAndCatchKeeps
<1> QED BY <1>2, <1>3, <1>4, <1>5, <1>6, <1>7, <1>8, <1>9, <1>10, <1>11 DEF Next

(* The invariant holds always. *)
LEMMA AlwaysSafe == Spec => []Safe
<1>1. Init => Safe
  BY InitIsSafe
<1>2. Safe /\ [Next]_vars => Safe'
  BY NextIsSafe
<1> QED BY <1>1, <1>2, PTL DEF Spec

(* Without nested transactions, so does the invariant on blocks. *)
LEMMA AlwaysInBlocks ==
  ASSUME "nest" \notin Freedom
  PROVE  Spec => [](Safe /\ BlocksInv)
<1>1. Init => Safe /\ BlocksInv
  BY InitIsSafe
<1>2. Safe /\ BlocksInv /\ [Next]_vars => Safe' /\ BlocksInv'
  BY NextIsSafe
<1> QED BY <1>1, <1>2, PTL DEF Spec

-----------------------------------------------------------------------------
(* The plan *)

Run == [id : Nat, clauses : Clauses, group : Nat, part : BOOLEAN]

(* The execution r of the j-th text of the i-th entry of container c. *)
Runs(r, c, i, j) ==
  /\ c \in Executed /\ Spot(c, i, j)
  /\ r.id = TextAt(c, i, j).id /\ r.clauses = TextAt(c, i, j).clauses
  /\ r.group = IF c = Engine THEN 0 ELSE c
  /\ r.part = (j > 1)

(* The container of which the p-th entry of the engine is executed. *)
Source(p) == IF IsGroup(containers[Engine][p]) THEN containers[Engine][p].group ELSE Engine

(* r is the execution of the p-th entry of the engine. *)
Piece(r, p, row, col) ==
  /\ \A q \in 1 .. Len(r) : /\ Runs(r[q], Source(p), row[q], col[q])
                            /\ Source(p) = Engine => row[q] = p
  /\ \A i, j \in Nat : Spot(Source(p), i, j) /\ (Source(p) = Engine => i = p) =>
       \E q \in 1 .. Len(r) : row[q] = i /\ col[q] = j
  /\ \A q, o \in 1 .. Len(r) :
       q < o => row[q] < row[o] \/ (row[q] = row[o] /\ col[q] < col[o])

(* The execution of one statement has its texts in order. *)
LEMMA RunOfIs ==
  ASSUME TypesInv, ContainersInv, NEW c \in Executed, NEW i \in DOMAIN containers[c],
         ~IsGroup(containers[c][i]), NEW g, g = IF c = Engine THEN 0 ELSE c
  PROVE  LET r == RunOf(containers[c][i], g)
         IN  /\ r \in Seq(Run) /\ DOMAIN r = DOMAIN Texts(containers[c][i]) /\ DOMAIN r = 1 .. Len(r)
             /\ \A j \in DOMAIN r : Runs(r[j], c, i, j)
             /\ \A j : Spot(c, i, j) <=> j \in DOMAIN r
<1> DEFINE e == containers[c][i]
           r == RunOf(e, g)
<1>1. c \in Live /\ c \in DOMAIN containers /\ c \in Nat /\ g \in Nat /\ containers[c] \in Seq(Entry)
  BY TargetsAre, EngineIs DEF TypesInv
<1>2. e \in Entry /\ e.clauses # <<>>
  BY <1>1 DEF ContainersInv
<1>3. ~IsGroup(e)
  OBVIOUS
<1>4. \A j : TextAt(c, i, j) = Texts(e)[j]
  BY DEF TextAt
<1>5. \A j : Spot(c, i, j) <=> j \in DOMAIN Texts(e)
  BY <1>1 DEF Spot
<1> HIDE DEF e
<1>6. /\ Texts(e) \in Seq(Text) /\ DOMAIN Texts(e) = 1 .. Len(Texts(e)) /\ Len(Texts(e)) \in Nat
  <2>1. Texts(e) \in Seq(Text) /\ DOMAIN Texts(e) = 1 .. Len(Texts(e))
    BY <1>2, TextsAre
  <2> QED BY <2>1
<1>7. /\ DOMAIN r = DOMAIN Texts(e)
      /\ \A j \in DOMAIN Texts(e) :
           r[j] = [id |-> Texts(e)[j].id, clauses |-> Texts(e)[j].clauses, group |-> g, part |-> j > 1]
      /\ r = [j \in DOMAIN Texts(e) |-> r[j]]
  BY DEF RunOf
<1> HIDE DEF r
<1>8. ASSUME NEW j \in DOMAIN r PROVE r[j] \in Run /\ Runs(r[j], c, i, j)
  <2>1. j \in DOMAIN Texts(e) /\ j \in Nat
    BY <1>6, <1>7
  <2>2. Texts(e)[j] \in Text
    BY <2>1, <1>6
  <2>3. r[j] = [id |-> Texts(e)[j].id, clauses |-> Texts(e)[j].clauses, group |-> g, part |-> j > 1]
    BY <2>1, <1>7
  <2>4. r[j] \in Run
    BY <2>2, <2>3, <1>1 DEF Run, Text
  <2>5. Runs(r[j], c, i, j)
    <3>1. r[j].id = Texts(e)[j].id /\ r[j].clauses = Texts(e)[j].clauses /\ r[j].group = g
      BY <2>3
    <3>2. r[j].part = (j > 1)
      <4>1. ASSUME NEW t, NEW part, t = [id |-> Texts(e)[j].id, clauses |-> Texts(e)[j].clauses,
                                         group |-> g, part |-> part]
            PROVE  t.part = part
        BY <4>1
      <4> QED BY <2>3, <4>1
    <3>3. TextAt(c, i, j) = Texts(e)[j] /\ Spot(c, i, j)
      BY <2>1, <1>4, <1>5
    <3> QED BY <3>1, <3>2, <3>3 DEF Runs
  <2> QED BY <2>4, <2>5
<1>9. r \in Seq(Run) /\ DOMAIN r = 1 .. Len(r)
  <2>1. r \in [1 .. Len(Texts(e)) -> Run]
    BY <1>6, <1>7, <1>8
  <2>2. r \in Seq(Run)
    BY <2>1, <1>6
  <2> QED BY <2>2
<1> QED BY <1>5, <1>7, <1>8, <1>9 DEF r, e

(* The part of the plan that a statement in the engine's list makes. *)
LEMMA PieceOfStatement ==
  ASSUME TypesInv, ContainersInv, NEW p \in DOMAIN containers[Engine],
         ~IsGroup(containers[Engine][p])
  PROVE  LET r == RunOf(containers[Engine][p], 0)
         IN  r \in Seq(Run) /\ \E row, col : Piece(r, p, row, col)
<1> DEFINE r == RunOf(containers[Engine][p], 0)
<1>1. Engine \in Executed
  BY DEF Executed
<1>2. /\ r \in Seq(Run) /\ DOMAIN r = 1 .. Len(r)
      /\ \A j \in DOMAIN r : Runs(r[j], Engine, p, j)
      /\ \A j : Spot(Engine, p, j) <=> j \in DOMAIN r
  BY <1>1, RunOfIs
<1> HIDE DEF r
<1>3. Source(p) = Engine
  BY DEF Source
<1>4. PICK row, col : row = [q \in 1 .. Len(r) |-> p] /\ col = [q \in 1 .. Len(r) |-> q]
  OBVIOUS
<1>5. \A q \in 1 .. Len(r) : row[q] = p /\ col[q] = q
  BY <1>4
<1>6. Piece(r, p, row, col)
  BY <1>2, <1>3, <1>5 DEF Piece
<1> QED BY <1>2, <1>6 DEF r

(* The part of the plan that a transaction group makes. *)
LEMMA PieceOfGroup ==
  ASSUME TypesInv, ContainersInv, NEW p \in DOMAIN containers[Engine],
         IsGroup(containers[Engine][p])
  PROVE  LET g == containers[Engine][p].group
             r == RunOfAll(g, g)
         IN  r \in Seq(Run) /\ \E row, col : Piece(r, p, row, col)
<1> DEFINE g == containers[Engine][p].group
           s == [i \in DOMAIN containers[g] |-> RunOf(containers[g][i], g)]
           r == RunOfAll(g, g)
<1>1. g \in Groups /\ g \in Executed /\ Source(p) = g
  BY DEF GroupPlaces, Groups, Executed, Source
<1>2. g # Engine /\ g \in DOMAIN containers /\ containers[g] \in Seq(Entry) /\ g \in Nat
  BY <1>1, TargetsAre, EngineIs DEF TypesInv
<1>3. r = FlattenSeq(s)
  BY DEF RunOfAll
<1> HIDE DEF g
<1>4. DOMAIN containers[g] = 1 .. Len(containers[g]) /\ Len(containers[g]) \in Nat
  BY <1>2
<1>5. ASSUME NEW i \in DOMAIN containers[g]
      PROVE  /\ s[i] \in Seq(Run) /\ DOMAIN s[i] = 1 .. Len(s[i])
             /\ \A j \in DOMAIN s[i] : Runs(s[i][j], g, i, j)
             /\ \A j : Spot(g, i, j) <=> j \in DOMAIN s[i]
  <2>1. ~IsGroup(containers[g][i])
    BY <1>2 DEF ContainersInv
  <2>2. s[i] = RunOf(containers[g][i], g)
    OBVIOUS
  <2>3. g = IF g = Engine THEN 0 ELSE g
    BY <1>2
  <2> DEFINE t == RunOf(containers[g][i], g)
  <2>4. /\ t \in Seq(Run) /\ DOMAIN t = 1 .. Len(t)
        /\ \A j \in DOMAIN t : Runs(t[j], g, i, j)
        /\ \A j : Spot(g, i, j) <=> j \in DOMAIN t
    BY <2>1, <2>3, <1>1, RunOfIs
  <2> HIDE DEF s
  <2> QED BY <2>2, <2>4
<1>6. s \in Seq(Seq(Run)) /\ Len(s) = Len(containers[g])
  <2>1. s \in [1 .. Len(containers[g]) -> Seq(Run)]
    BY <1>4, <1>5
  <2> HIDE DEF s
  <2>2. s \in Seq(Seq(Run))
    BY <2>1, <1>4
  <2>3. DOMAIN s = 1 .. Len(containers[g])
    BY <2>1
  <2> QED BY <2>2, <2>3, <1>4
<1> HIDE DEF s, r
<1>7. r \in Seq(Run) /\ \E row, col : Joins(r, s, Len(s), row, col)
  BY <1>3, <1>6, Flattened
<1>8. PICK row, col : Joins(r, s, Len(s), row, col)
  BY <1>7
<1>9. ASSUME NEW q \in 1 .. Len(r)
      PROVE  Runs(r[q], g, row[q], col[q])
  <2>1. row[q] \in DOMAIN containers[g] /\ col[q] \in 1 .. Len(s[row[q]]) /\ r[q] = s[row[q]][col[q]]
    BY <1>4, <1>6, <1>8 DEF Joins
  <2> QED BY <2>1, <1>5
<1>10. ASSUME NEW i \in Nat, NEW j \in Nat, Spot(g, i, j)
       PROVE  \E q \in 1 .. Len(r) : row[q] = i /\ col[q] = j
  <2>1. i \in DOMAIN containers[g]
    BY <1>10 DEF Spot
  <2>2. j \in 1 .. Len(s[i]) /\ i \in 1 .. Len(s)
    BY <2>1, <1>4, <1>5, <1>6, <1>10
  <2> QED BY <2>2, <1>8 DEF Joins
<1>11. \A q, o \in 1 .. Len(r) : q < o => row[q] < row[o] \/ (row[q] = row[o] /\ col[q] < col[o])
  BY <1>8 DEF Joins
<1>12. Piece(r, p, row, col)
  BY <1>1, <1>2, <1>9, <1>10, <1>11 DEF Piece
<1> QED BY <1>7, <1>12 DEF r, g

(* The plan is one execution of every text of every executed container, in *)
(* the order of the engine's list, of the containers, and of the texts.    *)
Executes(plan, src, row, col) ==
  /\ \A p \in 1 .. Len(plan) : Runs(plan[p], src[p], row[p], col[p])
  /\ \A c, i, j \in Nat : c \in Executed /\ Spot(c, i, j) =>
       \E p \in 1 .. Len(plan) : src[p] = c /\ row[p] = i /\ col[p] = j
  /\ \A p, q \in 1 .. Len(plan) : p < q =>
       \/ \E a, b \in Nat : Place(src[p], row[p], a) /\ Place(src[q], row[q], b) /\ a < b
       \/ src[p] = src[q] /\ row[p] < row[q]
       \/ src[p] = src[q] /\ row[p] = row[q] /\ col[p] < col[q]

(* The plan executes every text of every executed container exactly once,  *)
(* in order.                                                               *)
LEMMA PlanIs ==
  ASSUME TypesInv, ContainersInv
  PROVE  Plan \in Seq(Run) /\ \E src, row, col : Executes(Plan, src, row, col)
<1> DEFINE box == containers[Engine]
           s == [i \in DOMAIN box |->
                   LET e == box[i] IN IF IsGroup(e) THEN RunOfAll(e.group, e.group) ELSE RunOf(e, 0)]
<1>1. box \in Seq(Entry) /\ DOMAIN box = 1 .. Len(box) /\ Len(box) \in Nat
  BY EngineIs DEF TypesInv
<1>2. Plan = FlattenSeq(s)
  BY DEF Plan
<1>3. ASSUME NEW i \in DOMAIN box
      PROVE  s[i] \in Seq(Run) /\ \E row, col : Piece(s[i], i, row, col)
  <2>1. CASE IsGroup(box[i])
    <3>1. s[i] = RunOfAll(box[i].group, box[i].group)
      BY <2>1
    <3> HIDE DEF s
    <3> QED BY <2>1, <3>1, PieceOfGroup
  <2>2. CASE ~IsGroup(box[i])
    <3>1. s[i] = RunOf(box[i], 0)
      BY <2>2
    <3> HIDE DEF s
    <3> QED BY <2>2, <3>1, PieceOfStatement
  <2> QED BY <2>1, <2>2
<1>4. s \in Seq(Seq(Run)) /\ Len(s) = Len(box)
  <2>1. s \in [1 .. Len(box) -> Seq(Run)]
    BY <1>1, <1>3
  <2> HIDE DEF s
  <2>2. s \in Seq(Seq(Run))
    BY <2>1, <1>1
  <2>3. DOMAIN s = 1 .. Len(box)
    BY <2>1
  <2> QED BY <2>2, <2>3, <1>1
<1> HIDE DEF s
<1> DEFINE plan == Plan
<1>5. plan \in Seq(Run) /\ \E out, in : Joins(plan, s, Len(s), out, in)
  BY <1>2, <1>4, Flattened
<1> HIDE DEF plan
<1>6. PICK out, in : Joins(plan, s, Len(s), out, in)
  BY <1>5
<1>7. PICK rows, cols : \A i \in DOMAIN box : Piece(s[i], i, rows[i], cols[i])
  <2> DEFINE rows == [i \in DOMAIN box |-> CHOOSE row : \E col : Piece(s[i], i, row, col)]
             cols == [i \in DOMAIN box |-> CHOOSE col : Piece(s[i], i, rows[i], col)]
  <2>1. ASSUME NEW i \in DOMAIN box PROVE \E col : Piece(s[i], i, rows[i], col)
    BY <1>3
  <2>2. ASSUME NEW i \in DOMAIN box PROVE Piece(s[i], i, rows[i], cols[i])
    <3> HIDE DEF rows
    <3>1. \E col : Piece(s[i], i, rows[i], col)
      BY <2>1
    <3> QED BY <3>1
  <2> QED BY <2>2
<1>8. PICK src, row, col :
        \A p \in 1 .. Len(plan) : src[p] = Source(out[p]) /\ row[p] = rows[out[p]][in[p]]
                                  /\ col[p] = cols[out[p]][in[p]]
  <2> DEFINE src == [p \in 1 .. Len(plan) |-> Source(out[p])]
             row == [p \in 1 .. Len(plan) |-> rows[out[p]][in[p]]]
             col == [p \in 1 .. Len(plan) |-> cols[out[p]][in[p]]]
  <2>1. \A p \in 1 .. Len(plan) : src[p] = Source(out[p]) /\ row[p] = rows[out[p]][in[p]]
                                  /\ col[p] = cols[out[p]][in[p]]
    OBVIOUS
  <2> HIDE DEF src, row, col
  <2> QED BY <2>1
<1>9. ASSUME NEW p \in 1 .. Len(plan)
      PROVE  /\ out[p] \in DOMAIN box /\ in[p] \in 1 .. Len(s[out[p]]) /\ plan[p] = s[out[p]][in[p]]
             /\ Runs(plan[p], src[p], row[p], col[p])
             /\ Place(src[p], row[p], out[p])
             /\ out[p] \in Nat
  <2>1. out[p] \in DOMAIN box /\ in[p] \in 1 .. Len(s[out[p]]) /\ plan[p] = s[out[p]][in[p]]
    BY <1>1, <1>4, <1>6 DEF Joins
  <2>2. Runs(plan[p], src[p], row[p], col[p]) /\ (Source(out[p]) = Engine => row[p] = out[p])
    BY <2>1, <1>7, <1>8 DEF Piece
  <2>3. Place(src[p], row[p], out[p])
    <3>1. CASE src[p] = Engine
      BY <3>1, <2>2, <1>8 DEF Place
    <3>2. CASE src[p] # Engine
      BY <3>2, <2>1, <1>8 DEF Place, Source, GroupPlaces
    <3> QED BY <3>1, <3>2
  <2> QED BY <2>1, <2>2, <2>3, <1>1
<1>10. ASSUME NEW c \in Nat, NEW i \in Nat, NEW j \in Nat, c \in Executed, Spot(c, i, j)
       PROVE  \E p \in 1 .. Len(plan) : src[p] = c /\ row[p] = i /\ col[p] = j
  <2>1. PICK m \in DOMAIN box : Source(m) = c /\ (c = Engine => i = m)
    <3>1. CASE c = Engine
      BY <3>1, <1>10 DEF Source, Spot
    <3>2. CASE c # Engine
      BY <3>2, <1>10 DEF Executed, Groups, GroupPlaces, Source
    <3> QED BY <3>1, <3>2
  <2>2. PICK q \in 1 .. Len(s[m]) : rows[m][q] = i /\ cols[m][q] = j
    BY <2>1, <1>7, <1>10 DEF Piece
  <2>3. PICK p \in 1 .. Len(plan) : out[p] = m /\ in[p] = q
    BY <2>1, <2>2, <1>1, <1>4, <1>6 DEF Joins
  <2> QED BY <2>1, <2>2, <2>3, <1>8
<1>11. ASSUME NEW p \in 1 .. Len(plan), NEW q \in 1 .. Len(plan), p < q
       PROVE  \/ \E a, b \in Nat : Place(src[p], row[p], a) /\ Place(src[q], row[q], b) /\ a < b
              \/ src[p] = src[q] /\ row[p] < row[q]
              \/ src[p] = src[q] /\ row[p] = row[q] /\ col[p] < col[q]
  <2>1. CASE out[p] < out[q]
    BY <2>1, <1>9
  <2>2. CASE out[p] = out[q] /\ in[p] < in[q]
    <3>1. PICK m \in DOMAIN box : m = out[p] /\ m = out[q]
      BY <2>2, <1>9
    <3>2. /\ in[p] \in 1 .. Len(s[m]) /\ in[q] \in 1 .. Len(s[m])
          /\ src[p] = src[q]
          /\ row[p] = rows[m][in[p]] /\ row[q] = rows[m][in[q]]
          /\ col[p] = cols[m][in[p]] /\ col[q] = cols[m][in[q]]
      <4>1. in[p] \in 1 .. Len(s[m]) /\ in[q] \in 1 .. Len(s[m])
        BY <3>1, <1>9
      <4>2. src[p] = Source(m) /\ row[p] = rows[m][in[p]] /\ col[p] = cols[m][in[p]]
        BY <3>1, <1>8
      <4>3. src[q] = Source(m) /\ row[q] = rows[m][in[q]] /\ col[q] = cols[m][in[q]]
        BY <3>1, <1>8
      <4> QED BY <4>1, <4>2, <4>3
    <3>3. \A a, b \in 1 .. Len(s[m]) :
            a < b => rows[m][a] < rows[m][b] \/ (rows[m][a] = rows[m][b] /\ cols[m][a] < cols[m][b])
      BY <1>7 DEF Piece
    <3> QED BY <2>2, <3>2, <3>3
  <2> QED BY <2>1, <2>2, <1>6, <1>11 DEF Joins
<1>12. Executes(plan, src, row, col)
  <2>1. \A p \in 1 .. Len(plan) : Runs(plan[p], src[p], row[p], col[p])
    BY <1>9
  <2>2. \A c, i, j \in Nat : c \in Executed /\ Spot(c, i, j) =>
          \E p \in 1 .. Len(plan) : src[p] = c /\ row[p] = i /\ col[p] = j
    BY <1>10
  <2>3. \A p, q \in 1 .. Len(plan) : p < q =>
          \/ \E a, b \in Nat : Place(src[p], row[p], a) /\ Place(src[q], row[q], b) /\ a < b
          \/ src[p] = src[q] /\ row[p] < row[q]
          \/ src[p] = src[q] /\ row[p] = row[q] /\ col[p] < col[q]
    BY <1>11
  <2> QED BY <2>1, <2>2, <2>3 DEF Executes
<1> QED BY <1>5, <1>12 DEF plan

-----------------------------------------------------------------------------
(* The results *)

(* Every container, statement and handle stays what it is, however blocks  *)
(* nest, throw and are caught: type correctness of ScopeBuilder.           *)
THEOREM BuilderIsTyped == Spec => []TypeOK
<1>1. Safe => TypeOK
  <2>1. SUFFICES ASSUME Safe PROVE TypeOK
    OBVIOUS
  <2>2. TypesInv /\ ContainersInv /\ HandlesInv
    BY <2>1 DEF Safe
  <2>3. ASSUME NEW c \in DOMAIN containers, NEW i \in DOMAIN containers[c]
        PROVE  /\ containers[c][i].id \in 0 .. Len(written)
               /\ IsGroup(containers[c][i]) => c = Engine
               /\ ~IsGroup(containers[c][i]) => ClassOf(containers[c][i]) \in Class
    <3>1. containers[c] \in Seq(Entry)
      BY <2>2 DEF TypesInv
    <3>2. containers[c][i] \in Entry
      BY <3>1
    <3>3. containers[c][i].id \in Nat /\ containers[c][i].clauses \in Seq(Class)
      BY <3>2 DEF Entry
    <3>4. containers[c][i].id \in 0 .. Len(written) /\ (IsGroup(containers[c][i]) => c = Engine)
      BY <3>3, <2>2 DEF ContainersInv, TypesInv
    <3>5. ASSUME ~IsGroup(containers[c][i]) PROVE ClassOf(containers[c][i]) \in Class
      <4> DEFINE k == containers[c][i].clauses
      <4>1. k # <<>> /\ k \in Seq(Class)
        BY <3>3, <3>5, <2>2 DEF ContainersInv
      <4> HIDE DEF k
      <4>2. Len(k) \in DOMAIN k /\ Last(k) = k[Len(k)]
        BY <4>1, FrontIs
      <4>3. Last(k) \in Class
        BY <4>1, <4>2
      <4> QED BY <4>3 DEF ClassOf, k
    <3> QED BY <3>4, <3>5
  <2>4. {group, join} \union Range(unions) \subseteq 0 .. Len(containers)
    <3>1. group \in 0 .. Len(containers)
      <4>1. group # 0 => group \in DOMAIN containers
        BY <2>2, TargetsAre DEF Executed
      <4> QED BY <4>1, <2>2, EngineIs DEF TypesInv
    <3>2. join \in 0 .. Len(containers)
      <4>1. join # 0 => join \in DOMAIN containers
        BY <2>2, TargetsAre DEF ContainersInv
      <4> QED BY <4>1, <2>2, EngineIs DEF TypesInv
    <3>3. Range(unions) \subseteq 0 .. Len(containers)
      <4>1. \A k \in DOMAIN unions : unions[k] \in DOMAIN containers
        BY <2>2 DEF ContainersInv
      <4> QED BY <4>1, <2>2, EngineIs DEF Range
    <3> QED BY <3>1, <3>2, <3>3
  <2>5. \A h \in handles : h.id \in DOMAIN written /\ h.home \in DOMAIN containers
    BY <2>2, TargetsAre DEF HandlesInv
  <2>6. stage \in {"building", "returned", "threw", "rejected"}
    BY <2>2 DEF TypesInv
  <2> QED BY <2>3, <2>4, <2>5, <2>6 DEF TypeOK
<1> QED BY <1>1, AlwaysSafe, PTL

(* No chain of clauses that the types admit ends in "can't append clause": *)
(* changeLastStatement finds the statement that the chain refines.         *)
THEOREM ChainsAreAccepted == Spec => []FluentIsNeverRejected
<1>1. Safe => FluentIsNeverRejected
  BY DEF Safe, TypesInv, FluentIsNeverRejected
<1> QED BY <1>1, AlwaysSafe, PTL

(* When the block has returned no UNION is open: what is not executed is   *)
(* in no container that could still be.                                    *)
LEMMA NothingIsOpen ==
  ASSUME Safe, stage = "returned"
  PROVE  Live = Executed
<1>1. PICK f \in [DOMAIN unions -> DOMAIN blocks] : Pairs(f)
  BY DEF Safe, UnionsInv
<1>2. blocks = <<>>
  BY DEF Safe, TypesInv
<1>3. DOMAIN unions = {}
  BY <1>1, <1>2
<1> QED BY <1>3 DEF Live

(* The clauses that a client wrote are in exactly one execution.           *)
THEOREM PlansAreWhatWasWritten == Spec => []PlanIsWhatWasWritten
<1>1. Safe => PlanIsWhatWasWritten
  <2> SUFFICES ASSUME Safe, stage = "returned",
                      NEW w \in DOMAIN written, ~written[w].dropped
               PROVE  LET plan == Plan
                          RunsOf(id) == {i \in DOMAIN plan : plan[i].id = id}
                      IN  \E i \in RunsOf(w) : RunsOf(w) = {i} /\ plan[i].clauses = written[w].clauses
    BY DEF PlanIsWhatWasWritten
  <2> DEFINE plan == Plan
             RunsOf(id) == {i \in DOMAIN plan : plan[i].id = id}
  <2>1. TypesInv /\ ContainersInv /\ TextsInv /\ Live = Executed
    BY NothingIsOpen DEF Safe
  <2>2. plan \in Seq(Run) /\ \E src, row, col : Executes(plan, src, row, col)
    BY <2>1, PlanIs
  <2> HIDE DEF plan
  <2>3. PICK src, row, col : Executes(plan, src, row, col)
    BY <2>2
  <2>4. DOMAIN plan = 1 .. Len(plan) /\ Len(plan) \in Nat
    BY <2>2
  <2>5. \A p \in 1 .. Len(plan) :
          /\ Spot(src[p], row[p], col[p])
          /\ plan[p].id = TextAt(src[p], row[p], col[p]).id
          /\ plan[p].clauses = TextAt(src[p], row[p], col[p]).clauses
          /\ src[p] \in Nat /\ row[p] \in Nat /\ col[p] \in Nat
    <3>1. SUFFICES ASSUME NEW p \in 1 .. Len(plan)
                   PROVE  /\ Spot(src[p], row[p], col[p])
                          /\ plan[p].id = TextAt(src[p], row[p], col[p]).id
                          /\ plan[p].clauses = TextAt(src[p], row[p], col[p]).clauses
                          /\ src[p] \in Nat /\ row[p] \in Nat /\ col[p] \in Nat
      OBVIOUS
    <3>2. /\ Spot(src[p], row[p], col[p])
          /\ plan[p].id = TextAt(src[p], row[p], col[p]).id
          /\ plan[p].clauses = TextAt(src[p], row[p], col[p]).clauses
      BY <2>3 DEF Executes, Runs
    <3> QED BY <3>2, <2>1, SpotIs
  <2>6. PICK c, i, j \in Nat : Spot(c, i, j) /\ TextAt(c, i, j).id = w
    BY <2>1 DEF TextsInv, WrittenIsKept
  <2>7. c \in Executed
    BY <2>1, <2>6 DEF Spot
  <2>8. PICK p \in 1 .. Len(plan) : src[p] = c /\ row[p] = i /\ col[p] = j
    BY <2>3, <2>6, <2>7 DEF Executes
  <2>9. plan[p].id = w /\ plan[p].clauses = written[w].clauses
    BY <2>1, <2>5, <2>6, <2>8 DEF TextsInv, SpotsAreWritten
  <2>10. ASSUME NEW q \in 1 .. Len(plan), NEW o \in 1 .. Len(plan), q < o,
                plan[q].id = plan[o].id
         PROVE  FALSE
    <3>1. /\ Spot(src[q], row[q], col[q]) /\ plan[q].id = TextAt(src[q], row[q], col[q]).id
          /\ src[q] \in Nat /\ row[q] \in Nat /\ col[q] \in Nat
      BY <2>5, <2>10
    <3>2. /\ Spot(src[o], row[o], col[o]) /\ plan[o].id = TextAt(src[o], row[o], col[o]).id
          /\ src[o] \in Nat /\ row[o] \in Nat /\ col[o] \in Nat
      BY <2>5, <2>10
    <3>3. TextAt(src[q], row[q], col[q]).id = TextAt(src[o], row[o], col[o]).id
      BY <3>1, <3>2, <2>10
    <3>4. SpotsDiffer
      BY <2>1 DEF TextsInv
    <3>5. src[q] = src[o] /\ row[q] = row[o] /\ col[q] = col[o]
      BY <3>1, <3>2, <3>3, <3>4 DEF SpotsDiffer
    <3>6. \/ \E a, b \in Nat : Place(src[q], row[q], a) /\ Place(src[o], row[o], b) /\ a < b
          \/ src[q] = src[o] /\ row[q] < row[o]
          \/ src[q] = src[o] /\ row[q] = row[o] /\ col[q] < col[o]
      BY <2>3, <2>10 DEF Executes
    <3>7. ~(row[q] < row[o]) /\ ~(col[q] < col[o])
      BY <3>1, <3>5
    <3>8. PICK a, b \in Nat : Place(src[q], row[q], a) /\ Place(src[q], row[q], b) /\ a < b
      BY <3>5, <3>6, <3>7
    <3>9. a = b
      BY <3>8, <2>1 DEF Place, ContainersInv
    <3> QED BY <3>8, <3>9
  <2>11. \A q \in 1 .. Len(plan) : plan[q].id = w => q = p
    <3>1. \A q \in 1 .. Len(plan) : q < p \/ p < q \/ q = p
      BY <2>4
    <3> QED BY <3>1, <2>9, <2>10
  <2>12. p \in RunsOf(w) /\ RunsOf(w) = {p}
    BY <2>4, <2>8, <2>9, <2>11
  <2> QED BY <2>9, <2>12 DEF plan
<1> QED BY <1>1, AlwaysSafe, PTL

(* The heads of the plan: its executions that are no part of a UNION.      *)
LEMMA PlanHeads ==
  ASSUME Safe, NEW src, NEW row, NEW col, Executes(Plan, src, row, col),
         NEW p \in 1 .. Len(Plan), ~Plan[p].part
  PROVE  /\ Head1(src[p], row[p]) /\ Plan[p].id = IdAt(src[p], row[p]) /\ col[p] = 1
         /\ Plan[p].group = IF src[p] = Engine THEN 0 ELSE src[p]
         /\ src[p] \in Nat /\ row[p] \in Nat /\ src[p] # 0
<1> DEFINE plan == Plan
<1> HIDE DEF plan
<1>1. TypesInv /\ ContainersInv
  BY DEF Safe
<1>2. Runs(plan[p], src[p], row[p], col[p])
  BY DEF Executes, plan
<1>3. /\ src[p] \in Executed /\ Spot(src[p], row[p], col[p])
      /\ plan[p].id = TextAt(src[p], row[p], col[p]).id
      /\ plan[p].group = IF src[p] = Engine THEN 0 ELSE src[p]
      /\ plan[p].part = (col[p] > 1)
  BY <1>2 DEF Runs
<1>4. src[p] \in Nat /\ row[p] \in Nat /\ col[p] \in Nat
      /\ containers[src[p]][row[p]] \in Entry /\ containers[src[p]][row[p]].clauses # <<>>
  BY <1>1, <1>3, SpotIs
<1>5. col[p] = 1
  <2>1. ~(col[p] > 1)
    BY <1>3 DEF plan
  <2>2. col[p] \in 1 .. Len(Texts(containers[src[p]][row[p]]))
    BY <1>3, <1>4, TextsAre DEF Spot
  <2> QED BY <2>1, <2>2, <1>4
<1>6. Head1(src[p], row[p])
  BY <1>3 DEF Spot, Head1
<1>7. plan[p].id = IdAt(src[p], row[p])
  BY <1>1, <1>3, <1>4, <1>5, <1>6, HeadsAreSpots
<1>8. src[p] # 0
  BY <1>1, <1>3, TargetsAre, EngineIs
<1> QED BY <1>3, <1>4, <1>5, <1>6, <1>7, <1>8 DEF plan

(* Whatever blocks surround them, statements run in the order in which     *)
(* they were finished.                                                     *)
THEOREM PlansAreInOrder == Spec => []PlanIsInOrder
<1>1. Safe => PlanIsInOrder
  <2> DEFINE plan == Plan
  <2> SUFFICES ASSUME Safe, NEW p \in DOMAIN plan, NEW q \in DOMAIN plan,
                      p < q, ~plan[p].part, ~plan[q].part
               PROVE  plan[p].id < plan[q].id
    BY DEF PlanIsInOrder
  <2>1. TypesInv /\ ContainersInv /\ OrderInv
    BY DEF Safe
  <2>2. plan \in Seq(Run) /\ \E src, row, col : Executes(plan, src, row, col)
    BY <2>1, PlanIs
  <2>3. PICK src, row, col : Executes(plan, src, row, col)
    BY <2>2
  <2>4. p \in 1 .. Len(plan) /\ q \in 1 .. Len(plan)
    BY <2>2
  <2>5. /\ Head1(src[p], row[p]) /\ plan[p].id = IdAt(src[p], row[p]) /\ col[p] = 1
        /\ src[p] \in Nat /\ row[p] \in Nat
    BY <2>3, <2>4, PlanHeads
  <2>6. /\ Head1(src[q], row[q]) /\ plan[q].id = IdAt(src[q], row[q]) /\ col[q] = 1
        /\ src[q] \in Nat /\ row[q] \in Nat
    BY <2>3, <2>4, PlanHeads
  <2> HIDE DEF plan
  <2>7. \/ \E a, b \in Nat : Place(src[p], row[p], a) /\ Place(src[q], row[q], b) /\ a < b
        \/ src[p] = src[q] /\ row[p] < row[q]
    BY <2>3, <2>4, <2>5, <2>6 DEF Executes
  <2> QED BY <2>1, <2>5, <2>6, <2>7 DEF OrderInv
<1> QED BY <1>1, AlwaysSafe, PTL

(* Where no transaction { } is inside another, the transactions that run   *)
(* are the blocks that were written.                                       *)
THEOREM TransactionsStayBlocks ==
  ASSUME "nest" \notin Freedom
  PROVE  Spec => []TransactionsAreBlocks
<1>1. Safe /\ BlocksInv => TransactionsAreBlocks
  <2> DEFINE plan == Plan
             BlockOf(p) == written[plan[p].id].transaction
  <2> SUFFICES ASSUME Safe, BlocksInv, NEW p \in DOMAIN plan, NEW q \in DOMAIN plan,
                      ~plan[p].part, ~plan[q].part
               PROVE  /\ BlockOf(p) = 0 <=> plan[p].group = 0
                      /\ BlockOf(p) # 0 => (BlockOf(p) = BlockOf(q) <=> plan[p].group = plan[q].group)
    BY DEF TransactionsAreBlocks
  <2>1. TypesInv /\ ContainersInv
    BY DEF Safe
  <2>2. plan \in Seq(Run) /\ \E src, row, col : Executes(plan, src, row, col)
    BY <2>1, PlanIs
  <2>3. PICK src, row, col : Executes(plan, src, row, col)
    BY <2>2
  <2>4. p \in 1 .. Len(plan) /\ q \in 1 .. Len(plan)
    BY <2>2
  <2>5. /\ Head1(src[p], row[p]) /\ plan[p].id = IdAt(src[p], row[p])
        /\ plan[p].group = IF src[p] = Engine THEN 0 ELSE src[p]
        /\ src[p] \in Nat /\ row[p] \in Nat /\ src[p] # 0
    BY <2>3, <2>4, PlanHeads
  <2>6. /\ Head1(src[q], row[q]) /\ plan[q].id = IdAt(src[q], row[q])
        /\ plan[q].group = IF src[q] = Engine THEN 0 ELSE src[q]
        /\ src[q] \in Nat /\ row[q] \in Nat /\ src[q] # 0
    BY <2>3, <2>4, PlanHeads
  <2>7. BlockOf(p) = BlockAt(src[p], row[p]) /\ BlockOf(q) = BlockAt(src[q], row[q])
    BY <2>5, <2>6 DEF BlockAt
  <2>8. /\ src[p] = Engine <=> BlockAt(src[p], row[p]) = 0
        /\ src[p] = src[q] <=> BlockAt(src[p], row[p]) = BlockAt(src[q], row[q])
    BY <2>5, <2>6 DEF BlocksInv
  <2> HIDE DEF plan
  <2> QED BY <2>5, <2>6, <2>7, <2>8
<1> QED BY <1>1, AlwaysInBlocks, PTL

==============================================================================
