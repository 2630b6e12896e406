---------------------------- MODULE ScopeBuilder ----------------------------
(***************************************************************************)
(* The block of one DatabaseScope while it runs: how INSERT, UPDATE,       *)
(* SELECT, JOIN ... ON, the clauses that refine a statement, transaction   *)
(* { } and UNION { } fill the statement containers, from which             *)
(* executeAllStatements then executes.                                     *)
(*                                                                         *)
(* A statement object is immutable: a clause makes a new one and puts it   *)
(* in the place of the last statement of the container that the old one    *)
(* remembers (StatementContainer.changeLastStatement).                     *)
(***************************************************************************)
EXTENDS Naturals, Sequences, SequencesExt

CONSTANTS
  MaxStatements,  \* bound: statements (and UNIONs) a block writes
  MaxSelects,     \* bound: the same, of a block that writes nothing but SELECTs
  MaxClauses,     \* bound: clauses of one statement, its first one included
  MaxDepth,       \* bound: nesting of transaction and UNION blocks
  MaxBlocks,      \* bound: transaction and UNION blocks in all
  Starts,         \* the statements this instance starts with
  Freedom         \* what the client's code does beyond fluent chains

ASSUME BoundsAssumption == {MaxStatements, MaxSelects, MaxClauses, MaxDepth, MaxBlocks} \subseteq Nat

(* nest: a transaction { } inside another; catch: an exception of a        *)
(* transaction { } or UNION { } is caught inside the scope.                *)
ASSUME FreedomAssumption == Freedom \subseteq {"nest", "catch"}

(* A statement is named by its last clause, as its class is.  What may     *)
(* follow it is what the extension functions on its class allow.           *)
Refinements ==
  [insert  |-> {},  delete |-> {},  define |-> {},  updateWhere |-> {},  final |-> {},
   update  |-> {"updateWhere"},
   where   |-> {"groupBy", "orderBy", "limit"},
   join    |-> {"where", "groupBy", "orderBy", "limit"},
   groupBy |-> {"having", "orderBy"},
   having  |-> {"orderBy", "limit"},
   orderBy |-> {"limit"},
   limit   |-> {"final"}]

Class == DOMAIN Refinements
SelectClass == {"where", "join", "groupBy", "having", "orderBy", "limit", "final"}

ASSUME StartsAssumption == Starts \subseteq Class \ {"updateWhere", "having"}

VARIABLES
  containers,   \* every StatementContainer made so far; the first is the engine
  group,        \* transactionStatementsGroup: its container, or 0 for null
  unions,       \* unionSelectStatementGroupStack, as containers
  join,         \* the container a JOIN without its condition remembers, or 0
  handles,      \* the statement a fluent chain can still refine, if any
  blocks,       \* the transaction { } and UNION { } blocks the code is in
  written,      \* what the client wrote, by statement number
  stage         \* building, returned, threw, or rejected by changeLastStatement

vars == <<containers, group, unions, join, handles, blocks, written, stage>>

Engine == 1

-----------------------------------------------------------------------------
(* Statements *)

Statement(id, clauses) == [id |-> id, clauses |-> clauses, members |-> <<>>, group |-> 0]
ClassOf(s) == Last(s.clauses)
IsSelect(s) == ClassOf(s) \in SelectClass

(* A transaction group in the engine's list. *)
GroupEntry(g) == [id |-> 0, clauses |-> <<>>, members |-> <<>>, group |-> g]
IsGroup(e) == e.group # 0

(* The blocks that are transactions, and the number of the outermost one,  *)
(* or 0 outside of any.                                                    *)
TransactionBlocks == {b \in DOMAIN blocks : blocks[b].kind = "transaction"}
OutermostTransaction ==
  IF TransactionBlocks = {} THEN 0
  ELSE blocks[CHOOSE b \in TransactionBlocks : \A d \in TransactionBlocks : b <= d].number

Init ==
  /\ containers = << <<>> >>
  /\ group = 0
  /\ unions = <<>>
  /\ join = 0
  /\ handles = {}
  /\ blocks = <<>>
  /\ written = <<>>
  /\ stage = "building"

-----------------------------------------------------------------------------
(* DatabaseScope *)

(* addStatement *)
StatementContainer == IF group # 0 THEN group ELSE Engine

(* Variant: a SELECT in a transaction { } goes to the engine. *)
SelectContainerOfEngine == IF unions # <<>> THEN Last(unions) ELSE Engine

(* getSelectStatementGroup, and where addSelectStatement adds *)
SelectContainer == IF unions # <<>> THEN Last(unions) ELSE StatementContainer

Building == stage = "building"

(* Fluent code finishes a JOIN before it writes anything else, and refines *)
(* only the statement it wrote last.                                       *)
MayWrite == Building /\ join = 0

Forget == handles' = {}
Keep(h) == handles' = {h}

(* Bound: a statement of class k may be written.  SELECTs of class limit    *)
(* and their UNIONs alone make the blocks in which UNIONs nest.            *)
Plain == {"limit", "final"}
Room(k) ==
  Len(written) < IF k \in Plain /\ \A i \in DOMAIN written : Head(written[i].clauses) \in Plain
                 THEN MaxSelects ELSE MaxStatements

AddTo(c, e) == containers' = [containers EXCEPT ![c] = Append(@, e)]

(* A new statement of class k, added to container c, remembering home. *)
Write(k, c, home) ==
  LET id == Len(written) + 1
  IN  /\ Room(k)
      /\ AddTo(c, Statement(id, <<k>>))
      /\ written' = Append(written, [clauses |-> <<k>>, transaction |-> OutermostTransaction,
                                     dropped |-> FALSE])
      /\ Keep([id |-> id, clauses |-> <<k>>, home |-> home])

AddStatement(k) ==
  /\ MayWrite
  /\ k \in Starts
  /\ Write(k, StatementContainer, StatementContainer)
  /\ UNCHANGED <<group, unions, join, blocks, stage>>

Insert == AddStatement("insert")
Update == AddStatement("update")
Delete == AddStatement("delete")

(* Statements on the schema: CREATE, CREATE_INDEX, DROP; then ALERT_...,    *)
(* RENAME_COLUMN, DROP_COLUMN and PRAGMA_FOREIGN_KEYS.                      *)
CreateOrDrop == AddStatement("define")
Alter == AddStatement("define")

(* SELECT X and SELECT with a clause; a natural or cross JOIN is complete. *)
Select(k) ==
  /\ MayWrite
  /\ k \in Starts \intersect SelectClass
  /\ Write(k, SelectContainer, SelectContainer)
  /\ UNCHANGED <<group, unions, join, blocks, stage>>

(* SELECT ... JOIN without condition: an object that is in no container. *)
StartJoin ==
  /\ MayWrite
  /\ "join" \in Starts
  /\ Room("join")
  /\ join' = SelectContainer
  /\ Forget
  /\ UNCHANGED <<containers, group, unions, blocks, written, stage>>

(* Variant: a JOIN always remembers the engine. *)
FinishJoinOfEngine ==
  /\ Building
  /\ join # 0
  /\ Write("join", SelectContainer, Engine)
  /\ join' = 0
  /\ UNCHANGED <<group, unions, blocks, stage>>

(* ON or USING: added where a SELECT is added now, remembering the         *)
(* container of the time when the JOIN was written.                        *)
FinishJoin ==
  /\ Building
  /\ join # 0
  /\ Write("join", SelectContainer, join)
  /\ join' = 0
  /\ UNCHANGED <<group, unions, blocks, stage>>

(* changeLastStatement of the container h remembers.  A union group takes  *)
(* SELECTs only, which is all it ever holds.                               *)
Replaceable(c) ==
  /\ containers[c] # <<>>
  /\ ~IsGroup(Last(containers[c]))
  /\ IsSelect(Last(containers[c])) \/ ClassOf(Last(containers[c])) = "update"

(* Variant: the refined statement is added, and the old one stays. *)
RefineByAdding(h, k) ==
  /\ Building
  /\ h \in handles /\ Len(h.clauses) < MaxClauses
  /\ k \in Refinements[Last(h.clauses)]
  /\ LET clauses == Append(h.clauses, k)
     IN  /\ AddTo(h.home, Statement(h.id, clauses))
         /\ written' = [written EXCEPT ![h.id].clauses = clauses]
         /\ Keep([h EXCEPT !.clauses = clauses])
  /\ UNCHANGED <<group, unions, join, blocks, stage>>

Refine(h, k) ==
  /\ Building
  /\ h \in handles /\ Len(h.clauses) < MaxClauses
  /\ k \in Refinements[Last(h.clauses)]
  /\ LET clauses == Append(h.clauses, k)
     IN  IF Replaceable(h.home)
         THEN /\ containers' = [containers EXCEPT
                    ![h.home] = Append(Front(@), Statement(h.id, clauses))]
              /\ written' = [written EXCEPT ![h.id].clauses = clauses]
              /\ Keep([h EXCEPT !.clauses = clauses])
              /\ UNCHANGED stage
         ELSE /\ stage' = "rejected"
              /\ UNCHANGED <<containers, written, handles>>
  /\ UNCHANGED <<group, unions, join, blocks>>

-----------------------------------------------------------------------------
(* transaction { } and UNION { } *)

Enter(kind) ==
  /\ MayWrite
  /\ Len(blocks) < MaxDepth
  /\ Len(containers) <= MaxBlocks
  /\ blocks' = Append(blocks, [kind |-> kind, number |-> Len(written) + 1])
  /\ Forget

(* beginTransaction: returns false, and does nothing, inside another. *)
BeginTransaction ==
  /\ Enter("transaction")
  /\ TransactionBlocks # {} => "nest" \in Freedom
  /\ IF group # 0
     THEN UNCHANGED <<containers, group>>
     ELSE /\ containers' = Append([containers EXCEPT
                                     ![Engine] = Append(@, GroupEntry(Len(containers) + 1))], <<>>)
          /\ group' = Len(containers) + 1
  /\ UNCHANGED <<unions, join, written, stage>>

InnermostIs(kind) == Building /\ blocks # <<>> /\ Last(blocks).kind = kind

(* Variant: the group stays the current one. *)
EndTransactionKept ==
  /\ InnermostIs("transaction")
  /\ MayWrite
  /\ blocks' = Front(blocks)
  /\ Forget
  /\ UNCHANGED <<containers, group, unions, join, written, stage>>

(* The end of transaction { }, reached by return or by exception. *)
EndTransaction ==
  /\ InnermostIs("transaction")
  /\ MayWrite
  /\ group' = 0
  /\ blocks' = Front(blocks)
  /\ Forget
  /\ UNCHANGED <<containers, unions, join, written, stage>>

(* Variant: the group is put on the stack before it is made. *)
BeginUnionEarly ==
  /\ Enter("union")
  /\ unions' = Append(unions, Len(containers) + 1)
  /\ UNCHANGED <<containers, group, join, written, stage>>

BeginUnion ==
  /\ Enter("union")
  /\ containers' = Append(containers, <<>>)
  /\ unions' = Append(unions, Len(containers) + 1)
  /\ UNCHANGED <<group, join, written, stage>>

(* createUnionSelectStatement joins the texts of two or more SELECTs, each *)
(* of them with its own members if it is a UNION; endUnion pops the group  *)
(* and adds the result where SELECTs go now.                               *)
Texts(s) == <<[id |-> s.id, clauses |-> s.clauses]>> \o s.members

EndUnion ==
  /\ InnermostIs("union")
  /\ MayWrite
  /\ LET selects == containers[Last(unions)]
         id == Len(written) + 1
         outer == IF Len(unions) > 1 THEN unions[Len(unions) - 1] ELSE StatementContainer
     IN  /\ Len(selects) > 1
         /\ Room("final")
         /\ AddTo(outer, [Statement(id, <<"final">>) EXCEPT
                !.members = FlattenSeq([i \in DOMAIN selects |-> Texts(selects[i])])])
         /\ written' = Append(written, [clauses |-> <<"final">>,
                                        transaction |-> OutermostTransaction, dropped |-> FALSE])
  /\ unions' = Front(unions)
  /\ blocks' = Front(blocks)
  /\ Forget
  /\ UNCHANGED <<group, join, stage>>

-----------------------------------------------------------------------------
(* Exceptions of the client's code, and of a UNION of fewer than two       *)
(* SELECTs.  The finally blocks end the innermost block; a client may      *)
(* catch the exception right outside of it and go on.                      *)

(* The statements of a block are those numbered since it began. *)
Drop(b) ==
  written' = [i \in DOMAIN written |->
                IF i >= b.number THEN [written[i] EXCEPT !.dropped = TRUE] ELSE written[i]]

ThrowAndCatch ==
  /\ Building /\ "catch" \in Freedom
  /\ blocks # <<>>
  /\ IF Last(blocks).kind = "transaction"
     THEN group' = 0 /\ UNCHANGED unions
     ELSE unions' = Front(unions) /\ UNCHANGED group
  /\ Drop(Last(blocks))
  /\ blocks' = Front(blocks)
  /\ join' = 0
  /\ handles' = {}
  /\ UNCHANGED <<containers, stage>>

Throw ==
  /\ Building
  /\ stage' = "threw"
  /\ UNCHANGED <<containers, group, unions, join, handles, blocks, written>>

BlockReturns ==
  /\ MayWrite
  /\ blocks = <<>>
  /\ stage' = "returned"
  /\ UNCHANGED <<containers, group, unions, join, handles, blocks, written>>

Over == ~Building /\ UNCHANGED vars

Next ==
  \/ Insert \/ Update \/ Delete \/ CreateOrDrop \/ Alter
  \/ \E k \in SelectClass : Select(k)
  \/ StartJoin \/ FinishJoin
  \/ \E h \in handles : \E k \in Class : Refine(h, k)
  \/ BeginTransaction \/ EndTransaction
  \/ BeginUnion \/ EndUnion
  \/ ThrowAndCatch \/ Throw \/ BlockReturns
  \/ Over

Spec == Init /\ [][Next]_vars

-----------------------------------------------------------------------------
(* What executeAllStatement will run, in order: each statement with the    *)
(* group it is executed in; the SELECTs of a UNION are listed after it.    *)

RunOf(s, g) ==
  [j \in DOMAIN Texts(s) |->
     [id |-> Texts(s)[j].id, clauses |-> Texts(s)[j].clauses, group |-> g, part |-> j > 1]]

RunOfAll(c, g) == FlattenSeq([i \in DOMAIN containers[c] |-> RunOf(containers[c][i], g)])

Plan ==
  FlattenSeq([i \in DOMAIN containers[Engine] |->
    LET e == containers[Engine][i]
    IN  IF IsGroup(e) THEN RunOfAll(e.group, e.group) ELSE RunOf(e, 0)])

(* The variables stay within their types. *)
TypeOK ==
  /\ \A c \in DOMAIN containers : \A i \in DOMAIN containers[c] :
       /\ containers[c][i].id \in 0 .. Len(written)
       /\ IsGroup(containers[c][i]) => c = Engine
       /\ ~IsGroup(containers[c][i]) => ClassOf(containers[c][i]) \in Class
  /\ {group, join} \union Range(unions) \subseteq 0 .. Len(containers)
  /\ \A h \in handles : h.id \in DOMAIN written /\ h.home \in DOMAIN containers
  /\ stage \in {"building", "returned", "threw", "rejected"}

(* What runs is what was written: every statement of a block that returned *)
(* is executed exactly once, with all the clauses the client gave it,      *)
(* UNIONs with their SELECTs; a refinement never replaces another          *)
(* statement, and none is left in a container nobody executes.             *)
PlanIsWhatWasWritten ==
  stage = "returned" =>
    LET plan == Plan
        RunsOf(id) == {i \in DOMAIN plan : plan[i].id = id}
    IN  \A id \in DOMAIN written : ~written[id].dropped =>
          \E i \in RunsOf(id) : RunsOf(id) = {i} /\ plan[i].clauses = written[id].clauses

(* Statements run in the order in which the client finished writing them.  *)
PlanIsInOrder ==
  stage = "returned" =>
    LET plan == Plan
    IN  \A i, j \in DOMAIN plan :
          i < j /\ ~plan[i].part /\ ~plan[j].part => plan[i].id < plan[j].id

(* Statements run in one transaction exactly when the client wrote them in *)
(* one (outermost) transaction { } block.  A SELECT of a UNION is no       *)
(* statement of its own here: it runs with the UNION.                      *)
TransactionsAreBlocks ==
  stage = "returned" =>
    LET plan == Plan
        BlockOf(i) == written[plan[i].id].transaction
    IN  \A i, j \in {k \in DOMAIN plan : ~plan[k].part} :
          /\ BlockOf(i) = 0 <=> plan[i].group = 0
          /\ BlockOf(i) # 0 => (BlockOf(i) = BlockOf(j) <=> plan[i].group = plan[j].group)

(* A clause in a fluent chain always finds its statement in place: no      *)
(* chain the types admit ends in "can't append clause".                    *)
FluentIsNeverRejected == stage # "rejected"

=============================================================================
