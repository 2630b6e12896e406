----------------------------- MODULE Conditions -----------------------------
(***************************************************************************)
(* Conditions of WHERE, HAVING and ON, and the statements made from them:  *)
(* the SQL text on one side, the parameters for its placeholders on the    *)
(* other.  A parameter list is a mutable object: AND, OR, a second clause  *)
(* and UNION pass a list on or append to it, they never copy it, and only  *)
(* execute reads it.                                                       *)
(*                                                                         *)
(* A comparison is a number; the parameter for its i-th placeholder is     *)
(* <<comparison, i>>.  SET is numbered like a comparison: its assignments  *)
(* are its placeholders.                                                   *)
(***************************************************************************)
EXTENDS Naturals, Sequences, FiniteSets, SequencesExt

CONSTANTS
  Arity,           \* placeholders a comparison can have: 0 for a null list
  MaxComparisons,  \* bound: comparisons and SETs
  MaxConditions,   \* bound: SelectCondition objects
  MaxStatements,   \* bound: statements of one scope at a time
  MaxScopes,       \* bound: scopes that execute
  MaxReused,       \* bound: no condition is used again from this many reused comparisons on
  Kinds            \* the statements this instance starts with

ASSUME ConditionBounds ==
  /\ Arity \subseteq Nat
  /\ {MaxComparisons, MaxConditions, MaxStatements, MaxScopes, MaxReused} \subseteq Nat
  /\ Kinds \subseteq {"delete", "select", "join"}

VARIABLES
  lists,        \* every parameter list made so far
  conditions,   \* every SelectCondition made so far
  statements,   \* the statements of the scope, in order
  executed,     \* scope by scope, its statements and what each has bound
  comparisons,  \* how many comparisons and SETs were written
  reused        \* history: comparisons of conditions the client used twice

conditionVars == <<lists, conditions, statements, executed, comparisons, reused>>

NoList == 0     \* Kotlin's null, as a parameter list

ConditionInit ==
  /\ lists = <<>>
  /\ conditions = <<>>
  /\ statements = <<>>
  /\ executed = <<>>
  /\ comparisons = 0
  /\ reused = {}

-----------------------------------------------------------------------------
(* Texts *)

(* A text is its comparisons in order; op is the operator before each. *)
Comparison(n) == [op |-> "", number |-> comparisons + 1, arity |-> n]
Values(c) == [i \in 1 .. c.arity |-> <<c.number, i>>]
Placeholders(text) == FlattenSeq([i \in DOMAIN text |-> Values(text[i])])
Numbers(text) == {text[i].number : i \in DOMAIN text}

(* Variant: a chain goes on with the operator it has. *)
ChainWithin(op, first, second) ==
  IF Len(first) = 1 THEN first \o <<[Head(second) EXCEPT !.op = op]>> \o Tail(second)
  ELSE first \o <<[Head(second) EXCEPT !.op = Last(first).op]>> \o Tail(second)

Chain(op, first, second) == first \o <<[Head(second) EXCEPT !.op = op]>> \o Tail(second)

(* What SQLite reads: AND binds tighter than OR, so a text holds when all  *)
(* comparisons between two ORs do.  S is the set of comparisons that hold. *)
Holds(text, S) ==
  \E i \in DOMAIN text :
    /\ text[i].op # "AND"
    /\ \A j \in i .. Len(text) :
         (\A k \in i + 1 .. j : text[k].op = "AND") => text[j].number \in S

Valuations == SUBSET (1 .. MaxComparisons)
Read(text) == {S \in Valuations : Holds(text, S)}

-----------------------------------------------------------------------------
(* Parameter lists *)

(* Variant: the second list is put in front. *)
MergedInFront(heap, p, q) ==
  IF p = NoList THEN [heap |-> heap, list |-> q]
  ELSE IF q = NoList THEN [heap |-> heap, list |-> p]
  ELSE [heap |-> [heap EXCEPT ![p] = heap[q] \o @], list |-> p]

(* Two lists as one: the other one if one is null, else the first, to      *)
(* which the second is appended.                                           *)
Merged(heap, p, q) ==
  IF p = NoList THEN [heap |-> heap, list |-> q]
  ELSE IF q = NoList THEN [heap |-> heap, list |-> p]
  ELSE [heap |-> [heap EXCEPT ![p] = @ \o heap[q]], list |-> p]

(* The lists of statements, merged one after the other. *)
MergedAll(parts) ==
  LET merging[i \in 0 .. Len(parts)] ==
        IF i = 0 THEN [heap |-> lists, list |-> NoList]
        ELSE LET m == merging[i - 1] IN Merged(m.heap, m.list, parts[i].list)
  IN  merging[Len(parts)]

(* The history of the uses of a condition. *)
Reuse(Again) ==
  /\ Again # {} => Cardinality(reused) < MaxReused
  /\ reused' = reused \union UNION {Numbers(conditions[c].text) : c \in Again}

Used(C) == [c \in DOMAIN conditions |->
              IF c \in C THEN [conditions[c] EXCEPT !.used = TRUE] ELSE conditions[c]]
UsedBefore(C) == {c \in C : conditions[c].used}

-----------------------------------------------------------------------------
(* Conditions *)

(* Variant: no values are an empty list. *)
CompareWithEmptyList(n) ==
  /\ comparisons < MaxComparisons /\ Len(conditions) < MaxConditions
  /\ comparisons' = comparisons + 1
  /\ lists' = Append(lists, Values(Comparison(n)))
  /\ conditions' = Append(conditions,
       [text  |-> <<Comparison(n)>>, list |-> Len(lists) + 1,
        means |-> {S \in Valuations : comparisons + 1 \in S},
        mixed |-> FALSE, used |-> FALSE])
  /\ UNCHANGED <<statements, executed, reused>>

(* EQ, LT, BETWEEN, IN, LIKE ...: a comparison with a list of its own, or  *)
(* with none (EQ null, IS, a comparison of two columns).                   *)
Compare(n) ==
  /\ comparisons < MaxComparisons /\ Len(conditions) < MaxConditions
  /\ comparisons' = comparisons + 1
  /\ lists' = IF n = 0 THEN lists ELSE Append(lists, Values(Comparison(n)))
  /\ conditions' = Append(conditions,
       [text  |-> <<Comparison(n)>>,
        list  |-> IF n = 0 THEN NoList ELSE Len(lists) + 1,
        means |-> {S \in Valuations : comparisons + 1 \in S},
        mixed |-> FALSE, used |-> FALSE])
  /\ UNCHANGED <<statements, executed, reused>>

HasOr(c) == \E i \in DOMAIN conditions[c].text : conditions[c].text[i].op = "OR"

(* c AND d, c OR d.  means: what the client wrote.  mixed: somewhere an    *)
(* operand of AND is an OR.                                                *)
Combine(op, c, d) ==
  /\ Len(conditions) < MaxConditions
  /\ LET C == conditions[c]
         D == conditions[d]
         merged == Merged(lists, C.list, D.list)
     IN  /\ lists' = merged.heap
         /\ conditions' = Append(Used({c, d}),
              [text  |-> Chain(op, C.text, D.text),
               list  |-> merged.list,
               means |-> IF op = "AND" THEN C.means \intersect D.means
                         ELSE C.means \union D.means,
               mixed |-> \/ C.mixed \/ D.mixed
                         \/ op = "AND" /\ (HasOr(c) \/ HasOr(d)),
               used  |-> FALSE])
         /\ Reuse(IF c = d THEN {c} ELSE UsedBefore({c, d}))
  /\ UNCHANGED <<statements, executed, comparisons>>

-----------------------------------------------------------------------------
(* Statements *)

Statement(kind, text, list) ==
  [kind |-> kind, text |-> text, list |-> list]

AddStatement(s) ==
  /\ Len(statements) < MaxStatements
  /\ statements' = Append(statements, s)

(* DELETE WHERE, SELECT WHERE, SELECT JOIN ON: the list of the condition   *)
(* becomes the list of the statement.                                      *)
WriteWithCondition(kind, c) ==
  /\ AddStatement(Statement(kind, conditions[c].text, conditions[c].list))
  /\ conditions' = Used({c})
  /\ Reuse(UsedBefore({c}))
  /\ UNCHANGED <<lists, executed, comparisons>>

(* DELETE X, SELECT GROUPBY, SELECT NATURAL JOIN, SELECT JOIN USING. *)
WriteWithoutCondition(kind) ==
  /\ AddStatement(Statement(kind, <<>>, NoList))
  /\ UNCHANGED <<lists, conditions, executed, comparisons, reused>>

(* UPDATE SET: one placeholder and one parameter per assignment. *)
WriteUpdate(n) ==
  /\ n > 0
  /\ comparisons < MaxComparisons
  /\ comparisons' = comparisons + 1
  /\ lists' = Append(lists, Values(Comparison(n)))
  /\ AddStatement(Statement("update", <<Comparison(n)>>, Len(lists) + 1))
  /\ UNCHANGED <<conditions, executed, reused>>

(* What a second clause with a condition makes of a statement: UPDATE ...  *)
(* WHERE, JOIN ... WHERE, GROUPBY ... HAVING.                              *)
Refinement == [update |-> "final", join |-> "select", select |-> "finalSelect"]

(* The clause replaces the last statement of the scope. *)
AppendClause(c) ==
  /\ statements # <<>>
  /\ LET s == Last(statements)
         merged == Merged(lists, s.list, conditions[c].list)
     IN  /\ s.kind \in DOMAIN Refinement
         /\ lists' = merged.heap
         /\ statements' = Append(Front(statements),
              Statement(Refinement[s.kind], s.text \o conditions[c].text, merged.list))
  /\ conditions' = Used({c})
  /\ Reuse(UsedBefore({c}))
  /\ UNCHANGED <<executed, comparisons>>

(* UNION { } around the last n statements: their texts and their lists as  *)
(* one statement.                                                          *)
Union(n) ==
  LET parts == SubSeq(statements, Len(statements) - n + 1, Len(statements))
      merged == MergedAll(parts)
  IN  /\ n \in 2 .. Len(statements)
      /\ \A i \in DOMAIN parts : parts[i].kind \in {"select", "join", "finalSelect"}
      /\ lists' = merged.heap
      /\ statements' = Append(SubSeq(statements, 1, Len(statements) - n),
           Statement("finalSelect", FlattenSeq([i \in DOMAIN parts |-> parts[i].text]), merged.list))
      /\ UNCHANGED <<conditions, executed, comparisons, reused>>

(* The end of a scope: every statement copies its list and binds it. *)
Execute ==
  /\ statements # <<>>
  /\ executed' = Append(executed,
       {[text |-> s.text, bound |-> IF s.list = NoList THEN <<>> ELSE lists[s.list]]
        : s \in Range(statements)})
  /\ statements' = <<>>
  /\ UNCHANGED <<lists, conditions, comparisons, reused>>

ConditionNext ==
  /\ Len(executed) < MaxScopes
  /\ \/ \E n \in Arity : Compare(n) \/ WriteUpdate(n)
     \/ \E op \in {"AND", "OR"}, c, d \in DOMAIN conditions : Combine(op, c, d)
     \/ \E kind \in Kinds :
          WriteWithoutCondition(kind) \/ \E c \in DOMAIN conditions : WriteWithCondition(kind, c)
     \/ \E c \in DOMAIN conditions : AppendClause(c)
     \/ \E n \in 2 .. MaxStatements : Union(n)
     \/ Execute

ConditionSpec == ConditionInit /\ [][ConditionNext]_conditionVars

-----------------------------------------------------------------------------
(* Properties *)

Text == Seq([op : {"", "AND", "OR"}, number : Nat, arity : Nat])
ListId == NoList .. Len(lists)

(* Types.  No list is empty: binding an empty array is an error            *)
(* (NativeDatabaseConnection.kt:38), so "no parameters" is always null.    *)
ConditionTypeOK ==
  /\ lists \in Seq(Seq(Nat \X Nat) \ {<<>>})
  /\ conditions \in Seq([text : Text, list : ListId, means : SUBSET Valuations,
                         mixed : BOOLEAN, used : BOOLEAN])
  /\ statements \in Seq([kind : {"delete", "join", "update", "final", "select", "finalSelect"},
                         text : Text, list : ListId])
  /\ executed \in Seq(SUBSET [text : Text, bound : Seq(Nat \X Nat)])
  /\ comparisons \in 0 .. MaxComparisons
  /\ reused \subseteq 1 .. comparisons

(* A statement made of conditions that were used once binds, to each of    *)
(* its placeholders, the value written there: however lists are shared     *)
(* and appended to by other statements, by AND, OR and UNION, before it    *)
(* executes.                                                               *)
ParametersMatchPlaceholders ==
  \A s \in UNION Range(executed) :
    Numbers(s.text) \intersect reused = {} => s.bound = Placeholders(s.text)

(* SQLite reads a condition as it was written, as long as no operand of an *)
(* AND is an OR.                                                           *)
PlainConditionsMeanWhatIsWritten ==
  \A i \in DOMAIN conditions :
    ~ conditions[i].mixed => Read(conditions[i].text) = conditions[i].means

(* SelectCondition.kt:45 and :52 say of OR and AND                         *)
(* "Creates: `(condition1) OR (condition2)`", "... AND ...": SQLite reads  *)
(* every condition as it was written.                                      *)
ConditionsMeanWhatIsWritten ==
  \A i \in DOMAIN conditions : Read(conditions[i].text) = conditions[i].means
=============================================================================
