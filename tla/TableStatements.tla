-------------------------- MODULE TableStatements --------------------------
(***************************************************************************)
(* One generated table and the statements written against it: the          *)
(* processor compiles the class (TableSchema), CREATE runs its DDL, INSERT *)
(* encodes entities, and SELECT, UPDATE and DELETE take Conditions.        *)
(***************************************************************************)
EXTENDS Integers, TableSchema, Conditions

CONSTANTS
  Data,           \* values of a property, null apart
  Null,           \* Kotlin's null, and NULL
  MaxRows,        \* bound: rows, those an INSERT would add included
  QueryClasses    \* the classes whose conditions this instance explores

ASSUME TableBounds ==
  /\ Data \subseteq Nat
  /\ Null \notin Nat
  /\ MaxRows \in Nat
  /\ QueryClasses \subseteq Classes

VARIABLES
  table,     \* the table in the database: absent, created, or failed
  rows,      \* its rows, in the order they came, from column to value
  inserted   \* history: the last INSERT, its outcome and the rows before it

tableVars == <<table, rows, inserted>>
vars == <<schemaVars, conditionVars, tableVars>>

NotInserted == [entities |-> <<>>, withId |-> FALSE, outcome |-> "none", before |-> <<>>]

Init ==
  /\ SchemaInit /\ ConditionInit
  /\ table = "absent"
  /\ rows = <<>>
  /\ inserted = NotInserted

-----------------------------------------------------------------------------
(* INSERT *)

Elements == Range(Descriptor)
Entities == {e \in [Elements -> Data \union {Null}] :
               \A p \in Elements : e[p] = Null => class[p].nullable}

(* The id is left out for a row id key, unless INSERT_WITH_ID asks for it; *)
(* isRowId is FALSE for a table without a key.                             *)
IsInsertId(withId) == ~ parser.isRowId \/ withId
LeftOut(p, withId) == ~ IsInsertId(withId) /\ p = parser.primaryKeyName

(* The places in the descriptor of what an INSERT names. *)
Kept(withId) ==
  UpTo(Len(Descriptor), {n \in DOMAIN Descriptor : ~ LeftOut(Descriptor[n], withId)})

(* The elements at these places, each but the last element of the          *)
(* descriptor with a comma.                                                *)
Separated(places, last) ==
  [i \in DOMAIN places |-> [name |-> Descriptor[places[i]],
                            mark |-> IF places[i] < Len(Descriptor) THEN "," ELSE last]]

(* appendDBColumnName: every column but the id. *)
InsertColumns(withId) == Separated(Kept(withId), "")

(* Variant: the encoder does not skip the id. *)
EncodeTupleWithId(withId) == Separated([n \in DOMAIN Descriptor |-> n], ")")

(* encodeSerializableValue: a placeholder per element that encodeElement   *)
(* lets through, then a comma, or the parenthesis after the last element   *)
(* of the descriptor.                                                      *)
EncodeTuple(withId) == Separated(Kept(withId), ")")

(* Marks stand where SQL wants them: commas between, the right end last. *)
WellMarked(list, last) ==
  /\ list # <<>>
  /\ \A i \in DOMAIN list : list[i].mark = IF i = Len(list) THEN last ELSE ","

(* SQLite parses the statement and finds its columns (external). *)
InsertIsAccepted(entities, withId) ==
  LET names == InsertColumns(withId)
      tuple == EncodeTuple(withId)
  IN  /\ entities # <<>>
      /\ WellMarked(names, "")
      /\ WellMarked(tuple, ")")
      /\ Len(names) = Len(tuple)
      /\ {names[i].name : i \in DOMAIN names} \subseteq ColumnNames

(* The row of one entity (external): values go to columns by position, a   *)
(* row id left NULL is new, the other columns are NULL.                    *)
NewRow(entity, withId, fresh) ==
  LET names == InsertColumns(withId)
      tuple == EncodeTuple(withId)
      given == [c \in ColumnNames |->
                  IF \E i \in DOMAIN names : names[i].name = c
                  THEN entity[tuple[CHOOSE i \in DOMAIN names : names[i].name = c].name]
                  ELSE Null]
  IN  [c \in ColumnNames |-> IF c \in RowIdColumns /\ given[c] = Null THEN fresh ELSE given[c]]

Key(row) == [c \in KeyColumns |-> row[c]]
HasNull(row) == \E c \in DOMAIN row : row[c] = Null

(* Constraints (external): NULLs never collide. *)
Collide(row, other) == KeyColumns # {} /\ Key(row) = Key(other) /\ ~ HasNull(Key(row))
SatisfiesConstraints(table_) ==
  /\ \A i \in DOMAIN table_ : \A c \in NotNullColumns : table_[i][c] # Null
  /\ \A i, j \in DOMAIN table_ : i # j => ~ Collide(table_[i], table_[j])

(* A new row id is larger than every other. *)
FreshId(table_) ==
  LET ids == {table_[i][c] : i \in DOMAIN table_, c \in RowIdColumns} \union {0}
  IN  1 + CHOOSE m \in ids : \A n \in ids : n <= m

AppendRow(withId, table_, entity) == Append(table_, NewRow(entity, withId, FreshId(table_)))

Stored(entities, withId) ==
  LET after[n \in 0 .. Len(entities)] ==
        IF n = 0 THEN rows ELSE AppendRow(withId, after[n - 1], entities[n])
  IN  after[Len(entities)]

Insert(entities, withId) ==
  LET stored == Stored(entities, withId)
      done == InsertIsAccepted(entities, withId) /\ SatisfiesConstraints(stored)
  IN  /\ table = "created"
      /\ class \notin QueryClasses
      /\ Len(rows) + Len(entities) <= MaxRows
      /\ rows' = IF done THEN stored ELSE rows
      /\ inserted' = [entities |-> entities, withId |-> withId, before |-> rows,
                      outcome |-> IF done THEN "done" ELSE "threw"]
      /\ UNCHANGED <<table, schemaVars, conditionVars>>

-----------------------------------------------------------------------------
(* CREATE, and conditions *)

Create ==
  /\ outcome = "generated" /\ table = "absent"
  /\ table' = IF CreateIsAccepted THEN "created" ELSE "failed"
  /\ UNCHANGED <<rows, inserted, schemaVars, conditionVars>>

(* Conditions and rows do not meet: what a comparison finds in a row is    *)
(* SQLite's.  A class explores either, conditions if it is in QueryClasses. *)
Query ==
  /\ table = "created"
  /\ class \in QueryClasses
  /\ ConditionNext
  /\ UNCHANGED <<schemaVars, tableVars>>

Next ==
  \/ SchemaNext /\ UNCHANGED <<conditionVars, tableVars>>
  \/ Create
  \/ \E n \in 0 .. MaxRows - Len(rows) : \E entities \in [1 .. n -> Entities], withId \in BOOLEAN :
       Insert(entities, withId)
  \/ Query

Spec == Init /\ [][Next]_vars

-----------------------------------------------------------------------------
(* Properties *)

Row == [ColumnNames -> Nat \union {Null}]

(* Types, those of the parts included. *)
TypeOK ==
  /\ ConditionTypeOK
  /\ class \in Classes /\ index \in 1 .. Len(class) + 1
  /\ columns \in Seq([name : DOMAIN class, type : {"INTEGER", "BIGINT", "INT", "TEXT"}, comma : BOOLEAN,
                      constraints : SUBSET {"PRIMARY KEY", "AUTOINCREMENT", "NOT NULL"}])
  /\ accessors \in Seq([property : DOMAIN class, column : {NoProperty} \union DOMAIN class,
                        acceptsNull : BOOLEAN])
  /\ parser \in [primaryKeyName : {NoProperty} \union DOMAIN class, isAutomaticIncrement : BOOLEAN,
                 isRowId : BOOLEAN, compositePrimaryKeys : Seq(DOMAIN class)]
  /\ outcome \in {"compiling", "generated", "rejected"}
  /\ table \in {"absent", "created", "failed"}
  /\ rows \in Seq(Row)

(* The keys the processor takes for a row id; SQLite takes only the Long.  *)
RowIdKey(i) == class[i].key = "primary" /\ class[i].type \in {"Long", "ULong"}
UnsignedKey(i) == class[i].key = "primary" /\ class[i].type = "ULong"

(* CREATE fails for exactly these of the classes the processor accepts.    *)
CreateFailureIsExplained ==
  table # "absent" =>
    (table = "failed" <=>
       \/ class = <<>>
       \/ class[Len(class)].type = "Other"
       \/ \E i, j \in DOMAIN columns :
            class[columns[i].name].key = "primary" /\ class[columns[j].name].key = "composite"
       \/ \E i \in DOMAIN class : UnsignedKey(i) /\ class[i].isAutoincrement)

(* An accessor names the column of its property unless a property without  *)
(* a backing field is in front; a setter takes null for a nullable column, *)
(* and for every column after a row id key.                                *)
AccessorsFitTheirColumn ==
  \A a \in Range(accessors) :
    /\ a.column = a.property <=> \A i \in 1 .. a.property : class[i].backed
    /\ a.acceptsNull <=> \/ class[a.property].nullable
                         \/ \E i \in 1 .. a.property : RowIdKey(i)

(* What the processor accepts: the two above.  A key column without the    *)
(* other kind of key, a trailing property without a column, a computed     *)
(* property and an unsigned key are where its checks end.                  *)
GeneratedTablesAreExplained == CreateFailureIsExplained /\ AccessorsFitTheirColumn

(* What row n has of an element that was written: the element itself, a    *)
(* new row id for one that was left out or NULL, or NULL for an unsigned   *)
(* key that was left out.                                                  *)
ElementIsStored(written, table_, n, p, withId) ==
  \/ table_[n][p] = written
  \/ /\ p \in RowIdColumns /\ (~ withId \/ written = Null)
     /\ \A i \in 1 .. (n - 1) : table_[i][p] < table_[n][p]
  \/ UnsignedKey(p) /\ ~ withId /\ table_[n][p] = Null

(* INSERT stores the entities whole and in order, or it throws and stores  *)
(* none.  Stored, each element is in its own column, but for two kinds of  *)
(* key that an INSERT without id leaves out: in place of a Long, the row   *)
(* gets an id larger than all before it (also where the id is null); in    *)
(* place of a ULong it gets NULL, whatever the client wrote, although the  *)
(* comment of encodeEntities2InsertValues says that every key the user     *)
(* provides is inserted.  It throws only if there is no entity, if the id  *)
(* left out is the last element (the SQL text then ends in a comma), if    *)
(* the class has a property that is not in both table and descriptor, or   *)
(* for a key that the client gives.                                        *)
InsertsStoreTheEntities ==
  LET entities == inserted.entities
      old == Len(inserted.before)
  IN  /\ inserted.outcome = "done" =>
           /\ Len(rows) = old + Len(entities)
           /\ SubSeq(rows, 1, old) = inserted.before
           /\ \A k \in DOMAIN entities, p \in Elements :
                ElementIsStored(entities[k][p], rows, old + k, p, inserted.withId)
      /\ inserted.outcome = "threw" =>
           /\ rows = inserted.before
           /\ \/ entities = <<>>
              \/ RowIdKey(Last(Descriptor)) /\ ~ inserted.withId
              \/ \E i \in DOMAIN class : class[i].type = "Other" \/ ~ class[i].backed
              \/ \E i \in Elements : class[i].key # "none" /\ (~ RowIdKey(i) \/ inserted.withId)

(* Rows can be told apart by their key when it is a Long, or composite and *)
(* of backed properties: it is never NULL and no two rows have it.         *)
KeysIdentifyRows ==
  (\/ \E i \in DOMAIN class : class[i].key = "primary" /\ class[i].type = "Long"
   \/ /\ parser.compositePrimaryKeys # <<>>
      /\ \A i \in Range(parser.compositePrimaryKeys) : class[i].backed) =>
    \A i, j \in DOMAIN rows :
      ~ HasNull(Key(rows[i])) /\ (Key(rows[i]) = Key(rows[j]) => i = j)
=============================================================================
