---------------------------- MODULE TableSchema ----------------------------
(***************************************************************************)
(* The KSP processor on one @DBRow class: property by property it writes   *)
(* the columns of CREATE TABLE and the accessors of the table object, then *)
(* primaryKeyInfo.                                                         *)
(*                                                                         *)
(* A property is named by its position in the class.  type "Other" stands  *)
(* for a type without a column.  A property without a backing field is not *)
(* in the serial descriptor, yet the processor meets it.                   *)
(***************************************************************************)
EXTENDS Naturals, Sequences, FiniteSets, SequencesExt

CONSTANT Classes   \* the classes of this instance, as sequences of properties

PropertyType == {"Long", "ULong", "Int", "String", "Other"}
Property == [type : PropertyType, nullable : BOOLEAN, isAutoincrement : BOOLEAN, backed : BOOLEAN,
             key : {"none", "primary", "composite", "both"}]

ASSUME ClassesAssumption == Classes \subseteq Seq(Property)

VARIABLES
  class,     \* the class
  index,     \* the property forEachIndexed is at
  columns,   \* the column definitions in createSQLBuilder
  accessors, \* the accessors written so far
  parser,    \* the fields of ColumnConstraintParser
  outcome    \* compiling, generated, or rejected by a check

schemaVars == <<class, index, columns, accessors, parser, outcome>>

NoProperty == 0

SchemaInit ==
  /\ class \in Classes
  /\ index = 1
  /\ columns = <<>>
  /\ accessors = <<>>
  /\ parser = [primaryKeyName |-> NoProperty, isAutomaticIncrement |-> FALSE,
               isRowId |-> FALSE, compositePrimaryKeys |-> <<>>]
  /\ outcome = "compiling"

-----------------------------------------------------------------------------
(* The numbers up to n that are in keep, in order. *)
UpTo(n, keep) ==
  LET kept[m \in 0 .. n] ==
        IF m = 0 THEN <<>> ELSE IF m \in keep THEN Append(kept[m - 1], m) ELSE kept[m - 1]
  IN  kept[n]

(* The serial descriptor of the class (external): its backed properties. *)
Descriptor == UpTo(Len(class), {i \in DOMAIN class : class[i].backed})
ElementName(i) == IF i \in DOMAIN Descriptor THEN Descriptor[i] ELSE NoProperty

(* Variant: a Long key is a BIGINT, as any Long. *)
SQLTypeNameWithoutInteger(type, isPrimaryKey) ==
  [Long |-> "BIGINT", ULong |-> "BIGINT", Int |-> "INT", String |-> "TEXT"][type]

SQLTypeName(type, isPrimaryKey) ==
  [Long |-> IF isPrimaryKey THEN "INTEGER" ELSE "BIGINT",
   ULong |-> "BIGINT", Int |-> "INT", String |-> "TEXT"][type]

IsPrimaryKey(p) == p.key \in {"primary", "both"}
IsLong(p) == SQLTypeName(p.type, IsPrimaryKey(p)) \in {"INTEGER", "BIGINT"}

(* The checks of parseProperty: they end the compilation. *)
Rejected(p) ==
  \/ IsPrimaryKey(p) /\ \/ p.key = "both" \/ ~ p.nullable
                        \/ parser.primaryKeyName # NoProperty
                        \/ p.isAutoincrement /\ ~ IsLong(p)
  \/ p.key = "composite" /\ p.nullable

Present == index \in DOMAIN class /\ outcome = "compiling"
Current == class[index]
HasColumn == Present /\ Current.type # "Other"

(* A property without a column is passed over, its comma included. *)
SkipProperty ==
  /\ Present
  /\ Current.type = "Other"
  /\ index' = index + 1
  /\ UNCHANGED <<class, columns, accessors, parser, outcome>>

Reject ==
  /\ HasColumn
  /\ Rejected(Current)
  /\ outcome' = "rejected"
  /\ UNCHANGED <<class, index, columns, accessors, parser>>

(* Variant: a comma after every column but the first is put before it. *)
AddColumnAfterComma(constraints) ==
  /\ HasColumn /\ ~ Rejected(Current)
  /\ index' = index + 1
  /\ columns' = Append([i \in DOMAIN columns |-> [columns[i] EXCEPT !.comma = TRUE]],
       [name |-> index, type |-> SQLTypeName(Current.type, IsPrimaryKey(Current)),
        constraints |-> constraints, comma |-> FALSE])
  /\ accessors' = Append(accessors,
       [property |-> index, column |-> ElementName(index),
        acceptsNull |-> parser'.isRowId \/ Current.nullable])
  /\ UNCHANGED <<class, outcome>>

(* The column, a comma after it unless it is the last property, and its    *)
(* accessor; the setter accepts null once a key of the class is a row id.  *)
AddColumn(constraints) ==
  /\ HasColumn /\ ~ Rejected(Current)
  /\ index' = index + 1
  /\ columns' = Append(columns,
       [name |-> index, type |-> SQLTypeName(Current.type, IsPrimaryKey(Current)),
        constraints |-> constraints, comma |-> index < Len(class)])
  /\ accessors' = Append(accessors,
       [property |-> index, column |-> ElementName(index),
        acceptsNull |-> parser'.isRowId \/ Current.nullable])
  /\ UNCHANGED <<class, outcome>>

AddPrimaryKey ==
  /\ HasColumn /\ IsPrimaryKey(Current)
  /\ parser' = [parser EXCEPT !.primaryKeyName = index,
                              !.isAutomaticIncrement = Current.isAutoincrement,
                              !.isRowId = IsLong(Current)]
  /\ AddColumn({"PRIMARY KEY"} \union IF Current.isAutoincrement THEN {"AUTOINCREMENT"} ELSE {})

AddCompositeKey ==
  /\ HasColumn /\ Current.key = "composite"
  /\ parser' = [parser EXCEPT !.compositePrimaryKeys = Append(@, index)]
  /\ AddColumn({})

AddPlainColumn ==
  /\ HasColumn /\ Current.key = "none"
  /\ parser' = parser
  /\ AddColumn(IF Current.nullable THEN {} ELSE {"NOT NULL"})

(* primaryKeyInfo, PRIMARY KEY( ) of a composite key and the end of the file. *)
Generate ==
  /\ outcome = "compiling" /\ index > Len(class)
  /\ outcome' = "generated"
  /\ UNCHANGED <<class, index, columns, accessors, parser>>

SchemaNext ==
  SkipProperty \/ Reject \/ AddPrimaryKey \/ AddCompositeKey \/ AddPlainColumn \/ Generate

-----------------------------------------------------------------------------
(* What SQLite makes of createSQL (external). *)

ColumnNames == {columns[i].name : i \in DOMAIN columns}
ColumnOf(name) == columns[CHOOSE i \in DOMAIN columns : columns[i].name = name]
PrimaryKeyColumns == {n \in ColumnNames : "PRIMARY KEY" \in ColumnOf(n).constraints}
RowIdColumns == {n \in PrimaryKeyColumns : ColumnOf(n).type = "INTEGER"}
NotNullColumns == {n \in ColumnNames : "NOT NULL" \in ColumnOf(n).constraints}

(* The columns of the key; a table constraint brings a comma of its own. *)
KeyColumns == PrimaryKeyColumns \union Range(parser.compositePrimaryKeys)

CreateIsAccepted ==
  /\ columns # <<>>
  /\ \A i \in DOMAIN columns : columns[i].comma <=> i < Len(columns)
  /\ Cardinality(PrimaryKeyColumns) <= 1
  /\ PrimaryKeyColumns = {} \/ parser.compositePrimaryKeys = <<>>
  /\ \A n \in ColumnNames :
       "AUTOINCREMENT" \in ColumnOf(n).constraints => n \in RowIdColumns
=============================================================================
