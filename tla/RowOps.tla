------------------------------- MODULE RowOps -------------------------------
(***************************************************************************)
(* What the data store does with one row on its own: the column            *)
(* constraints an INSERT applies, the merge an UPDATE performs, and the    *)
(* comparison a WHERE clause evaluates.  A row is a function from the      *)
(* columns of the table to numbers or Null; the type tag, the null bit and *)
(* the Tervel status bits of a TervelData word are left out.               *)
(***************************************************************************)
EXTENDS Integers, Sequences

CONSTANTS
    Columns,        \* the columns of the table
    Constraints,    \* Constraints[c] is the constraint list of column c
    DefaultOf,      \* DefaultOf[c] is the value of c's DEFAULT constraint
    Null,           \* the SQL NULL
    NoPredicate     \* a null Predicate pointer: the statement has no WHERE

ConstraintType == {"NO_CONSTRAINT", "NOT_NULL", "AUTO_INCREMENT", "DEFAULT"}

Datum == Nat \cup {Null}

RowData == [Columns -> Datum]

\* The row of a statement that has none, or one of the wrong length.
NoRow == <<>>

StatementRow == RowData \cup {NoRow}

Predicates == {NoPredicate}
    \cup [col: Columns, op: {"EQUALS", "NOT_EQUALS"}, val: Datum]

\* createTable refuses a table without columns.
ASSUME ColumnsAssumption == Columns # {}

ASSUME ConstraintsAssumption == Constraints \in [Columns -> Seq(ConstraintType)]

ASSUME DefaultAssumption == DefaultOf \in RowData

ASSUME NullAssumption == Null \notin Nat

-----------------------------------------------------------------------------
(* schemaChecker: the row is refused or its columns are filled in.         *)

HasConstraint(c, type) == \E j \in DOMAIN Constraints[c] : Constraints[c][j] = type

\* Neither ERR_ROW_LEN nor ERR_NULL: NOT_NULL looks at the value the
\* statement gave, before a DEFAULT fills it in.
Accepted(row) ==
    /\ DOMAIN row = Columns
    /\ \A c \in Columns : HasConstraint(c, "NOT_NULL") => row[c] # Null

\* The positions in c's constraint list that assign the column.
Setters(row, c) ==
    {j \in DOMAIN Constraints[c] :
        \/ Constraints[c][j] = "AUTO_INCREMENT"
        \/ Constraints[c][j] = "DEFAULT" /\ row[c] = Null}

\* The last assignment wins, whatever the earlier ones wrote.
LastSetter(row, c) ==
    CHOOSE j \in Setters(row, c) : \A k \in Setters(row, c) : k <= j

Checked(row, counter) ==
    [c \in Columns |->
        IF Setters(row, c) = {} THEN row[c]
        ELSE IF Constraints[c][LastSetter(row, c)] = "AUTO_INCREMENT"
             THEN counter + 1
             ELSE DefaultOf[c]]

-----------------------------------------------------------------------------
\* The places of a SET list that assign the column.
Assigning(list, c) == {i \in DOMAIN list : list[i].col = c}

\* builderAddUpdateExpr and builderFinishUpdateCommand: a full record, null but
\* for the columns of the SET list, of which the last assignment wins.
FullRecord(list) ==
    [c \in Columns |->
        IF Assigning(list, c) = {} THEN Null
        ELSE list[CHOOSE i \in Assigning(list, c) :
                      \A j \in Assigning(list, c) : j <= i].val]

\* Defect for a mutant run: only the new values are copied.
MergeDropping(old, new) == [c \in {x \in Columns : new[x] # Null} |-> new[c]]

\* updateRecord: a null in the new row keeps the old column.
Merge(old, new) == [c \in Columns |-> IF new[c] = Null THEN old[c] ELSE new[c]]

\* evaluateOperation is SQL_UNKNOWN on a NULL, and only SQL_TRUE selects.
Satisfies(row, pred) ==
    \/ pred = NoPredicate
    \/ /\ row[pred.col] # Null
       /\ pred.val # Null
       /\ \/ pred.op = "EQUALS" /\ row[pred.col] = pred.val
          \/ pred.op = "NOT_EQUALS" /\ row[pred.col] # pred.val
=============================================================================
