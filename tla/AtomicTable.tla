----------------------------- MODULE AtomicTable ----------------------------
(***************************************************************************)
(* What a table promises its callers, row by row: a statement is not       *)
(* atomic, but each row it inserts, updates or deletes changes in one      *)
(* step, and an update or a delete only changes a row that satisfies its   *)
(* predicate at that step.  A row keeps its identity while it changes.     *)
(***************************************************************************)
EXTENDS RowOps

CONSTANT Statements     \* the statements callers may issue

VARIABLE table          \* from the identities of the rows to their columns

\* The columns an INSERT may leave: its constraints applied, with some
\* positive number in the AUTO_INCREMENT columns.
Inserted(row, data) ==
    /\ data \in RowData
    /\ \A c \in Columns :
          \/ data[c] = Checked(row, 0)[c]
          \/ HasConstraint(c, "AUTO_INCREMENT") /\ data[c] \in Nat \ {0}

Init == DOMAIN table \in SUBSET Nat /\ table \in [DOMAIN table -> RowData]

Insert(r) ==
    /\ r.kind = "INSERT" /\ Accepted(r.row)
    /\ \E o \in DOMAIN table' \ DOMAIN table :
          /\ table' = [p \in DOMAIN table \cup {o} |->
                          IF p = o THEN table'[o] ELSE table[p]]
          /\ Inserted(r.row, table'[o])

Update(r) ==
    /\ r.kind = "UPDATE"
    /\ \E o \in DOMAIN table :
          /\ Satisfies(table[o], r.pred)
          /\ table' = [table EXCEPT ![o] = Merge(@, r.row)]

Delete(r) ==
    /\ r.kind = "DELETE"
    /\ \E o \in DOMAIN table :
          /\ Satisfies(table[o], r.pred)
          /\ table' = [p \in DOMAIN table \ {o} |-> table[p]]

Next == \E r \in Statements : Insert(r) \/ Update(r) \/ Delete(r)

Spec == Init /\ [][Next]_table
=============================================================================
