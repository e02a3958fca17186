------------------------------ MODULE MCCatalog -----------------------------
(***************************************************************************)
(* Instances of Catalog for TLC: two or three threads on one or two names. *)
(***************************************************************************)
EXTENDS Catalog

CONSTANTS w1, w2, w3, t1, t2

Do(op, n) == [op |-> op, table |-> n, empty |-> FALSE]

CreateEmpty(n) == <<[op |-> "createTable", table |-> n, empty |-> TRUE]>>
Create(n) == <<Do("createTable", n)>>
Drop(n) == <<Do("deleteTable", n)>>
Insert(n) == <<Do("insertRecord", n)>>
Select(n) == <<Do("getColumnIndex", n), Do("getRecords", n)>>
Update(n) == <<Do("getTableSchema", n), Do("getColumnIndex", n), Do("updateRecords", n)>>

\* Two threads may drop the same table, one creates it again, and all of them
\* use tables.
DropperScripts ==
    [t \in Threads |->
        IF t = w1 THEN {Drop(t1), Insert(t1), CreateEmpty(t1)}
        ELSE IF t = w2 THEN {Drop(t1), Update(t1)}
        ELSE {Create(t1), Create(t2), Drop(t2), Select(t2)}]
=============================================================================
