----------------------------- MODULE MCTableRows ----------------------------
(***************************************************************************)
(* Instances of TableRows for TLC: two or three threads on                 *)
(* a table of two or three rows with an AUTO_INCREMENT column, a NOT_NULL  *)
(* column and a column with a default.                                     *)
(***************************************************************************)
EXTENDS TableRows

CONSTANTS w1, w2, w3

MCColumns == {"id", "k", "v"}

MCConstraints ==
    [c \in MCColumns |-> CASE c = "id" -> <<"AUTO_INCREMENT">>
                           [] c = "k" -> <<"NOT_NULL">>
                           [] OTHER -> <<"NO_CONSTRAINT", "DEFAULT">>]

MCDefaultOf == [c \in MCColumns |-> IF c = "v" THEN 7 ELSE Null]

Row(k, v) == [id |-> Null, k |-> k, v |-> v]
Stored(id, k, v) == [id |-> id, k |-> k, v |-> v]
Where(c, op, x) == [col |-> c, op |-> op, val |-> x]

Insert(k, v) == [kind |-> "INSERT", pred |-> NoPredicate, row |-> Row(k, v)]
ShortInsert == [kind |-> "INSERT", pred |-> NoPredicate, row |-> NoRow]
Set(c, x) == [col |-> c, val |-> x]
Update(pred, list) == [kind |-> "UPDATE", pred |-> pred, row |-> FullRecord(list)]
Delete(pred) == [kind |-> "DELETE", pred |-> pred, row |-> NoRow]
Select(pred) == [kind |-> "SELECT", pred |-> pred, row |-> NoRow]

TwoRows == <<Stored(1, 1, 0), Stored(2, 2, 0)>>
ThreeRows == <<Stored(1, 1, 0), Stored(2, 1, 0), Stored(3, 2, 0)>>

-----------------------------------------------------------------------------
\* The statements the SQL grammar reaches: two writers whose predicates and
\* columns overlap and read each other's effects.
UpdateRequests ==
    [t \in Threads |->
        IF t = w1
        THEN {Update(Where("k", "EQUALS", 1), <<Set("k", 2)>>), Insert(1, Null)}
        ELSE {Update(Where("k", "NOT_EQUALS", 3), <<Set("v", 5)>>), Select(NoPredicate),
              Update(Where("k", "EQUALS", 1), <<Set("k", 3)>>),
              Update(NoPredicate, <<Set("k", 9), Set("v", 1), Set("k", 1)>>)}]

\* Inserts only, some refused.
InsertRequests ==
    [t \in Threads |-> {Insert(1, Null), Insert(Null, 1), ShortInsert}]

\* Deletes, updates, scans and an insert race on the same rows.
MixedRequests ==
    [t \in Threads |->
        IF t = w1 THEN {Delete(Where("k", "EQUALS", 1)), Delete(NoPredicate)}
        ELSE IF t = w2 THEN {Delete(Where("k", "NOT_EQUALS", 2)),
                             Update(Where("k", "EQUALS", 1), <<Set("k", 2)>>)}
        ELSE {Select(NoPredicate), Insert(1, Null), Insert(Null, 1)}]
=============================================================================
