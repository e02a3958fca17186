--------------------------- MODULE MCNestedSearch ---------------------------
(***************************************************************************)
(* Instances of NestedSearch for TLC: the searcher w1 with every shape of  *)
(* condition, beside one worker that updates and inserts rows of the same  *)
(* table.                                                                  *)
(***************************************************************************)
EXTENDS NestedSearch, MCTableRows

MCDataTypes ==
    [c \in MCColumns |-> IF c = "id" THEN "BIG_INT"
                         ELSE IF c = "k" THEN "INTEGER" ELSE "DATE"]

Col(c) == [is |-> "column", col |-> c]
Lit(x) == [is |-> "literal", val |-> x, type |-> "BIG_INT"]
DateLit == [is |-> "literal", val |-> 0, type |-> "BOOLEAN"]
Bare == [is |-> "name"]
Missing == [is |-> "unknown"]

On(join, l, op, r) == [join |-> join, left |-> l, op |-> op, right |-> r]

IsOne(join) == On(join, Col("k"), "EQUALS", Lit(1))
IsTwo(join) == On(join, Lit(2), "EQUALS", Col("k"))
NotFive(join) == On(join, Col("v"), "NOT_EQUALS", Lit(5))
IsFive(join) == On(join, Col("v"), "EQUALS", Lit(5))
TwoColumns(join) == On(join, Col("k"), "EQUALS", Col("id"))

\* Conditions that become trees of value predicates.
ValueConditions ==
    {<<IsOne("AND")>>,
     <<IsOne("AND"), IsFive("AND")>>,
     <<IsOne("AND"), NotFive("AND")>>,
     <<IsTwo("AND"), NotFive("OR")>>,
     <<IsOne("AND"), IsTwo("OR"), NotFive("AND")>>,
     <<IsOne("AND"), NotFive("AND"), IsTwo("OR")>>}

\* Conditions that do not, or not in every place.
OddConditions ==
    {<<TwoColumns("AND")>>,
     <<TwoColumns("AND"), IsOne("OR")>>,
     <<IsOne("AND"), TwoColumns("OR"), IsTwo("OR")>>,
     <<On("AND", Col("k"), "EQUALS", Bare)>>,
     <<On("AND", Col("v"), "EQUALS", DateLit)>>,
     <<IsOne("AND"), On("OR", Bare, "EQUALS", Lit(1))>>,
     <<On("AND", Col("k"), "EQUALS", Col("v"))>>,
     <<On("AND", Missing, "EQUALS", Col("v")), IsOne("AND")>>}

MCCommands ==
    {[kind |-> "SELECT", condition |-> c, row |-> NoRow] :
        c \in ValueConditions \cup OddConditions}
    \cup {[kind |-> "UPDATE", condition |-> c, row |-> FullRecord(<<Set("v", 9)>>)] :
        c \in ValueConditions \cup OddConditions}

WorkerRequests ==
    [t \in Threads |->
        IF t = w1 THEN {}
        ELSE {Update(Where("k", "EQUALS", 1), <<Set("k", 2)>>),
              Update(Where("k", "EQUALS", 2), <<Set("v", 5)>>), Insert(1, Null)}]
=============================================================================
