---------------------------- MODULE MCResultWire ----------------------------
(***************************************************************************)
(* Instance of ResultWire for TLC: a table of two columns whose words      *)
(* carry a bit of Tervel's, no record, one, or two.                        *)
(***************************************************************************)
EXTENDS ResultWire

Stored(value, type) == [value |-> value, type |-> type, tervel_status |-> value % 2]

FirstRecord == <<Stored(1, "INTEGER"), Stored(2, "BIG_INT")>>
SecondRecord == <<Stored(3, "INTEGER"), Stored(4, "BIG_INT")>>

\* Another selection in another order for each size.
MCSelections == {<<>>, <<SecondRecord>>, <<FirstRecord, SecondRecord>>}

MCColumns == <<"a", "b">>

Select(list) == [type |-> "SELECT", list |-> list]
Column(name, as) == [column |-> name, as |-> as]

\* All columns and one of them again, one under another name, one that does not
\* exist, and text that is no statement.
MCStatements ==
    {Select(<<Column("*", ""), Column("a", "a2")>>), Select(<<Column("b", "")>>),
     Select(<<Column("x", "b")>>), [type |-> "COMMAND"], [type |-> "MALFORMED"]}

\* A count of rows that is less than a word's size, and one that is more.
MCManipResults ==
    [type: {"COMMAND"}, status: {"SUCCESS"}, result: {0}, rows_affected: {0, 3, 9}]
    \cup [type: {"COMMAND"}, status: {"FAILURE"}, result: {4}, rows_affected: {0}]
=============================================================================
