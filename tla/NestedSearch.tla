---------------------------- MODULE NestedSearch ----------------------------
(***************************************************************************)
(* A SELECT or UPDATE whose WHERE clause joins comparisons with AND and    *)
(* OR, beside the workers of TableRows.  The grammar actions build an      *)
(* expression tree, makePredicateFromExpression turns it into predicates,  *)
(* and searchTables or searchTablesForRefs scans the table once for every  *)
(* comparison and joins the results by record id.  An UPDATE then applies  *)
(* its references with the steps of TableRows.                             *)
(*                                                                         *)
(* Every tree the grammar builds leans to the left, because AND and OR     *)
(* reduce as soon as their right operand is complete, so a tree is the     *)
(* sequence of its comparisons.  All of them name the statement's table.   *)
(***************************************************************************)
EXTENDS TableRows

CONSTANTS
    Searcher,       \* the worker thread that runs the statement
    Commands,       \* the statements it may be given
    DataTypes,      \* the type of each column: "BOOLEAN", "INTEGER", ...
    Garbage         \* what an uninitialized literal may hold

Hits == Nat \X Nat      \* <<comparison, version>>: which scan collected what

IntegerTypes == {"SMALL_INT", "INTEGER", "BIG_INT"}

Types == {"BOOLEAN", "FLOAT", "DATE", "TIME"} \cup IntegerTypes

\* A term is a qualified column, of this table or not known, a literal, or a
\* bare name, which the grammar takes and Expression files as an operation.
Terms ==
    [is: {"column"}, col: Columns] \cup [is: {"unknown", "name"}]
        \cup [is: {"literal"}, val: Datum, type: Types]

Comparison == [join: {"AND", "OR"}, left: Terms, op: {"EQUALS", "NOT_EQUALS"},
               right: Terms]

ASSUME SearcherAssumption == Searcher \in Threads /\ Requests[Searcher] = {}

ASSUME DataTypesAssumption == DataTypes \in [Columns -> Types]

ASSUME GarbageAssumption == Garbage \subseteq Datum

ASSUME CommandsAssumption ==
    \A c \in Commands :
        /\ c.kind \in {"SELECT", "UPDATE"} /\ c.row \in StatementRow
        /\ c.kind = "UPDATE" => c.row \in RowData
        /\ c.condition \in Seq(Comparison) \ {<<>>}

VARIABLES
    command,        \* the statement
    nodes,          \* its predicate tree: the joins and the leaves, in order
    stage,          \* what the search does next
    leaf,           \* the leaf it scans for
    hits,           \* what the scan of this leaf collected
    joined,         \* the result of the tree up to the last leaf
    entry,          \* the map searchTables returns has an entry for the table
    outcome,        \* what became of the search
    began,          \* history: the versions live when the statement was parsed
    window          \* history: the versions live at some time during the search

searchVars == <<command, nodes, stage, leaf, hits, joined, entry, outcome, began, window>>
allVars == <<vars, searchVars>>

NoCommand == [kind |-> "SELECT", condition |-> <<>>, row |-> NoRow]

\* The leaves of the predicate tree: a ValuePredicate, a ColumnPredicate, or
\* the null pointer of a comparison that could not be translated.
ColumnLeaf == [is |-> "column", pred |-> NoPredicate]
FailedLeaf == [is |-> "failed", pred |-> NoPredicate]
ThrownLeaf == [is |-> "thrown", pred |-> NoPredicate]
ValueLeaf(c, op, val) ==
    [is |-> "value", pred |-> [col |-> c, op |-> op, val |-> val]]

SearchInit ==
    /\ Init
    /\ command = NoCommand /\ nodes = <<>>
    /\ stage = "idle" /\ leaf = 1
    /\ hits = {} /\ joined = {} /\ entry = TRUE
    /\ outcome = "none"
    /\ began = {} /\ window = {}
-----------------------------------------------------------------------------
(* The builder: grammar actions, in the order the parser reduces them.     *)

AddValueExpr(tree, comparison) ==
    Append(tree, [join |-> "NO_OP", comparison |-> comparison])

\* Defects for mutant runs: every nested expression becomes an OR, or an AND.
StartNestedAsOr(tree, operation) ==
    IF Len(tree) > 1 THEN [tree EXCEPT ![Len(tree)].join = "OR"] ELSE tree

StartNestedAsAnd(tree, operation) ==
    IF Len(tree) > 1 THEN [tree EXCEPT ![Len(tree)].join = "AND"] ELSE tree

\* The root is nested once the tree has a second comparison.
StartNestedExpr(tree, operation) ==
    IF Len(tree) > 1 THEN [tree EXCEPT ![Len(tree)].join = operation] ELSE tree

BuiltTree(condition) ==
    LET built[n \in 0 .. Len(condition)] ==
            IF n = 0 THEN <<>>
            ELSE StartNestedExpr(AddValueExpr(built[n - 1], condition[n]),
                                 condition[n].join)
    IN built[Len(condition)]

-----------------------------------------------------------------------------
(* makePredicateFromExpression, one comparison at a time.                  *)

\* The second test was meant for the column's type but looks at the value's.
TypesMatch(valueType, columnType) ==
    \/ valueType = columnType
    \/ valueType \in IntegerTypes /\ columnType # "BOOLEAN"

ColumnsComparable(a, b) ==
    \/ DataTypes[a] = DataTypes[b]
    \/ DataTypes[a] \in IntegerTypes /\ DataTypes[b] \in IntegerTypes

\* A literal is compared with the term on the other side, which is looked up
\* as a column.  What is not a literal there has a value nobody has written.
LeavesOfValue(literal, column, op) ==
    IF column.is # "column" THEN {FailedLeaf}
    ELSE IF literal.is = "literal"
         THEN IF TypesMatch(literal.type, DataTypes[column.col])
              THEN {ValueLeaf(column.col, op, literal.val)} ELSE {FailedLeaf}
         ELSE {FailedLeaf} \cup {ValueLeaf(column.col, op, g) : g \in Garbage}

\* A column the schema does not have leaves an index unset: the lookup of its
\* type throws, or finds some type.
LeavesOfColumns(left, right) ==
    IF left.is = "column" /\ right.is = "column"
    THEN {IF ColumnsComparable(left.col, right.col) THEN ColumnLeaf ELSE FailedLeaf}
    ELSE {ColumnLeaf, FailedLeaf, ThrownLeaf}

IsColumn(term) == term.is \in {"column", "unknown"}

LeavesOf(c) ==
    IF IsColumn(c.left) /\ IsColumn(c.right) THEN LeavesOfColumns(c.left, c.right)
    ELSE IF c.left.is = "literal" THEN LeavesOfValue(c.left, c.right, c.op)
    ELSE LeavesOfValue(c.right, c.left, c.op)

\* The predicate trees an expression tree may become.
PredicateTrees(tree) ==
    {p \in [DOMAIN tree -> [join: {"AND", "OR", "NO_OP"},
                            leaf: UNION {LeavesOf(tree[k].comparison) : k \in DOMAIN tree}]] :
        \A k \in DOMAIN tree : /\ p[k].join = tree[k].join
                               /\ p[k].leaf \in LeavesOf(tree[k].comparison)}

IsNested(tree) == Len(tree) > 1

\* A nested predicate one side of which failed is returned all the same, with
\* no children.
Broken(tree) == IsNested(tree) /\ \E k \in DOMAIN tree : tree[k].leaf = FailedLeaf
-----------------------------------------------------------------------------
Idle == stage = "idle" /\ ~crashed

\* The search is over before it reads a row.
EndBefore(what) ==
    /\ stage' = "over" /\ outcome' = what
    /\ UNCHANGED <<leaf, hits, joined, entry>>

\* getRecords and updateRecords look at the root of the predicate tree; a
\* query that fails runs into an assertion of ExecuteStatement.
StartSearch(c, tree) ==
    IF \E k \in DOMAIN tree : tree[k].leaf = ThrownLeaf THEN EndBefore("throws")
    ELSE IF Broken(tree) THEN EndBefore("dereferences null")
    ELSE IF tree = <<[join |-> "NO_OP", leaf |-> ColumnLeaf]>>
         THEN EndBefore(IF c.kind = "SELECT" THEN "assertion fails" ELSE "nothing")
    ELSE IF tree = <<[join |-> "NO_OP", leaf |-> FailedLeaf]>>
         THEN EndBefore(IF c.kind = "SELECT" THEN "whole table" ELSE "ERR")
    ELSE stage' = "leaf" /\ UNCHANGED <<leaf, hits, joined, entry, outcome>>

ParseCommand ==
    /\ Idle
    /\ \E c \in Commands :
          \E tree \in PredicateTrees(BuiltTree(c.condition)) :
              /\ command' = c /\ nodes' = tree
              /\ StartSearch(c, tree)
    /\ began' = Live /\ window' = Live
    /\ crashed' = (outcome' \in {"dereferences null", "assertion fails"})
    /\ UNCHANGED <<records, versions, record_counter, pc, request, scanVars,
                   replyVars, taken>>

At(label) == stage = label /\ ~crashed

IsQuery == command.kind = "SELECT"

\* searchTables reaches the next leaf, whose scan reads the length first.
ScanLeaf ==
    /\ At("leaf") /\ leaf \in DOMAIN nodes
    /\ nodes[leaf].leaf.is = "value"
    /\ table_len' = [table_len EXCEPT ![Searcher] = Len(records)]
    /\ idx' = [idx EXCEPT ![Searcher] = 1]
    /\ hits' = {}
    /\ stage' = IF records = <<>> THEN "join" ELSE "read"
    /\ UNCHANGED <<tableVars, pc, request, retrieved, record_refs, ref, replyVars,
                   taken, command, nodes, leaf, joined, entry, outcome>>

\* A join one side of which compares two columns returns nothing, and of a
\* query not even an entry for the table.  The second leaf is left out when it
\* is the first one that does.
SkipLeaf ==
    /\ At("leaf") /\ leaf \in DOMAIN nodes
    /\ nodes[leaf].leaf = ColumnLeaf
    /\ joined' = {}
    /\ entry' = (entry /\ ~IsQuery)
    /\ leaf' = IF leaf = 1 THEN 3 ELSE leaf + 1
    /\ UNCHANGED <<vars, command, nodes, stage, hits, outcome>>

\* Defect for a mutant run: the scan stays on its row.
NextRowStuck(found) ==
    hits' = found /\ stage' = "read" /\ UNCHANGED idx

NextRow(found) ==
    /\ hits' = found
    /\ IF idx[Searcher] < table_len[Searcher]
       THEN stage' = "read" /\ idx' = [idx EXCEPT ![Searcher] = @ + 1]
       ELSE stage' = "join" /\ UNCHANGED idx

ReadRow ==
    /\ At("read")
    /\ IF InRange(idx[Searcher])
       THEN /\ retrieved' = [retrieved EXCEPT ![Searcher] = records[idx[Searcher]]]
            /\ stage' = "check"
            /\ UNCHANGED <<idx, hits>>
       ELSE NextRow(hits) /\ UNCHANGED retrieved
    /\ UNCHANGED <<tableVars, pc, request, table_len, record_refs, ref, replyVars,
                   taken, command, nodes, leaf, joined, entry, outcome>>

CheckRowRead ==
    /\ At("check")
    /\ LET v == retrieved[Searcher]
       IN IF Held(Searcher) /\ v = NoVersion
          THEN crashed' = TRUE /\ UNCHANGED <<stage, idx, hits>>
          ELSE /\ UNCHANGED crashed
               /\ NextRow(IF Held(Searcher) /\ Satisfies(versions[v].data,
                                                         nodes[leaf].leaf.pred)
                          THEN hits \cup {<<leaf, v>>} ELSE hits)
    /\ UNCHANGED <<records, versions, record_counter, pc, request, table_len,
                   retrieved, record_refs, ref, replyVars, taken, command, nodes,
                   leaf, joined, entry, outcome>>
-----------------------------------------------------------------------------
(* The joins.  std::sort is not stable, so which of several results with   *)
(* one id a set operation copies is open.                                  *)

Id(hit) == IdOf(hit[2])

WithId(results, id) == {h \in results : Id(h) = id}

Ids(results) == {Id(h) : h \in results}

\* std::set_intersection: as many of each id as both sides have, from the left.
Intersections(left, right) ==
    {s \in SUBSET left : \A id \in Ids(left) :
        LET l == Cardinality(WithId(left, id))
            r == Cardinality(WithId(right, id))
        IN Cardinality(WithId(s, id)) = IF l < r THEN l ELSE r}

\* Defect for a mutant run: the two sides are put one behind the other.
Concatenations(left, right) == {left \cup right}

\* std::set_union: the left side, and what the right has more of each id.
Unions(left, right) ==
    {left \cup s : s \in {x \in SUBSET right : \A id \in Ids(right) :
        LET l == Cardinality(WithId(left, id))
            r == Cardinality(WithId(right, id))
        IN Cardinality(WithId(x, id)) = IF l < r THEN r - l ELSE 0}}

\* What the tree up to this leaf may amount to.  A query only joins results
\* that both have an entry for the table.
Joins(left, op, right) ==
    IF ~entry THEN {{}}
    ELSE IF op = "AND" THEN Intersections(left, right)
    ELSE Unions(left, right)

JoinLeaf ==
    /\ At("join")
    /\ IF leaf = 1 THEN joined' = hits
       ELSE joined' \in Joins(joined, nodes[leaf].join, hits)
    /\ leaf' = leaf + 1
    /\ stage' = "leaf"
    /\ hits' = {}
    /\ UNCHANGED <<vars, command, nodes, entry, outcome>>

\* The join sorted the results by id.
SortedById(results) ==
    {q \in SetToSeqs(results) :
        IsNested(nodes) => \A i, j \in DOMAIN q : i < j => Id(q[i]) <= Id(q[j])}

\* The result of the whole tree: getRecords throws when it has no row, and
\* updateRecords goes on to apply the references.
FinishSearch ==
    /\ At("leaf") /\ leaf > Len(nodes)
    /\ stage' = "over"
    /\ IF IsQuery /\ IsNested(nodes) /\ joined = {}
       THEN outcome' = "throws" /\ UNCHANGED <<record_refs, pc, request>>
       ELSE /\ outcome' = "found"
            /\ \E q \in SortedById(joined) :
                  record_refs' = [record_refs EXCEPT ![Searcher] =
                                      [i \in DOMAIN q |-> q[i][2]]]
            /\ request' = [request EXCEPT ![Searcher] =
                  [kind |-> command.kind, pred |-> NoPredicate, row |-> command.row]]
            /\ Goto(Searcher, IF IsQuery \/ joined = {} THEN "done" ELSE "size")
    /\ UNCHANGED <<tableVars, table_len, idx, retrieved, ref, replyVars, taken,
                   command, nodes, leaf, hits, joined, entry>>

SearchStep ==
    /\ ScanLeaf \/ SkipLeaf \/ ReadRow \/ CheckRowRead \/ JoinLeaf \/ FinishSearch
    /\ UNCHANGED <<began, window>>

\* The workers' steps, the searcher's own apply steps among them.
WorkerStep ==
    /\ Next
    /\ window' = IF stage \in {"idle", "over"} THEN window ELSE window \cup Live'
    /\ UNCHANGED <<command, nodes, stage, leaf, hits, joined, entry, outcome, began>>

SearchNext == ParseCommand \/ SearchStep \/ WorkerStep

SearchSpec == SearchInit /\ [][SearchNext]_allVars

FairSearchSpec ==
    /\ SearchSpec
    /\ WF_allVars(SearchStep)
    /\ \A t \in Threads : WF_allVars(WorkerStep /\ Step(t))
-----------------------------------------------------------------------------
\* Every variable of the search holds a value the code's types allow.
SearchTypeOK ==
    /\ TypeOK
    /\ command \in Commands \cup {NoCommand}
    /\ \A k \in DOMAIN nodes : nodes[k].leaf.pred \in Predicates
    /\ stage \in {"idle", "leaf", "read", "check", "join", "over"}
    /\ leaf \in Nat
    /\ hits \subseteq Hits
    /\ joined \subseteq Hits /\ entry \in BOOLEAN
    /\ outcome \in {"none", "throws", "dereferences null", "assertion fails", "nothing",
                    "whole table", "ERR", "found"}
    /\ began \subseteq window /\ window \subseteq 1 .. Len(versions)

\* Ids tell the rows apart that the search could see.
Distinguished ==
    \A v, w \in window : IdOf(v) = IdOf(w) => versions[v].origin = versions[w].origin

\* ... and an UPDATE has not changed the id of any of them.
IdsSteady ==
    \A v, w \in window : (IdOf(v) = IdOf(w)) <=> (versions[v].origin = versions[w].origin)

\* What a condition says of a row up to each leaf of its tree: the joins are
\* taken from left to right.
TruthOf(tree, condition, row) ==
    LET truth[k \in 1 .. Len(tree)] ==
            LET here == Satisfies(row, tree[k].leaf.pred)
            IN IF k = 1 THEN here
               ELSE IF condition[k].join = "AND" THEN truth[k - 1] /\ here
               ELSE truth[k - 1] \/ here
    IN truth

Truth(row) == TruthOf(nodes, command.condition, row)

Holds(row) == Truth(row)[Len(nodes)]

AllValues == \A k \in DOMAIN nodes : nodes[k].leaf.is = "value"

Selected == {h[2] : h \in joined}

\* The whole tree has been searched, and nothing done with the result yet.
Finished == stage = "leaf" /\ leaf > Len(nodes) /\ AllValues

\* The scans of one statement see the table at different times, each without a
\* lock, and still the joined result has every row that met the condition and
\* that nobody touched from the parse to the last join.
UntouchedRowsSelected ==
    (Finished /\ Distinguished) =>
        \A v \in began \cap Live : Holds(versions[v].data) => v \in Selected

\* A version that was selected and is still in the table meets the whole
\* condition, though each scan evaluated one comparison on whatever version
\* it met: what an UPDATE goes on to replace is what its WHERE clause names.
SelectedRowsMeetCondition ==
    (Finished /\ Distinguished) =>
        \A v \in Selected \cap Live : Holds(versions[v].data)

\* No row is selected twice, in one version or in two.
RowsSelectedOnce ==
    (Finished /\ IdsSteady) =>
        \A g, h \in joined : g # h => versions[g[2]].origin # versions[h[2]].origin

\* When an UPDATE has applied its references, no row is left as it was parsed
\* that met the condition: this thread or another one has replaced each.
SelectedRowsReplaced ==
    (/\ stage = "over" /\ command.kind = "UPDATE" /\ pc[Searcher] = "done"
     /\ AllValues /\ Distinguished)
        => \A v \in began \cap Live : ~Holds(versions[v].data)

\* A statement ends, whatever its condition: its scans and its references are
\* finite in number, and each scan reads the length of the table once.
SearchEnds ==
    stage # "idle" ~> (stage = "over" /\ pc[Searcher] = "idle") \/ crashed
=============================================================================
