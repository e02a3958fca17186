------------------------- MODULE NestedSearchProofs -------------------------
(***************************************************************************)
(* Proofs about the search of a nested condition beside any number of      *)
(* threads, for any statements, conditions and rows: every variable has    *)
(* its type; and where no statement deletes, and ids tell rows apart, the  *)
(* search selects the rows its condition names, each once, and an UPDATE   *)
(* replaces them all.                                                      *)
(***************************************************************************)
EXTENDS NestedSearch, TableRowsProofs, RecursionProofs, FiniteSetTheorems

Leaves == [is: {"value", "column", "failed", "thrown"}, pred: Predicates]

NodeType == [join: {"AND", "OR", "NO_OP"}, leaf: Leaves]

\* The type invariant: until the search is over the thread does nothing else,
\* and what it has collected are finitely many records.
SearchInv ==
    /\ TypeInv /\ SearchTypeOK
    /\ nodes \in Seq(NodeType)
    /\ IsFiniteSet(hits) /\ IsFiniteSet(joined)
    /\ \A h \in hits \cup joined : h[2] \in 1 .. Len(versions)
    /\ stage # "over" => pc[Searcher] = "idle"

-----------------------------------------------------------------------------
\* The rows while no statement deletes.
RowsInv ==
    /\ DistinctInv /\ NoNulls
    /\ \A t \in Threads : request[t].kind # "DELETE" /\ pc[t] # "erase"

\* The tree has the joins of the condition.
TreeOK ==
    /\ Len(nodes) = Len(command.condition)
    /\ \A k \in DOMAIN nodes : k # 1 => nodes[k].join = command.condition[k].join
    /\ stage # "idle" => Len(nodes) >= 1

Searching == stage \in {"leaf", "read", "check", "join"}

Reading == stage \in {"read", "check"}

\* The rows that nobody has touched since the statement was parsed.
Untouched == began \cap Live

\* No row that is yet to be pushed has been in the table before.
WindowOK ==
    /\ \A v \in window : Origin(v) < record_counter
    /\ \A u \in Threads : Pending(u) => \A v \in window : Origin(retrieved[u]) # Origin(v)
    /\ stage = "idle" => hits = {} /\ joined = {} /\ leaf = 1 /\ entry = TRUE

\* What the search has seen of a row that nobody has touched is that row.
UntouchedOK ==
    Searching =>
        /\ Live \subseteq window
        /\ \A v \in Untouched : \A w \in window : Origin(v) = Origin(w) => v = w

\* Where the search is in its tree.
PlaceOK ==
    (AllValues /\ Searching) =>
        /\ leaf \in 1 .. Len(nodes) + 1
        /\ stage # "leaf" => leaf \in 1 .. Len(nodes)
        /\ stage = "leaf" => hits = {}
        /\ leaf = 1 => joined = {}
        /\ entry = TRUE

\* What a scan has collected met the comparison of its leaf, each row once.
\* What an earlier scan collected of such a row is the same record or is not
\* in the table any more.
HitsOK ==
    (AllValues /\ Searching) =>
        /\ \A h \in hits :
              /\ h[1] = leaf /\ h[2] \in window
              /\ Satisfies(versions[h[2]].data, nodes[leaf].leaf.pred)
        /\ \A g, h \in hits : Origin(g[2]) = Origin(h[2]) => g = h
        /\ \A g \in joined : g[2] \in window
        /\ \A g \in joined : \A h \in hits :
              (g[2] \in Live /\ Origin(g[2]) = Origin(h[2])) => g[2] = h[2]

\* What a scan has collected is behind the slot it looks at.
BehindOK ==
    (AllValues /\ Reading) =>
        \A h \in hits : \A j \in DOMAIN records :
            j >= idx[Searcher] => Origin(records[j]) # Origin(h[2])

\* A scan does not miss an untouched row.
SeenOK ==
    AllValues =>
        /\ Reading => \A i \in DOMAIN records :
              records[i] \in began => i <= table_len[Searcher]
        /\ stage = "check" =>
              \A i \in DOMAIN records : (i = idx[Searcher] /\ records[i] \in began)
                  => retrieved[Searcher] = records[i]
        /\ Reading \/ stage = "join" => \A i \in DOMAIN records :
              (/\ records[i] \in began
               /\ stage = "join" \/ i < idx[Searcher]
               /\ Satisfies(versions[records[i]].data, nodes[leaf].leaf.pred))
                  => <<leaf, records[i]>> \in hits

\* The result of the tree up to the last leaf.
JoinedOK ==
    (AllValues /\ Searching /\ Distinguished /\ leaf > 1) =>
        /\ \A g, h \in joined : Id(g) = Id(h) => g = h
        /\ \A v \in Selected \cap Live : Truth(versions[v].data)[leaf - 1]
        /\ \A v \in Untouched : Truth(versions[v].data)[leaf - 1] => v \in Selected

Refs == {record_refs[Searcher][k] : k \in DOMAIN record_refs[Searcher]}

Applying == pc[Searcher] \in {"size", "find", "findCheck", "cas"}

\* An UPDATE that applies its references: each row it selected that is still
\* untouched is one of those left.
ReplaceOK ==
    (stage = "over" /\ command.kind = "UPDATE" /\ AllValues /\ Distinguished) =>
        /\ pc[Searcher] \in {"idle", "size", "find", "findCheck", "cas", "done"}
        /\ Applying \/ pc[Searcher] = "done" =>
              \A v \in Untouched : Holds(versions[v].data) => v \in Refs
        /\ Applying => \A k \in DOMAIN record_refs[Searcher] :
              k < ref[Searcher] => record_refs[Searcher][k] \notin Untouched
        /\ pc[Searcher] = "done" => Refs \cap Untouched = {}
        /\ pc[Searcher] \in {"find", "findCheck", "cas"} =>
              \A i \in DOMAIN records : records[i] \in began =>
                  /\ i <= table_len[Searcher]
                  /\ i < idx[Searcher] => records[i] # CurrentRef(Searcher)
                  /\ (pc[Searcher] = "findCheck" /\ i = idx[Searcher])
                        => retrieved[Searcher] = records[i]

SelectInv ==
    /\ SearchInv /\ RowsInv /\ TreeOK /\ WindowOK /\ UntouchedOK /\ PlaceOK
    /\ HitsOK /\ BehindOK /\ SeenOK /\ JoinedOK /\ ReplaceOK
-----------------------------------------------------------------------------
(* The tree the builder makes of a condition.                              *)

ExprNode == [join: {"AND", "OR", "NO_OP"}, comparison: Comparison]

\* The tree up to comparison i.
Built(condition, tree, i) ==
    /\ Len(tree) = i
    /\ \A k \in 1 .. i :
          /\ tree[k].comparison = condition[k]
          /\ k # 1 => tree[k].join = condition[k].join

BuildStep(tree, c) == StartNestedExpr(AddValueExpr(tree, c), c.join)

LEMMA BuildStepGrows ==
    ASSUME NEW condition \in Seq(Comparison), NEW i \in 1 .. Len(condition),
           NEW tree \in Seq(ExprNode)
    PROVE  /\ BuildStep(tree, condition[i]) \in Seq(ExprNode)
           /\ Built(condition, tree, i - 1) =>
                 Built(condition, BuildStep(tree, condition[i]), i)
<1> DEFINE c == condition[i]
           node == [join |-> "NO_OP", comparison |-> c]
           m == Len(tree)
           a == Append(tree, node)
<1>1. c \in Comparison /\ c.join \in {"AND", "OR"} /\ m \in Nat
  <2>1. c \in Comparison
    OBVIOUS
  <2> QED
    BY <2>1 DEF Comparison
<1>2. node \in ExprNode
  BY <1>1 DEF ExprNode
<1> HIDE DEF node
<1>3. /\ a \in Seq(ExprNode) /\ Len(a) = m + 1 /\ a[m + 1] = node
      /\ \A k \in 1 .. m : a[k] = tree[k]
  BY <1>1, <1>2
<1> DEFINE b == BuildStep(tree, c)
<1>4. b = IF m + 1 > 1 THEN [a EXCEPT ![m + 1].join = c.join] ELSE a
  BY <1>3 DEF BuildStep, StartNestedExpr, AddValueExpr, node
<1> HIDE DEF a, b, m
<1>5. m + 1 \in 1 .. m + 1 /\ DOMAIN a = 1 .. m + 1
  BY <1>1, <1>3
<1>6. CASE m = 0
  <2>1. b = a
    BY <1>4, <1>6
  <2>2. Built(condition, tree, i - 1) => i = 1
    BY <1>6 DEF Built, m
  <2>3. a[1].comparison = c /\ Len(a) = 1
    BY <1>3, <1>6 DEF node
  <2>4. i = 1 => Built(condition, a, i)
    BY <2>3 DEF Built
  <2> QED
    BY <1>3, <2>1, <2>2, <2>4 DEF b
<1>7. CASE m # 0
  <2> DEFINE last == [join |-> c.join, comparison |-> c]
  <2>1. last \in ExprNode
    BY <1>1 DEF ExprNode
  <2>2. [a[m + 1] EXCEPT !.join = c.join] = last
    BY <1>3 DEF node
  <2>3. b = [a EXCEPT ![m + 1].join = c.join]
    BY <1>1, <1>4, <1>7
  <2>4. b = [a EXCEPT ![m + 1] = last]
    BY <2>2, <2>3
  <2>5. last.join = c.join /\ last.comparison = c
    OBVIOUS
  <2> HIDE DEF last
  <2>6. /\ b \in Seq(ExprNode) /\ Len(b) = m + 1 /\ b[m + 1] = last
        /\ \A k \in 1 .. m : b[k] = tree[k]
    BY <1>1, <1>3, <1>5, <2>1, <2>4
  <2>7. ASSUME Built(condition, tree, i - 1) PROVE Built(condition, b, i)
    <3>1. m = i - 1 /\ m + 1 = i
      BY <2>7 DEF Built, m
    <3>2. \A k \in 1 .. i : k = i \/ k \in 1 .. i - 1
      OBVIOUS
    <3> QED
      BY <2>5, <2>6, <2>7, <3>1, <3>2 DEF Built
  <2> QED
    BY <2>6, <2>7 DEF b
<1> QED
  BY <1>1, <1>6, <1>7

\* The builder's tree has a node for every comparison, in order, and behind
\* the first one their joins.
LEMMA BuiltTreeShape ==
    ASSUME NEW condition \in Seq(Comparison)
    PROVE  /\ BuiltTree(condition) \in Seq(ExprNode)
           /\ Built(condition, BuiltTree(condition), Len(condition))
<1> DEFINE n == Len(condition)
           T == Seq(ExprNode)
           step == [x \in T |-> [i \in 1 .. n |-> BuildStep(x, condition[i])]]
           P(f) == f = [i \in 0 .. n |-> IF i = 0 THEN <<>> ELSE
                           StartNestedExpr(AddValueExpr(f[i - 1], condition[i]),
                                           condition[i].join)]
<1>1. n \in Nat
  OBVIOUS
<1>2. step \in [T -> [1 .. n -> T]] /\ <<>> \in T
  BY BuildStepGrows
<1>3. PICK g \in [0 .. n -> T] :
          g[0] = <<>> /\ \A i \in 1 .. n : g[i] = step[g[i - 1]][i]
  <2> HIDE DEF step, T, n
  <2>1. HasRecursion(n, T, <<>>, step)
    BY <1>1, <1>2, RecursionExists
  <2> QED
    BY <2>1 DEF HasRecursion
<1>4. \A i \in 1 .. n : g[i] = BuildStep(g[i - 1], condition[i])
  <2>1. \A i \in 1 .. n : i - 1 \in 0 .. n /\ g[i - 1] \in T
    <3>1. \A i \in 1 .. n : i - 1 \in 0 .. n
      BY <1>1
    <3> HIDE DEF T, n
    <3> QED
      BY <1>3, <3>1
  <2> QED
    BY <1>3, <2>1
<1>5. P(g)
  <2>1. \A i \in 0 .. n : i # 0 => i \in 1 .. n
    BY <1>1
  <2>2. \A i \in 0 .. n : g[i] = IF i = 0 THEN <<>> ELSE
            StartNestedExpr(AddValueExpr(g[i - 1], condition[i]), condition[i].join)
    BY <1>3, <1>4, <2>1 DEF BuildStep
  <2> QED
    BY <1>3, <2>2
<1> DEFINE c == CHOOSE f : P(f)
<1>6. P(c)
  <2> HIDE DEF P
  <2> QED
    BY <1>5
<1>7. BuiltTree(condition) = c[n]
  BY DEF BuiltTree
<1>8. c[0] = <<>> /\ \A i \in 1 .. n : c[i] = BuildStep(c[i - 1], condition[i])
  <2>1. 0 \in 0 .. n /\ \A i \in 1 .. n : i \in 0 .. n /\ i # 0
    BY <1>1
  <2> HIDE DEF c, n
  <2> QED
    BY <1>6, <2>1 DEF BuildStep
<1> HIDE DEF c
<1> DEFINE Q == {i \in 0 .. n : c[i] \in T /\ Built(condition, c[i], i)}
<1>9. 0 \in Q
  <2>1. 0 \in 0 .. n /\ Len(<<>>) = 0 /\ <<>> \in T
    BY <1>1
  <2>2. Built(condition, <<>>, 0)
    BY DEF Built
  <2> QED
    BY <1>8, <2>1, <2>2
<1>10. ASSUME NEW i \in 1 .. n, i - 1 \in Q PROVE i \in Q
  <2>1. i \in 0 .. n /\ i \in 1 .. Len(condition)
    BY <1>1
  <2>2. c[i - 1] \in Seq(ExprNode) /\ Built(condition, c[i - 1], i - 1)
    BY <1>10
  <2>3. /\ BuildStep(c[i - 1], condition[i]) \in Seq(ExprNode)
        /\ Built(condition, BuildStep(c[i - 1], condition[i]), i)
    BY <2>1, <2>2, BuildStepGrows
  <2> QED
    BY <1>8, <2>1, <2>3
<1>11. Q \in SUBSET (0 .. n)
  OBVIOUS
<1> HIDE DEF Q
<1>12. Q = 0 .. n
  BY <1>1, <1>9, <1>10, <1>11, ByPosition
<1>13. n \in Q
  BY <1>1, <1>12
<1> QED
  BY <1>7, <1>13 DEF Q

LEMMA ValueLeafType ==
    ASSUME NEW c \in Columns, NEW op \in {"EQUALS", "NOT_EQUALS"}, NEW val \in Datum
    PROVE  ValueLeaf(c, op, val) \in Leaves
BY DEF ValueLeaf, Leaves, Predicates

LEMMA OtherLeavesType ==
    ColumnLeaf \in Leaves /\ FailedLeaf \in Leaves /\ ThrownLeaf \in Leaves
BY DEF ColumnLeaf, FailedLeaf, ThrownLeaf, Leaves, Predicates

LEMMA LeavesOfValueType ==
    ASSUME NEW literal \in Terms, NEW column \in Terms, NEW op \in {"EQUALS", "NOT_EQUALS"}
    PROVE  LeavesOfValue(literal, column, op) \subseteq Leaves
<1>1. column.is = "column" => column.col \in Columns
  BY DEF Terms
<1>2. literal.is = "literal" => literal.val \in Datum
  BY DEF Terms
<1>3. \A g \in Garbage : g \in Datum
  BY GarbageAssumption
<1>4. CASE column.is # "column"
  BY <1>4, OtherLeavesType DEF LeavesOfValue
<1>5. CASE column.is = "column" /\ literal.is = "literal"
  <2>1. ValueLeaf(column.col, op, literal.val) \in Leaves
    BY <1>1, <1>2, <1>5, ValueLeafType
  <2> QED
    BY <1>5, <2>1, OtherLeavesType DEF LeavesOfValue
<1>6. CASE column.is = "column" /\ literal.is # "literal"
  <2>1. \A g \in Garbage : ValueLeaf(column.col, op, g) \in Leaves
    BY <1>1, <1>3, <1>6, ValueLeafType
  <2> QED
    BY <1>6, <2>1, OtherLeavesType DEF LeavesOfValue
<1> QED
  BY <1>4, <1>5, <1>6

\* Whatever the comparison, its leaf is one of the kinds there are.
LEMMA LeavesOfType ==
    ASSUME NEW c \in Comparison
    PROVE  LeavesOf(c) \subseteq Leaves
<1>1. c.left \in Terms /\ c.right \in Terms /\ c.op \in {"EQUALS", "NOT_EQUALS"}
  BY DEF Comparison
<1>2. LeavesOfColumns(c.left, c.right) \subseteq Leaves
  BY OtherLeavesType DEF LeavesOfColumns
<1>3. /\ LeavesOfValue(c.left, c.right, c.op) \subseteq Leaves
      /\ LeavesOfValue(c.right, c.left, c.op) \subseteq Leaves
  BY <1>1, LeavesOfValueType
<1> QED
  BY <1>2, <1>3 DEF LeavesOf

\* A predicate tree has the joins of its condition.
LEMMA PredicateTreeShape ==
    ASSUME NEW c \in Commands, NEW tree \in PredicateTrees(BuiltTree(c.condition))
    PROVE  /\ tree \in Seq(NodeType) /\ Len(tree) = Len(c.condition) /\ Len(tree) \in Nat \ {0}
           /\ \A k \in DOMAIN tree : k # 1 => tree[k].join = c.condition[k].join
<1> DEFINE b == BuiltTree(c.condition)
           n == Len(c.condition)
<1>1. c.condition \in Seq(Comparison) /\ n \in Nat \ {0}
  <2>1. c.condition \in Seq(Comparison) /\ c.condition # <<>>
    BY CommandsAssumption
  <2> QED
    BY <2>1
<1>2. b \in Seq(ExprNode) /\ Built(c.condition, b, n)
  BY <1>1, BuiltTreeShape
<1> HIDE DEF b, n
<1>3. DOMAIN b = 1 .. n /\ \A k \in 1 .. n : b[k] \in ExprNode
  BY <1>2 DEF Built
<1>4. /\ tree \in [DOMAIN b -> [join: {"AND", "OR", "NO_OP"},
                                leaf: UNION {LeavesOf(b[k].comparison) : k \in DOMAIN b}]]
      /\ \A k \in DOMAIN b : tree[k].join = b[k].join
  BY DEF PredicateTrees, b
<1>5. UNION {LeavesOf(b[k].comparison) : k \in DOMAIN b} \subseteq Leaves
  BY <1>3, LeavesOfType DEF ExprNode
<1>6. \A k \in 1 .. n : tree[k] \in NodeType
  BY <1>3, <1>4, <1>5 DEF NodeType
<1>7. tree \in [1 .. n -> NodeType]
  BY <1>3, <1>4, <1>6
<1>8. tree \in Seq(NodeType) /\ Len(tree) = n /\ DOMAIN tree = 1 .. n
  BY <1>1, <1>7, FunctionIsSeq
<1>9. \A k \in 1 .. n : k # 1 => tree[k].join = c.condition[k].join
  BY <1>2, <1>3, <1>4 DEF Built
<1> QED
  BY <1>1, <1>8, <1>9 DEF n
-----------------------------------------------------------------------------
(* The search keeps the types of the rows and of its own variables.        *)

\* What the steps that read the table leave alone.
ReadsOnly ==
    /\ UNCHANGED <<records, versions, record_counter, pc, request, record_refs, ref,
                   replyVars, taken, command, nodes, outcome, began, window>>
    /\ \A t \in Threads \ {Searcher} :
          table_len'[t] = table_len[t] /\ idx'[t] = idx[t] /\ retrieved'[t] = retrieved[t]

ReadStep == ScanLeaf \/ SkipLeaf \/ ReadRow \/ CheckRowRead \/ JoinLeaf

LEMMA JoinsType ==
    ASSUME NEW left, NEW right, NEW op, NEW s \in Joins(left, op, right)
    PROVE  s \subseteq left \cup right
<1>1. \A x \in Intersections(left, right) : x \subseteq left
  BY DEF Intersections
<1>2. \A x \in Unions(left, right) : x \subseteq left \cup right
  BY DEF Unions
<1> QED
  BY <1>1, <1>2 DEF Joins

\* The locals of the thread that searches may change as its reads do.
LEMMA ReadKeepsType ==
    ASSUME TypeInv, ReadsOnly, pc[Searcher] = "idle", crashed' \in BOOLEAN,
           table_len' \in [Threads -> Nat], idx' \in [Threads -> Nat \ {0}],
           retrieved' \in [Threads -> 0 .. Len(versions)]
    PROVE  TypeInv'
<1>1. TypeOK'
  BY DEF TypeInv, TypeOK, ReadsOnly, replyVars
<1>2. ASSUME NEW t \in Threads PROVE LocalOK(t)'
  <2>1. LocalOK(t) /\ (pc[t] = "push" => t # Searcher)
    BY DEF TypeInv, LocalsOK
  <2> QED
    BY <2>1 DEF LocalOK, ReadsOnly
<1> QED
  BY <1>1, <1>2 DEF TypeInv, LocalsOK

\* The variables of the search after a step that reads the table.
ReadTyped ==
    /\ stage' \in {"leaf", "read", "check", "join"} /\ leaf' \in Nat /\ entry' \in BOOLEAN
    /\ hits' \subseteq Hits /\ joined' \subseteq Hits
    /\ IsFiniteSet(hits') /\ IsFiniteSet(joined')
    /\ \A h \in hits' \cup joined' : h[2] \in 1 .. Len(versions)
    /\ crashed' \in BOOLEAN
    /\ table_len' \in [Threads -> Nat] /\ idx' \in [Threads -> Nat \ {0}]
    /\ retrieved' \in [Threads -> 0 .. Len(versions)]
    /\ ReadsOnly

LEMMA SearchFacts ==
    ASSUME SearchInv
    PROVE  /\ Searcher \in Threads /\ leaf \in Nat /\ entry \in BOOLEAN /\ crashed \in BOOLEAN
           /\ stage \in {"idle", "leaf", "read", "check", "join", "over"}
           /\ hits \subseteq Hits /\ joined \subseteq Hits
           /\ IsFiniteSet(hits) /\ IsFiniteSet(joined)
           /\ \A h \in hits \cup joined : h[2] \in 1 .. Len(versions)
           /\ table_len \in [Threads -> Nat] /\ idx \in [Threads -> Nat \ {0}]
           /\ retrieved \in [Threads -> 0 .. Len(versions)]
           /\ records \in Seq(0 .. Len(versions)) /\ Len(versions) \in Nat
           /\ Len(records) \in Nat
<1>1. TypeOK /\ Searcher \in Threads
  BY SearcherAssumption DEF SearchInv, TypeInv
<1>2. Len(versions) \in Nat /\ records \in Seq(0 .. Len(versions))
  BY <1>1, SlotRange DEF TypeOK
<1>3. Len(records) \in Nat
  BY <1>2
<1>4. /\ table_len \in [Threads -> Nat] /\ idx \in [Threads -> Nat \ {0}]
      /\ retrieved \in [Threads -> 0 .. Len(versions)] /\ crashed \in BOOLEAN
  BY <1>1 DEF TypeOK
<1> QED
  BY <1>1, <1>2, <1>3, <1>4 DEF SearchInv, SearchTypeOK

LEMMA ScanLeafTyped ==
    ASSUME SearchInv, ScanLeaf, UNCHANGED <<began, window>>
    PROVE  ReadTyped
<1>1. /\ table_len' = [table_len EXCEPT ![Searcher] = Len(records)]
      /\ idx' = [idx EXCEPT ![Searcher] = 1]
      /\ hits' = {} /\ stage' \in {"read", "join"}
      /\ UNCHANGED <<tableVars, pc, request, retrieved, record_refs, ref, replyVars,
                     taken, command, nodes, leaf, joined, entry, outcome>>
  BY DEF ScanLeaf
<1>2. IsFiniteSet({})
  BY FS_EmptySet
<1>3. ReadsOnly
  BY <1>1, SearchFacts DEF ReadsOnly, tableVars
<1> QED
  BY <1>1, <1>2, <1>3, SearchFacts DEF ReadTyped, tableVars

LEMMA SkipLeafTyped ==
    ASSUME SearchInv, SkipLeaf, UNCHANGED <<began, window>>
    PROVE  ReadTyped
<1>1. /\ joined' = {} /\ entry' \in BOOLEAN /\ leaf' \in {3, leaf + 1} /\ stage = "leaf"
      /\ UNCHANGED <<vars, command, nodes, stage, hits, outcome>>
  BY DEF SkipLeaf, At
<1>2. IsFiniteSet({})
  BY FS_EmptySet
<1>3. ReadsOnly /\ UNCHANGED <<crashed, table_len, idx, retrieved>>
  BY <1>1 DEF ReadsOnly, vars, tableVars, scanVars
<1>4. leaf' \in Nat
  BY <1>1, SearchFacts
<1> QED
  BY <1>1, <1>2, <1>3, <1>4, SearchFacts DEF ReadTyped

LEMMA JoinLeafTyped ==
    ASSUME SearchInv, JoinLeaf, UNCHANGED <<began, window>>
    PROVE  ReadTyped
<1>1. /\ joined' = hits \/ joined' \in Joins(joined, nodes[leaf].join, hits)
      /\ leaf' = leaf + 1 /\ stage' = "leaf" /\ hits' = {}
      /\ UNCHANGED <<vars, command, nodes, entry, outcome>>
  BY DEF JoinLeaf
<1>2. joined' \subseteq joined \cup hits
  BY <1>1, JoinsType
<1>3. IsFiniteSet({}) /\ IsFiniteSet(joined')
  BY <1>2, SearchFacts, FS_EmptySet, FS_Union, FS_Subset
<1>4. ReadsOnly /\ UNCHANGED <<crashed, table_len, idx, retrieved>>
  BY <1>1 DEF ReadsOnly, vars, tableVars, scanVars
<1>5. leaf' \in Nat
  BY <1>1, SearchFacts
<1> QED
  BY <1>1, <1>2, <1>3, <1>4, <1>5, SearchFacts DEF ReadTyped

LEMMA NextRowTyped ==
    ASSUME SearchInv, NEW f, NextRow(f)
    PROVE  /\ hits' = f /\ stage' \in {"read", "join"}
           /\ idx' \in [Threads -> Nat \ {0}]
           /\ \A t \in Threads \ {Searcher} : idx'[t] = idx[t]
<1>1. /\ hits' = f /\ stage' \in {"read", "join"}
      /\ idx' = idx \/ idx' = [idx EXCEPT ![Searcher] = @ + 1]
  BY DEF NextRow
<1>2. idx \in [Threads -> Nat \ {0}] /\ Searcher \in Threads
  BY SearchFacts
<1>3. idx[Searcher] + 1 \in Nat \ {0}
  BY <1>2
<1> QED
  BY <1>1, <1>2, <1>3

LEMMA ReadRowTyped ==
    ASSUME SearchInv, ReadRow, UNCHANGED <<began, window>>
    PROVE  ReadTyped
<1>1. UNCHANGED <<records, versions, record_counter, crashed, pc, request, table_len,
                  record_refs, ref, replyVars, taken, command, nodes, leaf, joined,
                  entry, outcome>>
  BY DEF ReadRow, tableVars
<1>2. CASE InRange(idx[Searcher])
  <2>1. /\ retrieved' = [retrieved EXCEPT ![Searcher] = records[idx[Searcher]]]
        /\ stage' = "check" /\ UNCHANGED <<idx, hits>>
    BY <1>2 DEF ReadRow
  <2>2. records[idx[Searcher]] \in 0 .. Len(versions)
    BY <1>2, SearchFacts DEF InRange
  <2>3. /\ retrieved' \in [Threads -> 0 .. Len(versions)]
        /\ \A t \in Threads \ {Searcher} : retrieved'[t] = retrieved[t]
    BY <2>1, <2>2, SearchFacts
  <2> QED
    BY <1>1, <2>1, <2>3, SearchFacts DEF ReadTyped, ReadsOnly
<1>3. CASE ~InRange(idx[Searcher])
  <2>1. NextRow(hits) /\ UNCHANGED retrieved
    BY <1>3 DEF ReadRow
  <2>2. /\ hits' = hits /\ stage' \in {"read", "join"} /\ idx' \in [Threads -> Nat \ {0}]
        /\ \A t \in Threads \ {Searcher} : idx'[t] = idx[t]
    BY <2>1, NextRowTyped
  <2> QED
    BY <1>1, <2>1, <2>2, SearchFacts DEF ReadTyped, ReadsOnly
<1> QED
  BY <1>2, <1>3

\* A search collects allocated records.
LEMMA CheckRowReadTyped ==
    ASSUME SearchInv, CheckRowRead, UNCHANGED <<began, window>>
    PROVE  ReadTyped
<1> DEFINE v == retrieved[Searcher]
<1>1. /\ stage = "check"
      /\ UNCHANGED <<records, versions, record_counter, pc, request, table_len, retrieved,
                     record_refs, ref, replyVars, taken, command, nodes, leaf, joined,
                     entry, outcome>>
  BY DEF CheckRowRead, At
<1>2. CASE Held(Searcher) /\ v = NoVersion
  <2>1. crashed' = TRUE /\ UNCHANGED <<stage, idx, hits>>
    BY <1>2 DEF CheckRowRead
  <2> QED
    BY <1>1, <2>1, SearchFacts DEF ReadTyped, ReadsOnly
<1>3. CASE ~(Held(Searcher) /\ v = NoVersion)
  <2>1. PICK f \in {hits, hits \cup {<<leaf, v>>}} :
            NextRow(f) /\ crashed' = crashed /\ (f # hits => Held(Searcher))
    BY <1>3 DEF CheckRowRead
  <2>2. /\ hits' = f /\ stage' \in {"read", "join"} /\ idx' \in [Threads -> Nat \ {0}]
        /\ \A t \in Threads \ {Searcher} : idx'[t] = idx[t]
    BY <2>1, NextRowTyped
  <2>3. f # hits => v \in 1 .. Len(versions)
    BY <1>3, <2>1, SearchFacts DEF NoVersion
  <2>4. f # hits => v \in Nat
    BY <2>3, SearchFacts
  <2>5. f # hits => <<leaf, v>> \in Hits
    BY <2>4, SearchFacts DEF Hits
  <2>6. f # hits => f = hits \cup {<<leaf, v>>}
    BY <2>1
  <2> HIDE DEF v
  <2>7. f \subseteq Hits /\ IsFiniteSet(f)
    <3>1. hits \subseteq Hits /\ IsFiniteSet(hits)
      BY SearchFacts
    <3>2. IsFiniteSet(hits \cup {<<leaf, v>>})
      BY <3>1, FS_AddElement
    <3> QED
      BY <2>5, <2>6, <3>1, <3>2
  <2>8. \A h \in f : h[2] \in 1 .. Len(versions)
    BY <2>3, <2>6, SearchFacts
  <2> QED
    BY <1>1, <2>1, <2>2, <2>7, <2>8, SearchFacts DEF ReadTyped, ReadsOnly
<1> QED
  BY <1>2, <1>3

LEMMA ReadStepTyped ==
    ASSUME SearchInv, ReadStep, UNCHANGED <<began, window>>
    PROVE  SearchInv' /\ ReadTyped /\ pc[Searcher] = "idle"
<1>1. ReadTyped
  BY ScanLeafTyped, SkipLeafTyped, ReadRowTyped, CheckRowReadTyped, JoinLeafTyped
     DEF ReadStep
<1>2. pc[Searcher] = "idle"
  BY DEF SearchInv, ReadStep, ScanLeaf, SkipLeaf, ReadRow, CheckRowRead, JoinLeaf, At
<1>3. TypeInv'
  BY <1>1, <1>2, ReadKeepsType DEF SearchInv, ReadTyped
<1>4. SearchTypeOK'
  <2>1. TypeOK'
    BY <1>3 DEF TypeInv
  <2> QED
    BY <1>1, <2>1 DEF SearchInv, SearchTypeOK, ReadTyped, ReadsOnly
<1> QED
  BY <1>1, <1>2, <1>3, <1>4 DEF SearchInv, ReadTyped, ReadsOnly

RefsOf(q) == [i \in DOMAIN q |-> q[i][2]]

\* The references of an UPDATE are the records the search selected, in some order.
LEMMA ResultSeq ==
    ASSUME SearchInv, NEW q \in SortedById(joined), NEW refs, refs = RefsOf(q)
    PROVE  /\ refs \in Seq(1 .. Len(versions))
           /\ {refs[k] : k \in DOMAIN refs} = Selected
           /\ joined # {} => 1 <= Len(refs)
<1> DEFINE n == Cardinality(joined)
<1>1. IsFiniteSet(joined) /\ \A h \in joined : h[2] \in 1 .. Len(versions)
  BY SearchFacts
<1>2. n \in Nat /\ (n = 0 => joined = {})
  BY <1>1, FS_CardinalityType, FS_EmptySet
<1>3. q \in [1 .. n -> joined] /\ \A i, j \in 1 .. n : i # j => q[i] # q[j]
  BY DEF SortedById, SetToSeqs
<1>4. \A h \in joined : \E i \in 1 .. n : q[i] = h
  <2>1. q \in Injection(1 .. n, joined)
    BY <1>3 DEF Injection, IsInjective
  <2>2. Cardinality(1 .. n) = n
    BY <1>2, FS_Interval
  <2>3. q \in Surjection(1 .. n, joined)
    BY <1>1, <2>1, <2>2, FS_Injection
  <2> QED
    BY <2>3 DEF Surjection
<1> HIDE DEF n
<1>5. refs \in [1 .. n -> 1 .. Len(versions)] /\ \A i \in 1 .. n : refs[i] = q[i][2]
  BY <1>1, <1>3 DEF RefsOf
<1>6. refs \in Seq(1 .. Len(versions)) /\ Len(refs) = n
  BY <1>2, <1>5, FunctionIsSeq
<1>7. {refs[k] : k \in DOMAIN refs} = Selected
  BY <1>3, <1>4, <1>5 DEF Selected
<1>8. joined # {} => 1 <= n
  BY <1>2
<1> QED
  BY <1>6, <1>7, <1>8

LEMMA CommandFacts ==
    ASSUME SearchInv
    PROVE  /\ command.kind \in {"SELECT", "UPDATE"} /\ command.row \in StatementRow
           /\ command.kind = "UPDATE" => command.row \in RowData
<1>1. command \in Commands \cup {NoCommand}
  BY DEF SearchInv, SearchTypeOK
<1>2. CASE command \in Commands
  BY <1>2, CommandsAssumption
<1>3. CASE command = NoCommand
  BY <1>3 DEF NoCommand, StatementRow
<1> QED
  BY <1>1, <1>2, <1>3

\* The search ends with a result, or a query throws.
FinishKeeps ==
    /\ stage = "leaf" /\ leaf > Len(nodes) /\ stage' = "over" /\ pc[Searcher] = "idle"
    /\ UNCHANGED <<tableVars, table_len, idx, retrieved, ref, replyVars, taken,
                   command, nodes, leaf, hits, joined, entry, began, window>>
    /\ outcome' \in {"throws", "found"}

\* ... and with references to the records that were selected.
Found ==
    /\ \E refs \in Seq(1 .. Len(versions)) :
          /\ {refs[k] : k \in DOMAIN refs} = Selected
          /\ record_refs' = [record_refs EXCEPT ![Searcher] = refs]
          /\ pc' = [pc EXCEPT ![Searcher] =
                       IF IsQuery \/ joined = {} THEN "done" ELSE "size"]
          /\ joined # {} => 1 <= Len(refs)
    /\ \E r \in StatementType :
          /\ request' = [request EXCEPT ![Searcher] = r]
          /\ r.kind = command.kind /\ (r.kind = "UPDATE" => r.row \in RowData)

Fruitless == IsQuery /\ UNCHANGED <<record_refs, pc, request>>

LEMMA FinishSplit ==
    ASSUME SearchInv, FinishSearch, UNCHANGED <<began, window>>
    PROVE  FinishKeeps /\ (Found \/ Fruitless)
<1>1. /\ stage = "leaf" /\ leaf > Len(nodes) /\ stage' = "over"
      /\ UNCHANGED <<tableVars, table_len, idx, retrieved, ref, replyVars, taken,
                     command, nodes, leaf, hits, joined, entry>>
  BY DEF FinishSearch, At
<1>2. pc[Searcher] = "idle"
  BY <1>1 DEF SearchInv
<1>3. CASE IsQuery /\ IsNested(nodes) /\ joined = {}
  BY <1>1, <1>2, <1>3 DEF FinishSearch, FinishKeeps, Fruitless
<1>4. CASE ~(IsQuery /\ IsNested(nodes) /\ joined = {})
  <2> DEFINE r == [kind |-> command.kind, pred |-> NoPredicate, row |-> command.row]
  <2>1. PICK q \in SortedById(joined) :
            record_refs' = [record_refs EXCEPT ![Searcher] = [i \in DOMAIN q |-> q[i][2]]]
    BY <1>4 DEF FinishSearch
  <2>2. /\ request' = [request EXCEPT ![Searcher] = r] /\ outcome' = "found"
        /\ pc' = [pc EXCEPT ![Searcher] =
                     IF IsQuery \/ joined = {} THEN "done" ELSE "size"]
    BY <1>4 DEF FinishSearch, Goto
  <2>3. PICK refs : refs = RefsOf(q)
    OBVIOUS
  <2>4. /\ refs \in Seq(1 .. Len(versions))
        /\ {refs[k] : k \in DOMAIN refs} = Selected
        /\ joined # {} => 1 <= Len(refs)
    BY <2>3, ResultSeq
  <2>5. /\ r \in StatementType /\ r.kind = command.kind
        /\ r.kind = "UPDATE" => r.row \in RowData
    BY CommandFacts DEF StatementType, Kinds, Predicates
  <2> HIDE DEF r
  <2>6. Found
    BY <2>1, <2>2, <2>3, <2>4, <2>5 DEF Found, RefsOf
  <2> QED
    BY <1>1, <1>2, <2>2, <2>6 DEF FinishKeeps
<1> QED
  BY <1>3, <1>4

LEMMA FinishTyped ==
    ASSUME SearchInv, FinishSearch, UNCHANGED <<began, window>>
    PROVE  SearchInv'
<1>1. FinishKeeps /\ (Found \/ Fruitless)
  BY FinishSplit
<1>2. /\ TypeInv /\ Searcher \in Threads /\ pc \in [Threads -> Pcs]
      /\ request \in [Threads -> StatementType]
      /\ record_refs \in [Threads -> Seq(1 .. Len(versions))]
  BY SearcherAssumption DEF SearchInv, TypeInv, TypeOK
<1>3. TypeInv'
  <2>1. CASE Fruitless
    BY <1>1, <1>2, <2>1
       DEF FinishKeeps, Fruitless, TypeInv, TypeOK, LocalsOK, LocalOK, tableVars, replyVars
  <2>2. CASE Found
    <3>1. PICK refs \in Seq(1 .. Len(versions)) :
            /\ record_refs' = [record_refs EXCEPT ![Searcher] = refs]
            /\ pc' = [pc EXCEPT ![Searcher] =
                         IF IsQuery \/ joined = {} THEN "done" ELSE "size"]
            /\ joined # {} => 1 <= Len(refs)
      BY <2>2 DEF Found
    <3>2. PICK r \in StatementType :
            /\ request' = [request EXCEPT ![Searcher] = r]
            /\ r.kind = "UPDATE" => r.row \in RowData
      BY <2>2 DEF Found
    <3>3. TypeOK'
      <4>1. /\ pc' \in [Threads -> Pcs] /\ request' \in [Threads -> StatementType]
            /\ record_refs' \in [Threads -> Seq(1 .. Len(versions))]
        BY <1>2, <3>1, <3>2 DEF Pcs
      <4> QED
        BY <1>1, <1>2, <4>1 DEF FinishKeeps, TypeInv, TypeOK, tableVars, replyVars
    <3>4. OthersKept(Searcher)
      BY <1>1, <1>2, <3>1, <3>2 DEF OthersKept, FinishKeeps
    <3>5. LocalOK(Searcher)'
      <4>1. /\ record_refs'[Searcher] = refs /\ request'[Searcher] = r
            /\ pc'[Searcher] \in {"done", "size"}
            /\ pc'[Searcher] = "size" => 1 <= Len(refs)
        BY <1>2, <3>1, <3>2
      <4>2. ref'[Searcher] = 1
        BY <1>1, <1>2 DEF FinishKeeps, TypeInv, LocalsOK, LocalOK
      <4> QED
        BY <3>2, <4>1, <4>2 DEF LocalOK
    <3> QED
      BY <1>2, <3>3, <3>4, <3>5, Frame DEF TypeInv
  <2> QED
    BY <1>1, <2>1, <2>2
<1>4. SearchTypeOK'
  <2>1. TypeOK'
    BY <1>3 DEF TypeInv
  <2> QED
    BY <1>1, <2>1 DEF FinishKeeps, SearchInv, SearchTypeOK, tableVars
<1> QED
  BY <1>1, <1>3, <1>4 DEF FinishKeeps, SearchInv, tableVars

\* The statement is parsed: its tree, and the rows it finds.
Parsed ==
    /\ stage = "idle" /\ stage' \in {"leaf", "over"} /\ pc[Searcher] = "idle"
    /\ command' \in Commands /\ nodes' \in PredicateTrees(BuiltTree(command'.condition))
    /\ UNCHANGED <<records, versions, record_counter, pc, request, scanVars, replyVars,
                   taken, leaf, hits, joined, entry>>
    /\ began' = Live /\ window' = Live /\ crashed' \in BOOLEAN
    /\ outcome' \in {"none", "throws", "dereferences null", "assertion fails", "nothing",
                     "whole table", "ERR", "found"}
    /\ stage' = "over" => \E k \in DOMAIN nodes' : nodes'[k].leaf \in
                              {ColumnLeaf, FailedLeaf, ThrownLeaf}

LEMMA ParseSplit ==
    ASSUME SearchInv, ParseCommand
    PROVE  Parsed
<1>1. PICK c \in Commands :
        /\ stage = "idle"
        /\ \E tree \in PredicateTrees(BuiltTree(c.condition)) :
              command' = c /\ nodes' = tree /\ StartSearch(c, tree)
  BY DEF ParseCommand, Idle
<1>0. /\ began' = Live /\ window' = Live
      /\ crashed' = (outcome' \in {"dereferences null", "assertion fails"})
      /\ UNCHANGED <<records, versions, record_counter, pc, request, scanVars, replyVars,
                     taken>>
  BY DEF ParseCommand
<1>a. crashed' \in BOOLEAN
  <2>1. \A x, S : (x \in S) \in BOOLEAN
    OBVIOUS
  <2> QED
    BY <1>0, <2>1, Zenon
<1>2. PICK tree \in PredicateTrees(BuiltTree(c.condition)) :
        command' = c /\ nodes' = tree /\ StartSearch(c, tree)
  BY <1>1
<1>3. pc[Searcher] = "idle" /\ outcome \in {"none", "throws", "dereferences null",
          "assertion fails", "nothing", "whole table", "ERR", "found"}
  BY <1>1 DEF SearchInv, SearchTypeOK
<1>4. /\ UNCHANGED <<leaf, hits, joined, entry>> /\ stage' \in {"leaf", "over"}
      /\ outcome' \in {"none", "throws", "dereferences null", "assertion fails", "nothing",
                       "whole table", "ERR", "found"}
  BY <1>2, <1>3 DEF StartSearch, EndBefore
<1>5. ASSUME stage' = "over"
      PROVE  \E k \in DOMAIN tree : tree[k].leaf \in {ColumnLeaf, FailedLeaf, ThrownLeaf}
  <2>1. CASE \E k \in DOMAIN tree : tree[k].leaf = ThrownLeaf
    BY <2>1
  <2>2. CASE Broken(tree)
    BY <2>2 DEF Broken
  <2>3. CASE tree = <<[join |-> "NO_OP", leaf |-> ColumnLeaf]>>
    <3>1. 1 \in DOMAIN tree /\ tree[1].leaf = ColumnLeaf
      BY <2>3
    <3> QED
      BY <3>1
  <2>4. CASE tree = <<[join |-> "NO_OP", leaf |-> FailedLeaf]>>
    <3>1. 1 \in DOMAIN tree /\ tree[1].leaf = FailedLeaf
      BY <2>4
    <3> QED
      BY <3>1
  <2> QED
    BY <1>2, <1>5, <2>1, <2>2, <2>3, <2>4 DEF StartSearch
<1> QED
  BY <1>0, <1>a, <1>1, <1>2, <1>3, <1>4, <1>5 DEF Parsed

LEMMA LiveAllocated ==
    ASSUME TypeOK
    PROVE  Live \subseteq 1 .. Len(versions)
BY SlotRange DEF Live, NoVersion

LEMMA ParseTyped ==
    ASSUME SearchInv, ParseCommand
    PROVE  SearchInv'
<1>1. Parsed /\ TypeInv
  BY ParseSplit DEF SearchInv
<1>2. TypeInv'
  BY <1>1 DEF Parsed, TypeInv, TypeOK, LocalsOK, LocalOK, scanVars, replyVars
<1>3. nodes' \in Seq(NodeType)
  BY <1>1, PredicateTreeShape DEF Parsed
<1>4. \A k \in DOMAIN nodes' : nodes'[k].leaf.pred \in Predicates
  <2>1. \A k \in DOMAIN nodes' : nodes'[k] \in NodeType
    BY <1>3
  <2> QED
    BY <2>1 DEF NodeType, Leaves
<1>5. window' \subseteq 1 .. Len(versions') /\ began' = window'
  BY <1>1, LiveAllocated DEF Parsed, TypeInv
<1>6. SearchTypeOK'
  <2>1. TypeOK'
    BY <1>2 DEF TypeInv
  <2> QED
    BY <1>1, <1>4, <1>5, <2>1 DEF Parsed, SearchInv, SearchTypeOK
<1> QED
  BY <1>1, <1>2, <1>3, <1>6 DEF Parsed, SearchInv

LEMMA NextActs ==
    ASSUME Next
    PROVE  \E t \in Threads : Acts(t)
BY NextSplit DEF Acts

\* Until its search is over the thread takes no other step.
LEMMA SearcherWaits ==
    ASSUME pc[Searcher] = "idle", Acts(Searcher)
    PROVE  FALSE
<1>1. Requests[Searcher] = {}
  BY SearcherAssumption
<1> QED
  BY <1>1 DEF Acts, Looks, RejectRow, CheckRow, BeginScan, RefuseFullTable, SearchRead,
     SearchCheck, NullDereference, ReadSize, FindRead, FindCheck, Return, UpdateSlot,
     ClearSlot, EraseSlot, CountRow, PushRow, Running

LEMMA WorkerTyped ==
    ASSUME SearchInv, WorkerStep
    PROVE  SearchInv'
<1>1. /\ Next /\ TypeInv
      /\ window' = IF stage \in {"idle", "over"} THEN window ELSE window \cup Live'
      /\ UNCHANGED <<command, nodes, stage, leaf, hits, joined, entry, outcome, began>>
  BY DEF WorkerStep, SearchInv
<1>2. PICK t \in Threads : Acts(t)
  BY <1>1, NextActs
<1>3. TypeInv' /\ VersionsGrow /\ OthersAlone(t)
  BY <1>1, <1>2, TypeStep, VersionsOnlyGrow, StepOfThread
<1>4. 1 .. Len(versions) \subseteq 1 .. Len(versions')
  BY <1>3 DEF VersionsGrow
<1>5. Live' \subseteq 1 .. Len(versions')
  <2>1. records' \in Seq(0 .. Len(versions')) /\ Len(versions') \in Nat
    BY <1>3 DEF TypeInv, TypeOK, VersionsGrow
  <2>2. \A i \in DOMAIN records' : records'[i] \in 0 .. Len(versions')
    BY ONLY <2>1
  <2> QED
    BY <2>1, <2>2 DEF Live, NoVersion
<1>6. stage' # "over" => pc'[Searcher] = "idle"
  <2>1. stage # "over" => pc[Searcher] = "idle" /\ t # Searcher
    BY <1>2, SearcherWaits DEF SearchInv
  <2> QED
    BY <1>1, <1>3, <2>1, SearcherAssumption DEF OthersAlone
<1>7. SearchTypeOK'
  <2>1. TypeOK'
    BY <1>3 DEF TypeInv
  <2> QED
    BY <1>1, <1>4, <1>5, <2>1 DEF SearchInv, SearchTypeOK
<1> QED
  BY <1>1, <1>3, <1>4, <1>6, <1>7 DEF SearchInv

LEMMA TypedStutter ==
    ASSUME SearchInv, UNCHANGED allVars
    PROVE  SearchInv'
<1>1. UNCHANGED vars /\ UNCHANGED searchVars
  BY DEF allVars
<1>2. TypeInv'
  <2>1. TypeInv
    BY DEF SearchInv
  <2> QED
    BY <1>1, <2>1
       DEF vars, tableVars, scanVars, replyVars, TypeInv, TypeOK, LocalsOK, LocalOK
<1>3. SearchTypeOK'
  <2>1. TypeOK' /\ versions' = versions
    BY <1>1, <1>2 DEF TypeInv, vars, tableVars
  <2> QED
    BY <1>1, <2>1 DEF SearchInv, SearchTypeOK, searchVars
<1> QED
  BY <1>1, <1>2, <1>3 DEF SearchInv, vars, tableVars, searchVars

LEMMA TypedInit == SearchInit => SearchInv
<1> SUFFICES ASSUME SearchInit PROVE SearchInv
  OBVIOUS
<1>1. TypeInv /\ Searcher \in Threads
  BY InitType, SearcherAssumption DEF SearchInit
<1>2. IsFiniteSet({}) /\ DOMAIN <<>> = {} /\ <<>> \in Seq(NodeType)
  BY FS_EmptySet
<1>3. pc[Searcher] = "idle"
  BY <1>1 DEF SearchInit, Init
<1>4. SearchTypeOK
  BY <1>1, <1>2 DEF SearchInit, SearchTypeOK, TypeInv
<1> QED
  BY <1>1, <1>2, <1>3, <1>4 DEF SearchInit, SearchInv

LEMMA TypedStep ==
    ASSUME SearchInv, [SearchNext]_allVars
    PROVE  SearchInv'
<1>1. CASE SearchStep
  BY <1>1, ReadStepTyped, FinishTyped DEF SearchStep, ReadStep
<1> QED
  BY <1>1, ParseTyped, WorkerTyped, TypedStutter DEF SearchNext

\* Every variable of a search, of the rows and of the threads beside it has its
\* type in every reachable state, whatever the condition and however the
\* statement ends: what it collects and applies are records that exist.
THEOREM SearchTyped == SearchSpec => []SearchTypeOK
<1>1. SearchInv => SearchTypeOK
  BY DEF SearchInv
<1> QED
  BY <1>1, TypedInit, TypedStep, PTL DEF SearchSpec
-----------------------------------------------------------------------------
(* What a condition says of a row, leaf by leaf.                           *)

LEMMA SatisfiesIsTruth ==
    ASSUME NEW row, NEW pred
    PROVE  Satisfies(row, pred) \in BOOLEAN
BY DEF Satisfies

\* The truth of the first leaf, and of each next one joined to those before.
TruthSteps(f, tree, condition, row) ==
    \A k \in 1 .. Len(tree) :
        LET here == Satisfies(row, tree[k].leaf.pred)
        IN f[k] = IF k = 1 THEN here
                  ELSE IF condition[k].join = "AND" THEN f[k - 1] /\ here
                  ELSE f[k - 1] \/ here

LEMMA TruthByLeaf ==
    ASSUME NEW tree \in Seq(NodeType), NEW condition, NEW row
    PROVE  /\ TruthSteps(TruthOf(tree, condition, row), tree, condition, row)
           /\ TruthOf(tree, condition, row) \in [1 .. Len(tree) -> BOOLEAN]
<1> DEFINE n == Len(tree)
           here(k) == Satisfies(row, tree[k].leaf.pred)
           next(x, k) == IF k = 1 THEN here(k)
                         ELSE IF condition[k].join = "AND" THEN x /\ here(k)
                         ELSE x \/ here(k)
           step == [x \in BOOLEAN |-> [k \in 1 .. n |-> next(x, k)]]
           P(f) == f = [k \in 1 .. n |-> next(f[k - 1], k)]
<1>1. n \in Nat
  OBVIOUS
<1>2. \A x \in BOOLEAN, k \in 1 .. n : next(x, k) \in BOOLEAN
  BY SatisfiesIsTruth
<1> HIDE DEF here
<1>3. step \in [BOOLEAN -> [1 .. n -> BOOLEAN]]
  <2> HIDE DEF next, n
  <2> QED
    BY <1>2
<1>4. PICK g \in [0 .. n -> BOOLEAN] :
          g[0] = FALSE /\ \A k \in 1 .. n : g[k] = step[g[k - 1]][k]
  <2>1. FALSE \in BOOLEAN
    OBVIOUS
  <2> HIDE DEF step, n
  <2>2. HasRecursion(n, BOOLEAN, FALSE, step)
    BY <1>1, <1>3, <2>1, RecursionExists
  <2> QED
    BY <2>2 DEF HasRecursion
<1> DEFINE h == [k \in 1 .. n |-> g[k]]
<1>5. \A k \in 1 .. n : g[k] = next(g[k - 1], k) /\ g[k] \in BOOLEAN
  <2>1. \A k \in 1 .. n : k - 1 \in 0 .. n /\ k \in 0 .. n
    BY <1>1
  <2>2. \A k \in 1 .. n : g[k - 1] \in BOOLEAN /\ g[k] \in BOOLEAN
    BY <1>4, <2>1
  <2> HIDE DEF next, n
  <2> QED
    BY <1>4, <2>2
<1>6. P(h)
  <2>1. \A k \in 1 .. n : k # 1 => k - 1 \in 1 .. n
    BY <1>1
  <2>2. \A k \in 1 .. n : h[k] = next(h[k - 1], k)
    <3> SUFFICES ASSUME NEW k \in 1 .. n PROVE h[k] = next(h[k - 1], k)
      OBVIOUS
    <3>1. h[k] = next(g[k - 1], k)
      BY <1>5
    <3>2. CASE k = 1
      BY <3>1, <3>2
    <3>3. CASE k # 1
      <4>1. h[k - 1] = g[k - 1]
        BY <2>1, <3>3
      <4> QED
        BY <3>1, <4>1
    <3> QED
      BY <3>2, <3>3
  <2> HIDE DEF next, n
  <2> QED
    BY <2>2
<1> DEFINE c == CHOOSE f : P(f)
<1>7. P(c)
  <2> HIDE DEF P, h
  <2> QED
    BY <1>6
<1>8. TruthOf(tree, condition, row) = c
  BY DEF TruthOf, here
<1>9. DOMAIN c = 1 .. n /\ \A k \in 1 .. n : c[k] = next(c[k - 1], k)
  <2> HIDE DEF c, next, n
  <2> QED
    BY <1>7
<1> HIDE DEF c
<1>10. TruthSteps(c, tree, condition, row)
  BY <1>9 DEF TruthSteps, here
<1> DEFINE Q == {k \in 0 .. n : k = 0 \/ c[k] \in BOOLEAN}
<1>11. ASSUME NEW k \in 1 .. n, k - 1 \in Q PROVE k \in Q
  <2>1. k \in 0 .. n
    BY <1>1
  <2>2. CASE k = 1
    <3>1. next(TRUE, k) \in BOOLEAN /\ next(c[k - 1], k) = next(TRUE, k)
      BY <1>2, <2>2
    <3> QED
      BY <1>9, <2>1, <3>1
  <2>3. CASE k # 1
    <3>1. c[k - 1] \in BOOLEAN
      BY <1>11, <2>3
    <3>2. next(c[k - 1], k) \in BOOLEAN
      BY <1>2, <3>1
    <3> QED
      BY <1>9, <2>1, <3>2
  <2> QED
    BY <2>2, <2>3
<1>12. 0 \in Q /\ Q \in SUBSET (0 .. n)
  BY <1>1
<1> HIDE DEF Q
<1>13. Q = 0 .. n
  BY <1>1, <1>11, <1>12, ByPosition
<1>14. \A k \in 1 .. n : c[k] \in BOOLEAN
  <2>1. \A k \in 1 .. n : k \in 0 .. n /\ k # 0
    BY <1>1
  <2> QED
    BY <1>13, <2>1 DEF Q
<1>15. c \in [1 .. n -> BOOLEAN]
  <2>1. c = [k \in 1 .. n |-> next(c[k - 1], k)]
    BY <1>7
  <2>2. \A k \in 1 .. n : next(c[k - 1], k) \in BOOLEAN
    BY <1>9, <1>14
  <2> HIDE DEF next, n
  <2> QED
    BY <2>1, <2>2
<1> QED
  BY <1>8, <1>10, <1>15
-----------------------------------------------------------------------------
(* The rows beside the search, while no statement deletes.                 *)

LEMMA RowsRead ==
    ASSUME SearchInv, RowsInv, ReadTyped, pc[Searcher] = "idle"
    PROVE  RowsInv'
<1>1. /\ UNCHANGED <<records, versions, record_counter, pc, request>>
      /\ \A t \in Threads : Pending(t) => retrieved'[t] = retrieved[t]
  BY DEF ReadTyped, ReadsOnly, Pending
<1>2. TypeInv'
  BY ReadKeepsType DEF SearchInv, ReadTyped
<1>3. RowsDistinct' /\ RowsCounted' /\ PendingNew'
  BY <1>1 DEF RowsInv, DistinctInv, RowsDistinct, RowsCounted, PendingNew, Pending
<1> QED
  BY <1>1, <1>2, <1>3 DEF RowsInv, DistinctInv, NoNulls

LEMMA RowsFinish ==
    ASSUME SearchInv, RowsInv, FinishSearch, UNCHANGED <<began, window>>
    PROVE  RowsInv'
<1>1. FinishKeeps /\ (Found \/ Fruitless)
  BY FinishSplit
<1>2. /\ UNCHANGED <<records, versions, record_counter, retrieved>>
      /\ pc[Searcher] = "idle"
  BY <1>1 DEF FinishKeeps, tableVars
<1>3. TypeInv' /\ pc \in [Threads -> Pcs] /\ request \in [Threads -> StatementType]
  BY FinishTyped DEF SearchInv, TypeInv, TypeOK
<1>4. \A t \in Threads : /\ Pending(t)' => Pending(t)
                         /\ request'[t].kind # "DELETE" /\ pc'[t] # "erase"
  <2>1. CASE Fruitless
    BY <2>1 DEF Fruitless, RowsInv, Pending
  <2>2. CASE Found
    <3>1. PICK label \in {"done", "size"} : pc' = [pc EXCEPT ![Searcher] = label]
      BY <2>2 DEF Found
    <3>2. PICK r \in StatementType :
            request' = [request EXCEPT ![Searcher] = r] /\ r.kind = command.kind
      BY <2>2 DEF Found
    <3>3. r.kind # "DELETE"
      BY <3>2, CommandFacts
    <3> QED
      BY <1>3, <3>1, <3>2, <3>3 DEF RowsInv, Pending
  <2> QED
    BY <1>1, <2>1, <2>2
<1>5. RowsDistinct' /\ RowsCounted' /\ PendingNew'
  BY <1>2, <1>4 DEF RowsInv, DistinctInv, RowsDistinct, RowsCounted, PendingNew
<1> QED
  BY <1>2, <1>3, <1>4, <1>5 DEF RowsInv, DistinctInv, NoNulls

LEMMA RowsParse ==
    ASSUME SearchInv, RowsInv, ParseCommand
    PROVE  RowsInv'
<1>1. UNCHANGED <<records, versions, record_counter, pc, request, retrieved>>
  BY DEF ParseCommand, scanVars
<1>2. TypeInv'
  BY ParseTyped DEF SearchInv
<1> QED
  BY <1>1, <1>2 DEF RowsInv, DistinctInv, RowsDistinct, RowsCounted, PendingNew, Pending,
                    NoNulls

\* No statement becomes a DELETE.
LEMMA NoDeleteBegins ==
    ASSUME NoDeletes, RowsInv, NEW t \in Threads, Acts(t)
    PROVE  /\ ~ClearSlot(t) /\ ~EraseSlot(t)
           /\ request'[t].kind # "DELETE" /\ pc'[t] # "erase"
<1>1. /\ request[t].kind # "DELETE" /\ pc[t] # "erase" /\ pc \in [Threads -> Pcs]
      /\ request \in [Threads -> StatementType] /\ \A r \in Requests[t] : r.kind # "DELETE"
  BY DEF NoDeletes, RowsInv, DistinctInv, TypeInv, TypeOK
<1>2. ~ClearSlot(t) /\ ~EraseSlot(t)
  BY <1>1 DEF ClearSlot, EraseSlot, Running
<1>3. CASE RejectRow(t) \/ BeginScan(t) \/ RefuseFullTable(t)
  BY <1>1, <1>2, <1>3 DEF RejectRow, BeginScan, RefuseFullTable, Begin, Goto
<1>4. CASE CheckRow(t)
  <2> DEFINE checked(r) == [r EXCEPT !.row = Checked(r.row, record_counter)]
  <2>1. PICK r \in Requests[t] :
          /\ r.kind = "INSERT"
          /\ pc' = [pc EXCEPT ![t] = "count"]
          /\ request' = [request EXCEPT ![t] = checked(r)]
    BY <1>4 DEF CheckRow, Begin, Goto
  <2>2. r \in StatementType
    BY RequestsAssumption
  <2>3. checked(r).kind = "INSERT"
    BY <2>1, <2>2 DEF StatementType
  <2> HIDE DEF checked
  <2> QED
    BY <1>1, <1>2, <2>1, <2>3
<1>5. CASE SearchRead(t) \/ SearchCheck(t) \/ NullDereference(t)
  BY <1>1, <1>2, <1>5 DEF SearchRead, SearchCheck, NullDereference, SearchOn, Goto
<1>6. CASE ReadSize(t) \/ FindRead(t) \/ FindCheck(t) \/ UpdateSlot(t)
  BY <1>1, <1>2, <1>6 DEF ReadSize, FindRead, FindCheck, UpdateSlot, FindOn, Goto
<1>7. CASE Return(t)
  BY <1>1, <1>2, <1>7 DEF Return, Goto, NoStatement
<1>8. CASE CountRow(t) \/ PushRow(t)
  BY <1>1, <1>2, <1>8 DEF CountRow, PushRow, Goto
<1> QED
  BY <1>2, <1>3, <1>4, <1>5, <1>6, <1>7, <1>8 DEF Acts, Looks

LEMMA RowsWorker ==
    ASSUME NoDeletes, SearchInv, RowsInv, Next, NEW t \in Threads, Acts(t)
    PROVE  RowsInv' /\ RowsGrow /\ VersionsGrow /\ PendingSince /\ OthersAlone(t)
<1>1. TypeInv /\ DistinctInv /\ NoNulls
  BY DEF RowsInv, DistinctInv
<1>2. /\ DistinctInv' /\ OthersAlone(t) /\ VersionsGrow /\ PendingSince
      /\ request'[t].kind # "DELETE" /\ pc'[t] # "erase" /\ ~ClearSlot(t) /\ ~EraseSlot(t)
  BY <1>1, DistinctStep, StepOfThread, VersionsOnlyGrow, PendingSinceStep, NoDeleteBegins
<1>3. RowsGrow /\ NoNulls'
  BY <1>1, <1>2, RowsOnlyGrow
<1>4. \A u \in Threads : request'[u].kind # "DELETE" /\ pc'[u] # "erase"
  BY <1>2 DEF RowsInv, OthersAlone
<1> QED
  BY <1>2, <1>3, <1>4 DEF RowsInv
-----------------------------------------------------------------------------
(* The tree, and the rows the search may see.                              *)

\* The records that were in the table at some time since the parse are never
\* put back.
LEMMA NoReturn ==
    ASSUME SearchInv, WindowOK, RowsGrow, VersionsGrow
    PROVE  /\ \A i \in DOMAIN records' : records'[i] \in window =>
                  i \in DOMAIN records /\ records[i] = records'[i]
           /\ \A v \in window : v \in Live' => v \in Live
<1>1. \A v \in window : v \in 0 .. Len(versions)
  <2>1. window \subseteq 1 .. Len(versions) /\ Len(versions) \in Nat
    BY DEF SearchInv, SearchTypeOK, VersionsGrow
  <2> QED
    BY <2>1
<1>2. ASSUME NEW i \in DOMAIN records', records'[i] \in window
      PROVE  i \in DOMAIN records /\ records[i] = records'[i]
  <2>1. CASE i \in DOMAIN records
    <3>1. records'[i] = records[i] \/ records'[i] \notin 0 .. Len(versions)
      BY <2>1 DEF RowsGrow
    <3>2. records'[i] \in 0 .. Len(versions)
      BY <1>1, <1>2
    <3> QED
      BY <2>1, <3>1, <3>2
  <2>2. CASE i \notin DOMAIN records
    <3>1. PICK u \in Threads : Pending(u) /\ records'[i] = retrieved[u]
      BY <2>2 DEF RowsGrow
    <3>2. Origin(retrieved[u]) # Origin(records'[i])
      BY <1>2, <3>1 DEF WindowOK
    <3> QED
      BY <3>1, <3>2
  <2> QED
    BY <2>1, <2>2
<1>3. \A v \in window : v \in Live' => v \in Live
  BY <1>2 DEF Live
<1> QED
  BY <1>2, <1>3

LEMMA LiveSlots ==
    ASSUME NoNulls
    PROVE  /\ \A i \in DOMAIN records : records[i] \in Live
           /\ \A v \in Live : \E i \in DOMAIN records : records[i] = v
BY DEF NoNulls, Live

\* Two records of one row are not in the table at once.
LEMMA LiveApart ==
    ASSUME RowsDistinct, NEW v \in Live, NEW w \in Live, Origin(v) = Origin(w)
    PROVE  v = w
<1>1. PICK i \in DOMAIN records : records[i] = v /\ v # NoVersion
  BY DEF Live
<1>2. PICK j \in DOMAIN records : records[j] = w /\ w # NoVersion
  BY DEF Live
<1> QED
  BY <1>1, <1>2 DEF RowsDistinct, Origin

\* ... nor at one time.
LEMMA LiveApartNext ==
    ASSUME RowsDistinct', NEW v \in Live', NEW w \in Live', Origin(v)' = Origin(w)'
    PROVE  v = w
<1>1. PICK i \in DOMAIN records' : records'[i] = v /\ v # NoVersion
  BY DEF Live
<1>2. PICK j \in DOMAIN records' : records'[j] = w /\ w # NoVersion
  BY DEF Live
<1> QED
  BY <1>1, <1>2 DEF RowsDistinct, Origin
-----------------------------------------------------------------------------
(* What SelectInv says of a search that stands where it stands.            *)

\* What the steps that read the table find and leave.
ReadFrame ==
    /\ Searching /\ Searching'
    /\ UNCHANGED <<records, versions, command, nodes, began, window>>
    /\ Live' = Live /\ Untouched' = Untouched /\ AllValues' = AllValues
    /\ Distinguished' = Distinguished

LEMMA ReadFrameHolds ==
    ASSUME SelectInv, ReadStep, ReadTyped, pc[Searcher] = "idle"
    PROVE  /\ ReadFrame
           /\ RowsInv' /\ TreeOK' /\ WindowOK' /\ UntouchedOK' /\ ReplaceOK'
<1>1. /\ UNCHANGED <<records, versions, record_counter, pc, command, nodes, began, window>>
      /\ stage' \in {"leaf", "read", "check", "join"} /\ Searching
      /\ \A t \in Threads : Pending(t) => retrieved'[t] = retrieved[t]
  BY DEF ReadTyped, ReadsOnly, ReadStep, ScanLeaf, SkipLeaf, ReadRow, CheckRowRead,
         JoinLeaf, At, Searching, Pending
<1>2. Live' = Live /\ AllValues' = AllValues /\ Distinguished' = Distinguished
  BY <1>1 DEF Live, AllValues, Distinguished, IdOf
<1>3. Untouched' = Untouched
  BY <1>1, <1>2 DEF Untouched
<1>4. RowsInv'
  BY RowsRead DEF SelectInv
<1>5. TreeOK' /\ ReplaceOK'
  BY <1>1 DEF SelectInv, TreeOK, ReplaceOK, Searching
<1>6. WindowOK'
  BY <1>1 DEF SelectInv, WindowOK, Pending, Origin
<1>7. UntouchedOK'
  BY <1>1, <1>2, <1>3 DEF SelectInv, UntouchedOK, Origin
<1> QED
  BY <1>1, <1>2, <1>3, <1>4, <1>5, <1>6, <1>7 DEF ReadFrame, Searching

\* A step of the search leads to the invariant once it keeps what it is about.
Progress == PlaceOK /\ HitsOK /\ BehindOK /\ SeenOK /\ JoinedOK

LEMMA ScanLeafSelects ==
    ASSUME SelectInv, ReadFrame, ReadTyped, ScanLeaf
    PROVE  Progress'
<1>1. /\ stage = "leaf" /\ leaf \in DOMAIN nodes /\ hits' = {}
      /\ stage' = IF records = <<>> THEN "join" ELSE "read"
      /\ idx' = [idx EXCEPT ![Searcher] = 1]
      /\ table_len' = [table_len EXCEPT ![Searcher] = Len(records)]
      /\ UNCHANGED <<leaf, joined, entry>>
  BY DEF ScanLeaf, At
<1>2. /\ Searcher \in Threads /\ table_len \in [Threads -> Nat]
      /\ idx \in [Threads -> Nat \ {0}] /\ Len(records) \in Nat
      /\ DOMAIN records = 1 .. Len(records) /\ DOMAIN nodes = 1 .. Len(nodes)
  BY SearchFacts DEF SelectInv, SearchInv
<1>3. idx'[Searcher] = 1 /\ table_len'[Searcher] = Len(records)
  BY <1>1, <1>2
<1>4. PlaceOK'
  BY <1>1, <1>2 DEF SelectInv, PlaceOK, ReadFrame
<1>5. HitsOK' /\ BehindOK'
  BY <1>1 DEF SelectInv, HitsOK, BehindOK, ReadFrame
<1>6. SeenOK'
  BY <1>1, <1>2, <1>3 DEF ReadFrame, SeenOK, Reading
<1>7. JoinedOK'
  <2>1. Selected' = Selected
    BY <1>1 DEF Selected
  <2> QED
    BY <1>1, <2>1 DEF SelectInv, ReadFrame, JoinedOK, Truth, Id, IdOf
<1> QED
  BY <1>4, <1>5, <1>6, <1>7 DEF Progress

\* A condition of values alone leaves no leaf out.
LEMMA SkipLeafSelects ==
    ASSUME SelectInv, ReadFrame, SkipLeaf
    PROVE  Progress'
<1>1. ~AllValues
  BY DEF SkipLeaf, AllValues, ColumnLeaf
<1> QED
  BY <1>1 DEF ReadFrame, Progress, PlaceOK, HitsOK, BehindOK, SeenOK, JoinedOK


LEMMA JoinedStays ==
    ASSUME SelectInv, ReadFrame, UNCHANGED <<leaf, joined>>
    PROVE  JoinedOK'
<1>1. Selected' = Selected
  BY DEF Selected
<1> QED
  BY <1>1 DEF SelectInv, ReadFrame, JoinedOK, Truth, Id, IdOf

LEMMA ReadRowSelects ==
    ASSUME SelectInv, ReadFrame, ReadTyped, ReadRow
    PROVE  Progress'
<1>1. stage = "read" /\ UNCHANGED <<table_len, leaf, joined, entry>>
  BY DEF ReadRow, At
<1>2. /\ Searcher \in Threads /\ table_len \in [Threads -> Nat]
      /\ idx \in [Threads -> Nat \ {0}] /\ Len(records) \in Nat
      /\ retrieved \in [Threads -> 0 .. Len(versions)]
      /\ DOMAIN records = 1 .. Len(records)
  BY SearchFacts DEF SelectInv, SearchInv
<1>3. JoinedOK'
  BY <1>1, JoinedStays
<1>4. CASE InRange(idx[Searcher])
  <2>1. /\ retrieved'[Searcher] = records[idx[Searcher]] /\ stage' = "check"
        /\ UNCHANGED <<idx, hits>>
    BY <1>2, <1>4 DEF ReadRow
  <2>2. PlaceOK' /\ HitsOK' /\ BehindOK'
    BY <1>1, <2>1 DEF SelectInv, ReadFrame, PlaceOK, HitsOK, BehindOK, Reading, Searching,
                      Origin
  <2>3. SeenOK'
    BY <1>1, <2>1 DEF SelectInv, ReadFrame, SeenOK, Reading
  <2> QED
    BY <1>3, <2>2, <2>3 DEF Progress
<1>5. CASE ~InRange(idx[Searcher])
  <2>1. /\ hits' = hits
        /\ \/ stage' = "read" /\ idx'[Searcher] = idx[Searcher] + 1
           \/ stage' = "join" /\ idx' = idx
    BY <1>2, <1>5 DEF ReadRow, NextRow
  <2>2. \A i \in DOMAIN records : i < idx[Searcher]
    BY <1>2, <1>5 DEF InRange
  <2>3. \A i \in DOMAIN records : i >= idx'[Searcher] => i >= idx[Searcher]
    BY <1>2, <2>1
  <2>4. PlaceOK' /\ HitsOK' /\ BehindOK'
    BY <1>1, <2>1, <2>3 DEF SelectInv, ReadFrame, PlaceOK, HitsOK, BehindOK, Reading,
                            Searching, Origin
  <2>5. SeenOK'
    BY <1>1, <2>1, <2>2 DEF SelectInv, ReadFrame, SeenOK, Reading
  <2> QED
    BY <1>3, <2>4, <2>5 DEF Progress
<1> QED
  BY <1>4, <1>5

\* A row that is still in its slot is collected if it meets the comparison.
LEMMA CheckRowReadSelects ==
    ASSUME SelectInv, ReadFrame, ReadTyped, CheckRowRead
    PROVE  Progress'
<1> DEFINE v == retrieved[Searcher]
           i0 == idx[Searcher]
           w == <<leaf, v>>
           met == Held(Searcher) /\ Satisfies(versions[v].data, nodes[leaf].leaf.pred)
<1>1. stage = "check" /\ UNCHANGED <<table_len, leaf, joined, entry, retrieved>>
  BY DEF CheckRowRead, At
<1>2. /\ Searcher \in Threads /\ table_len \in [Threads -> Nat]
      /\ idx \in [Threads -> Nat \ {0}] /\ DOMAIN records = 1 .. Len(records)
      /\ Len(records) \in Nat
  BY SearchFacts DEF SelectInv, SearchInv
<1>3. Held(Searcher) => i0 \in DOMAIN records /\ records[i0] = v /\ v # NoVersion
  BY DEF Held, InRange, SelectInv, RowsInv, NoNulls
<1>4. PICK f \in {hits, hits \cup {w}} :
          NextRow(f) /\ f = IF met THEN hits \cup {w} ELSE hits
  <2>1. ~(Held(Searcher) /\ v = NoVersion)
    BY <1>3
  <2> QED
    BY <2>1 DEF CheckRowRead
<1>5. /\ hits' = f
      /\ \/ stage' = "read" /\ idx'[Searcher] = i0 + 1 /\ i0 < table_len[Searcher]
         \/ stage' = "join" /\ idx' = idx /\ ~(i0 < table_len[Searcher])
  BY <1>2, <1>4 DEF NextRow
<1>6. JoinedOK' /\ PlaceOK'
  BY <1>1, <1>5, JoinedStays DEF SelectInv, ReadFrame, PlaceOK
<1>7. \A h \in hits' : h \in hits \/ (h = w /\ met)
  BY <1>4, <1>5
<1>8. ASSUME met PROVE v \in Live /\ v \in window
  <2>1. v \in Live
    BY <1>3, <1>8 DEF Live
  <2> QED
    BY <2>1 DEF SelectInv, UntouchedOK, ReadFrame
<1>9. w[1] = leaf /\ w[2] = v
  OBVIOUS
<1> HIDE DEF w
<1>10. ASSUME AllValues, met, NEW h \in hits PROVE Origin(v) # Origin(h[2])
  BY <1>1, <1>2, <1>3, <1>10 DEF SelectInv, BehindOK, Reading
<1>11. ASSUME AllValues PROVE HitsOK'
  <2>0. /\ \A h \in hits :
              /\ h[1] = leaf /\ h[2] \in window
              /\ Satisfies(versions[h[2]].data, nodes[leaf].leaf.pred)
        /\ \A g, h \in hits : Origin(g[2]) = Origin(h[2]) => g = h
        /\ \A g \in joined : g[2] \in window
        /\ \A g \in joined : \A h \in hits :
              (g[2] \in Live /\ Origin(g[2]) = Origin(h[2])) => g[2] = h[2]
    BY <1>11 DEF SelectInv, HitsOK, ReadFrame
  <2>1. \A h \in hits' : /\ h[1] = leaf /\ h[2] \in window
                         /\ Satisfies(versions[h[2]].data, nodes[leaf].leaf.pred)
    BY <1>7, <1>8, <1>9, <2>0
  <2>2. \A g, h \in hits' : Origin(g[2]) = Origin(h[2]) => g = h
    BY <1>7, <1>9, <1>10, <1>11, <2>0
  <2>3. ASSUME NEW g \in joined, g[2] \in Live, met, Origin(g[2]) = Origin(v)
        PROVE  g[2] = v
    BY <1>8, <2>3, LiveApart DEF SelectInv, RowsInv, DistinctInv
  <2>4. \A g \in joined : \A h \in hits' :
            (g[2] \in Live /\ Origin(g[2]) = Origin(h[2])) => g[2] = h[2]
    BY <1>7, <1>9, <2>0, <2>3
  <2> QED
    BY <1>1, <2>0, <2>1, <2>2, <2>4 DEF HitsOK, ReadFrame, Origin
<1>12. ASSUME AllValues, stage' = "read" PROVE BehindOK'
  <2>1. idx'[Searcher] = i0 + 1
    BY <1>5, <1>12
  <2>2. ASSUME NEW h \in hits', NEW j \in DOMAIN records, j >= i0 + 1
        PROVE  Origin(records[j]) # Origin(h[2])
    <3>1. j >= i0 /\ j # i0
      BY <1>2, <2>2
    <3>2. CASE h \in hits
      BY <1>1, <1>12, <3>1, <3>2 DEF SelectInv, BehindOK, Reading
    <3>3. CASE h = w /\ met
      <4>1. records[j] # NoVersion
        BY DEF SelectInv, RowsInv, NoNulls
      <4> QED
        BY <1>3, <1>9, <3>1, <3>3, <4>1
           DEF SelectInv, RowsInv, DistinctInv, RowsDistinct, Origin
    <3> QED
      BY <1>7, <3>2, <3>3
  <2> QED
    BY <2>1, <2>2 DEF BehindOK, ReadFrame, Origin
<1>13. ASSUME AllValues PROVE SeenOK'
  <2>1. \A i \in DOMAIN records : records[i] \in began => i <= table_len[Searcher]
    BY <1>1, <1>13 DEF SelectInv, SeenOK, Reading
  <2>2. ASSUME NEW i \in DOMAIN records, records[i] \in began,
               stage' = "join" \/ i < idx'[Searcher],
               Satisfies(versions[records[i]].data, nodes[leaf].leaf.pred)
        PROVE  <<leaf, records[i]>> \in hits'
    <3>1. i <= table_len[Searcher]
      BY <2>1, <2>2
    <3>2. i < i0 \/ i = i0
      BY <1>2, <1>5, <2>2, <3>1
    <3>3. CASE i < i0
      <4>1. <<leaf, records[i]>> \in hits
        BY <1>1, <1>13, <2>2, <3>3 DEF SelectInv, SeenOK, Reading
      <4> QED
        BY <1>4, <1>5, <4>1
    <3>4. CASE i = i0
      <4>1. v = records[i]
        BY <1>1, <1>13, <2>2, <3>4 DEF SelectInv, SeenOK
      <4>2. met
        BY <2>2, <3>4, <4>1 DEF Held, InRange
      <4>3. w \in hits'
        BY <1>4, <1>5, <4>2
      <4> QED
        BY <4>1, <4>3 DEF w
    <3> QED
      BY <3>2, <3>3, <3>4
  <2>3. stage' = "read" \/ stage' = "join"
    BY <1>5
  <2> QED
    BY <1>1, <2>1, <2>2, <2>3 DEF SeenOK, Reading, ReadFrame
<1> QED
  BY <1>5, <1>6, <1>11, <1>12, <1>13 DEF Progress, HitsOK, BehindOK, SeenOK, ReadFrame, Reading
-----------------------------------------------------------------------------
(* The joins, where no two results of one side have one id.                *)

UniqueIds(results) == \A g, h \in results : Id(g) = Id(h) => g = h

LEMMA OneOfEach ==
    ASSUME NEW results, UniqueIds(results), NEW id
    PROVE  Cardinality(WithId(results, id)) = IF id \in Ids(results) THEN 1 ELSE 0
<1>1. CASE id \in Ids(results)
  <2>1. PICK h \in results : Id(h) = id
    BY <1>1 DEF Ids
  <2>2. WithId(results, id) = {h}
    BY <2>1 DEF WithId, UniqueIds
  <2> QED
    BY <1>1, <2>2, FS_Singleton
<1>2. CASE id \notin Ids(results)
  <2>1. WithId(results, id) = {}
    BY <1>2 DEF WithId, Ids
  <2> QED
    BY <1>2, <2>1, FS_EmptySet
<1> QED
  BY <1>1, <1>2

\* std::set_intersection keeps the results of the left side that the right side
\* has too.
LEMMA IntersectionById ==
    ASSUME NEW left, NEW right, UniqueIds(left), UniqueIds(right),
           NEW s \in Intersections(left, right)
    PROVE  /\ s \subseteq left
           /\ \A h \in left : h \in s <=> Id(h) \in Ids(right)
<1>1. s \subseteq left /\ UniqueIds(s)
  BY DEF Intersections, UniqueIds
<1>2. ASSUME NEW h \in left
      PROVE  h \in s <=> Id(h) \in Ids(right)
  <2>1. Id(h) \in Ids(left)
    BY DEF Ids
  <2>2. /\ Cardinality(WithId(left, Id(h))) = 1
        /\ Cardinality(WithId(right, Id(h))) = IF Id(h) \in Ids(right) THEN 1 ELSE 0
        /\ Cardinality(WithId(s, Id(h))) = IF Id(h) \in Ids(s) THEN 1 ELSE 0
    BY <1>1, <2>1, OneOfEach
  <2>3. Id(h) \in Ids(s) <=> Id(h) \in Ids(right)
    BY <2>1, <2>2 DEF Intersections
  <2>4. Id(h) \in Ids(s) <=> h \in s
    BY <1>1 DEF Ids, UniqueIds
  <2> QED
    BY <2>3, <2>4
<1> QED
  BY <1>1, <1>2

\* std::set_union adds to the left side what only the right side has.
LEMMA UnionById ==
    ASSUME NEW left, NEW right, UniqueIds(left), UniqueIds(right),
           NEW u \in Unions(left, right)
    PROVE  \E x : /\ u = left \cup x /\ x \subseteq right
                 /\ \A h \in right : h \in x <=> Id(h) \notin Ids(left)
<1>1. PICK x \in SUBSET right :
        /\ u = left \cup x
        /\ \A id \in Ids(right) :
              Cardinality(WithId(x, id)) =
                  IF Cardinality(WithId(left, id)) < Cardinality(WithId(right, id))
                  THEN Cardinality(WithId(right, id)) - Cardinality(WithId(left, id)) ELSE 0
  BY DEF Unions
<1>2. UniqueIds(x)
  BY DEF UniqueIds
<1>3. ASSUME NEW h \in right
      PROVE  h \in x <=> Id(h) \notin Ids(left)
  <2>1. Id(h) \in Ids(right)
    BY DEF Ids
  <2>2. /\ Cardinality(WithId(right, Id(h))) = 1
        /\ Cardinality(WithId(left, Id(h))) = IF Id(h) \in Ids(left) THEN 1 ELSE 0
        /\ Cardinality(WithId(x, Id(h))) = IF Id(h) \in Ids(x) THEN 1 ELSE 0
    BY <1>2, <2>1, OneOfEach
  <2>3. Id(h) \in Ids(x) <=> Id(h) \notin Ids(left)
    BY <1>1, <2>1, <2>2
  <2>4. Id(h) \in Ids(x) <=> h \in x
    BY DEF Ids, UniqueIds
  <2> QED
    BY <2>3, <2>4
<1> QED
  BY <1>1, <1>3

\* What a condition says of a row up to this leaf.
Meets(row) == Satisfies(row, nodes[leaf].leaf.pred)

LEMMA TruthHere ==
    ASSUME SearchInv, leaf \in 1 .. Len(nodes), NEW row
    PROVE  Truth(row)[leaf] =
              IF leaf = 1 THEN Meets(row)
              ELSE IF command.condition[leaf].join = "AND"
                   THEN Truth(row)[leaf - 1] /\ Meets(row)
              ELSE Truth(row)[leaf - 1] \/ Meets(row)
<1>1. TruthSteps(TruthOf(nodes, command.condition, row), nodes, command.condition, row)
  BY TruthByLeaf DEF SearchInv
<1> QED
  BY <1>1 DEF TruthSteps, Truth, Meets

\* What a scan collected, when it is complete.
Scanned ==
    /\ UniqueIds(hits)
    /\ \A h \in hits : /\ h[1] = leaf /\ h[2] \in window
                       /\ Meets(versions[h[2]].data)
    /\ \A v \in Untouched : Meets(versions[v].data) => <<leaf, v>> \in hits

LEMMA ScanComplete ==
    ASSUME SelectInv, stage = "join", AllValues, Distinguished
    PROVE  Scanned
<1>1. /\ \A h \in hits : /\ h[1] = leaf /\ h[2] \in window
                         /\ Meets(versions[h[2]].data)
      /\ \A g, h \in hits : Origin(g[2]) = Origin(h[2]) => g = h
  BY DEF SelectInv, HitsOK, Searching, Meets
<1>2. UniqueIds(hits)
  BY <1>1 DEF UniqueIds, Distinguished, Id, Origin
<1>3. ASSUME NEW v \in Untouched, Meets(versions[v].data)
      PROVE  <<leaf, v>> \in hits
  <2>1. PICK i \in DOMAIN records : records[i] = v
    BY DEF Untouched, Live
  <2> QED
    BY <1>3, <2>1 DEF SelectInv, SeenOK, Untouched, Meets
<1> QED
  BY <1>1, <1>2, <1>3 DEF Scanned

\* What the tree up to a leaf amounts to: of two records with one id it has one,
\* of what is still in the table only what meets that part of the condition, and
\* every untouched row that does.
Amounts(results, k) ==
    /\ UniqueIds(results)
    /\ \A h \in results : h[2] \in Live => Truth(versions[h[2]].data)[k]
    /\ \A v \in Untouched : Truth(versions[v].data)[k] =>
          \E h \in results : h[2] = v

LEMMA FirstLeaf ==
    ASSUME SelectInv, Scanned, leaf = 1, leaf \in 1 .. Len(nodes)
    PROVE  Amounts(hits, leaf)
<1>1. \A row : Truth(row)[leaf] = Meets(row)
  BY TruthHere DEF SelectInv
<1>2. \A v \in Untouched : Truth(versions[v].data)[leaf] => <<leaf, v>> \in hits
  BY <1>1 DEF Scanned
<1>3. \A v \in Untouched : <<leaf, v>>[2] = v
  OBVIOUS
<1> QED
  BY <1>1, <1>2, <1>3 DEF Scanned, Amounts

LEMMA AndLeaf ==
    ASSUME SelectInv, Scanned, leaf # 1, leaf \in 1 .. Len(nodes), AllValues, Searching,
           Distinguished, Amounts(joined, leaf - 1), command.condition[leaf].join = "AND",
           NEW s \in Intersections(joined, hits)
    PROVE  Amounts(s, leaf)
<1>1. \A row : Truth(row)[leaf] = (Truth(row)[leaf - 1] /\ Meets(row))
  BY TruthHere DEF SelectInv
<1>2. s \subseteq joined /\ \A h \in joined : h \in s <=> Id(h) \in Ids(hits)
  BY IntersectionById DEF Scanned, Amounts
<1>3. UniqueIds(s)
  BY <1>2 DEF Amounts, UniqueIds
<1>4. ASSUME NEW g \in s, g[2] \in Live
      PROVE  Truth(versions[g[2]].data)[leaf]
  <2>1. PICK h \in hits : Id(h) = Id(g)
    BY <1>2 DEF Ids
  <2>2. g \in joined /\ g[2] \in window /\ h[2] \in window
    BY <1>2 DEF SelectInv, HitsOK
  <2>3. Origin(g[2]) = Origin(h[2])
    BY <2>1, <2>2 DEF Distinguished, Id, Origin
  <2>4. g[2] = h[2]
    BY <1>4, <2>2, <2>3 DEF SelectInv, HitsOK
  <2>5. Meets(versions[g[2]].data)
    BY <2>4 DEF Scanned
  <2>6. Truth(versions[g[2]].data)[leaf - 1]
    BY <1>4, <2>2 DEF Amounts
  <2> QED
    BY <1>1, <2>5, <2>6
<1>5. ASSUME NEW v \in Untouched, Truth(versions[v].data)[leaf]
      PROVE  \E h \in s : h[2] = v
  <2>1. Truth(versions[v].data)[leaf - 1] /\ Meets(versions[v].data)
    BY <1>1, <1>5
  <2>2. PICK g \in joined : g[2] = v
    BY <2>1 DEF Amounts
  <2>3. <<leaf, v>> \in hits /\ Id(<<leaf, v>>) = Id(g)
    BY <2>1, <2>2 DEF Scanned, Id
  <2>4. Id(g) \in Ids(hits)
    BY <2>3 DEF Ids
  <2> QED
    BY <1>2, <2>2, <2>4
<1> QED
  BY <1>3, <1>4, <1>5 DEF Amounts

LEMMA OrLeaf ==
    ASSUME SelectInv, Scanned, leaf # 1, leaf \in 1 .. Len(nodes), AllValues, Searching,
           Distinguished, Amounts(joined, leaf - 1), command.condition[leaf].join # "AND",
           NEW u \in Unions(joined, hits)
    PROVE  Amounts(u, leaf)
<1>1. \A row : Truth(row)[leaf] = (Truth(row)[leaf - 1] \/ Meets(row))
  BY TruthHere DEF SelectInv
<1>2. PICK x \in SUBSET hits :
          u = joined \cup x /\ \A h \in hits : h \in x <=> Id(h) \notin Ids(joined)
  <2>1. UniqueIds(joined) /\ UniqueIds(hits)
    BY DEF Scanned, Amounts
  <2>2. \E x : /\ u = joined \cup x /\ x \subseteq hits
               /\ \A h \in hits : h \in x <=> Id(h) \notin Ids(joined)
    BY <2>1, UnionById
  <2> QED
    BY <2>2
<1>3. UniqueIds(u)
  <2>1. \A g, h \in x : Id(g) = Id(h) => g = h
    BY <1>2 DEF Scanned, UniqueIds
  <2>2. \A g \in joined, h \in x : Id(g) # Id(h)
    BY <1>2 DEF Ids
  <2> QED
    BY <1>2, <2>1, <2>2 DEF Amounts, UniqueIds
<1>4. ASSUME NEW g \in u, g[2] \in Live
      PROVE  Truth(versions[g[2]].data)[leaf]
  <2>1. CASE g \in joined
    <3>1. Truth(versions[g[2]].data)[leaf - 1]
      BY <1>4, <2>1 DEF Amounts
    <3> QED
      BY <1>1, <3>1
  <2>2. CASE g \in hits
    <3>1. Meets(versions[g[2]].data)
      BY <2>2 DEF Scanned
    <3> QED
      BY <1>1, <3>1
  <2> QED
    BY <1>2, <2>1, <2>2
<1>5. ASSUME NEW v \in Untouched, Truth(versions[v].data)[leaf]
      PROVE  \E h \in u : h[2] = v
  <2>1. CASE Truth(versions[v].data)[leaf - 1]
    BY <1>2, <2>1 DEF Amounts
  <2>2. CASE Meets(versions[v].data)
    <3>1. <<leaf, v>> \in hits /\ <<leaf, v>>[2] = v
      BY <2>2 DEF Scanned
    <3>2. CASE Id(<<leaf, v>>) \notin Ids(joined)
      BY <1>2, <3>1, <3>2
    <3>3. CASE Id(<<leaf, v>>) \in Ids(joined)
      <4>1. PICK g \in joined : Id(g) = IdOf(v)
        BY <3>1, <3>3 DEF Ids, Id
      <4>2. g[2] \in window /\ v \in window
        BY DEF SelectInv, HitsOK, UntouchedOK, Untouched
      <4>3. Origin(v) = Origin(g[2])
        BY <4>1, <4>2 DEF Distinguished, Id, Origin
      <4>4. v = g[2]
        BY <4>2, <4>3 DEF SelectInv, UntouchedOK
      <4> QED
        BY <1>2, <4>4
    <3> QED
      BY <3>2, <3>3
  <2> QED
    BY <1>1, <1>5, <2>1, <2>2
<1> QED
  BY <1>3, <1>4, <1>5 DEF Amounts

LEMMA JoinLeafSelects ==
    ASSUME SelectInv, ReadFrame, ReadTyped, JoinLeaf
    PROVE  Progress'
<1>1. /\ stage = "join" /\ stage' = "leaf" /\ leaf' = leaf + 1 /\ hits' = {}
      /\ IF leaf = 1 THEN joined' = hits
         ELSE joined' \in Joins(joined, nodes[leaf].join, hits)
      /\ UNCHANGED entry
  BY DEF JoinLeaf, At
<1>2. AllValues => leaf \in 1 .. Len(nodes) /\ entry = TRUE
  BY <1>1 DEF SelectInv, PlaceOK, ReadFrame
<1>3. Len(nodes) \in Nat /\ leaf \in Nat /\ DOMAIN nodes = 1 .. Len(nodes)
  BY SearchFacts DEF SelectInv, SearchInv
<1>4. PlaceOK'
  BY <1>1, <1>2, <1>3 DEF PlaceOK, ReadFrame
<1>5. HitsOK'
  <2>1. joined' \subseteq joined \cup hits
    BY <1>1, JoinsType
  <2>2. AllValues => \A g \in joined \cup hits : g[2] \in window
    BY DEF SelectInv, HitsOK, ReadFrame
  <2> QED
    BY <1>1, <2>1, <2>2 DEF HitsOK, ReadFrame
<1>6. BehindOK' /\ SeenOK'
  BY <1>1 DEF BehindOK, SeenOK, Reading
<1>7. ASSUME AllValues, Distinguished PROVE Amounts(joined', leaf)
  <2>1. Scanned
    BY <1>1, <1>7, ScanComplete
  <2>2. CASE leaf = 1
    BY <1>1, <1>2, <1>7, <2>1, <2>2, FirstLeaf
  <2>3. CASE leaf # 1
    <3>1. Amounts(joined, leaf - 1)
      <4>1. leaf > 1
        BY <1>2, <1>3, <1>7, <2>3
      <4> QED
        BY <1>7, <4>1 DEF SelectInv, JoinedOK, ReadFrame, Amounts, UniqueIds, Selected
    <3>2. nodes[leaf].join = command.condition[leaf].join
      BY <1>2, <1>3, <1>7, <2>3 DEF SelectInv, TreeOK
    <3>3. joined' \in IF nodes[leaf].join = "AND" THEN Intersections(joined, hits)
                      ELSE Unions(joined, hits)
      BY <1>1, <1>2, <1>7, <2>3 DEF Joins
    <3>4. Searching
      BY DEF ReadFrame
    <3>5. CASE nodes[leaf].join = "AND"
      BY <1>2, <1>7, <2>1, <2>3, <3>1, <3>2, <3>3, <3>4, <3>5, AndLeaf
    <3>6. CASE nodes[leaf].join # "AND"
      BY <1>2, <1>7, <2>1, <2>3, <3>1, <3>2, <3>3, <3>4, <3>6, OrLeaf
    <3> QED
      BY <3>5, <3>6
  <2> QED
    BY <2>2, <2>3
<1>8. JoinedOK'
  <2>1. leaf' - 1 = leaf
    BY <1>1, <1>3
  <2>2. ASSUME AllValues, Distinguished, NEW v \in Selected' \cap Live
        PROVE  Truth(versions[v].data)[leaf]
    <3>1. PICK h \in joined' : h[2] = v
      BY <2>2 DEF Selected
    <3> QED
      BY <1>7, <2>2, <3>1 DEF Amounts
  <2>3. ASSUME AllValues, Distinguished, NEW v \in Untouched, Truth(versions[v].data)[leaf]
        PROVE  v \in Selected'
    <3>1. PICK h \in joined' : h[2] = v
      BY <1>7, <2>3 DEF Amounts
    <3> QED
      BY <3>1 DEF Selected
  <2>4. \A row : Truth(row)' = Truth(row)
    BY DEF Truth, ReadFrame
  <2>5. \A h \in joined' : Id(h)' = Id(h)
    BY DEF Id, IdOf, ReadFrame
  <2> QED
    BY <1>7, <2>1, <2>2, <2>3, <2>4, <2>5 DEF JoinedOK, ReadFrame, Amounts, UniqueIds
<1> QED
  BY <1>4, <1>5, <1>6, <1>8 DEF Progress

LEMMA ReadStepSelects ==
    ASSUME SelectInv, ReadStep, UNCHANGED <<began, window>>
    PROVE  SelectInv'
<1>1. SearchInv' /\ ReadTyped /\ pc[Searcher] = "idle"
  BY ReadStepTyped DEF SelectInv
<1>2. ReadFrame /\ RowsInv' /\ TreeOK' /\ WindowOK' /\ UntouchedOK' /\ ReplaceOK'
  BY <1>1, ReadFrameHolds
<1>3. Progress'
  BY <1>1, <1>2, ScanLeafSelects, SkipLeafSelects, ReadRowSelects, CheckRowReadSelects,
     JoinLeafSelects DEF ReadStep
<1> QED
  BY <1>1, <1>2, <1>3 DEF SelectInv, Progress
-----------------------------------------------------------------------------
(* The search begins and ends.                                             *)

LEMMA LiveBounds ==
    ASSUME RowsInv
    PROVE  /\ \A v \in Live : Origin(v) < record_counter
           /\ \A u \in Threads : Pending(u) => \A v \in Live : Origin(retrieved[u]) # Origin(v)
BY DEF RowsInv, DistinctInv, RowsCounted, PendingNew, Live, Origin

LEMMA ParseSelects ==
    ASSUME SelectInv, ParseCommand
    PROVE  SelectInv'
<1>1. Parsed /\ SearchInv' /\ RowsInv'
  BY ParseSplit, ParseTyped, RowsParse DEF SelectInv
<1>2. /\ stage = "idle" /\ stage' \in {"leaf", "over"}
      /\ UNCHANGED <<records, versions, record_counter, pc, retrieved, leaf, hits, joined,
                     entry>>
      /\ began' = Live /\ window' = Live
  BY <1>1 DEF Parsed, scanVars
<1>3. /\ Len(nodes') \in Nat \ {0} /\ Len(nodes') = Len(command'.condition)
      /\ \A k \in DOMAIN nodes' : k # 1 => nodes'[k].join = command'.condition[k].join
  BY <1>1, PredicateTreeShape DEF Parsed
<1>4. Live' = Live
  BY <1>2 DEF Live
<1>5. TreeOK'
  BY <1>3 DEF TreeOK
<1>6. WindowOK'
  BY <1>2, LiveBounds DEF SelectInv, WindowOK, Origin, Pending
<1>7. UntouchedOK'
  <2>1. \A v, w \in Live : Origin(v) = Origin(w) => v = w
    BY LiveApart DEF SelectInv, RowsInv, DistinctInv
  <2> QED
    BY <1>2, <1>4, <2>1 DEF UntouchedOK, Untouched, Origin
<1>8. hits' = {} /\ joined' = {} /\ leaf' = 1 /\ entry' = TRUE
  BY <1>2 DEF SelectInv, WindowOK
<1>9. PlaceOK' /\ HitsOK' /\ BehindOK' /\ SeenOK' /\ JoinedOK'
  <2>1. ~Reading' /\ stage' # "join" /\ stage' # "check"
    BY <1>2 DEF Reading
  <2>2. PlaceOK'
    BY <1>2, <1>3, <1>8 DEF PlaceOK, Searching
  <2> QED
    BY <1>8, <2>1, <2>2 DEF HitsOK, BehindOK, SeenOK, JoinedOK
<1>10. ReplaceOK'
  <2>1. ASSUME stage' = "over" PROVE ~AllValues'
    <3>1. PICK k \in DOMAIN nodes' :
              nodes'[k].leaf \in {ColumnLeaf, FailedLeaf, ThrownLeaf}
      BY <1>1, <2>1 DEF Parsed
    <3>2. nodes'[k].leaf.is # "value"
      BY <3>1 DEF ColumnLeaf, FailedLeaf, ThrownLeaf
    <3> QED
      BY <3>2 DEF AllValues
  <2> QED
    BY <2>1 DEF ReplaceOK
<1> QED
  BY <1>1, <1>5, <1>6, <1>7, <1>9, <1>10 DEF SelectInv

LEMMA FinishSelects ==
    ASSUME SelectInv, FinishSearch, UNCHANGED <<began, window>>
    PROVE  SelectInv'
<1>1. FinishKeeps /\ (Found \/ Fruitless) /\ SearchInv' /\ RowsInv'
  BY FinishSplit, FinishTyped, RowsFinish DEF SelectInv
<1>2. /\ stage = "leaf" /\ leaf > Len(nodes) /\ stage' = "over" /\ pc[Searcher] = "idle"
      /\ UNCHANGED <<records, versions, record_counter, idx, retrieved, ref, command,
                     nodes, leaf, hits, joined, entry, began, window>>
  BY <1>1 DEF FinishKeeps, tableVars
<1>3. Live' = Live /\ Untouched' = Untouched
  BY <1>2 DEF Live, Untouched
<1>4. TreeOK'
  BY <1>2 DEF SelectInv, TreeOK
<1>5. \A u \in Threads : Pending(u)' => Pending(u)
  <2>1. CASE Fruitless
    BY <2>1 DEF Fruitless, Pending
  <2>2. CASE Found
    <3>1. PICK label \in {"done", "size"} : pc' = [pc EXCEPT ![Searcher] = label]
      BY <2>2 DEF Found
    <3>2. pc \in [Threads -> Pcs]
      BY DEF SelectInv, SearchInv, TypeInv, TypeOK
    <3> QED
      BY <3>1, <3>2 DEF Pending
  <2> QED
    BY <1>1, <2>1, <2>2
<1>6. WindowOK'
  BY <1>2, <1>5 DEF SelectInv, WindowOK, Origin
<1>7. ~Searching'
  BY <1>2 DEF Searching
<1>8. UntouchedOK' /\ PlaceOK' /\ HitsOK' /\ BehindOK' /\ SeenOK' /\ JoinedOK'
  BY <1>2, <1>7 DEF UntouchedOK, PlaceOK, HitsOK, BehindOK, SeenOK, JoinedOK, Reading
<1>9. ASSUME command.kind = "UPDATE", AllValues, Distinguished PROVE ReplaceOK'
  <2>1. Found /\ ~IsQuery
    BY <1>1, <1>9 DEF Fruitless, IsQuery
  <2>2. PICK refs \in Seq(1 .. Len(versions)) :
          /\ {refs[k] : k \in DOMAIN refs} = Selected
          /\ record_refs' = [record_refs EXCEPT ![Searcher] = refs]
          /\ pc' = [pc EXCEPT ![Searcher] =
                       IF IsQuery \/ joined = {} THEN "done" ELSE "size"]
    BY <2>1 DEF Found
  <2>3. /\ Searcher \in Threads /\ pc \in [Threads -> Pcs]
        /\ record_refs \in [Threads -> Seq(1 .. Len(versions))]
        /\ ref[Searcher] = 1
    BY <1>2, SearcherAssumption
       DEF SelectInv, SearchInv, TypeInv, TypeOK, LocalsOK, LocalOK
  <2>4. /\ record_refs'[Searcher] = refs /\ ref'[Searcher] = 1
        /\ pc'[Searcher] = IF joined = {} THEN "done" ELSE "size"
    BY <1>2, <2>1, <2>2, <2>3
  <2>5. Refs' = Selected
    BY <2>2, <2>4 DEF Refs
  <2>6. leaf > 1 /\ leaf - 1 = Len(nodes)
    <3>1. leaf \in 1 .. Len(nodes) + 1 /\ Len(nodes) >= 1
      BY <1>2, <1>9 DEF SelectInv, PlaceOK, Searching, TreeOK
    <3>2. Len(nodes) \in Nat
      BY DEF SelectInv, SearchInv
    <3> QED
      BY <1>2, <3>1, <3>2
  <2>7. \A v \in Untouched : Holds(versions[v].data) => v \in Selected
    BY <1>2, <1>9, <2>6 DEF SelectInv, JoinedOK, Searching, Holds
  <2>8. \A row : Holds(row)' = Holds(row)
    BY <1>2 DEF Holds, Truth
  <2>9. joined = {} => Selected = {}
    BY DEF Selected
  <2>10. \A k \in DOMAIN refs : ~(k < 1)
    BY <2>2
  <2> QED
    BY <1>2, <1>3, <2>4, <2>5, <2>7, <2>8, <2>9, <2>10 DEF ReplaceOK, Applying
<1>10. ReplaceOK'
  <2>1. command'.kind = command.kind /\ AllValues' = AllValues /\ Distinguished' = Distinguished
    BY <1>2 DEF AllValues, Distinguished, IdOf
  <2>2. CASE ~(command.kind = "UPDATE" /\ AllValues /\ Distinguished)
    BY <2>1, <2>2 DEF ReplaceOK
  <2> QED
    BY <1>9, <2>2
<1> QED
  BY <1>1, <1>4, <1>6, <1>8, <1>10 DEF SelectInv
-----------------------------------------------------------------------------
(* The other threads beside the search.                                    *)

\* What a worker's step leaves of what the search has to do with.
WorkFrame ==
    /\ RowsGrow /\ PendingSince
    /\ UNCHANGED <<command, nodes, stage, leaf, hits, joined, entry, began>>
    /\ window \subseteq window' /\ window' \subseteq window \cup Live'
    /\ \A v \in window : versions'[v] = versions[v] /\ Origin(v) \in Nat
    /\ \A u \in Threads : Pending(u) => versions'[retrieved[u]] = versions[retrieved[u]]
    /\ \A i \in DOMAIN records' : records'[i] \in window =>
          i \in DOMAIN records /\ records[i] = records'[i]
    /\ \A v \in window : v \in Live' => v \in Live
    /\ Untouched' \subseteq Untouched /\ began \subseteq window
    /\ AllValues' = AllValues /\ (Distinguished' => Distinguished)

LEMMA WorkFrameHolds ==
    ASSUME NoDeletes, SelectInv, WorkerStep, NEW t \in Threads, Acts(t)
    PROVE  /\ WorkFrame /\ SearchInv' /\ RowsInv' /\ TreeOK' /\ OthersAlone(t)
           /\ Searching => t # Searcher /\ window' = window \cup Live'
<1>1. /\ Next /\ SearchInv /\ RowsInv /\ WindowOK
      /\ window' = IF stage \in {"idle", "over"} THEN window ELSE window \cup Live'
      /\ UNCHANGED <<command, nodes, stage, leaf, hits, joined, entry, began>>
  BY DEF WorkerStep, SelectInv
<1>2. SearchInv' /\ RowsInv' /\ RowsGrow /\ VersionsGrow /\ PendingSince /\ OthersAlone(t)
  BY <1>1, WorkerTyped, RowsWorker
<1>3. window \subseteq 1 .. Len(versions) /\ began \subseteq window
  BY <1>1 DEF SearchInv, SearchTypeOK
<1>4. \A v \in window : versions'[v] = versions[v] /\ Origin(v) \in Nat
  <2>1. \A v \in window : versions[v] \in VersionType
    BY <1>1, <1>3 DEF SearchInv, TypeInv, TypeOK
  <2> QED
    BY <1>2, <1>3, <2>1 DEF VersionsGrow, VersionType, Origin
<1>11. \A u \in Threads : Pending(u) => versions'[retrieved[u]] = versions[retrieved[u]]
  <2>1. \A u \in Threads : Pending(u) => retrieved[u] \in 1 .. Len(versions)
    BY <1>1, RetrievedRange DEF SearchInv, Pending, TypeInv, LocalsOK, LocalOK
  <2> QED
    BY <1>2, <2>1 DEF VersionsGrow
<1>5. /\ \A i \in DOMAIN records' : records'[i] \in window =>
            i \in DOMAIN records /\ records[i] = records'[i]
      /\ \A v \in window : v \in Live' => v \in Live
  BY <1>1, <1>2, NoReturn
<1>6. Untouched' \subseteq Untouched
  BY <1>1, <1>3, <1>5 DEF Untouched
<1>7. window \subseteq window' /\ window' \subseteq window \cup Live'
  BY <1>1
<1>8. Distinguished' => Distinguished
  BY <1>4, <1>7 DEF Distinguished, IdOf
<1>9. AllValues' = AllValues /\ TreeOK'
  BY <1>1 DEF AllValues, SelectInv, TreeOK
<1>10. Searching => t # Searcher /\ window' = window \cup Live'
  BY <1>1, SearcherWaits DEF Searching, SearchInv
<1> QED
  BY <1>1, <1>2, <1>3, <1>4, <1>5, <1>6, <1>7, <1>8, <1>9, <1>10, <1>11 DEF WorkFrame

LEMMA WindowStays ==
    ASSUME WindowOK, WorkFrame, RowsInv'
    PROVE  WindowOK'
<1>1. /\ \A v \in Live' : Origin(v)' < record_counter'
      /\ \A u \in Threads : Pending(u)' =>
            \A v \in Live' : Origin(retrieved[u])' # Origin(v)'
  BY DEF RowsInv, DistinctInv, RowsCounted, PendingNew, Live, Origin
<1>2. /\ record_counter \in Nat /\ record_counter' \in Nat
      /\ record_counter <= record_counter'
      /\ \A u \in Threads : Pending(u)' =>
            \/ Pending(u) /\ Origin(retrieved[u])' = Origin(retrieved[u])
            \/ Origin(retrieved[u])' = record_counter
  BY DEF WorkFrame, PendingSince
<1>3. ASSUME NEW v \in window
      PROVE  /\ Origin(v)' = Origin(v) /\ Origin(v)' < record_counter'
             /\ \A u \in Threads : Pending(u)' => Origin(retrieved[u])' # Origin(v)'
  <2>1. Origin(v)' = Origin(v) /\ Origin(v) < record_counter
    BY DEF WorkFrame, WindowOK, Origin
  <2>2. Origin(v) \in Nat
    BY DEF WorkFrame
  <2> QED
    BY <1>2, <2>1, <2>2 DEF WindowOK
<1>4. \A v \in window' : v \in window \/ v \in Live'
  BY DEF WorkFrame
<1> QED
  BY <1>1, <1>3, <1>4 DEF WindowOK, WorkFrame

\* Another thread's step during the search.
LEMMA BesideSearch ==
    ASSUME SelectInv, WorkFrame, RowsInv', Searching, NEW t \in Threads, t # Searcher,
           OthersAlone(t), window' = window \cup Live'
    PROVE  UntouchedOK' /\ Progress' /\ ReplaceOK'
<1>1. /\ UNCHANGED <<command, nodes, stage, leaf, hits, joined, entry, began>>
      /\ Searcher \in Threads
      /\ idx'[Searcher] = idx[Searcher] /\ table_len'[Searcher] = table_len[Searcher]
      /\ retrieved'[Searcher] = retrieved[Searcher]
      /\ Searching' /\ (Reading' = Reading) /\ AllValues' = AllValues
  BY SearcherAssumption DEF WorkFrame, OthersAlone, Searching, Reading
<1>2. /\ \A v \in window : versions'[v] = versions[v] /\ Origin(v)' = Origin(v)
                           /\ IdOf(v)' = IdOf(v)
      /\ \A v \in window : v \in Live' => v \in Live
      /\ Untouched' \subseteq Untouched /\ began \subseteq window
  BY DEF WorkFrame, Origin, IdOf
<1>3. \A i \in DOMAIN records' : records'[i] \in began =>
          i \in DOMAIN records /\ records[i] = records'[i]
  BY DEF WorkFrame
<1>4. UntouchedOK'
  <2>1. ASSUME NEW v \in Untouched', NEW w \in window', Origin(v)' = Origin(w)'
        PROVE  v = w
    <3>1. v \in Untouched /\ v \in window /\ v \in Live'
      BY <1>2 DEF Untouched
    <3>2. CASE w \in window
      BY <1>2, <2>1, <3>1, <3>2 DEF SelectInv, UntouchedOK
    <3>3. CASE w \in Live'
      BY <2>1, <3>1, <3>3, LiveApartNext DEF RowsInv, DistinctInv
    <3> QED
      BY <3>2, <3>3
  <2> QED
    BY <2>1 DEF UntouchedOK
<1>5. PlaceOK'
  BY <1>1 DEF SelectInv, PlaceOK
<1>6. AllValues => /\ \A h \in hits : h[2] \in window
                   /\ \A h \in joined : h[2] \in window
  BY DEF SelectInv, HitsOK
<1>7. HitsOK'
  BY <1>1, <1>2, <1>6 DEF SelectInv, HitsOK
<1>8. BehindOK'
  <2>1. ASSUME AllValues, Reading, NEW h \in hits, NEW j \in DOMAIN records',
               j >= idx[Searcher]
        PROVE  Origin(records[j])' # Origin(h[2])
    <3>1. CASE j \in DOMAIN records
      <4>1. Origin(records[j])' = Origin(records[j])
        BY <3>1 DEF WorkFrame, RowsGrow
      <4> QED
        BY <2>1, <3>1, <4>1 DEF SelectInv, BehindOK
    <3>2. CASE j \notin DOMAIN records
      <4>1. PICK u \in Threads : Pending(u) /\ records'[j] = retrieved[u]
        BY <3>2 DEF WorkFrame, RowsGrow
      <4>2. Origin(records[j])' = Origin(retrieved[u])
        BY <4>1 DEF WorkFrame, Origin
      <4> QED
        BY <1>6, <2>1, <4>1, <4>2 DEF SelectInv, WindowOK
    <3> QED
      BY <3>1, <3>2
  <2> QED
    BY <1>1, <1>2, <1>6, <2>1 DEF BehindOK
<1>9. SeenOK'
  BY <1>1, <1>2, <1>3 DEF SelectInv, SeenOK
<1>10. JoinedOK'
  <2>1. \A row : Truth(row)' = Truth(row)
    BY <1>1 DEF Truth
  <2>2. Selected' = Selected
    BY <1>1 DEF Selected
  <2>3. AllValues => /\ \A h \in joined : Id(h)' = Id(h)
                     /\ \A v \in Selected : v \in window
    BY <1>2, <1>6 DEF Id, Selected
  <2>4. \A v \in Untouched : v \in window
    BY <1>2 DEF Untouched
  <2>5. Distinguished' => Distinguished
    BY DEF WorkFrame
  <2> QED
    BY <1>1, <1>2, <2>1, <2>2, <2>3, <2>4, <2>5 DEF SelectInv, JoinedOK
<1>11. ReplaceOK'
  BY <1>1 DEF ReplaceOK, Searching
<1> QED
  BY <1>4, <1>5, <1>7, <1>8, <1>9, <1>10, <1>11 DEF Progress
-----------------------------------------------------------------------------
(* The references are applied.                                             *)

LEMMA NotSearching ==
    ASSUME SelectInv, WorkFrame, ~Searching
    PROVE  UntouchedOK' /\ Progress'
<1>1. UNCHANGED <<stage, leaf, hits, joined, entry>>
  BY DEF WorkFrame
<1> QED
  BY <1>1 DEF Searching, Reading, UntouchedOK, Progress, PlaceOK, HitsOK, BehindOK, SeenOK,
              JoinedOK

\* An UPDATE in the middle of its references, of a condition that is good for
\* the proof.
Updating ==
    /\ stage = "over" /\ command.kind = "UPDATE" /\ AllValues /\ Distinguished'

Ended == pc[Searcher] = "done"

\* What is left to show of a step while the references are applied.
LEMMA ReplaceStays ==
    ASSUME SelectInv, WorkFrame, Updating, Applying \/ Ended, Applying' \/ Ended',
           record_refs'[Searcher] = record_refs[Searcher],
           Applying' => \A k \in DOMAIN record_refs[Searcher] :
               k < ref'[Searcher] => record_refs[Searcher][k] \notin Untouched',
           Ended' => \A k \in DOMAIN record_refs[Searcher] :
               record_refs[Searcher][k] \notin Untouched',
           pc'[Searcher] \in {"find", "findCheck", "cas"} =>
               \A i \in DOMAIN records' : records'[i] \in began =>
                  /\ i <= table_len'[Searcher]
                  /\ i < idx'[Searcher] => records'[i] # CurrentRef(Searcher)'
                  /\ (pc'[Searcher] = "findCheck" /\ i = idx'[Searcher])
                        => retrieved'[Searcher] = records'[i]
    PROVE  ReplaceOK'
<1>1. /\ Distinguished /\ Untouched' \subseteq Untouched /\ began \subseteq window
      /\ UNCHANGED <<stage, command, nodes, began>>
      /\ \A v \in window : versions'[v] = versions[v]
  BY DEF WorkFrame, Updating
<1>2. Refs' = Refs
  BY DEF Refs
<1>3. \A row : Holds(row)' = Holds(row)
  BY <1>1 DEF Holds, Truth
<1>4. \A v \in Untouched : Holds(versions[v].data) => v \in Refs
  BY <1>1 DEF SelectInv, ReplaceOK, Updating, Ended
<1>5. \A v \in Untouched' : versions'[v] = versions[v] /\ v \in Untouched
  BY <1>1 DEF Untouched
<1>6. \A v \in Untouched' : Holds(versions[v].data)' => v \in Refs'
  BY <1>2, <1>3, <1>4, <1>5
<1>7. Ended' => Refs' \cap Untouched' = {}
  BY <1>2 DEF Refs
<1>8. pc'[Searcher] \in {"size", "find", "findCheck", "cas", "done"}
  BY DEF Applying, Ended
<1> QED
  BY <1>1, <1>6, <1>7, <1>8 DEF ReplaceOK, Ended

LEMMA BesideReplace ==
    ASSUME SelectInv, WorkFrame, stage = "over", NEW t \in Threads, t # Searcher,
           OthersAlone(t)
    PROVE  ReplaceOK'
<1>1. /\ pc'[Searcher] = pc[Searcher] /\ ref'[Searcher] = ref[Searcher]
      /\ idx'[Searcher] = idx[Searcher] /\ table_len'[Searcher] = table_len[Searcher]
      /\ retrieved'[Searcher] = retrieved[Searcher]
      /\ record_refs'[Searcher] = record_refs[Searcher]
  BY SearcherAssumption DEF OthersAlone
<1>2. UNCHANGED <<command, nodes, began>> /\ AllValues' = AllValues
  BY DEF WorkFrame
<1>3. CASE ~Updating
  BY <1>2, <1>3 DEF Updating, ReplaceOK
<1>4. CASE Updating /\ ~(Applying \/ Ended)
  <2>1. Distinguished
    BY <1>4 DEF Updating, WorkFrame
  <2>2. pc[Searcher] = "idle"
    BY <1>4, <2>1 DEF SelectInv, ReplaceOK, Updating, Applying, Ended
  <2> QED
    BY <1>1, <2>2 DEF ReplaceOK, Applying
<1>5. CASE Updating /\ (Applying \/ Ended)
  <2>1. ReplaceOK /\ stage = "over" /\ command.kind = "UPDATE" /\ AllValues /\ Distinguished
    BY <1>5 DEF SelectInv, Updating, WorkFrame
  <2>2. Untouched' \subseteq Untouched /\ began \subseteq window
    BY DEF WorkFrame
  <2>3. (Applying' = Applying) /\ (Ended' = Ended) /\ CurrentRef(Searcher)' = CurrentRef(Searcher)
    BY <1>1 DEF Applying, Ended, CurrentRef
  <2>4. Applying' => \A k \in DOMAIN record_refs[Searcher] :
            k < ref'[Searcher] => record_refs[Searcher][k] \notin Untouched'
    BY <1>1, <2>1, <2>2, <2>3 DEF ReplaceOK
  <2>5. Ended' => \A k \in DOMAIN record_refs[Searcher] :
            record_refs[Searcher][k] \notin Untouched'
    BY <2>1, <2>2, <2>3 DEF ReplaceOK, Ended, Refs
  <2>6. pc'[Searcher] \in {"find", "findCheck", "cas"} =>
            \A i \in DOMAIN records' : records'[i] \in began =>
              /\ i <= table_len'[Searcher]
              /\ i < idx'[Searcher] => records'[i] # CurrentRef(Searcher)'
              /\ (pc'[Searcher] = "findCheck" /\ i = idx'[Searcher])
                    => retrieved'[Searcher] = records'[i]
    <3>1. \A i \in DOMAIN records' : records'[i] \in began =>
              i \in DOMAIN records /\ records[i] = records'[i]
      BY <2>2 DEF WorkFrame
    <3> QED
      BY <1>1, <2>1, <2>3, <3>1 DEF ReplaceOK
  <2> QED
    BY <1>1, <1>5, <2>3, <2>4, <2>5, <2>6, ReplaceStays
<1> QED
  BY <1>3, <1>4, <1>5

LEMMA ApplySteps ==
    ASSUME RowsInv, Acts(Searcher), Applying \/ Ended
    PROVE  \/ ReadSize(Searcher) \/ FindRead(Searcher) \/ FindCheck(Searcher)
           \/ UpdateSlot(Searcher) \/ Return(Searcher)
<1>1. /\ Requests[Searcher] = {} /\ request[Searcher].kind # "DELETE"
      /\ pc[Searcher] \in {"size", "find", "findCheck", "cas", "done"}
  BY SearcherAssumption DEF RowsInv, Applying, Ended
<1>2. ~NullDereference(Searcher)
  BY DEF NullDereference, Held, InRange, RowsInv, NoNulls
<1>3. ~RejectRow(Searcher) /\ ~CheckRow(Searcher) /\ ~BeginScan(Searcher)
      /\ ~RefuseFullTable(Searcher)
  BY <1>1 DEF RejectRow, CheckRow, BeginScan, RefuseFullTable
<1>4. /\ ~SearchRead(Searcher) /\ ~SearchCheck(Searcher) /\ ~ClearSlot(Searcher)
      /\ ~EraseSlot(Searcher) /\ ~CountRow(Searcher) /\ ~PushRow(Searcher)
  BY <1>1 DEF SearchRead, SearchCheck, ClearSlot, EraseSlot, CountRow, PushRow, Running
<1> QED
  BY <1>2, <1>3, <1>4 DEF Acts, Looks

LEMMA ApplyFacts ==
    ASSUME SearchInv
    PROVE  /\ Searcher \in Threads /\ pc \in [Threads -> Pcs]
           /\ table_len \in [Threads -> Nat] /\ idx \in [Threads -> Nat \ {0}]
           /\ ref \in [Threads -> Nat \ {0}] /\ retrieved \in [Threads -> 0 .. Len(versions)]
           /\ Len(record_refs[Searcher]) \in Nat
           /\ DOMAIN record_refs[Searcher] = 1 .. Len(record_refs[Searcher])
           /\ DOMAIN records = 1 .. Len(records) /\ Len(records) \in Nat
<1>1. TypeOK /\ Searcher \in Threads
  BY SearcherAssumption DEF SearchInv, TypeInv
<1>2. record_refs[Searcher] \in Seq(1 .. Len(versions)) /\ records \in Seq(0 .. Len(versions))
  BY <1>1 DEF TypeOK
<1>3. /\ DOMAIN record_refs[Searcher] = 1 .. Len(record_refs[Searcher])
      /\ Len(record_refs[Searcher]) \in Nat /\ Len(records) \in Nat
      /\ DOMAIN records = 1 .. Len(records)
  BY <1>2
<1> QED
  BY <1>1, <1>3 DEF TypeOK

\* The inner loop goes on: it has passed a slot, which does not hold an
\* untouched row that the reference names.
LEMMA ApplyFindOn ==
    ASSUME SelectInv, WorkFrame, Updating, FindOn(Searcher),
           pc[Searcher] \in {"find", "findCheck", "cas"},
           record_refs' = record_refs, table_len' = table_len,
           \A i \in DOMAIN records' :
               (i = idx[Searcher] /\ records'[i] \in began) =>
                   records'[i] # CurrentRef(Searcher)
    PROVE  ReplaceOK'
<1> DEFINE r == record_refs[Searcher]
           m == ref[Searcher]
           i0 == idx[Searcher]
<1>1. /\ Searcher \in Threads /\ pc \in [Threads -> Pcs] /\ i0 \in Nat /\ m \in Nat
      /\ table_len[Searcher] \in Nat /\ Len(r) \in Nat /\ DOMAIN r = 1 .. Len(r)
      /\ idx \in [Threads -> Nat \ {0}] /\ ref \in [Threads -> Nat \ {0}]
      /\ DOMAIN records = 1 .. Len(records) /\ Len(records) \in Nat
  BY ApplyFacts DEF SelectInv
<1>2. /\ ReplaceOK /\ stage = "over" /\ command.kind = "UPDATE" /\ AllValues
      /\ Distinguished /\ Applying
  BY DEF SelectInv, Updating, WorkFrame, Applying
<1>3. /\ Untouched' \subseteq Untouched /\ began \subseteq window /\ began' = began
      /\ \A i \in DOMAIN records' : records'[i] \in began =>
            i \in DOMAIN records /\ records[i] = records'[i]
  BY DEF WorkFrame
<1>4. ASSUME NEW i \in DOMAIN records', records'[i] \in began
      PROVE  i <= table_len[Searcher] /\ (i <= i0 => records'[i] # CurrentRef(Searcher))
  <2>1. i \in DOMAIN records /\ records[i] = records'[i] /\ i \in Nat
    BY <1>1, <1>3, <1>4
  <2>2. i <= table_len[Searcher] /\ (i < i0 => records'[i] # CurrentRef(Searcher))
    BY <1>2, <1>4, <2>1 DEF ReplaceOK
  <2> QED
    BY <1>1, <1>4, <2>1, <2>2
<1>5. \A k \in DOMAIN r : k < m => r[k] \notin Untouched'
  BY <1>2, <1>3 DEF ReplaceOK
<1>6. CASE i0 < table_len[Searcher]
  <2>1. pc'[Searcher] = "find" /\ idx'[Searcher] = i0 + 1 /\ ref'[Searcher] = m
    BY <1>1, <1>6 DEF FindOn, Goto
  <2>2. CurrentRef(Searcher)' = CurrentRef(Searcher)
    BY <2>1 DEF CurrentRef
  <2>3. Applying' /\ ~Ended'
    BY <2>1 DEF Applying, Ended
  <2>4. \A i \in DOMAIN records' : records'[i] \in began =>
            /\ i <= table_len'[Searcher]
            /\ i < idx'[Searcher] => records'[i] # CurrentRef(Searcher)'
    <3>1. \A i \in DOMAIN records' : records'[i] \in began => i \in Nat
      BY <1>1, <1>3
    <3>2. \A i \in Nat : i < i0 + 1 => i <= i0
      BY <1>1
    <3> QED
      BY <1>4, <2>1, <2>2, <3>1, <3>2
  <2> QED
    BY <1>2, <1>5, <2>1, <2>3, <2>4, ReplaceStays
<1>7. CASE ~(i0 < table_len[Searcher])
  <2>1. /\ ref'[Searcher] = m + 1
        /\ pc'[Searcher] = IF m < Len(r) THEN "size" ELSE "done"
    BY <1>1, <1>7 DEF FindOn, Goto
  <2>2. CurrentRef(Searcher) \notin Untouched'
    <3> SUFFICES ASSUME CurrentRef(Searcher) \in Untouched' PROVE FALSE
      OBVIOUS
    <3>1. PICK i \in DOMAIN records' : records'[i] = CurrentRef(Searcher)
      BY DEF Untouched, Live
    <3>2. records'[i] \in began /\ i \in Nat
      BY <1>1, <1>3, <3>1 DEF Untouched
    <3>3. i <= i0
      BY <1>1, <1>4, <1>7, <3>2
    <3> QED
      BY <1>4, <3>1, <3>2, <3>3
  <2>3. ASSUME NEW k \in DOMAIN r, k < m + 1 PROVE r[k] \notin Untouched'
    <3>1. k < m \/ k = m
      BY <1>1, <2>3
    <3> QED
      BY <1>5, <2>2, <3>1 DEF CurrentRef
  <2>4. Applying' \/ Ended'
    BY <2>1 DEF Applying, Ended
  <2>5. Ended' => \A k \in DOMAIN r : k < m + 1
    BY <1>1, <2>1 DEF Ended
  <2>6. pc'[Searcher] \notin {"find", "findCheck", "cas"}
    BY <2>1
  <2>7. Applying' => \A k \in DOMAIN r : k < ref'[Searcher] => r[k] \notin Untouched'
    BY <2>1, <2>3
  <2>8. Ended' => \A k \in DOMAIN r : r[k] \notin Untouched'
    BY <2>3, <2>5
  <2> QED
    BY <1>2, <2>4, <2>6, <2>7, <2>8, ReplaceStays
<1> QED
  BY <1>6, <1>7

LEMMA ApplyReadSize ==
    ASSUME SelectInv, WorkFrame, Updating, Applying, ReadSize(Searcher)
    PROVE  ReplaceOK'
<1>1. /\ table_len' = [table_len EXCEPT ![Searcher] = Len(records)]
      /\ idx' = [idx EXCEPT ![Searcher] = 1]
      /\ UNCHANGED <<records, record_refs>>
  BY DEF ReadSize, tableVars
<1>2. /\ Searcher \in Threads /\ pc \in [Threads -> Pcs]
      /\ table_len \in [Threads -> Nat] /\ idx \in [Threads -> Nat \ {0}]
      /\ ref \in [Threads -> Nat \ {0}]
      /\ DOMAIN records = 1 .. Len(records) /\ Len(records) \in Nat
  BY ApplyFacts DEF SelectInv
<1>3. table_len'[Searcher] = Len(records) /\ idx'[Searcher] = 1
  BY <1>1, <1>2
<1>4. Untouched' \subseteq Untouched /\ ReplaceOK /\ Distinguished
  BY DEF SelectInv, WorkFrame, Updating
<1>5. CASE records # <<>>
  <2>1. pc'[Searcher] = "find" /\ ref' = ref
    BY <1>2, <1>5 DEF ReadSize, Goto
  <2>2. Applying' /\ ~Ended'
    BY <2>1 DEF Applying, Ended
  <2>3. \A k \in DOMAIN record_refs[Searcher] :
            k < ref[Searcher] => record_refs[Searcher][k] \notin Untouched'
    BY <1>4 DEF ReplaceOK, Updating
  <2>4. \A i \in DOMAIN records : i <= Len(records) /\ ~(i < 1)
    BY <1>2
  <2> QED
    BY <1>1, <1>3, <2>1, <2>2, <2>3, <2>4, ReplaceStays
<1>6. CASE records = <<>>
  <2>1. pc'[Searcher] \in {"size", "done"}
    BY <1>2, <1>6 DEF ReadSize, Goto
  <2>2. DOMAIN records' = {} /\ Untouched' = {}
    BY <1>1, <1>6 DEF Untouched, Live
  <2>3. Applying' \/ Ended'
    BY <2>1 DEF Applying, Ended
  <2> QED
    BY <1>1, <2>1, <2>2, <2>3, ReplaceStays
<1> QED
  BY <1>5, <1>6

LEMMA ApplyFindRead ==
    ASSUME SelectInv, WorkFrame, Updating, Applying, FindRead(Searcher)
    PROVE  ReplaceOK'
<1>1. pc[Searcher] = "find" /\ UNCHANGED <<records, table_len, record_refs>>
  BY DEF FindRead, Running, tableVars
<1>2. /\ Searcher \in Threads /\ pc \in [Threads -> Pcs]
      /\ retrieved \in [Threads -> 0 .. Len(versions)]
  BY ApplyFacts DEF SelectInv
<1>3. CASE InRange(idx[Searcher])
  <2>1. /\ retrieved'[Searcher] = records[idx[Searcher]] /\ pc'[Searcher] = "findCheck"
        /\ UNCHANGED <<idx, ref>>
    BY <1>2, <1>3 DEF FindRead, Goto
  <2>2. /\ ReplaceOK /\ Distinguished /\ Untouched' \subseteq Untouched
        /\ Applying' /\ ~Ended' /\ CurrentRef(Searcher)' = CurrentRef(Searcher)
    BY <1>1, <2>1 DEF SelectInv, WorkFrame, Updating, Applying, Ended, CurrentRef
  <2>3. \A k \in DOMAIN record_refs[Searcher] :
            k < ref'[Searcher] => record_refs[Searcher][k] \notin Untouched'
    BY <2>1, <2>2 DEF ReplaceOK, Updating
  <2>4. \A i \in DOMAIN records' : records'[i] \in began =>
            /\ i <= table_len'[Searcher]
            /\ i < idx'[Searcher] => records'[i] # CurrentRef(Searcher)'
            /\ i = idx'[Searcher] => retrieved'[Searcher] = records'[i]
    BY <1>1, <2>1, <2>2 DEF ReplaceOK, Updating
  <2> QED
    BY <1>1, <2>1, <2>2, <2>3, <2>4, ReplaceStays
<1>4. CASE ~InRange(idx[Searcher])
  <2>1. FindOn(Searcher)
    BY <1>4 DEF FindRead
  <2>2. \A i \in DOMAIN records' : i # idx[Searcher]
    BY <1>1, <1>4 DEF InRange
  <2> QED
    BY <1>1, <2>1, <2>2, ApplyFindOn
<1> QED
  BY <1>3, <1>4

LEMMA ApplyFindCheck ==
    ASSUME SelectInv, WorkFrame, Updating, Applying, FindCheck(Searcher)
    PROVE  ReplaceOK'
<1>1. pc[Searcher] = "findCheck" /\ UNCHANGED <<records, table_len, record_refs>>
  BY DEF FindCheck, Running, tableVars
<1>2. Searcher \in Threads /\ pc \in [Threads -> Pcs]
  BY ApplyFacts DEF SelectInv
<1>3. ReplaceOK /\ Distinguished /\ Untouched' \subseteq Untouched
  BY DEF SelectInv, WorkFrame, Updating
<1>4. CASE Held(Searcher) /\ retrieved[Searcher] = CurrentRef(Searcher)
  <2>1. pc'[Searcher] = "cas" /\ UNCHANGED <<idx, ref>>
    BY <1>2, <1>4 DEF FindCheck, Goto
  <2>2. Applying' /\ ~Ended' /\ CurrentRef(Searcher)' = CurrentRef(Searcher)
    BY <1>1, <2>1 DEF Applying, Ended, CurrentRef
  <2>3. \A k \in DOMAIN record_refs[Searcher] :
            k < ref'[Searcher] => record_refs[Searcher][k] \notin Untouched'
    BY <1>3, <2>1 DEF ReplaceOK, Updating
  <2>4. \A i \in DOMAIN records' : records'[i] \in began =>
            /\ i <= table_len'[Searcher]
            /\ i < idx'[Searcher] => records'[i] # CurrentRef(Searcher)'
    BY <1>1, <1>3, <2>1, <2>2 DEF ReplaceOK, Updating
  <2> QED
    BY <1>1, <2>1, <2>2, <2>3, <2>4, ReplaceStays
<1>5. CASE ~(Held(Searcher) /\ retrieved[Searcher] = CurrentRef(Searcher))
  <2>1. FindOn(Searcher)
    BY <1>5 DEF FindCheck
  <2>2. ASSUME NEW i \in DOMAIN records', i = idx[Searcher], records'[i] \in began
        PROVE  records'[i] # CurrentRef(Searcher)
    <3>1. retrieved[Searcher] = records[i]
      BY <1>1, <1>3, <2>2 DEF ReplaceOK, Updating
    <3>2. Held(Searcher)
      BY <1>1, <2>2, <3>1 DEF Held, InRange
    <3> QED
      BY <1>1, <1>5, <3>1, <3>2
  <2> QED
    BY <1>1, <2>1, <2>2, ApplyFindOn
<1> QED
  BY <1>4, <1>5

\* The cas replaces the row, or finds that somebody else has.
LEMMA ApplyUpdateSlot ==
    ASSUME SelectInv, WorkFrame, Updating, Applying, UpdateSlot(Searcher)
    PROVE  ReplaceOK'
<1>1. pc[Searcher] = "cas" /\ FindOn(Searcher) /\ UNCHANGED <<table_len, record_refs>>
  BY DEF UpdateSlot, Running
<1>2. ASSUME NEW i \in DOMAIN records', i = idx[Searcher], records'[i] \in began
      PROVE  records'[i] # CurrentRef(Searcher)
  <2>1. i \in DOMAIN records /\ records[i] = records'[i]
    BY <1>2 DEF WorkFrame
  <2>2. CASE CasHits(Searcher)
    <3>1. records'[i] = Len(versions) + 1
      BY <1>2, <2>1, <2>2 DEF UpdateSlot
    <3>2. records'[i] \in 1 .. Len(versions) /\ Len(versions) \in Nat
      BY <1>2, SearchFacts DEF SelectInv, SearchInv, SearchTypeOK
    <3> QED
      BY <3>1, <3>2
  <2>3. CASE ~CasHits(Searcher)
    BY <1>2, <2>1, <2>3 DEF CasHits, InRange
  <2> QED
    BY <2>2, <2>3
<1> QED
  BY <1>1, <1>2, ApplyFindOn

LEMMA ApplySelects ==
    ASSUME SelectInv, WorkFrame, stage = "over", Acts(Searcher), RowsInv'
    PROVE  ReplaceOK'
<1>1. UNCHANGED <<command, stage>> /\ AllValues' = AllValues
  BY DEF WorkFrame
<1>2. CASE ~Updating
  BY <1>1, <1>2 DEF Updating, ReplaceOK
<1>3. CASE Updating /\ ~(Applying \/ Ended)
  <2>1. Distinguished
    BY <1>3 DEF Updating, WorkFrame
  <2>2. pc[Searcher] = "idle"
    BY <1>3, <2>1 DEF SelectInv, ReplaceOK, Updating, Applying, Ended
  <2> QED
    BY <2>2, SearcherWaits
<1>4. CASE Updating /\ (Applying \/ Ended)
  <2>1. \/ ReadSize(Searcher) \/ FindRead(Searcher) \/ FindCheck(Searcher)
        \/ UpdateSlot(Searcher) \/ Return(Searcher)
    BY <1>4, ApplySteps DEF SelectInv
  <2>2. CASE Return(Searcher)
    <3>1. pc'[Searcher] = "idle"
      BY <2>2, ApplyFacts DEF Return, Goto, SelectInv
    <3> QED
      BY <3>1 DEF ReplaceOK, Applying
  <2>3. CASE ~Return(Searcher)
    <3>1. Applying
      BY <2>1, <2>3 DEF ReadSize, FindRead, FindCheck, UpdateSlot, Running, Applying
    <3> QED
      BY <1>4, <2>1, <2>3, <3>1, ApplyReadSize, ApplyFindRead, ApplyFindCheck,
         ApplyUpdateSlot
  <2> QED
    BY <2>2, <2>3
<1> QED
  BY <1>2, <1>3, <1>4

LEMMA WorkerSelects ==
    ASSUME NoDeletes, SelectInv, WorkerStep
    PROVE  SelectInv'
<1>1. PICK t \in Threads : Acts(t)
  BY NextActs DEF WorkerStep
<1>2. /\ WorkFrame /\ SearchInv' /\ RowsInv' /\ TreeOK' /\ OthersAlone(t)
      /\ Searching => t # Searcher /\ window' = window \cup Live'
  BY <1>1, WorkFrameHolds
<1>3. WindowOK'
  BY <1>2, WindowStays DEF SelectInv
<1>4. CASE Searching
  BY <1>1, <1>2, <1>3, <1>4, BesideSearch DEF SelectInv, Progress
<1>5. CASE ~Searching
  <2>1. UntouchedOK' /\ Progress'
    BY <1>2, <1>5, NotSearching
  <2>2. ReplaceOK'
    <3>1. CASE stage = "over"
      BY <1>1, <1>2, <3>1, BesideReplace, ApplySelects
    <3>2. CASE stage # "over"
      BY <1>2, <3>2 DEF WorkFrame, ReplaceOK
    <3> QED
      BY <3>1, <3>2
  <2> QED
    BY <1>2, <1>3, <2>1, <2>2 DEF SelectInv, Progress
<1> QED
  BY <1>4, <1>5
-----------------------------------------------------------------------------
(* The theorems about what a statement selects and replaces.               *)

LEMMA SelectInit == SearchInit => SelectInv
<1> SUFFICES ASSUME SearchInit PROVE SelectInv
  OBVIOUS
<1>1. SearchInv /\ DistinctInv /\ Searcher \in Threads
  BY TypedInit, InitDistinct, SearcherAssumption DEF SearchInit
<1>2. /\ Init /\ command = NoCommand /\ nodes = <<>> /\ stage = "idle" /\ leaf = 1
      /\ hits = {} /\ joined = {} /\ entry = TRUE /\ began = {} /\ window = {}
  BY DEF SearchInit
<1>3. NoNulls
  <2>1. Len(Preloaded) \in Nat /\ DOMAIN Preloaded = 1 .. Len(Preloaded)
    BY PreloadedAssumption
  <2> QED
    BY <1>2, <2>1 DEF Init, NoNulls, NoVersion
<1>4. RowsInv
  BY <1>1, <1>2, <1>3 DEF RowsInv, Init, NoStatement
<1>5. TreeOK
  <2>1. Len(<<>>) = 0 /\ DOMAIN <<>> = {}
    OBVIOUS
  <2> QED
    BY <1>2, <2>1 DEF TreeOK, NoCommand
<1>6. WindowOK
  BY <1>2 DEF WindowOK
<1>7. UntouchedOK /\ PlaceOK /\ HitsOK /\ BehindOK /\ SeenOK /\ JoinedOK /\ ReplaceOK
  BY <1>2 DEF Searching, Reading, UntouchedOK, PlaceOK, HitsOK, BehindOK, SeenOK, JoinedOK,
              ReplaceOK
<1> QED
  BY <1>1, <1>4, <1>5, <1>6, <1>7 DEF SelectInv

LEMMA SelectStutter ==
    ASSUME SelectInv, UNCHANGED allVars
    PROVE  SelectInv'
<1>1. /\ UNCHANGED <<records, versions, record_counter, pc, request, table_len, idx,
                     retrieved, record_refs, ref>>
      /\ UNCHANGED <<command, nodes, stage, leaf, hits, joined, entry, began, window>>
      /\ UNCHANGED vars
  BY DEF allVars, vars, searchVars, tableVars, scanVars
<1>2. SearchInv'
  BY TypedStutter DEF SelectInv
<1>3. RowsInv'
  <2>1. DistinctInv'
    BY <1>1, DistinctStutter DEF SelectInv, RowsInv
  <2> QED
    BY <1>1, <2>1 DEF SelectInv, RowsInv, NoNulls
<1>4. /\ Live' = Live /\ Untouched' = Untouched /\ Selected' = Selected /\ Refs' = Refs
      /\ AllValues' = AllValues /\ Distinguished' = Distinguished
      /\ Searching' = Searching /\ Reading' = Reading /\ Applying' = Applying
  BY <1>1 DEF Live, Untouched, Selected, Refs, AllValues, Distinguished, IdOf, Searching,
              Reading, Applying
<1>5. \A row : Truth(row)' = Truth(row) /\ Holds(row)' = Holds(row)
  BY <1>1 DEF Truth, Holds
<1>6. TreeOK' /\ WindowOK' /\ PlaceOK'
  BY <1>1, <1>4 DEF SelectInv, TreeOK, WindowOK, PlaceOK, Pending, Origin
<1>7. UntouchedOK' /\ HitsOK' /\ BehindOK' /\ SeenOK'
  BY <1>1, <1>4 DEF SelectInv, UntouchedOK, HitsOK, BehindOK, SeenOK, Origin
<1>8. JoinedOK'
  BY <1>1, <1>4, <1>5 DEF SelectInv, JoinedOK, Id, IdOf
<1>9. ReplaceOK'
  BY <1>1, <1>4, <1>5 DEF SelectInv, ReplaceOK, CurrentRef
<1> QED
  BY <1>2, <1>3, <1>6, <1>7, <1>8, <1>9 DEF SelectInv

LEMMA SelectStep ==
    ASSUME NoDeletes, SelectInv, [SearchNext]_allVars
    PROVE  SelectInv'
<1>1. CASE SearchStep
  BY <1>1, ReadStepSelects, FinishSelects DEF SearchStep, ReadStep
<1> QED
  BY <1>1, ParseSelects, WorkerSelects, SelectStutter DEF SearchNext

LEMMA SelectAlways == ASSUME NoDeletes PROVE SearchSpec => []SelectInv
<1>1. SelectInv /\ [SearchNext]_allVars => SelectInv'
  BY SelectStep
<1> QED
  BY <1>1, SelectInit, PTL DEF SearchSpec

\* A search that has finished has the result of its whole tree.
LEMMA WholeTree ==
    ASSUME SelectInv, Finished, Distinguished
    PROVE  /\ \A g, h \in joined : Id(g) = Id(h) => g = h
           /\ \A h \in joined : h[2] \in window
           /\ \A v \in Selected \cap Live : Holds(versions[v].data)
           /\ \A v \in Untouched : Holds(versions[v].data) => v \in Selected
<1>1. AllValues /\ Searching /\ stage = "leaf" /\ leaf > Len(nodes)
  BY DEF Finished, Searching
<1>2. leaf \in 1 .. Len(nodes) + 1 /\ Len(nodes) >= 1 /\ Len(nodes) \in Nat
  BY <1>1 DEF SelectInv, PlaceOK, TreeOK, SearchInv
<1>3. leaf > 1 /\ leaf - 1 = Len(nodes)
  BY <1>1, <1>2
<1>4. \A h \in joined : h[2] \in window
  BY <1>1 DEF SelectInv, HitsOK
<1> QED
  BY <1>1, <1>3, <1>4 DEF SelectInv, JoinedOK, Holds

\* However many threads insert and update beside it, and whatever condition of
\* values it has, a search selects every row that met its condition and that
\* nobody touched from the parse to the last join.
THEOREM UntouchedSelected ==
    ASSUME NoDeletes PROVE SearchSpec => []UntouchedRowsSelected
<1>1. SelectInv => UntouchedRowsSelected
  BY WholeTree DEF UntouchedRowsSelected, Untouched
<1> QED
  BY <1>1, SelectAlways, PTL

\* ... and what it selected and is still in the table meets the whole condition,
\* though every comparison was evaluated at another time.
THEOREM SelectedMeetCondition ==
    ASSUME NoDeletes PROVE SearchSpec => []SelectedRowsMeetCondition
<1>1. SelectInv => SelectedRowsMeetCondition
  BY WholeTree DEF SelectedRowsMeetCondition
<1> QED
  BY <1>1, SelectAlways, PTL

\* ... and no row twice, in one version or in two, where updates keep the ids.
THEOREM SelectedOnce ==
    ASSUME NoDeletes PROVE SearchSpec => []RowsSelectedOnce
<1>1. SelectInv => RowsSelectedOnce
  <2> SUFFICES ASSUME SelectInv, Finished, IdsSteady, NEW g \in joined, NEW h \in joined,
                      versions[g[2]].origin = versions[h[2]].origin
               PROVE  g = h
    BY DEF RowsSelectedOnce
  <2>1. Distinguished
    BY DEF IdsSteady, Distinguished
  <2>2. g[2] \in window /\ h[2] \in window
    BY <2>1, WholeTree
  <2>3. Id(g) = Id(h)
    BY <2>2 DEF IdsSteady, Id
  <2> QED
    BY <2>1, <2>3, WholeTree
<1> QED
  BY <1>1, SelectAlways, PTL

\* When an UPDATE has applied its references, no row that met its condition is
\* left as it was when the statement was parsed.
THEOREM SelectedReplaced ==
    ASSUME NoDeletes PROVE SearchSpec => []SelectedRowsReplaced
<1>1. SelectInv => SelectedRowsReplaced
  BY DEF SelectInv, ReplaceOK, SelectedRowsReplaced, Untouched
<1> QED
  BY <1>1, SelectAlways, PTL
=============================================================================
