-------------------------- MODULE ResultWireProofs --------------------------
(***************************************************************************)
(* Proofs about ResultWire for any table, any statements, any records and  *)
(* any number of calls: type correctness, that the client and the server   *)
(* agree on where a packet begins, and that the cursor shows the records   *)
(* and the columns the text asks for.                                      *)
(***************************************************************************)
EXTENDS ResultWire, RecursionProofs, SequenceTheorems

\* STRING, with the literals of the model, which the provers know nothing of.
Text == STRING \cup {"", "SUCCESS", "FAILURE_SYNTAX"}

Item == [column: Text, as: Text]

QueryType == [source_columns: Seq(DOMAIN Columns), output_columns: Seq(Text)]

\* Query q has the columns that the items of sequence e ask for.
Fits(q, e) ==
    /\ q \in QueryType /\ e \in Seq(Item)
    /\ Len(q.source_columns) = Len(e) /\ Len(q.output_columns) = Len(e)
    /\ \A i \in 1 .. Len(e) :
          /\ q.output_columns[i] = OutputName(e[i])
          /\ e[i].column \in Range(Columns) => Columns[q.source_columns[i]] = e[i].column

LEMMA ColumnsType ==
    /\ Len(Columns) \in Nat /\ DOMAIN Columns = 1 .. Len(Columns)
    /\ Columns \in Seq(Text) /\ \A c \in DOMAIN Columns : Columns[c] \in Text
<1>1. Columns \in Seq(STRING)
  BY ResultsAssumption
<1>2. STRING \subseteq Text
  BY DEF Text
<1>3. \A S, T : S \subseteq T => \A s \in Seq(S) : s \in Seq(T)
  OBVIOUS
<1>4. Columns \in Seq(Text)
  BY ONLY <1>1, <1>2, <1>3
<1> QED
  BY ONLY <1>4

LEMMA FitsNothing == Fits(EmptyQuery, <<>>)
BY DEF Fits, EmptyQuery, QueryType

\* What * stands for.
Star == [c \in DOMAIN Columns |-> [column |-> Columns[c], as |-> ""]]

LEMMA StarType ==
    /\ Star \in Seq(Item) /\ Len(Star) = Len(Columns)
    /\ \A c \in DOMAIN Columns : Star[c] = [column |-> Columns[c], as |-> ""]
<1> DEFINE m == Len(Columns)
<1>1. m \in Nat /\ DOMAIN Columns = 1 .. m /\ \A c \in 1 .. m : Columns[c] \in Text
  BY ColumnsType
<1>2. \A c \in 1 .. m : [column |-> Columns[c], as |-> ""] \in Item
  <2>1. \A name \in Text : [column |-> name, as |-> ""] \in Item
    BY DEF Item, Text
  <2> QED
    BY <1>1, <2>1
<1>3. Star = [c \in 1 .. m |-> [column |-> Columns[c], as |-> ""]]
  BY <1>1 DEF Star
<1> HIDE DEF m
<1>4. \A c \in 1 .. m : Star[c] = [column |-> Columns[c], as |-> ""] /\ Star[c] \in Item
  BY ONLY <1>2, <1>3
<1>5. Star = [c \in 1 .. m |-> Star[c]]
  BY ONLY <1>3
<1>6. Star \in Seq(Item) /\ Len(Star) = m
  <2>1. m \in Nat
    BY <1>1
  <2>2. Star \in [1 .. m -> Item]
    BY ONLY <1>4, <1>5
  <2> QED
    BY ONLY <2>1, <2>2, FunctionIsSeq
<1> QED
  BY <1>1, <1>4, <1>6 DEF m

LEMMA FitsStar ==
    ASSUME NEW q, NEW e, Fits(q, e)
    PROVE  Fits(AddSelectAllColumns(q), e \o Star)
<1> DEFINE n == Len(e)
           m == Len(Columns)
           p == AddSelectAllColumns(q)
           s == q.source_columns
           o == q.output_columns
<1>1. /\ s \in Seq(DOMAIN Columns) /\ o \in Seq(Text) /\ e \in Seq(Item)
      /\ Len(s) = n /\ Len(o) = n /\ n \in Nat /\ Len(e) = n
  BY DEF Fits, QueryType
<1>2. /\ m \in Nat /\ DOMAIN Columns = 1 .. m /\ Columns \in Seq(Text)
      /\ Len(Columns) = m /\ \A c \in 1 .. m : Columns[c] \in Text
  BY ColumnsType
<1>3. /\ Star \in Seq(Item) /\ Len(Star) = m
      /\ \A c \in 1 .. m : Star[c] = [column |-> Columns[c], as |-> ""]
  BY <1>2, StarType
<1> DEFINE id == [i \in DOMAIN Columns |-> i]
<1>4. id \in Seq(DOMAIN Columns) /\ Len(id) = m /\ \A c \in 1 .. m : id[c] = c
  BY <1>2
<1>5. p = [source_columns |-> s \o id, output_columns |-> o \o Columns]
  BY DEF AddSelectAllColumns
<1> HIDE DEF p, s, o, n, m, id
<1>6. /\ s \o id \in Seq(DOMAIN Columns) /\ o \o Columns \in Seq(Text)
      /\ e \o Star \in Seq(Item)
      /\ Len(s \o id) = n + m /\ Len(o \o Columns) = n + m /\ Len(e \o Star) = n + m
      /\ \A i \in 1 .. n + m :
            /\ (s \o id)[i] = IF i <= n THEN s[i] ELSE id[i - n]
            /\ (o \o Columns)[i] = IF i <= n THEN o[i] ELSE Columns[i - n]
            /\ (e \o Star)[i] = IF i <= n THEN e[i] ELSE Star[i - n]
  <2>1. /\ s \o id \in Seq(DOMAIN Columns) /\ Len(s \o id) = n + m
        /\ \A i \in 1 .. n + m : (s \o id)[i] = IF i <= n THEN s[i] ELSE id[i - n]
    <3>1. PICK C : C = DOMAIN Columns
      OBVIOUS
    <3>2. s \in Seq(C) /\ id \in Seq(C) /\ Len(s) = n /\ Len(id) = m
      BY ONLY <1>1, <1>4, <3>1
    <3>3. s \o id \in Seq(C) /\ Len(s \o id) = n + m
      BY ONLY <3>2
    <3>4. \A i \in 1 .. n + m : (s \o id)[i] = IF i <= n THEN s[i] ELSE id[i - n]
      BY ONLY <3>2
    <3> QED
      BY ONLY <3>1, <3>3, <3>4
  <2>2. /\ o \o Columns \in Seq(Text) /\ Len(o \o Columns) = n + m
        /\ \A i \in 1 .. n + m :
              (o \o Columns)[i] = IF i <= n THEN o[i] ELSE Columns[i - n]
    <3>1. o \in Seq(Text) /\ Columns \in Seq(Text) /\ Len(o) = n /\ Len(Columns) = m
      BY <1>1, <1>2
    <3> QED
      BY ONLY <3>1
  <2>3. /\ e \o Star \in Seq(Item) /\ Len(e \o Star) = n + m
        /\ \A i \in 1 .. n + m : (e \o Star)[i] = IF i <= n THEN e[i] ELSE Star[i - n]
    <3>1. e \in Seq(Item) /\ Star \in Seq(Item) /\ Len(e) = n /\ Len(Star) = m
      BY <1>1, <1>3
    <3> QED
      BY ONLY <3>1
  <2> QED
    BY <2>1, <2>2, <2>3
<1>7. p \in QueryType /\ p.source_columns = s \o id /\ p.output_columns = o \o Columns
  BY <1>5, <1>6 DEF QueryType
<1>8. ASSUME NEW i \in 1 .. n + m
      PROVE  /\ (o \o Columns)[i] = OutputName((e \o Star)[i])
             /\ (e \o Star)[i].column \in Range(Columns) =>
                    Columns[(s \o id)[i]] = (e \o Star)[i].column
  <2>1. CASE i \in 1 .. n
    <3>1. /\ (o \o Columns)[i] = o[i] /\ (e \o Star)[i] = e[i] /\ (s \o id)[i] = s[i]
      BY <1>1, <1>6, <2>1
    <3>2. /\ o[i] = OutputName(e[i])
          /\ e[i].column \in Range(Columns) => Columns[s[i]] = e[i].column
      BY <2>1 DEF Fits, n, s, o
    <3> QED
      BY <3>1, <3>2
  <2>2. CASE i \notin 1 .. n
    <3>1. i - n \in 1 .. m /\ ~(i <= n)
      BY <1>1, <1>2, <2>2
    <3>2. /\ (o \o Columns)[i] = Columns[i - n] /\ (e \o Star)[i] = Star[i - n]
          /\ (s \o id)[i] = id[i - n]
      BY <1>6, <3>1
    <3>3. OutputName(Star[i - n]) = Columns[i - n] /\ Star[i - n].column = Columns[i - n]
      <4>1. Star[i - n] = [column |-> Columns[i - n], as |-> ""]
        BY <1>3, <3>1
      <4>2. ASSUME NEW x, NEW name, x = [column |-> name, as |-> ""]
            PROVE  OutputName(x) = name /\ x.column = name
        BY ONLY <4>2 DEF OutputName
      <4> QED
        BY ONLY <4>1, <4>2
    <3>4. id[i - n] = i - n
      BY <1>4, <3>1
    <3> QED
      BY <3>2, <3>3, <3>4
  <2> QED
    BY <2>1, <2>2
<1>9. Fits(p, e \o Star)
  BY <1>6, <1>7, <1>8 DEF Fits
<1> QED
  BY <1>9 DEF p

LEMMA FitsColumn ==
    ASSUME NEW q, NEW e, Fits(q, e), NEW item \in Item, NEW index \in DOMAIN Columns,
           index \in ColumnIndexes(item.column)
    PROVE  Fits(AddQualifiedSelectColumn(q, item, index), e \o <<item>>)
<1> DEFINE n == Len(e)
           p == AddQualifiedSelectColumn(q, item, index)
           s == q.source_columns
           o == q.output_columns
           name == OutputName(item)
<1>1. /\ s \in Seq(DOMAIN Columns) /\ o \in Seq(Text) /\ e \in Seq(Item)
      /\ Len(s) = n /\ Len(o) = n /\ n \in Nat /\ Len(e) = n
  BY DEF Fits, QueryType
<1>2. name \in Text
  BY DEF OutputName, Item
<1>3. p = [source_columns |-> Append(s, index), output_columns |-> Append(o, name)]
  BY DEF AddQualifiedSelectColumn
<1>4. item.column \in Range(Columns) => Columns[index] = item.column
  BY DEF ColumnIndexes, Range
<1> HIDE DEF p, s, o, n, name
<1>5. /\ Append(s, index) \in Seq(DOMAIN Columns) /\ Append(o, name) \in Seq(Text)
      /\ e \o <<item>> \in Seq(Item)
      /\ Len(Append(s, index)) = n + 1 /\ Len(Append(o, name)) = n + 1
      /\ Len(e \o <<item>>) = n + 1
  BY <1>1, <1>2 DEF n
<1>6. /\ p \in QueryType /\ p.source_columns = Append(s, index)
      /\ p.output_columns = Append(o, name)
  BY <1>3, <1>5 DEF QueryType
<1>7. ASSUME NEW i \in 1 .. n + 1
      PROVE  /\ Append(o, name)[i] = OutputName((e \o <<item>>)[i])
             /\ (e \o <<item>>)[i].column \in Range(Columns) =>
                    Columns[Append(s, index)[i]] = (e \o <<item>>)[i].column
  <2>1. CASE i \in 1 .. n
    <3>1. /\ Append(o, name)[i] = o[i] /\ (e \o <<item>>)[i] = e[i]
          /\ Append(s, index)[i] = s[i]
      BY <1>1, <2>1 DEF n
    <3>2. /\ o[i] = OutputName(e[i])
          /\ e[i].column \in Range(Columns) => Columns[s[i]] = e[i].column
      BY <2>1 DEF Fits, n, s, o
    <3> QED
      BY <3>1, <3>2
  <2>2. CASE i = n + 1
    <3>1. /\ Append(o, name)[i] = name /\ (e \o <<item>>)[i] = item
          /\ Append(s, index)[i] = index
      BY <1>1, <2>2 DEF n
    <3> QED
      BY <1>4, <3>1 DEF name
  <2>3. i \in 1 .. n \/ i = n + 1
    BY <1>1
  <2> QED
    BY <2>1, <2>2, <2>3
<1>8. Fits(p, e \o <<item>>)
  BY <1>5, <1>6, <1>7 DEF Fits
<1> QED
  BY <1>8 DEF p
LEMMA AddedType ==
    ASSUME NEW q \in QueryType
    PROVE  /\ AddSelectAllColumns(q) \in QueryType
           /\ \A item \in Item, index \in DOMAIN Columns :
                 AddQualifiedSelectColumn(q, item, index) \in QueryType
<1>1. q.source_columns \in Seq(DOMAIN Columns) /\ q.output_columns \in Seq(Text)
  BY DEF QueryType
<1>2. [i \in DOMAIN Columns |-> i] \in Seq(DOMAIN Columns) /\ Columns \in Seq(Text)
  BY ColumnsType
<1>3. ASSUME NEW S, NEW a \in Seq(S), NEW b \in Seq(S) PROVE a \o b \in Seq(S)
  BY ONLY <1>3
<1>4. AddSelectAllColumns(q) \in QueryType
  <2>1. /\ q.source_columns \o [i \in DOMAIN Columns |-> i] \in Seq(DOMAIN Columns)
        /\ q.output_columns \o Columns \in Seq(Text)
    BY ONLY <1>1, <1>2, <1>3
  <2> QED
    BY <2>1 DEF AddSelectAllColumns, QueryType
<1>5. ASSUME NEW item \in Item, NEW index \in DOMAIN Columns
      PROVE  AddQualifiedSelectColumn(q, item, index) \in QueryType
  <2>1. OutputName(item) \in Text
    BY DEF OutputName, Item
  <2>2. /\ Append(q.source_columns, index) \in Seq(DOMAIN Columns)
        /\ Append(q.output_columns, OutputName(item)) \in Seq(Text)
    BY <1>1, <2>1
  <2> QED
    BY <2>2 DEF AddQualifiedSelectColumn, QueryType
<1> QED
  BY <1>4, <1>5

\* The grammar's loop over the select list ends with what the text asks for.
LEMMA SelectFits ==
    ASSUME NEW list \in Seq(Item), NEW indexes \in [DOMAIN list -> DOMAIN Columns],
           \A i \in DOMAIN list : indexes[i] \in ColumnIndexes(list[i].column)
    PROVE  Fits(SelectQuery(list, indexes), Expanded(list))
<1> DEFINE n == Len(list)
           all(i) == list[i].column = "*"
           next(x, i) == IF all(i) THEN AddSelectAllColumns(x)
                         ELSE AddQualifiedSelectColumn(x, list[i], indexes[i])
           parts == [i \in DOMAIN list |-> IF all(i) THEN Star ELSE <<list[i]>>]
           P(f) == f = [k \in 0 .. n |-> IF k = 0 THEN EmptyQuery
                                        ELSE IF list[k].column = "*"
                                             THEN AddSelectAllColumns(f[k - 1])
                                             ELSE AddQualifiedSelectColumn(f[k - 1], list[k],
                                                                           indexes[k])]
<1>1. /\ n \in Nat /\ DOMAIN list = 1 .. n
      /\ \A i \in 1 .. n : /\ list[i] \in Item /\ indexes[i] \in DOMAIN Columns
                           /\ indexes[i] \in ColumnIndexes(list[i].column)
  OBVIOUS
<1>2. \A x, i : next(x, i) = IF all(i) THEN AddSelectAllColumns(x)
                             ELSE AddQualifiedSelectColumn(x, list[i], indexes[i])
  OBVIOUS
<1> DEFINE c == CHOOSE f : P(f)
<1>3. SelectQuery(list, indexes) = c[n]
  BY DEF SelectQuery
<1>4. PICK h \in [0 .. n -> QueryType] :
          h[0] = EmptyQuery /\ \A i \in 1 .. n : h[i] = next(h[i - 1], i)
  <2> DEFINE step == [x \in QueryType |-> [i \in 1 .. n |-> next(x, i)]]
  <2>1. EmptyQuery \in QueryType
    BY FitsNothing DEF Fits
  <2>2. ASSUME NEW x \in QueryType, NEW i \in 1 .. n PROVE next(x, i) \in QueryType
    BY <1>1, <1>2, AddedType
  <2> HIDE DEF next
  <2>3. step \in [QueryType -> [1 .. n -> QueryType]]
    BY ONLY <2>2
  <2>4. \A x \in QueryType, i \in 1 .. n : step[x][i] = next(x, i)
    OBVIOUS
  <2> HIDE DEF step, n
  <2>5. HasRecursion(n, QueryType, EmptyQuery, step)
    BY <1>1, <2>1, <2>3, RecursionExists
  <2>6. PICK h \in [0 .. n -> QueryType] :
            h[0] = EmptyQuery /\ \A i \in 1 .. n : h[i] = step[h[i - 1]][i]
    BY ONLY <2>5 DEF HasRecursion
  <2>7. \A i \in 1 .. n : i - 1 \in 0 .. n
    BY <1>1
  <2>8. \A i \in 1 .. n : h[i - 1] \in QueryType
    BY ONLY <2>6, <2>7
  <2>9. \A i \in 1 .. n : h[i] = next(h[i - 1], i)
    BY ONLY <2>4, <2>6, <2>8
  <2> QED
    BY ONLY <2>6, <2>9
<1>5. P(h)
  <2>1. h = [k \in 0 .. n |-> h[k]]
    BY ONLY <1>4
  <2>2. \A k \in 0 .. n : h[k] = IF k = 0 THEN EmptyQuery ELSE next(h[k - 1], k)
    <3>1. \A k \in 0 .. n : k = 0 \/ k \in 1 .. n
      BY <1>1
    <3> HIDE DEF next, n
    <3> QED
      BY ONLY <1>4, <3>1
  <2> QED
    BY <2>1, <2>2
<1>6. P(c)
  <2> HIDE DEF P
  <2> QED
    BY <1>5
<1>7. c[0] = EmptyQuery /\ \A i \in 1 .. n : c[i] = next(c[i - 1], i)
  <2>1. \A k \in 0 .. n : c[k] = IF k = 0 THEN EmptyQuery ELSE next(c[k - 1], k)
    <3> HIDE DEF c
    <3> QED
      BY ONLY <1>6
  <2>2. 0 \in 0 .. n /\ \A i \in 1 .. n : i \in 0 .. n /\ i # 0
    BY <1>1
  <2> HIDE DEF c, next
  <2> QED
    BY ONLY <2>1, <2>2
<1> HIDE DEF c, P
<1>8. parts \in Seq(Seq(Item)) /\ Len(parts) = n
  <2>1. Star \in Seq(Item)
    BY StarType
  <2>2. \A i \in 1 .. n : (IF all(i) THEN Star ELSE <<list[i]>>) \in Seq(Item)
    <3>1. \A i \in 1 .. n : <<list[i]>> \in Seq(Item)
      BY <1>1
    <3> QED
      BY <2>1, <3>1
  <2> HIDE DEF all
  <2>3. parts = [i \in 1 .. n |-> IF all(i) THEN Star ELSE <<list[i]>>]
    BY <1>1
  <2> HIDE DEF parts, n
  <2>4. \A i \in 1 .. n : parts[i] \in Seq(Item)
    BY ONLY <2>2, <2>3
  <2>5. parts = [i \in 1 .. n |-> parts[i]]
    BY ONLY <2>3
  <2>6. n \in Nat
    BY <1>1
  <2>7. parts \in [1 .. n -> Seq(Item)]
    BY ONLY <2>4, <2>5
  <2> QED
    BY ONLY <2>6, <2>7, FunctionIsSeq
<1>9. Expanded(list) = FlattenSeq(parts)
  BY DEF Expanded, Star
<1>10. \A i \in 1 .. n : parts[i] = IF all(i) THEN Star ELSE <<list[i]>>
  BY <1>1
<1>11. PICK g \in [0 .. n -> Seq(Item)] :
          /\ g[0] = <<>> /\ FlattenSeq(parts) = g[n]
          /\ \A i \in 1 .. n : g[i] = g[i - 1] \o parts[i]
  <2> HIDE DEF parts, n
  <2>1. PICK g \in [0 .. Len(parts) -> Seq(Item)] :
            /\ g[0] = <<>> /\ FlattenSeq(parts) = g[Len(parts)]
            /\ \A i \in 1 .. Len(parts) : g[i] = g[i - 1] \o parts[i]
    BY ONLY <1>8, FlattenByParts
  <2> QED
    BY ONLY <1>8, <2>1
<1> DEFINE Q == {k \in 0 .. n : Fits(c[k], g[k])}
<1>12. 0 \in Q
  BY <1>1, <1>7, <1>11, FitsNothing
<1>13. ASSUME NEW i \in 1 .. n, i - 1 \in Q PROVE i \in Q
  <2>1. Fits(c[i - 1], g[i - 1]) /\ i \in 0 .. n
    BY <1>1, <1>13
  <2>2. c[i] = next(c[i - 1], i) /\ g[i] = g[i - 1] \o parts[i]
    BY ONLY <1>7, <1>11
  <2> HIDE DEF next, parts
  <2>3. CASE all(i)
    <3>1. next(c[i - 1], i) = AddSelectAllColumns(c[i - 1]) /\ parts[i] = Star
      BY <1>2, <1>10, <2>3
    <3>2. c[i] = AddSelectAllColumns(c[i - 1]) /\ g[i] = g[i - 1] \o Star
      BY ONLY <2>2, <3>1
    <3>3. Fits(AddSelectAllColumns(c[i - 1]), g[i - 1] \o Star)
      BY ONLY <2>1, FitsStar
    <3>4. Fits(c[i], g[i])
      BY ONLY <3>2, <3>3
    <3> QED
      BY <2>1, <3>4
  <2>4. CASE ~all(i)
    <3>1. /\ next(c[i - 1], i) = AddQualifiedSelectColumn(c[i - 1], list[i], indexes[i])
          /\ parts[i] = <<list[i]>>
      BY <1>2, <1>10, <2>4
    <3>2. /\ list[i] \in Item /\ indexes[i] \in DOMAIN Columns
          /\ indexes[i] \in ColumnIndexes(list[i].column)
      BY <1>1
    <3>3. Fits(AddQualifiedSelectColumn(c[i - 1], list[i], indexes[i]),
               g[i - 1] \o <<list[i]>>)
      BY <2>1, <3>2, FitsColumn
    <3> QED
      BY <2>1, <2>2, <3>1, <3>3
  <2> QED
    BY <2>3, <2>4
<1>14. Q \in SUBSET (0 .. n)
  OBVIOUS
<1> HIDE DEF Q
<1>15. Q = 0 .. n
  BY <1>1, <1>12, <1>13, <1>14, ByPosition
<1>16. Fits(c[n], g[n])
  BY <1>1, <1>15 DEF Q
<1> QED
  BY <1>3, <1>9, <1>11, <1>16

-----------------------------------------------------------------------------
(* Answers, and the packets they go out in.                                *)

ColumnType == [name: Text, type: DataTypes]

\* A query's rows have a word for every column.
QueryAnswer(a) ==
    /\ a.type = "QUERY" /\ a.status \in Text
    /\ a.metadata \in Seq(ColumnType)
    /\ a.data \in Seq(Seq(StoredWord))
    /\ \A r \in 1 .. Len(a.data) : Len(a.data[r]) = Len(a.metadata)

CommandAnswer(a) == a.type = "COMMAND" /\ a.status \in Text /\ a.rows_affected \in Nat

AnswerOK(a) == QueryAnswer(a) \/ CommandAnswer(a)

Cell ==
    [kind: {"metadata"}, of: Nat, status: Text,
     resultPacketSize: {b \in Nat : b >= HeaderSize}]
    \cup [kind: {"columns"}, of: Nat, columns: Seq(ColumnType)]
    \cup [kind: {"result"}, of: Nat, status: Text, rowLen: Nat, resultSize: Nat]
    \cup [kind: {"data"}, of: Nat, word: Word]

LEMMA WordsType ==
    ASSUME NEW a, AnswerOK(a)
    PROVE  Words(a) \in Seq(StoredWord) /\ Len(Words(a)) \in Nat
<1>1. CASE QueryAnswer(a)
  <2>1. Words(a) = FlattenSeq(a.data) /\ a.data \in Seq(Seq(StoredWord))
    BY <1>1 DEF QueryAnswer, Words
  <2>2. FlattenSeq(a.data) \in Seq(StoredWord)
    BY ONLY <2>1, FlattenSeqs
  <2> QED
    BY <2>1, <2>2
<1>2. CASE CommandAnswer(a)
  BY <1>2 DEF CommandAnswer, Words
<1> QED
  BY <1>1, <1>2 DEF AnswerOK

LEMMA ClearedType ==
    ASSUME NEW w \in StoredWord
    PROVE  ClearStatus(w) \in Word /\ ClearStatus(w).value = w.value
BY DEF ClearStatus, StoredWord, Word

\* The packet of a result: its header, and a cell for each word.
ResultCells(a) ==
    /\ ResultPacket(a) \in Seq(Cell)
    /\ Len(ResultPacket(a)) = Len(Words(a)) + 1
    /\ Len(ResultPacket(a)) = Cells(ResultPacketSize(a))
    /\ ResultPacket(a)[1] =
          [kind |-> "result", of |-> calls, status |-> a.status,
           rowLen |-> IF a.type = "QUERY" THEN Len(a.metadata) ELSE 0,
           resultSize |-> ResultSize(a)]
    /\ \A k \in 1 .. Len(Words(a)) :
          ResultPacket(a)[k + 1] =
              [kind |-> "data", of |-> calls, word |-> ClearStatus(Words(a)[k])]

LEMMA ResultPacketCells ==
    ASSUME NEW a, AnswerOK(a), calls \in Nat
    PROVE  ResultCells(a)
<1> DEFINE n == Len(Words(a))
           cell(k) == [kind |-> "data", of |-> calls, word |-> ClearStatus(Words(a)[k])]
           tail == [k \in DOMAIN Words(a) |-> cell(k)]
           head == [kind |-> "result", of |-> calls, status |-> a.status,
                    rowLen |-> IF a.type = "QUERY" THEN Len(a.metadata) ELSE 0,
                    resultSize |-> ResultSize(a)]
<1>1. Words(a) \in Seq(StoredWord) /\ n \in Nat /\ DOMAIN Words(a) = 1 .. n
  BY WordsType
<1>2. /\ a.status \in Text
      /\ (IF a.type = "QUERY" THEN Len(a.metadata) ELSE 0) \in Nat
      /\ ResultSize(a) \in Nat
      /\ Cells(ResultPacketSize(a)) = n + 1
  <2>1. CASE QueryAnswer(a)
    <3>1. ResultSize(a) = 8 * n /\ ResultPacketSize(a) = 9 + 8 * n + 1
      BY <2>1 DEF QueryAnswer, ResultSize, ResultPacketSize, WordSize
    <3>2. Cells(9 + 8 * n + 1) = n + 1
      BY <1>1 DEF Cells, HeaderSize, WordSize
    <3> QED
      BY <1>1, <2>1, <3>1, <3>2 DEF QueryAnswer
  <2>2. CASE CommandAnswer(a)
    <3>1. n = 0 /\ ResultPacketSize(a) = 10 /\ ResultSize(a) = a.rows_affected
      BY <2>2 DEF CommandAnswer, ResultPacketSize, ResultSize, Words
    <3>2. Cells(10) = 1
      BY DEF Cells, HeaderSize, WordSize
    <3> QED
      BY <2>2, <3>1, <3>2 DEF CommandAnswer
  <2> QED
    BY <2>1, <2>2 DEF AnswerOK
<1>3. head \in Cell
  BY <1>2 DEF Cell
<1>4. ASSUME NEW k \in 1 .. n PROVE cell(k) \in Cell
  <2>1. ClearStatus(Words(a)[k]) \in Word
    BY <1>1, ClearedType
  <2> QED
    BY <2>1 DEF Cell
<1> HIDE DEF cell, n
<1>5. tail \in [1 .. n -> Cell] /\ \A k \in 1 .. n : tail[k] = cell(k)
  BY <1>1, <1>4
<1>6. ResultPacket(a) = <<head>> \o tail
  BY DEF ResultPacket, cell
<1> HIDE DEF head, tail
<1>7. tail \in Seq(Cell) /\ Len(tail) = n
  BY <1>1, <1>5, FunctionIsSeq
<1>8. <<head>> \in Seq(Cell) /\ Len(<<head>>) = 1 /\ <<head>>[1] = head
  BY <1>3
<1>9. <<head>> \o tail \in Seq(Cell) /\ Behind(<<head>>, 1, tail, n)
  <2>1. n \in Nat /\ 1 \in Nat
    BY <1>1
  <2> QED
    BY ONLY <1>7, <1>8, <2>1, ConcatParts
<1>10. /\ Len(<<head>> \o tail) = 1 + n /\ (<<head>> \o tail)[1] = head
       /\ \A k \in 1 .. n : (<<head>> \o tail)[1 + k] = tail[k]
  <2>1. /\ Len(<<head>> \o tail) = 1 + n
        /\ \A k \in 1 .. 1 : (<<head>> \o tail)[k] = <<head>>[k]
        /\ \A k \in 1 .. n : (<<head>> \o tail)[1 + k] = tail[k]
    BY ONLY <1>9 DEF Behind
  <2>2. 1 \in 1 .. 1
    OBVIOUS
  <2>3. (<<head>> \o tail)[1] = <<head>>[1]
    BY ONLY <2>1, <2>2
  <2>4. <<head>>[1] = head
    BY <1>8
  <2> QED
    BY ONLY <2>1, <2>3, <2>4
<1>11. \A k \in 1 .. n : k + 1 = 1 + k
  BY <1>1
<1>12. /\ Len(ResultPacket(a)) = n + 1 /\ ResultPacket(a)[1] = head
       /\ \A k \in 1 .. n : ResultPacket(a)[k + 1] = cell(k)
  BY <1>1, <1>5, <1>6, <1>10, <1>11
<1> QED
  BY <1>2, <1>6, <1>9, <1>12 DEF ResultCells, head, cell, n

\* The packet of its metadata, in which the client finds the size of the other.
MetaDataCells(a) ==
    /\ MetaDataPacket(a) \in Seq(Cell)
    /\ Len(MetaDataPacket(a)) = MetaSize
    /\ MetaDataPacket(a)[1] =
          [kind |-> "metadata", of |-> calls, status |-> a.status,
           resultPacketSize |-> ResultPacketSize(a)]
    /\ MetaDataPacket(a)[2] =
          [kind |-> "columns", of |-> calls,
           columns |-> IF a.type = "QUERY" THEN a.metadata ELSE <<>>]

LEMMA MetaDataPacketCells ==
    ASSUME NEW a, AnswerOK(a), calls \in Nat
    PROVE  MetaDataCells(a)
<1> DEFINE head == [kind |-> "metadata", of |-> calls, status |-> a.status,
                    resultPacketSize |-> ResultPacketSize(a)]
           columns == [kind |-> "columns", of |-> calls,
                       columns |-> IF a.type = "QUERY" THEN a.metadata ELSE <<>>]
<1>1. /\ a.status \in Text
      /\ ResultPacketSize(a) \in Nat /\ ResultPacketSize(a) >= HeaderSize
  <2>1. CASE QueryAnswer(a)
    <3>1. ResultPacketSize(a) = 9 + 8 * Len(Words(a)) + 1
      BY <2>1 DEF QueryAnswer, ResultSize, ResultPacketSize, WordSize
    <3>2. Len(Words(a)) \in Nat
      BY WordsType
    <3> QED
      BY <2>1, <3>1, <3>2 DEF QueryAnswer, HeaderSize
  <2>2. CASE CommandAnswer(a)
    BY <2>2 DEF CommandAnswer, ResultPacketSize, HeaderSize
  <2> QED
    BY <2>1, <2>2 DEF AnswerOK
<1>2. (IF a.type = "QUERY" THEN a.metadata ELSE <<>>) \in Seq(ColumnType)
  BY DEF AnswerOK, QueryAnswer, CommandAnswer
<1>3. head \in Cell /\ columns \in Cell
  BY <1>1, <1>2 DEF Cell
<1>4. MetaDataPacket(a) = <<head, columns>>
  BY DEF MetaDataPacket
<1> HIDE DEF head, columns
<1>5. /\ <<head, columns>> \in Seq(Cell) /\ Len(<<head, columns>>) = 2
      /\ <<head, columns>>[1] = head /\ <<head, columns>>[2] = columns
  BY <1>3
<1> QED
  BY <1>4, <1>5 DEF MetaDataCells, MetaSize, head, columns

-----------------------------------------------------------------------------
(* What the job answers.                                                   *)

Record == [DOMAIN Columns -> StoredWord]

\* Answer a shows the columns of query q, of the given records.
Shows(a, q, records) ==
    /\ Len(a.metadata) = Len(q.output_columns)
    /\ Len(a.data) = Len(records)
    /\ \A i \in 1 .. Len(a.metadata) : a.metadata[i].name = q.output_columns[i]
    /\ \A r \in 1 .. Len(records) : \A i \in 1 .. Len(a.metadata) :
          a.data[r][i] = records[r][q.source_columns[i]]

LEMMA QueryResultShows ==
    ASSUME NEW q, NEW e, Fits(q, e), NEW records \in Seq(Record)
    PROVE  QueryAnswer(QueryResult(q, records)) /\ Shows(QueryResult(q, records), q, records)
<1> DEFINE a == QueryResult(q, records)
           s == q.source_columns
           o == q.output_columns
           m == Len(o)
           k == Len(records)
           types == ColumnTypes(q, records)
<1>1. /\ s \in Seq(DOMAIN Columns) /\ o \in Seq(Text) /\ Len(s) = m /\ m \in Nat
      /\ DOMAIN s = 1 .. m /\ DOMAIN o = 1 .. m
  <2>1. /\ s \in Seq(DOMAIN Columns) /\ o \in Seq(Text) /\ Len(s) = m
    BY DEF Fits, QueryType
  <2> QED
    BY <2>1
<1>2. \A i \in 1 .. m : s[i] \in DOMAIN Columns /\ o[i] \in Text
  BY <1>1
<1>3. k \in Nat /\ DOMAIN records = 1 .. k /\ \A r \in 1 .. k : records[r] \in Record
  OBVIOUS
<1>4. \A r \in 1 .. k, i \in 1 .. m : records[r][s[i]] \in StoredWord
  BY <1>2, <1>3 DEF Record
<1>5. types \in [1 .. m -> DataTypes]
  <2>1. CASE records = <<>>
    <3>1. types = [i \in 1 .. m |-> "INTEGER"]
      BY <1>1, <2>1 DEF ColumnTypes
    <3> QED
      BY <3>1 DEF DataTypes
  <2>2. CASE records # <<>>
    <3>1. types = [i \in 1 .. m |-> records[1][s[i]].type]
      BY <1>1, <2>2 DEF ColumnTypes
    <3>2. 1 \in 1 .. k
      BY <1>3, <2>2
    <3>3. \A i \in 1 .. m : records[1][s[i]].type \in DataTypes
      BY <1>4, <3>2 DEF StoredWord
    <3> QED
      BY ONLY <3>1, <3>3
  <2> QED
    BY <2>1, <2>2
<1> DEFINE md == [i \in 1 .. m |-> [name |-> o[i], type |-> types[i]]]
           data == [r \in 1 .. k |-> [i \in 1 .. m |-> records[r][s[i]]]]
<1>6. DOMAIN types = 1 .. m
  BY <1>5
<1>7. a = [type |-> "QUERY", status |-> "SUCCESS", metadata |-> md, data |-> data]
  BY <1>1, <1>3, <1>6 DEF QueryResult, Filtered
<1>8. md \in Seq(ColumnType) /\ Len(md) = m
  <2>1. \A i \in 1 .. m : [name |-> o[i], type |-> types[i]] \in ColumnType
    BY <1>2, <1>5 DEF ColumnType
  <2>2. md \in [1 .. m -> ColumnType]
    BY <2>1
  <2>3. m \in Nat
    BY <1>1
  <2> HIDE DEF md, m
  <2> QED
    BY <2>2, <2>3, FunctionIsSeq
<1>9. \A r \in 1 .. k : data[r] \in Seq(StoredWord) /\ Len(data[r]) = m
  <2> SUFFICES ASSUME NEW r \in 1 .. k PROVE data[r] \in Seq(StoredWord) /\ Len(data[r]) = m
    OBVIOUS
  <2>1. data[r] = [i \in 1 .. m |-> records[r][s[i]]]
    OBVIOUS
  <2> HIDE DEF data, m
  <2>2. data[r] \in [1 .. m -> StoredWord]
    BY <1>4, <2>1
  <2>3. m \in Nat
    BY <1>1
  <2> QED
    BY <2>2, <2>3, FunctionIsSeq
<1>10. data \in Seq(Seq(StoredWord)) /\ Len(data) = k
  <2>1. data = [r \in 1 .. k |-> data[r]]
    OBVIOUS
  <2> HIDE DEF data, k
  <2>2. data \in [1 .. k -> Seq(StoredWord)]
    BY <1>9, <2>1
  <2>3. k \in Nat
    BY <1>3
  <2> QED
    BY <2>2, <2>3, FunctionIsSeq
<1>11. \A i \in 1 .. m : md[i].name = o[i]
  OBVIOUS
<1>12. \A r \in 1 .. k : \A i \in 1 .. m : data[r][i] = records[r][s[i]]
  OBVIOUS
<1> HIDE DEF a, md, data
<1>13. /\ a.type = "QUERY" /\ a.status = "SUCCESS" /\ a.metadata = md /\ a.data = data
  BY <1>7
<1>14. QueryAnswer(a)
  BY <1>8, <1>9, <1>10, <1>13 DEF QueryAnswer, Text
<1>15. Shows(a, q, records)
  BY <1>8, <1>10, <1>11, <1>12, <1>13 DEF Shows
<1> QED
  BY <1>14, <1>15 DEF a

\* The answer is one to the statement of the call.
AnswerFits ==
    IF call.statement.type = "SELECT"
    THEN /\ selected \in Seq(Record)
         /\ \E q \in SelectQueries(call.statement.list) : answer = QueryResult(q, selected)
    ELSE CommandAnswer(answer)

\* The select list of a query that may be sent is one of items.
LEMMA ListTyped ==
    ASSUME NEW statement \in Statements, statement.type = "SELECT"
    PROVE  statement.list \in Seq(Item)
<1>1. statement.list \in Seq([column: STRING, as: STRING])
  BY StatementsAssumption
<1> DEFINE R == [column: STRING, as: STRING]
<1>2. R \subseteq Item /\ statement.list \in Seq(R)
  BY <1>1 DEF Item, Text
<1> HIDE DEF R
<1>3. \A S, T : S \subseteq T => \A s \in Seq(S) : s \in Seq(T)
  OBVIOUS
<1> QED
  BY ONLY <1>2, <1>3

\* A query's answer shows the columns its text asks for.
LEMMA AnswerTyped ==
    ASSUME AnswerFits, call.statement \in Statements
    PROVE  /\ AnswerOK(answer)
           /\ answer.type = "QUERY" =>
                 /\ QueryAnswer(answer) /\ call.statement.type = "SELECT"
                 /\ selected \in Seq(Record)
                 /\ \E q : /\ Fits(q, Expanded(call.statement.list))
                           /\ Shows(answer, q, selected)
           /\ answer.type # "QUERY" => CommandAnswer(answer)
<1>1. CASE call.statement.type = "SELECT"
  <2>1. PICK q \in SelectQueries(call.statement.list) : answer = QueryResult(q, selected)
    BY <1>1 DEF AnswerFits
  <2>2. Fits(q, Expanded(call.statement.list))
    BY <1>1, ListTyped, SelectFits DEF SelectQueries
  <2>3. selected \in Seq(Record)
    BY <1>1 DEF AnswerFits
  <2>4. QueryAnswer(answer) /\ Shows(answer, q, selected)
    BY <2>1, <2>2, <2>3, QueryResultShows
  <2>5. answer.type = "QUERY"
    BY <2>4 DEF QueryAnswer
  <2> QED
    BY <1>1, <2>2, <2>3, <2>4, <2>5 DEF AnswerOK
<1>2. CASE call.statement.type # "SELECT"
  BY <1>2 DEF AnswerFits, AnswerOK, CommandAnswer
<1> QED
  BY <1>1, <1>2

LEMMA ExecuteAnswers ==
    ASSUME call \in [function: Functions, statement: Statements], ExecuteStatement
    PROVE  AnswerFits'
<1>1. call' = call
  BY DEF ExecuteStatement, clientVars
<1>2. CASE call.statement.type = "SELECT"
  <2>3. PICK records \in Selections, query \in SelectQueries(call.statement.list) :
            selected' = records /\ answer' = QueryResult(query, records)
    BY <1>2 DEF ExecuteStatement
  <2>4. records \in Seq(Record)
    BY ResultsAssumption DEF Record
  <2> QED
    BY <1>1, <1>2, <2>3, <2>4 DEF AnswerFits
<1>3. CASE call.statement.type # "SELECT"
  <2>1. answer' \in ManipResults \/ answer' = SyntaxError
    BY <1>3 DEF ExecuteStatement
  <2>2. CommandAnswer(answer')
    <3>1. CASE answer' \in ManipResults
      BY <3>1, ResultsAssumption DEF CommandAnswer, Text
    <3>2. CASE answer' = SyntaxError
      BY <3>2 DEF CommandAnswer, SyntaxError, Text
    <3> QED
      BY <2>1, <3>1, <3>2
  <2> QED
    BY <1>1, <1>3, <2>2 DEF AnswerFits, CommandAnswer
<1> QED
  BY <1>2, <1>3

-----------------------------------------------------------------------------
(* What the client reads in a packet.                                      *)

\* Packet p is what it reads in the first n cells of answer a.
ReadFrom(p, a, n) ==
    /\ p.status = a.status /\ p.resultSize = ResultSize(a)
    /\ p.rowLen = IF a.type = "QUERY" THEN Len(a.metadata) ELSE 0
    /\ a.type = "QUERY" =>
          /\ p.data \in Seq(Word) /\ Len(p.data) = Len(Words(a))
          /\ \A k \in 1 .. Len(Words(a)) :
                p.data[k] = IF k + 1 <= n THEN ClearStatus(Words(a)[k]) ELSE Garbage

LEMMA PacketRead ==
    ASSUME NEW a, AnswerOK(a), calls \in Nat, NEW n \in 1 .. Len(ResultPacket(a))
    PROVE  ReadFrom(DeserializeResultPacket(SubSeq(ResultPacket(a), 1, n)), a, n)
<1> DEFINE res == ResultPacket(a)
           got == SubSeq(res, 1, n)
           p == DeserializeResultPacket(got)
           m == Len(Words(a))
<1>1. /\ res \in Seq(Cell) /\ Len(res) = m + 1 /\ m \in Nat /\ Words(a) \in Seq(StoredWord)
      /\ res[1] = [kind |-> "result", of |-> calls, status |-> a.status,
                   rowLen |-> IF a.type = "QUERY" THEN Len(a.metadata) ELSE 0,
                   resultSize |-> ResultSize(a)]
      /\ \A k \in 1 .. m :
            res[k + 1] = [kind |-> "data", of |-> calls, word |-> ClearStatus(Words(a)[k])]
  BY ResultPacketCells, WordsType DEF ResultCells
<1>2. n \in Nat /\ n >= 1 /\ n <= Len(res)
  BY <1>1
<1>3. /\ DOMAIN got = 1 .. n /\ \A k \in 1 .. n : got[k] = res[k]
  <2> HIDE DEF res
  <2> QED
    BY <1>1, <1>2
<1>4. p = [status |-> got[1].status, rowLen |-> got[1].rowLen,
           resultSize |-> got[1].resultSize,
           data |-> [i \in 1 .. got[1].resultSize \div WordSize |->
                        IF i + 1 \in DOMAIN got THEN got[i + 1].word ELSE Garbage]]
  BY DEF DeserializeResultPacket
<1> HIDE DEF res, got, p, m
<1>5. 1 \in 1 .. n
  BY <1>2
<1>6. got[1] = res[1]
  BY <1>3, <1>5
<1>7. /\ got[1].status = a.status /\ got[1].resultSize = ResultSize(a)
      /\ got[1].rowLen = IF a.type = "QUERY" THEN Len(a.metadata) ELSE 0
  BY <1>1, <1>6
<1>8. ASSUME a.type = "QUERY"
      PROVE  /\ p.data \in Seq(Word) /\ Len(p.data) = m
             /\ \A k \in 1 .. m :
                   p.data[k] = IF k + 1 <= n THEN ClearStatus(Words(a)[k]) ELSE Garbage
  <2>1. ResultSize(a) \div WordSize = m
    <3>1. ResultSize(a) = 8 * m
      BY <1>8 DEF ResultSize, WordSize, m
    <3> QED
      BY <1>1, <3>1 DEF WordSize
  <2>2. p.data = [i \in 1 .. m |-> IF i + 1 \in DOMAIN got THEN got[i + 1].word ELSE Garbage]
    BY <1>4, <1>7, <2>1
  <2>3. ASSUME NEW k \in 1 .. m
        PROVE  /\ p.data[k] = IF k + 1 <= n THEN ClearStatus(Words(a)[k]) ELSE Garbage
               /\ p.data[k] \in Word
    <3>1. k \in Nat /\ (k + 1 \in DOMAIN got <=> k + 1 <= n)
      BY <1>1, <1>2, <1>3
    <3>2. ClearStatus(Words(a)[k]) \in Word
      <4>1. Words(a)[k] \in StoredWord
        BY <1>1 DEF m
      <4> QED
        BY <4>1, ClearedType
    <3>3. CASE k + 1 <= n
      <4>1. got[k + 1] = res[k + 1] /\ k + 1 \in DOMAIN got
        BY <1>3, <3>1, <3>3
      <4>2. res[k + 1].word = ClearStatus(Words(a)[k])
        <5>1. res[k + 1] = [kind |-> "data", of |-> calls, word |-> ClearStatus(Words(a)[k])]
          BY <1>1
        <5> QED
          BY ONLY <5>1
      <4>3. p.data[k] = got[k + 1].word
        BY <2>2, <4>1
      <4> QED
        BY <3>2, <3>3, <4>1, <4>2, <4>3
    <3>4. CASE ~(k + 1 <= n)
      <4>1. p.data[k] = Garbage
        BY <2>2, <3>1, <3>4
      <4> QED
        BY <3>4, <4>1 DEF Word
    <3> QED
      BY <3>3, <3>4
  <2>4. p.data \in [1 .. m -> Word]
    BY <2>2, <2>3
  <2>5. p.data \in Seq(Word) /\ Len(p.data) = m
    BY <1>1, <2>4, FunctionIsSeq
  <2> QED
    BY <2>3, <2>5
<1>9. p.status = got[1].status /\ p.rowLen = got[1].rowLen /\ p.resultSize = got[1].resultSize
  BY <1>4
<1>10. ReadFrom(p, a, n)
  BY <1>7, <1>8, <1>9 DEF ReadFrom, m
<1> QED
  BY <1>10 DEF p, got, res

\* A row as the client has it, of a row of the answer.
GivenRow(given, row) ==
    /\ given \in Seq(Word) /\ Len(given) = Len(row)
    /\ \A i \in 1 .. Len(row) : GivenAs(given[i], row[i])

\* The client takes the words apart where the server put the rows together.
RowsOf(given, a) ==
    /\ Len(given) = Len(a.data) + 1
    /\ \A r \in 1 .. Len(a.data) : GivenRow(given[r], a.data[r])

LEMMA RowsParsed ==
    ASSUME NEW a, QueryAnswer(a), Len(a.metadata) >= 1, NEW n \in Nat, NEW p, ReadFrom(p, a, n)
    PROVE  /\ ParseData(p) \in Seq(Seq(Word))
           /\ (n = Len(Words(a)) + 1 \/ fate = "cut") => RowsOf(ParseData(p), a)
<1> DEFINE l == Len(a.metadata)
           k == Len(a.data)
           w == Words(a)
           row(r) == SubSeq(p.data, (r - 1) * l + 1, r * l)
<1>1. /\ l \in Nat /\ k \in Nat /\ l >= 1 /\ a.type = "QUERY" /\ a.data \in Seq(Seq(StoredWord))
      /\ w = FlattenSeq(a.data) /\ \A r \in 1 .. k : Len(a.data[r]) = l
  BY DEF QueryAnswer, Words
<1>2. w \in Seq(StoredWord) /\ FlatRows(a.data, l)
  BY <1>1, FlattenRows
<1>3. /\ Len(w) = k * l
      /\ \A r \in 1 .. k : \A i \in 1 .. l : w[(r - 1) * l + i] = a.data[r][i]
  BY <1>1, <1>2 DEF FlatRows
<1>4. k * l \in Nat
  <2>1. k \in Nat /\ l \in Nat /\ k <= k
    BY <1>1
  <2> QED
    BY ONLY <2>1, ProductMonotonic
<1>5. /\ p.resultSize = 8 * (k * l) /\ p.rowLen = l /\ p.data \in Seq(Word)
      /\ Len(p.data) = k * l
      /\ \A j \in 1 .. k * l : p.data[j] = IF j + 1 <= n THEN ClearStatus(w[j]) ELSE Garbage
  BY <1>1, <1>3 DEF ReadFrom, ResultSize, WordSize
<1> HIDE DEF l, k, w
<1>6. p.resultSize \div (p.rowLen * WordSize) = k
  <2>1. l * 8 \in Nat /\ l * 8 >= 1 /\ 8 * (k * l) = k * (l * 8)
    BY <1>1
  <2>2. (k * (l * 8)) \div (l * 8) = k
    BY <1>1, <2>1, ExactQuotient
  <2> QED
    BY <1>5, <2>1, <2>2 DEF WordSize
<1>7. ASSUME NEW r \in 1 .. k
      PROVE  /\ row(r) \in Seq(Word) /\ Len(row(r)) = l
             /\ \A i \in 1 .. l : row(r)[i] = p.data[(r - 1) * l + i]
  <2>1. r \in Nat /\ r >= 1 /\ r - 1 \in Nat /\ r <= k
    BY <1>1
  <2>2. PICK x, y, z : x = (r - 1) * l /\ y = r * l /\ z = k * l
    OBVIOUS
  <2>3. x \in Nat /\ y \in Nat /\ y <= z /\ x + l = y
    <3>1. x \in Nat
      BY <1>1, <2>1, <2>2, ProductMonotonic
    <3>2. y \in Nat /\ y <= z
      BY <1>1, <2>1, <2>2, ProductMonotonic
    <3>3. x + l = y
      BY <1>1, <2>1, <2>2, ProductStep
    <3> QED
      BY <3>1, <3>2, <3>3
  <2>4. p.data \in Seq(Word) /\ Len(p.data) = z /\ z \in Nat /\ l \in Nat
    BY <1>1, <1>4, <1>5, <2>2
  <2>5. row(r) = SubSeq(p.data, x + 1, y)
    BY <2>2
  <2>6. \A j \in x + 1 .. y : p.data[j] \in Word
    BY ONLY <2>3, <2>4
  <2>7. /\ SubSeq(p.data, x + 1, y) \in Seq(Word)
        /\ Len(SubSeq(p.data, x + 1, y)) = l
        /\ \A i \in 1 .. l : SubSeq(p.data, x + 1, y)[i] = p.data[x + i]
    BY ONLY <2>3, <2>4, <2>6
  <2> QED
    BY <2>2, <2>5, <2>7
<1> DEFINE parts == [r \in 1 .. k |-> row(r)]
<1>8. ParseData(p) = Append(parts, <<>>)
  BY <1>5, <1>6 DEF ParseData, InitRow
<1> HIDE DEF row
<1>9. \A r \in 1 .. k : parts[r] = row(r)
  OBVIOUS
<1>10. parts \in [1 .. k -> Seq(Word)]
  BY <1>7
<1> HIDE DEF parts
<1>11. parts \in Seq(Seq(Word)) /\ Len(parts) = k
  BY <1>1, <1>10, FunctionIsSeq
<1>12. <<>> \in Seq(Word)
  OBVIOUS
<1>13. /\ Append(parts, <<>>) \in Seq(Seq(Word)) /\ Len(Append(parts, <<>>)) = k + 1
       /\ \A r \in 1 .. k : Append(parts, <<>>)[r] = parts[r]
  BY <1>1, <1>11, <1>12
<1>14. ASSUME n = Len(w) + 1 \/ fate = "cut", NEW r \in 1 .. k
       PROVE  GivenRow(row(r), a.data[r])
  <2>1. ASSUME NEW i \in 1 .. l PROVE GivenAs(row(r)[i], a.data[r][i])
    <3>1. PICK j : j = (r - 1) * l + i
      OBVIOUS
    <3>2. j \in 1 .. k * l
      <4>1. r \in Nat /\ r >= 1 /\ r - 1 \in Nat /\ r <= k
        BY <1>1
      <4>2. PICK x, y, z : x = (r - 1) * l /\ y = r * l /\ z = k * l
        OBVIOUS
      <4>3. x \in Nat
        BY <1>1, <4>1, <4>2, ProductMonotonic
      <4>4. y \in Nat /\ z \in Nat /\ y <= z
        BY <1>1, <4>1, <4>2, ProductMonotonic
      <4>5. x + l = y
        BY <1>1, <4>1, <4>2, ProductStep
      <4>6. l \in Nat
        BY <1>1
      <4>7. x + i \in 1 .. z
        BY ONLY <4>3, <4>4, <4>5, <4>6
      <4> QED
        BY <3>1, <4>2, <4>7
    <3>3. row(r)[i] = p.data[j]
      BY <1>7, <3>1
    <3>4. w[j] = a.data[r][i]
      BY <1>3, <3>1
    <3>5. w[j] \in StoredWord
      BY <1>2, <1>3, <3>2
    <3>6. CASE j + 1 <= n
      <4>1. p.data[j] = ClearStatus(w[j])
        BY <1>5, <3>2, <3>6
      <4> QED
        BY <3>3, <3>4, <3>5, <4>1, ClearedType DEF GivenAs
    <3>7. CASE ~(j + 1 <= n)
      <4>1. p.data[j] = Garbage
        BY <1>5, <3>2, <3>7
      <4>2. n # Len(w) + 1
        BY <1>3, <1>4, <3>2, <3>7
      <4> QED
        BY <1>14, <3>3, <4>1, <4>2 DEF GivenAs
    <3> QED
      BY <3>6, <3>7
  <2> QED
    BY <1>1, <1>7, <2>1 DEF GivenRow
<1>15. ASSUME n = Len(w) + 1 \/ fate = "cut" PROVE RowsOf(ParseData(p), a)
  BY <1>8, <1>9, <1>13, <1>14, <1>15 DEF RowsOf, k
<1> QED
  BY <1>8, <1>13, <1>15 DEF w

-----------------------------------------------------------------------------
(* The inductive invariant.                                                *)

TypeInv ==
    /\ at \in {"idle", "metadata", "result", "open", "confused", "dead"}
    /\ serving \in {"nothing", "statement", "metadata", "result"}
    /\ calls \in 0 .. MaxCalls /\ short \in BOOLEAN
    /\ fate \in {"whole", "cut", "dropped"}
    /\ stream \in Seq(Cell) /\ \A i \in 1 .. Len(stream) : stream[i].of \in 1 .. calls
    /\ metadata \in Seq(Cell)
    /\ rows \in Seq(Seq(Word)) /\ seen \in Seq(Seq(Word))
    /\ at = "open" => reply.columns \in Seq(ColumnType)

\* The server answers the call that the client last made.
CallInv ==
    /\ calls = 0 => at = "idle" /\ serving = "nothing" /\ call.function = "none"
    /\ calls > 0 =>
          /\ call \in [function: Functions, statement: Statements]
          /\ serving # "statement" => AnswerFits

\* What the server has sent of a result of which it sent n cells.
Sent(n) ==
    /\ n \in 0 .. Len(ResultPacket(answer))
    /\ n = 0 \/ n = Len(ResultPacket(answer)) \/ fate = "cut"

\* Nothing, or all of the metadata, or all of them and some of the result, or,
\* once the client has read the metadata, some of the result.
InPhase ==
    \/ at \in {"idle", "open", "dead"} /\ serving = "nothing" /\ stream = <<>>
    \/ at = "metadata" /\ serving \in {"statement", "metadata"} /\ stream = <<>>
    \/ at = "metadata" /\ serving = "result" /\ stream = MetaDataPacket(answer)
    \/ /\ at = "metadata" /\ serving = "nothing"
       /\ \E n \in 0 .. Len(ResultPacket(answer)) :
             Sent(n) /\ stream = MetaDataPacket(answer) \o SubSeq(ResultPacket(answer), 1, n)
    \/ /\ at = "result" /\ serving = "result" /\ metadata = MetaDataPacket(answer)
       /\ stream = <<>>
    \/ /\ at = "result" /\ serving = "nothing" /\ metadata = MetaDataPacket(answer)
       /\ \E n \in 0 .. Len(ResultPacket(answer)) :
             Sent(n) /\ stream = SubSeq(ResultPacket(answer), 1, n)

\* After a short read the client next meets a cell that begins no packet.
OutOfStep ==
    \/ at = "confused"
    \/ /\ at = "result" /\ stream # <<>> /\ stream[1].kind = "columns"
       /\ metadata # <<>> /\ metadata[1].kind = "metadata"
    \/ at \in {"idle", "open", "dead", "metadata"} /\ stream # <<>> /\ stream[1].kind = "data"

PhaseInv == InPhase \/ (short /\ OutOfStep)

SeenInv == at \in {"metadata", "result"} => seen = <<>>

\* The rows the cursor has shown, and those it has still to show.
OpenInv ==
    (at = "open" /\ ~short) =>
        /\ answer.type = "QUERY" /\ reply.columns = answer.metadata
        /\ Len(rows) >= 1 /\ Len(rows) + Len(seen) = Len(answer.data) + 1
        /\ \A j \in 1 .. Len(rows) : j <= Len(answer.data) => GivenRow(rows[j], answer.data[j])
        /\ \A k \in 1 .. Len(seen) : GivenRow(seen[k], answer.data[Len(answer.data) + 1 - k])

\* What a command has reported.
ReportInv ==
    (at = "idle" /\ call.function = "executeCommand" /\ answer.type = "COMMAND" /\ ~short) =>
        reply = [status |-> answer.status, numAffected |-> answer.rows_affected]

IInv == TypeInv /\ CallInv /\ PhaseInv /\ SeenInv /\ OpenInv /\ ReportInv

LEMMA IInvInit == Init => IInv
<1> SUFFICES ASSUME Init PROVE IInv
  OBVIOUS
<1>1. TypeInv
  <2>1. \A S : <<>> \in Seq(S)
    OBVIOUS
  <2>2. stream \in Seq(Cell) /\ Len(stream) = 0
    BY <2>1 DEF Init
  <2>3. metadata \in Seq(Cell) /\ rows \in Seq(Seq(Word)) /\ seen \in Seq(Seq(Word))
    BY <2>1 DEF Init
  <2>4. calls \in 0 .. MaxCalls
    BY WireAssumption DEF Init
  <2>5. \A i \in 1 .. Len(stream) : stream[i].of \in 1 .. calls
    BY ONLY <2>2
  <2> QED
    BY ONLY <2>2, <2>3, <2>4, <2>5, Init DEF Init, TypeInv
<1>2. CallInv
  BY DEF Init, CallInv
<1>3. PhaseInv
  BY DEF Init, PhaseInv, InPhase
<1>4. OpenInv
  BY DEF Init, OpenInv
<1>5. ReportInv /\ SeenInv
  BY DEF Init, ReportInv, SeenInv
<1> QED
  BY <1>1, <1>2, <1>3, <1>4, <1>5 DEF IInv

\* What holds of packets that have been made stays true of them.
LEMMA PacketsStay ==
    ASSUME calls' = calls, answer' = answer
    PROVE  /\ MetaDataPacket(answer)' = MetaDataPacket(answer)
           /\ ResultPacket(answer)' = ResultPacket(answer)
BY DEF MetaDataPacket, ResultPacket

LEMMA PhaseStays ==
    ASSUME PhaseInv, UNCHANGED <<at, metadata, calls, short, fate, stream, serving, answer>>
    PROVE  PhaseInv'
<1>1. InPhase' <=> InPhase
  BY PacketsStay DEF InPhase, Sent
<1>2. OutOfStep' <=> OutOfStep
  BY DEF OutOfStep
<1> QED
  BY <1>1, <1>2 DEF PhaseInv

LEMMA StutterKeeps ==
    ASSUME IInv, UNCHANGED vars
    PROVE  IInv'
<1>1. UNCHANGED <<at, call, metadata, reply, rows, calls, seen, short, stream, serving, answer,
                  selected, fate>>
  BY DEF vars, clientVars, serverVars
<1>2. TypeInv'
  BY <1>1 DEF IInv, TypeInv
<1>3. CallInv'
  BY <1>1 DEF IInv, CallInv, AnswerFits
<1>4. PhaseInv'
  BY <1>1, PhaseStays DEF IInv
<1>5. OpenInv'
  BY <1>1 DEF IInv, OpenInv, GivenRow, GivenAs
<1>6. ReportInv' /\ SeenInv'
  BY <1>1 DEF IInv, ReportInv, SeenInv
<1> QED
  BY <1>2, <1>3, <1>4, <1>5, <1>6 DEF IInv

LEMMA CallKeeps ==
    ASSUME IInv, Call
    PROVE  IInv'
<1>1. /\ at = "idle" /\ calls < MaxCalls
      /\ call' \in [function: Functions, statement: Statements]
      /\ at' = "metadata" /\ calls' = calls + 1
      /\ rows' = <<>> /\ seen' = <<>> /\ serving' = "statement"
      /\ UNCHANGED <<metadata, reply, short, stream, answer, selected, fate>>
  BY DEF Call
<1>2. TypeInv'
  <2>1. calls \in 0 .. MaxCalls /\ MaxCalls \in Nat
    BY WireAssumption DEF IInv, TypeInv
  <2>2. calls' \in 0 .. MaxCalls /\ \A o \in 1 .. calls : o \in 1 .. calls'
    BY <1>1, <2>1
  <2>3. \A i \in 1 .. Len(stream) : stream[i].of \in 1 .. calls
    BY DEF IInv, TypeInv
  <2>4. \A i \in 1 .. Len(stream') : stream'[i].of \in 1 .. calls'
    BY <1>1, <2>2, <2>3
  <2> QED
    BY <1>1, <2>2, <2>4 DEF IInv, TypeInv
<1>3. CallInv'
  <2>1. calls' > 0
    BY <1>1, WireAssumption DEF IInv, TypeInv
  <2> QED
    BY <1>1, <2>1 DEF CallInv
<1>4. PhaseInv'
  <2>1. CASE InPhase
    BY <1>1, <2>1 DEF InPhase, PhaseInv
  <2>2. CASE short /\ OutOfStep
    BY <1>1, <2>2 DEF OutOfStep, PhaseInv
  <2> QED
    BY <2>1, <2>2 DEF IInv, PhaseInv
<1>5. OpenInv' /\ ReportInv' /\ SeenInv'
  BY <1>1 DEF OpenInv, ReportInv, SeenInv
<1> QED
  BY <1>2, <1>3, <1>4, <1>5 DEF IInv

LEMMA ExecuteStatementKeeps ==
    ASSUME IInv, ExecuteStatement
    PROVE  IInv'
<1>1. /\ serving = "statement" /\ serving' = "metadata" /\ fate' = "whole"
      /\ UNCHANGED <<at, call, metadata, reply, rows, calls, seen, short, stream>>
  BY DEF ExecuteStatement, clientVars
<1>2. calls \in Nat /\ calls > 0 /\ call \in [function: Functions, statement: Statements]
  BY <1>1 DEF IInv, TypeInv, CallInv
<1>3. TypeInv'
  BY <1>1 DEF IInv, TypeInv
<1>4. CallInv'
  BY <1>1, <1>2, ExecuteAnswers DEF CallInv
<1>5. InPhase => at = "metadata" /\ stream = <<>>
  BY <1>1 DEF InPhase
<1>6. PhaseInv'
  <2>1. CASE InPhase
    BY <1>1, <1>5, <2>1 DEF InPhase, PhaseInv
  <2>2. CASE short /\ OutOfStep
    BY <1>1, <2>2 DEF OutOfStep, PhaseInv
  <2> QED
    BY <2>1, <2>2 DEF IInv, PhaseInv
<1>7. ~short' => at' = "metadata"
  BY <1>1, <1>5 DEF IInv, PhaseInv
<1>8. OpenInv' /\ ReportInv' /\ SeenInv'
  BY <1>1, <1>7 DEF OpenInv, ReportInv, SeenInv, IInv
<1> QED
  BY <1>3, <1>4, <1>6, <1>8 DEF IInv

\* What an operation appends to the stream: the first n cells of a packet.
LEMMA StreamExtended ==
    ASSUME NEW s \in Seq(Cell), NEW p \in Seq(Cell), NEW n \in 0 .. Len(p), NEW c,
           \A i \in 1 .. Len(s) : s[i].of \in c, \A i \in 1 .. Len(p) : p[i].of \in c
    PROVE  /\ s \o SubSeq(p, 1, n) \in Seq(Cell)
           /\ \A i \in 1 .. Len(s \o SubSeq(p, 1, n)) : (s \o SubSeq(p, 1, n))[i].of \in c
           /\ s # <<>> => s \o SubSeq(p, 1, n) # <<>> /\ (s \o SubSeq(p, 1, n))[1] = s[1]
           /\ s = <<>> => s \o SubSeq(p, 1, n) = SubSeq(p, 1, n)
           /\ n = Len(p) => SubSeq(p, 1, n) = p
<1>1. n \in Nat /\ n <= Len(p) /\ Len(p) \in Nat
  OBVIOUS
<1> DEFINE q == SubSeq(p, 1, n)
<1>2. q \in Seq(Cell) /\ Len(q) = n /\ \A i \in 1 .. n : q[i] = p[i]
  <2>1. \A i \in 1 .. n : p[i] \in Cell
    BY <1>1
  <2> QED
    BY <1>1, <2>1
<1>3. n = Len(p) => q = p
  BY <1>1, <1>2
<1> HIDE DEF q
<1>4. /\ s \o q \in Seq(Cell) /\ Len(s \o q) = Len(s) + n
      /\ \A i \in 1 .. Len(s) + n :
            (s \o q)[i] = IF i <= Len(s) THEN s[i] ELSE q[i - Len(s)]
  <2>1. s \in Seq(Cell) /\ q \in Seq(Cell) /\ Len(q) = n
    BY <1>2
  <2>2. s \o q \in Seq(Cell) /\ Len(s \o q) = Len(s) + n
    BY ONLY <2>1
  <2>3. \A i \in 1 .. Len(s) + Len(q) : (s \o q)[i] = IF i <= Len(s) THEN s[i] ELSE q[i - Len(s)]
    BY ONLY <2>1
  <2> QED
    BY ONLY <2>1, <2>2, <2>3
<1>5. ASSUME NEW i \in 1 .. Len(s) + n PROVE (s \o q)[i].of \in c
  <2>1. CASE i <= Len(s)
    BY <1>4, <2>1
  <2>2. CASE ~(i <= Len(s))
    <3>1. i - Len(s) \in 1 .. n /\ i - Len(s) \in 1 .. Len(p)
      BY <1>1, <2>2
    <3>2. (s \o q)[i] = p[i - Len(s)]
      BY <1>2, <1>4, <2>2, <3>1
    <3> QED
      BY <3>1, <3>2
  <2> QED
    BY <2>1, <2>2
<1>6. ASSUME s # <<>> PROVE s \o q # <<>> /\ (s \o q)[1] = s[1]
  <2>1. Len(s) >= 1 /\ Len(s) \in Nat
    BY <1>6
  <2> QED
    BY <1>1, <1>4, <2>1
<1>7. s = <<>> => s \o q = q
  BY <1>2
<1> QED
  BY <1>3, <1>4, <1>5, <1>6, <1>7 DEF q

LEMMA SmallerOfTwo ==
    ASSUME NEW a \in Nat, NEW b \in Nat
    PROVE  Min({a, b}) = IF a <= b THEN a ELSE b
<1> DEFINE least(x) == x \in {a, b} /\ \A y \in {a, b} : x <= y
<1>1. least(IF a <= b THEN a ELSE b)
  OBVIOUS
<1>2. Min({a, b}) = CHOOSE x \in {a, b} : \A y \in {a, b} : x <= y
  BY DEF Min
<1>3. \A x : least(x) => x = IF a <= b THEN a ELSE b
  OBVIOUS
<1>4. PICK m : m = CHOOSE x \in {a, b} : \A y \in {a, b} : x <= y
  OBVIOUS
<1>5. least(m)
  BY <1>1, <1>4
<1> QED
  BY <1>2, <1>3, <1>4, <1>5

\* An empty connection takes a packet of its capacity whole.
LEMMA AcceptedLength ==
    ASSUME NEW length \in Nat, NEW n \in Accepted(length)
    PROVE  n \in 0 .. length /\ (stream = <<>> /\ length <= Capacity => n = length)
<1>1. Min({length, Capacity}) \in Nat /\ (length <= Capacity => Min({length, Capacity}) = length)
  BY WireAssumption, SmallerOfTwo
<1> QED
  BY <1>1 DEF Accepted

\* The packets the server may be about to send.
PacketsOfCall ==
    /\ calls \in Nat /\ 1 \in 1 .. calls /\ calls \in 1 .. calls
    /\ call \in [function: Functions, statement: Statements] /\ AnswerFits
    /\ AnswerOK(answer) /\ MetaDataCells(answer) /\ ResultCells(answer)
    /\ \A i \in 1 .. Len(MetaDataPacket(answer)) : MetaDataPacket(answer)[i].of = calls
    /\ \A i \in 1 .. Len(ResultPacket(answer)) : ResultPacket(answer)[i].of = calls

LEMMA PacketsTyped ==
    ASSUME TypeInv, CallInv, calls # 0, serving # "statement"
    PROVE  PacketsOfCall
<1>1. calls \in Nat /\ calls > 0
  BY DEF TypeInv
<1>2. call \in [function: Functions, statement: Statements] /\ AnswerFits
  BY <1>1 DEF CallInv
<1>3. call.statement \in Statements
  BY <1>2
<1>4. AnswerOK(answer)
  BY <1>2, <1>3, AnswerTyped
<1>5. MetaDataCells(answer) /\ ResultCells(answer)
  BY <1>1, <1>4, MetaDataPacketCells, ResultPacketCells
<1>6. Len(Words(answer)) \in Nat
  BY <1>4, WordsType
<1> DEFINE Meta == MetaDataPacket(answer)
           Res == ResultPacket(answer)
<1>7. \A i \in 1 .. Len(Meta) : Meta[i].of = calls
  <2>1. Len(Meta) = 2 /\ Meta[1].of = calls /\ Meta[2].of = calls
    BY <1>5 DEF MetaDataCells, MetaSize
  <2> HIDE DEF Meta
  <2> QED
    BY ONLY <2>1
<1>8. \A i \in 1 .. Len(Res) : Res[i].of = calls
  <2>1. /\ Len(Res) = Len(Words(answer)) + 1 /\ Res[1].of = calls
        /\ \A k \in 1 .. Len(Words(answer)) : Res[k + 1].of = calls
    <3>1. /\ Len(Res) = Len(Words(answer)) + 1
          /\ Res[1] = [kind |-> "result", of |-> calls, status |-> answer.status,
                       rowLen |-> IF answer.type = "QUERY" THEN Len(answer.metadata) ELSE 0,
                       resultSize |-> ResultSize(answer)]
          /\ \A k \in 1 .. Len(Words(answer)) :
                Res[k + 1] = [kind |-> "data", of |-> calls,
                              word |-> ClearStatus(Words(answer)[k])]
      BY ONLY <1>5 DEF ResultCells
    <3> HIDE DEF Res
    <3>2. ASSUME NEW k \in 1 .. Len(Words(answer)) PROVE Res[k + 1].of = calls
      <4>1. Res[k + 1] = [kind |-> "data", of |-> calls,
                          word |-> ClearStatus(Words(answer)[k])]
        BY ONLY <3>1
      <4> QED
        BY ONLY <4>1
    <3>3. Res[1].of = calls
      BY ONLY <3>1
    <3> QED
      BY ONLY <3>1, <3>2, <3>3
  <2> HIDE DEF Res
  <2>2. ASSUME NEW i \in 1 .. Len(Res) PROVE Res[i].of = calls
    <3>1. i = 1 \/ (i - 1 \in 1 .. Len(Words(answer)) /\ (i - 1) + 1 = i)
      BY <1>6, <2>1
    <3> QED
      BY <2>1, <3>1
  <2> QED
    BY <2>2
<1> QED
  BY <1>1, <1>2, <1>4, <1>5, <1>7, <1>8 DEF PacketsOfCall

LEMMA SendMetaDataKeeps ==
    ASSUME IInv, SendMetaData
    PROVE  IInv'
<1> DEFINE Meta == MetaDataPacket(answer)
<1>1. PICK n \in Accepted(Len(Meta)) :
          /\ stream' = stream \o SubSeq(Meta, 1, n)
          /\ fate' = Fate(n, Len(Meta))
          /\ serving' = AfterMetaData(SendStatus(n, Len(Meta)))
  BY DEF SendMetaData
<1>2. /\ serving = "metadata"
      /\ UNCHANGED <<at, call, metadata, reply, rows, calls, seen, short, answer, selected>>
  BY DEF SendMetaData, clientVars
<1>3. TypeInv /\ CallInv /\ PhaseInv
  BY DEF IInv
<1>4. PacketsOfCall
  BY <1>2, <1>3, PacketsTyped DEF CallInv
<1>5. /\ Meta \in Seq(Cell) /\ Len(Meta) = 2
      /\ \A i \in 1 .. Len(Meta) : Meta[i].of \in 1 .. calls
  BY <1>4 DEF PacketsOfCall, MetaDataCells, MetaSize
<1>6. n \in 0 .. Len(Meta) /\ (stream = <<>> => n = 2)
  BY <1>1, <1>5, AcceptedLength, WireAssumption DEF MetaSize
<1>7. /\ stream' \in Seq(Cell) /\ \A i \in 1 .. Len(stream') : stream'[i].of \in 1 .. calls
      /\ stream # <<>> => stream' # <<>> /\ stream'[1] = stream[1]
      /\ stream = <<>> => stream' = Meta
  <2>1. stream \in Seq(Cell) /\ \A i \in 1 .. Len(stream) : stream[i].of \in 1 .. calls
    BY <1>3 DEF TypeInv
  <2> HIDE DEF Meta
  <2>2. PICK c : c = 1 .. calls
    OBVIOUS
  <2>3. PICK t : t = stream \o SubSeq(Meta, 1, n)
    OBVIOUS
  <2>4. /\ \A i \in 1 .. Len(stream) : stream[i].of \in c
        /\ \A i \in 1 .. Len(Meta) : Meta[i].of \in c
    BY ONLY <1>5, <2>1, <2>2
  <2>5. /\ t \in Seq(Cell) /\ \A i \in 1 .. Len(t) : t[i].of \in c
        /\ stream # <<>> => t # <<>> /\ t[1] = stream[1]
        /\ stream = <<>> => t = SubSeq(Meta, 1, n)
        /\ n = Len(Meta) => SubSeq(Meta, 1, n) = Meta
    <3>1. Meta \in Seq(Cell) /\ n \in 0 .. Len(Meta) /\ stream \in Seq(Cell)
      BY ONLY <1>5, <1>6, <2>1
    <3> QED
      BY ONLY <2>3, <2>4, <3>1, StreamExtended
  <2> QED
    BY <1>1, <1>5, <1>6, <2>2, <2>3, <2>5
<1>8. serving' \in {"result", "nothing"} /\ (stream = <<>> => serving' = "result")
  BY <1>1, <1>6 DEF AfterMetaData, SendStatus
<1>9. fate' \in {"whole", "cut", "dropped"}
  BY <1>1, <1>3 DEF Fate, TypeInv
<1>10. TypeInv'
  BY <1>2, <1>3, <1>7, <1>8, <1>9 DEF TypeInv
<1>11. CallInv'
  BY <1>2, <1>3, <1>8 DEF CallInv, AnswerFits
<1>12. InPhase => at = "metadata" /\ stream = <<>>
  BY <1>2 DEF InPhase
<1>13. PhaseInv'
  <2>1. CASE InPhase
    <3>1. at' = "metadata" /\ serving' = "result" /\ stream' = Meta /\ Meta' = Meta
      BY <1>2, <1>7, <1>8, <1>12, <2>1, PacketsStay
    <3> QED
      BY <3>1 DEF InPhase, PhaseInv
  <2>2. CASE short /\ OutOfStep
    BY <1>2, <1>7, <2>2 DEF OutOfStep, PhaseInv
  <2> QED
    BY <1>3, <2>1, <2>2 DEF PhaseInv
<1>14. ~short' => at' = "metadata"
  BY <1>2, <1>3, <1>12 DEF PhaseInv
<1>15. OpenInv' /\ ReportInv' /\ SeenInv'
  BY <1>2, <1>14 DEF OpenInv, ReportInv, SeenInv, IInv
<1> QED
  BY <1>10, <1>11, <1>13, <1>15 DEF IInv

LEMMA SendDataKeeps ==
    ASSUME IInv, SendData
    PROVE  IInv'
<1> DEFINE Meta == MetaDataPacket(answer)
           Res == ResultPacket(answer)
<1>1. PICK n \in Accepted(Len(Res)) :
          stream' = stream \o SubSeq(Res, 1, n) /\ fate' = Fate(n, Len(Res))
  BY DEF SendData
<1>2. /\ serving = "result" /\ serving' = "nothing"
      /\ UNCHANGED <<at, call, metadata, reply, rows, calls, seen, short, answer, selected>>
  BY DEF SendData, clientVars
<1>3. TypeInv /\ CallInv /\ PhaseInv
  BY DEF IInv
<1>4. PacketsOfCall
  BY <1>2, <1>3, PacketsTyped DEF CallInv
<1>5. /\ Res \in Seq(Cell) /\ Len(Res) \in Nat
      /\ \A i \in 1 .. Len(Res) : Res[i].of \in 1 .. calls
  BY <1>4 DEF PacketsOfCall, ResultCells
<1>6. n \in 0 .. Len(Res)
  BY <1>1, <1>5, AcceptedLength
<1>7. /\ stream' \in Seq(Cell) /\ \A i \in 1 .. Len(stream') : stream'[i].of \in 1 .. calls
      /\ stream # <<>> => stream' # <<>> /\ stream'[1] = stream[1]
      /\ stream = <<>> => stream' = SubSeq(Res, 1, n)
  <2>1. stream \in Seq(Cell) /\ \A i \in 1 .. Len(stream) : stream[i].of \in 1 .. calls
    BY <1>3 DEF TypeInv
  <2> HIDE DEF Res
  <2>2. PICK c : c = 1 .. calls
    OBVIOUS
  <2>3. PICK t : t = stream \o SubSeq(Res, 1, n)
    OBVIOUS
  <2>4. /\ \A i \in 1 .. Len(stream) : stream[i].of \in c
        /\ \A i \in 1 .. Len(Res) : Res[i].of \in c
    BY ONLY <1>5, <2>1, <2>2
  <2>5. /\ t \in Seq(Cell) /\ \A i \in 1 .. Len(t) : t[i].of \in c
        /\ stream # <<>> => t # <<>> /\ t[1] = stream[1]
        /\ stream = <<>> => t = SubSeq(Res, 1, n)
        /\ n = Len(Res) => SubSeq(Res, 1, n) = Res
    <3>1. Res \in Seq(Cell) /\ n \in 0 .. Len(Res) /\ stream \in Seq(Cell)
      BY ONLY <1>5, <1>6, <2>1
    <3> QED
      BY ONLY <2>3, <2>4, <3>1, StreamExtended
  <2> QED
    BY <1>1, <1>5, <1>6, <2>2, <2>3, <2>5
<1>8. fate' \in {"whole", "cut", "dropped"}
  BY <1>1, <1>3 DEF Fate, TypeInv
<1>9. TypeInv'
  BY <1>2, <1>3, <1>7, <1>8 DEF TypeInv
<1>10. CallInv'
  BY <1>2, <1>3 DEF CallInv, AnswerFits
<1>11. InPhase => \/ at = "metadata" /\ stream = Meta
                  \/ at = "result" /\ metadata = Meta /\ stream = <<>>
  BY <1>2 DEF InPhase
<1>12. PhaseInv'
  <2>1. CASE InPhase
    <3>1. Meta' = Meta /\ Res' = Res
      BY <1>2, PacketsStay
    <3>2. Sent(n)'
      <4>1. n = 0 \/ n = Len(Res) \/ fate' = "cut"
        BY <1>1, <1>5, <1>6 DEF Fate
      <4> QED
        BY <1>6, <3>1, <4>1 DEF Sent
    <3>3. n \in 0 .. Len(Res)'
      BY <1>6, <3>1
    <3>4. CASE at = "metadata" /\ stream = Meta
      <4>1. /\ at' = "metadata" /\ serving' = "nothing"
            /\ stream' = Meta' \o SubSeq(Res', 1, n)
        BY <1>1, <1>2, <3>1, <3>4
      <4> HIDE DEF Meta, Res
      <4>2. InPhase'
        BY <3>2, <3>3, <4>1 DEF InPhase, Meta, Res
      <4> QED
        BY <4>2 DEF PhaseInv
    <3>5. CASE at = "result" /\ metadata = Meta /\ stream = <<>>
      <4>1. /\ at' = "result" /\ serving' = "nothing" /\ metadata' = Meta'
            /\ stream' = SubSeq(Res', 1, n)
        BY <1>2, <1>7, <3>1, <3>5
      <4>2. InPhase'
        BY <3>2, <3>3, <4>1 DEF InPhase
      <4> QED
        BY <4>2 DEF PhaseInv
    <3> QED
      BY <1>11, <2>1, <3>4, <3>5
  <2>2. CASE short /\ OutOfStep
    BY <1>2, <1>7, <2>2 DEF OutOfStep, PhaseInv
  <2> QED
    BY <1>3, <2>1, <2>2 DEF PhaseInv
<1>13. ~short' => at' \in {"metadata", "result"}
  BY <1>2, <1>3, <1>11 DEF PhaseInv
<1>14. OpenInv' /\ ReportInv' /\ SeenInv'
  BY <1>2, <1>13 DEF OpenInv, ReportInv, SeenInv, IInv
<1> QED
  BY <1>9, <1>10, <1>12, <1>14 DEF IInv

\* What a recv of at most length cells takes.
LEMMA ReadBounds ==
    ASSUME NEW length \in Nat, stream \in Seq(Cell), NEW n \in ReadSizes(length)
    PROVE  /\ n \in 1 .. Len(stream) /\ n <= length
           /\ Arrived(length) = IF length <= Len(stream) THEN length ELSE Len(stream)
<1>1. Len(stream) \in Nat
  OBVIOUS
<1>2. Arrived(length) = IF length <= Len(stream) THEN length ELSE Len(stream)
  BY <1>1, SmallerOfTwo DEF Arrived
<1>3. n \in 1 .. Arrived(length)
  BY <1>1, <1>2 DEF ReadSizes
<1> QED
  BY <1>1, <1>2, <1>3

\* What it leaves, and what it returns.
LEMMA StreamConsumed ==
    ASSUME NEW s \in Seq(Cell), NEW n \in 1 .. Len(s), NEW c,
           \A i \in 1 .. Len(s) : s[i].of \in c
    PROVE  /\ SubSeq(s, n + 1, Len(s)) \in Seq(Cell)
           /\ \A i \in 1 .. Len(SubSeq(s, n + 1, Len(s))) :
                 SubSeq(s, n + 1, Len(s))[i].of \in c
           /\ n = Len(s) => SubSeq(s, n + 1, Len(s)) = <<>>
           /\ n < Len(s) => /\ SubSeq(s, n + 1, Len(s)) # <<>>
                            /\ SubSeq(s, n + 1, Len(s))[1] = s[n + 1]
           /\ SubSeq(s, 1, n) \in Seq(Cell) /\ SubSeq(s, 1, n) # <<>>
           /\ SubSeq(s, 1, n)[1] = s[1]
<1>1. n \in Nat /\ n >= 1 /\ n <= Len(s) /\ Len(s) \in Nat
  OBVIOUS
<1> DEFINE t == SubSeq(s, n + 1, Len(s))
           g == SubSeq(s, 1, n)
<1>2. t \in Seq(Cell) /\ Len(t) = Len(s) - n /\ \A i \in 1 .. Len(s) - n : t[i] = s[n + i]
  <2>1. \A i \in n + 1 .. Len(s) : s[i] \in Cell
    BY <1>1
  <2> QED
    BY <1>1, <2>1
<1>3. g \in Seq(Cell) /\ Len(g) = n /\ g[1] = s[1]
  <2>1. \A i \in 1 .. n : s[i] \in Cell
    BY <1>1
  <2> QED
    BY <1>1, <2>1
<1> HIDE DEF t, g
<1>4. ASSUME NEW i \in 1 .. Len(t) PROVE t[i].of \in c
  <2>1. t[i] = s[n + i] /\ n + i \in 1 .. Len(s)
    BY <1>1, <1>2
  <2> QED
    BY <2>1
<1>5. n = Len(s) => t = <<>>
  BY <1>1, <1>2
<1>6. n < Len(s) => t # <<>> /\ t[1] = s[n + 1]
  <2>1. n < Len(s) => 1 \in 1 .. Len(s) - n
    BY <1>1
  <2> QED
    BY <1>1, <1>2, <2>1
<1>7. g # <<>>
  BY <1>1, <1>3
<1> QED
  BY <1>2, <1>3, <1>4, <1>5, <1>6, <1>7 DEF t, g

LEMMA PacketsApart ==
    ASSUME NEW p \in Seq(Cell), NEW q \in Seq(Cell)
    PROVE  /\ SubSeq(p \o q, 1, Len(p)) = p
           /\ SubSeq(p \o q, Len(p) + 1, Len(p \o q)) = q
           /\ \A i \in 1 .. Len(p) : (p \o q)[i] = p[i]
           /\ Len(p \o q) = Len(p) + Len(q)
<1>1. Len(p) \in Nat /\ Len(q) \in Nat
  OBVIOUS
<1>2. p \o q \in Seq(Cell) /\ Behind(p, Len(p), q, Len(q))
  BY <1>1, ConcatParts
<1>3. /\ Len(p \o q) = Len(p) + Len(q)
      /\ \A i \in 1 .. Len(p) : (p \o q)[i] = p[i]
      /\ \A i \in 1 .. Len(q) : (p \o q)[Len(p) + i] = q[i]
  BY <1>2 DEF Behind
<1> DEFINE t == p \o q
           x == SubSeq(t, 1, Len(p))
           y == SubSeq(t, Len(p) + 1, Len(t))
<1>4. t \in Seq(Cell) /\ Len(t) = Len(p) + Len(q)
  BY <1>2, <1>3
<1> HIDE DEF t
<1>5. \A i \in 1 .. Len(t) : t[i] \in Cell
  BY <1>4
<1>6. /\ x \in Seq(Cell) /\ Len(x) = Len(p) /\ \A i \in 1 .. Len(p) : x[i] = t[i]
  BY <1>1, <1>4, <1>5
<1>7. /\ y \in Seq(Cell) /\ Len(y) = Len(q) /\ \A i \in 1 .. Len(q) : y[i] = t[Len(p) + i]
  BY <1>1, <1>4, <1>5
<1> HIDE DEF x, y
<1>8. x = p
  BY <1>3, <1>6 DEF t
<1>9. y = q
  BY <1>3, <1>7 DEF t
<1> QED
  BY <1>3, <1>8, <1>9 DEF x, y, t

LEMMA RecvMetaDataKeeps ==
    ASSUME IInv, RecvMetaData
    PROVE  IInv'
<1> DEFINE Meta == MetaDataPacket(answer)
           Res == ResultPacket(answer)
<1>1. PICK n \in ReadSizes(MetaSize) : metadata' = SubSeq(stream, 1, n) /\ Recv(MetaSize, n)
  BY DEF RecvMetaData
<1>2. /\ at = "metadata"
      /\ at' = IF stream[1].kind = "metadata" THEN "result" ELSE "confused"
      /\ UNCHANGED <<call, reply, rows, calls, seen, serving, answer, selected, fate>>
  BY DEF RecvMetaData, serverVars
<1>3. TypeInv /\ CallInv /\ PhaseInv /\ SeenInv
  BY DEF IInv
<1>4. stream \in Seq(Cell) /\ \A i \in 1 .. Len(stream) : stream[i].of \in 1 .. calls
  BY <1>3 DEF TypeInv
<1>5. /\ n \in 1 .. Len(stream) /\ n <= 2
      /\ Arrived(2) = IF 2 <= Len(stream) THEN 2 ELSE Len(stream)
  BY <1>1, <1>4, ReadBounds DEF MetaSize
<1>6. /\ stream' = SubSeq(stream, n + 1, Len(stream))
      /\ short' = (short \/ n < Arrived(2))
  BY <1>1 DEF Recv, MetaSize
<1>7. /\ stream' \in Seq(Cell) /\ \A i \in 1 .. Len(stream') : stream'[i].of \in 1 .. calls
      /\ n < Len(stream) => stream' # <<>> /\ stream'[1] = stream[n + 1]
      /\ metadata' \in Seq(Cell) /\ metadata' # <<>> /\ metadata'[1] = stream[1]
  <2>1. PICK c : c = 1 .. calls
    OBVIOUS
  <2>2. \A i \in 1 .. Len(stream) : stream[i].of \in c
    BY ONLY <1>4, <2>1
  <2>3. PICK t, g : t = SubSeq(stream, n + 1, Len(stream)) /\ g = SubSeq(stream, 1, n)
    OBVIOUS
  <2>4. /\ t \in Seq(Cell) /\ \A i \in 1 .. Len(t) : t[i].of \in c
        /\ n < Len(stream) => t # <<>> /\ t[1] = stream[n + 1]
        /\ g \in Seq(Cell) /\ g # <<>> /\ g[1] = stream[1]
    BY ONLY <1>4, <1>5, <2>2, <2>3, StreamConsumed
  <2> QED
    BY <1>1, <1>6, <2>1, <2>3, <2>4
<1>8. short' \in BOOLEAN
  BY <1>3, <1>6 DEF TypeInv
<1>9. TypeInv'
  BY <1>2, <1>3, <1>7, <1>8 DEF TypeInv
<1>10. CallInv'
  <2>1. calls # 0
    BY <1>2, <1>3 DEF CallInv
  <2> QED
    BY <1>2, <1>3, <2>1 DEF CallInv, TypeInv, AnswerFits
<1>11. Len(stream) >= 1 /\ stream # <<>>
  BY <1>4, <1>5
<1>12. PhaseInv'
  <2>1. CASE InPhase
    <3>1. \/ serving = "result" /\ stream = Meta
          \/ /\ serving = "nothing"
             /\ \E m \in 0 .. Len(Res) : Sent(m) /\ stream = Meta \o SubSeq(Res, 1, m)
      BY <1>2, <1>11, <2>1 DEF InPhase
    <3>2. PacketsOfCall
      BY <1>2, <1>3, <3>1, PacketsTyped DEF CallInv
    <3>3. /\ Meta \in Seq(Cell) /\ Len(Meta) = 2
          /\ Meta[1].kind = "metadata" /\ Meta[2].kind = "columns"
      BY <3>2 DEF PacketsOfCall, MetaDataCells, MetaSize
    <3>4. Res \in Seq(Cell) /\ Len(Res) \in Nat
      BY <3>2 DEF PacketsOfCall, ResultCells
    <3> HIDE DEF Meta, Res
    <3>5. PICK q \in Seq(Cell) :
              /\ stream = Meta \o q
              /\ \/ serving = "result" /\ q = <<>>
                 \/ /\ serving = "nothing"
                    /\ \E m \in 0 .. Len(Res) : Sent(m) /\ q = SubSeq(Res, 1, m)
      <4>1. CASE serving = "result" /\ stream = Meta
        <5>1. <<>> \in Seq(Cell) /\ Meta = Meta \o <<>>
          BY <3>3
        <5> QED
          BY <4>1, <5>1
      <4>2. CASE serving = "nothing" /\ \E m \in 0 .. Len(Res) :
                     Sent(m) /\ stream = Meta \o SubSeq(Res, 1, m)
        <5>1. PICK m \in 0 .. Len(Res) : Sent(m) /\ stream = Meta \o SubSeq(Res, 1, m)
          BY <4>2
        <5>2. SubSeq(Res, 1, m) \in Seq(Cell)
          <6>1. m \in Nat /\ m <= Len(Res)
            BY <3>4
          <6>2. \A i \in 1 .. m : Res[i] \in Cell
            BY <3>4, <6>1
          <6> QED
            BY <3>4, <6>1, <6>2
        <5> QED
          BY <4>2, <5>1, <5>2
      <4> QED
        BY <3>1, <4>1, <4>2
    <3>6. /\ SubSeq(stream, 1, 2) = Meta /\ SubSeq(stream, 3, Len(stream)) = q
          /\ Len(stream) = 2 + Len(q) /\ stream[1] = Meta[1] /\ stream[2] = Meta[2]
      <4>1. /\ SubSeq(Meta \o q, 1, Len(Meta)) = Meta
            /\ SubSeq(Meta \o q, Len(Meta) + 1, Len(Meta \o q)) = q
            /\ \A i \in 1 .. Len(Meta) : (Meta \o q)[i] = Meta[i]
            /\ Len(Meta \o q) = Len(Meta) + Len(q)
        BY <3>3, <3>5, PacketsApart
      <4>2. PICK t : t = Meta \o q
        OBVIOUS
      <4>3. 2 + 1 = 3 /\ 1 \in 1 .. 2 /\ 2 \in 1 .. 2
        OBVIOUS
      <4>4. /\ SubSeq(t, 1, 2) = Meta /\ SubSeq(t, 3, Len(t)) = q
            /\ Len(t) = 2 + Len(q) /\ t[1] = Meta[1] /\ t[2] = Meta[2]
        BY ONLY <3>3, <4>1, <4>2, <4>3
      <4>5. stream = t
        BY <3>5, <4>2
      <4> QED
        BY ONLY <4>4, <4>5
    <3>7. at' = "result"
      BY <1>2, <3>3, <3>6
    <3>8. CASE n = 2
      <4>1. metadata' = Meta' /\ stream' = q /\ Res' = Res
        <5>1. Meta' = Meta /\ Res' = Res
          BY <1>2, PacketsStay DEF Meta, Res
        <5>2. metadata' = Meta
          BY <1>1, <3>6, <3>8
        <5>3. n + 1 = 3
          BY <3>8
        <5>4. stream' = q
          BY <1>6, <3>6, <5>3
        <5> QED
          BY <5>1, <5>2, <5>4
      <4>2. CASE serving = "result" /\ q = <<>>
        BY <1>2, <3>7, <4>1, <4>2 DEF InPhase, PhaseInv, Meta
      <4>3. CASE serving = "nothing" /\ \E m \in 0 .. Len(Res) : Sent(m) /\ q = SubSeq(Res, 1, m)
        <5>1. PICK m \in 0 .. Len(Res) : Sent(m) /\ q = SubSeq(Res, 1, m)
          BY <4>3
        <5>2. Sent(m)'
          BY <1>2, <4>1, <5>1 DEF Sent, Res
        <5>3. /\ m \in 0 .. Len(Res') /\ stream' = SubSeq(Res', 1, m)
              /\ serving' = "nothing" /\ at' = "result" /\ metadata' = Meta'
          BY <1>2, <3>7, <4>1, <4>3, <5>1
        <5>4. InPhase'
          BY <5>2, <5>3 DEF InPhase, Meta, Res
        <5> QED
          BY <5>4 DEF PhaseInv
      <4> QED
        BY <3>5, <4>2, <4>3
    <3>9. CASE n # 2
      <4>1. n = 1 /\ 2 <= Len(stream)
        <5>1. Len(q) \in Nat
          OBVIOUS
        <5>2. Len(stream) \in Nat /\ 2 <= Len(stream)
          BY ONLY <3>6, <5>1
        <5> QED
          BY <1>5, <3>9, <5>2
      <4>2. short' = TRUE
        <5>1. Arrived(2) = 2 /\ n < 2
          BY <1>5, <4>1
        <5> QED
          BY <1>6, <5>1
      <4>3. n < Len(stream) /\ n + 1 = 2
        BY <1>4, <4>1
      <4>4. stream' # <<>> /\ stream'[1] = Meta[2]
        BY <1>7, <3>6, <4>3
      <4>5. OutOfStep'
        BY <1>7, <3>3, <3>6, <3>7, <4>4 DEF OutOfStep
      <4> QED
        BY <4>2, <4>5 DEF PhaseInv
    <3> QED
      BY <3>8, <3>9
  <2>2. CASE short /\ OutOfStep
    <3>1. stream[1].kind = "data"
      BY <1>2, <2>2 DEF OutOfStep
    <3>2. at' = "confused" /\ short'
      BY <1>2, <1>6, <2>2, <3>1
    <3> QED
      BY <3>2 DEF OutOfStep, PhaseInv
  <2> QED
    BY <1>3, <2>1, <2>2 DEF PhaseInv
<1>13. at' \in {"result", "confused"} /\ SeenInv'
  BY <1>2, <1>3 DEF SeenInv
<1>14. OpenInv' /\ ReportInv'
  BY <1>13 DEF OpenInv, ReportInv
<1> QED
  BY <1>9, <1>10, <1>12, <1>13, <1>14 DEF IInv

\* Between two calls the stream holds nothing, or is read out of step.
LEMMA CursorPhase ==
    ASSUME PhaseInv, at \in {"open", "idle", "dead"}, at' \in {"open", "idle", "dead"},
           UNCHANGED <<serving, stream, short>>
    PROVE  PhaseInv' /\ (~short => serving = "nothing")
<1>1. CASE InPhase
  <2>1. serving = "nothing" /\ stream = <<>>
    BY <1>1 DEF InPhase
  <2> QED
    BY <2>1 DEF InPhase, PhaseInv
<1>2. CASE short /\ OutOfStep
  BY <1>2 DEF OutOfStep, PhaseInv
<1> QED
  BY <1>1, <1>2 DEF PhaseInv

LEMMA NoMoreRowsKeeps ==
    ASSUME IInv, NoMoreRows
    PROVE  IInv'
<1>1. /\ at = "open" /\ rows' = <<>> /\ at' = "idle"
      /\ UNCHANGED <<call, metadata, reply, calls, seen, short, stream, serving, answer,
                     selected, fate>>
  BY DEF NoMoreRows, serverVars
<1>2. TypeInv /\ CallInv /\ PhaseInv /\ OpenInv
  BY DEF IInv
<1>3. TypeInv'
  BY <1>1, <1>2 DEF TypeInv
<1>4. CallInv'
  BY <1>1, <1>2 DEF CallInv, AnswerFits
<1>5. PhaseInv'
  BY <1>1, <1>2, CursorPhase
<1>6. OpenInv' /\ SeenInv'
  BY <1>1 DEF OpenInv, SeenInv
<1>7. ReportInv'
  BY <1>1, <1>2 DEF OpenInv, ReportInv
<1> QED
  BY <1>3, <1>4, <1>5, <1>6, <1>7 DEF IInv

LEMMA NextRowKeeps ==
    ASSUME IInv, NextRow
    PROVE  IInv'
<1> DEFINE l == Len(rows)
           k == Len(seen)
           row == [i \in DOMAIN reply.columns |-> Last(rows')[i]]
           r == Len(answer.data)
<1>1. /\ at = "open" /\ l > 1 /\ rows' = Front(rows)
      /\ \/ /\ Len(Last(rows')) >= Len(reply.columns)
            /\ seen' = Append(seen, row) /\ at' = at
         \/ at' = "dead" /\ seen' = seen
      /\ UNCHANGED <<call, metadata, reply, calls, short, stream, serving, answer,
                     selected, fate>>
  BY DEF NextRow, serverVars
<1>2. TypeInv /\ CallInv /\ PhaseInv /\ OpenInv
  BY DEF IInv
<1>3. /\ rows \in Seq(Seq(Word)) /\ seen \in Seq(Seq(Word)) /\ l \in Nat /\ k \in Nat
      /\ reply.columns \in Seq(ColumnType) /\ DOMAIN reply.columns = 1 .. Len(reply.columns)
      /\ Len(reply.columns) \in Nat
  BY <1>1, <1>2 DEF TypeInv
<1>4. /\ rows' \in Seq(Seq(Word)) /\ Len(rows') = l - 1 /\ l - 1 \in 1 .. l
      /\ \A j \in 1 .. l - 1 : rows'[j] = rows[j]
      /\ Last(rows') = rows[l - 1] /\ rows[l - 1] \in Seq(Word)
  <2>1. PICK t : t = SubSeq(rows, 1, l - 1)
    OBVIOUS
  <2>2. l - 1 \in Nat /\ l - 1 \in 1 .. l /\ l - 1 \in 1 .. l - 1
    BY <1>1, <1>3
  <2>3. \A j \in 1 .. l - 1 : rows[j] \in Seq(Word)
    BY ONLY <1>3, <2>2
  <2>4. t \in Seq(Seq(Word)) /\ Len(t) = l - 1 /\ \A j \in 1 .. l - 1 : t[j] = rows[j]
    BY ONLY <1>3, <2>1, <2>2, <2>3
  <2>5. rows' = t
    BY <1>1, <2>1 DEF Front
  <2>6. Last(rows') = rows[l - 1]
    BY <2>2, <2>4, <2>5 DEF Last
  <2> QED
    BY <2>2, <2>3, <2>4, <2>5, <2>6
<1>5. ASSUME Len(Last(rows')) >= Len(reply.columns)
      PROVE  /\ row \in Seq(Word) /\ Len(row) = Len(reply.columns)
             /\ \A i \in 1 .. Len(reply.columns) : row[i] = rows[l - 1][i]
  <2>1. PICK given, c : given = rows[l - 1] /\ c = Len(reply.columns)
    OBVIOUS
  <2>2. given \in Seq(Word) /\ c \in Nat /\ Len(given) >= c
    BY <1>3, <1>4, <1>5, <2>1
  <2>3. row = [i \in 1 .. c |-> given[i]]
    BY <1>3, <1>4, <2>1
  <2>4. \A i \in 1 .. c : given[i] \in Word
    BY <2>2
  <2> HIDE DEF row
  <2>5. row \in [1 .. c -> Word]
    BY ONLY <2>3, <2>4
  <2>6. row \in Seq(Word) /\ Len(row) = c
    BY <2>2, <2>5, FunctionIsSeq
  <2> QED
    BY <2>1, <2>3, <2>6
<1> HIDE DEF row
<1>6. seen' \in Seq(Seq(Word))
  <2>1. CASE Len(Last(rows')) >= Len(reply.columns) /\ seen' = Append(seen, row)
    <3>1. row \in Seq(Word) /\ seen \in Seq(Seq(Word))
      BY <1>3, <1>5, <2>1
    <3>2. Append(seen, row) \in Seq(Seq(Word))
      BY ONLY <3>1
    <3> QED
      BY <2>1, <3>2
  <2>2. CASE seen' = seen
    BY <1>3, <2>2
  <2> QED
    BY <1>1, <2>1, <2>2
<1>7. TypeInv'
  BY <1>1, <1>2, <1>4, <1>6 DEF TypeInv
<1>8. CallInv'
  BY <1>1, <1>2 DEF CallInv, AnswerFits
<1>9. PhaseInv' /\ (~short => serving = "nothing")
  BY <1>1, <1>2, CursorPhase
<1>10. SeenInv' /\ ReportInv'
  BY <1>1 DEF ReportInv, SeenInv
<1>11. ASSUME at' = "open", ~short PROVE OpenInv'
  <2>1. Len(Last(rows')) >= Len(reply.columns) /\ seen' = Append(seen, row)
    BY <1>1, <1>11
  <2>2. /\ answer.type = "QUERY" /\ reply.columns = answer.metadata /\ l + k = r + 1
        /\ \A j \in 1 .. l : j <= r => GivenRow(rows[j], answer.data[j])
        /\ \A j \in 1 .. k : GivenRow(seen[j], answer.data[r + 1 - j])
    BY <1>1, <1>2, <1>11 DEF OpenInv
  <2>3. QueryAnswer(answer)
    <3>1. calls # 0 /\ call.statement \in Statements /\ AnswerFits
      BY <1>1, <1>2, <1>9, <1>11 DEF CallInv, TypeInv
    <3> QED
      BY <2>2, <3>1, AnswerTyped
  <2>4. r \in Nat /\ l - 1 \in 1 .. r /\ r + 1 - (k + 1) = l - 1
    <3>1. r \in Nat
      BY <2>3 DEF QueryAnswer
    <3>2. l > 1 /\ l \in Nat /\ k \in Nat /\ l + k = r + 1
      BY <1>1, <1>3, <2>2
    <3> HIDE DEF l, k, r
    <3> QED
      BY ONLY <3>1, <3>2
  <2>5. Len(answer.data[l - 1]) = Len(reply.columns)
    BY <2>2, <2>3, <2>4 DEF QueryAnswer
  <2>6. GivenRow(row, answer.data[l - 1])
    <3>1. GivenRow(rows[l - 1], answer.data[l - 1])
      <4>1. l - 1 \in 1 .. l /\ l - 1 <= r
        BY <1>4, <2>4
      <4> HIDE DEF l, r
      <4> QED
        BY <2>2, <4>1
    <3> QED
      BY <1>5, <2>1, <2>5, <3>1 DEF GivenRow
  <2>7. /\ Len(seen') = k + 1 /\ seen'[k + 1] = row
        /\ \A j \in 1 .. k : seen'[j] = seen[j]
    <3>1. row \in Seq(Word)
      BY <1>5, <2>1
    <3> QED
      BY <1>3, <2>1, <3>1
  <2>8. ASSUME NEW j \in 1 .. l - 1, j <= r PROVE GivenRow(rows'[j], answer.data[j])
    <3>1. l \in Nat
      BY <1>3
    <3> HIDE DEF l, r
    <3>2. j \in 1 .. l /\ rows'[j] = rows[j]
      BY <1>4, <3>1
    <3>3. GivenRow(rows[j], answer.data[j])
      BY <2>2, <2>8, <3>2
    <3> QED
      BY ONLY <3>2, <3>3
  <2>9. ASSUME NEW j \in 1 .. k + 1 PROVE GivenRow(seen'[j], answer.data[r + 1 - j])
    <3>1. CASE j \in 1 .. k
      BY <2>2, <2>7, <3>1
    <3>2. CASE j = k + 1
      BY <2>4, <2>6, <2>7, <3>2
    <3> QED
      BY <1>3, <3>1, <3>2
  <2>10. Len(rows') >= 1 /\ Len(rows') + Len(seen') = r + 1
    <3>1. l > 1 /\ l \in Nat /\ k \in Nat /\ l + k = r + 1 /\ r \in Nat
      BY <1>1, <1>3, <2>2, <2>4
    <3>2. Len(rows') = l - 1 /\ Len(seen') = k + 1
      BY <1>4, <2>7
    <3> HIDE DEF l, k, r
    <3> QED
      BY ONLY <3>1, <3>2
  <2> QED
    BY <1>1, <1>4, <2>2, <2>7, <2>8, <2>9, <2>10 DEF OpenInv, GivenRow, GivenAs
<1>12. OpenInv'
  BY <1>1, <1>11 DEF OpenInv
<1> QED
  BY <1>7, <1>8, <1>9, <1>10, <1>12 DEF IInv

\* The four ways a recv of the result may end.
ResultRead(n, packet) ==
    \/ /\ stream[1].kind # "result"
       /\ at' = "confused" /\ reply' = reply /\ rows' = rows
    \/ /\ stream[1].kind = "result" /\ call.function = "executeCommand"
       /\ at' = "idle" /\ rows' = rows
       /\ reply' = [status |-> packet.status, numAffected |-> packet.resultSize]
    \/ /\ stream[1].kind = "result" /\ packet.rowLen = 0
       /\ at' = "dead" /\ reply' = reply /\ rows' = rows
    \/ /\ stream[1].kind = "result" /\ packet.rowLen # 0 /\ call.function = "executeQuery"
       /\ at' = "open" /\ rows' = ParseData(packet)
       /\ reply' = [status |-> metadata[1].status, columns |-> metadata[2].columns]

LEMMA RecvResultCases ==
    ASSUME RecvResult, call.function \in Functions
    PROVE  \E n \in ReadSizes(Cells(metadata[1].resultPacketSize)) :
              /\ Recv(Cells(metadata[1].resultPacketSize), n)
              /\ ResultRead(n, DeserializeResultPacket(SubSeq(stream, 1, n)))
<1>1. PICK n \in ReadSizes(Cells(metadata[1].resultPacketSize)) :
          /\ Recv(Cells(metadata[1].resultPacketSize), n)
          /\ LET packet == DeserializeResultPacket(SubSeq(stream, 1, n))
             IN CASE stream[1].kind # "result" ->
                        at' = "confused" /\ UNCHANGED <<reply, rows>>
                  [] stream[1].kind = "result" /\ call.function = "executeCommand" ->
                        /\ at' = "idle"
                        /\ reply' = [status |-> packet.status, numAffected |-> packet.resultSize]
                        /\ UNCHANGED rows
                  [] stream[1].kind = "result" /\ call.function = "executeQuery"
                        /\ packet.rowLen = 0 ->
                        at' = "dead" /\ UNCHANGED <<reply, rows>>
                  [] OTHER ->
                        /\ at' = "open"
                        /\ reply' = [status |-> metadata[1].status,
                                     columns |-> metadata[2].columns]
                        /\ rows' = ParseData(packet)
  BY DEF RecvResult
<1> DEFINE packet == DeserializeResultPacket(SubSeq(stream, 1, n))
<1> HIDE DEF packet
<1>2. CASE stream[1].kind # "result"
  <2>1. at' = "confused" /\ reply' = reply /\ rows' = rows
    BY <1>1, <1>2
  <2> QED
    BY <1>1, <1>2, <2>1 DEF ResultRead
<1>3. CASE stream[1].kind = "result" /\ call.function = "executeCommand"
  <2>1. /\ at' = "idle" /\ rows' = rows
        /\ reply' = [status |-> packet.status, numAffected |-> packet.resultSize]
    BY <1>1, <1>3 DEF packet
  <2> QED
    BY <1>1, <1>3, <2>1 DEF ResultRead, packet
<1>4. CASE stream[1].kind = "result" /\ call.function = "executeQuery" /\ packet.rowLen = 0
  <2>1. at' = "dead" /\ reply' = reply /\ rows' = rows
    BY <1>1, <1>4 DEF packet
  <2> QED
    BY <1>1, <1>4, <2>1 DEF ResultRead, packet
<1>5. CASE stream[1].kind = "result" /\ call.function = "executeQuery" /\ packet.rowLen # 0
  <2>1. /\ at' = "open" /\ rows' = ParseData(packet)
        /\ reply' = [status |-> metadata[1].status, columns |-> metadata[2].columns]
    BY <1>1, <1>5 DEF packet
  <2> QED
    BY <1>1, <1>5, <2>1 DEF ResultRead, packet
<1> QED
  BY <1>2, <1>3, <1>4, <1>5 DEF Functions

LEMMA SizeRead ==
    ASSUME NEW c \in Cell, c.kind = "metadata"
    PROVE  Cells(c.resultPacketSize) \in Nat
<1>1. c.resultPacketSize \in Nat /\ c.resultPacketSize >= 10
  BY DEF Cell, HeaderSize
<1> QED
  BY <1>1 DEF Cells, HeaderSize, WordSize

\* Out of step, the client finds something else than a result.
LEMMA RecvResultOutOfStep ==
    ASSUME IInv, RecvResult, short, OutOfStep
    PROVE  IInv'
<1>1. /\ at = "result"
      /\ UNCHANGED <<call, metadata, calls, seen, serving, answer, selected, fate>>
  BY DEF RecvResult, serverVars
<1>2. TypeInv /\ CallInv /\ SeenInv
  BY DEF IInv
<1>3. /\ stream \in Seq(Cell) /\ \A i \in 1 .. Len(stream) : stream[i].of \in 1 .. calls
      /\ metadata \in Seq(Cell) /\ call.function \in Functions
  BY <1>1, <1>2 DEF TypeInv, CallInv
<1>4. /\ stream[1].kind = "columns" /\ metadata # <<>> /\ metadata[1].kind = "metadata"
  BY <1>1 DEF OutOfStep
<1> DEFINE length == Cells(metadata[1].resultPacketSize)
<1>5. length \in Nat
  <2>1. metadata[1] \in Cell
    BY <1>3, <1>4
  <2> QED
    BY <1>4, <2>1, SizeRead
<1>6. PICK n \in ReadSizes(length) :
          Recv(length, n) /\ ResultRead(n, DeserializeResultPacket(SubSeq(stream, 1, n)))
  BY <1>3, RecvResultCases
<1> HIDE DEF length
<1>7. n \in 1 .. Len(stream)
  BY <1>3, <1>5, <1>6, ReadBounds
<1>8. stream' = SubSeq(stream, n + 1, Len(stream)) /\ short' = TRUE
  BY <1>6 DEF Recv
<1>9. at' = "confused" /\ reply' = reply /\ rows' = rows
  BY <1>4, <1>6 DEF ResultRead
<1>10. stream' \in Seq(Cell) /\ \A i \in 1 .. Len(stream') : stream'[i].of \in 1 .. calls
  <2>1. PICK c : c = 1 .. calls
    OBVIOUS
  <2>2. \A i \in 1 .. Len(stream) : stream[i].of \in c
    BY ONLY <1>3, <2>1
  <2>3. PICK t : t = SubSeq(stream, n + 1, Len(stream))
    OBVIOUS
  <2>4. t \in Seq(Cell) /\ \A i \in 1 .. Len(t) : t[i].of \in c
    BY ONLY <1>3, <1>7, <2>2, <2>3, StreamConsumed
  <2> QED
    BY <1>8, <2>1, <2>3, <2>4
<1>11. TypeInv'
  BY <1>1, <1>2, <1>8, <1>9, <1>10 DEF TypeInv
<1>12. CallInv'
  BY <1>1, <1>2 DEF CallInv, TypeInv, AnswerFits
<1>13. PhaseInv'
  BY <1>8, <1>9 DEF PhaseInv, OutOfStep
<1>14. OpenInv' /\ ReportInv' /\ SeenInv'
  BY <1>9 DEF OpenInv, ReportInv, SeenInv
<1> QED
  BY <1>11, <1>12, <1>13, <1>14 DEF IInv

\* Reading a part of a part of a packet.
LEMMA PartOfPart ==
    ASSUME NEW p \in Seq(Cell), NEW m \in 0 .. Len(p), NEW s, s = SubSeq(p, 1, m),
           NEW n \in 1 .. m
    PROVE  /\ Len(s) = m /\ SubSeq(s, 1, n) = SubSeq(p, 1, n)
           /\ \A i \in 1 .. m : s[i] = p[i]
<1>1. m \in Nat /\ m <= Len(p) /\ n \in Nat /\ n <= m /\ Len(p) \in Nat
  OBVIOUS
<1>2. \A i \in 1 .. m : p[i] \in Cell
  BY <1>1
<1>3. s \in Seq(Cell) /\ Len(s) = m /\ \A i \in 1 .. m : s[i] = p[i]
  BY <1>1, <1>2
<1>4. \A i \in 1 .. n : s[i] \in Cell /\ p[i] \in Cell /\ s[i] = p[i]
  BY <1>1, <1>2, <1>3
<1> DEFINE x == SubSeq(s, 1, n)
           y == SubSeq(p, 1, n)
<1>5. x \in Seq(Cell) /\ Len(x) = n /\ \A i \in 1 .. n : x[i] = s[i]
  BY ONLY <1>1, <1>3, <1>4
<1>6. y \in Seq(Cell) /\ Len(y) = n /\ \A i \in 1 .. n : y[i] = p[i]
  BY ONLY <1>1, <1>4, p \in Seq(Cell)
<1> HIDE DEF x, y
<1>7. x = y
  BY ONLY <1>4, <1>5, <1>6
<1> QED
  BY <1>3, <1>7 DEF x, y

LEMMA RecvResultInPhase ==
    ASSUME IInv, RecvResult, InPhase
    PROVE  IInv'
<1> DEFINE Meta == MetaDataPacket(answer)
           Res == ResultPacket(answer)
           w == Len(Words(answer))
<1>1. /\ at = "result"
      /\ UNCHANGED <<call, metadata, calls, seen, serving, answer, selected, fate>>
  BY DEF RecvResult, serverVars
<1>2. TypeInv /\ CallInv /\ SeenInv
  BY DEF IInv
<1>3. /\ stream \in Seq(Cell) /\ \A i \in 1 .. Len(stream) : stream[i].of \in 1 .. calls
      /\ call.function \in Functions /\ calls # 0 /\ calls \in Nat
  BY <1>1, <1>2 DEF TypeInv, CallInv
<1>4. /\ metadata = Meta
      /\ \/ serving = "result" /\ stream = <<>>
         \/ /\ serving = "nothing"
            /\ \E m \in 0 .. Len(Res) : Sent(m) /\ stream = SubSeq(Res, 1, m)
  BY <1>1 DEF InPhase
<1>5. PacketsOfCall
  BY <1>2, <1>3, <1>4, PacketsTyped
<1>6. /\ Meta[1].kind = "metadata" /\ Meta[1].status = answer.status
      /\ Meta[1].resultPacketSize = ResultPacketSize(answer)
      /\ Meta[2].columns = IF answer.type = "QUERY" THEN answer.metadata ELSE <<>>
  BY <1>5 DEF PacketsOfCall, MetaDataCells
<1>7. /\ Res \in Seq(Cell) /\ Len(Res) = w + 1 /\ Cells(ResultPacketSize(answer)) = Len(Res)
      /\ Res[1].kind = "result"
      /\ \A k \in 1 .. w : Res[k + 1].kind = "data"
  <2>1. ResultCells(answer)
    BY <1>5 DEF PacketsOfCall
  <2>2. ASSUME NEW k \in 1 .. w PROVE Res[k + 1].kind = "data"
    <3>1. Res[k + 1] = [kind |-> "data", of |-> calls, word |-> ClearStatus(Words(answer)[k])]
      BY ONLY <2>1 DEF ResultCells
    <3> HIDE DEF Res
    <3> QED
      BY ONLY <3>1
  <2> QED
    BY <2>1, <2>2 DEF ResultCells
<1>8. w \in Nat /\ Len(Res) \in Nat
  BY <1>5, <1>7, WordsType DEF PacketsOfCall
<1> HIDE DEF Meta, Res, w
<1>9. PICK n \in ReadSizes(Len(Res)) :
          /\ Recv(Len(Res), n)
          /\ ResultRead(n, DeserializeResultPacket(SubSeq(stream, 1, n)))
  BY <1>3, <1>4, <1>6, <1>7, RecvResultCases
<1>10. /\ n \in 1 .. Len(stream) /\ n <= Len(Res)
       /\ Arrived(Len(Res)) = IF Len(Res) <= Len(stream) THEN Len(Res) ELSE Len(stream)
  BY <1>3, <1>8, <1>9, ReadBounds
<1>11. stream # <<>>
  BY <1>10
<1>12. PICK m \in 0 .. Len(Res) : Sent(m) /\ stream = SubSeq(Res, 1, m)
  BY <1>4, <1>11
<1>13. serving = "nothing"
  BY <1>4, <1>11
<1>14. /\ Len(stream) = m /\ n \in 1 .. m /\ SubSeq(stream, 1, n) = SubSeq(Res, 1, n)
       /\ \A i \in 1 .. m : stream[i] = Res[i]
  <2>1. m \in Nat /\ m <= Len(Res)
    BY <1>8
  <2>2. Len(stream) = m
    <3>1. \A i \in 1 .. m : Res[i] \in Cell
      BY <1>7, <1>8, <2>1
    <3> QED
      BY ONLY <1>7, <1>8, <1>12, <2>1, <3>1
  <2>3. n \in 1 .. m
    BY <1>10, <2>2
  <2> QED
    BY ONLY <1>7, <1>12, <2>3, PartOfPart
<1>15. Arrived(Len(Res)) = m /\ n \in 1 .. Len(Res) /\ m \in Nat /\ n <= m
  BY <1>8, <1>10, <1>14
<1> DEFINE packet == DeserializeResultPacket(SubSeq(stream, 1, n))
<1>16. ReadFrom(packet, answer, n)
  <2>1. AnswerOK(answer) /\ n \in 1 .. Len(ResultPacket(answer))
    BY <1>5, <1>15 DEF PacketsOfCall, Res
  <2>2. packet = DeserializeResultPacket(SubSeq(ResultPacket(answer), 1, n))
    BY <1>14 DEF Res
  <2>3. ReadFrom(DeserializeResultPacket(SubSeq(ResultPacket(answer), 1, n)), answer, n)
    BY <1>3, <2>1, PacketRead
  <2> HIDE DEF packet
  <2> QED
    BY <2>2, <2>3
<1>17. ResultRead(n, packet)
  BY <1>9
<1> HIDE DEF packet
<1>18. stream[1].kind = "result"
  <2>1. 1 \in 1 .. m
    BY <1>14, <1>15
  <2> QED
    BY <1>7, <1>14, <2>1
<1>19. stream' = SubSeq(stream, n + 1, Len(stream)) /\ short' = (short \/ n < m)
  BY <1>9, <1>15 DEF Recv
<1>20. /\ stream' \in Seq(Cell) /\ \A i \in 1 .. Len(stream') : stream'[i].of \in 1 .. calls
       /\ n = m => stream' = <<>>
       /\ n < m => stream' # <<>> /\ stream'[1] = stream[n + 1]
  <2>1. PICK c : c = 1 .. calls
    OBVIOUS
  <2>2. \A i \in 1 .. Len(stream) : stream[i].of \in c
    BY ONLY <1>3, <2>1
  <2>3. PICK t : t = SubSeq(stream, n + 1, Len(stream))
    OBVIOUS
  <2>4. /\ t \in Seq(Cell) /\ \A i \in 1 .. Len(t) : t[i].of \in c
        /\ n = Len(stream) => t = <<>>
        /\ n < Len(stream) => t # <<>> /\ t[1] = stream[n + 1]
    BY ONLY <1>3, <1>10, <2>2, <2>3, StreamConsumed
  <2> QED
    BY <1>14, <1>19, <2>1, <2>3, <2>4
<1>21. at' \in {"idle", "dead", "open"}
  BY <1>17, <1>18 DEF ResultRead
<1>22. PhaseInv'
  <2>1. CASE n = m
    <3>1. stream' = <<>> /\ serving' = "nothing"
      BY <1>1, <1>13, <1>20, <2>1
    <3> QED
      BY <1>21, <3>1 DEF InPhase, PhaseInv
  <2>2. CASE n < m
    <3>1. stream[n + 1].kind = "data"
      <4>1. n + 1 \in 1 .. m /\ n \in 1 .. w
        BY <1>7, <1>8, <1>12, <1>14, <1>15, <2>2
      <4>2. stream[n + 1] = Res[n + 1] /\ Res[n + 1].kind = "data"
        BY <1>7, <1>14, <4>1
      <4> QED
        BY <4>2
    <3>2. short' = TRUE /\ stream' # <<>> /\ stream'[1].kind = "data"
      BY <1>19, <1>20, <2>2, <3>1
    <3> QED
      BY <1>21, <3>2 DEF OutOfStep, PhaseInv
  <2> QED
    BY <1>15, <2>1, <2>2
<1>23. CallInv'
  BY <1>1, <1>2 DEF CallInv, TypeInv, AnswerFits
<1>24. SeenInv'
  BY <1>21 DEF SeenInv
<1>25. ASSUME at' = "open"
       PROVE  /\ QueryAnswer(answer) /\ answer.type = "QUERY"
              /\ reply'.columns = answer.metadata /\ rows' = ParseData(packet)
              /\ rows' \in Seq(Seq(Word))
              /\ n = w + 1 \/ fate = "cut" => RowsOf(rows', answer)
  <2>1. /\ packet.rowLen # 0 /\ rows' = ParseData(packet)
        /\ reply' = [status |-> metadata[1].status, columns |-> metadata[2].columns]
    BY <1>17, <1>18, <1>25 DEF ResultRead
  <2>2. answer.type = "QUERY" /\ packet.rowLen = Len(answer.metadata)
    BY <1>16, <2>1 DEF ReadFrom
  <2>3. QueryAnswer(answer)
    <3>1. AnswerFits /\ call.statement \in Statements
      BY <1>5 DEF PacketsOfCall
    <3> QED
      BY <2>2, <3>1, AnswerTyped
  <2>4. Len(answer.metadata) >= 1
    <3>1. Len(answer.metadata) \in Nat
      BY <2>3 DEF QueryAnswer
    <3> QED
      BY <2>1, <2>2, <3>1
  <2>5. reply'.columns = answer.metadata
    BY <1>4, <1>6, <2>1, <2>2
  <2>6. /\ ParseData(packet) \in Seq(Seq(Word))
        /\ n = w + 1 \/ fate = "cut" => RowsOf(ParseData(packet), answer)
    BY <1>15, <1>16, <2>3, <2>4, RowsParsed DEF w
  <2> QED
    BY <2>1, <2>2, <2>3, <2>5, <2>6
<1>26. TypeInv'
  <2>1. rows' \in Seq(Seq(Word)) /\ (at' = "open" => reply'.columns \in Seq(ColumnType))
    <3>1. CASE at' = "open"
      BY <1>25, <3>1 DEF QueryAnswer
    <3>2. CASE at' # "open"
      BY <1>2, <1>17, <1>18, <3>2 DEF ResultRead, TypeInv
    <3> QED
      BY <3>1, <3>2
  <2>2. short' \in BOOLEAN
    BY <1>2, <1>19 DEF TypeInv
  <2> QED
    BY <1>1, <1>2, <1>20, <1>21, <2>1, <2>2 DEF TypeInv
<1>27. ASSUME at' = "open", ~short' PROVE OpenInv'
  <2>1. n = m
    <3>1. ~(n < m)
      BY <1>19, <1>27
    <3>2. n \in Nat /\ n <= m /\ m \in Nat
      BY <1>14, <1>15
    <3> QED
      BY ONLY <3>1, <3>2
  <2>2. n = w + 1 \/ fate = "cut"
    <3>1. m # 0 /\ (m = Len(Res) \/ fate = "cut")
      BY <1>12, <1>14, <1>15 DEF Sent, Res
    <3> QED
      BY <1>7, <2>1, <3>1
  <2>3. RowsOf(rows', answer)
    BY <1>25, <1>27, <2>2
  <2>4. Len(seen) = 0
    BY <1>1, <1>2 DEF SeenInv
  <2>5. Len(answer.data) \in Nat
    BY <1>25, <1>27 DEF QueryAnswer
  <2>6. /\ Len(rows') = Len(answer.data) + 1
        /\ \A r \in 1 .. Len(answer.data) : GivenRow(rows'[r], answer.data[r])
    BY <2>3 DEF RowsOf
  <2>7. ASSUME NEW j \in 1 .. Len(rows'), j <= Len(answer.data)
        PROVE  GivenRow(rows'[j], answer.data[j])
    <3>1. j \in 1 .. Len(answer.data)
      BY <2>5, <2>6, <2>7
    <3> QED
      BY <2>6, <3>1
  <2>8. Len(rows') >= 1 /\ Len(rows') + Len(seen') = Len(answer.data) + 1
    BY <1>1, <2>4, <2>5, <2>6
  <2>9. Len(seen') = 0 /\ fate' = fate /\ answer' = answer
    BY <1>1, <2>4
  <2>10. /\ answer'.type = "QUERY" /\ reply'.columns = answer'.metadata
    BY <1>1, <1>25, <1>27
  <2> QED
    BY <2>7, <2>8, <2>9, <2>10 DEF OpenInv, GivenRow, GivenAs
<1>28. OpenInv'
  BY <1>27 DEF OpenInv
<1>29. ReportInv'
  <2> SUFFICES ASSUME at' = "idle", answer.type = "COMMAND"
               PROVE  reply' = [status |-> answer.status, numAffected |-> answer.rows_affected]
    BY <1>1 DEF ReportInv
  <2>1. reply' = [status |-> packet.status, numAffected |-> packet.resultSize]
    BY <1>17, <1>18 DEF ResultRead
  <2>2. packet.status = answer.status /\ packet.resultSize = answer.rows_affected
    BY <1>16 DEF ReadFrom, ResultSize
  <2> QED
    BY <2>1, <2>2
<1> QED
  BY <1>22, <1>23, <1>24, <1>26, <1>28, <1>29 DEF IInv

LEMMA IInvStep ==
    ASSUME IInv, [Next]_vars
    PROVE  IInv'
<1>1. CASE Call
  BY <1>1, CallKeeps
<1>2. CASE ExecuteStatement
  BY <1>2, ExecuteStatementKeeps
<1>3. CASE SendMetaData
  BY <1>3, SendMetaDataKeeps
<1>4. CASE SendData
  BY <1>4, SendDataKeeps
<1>5. CASE RecvMetaData
  BY <1>5, RecvMetaDataKeeps
<1>6. CASE RecvResult
  <2>1. InPhase \/ (short /\ OutOfStep)
    BY DEF IInv, PhaseInv
  <2> QED
    BY <1>6, <2>1, RecvResultInPhase, RecvResultOutOfStep
<1>7. CASE NextRow
  BY <1>7, NextRowKeeps
<1>8. CASE NoMoreRows
  BY <1>8, NoMoreRowsKeeps
<1>9. CASE UNCHANGED vars
  BY <1>9, StutterKeeps
<1> QED
  BY <1>1, <1>2, <1>3, <1>4, <1>5, <1>6, <1>7, <1>8, <1>9 DEF Next, Server, Client

\* The invariant holds in every state of every behaviour.
THEOREM Inductive == Spec => []IInv
<1>1. Init => IInv
  BY IInvInit
<1>2. IInv /\ [Next]_vars => IInv'
  BY IInvStep
<1> QED
  BY <1>1, <1>2, PTL DEF Spec

-----------------------------------------------------------------------------
(* What the invariant says of the connection and of the client.            *)

\* Every variable keeps its type, and no word goes out with Tervel's bits.
THEOREM WireTyped == Spec => []WireTypeOK
<1>1. IInv => WireTypeOK
  <2> SUFFICES ASSUME IInv PROVE WireTypeOK
    OBVIOUS
  <2>1. TypeInv
    BY DEF IInv
  <2>2. ASSUME NEW i \in DOMAIN stream
        PROVE  /\ stream[i].kind \in {"metadata", "columns", "result", "data"}
               /\ stream[i].of \in 1 .. calls
               /\ stream[i].kind = "data" => stream[i].word \in Word
    <3>1. i \in 1 .. Len(stream) /\ stream[i] \in Cell
      BY <2>1 DEF TypeInv
    <3>2. stream[i].of \in 1 .. calls
      BY <2>1, <3>1 DEF TypeInv
    <3> QED
      BY <3>1, <3>2 DEF Cell
  <2>3. /\ \A r \in DOMAIN rows : rows[r] \in Seq(Word)
        /\ \A r \in DOMAIN seen : seen[r] \in Seq(Word)
    BY <2>1 DEF TypeInv
  <2> QED
    BY <2>1, <2>2, <2>3 DEF TypeInv, WireTypeOK
<1> QED
  BY <1>1, Inductive, PTL

\* The client and the server agree on where a packet begins, unless some recv
\* returned less than had arrived.
THEOREM StaysInStep == Spec => []InStep
<1>1. IInv => InStep
  <2> SUFFICES ASSUME IInv, ~short PROVE InStep
    BY DEF InStep
  <2>1. TypeInv /\ CallInv /\ InPhase
    BY DEF IInv, PhaseInv
  <2>2. at # "confused" /\ (at \in {"idle", "open"} => stream = <<>> /\ serving = "nothing")
    BY <2>1 DEF InPhase
  <2>3. \A i \in DOMAIN stream : stream[i].of = calls
    <3>1. CASE stream = <<>>
      BY <3>1
    <3>2. CASE stream # <<>>
      <4>1. PacketsOfCall
        <5>1. calls # 0 /\ serving # "statement"
          BY <2>1, <3>2 DEF InPhase, CallInv
        <5> QED
          BY <2>1, <5>1, PacketsTyped
      <4> DEFINE Meta == MetaDataPacket(answer)
                 Res == ResultPacket(answer)
      <4>2. /\ Meta \in Seq(Cell) /\ Len(Meta) \in Nat /\ \A i \in 1 .. Len(Meta) : Meta[i].of = calls
            /\ Res \in Seq(Cell) /\ Len(Res) \in Nat /\ \A i \in 1 .. Len(Res) : Res[i].of = calls
        BY <4>1 DEF PacketsOfCall, MetaDataCells, ResultCells
      <4>3. \/ stream = Meta
            \/ \E m \in 0 .. Len(Res) : stream = Meta \o SubSeq(Res, 1, m)
            \/ \E m \in 0 .. Len(Res) : stream = SubSeq(Res, 1, m)
        BY <2>1, <3>2 DEF InPhase
      <4> HIDE DEF Meta, Res
      <4>4. PICK c : c = {calls}
        OBVIOUS
      <4>5. /\ \A i \in 1 .. Len(Meta) : Meta[i].of \in c
            /\ \A i \in 1 .. Len(Res) : Res[i].of \in c
        BY <4>2, <4>4
      <4>6. ASSUME NEW s \in Seq(Cell), s \in {<<>>, Meta}, NEW m \in 0 .. Len(Res)
            PROVE  /\ \A i \in 1 .. Len(s \o SubSeq(Res, 1, m)) : (s \o SubSeq(Res, 1, m))[i].of \in c
                   /\ s = <<>> => s \o SubSeq(Res, 1, m) = SubSeq(Res, 1, m)
        <5>1. \A i \in 1 .. Len(s) : s[i].of \in c
          <6>1. CASE s = <<>>
            BY <6>1
          <6>2. CASE s = Meta
            BY <4>5, <6>2
          <6> QED
            BY <4>6, <6>1, <6>2
        <5>2. Res \in Seq(Cell)
          BY <4>2
        <5>3. PICK t : t = s \o SubSeq(Res, 1, m)
          OBVIOUS
        <5>4. m \in 0 .. Len(Res) /\ s \in Seq(Cell)
          OBVIOUS
        <5>5. \A i \in 1 .. Len(Res) : Res[i].of \in c
          BY ONLY <4>5
        <5>6. /\ \A i \in 1 .. Len(t) : t[i].of \in c
              /\ s = <<>> => t = SubSeq(Res, 1, m)
          BY ONLY <5>1, <5>2, <5>3, <5>4, <5>5, StreamExtended
        <5> QED
          BY ONLY <5>3, <5>6
      <4>7. \A i \in 1 .. Len(stream) : stream[i].of \in c
        <5>1. CASE stream = Meta
          BY <4>5, <5>1
        <5>2. CASE \E m \in 0 .. Len(Res) : stream = Meta \o SubSeq(Res, 1, m)
          BY <4>2, <4>6, <5>2
        <5>3. CASE \E m \in 0 .. Len(Res) : stream = SubSeq(Res, 1, m)
          <6>1. PICK m \in 0 .. Len(Res) : stream = SubSeq(Res, 1, m)
            BY <5>3
          <6>2. <<>> \in Seq(Cell)
            OBVIOUS
          <6>3. stream = <<>> \o SubSeq(Res, 1, m)
            BY <4>6, <6>1, <6>2
          <6> QED
            BY <4>6, <6>2, <6>3
        <5> QED
          BY <4>3, <5>1, <5>2, <5>3
      <4>8. stream \in Seq(Cell)
        BY <2>1 DEF TypeInv
      <4> QED
        BY <4>4, <4>7, <4>8
    <3> QED
      BY <3>1, <3>2
  <2> QED
    BY <2>2, <2>3 DEF InStep
<1> QED
  BY <1>1, Inductive, PTL

\* A table names no two columns alike, so that a name asks for one of them.
DistinctColumns ==
    \A c, d \in DOMAIN Columns : Columns[c] = Columns[d] => c = d

\* What the cursor has shown and will show, in this order.
Shown == seen \o Reverse(Front(rows))

LEMMA ShownRows ==
    ASSUME TypeInv, OpenInv, at = "open", ~short, QueryAnswer(answer)
    PROVE  /\ Len(Shown) = Len(answer.data) /\ DOMAIN Shown = 1 .. Len(answer.data)
           /\ \A j \in 1 .. Len(answer.data) :
                 GivenRow(Shown[j], answer.data[Len(answer.data) + 1 - j])
<1>1. PICK l, k, r : l = Len(rows) /\ k = Len(seen) /\ r = Len(answer.data)
  OBVIOUS
<1>2. /\ rows \in Seq(Seq(Word)) /\ seen \in Seq(Seq(Word))
      /\ l \in Nat /\ k \in Nat /\ r \in Nat
  BY <1>1 DEF TypeInv, QueryAnswer
<1>3. /\ l >= 1 /\ l + k = r + 1
      /\ \A j \in 1 .. l : j <= r => GivenRow(rows[j], answer.data[j])
      /\ \A j \in 1 .. k : GivenRow(seen[j], answer.data[r + 1 - j])
  BY <1>1 DEF OpenInv
<1>4. l - 1 \in Nat /\ k + (l - 1) = r
  BY ONLY <1>2, <1>3
<1> DEFINE front == Front(rows)
           back == Reverse(front)
<1>5. front \in Seq(Seq(Word)) /\ Len(front) = l - 1 /\ \A j \in 1 .. l - 1 : front[j] = rows[j]
  <2>1. PICK t : t = SubSeq(rows, 1, l - 1)
    OBVIOUS
  <2>2. \A j \in 1 .. l - 1 : rows[j] \in Seq(Word)
    BY ONLY <1>1, <1>2, <1>4
  <2>3. t \in Seq(Seq(Word)) /\ Len(t) = l - 1 /\ \A j \in 1 .. l - 1 : t[j] = rows[j]
    BY ONLY <1>1, <1>2, <1>4, <2>1, <2>2
  <2> QED
    BY <1>1, <2>1, <2>3 DEF Front
<1> HIDE DEF front
<1>6. /\ back \in Seq(Seq(Word)) /\ Len(back) = l - 1
      /\ \A j \in 1 .. l - 1 : back[j] = rows[l - j]
  <2>1. back = [j \in 1 .. l - 1 |-> front[(l - 1) - j + 1]]
    BY <1>5 DEF Reverse
  <2>2. \A j \in 1 .. l - 1 : (l - 1) - j + 1 \in 1 .. l - 1 /\ (l - 1) - j + 1 = l - j
    BY <1>2, <1>4
  <2>3. \A j \in 1 .. l - 1 : front[j] \in Seq(Word)
    BY <1>5
  <2> HIDE DEF back
  <2>4. back \in [1 .. l - 1 -> Seq(Word)]
    BY ONLY <2>1, <2>2, <2>3
  <2>5. back \in Seq(Seq(Word)) /\ Len(back) = l - 1
    BY <1>4, <2>4, FunctionIsSeq
  <2>6. ASSUME NEW j \in 1 .. l - 1 PROVE back[j] = rows[l - j]
    BY <1>5, <2>1, <2>2
  <2> QED
    BY <2>5, <2>6
<1> HIDE DEF back
<1>7. seen \o back \in Seq(Seq(Word)) /\ Behind(seen, k, back, l - 1)
  BY ONLY <1>1, <1>2, <1>4, <1>6, ConcatParts
<1>8. PICK shown : shown = seen \o back
  OBVIOUS
<1>9. /\ shown \in Seq(Seq(Word)) /\ Len(shown) = r
      /\ \A j \in 1 .. k : shown[j] = seen[j]
      /\ \A j \in 1 .. l - 1 : shown[k + j] = back[j]
  BY ONLY <1>4, <1>7, <1>8 DEF Behind
<1>10. ASSUME NEW j \in 1 .. r PROVE GivenRow(shown[j], answer.data[r + 1 - j])
  <2>1. CASE j \in 1 .. k
    BY <1>3, <1>9, <2>1
  <2>2. CASE j \notin 1 .. k
    <3>1. PICK i : i = j - k
      OBVIOUS
    <3>2. i \in 1 .. l - 1 /\ k + i = j /\ l - i = r + 1 - j
      BY ONLY <1>2, <1>4, <2>2, <3>1, j \in 1 .. r
    <3>3. l - i \in 1 .. l /\ l - i <= r
      BY ONLY <1>2, <1>4, <3>2
    <3>4. shown[j] = rows[l - i]
      BY <1>6, <1>9, <3>2
    <3>5. GivenRow(rows[l - i], answer.data[l - i])
      BY <1>3, <3>3
    <3> QED
      BY <3>2, <3>4, <3>5
  <2> QED
    BY <2>1, <2>2
<1>11. shown = Shown
  BY <1>8 DEF Shown, back, front
<1>12. DOMAIN shown = 1 .. r
  BY <1>9
<1> QED
  BY <1>1, <1>9, <1>10, <1>11, <1>12

\* A query's cursor shows every record the server selected once, the last first,
\* with the columns that the text asks for; a command reports its count of rows.
THEOREM ReportsAnswers ==
    ASSUME DistinctColumns
    PROVE  Spec => []AnswerReported
<1>1. IInv => AnswerReported
  <2> SUFFICES ASSUME IInv PROVE AnswerReported
    OBVIOUS
  <2>1. TypeInv /\ CallInv /\ OpenInv /\ ReportInv /\ (InPhase \/ short)
    BY DEF IInv, PhaseInv
  <2>2. ASSUME at = "open", ~short
        PROVE  LET items == Expanded(call.statement.list)
               IN /\ Len(Shown) = Len(selected)
                  /\ Len(reply.columns) = Len(items)
                  /\ \A i \in DOMAIN items :
                        /\ reply.columns[i].name = OutputName(items[i])
                        /\ items[i].column \in Range(Columns) =>
                              \A r \in DOMAIN Shown :
                                  GivenAs(Shown[r][i],
                                          Asked(Reverse(selected)[r], items[i].column))
    <3>1. calls # 0 /\ serving # "statement"
      BY <2>1, <2>2 DEF CallInv, InPhase
    <3>2. AnswerFits /\ call.statement \in Statements
      BY <2>1, <3>1 DEF CallInv, TypeInv
    <3>3. answer.type = "QUERY" /\ reply.columns = answer.metadata
      BY <2>1, <2>2 DEF OpenInv
    <3>4. QueryAnswer(answer) /\ selected \in Seq(Record)
      BY <3>2, <3>3, AnswerTyped
    <3> DEFINE e == Expanded(call.statement.list)
    <3> HIDE DEF e
    <3>5. PICK q : Fits(q, e) /\ Shows(answer, q, selected)
      BY <3>2, <3>3, AnswerTyped DEF e
    <3>6. PICK r, m : r = Len(answer.data) /\ m = Len(answer.metadata)
      OBVIOUS
    <3>7. /\ Len(Shown) = r /\ DOMAIN Shown = 1 .. r
          /\ \A j \in 1 .. r : GivenRow(Shown[j], answer.data[r + 1 - j])
      BY <2>1, <2>2, <3>4, <3>6, ShownRows
    <3>8. /\ r \in Nat /\ m \in Nat /\ \A j \in 1 .. r : Len(answer.data[j]) = m
      BY <3>4, <3>6 DEF QueryAnswer
    <3>9. /\ e \in Seq(Item) /\ q.source_columns \in Seq(DOMAIN Columns)
          /\ Len(q.source_columns) = m /\ Len(e) = m /\ r = Len(selected)
          /\ \A i \in 1 .. m : answer.metadata[i].name = OutputName(e[i])
          /\ \A i \in 1 .. m : e[i].column \in Range(Columns) =>
                Columns[q.source_columns[i]] = e[i].column
          /\ \A j \in 1 .. r : \A i \in 1 .. m :
                answer.data[j][i] = selected[j][q.source_columns[i]]
      BY <3>5, <3>6 DEF Fits, Shows, QueryType
    <3>10. DOMAIN e = 1 .. m
      BY <3>9
    <3>11. ASSUME NEW i \in 1 .. m, e[i].column \in Range(Columns), NEW j \in 1 .. r
           PROVE  GivenAs(Shown[j][i], Asked(Reverse(selected)[j], e[i].column))
      <4>1. PICK h : h = r + 1 - j
        OBVIOUS
      <4>2. h \in 1 .. r /\ (r - j) + 1 = h
        BY <3>8, <4>1
      <4>3. Reverse(selected)[j] = selected[h]
        BY <3>9, <4>2 DEF Reverse
      <4>4. PICK c : c = q.source_columns[i]
        OBVIOUS
      <4>5. c \in DOMAIN Columns /\ Columns[c] = e[i].column
        BY <3>9, <3>11, <4>4
      <4>6. (CHOOSE d \in DOMAIN Columns : Columns[d] = e[i].column) = c
        BY <4>5 DEF DistinctColumns
      <4>7. Asked(Reverse(selected)[j], e[i].column) = answer.data[h][i]
        <5>1. answer.data[h][i] = selected[h][c]
          BY <3>9, <4>2, <4>4
        <5>2. Asked(selected[h], e[i].column) = selected[h][c]
          BY <4>6 DEF Asked
        <5> QED
          BY ONLY <4>3, <5>1, <5>2
      <4>8. GivenRow(Shown[j], answer.data[h])
        BY <3>7, <4>1
      <4>9. GivenAs(Shown[j][i], answer.data[h][i])
        BY <3>8, <4>2, <4>8 DEF GivenRow
      <4> QED
        BY <4>7, <4>9
    <3>12. \A i \in DOMAIN e : reply.columns[i].name = OutputName(e[i])
      BY <3>3, <3>9, <3>10
    <3> QED
      BY <3>3, <3>6, <3>7, <3>9, <3>10, <3>11, <3>12 DEF e
  <2> QED
    BY <2>1, <2>2 DEF AnswerReported, ReportInv, Shown
<1> QED
  BY <1>1, Inductive, PTL
=============================================================================
