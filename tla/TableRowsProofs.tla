--------------------------- MODULE TableRowsProofs --------------------------
(***************************************************************************)
(* Proofs about TableRows for any number of threads, any statements and    *)
(* any initial rows: type correctness, that no inserted row is ever in two *)
(* slots, and that a deleted row never returns.                            *)
(***************************************************************************)
EXTENDS TableRows, TLAPS

\* What the program counter says of a thread's locals: while it works through
\* its references there is one left, and the row it inserts or merges has a
\* value or Null for every column.
LocalOK(t) ==
    /\ pc[t] \in {"idle", "search", "searchCheck"} => ref[t] = 1
    /\ pc[t] \in {"size", "find", "findCheck", "cas", "erase"}
           => ref[t] <= Len(record_refs[t])
    /\ pc[t] = "count" => request[t].row \in RowData
    /\ request[t].kind = "UPDATE" => request[t].row \in RowData
    /\ pc[t] = "push" => retrieved[t] # NoVersion

LocalsOK == \A t \in Threads : LocalOK(t)

TypeInv == TypeOK /\ LocalsOK

\* schemaChecker fills every column with a value of the column type or Null.
LEMMA CheckedType ==
    ASSUME NEW row \in RowData, NEW n \in Nat
    PROVE  Checked(row, n) \in RowData
<1>1. ASSUME NEW c \in Columns
      PROVE  (IF Setters(row, c) = {} THEN row[c]
              ELSE IF Constraints[c][LastSetter(row, c)] = "AUTO_INCREMENT"
                   THEN n + 1 ELSE DefaultOf[c]) \in Datum
  <2>1. row[c] \in Datum /\ DefaultOf[c] \in Datum
    BY <1>1, DefaultAssumption DEF RowData
  <2>2. n + 1 \in Datum
    BY DEF Datum
  <2> QED
    BY <2>1, <2>2
<1> QED
  BY <1>1 DEF Checked, RowData

\* updateRecord fills every column too.
LEMMA MergeType ==
    ASSUME NEW old \in RowData, NEW new \in RowData
    PROVE  Merge(old, new) \in RowData
BY DEF Merge, RowData

\* A new record of either kind has the type of a record.
LEMMA NewVersionType ==
    ASSUME NEW data \in RowData, NEW n \in Nat
    PROVE  NewVersion(data, n) \in VersionType
BY DEF NewVersion, VersionType, IdShift

LEMMA UpdatedVersionType ==
    ASSUME TypeOK, NEW v \in 1 .. Len(versions), NEW row \in RowData
    PROVE  UpdatedVersion(v, row) \in VersionType
<1>1. versions[v] \in VersionType
  BY DEF TypeOK
<1>2. IdOf(v) \in Nat
  BY <1>1 DEF IdOf, VersionType, IdShift
<1> QED
  BY <1>1, <1>2, MergeType DEF UpdatedVersion, VersionType

\* What is not null is an allocated record.
LEMMA SlotRange ==
    ASSUME TypeOK
    PROVE  /\ Len(versions) \in Nat
           /\ \A i \in DOMAIN records : i \in Nat /\ records[i] \in 0 .. Len(versions)
           /\ \A i \in DOMAIN records : records[i] # NoVersion =>
                  records[i] \in 1 .. Len(versions)
<1>1. records \in Seq(0 .. Len(versions)) /\ versions \in Seq(VersionType)
  BY DEF TypeOK
<1>2. Len(versions) \in Nat
  BY <1>1
<1>3. \A i \in DOMAIN records : i \in Nat /\ records[i] \in 0 .. Len(versions)
  BY <1>1
<1> QED
  BY <1>2, <1>3 DEF NoVersion

LEMMA RetrievedRange ==
    ASSUME TypeOK, NEW t \in Threads, retrieved[t] # NoVersion
    PROVE  retrieved[t] \in 1 .. Len(versions)
<1>1. retrieved[t] \in 0 .. Len(versions)
  BY DEF TypeOK
<1> QED
  BY <1>1, SlotRange DEF NoVersion

LEMMA RefRange ==
    ASSUME TypeOK, NEW t \in Threads
    PROVE  /\ record_refs[t] \in Seq(1 .. Len(versions))
           /\ ref[t] \in Nat \ {0}
           /\ \A k \in DOMAIN record_refs[t] : record_refs[t][k] \in 1 .. Len(versions)
           /\ ref[t] <= Len(record_refs[t]) => CurrentRef(t) \in 1 .. Len(versions)
<1>1. record_refs[t] \in Seq(1 .. Len(versions)) /\ ref[t] \in Nat \ {0}
  BY DEF TypeOK
<1>2. \A k \in DOMAIN record_refs[t] : record_refs[t][k] \in 1 .. Len(versions)
  BY <1>1
<1>3. ref[t] <= Len(record_refs[t]) => ref[t] \in DOMAIN record_refs[t]
  BY <1>1
<1> QED
  BY <1>1, <1>2, <1>3 DEF CurrentRef

-----------------------------------------------------------------------------
\* The table and every thread's locals have their types in every reachable
\* state: a slot is null or an allocated record, a reference is a record.
THEOREM InitType == Init => TypeInv
<1> SUFFICES ASSUME Init PROVE TypeInv
  OBVIOUS
<1>1. \A i \in DOMAIN Preloaded : Preloaded[i] \in RowData /\ i - 1 \in Nat
  BY PreloadedAssumption
<1>2. versions \in Seq(VersionType) /\ Len(versions) = Len(Preloaded)
  <2>1. \A i \in DOMAIN Preloaded : NewVersion(Preloaded[i], i - 1) \in VersionType
    BY <1>1, NewVersionType
  <2>2. Len(Preloaded) \in Nat /\ DOMAIN Preloaded = 1 .. Len(Preloaded)
    BY PreloadedAssumption
  <2> QED
    BY <2>1, <2>2 DEF Init
<1> DEFINE n == Len(Preloaded)
<1>a. n \in Nat /\ DOMAIN Preloaded = 1 .. n
  BY PreloadedAssumption
<1>b. records = [i \in 1 .. n |-> i]
  BY <1>a DEF Init
<1>c. \A i \in 1 .. n : i \in 0 .. n
  BY <1>a
<1> HIDE DEF n
<1>d. [i \in 1 .. n |-> i] \in Seq(0 .. n)
  BY <1>a, <1>c
<1>3. records \in Seq(0 .. Len(versions))
  BY <1>2, <1>b, <1>d DEF n
<1>4. NoStatement \in StatementType
  BY DEF NoStatement, StatementType, Kinds, Predicates, StatementRow
<1>5. TypeOK
  <2>1. Len(versions) \in Nat /\ record_counter \in Nat
    BY <1>2, PreloadedAssumption DEF Init
  <2>2. /\ retrieved \in [Threads -> 0 .. Len(versions)]
        /\ record_refs \in [Threads -> Seq(1 .. Len(versions))]
    BY <2>1 DEF Init, NoVersion
  <2>3. /\ pc \in [Threads -> Pcs]
        /\ request \in [Threads -> StatementType]
        /\ table_len \in [Threads -> Nat] /\ idx \in [Threads -> Nat \ {0}]
        /\ ref \in [Threads -> Nat \ {0}] /\ num_affected \in [Threads -> Nat]
        /\ taken \in [Threads -> 0 .. MaxRequests]
    BY <1>4, MaxRequestsAssumption DEF Init, Pcs
  <2> QED
    BY <1>2, <1>3, <2>1, <2>2, <2>3 DEF Init, TypeOK
<1>6. LocalsOK
  BY DEF Init, LocalsOK, LocalOK, NoStatement
<1> QED
  BY <1>5, <1>6 DEF TypeInv

LEMMA BeginType ==
    ASSUME TypeInv, NEW t \in Threads, NEW r \in StatementType,
           NEW label \in Pcs,
           NEW s \in {"SUCCESS", "ERR", "ERR_FAILED_CONSTRAINT"},
           Begin(t, r, label, s)
    PROVE  /\ request' \in [Threads -> StatementType]
           /\ pc' \in [Threads -> Pcs]
           /\ num_affected' \in [Threads -> Nat]
           /\ status' \in [Threads -> {"SUCCESS", "ERR", "ERR_FAILED_CONSTRAINT",
                                       "ERR_PARTIAL_CONTENTION"}]
           /\ taken' \in [Threads -> 0 .. MaxRequests]
BY MaxRequestsAssumption DEF TypeInv, TypeOK, Begin, Goto

\* A step of one thread leaves the locals of the others alone.
OthersKept(t) ==
    \A u \in Threads \ {t} :
        /\ pc'[u] = pc[u] /\ request'[u] = request[u] /\ ref'[u] = ref[u]
        /\ record_refs'[u] = record_refs[u] /\ retrieved'[u] = retrieved[u]

LEMMA Frame ==
    ASSUME LocalsOK, NEW t \in Threads, OthersKept(t), LocalOK(t)'
    PROVE  LocalsOK'
<1> SUFFICES ASSUME NEW u \in Threads PROVE LocalOK(u)'
  BY DEF LocalsOK
<1>1. CASE u = t
  BY <1>1
<1>2. CASE u # t
  BY <1>2 DEF LocalsOK, LocalOK, OthersKept
<1> QED
  BY <1>1, <1>2

\* The two loops keep the types of what they advance.
LEMMA SearchOnType ==
    ASSUME TypeInv, NEW t \in Threads, pc[t] \in {"search", "searchCheck"},
           NEW refs \in Seq(1 .. Len(versions)), SearchOn(t, refs)
    PROVE  /\ pc' \in [Threads -> Pcs]
           /\ pc'[t] \in {"search", "done", "size"}
           /\ pc'[t] = "size" => ref[t] <= Len(refs)
           /\ \A u \in Threads \ {t} :
                  pc'[u] = pc[u] /\ record_refs'[u] = record_refs[u]
           /\ record_refs'[t] = refs
           /\ idx' \in [Threads -> Nat \ {0}]
           /\ record_refs' \in [Threads -> Seq(1 .. Len(versions))]
<1>1. /\ pc \in [Threads -> Pcs] /\ idx \in [Threads -> Nat \ {0}]
      /\ record_refs \in [Threads -> Seq(1 .. Len(versions))]
      /\ ref[t] = 1
  BY DEF TypeInv, TypeOK, LocalsOK, LocalOK
<1>2. record_refs' = [record_refs EXCEPT ![t] = refs]
  BY DEF SearchOn
<1>3. PICK label \in {"search", "done", "size"} :
        pc' = [pc EXCEPT ![t] = label] /\ (label = "size" => refs # <<>>)
  BY DEF SearchOn, Goto
<1>4. idx' = idx \/ idx' = [idx EXCEPT ![t] = @ + 1]
  BY DEF SearchOn
<1>5. refs # <<>> => 1 <= Len(refs)
  OBVIOUS
<1>6. pc' \in [Threads -> Pcs] /\ pc'[t] = label
  BY <1>1, <1>3 DEF Pcs
<1>7. /\ record_refs'[t] = refs
      /\ record_refs' \in [Threads -> Seq(1 .. Len(versions))]
  BY <1>1, <1>2
<1>8. \A u \in Threads \ {t} : pc'[u] = pc[u] /\ record_refs'[u] = record_refs[u]
  BY <1>1, <1>2, <1>3
<1>9. idx' \in [Threads -> Nat \ {0}]
  <2>1. idx[t] + 1 \in Nat \ {0}
    BY <1>1
  <2> QED
    BY <1>1, <1>4, <2>1
<1> QED
  BY <1>1, <1>3, <1>5, <1>6, <1>7, <1>8, <1>9

LEMMA FindOnType ==
    ASSUME TypeInv, NEW t \in Threads,
           pc[t] \in {"find", "findCheck", "cas", "erase"}, FindOn(t)
    PROVE  /\ pc' \in [Threads -> Pcs]
           /\ pc'[t] \in {"find", "done", "size"}
           /\ pc'[t] # "done" => ref'[t] <= Len(record_refs[t])
           /\ \A u \in Threads \ {t} : pc'[u] = pc[u] /\ ref'[u] = ref[u]
           /\ idx' \in [Threads -> Nat \ {0}]
           /\ ref' \in [Threads -> Nat \ {0}]
<1>1. /\ pc \in [Threads -> Pcs] /\ idx \in [Threads -> Nat \ {0}]
      /\ ref \in [Threads -> Nat \ {0}] /\ Len(record_refs[t]) \in Nat
      /\ ref[t] <= Len(record_refs[t])
  BY DEF TypeInv, TypeOK, LocalsOK, LocalOK
<1>2. PICK label \in {"find", "done", "size"} : pc' = [pc EXCEPT ![t] = label]
  BY DEF FindOn, Goto
<1>3. idx' = idx \/ idx' = [idx EXCEPT ![t] = @ + 1]
  BY DEF FindOn
<1>4. ref' = ref \/ ref' = [ref EXCEPT ![t] = @ + 1]
  BY DEF FindOn
<1>5. pc'[t] # "done" => ref'[t] <= Len(record_refs[t])
  BY <1>1 DEF FindOn, Goto
<1>6. pc' \in [Threads -> Pcs] /\ pc'[t] = label
  BY <1>1, <1>2 DEF Pcs
<1>7. \A u \in Threads \ {t} : pc'[u] = pc[u] /\ ref'[u] = ref[u]
  BY <1>1, <1>2, <1>4
<1>8. idx' \in [Threads -> Nat \ {0}] /\ ref' \in [Threads -> Nat \ {0}]
  BY <1>1, <1>3, <1>4
<1> QED
  BY <1>2, <1>5, <1>6, <1>7, <1>8

\* Allocating a record only adds pointers.
LEMMA Widen ==
    ASSUME NEW m \in Nat, NEW n \in Nat, m <= n
    PROVE  /\ \A s \in Seq(0 .. m) : s \in Seq(0 .. n)
           /\ \A f \in [Threads -> 0 .. m] : f \in [Threads -> 0 .. n]
           /\ \A f \in [Threads -> Seq(1 .. m)] : f \in [Threads -> Seq(1 .. n)]
<1>1. 0 .. m \subseteq 0 .. n /\ 1 .. m \subseteq 1 .. n
  OBVIOUS
<1>2. \A S, T : S \subseteq T => \A s \in Seq(S) : s \in Seq(T)
  OBVIOUS
<1> QED
  BY <1>1, <1>2

\* An action that starts a statement keeps the type of every local.
LEMMA BeginLocals ==
    ASSUME TypeInv, NEW t \in Threads, NEW r \in StatementType,
           NEW label \in {"done", "search", "count"}, NEW s,
           Begin(t, r, label, s), UNCHANGED <<ref, record_refs, retrieved>>,
           r.kind = "UPDATE" => r.row \in RowData,
           label = "count" => r.row \in RowData
    PROVE  LocalsOK'
<1>1. /\ pc[t] = "idle" /\ pc' = [pc EXCEPT ![t] = label]
      /\ request' = [request EXCEPT ![t] = r]
  BY DEF Begin, Goto
<1>2. OthersKept(t)
  BY <1>1 DEF OthersKept, TypeInv, TypeOK
<1>3. pc'[t] = label /\ request'[t] = r /\ ref'[t] = 1
  BY <1>1 DEF TypeInv, TypeOK, LocalsOK, LocalOK
<1>4. LocalOK(t)'
  BY <1>3 DEF LocalOK
<1> QED
  BY <1>2, <1>4, Frame DEF TypeInv

\* The reply of a statement under way.
ReplyType ==
    /\ num_affected' \in [Threads -> Nat]
    /\ status' \in [Threads -> {"SUCCESS", "ERR", "ERR_FAILED_CONSTRAINT",
                                "ERR_PARTIAL_CONTENTION"}]

LEMMA SucceedType ==
    ASSUME TypeOK, NEW t \in Threads, Succeed(t)
    PROVE  ReplyType
<1>1. num_affected[t] + 1 \in Nat
  BY DEF TypeOK
<1> QED
  BY <1>1 DEF TypeOK, Succeed, ReplyType

LEMMA ContentionType ==
    ASSUME TypeOK, NEW t \in Threads, Contention(t)
    PROVE  ReplyType
BY DEF TypeOK, Contention, ReplyType

\* What eraseAt leaves: the slots before i, and the slots behind it moved up.
LEMMA EraseAtSlots ==
    ASSUME TypeOK, NEW i \in DOMAIN records
    PROVE  /\ EraseAt(i) \in Seq(0 .. Len(versions))
           /\ Len(EraseAt(i)) = Len(records) - 1
           /\ \A j \in DOMAIN EraseAt(i) :
                 /\ (IF j < i THEN j ELSE j + 1) \in DOMAIN records
                 /\ EraseAt(i)[j] = records[IF j < i THEN j ELSE j + 1]
<1> DEFINE S == 0 .. Len(versions)
<1>1. records \in Seq(S) /\ i \in 1 .. Len(records) /\ Len(records) \in Nat
  BY DEF TypeOK
<1> HIDE DEF S
<1>2. /\ SubSeq(records, 1, i - 1) \in Seq(S)
      /\ Len(SubSeq(records, 1, i - 1)) = i - 1
      /\ \A j \in 1 .. (i - 1) : SubSeq(records, 1, i - 1)[j] = records[j]
  BY <1>1
<1>3. /\ SubSeq(records, i + 1, Len(records)) \in Seq(S)
      /\ Len(SubSeq(records, i + 1, Len(records))) = Len(records) - i
      /\ \A j \in 1 .. (Len(records) - i) :
            SubSeq(records, i + 1, Len(records))[j] = records[i + j]
  BY <1>1
<1> DEFINE a == SubSeq(records, 1, i - 1)
           b == SubSeq(records, i + 1, Len(records))
<1>4. EraseAt(i) = a \o b
  BY DEF EraseAt, RemoveAt
<1> HIDE DEF a, b
<1>5. /\ a \o b \in Seq(S) /\ Len(a \o b) = Len(a) + Len(b)
      /\ \A j \in 1 .. Len(a) + Len(b) :
            (a \o b)[j] = IF j <= Len(a) THEN a[j] ELSE b[j - Len(a)]
  <2>1. a \in Seq(S) /\ b \in Seq(S)
    BY <1>2, <1>3 DEF a, b
  <2> QED
    BY <2>1
<1>6. /\ Len(a) = i - 1 /\ Len(b) = Len(records) - i
      /\ \A j \in 1 .. (i - 1) : a[j] = records[j]
      /\ \A j \in 1 .. (Len(records) - i) : b[j] = records[i + j]
  BY <1>2, <1>3 DEF a, b
<1>7. Len(a \o b) = Len(records) - 1
  BY <1>1, <1>5, <1>6
<1>8. ASSUME NEW j \in 1 .. (Len(records) - 1)
      PROVE  /\ (IF j < i THEN j ELSE j + 1) \in DOMAIN records
             /\ (a \o b)[j] = records[IF j < i THEN j ELSE j + 1]
  <2>1. CASE j < i
    <3>1. j \in 1 .. (i - 1) /\ j \in DOMAIN records
      BY <1>1, <2>1
    <3>2. j \in 1 .. Len(a) + Len(b) /\ j <= Len(a)
      BY <1>1, <1>6, <2>1
    <3>3. (a \o b)[j] = a[j]
      BY <1>5, <3>2
    <3>4. a[j] = records[j]
      BY <1>6, <3>1
    <3> QED
      BY <2>1, <3>1, <3>3, <3>4
  <2>2. CASE ~(j < i)
    <3>1. j - (i - 1) \in 1 .. (Len(records) - i)
      BY <1>1, <2>2
    <3>2. (a \o b)[j] = b[j - (i - 1)]
      <4>1. j \in 1 .. Len(a) + Len(b) /\ ~(j <= Len(a)) /\ Len(a) = i - 1
        BY <1>1, <1>6, <2>2
      <4> QED
        BY <1>5, <4>1
    <3>3. b[j - (i - 1)] = records[i + (j - (i - 1))]
      BY <1>6, <3>1
    <3>4. i + (j - (i - 1)) = j + 1
      BY <1>1
    <3> QED
      BY <1>1, <2>2, <3>2, <3>3, <3>4
  <2> QED
    BY <2>1, <2>2
<1>9. DOMAIN (a \o b) = 1 .. (Len(records) - 1)
  BY <1>1, <1>5, <1>7
<1> QED
  BY <1>4, <1>5, <1>7, <1>8, <1>9 DEF S

LEMMA TypeStep ==
    ASSUME TypeInv, Next
    PROVE  TypeInv'
<1> USE DEF TypeInv
<1>0. PICK t \in Threads :
        RejectRow(t) \/ CheckRow(t) \/ BeginScan(t) \/ RefuseFullTable(t) \/ Step(t)
  BY DEF Next
<1>1. CASE RejectRow(t)
  <2>1. PICK r \in Requests[t] :
          /\ r.kind = "INSERT"
          /\ Begin(t, r, "done", "ERR_FAILED_CONSTRAINT")
          /\ UNCHANGED <<tableVars, scanVars>>
    BY <1>1 DEF RejectRow
  <2>2. TypeOK'
    BY <2>1, BeginType, RequestsAssumption DEF TypeOK, tableVars, scanVars, Pcs
  <2>3. LocalsOK'
    BY <2>1, BeginLocals, RequestsAssumption DEF scanVars
  <2> QED
    BY <2>2, <2>3
<1>2. CASE CheckRow(t)
  <2> DEFINE checked(r) == [r EXCEPT !.row = Checked(r.row, record_counter)]
  <2>1. PICK r \in Requests[t] :
          /\ r.kind = "INSERT" /\ Accepted(r.row)
          /\ Begin(t, checked(r), "count", "SUCCESS")
          /\ UNCHANGED <<tableVars, scanVars>>
    BY <1>2 DEF CheckRow
  <2>2. r \in StatementType /\ r.row \in RowData
    <3>1. r \in StatementType /\ DOMAIN r.row # {}
      BY <2>1, RequestsAssumption, ColumnsAssumption DEF Accepted
    <3>2. r.row # NoRow
      BY <3>1 DEF NoRow
    <3> QED
      BY <3>1, <3>2 DEF StatementType, StatementRow
  <2>3. Checked(r.row, record_counter) \in RowData
    BY <2>2, CheckedType DEF TypeOK
  <2>4. checked(r) \in StatementType /\ checked(r).row \in RowData
    BY <2>2, <2>3 DEF StatementType, StatementRow
  <2> HIDE DEF checked
  <2>5. TypeOK'
    BY <2>1, <2>4, BeginType DEF TypeOK, tableVars, scanVars, Pcs
  <2>6. LocalsOK'
    BY <2>1, <2>4, BeginLocals DEF scanVars
  <2> QED
    BY <2>5, <2>6
<1>3. CASE BeginScan(t)
  <2> DEFINE label == IF records = <<>> THEN "done" ELSE "search"
  <2>1. PICK r \in Requests[t] :
          /\ r.kind # "INSERT"
          /\ Begin(t, r, label, "SUCCESS")
          /\ table_len' = [table_len EXCEPT ![t] = Len(records)]
          /\ UNCHANGED <<tableVars, idx, retrieved, record_refs, ref>>
    BY <1>3 DEF BeginScan
  <2>2. label \in Pcs /\ label \in {"done", "search"}
    BY DEF Pcs
  <2> HIDE DEF label
  <2>3. r \in StatementType /\ (r.kind = "UPDATE" => r.row \in RowData)
    BY RequestsAssumption
  <2>4. table_len' \in [Threads -> Nat]
    BY <2>1 DEF TypeOK
  <2>5. TypeOK'
    BY <2>1, <2>2, <2>3, <2>4, BeginType DEF TypeOK, tableVars
  <2>6. LocalsOK'
    BY <2>1, <2>2, <2>3, BeginLocals
  <2> QED
    BY <2>5, <2>6
<1>4. CASE RefuseFullTable(t)
  <2>1. PICK r \in Requests[t] :
          /\ Begin(t, r, "done", "ERR")
          /\ UNCHANGED <<tableVars, scanVars>>
    BY <1>4 DEF RefuseFullTable
  <2>2. TypeOK'
    BY <2>1, BeginType, RequestsAssumption DEF TypeOK, tableVars, scanVars, Pcs
  <2>3. LocalsOK'
    BY <2>1, BeginLocals, RequestsAssumption DEF scanVars
  <2> QED
    BY <2>2, <2>3
<1>5. CASE CountRow(t)
  <2>1. request[t].row \in RowData
    BY <1>5 DEF CountRow, Running, LocalsOK, LocalOK
  <2>2. NewVersion(request[t].row, record_counter) \in VersionType
    BY <2>1, NewVersionType DEF TypeOK
  <2> DEFINE v == NewVersion(request[t].row, record_counter)
  <2>3. /\ versions' = Append(versions, v)
        /\ retrieved' = [retrieved EXCEPT ![t] = Len(versions) + 1]
        /\ record_counter' = record_counter + 1
        /\ pc' = [pc EXCEPT ![t] = "push"]
        /\ UNCHANGED <<records, crashed, request, table_len, idx, record_refs, ref,
                       num_affected, status, taken>>
    BY <1>5 DEF CountRow, Goto, replyVars
  <2>4. /\ versions' \in Seq(VersionType)
        /\ Len(versions') = Len(versions) + 1 /\ Len(versions) \in Nat
    BY <2>2, <2>3 DEF TypeOK
  <2> DEFINE m == Len(versions)
             n == Len(versions')
  <2> HIDE DEF m, n, v
  <2>5. m \in Nat /\ n \in Nat /\ m <= n /\ n = m + 1
    BY <2>4 DEF m, n
  <2>6. /\ records' \in Seq(0 .. n)
        /\ record_refs' \in [Threads -> Seq(1 .. n)]
        /\ retrieved \in [Threads -> 0 .. n]
    BY <2>3, <2>5, Widen DEF TypeOK, m
  <2>7. retrieved' \in [Threads -> 0 .. n]
    BY <2>3, <2>5, <2>6 DEF m
  <2>8. TypeOK'
    <3>1. pc' \in [Threads -> Pcs] /\ record_counter' \in Nat
      BY <2>3 DEF TypeOK, Pcs
    <3> QED
      BY <2>3, <2>4, <2>6, <2>7, <3>1 DEF TypeOK, n
  <2>9. OthersKept(t)
    BY <2>3 DEF OthersKept, TypeOK
  <2>10. LocalOK(t)'
    BY <2>3, <2>4 DEF LocalsOK, LocalOK, TypeOK, NoVersion
  <2> QED
    BY <2>8, <2>9, <2>10, Frame
<1>6. CASE PushRow(t)
  <2>1. /\ records' = Append(records, retrieved[t])
        /\ pc' = [pc EXCEPT ![t] = "done"]
        /\ UNCHANGED <<versions, record_counter, crashed, request, table_len, idx,
                       retrieved, record_refs, ref, num_affected, status, taken>>
    BY <1>6 DEF PushRow, Goto, scanVars, replyVars
  <2>2. records' \in Seq(0 .. Len(versions))
    BY <2>1 DEF TypeOK
  <2>3. TypeOK'
    BY <2>1, <2>2 DEF TypeOK, Pcs
  <2>4. OthersKept(t)
    BY <2>1 DEF OthersKept, TypeOK
  <2>5. LocalOK(t)'
    BY <2>1 DEF LocalsOK, LocalOK, TypeOK
  <2> QED
    BY <2>3, <2>4, <2>5, Frame
<1>7. CASE SearchRead(t)
  <2>1. /\ pc[t] = "search"
        /\ UNCHANGED <<records, versions, record_counter, crashed, request, table_len,
                       ref, num_affected, status, taken>>
    BY <1>7 DEF SearchRead, Running, tableVars, replyVars
  <2>2. CASE InRange(idx[t])
    <3>1. records[idx[t]] \in 0 .. Len(versions)
      BY <2>2 DEF InRange, TypeOK
    <3>2. /\ pc' = [pc EXCEPT ![t] = "searchCheck"]
          /\ retrieved' = [retrieved EXCEPT ![t] = records[idx[t]]]
          /\ UNCHANGED <<idx, record_refs>>
      BY <1>7, <2>2 DEF SearchRead, Goto
    <3>3. TypeOK'
      BY <2>1, <3>1, <3>2 DEF TypeOK, Pcs
    <3>4. OthersKept(t)
      BY <2>1, <3>2 DEF OthersKept, TypeOK
    <3>5. LocalOK(t)'
      BY <2>1, <3>2 DEF LocalsOK, LocalOK, TypeOK
    <3> QED
      BY <3>3, <3>4, <3>5, Frame
  <2>3. CASE ~InRange(idx[t])
    <3>1. SearchOn(t, record_refs[t]) /\ UNCHANGED retrieved
      BY <1>7, <2>3 DEF SearchRead
    <3>2. record_refs[t] \in Seq(1 .. Len(versions))
      BY DEF TypeOK
    <3>3. TypeOK'
      BY <2>1, <3>1, <3>2, SearchOnType DEF TypeOK
    <3>4. OthersKept(t)
      BY <2>1, <3>1, <3>2, SearchOnType DEF OthersKept
    <3>5. LocalOK(t)'
      BY <2>1, <3>1, <3>2, SearchOnType DEF LocalsOK, LocalOK
    <3> QED
      BY <3>3, <3>4, <3>5, Frame
  <2> QED
    BY <2>2, <2>3
<1>8. CASE SearchCheck(t)
  <2> DEFINE refs == IF Held(t) /\ Satisfies(versions[retrieved[t]].data, request[t].pred)
                     THEN Append(record_refs[t], retrieved[t])
                     ELSE record_refs[t]
  <2>1. /\ pc[t] = "searchCheck" /\ SearchOn(t, refs)
        /\ ~(Held(t) /\ retrieved[t] = NoVersion)
        /\ UNCHANGED <<records, versions, record_counter, crashed, request, table_len,
                       retrieved, ref, num_affected, status, taken>>
    BY <1>8 DEF SearchCheck, Running, tableVars, replyVars
  <2>2. record_refs[t] \in Seq(1 .. Len(versions))
    BY DEF TypeOK
  <2>3. Held(t) => retrieved[t] \in 1 .. Len(versions)
    BY <2>1 DEF TypeOK, NoVersion
  <2>4. refs \in Seq(1 .. Len(versions))
    <3>1. Held(t) => Append(record_refs[t], retrieved[t]) \in Seq(1 .. Len(versions))
      BY <2>2, <2>3
    <3> QED
      BY <2>2, <3>1
  <2> HIDE DEF refs
  <2>5. TypeOK'
    BY <2>1, <2>4, SearchOnType DEF TypeOK
  <2>6. OthersKept(t)
    BY <2>1, <2>4, SearchOnType DEF OthersKept
  <2>7. LocalOK(t)'
    BY <2>1, <2>4, SearchOnType DEF LocalsOK, LocalOK
  <2> QED
    BY <2>5, <2>6, <2>7, Frame
<1>9. CASE NullDereference(t)
  BY <1>9 DEF NullDereference, TypeOK, LocalsOK, LocalOK, scanVars, replyVars
<1>10. CASE ReadSize(t)
  <2>1. /\ pc[t] = "size"
        /\ table_len' = [table_len EXCEPT ![t] = Len(records)]
        /\ idx' = [idx EXCEPT ![t] = 1]
        /\ UNCHANGED <<records, versions, record_counter, crashed, request, retrieved,
                       record_refs, num_affected, status, taken>>
    BY <1>10 DEF ReadSize, Running, tableVars, replyVars
  <2>2. ref[t] <= Len(record_refs[t])
    BY <2>1 DEF LocalsOK, LocalOK
  <2>3. PICK label \in {"find", "size", "done"} : pc' = [pc EXCEPT ![t] = label]
    BY <1>10 DEF ReadSize, Goto
  <2>4. ref' = ref \/ ref' = [ref EXCEPT ![t] = @ + 1]
    BY <1>10 DEF ReadSize
  <2>5. label # "done" => ref'[t] <= Len(record_refs[t])
    <3>1. ref[t] \in Nat /\ Len(record_refs[t]) \in Nat /\ pc'[t] = label
      BY <2>3 DEF TypeOK
    <3> QED
      BY <1>10, <2>2, <3>1 DEF ReadSize, Goto, TypeOK
  <2>6. table_len' \in [Threads -> Nat] /\ idx' \in [Threads -> Nat \ {0}]
    BY <2>1 DEF TypeOK
  <2>7. ref' \in [Threads -> Nat \ {0}] /\ pc' \in [Threads -> Pcs]
    <3>1. ref \in [Threads -> Nat \ {0}] /\ ref[t] + 1 \in Nat \ {0}
      BY DEF TypeOK
    <3>2. ref' \in [Threads -> Nat \ {0}]
      BY <2>4, <3>1
    <3> QED
      BY <2>3, <3>2 DEF TypeOK, Pcs
  <2>8. TypeOK'
    BY <2>1, <2>6, <2>7 DEF TypeOK
  <2>9. OthersKept(t)
    BY <2>1, <2>3, <2>4 DEF OthersKept, TypeOK
  <2>10. pc'[t] = label
    BY <2>3 DEF TypeOK
  <2>11. LocalOK(t)'
    BY <2>1, <2>5, <2>10 DEF LocalsOK, LocalOK
  <2> QED
    BY <2>8, <2>9, <2>11, Frame
<1>11. CASE FindRead(t)
  <2>1. /\ pc[t] = "find"
        /\ UNCHANGED <<records, versions, record_counter, crashed, request, table_len,
                       record_refs, num_affected, status, taken>>
    BY <1>11 DEF FindRead, Running, tableVars, replyVars
  <2>2. CASE InRange(idx[t])
    <3>1. records[idx[t]] \in 0 .. Len(versions)
      BY <2>2 DEF InRange, TypeOK
    <3>2. /\ pc' = [pc EXCEPT ![t] = "findCheck"]
          /\ retrieved' = [retrieved EXCEPT ![t] = records[idx[t]]]
          /\ UNCHANGED <<idx, ref>>
      BY <1>11, <2>2 DEF FindRead, Goto
    <3>3. TypeOK'
      BY <2>1, <3>1, <3>2 DEF TypeOK, Pcs
    <3>4. OthersKept(t)
      BY <2>1, <3>2 DEF OthersKept, TypeOK
    <3>5. LocalOK(t)'
      BY <2>1, <3>2 DEF LocalsOK, LocalOK, TypeOK
    <3> QED
      BY <3>3, <3>4, <3>5, Frame
  <2>3. CASE ~InRange(idx[t])
    <3>1. FindOn(t) /\ UNCHANGED retrieved
      BY <1>11, <2>3 DEF FindRead
    <3>2. TypeOK'
      BY <2>1, <3>1, FindOnType DEF TypeOK
    <3>3. OthersKept(t)
      BY <2>1, <3>1, FindOnType DEF OthersKept
    <3>4. LocalOK(t)'
      BY <2>1, <3>1, FindOnType DEF LocalsOK, LocalOK
    <3> QED
      BY <3>2, <3>3, <3>4, Frame
  <2> QED
    BY <2>2, <2>3
<1>12. CASE FindCheck(t)
  <2>1. /\ pc[t] = "findCheck"
        /\ UNCHANGED <<records, versions, record_counter, crashed, request, table_len,
                       retrieved, record_refs, num_affected, status, taken>>
    BY <1>12 DEF FindCheck, Running, tableVars, replyVars
  <2>2. CASE pc' = [pc EXCEPT ![t] = "cas"] /\ UNCHANGED <<idx, ref>>
    <3>1. TypeOK'
      BY <2>1, <2>2 DEF TypeOK, Pcs
    <3>2. OthersKept(t)
      BY <2>1, <2>2 DEF OthersKept, TypeOK
    <3>3. LocalOK(t)'
      BY <2>1, <2>2 DEF LocalsOK, LocalOK, TypeOK
    <3> QED
      BY <3>1, <3>2, <3>3, Frame
  <2>3. CASE FindOn(t)
    <3>1. TypeOK'
      BY <2>1, <2>3, FindOnType DEF TypeOK
    <3>2. OthersKept(t)
      BY <2>1, <2>3, FindOnType DEF OthersKept
    <3>3. LocalOK(t)'
      BY <2>1, <2>3, FindOnType DEF LocalsOK, LocalOK
    <3> QED
      BY <3>1, <3>2, <3>3, Frame
  <2> QED
    BY <1>12, <2>2, <2>3 DEF FindCheck, Goto
<1>13. CASE UpdateSlot(t)
  <2>1. /\ pc[t] = "cas" /\ request[t].kind = "UPDATE" /\ FindOn(t)
        /\ UNCHANGED <<record_counter, crashed, request, table_len, retrieved,
                       record_refs, taken>>
    BY <1>13 DEF UpdateSlot, Running
  <2>2. ReplyType
    BY <1>13, SucceedType, ContentionType DEF UpdateSlot
  <2>3. OthersKept(t)
    BY <2>1, FindOnType DEF OthersKept
  <2>4. LocalOK(t)'
    <3>1. request'[t] = request[t] /\ (request[t].kind = "UPDATE" => request[t].row \in RowData)
      BY <2>1 DEF LocalsOK, LocalOK
    <3> QED
      BY <2>1, <3>1, FindOnType DEF LocalOK
  <2>5. CASE ~CasHits(t)
    <3>1. UNCHANGED <<records, versions>>
      BY <1>13, <2>5 DEF UpdateSlot
    <3>2. TypeOK'
      BY <2>1, <2>2, <3>1, FindOnType DEF TypeOK, ReplyType
    <3> QED
      BY <2>3, <2>4, <3>2, Frame
  <2>6. CASE CasHits(t)
    <3> DEFINE v == UpdatedVersion(CurrentRef(t), request[t].row)
               m == Len(versions)
               n == Len(versions')
    <3>1. CurrentRef(t) \in 1 .. Len(versions) /\ request[t].row \in RowData
      <4>1. ref[t] <= Len(record_refs[t]) /\ request[t].row \in RowData
        BY <2>1 DEF LocalsOK, LocalOK
      <4> QED
        BY <4>1, RefRange
    <3>2. v \in VersionType
      BY <3>1, UpdatedVersionType
    <3> HIDE DEF v
    <3>3. /\ versions' = Append(versions, v) /\ InRange(idx[t])
          /\ records' = [records EXCEPT ![idx[t]] = m + 1]
      BY <1>13, <2>6 DEF v, CasHits, UpdateSlot
    <3>4. versions' \in Seq(VersionType) /\ m \in Nat /\ n \in Nat /\ n = m + 1
      BY <3>2, <3>3 DEF TypeOK
    <3>5. /\ records \in Seq(0 .. m) /\ record_refs \in [Threads -> Seq(1 .. m)]
          /\ retrieved \in [Threads -> 0 .. m] /\ idx[t] \in DOMAIN records
      BY <3>3 DEF TypeOK, InRange
    <3> HIDE DEF m, n
    <3>6. /\ records \in Seq(0 .. n) /\ record_refs \in [Threads -> Seq(1 .. n)]
          /\ retrieved \in [Threads -> 0 .. n]
      <4>1. m <= n
        BY <3>4
      <4>2. /\ \A s \in Seq(0 .. m) : s \in Seq(0 .. n)
            /\ \A f \in [Threads -> 0 .. m] : f \in [Threads -> 0 .. n]
            /\ \A f \in [Threads -> Seq(1 .. m)] : f \in [Threads -> Seq(1 .. n)]
        BY ONLY <3>4, <4>1, Widen
      <4> QED
        BY ONLY <3>5, <4>2
    <3>7. records' \in Seq(0 .. n)
      BY <3>3, <3>4, <3>5, <3>6
    <3>8. TypeOK'
      BY <2>1, <2>2, <3>4, <3>6, <3>7, FindOnType DEF TypeOK, ReplyType, n
    <3> QED
      BY <2>3, <2>4, <3>8, Frame
  <2> QED
    BY <2>5, <2>6
<1>14. CASE ClearSlot(t)
  <2>1. /\ pc[t] = "cas" /\ pc' = [pc EXCEPT ![t] = "erase"]
        /\ UNCHANGED <<versions, record_counter, crashed, request, table_len, idx,
                       retrieved, record_refs, ref, taken>>
    BY <1>14 DEF ClearSlot, Running, Goto, scanVars
  <2>2. ReplyType
    BY <1>14, SucceedType, ContentionType DEF ClearSlot
  <2>3. \/ records' = records
        \/ InRange(idx[t]) /\ records' = [records EXCEPT ![idx[t]] = 0]
    BY <1>14 DEF ClearSlot, NoVersion, CasHits
  <2>4. records' \in Seq(0 .. Len(versions))
    <3>1. records \in Seq(0 .. Len(versions)) /\ 0 \in 0 .. Len(versions)
      BY DEF TypeOK
    <3> QED
      BY <2>3, <3>1 DEF InRange
  <2>5. TypeOK'
    BY <2>1, <2>2, <2>4 DEF TypeOK, ReplyType, Pcs
  <2>6. OthersKept(t)
    BY <2>1 DEF OthersKept, TypeOK
  <2>7. LocalOK(t)'
    BY <2>1 DEF LocalsOK, LocalOK, TypeOK
  <2> QED
    BY <2>5, <2>6, <2>7, Frame
<1>15. CASE EraseSlot(t)
  <2>1. /\ pc[t] = "erase" /\ FindOn(t)
        /\ UNCHANGED <<versions, record_counter, crashed, request, table_len, retrieved,
                       record_refs, taken>>
    BY <1>15 DEF EraseSlot, Running
  <2>2. ReplyType
    BY <1>15, ContentionType DEF EraseSlot, replyVars, ReplyType, TypeOK
  <2>3. records' = records \/ (InRange(idx[t]) /\ records' = EraseAt(idx[t]))
    BY <1>15 DEF EraseSlot
  <2>4. records' \in Seq(0 .. Len(versions))
    BY <2>3, EraseAtSlots DEF TypeOK, InRange
  <2>5. TypeOK'
    BY <2>1, <2>2, <2>4, FindOnType DEF TypeOK, ReplyType
  <2>6. OthersKept(t)
    BY <2>1, FindOnType DEF OthersKept
  <2>7. LocalOK(t)'
    BY <2>1, FindOnType DEF LocalsOK, LocalOK
  <2> QED
    BY <2>5, <2>6, <2>7, Frame
<1>16. CASE Return(t)
  <2>1. NoStatement \in StatementType
    BY DEF NoStatement, StatementType, Kinds, Predicates, StatementRow
  <2>2. /\ pc' = [pc EXCEPT ![t] = "idle"]
        /\ request' = [request EXCEPT ![t] = NoStatement]
        /\ table_len' = [table_len EXCEPT ![t] = 0]
        /\ idx' = [idx EXCEPT ![t] = 1]
        /\ retrieved' = [retrieved EXCEPT ![t] = 0]
        /\ record_refs' = [record_refs EXCEPT ![t] = <<>>]
        /\ ref' = [ref EXCEPT ![t] = 1]
        /\ num_affected' = [num_affected EXCEPT ![t] = 0]
        /\ status' = [status EXCEPT ![t] = "SUCCESS"]
        /\ UNCHANGED <<records, versions, record_counter, crashed, taken>>
    BY <1>16 DEF Return, Goto, tableVars, NoVersion
  <2>3. Len(versions) \in Nat
    BY DEF TypeOK
  <2>4. /\ retrieved' \in [Threads -> 0 .. Len(versions)]
        /\ record_refs' \in [Threads -> Seq(1 .. Len(versions))]
        /\ table_len' \in [Threads -> Nat] /\ num_affected' \in [Threads -> Nat]
    BY <2>2, <2>3 DEF TypeOK
  <2>5. TypeOK'
    <3>1. /\ pc' \in [Threads -> Pcs] /\ request' \in [Threads -> StatementType]
          /\ idx' \in [Threads -> Nat \ {0}] /\ ref' \in [Threads -> Nat \ {0}]
          /\ status' \in [Threads -> {"SUCCESS", "ERR", "ERR_FAILED_CONSTRAINT",
                                       "ERR_PARTIAL_CONTENTION"}]
      BY <2>1, <2>2 DEF TypeOK, Pcs
    <3> QED
      BY <2>2, <2>4, <3>1 DEF TypeOK
  <2>6. OthersKept(t)
    BY <2>2 DEF OthersKept, TypeOK
  <2>7. /\ pc'[t] = "idle" /\ ref'[t] = 1 /\ request'[t] = NoStatement
    <3>1. /\ pc \in [Threads -> Pcs] /\ ref \in [Threads -> Nat \ {0}]
          /\ request \in [Threads -> StatementType]
      BY DEF TypeOK
    <3> QED
      BY <2>2, <3>1
  <2>8. LocalOK(t)'
    BY <2>7 DEF LocalOK, NoStatement
  <2> QED
    BY <2>5, <2>6, <2>8, Frame
<1> QED
  BY <1>0, <1>1, <1>2, <1>3, <1>4, <1>5, <1>6, <1>7, <1>8, <1>9, <1>10, <1>11,
     <1>12, <1>13, <1>14, <1>15, <1>16 DEF Step

\* TableRows is type correct whatever the threads do.
THEOREM TypeCorrect == Spec => []TypeOK
<1>1. ASSUME TypeInv, UNCHANGED vars PROVE TypeInv'
  BY <1>1 DEF vars, tableVars, scanVars, replyVars, TypeInv, TypeOK, LocalsOK, LocalOK
<1>2. TypeInv /\ [Next]_vars => TypeInv'
  BY <1>1, TypeStep
<1>3. TypeInv => TypeOK
  BY DEF TypeInv
<1> QED
  BY InitType, <1>2, <1>3, PTL DEF Spec

-----------------------------------------------------------------------------
\* RowsDistinct is not inductive: a pushed row is new because fetch_add gave
\* its INSERT a number that no row in the table and no other pending INSERT has.
RowsCounted ==
    \A i \in DOMAIN records :
        records[i] # NoVersion => versions[records[i]].origin < record_counter

Pending(t) == pc[t] = "push"

PendingNew ==
    \A t \in Threads : Pending(t) =>
        /\ versions[retrieved[t]].origin < record_counter
        /\ \A i \in DOMAIN records :
              records[i] # NoVersion
                  => versions[records[i]].origin # versions[retrieved[t]].origin
        /\ \A u \in Threads \ {t} : Pending(u) =>
              versions[retrieved[u]].origin # versions[retrieved[t]].origin

DistinctInv == TypeInv /\ RowsDistinct /\ RowsCounted /\ PendingNew

\* A step that puts no new row into the table: every slot it leaves holds the
\* row, or a later version of the row, of a slot of its own before the step.
ComesFrom(g) ==
    /\ g \in [DOMAIN records' -> DOMAIN records]
    /\ \A i, j \in DOMAIN records' : i # j => g[i] # g[j]
    /\ \A j \in DOMAIN records' : records'[j] # NoVersion =>
          /\ records[g[j]] # NoVersion
          /\ versions'[records'[j]].origin = versions[records[g[j]]].origin

NoNewRow == \E g : ComesFrom(g)

PendingKept ==
    \A t \in Threads : Pending(t)' =>
        /\ Pending(t) /\ retrieved'[t] = retrieved[t]
        /\ versions'[retrieved[t]].origin = versions[retrieved[t]].origin

LEMMA NoNewOrigin ==
    ASSUME NoNewRow
    PROVE  Origins' \subseteq Origins
<1> PICK g : ComesFrom(g)
  BY DEF NoNewRow
<1> SUFFICES ASSUME NEW o \in Origins' PROVE o \in Origins
  OBVIOUS
<1>1. PICK j \in DOMAIN records' :
        records'[j] # NoVersion /\ o = versions'[records'[j]].origin
  BY DEF Origins, Live
<1>2. /\ g[j] \in DOMAIN records /\ records[g[j]] # NoVersion
      /\ o = versions[records[g[j]]].origin
  BY <1>1 DEF ComesFrom
<1> QED
  BY <1>2 DEF Origins, Live

LEMMA DistinctKept ==
    ASSUME DistinctInv, NoNewRow, PendingKept, record_counter' = record_counter
    PROVE  RowsDistinct' /\ RowsCounted' /\ PendingNew'
<1> PICK g : ComesFrom(g)
  BY DEF NoNewRow
<1> USE DEF DistinctInv, ComesFrom
<1>1. RowsDistinct'
  BY DEF RowsDistinct
<1>2. RowsCounted'
  BY DEF RowsCounted
<1>3. PendingNew'
  <2> SUFFICES ASSUME NEW t \in Threads, Pending(t)'
               PROVE  /\ versions'[retrieved'[t]].origin < record_counter'
                      /\ \A i \in DOMAIN records' :
                            records'[i] # NoVersion => versions'[records'[i]].origin
                                                # versions'[retrieved'[t]].origin
                      /\ \A u \in Threads \ {t} : Pending(u)' =>
                            versions'[retrieved'[u]].origin
                                # versions'[retrieved'[t]].origin
    BY DEF PendingNew
  <2>1. /\ Pending(t)
        /\ versions'[retrieved'[t]].origin = versions[retrieved[t]].origin
    BY DEF PendingKept
  <2>2. versions'[retrieved'[t]].origin < record_counter'
    BY <2>1 DEF PendingNew
  <2>3. \A i \in DOMAIN records' : records'[i] # NoVersion =>
            versions'[records'[i]].origin # versions'[retrieved'[t]].origin
    BY <2>1 DEF PendingNew
  <2>4. \A u \in Threads \ {t} : Pending(u)' =>
            versions'[retrieved'[u]].origin # versions'[retrieved'[t]].origin
    BY <2>1 DEF PendingNew, PendingKept
  <2> QED
    BY <2>2, <2>3, <2>4
<1> QED
  BY <1>1, <1>2, <1>3

\* Steps that leave every slot alone.
OthersWait(t) ==
    /\ pc'[t] # "push"
    /\ \A u \in Threads \ {t} : pc'[u] = pc[u] /\ retrieved'[u] = retrieved[u]

OriginsKept ==
    \A v \in 1 .. Len(versions) : versions'[v].origin = versions[v].origin

LEMMA SlotsKept ==
    ASSUME TypeInv, UNCHANGED records, OriginsKept
    PROVE  NoNewRow
<1> DEFINE g == [j \in DOMAIN records |-> j]
<1>1. \A j \in DOMAIN records : records[j] # NoVersion => records[j] \in 1 .. Len(versions)
  BY DEF TypeInv, TypeOK, NoVersion
<1>2. ComesFrom(g)
  BY <1>1 DEF ComesFrom, OriginsKept
<1> QED
  BY <1>2 DEF NoNewRow

LEMMA WaitingKept ==
    ASSUME TypeInv, NEW t \in Threads, OthersWait(t), OriginsKept
    PROVE  PendingKept
<1> SUFFICES ASSUME NEW u \in Threads, Pending(u)'
             PROVE  /\ Pending(u) /\ retrieved'[u] = retrieved[u]
                    /\ versions'[retrieved[u]].origin = versions[retrieved[u]].origin
  BY DEF PendingKept
<1>1. u # t /\ Pending(u) /\ retrieved'[u] = retrieved[u]
  BY DEF OthersWait, Pending
<1>2. retrieved[u] \in 1 .. Len(versions)
  <2>1. retrieved[u] # NoVersion
    BY <1>1 DEF TypeInv, LocalsOK, LocalOK, Pending
  <2> QED
    BY <2>1, RetrievedRange DEF TypeInv
<1> QED
  BY <1>1, <1>2 DEF OriginsKept

\* The actions of a thread that leave the table and its records alone.
Looks(t) ==
    \/ RejectRow(t) \/ CheckRow(t) \/ BeginScan(t) \/ RefuseFullTable(t)
    \/ SearchRead(t) \/ SearchCheck(t) \/ NullDereference(t)
    \/ ReadSize(t) \/ FindRead(t) \/ FindCheck(t) \/ Return(t)

LEMMA LooksOnly ==
    ASSUME TypeInv, NEW t \in Threads, Looks(t)
    PROVE  UNCHANGED <<records, versions, record_counter>> /\ OthersWait(t)
<1>1. UNCHANGED <<records, versions, record_counter>>
  BY DEF Looks, RejectRow, CheckRow, BeginScan, RefuseFullTable, SearchRead,
         SearchCheck, NullDereference, ReadSize, FindRead, FindCheck, Return, tableVars
<1>2. pc \in [Threads -> Pcs] /\ retrieved \in [Threads -> 0 .. Len(versions)]
  BY DEF TypeInv, TypeOK
<1>3. retrieved' = retrieved \/ \E v : retrieved' = [retrieved EXCEPT ![t] = v]
  BY DEF Looks, RejectRow, CheckRow, BeginScan, RefuseFullTable, SearchRead,
         SearchCheck, NullDereference, ReadSize, FindRead, FindCheck, Return, scanVars
<1>4. \/ UNCHANGED pc /\ pc[t] # "push"
      \/ \E label \in Pcs \ {"push"} : pc' = [pc EXCEPT ![t] = label]
  <2>1. CASE RejectRow(t) \/ CheckRow(t) \/ BeginScan(t) \/ RefuseFullTable(t)
    BY <2>1 DEF RejectRow, CheckRow, BeginScan, RefuseFullTable, Begin, Goto, Pcs
  <2>2. CASE SearchRead(t) \/ SearchCheck(t)
    BY <2>2 DEF SearchRead, SearchCheck, SearchOn, Goto, Pcs
  <2>3. CASE ReadSize(t) \/ FindRead(t) \/ FindCheck(t)
    BY <2>3 DEF ReadSize, FindRead, FindCheck, FindOn, Goto, Pcs
  <2>4. CASE NullDereference(t)
    BY <2>4 DEF NullDereference, Running
  <2>5. CASE Return(t)
    BY <2>5 DEF Return, Goto, Pcs
  <2> QED
    BY <2>1, <2>2, <2>3, <2>4, <2>5 DEF Looks
<1>5. OthersWait(t)
  BY <1>2, <1>3, <1>4 DEF OthersWait
<1> QED
  BY <1>1, <1>5

\* An UPDATE puts the row's next version into the row's own slot, and a
\* DELETE clears a slot.
LEMMA UpdateKeepsRows ==
    ASSUME TypeInv, NEW t \in Threads, UpdateSlot(t)
    PROVE  NoNewRow /\ PendingKept /\ record_counter' = record_counter
<1>1. /\ pc[t] = "cas" /\ FindOn(t) /\ UNCHANGED <<record_counter, retrieved>>
  BY DEF UpdateSlot, Running
<1>2. OthersWait(t)
  BY <1>1, FindOnType DEF OthersWait
<1>3. CASE ~CasHits(t)
  <2>1. UNCHANGED <<records, versions>>
    BY <1>3 DEF UpdateSlot
  <2>2. OriginsKept
    BY <2>1 DEF OriginsKept
  <2> QED
    BY <1>1, <1>2, <2>1, <2>2, SlotsKept, WaitingKept
<1>4. CASE CasHits(t)
  <2> DEFINE r == CurrentRef(t)
             v == UpdatedVersion(r, request[t].row)
             n == Len(versions)
  <2>1. /\ versions' = Append(versions, v) /\ InRange(idx[t])
        /\ records' = [records EXCEPT ![idx[t]] = n + 1]
        /\ records[idx[t]] = r
    BY <1>4 DEF UpdateSlot, CasHits
  <2>2. r \in 1 .. n /\ n \in Nat
    BY <1>1 DEF CurrentRef, TypeInv, TypeOK, LocalsOK, LocalOK
  <2>3. v.origin = versions[r].origin
    BY DEF UpdatedVersion
  <2> HIDE DEF r, v
  <2>4. /\ versions'[n + 1] = v
        /\ \A w \in 1 .. n : versions'[w] = versions[w]
    BY <2>1, <2>2 DEF TypeInv, TypeOK
  <2>5. OriginsKept
    BY <2>4 DEF OriginsKept
  <2> DEFINE g == [j \in DOMAIN records |-> j]
  <2>6. \A j \in DOMAIN records : records[j] # NoVersion => records[j] \in 1 .. n
    BY DEF TypeInv, TypeOK, NoVersion
  <2>7. DOMAIN records' = DOMAIN records
    BY <2>1
  <2>8. ASSUME NEW j \in DOMAIN records', records'[j] # NoVersion
        PROVE  /\ records[g[j]] # NoVersion
               /\ versions'[records'[j]].origin = versions[records[g[j]]].origin
    <3>1. CASE j = idx[t]
      <4>1. records'[j] = n + 1 /\ records[g[j]] = r
        BY <2>1, <2>7, <3>1 DEF InRange
      <4> QED
        BY <2>2, <2>3, <2>4, <4>1 DEF NoVersion
    <3>2. CASE j # idx[t]
      <4>1. records'[j] = records[j] /\ g[j] = j
        BY <2>1, <2>7, <3>2 DEF InRange
      <4> QED
        BY <2>4, <2>6, <2>7, <2>8, <4>1
    <3> QED
      BY <3>1, <3>2
  <2>9. g \in [DOMAIN records' -> DOMAIN records]
    BY <2>7
  <2>10. \A i, j \in DOMAIN records' : i # j => g[i] # g[j]
    BY <2>7
  <2>11. ComesFrom(g)
    BY <2>8, <2>9, <2>10 DEF ComesFrom
  <2> QED
    BY <1>1, <1>2, <2>5, <2>11, WaitingKept DEF NoNewRow
<1> QED
  BY <1>3, <1>4

LEMMA ClearKeepsRows ==
    ASSUME TypeInv, NEW t \in Threads, ClearSlot(t)
    PROVE  NoNewRow /\ PendingKept /\ record_counter' = record_counter
<1>1. /\ pc' = [pc EXCEPT ![t] = "erase"]
      /\ UNCHANGED <<versions, record_counter, retrieved>>
  BY DEF ClearSlot, Goto, scanVars
<1>2. OthersWait(t) /\ OriginsKept
  BY <1>1 DEF OthersWait, OriginsKept, TypeInv, TypeOK
<1>3. \/ records' = records
      \/ InRange(idx[t]) /\ records' = [records EXCEPT ![idx[t]] = NoVersion]
  BY DEF ClearSlot, CasHits
<1> DEFINE g == [j \in DOMAIN records |-> j]
<1>4. \A j \in DOMAIN records' : records'[j] # NoVersion => records'[j] = records[j]
  BY <1>3 DEF InRange
<1>5. DOMAIN records' = DOMAIN records
  BY <1>3
<1>6. ComesFrom(g)
  BY <1>1, <1>4, <1>5 DEF ComesFrom
<1> QED
  BY <1>1, <1>2, <1>6, WaitingKept DEF NoNewRow

LEMMA EraseKeepsRows ==
    ASSUME TypeInv, NEW t \in Threads, EraseSlot(t)
    PROVE  NoNewRow /\ PendingKept /\ record_counter' = record_counter
<1>1. /\ pc[t] = "erase" /\ FindOn(t)
      /\ UNCHANGED <<versions, record_counter, retrieved>>
  BY DEF EraseSlot, Running
<1>2. OthersWait(t) /\ OriginsKept
  BY <1>1, FindOnType DEF OthersWait, OriginsKept
<1>3. CASE records' = records
  BY <1>1, <1>2, <1>3, SlotsKept, WaitingKept
<1>4. CASE InRange(idx[t]) /\ records' = EraseAt(idx[t])
  <2> DEFINE g == [j \in DOMAIN records' |-> IF j < idx[t] THEN j ELSE j + 1]
  <2>1. /\ idx[t] \in DOMAIN records /\ records' = EraseAt(idx[t])
        /\ idx[t] \in Nat /\ DOMAIN records' \subseteq Nat
    <3>1. idx[t] \in DOMAIN records /\ TypeOK
      BY <1>4 DEF InRange, TypeInv
    <3>2. EraseAt(idx[t]) \in Seq(0 .. Len(versions))
      BY <3>1, EraseAtSlots
    <3>3. DOMAIN EraseAt(idx[t]) \subseteq Nat
      BY <3>2
    <3> QED
      BY <1>4, <3>1, <3>3 DEF TypeOK
  <2>2. \A j \in DOMAIN records' :
            g[j] \in DOMAIN records /\ records'[j] = records[g[j]]
    BY <2>1, EraseAtSlots DEF TypeInv
  <2>3. \A i, j \in DOMAIN records' : i # j => g[i] # g[j]
    BY <2>1
  <2> HIDE DEF g
  <2>4. g \in [DOMAIN records' -> DOMAIN records]
    BY <2>2 DEF g
  <2>5. ComesFrom(g)
    BY <1>1, <2>2, <2>3, <2>4 DEF ComesFrom
  <2> QED
    BY <1>1, <1>2, <2>5, WaitingKept DEF NoNewRow
<1> QED
  BY <1>3, <1>4 DEF EraseSlot

\* Every step but a fetch_add and a push keeps the rows apart this way.
LEMMA RowsKept ==
    ASSUME TypeInv, NEW t \in Threads,
           Looks(t) \/ UpdateSlot(t) \/ ClearSlot(t) \/ EraseSlot(t)
    PROVE  NoNewRow /\ PendingKept /\ record_counter' = record_counter
<1>1. CASE Looks(t)
  <2>1. UNCHANGED <<records, versions, record_counter>> /\ OthersWait(t)
    BY <1>1, LooksOnly
  <2>2. OriginsKept
    BY <2>1 DEF OriginsKept
  <2> QED
    BY <2>1, <2>2, SlotsKept, WaitingKept
<1> QED
  BY <1>1, UpdateKeepsRows, ClearKeepsRows, EraseKeepsRows

\* fetch_add gives the new record a number above every number in use.
LEMMA CountKeeps ==
    ASSUME DistinctInv, NEW t \in Threads, CountRow(t)
    PROVE  NoNewRow /\ RowsDistinct' /\ RowsCounted' /\ PendingNew'
<1> DEFINE n == Len(versions)
           v == NewVersion(request[t].row, record_counter)
<1>1. /\ versions' = Append(versions, v) /\ pc[t] = "count"
      /\ retrieved' = [retrieved EXCEPT ![t] = n + 1]
      /\ pc' = [pc EXCEPT ![t] = "push"]
      /\ record_counter' = record_counter + 1 /\ records' = records
  BY DEF CountRow, Running, Goto
<1>2. /\ n \in Nat /\ record_counter \in Nat /\ versions \in Seq(VersionType)
      /\ pc \in [Threads -> Pcs] /\ retrieved \in [Threads -> 0 .. n]
  BY DEF DistinctInv, TypeInv, TypeOK
<1>3. v.origin = record_counter
  BY DEF NewVersion
<1> HIDE DEF v
<1>4. /\ versions'[n + 1].origin = record_counter
      /\ \A w \in 1 .. n : versions'[w] = versions[w] /\ versions[w].origin \in Nat
  <2>1. versions'[n + 1] = v /\ \A w \in 1 .. n : versions'[w] = versions[w]
    BY <1>1, <1>2
  <2>2. \A w \in 1 .. n : versions[w] \in VersionType
    BY <1>2
  <2>3. \A w \in 1 .. n : versions[w].origin \in Nat
    BY <2>2 DEF VersionType
  <2> QED
    BY <1>3, <2>1, <2>3
<1>5. OriginsKept
  BY <1>4 DEF OriginsKept
<1>6. \A i \in DOMAIN records : records[i] # NoVersion => records[i] \in 1 .. n
  BY DEF DistinctInv, TypeInv, TypeOK, NoVersion
<1> HIDE DEF n
<1>7. RowsDistinct' /\ RowsCounted'
  <2>1. \A i \in DOMAIN records' : records'[i] # NoVersion =>
            versions'[records'[i]].origin = versions[records[i]].origin
    BY <1>1, <1>4, <1>6
  <2>2. RowsDistinct'
    <3> SUFFICES ASSUME NEW i \in DOMAIN records', NEW j \in DOMAIN records', i # j,
                        records'[i] # NoVersion, records'[j] # NoVersion
                 PROVE  versions'[records'[i]].origin # versions'[records'[j]].origin
      BY DEF RowsDistinct
    <3>1. versions[records[i]].origin # versions[records[j]].origin
      BY <1>1 DEF DistinctInv, RowsDistinct
    <3> QED
      BY <2>1, <3>1
  <2>3. \A i \in DOMAIN records' : records'[i] # NoVersion =>
            versions[records[i]].origin \in Nat
    BY <1>1, <1>4, <1>6
  <2>4. RowsCounted'
    <3> SUFFICES ASSUME NEW i \in DOMAIN records', records'[i] # NoVersion
                 PROVE  versions'[records'[i]].origin < record_counter'
      BY DEF RowsCounted
    <3>1. versions[records[i]].origin < record_counter
      BY <1>1 DEF DistinctInv, RowsCounted
    <3>2. versions[records[i]].origin < record_counter + 1
      BY <1>2, <2>3, <3>1
    <3> QED
      BY <1>1, <2>1, <3>2
  <2> QED
    BY <2>2, <2>4
<1>8. ASSUME NEW u \in Threads, u # t, Pending(u)'
      PROVE  /\ Pending(u) /\ retrieved'[u] = retrieved[u] /\ retrieved[u] \in 1 .. n
             /\ versions'[retrieved[u]].origin = versions[retrieved[u]].origin
             /\ versions[retrieved[u]].origin \in Nat
             /\ versions[retrieved[u]].origin < record_counter
  <2>1. Pending(u) /\ retrieved'[u] = retrieved[u]
    BY <1>1, <1>2, <1>8 DEF Pending
  <2>2. retrieved[u] \in 1 .. n
    BY <1>2, <2>1 DEF DistinctInv, TypeInv, LocalsOK, LocalOK, Pending, NoVersion
  <2> QED
    BY <1>4, <2>1, <2>2 DEF DistinctInv, PendingNew
<1>9. retrieved'[t] = n + 1
  BY <1>1, <1>2
<1>10. PendingNew'
  <2> SUFFICES ASSUME NEW u \in Threads, Pending(u)'
               PROVE  /\ versions'[retrieved'[u]].origin < record_counter'
                      /\ \A i \in DOMAIN records' :
                            records'[i] # NoVersion => versions'[records'[i]].origin
                                                # versions'[retrieved'[u]].origin
                      /\ \A w \in Threads \ {u} : Pending(w)' =>
                            versions'[retrieved'[w]].origin
                                # versions'[retrieved'[u]].origin
    BY DEF PendingNew
  <2>1. \A i \in DOMAIN records : records[i] # NoVersion =>
            /\ versions'[records[i]].origin = versions[records[i]].origin
            /\ versions[records[i]].origin \in Nat
            /\ versions[records[i]].origin < record_counter
    BY <1>4, <1>6 DEF DistinctInv, RowsCounted
  <2>2. CASE u = t
    <3>1. versions'[retrieved'[u]].origin = record_counter
      BY <1>4, <1>9, <2>2
    <3>2. record_counter < record_counter'
      BY <1>1, <1>2
    <3>3. ASSUME NEW i \in DOMAIN records', records'[i] # NoVersion
          PROVE  versions'[records'[i]].origin # record_counter
      <4>1. /\ versions'[records'[i]].origin \in Nat
            /\ versions'[records'[i]].origin < record_counter
        BY <1>1, <2>1, <3>3
      <4> QED
        BY <1>2, <4>1
    <3>4. ASSUME NEW w \in Threads \ {u}, Pending(w)'
          PROVE  versions'[retrieved'[w]].origin # record_counter
      <4>1. /\ versions'[retrieved'[w]].origin \in Nat
            /\ versions'[retrieved'[w]].origin < record_counter
        BY <1>8, <2>2, <3>4
      <4> QED
        BY <1>2, <4>1
    <3> QED
      BY <3>1, <3>2, <3>3, <3>4
  <2>3. CASE u # t
    <3>1. versions'[retrieved'[u]].origin < record_counter'
      <4>1. /\ versions'[retrieved'[u]].origin \in Nat
            /\ versions'[retrieved'[u]].origin < record_counter
        BY <1>8, <2>3
      <4>2. record_counter' = record_counter + 1 /\ record_counter \in Nat
        BY <1>1, <1>2
      <4> QED
        BY <4>1, <4>2
    <3>2. ASSUME NEW i \in DOMAIN records', records'[i] # NoVersion
          PROVE  versions'[records'[i]].origin # versions'[retrieved'[u]].origin
      <4>1. versions[records[i]].origin # versions[retrieved[u]].origin
        BY <1>1, <1>8, <2>3, <3>2 DEF DistinctInv, PendingNew
      <4>2. versions'[records'[i]].origin = versions[records[i]].origin
        BY <1>1, <2>1, <3>2
      <4>3. versions'[retrieved'[u]].origin = versions[retrieved[u]].origin
        BY <1>8, <2>3
      <4> QED
        BY <4>1, <4>2, <4>3
    <3>3. ASSUME NEW w \in Threads \ {u}, Pending(w)'
          PROVE  versions'[retrieved'[w]].origin # versions'[retrieved'[u]].origin
      <4>1. CASE w = t
        BY <1>2, <1>4, <1>8, <1>9, <2>3, <4>1
      <4>2. CASE w # t
        BY <1>8, <2>3, <3>3, <4>2 DEF DistinctInv, PendingNew
      <4> QED
        BY <4>1, <4>2
    <3> QED
      BY <3>1, <3>2, <3>3
  <2> QED
    BY <2>2, <2>3
<1>11. NoNewRow
  BY <1>1, <1>5, SlotsKept DEF DistinctInv
<1> QED
  BY <1>7, <1>10, <1>11

\* A push puts the pending row behind the others.
LEMMA PushKeeps ==
    ASSUME DistinctInv, NEW t \in Threads, PushRow(t)
    PROVE  /\ RowsDistinct' /\ RowsCounted' /\ PendingNew'
           /\ Pending(t)
           /\ Origins' \subseteq Origins \cup {versions[retrieved[t]].origin}
<1> DEFINE n == Len(records)
<1>1. /\ records' = Append(records, retrieved[t]) /\ pc[t] = "push"
      /\ pc' = [pc EXCEPT ![t] = "done"]
      /\ UNCHANGED <<versions, record_counter, retrieved>>
  BY DEF PushRow, Running, Goto, scanVars
<1>2. n \in Nat /\ records \in Seq(0 .. Len(versions)) /\ pc \in [Threads -> Pcs]
  BY DEF DistinctInv, TypeInv, TypeOK
<1>3. /\ DOMAIN records' = 1 .. (n + 1) /\ DOMAIN records = 1 .. n
      /\ records'[n + 1] = retrieved[t]
      /\ \A i \in 1 .. n : records'[i] = records[i]
  BY <1>1, <1>2
<1> HIDE DEF n
<1>4. \A i \in DOMAIN records' : i = n + 1 \/ i \in DOMAIN records
  BY <1>2, <1>3
<1>5. Pending(t)
  BY <1>1 DEF Pending
<1>6. /\ versions[retrieved[t]].origin < record_counter
      /\ \A i \in DOMAIN records : records[i] # NoVersion =>
            versions[records[i]].origin # versions[retrieved[t]].origin
  BY <1>5 DEF DistinctInv, PendingNew
<1>7. RowsDistinct'
  <2> SUFFICES ASSUME NEW i \in DOMAIN records', NEW j \in DOMAIN records', i # j,
                      records'[i] # NoVersion, records'[j] # NoVersion
               PROVE  versions[records'[i]].origin # versions[records'[j]].origin
    BY <1>1 DEF RowsDistinct
  <2>1. CASE i \in DOMAIN records /\ j \in DOMAIN records
    BY <1>3, <2>1 DEF DistinctInv, RowsDistinct
  <2>2. CASE i = n + 1
    <3>1. j \in DOMAIN records /\ records'[j] = records[j]
      BY <1>3, <1>4, <2>2
    <3> QED
      BY <1>3, <1>6, <2>2, <3>1
  <2>3. CASE j = n + 1
    <3>1. i \in DOMAIN records /\ records'[i] = records[i]
      BY <1>3, <1>4, <2>3
    <3> QED
      BY <1>3, <1>6, <2>3, <3>1
  <2> QED
    BY <1>4, <2>1, <2>2, <2>3
<1>8. RowsCounted'
  BY <1>1, <1>3, <1>4, <1>6 DEF DistinctInv, RowsCounted
<1>9. \A u \in Threads : Pending(u)' => Pending(u) /\ u # t
  BY <1>1, <1>2 DEF Pending
<1>10. PendingNew'
  <2> SUFFICES ASSUME NEW u \in Threads, Pending(u)'
               PROVE  /\ versions[retrieved[u]].origin < record_counter
                      /\ \A i \in DOMAIN records' :
                            records'[i] # NoVersion => versions[records'[i]].origin
                                                # versions[retrieved[u]].origin
                      /\ \A w \in Threads \ {u} : Pending(w)' =>
                            versions[retrieved[w]].origin
                                # versions[retrieved[u]].origin
    BY <1>1 DEF PendingNew
  <2>1. Pending(u) /\ u # t
    BY <1>9
  <2>2. versions[retrieved[u]].origin < record_counter
    BY <2>1 DEF DistinctInv, PendingNew
  <2>3. ASSUME NEW i \in DOMAIN records', records'[i] # NoVersion
        PROVE  versions[records'[i]].origin # versions[retrieved[u]].origin
    <3>1. CASE i \in DOMAIN records
      BY <1>3, <2>1, <2>3, <3>1 DEF DistinctInv, PendingNew
    <3>2. CASE i = n + 1
      BY <1>3, <1>5, <2>1, <3>2 DEF DistinctInv, PendingNew
    <3> QED
      BY <1>4, <3>1, <3>2
  <2>4. ASSUME NEW w \in Threads \ {u}, Pending(w)'
        PROVE  versions[retrieved[w]].origin # versions[retrieved[u]].origin
    BY <1>9, <2>1, <2>4 DEF DistinctInv, PendingNew
  <2> QED
    BY <2>2, <2>3, <2>4
<1>11. Origins' \subseteq Origins \cup {versions[retrieved[t]].origin}
  <2> SUFFICES ASSUME NEW o \in Origins'
               PROVE  o \in Origins \/ o = versions[retrieved[t]].origin
    OBVIOUS
  <2>1. PICK j \in DOMAIN records' :
          records'[j] # NoVersion /\ o = versions[records'[j]].origin
    BY <1>1 DEF Origins, Live
  <2> QED
    BY <1>3, <1>4, <2>1 DEF Origins, Live
<1> QED
  BY <1>5, <1>7, <1>8, <1>10, <1>11

LEMMA NextSplit ==
    ASSUME Next
    PROVE  \E t \in Threads :
              \/ Looks(t) \/ UpdateSlot(t) \/ ClearSlot(t) \/ EraseSlot(t)
              \/ CountRow(t) \/ PushRow(t)
BY DEF Next, Step, Looks

LEMMA DistinctStep ==
    ASSUME DistinctInv, Next
    PROVE  DistinctInv'
<1>1. TypeInv'
  BY TypeStep DEF DistinctInv
<1>2. RowsDistinct' /\ RowsCounted' /\ PendingNew'
  BY NextSplit, RowsKept, DistinctKept, CountKeeps, PushKeeps DEF DistinctInv
<1> QED
  BY <1>1, <1>2 DEF DistinctInv

LEMMA InitDistinct == Init => DistinctInv
<1> SUFFICES ASSUME Init PROVE DistinctInv
  OBVIOUS
<1> DEFINE n == Len(Preloaded)
<1>1. n \in Nat /\ DOMAIN Preloaded = 1 .. n
  BY PreloadedAssumption
<1>2. /\ records = [i \in 1 .. n |-> i] /\ record_counter = n
      /\ versions = [i \in 1 .. n |-> NewVersion(Preloaded[i], i - 1)]
  BY <1>1 DEF Init
<1> HIDE DEF n
<1>3. \A i \in DOMAIN records : versions[records[i]].origin = i - 1 /\ i \in 1 .. n
  BY <1>2 DEF NewVersion
<1>4. RowsDistinct /\ RowsCounted
  BY <1>1, <1>2, <1>3 DEF RowsDistinct, RowsCounted
<1>5. PendingNew
  BY DEF Init, PendingNew, Pending
<1> QED
  BY <1>4, <1>5, InitType DEF DistinctInv

LEMMA DistinctStutter ==
    ASSUME DistinctInv, UNCHANGED vars
    PROVE  DistinctInv'
BY DEF vars, tableVars, scanVars, replyVars, DistinctInv, TypeInv, TypeOK, LocalsOK,
       LocalOK, RowsDistinct, RowsCounted, PendingNew, Pending

\* However many threads insert, update, delete and scan, and whichever way
\* their steps fall, no inserted row is in two slots of the table.
THEOREM RowsStayDistinct == Spec => []RowsDistinct
<1>1. DistinctInv /\ [Next]_vars => DistinctInv'
  BY DistinctStep, DistinctStutter
<1>2. DistinctInv => RowsDistinct
  BY DEF DistinctInv
<1> QED
  BY InitDistinct, <1>1, <1>2, PTL DEF Spec

\* A row that left the table never comes back: only a push adds a row, and the
\* row it adds is the one its INSERT numbered.
THEOREM DeletedRowsStayDeleted == Spec => NoResurrection
<1> DEFINE OnlyPushed ==
        \A o \in Origins' \ Origins :
            \E t \in Threads : pc[t] = "push" /\ versions[retrieved[t]].origin = o
<1>1. ASSUME DistinctInv, Next PROVE OnlyPushed
  <2>1. PICK t \in Threads :
          \/ Looks(t) \/ UpdateSlot(t) \/ ClearSlot(t) \/ EraseSlot(t)
          \/ CountRow(t) \/ PushRow(t)
    BY <1>1, NextSplit
  <2>2. CASE PushRow(t)
    BY <1>1, <2>2, PushKeeps DEF Pending
  <2>3. CASE ~PushRow(t)
    BY <1>1, <2>1, <2>3, RowsKept, CountKeeps, NoNewOrigin DEF DistinctInv
  <2> QED
    BY <2>2, <2>3
<1>2. DistinctInv /\ [Next]_vars => DistinctInv' /\ [OnlyPushed]_vars
  BY <1>1, DistinctStep, DistinctStutter
<1> HIDE DEF OnlyPushed
<1>3. Spec => [][OnlyPushed]_vars
  BY InitDistinct, <1>2, PTL DEF Spec
<1> QED
  BY <1>3 DEF NoResurrection, OnlyPushed
-----------------------------------------------------------------------------
(* What the proofs about scans need of a step of one thread.              *)

\* A step of thread t leaves the other threads' statements and scans alone.
OthersAlone(t) ==
    \A u \in Threads \ {t} :
        /\ pc'[u] = pc[u] /\ request'[u] = request[u] /\ status'[u] = status[u]
        /\ table_len'[u] = table_len[u] /\ idx'[u] = idx[u] /\ ref'[u] = ref[u]
        /\ retrieved'[u] = retrieved[u] /\ record_refs'[u] = record_refs[u]

\* The steps of a thread.
Acts(t) ==
    \/ Looks(t) \/ UpdateSlot(t) \/ ClearSlot(t) \/ EraseSlot(t)
    \/ CountRow(t) \/ PushRow(t)

LEMMA StepOfThread ==
    ASSUME TypeInv, NEW t \in Threads, Acts(t)
    PROVE  OthersAlone(t)
<1>1. /\ pc \in [Threads -> Pcs] /\ request \in [Threads -> StatementType]
      /\ status \in [Threads -> {"SUCCESS", "ERR", "ERR_FAILED_CONSTRAINT",
                                 "ERR_PARTIAL_CONTENTION"}]
      /\ table_len \in [Threads -> Nat] /\ idx \in [Threads -> Nat \ {0}]
      /\ ref \in [Threads -> Nat \ {0}] /\ retrieved \in [Threads -> 0 .. Len(versions)]
      /\ record_refs \in [Threads -> Seq(1 .. Len(versions))]
  BY DEF TypeInv, TypeOK
<1>2. CASE RejectRow(t) \/ CheckRow(t) \/ BeginScan(t) \/ RefuseFullTable(t)
  BY <1>1, <1>2 DEF RejectRow, CheckRow, BeginScan, RefuseFullTable, Begin, Goto,
                    scanVars, OthersAlone
<1>3. CASE SearchRead(t) \/ SearchCheck(t) \/ NullDereference(t)
  BY <1>1, <1>3 DEF SearchRead, SearchCheck, NullDereference, SearchOn, Goto,
                    scanVars, replyVars, OthersAlone
<1>4. CASE ReadSize(t) \/ FindRead(t) \/ FindCheck(t)
  BY <1>1, <1>4 DEF ReadSize, FindRead, FindCheck, FindOn, Goto, replyVars, OthersAlone
<1>5. CASE UpdateSlot(t)
  BY <1>1, <1>5 DEF UpdateSlot, FindOn, Goto, Succeed, Contention, OthersAlone
<1>6. CASE ClearSlot(t)
  BY <1>1, <1>6 DEF ClearSlot, Goto, Succeed, Contention, scanVars, OthersAlone
<1>7. CASE EraseSlot(t)
  BY <1>1, <1>7 DEF EraseSlot, FindOn, Goto, Contention, replyVars, OthersAlone
<1>8. CASE CountRow(t) \/ PushRow(t) \/ Return(t)
  BY <1>1, <1>8 DEF CountRow, PushRow, Return, Goto, scanVars, replyVars, OthersAlone
<1> QED
  BY <1>2, <1>3, <1>4, <1>5, <1>6, <1>7, <1>8 DEF Acts, Looks

\* Records are allocated and never changed.
VersionsGrow ==
    /\ Len(versions) \in Nat /\ Len(versions') \in Nat /\ Len(versions) <= Len(versions')
    /\ \A v \in 1 .. Len(versions) : versions'[v] = versions[v]

LEMMA VersionsOnlyGrow ==
    ASSUME TypeInv, NEW t \in Threads, Acts(t)
    PROVE  VersionsGrow
<1>1. versions \in Seq(VersionType) /\ Len(versions) \in Nat
  BY DEF TypeInv, TypeOK
<1>2. versions' = versions \/ \E v \in VersionType : versions' = Append(versions, v)
  <2>1. CASE CountRow(t)
    <3>1. NewVersion(request[t].row, record_counter) \in VersionType
      BY <2>1, NewVersionType DEF TypeInv, TypeOK, CountRow, Running, LocalsOK, LocalOK
    <3> QED
      BY <2>1, <3>1 DEF CountRow
  <2>2. CASE UpdateSlot(t)
    <3>1. /\ pc[t] = "cas" /\ request[t].kind = "UPDATE"
          /\ \/ versions' = versions
             \/ versions' = Append(versions, UpdatedVersion(CurrentRef(t), request[t].row))
      BY <2>2 DEF UpdateSlot, Running
    <3>2. CurrentRef(t) \in 1 .. Len(versions) /\ request[t].row \in RowData
      <4>1. ref[t] <= Len(record_refs[t]) /\ request[t].row \in RowData
        BY <3>1 DEF TypeInv, LocalsOK, LocalOK
      <4> QED
        BY <4>1, RefRange DEF TypeInv
    <3>3. UpdatedVersion(CurrentRef(t), request[t].row) \in VersionType
      BY <3>2, UpdatedVersionType DEF TypeInv
    <3> QED
      BY <3>1, <3>3
  <2>3. CASE Looks(t)
    BY <2>3, LooksOnly
  <2>4. CASE ClearSlot(t) \/ EraseSlot(t) \/ PushRow(t)
    BY <2>4 DEF ClearSlot, EraseSlot, PushRow
  <2> QED
    BY <2>1, <2>2, <2>3, <2>4 DEF Acts
<1>3. ASSUME NEW v \in VersionType, versions' = Append(versions, v)
      PROVE  VersionsGrow
  BY <1>1, <1>3 DEF VersionsGrow
<1>4. ASSUME versions' = versions PROVE VersionsGrow
  BY <1>1, <1>4 DEF VersionsGrow
<1> QED
  BY <1>2, <1>3, <1>4

Origin(v) == versions[v].origin

\* The rows that are yet to be pushed: those that were, and a new one.
PendingSince ==
    /\ record_counter \in Nat /\ record_counter' \in Nat /\ record_counter <= record_counter'
    /\ \A u \in Threads : Pending(u)' =>
          \/ Pending(u) /\ Origin(retrieved[u])' = Origin(retrieved[u])
          \/ Origin(retrieved[u])' = record_counter

LEMMA PendingSinceStep ==
    ASSUME TypeInv, NEW t \in Threads, Acts(t)
    PROVE  PendingSince
<1>1. VersionsGrow /\ OthersAlone(t) /\ record_counter \in Nat
  BY VersionsOnlyGrow, StepOfThread DEF TypeInv, TypeOK
<1>2. \A u \in Threads : Pending(u) => retrieved[u] \in 1 .. Len(versions)
  BY RetrievedRange DEF Pending, TypeInv, LocalsOK, LocalOK
<1>3. \A u \in Threads \ {t} : Pending(u)' =>
          Pending(u) /\ Origin(retrieved[u])' = Origin(retrieved[u])
  BY <1>1, <1>2 DEF Pending, Origin, OthersAlone, VersionsGrow
<1>4. CASE CountRow(t)
  <2> DEFINE v == NewVersion(request[t].row, record_counter)
             n == Len(versions)
  <2>1. /\ versions' = Append(versions, v) /\ retrieved'[t] = n + 1
        /\ record_counter' = record_counter + 1
    BY <1>4 DEF CountRow, TypeInv, TypeOK
  <2>2. v.origin = record_counter
    BY DEF NewVersion
  <2> HIDE DEF v
  <2>3. versions'[n + 1] = v
    BY <2>1 DEF TypeInv, TypeOK
  <2>4. Origin(retrieved[t])' = record_counter
    BY <2>1, <2>2, <2>3 DEF Origin
  <2> QED
    BY <1>1, <1>3, <2>1, <2>4 DEF PendingSince
<1>5. CASE PushRow(t)
  <2>1. pc'[t] = "done" /\ record_counter' = record_counter
    BY <1>5 DEF PushRow, Goto, TypeInv, TypeOK
  <2> QED
    BY <1>1, <1>3, <2>1 DEF PendingSince, Pending
<1>6. CASE Looks(t) \/ UpdateSlot(t) \/ ClearSlot(t) \/ EraseSlot(t)
  <2>1. PendingKept /\ record_counter' = record_counter
    BY <1>6, RowsKept
  <2> QED
    BY <1>1, <1>2, <2>1 DEF PendingSince, PendingKept, Pending, Origin
<1> QED
  BY <1>4, <1>5, <1>6 DEF Acts

\* The statements that SQL reaches: the grammar ends no DELETE that the builder
\* can execute.
NoDeletes == \A t \in Threads : \A r \in Requests[t] : r.kind # "DELETE"

\* Without deletes no slot is null.
NoNulls == \A j \in DOMAIN records : records[j] # NoVersion

\* Slots are added behind the others by the threads with a row to push, and a
\* slot only ever changes to a later record of its row that was not there before.
RowsGrow ==
    /\ DOMAIN records \subseteq DOMAIN records'
    /\ \A i \in DOMAIN records :
          /\ records'[i] = records[i] \/ records'[i] \notin 0 .. Len(versions)
          /\ Origin(records[i])' = Origin(records[i])
    /\ \A i \in DOMAIN records' \ DOMAIN records :
          \E u \in Threads : Pending(u) /\ records'[i] = retrieved[u]

LEMMA RowsOnlyGrow ==
    ASSUME TypeInv, NoNulls, NEW t \in Threads, Acts(t), ~ClearSlot(t), ~EraseSlot(t)
    PROVE  RowsGrow /\ NoNulls'
<1>1. /\ records \in Seq(0 .. Len(versions)) /\ Len(versions) \in Nat /\ VersionsGrow
      /\ \A i \in DOMAIN records : records[i] \in 1 .. Len(versions)
  BY SlotRange, VersionsOnlyGrow DEF TypeInv, TypeOK, NoNulls
<1>2. ASSUME NEW i \in DOMAIN records, records'[i] = records[i]
      PROVE  Origin(records[i])' = Origin(records[i])
  BY <1>1, <1>2 DEF VersionsGrow, Origin
<1>3. CASE records' = records
  BY <1>2, <1>3 DEF RowsGrow, NoNulls
<1>4. CASE PushRow(t)
  <2>1. records' = Append(records, retrieved[t]) /\ retrieved[t] # NoVersion /\ Pending(t)
    BY <1>4 DEF PushRow, Running, TypeInv, LocalsOK, LocalOK, Pending
  <2>2. /\ DOMAIN records' = DOMAIN records \cup {Len(records) + 1}
        /\ records'[Len(records) + 1] = retrieved[t]
        /\ \A i \in DOMAIN records : records'[i] = records[i]
    <3>1. records \in Seq(0 .. Len(versions))
      BY <1>1
    <3> QED
      BY ONLY <2>1, <3>1
  <2>3. \A i \in DOMAIN records : Origin(records[i])' = Origin(records[i])
    BY <1>2, <2>2
  <2> QED
    BY <2>1, <2>2, <2>3 DEF RowsGrow, NoNulls
<1>5. CASE UpdateSlot(t) /\ CasHits(t)
  <2> DEFINE r == CurrentRef(t)
             v == UpdatedVersion(r, request[t].row)
             n == Len(versions)
  <2>1. /\ records' = [records EXCEPT ![idx[t]] = n + 1]
        /\ versions' = Append(versions, v) /\ records[idx[t]] = r
    BY <1>5 DEF UpdateSlot, CasHits
  <2>2. v.origin = Origin(r) /\ n \in Nat
    BY <1>1 DEF UpdatedVersion, Origin
  <2> HIDE DEF r, v
  <2>3. versions'[n + 1] = v
    BY <2>1, <2>2 DEF TypeInv, TypeOK
  <2> HIDE DEF n
  <2>4. n + 1 \notin 0 .. n /\ n + 1 # NoVersion
    BY <2>2 DEF NoVersion
  <2>5. DOMAIN records' = DOMAIN records
    BY <2>1
  <2>6. \A i \in DOMAIN records :
           records'[i] = IF i = idx[t] THEN n + 1 ELSE records[i]
    BY <2>1
  <2>7. ASSUME NEW i \in DOMAIN records PROVE Origin(records[i])' = Origin(records[i])
    <3>1. CASE i = idx[t]
      BY <2>1, <2>2, <2>3, <2>6, <3>1 DEF Origin
    <3>2. CASE i # idx[t]
      BY <1>2, <2>6, <3>2
    <3> QED
      BY <3>1, <3>2
  <2> QED
    BY <2>4, <2>5, <2>6, <2>7 DEF RowsGrow, NoNulls, n
<1>6. records' = records \/ PushRow(t) \/ (UpdateSlot(t) /\ CasHits(t))
  <2>1. Looks(t) => records' = records
    BY LooksOnly
  <2>2. CountRow(t) => records' = records
    BY DEF CountRow
  <2>3. UpdateSlot(t) /\ ~CasHits(t) => records' = records
    BY DEF UpdateSlot
  <2> QED
    BY <2>1, <2>2, <2>3 DEF Acts
<1> QED
  BY <1>3, <1>4, <1>5, <1>6
=============================================================================
