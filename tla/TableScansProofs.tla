-------------------------- MODULE TableScansProofs --------------------------
(***************************************************************************)
(* Proofs about the scans of a table for any number of threads, any        *)
(* statements and any initial rows: a search never collects a row twice;   *)
(* and where no statement deletes, a search collects every row that nobody *)
(* touches, an UPDATE replaces every row that matches, and the table       *)
(* implements AtomicTable.                                                 *)
(***************************************************************************)
EXTENDS TableScans, TableRowsProofs, WellFoundedInduction

-----------------------------------------------------------------------------
(* A search never collects a row twice.                                    *)

Searching(t) == pc[t] \in {"search", "searchCheck"}

\* What a search has collected is behind the slot it looks at: erasures only
\* move rows to the front, an update leaves a row in its slot, and a row that
\* is pushed was in no slot before.
CollectedBehind(t) ==
    Searching(t) => \A k \in DOMAIN record_refs[t] : \A j \in DOMAIN records :
        (j >= idx[t] /\ records[j] # NoVersion) => Origin(records[j]) # Origin(record_refs[t][k])

\* What a search has collected was inserted before it was read.
CollectedOld(t) ==
    \A k \in DOMAIN record_refs[t] :
        /\ Origin(record_refs[t][k]) < record_counter
        /\ \A u \in Threads : Pending(u) => Origin(retrieved[u]) # Origin(record_refs[t][k])

CollectedOnce(t) ==
    \A i, j \in DOMAIN record_refs[t] :
        i # j => Origin(record_refs[t][i]) # Origin(record_refs[t][j])

SearchOK(t) ==
    /\ pc[t] = "idle" => record_refs[t] = <<>>
    /\ CollectedBehind(t) /\ CollectedOld(t) /\ CollectedOnce(t)

SearchInv == DistinctInv /\ \A t \in Threads : SearchOK(t)

\* A step that puts no new row into the table moves rows to the front only.
MoveDown == \E g : ComesFrom(g) /\ \A j \in DOMAIN records' : g[j] >= j

LEMMA SameRowsMoveDown ==
    ASSUME TypeInv, VersionsGrow, DOMAIN records' = DOMAIN records,
           \A j \in DOMAIN records' : records'[j] # NoVersion =>
               /\ records[j] # NoVersion
               /\ versions'[records'[j]].origin = versions[records[j]].origin
    PROVE  MoveDown
<1> DEFINE g == [j \in DOMAIN records |-> j]
<1>1. DOMAIN records \subseteq Nat
  BY DEF TypeInv, TypeOK
<1>2. ComesFrom(g)
  BY DEF ComesFrom
<1>3. \A j \in DOMAIN records' : g[j] >= j
  BY <1>1
<1> HIDE DEF g
<1> QED
  BY <1>2, <1>3 DEF MoveDown

LEMMA RowsMoveDown ==
    ASSUME TypeInv, NEW t \in Threads, Acts(t), ~PushRow(t)
    PROVE  MoveDown
<1>1. VersionsGrow
  BY VersionsOnlyGrow
<1>2. \A j \in DOMAIN records : records[j] # NoVersion => records[j] \in 1 .. Len(versions)
  BY SlotRange DEF TypeInv
<1>3. CASE Looks(t) \/ CountRow(t)
  <2>1. records' = records
    BY <1>3, LooksOnly DEF CountRow
  <2> QED
    BY <1>1, <1>2, <2>1, SameRowsMoveDown DEF VersionsGrow
<1>4. CASE ClearSlot(t)
  <2>1. \/ records' = records
        \/ InRange(idx[t]) /\ records' = [records EXCEPT ![idx[t]] = NoVersion]
    BY <1>4 DEF ClearSlot, CasHits
  <2>2. DOMAIN records' = DOMAIN records
    BY <2>1
  <2>3. \A j \in DOMAIN records' : records'[j] # NoVersion => records'[j] = records[j]
    BY <2>1 DEF InRange
  <2> QED
    BY <1>1, <1>2, <2>2, <2>3, SameRowsMoveDown DEF VersionsGrow
<1>5. CASE UpdateSlot(t)
  <2>1. CASE ~CasHits(t)
    <3>1. records' = records
      BY <1>5, <2>1 DEF UpdateSlot
    <3> QED
      BY <1>1, <1>2, <3>1, SameRowsMoveDown DEF VersionsGrow
  <2>2. CASE CasHits(t)
    <3> DEFINE r == CurrentRef(t)
               v == UpdatedVersion(r, request[t].row)
               n == Len(versions)
    <3>1. /\ versions' = Append(versions, v) /\ InRange(idx[t])
          /\ records' = [records EXCEPT ![idx[t]] = n + 1]
          /\ records[idx[t]] = r /\ pc[t] = "cas"
      BY <1>5, <2>2 DEF UpdateSlot, CasHits, Running
    <3>2. r \in 1 .. n /\ n \in Nat
      <4>1. ref[t] <= Len(record_refs[t])
        BY <3>1 DEF TypeInv, LocalsOK, LocalOK
      <4> QED
        BY <4>1, RefRange, SlotRange DEF TypeInv
    <3>3. v.origin = versions[r].origin
      BY DEF UpdatedVersion
    <3> HIDE DEF r, v
    <3>4. versions'[n + 1] = v
      BY <3>1, <3>2 DEF TypeInv, TypeOK
    <3>5. DOMAIN records' = DOMAIN records
      BY <3>1
    <3>6. ASSUME NEW j \in DOMAIN records', records'[j] # NoVersion
          PROVE  /\ records[j] # NoVersion
                 /\ versions'[records'[j]].origin = versions[records[j]].origin
      <4>1. CASE j = idx[t]
        BY <3>1, <3>2, <3>3, <3>4, <3>5, <4>1 DEF NoVersion, InRange
      <4>2. CASE j # idx[t]
        <5>1. records'[j] = records[j]
          BY <3>1, <3>5, <4>2
        <5> QED
          BY <1>1, <1>2, <3>5, <3>6, <5>1 DEF VersionsGrow
      <4> QED
        BY <4>1, <4>2
    <3> QED
      BY <1>1, <3>5, <3>6, SameRowsMoveDown
  <2> QED
    BY <2>1, <2>2
<1>6. CASE EraseSlot(t)
  <2>1. CASE records' = records
    BY <1>1, <1>2, <2>1, SameRowsMoveDown DEF VersionsGrow
  <2>2. CASE InRange(idx[t]) /\ records' = EraseAt(idx[t])
    <3> DEFINE g == [j \in DOMAIN records' |-> IF j < idx[t] THEN j ELSE j + 1]
    <3>1. /\ idx[t] \in DOMAIN records /\ records' = EraseAt(idx[t])
          /\ idx[t] \in Nat /\ DOMAIN records' \subseteq Nat
      <4>1. idx[t] \in DOMAIN records /\ TypeOK
        BY <2>2 DEF InRange, TypeInv
      <4>2. EraseAt(idx[t]) \in Seq(0 .. Len(versions))
        BY <4>1, EraseAtSlots
      <4>3. DOMAIN EraseAt(idx[t]) \subseteq Nat
        BY <4>2
      <4> QED
        BY <2>2, <4>1, <4>3 DEF TypeOK
    <3>2. \A j \in DOMAIN records' :
              g[j] \in DOMAIN records /\ records'[j] = records[g[j]]
      BY <3>1, EraseAtSlots DEF TypeInv
    <3>3. \A i, j \in DOMAIN records' : i # j => g[i] # g[j]
      BY <3>1
    <3>4. \A j \in DOMAIN records' : g[j] >= j
      BY <3>1
    <3> HIDE DEF g
    <3>5. g \in [DOMAIN records' -> DOMAIN records]
      BY <3>2 DEF g
    <3>6. ComesFrom(g)
      BY <1>1, <1>2, <3>2, <3>3, <3>5 DEF ComesFrom, VersionsGrow
    <3> QED
      BY <3>4, <3>6 DEF MoveDown
  <2> QED
    BY <1>6, <2>1, <2>2 DEF EraseSlot
<1> QED
  BY <1>3, <1>4, <1>5, <1>6 DEF Acts

\* What a search has collected stays old, and once, while it collects nothing.
LEMMA CollectedKept ==
    ASSUME TypeInv, NEW u \in Threads, VersionsGrow, PendingSince,
           record_refs'[u] = record_refs[u], CollectedOld(u), CollectedOnce(u)
    PROVE  CollectedOld(u)' /\ CollectedOnce(u)'
<1>1. \A k \in DOMAIN record_refs[u] : record_refs[u][k] \in 1 .. Len(versions)
  BY DEF TypeInv, TypeOK
<1>2. \A k \in DOMAIN record_refs[u] :
          Origin(record_refs[u][k])' = Origin(record_refs[u][k])
  BY <1>1 DEF Origin, VersionsGrow
<1>3. \A k \in DOMAIN record_refs[u] : Origin(record_refs[u][k]) \in Nat
  <2>1. versions \in Seq(VersionType)
    BY DEF TypeInv, TypeOK
  <2>2. \A v \in 1 .. Len(versions) : versions[v] \in VersionType
    BY <2>1
  <2> QED
    BY <1>1, <2>2 DEF Origin, VersionType
<1>4. CollectedOnce(u)'
  BY <1>2 DEF CollectedOnce
<1>5. ASSUME NEW k \in DOMAIN record_refs[u]
      PROVE  /\ Origin(record_refs[u][k])' < record_counter'
             /\ \A w \in Threads : Pending(w)' =>
                   Origin(retrieved[w])' # Origin(record_refs[u][k])'
  <2>1. Origin(record_refs[u][k]) < record_counter
    BY DEF CollectedOld
  <2>2. ASSUME NEW w \in Threads, Pending(w)'
        PROVE  Origin(retrieved[w])' # Origin(record_refs[u][k])
    <3>1. CASE Pending(w) /\ Origin(retrieved[w])' = Origin(retrieved[w])
      BY <3>1 DEF CollectedOld
    <3>2. CASE Origin(retrieved[w])' = record_counter
      BY <1>3, <2>1, <3>2 DEF PendingSince
    <3> QED
      BY <2>2, <3>1, <3>2 DEF PendingSince
  <2>3. Origin(record_refs[u][k]) < record_counter'
    BY <1>3, <2>1 DEF PendingSince
  <2> QED
    BY <1>2, <2>2, <2>3
<1>6. CollectedOld(u)'
  BY <1>5 DEF CollectedOld
<1> QED
  BY <1>4, <1>6

\* A search that waits while the table moves.
LEMMA BehindKept ==
    ASSUME DistinctInv, NEW t \in Threads, NEW u \in Threads, Acts(t),
           CollectedBehind(u), CollectedOld(u), Searching(u),
           idx'[u] = idx[u], record_refs'[u] = record_refs[u]
    PROVE  CollectedBehind(u)'
<1>1. TypeInv /\ VersionsGrow
  BY VersionsOnlyGrow DEF DistinctInv
<1>2. \A k \in DOMAIN record_refs[u] :
          Origin(record_refs[u][k])' = Origin(record_refs[u][k])
  <2>1. \A k \in DOMAIN record_refs[u] : record_refs[u][k] \in 1 .. Len(versions)
    BY <1>1, RefRange DEF TypeInv
  <2> QED
    BY <1>1, <2>1 DEF Origin, VersionsGrow
<1>3. idx[u] \in Nat
  BY <1>1 DEF TypeInv, TypeOK
<1> SUFFICES ASSUME NEW k \in DOMAIN record_refs[u], NEW j \in DOMAIN records',
                    j >= idx[u], records'[j] # NoVersion
             PROVE  Origin(records[j])' # Origin(record_refs[u][k])
  BY <1>2 DEF CollectedBehind
<1>4. CASE PushRow(t)
  <2>1. /\ records' = Append(records, retrieved[t]) /\ versions' = versions /\ Pending(t)
    BY <1>4 DEF PushRow, Running, Pending
  <2>0. records \in Seq(0 .. Len(versions))
    BY <1>1 DEF TypeInv, TypeOK
  <2>2. \/ j \in DOMAIN records /\ records'[j] = records[j]
        \/ records'[j] = retrieved[t]
    BY <2>0, <2>1
  <2>3. CASE j \in DOMAIN records /\ records'[j] = records[j]
    BY <2>1, <2>3 DEF CollectedBehind, Origin
  <2>4. CASE records'[j] = retrieved[t]
    BY <2>1, <2>4 DEF CollectedOld, Origin
  <2> QED
    BY <2>2, <2>3, <2>4
<1>5. CASE ~PushRow(t)
  <2>1. PICK g : ComesFrom(g) /\ \A i \in DOMAIN records' : g[i] >= i
    BY <1>1, <1>5, RowsMoveDown DEF MoveDown
  <2>2. /\ g[j] \in DOMAIN records /\ records[g[j]] # NoVersion
        /\ Origin(records[j])' = Origin(records[g[j]]) /\ g[j] >= j
    BY <2>1 DEF ComesFrom, Origin
  <2>3. j \in Nat /\ g[j] \in Nat
    <3>0. records \in Seq(0 .. Len(versions))
      BY <1>1 DEF TypeInv, TypeOK
    <3>1. DOMAIN records \subseteq Nat
      BY <3>0
    <3>2. records' \in Seq(0 .. Len(versions'))
      <4>1. Next
        BY DEF Next, Acts, Step, Looks
      <4> QED
        BY <1>1, <4>1, TypeStep DEF TypeInv, TypeOK
    <3>3. DOMAIN records' \subseteq Nat
      BY <3>2
    <3> QED
      BY <2>2, <3>1, <3>3
  <2>4. g[j] >= idx[u]
    BY <1>3, <2>2, <2>3
  <2> QED
    BY <2>2, <2>4 DEF CollectedBehind
<1> QED
  BY <1>4, <1>5

\* SearchOn takes the search on, past the slot it has looked at, or ends it.
LEMMA SearchOnBehind ==
    ASSUME TypeInv, NEW t \in Threads, NEW refs \in Seq(1 .. Len(versions)), SearchOn(t, refs),
           Searching(t), UNCHANGED <<records, versions>>,
           \A k \in DOMAIN refs : \A j \in DOMAIN records :
               (j >= idx[t] + 1 /\ records[j] # NoVersion) => Origin(records[j]) # Origin(refs[k])
    PROVE  CollectedBehind(t)' /\ record_refs'[t] = refs /\ pc'[t] # "idle"
<1>1. /\ record_refs'[t] = refs /\ pc'[t] \in {"search", "done", "size"}
      /\ pc'[t] = "search" => idx'[t] = idx[t] + 1
  BY DEF SearchOn, Goto, TypeInv, TypeOK
<1> QED
  BY <1>1 DEF CollectedBehind, Searching, Origin

\* A row that is collected is in the slot the search looks at, and no other.
LEMMA CollectRow ==
    ASSUME SearchInv, NEW t \in Threads, Searching(t), InRange(idx[t]),
           records[idx[t]] # NoVersion
    PROVE  LET v == records[idx[t]]
               refs == Append(record_refs[t], v)
           IN  /\ refs \in Seq(1 .. Len(versions))
               /\ \A k \in DOMAIN refs : \A j \in DOMAIN records :
                     (j >= idx[t] + 1 /\ records[j] # NoVersion)
                         => Origin(records[j]) # Origin(refs[k])
               /\ \A k \in DOMAIN refs :
                     /\ Origin(refs[k]) < record_counter
                     /\ \A u \in Threads : Pending(u) => Origin(retrieved[u]) # Origin(refs[k])
               /\ \A i, k \in DOMAIN refs : i # k => Origin(refs[i]) # Origin(refs[k])
<1> DEFINE v == records[idx[t]]
           refs == Append(record_refs[t], v)
           n == Len(record_refs[t])
<1>1. /\ SearchOK(t) /\ DistinctInv /\ idx[t] \in DOMAIN records /\ idx[t] \in Nat
      /\ record_refs[t] \in Seq(1 .. Len(versions)) /\ v \in 1 .. Len(versions) /\ n \in Nat
  <2>1. SearchOK(t) /\ DistinctInv /\ TypeOK
    BY DEF SearchInv, DistinctInv, TypeInv
  <2>2. idx[t] \in DOMAIN records /\ record_refs[t] \in Seq(1 .. Len(versions))
    BY <2>1 DEF TypeOK, InRange
  <2>3. records \in Seq(0 .. Len(versions)) /\ idx[t] \in Nat
    BY <2>1 DEF TypeOK
  <2>4. v \in 1 .. Len(versions)
    BY <2>2, <2>3 DEF NoVersion
  <2> QED
    BY <2>1, <2>2, <2>3, <2>4
<1>2. /\ refs \in Seq(1 .. Len(versions)) /\ DOMAIN refs = 1 .. n + 1
      /\ DOMAIN record_refs[t] = 1 .. n /\ refs[n + 1] = v
      /\ \A k \in 1 .. n : refs[k] = record_refs[t][k]
  BY <1>1
<1> HIDE DEF refs, n
<1>3. \A k \in DOMAIN refs : refs[k] = v \/ (k \in DOMAIN record_refs[t] /\ refs[k] = record_refs[t][k])
  BY <1>1, <1>2
<1>4. \A j \in DOMAIN records : j \in Nat
  BY <1>1, SlotRange DEF DistinctInv, TypeInv
<1>5. ASSUME NEW k \in DOMAIN refs, NEW j \in DOMAIN records, j >= idx[t] + 1,
             records[j] # NoVersion
      PROVE  Origin(records[j]) # Origin(refs[k])
  <2>1. CASE refs[k] = v
    BY <1>1, <1>4, <1>5, <2>1 DEF DistinctInv, RowsDistinct, Origin
  <2>2. CASE k \in DOMAIN record_refs[t] /\ refs[k] = record_refs[t][k]
    <3>1. j >= idx[t]
      BY <1>1, <1>4, <1>5
    <3> QED
      BY <1>1, <1>5, <2>2, <3>1 DEF SearchOK, CollectedBehind
  <2> QED
    BY <1>3, <2>1, <2>2
<1>6. ASSUME NEW k \in DOMAIN refs
      PROVE  /\ Origin(refs[k]) < record_counter
             /\ \A u \in Threads : Pending(u) => Origin(retrieved[u]) # Origin(refs[k])
  <2>1. CASE refs[k] = v
    BY <1>1, <2>1 DEF DistinctInv, RowsCounted, PendingNew, Origin
  <2>2. CASE k \in DOMAIN record_refs[t] /\ refs[k] = record_refs[t][k]
    BY <1>1, <2>2 DEF SearchOK, CollectedOld
  <2> QED
    BY <1>3, <2>1, <2>2
<1>7. \A k \in 1 .. n : Origin(refs[k]) # Origin(v)
  <2>1. \A k \in DOMAIN record_refs[t] : Origin(v) # Origin(record_refs[t][k])
    BY <1>1, <1>4 DEF SearchOK, CollectedBehind
  <2> QED
    BY <1>2, <2>1
<1>8. ASSUME NEW i \in DOMAIN refs, NEW k \in DOMAIN refs, i # k
      PROVE  Origin(refs[i]) # Origin(refs[k])
  <2>1. CASE i \in 1 .. n /\ k \in 1 .. n
    BY <1>1, <1>2, <1>8, <2>1 DEF SearchOK, CollectedOnce
  <2>2. CASE i = n + 1
    <3>1. k \in 1 .. n
      BY <1>1, <1>2, <1>8, <2>2
    <3> QED
      BY <1>2, <1>7, <2>2, <3>1
  <2>3. CASE k = n + 1
    <3>1. i \in 1 .. n
      BY <1>1, <1>2, <1>8, <2>3
    <3> QED
      BY <1>2, <1>7, <2>3, <3>1
  <2>4. \A l \in DOMAIN refs : l \in 1 .. n \/ l = n + 1
    BY <1>1, <1>2
  <2> QED
    BY ONLY <1>8, <2>1, <2>2, <2>3, <2>4
<1> QED
  BY <1>2, <1>5, <1>6, <1>8 DEF refs

LEMMA SearchStepOK ==
    ASSUME SearchInv, NEW t \in Threads, SearchRead(t) \/ SearchCheck(t)
    PROVE  SearchOK(t)'
<1>1. /\ TypeInv /\ SearchOK(t) /\ Searching(t) /\ idx[t] \in Nat
      /\ record_refs[t] \in Seq(1 .. Len(versions))
  BY DEF SearchInv, DistinctInv, TypeInv, TypeOK, SearchRead, SearchCheck, Running, Searching
<1>2. UNCHANGED <<records, versions, record_counter>> /\ OthersWait(t)
  BY <1>1, LooksOnly DEF Looks
<1>3. VersionsGrow /\ PendingSince
  BY <1>1, VersionsOnlyGrow, PendingSinceStep DEF Acts, Looks
<1>4. \A k \in DOMAIN record_refs[t] : \A j \in DOMAIN records :
         (j >= idx[t] + 1 /\ records[j] # NoVersion)
             => Origin(records[j]) # Origin(record_refs[t][k])
  <2>1. records \in Seq(0 .. Len(versions))
    BY <1>1 DEF TypeInv, TypeOK
  <2>2. \A j \in DOMAIN records : j \in Nat
    BY <2>1
  <2> QED
    BY <1>1, <2>2 DEF SearchOK, CollectedBehind
<1>5. ASSUME SearchOn(t, record_refs[t]) PROVE SearchOK(t)'
  <2>1. CollectedBehind(t)' /\ record_refs'[t] = record_refs[t] /\ pc'[t] # "idle"
    BY <1>1, <1>2, <1>4, <1>5, SearchOnBehind
  <2> QED
    BY <1>1, <1>3, <2>1, CollectedKept DEF SearchOK
<1>6. CASE SearchRead(t) /\ InRange(idx[t])
  <2>1. pc'[t] = "searchCheck" /\ idx'[t] = idx[t] /\ record_refs'[t] = record_refs[t]
    BY <1>1, <1>6 DEF SearchRead, Goto, TypeInv, TypeOK
  <2>2. CollectedBehind(t)'
    BY <1>1, <1>2, <2>1 DEF CollectedBehind, Searching, SearchOK, Origin
  <2> QED
    BY <1>1, <1>3, <2>1, <2>2, CollectedKept DEF SearchOK
<1>7. CASE SearchRead(t) /\ ~InRange(idx[t])
  BY <1>5, <1>7 DEF SearchRead
<1>8. CASE SearchCheck(t)
  <2> DEFINE collect == Held(t) /\ Satisfies(versions[retrieved[t]].data, request[t].pred)
             refs == Append(record_refs[t], retrieved[t])
  <2>1. /\ ~(Held(t) /\ retrieved[t] = NoVersion)
        /\ SearchOn(t, IF collect THEN refs ELSE record_refs[t])
    BY <1>8 DEF SearchCheck
  <2>2. CASE ~collect
    <3>1. SearchOn(t, record_refs[t])
      BY <2>1, <2>2
    <3> QED
      BY <1>5, <3>1
  <2>3. CASE collect
    <3>1. InRange(idx[t]) /\ records[idx[t]] = retrieved[t] /\ retrieved[t] # NoVersion
      BY <2>1, <2>3 DEF Held
    <3>2. SearchOn(t, refs)
      BY <2>1, <2>3
    <3>3. /\ refs \in Seq(1 .. Len(versions))
          /\ \A k \in DOMAIN refs : \A j \in DOMAIN records :
                (j >= idx[t] + 1 /\ records[j] # NoVersion)
                    => Origin(records[j]) # Origin(refs[k])
          /\ \A k \in DOMAIN refs :
                /\ Origin(refs[k]) < record_counter
                /\ \A u \in Threads : Pending(u) => Origin(retrieved[u]) # Origin(refs[k])
          /\ \A i, k \in DOMAIN refs : i # k => Origin(refs[i]) # Origin(refs[k])
      BY <1>1, <3>1, CollectRow
    <3> HIDE DEF refs
    <3>4. CollectedBehind(t)' /\ record_refs'[t] = refs /\ pc'[t] # "idle"
      BY <1>1, <1>2, <3>2, <3>3, SearchOnBehind
    <3>5. \A v : Origin(v)' = Origin(v)
      BY <1>2 DEF Origin
    <3>6. \A u \in Threads : Pending(u)' => Pending(u) /\ retrieved'[u] = retrieved[u]
      BY <1>2 DEF OthersWait, Pending
    <3>7. CollectedOld(t)'
      BY <1>2, <3>3, <3>4, <3>5, <3>6 DEF CollectedOld
    <3>8. CollectedOnce(t)'
      BY <3>3, <3>4, <3>5 DEF CollectedOnce
    <3> QED
      BY <3>4, <3>7, <3>8 DEF SearchOK
  <2> QED
    BY <2>2, <2>3
<1> QED
  BY <1>6, <1>7, <1>8

\* A step that starts, ends or follows a search collects nothing.
LEMMA OtherStepOK ==
    ASSUME SearchInv, NEW t \in Threads, Acts(t), ~SearchRead(t), ~SearchCheck(t)
    PROVE  SearchOK(t)'
<1>1. /\ TypeInv /\ SearchOK(t) /\ pc \in [Threads -> Pcs] /\ idx \in [Threads -> Nat \ {0}]
      /\ record_refs \in [Threads -> Seq(1 .. Len(versions))]
  BY DEF SearchInv, DistinctInv, TypeInv, TypeOK
<1>2. VersionsGrow /\ PendingSince
  BY <1>1, VersionsOnlyGrow, PendingSinceStep
<1>3. CASE Return(t)
  <2>1. record_refs'[t] = <<>> /\ pc'[t] = "idle"
    BY <1>1, <1>3 DEF Return, Goto
  <2>2. DOMAIN record_refs'[t] = {}
    BY <2>1
  <2> QED
    BY <2>1, <2>2 DEF SearchOK, CollectedBehind, CollectedOld, CollectedOnce
<1>4. ASSUME record_refs'[t] = record_refs[t], pc'[t] # "idle",
             Searching(t)' => \/ record_refs[t] = <<>>
                              \/ Searching(t) /\ idx'[t] = idx[t] /\ UNCHANGED <<records, versions>>
      PROVE  SearchOK(t)'
  <2>1. CollectedOld(t)' /\ CollectedOnce(t)'
    BY <1>1, <1>2, <1>4, CollectedKept DEF SearchOK
  <2>2. ASSUME ~Searching(t)' PROVE CollectedBehind(t)'
    BY <2>2 DEF CollectedBehind
  <2>3. ASSUME record_refs[t] = <<>> PROVE CollectedBehind(t)'
    <3>1. DOMAIN record_refs'[t] = {}
      BY <1>4, <2>3
    <3> QED
      BY <3>1 DEF CollectedBehind
  <2>4. ASSUME Searching(t), idx'[t] = idx[t], UNCHANGED <<records, versions>>
        PROVE  CollectedBehind(t)'
    BY <1>1, <1>4, <2>4 DEF SearchOK, CollectedBehind, Origin
  <2>5. CollectedBehind(t)'
    BY <1>4, <2>2, <2>3, <2>4
  <2> QED
    BY <1>4, <2>1, <2>5 DEF SearchOK
<1>5. CASE RejectRow(t) \/ CheckRow(t) \/ BeginScan(t) \/ RefuseFullTable(t)
  <2>1. pc[t] = "idle" /\ record_refs'[t] = record_refs[t] /\ pc'[t] # "idle"
    BY <1>1, <1>5 DEF RejectRow, CheckRow, BeginScan, RefuseFullTable, Begin, Goto, scanVars
  <2> QED
    BY <1>1, <1>4, <2>1 DEF SearchOK
<1>6. CASE NullDereference(t)
  <2>1. pc[t] # "idle" /\ UNCHANGED <<pc, idx, records, versions, record_refs>>
    BY <1>6 DEF NullDereference, Running, scanVars
  <2> QED
    BY <1>4, <2>1 DEF Searching
<1>7. CASE ReadSize(t) \/ FindRead(t) \/ FindCheck(t)
  BY <1>1, <1>4, <1>7 DEF ReadSize, FindRead, FindCheck, FindOn, Goto, Searching
<1>8. CASE CountRow(t) \/ PushRow(t)
  BY <1>1, <1>4, <1>8 DEF CountRow, PushRow, Goto, Searching, scanVars
<1>9. CASE UpdateSlot(t)
  BY <1>1, <1>4, <1>9 DEF UpdateSlot, FindOn, Goto, Searching
<1>10. CASE ClearSlot(t)
  BY <1>1, <1>4, <1>10 DEF ClearSlot, Goto, Searching, scanVars
<1>11. CASE EraseSlot(t)
  BY <1>1, <1>4, <1>11 DEF EraseSlot, FindOn, Goto, Searching
<1> QED
  BY <1>3, <1>5, <1>6, <1>7, <1>8, <1>9, <1>10, <1>11 DEF Acts, Looks

LEMMA SearchStep ==
    ASSUME SearchInv, Next
    PROVE  SearchInv'
<1>1. DistinctInv'
  BY DistinctStep DEF SearchInv
<1>2. PICK t \in Threads : Acts(t)
  BY NextSplit DEF Acts
<1>3. SearchOK(t)'
  BY <1>2, SearchStepOK, OtherStepOK
<1>4. ASSUME NEW u \in Threads \ {t} PROVE SearchOK(u)'
  <2>1. /\ TypeInv /\ DistinctInv /\ SearchOK(u)
    BY DEF SearchInv, DistinctInv
  <2>2. /\ pc'[u] = pc[u] /\ idx'[u] = idx[u] /\ record_refs'[u] = record_refs[u]
    BY <1>2, <2>1, StepOfThread DEF OthersAlone
  <2>3. VersionsGrow /\ PendingSince
    BY <1>2, <2>1, VersionsOnlyGrow, PendingSinceStep
  <2>4. CollectedOld(u)' /\ CollectedOnce(u)'
    BY <2>1, <2>2, <2>3, CollectedKept DEF SearchOK
  <2>5. CASE Searching(u)
    BY <1>2, <2>1, <2>2, <2>4, <2>5, BehindKept DEF SearchOK
  <2>6. CASE ~Searching(u)
    BY <2>1, <2>2, <2>4, <2>6 DEF SearchOK, CollectedBehind, Searching
  <2> QED
    BY <2>5, <2>6
<1> QED
  BY <1>1, <1>3, <1>4 DEF SearchInv

\* Whatever threads delete, update and insert beside it, a search collects no
\* row twice: a SELECT returns it once and an UPDATE applies itself once.
THEOREM SearchesStayDistinct == Spec => []SearchDistinct
<1>1. Init => SearchInv
  <2> SUFFICES ASSUME Init PROVE SearchInv
    OBVIOUS
  <2>1. \A t \in Threads : record_refs[t] = <<>> /\ pc[t] = "idle"
    BY DEF Init
  <2>2. DOMAIN <<>> = {}
    OBVIOUS
  <2>3. \A t \in Threads : DOMAIN record_refs[t] = {}
    BY <2>1, <2>2
  <2> QED
    BY <2>1, <2>3, InitDistinct DEF SearchInv, SearchOK, CollectedBehind, CollectedOld, CollectedOnce
<1>2. ASSUME SearchInv, UNCHANGED vars PROVE SearchInv'
  <2>1. DistinctInv'
    BY <1>2, DistinctStutter DEF SearchInv
  <2>2. UNCHANGED <<records, versions, record_counter, pc, idx, retrieved, record_refs>>
    BY <1>2 DEF vars, tableVars, scanVars
  <2> QED
    BY <1>2, <2>1, <2>2 DEF SearchInv, SearchOK, CollectedBehind, CollectedOld, CollectedOnce,
                            Searching, Origin, Pending
<1>3. SearchInv /\ [Next]_vars => SearchInv'
  BY <1>2, SearchStep
<1>4. SearchInv => SearchDistinct
  BY DEF SearchInv, SearchOK, CollectedOnce, SearchDistinct, Origin
<1> QED
  BY <1>1, <1>3, <1>4, PTL DEF Spec

-----------------------------------------------------------------------------
(* Statements without deletes.                                             *)

\* A nonempty set of list positions has a largest one.
LEMMA LargestPosition ==
    ASSUME NEW n \in Nat, NEW S \in SUBSET (1 .. n), S # {}
    PROVE  \E j \in S : \A k \in S : k <= j
<1> DEFINE T == {n - s : s \in S}
           R == OpToRel(<, Nat)
<1>1. T \subseteq Nat /\ T # {}
  <2>1. \A s \in S : n - s \in Nat
    OBVIOUS
  <2>2. PICK s \in S : TRUE
    OBVIOUS
  <2>3. n - s \in T
    BY <2>2
  <2> QED
    BY <2>1, <2>3
<1>2. IsWellFoundedOn(R, Nat)
  BY NatLessThanWellFounded
<1>3. \A x \in Nat, y \in Nat : x < y => <<x, y>> \in R
  BY DEF OpToRel
<1> HIDE DEF R
<1>4. PICK x \in T : \A y \in T : ~ (<<y, x>> \in R)
  BY <1>1, <1>2, WFMin
<1>5. PICK j \in S : x = n - j
  OBVIOUS
<1>6. ASSUME NEW k \in S PROVE k <= j
  <2>1. ~ (n - k < n - j)
    BY <1>1, <1>3, <1>4, <1>5
  <2> QED
    BY <2>1
<1> QED
  BY <1>6

\* A row as schemaChecker leaves it is one that an atomic INSERT may leave.
LEMMA CheckedInserted ==
    ASSUME NEW row \in RowData, NEW n \in Nat
    PROVE  Atomic!Inserted(row, Checked(row, n))
<1>1. Checked(row, n) \in RowData
  BY CheckedType
<1>2. ASSUME NEW c \in Columns
      PROVE  \/ Checked(row, n)[c] = Checked(row, 0)[c]
             \/ HasConstraint(c, "AUTO_INCREMENT") /\ Checked(row, n)[c] \in Nat \ {0}
  <2>1. CASE Setters(row, c) = {}
    BY <1>2, <2>1 DEF Checked
  <2>2. CASE Setters(row, c) # {}
    <3> DEFINE j == LastSetter(row, c)
    <3>1. Constraints[c] \in Seq(ConstraintType) /\ Len(Constraints[c]) \in Nat
      BY <1>2, ConstraintsAssumption
    <3>2. Setters(row, c) \in SUBSET (1 .. Len(Constraints[c]))
      BY <3>1 DEF Setters
    <3>3. j \in Setters(row, c)
      BY <2>2, <3>1, <3>2, LargestPosition DEF LastSetter
    <3>4. j \in DOMAIN Constraints[c]
      BY <3>3 DEF Setters
    <3> HIDE DEF j
    <3>5. Checked(row, n)[c] =
             IF Constraints[c][j] = "AUTO_INCREMENT" THEN n + 1 ELSE DefaultOf[c]
      BY <1>2, <2>2 DEF Checked, j
    <3>6. Checked(row, 0)[c] =
             IF Constraints[c][j] = "AUTO_INCREMENT" THEN 0 + 1 ELSE DefaultOf[c]
      BY <1>2, <2>2 DEF Checked, j
    <3> QED
      BY <3>4, <3>5, <3>6 DEF HasConstraint
  <2> QED
    BY <2>1, <2>2
<1> QED
  BY <1>1, <1>2 DEF Atomic!Inserted, Atomic!RowData, RowData, Atomic!Datum, Datum,
     Atomic!Checked, Checked, Atomic!HasConstraint, HasConstraint,
     Atomic!Setters, Setters, Atomic!LastSetter, LastSetter

\* What the locals of a statement say of it: the statement is the caller's, but
\* for the columns an INSERT has filled in, and what is collected satisfies its
\* predicate.
StatementOK(t) ==
    /\ request[t].kind # "DELETE" /\ pc[t] # "erase"
    /\ pc[t] \in {"search", "searchCheck"} => request[t].kind # "INSERT"
    /\ pc[t] \in {"size", "find", "findCheck", "cas"} => request[t].kind = "UPDATE"
    /\ pc[t] # "idle" /\ request[t].kind # "INSERT" => request[t] \in Requests[t]
    /\ pc[t] = "idle" => record_refs[t] = <<>>
    /\ \A k \in DOMAIN record_refs[t] :
          Satisfies(versions[record_refs[t][k]].data, request[t].pred)

InsertOf(t, data) ==
    \E r \in Requests[t] :
        r.kind = "INSERT" /\ Accepted(r.row) /\ Atomic!Inserted(r.row, data)

InsertOK(t) ==
    /\ pc[t] = "count" => InsertOf(t, request[t].row)
    /\ pc[t] = "push" => InsertOf(t, versions[retrieved[t]].data)

KeepInv ==
    DistinctInv /\ NoNulls /\ \A t \in Threads : StatementOK(t) /\ InsertOK(t)

LEMMA RefAllocated ==
    ASSUME TypeInv, NEW t \in Threads, NEW k \in DOMAIN record_refs[t]
    PROVE  record_refs[t][k] \in 1 .. Len(versions)
BY RefRange DEF TypeInv

LEMMA KeepOthers ==
    ASSUME KeepInv, NEW t \in Threads, NEW u \in Threads \ {t}, Acts(t)
    PROVE  StatementOK(u)' /\ InsertOK(u)'
<1>1. TypeInv /\ StatementOK(u) /\ InsertOK(u)
  BY DEF KeepInv, DistinctInv
<1>2. OthersAlone(t) /\ VersionsGrow
  BY <1>1, StepOfThread, VersionsOnlyGrow
<1>3. \A k \in DOMAIN record_refs[u] : record_refs[u][k] \in 1 .. Len(versions)
  BY <1>1, RefAllocated
<1>4. StatementOK(u)'
  BY <1>1, <1>2, <1>3 DEF StatementOK, OthersAlone, VersionsGrow
<1>5. pc[u] = "push" => retrieved[u] \in 1 .. Len(versions)
  BY <1>1, RetrievedRange DEF TypeInv, LocalsOK, LocalOK
<1>6. InsertOK(u)'
  BY <1>1, <1>2, <1>5 DEF InsertOK, InsertOf, OthersAlone, VersionsGrow
<1> QED
  BY <1>4, <1>6

\* The four ways a statement begins.
LEMMA KeepBegin ==
    ASSUME NoDeletes, KeepInv, NEW t \in Threads,
           RejectRow(t) \/ CheckRow(t) \/ BeginScan(t) \/ RefuseFullTable(t)
    PROVE  StatementOK(t)' /\ InsertOK(t)'
<1>1. /\ TypeInv /\ StatementOK(t) /\ pc \in [Threads -> Pcs]
      /\ request \in [Threads -> StatementType] /\ record_counter \in Nat
  BY DEF KeepInv, DistinctInv, TypeInv, TypeOK
<1>2. pc[t] = "idle" /\ record_refs'[t] = <<>>
  BY <1>1 DEF RejectRow, CheckRow, BeginScan, RefuseFullTable, Begin, scanVars, StatementOK
<1>3. DOMAIN record_refs'[t] = {}
  BY <1>2
<1>4. CASE RejectRow(t) \/ BeginScan(t) \/ RefuseFullTable(t)
  <2>1. /\ request'[t] \in Requests[t] /\ pc'[t] \in {"done", "search"}
        /\ pc'[t] = "search" => request'[t].kind # "INSERT"
    BY <1>1, <1>4 DEF RejectRow, BeginScan, RefuseFullTable, Begin, Goto
  <2>2. request'[t].kind # "DELETE"
    BY <2>1 DEF NoDeletes
  <2> QED
    BY <1>3, <2>1, <2>2 DEF StatementOK, InsertOK
<1>5. CASE CheckRow(t)
  <2> DEFINE checked(r) == [r EXCEPT !.row = Checked(r.row, record_counter)]
  <2>1. PICK r \in Requests[t] :
          /\ r.kind = "INSERT" /\ Accepted(r.row)
          /\ pc' = [pc EXCEPT ![t] = "count"]
          /\ request' = [request EXCEPT ![t] = checked(r)]
    BY <1>5 DEF CheckRow, Begin, Goto
  <2>2. r \in StatementType /\ r.row \in RowData
    <3>1. r \in StatementType /\ DOMAIN r.row # {}
      BY <2>1, RequestsAssumption, ColumnsAssumption DEF Accepted
    <3>2. r.row # NoRow
      BY <3>1 DEF NoRow
    <3> QED
      BY <3>1, <3>2 DEF StatementType, StatementRow
  <2>3. /\ checked(r).kind = "INSERT" /\ checked(r).row = Checked(r.row, record_counter)
    BY <2>1, <2>2 DEF StatementType
  <2> HIDE DEF checked
  <2>4. pc'[t] = "count" /\ request'[t] = checked(r)
    BY <1>1, <2>1
  <2>5. Atomic!Inserted(r.row, Checked(r.row, record_counter))
    BY <1>1, <2>2, CheckedInserted
  <2>6. InsertOf(t, request'[t].row)
    BY <2>1, <2>3, <2>4, <2>5 DEF InsertOf
  <2>7. InsertOK(t)'
    BY <2>4, <2>6 DEF InsertOK, InsertOf
  <2>8. StatementOK(t)'
    BY <1>3, <2>3, <2>4 DEF StatementOK
  <2> QED
    BY <2>7, <2>8
<1> QED
  BY <1>4, <1>5

\* The steps of a statement under way that collect nothing.
LEMMA KeepGoing ==
    ASSUME KeepInv, NEW t \in Threads, VersionsGrow,
           request'[t] = request[t], record_refs'[t] = record_refs[t],
           pc[t] # "idle", pc'[t] \notin {"idle", "erase", "count"},
           pc'[t] = "push" => InsertOf(t, versions'[retrieved'[t]].data),
           pc'[t] \in {"search", "searchCheck"} => pc[t] \in {"search", "searchCheck"},
           pc'[t] \in {"size", "find", "findCheck", "cas"} =>
               pc[t] \in {"size", "find", "findCheck", "cas"} \/ request[t].kind = "UPDATE"
    PROVE  StatementOK(t)' /\ InsertOK(t)'
<1>1. TypeInv /\ StatementOK(t)
  BY DEF KeepInv, DistinctInv
<1>2. \A k \in DOMAIN record_refs[t] : record_refs[t][k] \in 1 .. Len(versions)
  BY <1>1, RefAllocated
<1>3. StatementOK(t)'
  BY <1>1, <1>2 DEF StatementOK, VersionsGrow
<1>4. InsertOK(t)'
  BY DEF InsertOK, InsertOf
<1> QED
  BY <1>3, <1>4

LEMMA KeepSearch ==
    ASSUME KeepInv, NEW t \in Threads, SearchRead(t) \/ SearchCheck(t)
    PROVE  StatementOK(t)' /\ InsertOK(t)'
<1>1. /\ TypeInv /\ StatementOK(t) /\ VersionsGrow /\ UNCHANGED <<records, versions>>
      /\ pc \in [Threads -> Pcs] /\ record_refs \in [Threads -> Seq(1 .. Len(versions))]
      /\ pc[t] \in {"search", "searchCheck"} /\ request' = request
      /\ request[t] \in StatementType
  <2>1. TypeInv /\ StatementOK(t)
    BY DEF KeepInv, DistinctInv
  <2>2. VersionsGrow /\ UNCHANGED <<records, versions>>
    BY <2>1, VersionsOnlyGrow, LooksOnly DEF Acts, Looks
  <2> QED
    BY <2>1, <2>2 DEF TypeInv, TypeOK, SearchRead, SearchCheck, Running
<1>2. request[t].kind \in {"SELECT", "UPDATE"}
  BY <1>1 DEF StatementOK, StatementType, Kinds
<1>3. ASSUME NEW refs, SearchOn(t, refs),
             \A k \in DOMAIN refs : Satisfies(versions[refs[k]].data, request[t].pred)
      PROVE  StatementOK(t)' /\ InsertOK(t)'
  <2>1. /\ record_refs'[t] = refs /\ pc'[t] \in {"search", "done", "size"}
        /\ pc'[t] = "size" => request[t].kind # "SELECT"
    BY <1>1, <1>3 DEF SearchOn, Goto
  <2>2. StatementOK(t)'
    BY <1>1, <1>2, <1>3, <2>1 DEF StatementOK
  <2> QED
    BY <2>1, <2>2 DEF InsertOK
<1>4. CASE SearchRead(t) /\ InRange(idx[t])
  <2>1. pc'[t] = "searchCheck" /\ record_refs'[t] = record_refs[t]
    BY <1>1, <1>4 DEF SearchRead, Goto
  <2> QED
    BY <1>1, <2>1, KeepGoing
<1>5. CASE SearchRead(t) /\ ~InRange(idx[t])
  BY <1>1, <1>3, <1>5 DEF SearchRead, StatementOK
<1>6. CASE SearchCheck(t)
  <2> DEFINE collect == Held(t) /\ Satisfies(versions[retrieved[t]].data, request[t].pred)
             refs == Append(record_refs[t], retrieved[t])
  <2>1. SearchOn(t, IF collect THEN refs ELSE record_refs[t])
    BY <1>6 DEF SearchCheck
  <2>2. CASE ~collect
    <3>1. SearchOn(t, record_refs[t])
      BY <2>1, <2>2
    <3> QED
      BY <1>1, <1>3, <3>1 DEF StatementOK
  <2>3. CASE collect
    <3>1. SearchOn(t, refs)
      BY <2>1, <2>3
    <3>2. record_refs[t] \in Seq(1 .. Len(versions))
      BY <1>1
    <3>3. \A k \in DOMAIN refs :
             refs[k] = retrieved[t] \/ (k \in DOMAIN record_refs[t] /\ refs[k] = record_refs[t][k])
      BY <3>2
    <3> HIDE DEF refs
    <3>4. \A k \in DOMAIN refs : Satisfies(versions[refs[k]].data, request[t].pred)
      BY <1>1, <2>3, <3>3 DEF StatementOK
    <3> QED
      BY <1>3, <3>1, <3>4
  <2> QED
    BY <2>2, <2>3
<1> QED
  BY <1>4, <1>5, <1>6

LEMMA KeepStatement ==
    ASSUME NoDeletes, KeepInv, NEW t \in Threads, Acts(t)
    PROVE  StatementOK(t)' /\ InsertOK(t)' /\ ~ClearSlot(t) /\ ~EraseSlot(t)
<1>1. /\ TypeInv /\ StatementOK(t) /\ InsertOK(t) /\ VersionsGrow
      /\ pc \in [Threads -> Pcs] /\ request \in [Threads -> StatementType]
      /\ versions \in Seq(VersionType) /\ retrieved \in [Threads -> 0 .. Len(versions)]
  <2>1. TypeInv /\ StatementOK(t) /\ InsertOK(t)
    BY DEF KeepInv, DistinctInv
  <2> QED
    BY <2>1, VersionsOnlyGrow DEF TypeInv, TypeOK
<1>2. ~ClearSlot(t) /\ ~EraseSlot(t)
  BY <1>1 DEF StatementOK, ClearSlot, EraseSlot, Running
<1>3. CASE RejectRow(t) \/ CheckRow(t) \/ BeginScan(t) \/ RefuseFullTable(t)
  BY <1>2, <1>3, KeepBegin
<1>4. CASE SearchRead(t) \/ SearchCheck(t)
  BY <1>2, <1>4, KeepSearch
<1>5. CASE NullDereference(t)
  <2>1. UNCHANGED <<pc, request, record_refs, versions, retrieved>>
    BY <1>5 DEF NullDereference, scanVars
  <2> QED
    BY <1>1, <1>2, <2>1 DEF StatementOK, InsertOK, InsertOf
<1>6. CASE ReadSize(t) \/ FindRead(t) \/ FindCheck(t)
  <2>1. /\ pc[t] \in {"size", "find", "findCheck"} /\ UNCHANGED <<request, record_refs>>
        /\ pc'[t] \in {"find", "findCheck", "cas", "size", "done"}
    BY <1>1, <1>6 DEF ReadSize, FindRead, FindCheck, FindOn, Goto, Running
  <2> QED
    BY <1>1, <1>2, <2>1, KeepGoing
<1>7. CASE UpdateSlot(t)
  <2>1. /\ pc[t] = "cas" /\ UNCHANGED <<request, record_refs>>
        /\ pc'[t] \in {"find", "size", "done"}
    BY <1>1, <1>7 DEF UpdateSlot, FindOn, Goto, Running
  <2> QED
    BY <1>1, <1>2, <2>1, KeepGoing
<1>8. CASE PushRow(t)
  <2>1. pc[t] = "push" /\ UNCHANGED <<request, record_refs>> /\ pc'[t] = "done"
    BY <1>1, <1>8 DEF PushRow, Goto, Running, scanVars
  <2> QED
    BY <1>1, <1>2, <2>1, KeepGoing
<1>9. CASE CountRow(t)
  <2> DEFINE v == NewVersion(request[t].row, record_counter)
  <2>1. /\ pc[t] = "count" /\ UNCHANGED <<request, record_refs>> /\ pc'[t] = "push"
        /\ versions' = Append(versions, v) /\ retrieved'[t] = Len(versions) + 1
    BY <1>1, <1>9 DEF CountRow, Goto, Running
  <2>2. v.data = request[t].row
    BY DEF NewVersion
  <2> HIDE DEF v
  <2>3. versions'[retrieved'[t]] = v
    BY <1>1, <2>1
  <2>4. InsertOf(t, versions'[retrieved'[t]].data)
    BY <1>1, <2>1, <2>2, <2>3 DEF InsertOK
  <2> QED
    BY <1>1, <1>2, <2>1, <2>4, KeepGoing
<1>10. CASE Return(t)
  <2>1. /\ pc'[t] = "idle" /\ record_refs'[t] = <<>> /\ request'[t] = NoStatement
    <3>1. /\ pc' = [pc EXCEPT ![t] = "idle"]
          /\ record_refs' = [record_refs EXCEPT ![t] = <<>>]
          /\ request' = [request EXCEPT ![t] = NoStatement]
      BY <1>10 DEF Return, Goto
    <3>2. /\ pc \in [Threads -> Pcs] /\ request \in [Threads -> StatementType]
          /\ record_refs \in [Threads -> Seq(1 .. Len(versions))]
      BY <1>1 DEF TypeInv, TypeOK
    <3> QED
      BY <3>1, <3>2
  <2>2. DOMAIN record_refs'[t] = {}
    BY <2>1
  <2> QED
    BY <1>2, <2>1, <2>2 DEF StatementOK, InsertOK, NoStatement
<1> QED
  BY <1>2, <1>3, <1>4, <1>5, <1>6, <1>7, <1>8, <1>9, <1>10 DEF Acts, Looks

LEMMA KeepStep ==
    ASSUME NoDeletes, KeepInv, Next
    PROVE  KeepInv'
<1>1. PICK t \in Threads : Acts(t)
  BY NextSplit DEF Acts
<1>2. DistinctInv'
  BY DistinctStep DEF KeepInv
<1>3. NoNulls'
  BY <1>1, KeepStatement, RowsOnlyGrow DEF KeepInv, DistinctInv
<1>4. \A u \in Threads : StatementOK(u)' /\ InsertOK(u)'
  BY <1>1, KeepStatement, KeepOthers
<1> QED
  BY <1>2, <1>3, <1>4 DEF KeepInv

LEMMA KeepInit == Init => KeepInv
<1> SUFFICES ASSUME Init PROVE KeepInv
  OBVIOUS
<1>1. \A t \in Threads : /\ record_refs[t] = <<>> /\ pc[t] = "idle"
                         /\ request[t] = NoStatement
  BY DEF Init
<1>2. DOMAIN <<>> = {}
  OBVIOUS
<1>3. \A t \in Threads : DOMAIN record_refs[t] = {}
  BY <1>1, <1>2
<1>4. \A t \in Threads : StatementOK(t) /\ InsertOK(t)
  BY <1>1, <1>3 DEF StatementOK, InsertOK, NoStatement
<1>5. NoNulls
  <2> DEFINE n == Len(Preloaded)
  <2>1. n \in Nat /\ DOMAIN Preloaded = 1 .. n
    BY PreloadedAssumption
  <2>2. records = [i \in 1 .. n |-> i]
    BY <2>1 DEF Init
  <2> HIDE DEF n
  <2> QED
    BY <2>1, <2>2 DEF NoNulls, NoVersion
<1> QED
  BY <1>4, <1>5, InitDistinct DEF KeepInv

LEMMA KeepStutter ==
    ASSUME KeepInv, UNCHANGED vars
    PROVE  KeepInv'
<1>1. DistinctInv'
  BY DistinctStutter DEF KeepInv
<1>2. UNCHANGED <<records, versions, pc, request, retrieved, record_refs>>
  BY DEF vars, tableVars, scanVars
<1> QED
  BY <1>1, <1>2 DEF KeepInv, NoNulls, StatementOK, InsertOK, InsertOf

-----------------------------------------------------------------------------
(* The concurrent table implements the atomic one.                         *)

\* RowsByOrigin as a function of the slots and the records.
Slots(rs) == {i \in DOMAIN rs : rs[i] # NoVersion}

LiveOf(rs) == {rs[i] : i \in DOMAIN rs} \ {NoVersion}

RowsOf(rs, vs) ==
    [o \in {vs[v].origin : v \in LiveOf(rs)} |->
        vs[CHOOSE v \in LiveOf(rs) : vs[v].origin = o].data]

Apart(rs, vs) == \A i, j \in Slots(rs) : i # j => vs[rs[i]].origin # vs[rs[j]].origin

LEMMA RowsAreOf ==
    /\ RowsByOrigin = RowsOf(records, versions)
    /\ RowsByOrigin' = RowsOf(records', versions')
BY DEF RowsByOrigin, RowsOf, Origins, Live, LiveOf

LEMMA RowsOfDomain ==
    ASSUME NEW rs, NEW vs
    PROVE  /\ RowsOf(rs, vs) = [o \in DOMAIN RowsOf(rs, vs) |-> RowsOf(rs, vs)[o]]
           /\ \A i \in Slots(rs) : vs[rs[i]].origin \in DOMAIN RowsOf(rs, vs)
           /\ \A o \in DOMAIN RowsOf(rs, vs) : \E i \in Slots(rs) : vs[rs[i]].origin = o
BY DEF RowsOf, Slots, LiveOf

\* No two slots hold one row, so a row is the one of its slot.
LEMMA RowOfSlot ==
    ASSUME NEW rs, NEW vs, Apart(rs, vs), NEW i \in Slots(rs)
    PROVE  RowsOf(rs, vs)[vs[rs[i]].origin] = vs[rs[i]].data
<1> DEFINE o == vs[rs[i]].origin
           w == CHOOSE v \in LiveOf(rs) : vs[v].origin = o
<1>1. rs[i] \in LiveOf(rs) /\ o \in {vs[v].origin : v \in LiveOf(rs)}
  BY DEF LiveOf, Slots
<1>2. w \in LiveOf(rs) /\ vs[w].origin = o
  BY <1>1
<1>3. PICK j \in Slots(rs) : rs[j] = w
  BY <1>2 DEF LiveOf, Slots
<1>4. j = i
  BY <1>2, <1>3 DEF Apart
<1>5. RowsOf(rs, vs)[o] = vs[w].data
  BY <1>1 DEF RowsOf
<1> QED
  BY <1>3, <1>4, <1>5

LEMMA RowsApart ==
    ASSUME RowsDistinct
    PROVE  Apart(records, versions)
BY DEF RowsDistinct, Apart, Slots

LEMMA SlotRecord ==
    ASSUME TypeInv, NEW i \in Slots(records)
    PROVE  records[i] \in 1 .. Len(versions) /\ versions[records[i]] \in VersionType
<1>1. records \in Seq(0 .. Len(versions)) /\ versions \in Seq(VersionType)
  BY DEF TypeInv, TypeOK
<1>2. records[i] \in 1 .. Len(versions)
  BY <1>1 DEF Slots, NoVersion
<1> QED
  BY <1>1, <1>2

LEMMA AtomicTableInit ==
    ASSUME DistinctInv
    PROVE  Atomic!Init
<1> DEFINE T == RowsOf(records, versions)
<1>1. Apart(records, versions) /\ TypeInv
  BY RowsApart DEF DistinctInv
<1>2. ASSUME NEW o \in DOMAIN T PROVE o \in Nat /\ T[o] \in RowData
  <2>1. PICK i \in Slots(records) : versions[records[i]].origin = o
    BY RowsOfDomain
  <2>2. T[o] = versions[records[i]].data
    BY <1>1, <2>1, RowOfSlot
  <2>3. versions[records[i]] \in VersionType
    BY <1>1, SlotRecord
  <2> QED
    BY <2>1, <2>2, <2>3 DEF VersionType
<1>3. T = [o \in DOMAIN T |-> T[o]]
  BY RowsOfDomain
<1> HIDE DEF T
<1>4. T \in [DOMAIN T -> RowData] /\ DOMAIN T \in SUBSET Nat
  BY <1>2, <1>3
<1> QED
  BY <1>4, RowsAreOf DEF Atomic!Init, Atomic!RowData, RowData, Atomic!Datum, Datum, T

\* Slots that stay keep their rows, though records are allocated elsewhere.
LEMMA SameSlotsSameRows ==
    ASSUME KeepInv, KeepInv', VersionsGrow, UNCHANGED records
    PROVE  RowsByOrigin' = RowsByOrigin
<1> DEFINE T == RowsOf(records, versions)
           U == RowsOf(records', versions')
<1>1. /\ Apart(records, versions) /\ Apart(records', versions') /\ TypeInv
      /\ Slots(records') = Slots(records)
  BY RowsApart DEF KeepInv, DistinctInv, Apart, RowsDistinct, Slots
<1>2. \A i \in Slots(records) : versions'[records'[i]] = versions[records[i]]
  BY <1>1, SlotRecord DEF VersionsGrow
<1>3. ASSUME NEW i \in Slots(records)
      PROVE  T[versions[records[i]].origin] = U[versions[records[i]].origin]
  BY <1>1, <1>2, RowOfSlot
<1>4. DOMAIN T = DOMAIN U
  BY <1>1, <1>2, RowsOfDomain
<1>5. \A o \in DOMAIN T : T[o] = U[o]
  BY <1>3, RowsOfDomain
<1>6. T = [o \in DOMAIN T |-> T[o]] /\ U = [o \in DOMAIN U |-> U[o]]
  BY RowsOfDomain
<1> HIDE DEF T, U
<1>7. T = U
  BY <1>4, <1>5, <1>6
<1> QED
  BY <1>7, RowsAreOf DEF T, U

\* A push inserts the row of the thread's statement.
LEMMA PushInserts ==
    ASSUME KeepInv, KeepInv', NEW t \in Threads, PushRow(t)
    PROVE  \E r \in Requests[t] : Atomic!Insert(r)
<1> DEFINE T == RowsOf(records, versions)
           U == RowsOf(records', versions')
           v == retrieved[t]
           o == versions[v].origin
<1>1. /\ Apart(records, versions) /\ Apart(records', versions') /\ TypeInv
      /\ InsertOK(t) /\ DistinctInv
  BY RowsApart DEF KeepInv, DistinctInv, Apart, RowsDistinct, Slots
<1>2. /\ records' = Append(records, v) /\ versions' = versions /\ pc[t] = "push"
      /\ records \in Seq(0 .. Len(versions)) /\ v # NoVersion
  BY <1>1 DEF PushRow, Running, TypeInv, TypeOK, LocalsOK, LocalOK
<1>3. PICK n \in Nat : n \notin DOMAIN records /\ DOMAIN records' = DOMAIN records \cup {n}
          /\ records'[n] = v /\ \A i \in DOMAIN records : records'[i] = records[i]
  <2>1. /\ Len(records) + 1 \notin DOMAIN records /\ records'[Len(records) + 1] = v
        /\ DOMAIN records' = DOMAIN records \cup {Len(records) + 1}
        /\ \A i \in DOMAIN records : records'[i] = records[i]
    BY <1>2
  <2> QED
    BY <1>2, <2>1
<1>4. PICK r \in Requests[t] :
          r.kind = "INSERT" /\ Accepted(r.row) /\ Atomic!Inserted(r.row, versions[v].data)
  BY <1>1, <1>2 DEF InsertOK, InsertOf
<1>5. Slots(records') = Slots(records) \cup {n}
  BY <1>2, <1>3 DEF Slots
<1>6. \A i \in Slots(records) :
          records'[i] = records[i] /\ versions[records[i]].origin # o
  BY <1>1, <1>2, <1>3 DEF Slots, DistinctInv, PendingNew, Pending
<1>7. o \notin DOMAIN T
  BY <1>6, RowsOfDomain
<1>8. DOMAIN U = DOMAIN T \cup {o}
  <2>1. o \in DOMAIN U
    BY <1>2, <1>3, <1>5, RowsOfDomain
  <2>2. ASSUME NEW p \in DOMAIN T PROVE p \in DOMAIN U
    <3>1. PICK i \in Slots(records) : versions[records[i]].origin = p
      BY RowsOfDomain
    <3>2. i \in Slots(records') /\ versions'[records'[i]].origin = p
      BY <1>2, <1>5, <1>6, <3>1
    <3> QED
      BY <3>2, RowsOfDomain
  <2>3. ASSUME NEW p \in DOMAIN U PROVE p = o \/ p \in DOMAIN T
    <3>1. PICK i \in Slots(records') : versions'[records'[i]].origin = p
      BY RowsOfDomain
    <3>2. CASE i = n
      BY <1>2, <1>3, <3>1, <3>2
    <3>3. CASE i \in Slots(records)
      BY <1>2, <1>6, <3>1, <3>3, RowsOfDomain
    <3> QED
      BY <1>5, <3>2, <3>3
  <2> QED
    BY <2>1, <2>2, <2>3
<1>9. U[o] = versions[v].data
  <2>1. U[versions'[records'[n]].origin] = versions'[records'[n]].data
    BY <1>1, <1>5, RowOfSlot
  <2> QED
    BY <1>2, <1>3, <2>1
<1>10. ASSUME NEW p \in DOMAIN T PROVE U[p] = T[p]
  <2>1. PICK i \in Slots(records) : versions[records[i]].origin = p
    BY RowsOfDomain
  <2>2. T[p] = versions[records[i]].data
    BY <1>1, <2>1, RowOfSlot
  <2>3. U[versions'[records'[i]].origin] = versions'[records'[i]].data
    BY <1>1, <1>5, RowOfSlot
  <2> QED
    BY <1>2, <1>6, <2>1, <2>2, <2>3
<1>11. U = [p \in DOMAIN U |-> U[p]]
  BY RowsOfDomain
<1>12. T = RowsByOrigin /\ U = RowsByOrigin'
  BY RowsAreOf
<1> HIDE DEF T, U, o
<1>13. U = [p \in DOMAIN T \cup {o} |-> IF p = o THEN U[o] ELSE T[p]]
  BY <1>7, <1>8, <1>10, <1>11
<1>14. o \in DOMAIN U \ DOMAIN T
  BY <1>7, <1>8
<1>15. Atomic!Accepted(r.row)
  BY <1>4 DEF Atomic!Accepted, Accepted, Atomic!HasConstraint, HasConstraint
<1>16. Atomic!Insert(r)
  BY <1>4, <1>9, <1>12, <1>13, <1>14, <1>15 DEF Atomic!Insert
<1> QED
  BY <1>16

\* A cas that hits replaces a row that still satisfies the predicate: the slot
\* holds the very version the search looked at.
LEMMA CasUpdates ==
    ASSUME KeepInv, KeepInv', NEW t \in Threads, UpdateSlot(t), CasHits(t)
    PROVE  Atomic!Update(request[t]) /\ request[t] \in Requests[t]
<1> DEFINE T == RowsOf(records, versions)
           U == RowsOf(records', versions')
           r == CurrentRef(t)
           o == versions[r].origin
           w == UpdatedVersion(r, request[t].row)
           m == Len(versions) + 1
<1>1. /\ Apart(records, versions) /\ Apart(records', versions') /\ TypeInv
      /\ StatementOK(t) /\ DistinctInv /\ NoNulls
  BY RowsApart DEF KeepInv, DistinctInv, Apart, RowsDistinct, Slots
<1>2. /\ records' = [records EXCEPT ![idx[t]] = m] /\ versions' = Append(versions, w)
      /\ pc[t] = "cas" /\ request[t].kind = "UPDATE" /\ idx[t] \in DOMAIN records
      /\ records[idx[t]] = r /\ versions \in Seq(VersionType) /\ Len(versions) \in Nat
  BY <1>1 DEF UpdateSlot, CasHits, InRange, Running, TypeInv, TypeOK
<1>3. ref[t] \in DOMAIN record_refs[t]
  BY <1>1, <1>2 DEF TypeInv, TypeOK, LocalsOK, LocalOK
<1>4. r \in 1 .. Len(versions) /\ Satisfies(versions[r].data, request[t].pred)
  BY <1>1, <1>3, RefAllocated DEF CurrentRef, StatementOK
<1>5. request[t] \in Requests[t]
  BY <1>1, <1>2 DEF StatementOK
<1>6. w.data = Merge(versions[r].data, request[t].row) /\ w.origin = o
  BY DEF UpdatedVersion
<1> HIDE DEF w, r
<1>7. versions'[m] = w /\ \A x \in 1 .. Len(versions) : versions'[x] = versions[x]
  BY <1>2
<1>8. DOMAIN records' = DOMAIN records
  BY <1>2
<1>9. \A i \in DOMAIN records : records'[i] = IF i = idx[t] THEN m ELSE records[i]
  BY <1>2
<1>10. Slots(records) = DOMAIN records /\ Slots(records') = DOMAIN records
  <2>1. m # NoVersion
    BY <1>2 DEF NoVersion
  <2>2. \A i \in DOMAIN records : records[i] # NoVersion /\ records'[i] # NoVersion
    BY <1>1, <1>9, <2>1 DEF NoNulls
  <2> QED
    BY <1>8, <2>2 DEF Slots
<1>11. \A i \in DOMAIN records : records[i] \in 1 .. Len(versions)
  BY <1>1, <1>10, SlotRecord
<1>12. \A i \in DOMAIN records :
           versions'[records'[i]] = IF i = idx[t] THEN w ELSE versions[records[i]]
  BY <1>7, <1>9, <1>11
<1>13. \A i \in DOMAIN records :
           versions'[records'[i]].origin = versions[records[i]].origin
  BY <1>2, <1>6, <1>12
<1>14. o \in DOMAIN T
  BY <1>2, <1>10, RowsOfDomain
<1>15. DOMAIN U = DOMAIN T
  BY <1>10, <1>13, RowsOfDomain
<1>16. T[o] = versions[r].data
  BY <1>1, <1>2, <1>10, RowOfSlot
<1>17. U[o] = w.data
  <2>1. U[versions'[records'[idx[t]]].origin] = versions'[records'[idx[t]]].data
    BY <1>1, <1>2, <1>10, RowOfSlot
  <2> QED
    BY <1>2, <1>6, <1>12, <2>1
<1>18. ASSUME NEW p \in DOMAIN T, p # o PROVE U[p] = T[p]
  <2>1. PICK i \in DOMAIN records : versions[records[i]].origin = p
    BY <1>10, RowsOfDomain
  <2>2. T[p] = versions[records[i]].data
    BY <1>1, <1>10, <2>1, RowOfSlot
  <2>3. U[versions'[records'[i]].origin] = versions'[records'[i]].data
    BY <1>1, <1>10, RowOfSlot
  <2>4. i # idx[t]
    BY <1>2, <1>18, <2>1
  <2> QED
    BY <1>12, <1>13, <2>1, <2>2, <2>3, <2>4
<1>19. U = [p \in DOMAIN U |-> U[p]] /\ T = [p \in DOMAIN T |-> T[p]]
  BY RowsOfDomain
<1>20. T = RowsByOrigin /\ U = RowsByOrigin'
  BY RowsAreOf
<1>21. Atomic!Merge(versions[r].data, request[t].row) = w.data
  BY <1>6 DEF Atomic!Merge, Merge
<1>22. Atomic!Satisfies(versions[r].data, request[t].pred)
  BY <1>4 DEF Atomic!Satisfies, Satisfies
<1> HIDE DEF T, U, o
<1>23. U = [T EXCEPT ![o] = Atomic!Merge(T[o], request[t].row)]
  BY <1>14, <1>15, <1>16, <1>17, <1>18, <1>19, <1>21
<1> QED
  BY <1>2, <1>5, <1>14, <1>16, <1>20, <1>22, <1>23 DEF Atomic!Update

LEMMA AtomicTableStep ==
    ASSUME NoDeletes, KeepInv, KeepInv', Next
    PROVE  [Atomic!Next]_RowsByOrigin
<1>1. PICK t \in Threads : Acts(t)
  BY NextSplit DEF Acts
<1>2. TypeInv /\ VersionsGrow /\ ~ClearSlot(t) /\ ~EraseSlot(t)
  BY <1>1, VersionsOnlyGrow, KeepStatement DEF KeepInv, DistinctInv
<1>3. CASE PushRow(t)
  BY <1>3, PushInserts DEF Atomic!Next
<1>4. CASE UpdateSlot(t) /\ CasHits(t)
  BY <1>4, CasUpdates DEF Atomic!Next
<1>5. CASE UNCHANGED records
  BY <1>2, <1>5, SameSlotsSameRows
<1>6. UNCHANGED records \/ PushRow(t) \/ (UpdateSlot(t) /\ CasHits(t))
  <2>1. Looks(t) => records' = records
    BY <1>2, LooksOnly
  <2>2. CountRow(t) => records' = records
    BY DEF CountRow
  <2>3. UpdateSlot(t) /\ ~CasHits(t) => records' = records
    BY DEF UpdateSlot
  <2> QED
    BY <1>1, <1>2, <2>1, <2>2, <2>3 DEF Acts
<1> QED
  BY <1>3, <1>4, <1>5, <1>6

\* Where no statement deletes, the table that no lock protects implements the
\* atomic one: each step of a thread inserts one row, replaces one row that
\* satisfies the statement's predicate, or changes nothing.
THEOREM TableAtomic ==
    ASSUME NoDeletes
    PROVE  HistorySpec => ImplementsAtomicTable
<1>1. Init => KeepInv
  BY KeepInit
<1>2. KeepInv /\ [Next]_vars => KeepInv'
  BY KeepStep, KeepStutter
<1>3. KeepInv => Atomic!Init
  BY AtomicTableInit DEF KeepInv
<1>4. ASSUME KeepInv, KeepInv', [Next]_vars PROVE [Atomic!Next]_RowsByOrigin
  <2>1. ASSUME UNCHANGED vars PROVE UNCHANGED RowsByOrigin
    BY <2>1 DEF vars, tableVars, RowsByOrigin, Origins, Live
  <2> QED
    BY <1>4, <2>1, AtomicTableStep
<1>5. HistoryInit => Init
  BY DEF HistoryInit
<1>6. [HistoryNext]_<<vars, found>> => [Next]_vars
  BY DEF HistoryNext
<1> QED
  BY <1>1, <1>2, <1>3, <1>4, <1>5, <1>6, PTL DEF HistorySpec, ImplementsAtomicTable, Atomic!Spec

-----------------------------------------------------------------------------
(* What a scan that no lock protects sees and replaces.                    *)

Matching(t, i) == Satisfies(versions[found[t][i]].data, request[t].pred)

FoundOK(t) == found[t] \in Seq(1 .. Len(versions)) /\ Len(found[t]) <= Len(records)

\* The rows found in the slots before slot n that nobody has touched are
\* collected if they match.
SeenBefore(t, n) ==
    \A i \in DOMAIN found[t] :
        (i < n /\ Untouched(t, i) /\ Matching(t, i)) => found[t][i] \in Collected(t)

\* The row that reference r stands for, if it was found before slot n, has been
\* replaced.
ReplacedBefore(t, r, n) ==
    \A i \in DOMAIN found[t] : (i < n /\ found[t][i] = r) => ~Untouched(t, i)

Applying(t) == pc[t] \in {"size", "find", "findCheck", "cas"}

Ended(t) == pc[t] = "done" /\ request[t].kind # "INSERT" /\ status[t] # "ERR"

\* The scan has passed the slots before idx, the search all of them.
SeenOK(t) ==
    /\ pc[t] = "idle" => idx[t] = 1
    /\ pc[t] \in {"count", "push"} => request[t].kind = "INSERT"
    /\ Searching(t) => Len(found[t]) <= table_len[t] /\ SeenBefore(t, idx[t])
    /\ Applying(t) \/ Ended(t) => SeenBefore(t, Len(found[t]) + 1)

\* Of the references it applies, the update has replaced those before ref, and
\* what it found of this one before idx.
ReplacedOK(t) ==
    /\ Applying(t) =>
          \A k \in DOMAIN record_refs[t] :
              k < ref[t] => ReplacedBefore(t, record_refs[t][k], Len(found[t]) + 1)
    /\ Applying(t) /\ pc[t] # "size" =>
          Len(found[t]) <= table_len[t] /\ ReplacedBefore(t, CurrentRef(t), idx[t])
    /\ Ended(t) /\ request[t].kind = "UPDATE" =>
          \A i \in DOMAIN found[t] : Matching(t, i) => ~Untouched(t, i)

\* The accessor read the slot after the statement started: a slot nobody has
\* touched still holds what it read.
ReadOK(t) ==
    pc[t] \in {"searchCheck", "findCheck"} =>
        \A i \in DOMAIN found[t] :
            (i = idx[t] /\ Untouched(t, i)) => retrieved[t] = found[t][i]

ScanOK(t) == FoundOK(t) /\ SeenOK(t) /\ ReplacedOK(t) /\ ReadOK(t)

ScanInv == KeepInv /\ \A t \in Threads : ScanOK(t)

\* What a step leaves of thread u's view: its statement keeps its start, a row
\* untouched after the step was untouched before it.
ViewKept(u) ==
    /\ found'[u] = found[u]
    /\ \A i \in DOMAIN found[u] :
          /\ Untouched(u, i)' => Untouched(u, i)
          /\ versions'[found[u][i]] = versions[found[u][i]]

LEMMA ViewStays ==
    ASSUME ScanInv, KeepInv', NEW u \in Threads, VersionsGrow, RowsGrow,
           found'[u] = found[u]
    PROVE  ViewKept(u) /\ FoundOK(u)'
<1>1. /\ found[u] \in Seq(1 .. Len(versions)) /\ Len(found[u]) \in Nat
      /\ Len(found[u]) <= Len(records) /\ records \in Seq(0 .. Len(versions))
      /\ records' \in Seq(0 .. Len(versions'))
      /\ Len(versions) \in Nat /\ Len(versions') \in Nat /\ Len(versions) <= Len(versions')
  <2>1. TypeOK /\ TypeOK' /\ FoundOK(u)
    BY DEF ScanInv, KeepInv, DistinctInv, TypeInv, ScanOK
  <2>2. /\ found[u] \in Seq(1 .. Len(versions)) /\ Len(found[u]) <= Len(records)
        /\ Len(versions) \in Nat /\ Len(versions') \in Nat /\ Len(versions) <= Len(versions')
    BY <2>1 DEF FoundOK, VersionsGrow
  <2>3. records \in Seq(0 .. Len(versions)) /\ records' \in Seq(0 .. Len(versions'))
    BY <2>1 DEF TypeOK
  <2>4. Len(found[u]) \in Nat
    BY <2>2
  <2> QED
    BY <2>2, <2>3, <2>4
<1>2. DOMAIN records = 1 .. Len(records) /\ DOMAIN records' = 1 .. Len(records')
      /\ Len(records) \in Nat /\ Len(records') \in Nat
  BY <1>1
<1>3. Len(records) <= Len(records')
  BY <1>2 DEF RowsGrow
<1>4. found[u] \in Seq(1 .. Len(versions'))
  <2>1. \A i \in DOMAIN found[u] : found[u][i] \in 1 .. Len(versions')
    BY <1>1
  <2> QED
    BY <1>1, <2>1
<1>5. \A i \in DOMAIN found[u] : found[u][i] \in 1 .. Len(versions) /\ i \in DOMAIN records
  <2>1. DOMAIN found[u] = 1 .. Len(found[u])
    BY <1>1
  <2>2. \A i \in DOMAIN found[u] : found[u][i] \in 1 .. Len(versions)
    BY <1>1
  <2> QED
    BY <1>1, <1>2, <2>1, <2>2
<1>6. \A i \in DOMAIN found[u] : versions'[found[u][i]] = versions[found[u][i]]
  BY <1>5 DEF VersionsGrow
<1>7. ASSUME NEW i \in DOMAIN found[u], Untouched(u, i)' PROVE Untouched(u, i)
  <2>1. records'[i] = found[u][i] /\ found[u][i] # NoVersion
    BY <1>7 DEF Untouched
  <2>2. records[i] = records'[i]
    BY <1>5, <2>1 DEF RowsGrow
  <2> QED
    BY <1>5, <2>1, <2>2 DEF Untouched
<1>8. FoundOK(u)'
  BY <1>1, <1>3, <1>4 DEF FoundOK
<1> QED
  BY <1>6, <1>7, <1>8 DEF ViewKept

\* What has been seen, or replaced, stays so.
LEMMA SeenStays ==
    ASSUME NEW u \in Threads, NEW n, ViewKept(u), request'[u] = request[u],
           record_refs'[u] = record_refs[u], SeenBefore(u, n)
    PROVE  SeenBefore(u, n)'
BY DEF SeenBefore, ViewKept, Matching, Collected

LEMMA ReplacedStays ==
    ASSUME NEW u \in Threads, NEW n, NEW r, ViewKept(u), ReplacedBefore(u, r, n)
    PROVE  ReplacedBefore(u, r, n)'
BY DEF ReplacedBefore, ViewKept

\* The other threads.
LEMMA ScanOthers ==
    ASSUME ScanInv, KeepInv', NEW u \in Threads, VersionsGrow, RowsGrow,
           found'[u] = found[u], pc'[u] = pc[u], request'[u] = request[u],
           status'[u] = status[u], table_len'[u] = table_len[u], idx'[u] = idx[u],
           ref'[u] = ref[u], retrieved'[u] = retrieved[u],
           record_refs'[u] = record_refs[u]
    PROVE  ScanOK(u)'
<1>1. ViewKept(u) /\ FoundOK(u)' /\ ScanOK(u)
  BY ViewStays DEF ScanInv
<1>2. SeenOK(u)'
  <2>1. /\ pc'[u] = "idle" => idx'[u] = 1
        /\ pc'[u] \in {"count", "push"} => request'[u].kind = "INSERT"
    BY <1>1 DEF ScanOK, SeenOK
  <2>2. Searching(u)' => Len(found'[u]) <= table_len'[u] /\ SeenBefore(u, idx[u])'
    BY <1>1, SeenStays DEF ScanOK, SeenOK, Searching, ViewKept
  <2>3. Applying(u)' \/ Ended(u)' => SeenBefore(u, Len(found[u]) + 1)'
    BY <1>1, SeenStays DEF ScanOK, SeenOK, Applying, Ended
  <2> QED
    BY <1>1, <2>1, <2>2, <2>3 DEF SeenOK, ViewKept, SeenBefore
<1>3. ReplacedOK(u)'
  <2>1. ASSUME Applying(u)', NEW k \in DOMAIN record_refs[u], k < ref[u]
        PROVE  ReplacedBefore(u, record_refs[u][k], Len(found[u]) + 1)'
    BY <1>1, <2>1, ReplacedStays DEF ScanOK, ReplacedOK, Applying
  <2>2. Applying(u)' /\ pc'[u] # "size" =>
           Len(found'[u]) <= table_len'[u] /\ ReplacedBefore(u, CurrentRef(u), idx[u])'
    BY <1>1, ReplacedStays DEF ScanOK, ReplacedOK, Applying, ViewKept, CurrentRef
  <2>3. Ended(u)' /\ request'[u].kind = "UPDATE" =>
            \A i \in DOMAIN found'[u] : Matching(u, i)' => ~Untouched(u, i)'
    BY <1>1 DEF ScanOK, ReplacedOK, Ended, Matching, ViewKept
  <2> QED
    BY <1>1, <2>1, <2>2, <2>3 DEF ReplacedOK, ViewKept, ReplacedBefore
<1>4. ReadOK(u)'
  BY <1>1 DEF ScanOK, ReadOK, ViewKept
<1> QED
  BY <1>1, <1>2, <1>3, <1>4 DEF ScanOK

LEMMA ScanBegins ==
    ASSUME ScanInv, NEW t \in Threads, found'[t] = records,
           RejectRow(t) \/ CheckRow(t) \/ BeginScan(t) \/ RefuseFullTable(t)
    PROVE  ScanOK(t)'
<1>1. /\ TypeInv /\ NoNulls /\ idx[t] = 1 /\ UNCHANGED <<records, versions>>
  <2>1. TypeInv /\ NoNulls /\ SeenOK(t)
    BY DEF ScanInv, KeepInv, DistinctInv, ScanOK
  <2>2. pc[t] = "idle"
    BY DEF RejectRow, CheckRow, BeginScan, RefuseFullTable, Begin
  <2>3. Looks(t)
    BY DEF Looks
  <2> QED
    BY <2>1, <2>2, <2>3, LooksOnly DEF SeenOK
<1>2. /\ pc \in [Threads -> Pcs] /\ request \in [Threads -> StatementType]
      /\ records \in Seq(0 .. Len(versions)) /\ idx \in [Threads -> Nat \ {0}]
      /\ Len(records) \in Nat /\ table_len \in [Threads -> Nat]
      /\ status \in [Threads -> {"SUCCESS", "ERR", "ERR_FAILED_CONSTRAINT",
                                 "ERR_PARTIAL_CONTENTION"}]
  BY <1>1 DEF TypeInv, TypeOK
<1>3. FoundOK(t)'
  <2>1. \A i \in DOMAIN records : records[i] \in 1 .. Len(versions)
    BY <1>1, <1>2 DEF NoNulls, NoVersion
  <2>2. records \in Seq(1 .. Len(versions))
    <3>1. records \in Seq(0 .. Len(versions)) /\ Len(records) \in Nat
      BY <1>2
    <3> QED
      BY <2>1, <3>1
  <2> QED
    BY <1>1, <1>2, <2>2 DEF FoundOK
<1>4. ASSUME pc'[t] \in {"count", "done"},
             pc'[t] = "count" => request'[t].kind = "INSERT",
             request'[t].kind # "INSERT" => status'[t] = "ERR"
      PROVE  ScanOK(t)'
  BY <1>3, <1>4 DEF ScanOK, SeenOK, ReplacedOK, ReadOK, Searching, Applying, Ended
<1>5. CASE RejectRow(t)
  <2>1. pc'[t] = "done" /\ request'[t].kind = "INSERT"
    BY <1>2, <1>5 DEF RejectRow, Begin, Goto
  <2> QED
    BY <1>4, <2>1
<1>6. CASE CheckRow(t)
  <2> DEFINE checked(r) == [r EXCEPT !.row = Checked(r.row, record_counter)]
  <2>1. PICK r \in Requests[t] :
          r.kind = "INSERT" /\ pc'[t] = "count" /\ request'[t] = checked(r)
    BY <1>2, <1>6 DEF CheckRow, Begin, Goto
  <2>2. checked(r).kind = "INSERT"
    BY <2>1, RequestsAssumption DEF StatementType
  <2> HIDE DEF checked
  <2> QED
    BY <1>4, <2>1, <2>2
<1>7. CASE RefuseFullTable(t)
  <2>1. pc'[t] = "done" /\ status'[t] = "ERR"
    BY <1>2, <1>7 DEF RefuseFullTable, Begin, Goto
  <2> QED
    BY <1>4, <2>1
<1>8. CASE BeginScan(t) /\ records = <<>>
  <2>1. pc'[t] = "done" /\ found'[t] = <<>>
    BY <1>2, <1>8 DEF BeginScan, Begin, Goto
  <2>2. DOMAIN found'[t] = {}
    BY <2>1
  <2> QED
    BY <1>3, <2>1, <2>2 DEF ScanOK, SeenOK, ReplacedOK, ReadOK, Searching, Applying, SeenBefore
<1>9. CASE BeginScan(t) /\ records # <<>>
  <2>1. pc'[t] = "search" /\ table_len'[t] = Len(records) /\ idx'[t] = 1
    BY <1>1, <1>2, <1>9 DEF BeginScan, Begin, Goto
  <2>2. \A i \in DOMAIN found'[t] : ~ (i < 1)
    BY <1>2
  <2>3. SeenBefore(t, idx[t])'
    BY <2>1, <2>2 DEF SeenBefore
  <2>4. Len(found'[t]) <= table_len'[t]
    BY <1>2, <2>1
  <2> QED
    BY <1>3, <2>1, <2>3, <2>4 DEF ScanOK, SeenOK, ReplacedOK, ReadOK, Searching, Applying, Ended
<1> QED
  BY <1>5, <1>6, <1>7, <1>8, <1>9

\* The search goes on from slot idx[t] with what it must have collected there.
LEMMA ScanSearchOn ==
    ASSUME ScanInv, NEW t \in Threads, NEW refs \in Seq(1 .. Len(versions)),
           SearchOn(t, refs), Searching(t),
           UNCHANGED <<records, versions, request, table_len, ref>>, found'[t] = found[t],
           \A r \in Collected(t) : \E j \in DOMAIN refs : refs[j] = r,
           \A i \in DOMAIN found[t] :
               (i = idx[t] /\ Untouched(t, i) /\ Matching(t, i))
                   => \E j \in DOMAIN refs : refs[j] = found[t][i]
    PROVE  ScanOK(t)'
<1>1. /\ TypeInv /\ FoundOK(t) /\ SeenOK(t)
  BY DEF ScanInv, KeepInv, DistinctInv, ScanOK
<1>2. /\ pc \in [Threads -> Pcs] /\ record_refs \in [Threads -> Seq(1 .. Len(versions))]
      /\ idx \in [Threads -> Nat \ {0}] /\ table_len[t] \in Nat /\ idx[t] \in Nat
      /\ found[t] \in Seq(1 .. Len(versions)) /\ Len(found[t]) \in Nat
      /\ Len(found[t]) <= table_len[t] /\ ref[t] = 1
  <2>1. /\ pc \in [Threads -> Pcs] /\ record_refs \in [Threads -> Seq(1 .. Len(versions))]
        /\ idx \in [Threads -> Nat \ {0}] /\ table_len \in [Threads -> Nat]
    BY <1>1 DEF TypeInv, TypeOK
  <2>2. ref[t] = 1
    BY <1>1 DEF TypeInv, LocalsOK, LocalOK, Searching
  <2>3. /\ found[t] \in Seq(1 .. Len(versions)) /\ Len(found[t]) \in Nat
        /\ Len(found[t]) <= table_len[t]
    BY <1>1 DEF FoundOK, SeenOK
  <2> QED
    BY <2>1, <2>2, <2>3
<1>3. DOMAIN found[t] = 1 .. Len(found[t])
  BY <1>2
<1>4. FoundOK(t)'
  BY <1>1 DEF FoundOK
<1>5. record_refs'[t] = refs
  BY <1>2 DEF SearchOn
<1>6. SeenBefore(t, idx[t])
  BY <1>1 DEF SeenOK
<1>7. ASSUME NEW i \in DOMAIN found[t], i <= idx[t], Untouched(t, i)', Matching(t, i)'
      PROVE  found[t][i] \in Collected(t)'
  <2>1. i \in Nat
    BY <1>3
  <2>2. Untouched(t, i) /\ Matching(t, i)
    BY <1>7 DEF Untouched, Matching
  <2>3. CASE i < idx[t]
    BY <1>5, <1>6, <2>2, <2>3 DEF SeenBefore, Collected
  <2>4. CASE i = idx[t]
    BY <1>5, <2>2, <2>4 DEF Collected
  <2> QED
    BY <1>2, <1>7, <2>1, <2>3, <2>4
<1>8. CASE idx[t] < table_len[t]
  <2>1. pc'[t] = "search" /\ idx'[t] = idx[t] + 1
    BY <1>2, <1>8 DEF SearchOn, Goto
  <2>2. \A i \in DOMAIN found[t] : i < idx[t] + 1 => i <= idx[t]
    BY <1>2, <1>3
  <2>3. SeenBefore(t, idx[t])'
    BY <1>7, <2>1, <2>2 DEF SeenBefore
  <2> QED
    BY <1>2, <1>4, <2>1, <2>3 DEF ScanOK, SeenOK, ReplacedOK, ReadOK, Searching, Applying, Ended
<1>9. CASE ~(idx[t] < table_len[t])
  <2>1. /\ pc'[t] \in {"done", "size"}
        /\ pc'[t] = "done" => request[t].kind = "SELECT" \/ refs = <<>>
    BY <1>2, <1>9 DEF SearchOn, Goto
  <2>2. \A i \in DOMAIN found[t] : i <= idx[t]
    BY <1>2, <1>3, <1>9
  <2>3. SeenBefore(t, Len(found[t]) + 1)'
    BY <1>7, <2>2 DEF SeenBefore
  <2>4. SeenOK(t)'
    BY <2>1, <2>3 DEF SeenOK, Searching
  <2>5. ASSUME Ended(t)', request'[t].kind = "UPDATE",
               NEW i \in DOMAIN found'[t], Matching(t, i)', Untouched(t, i)'
        PROVE  FALSE
    <3>1. DOMAIN record_refs'[t] = {}
      BY <1>5, <2>1, <2>5 DEF Ended
    <3>2. found[t][i] \in Collected(t)'
      BY <1>7, <2>2, <2>5
    <3> QED
      BY <3>1, <3>2 DEF Collected
  <2>6. \A k \in DOMAIN record_refs'[t] : ~(k < ref'[t])
    <3>1. ref'[t] = 1 /\ DOMAIN record_refs'[t] \subseteq Nat \ {0}
      BY <1>2, <1>5
    <3> QED
      BY <3>1
  <2>7. ReplacedOK(t)'
    BY <2>1, <2>5, <2>6 DEF ReplacedOK, Applying
  <2> QED
    BY <1>4, <2>1, <2>4, <2>7 DEF ScanOK, ReadOK
<1> QED
  BY <1>8, <1>9

\* The update goes on from slot idx[t], where the version it applies has been
\* replaced, by this thread or by another one.
LEMMA ScanFindOn ==
    ASSUME ScanInv, KeepInv', NEW t \in Threads, FindOn(t), Applying(t), pc[t] # "size",
           VersionsGrow, RowsGrow, found'[t] = found[t],
           UNCHANGED <<request, table_len, record_refs>>,
           \A i \in DOMAIN found[t] :
               (i = idx[t] /\ found[t][i] = CurrentRef(t)) => ~Untouched(t, i)'
    PROVE  ScanOK(t)'
<1>1. /\ TypeInv /\ SeenOK(t) /\ ReplacedOK(t) /\ FoundOK(t) /\ ViewKept(t) /\ FoundOK(t)'
  BY ViewStays DEF ScanInv, KeepInv, DistinctInv, ScanOK
<1>2. /\ found[t] \in Seq(1 .. Len(versions)) /\ Len(found[t]) \in Nat
      /\ record_refs[t] \in Seq(1 .. Len(versions)) /\ Len(record_refs[t]) \in Nat
      /\ pc \in [Threads -> Pcs] /\ idx \in [Threads -> Nat \ {0}]
      /\ ref \in [Threads -> Nat \ {0}] /\ table_len \in [Threads -> Nat]
  BY <1>1 DEF TypeInv, TypeOK, FoundOK
<1>3. /\ DOMAIN found[t] = 1 .. Len(found[t])
      /\ DOMAIN record_refs[t] = 1 .. Len(record_refs[t])
  BY <1>2
<1>4. /\ idx[t] \in Nat /\ ref[t] \in Nat /\ table_len[t] \in Nat
      /\ Len(found[t]) <= table_len[t]
  BY <1>1, <1>2 DEF ReplacedOK
<1>5. SeenBefore(t, Len(found[t]) + 1)'
  BY <1>1, SeenStays DEF SeenOK
<1>6. SeenOK(t)'
  <2>1. pc'[t] \in {"find", "size", "done"}
    BY <1>2 DEF FindOn, Goto
  <2> QED
    BY <1>1, <1>5, <2>1 DEF SeenOK, Searching, ViewKept, SeenBefore
<1>7. ASSUME NEW i \in DOMAIN found[t], i <= idx[t], found[t][i] = CurrentRef(t)
      PROVE  ~Untouched(t, i)'
  <2>1. i \in Nat
    BY <1>3
  <2>2. CASE i < idx[t]
    BY <1>1, <1>7, <2>2 DEF ReplacedOK, ReplacedBefore, ViewKept
  <2>3. CASE i = idx[t]
    BY <1>7, <2>3
  <2> QED
    BY <1>4, <1>7, <2>1, <2>2, <2>3
<1>8. ASSUME NEW k \in DOMAIN record_refs[t], k < ref[t],
             NEW i \in DOMAIN found[t], found[t][i] = record_refs[t][k]
      PROVE  ~Untouched(t, i)'
  <2>1. i < Len(found[t]) + 1
    BY <1>2, <1>3
  <2> QED
    BY <1>1, <1>8, <2>1 DEF ReplacedOK, ReplacedBefore, ViewKept
<1>9. CASE idx[t] < table_len[t]
  <2>1. pc'[t] = "find" /\ idx'[t] = idx[t] + 1 /\ ref'[t] = ref[t]
    BY <1>2, <1>9 DEF FindOn, Goto
  <2>2. CurrentRef(t)' = CurrentRef(t)
    BY <2>1 DEF CurrentRef
  <2>3. \A i \in DOMAIN found[t] : i < idx[t] + 1 => i <= idx[t]
    BY <1>3, <1>4
  <2>4. ReplacedBefore(t, CurrentRef(t), idx[t])'
    BY <1>1, <1>7, <2>1, <2>2, <2>3 DEF ReplacedBefore, ViewKept
  <2>5. \A k \in DOMAIN record_refs[t] :
            k < ref[t] => ReplacedBefore(t, record_refs[t][k], Len(found[t]) + 1)'
    BY <1>1, <1>8 DEF ReplacedBefore, ViewKept
  <2>6. ReplacedOK(t)'
    BY <1>1, <1>4, <2>1, <2>4, <2>5 DEF ReplacedOK, Ended, ViewKept, ReplacedBefore
  <2> QED
    BY <1>1, <1>6, <2>1, <2>6 DEF ScanOK, ReadOK
<1>10. CASE ~(idx[t] < table_len[t])
  <2>1. /\ ref'[t] = ref[t] + 1 /\ pc'[t] \in {"size", "done"}
        /\ pc'[t] = "done" => ~(ref[t] < Len(record_refs[t]))
    BY <1>2, <1>10 DEF FindOn, Goto
  <2>2. \A i \in DOMAIN found[t] : i <= idx[t]
    BY <1>3, <1>4, <1>10
  <2>3. ASSUME NEW k \in DOMAIN record_refs[t], k < ref[t] + 1,
               NEW i \in DOMAIN found[t], found[t][i] = record_refs[t][k]
        PROVE  ~Untouched(t, i)'
    <3>1. k < ref[t] \/ k = ref[t]
      BY <1>3, <1>4, <2>3
    <3>2. CASE k = ref[t]
      BY <1>7, <2>2, <2>3, <3>2 DEF CurrentRef
    <3> QED
      BY <1>8, <2>3, <3>1, <3>2
  <2>4. \A k \in DOMAIN record_refs[t] :
            k < ref'[t] => ReplacedBefore(t, record_refs[t][k], Len(found[t]) + 1)'
    BY <1>1, <2>1, <2>3 DEF ReplacedBefore, ViewKept
  <2>5. ASSUME pc'[t] = "done", NEW i \in DOMAIN found'[t], Matching(t, i)'
        PROVE  ~Untouched(t, i)'
    <3>1. SUFFICES ASSUME Untouched(t, i)' PROVE FALSE
      OBVIOUS
    <3>2. i \in DOMAIN found'[t] /\ i < Len(found[t]) + 1
      BY <1>1, <1>2, <1>3 DEF ViewKept
    <3>3. found[t][i] \in Collected(t)'
      BY <1>1, <1>5, <2>5, <3>1, <3>2 DEF SeenBefore, ViewKept
    <3>4. PICK k \in DOMAIN record_refs[t] : record_refs[t][k] = found[t][i]
      BY <3>3 DEF Collected
    <3>5. k < ref[t] + 1
      BY <1>2, <1>3, <1>4, <2>1, <2>5
    <3> QED
      BY <1>1, <2>3, <3>1, <3>2, <3>4, <3>5 DEF ViewKept
  <2>6. ReplacedOK(t)'
    BY <1>1, <2>1, <2>4, <2>5 DEF ReplacedOK, Applying, Ended, ViewKept, ReplacedBefore
  <2> QED
    BY <1>1, <1>6, <2>1, <2>6 DEF ScanOK, ReadOK
<1> QED
  BY <1>9, <1>10

LEMMA ScanSearches ==
    ASSUME ScanInv, NEW t \in Threads, SearchRead(t) \/ SearchCheck(t), found'[t] = found[t]
    PROVE  ScanOK(t)'
<1>1. /\ TypeInv /\ FoundOK(t) /\ SeenOK(t) /\ ReadOK(t) /\ Searching(t)
      /\ UNCHANGED <<records, versions, request, table_len, ref>>
  <2>1. TypeInv /\ FoundOK(t) /\ SeenOK(t) /\ ReadOK(t)
    BY DEF ScanInv, KeepInv, DistinctInv, ScanOK
  <2> QED
    BY <2>1 DEF SearchRead, SearchCheck, Running, Searching, tableVars
<1>2. /\ record_refs[t] \in Seq(1 .. Len(versions)) /\ pc \in [Threads -> Pcs]
      /\ retrieved \in [Threads -> 0 .. Len(versions)]
      /\ records \in Seq(0 .. Len(versions))
  BY <1>1 DEF TypeInv, TypeOK
<1>3. \A r \in Collected(t) : \E j \in DOMAIN record_refs[t] : record_refs[t][j] = r
  BY DEF Collected
<1>4. CASE SearchRead(t) /\ InRange(idx[t])
  <2>1. /\ pc'[t] = "searchCheck" /\ retrieved'[t] = records[idx[t]]
        /\ UNCHANGED <<idx, record_refs>>
    BY <1>2, <1>4 DEF SearchRead, Goto
  <2>2. SeenBefore(t, idx[t])' /\ Len(found[t]) <= table_len[t]
    BY <1>1, <2>1 DEF SeenOK, SeenBefore, Matching, Untouched, Collected
  <2>3. ReadOK(t)'
    BY <1>1, <2>1 DEF ReadOK, Untouched
  <2> QED
    BY <1>1, <2>1, <2>2, <2>3
       DEF ScanOK, FoundOK, SeenOK, ReplacedOK, Searching, Applying, Ended
<1>5. CASE SearchRead(t) /\ ~InRange(idx[t])
  <2>1. SearchOn(t, record_refs[t])
    BY <1>5 DEF SearchRead
  <2>2. \A i \in DOMAIN found[t] : i = idx[t] => ~Untouched(t, i)
    BY <1>5 DEF InRange, Untouched
  <2> QED
    BY <1>1, <1>2, <1>3, <2>1, <2>2, ScanSearchOn
<1>6. CASE SearchCheck(t)
  <2> DEFINE refs == Append(record_refs[t], retrieved[t])
             collect == Held(t) /\ Satisfies(versions[retrieved[t]].data, request[t].pred)
  <2>1. SearchOn(t, IF collect THEN refs ELSE record_refs[t]) /\ pc[t] = "searchCheck"
        /\ ~(Held(t) /\ retrieved[t] = NoVersion)
    BY <1>6 DEF SearchCheck, Running
  <2>2. \A i \in DOMAIN found[t] : (i = idx[t] /\ Untouched(t, i)) =>
            retrieved[t] = found[t][i] /\ Held(t)
    BY <1>1, <2>1 DEF ReadOK, Held, InRange, Untouched
  <2>3. CASE ~collect
    <3>1. SearchOn(t, record_refs[t])
      BY <2>1, <2>3
    <3>2. \A i \in DOMAIN found[t] :
              (i = idx[t] /\ Untouched(t, i)) => ~Matching(t, i)
      BY <2>2, <2>3 DEF Matching
    <3> QED
      BY <1>1, <1>2, <1>3, <3>1, <3>2, ScanSearchOn
  <2>4. CASE collect
    <3>1. SearchOn(t, refs)
      BY <2>1, <2>4
    <3>2. retrieved[t] \in 1 .. Len(versions)
      BY <1>2, <2>1, <2>4 DEF NoVersion
    <3>3. refs \in Seq(1 .. Len(versions))
      BY <1>2, <3>2
    <3>4. /\ \E j \in DOMAIN refs : refs[j] = retrieved[t]
          /\ \A k \in DOMAIN record_refs[t] : \E j \in DOMAIN refs : refs[j] = record_refs[t][k]
      <4>1. /\ DOMAIN refs = DOMAIN record_refs[t] \cup {Len(record_refs[t]) + 1}
            /\ refs[Len(record_refs[t]) + 1] = retrieved[t]
            /\ \A k \in DOMAIN record_refs[t] : refs[k] = record_refs[t][k]
        BY <1>2
      <4> QED
        BY <4>1
    <3> HIDE DEF refs
    <3>5. \A r \in Collected(t) : \E j \in DOMAIN refs : refs[j] = r
      BY <1>3, <3>4
    <3> QED
      BY <1>1, <2>2, <3>1, <3>3, <3>4, <3>5, ScanSearchOn
  <2> QED
    BY <2>3, <2>4
<1> QED
  BY <1>4, <1>5, <1>6

LEMMA ScanFinds ==
    ASSUME ScanInv, KeepInv', NEW t \in Threads, VersionsGrow, RowsGrow, found'[t] = found[t],
           ReadSize(t) \/ FindRead(t) \/ FindCheck(t) \/ UpdateSlot(t)
    PROVE  ScanOK(t)'
<1>1. /\ TypeInv /\ SeenOK(t) /\ ReplacedOK(t) /\ FoundOK(t) /\ ReadOK(t)
      /\ ViewKept(t) /\ FoundOK(t)'
  BY ViewStays DEF ScanInv, KeepInv, DistinctInv, ScanOK
<1>2. /\ pc \in [Threads -> Pcs] /\ idx \in [Threads -> Nat \ {0}]
      /\ ref \in [Threads -> Nat \ {0}] /\ table_len \in [Threads -> Nat]
      /\ retrieved \in [Threads -> 0 .. Len(versions)]
      /\ found[t] \in Seq(1 .. Len(versions)) /\ Len(versions) \in Nat
      /\ records \in Seq(0 .. Len(versions)) /\ Len(records) \in Nat
  BY <1>1 DEF TypeInv, TypeOK, FoundOK
<1>3. CASE ReadSize(t)
  <2>1. /\ pc[t] = "size" /\ table_len'[t] = Len(records) /\ idx'[t] = 1
        /\ UNCHANGED <<records, versions, request, record_refs>>
    BY <1>2, <1>3 DEF ReadSize, Running, tableVars
  <2>2. SeenBefore(t, Len(found[t]) + 1)'
    BY <1>1, <2>1, SeenStays DEF SeenOK, Applying
  <2>3. CASE records # <<>>
    <3>1. pc'[t] = "find" /\ ref'[t] = ref[t]
      BY <1>2, <1>3, <2>3 DEF ReadSize, Goto
    <3>2. \A i \in DOMAIN found[t] : ~(i < 1)
      BY <1>2
    <3>3. ReplacedBefore(t, CurrentRef(t), idx[t])'
      BY <1>1, <2>1, <3>2 DEF ReplacedBefore, ViewKept
    <3>4. \A k \in DOMAIN record_refs[t] :
              k < ref[t] => ReplacedBefore(t, record_refs[t][k], Len(found[t]) + 1)'
      BY <1>1, <2>1, ReplacedStays DEF ReplacedOK, Applying
    <3>5. Len(found'[t]) <= table_len'[t]
      BY <1>1, <2>1 DEF FoundOK, ViewKept
    <3> QED
      BY <1>1, <2>1, <2>2, <3>1, <3>3, <3>4, <3>5
         DEF ScanOK, SeenOK, ReplacedOK, ReadOK, Searching, Ended, ViewKept,
             SeenBefore, ReplacedBefore
  <2>4. CASE records = <<>>
    <3>1. pc'[t] \in {"size", "done"}
      BY <1>2, <1>3, <2>4 DEF ReadSize, Goto
    <3>2. DOMAIN records = {}
      BY <2>4
    <3>3. \A i \in DOMAIN found[t] : ~Untouched(t, i)'
      BY <2>1, <3>2 DEF Untouched
    <3> QED
      BY <1>1, <3>1, <3>3 DEF ScanOK, SeenOK, ReplacedOK, ReadOK, Searching, Applying,
                              ViewKept, SeenBefore, ReplacedBefore
  <2> QED
    BY <2>3, <2>4
<1>4. CASE FindRead(t) /\ InRange(idx[t])
  <2>1. /\ pc[t] = "find" /\ pc'[t] = "findCheck" /\ retrieved'[t] = records[idx[t]]
        /\ UNCHANGED <<records, versions, request, table_len, record_refs, idx, ref>>
    BY <1>2, <1>4 DEF FindRead, Running, Goto, tableVars
  <2>2. SeenOK(t)' /\ ReplacedOK(t)'
    BY <1>1, <2>1 DEF SeenOK, ReplacedOK, Searching, Applying, Ended, SeenBefore,
                      ReplacedBefore, Matching, Untouched, Collected, CurrentRef
  <2>3. ReadOK(t)'
    BY <1>1, <2>1 DEF ReadOK, Untouched
  <2> QED
    BY <1>1, <2>2, <2>3 DEF ScanOK
<1>5. CASE FindRead(t) /\ ~InRange(idx[t])
  <2>1. /\ pc[t] = "find" /\ FindOn(t)
        /\ UNCHANGED <<records, versions, request, table_len, record_refs>>
    BY <1>5 DEF FindRead, Running, tableVars
  <2>2. \A i \in DOMAIN found[t] : i = idx[t] => ~Untouched(t, i)'
    BY <1>5, <2>1 DEF InRange, Untouched
  <2> QED
    BY <2>1, <2>2, ScanFindOn DEF Applying
<1>6. CASE FindCheck(t) /\ Held(t) /\ retrieved[t] = CurrentRef(t)
  <2>1. /\ pc[t] = "findCheck" /\ pc'[t] = "cas"
        /\ UNCHANGED <<records, versions, request, table_len, record_refs, idx, ref>>
    BY <1>2, <1>6 DEF FindCheck, Running, Goto, tableVars
  <2>2. SeenOK(t)' /\ ReplacedOK(t)'
    BY <1>1, <2>1 DEF SeenOK, ReplacedOK, Searching, Applying, Ended, SeenBefore,
                      ReplacedBefore, Matching, Untouched, Collected, CurrentRef
  <2> QED
    BY <1>1, <2>1, <2>2 DEF ScanOK, ReadOK
<1>7. CASE FindCheck(t) /\ ~(Held(t) /\ retrieved[t] = CurrentRef(t))
  <2>1. /\ pc[t] = "findCheck" /\ FindOn(t)
        /\ UNCHANGED <<records, versions, request, table_len, record_refs>>
    BY <1>7 DEF FindCheck, Running, tableVars
  <2>2. \A i \in DOMAIN found[t] :
            (i = idx[t] /\ found[t][i] = CurrentRef(t)) => ~Untouched(t, i)
    BY <1>1, <1>7, <2>1 DEF ReadOK, Held, InRange, Untouched
  <2> QED
    BY <1>1, <2>1, <2>2, ScanFindOn DEF Applying, ViewKept
<1>8. CASE UpdateSlot(t)
  <2>1. /\ pc[t] = "cas" /\ FindOn(t) /\ UNCHANGED <<request, table_len, record_refs>>
    BY <1>8 DEF UpdateSlot, Running
  <2>2. ASSUME NEW i \in DOMAIN found[t], i = idx[t], found[t][i] = CurrentRef(t)
        PROVE  ~Untouched(t, i)'
    <3>1. CASE CasHits(t)
      <4>1. records' = [records EXCEPT ![idx[t]] = Len(versions) + 1]
            /\ idx[t] \in DOMAIN records
        BY <1>8, <3>1 DEF UpdateSlot, CasHits, InRange
      <4>2. records'[i] = Len(versions) + 1
        BY <2>2, <4>1
      <4>3. found[t][i] \in 1 .. Len(versions)
        BY <1>2
      <4> QED
        BY <1>1, <1>2, <4>2, <4>3 DEF Untouched, ViewKept
    <3>2. CASE ~CasHits(t)
      BY <1>1, <2>2, <3>2 DEF CasHits, InRange, Untouched, ViewKept
    <3> QED
      BY <3>1, <3>2
  <2> QED
    BY <2>1, <2>2, ScanFindOn DEF Applying
<1> QED
  BY <1>3, <1>4, <1>5, <1>6, <1>7, <1>8

LEMMA ScanEnds ==
    ASSUME ScanInv, KeepInv', NEW t \in Threads, VersionsGrow, RowsGrow, found'[t] = found[t],
           CountRow(t) \/ PushRow(t) \/ Return(t)
    PROVE  ScanOK(t)'
<1>1. TypeInv /\ SeenOK(t) /\ FoundOK(t)'
  BY ViewStays DEF ScanInv, KeepInv, DistinctInv, ScanOK
<1>2. pc \in [Threads -> Pcs] /\ idx \in [Threads -> Nat \ {0}]
  BY <1>1 DEF TypeInv, TypeOK
<1>3. CASE Return(t)
  <2>1. pc'[t] = "idle" /\ idx'[t] = 1
    BY <1>2, <1>3 DEF Return, Goto
  <2> QED
    BY <1>1, <2>1 DEF ScanOK, SeenOK, ReplacedOK, ReadOK, Searching, Applying, Ended
<1>4. CASE CountRow(t) \/ PushRow(t)
  <2>1. pc[t] \in {"count", "push"} /\ pc'[t] \in {"push", "done"} /\ request' = request
    BY <1>2, <1>4 DEF CountRow, PushRow, Running, Goto
  <2> QED
    BY <1>1, <2>1 DEF ScanOK, SeenOK, ReplacedOK, ReadOK, Searching, Applying, Ended
<1> QED
  BY <1>3, <1>4

LEMMA ScanStep ==
    ASSUME NoDeletes, ScanInv, HistoryNext
    PROVE  ScanInv'
<1>1. PICK t \in Threads : Acts(t)
  BY NextSplit DEF Acts, HistoryNext
<1>2. KeepInv /\ KeepInv' /\ TypeInv /\ NoNulls
  BY KeepStep DEF ScanInv, HistoryNext, KeepInv, DistinctInv
<1>3. /\ VersionsGrow /\ RowsGrow /\ OthersAlone(t) /\ ~ClearSlot(t) /\ ~EraseSlot(t)
  BY <1>1, <1>2, VersionsOnlyGrow, RowsOnlyGrow, StepOfThread, KeepStatement
<1>4. \A u \in Threads :
          found'[u] = IF pc[u] = "idle" /\ pc'[u] # "idle" THEN records ELSE found[u]
  BY DEF HistoryNext
<1>5. ASSUME NEW u \in Threads \ {t} PROVE ScanOK(u)'
  <2>1. found'[u] = found[u]
    BY <1>3, <1>4 DEF OthersAlone
  <2> QED
    BY <1>2, <1>3, <2>1, ScanOthers DEF OthersAlone
<1>6. ~NullDereference(t)
  BY <1>2 DEF NullDereference, Held, InRange, NoNulls
<1>7. ASSUME RejectRow(t) \/ CheckRow(t) \/ BeginScan(t) \/ RefuseFullTable(t)
      PROVE  ScanOK(t)'
  <2>1. pc[t] = "idle" /\ pc'[t] # "idle"
    BY <1>2, <1>7 DEF RejectRow, CheckRow, BeginScan, RefuseFullTable, Begin, Goto,
                      TypeInv, TypeOK
  <2>2. found'[t] = records
    BY <1>4, <2>1
  <2> QED
    BY <1>7, <2>2, ScanBegins
<1>8. ASSUME ~(RejectRow(t) \/ CheckRow(t) \/ BeginScan(t) \/ RefuseFullTable(t))
      PROVE  ScanOK(t)'
  <2>1. pc[t] # "idle"
    BY <1>1, <1>3, <1>6, <1>8 DEF Acts, Looks, SearchRead, SearchCheck, ReadSize, FindRead,
       FindCheck, Return, UpdateSlot, CountRow, PushRow, Running
  <2>2. found'[t] = found[t]
    BY <1>4, <2>1
  <2> QED
    BY <1>1, <1>2, <1>3, <1>6, <1>8, <2>2, ScanSearches, ScanFinds, ScanEnds DEF Acts, Looks
<1> QED
  BY <1>2, <1>5, <1>7, <1>8 DEF ScanInv

LEMMA ScanInit == HistoryInit => ScanInv
<1> SUFFICES ASSUME HistoryInit PROVE ScanInv
  OBVIOUS
<1>1. KeepInv /\ TypeInv
  BY KeepInit DEF HistoryInit, KeepInv, DistinctInv
<1>2. \A t \in Threads : found[t] = <<>> /\ pc[t] = "idle" /\ idx[t] = 1
  BY DEF HistoryInit, Init
<1>3. <<>> \in Seq(1 .. Len(versions)) /\ Len(<<>>) = 0 /\ Len(records) \in Nat
  BY <1>1 DEF TypeInv, TypeOK
<1>4. ASSUME NEW t \in Threads PROVE FoundOK(t)
  <2>1. found[t] = <<>>
    BY <1>2
  <2>2. Len(found[t]) <= Len(records)
    BY <1>3, <2>1
  <2> QED
    BY <1>3, <2>1, <2>2 DEF FoundOK
<1> QED
  BY <1>1, <1>2, <1>4 DEF ScanInv, ScanOK, SeenOK, ReplacedOK, ReadOK, Searching, Applying, Ended

LEMMA ScanStutter ==
    ASSUME ScanInv, UNCHANGED <<vars, found>>
    PROVE  ScanInv'
<1>1. KeepInv'
  BY KeepStutter DEF ScanInv
<1>2. UNCHANGED <<records, versions, pc, request, status, table_len, idx, ref, retrieved,
                  record_refs, found>>
  BY DEF vars, tableVars, scanVars, replyVars
<1> QED
  BY <1>1, <1>2 DEF ScanInv, ScanOK, FoundOK, SeenOK, ReplacedOK, ReadOK, SeenBefore,
     ReplacedBefore, Searching, Applying, Ended, Matching, Untouched, Collected, CurrentRef

LEMMA ScanAlways ==
    ASSUME NoDeletes
    PROVE  HistorySpec => []ScanInv
<1>1. ScanInv /\ [HistoryNext]_<<vars, found>> => ScanInv'
  BY ScanStep, ScanStutter
<1> QED
  BY <1>1, ScanInit, PTL DEF HistorySpec

\* Where no statement deletes, a search collects every row that matches and
\* that nobody touches while it runs, though no lock protects its scan.
THEOREM SearchesComplete ==
    ASSUME NoDeletes
    PROVE  HistorySpec => []StableRowsSeen
<1>1. ASSUME ScanInv PROVE StableRowsSeen
  <2> SUFFICES ASSUME NEW t \in Threads, pc[t] \in {"size", "done"},
                      status[t] = "SUCCESS", request[t].kind # "INSERT",
                      NEW i \in DOMAIN found[t], Untouched(t, i), Matching(t, i)
               PROVE  found[t][i] \in Collected(t)
    BY DEF StableRowsSeen, Matching
  <2>1. SeenBefore(t, Len(found[t]) + 1)
    BY <1>1 DEF ScanInv, ScanOK, SeenOK, Applying, Ended
  <2>2. found[t] \in Seq(1 .. Len(versions))
    BY <1>1 DEF ScanInv, ScanOK, FoundOK
  <2>3. i < Len(found[t]) + 1
    BY <2>2
  <2> QED
    BY <2>1, <2>3 DEF SeenBefore
<1> QED
  BY <1>1, ScanAlways, PTL

\* Where no statement deletes, an UPDATE that ends has replaced, or seen another
\* thread replace, every row that matched when it started, even where the cas
\* lost or a slot was skipped.
THEOREM UpdatesComplete ==
    ASSUME NoDeletes
    PROVE  HistorySpec => []MatchingRowsReplaced
<1>1. ScanInv => MatchingRowsReplaced
  BY DEF ScanInv, ScanOK, ReplacedOK, Ended, Matching, MatchingRowsReplaced
<1> QED
  BY <1>1, ScanAlways, PTL
=============================================================================
