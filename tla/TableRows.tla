------------------------------ MODULE TableRows -----------------------------
(***************************************************************************)
(* The rows of one DataTable under the worker threads that call            *)
(* DataStore::insertRecord, updateRecords, deleteRecords and getRecords    *)
(* on it.  No lock protects the table: it is a wait-free vector of         *)
(* pointers to immutable records, and an operation is a sequence of        *)
(* single reads, compare-and-swaps and erasures of vector slots that the   *)
(* other threads' steps may separate.                                      *)
(*                                                                         *)
(* A ValuePointer<Record> is its number in `versions': pointers are        *)
(* allocated in order and never freed while the table lives, so a pointer  *)
(* is never used twice.  The vector is 1-based here.                       *)
(***************************************************************************)
EXTENDS RowOps, FiniteSets, SequencesExt

CONSTANTS
    Threads,        \* the worker threads
    Requests,       \* Requests[t]: the statements thread t may be given
    Preloaded,      \* the rows inserted before the model starts
    MaxRequests     \* bound: statements per thread

Kinds == {"INSERT", "UPDATE", "DELETE", "SELECT"}

StatementType == [kind: Kinds, pred: Predicates, row: StatementRow]

\* The SQL layer gives an UPDATE one value, possibly null, for every column.
ASSUME RequestsAssumption ==
    \A t \in Threads : \A r \in Requests[t] :
        /\ r \in StatementType
        /\ r.kind = "UPDATE" => r.row \in RowData

ASSUME PreloadedAssumption == Preloaded \in Seq(RowData)

ASSUME MaxRequestsAssumption == MaxRequests \in Nat

NoVersion == 0      \* the null pointer a delete leaves in a slot

IdShift == 128      \* a record's id sits above the 7 tag bits of its last word

VARIABLES
    records,        \* DataTable::records, the vector of pointers
    versions,       \* the Record behind each pointer
    record_counter, \* DataTable::record_counter
    crashed,        \* a null ValuePointer was dereferenced
    pc,             \* where each thread is
    request,        \* the statement it works on
    table_len,      \* the vector's length, read once per scan
    idx,            \* the slot it looks at
    retrieved,      \* the pointer VectorAccessor::init read from the slot
    record_refs,    \* the references, or copies, its search collected
    ref,            \* the position in record_refs it applies
    num_affected,
    status,         \* the ManipStatus it will return
    taken           \* statements it has been given

tableVars == <<records, versions, record_counter, crashed>>
scanVars == <<table_len, idx, retrieved, record_refs, ref>>
replyVars == <<num_affected, status>>
vars == <<tableVars, pc, request, scanVars, replyVars, taken>>

\* A record: its columns, and the word behind them.  `origin' is a history
\* field: the counter value of the INSERT that the row goes back to.
VersionType == [data: RowData, word: Nat, origin: Nat]

NewVersion(data, counter) ==
    [data |-> data, word |-> counter * IdShift, origin |-> counter]

\* copyRecord and RecordCopy read the id out of the last word; updateRecord
\* pushes that id back as the whole word.
IdOf(v) == versions[v].word \div IdShift

UpdatedVersion(v, row) ==
    [data |-> Merge(versions[v].data, row), word |-> IdOf(v),
     origin |-> versions[v].origin]

Live == {records[i] : i \in DOMAIN records} \ {NoVersion}

InRange(i) == i \in DOMAIN records

Pcs == {"idle", "count", "push", "search", "searchCheck", "size", "find",
        "findCheck", "cas", "erase", "done"}
-----------------------------------------------------------------------------
NoStatement == [kind |-> "SELECT", pred |-> NoPredicate, row |-> NoRow]

Init ==
    /\ records = [i \in DOMAIN Preloaded |-> i]
    /\ versions = [i \in DOMAIN Preloaded |-> NewVersion(Preloaded[i], i - 1)]
    /\ record_counter = Len(Preloaded)
    /\ crashed = FALSE
    /\ pc = [t \in Threads |-> "idle"]
    /\ request = [t \in Threads |-> NoStatement]
    /\ table_len = [t \in Threads |-> 0]
    /\ idx = [t \in Threads |-> 1]
    /\ retrieved = [t \in Threads |-> NoVersion]
    /\ record_refs = [t \in Threads |-> <<>>]
    /\ ref = [t \in Threads |-> 1]
    /\ num_affected = [t \in Threads |-> 0]
    /\ status = [t \in Threads |-> "SUCCESS"]
    /\ taken = [t \in Threads |-> 0]

Goto(t, label) == pc' = [pc EXCEPT ![t] = label]

\* A thread takes statement r and starts at `label' with status s.
Begin(t, r, label, s) ==
    /\ ~crashed /\ pc[t] = "idle" /\ taken[t] < MaxRequests
    /\ taken' = [taken EXCEPT ![t] = @ + 1]
    /\ request' = [request EXCEPT ![t] = r]
    /\ status' = [status EXCEPT ![t] = s]
    /\ UNCHANGED num_affected
    /\ Goto(t, label)

Running(t, label) == ~crashed /\ pc[t] = label
-----------------------------------------------------------------------------
(* insertRecord                                                            *)

\* schemaChecker fails: ERR_FAILED_CONSTRAINT, nothing is inserted.
RejectRow(t) ==
    \E r \in Requests[t] :
        /\ r.kind = "INSERT" /\ ~Accepted(r.row)
        /\ Begin(t, r, "done", "ERR_FAILED_CONSTRAINT")
        /\ UNCHANGED <<tableVars, scanVars>>

\* schemaChecker loads record_counter for the AUTO_INCREMENT columns.
CheckRow(t) ==
    \E r \in Requests[t] :
        /\ r.kind = "INSERT" /\ Accepted(r.row)
        /\ Begin(t, [r EXCEPT !.row = Checked(r.row, record_counter)],
                 "count", "SUCCESS")
        /\ UNCHANGED <<tableVars, scanVars>>

\* fetch_add numbers the record, which only this thread can see so far.
CountRow(t) ==
    /\ Running(t, "count")
    /\ versions' = Append(versions, NewVersion(request[t].row, record_counter))
    /\ retrieved' = [retrieved EXCEPT ![t] = Len(versions) + 1]
    /\ record_counter' = record_counter + 1
    /\ Goto(t, "push")
    /\ UNCHANGED <<records, crashed, request, table_len, idx, record_refs, ref,
                   replyVars, taken>>

PushRow(t) ==
    /\ Running(t, "push")
    /\ records' = Append(records, retrieved[t])
    /\ Goto(t, "done")
    /\ UNCHANGED <<versions, record_counter, crashed, request, scanVars,
                   replyVars, taken>>
-----------------------------------------------------------------------------
(* The scan of searchTable, searchTableForRefs and of getRecords' full     *)
(* copy: the length is read once, each slot is read through a              *)
(* VectorAccessor, a slot whose accessor fails is skipped.                 *)

BeginScan(t) ==
    \E r \in Requests[t] :
        /\ r.kind # "INSERT"
        /\ r.pred = NoPredicate => r.kind = "SELECT"
        /\ Begin(t, r, IF records = <<>> THEN "done" ELSE "search", "SUCCESS")
        /\ table_len' = [table_len EXCEPT ![t] = Len(records)]
        /\ UNCHANGED <<tableVars, idx, retrieved, record_refs, ref>>

\* An UPDATE or DELETE without predicates is not supported.
RefuseFullTable(t) ==
    \E r \in Requests[t] :
        /\ r.kind \in {"UPDATE", "DELETE"} /\ r.pred = NoPredicate
        /\ Begin(t, r, "done", "ERR")
        /\ UNCHANGED <<tableVars, scanVars>>

\* Defect for a mutant run: the last slot is not searched.
SearchOnShort(t, refs) ==
    /\ record_refs' = [record_refs EXCEPT ![t] = refs]
    /\ IF idx[t] < table_len[t] - 1
       THEN Goto(t, "search") /\ idx' = [idx EXCEPT ![t] = @ + 1]
       ELSE /\ Goto(t, IF request[t].kind = "SELECT" \/ refs = <<>>
                       THEN "done" ELSE "size")
            /\ UNCHANGED idx

\* The search goes to the next slot with `refs' collected, or is over.
SearchOn(t, refs) ==
    /\ record_refs' = [record_refs EXCEPT ![t] = refs]
    /\ IF idx[t] < table_len[t]
       THEN Goto(t, "search") /\ idx' = [idx EXCEPT ![t] = @ + 1]
       ELSE /\ Goto(t, IF request[t].kind = "SELECT" \/ refs = <<>>
                       THEN "done" ELSE "size")
            /\ UNCHANGED idx

\* VectorAccessor::init reads the slot ...
SearchRead(t) ==
    /\ Running(t, "search")
    /\ IF InRange(idx[t])
       THEN /\ retrieved' = [retrieved EXCEPT ![t] = records[idx[t]]]
            /\ Goto(t, "searchCheck")
            /\ UNCHANGED <<idx, record_refs>>
       ELSE SearchOn(t, record_refs[t]) /\ UNCHANGED retrieved
    /\ UNCHANGED <<tableVars, request, table_len, ref, replyVars, taken>>

\* ... and fails unless the slot still holds the same pointer.
Held(t) == InRange(idx[t]) /\ records[idx[t]] = retrieved[t]

SearchCheck(t) ==
    /\ Running(t, "searchCheck")
    /\ ~(Held(t) /\ retrieved[t] = NoVersion)
    /\ SearchOn(t, IF Held(t) /\ Satisfies(versions[retrieved[t]].data,
                                           request[t].pred)
                   THEN Append(record_refs[t], retrieved[t])
                   ELSE record_refs[t])
    /\ UNCHANGED <<tableVars, request, table_len, retrieved, ref, replyVars,
                   taken>>

\* The slot holds the null of an unfinished delete both times: init goes on
\* to increment the counter behind it.
NullDereference(t) ==
    /\ Running(t, "searchCheck") \/ Running(t, "findCheck")
    /\ Held(t) /\ retrieved[t] = NoVersion
    /\ crashed' = TRUE
    /\ UNCHANGED <<records, versions, record_counter, pc, request, scanVars,
                   replyVars, taken>>
-----------------------------------------------------------------------------
(* updateRecords and deleteRecords: for each reference the whole table is  *)
(* searched again for the slot that holds it.                              *)

CurrentRef(t) == record_refs[t][ref[t]]

\* Defects for mutant runs: the inner loop gives up after its first slot, or
\* tries the same slot again.
FindOnFirst(t) ==
    /\ UNCHANGED idx
    /\ ref' = [ref EXCEPT ![t] = @ + 1]
    /\ Goto(t, IF ref[t] < Len(record_refs[t]) THEN "size" ELSE "done")

FindAgain(t) == Goto(t, "find") /\ UNCHANGED <<idx, ref>>

\* The inner loop goes to the next slot, then to the next reference.
FindOn(t) ==
    IF idx[t] < table_len[t]
    THEN /\ idx' = [idx EXCEPT ![t] = @ + 1]
         /\ Goto(t, "find")
         /\ UNCHANGED ref
    ELSE /\ UNCHANGED idx
         /\ ref' = [ref EXCEPT ![t] = @ + 1]
         /\ Goto(t, IF ref[t] < Len(record_refs[t]) THEN "size" ELSE "done")

ReadSize(t) ==
    /\ Running(t, "size")
    /\ table_len' = [table_len EXCEPT ![t] = Len(records)]
    /\ idx' = [idx EXCEPT ![t] = 1]
    /\ IF records # <<>>
       THEN Goto(t, "find") /\ UNCHANGED ref
       ELSE /\ ref' = [ref EXCEPT ![t] = @ + 1]
            /\ Goto(t, IF ref[t] < Len(record_refs[t]) THEN "size" ELSE "done")
    /\ UNCHANGED <<tableVars, request, retrieved, record_refs, replyVars, taken>>

FindRead(t) ==
    /\ Running(t, "find")
    /\ IF InRange(idx[t])
       THEN /\ retrieved' = [retrieved EXCEPT ![t] = records[idx[t]]]
            /\ Goto(t, "findCheck")
            /\ UNCHANGED <<idx, ref>>
       ELSE FindOn(t) /\ UNCHANGED retrieved
    /\ UNCHANGED <<tableVars, request, table_len, record_refs, replyVars, taken>>

FindCheck(t) ==
    /\ Running(t, "findCheck")
    /\ ~(Held(t) /\ retrieved[t] = NoVersion)
    /\ IF Held(t) /\ retrieved[t] = CurrentRef(t)
       THEN Goto(t, "cas") /\ UNCHANGED <<idx, ref>>
       ELSE FindOn(t)
    /\ UNCHANGED <<tableVars, request, table_len, retrieved, record_refs,
                   replyVars, taken>>

Succeed(t) == num_affected' = [num_affected EXCEPT ![t] = @ + 1] /\ UNCHANGED status

Contention(t) ==
    status' = [status EXCEPT ![t] = "ERR_PARTIAL_CONTENTION"] /\ UNCHANGED num_affected

\* Defect for a mutant run: a store in the place of the cas.
BlindCasHits(t) == InRange(idx[t])

\* The slot the cas of this thread would replace still holds its reference.
CasHits(t) == InRange(idx[t]) /\ records[idx[t]] = CurrentRef(t)

UpdateSlot(t) ==
    /\ Running(t, "cas") /\ request[t].kind = "UPDATE"
    /\ IF CasHits(t)
       THEN /\ versions' = Append(versions,
                                  UpdatedVersion(CurrentRef(t), request[t].row))
            /\ records' = [records EXCEPT ![idx[t]] = Len(versions) + 1]
            /\ Succeed(t)
       ELSE Contention(t) /\ UNCHANGED <<records, versions>>
    /\ FindOn(t)
    /\ UNCHANGED <<record_counter, crashed, request, table_len, retrieved,
                   record_refs, taken>>

ClearSlot(t) ==
    /\ Running(t, "cas") /\ request[t].kind = "DELETE"
    /\ IF CasHits(t)
       THEN records' = [records EXCEPT ![idx[t]] = NoVersion] /\ Succeed(t)
       ELSE Contention(t) /\ UNCHANGED records
    /\ Goto(t, "erase")
    /\ UNCHANGED <<versions, record_counter, crashed, request, scanVars, taken>>

EraseAt(i) == RemoveAt(records, i)

\* eraseAt is called whether or not the cas succeeded, on whatever the slot
\* at idx holds by now, and the slots behind it move up.
EraseSlot(t) ==
    /\ Running(t, "erase")
    /\ IF InRange(idx[t])
       THEN records' = EraseAt(idx[t]) /\ UNCHANGED replyVars
       ELSE Contention(t) /\ UNCHANGED records
    /\ FindOn(t)
    /\ UNCHANGED <<versions, record_counter, crashed, request, table_len,
                   retrieved, record_refs, taken>>
-----------------------------------------------------------------------------
\* The result is returned, the locals are gone, and the thread waits for its
\* next statement.
Return(t) ==
    /\ Running(t, "done")
    /\ Goto(t, "idle")
    /\ request' = [request EXCEPT ![t] = NoStatement]
    /\ table_len' = [table_len EXCEPT ![t] = 0]
    /\ idx' = [idx EXCEPT ![t] = 1]
    /\ retrieved' = [retrieved EXCEPT ![t] = NoVersion]
    /\ record_refs' = [record_refs EXCEPT ![t] = <<>>]
    /\ ref' = [ref EXCEPT ![t] = 1]
    /\ num_affected' = [num_affected EXCEPT ![t] = 0]
    /\ status' = [status EXCEPT ![t] = "SUCCESS"]
    /\ UNCHANGED <<tableVars, taken>>

Step(t) ==
    \/ CountRow(t) \/ PushRow(t)
    \/ SearchRead(t) \/ SearchCheck(t) \/ NullDereference(t)
    \/ ReadSize(t) \/ FindRead(t) \/ FindCheck(t)
    \/ UpdateSlot(t) \/ ClearSlot(t) \/ EraseSlot(t)
    \/ Return(t)

Next ==
    \E t \in Threads :
        RejectRow(t) \/ CheckRow(t) \/ BeginScan(t) \/ RefuseFullTable(t) \/ Step(t)

Spec == Init /\ [][Next]_vars

\* Each worker is a thread of its own that the system schedules.
Fairness == \A t \in Threads : WF_vars(Step(t))

FairSpec == Spec /\ Fairness
-----------------------------------------------------------------------------
\* Every variable holds a value the code's types and the allocation order
\* allow: a slot is null or an allocated record.
TypeOK ==
    /\ records \in Seq(0 .. Len(versions))
    /\ versions \in Seq(VersionType)
    /\ record_counter \in Nat
    /\ crashed \in BOOLEAN
    /\ pc \in [Threads -> Pcs]
    /\ request \in [Threads -> StatementType]
    /\ table_len \in [Threads -> Nat]
    /\ idx \in [Threads -> Nat \ {0}]
    /\ retrieved \in [Threads -> 0 .. Len(versions)]
    /\ record_refs \in [Threads -> Seq(1 .. Len(versions))]
    /\ ref \in [Threads -> Nat \ {0}]
    /\ num_affected \in [Threads -> Nat]
    /\ status \in [Threads -> {"SUCCESS", "ERR", "ERR_FAILED_CONSTRAINT",
                               "ERR_PARTIAL_CONTENTION"}]
    /\ taken \in [Threads -> 0 .. MaxRequests]

Origins == {versions[v].origin : v \in Live}

\* No interleaving of inserts, updates, deletes and the slots they move makes
\* one inserted row appear in two slots: an UPDATE whose cas lands on a slot
\* that another thread has since changed or moved would.
RowsDistinct ==
    \A i, j \in DOMAIN records :
        (i # j /\ records[i] # NoVersion /\ records[j] # NoVersion)
            => versions[records[i]].origin # versions[records[j]].origin

\* A row that was deleted never comes back: the only row a step adds to the
\* table is the one an INSERT pushes, so an UPDATE that read a row before
\* it was deleted cannot write it again.
NoResurrection ==
    [][\A o \in Origins' \ Origins :
          \E t \in Threads : pc[t] = "push" /\ versions[retrieved[t]].origin = o]_vars

\* A search never collects two versions of one row, even when deletes move
\* the rows and updates replace them while it scans, so no SELECT returns a
\* row twice and no UPDATE applies itself twice to a row.
SearchDistinct ==
    \A t \in Threads : \A i, j \in DOMAIN record_refs[t] :
        i # j => versions[record_refs[t][i]].origin # versions[record_refs[t][j]].origin

\* The rows inserted into a table get different AUTO_INCREMENT values
\* (data_store.cc:225: "increment unique counter").
AutoIncrementUnique ==
    \A i, j \in DOMAIN records : i # j =>
        \A c \in Columns : HasConstraint(c, "AUTO_INCREMENT") =>
            versions[records[i]].data[c] # versions[records[j]].data[c]

\* Every statement a thread starts is answered: each scan's length is read
\* once, so no thread can keep another one scanning.
StatementsAnswered ==
    \A t \in Threads : pc[t] # "idle" ~> pc[t] = "idle"
=============================================================================
