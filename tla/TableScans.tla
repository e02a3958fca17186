----------------------------- MODULE TableScans -----------------------------
(***************************************************************************)
(* TableRows with a history variable: the table each thread's statement    *)
(* found when it started.  It states what a scan that no lock protects     *)
(* still guarantees, and relates the rows to an atomic table.              *)
(***************************************************************************)
EXTENDS TableRows

VARIABLE found      \* found[t]: records when t's statement started

HistoryInit == Init /\ found = [t \in Threads |-> <<>>]

HistoryNext ==
    /\ Next
    /\ found' = [t \in Threads |->
                    IF pc[t] = "idle" /\ pc'[t] # "idle" THEN records ELSE found[t]]

HistorySpec == HistoryInit /\ [][HistoryNext]_<<vars, found>>

FairHistorySpec == HistorySpec /\ Fairness

Untouched(t, i) ==
    i \in DOMAIN records /\ records[i] = found[t][i] /\ found[t][i] # NoVersion

Collected(t) == {record_refs[t][k] : k \in DOMAIN record_refs[t]}

\* While only updates and inserts run beside it, a search collects every
\* matching row that nobody has touched since the statement started.
StableRowsSeen ==
    \A t \in Threads :
        (pc[t] \in {"size", "done"} /\ status[t] = "SUCCESS" /\ request[t].kind # "INSERT")
            => \A i \in DOMAIN found[t] :
                  (/\ Untouched(t, i)
                   /\ Satisfies(versions[found[t][i]].data, request[t].pred))
                      => found[t][i] \in Collected(t)

\* An UPDATE that ends leaves no row as it found it if the row matched: this
\* thread or another one has replaced every such version, even where the
\* search skipped the row or the cas lost.
MatchingRowsReplaced ==
    \A t \in Threads :
        (pc[t] = "done" /\ request[t].kind = "UPDATE" /\ status[t] # "ERR")
            => \A i \in DOMAIN found[t] :
                  Satisfies(versions[found[t][i]].data, request[t].pred)
                      => ~Untouched(t, i)

-----------------------------------------------------------------------------
\* The rows in the table by the insertion they go back to.
RowsByOrigin ==
    [o \in Origins |-> versions[CHOOSE v \in Live : versions[v].origin = o].data]

Atomic == INSTANCE AtomicTable
    WITH table <- RowsByOrigin, Statements <- UNION {Requests[t] : t \in Threads}

\* Without deletes the concurrent table implements the atomic one: every step
\* of every thread is an atomic change of one row or no change.
ImplementsAtomicTable == Atomic!Spec
=============================================================================
