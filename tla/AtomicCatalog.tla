---------------------------- MODULE AtomicCatalog ---------------------------
(***************************************************************************)
(* What the catalog of tables promises: CREATE, DROP and the lookups of    *)
(* the other statements each take effect at one moment, and are told       *)
(* whether the table existed at that moment.                               *)
(***************************************************************************)
CONSTANTS Threads, Names, NoCall

VARIABLES
    tables,     \* the names of the tables that exist
    call,       \* the call each thread has made
    reply       \* what it was told, "pending" until the call takes effect

catalogVars == <<tables, call, reply>>

Init ==
    /\ tables = {}
    /\ call = [t \in Threads |-> NoCall]
    /\ reply = [t \in Threads |-> "none"]

Call(t) ==
    /\ reply[t] # "pending"
    /\ \E op \in {"createTable", "refuse", "deleteTable", "lookup"} : \E n \in Names :
          call' = [call EXCEPT ![t] = [op |-> op, table |-> n]]
    /\ reply' = [reply EXCEPT ![t] = "pending"]
    /\ UNCHANGED tables

Rest(t) ==
    /\ reply[t] # "pending"
    /\ call' = [call EXCEPT ![t] = NoCall]
    /\ reply' = [reply EXCEPT ![t] = "none"]
    /\ UNCHANGED tables

Told(t, answer) == reply[t] = "pending" /\ reply' = [reply EXCEPT ![t] = answer]

\* A CREATE without columns.
Refuse(t) ==
    /\ call[t].op = "refuse" /\ UNCHANGED <<tables, call>>
    /\ Told(t, "ERR_TABLE_CMD_INVALID")

Create(t) ==
    /\ call[t].op = "createTable" /\ UNCHANGED call
    /\ IF call[t].table \in tables
       THEN Told(t, "ERR") /\ UNCHANGED tables
       ELSE Told(t, "SUCCESS") /\ tables' = tables \cup {call[t].table}

Drop(t) ==
    /\ call[t].op = "deleteTable" /\ UNCHANGED call
    /\ IF call[t].table \in tables
       THEN Told(t, "SUCCESS") /\ tables' = tables \ {call[t].table}
       ELSE Told(t, "ERR_TABLE_NOT_EXIST") /\ UNCHANGED tables

Lookup(t) ==
    /\ call[t].op = "lookup" /\ UNCHANGED <<tables, call>>
    /\ Told(t, IF call[t].table \in tables THEN "SUCCESS" ELSE "ERR_TABLE_NOT_EXIST")

Next ==
    \E t \in Threads :
        \/ Call(t) \/ Rest(t)
        \/ reply[t] = "pending" /\ (Refuse(t) \/ Create(t) \/ Drop(t) \/ Lookup(t))

Spec == Init /\ [][Next]_catalogVars
=============================================================================
