------------------------------- MODULE Catalog ------------------------------
(***************************************************************************)
(* The catalog of a DataStore: table_name_mapping, a wait-free hash map    *)
(* from a table's name to its SchemaTablePair, under the threads that      *)
(* create and drop tables and look them up.  The table of a pair is shared *)
(* by reference count, its schema is a plain pointer.                      *)
(*                                                                         *)
(* A pair, its schema and its table are numbered together, in the order    *)
(* of their allocation.  The map's remove fails while the key is absent or *)
(* a ValueAccessor of another thread is on it.                             *)
(***************************************************************************)
EXTENDS Naturals, FiniteSets, Sequences

CONSTANTS
    Threads,        \* the worker threads
    Names,          \* the names of tables (the keys: their hashes)
    Scripts,        \* Scripts[t]: the sequences of DataStore calls, one for
                    \* each statement that thread t may be given
    MaxStatements   \* bound: statements per thread

Lookups == {"getColumnIndex", "getTableSchema", "insertRecord",
            "updateRecords", "getRecords"}

Ops == {"createTable", "deleteTable"} \cup Lookups

\* The lookups that read the schema, and those that use the table.
SchemaReaders == {"getColumnIndex", "getTableSchema", "insertRecord"}
TableUsers == {"insertRecord", "updateRecords", "getRecords"}

\* `empty' marks a CREATE without columns.
CallType == [op: Ops, table: Names, empty: BOOLEAN]

ASSUME ScriptsAssumption ==
    \A t \in Threads : \A s \in Scripts[t] : s \in Seq(CallType) /\ s # <<>>

ASSUME MaxStatementsAssumption == MaxStatements \in Nat

NoPair == 0

VARIABLES
    table_name_mapping, \* the pair each name is mapped to
    pairs,              \* every SchemaTablePair allocated so far
    fault,              \* a schema was deleted twice: the heap is corrupt
    pc,                 \* where each thread is
    script,             \* the calls left of its statement
    accessor,           \* whether it holds a ValueAccessor on the name
    pair_ptr,           \* the pair deleteTable has read
    pair,               \* the SchemaTablePair that getTablePair has filled
    built,              \* the schema its statement was built from
    found,              \* what the call has found in the map
    taken               \* statements it has been given

heapVars == <<table_name_mapping, pairs, fault>>
localVars == <<accessor, pair_ptr, pair, built>>
vars == <<heapVars, pc, script, localVars, found, taken>>

PairType == [pair: BOOLEAN, schema: BOOLEAN, owners: Nat]

NewPair == [pair |-> TRUE, schema |-> TRUE, owners |-> 1]

Pcs == {"idle", "call", "release", "remove", "freeSchema", "freePair",
        "schema", "table", "done"}
-----------------------------------------------------------------------------
Init ==
    /\ table_name_mapping = [n \in Names |-> NoPair]
    /\ pairs = <<>>
    /\ fault = FALSE
    /\ pc = [t \in Threads |-> "idle"]
    /\ script = [t \in Threads |-> <<>>]
    /\ accessor = [t \in Threads |-> FALSE]
    /\ pair_ptr = [t \in Threads |-> NoPair]
    /\ pair = [t \in Threads |-> NoPair]
    /\ built = [t \in Threads |-> NoPair]
    /\ found = [t \in Threads |-> "none"]
    /\ taken = [t \in Threads |-> 0]

Goto(t, label) == pc' = [pc EXCEPT ![t] = label]

Found(t, what) == found' = [found EXCEPT ![t] = what]

At(t, label) == ~fault /\ pc[t] = label

Op(t) == script[t][1].op

Table(t) == script[t][1].table

Mapped(t) == table_name_mapping[Table(t)]

Begin(t) ==
    /\ At(t, "idle") /\ taken[t] < MaxStatements
    /\ \E s \in Scripts[t] : script' = [script EXCEPT ![t] = s]
    /\ taken' = [taken EXCEPT ![t] = @ + 1]
    /\ Found(t, "pending")
    /\ Goto(t, "call")
    /\ UNCHANGED <<heapVars, localVars>>

RefuseCreate(t) ==
    /\ At(t, "call") /\ Op(t) = "createTable" /\ script[t][1].empty
    /\ Found(t, "ERR_TABLE_CMD_INVALID")
    /\ Goto(t, "done")
    /\ UNCHANGED <<heapVars, script, localVars, taken>>

\* createTable: insert fails if the name is mapped, and the new pair leaks.
CreateTable(t) ==
    /\ At(t, "call") /\ Op(t) = "createTable" /\ ~script[t][1].empty
    /\ pairs' = Append(pairs, NewPair)
    /\ IF Mapped(t) = NoPair
       THEN /\ table_name_mapping' =
                  [table_name_mapping EXCEPT ![Table(t)] = Len(pairs) + 1]
            /\ Found(t, "SUCCESS")
       ELSE Found(t, "ERR") /\ UNCHANGED table_name_mapping
    /\ Goto(t, "done")
    /\ UNCHANGED <<fault, script, localVars, taken>>

\* at finds the name: the accessor holds off every remove until it is released.
FindTable(t) ==
    /\ At(t, "call") /\ Op(t) # "createTable" /\ Mapped(t) # NoPair
    /\ accessor' = [accessor EXCEPT ![t] = TRUE]
    /\ IF Op(t) = "deleteTable" THEN UNCHANGED found ELSE Found(t, "SUCCESS")
    /\ Goto(t, "release")
    /\ UNCHANGED <<heapVars, script, pair_ptr, pair, built, taken>>

TableNotExist(t) ==
    /\ At(t, "call") /\ Op(t) # "createTable" /\ Mapped(t) = NoPair
    /\ Found(t, "ERR_TABLE_NOT_EXIST")
    /\ Goto(t, "done")
    /\ UNCHANGED <<heapVars, script, localVars, taken>>
-----------------------------------------------------------------------------
(* deleteTable                                                             *)

\* Defect for a mutant run: the accessor lives as long as deleteTable.
ReadPairInScope(t) ==
    /\ At(t, "release") /\ Op(t) = "deleteTable"
    /\ pair_ptr' = [pair_ptr EXCEPT ![t] = Mapped(t)]
    /\ Goto(t, "remove")
    /\ UNCHANGED <<heapVars, script, accessor, pair, built, found, taken>>

\* The pointer is read and the accessor destructed.
ReadPair(t) ==
    /\ At(t, "release") /\ Op(t) = "deleteTable"
    /\ pair_ptr' = [pair_ptr EXCEPT ![t] = Mapped(t)]
    /\ accessor' = [accessor EXCEPT ![t] = FALSE]
    /\ Goto(t, "remove")
    /\ UNCHANGED <<heapVars, script, pair, built, found, taken>>

Removable(t) ==
    /\ Mapped(t) # NoPair
    /\ \A u \in Threads : accessor[u] => Table(u) # Table(t)

\* Defect for a mutant run: the result of remove is not looked at.
RemoveOnce(t) ==
    /\ At(t, "remove")
    /\ IF Removable(t)
       THEN table_name_mapping' = [table_name_mapping EXCEPT ![Table(t)] = NoPair]
       ELSE UNCHANGED table_name_mapping
    /\ Found(t, "SUCCESS")
    /\ Goto(t, "freeSchema")
    /\ UNCHANGED <<pairs, fault, script, localVars, taken>>

\* The thread calls remove until it succeeds, on whatever the name maps to.
RemoveTable(t) ==
    /\ At(t, "remove") /\ Removable(t)
    /\ table_name_mapping' = [table_name_mapping EXCEPT ![Table(t)] = NoPair]
    /\ Found(t, "SUCCESS")
    /\ Goto(t, "freeSchema")
    /\ UNCHANGED <<pairs, fault, script, localVars, taken>>

\* The pair is the one that was read, not the one that was removed.
FreeSchema(t) ==
    /\ At(t, "freeSchema")
    /\ fault' = ~pairs[pair_ptr[t]].schema
    /\ pairs' = [pairs EXCEPT ![pair_ptr[t]].schema = FALSE]
    /\ Goto(t, "freePair")
    /\ UNCHANGED <<table_name_mapping, script, localVars, found, taken>>

\* Defect for a mutant run: the table is deleted with the pair.
NoOwners(owners) == 0

\* Defect for a mutant run: the table is released explicitly as well.
TwoOwnersLess(owners) == owners - 2

OneOwnerLess(owners) == owners - 1

\* The pair's shared_ptr gives up the table.
FreePair(t) ==
    /\ At(t, "freePair")
    /\ pairs' = [pairs EXCEPT ![pair_ptr[t]].pair = FALSE,
                              ![pair_ptr[t]].owners = OneOwnerLess(@)]
    /\ Goto(t, "done")
    /\ UNCHANGED <<table_name_mapping, fault, script, localVars, found, taken>>
-----------------------------------------------------------------------------
(* The lookups                                                             *)

\* getTablePair copies the pair, which makes the thread an owner of the table,
\* and releases the accessor.
CopyPair(t) ==
    /\ At(t, "release") /\ Op(t) # "deleteTable"
    /\ pair' = [pair EXCEPT ![t] = Mapped(t)]
    /\ pairs' = [pairs EXCEPT ![Mapped(t)].owners = @ + 1]
    /\ accessor' = [accessor EXCEPT ![t] = FALSE]
    /\ Goto(t, IF Op(t) \in SchemaReaders THEN "schema" ELSE "table")
    /\ UNCHANGED <<table_name_mapping, fault, script, pair_ptr, built, found, taken>>

\* The schema is read through the pointer; the statement is built from it.
UseSchema(t) ==
    /\ At(t, "schema")
    /\ built' = IF Op(t) \in TableUsers THEN built
                ELSE [built EXCEPT ![t] = pair[t]]
    /\ Goto(t, IF Op(t) \in TableUsers THEN "table" ELSE "done")
    /\ UNCHANGED <<heapVars, script, accessor, pair_ptr, pair, found, taken>>

UseTable(t) ==
    /\ At(t, "table")
    /\ Goto(t, "done")
    /\ UNCHANGED <<heapVars, script, localVars, found, taken>>

\* The call returns, its copy of the pair goes, and the next call is made.
Return(t) ==
    /\ At(t, "done")
    /\ pairs' = IF pair[t] = NoPair THEN pairs
                ELSE [pairs EXCEPT ![pair[t]].owners = @ - 1]
    /\ pair' = [pair EXCEPT ![t] = NoPair]
    /\ pair_ptr' = [pair_ptr EXCEPT ![t] = NoPair]
    /\ script' = [script EXCEPT ![t] = Tail(@)]
    /\ IF Len(script[t]) > 1
       THEN Goto(t, "call") /\ Found(t, "pending") /\ UNCHANGED built
       ELSE /\ Goto(t, "idle") /\ Found(t, "none")
            /\ built' = [built EXCEPT ![t] = NoPair]
    /\ UNCHANGED <<table_name_mapping, fault, accessor, taken>>

Step(t) ==
    \/ RefuseCreate(t) \/ CreateTable(t) \/ FindTable(t) \/ TableNotExist(t)
    \/ ReadPair(t) \/ RemoveTable(t) \/ FreeSchema(t) \/ FreePair(t)
    \/ CopyPair(t) \/ UseSchema(t) \/ UseTable(t)
    \/ Return(t)

Next == \E t \in Threads : Begin(t) \/ Step(t)

Spec == Init /\ [][Next]_vars

\* Each worker is a thread of its own that the system schedules.
Fairness == \A t \in Threads : WF_vars(Step(t))

FairSpec == Spec /\ Fairness
-----------------------------------------------------------------------------
\* Every variable holds a value of its type; a pair's number names a pair.
TypeOK ==
    /\ table_name_mapping \in [Names -> 0 .. Len(pairs)]
    /\ pairs \in Seq(PairType)
    /\ fault \in BOOLEAN
    /\ pc \in [Threads -> Pcs]
    /\ script \in [Threads -> Seq(CallType)]
    /\ accessor \in [Threads -> BOOLEAN]
    /\ pair_ptr \in [Threads -> 0 .. Len(pairs)]
    /\ pair \in [Threads -> 0 .. Len(pairs)]
    /\ built \in [Threads -> 0 .. Len(pairs)]
    /\ found \in [Threads -> {"none", "pending", "SUCCESS", "ERR",
                              "ERR_TABLE_NOT_EXIST", "ERR_TABLE_CMD_INVALID"}]
    /\ taken \in [Threads -> 0 .. MaxStatements]

\* A pair is alive as long as it is mapped or an accessor is on its name, so
\* the copy in getTablePair and the read in deleteTable never touch freed
\* memory (data_store.cc:95 and 621: "Is this safe? I think so, but ...").
MappedPairsAlive ==
    /\ \A t \in Threads : accessor[t] => Mapped(t) # NoPair
    /\ \A n \in Names : table_name_mapping[n] # NoPair =>
          pairs[table_name_mapping[n]].pair /\ pairs[table_name_mapping[n]].schema

\* A table's owners are its pair, until that is deleted, and the calls that
\* have copied the pair: a dropped table is neither deleted under a call that
\* uses it nor kept after the last one (data_store.cc:125-129).
OwnersCounted ==
    \A p \in DOMAIN pairs :
        pairs[p].owners = Cardinality({t \in Threads : pair[t] = p})
                              + (IF pairs[p].pair THEN 1 ELSE 0)

\* A schema is alive while a call reads it through its copy of the pair
\* (data_store.cc:161: "This should be safe, we're only reading from the
\* object").
SchemaOutlivesUse == \A t \in Threads : pc[t] = "schema" => pairs[pair[t]].schema

\* Dropping a table frees its memory once (data_store.cc:79: "clean up the
\* memory appropriately").
FreedOnce == ~fault

\* Only a DROP whose name another DROP has removed may call remove for ever:
\* every other statement ends, whatever the other threads do with the tables
\* it names.  Nothing is known once a schema was deleted twice.
StatementsEnd ==
    \A t \in Threads :
        pc[t] # "idle" ~> \/ pc[t] = "idle"
                          \/ pc[t] = "remove" /\ Mapped(t) = NoPair
                          \/ fault

\* Every CREATE, DROP and lookup takes effect at one moment.
NoCall == [op |-> "none"]

AbstractCall(t) ==
    IF script[t] = <<>> THEN NoCall
    ELSE [op |-> IF Op(t) \in Lookups THEN "lookup"
                 ELSE IF Op(t) = "createTable" /\ script[t][1].empty THEN "refuse"
                 ELSE Op(t),
          table |-> Table(t)]

Atomic == INSTANCE AtomicCatalog WITH
    tables <- {n \in Names : table_name_mapping[n] # NoPair},
    call <- [t \in Threads |-> AbstractCall(t)],
    reply <- found

ImplementsAtomicCatalog == Atomic!Spec
=============================================================================
