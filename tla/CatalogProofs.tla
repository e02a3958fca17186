---------------------------- MODULE CatalogProofs ---------------------------
(***************************************************************************)
(* Proofs about Catalog for any number of threads, any tables and any      *)
(* statements: type correctness, that a mapped pair is alive, that a       *)
(* table's owners are counted, that the catalog implements AtomicCatalog,  *)
(* and that memory is freed once where no table has two droppers.          *)
(***************************************************************************)
EXTENDS Catalog, FiniteSetTheorems, SequenceTheorems, TLAPS

\* What the program counter says of a thread's locals: the accessor is held
\* between the lookup and the use of what it found, a call is answered when it
\* takes effect, and the pair it works on is there.
LocalOK(t) ==
    /\ accessor[t] <=> pc[t] = "release"
    /\ script[t] = <<>> <=> pc[t] = "idle"
    /\ found[t] = "pending" <=> \/ pc[t] \in {"call", "remove"}
                                \/ pc[t] = "release" /\ Op(t) = "deleteTable"
    /\ pc[t] \in {"release", "remove"} => Op(t) # "createTable"
    /\ pc[t] = "remove" => Op(t) = "deleteTable"
    /\ pc[t] \in {"remove", "freeSchema", "freePair"} => pair_ptr[t] # NoPair
    /\ pc[t] \in {"schema", "table"} => pair[t] # NoPair
    /\ pc[t] \notin {"schema", "table", "done"} => pair[t] = NoPair

LocalsOK == \A t \in Threads : LocalOK(t)

\* While an accessor is on a name, the name is mapped.
AccessorsHold == \A t \in Threads : pc[t] = "release" => Mapped(t) # NoPair

TypeInv == TypeOK /\ LocalsOK /\ AccessorsHold

\* No pair is mapped under two names.
MappedOnce ==
    \A m, n \in Names :
        table_name_mapping[m] = table_name_mapping[n] /\ table_name_mapping[m] # NoPair
            => m = n

\* The pair a DROP has read is mapped under its own name or no longer, and it
\* is not mapped once a remove has succeeded: a remove takes away what the name
\* is mapped to, and no pair is ever mapped a second time.
PairRead ==
    \A t \in Threads :
        /\ pc[t] = "remove" =>
               \A n \in Names : table_name_mapping[n] = pair_ptr[t] => n = Table(t)
        /\ pc[t] \in {"freeSchema", "freePair"} =>
               \A n \in Names : table_name_mapping[n] # pair_ptr[t]

\* A schema goes before its pair, and only one thread gets to delete the pair:
\* the second one stops at the schema.
FreeingOK ==
    /\ \A p \in DOMAIN pairs : pairs[p].schema => pairs[p].pair
    /\ ~fault => \A t \in Threads : pc[t] = "freePair" =>
           /\ pairs[pair_ptr[t]].pair
           /\ ~pairs[pair_ptr[t]].schema
           /\ \A u \in Threads : pc[u] = "freePair" /\ pair_ptr[u] = pair_ptr[t] => u = t

MappedAlive ==
    \A n \in Names : table_name_mapping[n] # NoPair => pairs[table_name_mapping[n]].schema

\* The calls that have a copy of pair p are finitely many, and counted.
Users(p) == {t \in Threads : pair[t] = p}

OwnersInv == OwnersCounted /\ \A p \in DOMAIN pairs : IsFiniteSet(Users(p))

IInv ==
    TypeInv /\ MappedOnce /\ PairRead /\ FreeingOK /\ MappedAlive /\ OwnersInv

-----------------------------------------------------------------------------
\* A pair is replaced in place: no pair appears or goes.
LEMMA PairReplaced ==
    ASSUME TypeOK, NEW p \in DOMAIN pairs, NEW v \in PairType
    PROVE  /\ [pairs EXCEPT ![p] = v] \in Seq(PairType)
           /\ Len([pairs EXCEPT ![p] = v]) = Len(pairs)
           /\ DOMAIN [pairs EXCEPT ![p] = v] = DOMAIN pairs
           /\ \A q \in DOMAIN pairs : [pairs EXCEPT ![p] = v][q] = IF q = p THEN v ELSE pairs[q]
<1>1. pairs \in Seq(PairType) /\ p \in 1 .. Len(pairs)
  BY DEF TypeOK
<1> QED
  BY <1>1, ExceptSeq

\* The three ways a step changes a pair.
LEMMA PairChanges ==
    ASSUME TypeOK, NEW p \in DOMAIN pairs, NEW k \in Nat
    PROVE  /\ [pairs[p] EXCEPT !.owners = k] \in PairType
           /\ [pairs[p] EXCEPT !.schema = FALSE] \in PairType
           /\ [pairs[p] EXCEPT !.pair = FALSE, !.owners = k] \in PairType
<1>1. pairs[p] \in PairType
  BY DEF TypeOK
<1> QED
  BY <1>1 DEF PairType

\* At the start nothing is mapped, and no thread has a statement.
LEMMA InitInv == Init => IInv
<1> SUFFICES ASSUME Init PROVE IInv
  OBVIOUS
<1>1. Len(pairs) = 0 /\ pairs \in Seq(PairType) /\ DOMAIN pairs = {}
  BY DEF Init
<1>2. TypeOK
  <2>1. 0 \in 0 .. MaxStatements /\ NoPair \in 0 .. Len(pairs)
    BY <1>1, MaxStatementsAssumption DEF NoPair
  <2>2. /\ table_name_mapping \in [Names -> 0 .. Len(pairs)]
        /\ pair_ptr \in [Threads -> 0 .. Len(pairs)]
        /\ pair \in [Threads -> 0 .. Len(pairs)]
        /\ built \in [Threads -> 0 .. Len(pairs)]
        /\ taken \in [Threads -> 0 .. MaxStatements]
    BY <2>1 DEF Init
  <2>3. script \in [Threads -> Seq(CallType)]
    BY DEF Init
  <2> QED
    BY <1>1, <2>2, <2>3 DEF Init, TypeOK, Pcs
<1>3. LocalsOK /\ AccessorsHold
  BY DEF Init, LocalsOK, LocalOK, AccessorsHold, NoPair
<1>4. MappedOnce /\ PairRead /\ FreeingOK /\ MappedAlive /\ OwnersInv
  BY <1>1 DEF Init, MappedOnce, PairRead, FreeingOK, MappedAlive, OwnersInv,
              OwnersCounted, NoPair
<1> QED
  BY <1>2, <1>3, <1>4 DEF IInv, TypeInv
-----------------------------------------------------------------------------
\* A step of thread t changes the locals of no other thread.
OthersKept(t) ==
    \A u \in Threads \ {t} :
        /\ pc'[u] = pc[u] /\ script'[u] = script[u] /\ found'[u] = found[u]
        /\ accessor'[u] = accessor[u] /\ pair_ptr'[u] = pair_ptr[u]
        /\ pair'[u] = pair[u]

LEMMA OthersFrame ==
    ASSUME LocalsOK, NEW t \in Threads, OthersKept(t), LocalOK(t)'
    PROVE  LocalsOK'
<1> SUFFICES ASSUME NEW u \in Threads PROVE LocalOK(u)'
  BY DEF LocalsOK
<1>1. CASE u = t
  BY <1>1
<1>2. CASE u # t
  BY <1>2 DEF LocalsOK, LocalOK, OthersKept, Op
<1> QED
  BY <1>1, <1>2

\* Begin, and what every step does with the locals, thread by thread.
LEMMA BeginType ==
    ASSUME TypeInv, NEW t \in Threads, Begin(t)
    PROVE  TypeInv' /\ OthersKept(t)
<1> USE DEF TypeInv
<1>1. PICK s \in Scripts[t] : script' = [script EXCEPT ![t] = s]
  BY DEF Begin
<1>2. s \in Seq(CallType) /\ s # <<>>
  BY ScriptsAssumption
<1>3. /\ pc[t] = "idle" /\ pc' = [pc EXCEPT ![t] = "call"]
      /\ found' = [found EXCEPT ![t] = "pending"]
      /\ taken' = [taken EXCEPT ![t] = @ + 1] /\ taken[t] < MaxStatements
      /\ UNCHANGED <<table_name_mapping, pairs, fault, accessor, pair_ptr, pair, built>>
  BY DEF Begin, At, Found, Goto, heapVars, localVars
<1>4. taken' \in [Threads -> 0 .. MaxStatements]
  BY <1>3, MaxStatementsAssumption DEF TypeOK
<1>5. TypeOK'
  BY <1>1, <1>2, <1>3, <1>4 DEF TypeOK, Pcs
<1>6. OthersKept(t)
  BY <1>1, <1>3 DEF OthersKept, TypeOK
<1>7. LocalOK(t)'
  BY <1>1, <1>2, <1>3 DEF LocalOK, LocalsOK, TypeOK
<1>8. AccessorsHold'
  BY <1>1, <1>3 DEF AccessorsHold, TypeOK, Mapped, Table
<1> QED
  BY <1>5, <1>6, <1>7, <1>8, OthersFrame

\* The first call of a statement.
LEMMA CallOfScript ==
    ASSUME TypeOK, NEW t \in Threads, script[t] # <<>>
    PROVE  /\ script[t][1] \in CallType
           /\ Op(t) \in Ops /\ Table(t) \in Names
           /\ Len(script[t]) >= 1 /\ Tail(script[t]) \in Seq(CallType)
           /\ Tail(script[t]) = <<>> <=> ~(Len(script[t]) > 1)
<1>1. script[t] \in Seq(CallType) /\ script[t] # <<>>
  BY DEF TypeOK
<1>2. 1 \in 1 .. Len(script[t]) /\ script[t][1] \in CallType
  BY <1>1
<1>3. Len(Tail(script[t])) = Len(script[t]) - 1 /\ Tail(script[t]) \in Seq(CallType)
  BY <1>1, HeadTailProperties
<1>4. Tail(script[t]) # <<>> => Len(Tail(script[t])) \in Nat \ {0}
  BY <1>3, EmptySeq
<1>5. Tail(script[t]) = <<>> => Len(script[t]) - 1 = 0
  BY <1>3, EmptySeq
<1>6. Len(script[t]) \in Nat \ {0}
  BY <1>1, EmptySeq
<1>7. Op(t) \in Ops /\ Table(t) \in Names
  BY <1>2 DEF CallType, Op, Table
<1>8. Len(script[t]) >= 1
  BY <1>6
<1>9. Tail(script[t]) = <<>> <=> ~(Len(script[t]) > 1)
  <2> DEFINE n == Len(script[t])  rest == Tail(script[t])  m == Len(rest)
  <2>1. n \in Nat \ {0} /\ m = n - 1
    BY <1>3, <1>6
  <2>2. (rest # <<>> => m # 0) /\ (rest = <<>> => n = 1)
    BY <1>4, <1>5, <1>6
  <2> HIDE DEF n, m, rest
  <2>3. ASSUME rest = <<>> PROVE ~(n > 1)
    BY <2>2, <2>3
  <2>4. ASSUME rest # <<>> PROVE n > 1
    BY <2>1, <2>2, <2>4
  <2> QED
    BY <2>3, <2>4 DEF n, rest
<1> QED
  BY <1>2, <1>3, <1>7, <1>8, <1>9

LEMMA RefuseCreateType ==
    ASSUME TypeInv, NEW t \in Threads, RefuseCreate(t)
    PROVE  TypeInv' /\ OthersKept(t)
<1> USE DEF TypeInv
<1>1. /\ pc[t] = "call" /\ pc' = [pc EXCEPT ![t] = "done"]
      /\ found' = [found EXCEPT ![t] = "ERR_TABLE_CMD_INVALID"]
      /\ UNCHANGED <<table_name_mapping, pairs, fault, script, accessor, pair_ptr,
                     pair, built, taken>>
  BY DEF RefuseCreate, At, Found, Goto, heapVars, localVars
<1>2. TypeOK'
  BY <1>1 DEF TypeOK, Pcs
<1>3. OthersKept(t)
  BY <1>1 DEF OthersKept, TypeOK
<1>4. LocalOK(t)'
  BY <1>1 DEF LocalOK, LocalsOK, TypeOK, Op
<1>5. AccessorsHold'
  BY <1>1 DEF AccessorsHold, TypeOK, Mapped, Table
<1> QED
  BY <1>2, <1>3, <1>4, <1>5, OthersFrame

LEMMA TableNotExistType ==
    ASSUME TypeInv, NEW t \in Threads, TableNotExist(t)
    PROVE  TypeInv' /\ OthersKept(t)
<1> USE DEF TypeInv
<1>1. /\ pc[t] = "call" /\ pc' = [pc EXCEPT ![t] = "done"]
      /\ found' = [found EXCEPT ![t] = "ERR_TABLE_NOT_EXIST"]
      /\ UNCHANGED <<table_name_mapping, pairs, fault, script, accessor, pair_ptr,
                     pair, built, taken>>
  BY DEF TableNotExist, At, Found, Goto, heapVars, localVars
<1>2. TypeOK'
  BY <1>1 DEF TypeOK, Pcs
<1>3. OthersKept(t)
  BY <1>1 DEF OthersKept, TypeOK
<1>4. LocalOK(t)'
  BY <1>1 DEF LocalOK, LocalsOK, TypeOK, Op
<1>5. AccessorsHold'
  BY <1>1 DEF AccessorsHold, TypeOK, Mapped, Table
<1> QED
  BY <1>2, <1>3, <1>4, <1>5, OthersFrame

LEMMA FindTableType ==
    ASSUME TypeInv, NEW t \in Threads, FindTable(t)
    PROVE  TypeInv' /\ OthersKept(t)
<1> USE DEF TypeInv
<1>1. /\ pc[t] = "call" /\ pc' = [pc EXCEPT ![t] = "release"]
      /\ Op(t) # "createTable" /\ Mapped(t) # NoPair
      /\ accessor' = [accessor EXCEPT ![t] = TRUE]
      /\ found' = IF Op(t) = "deleteTable" THEN found
                  ELSE [found EXCEPT ![t] = "SUCCESS"]
      /\ UNCHANGED <<table_name_mapping, pairs, fault, script, pair_ptr, pair,
                     built, taken>>
  BY DEF FindTable, At, Found, Goto, heapVars, localVars
<1>2. TypeOK'
  BY <1>1 DEF TypeOK, Pcs
<1>3. OthersKept(t)
  BY <1>1 DEF OthersKept, TypeOK
<1>4. LocalOK(t)'
  BY <1>1 DEF LocalOK, LocalsOK, TypeOK, Op
<1>5. AccessorsHold'
  BY <1>1 DEF AccessorsHold, TypeOK, Mapped, Table
<1> QED
  BY <1>2, <1>3, <1>4, <1>5, OthersFrame

LEMMA ReadPairType ==
    ASSUME TypeInv, NEW t \in Threads, ReadPair(t)
    PROVE  TypeInv' /\ OthersKept(t)
<1> USE DEF TypeInv
<1>1. /\ pc[t] = "release" /\ pc' = [pc EXCEPT ![t] = "remove"]
      /\ Op(t) = "deleteTable"
      /\ pair_ptr' = [pair_ptr EXCEPT ![t] = Mapped(t)]
      /\ accessor' = [accessor EXCEPT ![t] = FALSE]
      /\ UNCHANGED <<table_name_mapping, pairs, fault, script, pair, built, found,
                     taken>>
  BY DEF ReadPair, At, Found, Goto, heapVars, localVars
<1>6. Table(t) \in Names /\ Mapped(t) \in 0 .. Len(pairs) /\ Mapped(t) # NoPair
  BY <1>1, CallOfScript DEF LocalsOK, LocalOK, AccessorsHold, TypeOK, Mapped
<1>2. TypeOK'
  BY <1>1, <1>6 DEF TypeOK, Pcs
<1>3. OthersKept(t)
  BY <1>1 DEF OthersKept, TypeOK
<1>4. LocalOK(t)'
  BY <1>1, <1>6 DEF LocalOK, LocalsOK, TypeOK, Op
<1>5. AccessorsHold'
  BY <1>1 DEF AccessorsHold, TypeOK, Mapped, Table
<1> QED
  BY <1>2, <1>3, <1>4, <1>5, OthersFrame

LEMMA RemoveTableType ==
    ASSUME TypeInv, NEW t \in Threads, RemoveTable(t)
    PROVE  TypeInv' /\ OthersKept(t)
<1> USE DEF TypeInv
<1>1. /\ pc[t] = "remove" /\ pc' = [pc EXCEPT ![t] = "freeSchema"]
      /\ \A u \in Threads : accessor[u] => Table(u) # Table(t)
      /\ table_name_mapping' = [table_name_mapping EXCEPT ![Table(t)] = NoPair]
      /\ found' = [found EXCEPT ![t] = "SUCCESS"]
      /\ UNCHANGED <<pairs, fault, script, accessor, pair_ptr, pair, built, taken>>
  BY DEF RemoveTable, Removable, At, Found, Goto, heapVars, localVars
<1>2. TypeOK'
  <2>1. NoPair \in 0 .. Len(pairs)
    BY DEF TypeOK, NoPair
  <2> QED
    BY <1>1, <2>1 DEF TypeOK, Pcs
<1>3. OthersKept(t)
  BY <1>1 DEF OthersKept, TypeOK
<1>4. LocalOK(t)'
  BY <1>1 DEF LocalOK, LocalsOK, TypeOK, Op
<1>5. AccessorsHold'
  BY <1>1 DEF AccessorsHold, TypeOK, Mapped, Table, LocalsOK, LocalOK
<1> QED
  BY <1>2, <1>3, <1>4, <1>5, OthersFrame

LEMMA UseSchemaType ==
    ASSUME TypeInv, NEW t \in Threads, UseSchema(t)
    PROVE  TypeInv' /\ OthersKept(t)
<1> USE DEF TypeInv
<1>1. /\ pc[t] = "schema"
      /\ pc' = [pc EXCEPT ![t] = IF Op(t) \in TableUsers THEN "table" ELSE "done"]
      /\ built' = IF Op(t) \in TableUsers THEN built
                  ELSE [built EXCEPT ![t] = pair[t]]
      /\ UNCHANGED <<table_name_mapping, pairs, fault, script, accessor, pair_ptr,
                     pair, found, taken>>
  BY DEF UseSchema, At, Found, Goto, heapVars, localVars
<1>2. TypeOK'
  BY <1>1 DEF TypeOK, Pcs
<1>3. OthersKept(t)
  BY <1>1 DEF OthersKept, TypeOK
<1>4. LocalOK(t)'
  BY <1>1 DEF LocalOK, LocalsOK, TypeOK, Op
<1>5. AccessorsHold'
  BY <1>1 DEF AccessorsHold, TypeOK, Mapped, Table
<1> QED
  BY <1>2, <1>3, <1>4, <1>5, OthersFrame

LEMMA UseTableType ==
    ASSUME TypeInv, NEW t \in Threads, UseTable(t)
    PROVE  TypeInv' /\ OthersKept(t)
<1> USE DEF TypeInv
<1>1. /\ pc[t] = "table" /\ pc' = [pc EXCEPT ![t] = "done"]
      /\ UNCHANGED <<table_name_mapping, pairs, fault, script, accessor, pair_ptr,
                     pair, built, found, taken>>
  BY DEF UseTable, At, Found, Goto, heapVars, localVars
<1>2. TypeOK'
  BY <1>1 DEF TypeOK, Pcs
<1>3. OthersKept(t)
  BY <1>1 DEF OthersKept, TypeOK
<1>4. LocalOK(t)'
  BY <1>1 DEF LocalOK, LocalsOK, TypeOK, Op
<1>5. AccessorsHold'
  BY <1>1 DEF AccessorsHold, TypeOK, Mapped, Table
<1> QED
  BY <1>2, <1>3, <1>4, <1>5, OthersFrame

\* An owner that gives up a table was counted.
LEMMA OwnerCounted ==
    ASSUME IInv, NEW t \in Threads, pair[t] # NoPair
    PROVE  pair[t] \in DOMAIN pairs /\ pairs[pair[t]].owners \in Nat \ {0}
<1> DEFINE p == pair[t]
<1>1. p \in DOMAIN pairs /\ pairs[p] \in PairType
  BY DEF IInv, TypeInv, TypeOK, NoPair
<1>2. IsFiniteSet(Users(p)) /\ t \in Users(p)
  BY <1>1 DEF IInv, OwnersInv, Users
<1>3. Cardinality(Users(p)) \in Nat /\ Cardinality(Users(p)) # 0
  BY <1>2, FS_CardinalityType, FS_EmptySet
<1>4. pairs[p].owners = Cardinality(Users(p)) + (IF pairs[p].pair THEN 1 ELSE 0)
  BY <1>1 DEF IInv, OwnersInv, OwnersCounted, Users
<1> QED
  BY <1>1, <1>3, <1>4 DEF PairType

LEMMA PairCounted ==
    ASSUME IInv, NEW p \in DOMAIN pairs, pairs[p].pair
    PROVE  pairs[p].owners \in Nat \ {0}
<1>1. pairs[p] \in PairType
  BY DEF IInv, TypeInv, TypeOK
<1>2. Cardinality(Users(p)) \in Nat
  BY FS_CardinalityType DEF IInv, OwnersInv
<1>3. pairs[p].owners = Cardinality(Users(p)) + 1
  BY DEF IInv, OwnersInv, OwnersCounted, Users
<1> QED
  BY <1>1, <1>2, <1>3 DEF PairType

\* What a step may do to the pairs: nothing, a new one, or a change of one.
LEMMA PairSet ==
    ASSUME TypeInv, NEW p \in DOMAIN pairs, NEW v \in PairType,
           pairs' = [pairs EXCEPT ![p] = v]
    PROVE  /\ pairs' \in Seq(PairType) /\ Len(pairs') = Len(pairs)
           /\ DOMAIN pairs' = DOMAIN pairs
           /\ \A q \in DOMAIN pairs : pairs'[q] = IF q = p THEN v ELSE pairs[q]
BY PairReplaced DEF TypeInv

LEMMA FreeSchemaType ==
    ASSUME TypeInv, NEW t \in Threads, FreeSchema(t)
    PROVE  /\ TypeInv' /\ OthersKept(t) /\ pair_ptr[t] \in DOMAIN pairs
           /\ DOMAIN pairs' = DOMAIN pairs
           /\ \A q \in DOMAIN pairs :
                 pairs'[q] = IF q = pair_ptr[t] THEN [pairs[q] EXCEPT !.schema = FALSE]
                             ELSE pairs[q]
<1> USE DEF TypeInv
<1> DEFINE p == pair_ptr[t]
           v == [pairs[p] EXCEPT !.schema = FALSE]
<1>1. /\ pc[t] = "freeSchema" /\ pc' = [pc EXCEPT ![t] = "freePair"]
      /\ fault' = ~pairs[p].schema
      /\ pairs' = [pairs EXCEPT ![p] = v]
      /\ UNCHANGED <<table_name_mapping, script, accessor, pair_ptr, pair, built,
                     found, taken>>
  BY DEF FreeSchema, At, Goto, localVars
<1>2. p \in DOMAIN pairs
  BY <1>1 DEF LocalsOK, LocalOK, TypeOK, NoPair
<1>3. v \in PairType
  BY <1>2, PairChanges
<1> HIDE DEF v
<1>4. /\ pairs' \in Seq(PairType) /\ Len(pairs') = Len(pairs)
      /\ DOMAIN pairs' = DOMAIN pairs
      /\ \A q \in DOMAIN pairs : pairs'[q] = IF q = p THEN v ELSE pairs[q]
  BY <1>1, <1>2, <1>3, PairSet
<1>5. TypeOK'
  BY <1>1, <1>4 DEF TypeOK, Pcs
<1>6. OthersKept(t)
  BY <1>1 DEF OthersKept, TypeOK
<1>7. LocalOK(t)'
  BY <1>1 DEF LocalOK, LocalsOK, TypeOK, Op
<1>8. AccessorsHold'
  BY <1>1 DEF AccessorsHold, TypeOK, Mapped, Table
<1> QED
  BY <1>2, <1>4, <1>5, <1>6, <1>7, <1>8, OthersFrame DEF v

LEMMA FreePairType ==
    ASSUME IInv, NEW t \in Threads, FreePair(t)
    PROVE  /\ TypeInv' /\ OthersKept(t) /\ pair_ptr[t] \in DOMAIN pairs
           /\ DOMAIN pairs' = DOMAIN pairs
           /\ pairs[pair_ptr[t]].pair /\ ~pairs[pair_ptr[t]].schema
           /\ \A q \in DOMAIN pairs :
                 pairs'[q] = IF q = pair_ptr[t]
                             THEN [pairs[q] EXCEPT !.pair = FALSE,
                                                   !.owners = pairs[q].owners - 1]
                             ELSE pairs[q]
<1> USE DEF IInv, TypeInv
<1> DEFINE p == pair_ptr[t]
           v == [pairs[p] EXCEPT !.pair = FALSE, !.owners = pairs[p].owners - 1]
<1>1. /\ ~fault /\ pc[t] = "freePair" /\ pc' = [pc EXCEPT ![t] = "done"]
      /\ pairs' = [pairs EXCEPT ![p].pair = FALSE, ![p].owners = @ - 1]
      /\ UNCHANGED <<table_name_mapping, fault, script, accessor, pair_ptr, pair,
                     built, found, taken>>
  BY DEF FreePair, OneOwnerLess, At, Goto, localVars
<1>2. p \in DOMAIN pairs /\ pairs[p].pair /\ ~pairs[p].schema
  BY <1>1 DEF LocalsOK, LocalOK, TypeOK, NoPair, FreeingOK
<1>3. pairs[p].owners \in Nat \ {0}
  BY <1>2, PairCounted
<1>4. v \in PairType
  <2>1. pairs[p].owners - 1 \in Nat
    BY <1>3
  <2> QED
    BY <1>2, <2>1, PairChanges
<1>5. pairs' = [pairs EXCEPT ![p] = v]
  BY <1>1, <1>2
<1> HIDE DEF v
<1>6. /\ pairs' \in Seq(PairType) /\ Len(pairs') = Len(pairs)
      /\ DOMAIN pairs' = DOMAIN pairs
      /\ \A q \in DOMAIN pairs : pairs'[q] = IF q = p THEN v ELSE pairs[q]
  BY <1>2, <1>4, <1>5, PairSet
<1>7. TypeOK'
  BY <1>1, <1>6 DEF TypeOK, Pcs
<1>8. OthersKept(t)
  BY <1>1 DEF OthersKept, TypeOK
<1>9. LocalOK(t)'
  BY <1>1 DEF LocalOK, LocalsOK, TypeOK, Op
<1>10. AccessorsHold'
  BY <1>1 DEF AccessorsHold, TypeOK, Mapped, Table
<1> QED
  BY <1>2, <1>6, <1>7, <1>8, <1>9, <1>10, OthersFrame DEF v

LEMMA CopyPairType ==
    ASSUME TypeInv, NEW t \in Threads, CopyPair(t)
    PROVE  /\ TypeInv' /\ OthersKept(t)
           /\ pair[t] = NoPair /\ Mapped(t) \in DOMAIN pairs
           /\ pair' = [pair EXCEPT ![t] = Mapped(t)]
           /\ DOMAIN pairs' = DOMAIN pairs
           /\ \A q \in DOMAIN pairs :
                 pairs'[q] = IF q = Mapped(t)
                             THEN [pairs[q] EXCEPT !.owners = pairs[q].owners + 1]
                             ELSE pairs[q]
<1> USE DEF TypeInv
<1> DEFINE p == Mapped(t)
           v == [pairs[p] EXCEPT !.owners = pairs[p].owners + 1]
           label == IF Op(t) \in SchemaReaders THEN "schema" ELSE "table"
<1>1. /\ pc[t] = "release" /\ pc' = [pc EXCEPT ![t] = label]
      /\ Op(t) # "deleteTable"
      /\ pair' = [pair EXCEPT ![t] = p]
      /\ pairs' = [pairs EXCEPT ![p].owners = @ + 1]
      /\ accessor' = [accessor EXCEPT ![t] = FALSE]
      /\ UNCHANGED <<table_name_mapping, fault, script, pair_ptr, built, found, taken>>
  BY DEF CopyPair, At, Goto
<1>2. Table(t) \in Names
  BY <1>1, CallOfScript DEF LocalsOK, LocalOK
<1>3. p \in DOMAIN pairs /\ p \in 0 .. Len(pairs) /\ p # NoPair
  BY <1>1, <1>2 DEF AccessorsHold, TypeOK, Mapped, NoPair
<1>4. pairs[p].owners + 1 \in Nat
  <2>1. pairs[p] \in PairType
    BY <1>3 DEF TypeOK
  <2> QED
    BY <2>1 DEF PairType
<1>5. v \in PairType
  BY <1>3, <1>4, PairChanges
<1>6. pairs' = [pairs EXCEPT ![p] = v]
  BY <1>1, <1>3
<1> HIDE DEF v, p
<1>7. /\ pairs' \in Seq(PairType) /\ Len(pairs') = Len(pairs)
      /\ DOMAIN pairs' = DOMAIN pairs
      /\ \A q \in DOMAIN pairs : pairs'[q] = IF q = p THEN v ELSE pairs[q]
  BY <1>3, <1>5, <1>6, PairSet
<1>8. label \in {"schema", "table"}
  OBVIOUS
<1> HIDE DEF label
<1>9. TypeOK'
  BY <1>1, <1>3, <1>7, <1>8 DEF TypeOK, Pcs
<1>10. OthersKept(t)
  BY <1>1 DEF OthersKept, TypeOK
<1>11. LocalOK(t)'
  BY <1>1, <1>3, <1>8 DEF LocalOK, LocalsOK, TypeOK, Op
<1>12. AccessorsHold'
  BY <1>1, <1>8 DEF AccessorsHold, TypeOK, Mapped, Table
<1>13. pair[t] = NoPair
  BY <1>1 DEF LocalsOK, LocalOK
<1> QED
  BY <1>1, <1>3, <1>7, <1>9, <1>10, <1>11, <1>12, <1>13, OthersFrame DEF v, p

\* A new pair makes room for one more number.
LEMMA PairAppended ==
    ASSUME TypeInv, pairs' = Append(pairs, NewPair)
    PROVE  /\ pairs' \in Seq(PairType) /\ Len(pairs') = Len(pairs) + 1
           /\ Len(pairs) \in Nat
           /\ DOMAIN pairs' = DOMAIN pairs \cup {Len(pairs) + 1}
           /\ Len(pairs) + 1 \notin DOMAIN pairs
           /\ pairs'[Len(pairs) + 1] = NewPair
           /\ \A q \in DOMAIN pairs : pairs'[q] = pairs[q]
<1>1. pairs \in Seq(PairType) /\ NewPair \in PairType
  BY DEF TypeInv, TypeOK, NewPair, PairType
<1> QED
  BY <1>1

LEMMA CreateTableType ==
    ASSUME TypeInv, NEW t \in Threads, CreateTable(t)
    PROVE  /\ TypeInv' /\ OthersKept(t) /\ Table(t) \in Names
           /\ pair' = pair /\ pairs' = Append(pairs, NewPair)
           /\ table_name_mapping' =
                 IF Mapped(t) = NoPair
                 THEN [table_name_mapping EXCEPT ![Table(t)] = Len(pairs) + 1]
                 ELSE table_name_mapping
<1> USE DEF TypeInv
<1> DEFINE answer == IF Mapped(t) = NoPair THEN "SUCCESS" ELSE "ERR"
<1>1. /\ pc[t] = "call" /\ pc' = [pc EXCEPT ![t] = "done"]
      /\ pairs' = Append(pairs, NewPair)
      /\ table_name_mapping' =
             IF Mapped(t) = NoPair
             THEN [table_name_mapping EXCEPT ![Table(t)] = Len(pairs) + 1]
             ELSE table_name_mapping
      /\ found' = [found EXCEPT ![t] = answer]
      /\ UNCHANGED <<fault, script, accessor, pair_ptr, pair, built, taken>>
  BY DEF CreateTable, At, Goto, Found, localVars
<1>2. Table(t) \in Names
  BY <1>1, CallOfScript DEF LocalsOK, LocalOK
<1>3. pairs' \in Seq(PairType) /\ Len(pairs') = Len(pairs) + 1 /\ Len(pairs) \in Nat
  BY <1>1, PairAppended
<1>4. answer \in {"SUCCESS", "ERR"}
  OBVIOUS
<1> HIDE DEF answer
<1>5. TypeOK'
  <2>1. 0 .. Len(pairs) \subseteq 0 .. Len(pairs')
    BY <1>3
  <2>2. /\ pair_ptr' \in [Threads -> 0 .. Len(pairs')]
        /\ pair' \in [Threads -> 0 .. Len(pairs')]
        /\ built' \in [Threads -> 0 .. Len(pairs')]
    BY <1>1, <2>1 DEF TypeOK
  <2>3. Len(pairs) + 1 \in 0 .. Len(pairs')
    BY <1>3
  <2>4. table_name_mapping' \in [Names -> 0 .. Len(pairs')]
    BY <1>1, <2>1, <2>3 DEF TypeOK
  <2> QED
    BY <1>1, <1>3, <1>4, <2>2, <2>4 DEF TypeOK, Pcs
<1>6. OthersKept(t)
  BY <1>1 DEF OthersKept, TypeOK
<1>7. LocalOK(t)'
  BY <1>1, <1>4 DEF LocalOK, LocalsOK, TypeOK, Op
<1>8. AccessorsHold'
  <2> SUFFICES ASSUME NEW u \in Threads, pc'[u] = "release" PROVE Mapped(u)' # NoPair
    BY DEF AccessorsHold
  <2>1. pc[u] = "release" /\ Mapped(u) # NoPair
    BY <1>1 DEF TypeOK, AccessorsHold
  <2>2. Mapped(u)' \in {Mapped(u), Len(pairs) + 1}
    BY <1>1, <1>2 DEF Mapped, Table, TypeOK
  <2> QED
    BY <1>3, <2>1, <2>2 DEF NoPair
<1> QED
  BY <1>1, <1>2, <1>5, <1>6, <1>7, <1>8, OthersFrame

LEMMA ReturnType ==
    ASSUME IInv, NEW t \in Threads, Return(t)
    PROVE  /\ TypeInv' /\ OthersKept(t) /\ pair' = [pair EXCEPT ![t] = NoPair]
           /\ DOMAIN pairs' = DOMAIN pairs
           /\ \A q \in DOMAIN pairs :
                 pairs'[q] = IF q = pair[t]
                             THEN [pairs[q] EXCEPT !.owners = pairs[q].owners - 1]
                             ELSE pairs[q]
<1> USE DEF IInv, TypeInv
<1> DEFINE p == pair[t]
           v == [pairs[p] EXCEPT !.owners = pairs[p].owners - 1]
           label == IF Len(script[t]) > 1 THEN "call" ELSE "idle"
           answer == IF Len(script[t]) > 1 THEN "pending" ELSE "none"
<1>1. /\ pc[t] = "done" /\ pc' = [pc EXCEPT ![t] = label]
      /\ found' = [found EXCEPT ![t] = answer]
      /\ script' = [script EXCEPT ![t] = Tail(@)]
      /\ pair' = [pair EXCEPT ![t] = NoPair]
      /\ pair_ptr' = [pair_ptr EXCEPT ![t] = NoPair]
      /\ built' = built \/ built' = [built EXCEPT ![t] = NoPair]
      /\ pairs' = IF p = NoPair THEN pairs ELSE [pairs EXCEPT ![p].owners = @ - 1]
      /\ UNCHANGED <<table_name_mapping, fault, accessor, taken>>
  BY DEF Return, At, Goto, Found
<1>2. /\ pairs' \in Seq(PairType) /\ Len(pairs') = Len(pairs)
      /\ DOMAIN pairs' = DOMAIN pairs
      /\ \A q \in DOMAIN pairs : pairs'[q] = IF q = p THEN v ELSE pairs[q]
  <2>1. CASE p = NoPair
    BY <1>1, <2>1 DEF TypeOK, NoPair
  <2>2. CASE p # NoPair
    <3>1. p \in DOMAIN pairs /\ pairs[p].owners - 1 \in Nat
      BY <2>2, OwnerCounted
    <3>2. v \in PairType
      BY <3>1, PairChanges
    <3>3. pairs' = [pairs EXCEPT ![p] = v]
      BY <1>1, <2>2, <3>1
    <3> HIDE DEF v
    <3> QED
      BY <3>1, <3>2, <3>3, PairSet
  <2> QED
    BY <2>1, <2>2
<1> HIDE DEF v
<1>3. script[t] # <<>>
  BY <1>1 DEF LocalsOK, LocalOK
<1>4. /\ Tail(script[t]) \in Seq(CallType)
      /\ Tail(script[t]) = <<>> <=> label = "idle"
      /\ label = "idle" => answer = "none"
      /\ label = "call" => answer = "pending"
      /\ label \in {"call", "idle"} /\ answer \in {"none", "pending"}
  BY <1>3, CallOfScript
<1> HIDE DEF label, answer
<1>5. TypeOK'
  <2>1. NoPair \in 0 .. Len(pairs')
    BY <1>2 DEF NoPair
  <2>2. /\ pair_ptr' \in [Threads -> 0 .. Len(pairs')]
        /\ pair' \in [Threads -> 0 .. Len(pairs')]
    BY <1>1, <1>2, <2>1 DEF TypeOK
  <2>4. built' \in [Threads -> 0 .. Len(pairs')]
    <3>1. built \in [Threads -> 0 .. Len(pairs')]
      BY <1>2 DEF TypeOK
    <3>2. [built EXCEPT ![t] = NoPair] \in [Threads -> 0 .. Len(pairs')]
      BY <2>1, <3>1
    <3> QED
      BY <1>1, <3>1, <3>2
  <2>3. script' \in [Threads -> Seq(CallType)]
    BY <1>1, <1>4 DEF TypeOK
  <2> QED
    BY <1>1, <1>2, <1>4, <2>2, <2>3, <2>4 DEF TypeOK, Pcs
<1>6. OthersKept(t)
  BY <1>1 DEF OthersKept, TypeOK
<1>7. LocalOK(t)'
  BY <1>1, <1>4 DEF LocalOK, LocalsOK, TypeOK, Op
<1>8. AccessorsHold'
  BY <1>1, <1>4 DEF AccessorsHold, TypeOK, Mapped, Table
<1> QED
  BY <1>1, <1>2, <1>5, <1>6, <1>7, <1>8, OthersFrame DEF v
-----------------------------------------------------------------------------
\* A step that changes no owner and copies no pair keeps the counts.
LEMMA OwnersKept ==
    ASSUME OwnersInv, pair' = pair, DOMAIN pairs' = DOMAIN pairs,
           \A q \in DOMAIN pairs :
               pairs'[q].owners = pairs[q].owners /\ pairs'[q].pair = pairs[q].pair
    PROVE  OwnersInv'
<1>1. \A q : Users(q)' = Users(q)
  BY DEF Users
<1> QED
  BY <1>1 DEF OwnersInv, OwnersCounted, Users

\* A step that leaves the map and the schemas alone, and takes its thread to none
\* of the steps of a DROP.
LEMMA SchemasKeep ==
    ASSUME IInv, NEW t \in Threads, TypeInv', OthersKept(t),
           UNCHANGED <<table_name_mapping, fault>>, DOMAIN pairs' = DOMAIN pairs,
           \A q \in DOMAIN pairs :
               pairs'[q].schema = pairs[q].schema /\ pairs'[q].pair = pairs[q].pair,
           pc'[t] \notin {"remove", "freeSchema", "freePair"}
    PROVE  MappedOnce' /\ PairRead' /\ FreeingOK' /\ MappedAlive'
<1> USE DEF IInv
<1>1. \A n \in Names : table_name_mapping[n] # NoPair =>
         table_name_mapping[n] \in DOMAIN pairs
  BY DEF TypeInv, TypeOK, NoPair
<1>2. MappedOnce' /\ MappedAlive'
  BY <1>1 DEF MappedOnce, MappedAlive
<1>3. PairRead'
  <2> SUFFICES ASSUME NEW u \in Threads, pc'[u] \in {"remove", "freeSchema", "freePair"}
               PROVE  /\ pc'[u] = "remove" =>
                            \A n \in Names : table_name_mapping'[n] = pair_ptr'[u]
                                => n = Table(u)'
                      /\ pc'[u] \in {"freeSchema", "freePair"} =>
                            \A n \in Names : table_name_mapping'[n] # pair_ptr'[u]
    BY DEF PairRead
  <2>1. u # t
    OBVIOUS
  <2> QED
    BY <2>1 DEF PairRead, OthersKept, Table
<1>4. FreeingOK'
  <2>1. \A u \in Threads : pc'[u] = "freePair" =>
           /\ pc[u] = "freePair" /\ pair_ptr'[u] = pair_ptr[u]
           /\ pair_ptr[u] \in DOMAIN pairs
    <3> SUFFICES ASSUME NEW u \in Threads, pc'[u] = "freePair"
                 PROVE  /\ pc[u] = "freePair" /\ pair_ptr'[u] = pair_ptr[u]
                        /\ pair_ptr[u] \in DOMAIN pairs
      OBVIOUS
    <3>1. pc[u] = "freePair" /\ pair_ptr'[u] = pair_ptr[u]
      BY DEF OthersKept
    <3>2. pair_ptr[u] \in 0 .. Len(pairs) /\ pair_ptr[u] # 0 /\ DOMAIN pairs = 1 .. Len(pairs)
      BY <3>1 DEF TypeInv, TypeOK, LocalsOK, LocalOK, NoPair
    <3> QED
      BY <3>1, <3>2
  <2> QED
    BY <2>1 DEF FreeingOK
<1> QED
  BY <1>2, <1>3, <1>4

\* A step that only moves a thread.
LEMMA QuietStep ==
    ASSUME IInv, NEW t \in Threads, TypeInv', OthersKept(t),
           UNCHANGED <<table_name_mapping, pairs, fault, pair>>,
           pc'[t] \notin {"remove", "freeSchema", "freePair"}
    PROVE  IInv'
BY SchemasKeep, OwnersKept DEF IInv

LEMMA ReadPairKeeps ==
    ASSUME IInv, NEW t \in Threads, ReadPair(t)
    PROVE  IInv'
<1> USE DEF IInv
<1>1. /\ pc[t] = "release" /\ pc' = [pc EXCEPT ![t] = "remove"]
      /\ pair_ptr' = [pair_ptr EXCEPT ![t] = Mapped(t)]
      /\ UNCHANGED <<table_name_mapping, pairs, fault, script, pair>>
  BY DEF ReadPair, At, Goto, heapVars
<1>2. TypeInv' /\ OthersKept(t)
  BY ReadPairType
<1>3. Mapped(t) # NoPair /\ Table(t) \in Names
  BY <1>1, CallOfScript DEF TypeInv, AccessorsHold, LocalsOK, LocalOK
<1>4. MappedOnce' /\ MappedAlive'
  BY <1>1 DEF MappedOnce, MappedAlive
<1>5. PairRead'
  <2> SUFFICES ASSUME NEW u \in Threads
               PROVE  /\ pc'[u] = "remove" =>
                            \A n \in Names : table_name_mapping'[n] = pair_ptr'[u]
                                => n = Table(u)'
                      /\ pc'[u] \in {"freeSchema", "freePair"} =>
                            \A n \in Names : table_name_mapping'[n] # pair_ptr'[u]
    BY DEF PairRead
  <2>1. CASE u # t
    BY <1>1, <1>2, <2>1 DEF PairRead, OthersKept, Table
  <2>2. CASE u = t
    <3>1. pc'[t] = "remove" /\ pair_ptr'[t] = Mapped(t) /\ Table(t)' = Table(t)
      BY <1>1 DEF TypeInv, TypeOK, Table
    <3> QED
      BY <1>1, <1>3, <2>2, <3>1 DEF MappedOnce, Mapped
  <2> QED
    BY <2>1, <2>2
<1>6. FreeingOK'
  <2>1. \A u \in Threads : pc'[u] = "freePair" =>
           pc[u] = "freePair" /\ pair_ptr'[u] = pair_ptr[u]
    BY <1>1 DEF TypeInv, TypeOK
  <2> QED
    BY <1>1, <2>1 DEF FreeingOK
<1>7. OwnersInv'
  BY <1>1, OwnersKept
<1> QED
  BY <1>2, <1>4, <1>5, <1>6, <1>7

\* remove takes whatever the name is mapped to out of the map: the pair that was
\* read, if it was still there, and so it is nowhere afterwards.
LEMMA RemoveTableKeeps ==
    ASSUME IInv, NEW t \in Threads, RemoveTable(t)
    PROVE  IInv'
<1> USE DEF IInv
<1>1. /\ pc[t] = "remove" /\ pc' = [pc EXCEPT ![t] = "freeSchema"]
      /\ table_name_mapping' = [table_name_mapping EXCEPT ![Table(t)] = NoPair]
      /\ UNCHANGED <<pairs, fault, script, pair_ptr, pair>>
  BY DEF RemoveTable, At, Goto, localVars
<1>2. TypeInv' /\ OthersKept(t)
  BY RemoveTableType
<1>3. Table(t) \in Names /\ pair_ptr[t] # NoPair
  BY <1>1, CallOfScript DEF TypeInv, LocalsOK, LocalOK
<1>4. \A n \in Names :
         table_name_mapping'[n] = IF n = Table(t) THEN NoPair ELSE table_name_mapping[n]
  BY <1>1 DEF TypeInv, TypeOK
<1>5. MappedOnce' /\ MappedAlive'
  BY <1>1, <1>4 DEF MappedOnce, MappedAlive
<1>6. PairRead'
  <2> SUFFICES ASSUME NEW u \in Threads, NEW n \in Names,
                      table_name_mapping'[n] = pair_ptr'[u]
               PROVE  /\ pc'[u] = "remove" => n = Table(u)'
                      /\ pc'[u] \notin {"freeSchema", "freePair"}
    BY DEF PairRead
  <2>1. CASE pc'[u] \in {"remove", "freeSchema", "freePair"}
    <3>1. pair_ptr'[u] # NoPair
      BY <1>2, <2>1 DEF TypeInv, LocalsOK, LocalOK
    <3>2. table_name_mapping[n] = pair_ptr[u] /\ n # Table(t)
      BY <1>1, <1>4, <3>1
    <3>3. u # t
      BY <1>1, <3>2 DEF PairRead
    <3> QED
      BY <1>2, <3>2, <3>3 DEF PairRead, OthersKept, Table
  <2> QED
    BY <2>1
<1>7. FreeingOK'
  <2>1. \A u \in Threads : pc'[u] = "freePair" => pc[u] = "freePair"
    BY <1>1 DEF TypeInv, TypeOK
  <2> QED
    BY <1>1, <2>1 DEF FreeingOK
<1>8. OwnersInv'
  BY <1>1, OwnersKept
<1> QED
  BY <1>2, <1>5, <1>6, <1>7, <1>8

\* The pair whose schema goes is not mapped; a second thread with the same pair
\* finds no schema, and the heap is corrupt.
LEMMA FreeSchemaKeeps ==
    ASSUME IInv, NEW t \in Threads, FreeSchema(t)
    PROVE  IInv'
<1> USE DEF IInv
<1> DEFINE p == pair_ptr[t]
<1>1. /\ ~fault /\ pc[t] = "freeSchema" /\ pc' = [pc EXCEPT ![t] = "freePair"]
      /\ fault' = ~pairs[p].schema
      /\ UNCHANGED <<table_name_mapping, script, pair_ptr, pair>>
  BY DEF FreeSchema, At, Goto, localVars
<1>2. /\ TypeInv' /\ OthersKept(t) /\ p \in DOMAIN pairs
      /\ DOMAIN pairs' = DOMAIN pairs
      /\ \A q \in DOMAIN pairs :
            pairs'[q] = IF q = p THEN [pairs[q] EXCEPT !.schema = FALSE] ELSE pairs[q]
  BY FreeSchemaType
<1>3. \A q \in DOMAIN pairs :
         /\ pairs'[q].owners = pairs[q].owners /\ pairs'[q].pair = pairs[q].pair
         /\ pairs'[q].schema = (IF q = p THEN FALSE ELSE pairs[q].schema)
  <2> SUFFICES ASSUME NEW q \in DOMAIN pairs
               PROVE  /\ pairs'[q].owners = pairs[q].owners /\ pairs'[q].pair = pairs[q].pair
                      /\ pairs'[q].schema = (IF q = p THEN FALSE ELSE pairs[q].schema)
    OBVIOUS
  <2>1. pairs[q] \in PairType
    BY DEF TypeInv, TypeOK
  <2> QED
    BY <1>2, <2>1 DEF PairType
<1>4. \A n \in Names : table_name_mapping[n] # NoPair =>
         table_name_mapping[n] \in DOMAIN pairs /\ table_name_mapping[n] # p
  BY <1>1 DEF TypeInv, TypeOK, PairRead, NoPair
<1>5. MappedOnce' /\ MappedAlive'
  BY <1>1, <1>3, <1>4 DEF MappedOnce, MappedAlive
<1>6. \A u \in Threads : /\ Table(u)' = Table(u)
                         /\ pc'[u] = (IF u = t THEN "freePair" ELSE pc[u])
                         /\ pair_ptr'[u] = pair_ptr[u]
  BY <1>1 DEF Table, TypeInv, TypeOK
<1>7. PairRead'
  BY <1>1, <1>6 DEF PairRead
<1>8. FreeingOK'
  <2>1. \A q \in DOMAIN pairs' : pairs'[q].schema => pairs'[q].pair
    BY <1>2, <1>3 DEF FreeingOK
  <2>2. ASSUME ~fault', NEW u \in Threads, pc'[u] = "freePair"
        PROVE  /\ pairs'[pair_ptr'[u]].pair
               /\ ~pairs'[pair_ptr'[u]].schema
               /\ \A w \in Threads :
                     pc'[w] = "freePair" /\ pair_ptr'[w] = pair_ptr'[u] => w = u
    <3>1. pairs[p].schema /\ pairs[p].pair
      BY <1>1, <1>2, <2>2 DEF FreeingOK
    <3>2. \A w \in Threads \ {t} : pc'[w] = "freePair" =>
             /\ pc[w] = "freePair" /\ pair_ptr[w] # p
             /\ pairs[pair_ptr[w]].pair /\ ~pairs[pair_ptr[w]].schema
      BY <1>1, <1>6, <3>1 DEF FreeingOK
    <3>3. pair_ptr[u] \in DOMAIN pairs
      <4>1. pair_ptr[u] \in 0 .. Len(pairs) /\ DOMAIN pairs = 1 .. Len(pairs)
        BY DEF TypeInv, TypeOK
      <4>2. pair_ptr[u] # 0
        <5>1. CASE u = t
          BY <1>1, <5>1 DEF TypeInv, LocalsOK, LocalOK, NoPair
        <5>2. CASE u # t
          BY <3>2, <2>2, <5>2 DEF TypeInv, LocalsOK, LocalOK, NoPair
        <5> QED
          BY <5>1, <5>2
      <4>3. Len(pairs) \in Nat
        BY DEF TypeInv, TypeOK
      <4> QED
        BY <4>1, <4>2, <4>3
    <3>4. pairs'[pair_ptr[u]].pair /\ ~pairs'[pair_ptr[u]].schema
      BY <1>3, <2>2, <3>1, <3>2, <3>3
    <3>5. ASSUME NEW w \in Threads, pc'[w] = "freePair", pair_ptr[w] = pair_ptr[u]
          PROVE  w = u
      <4>1. CASE u = t
        BY <3>2, <3>5, <4>1
      <4>2. CASE u # t
        <5>1. w # t
          BY <2>2, <3>2, <3>5, <4>2
        <5> QED
          BY <1>1, <2>2, <3>2, <3>5, <4>2, <5>1 DEF FreeingOK
      <4> QED
        BY <4>1, <4>2
    <3> QED
      BY <1>6, <3>4, <3>5
  <2> QED
    BY <2>1, <2>2 DEF FreeingOK
<1>9. OwnersInv'
  BY <1>1, <1>2, <1>3, OwnersKept
<1> QED
  BY <1>2, <1>5, <1>7, <1>8, <1>9

\* The pair is one owner less, and was counted as one until now.
LEMMA FreePairKeeps ==
    ASSUME IInv, NEW t \in Threads, FreePair(t)
    PROVE  IInv'
<1> USE DEF IInv
<1> DEFINE p == pair_ptr[t]
<1>1. /\ ~fault /\ pc[t] = "freePair" /\ pc' = [pc EXCEPT ![t] = "done"]
      /\ UNCHANGED <<table_name_mapping, fault, script, pair_ptr, pair>>
  BY DEF FreePair, At, Goto, localVars
<1>2. /\ TypeInv' /\ OthersKept(t) /\ p \in DOMAIN pairs
      /\ DOMAIN pairs' = DOMAIN pairs /\ pairs[p].pair /\ ~pairs[p].schema
      /\ \A q \in DOMAIN pairs :
            pairs'[q] = IF q = p THEN [pairs[q] EXCEPT !.pair = FALSE,
                                                       !.owners = pairs[q].owners - 1]
                        ELSE pairs[q]
  BY FreePairType
<1>3. \A q \in DOMAIN pairs :
         /\ pairs'[q].owners = (IF q = p THEN pairs[q].owners - 1 ELSE pairs[q].owners)
         /\ pairs'[q].pair = (IF q = p THEN FALSE ELSE pairs[q].pair)
         /\ pairs'[q].schema = pairs[q].schema
  <2> SUFFICES ASSUME NEW q \in DOMAIN pairs
               PROVE  /\ pairs'[q].owners =
                            (IF q = p THEN pairs[q].owners - 1 ELSE pairs[q].owners)
                      /\ pairs'[q].pair = (IF q = p THEN FALSE ELSE pairs[q].pair)
                      /\ pairs'[q].schema = pairs[q].schema
    OBVIOUS
  <2>1. pairs[q] \in PairType
    BY DEF TypeInv, TypeOK
  <2> QED
    BY <1>2, <2>1 DEF PairType
<1>4. \A n \in Names : table_name_mapping[n] # NoPair =>
         table_name_mapping[n] \in DOMAIN pairs
  BY DEF TypeInv, TypeOK, NoPair
<1>5. MappedOnce' /\ MappedAlive'
  BY <1>1, <1>3, <1>4 DEF MappedOnce, MappedAlive
<1>6. \A u \in Threads : /\ Table(u)' = Table(u)
                         /\ pc'[u] = (IF u = t THEN "done" ELSE pc[u])
                         /\ pair_ptr'[u] = pair_ptr[u]
  BY <1>1 DEF Table, TypeInv, TypeOK
<1>7. PairRead'
  BY <1>1, <1>6 DEF PairRead
<1>8. FreeingOK'
  <2>1. \A q \in DOMAIN pairs' : pairs'[q].schema => pairs'[q].pair
    BY <1>2, <1>3 DEF FreeingOK
  <2>2. ASSUME NEW u \in Threads, pc'[u] = "freePair"
        PROVE  /\ pairs'[pair_ptr'[u]].pair
               /\ ~pairs'[pair_ptr'[u]].schema
               /\ \A w \in Threads :
                     pc'[w] = "freePair" /\ pair_ptr'[w] = pair_ptr'[u] => w = u
    <3>1. u # t /\ pc[u] = "freePair"
      BY <1>6, <2>2
    <3>2. pair_ptr[u] # p /\ pairs[pair_ptr[u]].pair /\ ~pairs[pair_ptr[u]].schema
      BY <1>1, <3>1 DEF FreeingOK
    <3>3. pair_ptr[u] \in DOMAIN pairs
      BY <3>1 DEF TypeInv, TypeOK, LocalsOK, LocalOK, NoPair
    <3>4. pairs'[pair_ptr[u]].pair /\ ~pairs'[pair_ptr[u]].schema
      BY <1>3, <3>2, <3>3
    <3>5. ASSUME NEW w \in Threads, pc'[w] = "freePair", pair_ptr[w] = pair_ptr[u]
          PROVE  w = u
      BY <1>1, <1>6, <3>1, <3>5 DEF FreeingOK
    <3> QED
      BY <1>6, <3>4, <3>5
  <2> QED
    BY <2>1, <2>2 DEF FreeingOK
<1>9. OwnersInv'
  <2>1. \A q : Users(q)' = Users(q)
    BY <1>1 DEF Users
  <2>2. \A q \in DOMAIN pairs : Cardinality(Users(q)) \in Nat
    BY FS_CardinalityType DEF OwnersInv
  <2>3. \A q \in DOMAIN pairs :
           pairs[q].owners = Cardinality(Users(q)) + (IF pairs[q].pair THEN 1 ELSE 0)
    BY DEF OwnersInv, OwnersCounted, Users
  <2>4. ASSUME NEW q \in DOMAIN pairs
        PROVE  pairs'[q].owners = Cardinality(Users(q)) + (IF pairs'[q].pair THEN 1 ELSE 0)
    <3>1. Cardinality(Users(q)) \in Nat
      BY <2>2, <2>4
    <3>2. pairs[q].owners = Cardinality(Users(q)) + (IF pairs[q].pair THEN 1 ELSE 0)
      BY <2>3, <2>4
    <3> HIDE DEF p
    <3>3. CASE q = p
      <4>1. pairs[q].pair
        BY <1>2, <3>3
      <4>2. pairs'[q].owners = pairs[q].owners - 1 /\ pairs'[q].pair = FALSE
        BY <1>3, <2>4, <3>3
      <4> QED
        BY <3>1, <3>2, <4>1, <4>2
    <3>4. CASE q # p
      <4>1. pairs'[q].owners = pairs[q].owners /\ pairs'[q].pair = pairs[q].pair
        BY <1>3, <2>4, <3>4
      <4> QED
        BY <3>2, <4>1
    <3> QED
      BY <3>3, <3>4
  <2>5. OwnersCounted'
    <3>1. \A q \in DOMAIN pairs' :
             pairs'[q].owners = Cardinality(Users(q)') + (IF pairs'[q].pair THEN 1 ELSE 0)
      BY <1>2, <2>1, <2>4
    <3> QED
      BY <3>1 DEF OwnersCounted, Users
  <2> QED
    BY <1>2, <2>1, <2>5 DEF OwnersInv
<1> QED
  BY <1>2, <1>5, <1>7, <1>8, <1>9

\* A call that copies the pair becomes one of its table's owners.
LEMMA CopyPairKeeps ==
    ASSUME IInv, NEW t \in Threads, CopyPair(t)
    PROVE  IInv'
<1> USE DEF IInv
<1> DEFINE p == Mapped(t)
<1>1. /\ pc[t] = "release" /\ pc'[t] \in {"schema", "table"}
      /\ UNCHANGED <<table_name_mapping, fault, script, pair_ptr>>
  BY DEF CopyPair, At, Goto, TypeInv, TypeOK
<1>2. /\ TypeInv' /\ OthersKept(t) /\ pair[t] = NoPair /\ p \in DOMAIN pairs
      /\ pair' = [pair EXCEPT ![t] = p] /\ DOMAIN pairs' = DOMAIN pairs
      /\ \A q \in DOMAIN pairs :
            pairs'[q] = IF q = p THEN [pairs[q] EXCEPT !.owners = pairs[q].owners + 1]
                        ELSE pairs[q]
  BY CopyPairType
<1> HIDE DEF p
<1>3. ASSUME NEW q \in DOMAIN pairs
      PROVE  /\ pairs'[q].owners = (IF q = p THEN pairs[q].owners + 1 ELSE pairs[q].owners)
             /\ pairs'[q].pair = pairs[q].pair /\ pairs'[q].schema = pairs[q].schema
  <2>1. pairs[q] \in PairType
    BY DEF TypeInv, TypeOK
  <2> QED
    BY <1>2, <2>1 DEF PairType
<1>4. MappedOnce' /\ PairRead' /\ FreeingOK' /\ MappedAlive'
  BY <1>1, <1>2, <1>3, SchemasKeep
<1>5. OwnersInv'
  <2> SUFFICES ASSUME NEW q \in DOMAIN pairs
               PROVE  /\ IsFiniteSet(Users(q)')
                      /\ pairs'[q].owners =
                            Cardinality(Users(q)') + (IF pairs'[q].pair THEN 1 ELSE 0)
    BY <1>2 DEF OwnersInv, OwnersCounted, Users
  <2>1. /\ IsFiniteSet(Users(q)) /\ Cardinality(Users(q)) \in Nat
        /\ pairs[q].owners = Cardinality(Users(q)) + (IF pairs[q].pair THEN 1 ELSE 0)
    BY FS_CardinalityType DEF OwnersInv, OwnersCounted, Users
  <2>2. CASE q = p
    <3>1. Users(q)' = Users(q) \cup {t} /\ t \notin Users(q)
      BY <1>2, <2>2 DEF Users, TypeInv, TypeOK, NoPair
    <3>2. IsFiniteSet(Users(q)') /\ Cardinality(Users(q)') = Cardinality(Users(q)) + 1
      BY <2>1, <3>1, FS_AddElement
    <3> QED
      BY <1>3, <2>1, <2>2, <3>2
  <2>3. CASE q # p
    <3>1. Users(q)' = Users(q)
      BY <1>2, <2>3 DEF Users, TypeInv, TypeOK, NoPair
    <3> QED
      BY <1>3, <2>1, <2>3, <3>1
  <2> QED
    BY <2>2, <2>3
<1> QED
  BY <1>2, <1>4, <1>5

\* The call's copy of the pair, if it has one, is an owner less.
LEMMA ReturnKeeps ==
    ASSUME IInv, NEW t \in Threads, Return(t)
    PROVE  IInv'
<1> USE DEF IInv
<1> DEFINE p == pair[t]
<1>1. /\ pc[t] = "done" /\ pc'[t] \in {"idle", "call"}
      /\ UNCHANGED <<table_name_mapping, fault>>
  BY DEF Return, At, Goto, TypeInv, TypeOK
<1>2. /\ TypeInv' /\ OthersKept(t)
      /\ pair' = [pair EXCEPT ![t] = NoPair] /\ DOMAIN pairs' = DOMAIN pairs
      /\ \A q \in DOMAIN pairs :
            pairs'[q] = IF q = p THEN [pairs[q] EXCEPT !.owners = pairs[q].owners - 1]
                        ELSE pairs[q]
  BY ReturnType
<1>3. ASSUME NEW q \in DOMAIN pairs
      PROVE  /\ pairs'[q].owners = (IF q = p THEN pairs[q].owners - 1 ELSE pairs[q].owners)
             /\ pairs'[q].pair = pairs[q].pair /\ pairs'[q].schema = pairs[q].schema
  <2>1. pairs[q] \in PairType
    BY DEF TypeInv, TypeOK
  <2> QED
    BY <1>2, <2>1 DEF PairType
<1>4. MappedOnce' /\ PairRead' /\ FreeingOK' /\ MappedAlive'
  BY <1>1, <1>2, <1>3, SchemasKeep
<1>5. OwnersInv'
  <2> SUFFICES ASSUME NEW q \in DOMAIN pairs
               PROVE  /\ IsFiniteSet(Users(q)')
                      /\ pairs'[q].owners =
                            Cardinality(Users(q)') + (IF pairs'[q].pair THEN 1 ELSE 0)
    BY <1>2 DEF OwnersInv, OwnersCounted, Users
  <2>1. /\ IsFiniteSet(Users(q)) /\ Cardinality(Users(q)) \in Nat
        /\ pairs[q].owners = Cardinality(Users(q)) + (IF pairs[q].pair THEN 1 ELSE 0)
    BY FS_CardinalityType DEF OwnersInv, OwnersCounted, Users
  <2>2. q # NoPair
    BY DEF TypeInv, TypeOK, NoPair
  <2>3. CASE q = p
    <3>1. Users(q)' = Users(q) \ {t} /\ t \in Users(q)
      BY <1>2, <2>2, <2>3 DEF Users, TypeInv, TypeOK
    <3>2. IsFiniteSet(Users(q)') /\ Cardinality(Users(q)') = Cardinality(Users(q)) - 1
      BY <2>1, <3>1, FS_RemoveElement
    <3> QED
      BY <1>3, <2>1, <2>3, <3>2
  <2>4. CASE q # p
    <3>1. Users(q)' = Users(q)
      BY <1>2, <2>2, <2>4 DEF Users, TypeInv, TypeOK
    <3> QED
      BY <1>3, <2>1, <2>4, <3>1
  <2> QED
    BY <2>3, <2>4
<1> QED
  BY <1>2, <1>4, <1>5

\* A new pair is mapped nowhere yet, and no DROP has read it.
LEMMA CreateTableKeeps ==
    ASSUME IInv, NEW t \in Threads, CreateTable(t)
    PROVE  IInv'
<1> USE DEF IInv
<1> DEFINE k == Len(pairs) + 1
<1>1. /\ pc[t] = "call" /\ pc' = [pc EXCEPT ![t] = "done"]
      /\ UNCHANGED <<fault, script, pair_ptr>>
  BY DEF CreateTable, At, Goto, localVars
<1>2. /\ TypeInv' /\ OthersKept(t) /\ Table(t) \in Names
      /\ pair' = pair /\ pairs' = Append(pairs, NewPair)
      /\ table_name_mapping' =
            IF Mapped(t) = NoPair THEN [table_name_mapping EXCEPT ![Table(t)] = k]
            ELSE table_name_mapping
  BY CreateTableType
<1>3. /\ Len(pairs) \in Nat /\ DOMAIN pairs = 1 .. Len(pairs)
      /\ DOMAIN pairs' = DOMAIN pairs \cup {k} /\ k \notin DOMAIN pairs
      /\ pairs'[k] = NewPair /\ \A q \in DOMAIN pairs : pairs'[q] = pairs[q]
  <2>1. /\ Len(pairs) \in Nat /\ DOMAIN pairs' = DOMAIN pairs \cup {k}
        /\ k \notin DOMAIN pairs
        /\ pairs'[k] = NewPair /\ \A q \in DOMAIN pairs : pairs'[q] = pairs[q]
    BY <1>2, PairAppended
  <2>2. DOMAIN pairs = 1 .. Len(pairs)
    BY DEF TypeInv, TypeOK
  <2> QED
    BY <2>1, <2>2
<1>4. \A n \in Names : /\ table_name_mapping[n] \in 0 .. Len(pairs)
                       /\ \/ table_name_mapping'[n] = table_name_mapping[n]
                          \/ n = Table(t) /\ table_name_mapping'[n] = k
  BY <1>2 DEF TypeInv, TypeOK
<1> HIDE DEF k
<1>5. k # NoPair /\ k \notin 0 .. Len(pairs)
  BY <1>3 DEF k, NoPair
<1>6. MappedOnce'
  <2> SUFFICES ASSUME NEW m \in Names, NEW n \in Names,
                      table_name_mapping'[m] = table_name_mapping'[n],
                      table_name_mapping'[m] # NoPair
               PROVE  m = n
    BY DEF MappedOnce
  <2> QED
    BY <1>4, <1>5 DEF MappedOnce
<1>7. MappedAlive'
  <2> SUFFICES ASSUME NEW n \in Names, table_name_mapping'[n] # NoPair
               PROVE  pairs'[table_name_mapping'[n]].schema
    BY DEF MappedAlive
  <2>1. CASE table_name_mapping'[n] = k
    BY <1>3, <2>1 DEF NewPair
  <2>2. CASE table_name_mapping'[n] # k
    BY <1>3, <1>4, <2>2 DEF MappedAlive, NoPair
  <2> QED
    BY <2>1, <2>2
<1>8. \A u \in Threads :
         /\ pair_ptr[u] \in 0 .. Len(pairs) /\ Table(u)' = Table(u)
         /\ pc'[u] \in {"remove", "freeSchema", "freePair"} => pc[u] = pc'[u]
         /\ pc'[u] = "freePair" => pair_ptr[u] \in DOMAIN pairs
  BY <1>1, <1>3 DEF TypeInv, TypeOK, LocalsOK, LocalOK, Table, NoPair
<1>9. PairRead'
  BY <1>1, <1>4, <1>5, <1>8 DEF PairRead
<1>10. FreeingOK'
  <2>1. \A q \in DOMAIN pairs' : pairs'[q].schema => pairs'[q].pair
    BY <1>3 DEF FreeingOK, NewPair
  <2> QED
    BY <1>1, <1>3, <1>8, <2>1 DEF FreeingOK
<1>11. OwnersInv'
  <2>1. \A q : Users(q)' = Users(q)
    BY <1>2 DEF Users
  <2>2. Users(k) = {}
    BY <1>3, <1>5 DEF Users, TypeInv, TypeOK
  <2>3. IsFiniteSet(Users(k)) /\ Cardinality(Users(k)) = 0
    BY <2>2, FS_EmptySet
  <2>4. ASSUME NEW q \in DOMAIN pairs'
        PROVE  /\ IsFiniteSet(Users(q))
               /\ pairs'[q].owners =
                     Cardinality(Users(q)) + (IF pairs'[q].pair THEN 1 ELSE 0)
    <3>1. CASE q = k
      BY <1>3, <2>3, <3>1 DEF NewPair
    <3>2. CASE q # k
      BY <1>3, <3>2 DEF OwnersInv, OwnersCounted, Users
    <3> QED
      BY <3>1, <3>2
  <2> QED
    BY <2>1, <2>4 DEF OwnersInv, OwnersCounted, Users
<1> QED
  BY <1>2, <1>6, <1>7, <1>9, <1>10, <1>11

LEMMA IInvStep ==
    ASSUME IInv, Next
    PROVE  IInv'
<1>1. PICK t \in Threads : Begin(t) \/ Step(t)
  BY DEF Next
<1>2. TypeInv
  BY DEF IInv
<1>3. CASE Begin(t)
  <2>1. pc'[t] = "call" /\ UNCHANGED <<table_name_mapping, pairs, fault, pair>>
    BY <1>2, <1>3 DEF Begin, Goto, heapVars, localVars, TypeInv, TypeOK
  <2> QED
    BY <1>2, <1>3, <2>1, BeginType, QuietStep
<1>4. CASE RefuseCreate(t)
  <2>1. pc'[t] = "done" /\ UNCHANGED <<table_name_mapping, pairs, fault, pair>>
    BY <1>2, <1>4 DEF RefuseCreate, Goto, heapVars, localVars, TypeInv, TypeOK
  <2> QED
    BY <1>2, <1>4, <2>1, RefuseCreateType, QuietStep
<1>5. CASE FindTable(t)
  <2>1. pc'[t] = "release" /\ UNCHANGED <<table_name_mapping, pairs, fault, pair>>
    BY <1>2, <1>5 DEF FindTable, Goto, heapVars, TypeInv, TypeOK
  <2> QED
    BY <1>2, <1>5, <2>1, FindTableType, QuietStep
<1>6. CASE TableNotExist(t)
  <2>1. pc'[t] = "done" /\ UNCHANGED <<table_name_mapping, pairs, fault, pair>>
    BY <1>2, <1>6 DEF TableNotExist, Goto, heapVars, localVars, TypeInv, TypeOK
  <2> QED
    BY <1>2, <1>6, <2>1, TableNotExistType, QuietStep
<1>7. CASE UseSchema(t)
  <2>1. /\ pc'[t] \in {"table", "done"}
        /\ UNCHANGED <<table_name_mapping, pairs, fault, pair>>
    BY <1>2, <1>7 DEF UseSchema, Goto, heapVars, TypeInv, TypeOK
  <2> QED
    BY <1>2, <1>7, <2>1, UseSchemaType, QuietStep
<1>8. CASE UseTable(t)
  <2>1. pc'[t] = "done" /\ UNCHANGED <<table_name_mapping, pairs, fault, pair>>
    BY <1>2, <1>8 DEF UseTable, Goto, heapVars, localVars, TypeInv, TypeOK
  <2> QED
    BY <1>2, <1>8, <2>1, UseTableType, QuietStep
<1> QED
  BY <1>1, <1>3, <1>4, <1>5, <1>6, <1>7, <1>8, CreateTableKeeps, ReadPairKeeps,
     RemoveTableKeeps, FreeSchemaKeeps, FreePairKeeps, CopyPairKeeps, ReturnKeeps
     DEF Step

LEMMA IInvStutter ==
    ASSUME IInv, UNCHANGED vars
    PROVE  IInv'
<1>1. UNCHANGED <<table_name_mapping, pairs, fault, pc, script, accessor, pair_ptr,
                  pair, built, found, taken>>
  BY DEF vars, heapVars, localVars
<1>2. TypeInv'
  BY <1>1 DEF IInv, TypeInv, TypeOK, LocalsOK, LocalOK, AccessorsHold, Mapped, Table, Op
<1>3. MappedOnce' /\ PairRead' /\ FreeingOK' /\ MappedAlive'
  BY <1>1 DEF IInv, MappedOnce, PairRead, FreeingOK, MappedAlive, Table
<1>4. OwnersInv'
  BY <1>1, OwnersKept DEF IInv
<1> QED
  BY <1>2, <1>3, <1>4 DEF IInv

LEMMA Invariant == Spec => []IInv
<1>1. IInv /\ [Next]_vars => IInv'
  BY IInvStep, IInvStutter
<1> QED
  BY InitInv, <1>1, PTL DEF Spec

\* The map, the pairs and every thread's locals have their types in every
\* reachable state: what is mapped, read or copied is an allocated pair.
THEOREM TypeCorrect == Spec => []TypeOK
<1>1. IInv => TypeOK
  BY DEF IInv, TypeInv
<1> QED
  BY Invariant, <1>1, PTL

\* Whoever finds a table in the map copies or reads a pair that nobody has
\* freed, however many threads drop and create that table.
THEOREM MappedStayAlive == Spec => []MappedPairsAlive
<1>1. ASSUME IInv PROVE MappedPairsAlive
  <2>1. ASSUME NEW t \in Threads, accessor[t] PROVE Mapped(t) # NoPair
    BY <1>1, <2>1 DEF IInv, TypeInv, LocalsOK, LocalOK, AccessorsHold
  <2>2. ASSUME NEW n \in Names, table_name_mapping[n] # NoPair
        PROVE  pairs[table_name_mapping[n]].pair /\ pairs[table_name_mapping[n]].schema
    <3>1. table_name_mapping[n] \in DOMAIN pairs
      BY <1>1, <2>2 DEF IInv, TypeInv, TypeOK, NoPair
    <3> QED
      BY <1>1, <2>2, <3>1 DEF IInv, MappedAlive, FreeingOK
  <2> QED
    BY <2>1, <2>2 DEF MappedPairsAlive
<1> QED
  BY Invariant, <1>1, PTL

\* The reference count of a table is the number of its owners, whatever the
\* DROPs and the statements that use it do, up to a schema deleted twice.
THEOREM OwnersStayCounted == Spec => []OwnersCounted
<1>1. IInv => OwnersCounted
  BY DEF IInv, OwnersInv
<1> QED
  BY Invariant, <1>1, PTL
-----------------------------------------------------------------------------
(* The refinement of AtomicCatalog.                                        *)

TablesBar == {n \in Names : table_name_mapping[n] # NoPair}

CallBar == [t \in Threads |-> AbstractCall(t)]

\* The call at the head of a script, as AtomicCatalog sees it.
CallOf(s) ==
    [op |-> IF s[1].op \in Lookups THEN "lookup"
            ELSE IF s[1].op = "createTable" /\ s[1].empty THEN "refuse"
            ELSE s[1].op,
     table |-> s[1].table]

LEMMA CallOfType ==
    ASSUME NEW s \in Seq(CallType), s # <<>>
    PROVE  /\ CallOf(s).op \in {"createTable", "refuse", "deleteTable", "lookup"}
           /\ CallOf(s).table \in Names
           /\ CallOf(s) = [op |-> CallOf(s).op, table |-> CallOf(s).table]
           /\ CallOf(s).op = "lookup" <=> s[1].op \in Lookups
           /\ CallOf(s).op = "deleteTable" <=> s[1].op = "deleteTable"
           /\ CallOf(s).op = "refuse" <=> s[1].op = "createTable" /\ s[1].empty
           /\ CallOf(s).op = "createTable" <=> s[1].op = "createTable" /\ ~s[1].empty
<1> DEFINE op == IF s[1].op \in Lookups THEN "lookup"
                 ELSE IF s[1].op = "createTable" /\ s[1].empty THEN "refuse"
                 ELSE s[1].op
<1>1. CallOf(s) = [op |-> op, table |-> s[1].table]
  BY DEF CallOf
<1>2. s[1] \in CallType
  BY EmptySeq, ElementOfSeq
<1>3. s[1].op \in Ops /\ s[1].table \in Names
  BY <1>2 DEF CallType
<1>4. /\ op \in {"createTable", "refuse", "deleteTable", "lookup"}
      /\ op = "lookup" <=> s[1].op \in Lookups
      /\ op = "deleteTable" <=> s[1].op = "deleteTable"
      /\ op = "refuse" <=> s[1].op = "createTable" /\ s[1].empty
      /\ op = "createTable" <=> s[1].op = "createTable" /\ ~s[1].empty
  BY <1>3 DEF Ops, Lookups
<1> HIDE DEF op
<1> QED
  BY <1>1, <1>3, <1>4

\* The abstract call of a thread that has a script.
LEMMA CallBarOf ==
    ASSUME NEW t \in Threads, script[t] # <<>>
    PROVE  CallBar[t] = CallOf(script[t])
BY DEF CallBar, CallOf, AbstractCall, Op, Table

\* A thread is given a statement, or makes the next call of its statement.
LEMMA CallStep ==
    ASSUME TypeOK, NEW t \in Threads, NEW s \in Seq(CallType), s # <<>>,
           script' = [script EXCEPT ![t] = s],
           found' = [found EXCEPT ![t] = "pending"], found[t] # "pending",
           UNCHANGED table_name_mapping
    PROVE  Atomic!Next
<1>1. CallBar' = [CallBar EXCEPT ![t] = CallOf(s)]
  BY DEF TypeOK, CallBar, CallOf, AbstractCall, Op, Table
<1>2. /\ CallOf(s).op \in {"createTable", "refuse", "deleteTable", "lookup"}
      /\ CallOf(s).table \in Names
      /\ CallOf(s) = [op |-> CallOf(s).op, table |-> CallOf(s).table]
  BY CallOfType
<1>3. TablesBar' = TablesBar
  BY DEF TablesBar
<1>4. Atomic!Call(t)
  BY <1>1, <1>2, <1>3 DEF Atomic!Call, CallBar, TablesBar
<1> QED
  BY <1>4 DEF Atomic!Next

\* Its last call has returned.
LEMMA RestStep ==
    ASSUME TypeOK, NEW t \in Threads,
           script' = [script EXCEPT ![t] = <<>>],
           found' = [found EXCEPT ![t] = "none"], found[t] # "pending",
           UNCHANGED table_name_mapping
    PROVE  Atomic!Next
<1>1. CallBar' = [CallBar EXCEPT ![t] = NoCall]
  BY DEF TypeOK, CallBar, AbstractCall, Op, Table
<1>2. TablesBar' = TablesBar
  BY DEF TablesBar
<1>3. Atomic!Rest(t)
  BY <1>1, <1>2 DEF Atomic!Rest, CallBar, TablesBar
<1> QED
  BY <1>3 DEF Atomic!Next

\* A call takes effect.
LEMMA AnswerStep ==
    ASSUME TypeOK, NEW t \in Threads, script[t] # <<>>, UNCHANGED script,
           found[t] = "pending", NEW answer,
           found' = [found EXCEPT ![t] = answer],
           \/ /\ Op(t) = "createTable" /\ script[t][1].empty
              /\ answer = "ERR_TABLE_CMD_INVALID" /\ TablesBar' = TablesBar
           \/ /\ Op(t) = "createTable" /\ ~script[t][1].empty
              /\ IF Table(t) \in TablesBar
                 THEN answer = "ERR" /\ TablesBar' = TablesBar
                 ELSE answer = "SUCCESS" /\ TablesBar' = TablesBar \cup {Table(t)}
           \/ /\ Op(t) = "deleteTable"
              /\ IF Table(t) \in TablesBar
                 THEN answer = "SUCCESS" /\ TablesBar' = TablesBar \ {Table(t)}
                 ELSE answer = "ERR_TABLE_NOT_EXIST" /\ TablesBar' = TablesBar
           \/ /\ Op(t) \in Lookups /\ TablesBar' = TablesBar
              /\ answer = IF Table(t) \in TablesBar THEN "SUCCESS" ELSE "ERR_TABLE_NOT_EXIST"
    PROVE  Atomic!Next
<1>1. CallBar' = CallBar
  BY DEF CallBar, AbstractCall, Op, Table
<1>2. /\ CallBar[t].table = Table(t)
      /\ CallBar[t].op = "lookup" <=> Op(t) \in Lookups
      /\ CallBar[t].op = "deleteTable" <=> Op(t) = "deleteTable"
      /\ CallBar[t].op = "refuse" <=> Op(t) = "createTable" /\ script[t][1].empty
      /\ CallBar[t].op = "createTable" <=> Op(t) = "createTable" /\ ~script[t][1].empty
  <2>1. script[t] \in Seq(CallType)
    BY DEF TypeOK
  <2>2. CallOf(script[t]).table = Table(t)
    BY DEF CallOf, Table
  <2> QED
    BY <2>1, <2>2, CallBarOf, CallOfType DEF Op
<1>3. Atomic!Told(t, answer)
  BY DEF Atomic!Told
<1>4. Atomic!Refuse(t) \/ Atomic!Create(t) \/ Atomic!Drop(t) \/ Atomic!Lookup(t)
  BY <1>1, <1>2, <1>3
     DEF Atomic!Refuse, Atomic!Create, Atomic!Drop, Atomic!Lookup, CallBar, TablesBar
<1> QED
  BY <1>4 DEF Atomic!Next

\* A step of the catalog is a step of AtomicCatalog or changes nothing in it.
LEMMA AtomicStep ==
    ASSUME IInv, Next
    PROVE  Atomic!Next \/ UNCHANGED Atomic!catalogVars
<1>0. PICK t \in Threads : Begin(t) \/ Step(t)
  BY DEF Next
<1>t. TypeOK /\ LocalOK(t)
  BY DEF IInv, TypeInv, LocalsOK
<1>u. ASSUME UNCHANGED <<table_name_mapping, script, found>>
      PROVE  UNCHANGED Atomic!catalogVars
  BY <1>u DEF Atomic!catalogVars, AbstractCall, Op, Table
<1>1. CASE Begin(t)
  <2>1. PICK s \in Scripts[t] : script' = [script EXCEPT ![t] = s]
    BY <1>1 DEF Begin
  <2>2. s \in Seq(CallType) /\ s # <<>>
    BY ScriptsAssumption
  <2>3. found' = [found EXCEPT ![t] = "pending"] /\ UNCHANGED table_name_mapping
    BY <1>1 DEF Begin, Found, heapVars
  <2>4. found[t] # "pending"
    BY <1>1, <1>t DEF Begin, At, LocalOK
  <2> QED
    BY <1>t, <2>1, <2>2, <2>3, <2>4, CallStep
<1>2. CASE RefuseCreate(t)
  <2>1. /\ pc[t] = "call" /\ Op(t) = "createTable" /\ script[t][1].empty
        /\ found' = [found EXCEPT ![t] = "ERR_TABLE_CMD_INVALID"]
        /\ UNCHANGED <<script, table_name_mapping>>
    BY <1>2 DEF RefuseCreate, At, Found, heapVars
  <2>2. TablesBar' = TablesBar
    BY <2>1 DEF TablesBar
  <2> QED
    BY <1>t, <2>1, <2>2, AnswerStep DEF LocalOK
<1>3. CASE CreateTable(t)
  <2>1. /\ pc[t] = "call" /\ Op(t) = "createTable" /\ ~script[t][1].empty
        /\ UNCHANGED script
        /\ IF Mapped(t) = NoPair
           THEN /\ table_name_mapping' = [table_name_mapping EXCEPT ![Table(t)] = Len(pairs) + 1]
                /\ found' = [found EXCEPT ![t] = "SUCCESS"]
           ELSE found' = [found EXCEPT ![t] = "ERR"] /\ UNCHANGED table_name_mapping
    BY <1>3 DEF CreateTable, At, Found
  <2>2. Table(t) \in Names
    BY <1>t, <2>1, CallOfScript DEF LocalOK
  <2>3. Table(t) \in TablesBar <=> Mapped(t) # NoPair
    BY <2>2 DEF TablesBar, Mapped
  <2>4. CASE Mapped(t) = NoPair
    <3>1. Len(pairs) + 1 # NoPair
      BY <1>t DEF TypeOK, NoPair
    <3>2. TablesBar' = TablesBar \cup {Table(t)}
      BY <1>t, <2>1, <2>2, <2>4, <3>1 DEF TablesBar, TypeOK
    <3> QED
      BY <1>t, <2>1, <2>3, <2>4, <3>2, AnswerStep DEF LocalOK
  <2>5. CASE Mapped(t) # NoPair
    <3>1. TablesBar' = TablesBar
      BY <2>1, <2>5 DEF TablesBar
    <3> QED
      BY <1>t, <2>1, <2>3, <2>5, <3>1, AnswerStep DEF LocalOK
  <2> QED
    BY <2>4, <2>5
<1>4. CASE FindTable(t)
  <2>1. /\ pc[t] = "call" /\ Op(t) # "createTable" /\ Mapped(t) # NoPair
        /\ UNCHANGED <<script, table_name_mapping>>
        /\ found' = IF Op(t) = "deleteTable" THEN found ELSE [found EXCEPT ![t] = "SUCCESS"]
    BY <1>4 DEF FindTable, At, Found, heapVars
  <2>2. CASE Op(t) = "deleteTable"
    BY <1>u, <2>1, <2>2
  <2>3. CASE Op(t) # "deleteTable"
    <3>1. script[t] # <<>>
      BY <1>t, <2>1 DEF LocalOK
    <3>2. Op(t) \in Lookups /\ Table(t) \in TablesBar /\ TablesBar' = TablesBar
      BY <1>t, <2>1, <2>3, <3>1, CallOfScript DEF Ops, TablesBar, Mapped
    <3> QED
      BY <1>t, <2>1, <2>3, <3>1, <3>2, AnswerStep DEF LocalOK
  <2> QED
    BY <2>2, <2>3
<1>5. CASE TableNotExist(t)
  <2>1. /\ pc[t] = "call" /\ Op(t) # "createTable" /\ Mapped(t) = NoPair
        /\ UNCHANGED <<script, table_name_mapping>>
        /\ found' = [found EXCEPT ![t] = "ERR_TABLE_NOT_EXIST"]
    BY <1>5 DEF TableNotExist, At, Found, heapVars
  <2>2. script[t] # <<>>
    BY <1>t, <2>1 DEF LocalOK
  <2>3. /\ Op(t) \in Lookups \cup {"deleteTable"} /\ Table(t) \notin TablesBar
        /\ TablesBar' = TablesBar
    BY <1>t, <2>1, <2>2, CallOfScript DEF Ops, TablesBar, Mapped
  <2> QED
    BY <1>t, <2>1, <2>2, <2>3, AnswerStep DEF LocalOK
<1>6. CASE RemoveTable(t)
  <2>1. /\ pc[t] = "remove" /\ Mapped(t) # NoPair /\ UNCHANGED script
        /\ table_name_mapping' = [table_name_mapping EXCEPT ![Table(t)] = NoPair]
        /\ found' = [found EXCEPT ![t] = "SUCCESS"]
    BY <1>6 DEF RemoveTable, Removable, At, Found
  <2>2. script[t] # <<>> /\ Op(t) = "deleteTable" /\ found[t] = "pending"
    BY <1>t, <2>1 DEF LocalOK
  <2>3. Table(t) \in TablesBar /\ TablesBar' = TablesBar \ {Table(t)}
    BY <1>t, <2>1, <2>2, CallOfScript DEF TablesBar, Mapped, TypeOK
  <2> QED
    BY <1>t, <2>1, <2>2, <2>3, AnswerStep
<1>7. CASE ReadPair(t) \/ FreeSchema(t) \/ FreePair(t) \/ CopyPair(t)
           \/ UseSchema(t) \/ UseTable(t)
  BY <1>7, <1>u DEF ReadPair, FreeSchema, FreePair, CopyPair, UseSchema, UseTable, heapVars,
                    localVars
<1>8. CASE Return(t)
  <2>1. pc[t] = "done" /\ script' = [script EXCEPT ![t] = Tail(@)]
        /\ found' = [found EXCEPT ![t] = IF Len(script[t]) > 1 THEN "pending" ELSE "none"]
        /\ UNCHANGED table_name_mapping
    BY <1>8 DEF Return, At, Found
  <2>2. script[t] # <<>> /\ found[t] # "pending"
    BY <1>t, <2>1 DEF LocalOK
  <2>3. /\ Tail(script[t]) \in Seq(CallType)
        /\ Tail(script[t]) = <<>> <=> ~(Len(script[t]) > 1)
    BY <1>t, <2>2, CallOfScript
  <2>4. CASE Len(script[t]) > 1
    BY <1>t, <2>1, <2>2, <2>3, <2>4, CallStep
  <2>5. CASE ~(Len(script[t]) > 1)
    BY <1>t, <2>1, <2>2, <2>3, <2>5, RestStep
  <2> QED
    BY <2>4, <2>5
<1> QED
  BY <1>0, <1>1, <1>2, <1>3, <1>4, <1>5, <1>6, <1>7, <1>8 DEF Step

LEMMA AtomicInit == Init => Atomic!Init
<1> SUFFICES ASSUME Init PROVE Atomic!Init
  OBVIOUS
<1>1. {n \in Names : table_name_mapping[n] # NoPair} = {}
  BY DEF Init
<1>2. \A t \in Threads : AbstractCall(t) = NoCall
  BY DEF Init, AbstractCall
<1> QED
  BY <1>1, <1>2 DEF Init, Atomic!Init

\* Every CREATE, DROP and lookup takes effect at one moment, in which it finds
\* its table or not, though it is carried out in steps that the other threads'
\* steps separate, and though two DROPs may both have found the table.
THEOREM CatalogAtomic == Spec => ImplementsAtomicCatalog
<1>1. ASSUME UNCHANGED vars PROVE UNCHANGED Atomic!catalogVars
  BY <1>1 DEF vars, heapVars, Atomic!catalogVars, AbstractCall, Op, Table
<1>2. IInv /\ [Next]_vars => [Atomic!Next]_(Atomic!catalogVars)
  BY <1>1, AtomicStep
<1> QED
  BY AtomicInit, Invariant, <1>2, PTL DEF Spec, Atomic!Spec, ImplementsAtomicCatalog
-----------------------------------------------------------------------------
(* Tables with one dropper.                                                *)

\* Some statement of thread t may drop table n.
MayDrop(t, n) ==
    \E s \in Scripts[t] : \E i \in DOMAIN s : s[i].op = "deleteTable" /\ s[i].table = n

\* No table may be dropped by two threads.
OneDropper ==
    \A t, u \in Threads : \A n \in Names : MayDrop(t, n) /\ MayDrop(u, n) => t = u

\* A DROP is one of those its thread may make; the name stays mapped to the pair
\* it has read until it removes it, and no other DROP has the pair.
DroppersApart ==
    /\ \A t \in Threads : \A i \in DOMAIN script[t] :
          script[t][i].op = "deleteTable" => MayDrop(t, script[t][i].table)
    /\ \A t \in Threads :
          /\ pc[t] = "remove" => Mapped(t) = pair_ptr[t]
          /\ pc[t] = "freeSchema" => pairs[pair_ptr[t]].schema
    /\ \A t, u \in Threads :
          (/\ pc[t] \in {"remove", "freeSchema"} /\ pc[u] \in {"remove", "freeSchema"}
           /\ pair_ptr[t] = pair_ptr[u])
             => t = u

DropInv == IInv /\ DroppersApart /\ FreedOnce

\* The pair of a DROP on its way is an allocated one.
LEMMA PtrAllocated ==
    ASSUME TypeInv, NEW t \in Threads, pc[t] \in {"remove", "freeSchema", "freePair"}
    PROVE  pair_ptr[t] \in DOMAIN pairs
<1>1. pair_ptr[t] \in 0 .. Len(pairs) /\ pair_ptr[t] # 0 /\ DOMAIN pairs = 1 .. Len(pairs)
  BY DEF TypeInv, TypeOK, LocalsOK, LocalOK, NoPair
<1> QED
  BY <1>1

\* What keeps the droppers apart in a step of t: its own part, and that the map
\* and the pairs of the others stay.
LEMMA DroppersKept ==
    ASSUME DropInv, IInv', NEW t \in Threads, OthersKept(t),
           \A i \in DOMAIN script'[t] :
               script'[t][i].op = "deleteTable" => MayDrop(t, script'[t][i].table),
           \A u \in Threads \ {t} :
               /\ pc[u] = "remove" => Mapped(u)' = Mapped(u)
               /\ pc[u] = "freeSchema" => pairs'[pair_ptr[u]].schema,
           pc'[t] = "remove" => Mapped(t)' = pair_ptr'[t],
           pc'[t] = "freeSchema" => pairs'[pair_ptr'[t]].schema,
           pc'[t] \in {"remove", "freeSchema"} =>
               \A u \in Threads \ {t} :
                   pc[u] \in {"remove", "freeSchema"} => pair_ptr[u] # pair_ptr'[t]
    PROVE  DroppersApart'
<1>1. ASSUME NEW u \in Threads, NEW i \in DOMAIN script'[u],
             script'[u][i].op = "deleteTable"
      PROVE  MayDrop(u, script'[u][i].table)
  BY <1>1 DEF DropInv, DroppersApart, OthersKept
<1>2. ASSUME NEW u \in Threads
      PROVE  /\ pc'[u] = "remove" => Mapped(u)' = pair_ptr'[u]
             /\ pc'[u] = "freeSchema" => pairs'[pair_ptr'[u]].schema
  BY <1>2 DEF DropInv, DroppersApart, OthersKept
<1>3. ASSUME NEW u \in Threads, NEW w \in Threads,
             pc'[u] \in {"remove", "freeSchema"}, pc'[w] \in {"remove", "freeSchema"},
             pair_ptr'[u] = pair_ptr'[w]
      PROVE  u = w
  BY <1>3 DEF DropInv, DroppersApart, OthersKept
<1>4. (\A u \in Threads : \A i \in DOMAIN script[u] :
          script[u][i].op = "deleteTable" => MayDrop(u, script[u][i].table))'
  BY <1>1 DEF MayDrop
<1>5. (\A u \in Threads :
          /\ pc[u] = "remove" => Mapped(u) = pair_ptr[u]
          /\ pc[u] = "freeSchema" => pairs[pair_ptr[u]].schema)'
  BY <1>2
<1>6. \A u, w \in Threads :
          (/\ pc'[u] \in {"remove", "freeSchema"} /\ pc'[w] \in {"remove", "freeSchema"}
           /\ pair_ptr'[u] = pair_ptr'[w])
             => u = w
  BY <1>3
<1> QED
  BY <1>4, <1>5, <1>6 DEF DroppersApart

\* A thread that has read a pair drops its own table.
LEMMA DropperOf ==
    ASSUME DropInv, NEW t \in Threads, script[t] # <<>>, Op(t) = "deleteTable"
    PROVE  MayDrop(t, Table(t)) /\ Table(t) \in Names
<1>1. 1 \in DOMAIN script[t] /\ Table(t) \in Names
  BY CallOfScript, EmptySeq DEF DropInv, IInv, TypeInv, TypeOK
<1> QED
  BY <1>1 DEF DropInv, DroppersApart, Op, Table

\* The DROPs of the statement in hand are those of the script it comes from.
LEMMA DropCalls ==
    ASSUME DropInv, NEW t \in Threads,
           \/ script'[t] = script[t]
           \/ script[t] # <<>> /\ script'[t] = Tail(script[t])
           \/ script'[t] \in Scripts[t]
    PROVE  \A i \in DOMAIN script'[t] :
               script'[t][i].op = "deleteTable" => MayDrop(t, script'[t][i].table)
<1>1. CASE script'[t] = script[t]
  BY <1>1 DEF DropInv, DroppersApart
<1>2. CASE script'[t] \in Scripts[t]
  BY <1>2 DEF MayDrop
<1>3. CASE script[t] # <<>> /\ script'[t] = Tail(script[t])
  <2> DEFINE s == script[t]
  <2>1. s \in Seq(CallType) /\ s # <<>>
    BY <1>3 DEF DropInv, IInv, TypeInv, TypeOK
  <2> HIDE DEF s
  <2>2. \A i \in DOMAIN Tail(s) : i + 1 \in DOMAIN s /\ Tail(s)[i] = s[i + 1]
    BY <2>1
  <2> QED
    BY <1>3, <2>2 DEF DropInv, DroppersApart, s
<1> QED
  BY <1>1, <1>2, <1>3

\* A step that is none of a DROP's three.
LEMMA DroppersQuiet ==
    ASSUME DropInv, IInv', NEW t \in Threads, OthersKept(t),
           UNCHANGED table_name_mapping, DOMAIN pairs \subseteq DOMAIN pairs',
           \A q \in DOMAIN pairs : pairs'[q].schema = pairs[q].schema,
           \/ script'[t] = script[t]
           \/ script[t] # <<>> /\ script'[t] = Tail(script[t])
           \/ script'[t] \in Scripts[t],
           pc'[t] \notin {"remove", "freeSchema"}
    PROVE  DroppersApart'
<1>1. ASSUME NEW u \in Threads \ {t}
      PROVE  /\ pc[u] = "remove" => Mapped(u)' = Mapped(u)
             /\ pc[u] = "freeSchema" => pairs'[pair_ptr[u]].schema
  <2>1. Mapped(u)' = Mapped(u)
    BY <1>1 DEF Mapped, Table, OthersKept
  <2>2. ASSUME pc[u] = "freeSchema" PROVE pairs'[pair_ptr[u]].schema
    <3>1. pair_ptr[u] \in DOMAIN pairs /\ pairs[pair_ptr[u]].schema
      BY <2>2, PtrAllocated DEF DropInv, DroppersApart, IInv
    <3> QED
      BY <3>1
  <2> QED
    BY <2>1, <2>2
<1> QED
  BY <1>1, DropCalls, DroppersKept

LEMMA QuietDrops ==
    ASSUME DropInv, IInv', NEW t \in Threads,
           \/ Begin(t) \/ RefuseCreate(t) \/ FindTable(t) \/ TableNotExist(t)
           \/ UseSchema(t) \/ UseTable(t)
    PROVE  DroppersApart' /\ FreedOnce'
<1>1. IInv /\ TypeInv /\ pc \in [Threads -> Pcs] /\ script \in [Threads -> Seq(CallType)]
  BY DEF DropInv, IInv, TypeInv, TypeOK
<1>2. OthersKept(t)
  BY <1>1, BeginType, RefuseCreateType, FindTableType, TableNotExistType,
     UseSchemaType, UseTableType
<1>3. /\ UNCHANGED <<table_name_mapping, pairs, fault>>
      /\ script'[t] = script[t] \/ script'[t] \in Scripts[t]
      /\ pc'[t] \notin {"remove", "freeSchema"}
  <2>1. CASE Begin(t)
    BY <1>1, <2>1 DEF Begin, Goto, heapVars
  <2>2. CASE RefuseCreate(t)
    BY <1>1, <2>2 DEF RefuseCreate, Goto, heapVars
  <2>3. CASE FindTable(t)
    BY <1>1, <2>3 DEF FindTable, Goto, heapVars
  <2>4. CASE TableNotExist(t)
    BY <1>1, <2>4 DEF TableNotExist, Goto, heapVars
  <2>5. CASE UseSchema(t)
    BY <1>1, <2>5 DEF UseSchema, Goto, heapVars
  <2>6. CASE UseTable(t)
    BY <1>1, <2>6 DEF UseTable, Goto, heapVars
  <2> QED
    BY <2>1, <2>2, <2>3, <2>4, <2>5, <2>6
<1>4. DroppersApart'
  BY <1>2, <1>3, DroppersQuiet
<1> QED
  BY <1>3, <1>4 DEF DropInv, FreedOnce

\* Copying a pair, giving it up and deleting it leave the schemas alone.
LEMMA OwnerDrops ==
    ASSUME DropInv, IInv', NEW t \in Threads, CopyPair(t) \/ FreePair(t) \/ Return(t)
    PROVE  DroppersApart' /\ FreedOnce'
<1>1. /\ IInv /\ TypeInv /\ pc \in [Threads -> Pcs] /\ script \in [Threads -> Seq(CallType)]
      /\ \A q \in DOMAIN pairs : pairs[q] \in PairType
  <2>1. IInv /\ TypeInv /\ TypeOK
    BY DEF DropInv, IInv, TypeInv
  <2>2. pairs \in Seq(PairType)
    BY <2>1 DEF TypeOK
  <2>3. \A q \in DOMAIN pairs : pairs[q] \in PairType
    BY <2>2
  <2> QED
    BY <2>1, <2>3 DEF TypeOK
<1>2. OthersKept(t) /\ DOMAIN pairs' = DOMAIN pairs
  BY <1>1, CopyPairType, FreePairType, ReturnType
<1>3. /\ UNCHANGED <<table_name_mapping, fault>>
      /\ script'[t] = script[t] \/ (script[t] # <<>> /\ script'[t] = Tail(script[t]))
      /\ pc'[t] \notin {"remove", "freeSchema"}
  <2>1. CASE CopyPair(t)
    BY <1>1, <2>1 DEF CopyPair, Goto
  <2>2. CASE FreePair(t)
    BY <1>1, <2>2 DEF FreePair, Goto
  <2>3. CASE Return(t)
    BY <1>1, <2>3 DEF Return, Goto, At, TypeInv, LocalsOK, LocalOK
  <2> QED
    BY <2>1, <2>2, <2>3
<1>4. ASSUME NEW q \in DOMAIN pairs PROVE pairs'[q].schema = pairs[q].schema
  <2>1. CASE CopyPair(t)
    BY <1>1, <2>1, CopyPairType DEF PairType
  <2>2. CASE FreePair(t)
    BY <1>1, <2>2, FreePairType DEF PairType
  <2>3. CASE Return(t)
    BY <1>1, <2>3, ReturnType DEF PairType
  <2> QED
    BY <2>1, <2>2, <2>3
<1>5. DroppersApart'
  BY <1>2, <1>3, <1>4, DroppersQuiet
<1> QED
  BY <1>3, <1>5 DEF DropInv, FreedOnce

LEMMA CreateTableDrops ==
    ASSUME DropInv, IInv', NEW t \in Threads, CreateTable(t)
    PROVE  DroppersApart' /\ FreedOnce'
<1>1. IInv /\ TypeInv /\ TypeOK
  BY DEF DropInv, IInv, TypeInv
<1>2. /\ OthersKept(t) /\ Table(t) \in Names /\ pairs' = Append(pairs, NewPair)
      /\ table_name_mapping' =
             IF Mapped(t) = NoPair
             THEN [table_name_mapping EXCEPT ![Table(t)] = Len(pairs) + 1]
             ELSE table_name_mapping
  BY <1>1, CreateTableType
<1>3. /\ DOMAIN pairs' = DOMAIN pairs \cup {Len(pairs) + 1}
      /\ \A q \in DOMAIN pairs : pairs'[q] = pairs[q]
  BY <1>1, <1>2, PairAppended
<1>4. script'[t] = script[t] /\ pc'[t] = "done" /\ fault' = fault
  BY <1>1 DEF CreateTable, Goto, TypeOK
<1>5. ASSUME NEW u \in Threads \ {t}
      PROVE  /\ pc[u] = "remove" => Mapped(u)' = Mapped(u)
             /\ pc[u] = "freeSchema" => pairs'[pair_ptr[u]].schema
  <2>1. ASSUME pc[u] = "remove" PROVE Mapped(u)' = Mapped(u)
    <3>1. Mapped(u) # NoPair /\ Table(u)' = Table(u)
      BY <1>2, <2>1 DEF DropInv, DroppersApart, IInv, TypeInv, LocalsOK, LocalOK,
                        OthersKept, Table
    <3>2. Mapped(t) = NoPair => Table(u) # Table(t)
      BY <3>1 DEF Mapped
    <3> QED
      BY <1>1, <1>2, <3>1, <3>2 DEF Mapped, TypeOK
  <2>2. ASSUME pc[u] = "freeSchema" PROVE pairs'[pair_ptr[u]].schema
    <3>1. pair_ptr[u] \in DOMAIN pairs /\ pairs[pair_ptr[u]].schema
      BY <2>2, PtrAllocated DEF DropInv, DroppersApart, IInv
    <3> QED
      BY <1>3, <3>1
  <2> QED
    BY <2>1, <2>2
<1>6. DroppersApart'
  BY <1>2, <1>4, <1>5, DropCalls, DroppersKept
<1> QED
  BY <1>4, <1>6 DEF DropInv, FreedOnce

\* Two DROPs with one pair would be DROPs of one table.
LEMMA ReadPairDrops ==
    ASSUME OneDropper, DropInv, IInv', NEW t \in Threads, ReadPair(t)
    PROVE  DroppersApart' /\ FreedOnce'
<1>1. IInv /\ TypeInv /\ TypeOK
  BY DEF DropInv, IInv, TypeInv
<1>2. /\ pc[t] = "release" /\ pc'[t] = "remove" /\ Op(t) = "deleteTable"
      /\ pair_ptr'[t] = Mapped(t)
      /\ UNCHANGED <<table_name_mapping, pairs, fault, script>>
  BY <1>1 DEF ReadPair, Goto, At, heapVars, TypeOK
<1>3. OthersKept(t)
  BY <1>1, ReadPairType
<1>4. MayDrop(t, Table(t)) /\ Table(t) \in Names
  BY <1>1, <1>2, DropperOf DEF TypeInv, LocalsOK, LocalOK
<1>5. ASSUME NEW u \in Threads \ {t}, pc[u] \in {"remove", "freeSchema"}
      PROVE  pair_ptr[u] # Mapped(t)
  <2>1. CASE pc[u] = "freeSchema"
    BY <1>1, <1>4, <2>1 DEF IInv, PairRead, Mapped
  <2>2. CASE pc[u] = "remove"
    <3>1. MayDrop(u, Table(u)) /\ Table(u) \in Names
      BY <1>1, <2>2, DropperOf DEF TypeInv, LocalsOK, LocalOK
    <3>2. Table(u) # Table(t)
      BY <1>4, <3>1 DEF OneDropper
    <3> QED
      BY <1>1, <1>4, <2>2, <3>2 DEF IInv, PairRead, Mapped
  <2> QED
    BY <1>5, <2>1, <2>2
<1>6. ASSUME NEW u \in Threads \ {t}
      PROVE  /\ pc[u] = "remove" => Mapped(u)' = Mapped(u)
             /\ pc[u] = "freeSchema" => pairs'[pair_ptr[u]].schema
  BY <1>2 DEF Mapped, Table, DropInv, DroppersApart
<1>7. Mapped(t)' = pair_ptr'[t]
  BY <1>2 DEF Mapped, Table
<1>8. DroppersApart'
  BY <1>2, <1>3, <1>5, <1>6, <1>7, DropCalls, DroppersKept
<1> QED
  BY <1>2, <1>8 DEF DropInv, FreedOnce

\* What a DROP removes is what it has read.
LEMMA RemoveTableDrops ==
    ASSUME OneDropper, DropInv, IInv', NEW t \in Threads, RemoveTable(t)
    PROVE  DroppersApart' /\ FreedOnce'
<1>1. IInv /\ TypeInv /\ TypeOK
  BY DEF DropInv, IInv, TypeInv
<1>2. /\ pc[t] = "remove" /\ pc'[t] = "freeSchema"
      /\ table_name_mapping' = [table_name_mapping EXCEPT ![Table(t)] = NoPair]
      /\ UNCHANGED <<pairs, fault, script, pair_ptr>>
  BY <1>1 DEF RemoveTable, Goto, At, localVars, TypeOK
<1>3. OthersKept(t) /\ Op(t) = "deleteTable"
  BY <1>1, <1>2, RemoveTableType DEF TypeInv, LocalsOK, LocalOK
<1>4. MayDrop(t, Table(t)) /\ Table(t) \in Names
  BY <1>1, <1>2, <1>3, DropperOf DEF TypeInv, LocalsOK, LocalOK
<1>5. Mapped(t) = pair_ptr[t] /\ pair_ptr[t] # NoPair
  BY <1>1, <1>2 DEF DropInv, DroppersApart, TypeInv, LocalsOK, LocalOK
<1>6. pairs'[pair_ptr'[t]].schema
  BY <1>1, <1>2, <1>4, <1>5 DEF IInv, MappedAlive, Mapped
<1>7. ASSUME NEW u \in Threads \ {t}
      PROVE  /\ pc[u] = "remove" => Mapped(u)' = Mapped(u)
             /\ pc[u] = "freeSchema" => pairs'[pair_ptr[u]].schema
  <2>1. ASSUME pc[u] = "remove" PROVE Mapped(u)' = Mapped(u)
    <3>1. MayDrop(u, Table(u)) /\ Table(u) \in Names
      BY <1>1, <2>1, DropperOf DEF TypeInv, LocalsOK, LocalOK
    <3>2. Table(u) # Table(t)
      BY <1>4, <3>1 DEF OneDropper
    <3> QED
      BY <1>1, <1>2, <3>1, <3>2 DEF Mapped, Table, TypeOK
  <2>2. pc[u] = "freeSchema" => pairs'[pair_ptr[u]].schema
    BY <1>2 DEF DropInv, DroppersApart
  <2> QED
    BY <2>1, <2>2
<1>8. ASSUME NEW u \in Threads \ {t}, pc[u] \in {"remove", "freeSchema"}
      PROVE  pair_ptr[u] # pair_ptr'[t]
  BY <1>2, <1>8 DEF DropInv, DroppersApart
<1>9. DroppersApart'
  BY <1>2, <1>3, <1>6, <1>7, <1>8, DropCalls, DroppersKept
<1> QED
  BY <1>2, <1>9 DEF DropInv, FreedOnce

\* Nobody else has the pair, so its schema was there and is deleted once.
LEMMA FreeSchemaDrops ==
    ASSUME DropInv, IInv', NEW t \in Threads, FreeSchema(t)
    PROVE  DroppersApart' /\ FreedOnce'
<1>1. IInv /\ TypeInv /\ TypeOK
  BY DEF DropInv, IInv, TypeInv
<1>2. /\ pc[t] = "freeSchema" /\ pc'[t] = "freePair"
      /\ fault' = ~pairs[pair_ptr[t]].schema
      /\ UNCHANGED <<table_name_mapping, script, pair_ptr>>
  BY <1>1 DEF FreeSchema, Goto, At, localVars, TypeOK
<1>3. /\ OthersKept(t)
      /\ \A q \in DOMAIN pairs \ {pair_ptr[t]} : pairs'[q] = pairs[q]
  BY <1>1, FreeSchemaType
<1>4. ASSUME NEW u \in Threads \ {t}
      PROVE  /\ pc[u] = "remove" => Mapped(u)' = Mapped(u)
             /\ pc[u] = "freeSchema" => pairs'[pair_ptr[u]].schema
  <2>1. Mapped(u)' = Mapped(u)
    BY <1>2 DEF Mapped, Table
  <2>2. ASSUME pc[u] = "freeSchema" PROVE pairs'[pair_ptr[u]].schema
    <3>1. /\ pair_ptr[u] \in DOMAIN pairs /\ pairs[pair_ptr[u]].schema
          /\ pair_ptr[u] # pair_ptr[t]
      BY <1>2, <2>2, PtrAllocated DEF DropInv, DroppersApart, IInv
    <3> QED
      BY <1>3, <3>1
  <2> QED
    BY <2>1, <2>2
<1>5. DroppersApart'
  BY <1>2, <1>3, <1>4, DropCalls, DroppersKept
<1>6. FreedOnce'
  BY <1>2 DEF DropInv, DroppersApart, FreedOnce
<1> QED
  BY <1>5, <1>6

\* Where no table has two droppers, a DROP removes the pair it has read and frees
\* it once: the double free of two DROPs of one table (deleteTable in
\* data_store.cc) needs a second dropper of it.
THEOREM FreedOnceByOneDropper ==
    ASSUME OneDropper
    PROVE  Spec => []FreedOnce
<1>1. Init => DropInv
  <2> SUFFICES ASSUME Init PROVE DropInv
    OBVIOUS
  <2>1. \A t \in Threads : script[t] = <<>> /\ pc[t] = "idle"
    BY DEF Init
  <2>2. DOMAIN <<>> = {}
    OBVIOUS
  <2>3. \A t \in Threads : DOMAIN script[t] = {}
    BY <2>1, <2>2
  <2>4. DroppersApart
    BY <2>1, <2>3 DEF DroppersApart
  <2> QED
    BY <2>4, InitInv DEF DropInv, Init, FreedOnce
<1>2. ASSUME DropInv, [Next]_vars PROVE DropInv'
  <2>1. IInv'
    BY <1>2, IInvStep, IInvStutter DEF DropInv
  <2>2. CASE Next
    <3>1. PICK t \in Threads : Begin(t) \/ Step(t)
      BY <2>2 DEF Next
    <3>2. DroppersApart' /\ FreedOnce'
      BY <1>2, <2>1, <3>1, QuietDrops, OwnerDrops, CreateTableDrops, ReadPairDrops,
         RemoveTableDrops, FreeSchemaDrops DEF Step
    <3> QED
      BY <2>1, <3>2 DEF DropInv
  <2>3. CASE UNCHANGED vars
    <3>1. UNCHANGED <<table_name_mapping, pairs, fault, pc, script, pair_ptr>>
      BY <2>3 DEF vars, heapVars, localVars
    <3>2. DroppersApart'
      BY <1>2, <3>1 DEF DropInv, DroppersApart, MayDrop, Mapped, Table
    <3> QED
      BY <1>2, <2>1, <3>1, <3>2 DEF DropInv, FreedOnce
  <2> QED
    BY <1>2, <2>2, <2>3
<1>3. DropInv => FreedOnce
  BY DEF DropInv
<1> QED
  BY <1>1, <1>2, <1>3, PTL DEF Spec
=============================================================================
