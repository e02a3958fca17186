# OpenMemDB in TLA+

OpenMemDB (`src/database/`) is an in-memory SQL database server.  Clients
connect over TCP and send one statement at a time; a manager thread turns each
packet into a job for one of the worker threads; the workers parse the
statement, with a parser that the Lemon generator in `tools/` makes during the
build, and run it on tables that no lock protects: they are the wait-free
vectors and hash maps of the Tervel library.  This directory holds TLA+ modules
of that server, the TLC configurations that check them on small instances, and
TLAPS proofs of what holds on every instance.

All paths below are relative to `src/database/`.

## 1. Inventory

| part | code | state | module | status |
|---|---|---|---|---|
| rows of a table | `source/data/data_store.cc`, `include/data/{table,types}.h` | vector of record pointers, `record_counter` | `RowOps`, `TableRows`, `TableScans`, `AtomicTable`; proofs in `TableRowsProofs`, `TableScansProofs` | modelled |
| searches of nested predicates | `data_store.cc:572-1047`, `source/sql/predicate.cc`, `source/sql/statements/expression.cc` | expression tree, predicate tree, the results of each scan | `NestedSearch`; proofs in `NestedSearchProofs` | partly |
| catalog of tables | `source/data/data_store.cc`, `include/data/{data_store,table,hash_functor}.h` | map from name hash to `SchemaTablePair` | `Catalog`, `AtomicCatalog`; proofs in `CatalogProofs` | modelled |
| manager and workers | `source/workmanager/`, `include/workmanager/` | connections, futures, job-to-connection map, job queues, condition variables | `Dispatch`, `RequestServer`, `ResultWire`; proofs in `DispatchProofs` | modelled |
| network connection | `source/util/network/` | descriptors and their streams | `Dispatch`, `ResultWire` | partly |
| wire format | `source/util/common.cc`, `include/util/packets.h`, `libomdb/serialization_helper.cc` | packets | `ResultWire`; proofs in `ResultWireProofs` | partly |
| client library | `libomdb/connection.cc`, `libomdb/libomdb_result.cc` | socket, result cursor | `Dispatch`, `ResultWire` | partly |
| statement builder and grammar | `source/sql/statements/builder.cc`, `include/sql/parser/parse.y` | the statement being built | `SqlGrammar`, `StatementBuilder`; what becomes of its parts in `RowOps`, `NestedSearch`, `ResultWire` | modelled |
| vector accessor | `include/data/accessor.h` | per-record reference count, hazard pointer | its reads in `TableRows` | partly |
| tokenizer, parser driver | `source/sql/parser/omdb_parser.cc`, `source/sql/common.cc` | tokens of a text, one parser per worker | `Tokenizer`, `SqlSession`, `SqlAutomaton`, `SqlTokens`, `SqlTexts`; proofs in `SqlTokensProofs` | modelled |
| Lemon parser generator | `tools/lemon/lemon.c`, `tools/lemon/lempar.c` | states, actions and tables of a grammar; the stack of a parser | `Lemon`, `Lempar`, `LemonParsers` | partly |
| SQL value types | `source/sql/types/`, `include/sql/types/` | none | - | not modelled |
| `main` | `source/main.cc` | command line, termination flag | the end of the loop in `Dispatch` | not modelled |
| Tervel | not in the repository | wait-free vector, hash map, hazard pointers | assumed atomic | external |
| SQLite's grammar, tests | `include/sql/parser/sqlite_parse.y`, `tests/` | - | - | not modelled |

### Rows of a table

*State.*  `DataTable::records`, a Tervel vector of `ValuePointer<Record>`, and
the atomic `record_counter`.  Records are immutable: an UPDATE allocates a new
one and swaps the pointer in the slot.

*Operations.*  `insertRecord` (load the counter for AUTO_INCREMENT columns, check
the constraints, `fetch_add`, `push_back`), `updateRecords` and `deleteRecords`
(search for references, then look for each reference again and `cas` its slot;
a delete also calls `eraseAt`), `getRecords` (scan and copy).

*Interaction.*  All workers call these on the same table with no lock.

*Hard.*  Every operation is a run of single atomic steps: slots move under a
scan when another thread erases, a slot changes between the two reads of an
accessor, an index read before an erasure is used after it.

*Correct when.*  No row is doubled, lost or brought back by a race; an update
changes the rows it selected, in the version it selected; a delete erases only
what it selected; what a statement reports agrees with what it did; what is in
the table during a whole scan is seen by it; every statement ends.

### Catalog of tables

*State.*  `table_name_mapping`, a Tervel hash map from the hash of a name to a
`SchemaTablePair`: a raw `TableSchema*` and a `shared_ptr<DataTable>`.

*Operations.*  `createTable`, `deleteTable`, and the lookups `getTablePair`,
`getTableSchema`, `getColumnIndex` under INSERT, UPDATE and SELECT.

*Interaction.*  Any worker may create, drop and look up any table.  One statement
makes several calls: it is built from a schema looked up first and carried out
on a table looked up later.

*Hard.*  A drop between two calls of one statement, or within one; two drops of
the same table; the reference count of the table against the plain pointer to
the schema.

*Correct when.*  Each call takes effect at one moment; memory is freed once, and
not while in use; a statement works on the table it was built for; each ends.

### Manager and worker threads, network connections

*State.*  In the `WorkManager`: the connections, the futures being polled, the map
from job number to connection, the round-robin index.  In each `WorkThread`: a
queue and a condition variable, and the `packaged_task`s with their futures.
In the kernel: descriptors and their streams.

*Operations.*  `WorkManager::Run` repeats: accept one connection, receive from
each connection and queue a job for each packet, collect the futures that are
ready, send their results.  `WorkThread::Run` waits (at most 15 ms), pops a job
and runs it.

*Interaction.*  The manager enqueues on a worker's queue, which is Tervel's and has
no lock, and notifies without the worker's mutex; results return through futures; results are sent to whatever connection the
job-to-connection map names.

*Hard.*  Lost notifications; results that overtake one another; a client that
leaves while its job runs, and whose descriptor is reused; packets that arrive
in parts; exceptions in a job; an index that is larger than the pool.

*Correct when.*  Every command is carried out once, and its result reaches the
client that sent it, once; a client cannot stop the server or hold up another.

### Conditions: builder, predicates and joins

*State.*  The expression tree the grammar actions grow, the predicate tree made
of it, and for each comparison the rows its scan collected.

*Operations.*  `StartNestedExpr` and `addValueExpr` in the builder,
`makePredicateFromExpression`, `searchTables` and `searchTablesForRefs`.

*Interaction.*  A condition of n comparisons scans the table n times while other
workers change it, and joins what the scans collected by record id.

*Hard.*  Each scan sees another table; ids are not as unique as the join needs;
a comparison that cannot be translated leaves a null pointer or no children.

*Correct when.*  A row that nobody touches is selected when it meets the whole
condition and only then; none is selected twice; the search ends.

### Results: select list, packets and the client's cursor

*State.*  The select list, the joint result of the job, the socket, and the
client's two packets and its rows.

*Operations.*  The builder's column functions, `ExecuteStatement`, `SendResult`,
`Connection::send`, and on the client `executeQuery`, `executeCommand`,
`parseData`, `Result::next`.

*Interaction.*  The server sends two packets without blocking; the client reads
each with one `recv` and finds the size of the second in the first.

*Hard.*  A send that takes a part or nothing; a `recv` that returns a part; the
reply to a command and to a query have the same shape and other meanings.

*Correct when.*  Both sides agree where a packet begins; the cursor shows each
selected record once, with the columns asked for; every call returns.

### Texts: tokenizer, generated parser, builder

*State.*  The tokens of a text; the stack of the worker's parser, which is a
thread-local kept from one text to the next; the `StatementBuilder` of the text,
with its statement, the condition so far and the constraints of the column being
read.

*Operations.*  `tokenize`; `Parse`, once per token and once for the end of the text;
the code of each rule of `parse.y`, which calls a function of `builder.cc`.

*Interaction.*  A worker calls `parse` for each job.  The tables `Parse` goes by were
made by Lemon of `parse.y`.  The builder asks the data store for schemas.

*Hard.*  A token nothing takes is thrown away and the parse goes on, after default
reductions have already run the code of some rules; that code casts the statement
to the kind it expects.  The tokenizer lists the `=` of `!=` a second time and
counts on such tokens being thrown away.  A stack that overflows is emptied in the
middle of a text.  The grammar has conflicts, which precedences resolve.

*Correct when.*  A text of the dialect becomes the statement it asks for; any other
text leaves nothing behind, in the builder or on the stack; no rule's code meets a
statement it is not for.

### Lemon

*State.*  What `main` of `lemon.c` computes of a grammar, call by call: lambdas and
first sets, states and their links, follow sets, actions, default actions, the
order of the states, and one packed table for all of them.

*Hard.*  Follow sets are propagated until nothing changes; states share cells of the
packed table; default reductions and the merging of a shift with the reduction
behind it must not change which texts are taken.

*Correct when.*  The parser takes the sentences of a grammar and builds the tree its
precedences ask for, never shifts a token the grammar has no place for, and
returns from every call.

## 2. Plan

| order | modules | promise | state |
|---|---|---|---|
| 1 | `RowOps`, `TableRows`, `TableScans` | `AtomicTable` | checked; safety proved, what needs it without deletes |
| 2 | `Dispatch` | `RequestServer` | checked; safety proved |
| 3 | `Catalog` | `AtomicCatalog` | checked; safety proved |
| 4 | `NestedSearch` | what a condition says of rows at rest | checked, for one table; safety proved, what needs it without deletes |
| 5 | `ResultWire` | the answer the text asks for | checked, for one client; safety proved |
| 6 | `TableRowsProofs`, `TableScansProofs` | step simulation of `AtomicTable` | done |
| 7 | `CatalogProofs` | step simulation of `AtomicCatalog` | done |
| 8 | `DispatchProofs` | step simulation of `RequestServer` | done |
| 8 | `RecursionProofs`, `ResultWireProofs` | | done |
| 8 | `NestedSearchProofs` | | done |
| 9 | `Lemon`, `Lempar`, `LemonParsers` | LALR(1) sets by their definition; derivations | checked on five small grammars |
| 9 | `SqlGrammar`, `StatementBuilder`, `SqlSession`, `SqlTokens` | | checked for any tokens; safety proved |
| 9 | `Tokenizer`, `SqlTexts` | the statement a command asks for | checked for the dialect |
| 10 | `SqlAutomaton`, `SqlTokensProofs` | facts about the tables of `parse.y` | done |
| 11 | `NestedSearch` over two tables | | planned |
| 12 | `Accessor`: the reference count of a record | increments undone | planned |

`TableRows` EXTENDS `RowOps`; `TableScans` EXTENDS `TableRows` with a history
variable and instantiates `AtomicTable`; `NestedSearch` EXTENDS `TableRows`, whose
workers run beside its search and whose steps apply its references; `Dispatch`
and `Catalog` instantiate their promise.  `MC*` modules give the constants values.
`Dispatch` gives a job an outcome where `TableRows`, `NestedSearch` and `Catalog`
give it steps and `ResultWire` gives it a result: they meet at
`WorkThread::ExecuteStatement`, which calls the data store and shares no other
state with it.

## 3. The modules and the code

Names are the source's wherever TLA+ allows it; `PROJECT.json` maps each
definition to its lines.  Throughout, an operation of Tervel (one call of `at`,
`cas`, `push_back`, `eraseAt`, `insert`, `remove`) is one atomic step, because
that is what the library offers and its source is not part of the repository.
Logging and layout are left out; a row, a column and a packet are members of
small sets.

### `RowOps`, `TableRows`

One action for each access to shared memory that a statement makes:

| code | actions |
|---|---|
| `insertRecord`, `schemaChecker` | `RejectRow`, `CheckRow` (reads the counter), `CountRow` (`fetch_add`), `PushRow` |
| `searchTable`, `searchTableForRefs`, the copy in `getRecords` | `BeginScan` (reads the length), `SearchRead`, `SearchCheck` |
| `updateRecords` | `ReadSize`, `FindRead`, `FindCheck`, `UpdateSlot` (`cas`) |
| `deleteRecords` | the same, then `ClearSlot` (`cas` to null), `EraseSlot` (`eraseAt`) |
| a statement that is refused, or returns | `RefuseFullTable`, `Return` |
| an accessor on the null of an unfinished delete | `NullDereference`, which ends the run |

`versions` numbers the allocated records, and pointers are these numbers.  A
pointer is never reused, as records are freed only with the table.  The vector
is 1-based.  `origin` is a history field: the insert a version goes back to.

What is simpler than the code:

* `schemaChecker` loads the counter once for each AUTO_INCREMENT column; `CheckRow`
  loads it once for the row.
* `Satisfies` compares values.  In the code it compares whole words: the word an
  AUTO_INCREMENT column gets is tagged INTEGER while literals are BIG_INT, so in
  the code such a column equals no literal.  The instances put conditions on
  other columns.
* The null bit and the type tag are not modelled.
* Deletes are part of the module because `deleteRecords` is a public method of the
  `DataStore`.  The SQL grammar cannot reach it: the action for DELETE adds a
  table to a builder that was never started (`parse.y:238`).

### `TableScans`, `AtomicTable`

`TableScans` adds `found`, the table as each statement found it.  `AtomicTable` is
the promise: a statement is not atomic, but each row changes in one step, and a
row an UPDATE changes satisfies its predicate at that step.  The refinement maps
the slots to a function from origins to columns.

### `NestedSearch`

One `Searcher` runs a SELECT or UPDATE with a condition; the other threads are
workers of `TableRows`.  `BuiltTree` folds the condition the way the grammar
reduces it: AND and OR have one rule, so every tree leans to the left.
`LeavesOf` is `makePredicateFromExpression`, with what each failure leaves behind;
`ScanLeaf`, `ReadRow`, `CheckRowRead` are the scan of one comparison, `JoinLeaf`
the sorted intersection or union by id, `FinishSearch` hands the references to
the steps of `TableRows`.  `outcome` says what became of a search that could not
start: an exception, a null dereference, a failed assertion, the whole table.

`std::sort` is unstable, so which of several results with one id is copied is a
choice.  An unset literal is any member of `Garbage`.  All comparisons name the
statement's own table.  The instance has no deletes: SQL cannot reach them.

### `Catalog`, `AtomicCatalog`

A statement is the sequence of `DataStore` calls it makes.  A pair, its schema and
its table are allocated together and share a number; `owners` is the table's
`shared_ptr` count.

| code | actions |
|---|---|
| `createTable` | `RefuseCreate`, `CreateTable` |
| `at`, which takes an accessor | `FindTable`, `TableNotExist` |
| `deleteTable` | `ReadPair` (releases the accessor), `RemoveTable` (the loop), `FreeSchema`, `FreePair` |
| `getTablePair`, `getTableSchema`, `getColumnIndex` and what uses the copy | `CopyPair`, `UseSchema`, `UseTable`, `Return` |

`remove` fails while the name is absent or an accessor is on it; that is what the
loop in `deleteTable` relies on.  Once a schema was deleted twice the heap is
corrupt and the model stops (`fault`).  The loop of an UPDATE that asks for a
schema again after a failure, failing allocations and two names with one hash
are left out.

### `Dispatch`, `RequestServer`

`at` is the place of `WorkManager::Run` in its loop of four phases: accept,
receive (with `Notify` as a step of its own after the job is enqueued; neither takes
the worker's mutex), collect, send.  A worker is `CheckQueue`, `Block`, `WaitTimesOut`, `Dequeue`,
`Execute`; between `CheckQueue` and `Block` a notification is lost.  `connections`
holds descriptors, `sockets` says whose socket a descriptor is now, and
`job_to_connection` keeps the descriptor a job came from.

| code | actions |
|---|---|
| `accept4`, its errors | `Accept`, `NothingToAccept`, `AcceptFails` |
| `ReceiveCommand`, per connection | `ReceiveCommand`, `Notify`, `ReceiveNothing`, `ReceiveClose`, `ReceiveError`, `ReceiveEnd` |
| the `remove_if` over the futures | `FutureNotReady`, `CollectResult`, `CollectException`, `CollectEnd` |
| `SendResult` | `SendResult`, `SendLost`, `SendToClosedEnd` (SIGPIPE), `SendEnd` |

A client is the library: one command, then its answer.  A client leaves only
after it was accepted, the accept queue has no order, and the next packet of a
client that had one split comes after the parts of the first were read.  A
`recv` error keeps its descriptor, as in the code.  `PoolSize` is the 8 that
`GetAvailableThread` wraps at.  The end of the loop is the end of the process.

### `ResultWire`

One client and its connection.  `SelectQuery` is the builder's select list
(`AddSelectAllColumns`, `AddQualifiedSelectColumn`), `QueryResult` what
`ExecuteStatement` makes of the records, `MetaDataPacket` and `ResultPacket` what
`SendResult` serializes; `SendMetaData` and `SendData` are its two sends, which may
accept a part or nothing.  `RecvMetaData` and `RecvResult` are the client's two
`recv`s, `DeserializeResultPacket` and `ParseData` its reading, `NextRow` and
`NoMoreRows` the console's loop over the cursor.

A packet is a sequence of cells, cut between cells only.  `dead` is a client that
divided by a row length of 0, or read a column its row does not have;
`confused` is one that took something else for a packet, after which it is not
followed.  A select list over two tables and an index beyond the record (a
column that does not exist) are not followed either: the index is that of any
column.  What a command's reply copies from behind its packet is taken as
absent.  A SELECT whose query fails ends in `assert(false)` (`work_thread.cc:172`): the
model asks for tables that are there and has no such query.

### `Lemon`, `Lempar`, `LemonParsers`

`Lemon` has one operator for each thing a function of `lemon.c` computes; lists are
sequences in the order the code leaves them in, because the numbers of states and
the place of an action in the table depend on it.  For `parse.y` the tables of the
model were compared once with those Lemon writes: `yy_action`, `yy_lookahead`,
`yy_default` and the offsets are the same.  `Propagate` goes over the configurations
as `FindFollowSets` does, in rounds, past those that are COMPLETE, and `Visit` makes
INCOMPLETE what has grown; the other loops to a fixed point have no marks and are
written as one.

`Lempar` is `main` (`GenNext` has one disjunct per call, `ReportTable`, `Compile`) and
the driver: `Parse` begins a call, `ShiftToken`, `ReduceTo` and `SyntaxError` are one
turn of its loop.  `LemonParsers` feeds texts of any tokens to the parser of each
grammar in `MCLemonParsers` and compares what it builds with the grammar: lambdas,
first and follow sets by their definition, derivations, and the tree that the
precedences ask for.  `Compile` goes on where `main` exits with 1, which is for a
conflict no precedence resolves or a rule that is never reduced
(`lemon.c:1134`, 1643): the tables are written before that, and the grammars of
`MCLemonParsers` with such conflicts check more than a build would use.

Left out of `lemon.c`: the parser of grammar files, the hash tables, reports and the
printing of C.  Left out of `lempar.c`: `%fallback`, `%wildcard` and an error symbol,
which `parse.y` has none of, and `yyerrcnt`, which decides how often `%syntax_error`
is run.

### `SqlGrammar`, `StatementBuilder`, `Tokenizer`

`SqlGrammar` is `parse.y`, rule by rule in its order; the name with a rule is the
function its code calls.  `StatementBuilder` is that code, from builder to builder.
`Detail` FALSE keeps of a statement its type and of a condition its shape, so that
texts of any length have finitely many builders.  A column an UPDATE does not find
leaves `column_idx` uninitialised, and the write through it (`builder.cc:315`) is taken
as a write to no column; `runnable` (`builder.cc:299`, 318) is left out.

`Tokenizer` reads a text whose letters are single digits and symbols and whole runs
of alphabetic characters: where a word begins and ends, which words are keywords
and what follows a number is as in the code, spelling is not a question.  A number
is its digits.  What the code does to numbers with a point, a colon or dashes is
kept: a point ends the token before it, `1.` lists the last token again, a colon
gives a null token, and a date is never recognised, as it is looked for in five
characters behind the first dash.

### `SqlSession`, `SqlAutomaton`, `SqlTokens`, `SqlTexts`

`SqlSession` is a worker's parser with the builder of a text: `ParseToken` and
`ParseEnd` are the calls of `parse`, `DoReduce` runs the code of a rule before the goto,
`DoError` is the token thrown away or, at the end, `%parse_failure`.  Where the code
of a rule would take a statement for one of another kind, or follow the null token
of a TIME, its behaviour is undefined; the model then ends the server (`Die`) and
starts it again (`StartAgain`).

`SqlAutomaton` is the automaton in the tables of a grammar: its states are what the
driver keeps on its stack, its steps the shifts and gotos, its items the
configurations Lemon made each state of.  `AutomatonFits` says of it what the proofs
of section 6 rest on.  Each part is about one state, one rule, one step or two in a
row; none is about texts or stacks.  They are an ASSUME of the module, and in
`sql_tokens` TLC evaluates it for the tables that the calls of `main` give for
`parse.y`.

`SqlTokens` gives it any token at any time.  `SqlTexts` is the whole of `parse`: a text,
`Tokenize`, one `Parse` per token, `Return`.  Its commands are records, written out as
text by `Written` with or without the optional spaces, and `StatementOf` and
`ConditionOf` say what statement each asks for; `Wild` texts come between them.
`TK_ILLEGAL` is 51, a number `parse.h` was given by hand and the tables use for a
nonterminal; the model feeds that number.

## 4. What the runs check

| run | instance | shows |
|---|---|---|
| `table_updates` | 2 workers × 2 statements, 2 rows | without deletes the rows implement `AtomicTable`; a row nobody touched is seen; no matching row is left as found; every statement is answered |
| `table_deletes` | 3 workers × 1 statement, 3 rows | no row in two slots, none collected twice, none brought back, though slots move |
| `dispatch_orderly` | 2 patient clients × 2 commands, 2 workers | every answer reaches its client; the server implements `RequestServer`, its liveness included; no deadlock |
| `dispatch_wild` | 3 clients on 2 descriptors, 1 worker, indices to 2 | no job twice, no answer twice, no descriptor twice in the list, with splits, errors, exceptions and departures |
| `catalog_droppers` | 3 threads × 2 statements, 2 names | each call atomic; no freed pair is read; owners counted; only a DROP that lost may never end |
| `nested_joins` | every shape of condition to 3 comparisons, one worker × 2 statements, 2 rows | what a condition selects beside a worker |
| `wire_replies` | 3 calls; 0, 1, 2 records; 1 to 3 columns | both sides in step, answers as asked, calls return |
| `lemon_parsers` | 5 grammars of 3 to 10 rules, texts to 7 tokens, a stack that overflows | follow sets are LALR(1); packing keeps every action; sentences are accepted and get the tree their operators ask for; no token without a place is shifted; `Parse` returns |
| `sql_tokens` | 32 kinds of token in any order and number, text after text | the stack of `parse.y` needs 16 of its 100 entries and is empty after each text; a text not accepted leaves no statement; the code of rules meets the statement it casts to; conditions are whole |
| `sql_texts` | 1592 texts of commands over two tables, 2809 other texts | a command is read as the statement it asks for, after any text |
| `table_auto_increment`, `catalog_schema` | | the disagreements of section 7 |

*Why these bounds.*  The races of the row store are between one thread that reads
a slot and one that changes it: two workers have all of them, and two statements
each let a thread work on what the other left.  Two rows are the least that a
selection can divide; three let an erasure move a row past a scan and a second
one move it again.  `table_deletes` has three workers because a reader beside two
erasing threads is the case that could collect a row twice.  A catalog needs two
threads that drop one name, and a third that creates it again.  In `Dispatch` two
clients are enough for results to cross; a third one, on two descriptors, is
needed for a descriptor to be reused while another is open.  `wild` has fewer
workers than indices, so the access beyond the vector occurs.  Three comparisons
are the least where left-to-right and precedence differ.  Three calls of a client
let a packet of the first be taken for one of the third.


The grammars of `lemon_parsers` are small ones with operators of every kind of
precedence, empty rules before and behind a command, lookaheads that depend on the
context, a rule with a choice of terminals, and conflicts no precedence resolves;
`StackDepth` 6 is low enough for texts of seven tokens to overflow the stack.
`sql_tokens` has no bound on texts: `Detail` is FALSE and `commands` counts to 2,
where 2 stands for more, and 16 is the least bound that holds.  Of the tokens the
grammar treats alike one stands for all: ALL for DISTINCT, INTEGER for FLOAT and
DATE.  A token no rule holds (BETWEEN, LE and their like) is an error in every state,
and every state has one of the 32 kinds that is an error there too; STRING is never
made by `tokenize`.  In `sql_texts`
conditions have up to three comparisons and lists up to two members, as a third
takes the same states of the parser; the other texts are all of up to four letters
over seven, and some that reach the rest of the tokenizer.

*Bounds by name.*  `MaxRequests`, `MaxStatements`, `MaxCommands` and `MaxCalls` bound
the statements, `MaxTokens` the tokens of a text in `lemon_parsers`, `MaxDigits` the
numbers that fit; nothing else is bounded, as versions, pairs and jobs grow only
with these.

`dispatch_wild` takes the two clients that may leave as symmetric: they have the same
actions, and the run has invariants only.

*CHECK_DEADLOCK FALSE* is in every configuration but `Dispatch_orderly.cfg`, whose
manager never stops, and those of the parsers, which always can go on: in the
others every thread ends its statements and the instance stops, the process
may end (`dispatch_wild`), or the client may be dead or wait for a dropped packet
(`wire_replies`).

## 5. Fairness

`FairSpec` of each module asks for weak fairness of the steps of a running
statement, never of its beginning: a worker is a thread of its own, which the
system schedules, and no step of a statement waits for a lock.  `RemoveTable` is a
loop around a `remove` that fails for a time; it is a step that is enabled when the
call would succeed, and the lookups that could disable it again are bounded.
`Dispatch` asks for weak fairness of the manager as a whole, whose sockets are all
non-blocking, and of each worker; its timeout of 15 ms is what makes a lost
notification harmless, and with `WaitForever` in its place `ImplementsServer`
fails.  Clients are under no obligation, except that one that has called waits in
`recv` and so reads what arrives (`ResultWire`).  `LemonParsers` asks for weak
fairness of the turns of `Parse`, which is one loop of one thread that calls
nothing that waits; the next token is under no obligation.  The other parser
modules state safety only.

## 6. What is proved

Each theorem holds for any number of threads, tables, columns, rows, clients,
statements and jobs that the constants' ASSUMEs admit; TLC evaluates these in
every run of the module.  A hypothesis a theorem has beyond them is named below,
and is part of its statement.  Every inductive invariant was first checked by
TLC on the instance of its run; that of `SqlTokensProofs`, which takes long to evaluate,
on fewer kinds of token to the end and on all of them for the first 100000 states.

### The row store: `TableRowsProofs`, `TableScansProofs`

| theorem | states | hypothesis |
|---|---|---|
| `TypeCorrect` | `Spec => []TypeOK` | |
| `RowsStayDistinct` | `Spec => []RowsDistinct` | |
| `DeletedRowsStayDeleted` | `Spec => NoResurrection` | |
| `SearchesStayDistinct` | `Spec => []SearchDistinct` | |
| `TableAtomic` | `HistorySpec => ImplementsAtomicTable` | `NoDeletes` |
| `SearchesComplete` | `HistorySpec => []StableRowsSeen` | `NoDeletes` |
| `UpdatesComplete` | `HistorySpec => []MatchingRowsReplaced` | `NoDeletes` |

The ASSUMEs say: columns are not none, constraints are lists of the four kinds,
DEFAULTs and preloaded rows have the columns of the table, NULL is not a number,
an UPDATE has a value or NULL for every column (the builder's `FullRecord`).
`NoDeletes`, that no statement is a DELETE, is true of every statement SQL can
send (section 3); the other four theorems hold with deletes.

`TypeOK` is not inductive: that a reference read through `ref` exists, that the row
about to be numbered is full and that the pointer about to be pushed is not null
depend on the program counter.  `LocalsOK` says so, and `TypeInv` is both.

`RowsDistinct` is not inductive either: two inserts that have numbered their
records and not pushed them yet could carry one number, or one that is already in
the table.  `DistinctInv` adds `RowsCounted` (every row's origin is below the
counter) and `PendingNew` (so is that of a pending record, and it differs from all
rows in the table and all other pending records).  Every other step leaves in
each slot a row that came from a slot of its own (`ComesFrom`): the same one for
an update whose `cas` hit, the next for the slots behind an erasure.  For an update
that needs the `cas`: the version it writes has the origin of the version it
compared with, which is the one it replaces.  One lemma (`DistinctKept`) carries
all these steps; `CountRow` and `PushRow` are argued separately.  `NoResurrection`
is an action property and follows from the same invariant.

A scan that others' deletes shift could meet a row again only if rows moved away
from the front.  They do not (`MoveDown`): so what a search has collected stays in
front of its index (`CollectedBehind`), and a row pushed since is younger than any
it holds.  `SearchInv` is `DistinctInv` with this of every search.

Without deletes no slot is ever null and no row moves.  `KeepInv` says this
(`NoNulls`) and that what a statement has collected satisfied its predicate
(`StatementOK`), so each `cas` that hits is the one step of `AtomicTable` that changes
this row.  `ScanInv` adds how far each scan has come: of the rows the statement
found and nobody has touched since, those in front of its index that match are
collected, and of the collected ones those in front of `ref` are replaced.

### The catalog: `CatalogProofs`

| theorem | states | hypothesis |
|---|---|---|
| `TypeCorrect` | `Spec => []TypeOK` | |
| `MappedStayAlive` | `Spec => []MappedPairsAlive` | |
| `OwnersStayCounted` | `Spec => []OwnersCounted` | |
| `CatalogAtomic` | `Spec => ImplementsAtomicCatalog` | |
| `FreedOnceByOneDropper` | `Spec => []FreedOnce` | `OneDropper` |

`IInv` adds to the properties what the program counter says of the locals
(`LocalsOK`), that an accessor holds a mapped pair (`AccessorsHold`), that no pair is
mapped to two names (`MappedOnce`), and what a DROP has freed of its pair at each of
its steps (`FreeingOK`).  Counting needs that the users of a pair are a finite set
whose cardinality a step changes by at most one.

`FreedOnce` does not hold of two DROPs of one table: `deleteTable` reads the pair,
releases the accessor, and removes a name that may by then be another's.  With one
thread per name that may drop it (`OneDropper`; others may look it up and create it
again) `DroppersApart` is inductive: the name stays mapped to the pair the DROP has
read until it removes it.

### Manager and workers: `DispatchProofs`

| theorem | states | hypothesis |
|---|---|---|
| `TypeCorrect` | `Spec => []TypeOK` | |
| `PolledOnce` | `Spec => []ConnectionsDistinct` | |
| `JobsRunOnce` | `Spec => []NoJobTwice` | |
| `ResultsDeliveredOnce` | `Spec => []AnsweredOnce` | |
| `AnswersReachTheirClients` | `Spec => []AnswersMatch` | `Orderly` |
| `ServesRequests` | `Spec => Server!Init /\ [][Server!Next]_(Server!serverVars)` | `Orderly` |

`IInv` is `TypeOK`, `ConnectionsDistinct`, `QueueInv` and `ResultInv`: a job is in one
queue, once, or with one worker, and pending; its future is polled, or its result
is on its way, or it was delivered to one client, and never two of these.

`Orderly` says that no client leaves before its answer and that no packet is split
and no `recv` fails; without it answers do reach the wrong client (section 7).  Then
`OrderInv` holds: a client has at most one command under way, anywhere between its
socket and its answer, and the descriptor of that job is still its own.  `CountInv`
counts with it: what was carried out for a client is what it received, and one more
while a result is under way.  That is the refinement mapping of `RequestServer`; its
fairness is left to TLC.

### The wire: `ResultWireProofs`, `RecursionProofs`

| theorem | states | hypothesis |
|---|---|---|
| `WireTyped` | `Spec => []WireTypeOK` | |
| `StaysInStep` | `Spec => []InStep` | |
| `ReportsAnswers` | `Spec => []AnswerReported` | `DistinctColumns` |

The ASSUMEs give statements, records and commands' results their types, and an
empty connection room for a metadata packet.  `DistinctColumns`, that a table names
no two columns alike, is needed because a name otherwise asks for any of them.

`PhaseInv` is what makes the rest inductive.  As long as no `recv` was short the stream
holds nothing; or all of the metadata; or these and as many cells of the result as
were accepted; or, once the client has read the metadata, these cells alone.  After a
short `recv` the client meets the columns where it looks for a result, or a word where
it looks for metadata, and never opens a cursor over either.  `OpenInv` says of an open
cursor that its rows, those shown and those to come, are the answer's in reverse, word
for word but for the words a cut packet lacks.

What the server flattens (`FlattenSeq` of the rows) and the client takes apart again
(`ParseData`) is related by position: word i of row r stands at (r - 1) * l + i.
`RecursionProofs` has the facts on recursive functions this rests on: that a function
defined by steps on 0 .. n exists and obeys its steps, that `FlattenSeq` appends part by
part, and the arithmetic of rows of one length.  `SelectFits` uses the same for the
select list, column by column.

### Searches of conditions: `NestedSearchProofs`

| theorem | states | hypothesis |
|---|---|---|
| `SearchTyped` | `SearchSpec => []SearchTypeOK` | |
| `UntouchedSelected` | `SearchSpec => []UntouchedRowsSelected` | `NoDeletes` |
| `SelectedMeetCondition` | `SearchSpec => []SelectedRowsMeetCondition` | `NoDeletes` |
| `SelectedOnce` | `SearchSpec => []RowsSelectedOnce` | `NoDeletes` |
| `SelectedReplaced` | `SearchSpec => []SelectedRowsReplaced` | `NoDeletes` |

They hold for conditions of any length, any statements, and any number of threads
that insert, update and search beside the one that runs the condition, which has no
statements of its own.  The properties carry their premises: a tree of value
predicates, and ids that tell apart the rows the search could see (`Distinguished`).
Without the second, joins by id mix rows up (section 7).

The scans of one condition see the table at different times, so nothing is true of
all of them but for the rows nobody touches.  `SelectInv`, the inductive invariant,
follows these (`Untouched`: live at the parse and live now).

* `WindowOK`: no record that was in the table since the parse comes back, as a row yet
  to be pushed has an origin of its own.  So an untouched row stays in its slot and no
  other version of it is ever met (`UntouchedOK`).
* `SeenOK`: of the untouched rows, a scan has collected those behind its index that meet
  its comparison; its length, read once, covers them all.
* `BehindOK`, `HitsOK`: what it has collected met the comparison, each row once, because
  the row it looks at differs from all behind it; and what an earlier scan found of the
  same row is the same record, or gone.
* `JoinedOK`: up to the last leaf the result has every untouched row for which that part
  of the condition holds, only such rows of those still in the table, and no id twice.
  This is what survives a join: with unique ids `std::set_intersection` and
  `std::set_union` are the AND and the OR of two sets of ids (`IntersectionById`,
  `UnionById`), and equal ids are equal records where the row is untouched.
* `ReplaceOK`: of the selected rows that are still untouched, none is behind `ref`, and
  none named by the current reference is behind `idx`.

The truth of a condition is a recursive function over its leaves, `Truth`, and the tree
the grammar builds another, `BuiltTree`; `TruthByLeaf` and `BuiltTreeShape` give their
equations, from `RecursionProofs`.  What the other threads' steps do to the rows
(`RowsGrow`, `PendingSince`, `VersionsGrow`) is proved once in `TableRowsProofs`, for
this module and for `TableScansProofs`.

### Any text: `SqlTokensProofs`

| theorem | states |
|---|---|
| `StacksStayBounded` | `Spec => []StackBounded` |
| `FailuresLeaveNothing` | `Spec => []FailureLeavesNothing` |
| `CodeFindsItsStatement` | `Spec => []CodeFitsStatement` |
| `ConditionsComplete` | `Spec => []ConditionComplete` |
| `GotosAreFound` | `Spec => []GotosFound` |

They hold for texts of any length, of any of the grammar's tokens and letters the
tokenizer does not know, one after the other on one parser, with any tables and
columns, and with `Detail` TRUE, where a statement keeps its names and values and so
has no finite number of states.  `GotosFound` is stated in the module itself: the
assertions of `yy_find_reduce_action`, that a goto is always in the table
(`lempar.c:478-490`), and that no reduction takes more from the stack than is on it.

The assumptions are those of `SqlAutomaton`: TLC evaluates them for `parse.y`, and they
are what a change of the grammar could break.

| of the automaton | used for |
|---|---|
| every step leads higher, and no state is `StackBound` high (`HeightsFit`) | a stack has no more entries than its top is high: the lists of `parse.y` are recursive to the left |
| a dot inside a rule came there over the symbol before it; a rule is due only behind its last symbol (`DotsMoveOn`, `RulesAreDue`) | a rule that is due has its right-hand side on the stack |
| where a rule begins there is a goto behind it, and the start rule begins in the first state only (`GotosFit`) | `GotosFound` |
| what starts a statement stands on the stack at most once, and below every rule whose code needs it (`StartsFit`, `WalksFit`) | `CodeFitsStatement` |
| behind `expr` another comparison comes only over AND or OR, and is joined next, whatever the next token is (`ConditionsFit`) | `ConditionComplete` |
| the end of the text and an unknown letter are never shifted (`ActionsFit`) | the text ends with an empty stack |

`Inv` is the inductive invariant.

* `MainFollows`: what `main` has computed up to each call, so the tables the parser goes
  by are those of the automaton.
* `CallFits`: a token is worked on only on a stack that has begun, and behind the end
  of a text the stack is empty.
* `ParserFits`: the stack is a walk through the automaton (`Walk`), no longer than its
  states are high (`Climbs`), with the symbols before every dot of its states below it
  (`HandlesBelow`), and with those symbols below it that its states say were passed
  (`Passed`).  Without the states of the whole
  stack nothing would be known of the one a reduction uncovers.
* `TextFits`: what the stack says of the builder.  In the first command of a text the
  symbol of a CREATE, UPDATE or INSERT is on the stack only if that statement was
  started, and a statement that was started has a symbol there (`StatementFits`); there is a
  condition where a symbol holds one, and a node without its operation only between
  `addValueExpr` and the `StartNestedExpr` behind it (`ConditionFits`).  Behind a failure
  the builder has no statement.

A thrown away token changes neither stack nor builder, so texts with errors need no
argument of their own.  From the second command on none of this is true of the
builder, which is not cleaned between commands; hence `commands` in the properties.

### What is only checked

* Liveness and whatever depends on fairness: `StatementsAnswered`, `CallsReturn` and their like,
  and the fairness that `ImplementsServer` promises.  The provers do no ENABLED.
* What Lemon's functions and `Tokenize` compute: the properties of `LemonParsers`, and
  `ReadsBack`.  They are about recursive definitions on grammars, item sets and texts,
  and the provers cannot do induction over data.  So the tables enter the proofs of
  the parser by facts that TLC evaluates, and the proofs cover what the driver and the
  builder do with them.
* That `Parse` returns (`ParseReturns`), which is liveness.
* `SearchEnds`, and searches of conditions that are not all values: for these the
  theorems say only that the search keeps its types.

## 7. Where the code and its comments disagree

Two runs end in a violation, each of what the repository says:

| run | the code | what is said |
|---|---|---|
| `table_auto_increment` | the counter is loaded at `data_store.cc:230` and incremented at 289, so two INSERTs store one value | `data_store.cc:225`: "increment unique counter that represents number of records inserted into table" |
| `catalog_schema` | the copied pair holds the schema as a plain pointer, which DROP deletes (`data_store.cc:162`, 120) | `data_store.cc:161`: "This should be safe, we're only reading from the object" |

Three more are behaviours of the models, and no run is about them: `eraseAt`
(`data_store.cc:479`) also runs when the `cas` before it lost, and takes the row that
is there now; the job map keeps a descriptor number that may be closed and reused
(`work_manager.cc:281`, 298, 208), so with an impatient client `AnswersMatch` fails
and only `dispatch_orderly` checks it; `updateRecord` stores an id unshifted that is
read shifted (`data_store.cc:1141`), so ids coincide and a join takes two rows for
one, which is why the properties of `NestedSearch` have the premise `Distinguished`.

Of texts the models say, and nothing in the repository denies:

* a DELETE is a syntax error, as nothing starts it; behind an INSERT in the same
  packet it changes the table the INSERT goes to;
* `a < 5` is a syntax error and `a <= 5` is run as `a = 5`: LE is thrown away and the
  `=` listed behind it is taken;
* `DROP ) TABLE t;` drops t, as tokens without a place are thrown away;
* `1.5` is a FLOAT of 1, a DOT and 5; a date is never a literal; a TIME is a null
  pointer, which an INSERT follows;
* an UPDATE needs a WHERE, and so does a SELECT over two tables;
* after a token was thrown away the rest of the text may be refused although it
  would be a statement, as default reductions have already run;
* a packet of two conditions joins the second to the first without an operation.

Other behaviour the models have and nothing in the repository contradicts, so no
run is about it: two DROPs of one table may free it twice (`FreedOnce` in `Catalog` says
they do not, which `FreedOnceByOneDropper` proves where one thread drops the name), or the second one never ends; an accessor
dereferences the null of an unfinished delete; an UPDATE that found its row
replaced in the second scan reports success (`data_store.cc:366`); a packet in two
parts is two commands (`connection.cc:142`); an exception in a job ends the server;
the index of `GetAvailableThread` may exceed the workers; an UPDATE may run on
another table than the one it was built for; AND and OR are read left to right
although `%left` ranks them; a comparison of two columns in a SELECT is a failed
assertion; a syntax error in a query divides by zero in the client; a short
`recv` puts the client out of step for good; a result that was cut carries
SUCCESS.  Most are hazards in `PROJECT.json`, with their lines.

## 8. What is not modelled, and why

* Tervel's internals, and with them memory reclamation: not in the repository.
* The reference count of the vector accessor: nothing reads it, so no behaviour
  depends on it.
* The value types' comparisons (`source/sql/types/`): without state, and the server
  calls few of them.
* What CREATE TABLE's statement does to a new table's columns and constraints, which
  are a constant of `TableRows`.
* What a text that is listed a token twice does when both are deleted: undefined.
* The hash tables, the grammar-file parser, the reports and the printing of Lemon.
* Conditions over two tables, and DELETE with a condition.
* `ListenToPort`, the command line and the signal handlers, which run once or do
  nothing.
* Allocation failures, and more than 20 columns, which the packets do not check.
* SQLite's grammar, which is not compiled, and the test programs.
