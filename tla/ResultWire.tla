----------------------------- MODULE ResultWire -----------------------------
(***************************************************************************)
(* The way of a result from the select list of a query to the cursor of    *)
(* the client library: the StatementBuilder collects the columns, and      *)
(* WorkThread::ExecuteStatement takes them from the records.  The server   *)
(* sends a ResultMetaDataPacket and then a ResultPacket, each with one     *)
(* send that does not block and whose partial success counts as success;   *)
(* the client reads each with one recv, and believes the size it found in  *)
(* the first.                                                              *)
(*                                                                         *)
(* One client and its connection: Dispatch brings the commands of several  *)
(* together.  A packet is a sequence of cells, and is cut between cells    *)
(* only: the metadata are two cells, the header and the columns; a result  *)
(* packet is its header, the 9 bytes and the one skipped behind them, and  *)
(* one cell for each word.                                                 *)
(***************************************************************************)
EXTENDS Integers, FiniteSetsExt, SequencesExt

CONSTANTS
    Statements,     \* what a client may ask for
    Columns,        \* the names of the table's columns, in order
    Selections,     \* what getRecords may return, as sequences of records
    ManipResults,   \* what a command may return
    ShortReads,     \* recv may return less than has arrived
    Capacity,       \* cells an empty connection accepts for certain
    MaxCalls        \* bound: calls of the client

MetaSize == 2
HeaderSize == 10
WordSize == 8

DataTypes == {"BOOLEAN", "SMALL_INT", "INTEGER", "BIG_INT", "FLOAT", "DATE", "TIME"}

\* A word of a record, with the bits that Tervel keeps in it.
StoredWord == [value: Int, type: DataTypes, tervel_status: Nat]

ASSUME WireAssumption ==
    /\ ShortReads \in BOOLEAN
    /\ Capacity \in Nat /\ Capacity >= MetaSize
    /\ MaxCalls \in Nat

ASSUME StatementsAssumption ==
    \A statement \in Statements :
        /\ statement.type \in {"SELECT", "COMMAND", "MALFORMED"}
        /\ statement.type = "SELECT" =>
              statement.list \in Seq([column: STRING, as: STRING])

ASSUME ResultsAssumption ==
    /\ Columns \in Seq(STRING)
    /\ \A records \in Selections : records \in Seq([DOMAIN Columns -> StoredWord])
    /\ \A result \in ManipResults :
          result \in [type: {"COMMAND"}, status: STRING, result: Nat,
                     rows_affected: Nat]

VARIABLES
    \* the client
    at,         \* where its call is
    call,       \* the function called and its statement
    metadata,   \* what the first recv stored
    reply,      \* what the call returned
    rows,       \* m_rows of the Result
    \* the connection
    stream,
    \* the server
    serving,    \* where the statement is
    answer,     \* its JointResult
    \* history
    calls,      \* calls begun
    selected,   \* what getRecords returned
    seen,       \* the rows the cursor has shown
    short,      \* some recv returned less than had arrived
    fate        \* of the last packets sent: whole, cut, or dropped

clientVars == <<at, call, metadata, reply, rows, calls, seen, short>>
serverVars == <<serving, answer, selected, fate>>
vars == <<clientVars, stream, serverVars>>

Functions == {"executeQuery", "executeCommand"}

\* What an allocated buffer holds where nothing was received.
Garbage == [value |-> -1, type |-> "NONE", tervel_status |-> 0]
-----------------------------------------------------------------------------
(* The StatementBuilder: the columns of a SELECT.                          *)

EmptyQuery == [source_columns |-> <<>>, output_columns |-> <<>>]

\* builderAddSelectAllColumns, for table.*
AddSelectAllColumns(query) ==
    [source_columns |-> query.source_columns \o [i \in DOMAIN Columns |-> i],
     output_columns |-> query.output_columns \o Columns]

\* An AS clause names the output, and the column itself without one.
OutputName(item) == IF item.as = "" THEN item.column ELSE item.as

\* getColumnIndex; for a column that does not exist the index stays
\* uninitialised (here any column: an index beyond the record is not followed).
ColumnIndexes(name) ==
    LET found == {i \in DOMAIN Columns : Columns[i] = name}
    IN IF found # {} THEN found ELSE DOMAIN Columns

\* builderAddQualifiedSelectColumn
AddQualifiedSelectColumn(query, item, index) ==
    [source_columns |-> Append(query.source_columns, index),
     output_columns |-> Append(query.output_columns, OutputName(item))]

\* The grammar's actions for the select list, from left to right.
SelectQuery(list, indexes) ==
    LET query[n \in 0 .. Len(list)] ==
            IF n = 0 THEN EmptyQuery
            ELSE IF list[n].column = "*" THEN AddSelectAllColumns(query[n - 1])
            ELSE AddQualifiedSelectColumn(query[n - 1], list[n], indexes[n])
    IN query[Len(list)]

\* The queries a select list may become: one, if its columns exist.
SelectQueries(list) ==
    {SelectQuery(list, indexes) : indexes \in
        {f \in [DOMAIN list -> DOMAIN Columns] :
            \A i \in DOMAIN list : f[i] \in ColumnIndexes(list[i].column)}}
-----------------------------------------------------------------------------
(* WorkThread::ExecuteStatement and what it returns.                       *)

\* The selected columns of a record; a column may be selected twice.
Filtered(statement, record) ==
    [i \in DOMAIN statement.source_columns |-> record[statement.source_columns[i]]]

\* The first record has the types; without one all are INTEGER.
ColumnTypes(statement, records) ==
    IF records = <<>>
    THEN [i \in DOMAIN statement.output_columns |-> "INTEGER"]
    ELSE [i \in DOMAIN statement.source_columns |->
             records[1][statement.source_columns[i]].type]

QueryResult(statement, records) ==
    LET types == ColumnTypes(statement, records)
    IN [type |-> "QUERY", status |-> "SUCCESS",
        metadata |-> [i \in DOMAIN types |->
            [name |-> statement.output_columns[i], type |-> types[i]]],
        data |-> [r \in DOMAIN records |-> Filtered(statement, records[r])]]

\* What the job returns for a statement that was not parsed.
SyntaxError ==
    [type |-> "COMMAND", status |-> "FAILURE_SYNTAX", result |-> 1, rows_affected |-> 0]
-----------------------------------------------------------------------------
(* WorkManager::SendResult: the packets.                                   *)

\* Defect for a mutant run: the words go out with Tervel's bits.
KeepStatus(word) == word

ClearStatus(word) == [word EXCEPT !.tervel_status = 0]

Words(a) == IF a.type = "QUERY" THEN FlattenSeq(a.data) ELSE <<>>

\* A command's count of rows takes the place of the size.
ResultSize(a) ==
    IF a.type = "QUERY" THEN WordSize * Len(Words(a)) ELSE a.rows_affected

\* Defect for a mutant run: the header is forgotten.
DataSize(a) == WordSize * Len(Words(a))

ResultPacketSize(a) == IF a.type = "QUERY" THEN 9 + ResultSize(a) + 1 ELSE 10

Cells(bytes) == (bytes - HeaderSize + WordSize) \div WordSize

MetaDataPacket(a) ==
    <<[kind |-> "metadata", of |-> calls, status |-> a.status,
       resultPacketSize |-> ResultPacketSize(a)],
      [kind |-> "columns", of |-> calls,
       columns |-> IF a.type = "QUERY" THEN a.metadata ELSE <<>>]>>

ResultPacket(a) ==
    <<[kind |-> "result", of |-> calls, status |-> a.status,
       rowLen |-> IF a.type = "QUERY" THEN Len(a.metadata) ELSE 0,
       resultSize |-> ResultSize(a)]>>
    \o [i \in DOMAIN Words(a) |->
           [kind |-> "data", of |-> calls, word |-> ClearStatus(Words(a)[i])]]
-----------------------------------------------------------------------------
Init ==
    /\ at = "idle"
    /\ call = [function |-> "none", statement |-> [type |-> "none"]]
    /\ metadata = <<>>
    /\ reply = [status |-> "none"]
    /\ rows = <<>>
    /\ stream = <<>>
    /\ serving = "nothing"
    /\ answer = [type |-> "none"]
    /\ calls = 0
    /\ selected = <<>>
    /\ seen = <<>>
    /\ short = FALSE
    /\ fate = "whole"
-----------------------------------------------------------------------------
(* The server.                                                             *)

\* A statement that cannot be parsed is answered like a command.
ExecuteStatement ==
    /\ serving = "statement"
    /\ \/ /\ call.statement.type = "SELECT"
          /\ \E records \in Selections, query \in SelectQueries(call.statement.list) :
                /\ selected' = records
                /\ answer' = QueryResult(query, records)
       \/ /\ call.statement.type = "COMMAND"
          /\ answer' \in ManipResults
          /\ selected' = <<>>
       \/ /\ call.statement.type = "MALFORMED"
          /\ answer' = SyntaxError
          /\ selected' = <<>>
    /\ serving' = "metadata"
    /\ fate' = "whole"
    /\ UNCHANGED <<clientVars, stream>>

\* How much of a packet the kernel takes at once.
Accepted(length) ==
    IF stream = <<>> THEN Min({length, Capacity}) .. length ELSE 0 .. length

Fate(accepted, length) ==
    IF accepted = 0 THEN "dropped" ELSE IF accepted < length THEN "cut" ELSE fate

\* Defect for a mutant run: the two exchanged.
ExchangedStatus(accepted, length) ==
    IF accepted = length THEN "D_SEND_PART" ELSE "D_SEND_FULL"

\* Connection::send: EAGAIN is D_SEND_PART, and any part is D_SEND_FULL.
SendStatus(accepted, length) ==
    IF accepted = 0 THEN "D_SEND_PART" ELSE "D_SEND_FULL"

\* SendResult returns when a send is D_SEND_PART, which it takes for an error.
AfterMetaData(status) == IF status = "D_SEND_FULL" THEN "result" ELSE "nothing"

SendMetaData ==
    /\ serving = "metadata"
    /\ LET packet == MetaDataPacket(answer)
       IN \E n \in Accepted(Len(packet)) :
             /\ stream' = stream \o SubSeq(packet, 1, n)
             /\ fate' = Fate(n, Len(packet))
             /\ serving' = AfterMetaData(SendStatus(n, Len(packet)))
    /\ UNCHANGED <<clientVars, answer, selected>>

SendData ==
    /\ serving = "result"
    /\ LET packet == ResultPacket(answer)
       IN \E n \in Accepted(Len(packet)) :
             /\ stream' = stream \o SubSeq(packet, 1, n)
             /\ fate' = Fate(n, Len(packet))
    /\ serving' = "nothing"
    /\ UNCHANGED <<clientVars, answer, selected>>

Server == ExecuteStatement \/ SendMetaData \/ SendData
-----------------------------------------------------------------------------
(* The client: a call, its two recvs, and the cursor over its rows.        *)

Call ==
    /\ at = "idle" /\ calls < MaxCalls
    /\ call' \in [function: Functions, statement: Statements]
    /\ at' = "metadata"
    /\ calls' = calls + 1
    /\ rows' = <<>> /\ seen' = <<>>
    /\ serving' = "statement"
    /\ UNCHANGED <<metadata, reply, short, stream, answer, selected, fate>>

\* recv blocks until something is there, and returns at most length cells.
Arrived(length) == Min({length, Len(stream)})

ReadSizes(length) ==
    IF ShortReads THEN 1 .. Arrived(length) ELSE {Arrived(length)} \ {0}

Recv(length, n) ==
    /\ stream' = SubSeq(stream, n + 1, Len(stream))
    /\ short' = (short \/ n < Arrived(length))

\* What is not a metadata packet is taken for one: nothing that follows means
\* anything, and the client is not followed any further.
RecvMetaData ==
    /\ at = "metadata"
    /\ \E n \in ReadSizes(MetaSize) :
          /\ metadata' = SubSeq(stream, 1, n)
          /\ Recv(MetaSize, n)
    /\ at' = IF stream[1].kind = "metadata" THEN "result" ELSE "confused"
    /\ UNCHANGED <<call, reply, rows, calls, seen, serverVars>>

\* The words behind the header, as many as it says.
DeserializeResultPacket(got) ==
    [status |-> got[1].status, rowLen |-> got[1].rowLen, resultSize |-> got[1].resultSize,
     data |-> [i \in 1 .. got[1].resultSize \div WordSize |->
                  IF i + 1 \in DOMAIN got THEN got[i + 1].word ELSE Garbage]]

\* The empty row that the first call of next takes away.
InitRow == <<>>

\* Defect for a mutant run: the rows without it.
RowsOnly(packet) ==
    [r \in 1 .. packet.resultSize \div (packet.rowLen * WordSize) |->
        SubSeq(packet.data, (r - 1) * packet.rowLen + 1, r * packet.rowLen)]

ParseData(packet) ==
    Append([r \in 1 .. packet.resultSize \div (packet.rowLen * WordSize) |->
               SubSeq(packet.data, (r - 1) * packet.rowLen + 1, r * packet.rowLen)],
           InitRow)

\* A reply to a command has no columns, and parseData divides by their number.
RecvResult ==
    /\ at = "result"
    /\ \E n \in ReadSizes(Cells(metadata[1].resultPacketSize)) :
          /\ Recv(Cells(metadata[1].resultPacketSize), n)
          /\ LET packet == DeserializeResultPacket(SubSeq(stream, 1, n))
             IN CASE stream[1].kind # "result" ->
                        at' = "confused" /\ UNCHANGED <<reply, rows>>
                  [] stream[1].kind = "result" /\ call.function = "executeCommand" ->
                        /\ at' = "idle"
                        /\ reply' = [status |-> packet.status, numAffected |-> packet.resultSize]
                        /\ UNCHANGED rows
                  [] stream[1].kind = "result" /\ call.function = "executeQuery"
                        /\ packet.rowLen = 0 ->
                        at' = "dead" /\ UNCHANGED <<reply, rows>>
                  [] OTHER ->
                        /\ at' = "open"
                        /\ reply' = [status |-> metadata[1].status,
                                     columns |-> metadata[2].columns]
                        /\ rows' = ParseData(packet)
    /\ UNCHANGED <<call, metadata, calls, seen, serverVars>>

\* The loop of the console: next, and then the value of every column, each of
\* which m_rows.back() must have.
NextRow ==
    /\ at = "open" /\ Len(rows) > 1
    /\ rows' = Front(rows)
    /\ IF Len(Last(rows')) >= Len(reply.columns)
       THEN /\ seen' = Append(seen, [i \in DOMAIN reply.columns |-> Last(rows')[i]])
            /\ UNCHANGED at
       ELSE at' = "dead" /\ UNCHANGED seen
    /\ UNCHANGED <<call, metadata, reply, calls, short, stream, serverVars>>

NoMoreRows ==
    /\ at = "open" /\ Len(rows) <= 1
    /\ rows' = <<>>
    /\ at' = "idle"
    /\ UNCHANGED <<call, metadata, reply, calls, seen, short, stream, serverVars>>

Client == RecvMetaData \/ RecvResult \/ NextRow \/ NoMoreRows

Next == Call \/ Server \/ Client

Spec == Init /\ [][Next]_vars

\* The manager's loop never blocks; a client is obliged to begin no call.
FairSpec == Spec /\ WF_vars(Server) /\ WF_vars(Client)
-----------------------------------------------------------------------------
Word == [value: Int, type: DataTypes, tervel_status: {0}] \cup {Garbage}

\* Every variable holds a value of its type; what goes over the wire is free of
\* the bits Tervel keeps in a word, which a client would take for data.
WireTypeOK ==
    /\ at \in {"idle", "metadata", "result", "open", "confused", "dead"}
    /\ serving \in {"nothing", "statement", "metadata", "result"}
    /\ \A i \in DOMAIN stream :
          /\ stream[i].kind \in {"metadata", "columns", "result", "data"}
          /\ stream[i].of \in 1 .. calls
          /\ stream[i].kind = "data" => stream[i].word \in Word
    /\ \A r \in DOMAIN rows : rows[r] \in Seq(Word)
    /\ \A r \in DOMAIN seen : seen[r] \in Seq(Word)
    /\ calls \in 0 .. MaxCalls
    /\ short \in BOOLEAN
    /\ fate \in {"whole", "cut", "dropped"}

\* "Results will now come in this order: ResultMetaDataPacket, ResultPacket"
\* (libomdb/connection.cc:188): the client and the server agree on where a
\* packet begins, in every call, although packets are cut and dropped: only a
\* recv that returns less than has arrived can put the client out of step.
InStep ==
    ~short =>
        /\ at # "confused"
        /\ at \in {"idle", "open"} => stream = <<>> /\ serving = "nothing"
        /\ \A i \in DOMAIN stream : stream[i].of = calls

\* The value of a word as the client got it, which may be missing from a result
\* that the server could not send whole.
GivenAs(given, word) ==
    given.value = word.value \/ (fate = "cut" /\ given = Garbage)

\* What column c of the answer should show of a record, by the text alone: the
\* list with every * replaced by the table's columns.
Expanded(list) ==
    FlattenSeq([i \in DOMAIN list |->
        IF list[i].column = "*"
        THEN [c \in DOMAIN Columns |-> [column |-> Columns[c], as |-> ""]]
        ELSE <<list[i]>>])

Asked(record, name) == record[CHOOSE i \in DOMAIN Columns : Columns[i] = name]

\* A query's cursor shows each record the server selected once, the last one
\* first, each with the columns the text asks for in their order and under their
\* names; a command reports the rows it affected.  A packet that was cut costs
\* values, and never a row or a column.
AnswerReported ==
    /\ (at = "open" /\ ~short) =>
          LET shown == seen \o Reverse(Front(rows))
              items == Expanded(call.statement.list)
          IN /\ Len(shown) = Len(selected)
             /\ Len(reply.columns) = Len(items)
             /\ \A i \in DOMAIN items :
                   /\ reply.columns[i].name = OutputName(items[i])
                   /\ items[i].column \in Range(Columns) =>
                         \A r \in DOMAIN shown :
                             GivenAs(shown[r][i],
                                     Asked(Reverse(selected)[r], items[i].column))
    /\ (at = "idle" /\ call.function = "executeCommand" /\ answer.type = "COMMAND"
            /\ ~short) =>
          reply = [status |-> answer.status, numAffected |-> answer.rows_affected]

\* Every call returns, unless the server dropped a packet of its answer: the
\* client then waits for it for ever.
CallsReturn ==
    []((at \in {"metadata", "result"}) =>
           <>(at \notin {"metadata", "result"} \/ fate = "dropped"))
=============================================================================
