------------------------------ MODULE SqlTexts ------------------------------
(***************************************************************************)
(* parse of omdb_parser.cc, from the text of a packet to the statement the *)
(* worker runs: tokenize, Parse once per token and once for the end.  The  *)
(* texts are commands of the dialect, written out, and wild ones, in any   *)
(* order on one worker.                                                    *)
(*                                                                         *)
(* A command says what a statement asks for, in the terms of SQL:          *)
(*   [kind |-> "CREATE", table, columns]  columns [name, type, constraints]*)
(*   [kind |-> "DROP", table]                                              *)
(*   [kind |-> "INSERT", table, values]                                    *)
(*   [kind |-> "SELECT", items, from, where]    items [table, name, as]    *)
(*   [kind |-> "UPDATE", table, sets, where]    sets [name, value]         *)
(* Names and numbers are sequences of letters.  A condition is a sequence  *)
(* of [join, left, op, right], read from left to right; the first join is  *)
(* not used.                                                               *)
(***************************************************************************)
EXTENDS SqlSession, Tokenizer

CONSTANTS Commands,  \* the commands of the dialect
          Wild       \* other texts

VARIABLES command,  \* the command the text was written from, or NoCommand
          input,    \* the tokens Parse has not been called for
          threw,    \* whether tokenize threw
          busy      \* whether the worker is in parse

textVars == <<command, input, threw, busy>>
vars == <<genVars, parserVars, sessionVars, textVars>>

NoCommand == [kind |-> "none"]
Star == <<"*">>  \* in the place of a column's name: all columns
NoName == <<>>   \* in the place of an alias, a type or a table

-----------------------------------------------------------------------------
(* The text of a command, where gap stands wherever a space may or may not *)

Spaced(words) == FlattenSeq([i \in DOMAIN words |-> words[i] \o <<" ">>])
Listing(parts, gap) ==
    FlattenSeq([i \in DOMAIN parts |->
                  IF i = 1 THEN parts[i] ELSE gap \o <<",">> \o gap \o parts[i]])

WrittenColumn(c) == c.table \o <<".">> \o c.name
WrittenTerm(t) == IF t.table = NoName THEN t.name ELSE WrittenColumn(t)

Comparison(c, gap) == WrittenTerm(c.left) \o gap \o c.op \o gap \o WrittenTerm(c.right)
WrittenWhere(where, gap) ==
    <<" ", "WHERE", " ">> \o
    FlattenSeq([i \in DOMAIN where |->
                  IF i = 1 THEN Comparison(where[i], gap)
                  ELSE <<" ", where[i].join, " ">> \o Comparison(where[i], gap)])

Alias(as) == IF as = NoName THEN <<>> ELSE <<" ", "AS", " ">> \o as

WrittenConstraint(c) ==
    CASE c.type = "DEFAULT" -> <<" ", "DEFAULT", " ">> \o c.value
      [] c.type = "NOT_NULL" -> <<" ", "NOT", " ", "NULL">>
      [] c.type = "AUTO_INCREMENT" -> <<" ", "AUTO_INCREMENT">>

WrittenDefinition(d) ==
    d.name \o (IF d.type = NoName THEN <<>> ELSE <<" ">> \o d.type)
           \o FlattenSeq([i \in DOMAIN d.constraints |-> WrittenConstraint(d.constraints[i])])

Written(c, gap) ==
    CASE c.kind = "CREATE" ->
           Spaced(<<<<"CREATE">>, <<"TABLE">>, c.table>>) \o <<"(">> \o gap
             \o Listing([i \in DOMAIN c.columns |-> WrittenDefinition(c.columns[i])], gap)
             \o gap \o <<")">> \o gap \o <<";">>
      [] c.kind = "DROP" -> <<"DROP", " ", "TABLE", " ">> \o c.table \o gap \o <<";">>
      [] c.kind = "INSERT" ->
           Spaced(<<<<"INSERT">>, <<"INTO">>, c.table, <<"VALUES">>>>) \o <<"(">> \o gap
             \o Listing(c.values, gap) \o gap \o <<")">> \o gap \o <<";">>
      [] c.kind = "SELECT" ->
           <<"SELECT", " ">>
             \o Listing([i \in DOMAIN c.items |-> WrittenColumn(c.items[i]) \o Alias(c.items[i].as)], gap)
             \o <<" ", "FROM", " ">> \o Listing(c.from, gap)
             \o (IF c.where = <<>> THEN <<>> ELSE WrittenWhere(c.where, gap)) \o gap \o <<";">>
      [] c.kind = "UPDATE" ->
           Spaced(<<<<"UPDATE">>, c.table, <<"SET">>>>)
             \o Listing([i \in DOMAIN c.sets |->
                           c.sets[i].name \o gap \o <<"=">> \o gap \o c.sets[i].value], gap)
             \o WrittenWhere(c.where, gap) \o gap \o <<";">>

-----------------------------------------------------------------------------
(* The statement a command asks for *)

ValueOf(number) == IF number = <<"NULL">> THEN NullValue
                   ELSE [type |-> "BIG_INT", text |-> number]

Position(table, name) == CHOOSE i \in DOMAIN Schemas[table] : Schemas[table][i] = name

SourcesOf(item) ==
    IF item.name # Star
    THEN <<[table |-> item.table, column_idx |-> Position(item.table, item.name) - 1]>>
    ELSE [i \in DOMAIN Schemas[item.table] |-> [table |-> item.table, column_idx |-> i - 1]]
NamesOf(item) ==
    CASE item.name = Star -> Schemas[item.table]
      [] item.name # Star /\ item.as # NoName -> <<item.as>>
      [] OTHER -> <<item.name>>

\* The tables of the select list in the order they are first named.
TablesOf(items) ==
    FoldLeft(LAMBDA seen, item : IF item.table \in ToSet(seen) THEN seen
                                 ELSE Append(seen, item.table), <<>>, items)

Term(t) ==
    IF t.table = NoName
    THEN [flags |-> "VALUE", operation |-> "NO_OP", column |-> NoColumn, value |-> ValueOf(t.name)]
    ELSE [flags |-> "COLUMN", operation |-> "NO_OP", value |-> NoValue,
          column |-> [table |-> t.table, name |-> t.name]]

Node(flags, op, left, right) ==
    [flags |-> flags, operation |-> op, kids |-> <<left, right>>, complete |-> TRUE]
ConditionOf(where) ==
    LET single(c) == Node("OPERATION", IF c.op = <<"=">> THEN "EQUALS" ELSE "NOT_EQUALS",
                          Term(c.left), Term(c.right))
        tree[i \in DOMAIN where] ==
          IF i = 1 THEN single(where[1])
          ELSE Node("NESTED", where[i].join, tree[i - 1], single(where[i]))
    IN  IF where = <<>> THEN NoExpr ELSE tree[Len(where)]

StatementOf(c) ==
    CASE c.kind = "CREATE" ->
           [NoStatement EXCEPT !.type = "CREATE_TABLE", !.table = c.table,
              !.list = [i \in DOMAIN c.columns |->
                 [name |-> c.columns[i].name,
                  type |-> IF c.columns[i].type = NoName THEN <<"NONE">> ELSE c.columns[i].type,
                  constraint |-> [k \in DOMAIN c.columns[i].constraints |->
                     LET con == c.columns[i].constraints[k]
                     IN  [type |-> con.type,
                          value |-> IF con.type = "DEFAULT" THEN ValueOf(con.value) ELSE NoValue]]]]]
      [] c.kind = "DROP" -> [NoStatement EXCEPT !.type = "DROP_TABLE", !.table = c.table]
      [] c.kind = "INSERT" ->
           [NoStatement EXCEPT !.type = "INSERT_INTO", !.table = c.table,
              !.list = [i \in DOMAIN c.values |-> ValueOf(c.values[i])]]
      [] c.kind = "SELECT" ->
           [NoStatement EXCEPT !.type = "SELECT",
              !.list = FlattenSeq([i \in DOMAIN c.items |-> SourcesOf(c.items[i])]),
              !.output = FlattenSeq([i \in DOMAIN c.items |-> NamesOf(c.items[i])]),
              !.tables = TablesOf(c.items)]
      [] c.kind = "UPDATE" ->
           [NoStatement EXCEPT !.type = "UPDATE", !.table = c.table,
              !.list = [i \in DOMAIN c.sets |->
                 [column_idx |-> Position(c.table, c.sets[i].name) - 1,
                  new_data |-> ValueOf(c.sets[i].value)]],
              !.full_record = [p \in DOMAIN Schemas[c.table] |->
                 FoldLeft(LAMBDA v, s : IF s.name = Schemas[c.table][p] THEN ValueOf(s.value) ELSE v,
                          NullValue, c.sets)]]

-----------------------------------------------------------------------------
(* parse *)

Init ==
    /\ SessionInit
    /\ command = NoCommand /\ input = <<>> /\ threw = FALSE /\ busy = FALSE

\* All of the text is tokenized before Parse is called.
Take(c, text) ==
    /\ stage = "built" /\ ~busy
    /\ LET made == Tokenize(text)
       IN  /\ input' = made.tokens
           /\ threw' = made.threw
    /\ command' = c
    /\ busy' = TRUE
    /\ UNCHANGED <<genVars, parserVars, sessionVars>>

TakeCommand == \E c \in Commands, gap \in {<<>>, <<" ">>} : Take(c, Written(c, gap))
TakeWild == \E text \in Wild : Take(NoCommand, text)

NewText == command' = NoCommand /\ input' = <<>> /\ threw' = FALSE /\ busy' = FALSE

\* The statement or the exception goes to the worker, with it the builder.  A
\* token that was listed twice is deleted twice: a server that ends here and
\* is started again has the same empty parser.
Return ==
    /\ Finished \/ threw
    /\ NewSession
    /\ NewText
    /\ UNCHANGED <<genVars, parserVars>>

FeedToken ==
    /\ busy /\ ~threw /\ input # <<>>
    /\ ParseToken(Head(input))
    /\ input' = Tail(input)
    /\ UNCHANGED <<command, threw, busy>>

FeedEnd ==
    /\ busy /\ ~threw /\ input = <<>>
    /\ ParseEnd
    /\ UNCHANGED textVars

Next == \/ Generating /\ UNCHANGED textVars
        \/ TakeCommand \/ TakeWild \/ FeedToken \/ FeedEnd \/ Return
        \/ Working /\ UNCHANGED textVars
        \/ StartAgain /\ NewText

Spec == Init /\ [][Next]_vars

-----------------------------------------------------------------------------
\* A command of the dialect is read as exactly the statement it asks for,
\* however it is spaced and whatever this worker has parsed before: the names
\* and numbers in their places, every AND, OR, = and != in its node, although
\* the second character of != is listed as a token of its own and the parser
\* and the grammar's conflicts decide which tokens are thrown away.
ReadsBack ==
    Finished /\ command # NoCommand =>
      /\ Succeeds
      /\ builder.statement = StatementOf(command)
      /\ builder.expr = ConditionOf(IF command.kind \in {"SELECT", "UPDATE"} THEN command.where
                                    ELSE <<>>)

=============================================================================
