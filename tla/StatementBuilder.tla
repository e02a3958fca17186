-------------------------- MODULE StatementBuilder --------------------------
(***************************************************************************)
(* The code of the rules of parse.y: what statements/builder.cc does to    *)
(* the StatementBuilder of a text.  Statements and builders are records    *)
(* and the functions of builder.cc are operators from builder to builder.  *)
(*                                                                         *)
(* A token is [type, text, value, operation, column]; NullToken is the     *)
(* null pointer.  If Detail is FALSE a statement keeps its type only and a *)
(* condition only its shape, so that texts of any length have finitely     *)
(* many statements.                                                        *)
(***************************************************************************)
EXTENDS Integers, Sequences

CONSTANTS Detail,   \* whether the contents of statements are kept
          Schemas   \* table name -> sequence of its column names

NoValue == [type |-> "none", text |-> <<>>]
NullValue == [type |-> "NULL", text |-> <<>>]
NoColumn == [table |-> <<>>, name |-> <<>>]
NullToken == [type |-> "null", text |-> <<>>, value |-> NoValue, operation |-> "NO_OP",
              column |-> NoColumn]

Listed(seq, x) == IF Detail THEN Append(seq, x) ELSE seq
Detailed(x, y) == IF Detail THEN x ELSE y

-----------------------------------------------------------------------------
(* Expressions *)

\* complete says that no node below has been left without its operation.
NoExpr == [flags |-> "none", operation |-> "NO_OP", kids |-> <<>>, complete |-> TRUE]

\* A TIME comes without a token, and so may a FLOAT; its type is the parser's.
IsNull(tok) ==
    tok.type \in {"null", "TIME", "FLOAT"} /\ tok = [NullToken EXCEPT !.type = tok.type]

\* Expression(Token): neither a qualified column nor a value is an operation.
Expression(tok) ==
    [flags |-> CASE tok.column # NoColumn -> "COLUMN"
                 [] tok.column = NoColumn /\ tok.value # NoValue -> "VALUE"
                 [] IsNull(tok) -> "EMPTY"
                 [] OTHER -> "OPERATION",
     column |-> tok.column, value |-> tok.value, operation |-> tok.operation]

CreateExpression(op, left, right) ==
    [flags |-> "OPERATION", operation |-> Detailed(op.operation, "some"), complete |-> TRUE,
     kids |-> Detailed(<<Expression(left), Expression(right)>>, <<>>)]

\* The comparison is joined to what there is, even if that is of an earlier
\* statement of the text; the operation is still to come.
AddValueExpr(b, op, left, right) ==
    LET new == CreateExpression(op, left, right)
        nested == [flags |-> "NESTED", operation |-> "NO_OP",
                   kids |-> Detailed(<<b.expr, new>>, <<>>),
                   complete |-> b.expr.complete /\ ~(b.expr.flags = "NESTED" /\ b.expr.operation = "NO_OP")]
    IN  [b EXCEPT !.expr = IF b.expr.flags = "none" THEN new ELSE nested]

\* StartNestedExpr that gives the operation to the comparison on the right.
StartNestedRight(b, op) ==
    IF b.expr.flags # "NESTED" THEN b
    ELSE [b EXCEPT !.expr.kids = Detailed(<<@[1], [@[2] EXCEPT !.operation = op.operation]>>, @)]

StartNestedExpr(b, op) ==
    IF b.expr.flags # "NESTED" THEN b
    ELSE [b EXCEPT !.expr.operation = Detailed(op.operation, "some")]

ExprComplete(e) == e.complete /\ ~(e.flags = "NESTED" /\ e.operation = "NO_OP")

-----------------------------------------------------------------------------
(* Statements *)

NoStatement == [type |-> "none", table |-> <<>>, list |-> <<>>, output |-> <<>>, tables |-> <<>>,
                full_record |-> <<>>]
NewBuilder == [started |-> FALSE, valid |-> FALSE, statement |-> NoStatement, expr |-> NoExpr,
               temp_constraints |-> <<>>]

Start(b, type, table) ==
    [b EXCEPT !.started = TRUE, !.valid = TRUE,
              !.statement = [NoStatement EXCEPT !.type = type, !.table = Detailed(table, <<>>)]]

AddColumnConstraint(b, type, tok) ==
    [b EXCEPT !.temp_constraints = Listed(@, [type |-> type, value |-> tok.value])]

\* getSQLType; a column without a type has none.
SQLTypes == {<<"INTEGER">>, <<"SMALLINT">>, <<"BIGINT">>, <<"BOOLEAN">>, <<"DATE">>, <<"TIME">>}
SQLType(tok) == IF tok.text \in SQLTypes THEN tok.text ELSE <<"NONE">>

AddColumn(b, name, type) ==
    IF b.statement.type # "CREATE_TABLE" THEN b
    ELSE [b EXCEPT !.statement.list = Listed(@, [name |-> name.text, type |-> SQLType(type),
                                                 constraint |-> b.temp_constraints]),
                   !.temp_constraints = <<>>]

\* The columns of a SELECT, by index; -1 stands for what an index holds that is
\* never set, that of an unknown column.
ColumnsOf(table) == IF table \in DOMAIN Schemas THEN Schemas[table] ELSE <<>>
ColumnIndex(table, column) ==
    LET cols == ColumnsOf(table)
        at == {i \in DOMAIN cols : cols[i] = column}
    IN  IF at = {} THEN -1 ELSE (CHOOSE i \in at : TRUE) - 1

WithQuery(b) == IF b.started THEN b ELSE Start(b, "SELECT", <<>>)

AddSelectAllColumns(b, tok) ==
    LET q == WithQuery(b)
        cols == ColumnsOf(tok.text)
        sources == [i \in DOMAIN cols |-> [table |-> tok.text, column_idx |-> i - 1]]
    IN  IF q.statement.type # "SELECT" \/ ~Detail THEN q
        ELSE [q EXCEPT !.statement.list = @ \o sources, !.statement.output = @ \o cols]

\* The statement is taken for a query whatever it is.
AddQualifiedSelectColumn(b, tok, source, output) ==
    [WithQuery(b) EXCEPT
       !.statement.list = Listed(@, [table |-> tok.text,
                                     column_idx |-> ColumnIndex(tok.text, source.text)]),
       !.statement.output = Listed(@, IF output = NullToken THEN source.text ELSE output.text)]

FinishSelectQuery(b) ==
    LET refs == b.statement.list
        new == SelectSeq([i \in DOMAIN refs |-> i],
                         LAMBDA i : \A j \in 1..(i - 1) : refs[j].table # refs[i].table)
    IN  IF ~b.started \/ b.statement.type # "SELECT" \/ ~Detail THEN b
        ELSE [b EXCEPT !.statement.tables = [k \in DOMAIN new |-> refs[new[k]].table]]

AddDataItem(b, tok) ==
    IF tok.value = NoValue \/ ~b.started THEN b
    ELSE [b EXCEPT !.statement.list = Listed(@, tok.value)]

AddUpdateExpr(b, op, column, tok) ==
    IF ~b.started \/ op.operation # "EQUALS" THEN b
    ELSE [b EXCEPT !.statement.list =
            Listed(@, [column_idx |-> ColumnIndex(b.statement.table, column.text),
                       new_data |-> tok.value])]

\* The last value given to each column; nothing if the table is unknown.
FinishUpdateCommand(b) ==
    LET sets == b.statement.list
        cols == ColumnsOf(b.statement.table)
        given(i) == {k \in DOMAIN sets : sets[k].column_idx = i - 1}
        last(i) == CHOOSE k \in given(i) : \A l \in given(i) : l <= k
    IN  IF ~b.started \/ ~b.valid \/ ~Detail THEN b
        ELSE [b EXCEPT !.statement.full_record =
                [i \in DOMAIN cols |-> IF given(i) = {} THEN NullValue ELSE sets[last(i)].new_data]]

\* Of an INSERT and an UPDATE the table; a DELETE has not been started.
AddTableName(b, tok) ==
    IF ~b.started \/ b.statement.type \notin {"INSERT_INTO", "UPDATE", "DELETE"} THEN b
    ELSE [b EXCEPT !.statement.table = Detailed(tok.text, <<>>)]

\* BuilderClean that forgets the statement's own record.
BuilderReset(b) == [b EXCEPT !.started = FALSE]

BuilderClean(b) == [b EXCEPT !.started = FALSE, !.statement = NoStatement]

-----------------------------------------------------------------------------
(* The code of a rule, given the minors of its right-hand side *)

Qualified(x, y) == [x EXCEPT !.column = [table |-> x.text, name |-> y.text],
                             !.text = x.text \o <<".">> \o y.text]

\* What the rule leaves in the place of its left-hand side.
Yield(act, m) ==
    CASE act \in {"first", "startUpdate", "startInsert", "builderAddDataItem"} -> m[1]
      [] act = "builderAddTableName" -> m[1]
      [] act = "second" -> m[2]
      [] act = "qualify" -> Qualified(m[1], m[3])
      [] OTHER -> NullToken

Code(act, b, m) ==
    CASE act = "builderStartCreateTable" -> Start(b, "CREATE_TABLE", m[3].text)
      [] act = "builderStartDropTable" -> Start(b, "DROP_TABLE", m[3].text)
      [] act = "builderAddColumn" -> AddColumn(b, m[1], m[2])
      [] act = "constraintDefault" -> AddColumnConstraint(b, "DEFAULT", m[2])
      [] act = "constraintNotNull" -> AddColumnConstraint(b, "NOT_NULL", NullToken)
      [] act = "constraintAutoIncrement" -> AddColumnConstraint(b, "AUTO_INCREMENT", NullToken)
      [] act = "builderStartNestedExpr" -> StartNestedExpr(b, m[2])
      [] act = "builderAddValueExpr" -> AddValueExpr(b, m[2], m[1], m[3])
      [] act = "builderAddSelectAllColumns" -> AddSelectAllColumns(b, m[1])
      [] act = "builderAddQualifiedSelectColumn" -> AddQualifiedSelectColumn(b, m[1], m[3], m[4])
      [] act = "builderFinishSelectQuery" -> FinishSelectQuery(b)
      [] act = "builderFinishUpdateCommand" -> FinishUpdateCommand(b)
      [] act = "startInsert" -> AddTableName(Start(b, "INSERT_INTO", <<>>), m[1])
      [] act = "builderAddDataItem" -> AddDataItem(b, m[1])
      [] act = "startUpdate" -> AddTableName(Start(b, "UPDATE", <<>>), m[1])
      [] act = "builderAddUpdateExpr" -> AddUpdateExpr(b, m[2], m[1], m[3])
      [] act = "builderAddTableName" -> AddTableName(b, m[1])
      [] OTHER -> b

\* What the code of a rule takes for granted: the statement it casts to, and
\* the statement or the expression it dereferences.
Fits(act, b) ==
    CASE act \in {"builderAddSelectAllColumns", "builderAddQualifiedSelectColumn"} ->
           ~b.started \/ b.statement.type = "SELECT"
      [] act = "builderAddDataItem" -> b.statement.type = "INSERT_INTO"
      [] act \in {"builderAddUpdateExpr", "builderFinishUpdateCommand"} -> b.statement.type = "UPDATE"
      [] act = "builderAddColumn" -> b.statement.type = "CREATE_TABLE"
      [] act = "builderStartNestedExpr" -> b.expr.flags # "none"
      [] OTHER -> TRUE

\* A value is asked whether it is one, be there a token or not.
ReadsNull(act, b, m) ==
    \/ act = "builderAddDataItem" /\ IsNull(m[1])
    \/ act = "builderAddUpdateExpr" /\ b.started /\ m[2].operation = "EQUALS" /\ IsNull(m[3])

=============================================================================
