----------------------------- MODULE SqlGrammar -----------------------------
(***************************************************************************)
(* The grammar of include/sql/parser/parse.y, all of it.  Each rule        *)
(* carries the name of the code behind it; StatementBuilder says what that *)
(* code does.                                                              *)
(***************************************************************************)
EXTENDS Lemon

One(symbols) == [i \in DOMAIN symbols |-> <<symbols[i]>>]
Production(lhs, rhs, act) == [lhs |-> lhs, rhs |-> rhs, mark |-> NoSymbol, act |-> act]

SqlTerminals == <<"$", "SEMICOLON", "CREATE", "TABLE", "LPAREN", "RPAREN", "COMMA", "ID",
    "STRING", "DEFAULT", "NOT", "NULL", "AUTO_INCREMENT", "OR", "AND", "BETWEEN", "IN",
    "ISNULL", "NOTNULL", "NE", "EQ", "GT", "LE", "LT", "GE", "DOT", "INTEGER", "FLOAT",
    "DATE", "TIME", "DROP", "SELECT", "DISTINCT", "ALL", "ASTERISK", "AS", "FROM", "WHERE",
    "UPDATE", "SET", "INSERT", "INTO", "VALUES", "DELETE">>

SqlNonterminals == <<"error", "input", "cmd_list", "end_cmd", "explain", "cmdx", "cmd",
    "create_table", "create_table_args", "name", "column_list", "column", "column_id",
    "type", "column_args", "typetoken", "typename", "column_constraints", "term", "expr",
    "set_quantifier", "select_columns", "select_table", "select_column", "as_clause",
    "table_references", "where_clause", "group_by_clause", "table_reference",
    "search_condition", "comparison_predicate", "update_table", "update_expr_list",
    "update_expr", "insert_table", "insert_values", "insert_term", "delete_table">>

Numbers == <<"INTEGER", "FLOAT", "DATE", "TIME">>

CommandRules == <<
    Production("input", One(<<"cmd_list">>), "none"),
    Production("cmd_list", One(<<"cmd_list", "end_cmd">>), "none"),
    Production("cmd_list", One(<<"end_cmd">>), "none"),
    Production("end_cmd", One(<<"SEMICOLON">>), "none"),
    Production("end_cmd", One(<<"explain", "cmdx", "SEMICOLON">>), "none"),
    Production("explain", <<>>, "none"),
    Production("cmdx", One(<<"cmd">>), "none")>>

CreateRules == <<
    Production("cmd", One(<<"create_table", "create_table_args">>), "none"),
    Production("create_table", One(<<"CREATE", "TABLE", "name">>), "builderStartCreateTable"),
    Production("create_table_args", One(<<"LPAREN", "column_list", "RPAREN">>), "none"),
    Production("column_list", One(<<"column_list", "COMMA", "column">>), "none"),
    Production("column_list", One(<<"column">>), "none"),
    Production("column", One(<<"column_id", "type", "column_args">>), "builderAddColumn"),
    Production("column_id", One(<<"name">>), "first"),
    Production("name", One(<<"ID">>), "first"),
    Production("name", One(<<"STRING">>), "first"),
    Production("type", <<>>, "null"),
    Production("type", One(<<"typetoken">>), "first"),
    Production("typetoken", One(<<"typename">>), "first"),
    Production("typename", <<<<"ID", "STRING">>>>, "first"),
    Production("column_args", One(<<"column_args", "column_constraints">>), "none"),
    Production("column_args", <<>>, "none"),
    Production("column_constraints", One(<<"DEFAULT", "term">>), "constraintDefault"),
    Production("column_constraints", One(<<"NOT", "NULL">>), "constraintNotNull"),
    Production("column_constraints", One(<<"AUTO_INCREMENT">>), "constraintAutoIncrement")>>

ExprRules == <<
    Production("expr", <<<<"expr">>, <<"AND", "OR">>, <<"expr">>>>, "builderStartNestedExpr"),
    Production("expr", <<<<"term">>, <<"NE", "EQ">>, <<"term">>>>, "builderAddValueExpr"),
    Production("term", One(<<"name", "DOT", "column_id">>), "qualify"),
    Production("term", One(<<"column_id">>), "first"),
    Production("term", <<Numbers>>, "first")>>

DropAndSelectRules == <<
    Production("cmd", One(<<"DROP", "TABLE", "name">>), "builderStartDropTable"),
    Production("cmd", One(<<"SELECT", "set_quantifier", "select_columns", "select_table">>),
               "builderFinishSelectQuery"),
    Production("set_quantifier", <<<<"DISTINCT", "ALL">>>>, "none"),
    Production("set_quantifier", <<>>, "none"),
    Production("select_columns", One(<<"select_columns", "COMMA", "select_column">>), "none"),
    Production("select_columns", One(<<"select_column">>), "none"),
    Production("select_column", One(<<"name", "DOT", "ASTERISK">>), "builderAddSelectAllColumns"),
    Production("select_column", One(<<"name", "DOT", "name", "as_clause">>),
               "builderAddQualifiedSelectColumn"),
    Production("as_clause", One(<<"AS", "name">>), "second"),
    Production("as_clause", <<>>, "null"),
    Production("select_table", One(<<"FROM", "table_references", "where_clause",
                                     "group_by_clause">>), "none"),
    Production("select_table", One(<<"FROM", "name">>), "none"),
    Production("table_references", One(<<"table_references", "COMMA", "table_reference">>), "none"),
    Production("table_references", One(<<"table_reference">>), "none"),
    Production("table_reference", One(<<"name", "as_clause">>), "none"),
    Production("table_reference", <<>>, "none"),
    Production("where_clause", One(<<"WHERE", "search_condition">>), "none"),
    Production("group_by_clause", <<>>, "none"),
    Production("search_condition", One(<<"comparison_predicate">>), "none"),
    Production("comparison_predicate", One(<<"expr">>), "none")>>

ChangeRules == <<
    Production("cmd", One(<<"UPDATE", "update_table", "SET", "update_expr_list",
                            "where_clause">>), "builderFinishUpdateCommand"),
    Production("update_table", One(<<"name">>), "startUpdate"),
    Production("update_expr_list", One(<<"update_expr_list", "COMMA", "update_expr">>), "none"),
    Production("update_expr_list", One(<<"update_expr">>), "none"),
    Production("update_expr", One(<<"column_id", "EQ", "term">>), "builderAddUpdateExpr"),
    Production("cmd", One(<<"INSERT", "INTO", "insert_table", "VALUES", "LPAREN",
                            "insert_values", "RPAREN">>), "none"),
    Production("insert_table", One(<<"name">>), "startInsert"),
    Production("insert_values", One(<<"insert_values", "COMMA", "insert_term">>), "none"),
    Production("insert_values", One(<<"insert_term">>), "none"),
    Production("insert_term", <<Append(Numbers, "NULL")>>, "builderAddDataItem"),
    Production("cmd", One(<<"DELETE", "FROM", "delete_table", "where_clause">>), "none"),
    Production("delete_table", One(<<"name">>), "builderAddTableName")>>

\* The declarations stand one per line, the later the higher.
Declarations == <<
    [assoc |-> "LEFT", of |-> {"OR"}],
    [assoc |-> "LEFT", of |-> {"AND"}],
    [assoc |-> "RIGHT", of |-> {"NOT"}],
    [assoc |-> "LEFT", of |-> {"BETWEEN", "IN", "ISNULL", "NOTNULL", "NE", "EQ"}],
    [assoc |-> "LEFT", of |-> {"GT", "LE", "LT", "GE"}]>>

Precedences(declarations) ==
    [sym \in UNION {declarations[i].of : i \in DOMAIN declarations} |->
       LET i == CHOOSE i \in DOMAIN declarations : sym \in declarations[i].of
       IN  [level |-> i, assoc |-> declarations[i].assoc]]

SqlRules == CommandRules \o CreateRules \o ExprRules \o DropAndSelectRules \o ChangeRules

SqlGrammar == [terminals |-> SqlTerminals, nonterminals |-> SqlNonterminals,
               rules |-> SqlRules, prec |-> Precedences(Declarations), start |-> "input"]
=============================================================================
