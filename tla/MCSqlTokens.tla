----------------------------- MODULE MCSqlTokens -----------------------------
EXTENDS SqlTokens
MCSchemas == [t \in {} |-> <<>>]
MCTokenTypes == {"SEMICOLON", "CREATE", "TABLE", "LPAREN", "RPAREN", "COMMA", "ID",
    "DEFAULT", "NOT", "NULL", "AUTO_INCREMENT", "OR", "AND", "NE", "EQ", "DOT", "INTEGER",
    "TIME", "DROP", "SELECT", "ALL", "ASTERISK", "AS", "FROM", "WHERE",
    "UPDATE", "SET", "INSERT", "INTO", "VALUES", "DELETE", "ILLEGAL"}
=============================================================================
