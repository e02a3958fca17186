------------------------------ MODULE Tokenizer ------------------------------
(***************************************************************************)
(* tokenize of omdb_parser.cc: from a text to its tokens.  A text is a     *)
(* sequence of letters.  A digit, a symbol and a space are one character;  *)
(* any other letter stands for a run of alphabetic characters, so that the *)
(* word SELECT is one letter, and "x" is the x of a hexadecimal number.    *)
(***************************************************************************)
EXTENDS Integers, Sequences, SequencesExt, StatementBuilder

CONSTANT MaxDigits  \* the digits of the longest number that fits an int64

Digits == {"0", "1", "2", "3", "4", "5", "6", "7", "8", "9"}
Symbols == {"!", "(", ")", "*", "+", ",", "-", ".", "/", ":", ";", "<", "=", ">"}
Others == {" ", "_", "'", "?"}

\* sql_ascii_map.  Behind the end of a text stands a character of no class.
At(text, i) == IF i \in DOMAIN text THEN text[i] ELSE " "
IsNumeric(c) == c \in Digits
IsSymbol(c) == c \in Symbols
IsAlphabetic(c) == c \notin Digits \cup Symbols \cup Others
IsIdentifier(c) == IsAlphabetic(c) \/ IsNumeric(c) \/ c = "_"

\* The first place from i on where class does not hold.
RunEnd(text, i, class(_)) ==
    CHOOSE j \in i..(Len(text) + 1) : /\ \A k \in i..(j - 1) : class(At(text, k))
                                      /\ ~class(At(text, j))

Words == {"CREATE", "DROP", "SELECT", "UPDATE", "INSERT", "INTO", "DELETE", "TABLE", "AS",
          "WHERE", "FROM", "ALL", "DISTINCT", "AUTO_INCREMENT", "NOT", "NULL", "DEFAULT",
          "AND", "OR", "VALUES", "SET"}
\* IsKeyword on the beginning of a word.
BeginsLikeKeyword(word) == word[1] \in Words

IsKeyword(word) == Len(word) = 1 /\ word[1] \in Words

\* The constructors of TokenData.
Plain(type, text) ==
    [NullToken EXCEPT !.type = type, !.text = text,
                      !.value = IF text = <<"NULL">> THEN NullValue ELSE NoValue]
Valued(type, text, sqlType) ==
    [NullToken EXCEPT !.type = type, !.text = text, !.value = [type |-> sqlType, text |-> text]]
Operator(type, text, operation) ==
    [NullToken EXCEPT !.type = type, !.text = text, !.operation = operation]

Illegal == Plain("ILLEGAL", <<>>)

-----------------------------------------------------------------------------
(* One token: [tokens, next, threw], the place to go on and whether the    *)
(* conversion of a number threw                                            *)

Found(tok, next) == [tokens |-> <<tok>>, next |-> next, threw |-> FALSE]

WordToken(text, i) ==
    LET next == RunEnd(text, i, IsIdentifier)
        word == SubSeq(text, i, next - 1)
    IN  CASE IsKeyword(word) /\ word[1] \in {"AND", "OR"} -> Found(Operator(word[1], word, word[1]), next)
          [] IsKeyword(word) /\ word[1] \notin {"AND", "OR"} -> Found(Plain(word[1], word), next)
          [] OTHER -> Found(Plain("ID", word), next)

\* Ten characters dddd-dd-dd.
CheckDateFormat(s) ==
    /\ Len(s) >= 10
    /\ \A k \in 1..10 : IF k \in {5, 8} THEN s[k] = "-" ELSE IsNumeric(s[k])

\* A number with a point becomes a token that ends before the point; without
\* a digit behind the point the token made last is listed again.  A date is
\* looked for in the five characters from the first "-" on.
NumberToken(text, i, last) ==
    LET next == RunEnd(text, i, LAMBDA c : IsNumeric(c) \/ c = "x")
        digits == SubSeq(text, i, next - 1)
        date == SubSeq(text, i, next + 4)
        whole == /\ next + 4 <= Len(text)
                 /\ CheckDateFormat(date)
    IN  CASE At(text, next) = "." /\ IsNumeric(At(text, next + 1)) ->
               Found(Valued("FLOAT", digits, "FLOAT"), next)
          [] At(text, next) = "." /\ ~IsNumeric(At(text, next + 1)) ->
               Found([last EXCEPT !.type = "FLOAT"], next)
          [] At(text, next) = ":" -> Found([NullToken EXCEPT !.type = "TIME"], next)
          [] At(text, next) = "-" ->
               Found(IF whole THEN Valued("DATE", date, "DATE") ELSE Illegal, next)
          [] OTHER -> [Found(Valued("INTEGER", digits, "BIG_INT"), next)
                         EXCEPT !.threw = Len(digits) > MaxDigits]

\* "Finish out the symbol": two characters can make one operator, but only
\* one of them is passed over.
SymbolToken(text, i) ==
    LET c == text[i]
        twin == At(text, i + 1) = "="
        tok == CASE c = "(" -> Plain("LPAREN", <<c>>)
                 [] c = ")" -> Plain("RPAREN", <<c>>)
                 [] c = ";" -> Plain("SEMICOLON", <<c>>)
                 [] c = "," -> Plain("COMMA", <<c>>)
                 [] c = "." -> Plain("DOT", <<c>>)
                 [] c = "*" -> Plain("ASTERISK", <<c>>)
                 [] c = "=" -> Operator("EQ", <<c>>, "EQUALS")
                 [] c = "!" /\ twin -> Operator("NE", <<c, "=">>, "NOT_EQUALS")
                 [] c = "!" /\ ~twin -> Plain("NOT", <<c>>)
                 [] c = "<" /\ twin -> Operator("LE", <<c, "=">>, "LESSER_EQUALS")
                 [] c = "<" /\ ~twin -> Operator("LT", <<c>>, "LESSER")
                 [] c = ">" /\ twin -> Operator("GE", <<c, "=">>, "GREATER_EQUALS")
                 [] c = ">" /\ ~twin -> Operator("GT", <<c>>, "GREATER")
                 [] OTHER -> Illegal
    IN  Found(tok, i + 1)

\* The loop of tokenize from place i on, with the token made last.
RECURSIVE TokensFrom(_, _, _)
TokensFrom(text, i, last) ==
    LET c == text[i]
        found == CASE IsAlphabetic(c) -> WordToken(text, i)
                   [] IsNumeric(c) -> NumberToken(text, i, last)
                   [] IsSymbol(c) -> SymbolToken(text, i)
                   [] OTHER -> [tokens |-> <<>>, next |-> i + 1, threw |-> FALSE]
        made == IF found.tokens = <<>> THEN last ELSE found.tokens[1]
        rest == TokensFrom(text, found.next, made)
    IN  IF i > Len(text) \/ found.threw
        THEN [tokens |-> <<>>, threw |-> i <= Len(text)]
        ELSE [rest EXCEPT !.tokens = found.tokens \o @]

Tokenize(text) == TokensFrom(text, 1, NullToken)

=============================================================================
