----------------------------- MODULE MCSqlTexts -----------------------------
(* Two tables, one with a name that begins like a keyword. *)
EXTENDS SqlTexts

T == <<"t">>
U == <<"SET", "_", "1">>
K == <<"k">>
V == <<"v">>
W == <<"w">>
MCSchemas == [x \in {T, U} |-> IF x = T THEN <<K, V>> ELSE <<W>>]

UpToTwo(S) == {<<x>> : x \in S} \cup {<<x, y>> : x \in S, y \in S}

Values == {<<"7">>, <<"4", "2">>, <<"NULL">>}

Constraints == {[type |-> "DEFAULT", value |-> <<"7">>], [type |-> "NOT_NULL", value |-> <<>>],
                [type |-> "AUTO_INCREMENT", value |-> <<>>]}
Definitions ==
    {[name |-> K, type |-> ty, constraints |-> cs] :
       ty \in {<<"INTEGER">>, <<"DATE">>, NoName}, cs \in {<<>>} \cup UpToTwo(Constraints)}
Short == {[name |-> n, type |-> <<"BOOLEAN">>, constraints |-> cs] :
            n \in {V, W}, cs \in {<<>>} \cup {<<c>> : c \in Constraints}}
Creates == {[kind |-> "CREATE", table |-> x, columns |-> cs] :
              x \in {T, U}, cs \in {<<d>> : d \in Definitions} \cup UpToTwo(Short)}

Drops == {[kind |-> "DROP", table |-> x] : x \in {T, U}}
Inserts == {[kind |-> "INSERT", table |-> x, values |-> vs] : x \in {T, U}, vs \in UpToTwo(Values)}

Number == [table |-> NoName, name |-> <<"4", "2">>]
Columns == {[table |-> T, name |-> K], [table |-> T, name |-> V], [table |-> U, name |-> W]}
Compare(l, o, r) == [join |-> "AND", left |-> l, op |-> o, right |-> r]
Compares == {Compare(c, o, Number) : c \in Columns, o \in {<<"=">>, <<"!", "=">>}}
              \cup {Compare(Number, <<"=">>, c) : c \in Columns}
Few == {Compare([table |-> T, name |-> K], <<"!", "=">>, Number),
        Compare([table |-> T, name |-> V], <<"=">>, [table |-> U, name |-> W])}
Joined(c, j) == [c EXCEPT !.join = j]
\* OR before AND is left out: parse.y reads it from left to right.
Conditions ==
    {<<c>> : c \in Compares}
    \cup {<<c, Joined(d, j)>> : c \in Few, d \in Few, j \in {"AND", "OR"}}
    \cup {<<c, Joined(d, js[1]), Joined(e, js[2])>> :
            c \in Few, d \in Few, e \in Few,
            js \in {<<"AND", "AND">>, <<"AND", "OR">>, <<"OR", "OR">>}}

Items == {[table |-> T, name |-> Star, as |-> NoName], [table |-> T, name |-> V, as |-> NoName],
          [table |-> T, name |-> K, as |-> W], [table |-> U, name |-> W, as |-> NoName]}
Selects ==
    {[kind |-> "SELECT", items |-> is, from |-> <<T>>, where |-> <<>>] : is \in UpToTwo(Items)}
    \cup {[kind |-> "SELECT", items |-> <<i>>, from |-> f, where |-> w] :
            i \in Items, f \in {<<T>>, <<T, U>>}, w \in Conditions}

Sets == {[name |-> n, value |-> v] : n \in {K, V}, v \in {<<"7">>, <<"4", "2">>}}
Updates == {[kind |-> "UPDATE", table |-> T, sets |-> s, where |-> w] :
              s \in {<<x>> : x \in Sets}, w \in Conditions}
           \cup {[kind |-> "UPDATE", table |-> T, sets |-> s, where |-> <<c>>] :
                   s \in UpToTwo(Sets), c \in Few}

MCCommands == Creates \cup Drops \cup Inserts \cup Selects \cup Updates

\* All texts of up to four letters of these, and some longer ones: numbers
\* with a point, a colon or dashes, and one that does not fit.
Letters == {"SELECT", "DROP", "t", "1", ".", "=", ";"}
MCWild == UNION {[1..n -> Letters] : n \in 0..4}
          \cup {<<"INSERT", " ", "INTO", " ", "t", " ", "VALUES", " ", "(", "1", ":", "5", ")", ";">>,
                <<"1", ".", "5">>, <<"1", ":", "5">>, <<"1", "x", "0", ";">>,
                <<"1", "0", "0", "0">>, <<"?", "!", "<", ">", "'">>,
                <<"2", "0", "1", "6", "-", "0", "5", "-", "0", "1">>,
                <<"DELETE", " ", "FROM", " ", "t", " ", "WHERE", " ", "k", "<", "=", "5", ";">>}
=============================================================================
