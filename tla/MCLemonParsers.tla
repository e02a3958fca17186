--------------------------- MODULE MCLemonParsers ---------------------------
(* Small grammars, one for each thing the generator can get wrong. *)
EXTENDS LemonParsers

One(symbols) == [i \in DOMAIN symbols |-> <<symbols[i]>>]
Gram(terminals, nonterminals, rules, prec) ==
    [terminals |-> <<"$">> \o terminals, nonterminals |-> <<"error">> \o nonterminals,
     rules |-> rules, prec |-> prec, start |-> nonterminals[1]]
NoPrec == [x \in {} |-> 0]

\* Operators of all kinds, one rule each.
Sums == Gram(<<"NOT", "PLUS", "TIMES", "POWER", "ID">>, <<"s", "e">>,
    <<Rule("s", One(<<"e">>)),
      Rule("e", One(<<"NOT", "e">>)),
      Rule("e", One(<<"e", "PLUS", "e">>)),
      Rule("e", One(<<"e", "TIMES", "e">>)),
      Rule("e", One(<<"e", "POWER", "e">>)),
      Rule("e", One(<<"ID">>))>>,
    [x \in {"NOT", "PLUS", "TIMES", "POWER"} |->
       CASE x = "NOT" -> [level |-> 1, assoc |-> "RIGHT"]
         [] x = "PLUS" -> [level |-> 2, assoc |-> "LEFT"]
         [] x = "TIMES" -> [level |-> 3, assoc |-> "LEFT"]
         [] x = "POWER" -> [level |-> 4, assoc |-> "RIGHT"]])

\* Empty rules in front of and behind a command, as in parse.y.
Lists == Gram(<<"SEMI", "A", "B">>, <<"s", "l", "c", "x", "d", "n", "o">>,
    <<Rule("s", One(<<"l">>)),
      Rule("l", One(<<"l", "c">>)),
      Rule("l", One(<<"c">>)),
      Rule("c", One(<<"SEMI">>)),
      Rule("c", One(<<"x", "d", "SEMI">>)),
      Rule("x", <<>>),
      Rule("d", One(<<"n", "o">>)),
      Rule("n", One(<<"A">>)),
      Rule("o", <<>>),
      Rule("o", One(<<"o", "B">>))>>, NoPrec)

\* Needs lookaheads by context; recursive to the right.
Assigns == Gram(<<"EQ", "STAR", "ID">>, <<"s", "a", "l", "r">>,
    <<Rule("s", One(<<"a">>)),
      Rule("a", One(<<"l", "EQ", "r">>)),
      Rule("a", One(<<"r">>)),
      Rule("l", One(<<"STAR", "r">>)),
      Rule("l", One(<<"ID">>)),
      Rule("r", One(<<"l">>))>>, NoPrec)

\* A choice of terminals in one rule, as in the conditions of parse.y.
Conditions == Gram(<<"AND", "OR", "ID">>, <<"s", "e">>,
    <<Rule("s", One(<<"e">>)),
      Rule("e", <<<<"e">>, <<"AND", "OR">>, <<"e">>>>),
      Rule("e", One(<<"ID">>))>>,
    [x \in {"AND", "OR"} |-> [level |-> IF x = "OR" THEN 1 ELSE 2, assoc |-> "LEFT"]])

\* Conflicts that no precedence resolves.
Dangling == Gram(<<"IF", "ELSE", "A">>, <<"s", "t", "v", "w">>,
    <<Rule("s", One(<<"t">>)),
      Rule("t", One(<<"IF", "t">>)),
      Rule("t", One(<<"IF", "t", "ELSE", "t">>)),
      Rule("t", One(<<"v">>)),
      Rule("t", One(<<"w">>)),
      Rule("v", One(<<"A">>)),
      Rule("w", One(<<"A">>))>>, NoPrec)

MCGrammars == [x \in {"sums", "lists", "assigns", "conditions", "dangling"} |->
    CASE x = "sums" -> Sums
      [] x = "lists" -> Lists
      [] x = "assigns" -> Assigns
      [] x = "conditions" -> Conditions
      [] x = "dangling" -> Dangling]
=============================================================================
