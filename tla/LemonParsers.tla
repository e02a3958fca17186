---------------------------- MODULE LemonParsers ----------------------------
(***************************************************************************)
(* Parsers that Lemon generates, fed any text over the terminals of their  *)
(* grammars, one text after the other, and compared with what the grammar  *)
(* says by itself: its sentences, their prefixes, the canonical LR(1)      *)
(* lookaheads and the trees its precedences ask for.  None of these        *)
(* reference definitions uses an operator of the generator.                *)
(***************************************************************************)
EXTENDS Lempar

CONSTANT MaxTokens  \* the tokens of a text

VARIABLES kept,      \* the tokens shifted since the parser started
          count,     \* the tokens of the text so far
          accepted,  \* whether the text was accepted
          dropped,   \* whether a token of the text was thrown away
          overflow,  \* whether the stack was full during the text
          ended      \* whether the end of the text has been fed

historyVars == <<kept, count, accepted, dropped, overflow, ended>>
vars == <<genVars, parserVars, historyVars>>

-----------------------------------------------------------------------------
(* What a grammar says *)

UpTo(S, n) == {s \in S : Len(s) <= n}
Joined(S, T) == {s \o t : s \in S, t \in T}

\* The sentences up to n tokens that the elements of a right-hand side make,
\* given those of the nonterminals.
Made(g, lang, rhs, n) ==
    FoldLeft(LAMBDA S, x : UpTo(Joined(S, UNION {IF s \in DOMAIN lang THEN lang[s] ELSE {<<s>>} :
                                                   s \in Range(x)}), n),
             {<<>>}, rhs)

RECURSIVE LanguageFrom(_, _, _)
LanguageFrom(g, lang, n) ==
    LET next == [x \in DOMAIN lang |->
                   UNION {Made(g, lang, g.rules[r].rhs, n) :
                            r \in {r \in DOMAIN g.rules : g.rules[r].lhs = x}}]
    IN  IF next = lang THEN lang ELSE LanguageFrom(g, next, n)
Language(g, n) == LanguageFrom(g, [x \in Range(g.nonterminals) |-> {}], n)

\* The prefixes of at most n tokens of what the nonterminals generate.
RECURSIVE PrefixSetsFrom(_, _, _, _)
PrefixSetsFrom(g, lang, pre, n) ==
    LET of(x) == UNION {IF s \in DOMAIN pre THEN pre[s] ELSE {<<>>, <<s>>} : s \in Range(x)}
        cut(rhs) == UNION {UpTo(Joined(Made(g, lang, SubSeq(rhs, 1, i - 1), n), of(rhs[i])), n) :
                             i \in DOMAIN rhs}
        next == [x \in DOMAIN pre |->
                   pre[x] \cup UNION {cut(g.rules[r].rhs) :
                                        r \in {r \in DOMAIN g.rules : g.rules[r].lhs = x}}]
    IN  IF next = pre THEN pre ELSE PrefixSetsFrom(g, lang, next, n)
PrefixSets(g, n) ==
    PrefixSetsFrom(g, Language(g, n), [x \in Range(g.nonterminals) |-> {<<>>}], n)

\* The canonical LR(1) states: sets of items <<rule, dot, lookahead>>.  What
\* can stand behind: the first tokens of rest, or la if rest can be empty.
Behind(g, lang, pre, rest, la) ==
    LET nullable(x) == x[1] \in DOMAIN lang /\ <<>> \in lang[x[1]]
        reached == {i \in 1..(Len(rest) + 1) : \A j \in 1..(i - 1) : nullable(rest[j])}
        begin(x) == UNION {IF s \in DOMAIN pre THEN pre[s] ELSE {<<s>>} : s \in Range(x)} \ {<<>>}
    IN  UNION {IF i > Len(rest) THEN {la} ELSE {s[1] : s \in begin(rest[i])} : i \in reached}

RECURSIVE CanonicalClosure(_, _, _, _)
CanonicalClosure(g, lang, pre, items) ==
    LET open == {i \in items : i[2] < Len(g.rules[i[1]].rhs)}
        more == UNION {LET rhs == g.rules[i[1]].rhs
                           las == Behind(g, lang, pre, SubSeq(rhs, i[2] + 2, Len(rhs)), i[3])
                       IN  {r \in DOMAIN g.rules : g.rules[r].lhs = rhs[i[2] + 1][1]} \X {0} \X las :
                         i \in open}
    IN  IF more \subseteq items THEN items ELSE CanonicalClosure(g, lang, pre, items \cup more)

RECURSIVE CanonicalFrom(_, _, _, _)
CanonicalFrom(g, lang, pre, states) ==
    LET moved(S, x) == {<<i[1], i[2] + 1, i[3]>> :
                          i \in {i \in S : /\ i[2] < Len(g.rules[i[1]].rhs)
                                           /\ g.rules[i[1]].rhs[i[2] + 1] = x}}
        elements == UNION {Range(g.rules[r].rhs) : r \in DOMAIN g.rules}
        more == {CanonicalClosure(g, lang, pre, moved(S, x)) : S \in states, x \in elements} \ {{}}
    IN  IF more \subseteq states THEN states
        ELSE CanonicalFrom(g, lang, pre, states \cup more)
CanonicalStates(g) ==
    LET lang == Language(g, 1)
        pre == PrefixSets(g, 1)
        begin == {r \in DOMAIN g.rules : g.rules[r].lhs = g.start} \X {0} \X {"$"}
    IN  CanonicalFrom(g, lang, pre, {CanonicalClosure(g, lang, pre, begin)})

Sentences == [x \in DOMAIN Grammars |-> Language(Grammars[x], MaxTokens)[Grammars[x].start]]
Viable == [x \in DOMAIN Grammars |-> PrefixSets(Grammars[x], MaxTokens)[Grammars[x].start]]
Canonical == [x \in DOMAIN Grammars |-> CanonicalStates(Grammars[x])]

-----------------------------------------------------------------------------
(* Behaviours.  The minor of a stack entry is its tree [label, kids]. *)

Symbol(code) == SymbolsOf(TheGrammar)[code + 1]
Leaf(sym) == [label |-> sym, kids |-> <<>>]
Node(r) == LET handle == Handle(tables, parser, r)
           IN  [label |-> TheGrammar.rules[r + 1].lhs,
                kids |-> [i \in DOMAIN handle |-> handle[i].minor]]

NewText ==
    /\ kept' = <<>> /\ count' = 0
    /\ accepted' = FALSE /\ dropped' = FALSE /\ overflow' = FALSE /\ ended' = FALSE

Init ==
    /\ GenInit
    /\ DriverInit
    /\ kept = <<>> /\ count = 0
    /\ accepted = FALSE /\ dropped = FALSE /\ overflow = FALSE /\ ended = FALSE

Generating ==
    /\ GenNext \/ ReportTable \/ Compile
    /\ UNCHANGED <<parserVars, historyVars>>

Feed ==
    /\ count < MaxTokens /\ ~ended
    /\ \E sym \in Terminals(TheGrammar) \ {"$"} : Parse(Index(TheGrammar, sym), Leaf(sym))
    /\ count' = count + 1
    /\ UNCHANGED <<kept, accepted, dropped, overflow, ended>>

FeedEnd ==
    /\ ~ended
    /\ Parse(0, Leaf("$"))
    /\ ended' = TRUE
    /\ UNCHANGED <<kept, count, accepted, dropped, overflow>>

DoShift ==
    /\ ShiftToken
    /\ overflow' = (overflow \/ parser' = <<>>)
    /\ kept' = IF parser' = <<>> THEN <<>> ELSE Append(kept, Symbol(call.major))
    /\ UNCHANGED <<count, accepted, dropped, ended>>

DoReduce ==
    /\ Reduces
    /\ ReduceTo(Node(Due))
    /\ LET accepts == Accepts(tables, parser, Due)
           full == parser' = <<>> /\ ~accepts
       IN  /\ accepted' = (accepted \/ accepts)
           /\ overflow' = (overflow \/ full)
           /\ kept' = IF full THEN <<>> ELSE kept
    /\ UNCHANGED <<count, dropped, ended>>

DoError ==
    /\ SyntaxError
    /\ dropped' = (dropped \/ ~call.end)
    /\ UNCHANGED <<kept, count, accepted, overflow, ended>>

NextText ==
    /\ ended /\ call = NoCall
    /\ NewText
    /\ UNCHANGED <<genVars, parserVars>>

Working == DoShift \/ DoReduce \/ DoError
Next == Generating \/ Feed \/ FeedEnd \/ Working \/ NextText

\* Parse is one loop that nothing interrupts; nobody has to send a text.
Spec == Init /\ [][Next]_vars /\ WF_vars(Working)

-----------------------------------------------------------------------------
\* FindFollowSets gives every configuration the lookaheads it has in the
\* canonical LR(1) states with the same core: FindLinks and Configlist_closure
\* propagate all of them and no others.
FollowSetsExact ==
    stage = "FindActions" =>
      LET core(S) == {<<i[1], i[2]>> : i \in S}
          merged(n) == {i[3] : i \in {i \in UNION {S \in Canonical[grammar] :
                                                     core(S) = work.states[n[1]].items} :
                                        <<i[1], i[2]>> = n[2]}}
      IN  \A n \in DOMAIN work.fws : work.fws[n] = merged(n)

\* Compressing, resorting and packing lose no action: on every symbol the
\* tables answer with what FindActions decided, and where it decided nothing
\* with an error or a reduction of that state.
TablesKeepActions ==
    stage = "compile" =>
      \A i \in 1..(tables.maxShift + 1) :
        LET live == {a \in Range(work.actions[work.sorted[i]]) : a.type \in {"SHIFT", "REDUCE", "ACCEPT"}}
            onlyRule(s) == {a.to : a \in {a \in Range(work.actions[s]) : a.type = "REDUCE"}}
            number(s) == SelectInSeq(work.sorted, LAMBDA x : x = s) - 1
            asked(a) == CASE a.type = "SHIFT" -> ({number(a.to)} \cap (0..tables.maxShift))
                                \cup {MinShiftReduce(tables) + r - 1 : r \in onlyRule(a.to)}
                          [] a.type = "REDUCE" -> {MinReduce(tables) + a.to - 1}
                          [] a.type = "ACCEPT" -> {AcceptAction(tables)}
            answer(sym) == IF sym \in Terminals(TheGrammar)
                           THEN FindShiftAction(tables, i - 1, Index(TheGrammar, sym))
                           ELSE FindReduceAction(tables, i - 1, Index(TheGrammar, sym))
        IN  /\ \A a \in live : answer(a.sp) \in asked(a)
            /\ \A sym \in Terminals(TheGrammar) \ {a.sp : a \in live} :
                 answer(sym) \in {MaxReduce(tables) + 1}
                                 \cup {MinReduce(tables) + a.to - 1 : a \in {a \in live : a.type = "REDUCE"}}

\* What Parse shifts can always be completed to a sentence: default reductions
\* delay an error but never past the next token.  The first token it throws
\* away is one no sentence has in that place; after that the reductions its
\* state does by default have been done, so more may be thrown away.
TakesWhatFits ==
    [][/\ DoShift => kept' \in Viable[grammar]
       /\ DoError /\ ~call.end /\ ~dropped =>
            Append(kept, Symbol(call.major)) \notin Viable[grammar]]_vars

\* A text is accepted at its end only, and only if the tokens that were not
\* thrown away are a sentence; and every sentence is accepted.
AcceptsSentences ==
    /\ accepted => ended /\ kept \in Sentences[grammar]
    /\ ended /\ call = NoCall /\ ~dropped /\ kept \in Sentences[grammar] => accepted \/ overflow

\* In every tree the operators bind as %left and %right order them, where
\* each operator has a rule of its own and no token was thrown away (the
\* default reductions before that may close an operand too early).
Ranked(g) == \A r \in DOMAIN g.rules : \A i \in DOMAIN g.rules[r].rhs : Len(g.rules[r].rhs[i]) = 1
OperatorsBind ==
    stage = "built" /\ ~dropped /\ Ranked(TheGrammar) =>
      LET prec == TheGrammar.prec
          operator(t) == SelectInSeq(t.kids, LAMBDA k : k.label \in DOMAIN prec)
          rank(t) == prec[t.kids[operator(t)].label]
          tighter(t, u, assoc) == \/ rank(t).level > rank(u).level
                                  \/ rank(t).level = rank(u).level /\ rank(u).assoc = assoc
      IN  \A i \in DOMAIN parser :
            LET u == parser[i].minor
            IN  i > 1 /\ operator(u) # 0 =>
                  \A k \in DOMAIN u.kids :
                    LET t == u.kids[k]
                    IN  /\ operator(t) # 0 /\ k < operator(u) => tighter(t, u, "LEFT")
                        /\ operator(t) > 1 /\ k > operator(u) => tighter(t, u, "RIGHT")

\* Every call of Parse returns: reductions by empty rules and by rules of one
\* symbol do not go on for ever.
ParseReturns == call # NoCall ~> call = NoCall

=============================================================================
