---------------------------- MODULE SqlAutomaton ----------------------------
(***************************************************************************)
(* The automaton in the tables that main of lemon.c makes of a grammar,    *)
(* and what is assumed of it: facts about constants, each about one step   *)
(* of the automaton or one walk through it, which TLC evaluates for        *)
(* parse.y.  A state of the automaton is what stands on the stack of the   *)
(* driver: a state of the tables, or the rule a SHIFTREDUCE has left       *)
(* there.  A step <<from, code, to>> puts a symbol on the stack.           *)
(***************************************************************************)
EXTENDS SqlSession

CONSTANT StackBound   \* what the stack needs at most

\* All calls of main, as one definition.
Computed(g) ==
    LET lambdas == Once(Lambdas(g))
        states == Once(FindStates(g))
        first == Once(FirstSets(g, lambdas))
        fws == Once(FindFollowSets(g, lambdas, first, states))
        actions == Once(FindActions(g, states, fws))
        compressed == Once(CompressTables(g, actions))
        sorted == Once(ResortStates(g, compressed))
    IN  [states |-> states, sorted |-> sorted,
         tables |-> Once(PackTables(g, compressed, sorted))]

Codes(g, symbols) == {Index(g, x) : x \in symbols}

\* What Parse is called with: a terminal, what the tokenizer makes of a
\* letter it does not know, and 0 for the end.
TokenCodes(g) == Codes(g, Terminals(g) \ {"$"}) \cup {IllegalCode}

StackStates(t) == (0..MaxShift(t)) \cup (MinReduce(t)..MaxReduce(t))

Shifts(g, t) ==
    LET to(x) == FindShiftAction(t, x[1], x[2])
    IN  {<<x[1], x[2], Pending(t, to(x))>> :
           x \in {x \in StackStates(t) \X TokenCodes(g) : to(x) <= MaxShiftReduce(t)}}
Gotos(g, t) ==
    LET to(x) == FindReduceAction(t, x[1], x[2])
    IN  {<<x[1], x[2], Pending(t, to(x))>> :
           x \in {x \in StackStates(t) \X Codes(g, Range(g.nonterminals)) :
                     to(x) \in 0..MaxShiftReduce(t)}}

\* The configurations <<rule, dot>> of a state.
Items(g, made, s) ==
    IF s <= MaxShift(made.tables) THEN made.states[made.sorted[s + 1]].items
    ELSE LET r == s - MinReduce(made.tables) + 1 IN {<<r, Len(g.rules[r].rhs)>>}

\* The symbols that stand on the stack while a command is read: what has
\* started its statement, or the command itself.
Starters == {"create_table", "update_table", "insert_table", "SELECT", "cmd", "cmdx"}

\* The symbols that hold a condition.
Conditionals == {"expr", "comparison_predicate", "search_condition", "where_clause",
                 "select_table", "cmd", "cmdx"}

\* The statement each symbol has started.
KindOf == [x \in {"create_table", "update_table", "insert_table"} |->
             CASE x = "create_table" -> "CREATE_TABLE"
               [] x = "update_table" -> "UPDATE"
               [] x = "insert_table" -> "INSERT_INTO"]

\* The symbol that the code of a rule needs below its right-hand side or in it.
Needed(act) ==
    CASE act = "builderAddColumn" -> "create_table"
      [] act \in {"builderAddUpdateExpr", "builderFinishUpdateCommand"} -> "update_table"
      [] act = "builderAddDataItem" -> "insert_table"
      [] act \in {"builderAddSelectAllColumns", "builderAddQualifiedSelectColumn"} -> "SELECT"
      [] OTHER -> NoSymbol

-----------------------------------------------------------------------------
(* Walks from the first state *)

\* The states with a symbol of codes below them on some walk.
Behind(steps, states, codes) ==
    LET next(S) == {e[3] : e \in {e \in steps : e[2] \in codes \/ e[1] \in S}}
        from[S \in SUBSET states] == IF next(S) \subseteq S THEN S ELSE from[S \cup next(S)]
    IN  from[{}]

\* The states that some walk reaches without a symbol of codes.
Avoiding(steps, states, codes) ==
    LET next(S) == {e[3] : e \in {e \in steps : e[2] \notin codes /\ e[1] \in S}}
        from[S \in SUBSET states] == IF next(S) \subseteq S THEN S ELSE from[S \cup next(S)]
    IN  from[{0}]

\* The length of the longest walk to each state, if it is below StackBound.
Height(steps, states) ==
    LET next(S) == {e[3] : e \in {e \in steps : e[1] \in S}}
        reached[n \in Nat] == IF n = 0 THEN {0} ELSE next(reached[n - 1])
        levels == Once([n \in 0..StackBound |-> reached[n]])
    IN  [s \in states |-> Max({0} \cup {n \in 0..StackBound : s \in levels[n]})]

Automaton(g) ==
    LET made == Once(Computed(g))
        all == Once(Shifts(g, made.tables) \cup Gotos(g, made.tables))
        states == Once(Avoiding(all, StackStates(made.tables), {}))
        steps == Once({e \in all : e[1] \in states})
    IN  [tables |-> made.tables,
         states |-> states,
         steps |-> steps,
         items |-> [s \in states |-> Items(g, made, s)],
         height |-> Height(steps, states),
         started |-> Behind(steps, states, Codes(g, Starters)),
         conditional |-> Behind(steps, states, Codes(g, Conditionals)),
         without |-> [x \in Starters |-> Avoiding(steps, states, {Index(g, x)})]]

Automata == [x \in DOMAIN Grammars |-> Once(Automaton(Grammars[x]))]

-----------------------------------------------------------------------------
(* What is assumed of a grammar g and its automaton a *)

\* The tokens have codes of their own, none of them the end of the text.
CodesFit(g) ==
    /\ 0 \notin TokenCodes(g)
    /\ TokenCodes(g) \subseteq Int
    /\ \A x \in Range(g.nonterminals) \cup Starters \cup Conditionals : Index(g, x) \in Int
    /\ \A x \in DOMAIN KindOf \cup {"expr"} : Index(g, x) \notin Codes(g, Terminals(g))
    /\ \A x \in Terminals(g) : Index(g, x) \in Codes(g, {"AND", "OR"}) => x \in {"AND", "OR"}
    /\ {0, IllegalCode} \cap Codes(g, {"AND", "OR"}) = {}

RulesFit(g) ==
    /\ g.rules \in Seq([lhs : Range(g.nonterminals), rhs : Seq(Seq(STRING)),
                        mark : STRING, act : STRING])
    /\ \A r \in DOMAIN g.rules : Index(g, g.rules[r].lhs) \notin Codes(g, {"AND", "OR"})

StepsFit(a) ==
    /\ 0 \in a.states /\ a.states \subseteq Nat
    /\ a.steps \subseteq a.states \X Int \X a.states

\* Every action is one of those Parse knows, and a shift is a step; the end of
\* the text and an unknown letter are never shifted.
ActionsFit(g, a) ==
    LET t == a.tables
    IN  /\ t.maxShift \in Nat /\ t.nstate \in Nat /\ t.maxShift < t.nstate
        /\ \A s \in a.states, c \in TokenCodes(g) \cup {0} :
             LET act == FindShiftAction(t, s, c)
             IN  /\ act \in 0..AcceptAction(t)
                 /\ act <= MaxShiftReduce(t) => <<s, c, Pending(t, act)>> \in a.steps
                 /\ c \in {0, IllegalCode} => act > MaxShiftReduce(t)

\* A state with a dot inside a rule is entered over the symbol before the dot.
DotsMoveOn(g, a) ==
    /\ \A s \in a.states : a.items[s] \subseteq Configurations(g)
    /\ \A i \in a.items[0] : i[2] = 0
    /\ \A e \in a.steps : \A i \in a.items[e[3]] :
         i[2] > 0 => /\ <<i[1], i[2] - 1>> \in a.items[e[1]]
                     /\ e[2] \in Codes(g, Range(g.rules[i[1]].rhs[i[2]]))

\* A rule is due only where its right-hand side has been read, and the start
\* rule only at the end of the text.
RulesAreDue(g, a) ==
    \A s \in a.states, c \in TokenCodes(g) \cup {0} :
      LET r == FindShiftAction(a.tables, s, c) - MinReduce(a.tables) + 1
      IN  r \in DOMAIN g.rules =>
            /\ <<r, Len(g.rules[r].rhs)>> \in a.items[s]
            /\ g.rules[r].lhs = g.start => c = 0

\* Where a right-hand side begins the tables know where to go behind its
\* left-hand side, and they accept in the first state.
GotosFit(g, a) ==
    \A s \in a.states, r \in DOMAIN g.rules :
      <<r, 0>> \in a.items[s] =>
        LET lhs == g.rules[r].lhs
            act == FindReduceAction(a.tables, s, Index(g, lhs))
        IN  IF lhs = g.start THEN s = 0 /\ act = AcceptAction(a.tables)
            ELSE /\ act \in 0..MaxShiftReduce(a.tables)
                 /\ <<s, Index(g, lhs), Pending(a.tables, act)>> \in a.steps

\* Each step leads to a higher state, and none is higher than the bound.
HeightsFit(a) ==
    /\ a.height \in [a.states -> 0..(StackBound - 1)] /\ a.height[0] = 0
    /\ \A e \in a.steps : a.height[e[1]] < a.height[e[3]]

\* The sets of states are closed under what they are made of.
WalksFit(g, a) ==
    /\ \A x \in Starters : 0 \in a.without[x]
    /\ \A e \in a.steps :
         /\ e[2] \in Codes(g, Starters) \/ e[1] \in a.started => e[3] \in a.started
         /\ e[2] \in Codes(g, Conditionals) \/ e[1] \in a.conditional => e[3] \in a.conditional
         /\ \A x \in Starters :
              e[2] # Index(g, x) /\ e[1] \in a.without[x] => e[3] \in a.without[x]

\* Completes a command: the rule at which DoReduce counts one.
Completes(rule) == rule.lhs = "end_cmd" /\ Len(rule.rhs) > 1

Uses(g, rule, symbols) ==
    \E d \in DOMAIN rule.rhs : Codes(g, Range(rule.rhs[d])) \cap Codes(g, symbols) # {}

\* The symbols of a command are replaced by others of them until it is complete.
CarriedOn(g, symbols) ==
    \A r \in DOMAIN g.rules :
      Uses(g, g.rules[r], symbols) => g.rules[r].lhs \in symbols \/ Completes(g.rules[r])

\* A statement is started by the symbol that stands for it, once in a
\* command, and the code that needs it finds that symbol on the stack.
StartsFit(g, a) ==
    /\ CarriedOn(g, Starters)
    /\ \A e \in a.steps : e[2] \in Codes(g, Starters) => e[1] \notin a.started
    /\ \A r \in DOMAIN g.rules :
         LET act == g.rules[r].act
             lhs == g.rules[r].lhs
         IN  /\ act \in {"builderStartCreateTable", "builderStartDropTable", "startUpdate",
                         "startInsert"} => lhs \in Starters
             /\ Index(g, lhs) = Index(g, "create_table") => act = "builderStartCreateTable"
             /\ Index(g, lhs) = Index(g, "update_table") => act = "startUpdate"
             /\ Index(g, lhs) = Index(g, "insert_table") => act = "startInsert"
             /\ Index(g, lhs) # Index(g, "SELECT")
             /\ Needed(act) # NoSymbol =>
                  \A s \in a.states :
                    <<r, Len(g.rules[r].rhs)>> \in a.items[s] => s \notin a.without[Needed(act)]

\* Only the two rules of conditions touch one.  Behind a comparison another
\* one can only be joined by AND or OR, and behind the second nothing is done
\* before they are joined.
ConditionsFit(g, a) ==
    /\ CarriedOn(g, Conditionals)
    /\ \A r \in DOMAIN g.rules :
         LET rule == g.rules[r]
         IN  /\ rule.act = "builderAddValueExpr" => rule.lhs = "expr" /\ ~Uses(g, rule, Conditionals)
             /\ rule.act = "builderStartNestedExpr" =>
                  rule.lhs = "expr" /\ rule.rhs = <<<<"expr">>, <<"AND", "OR">>, <<"expr">>>>
             /\ Index(g, rule.lhs) = Index(g, "expr") =>
                  rule.act \in {"builderAddValueExpr", "builderStartNestedExpr"}
             /\ rule.lhs = g.start => rule.act = "none" /\ ~Completes(rule)
                                      /\ g.start \notin Conditionals
    /\ \A e \in a.steps :
         e[2] = Index(g, "expr") /\ e[1] \in a.conditional =>
           \A d \in a.steps : d[3] = e[1] => d[2] \in Codes(g, {"AND", "OR"})
    /\ \A d \in a.steps, e \in a.steps :
         d[3] = e[1] /\ d[2] \in Codes(g, {"AND", "OR"}) /\ e[2] = Index(g, "expr") =>
           \A c \in TokenCodes(g) \cup {0} :
             LET r == FindShiftAction(a.tables, e[3], c) - MinReduce(a.tables) + 1
             IN  r \in DOMAIN g.rules /\ g.rules[r].act = "builderStartNestedExpr"

AutomatonFits(g, a) ==
    /\ CodesFit(g) /\ RulesFit(g) /\ StepsFit(a)
    /\ ActionsFit(g, a) /\ DotsMoveOn(g, a) /\ RulesAreDue(g, a) /\ GotosFit(g, a)
    /\ HeightsFit(a) /\ WalksFit(g, a)
    /\ StartsFit(g, a) /\ ConditionsFit(g, a)

\* The stack has room for every walk, and the grammars are as parse.y is.
ASSUME StackBoundAssumption == StackBound \in Nat /\ StackBound <= StackDepth
ASSUME AutomatonAssumption == \A x \in DOMAIN Grammars : AutomatonFits(Grammars[x], Automata[x])

=============================================================================
