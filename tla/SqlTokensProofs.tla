--------------------------- MODULE SqlTokensProofs ---------------------------
(***************************************************************************)
(* The stack of the parser is a walk through the automaton of its tables,  *)
(* and what the walk has passed says what the builder holds.  From the     *)
(* facts of SqlAutomaton, each about one step of the automaton, the        *)
(* properties of SqlTokens follow for texts of any length, of any types of *)
(* tokens, over any tables and columns.                                    *)
(***************************************************************************)
EXTENDS SqlTokens, TLAPS

-----------------------------------------------------------------------------
(* Stacks *)

Joins(g) == Codes(g, {"AND", "OR"})

\* Symbol x, or one of symbols, is on stack p.
Below(g, p, x) == \E i \in 2..Len(p) : p[i].major = Index(g, x)
BelowAny(g, p, symbols) == \E i \in 2..Len(p) : p[i].major \in Codes(g, symbols)

Entries(a, M) == [state : a.states, major : Int, minor : M]
Typed(a, p) == \E M : p \in Seq(Entries(a, M))

\* The first d elements of rule r stand on top of the first i entries.
ReadBack(g, a, p, i, r, d) ==
    \A k \in 0..d :
      /\ i - k >= 1
      /\ <<r, d - k>> \in a.items[p[i - k].state]
      /\ k < d => p[i - k].major \in Codes(g, Range(g.rules[r].rhs[d - k]))

Walk(a, p) ==
    /\ p # <<>> => p[1].state = 0
    /\ \A i \in 2..Len(p) : <<p[i - 1].state, p[i].major, p[i].state>> \in a.steps
Climbs(a, p) == \A i \in 1..Len(p) : i <= a.height[p[i].state] + 1
HandlesBelow(g, a, p) ==
    \A i \in 1..Len(p), r \in DOMAIN g.rules, d \in Nat :
      <<r, d>> \in a.items[p[i].state] => ReadBack(g, a, p, i, r, d)
Passed(g, a, p) ==
    \A i \in 1..Len(p) :
      /\ \A j \in 2..i :
           /\ p[j].major \in Codes(g, Starters) => p[i].state \in a.started
           /\ p[j].major \in Codes(g, Conditionals) => p[i].state \in a.conditional
      /\ \A x \in Starters :
           p[i].state \notin a.without[x] => \E j \in 2..i : p[j].major = Index(g, x)
JoinsKnown(g, p) == \A i \in 2..Len(p) : p[i].major \in Joins(g) => p[i].minor.operation # "NO_OP"

\* What stands on the stack of a parser.
Stacked(g, a, p) ==
    /\ Walk(a, p) /\ Climbs(a, p) /\ HandlesBelow(g, a, p) /\ Passed(g, a, p) /\ JoinsKnown(g, p)

\* The generated tables are those of the automaton, and their rules the grammar's.
Made(g, a) ==
    /\ AutomatonFits(g, a)
    /\ a.tables.nrule = Len(g.rules)
    /\ a.tables.ruleInfo = [r \in DOMAIN g.rules |-> [lhs |-> Index(g, g.rules[r].lhs),
                                                    nrhs |-> Len(g.rules[r].rhs)]]

-----------------------------------------------------------------------------
(* The builder of a text and the stack *)

Shaped(b) ==
    /\ b = [started |-> b.started, valid |-> b.valid, statement |-> b.statement,
            expr |-> b.expr, temp_constraints |-> b.temp_constraints]
    /\ b.statement = [type |-> b.statement.type, table |-> b.statement.table,
                      list |-> b.statement.list, output |-> b.statement.output,
                      tables |-> b.statement.tables, full_record |-> b.statement.full_record]
    /\ b.expr = [flags |-> b.expr.flags, operation |-> b.expr.operation,
                 kids |-> b.expr.kids, complete |-> b.expr.complete]
    /\ b.started \in BOOLEAN /\ b.expr.complete \in BOOLEAN

\* A node still without its operation.
Open(e) == e.flags = "NESTED" /\ e.operation = "NO_OP"

\* In the first command of a text the stack says which statement has been
\* started.
StatementFits(g, p, b) ==
    /\ \A x \in DOMAIN KindOf : Below(g, p, x) => b.started /\ b.statement.type = KindOf[x]
    /\ Below(g, p, "SELECT") => ~b.started \/ b.statement.type = "SELECT"
    /\ b.started => BelowAny(g, p, Starters)

\* In the first command of a text the stack says whether there is a condition;
\* it has a node without an operation only where the next step gives it one.
ConditionFits(g, p, b) ==
    /\ b.expr.flags # "none" => BelowAny(g, p, Conditionals)
    /\ Below(g, p, "expr") => b.expr.flags # "none"
    /\ b.expr.complete
    /\ Open(b.expr) => /\ Len(p) >= 3
                       /\ p[Len(p)].major = Index(g, "expr")
                       /\ p[Len(p) - 1].major \in Joins(g)

BuilderFits(g, p, b, n) ==
    /\ n = 0 => StatementFits(g, p, b) /\ ConditionFits(g, p, b)
    /\ n = 1 => ExprComplete(b.expr) \/ BelowAny(g, p, Conditionals)

-----------------------------------------------------------------------------
(* The inductive invariant *)

TheAutomaton == Automata[grammar]

\* main makes the tables step by step.
MainFollows ==
    LET g == TheGrammar
        L == Lambdas(g)
        S == FindStates(g)
        F == FirstSets(g, L)
        W == FindFollowSets(g, L, F, S)
        A == FindActions(g, S, W)
        C == CompressTables(g, A)
        R == ResortStates(g, C)
    IN  /\ grammar \in DOMAIN Grammars
        /\ DOMAIN work = DOMAIN NoWork
        /\ stage \in {"FindFirstSets", "FirstSets", "FindStates", "FindFollowSets", "FindActions",
                     "CompressTables", "ResortStates", "ReportTable", "compile", "built"}
        /\ stage \in {"FirstSets", "FindStates", "FindFollowSets"} => work.lambdas = L
        /\ stage \in {"FindStates", "FindFollowSets"} => work.first = F
        /\ stage \in {"FindFollowSets", "FindActions"} => work.states = S
        /\ stage = "FindActions" => work.fws = W
        /\ stage = "CompressTables" => work.actions = A
        /\ stage \in {"ResortStates", "ReportTable"} => work.compressed = C
        /\ stage = "ReportTable" => work.sorted = R
        /\ stage \in {"compile", "built"} => tables = TheAutomaton.tables

\* A token is worked on only by a parser that has begun.
CallFits ==
    /\ call # NoCall =>
         /\ stage = "built" /\ parser # <<>>
         /\ call.major \in TokenCodes(TheGrammar) \cup {0}
         /\ call.major \in Joins(TheGrammar) => call.minor.operation # "NO_OP"
         /\ call.end = (call.major = 0) /\ ended = call.end
    /\ ended /\ call = NoCall => parser = <<>>
    /\ stage # "built" => call = NoCall /\ parser = <<>> /\ ~ended

ParserFits ==
    /\ Typed(TheAutomaton, parser)
    /\ Stacked(TheGrammar, TheAutomaton, parser)

TextFits ==
    /\ Shaped(builder)
    /\ commands \in 0..2 /\ accepted \in BOOLEAN /\ ended \in BOOLEAN
    /\ parser # <<>> => BuilderFits(TheGrammar, parser, builder, commands)
    /\ parser = <<>> /\ ~ended => builder = NewBuilder /\ commands = 0
    /\ parser = <<>> /\ ended => \/ accepted /\ (commands <= 1 => ExprComplete(builder.expr))
                                \/ builder.statement = NoStatement
    /\ died = "misfit" => commands > 0
    /\ stage # "built" => died = "no"

Inv == MainFollows /\ CallFits /\ ParserFits /\ TextFits

-----------------------------------------------------------------------------
(* Pushing and popping *)

LEMMA SeqWidened ==
    ASSUME NEW S, NEW T, S \subseteq T, NEW p \in Seq(S)
    PROVE  p \in Seq(T)
<1>1. Len(p) \in Nat /\ p \in [1..Len(p) -> S]
  OBVIOUS
<1>2. p \in [1..Len(p) -> T]
  BY <1>1
<1> QED
  BY <1>1, <1>2

LEMMA SeqElement ==
    ASSUME NEW S, NEW p \in Seq(S), NEW i \in DOMAIN p
    PROVE  p[i] \in S
OBVIOUS

LEMMA NonEmptyLen ==
    ASSUME NEW a, NEW p, Typed(a, p), p # <<>>
    PROVE  Len(p) \in Nat /\ Len(p) >= 1
<1>1. PICK M : p \in Seq(Entries(a, M))
  BY DEF Typed
<1> QED
  BY <1>1

LEMMA Appended ==
    ASSUME NEW a, NEW p, Typed(a, p), NEW s \in a.states, NEW code \in Int, NEW minor
    PROVE  LET e == [state |-> s, major |-> code, minor |-> minor]
               q == Append(p, e)
           IN  /\ Typed(a, q) /\ Len(p) \in Nat /\ Len(q) = Len(p) + 1 /\ q # <<>>
               /\ \A i \in 1..Len(p) : q[i] = p[i]
               /\ q[Len(p) + 1] = e
<1>1. PICK M : p \in Seq(Entries(a, M))
  BY DEF Typed
<1> DEFINE N == M \cup {minor}
           e == [state |-> s, major |-> code, minor |-> minor]
<1>2. p \in Seq(Entries(a, N)) /\ e \in Entries(a, N)
  <2>1. Entries(a, M) \subseteq Entries(a, N)
    BY DEF Entries
  <2>4. p \in Seq(Entries(a, N))
    BY <1>1, <2>1, SeqWidened
  <2>5. e \in Entries(a, N)
    BY DEF Entries
  <2> QED
    BY <2>4, <2>5
<1> HIDE DEF N, e
<1>3. Append(p, e) \in Seq(Entries(a, N))
  BY <1>2
<1> QED
  BY <1>2, <1>3 DEF Typed, e

LEMMA Popped ==
    ASSUME NEW a, NEW p, Typed(a, p), NEW n \in 0..Len(p)
    PROVE  LET q == SubSeq(p, 1, n)
           IN  /\ Typed(a, q) /\ Len(q) = n /\ Len(p) \in Nat
               /\ \A i \in 1..n : q[i] = p[i]
<1>1. PICK M : p \in Seq(Entries(a, M))
  BY DEF Typed
<1>2. SubSeq(p, 1, n) \in Seq(Entries(a, M))
  BY <1>1
<1> QED
  BY <1>1, <1>2 DEF Typed

LEMMA EntryTyped ==
    ASSUME NEW a, NEW p, Typed(a, p)
    PROVE  /\ Len(p) \in Nat
           /\ \A i \in 1..Len(p) : p[i].state \in a.states /\ p[i].major \in Int
<1>1. PICK M : p \in Seq(Entries(a, M))
  BY DEF Typed
<1>2. Len(p) \in Nat /\ \A i \in 1..Len(p) : p[i] \in Entries(a, M)
  BY <1>1
<1> QED
  BY <1>2 DEF Entries

\* The first entry of a stack.
LEMMA BaseStacked ==
    ASSUME NEW g, NEW a, AutomatonFits(g, a), NEW minor
    PROVE  LET p == <<[state |-> 0, major |-> 0, minor |-> minor]>>
           IN  Typed(a, p) /\ Stacked(g, a, p) /\ Len(p) = 1
<1> DEFINE e == [state |-> 0, major |-> 0, minor |-> minor]
           p == <<e>>
<1>1. 0 \in a.states
  BY DEF AutomatonFits, StepsFit
<1>2. e \in Entries(a, {minor})
  BY <1>1 DEF Entries
<1>3. Len(p) = 1 /\ p[1] = e /\ p # <<>>
  OBVIOUS
<1>4. Typed(a, p)
  <2>1. p \in Seq(Entries(a, {minor}))
    BY <1>2
  <2> QED
    BY <2>1 DEF Typed
<1> HIDE DEF p
<1>5. Walk(a, p)
  BY <1>3 DEF Walk, e
<1>6. Climbs(a, p)
  BY <1>3 DEF AutomatonFits, HeightsFit, Climbs, e
<1>7. HandlesBelow(g, a, p)
  <2> SUFFICES ASSUME NEW r \in DOMAIN g.rules, NEW d \in Nat, <<r, d>> \in a.items[0]
               PROVE  ReadBack(g, a, p, 1, r, d)
    BY <1>3 DEF HandlesBelow, e
  <2>1. d = 0
    BY DEF AutomatonFits, DotsMoveOn
  <2> QED
    BY <2>1, <1>3 DEF ReadBack, e
<1>8. Passed(g, a, p)
  <2>1. \A x \in Starters : 0 \in a.without[x]
    BY DEF AutomatonFits, WalksFit, StartsFit
  <2> QED
    BY <2>1, <1>3 DEF Passed, e
<1>9. JoinsKnown(g, p)
  BY <1>3 DEF JoinsKnown
<1> QED
  BY <1>3, <1>4, <1>5, <1>6, <1>7, <1>8, <1>9 DEF Stacked, p

\* What is left of a stack is a stack.
LEMMA PrefixStacked ==
    ASSUME NEW g, NEW a, NEW p, Typed(a, p), Stacked(g, a, p), NEW n \in 1..Len(p)
    PROVE  Stacked(g, a, SubSeq(p, 1, n))
<1> DEFINE q == SubSeq(p, 1, n)
<1>1. Len(q) = n /\ Len(p) \in Nat /\ \A i \in 1..n : q[i] = p[i]
  BY Popped
<1> HIDE DEF q
<1>2. Walk(a, q)
  BY <1>1 DEF Stacked, Walk
<1>3. Climbs(a, q)
  BY <1>1 DEF Stacked, Climbs
<1>4. HandlesBelow(g, a, q)
  <2> SUFFICES ASSUME NEW i \in 1..n, NEW r \in DOMAIN g.rules, NEW d \in Nat,
                      <<r, d>> \in a.items[q[i].state]
               PROVE  ReadBack(g, a, q, i, r, d)
    BY <1>1 DEF HandlesBelow
  <2>1. ReadBack(g, a, p, i, r, d)
    BY <1>1 DEF Stacked, HandlesBelow
  <2>2. ASSUME NEW k \in 0..d
        PROVE  /\ i - k >= 1
               /\ <<r, d - k>> \in a.items[q[i - k].state]
               /\ k < d => q[i - k].major \in Codes(g, Range(g.rules[r].rhs[d - k]))
    <3>1. i - k \in 1..n /\ q[i - k] = p[i - k]
      <4>1. i - k >= 1
        BY <2>1 DEF ReadBack
      <4>2. i - k \in 1..n
        BY <4>1
      <4> QED
        BY <4>2, <1>1
    <3> QED
      BY <3>1, <2>1 DEF ReadBack
  <2> QED
    BY <2>2 DEF ReadBack
<1>5. Passed(g, a, q)
  <2>1. \A i \in 1..n : \A j \in 2..i : q[i] = p[i] /\ q[j] = p[j]
    BY <1>1
  <2> QED
    BY <2>1, <1>1 DEF Stacked, Passed
<1>6. JoinsKnown(g, q)
  BY <1>1 DEF Stacked, JoinsKnown
<1> QED
  BY <1>2, <1>3, <1>4, <1>5, <1>6 DEF Stacked, q

\* A step puts a symbol on a stack.
LEMMA StepStacked ==
    ASSUME NEW g, NEW a, AutomatonFits(g, a), NEW p, Typed(a, p), Stacked(g, a, p), p # <<>>,
           NEW s, NEW code, NEW minor, <<p[Len(p)].state, code, s>> \in a.steps,
           code \in Joins(g) => minor.operation # "NO_OP"
    PROVE  LET q == Append(p, [state |-> s, major |-> code, minor |-> minor])
           IN  Typed(a, q) /\ Stacked(g, a, q)
<1> DEFINE e == [state |-> s, major |-> code, minor |-> minor]
           q == Append(p, e)
           n == Len(p)
           top == p[n].state
<1>1. n \in Nat /\ n >= 1 /\ top \in a.states
  BY EntryTyped, NonEmptyLen
<1>2. s \in a.states /\ code \in Int
  BY <1>1 DEF AutomatonFits, StepsFit
<1>3. /\ Typed(a, q) /\ Len(q) = n + 1 /\ q # <<>> /\ q[n + 1] = e
      /\ \A i \in 1..n : q[i] = p[i]
  BY <1>2, Appended
<1> HIDE DEF q
<1>4. Walk(a, q)
  <2>1. q[1].state = 0
    BY <1>1, <1>3 DEF Stacked, Walk
  <2>2. ASSUME NEW i \in 2..Len(q)
        PROVE  <<q[i - 1].state, q[i].major, q[i].state>> \in a.steps
    <3>1. CASE i \in 2..n
      <4>1. q[i] = p[i] /\ q[i - 1] = p[i - 1]
        BY <3>1, <1>1, <1>3
      <4>2. <<p[i - 1].state, p[i].major, p[i].state>> \in a.steps
        BY <3>1 DEF Stacked, Walk
      <4> QED
        BY <4>1, <4>2
    <3>2. CASE i = n + 1
      BY <3>2, <1>1, <1>3 DEF e
    <3> QED
      BY <3>1, <3>2, <1>1, <1>3
  <2> QED
    BY <2>1, <2>2 DEF Walk
<1>5. Climbs(a, q)
  <2>1. a.height[top] < a.height[s] /\ a.height[top] \in Int /\ a.height[s] \in Int
    BY <1>1, <1>2, StackBoundAssumption DEF AutomatonFits, HeightsFit
  <2>2. n <= a.height[top] + 1
    BY <1>1 DEF Stacked, Climbs
  <2>3. ASSUME NEW i \in 1..Len(q)
        PROVE  i <= a.height[q[i].state] + 1
    <3>1. CASE i \in 1..n
      BY <3>1, <1>1, <1>3 DEF Stacked, Climbs
    <3>2. CASE i = n + 1
      BY <3>2, <1>1, <1>3, <2>1, <2>2 DEF e
    <3> QED
      BY <3>1, <3>2, <1>1, <1>3
  <2> QED
    BY <2>3 DEF Climbs
<1>6. HandlesBelow(g, a, q)
  <2> SUFFICES ASSUME NEW i \in 1..Len(q), NEW r \in DOMAIN g.rules, NEW d \in Nat,
                      <<r, d>> \in a.items[q[i].state]
               PROVE  ReadBack(g, a, q, i, r, d)
    BY DEF HandlesBelow
  <2>1. CASE i \in 1..n
    <3>1. ReadBack(g, a, p, i, r, d)
      BY <2>1, <1>3 DEF Stacked, HandlesBelow
    <3>2. ASSUME NEW k \in 0..d
          PROVE  /\ i - k >= 1
                 /\ <<r, d - k>> \in a.items[q[i - k].state]
                 /\ k < d => q[i - k].major \in Codes(g, Range(g.rules[r].rhs[d - k]))
      <4>1. i - k \in 1..n /\ q[i - k] = p[i - k]
        <5>1. i - k >= 1
          BY <3>1 DEF ReadBack
        <5>2. i - k \in 1..n
          BY <5>1, <2>1, <1>1
        <5> QED
          BY <5>2, <1>3
      <4> QED
        BY <3>1, <4>1 DEF ReadBack
    <3> QED
      BY <3>2 DEF ReadBack
  <2>2. CASE i = n + 1
    <3>1. <<r, d>> \in a.items[s]
      BY <2>2, <1>3 DEF e
    <3>2. d > 0 => /\ <<r, d - 1>> \in a.items[top]
                   /\ code \in Codes(g, Range(g.rules[r].rhs[d]))
      BY <3>1 DEF AutomatonFits, DotsMoveOn
    <3>3. d > 0 => ReadBack(g, a, p, n, r, d - 1)
      BY <3>2, <1>1 DEF Stacked, HandlesBelow
    <3>4. ASSUME NEW k \in 0..d
          PROVE  /\ i - k >= 1
                 /\ <<r, d - k>> \in a.items[q[i - k].state]
                 /\ k < d => q[i - k].major \in Codes(g, Range(g.rules[r].rhs[d - k]))
      <4>1. CASE k = 0
        BY <4>1, <2>2, <1>1, <1>3, <3>1, <3>2 DEF e
      <4>2. CASE k > 0
        <5> DEFINE j == k - 1
        <5>1. j \in 0..(d - 1) /\ n - j = i - k /\ (d - 1) - j = d - k
          BY <4>2, <2>2, <1>1
        <5>2. /\ n - j >= 1
              /\ <<r, (d - 1) - j>> \in a.items[p[n - j].state]
              /\ j < d - 1 => p[n - j].major \in Codes(g, Range(g.rules[r].rhs[(d - 1) - j]))
          <6>1. ReadBack(g, a, p, n, r, d - 1)
            BY <4>2, <3>3
          <6> QED
            BY <5>1, <6>1 DEF ReadBack
        <5>3. i - k \in 1..n /\ q[i - k] = p[i - k] /\ (j < d - 1 <=> k < d)
          BY <5>1, <5>2, <1>1, <1>3
        <5> QED
          BY <5>1, <5>2, <5>3
      <4> QED
        BY <4>1, <4>2
    <3> QED
      BY <3>4 DEF ReadBack
  <2> QED
    BY <2>1, <2>2, <1>1, <1>3
<1>7. Passed(g, a, q)
  <2>1. /\ code \in Codes(g, Starters) \/ top \in a.started => s \in a.started
        /\ code \in Codes(g, Conditionals) \/ top \in a.conditional => s \in a.conditional
        /\ \A x \in Starters : code # Index(g, x) /\ top \in a.without[x] => s \in a.without[x]
    BY DEF AutomatonFits, WalksFit
  <2>2. ASSUME NEW i \in 1..n
        PROVE  /\ \A j \in 2..i :
                    /\ p[j].major \in Codes(g, Starters) => p[i].state \in a.started
                    /\ p[j].major \in Codes(g, Conditionals) => p[i].state \in a.conditional
               /\ \A x \in Starters :
                    p[i].state \notin a.without[x] => \E j \in 2..i : p[j].major = Index(g, x)
    BY DEF Stacked, Passed
  <2>3. ASSUME NEW i \in 1..Len(q), NEW j \in 2..i
        PROVE  /\ q[j].major \in Codes(g, Starters) => q[i].state \in a.started
               /\ q[j].major \in Codes(g, Conditionals) => q[i].state \in a.conditional
    <3>1. CASE i \in 1..n
      <4>1. j \in 1..n /\ q[i] = p[i] /\ q[j] = p[j]
        BY <3>1, <1>1, <1>3
      <4> QED
        BY <3>1, <4>1, <2>2
    <3>2. CASE i = n + 1 /\ j \in 2..n
      BY <3>2, <1>1, <1>3, <2>1, <2>2 DEF e
    <3>3. CASE i = n + 1 /\ j = n + 1
      BY <3>3, <1>1, <1>3, <2>1 DEF e
    <3> QED
      BY <3>1, <3>2, <3>3, <1>1, <1>3
  <2>4. ASSUME NEW i \in 1..Len(q), NEW x \in Starters, q[i].state \notin a.without[x]
        PROVE  \E j \in 2..i : q[j].major = Index(g, x)
    <3>1. CASE i \in 1..n
      <4>1. PICK j \in 2..i : p[j].major = Index(g, x)
        BY <3>1, <1>1, <1>3, <2>2, <2>4
      <4> QED
        BY <4>1, <3>1, <1>1, <1>3
    <3>2. CASE i = n + 1
      <4>1. code = Index(g, x) \/ top \notin a.without[x]
        BY <3>2, <1>3, <2>1, <2>4 DEF e
      <4>2. CASE code = Index(g, x)
        BY <4>2, <3>2, <1>1, <1>3 DEF e
      <4>3. CASE top \notin a.without[x]
        <5>1. PICK j \in 2..n : p[j].major = Index(g, x)
          BY <4>3, <1>1, <2>2
        <5> QED
          BY <5>1, <3>2, <1>1, <1>3
      <4> QED
        BY <4>1, <4>2, <4>3
    <3> QED
      BY <3>1, <3>2, <1>1, <1>3
  <2> QED
    BY <2>3, <2>4 DEF Passed
<1>8. JoinsKnown(g, q)
  <2> SUFFICES ASSUME NEW i \in 2..Len(q), q[i].major \in Joins(g)
               PROVE  q[i].minor.operation # "NO_OP"
    BY DEF JoinsKnown
  <2>1. CASE i \in 2..n
    BY <2>1, <1>1, <1>3 DEF Stacked, JoinsKnown
  <2>2. CASE i = n + 1
    BY <2>2, <1>3 DEF e
  <2> QED
    BY <2>1, <2>2, <1>1, <1>3
<1> QED
  BY <1>3, <1>4, <1>5, <1>6, <1>7, <1>8 DEF Stacked, q

-----------------------------------------------------------------------------
(* The generated tables *)

LEMMA OnceItself ==
    ASSUME NEW x
    PROVE  Once(x) = x
BY Zenon DEF Once

\* What main computes call by call is what Computed says at once.
LEMMA ComputedTables ==
    ASSUME NEW g
    PROVE  LET L == Lambdas(g)
               S == FindStates(g)
               F == FirstSets(g, L)
               W == FindFollowSets(g, L, F, S)
               A == FindActions(g, S, W)
               C == CompressTables(g, A)
               R == ResortStates(g, C)
           IN  Automaton(g).tables = PackTables(g, C, R)
<1> DEFINE L == Lambdas(g)
           S == FindStates(g)
           F == FirstSets(g, L)
           W == FindFollowSets(g, L, F, S)
           A == FindActions(g, S, W)
           C == CompressTables(g, A)
           R == ResortStates(g, C)
<1>1. Computed(g).tables = PackTables(g, C, R)
  BY OnceItself, Zenon DEF Computed
<1>2. Automaton(g).tables = Computed(g).tables
  BY OnceItself, Zenon DEF Automaton
<1> QED
  BY <1>1, <1>2

LEMMA PackedRules ==
    ASSUME NEW g, NEW c, NEW sorted
    PROVE  LET t == PackTables(g, c, sorted)
           IN  /\ t.nrule = Len(g.rules)
               /\ t.ruleInfo = [r \in DOMAIN g.rules |-> [lhs |-> Index(g, g.rules[r].lhs),
                                                          nrhs |-> Len(g.rules[r].rhs)]]
BY Zenon DEF PackTables

LEMMA GrammarsMade ==
    ASSUME NEW x \in DOMAIN Grammars
    PROVE  Made(Grammars[x], Automata[x])
<1>1. Automata[x] = Automaton(Grammars[x])
  BY OnceItself DEF Automata
<1>2. AutomatonFits(Grammars[x], Automata[x])
  BY AutomatonAssumption
<1> QED
  BY <1>1, <1>2, ComputedTables, PackedRules DEF Made

\* The numbers of the actions, in their order.
LEMMA ActionNumbers ==
    ASSUME NEW g, NEW a, Made(g, a)
    PROVE  LET t == a.tables
           IN  /\ Len(g.rules) \in Nat /\ DOMAIN g.rules = 1..Len(g.rules)
               /\ MaxShiftReduce(t) \in Int /\ MinReduce(t) = MaxShiftReduce(t) + 1
               /\ MaxReduce(t) = MinReduce(t) + Len(g.rules) - 1
               /\ AcceptAction(t) = MaxReduce(t) + 2
<1>1. g.rules \in Seq([lhs : Range(g.nonterminals), rhs : Seq(Seq(STRING)),
                       mark : STRING, act : STRING])
  BY DEF Made, AutomatonFits, RulesFit
<1>2. Len(g.rules) \in Nat /\ DOMAIN g.rules = 1..Len(g.rules)
  BY <1>1
<1>3. a.tables.nstate \in Nat /\ a.tables.nrule = Len(g.rules)
  BY DEF Made, AutomatonFits, ActionsFit
<1> QED
  BY <1>2, <1>3 DEF MaxShiftReduce, MinReduce, MaxReduce, AcceptAction

-----------------------------------------------------------------------------
(* One reduction *)

\* What the tables say of the token c over stack p.
ActOn(a, p, c) == FindShiftAction(a.tables, p[Len(p)].state, c)

\* Rule r is due over stack p with the token c.
IsDue(g, a, p, c, r) ==
    /\ p # <<>> /\ c \in TokenCodes(g) \cup {0}
    /\ r \in DOMAIN g.rules /\ r = ActOn(a, p, c) - MinReduce(a.tables) + 1

\* How far stack p reaches below the right-hand side of rule r, and that part of it.
Base(g, p, r) == Len(p) - Len(g.rules[r].rhs)
Rest(g, p, r) == SubSeq(p, 1, Base(g, p, r))

\* A rule that is due finds its right-hand side on top of the stack, and below
\* it a state that begins the rule.
LEMMA HandleOnTop ==
    ASSUME NEW g, NEW a, Made(g, a), NEW p, Typed(a, p), Stacked(g, a, p),
           NEW c, NEW r, IsDue(g, a, p, c, r)
    PROVE  /\ Len(g.rules[r].rhs) \in Nat
           /\ DOMAIN g.rules[r].rhs = 1..Len(g.rules[r].rhs)
           /\ Len(p) \in Nat /\ Base(g, p, r) \in 1..Len(p)
           /\ \A i \in (Base(g, p, r) + 1)..Len(p) :
                p[i].major \in Codes(g, Range(g.rules[r].rhs[i - Base(g, p, r)]))
           /\ <<r, Len(g.rules[r].rhs)>> \in a.items[p[Len(p)].state]
           /\ <<r, 0>> \in a.items[p[Base(g, p, r)].state]
<1> DEFINE rhs == g.rules[r].rhs
           n == Len(rhs)
           m == Len(p) - n
           top == p[Len(p)].state
<1>1. Len(p) \in Nat /\ Len(p) >= 1 /\ top \in a.states
  BY NonEmptyLen, EntryTyped DEF IsDue
<1>2. n \in Nat /\ DOMAIN rhs = 1..n
  <2>1. g.rules \in Seq([lhs : Range(g.nonterminals), rhs : Seq(Seq(STRING)),
                         mark : STRING, act : STRING])
    BY DEF Made, AutomatonFits, RulesFit
  <2>2. g.rules[r] \in [lhs : Range(g.nonterminals), rhs : Seq(Seq(STRING)),
                        mark : STRING, act : STRING]
    BY <2>1, SeqElement DEF IsDue
  <2>3. rhs \in Seq(Seq(STRING))
    BY <2>2
  <2> QED
    BY <2>3
<1>3. <<r, n>> \in a.items[top]
  BY <1>1 DEF IsDue, ActOn, Made, AutomatonFits, RulesAreDue
<1>4. ReadBack(g, a, p, Len(p), r, n)
  BY <1>1, <1>2, <1>3 DEF Stacked, HandlesBelow, IsDue
<1> HIDE DEF n, rhs
<1>5. m >= 1 /\ <<r, 0>> \in a.items[p[m].state]
  <2>1. n \in 0..n /\ n - n = 0
    BY <1>2
  <2> QED
    BY <1>4, <2>1 DEF ReadBack
<1>6. ASSUME NEW i \in (m + 1)..Len(p)
      PROVE  p[i].major \in Codes(g, Range(rhs[i - m]))
  <2> DEFINE k == Len(p) - i
  <2>1. k \in 0..n /\ k < n /\ Len(p) - k = i /\ n - k = i - m
    BY <1>1, <1>2
  <2>2. p[Len(p) - k].major \in Codes(g, Range(rhs[n - k]))
    BY <1>4, <2>1 DEF ReadBack, rhs
  <2> QED
    BY <2>1, <2>2
<1>7. m \in 1..Len(p)
  BY <1>1, <1>2, <1>5
<1> HIDE DEF m
<1> QED
  BY <1>1, <1>2, <1>3, <1>5, <1>6, <1>7, Zenon DEF Base, m, n, rhs

\* The start rule is due only at the end of the text.
LEMMA StartAtEnd ==
    ASSUME NEW g, NEW a, Made(g, a), NEW p, Typed(a, p), NEW c, NEW r, IsDue(g, a, p, c, r)
    PROVE  g.rules[r].lhs = g.start => c = 0
<1>1. p[Len(p)].state \in a.states
  BY NonEmptyLen, EntryTyped DEF IsDue
<1> QED
  BY <1>1 DEF IsDue, ActOn, Made, AutomatonFits, RulesAreDue

LEMMA StartAtBase ==
    ASSUME NEW g, NEW a, Made(g, a), NEW p, Typed(a, p), Stacked(g, a, p),
           NEW c, NEW r, IsDue(g, a, p, c, r), g.rules[r].lhs = g.start
    PROVE  Base(g, p, r) = 1
<1> DEFINE m == Base(g, p, r)
<1>1. Len(p) \in Nat /\ m \in 1..Len(p) /\ <<r, 0>> \in a.items[p[m].state]
  BY HandleOnTop
<1>2. p[m].state \in a.states
  BY <1>1, EntryTyped
<1>3. p[m].state = 0
  BY <1>1, <1>2 DEF IsDue, Made, AutomatonFits, GotosFit
<1> HIDE DEF m
<1>4. m <= a.height[0] + 1 /\ a.height[0] = 0
  BY <1>1, <1>3 DEF Stacked, Climbs, Made, AutomatonFits, HeightsFit
<1> QED
  BY <1>1, <1>4 DEF m

\* Where the tables go behind rule r, and the entry they put on the stack.
GotoAction(g, a, p, r) ==
    FindReduceAction(a.tables, p[Base(g, p, r)].state, Index(g, g.rules[r].lhs))
GotoState(g, a, p, r) == Pending(a.tables, GotoAction(g, a, p, r))
Pushed(p, s, code, minor) == Append(p, [state |-> s, major |-> code, minor |-> minor])

\* The start rule accepts the text and empties the stack; every other rule
\* makes a step from what is left below its right-hand side.
ReducesTo(g, a, p, r, minor) ==
    /\ Accepts(a.tables, p, r - 1) <=> g.rules[r].lhs = g.start
    /\ g.rules[r].lhs = g.start => Reduced(a.tables, p, r - 1, minor) = <<>>
    /\ g.rules[r].lhs # g.start =>
         /\ GotoAction(g, a, p, r) \in 0..MaxShiftReduce(a.tables)
         /\ <<p[Base(g, p, r)].state, Index(g, g.rules[r].lhs), GotoState(g, a, p, r)>> \in a.steps
         /\ Reduced(a.tables, p, r - 1, minor)
              = Pushed(Rest(g, p, r), GotoState(g, a, p, r), Index(g, g.rules[r].lhs), minor)

LEMMA ReducedStack ==
    ASSUME NEW g, NEW a, Made(g, a), NEW p, Typed(a, p), Stacked(g, a, p),
           NEW c, NEW r, IsDue(g, a, p, c, r), NEW minor
    PROVE  ReducesTo(g, a, p, r, minor)
<1> DEFINE t == a.tables
           lhs == Index(g, g.rules[r].lhs)
           n == Len(g.rules[r].rhs)
           m == Len(p) - n
           act == FindReduceAction(t, p[m].state, lhs)
           s == Pending(t, act)
           e == [state |-> s, major |-> lhs, minor |-> minor]
           rest == SubSeq(p, 1, m)
           q == Reduced(t, p, r - 1, minor)
<1>1. /\ n \in Nat /\ Len(p) \in Nat /\ m \in 1..Len(p) /\ p[m].state \in a.states
      /\ <<r, 0>> \in a.items[p[m].state]
      /\ g.rules[r].lhs = g.start => c = 0
  <2>1. /\ Len(g.rules[r].rhs) \in Nat /\ Len(p) \in Nat
        /\ Base(g, p, r) \in 1..Len(p) /\ <<r, 0>> \in a.items[p[Base(g, p, r)].state]
        /\ g.rules[r].lhs = g.start => c = 0
    <3>1. Base(g, p, r) \in 1..Len(p)
      BY HandleOnTop
    <3>2. g.rules[r].lhs = g.start => c = 0
      BY StartAtEnd
    <3>3. Len(g.rules[r].rhs) \in Nat /\ Len(p) \in Nat
      BY HandleOnTop
    <3>4. <<r, 0>> \in a.items[p[Base(g, p, r)].state]
      BY HandleOnTop
    <3> QED
      BY <3>1, <3>2, <3>3, <3>4
  <2>3. /\ n \in Nat /\ Len(p) \in Nat /\ m \in 1..Len(p)
        /\ <<r, 0>> \in a.items[p[m].state]
        /\ g.rules[r].lhs = g.start => c = 0
    BY <2>1 DEF Base
  <2>2. p[m].state \in a.states
    BY <2>3, EntryTyped
  <2> QED
    BY <2>3, <2>2
<1>2. r \in DOMAIN g.rules /\ r \in Int
  BY ActionNumbers DEF IsDue
<1>3. t.ruleInfo[(r - 1) + 1].lhs = lhs /\ t.ruleInfo[(r - 1) + 1].nrhs = n
  BY <1>2 DEF Made
<1>4. Len(rest) = m /\ Top(rest) = p[m].state
  <2>1. Len(rest) = m /\ rest[m] = p[m]
    <3>1. m \in 0..Len(p) /\ m \in 1..m
      BY <1>1
    <3> QED
      BY <3>1, Popped
  <2> QED
    BY <2>1 DEF Top, Last
<1>5. IF g.rules[r].lhs = g.start THEN p[m].state = 0 /\ act = AcceptAction(t)
      ELSE act \in 0..MaxShiftReduce(t) /\ <<p[m].state, lhs, s>> \in a.steps
  BY <1>1, <1>2 DEF Made, AutomatonFits, GotosFit
<1>6. MaxShiftReduce(t) \in Int /\ AcceptAction(t) \in Int /\ AcceptAction(t) > MaxShiftReduce(t)
  BY ActionNumbers
<1>7. q = CASE act > MaxShiftReduce(t) -> Emptied
            [] act <= MaxShiftReduce(t) /\ n > 0 -> Append(rest, e)
            [] OTHER -> Shift(rest, e.state, e.major, minor)
  BY <1>3, <1>4 DEF Reduced
<1>8. Accepts(t, p, r - 1) <=> act = AcceptAction(t)
  BY <1>3 DEF Accepts
<1> HIDE DEF q, act, s, rest, t, n, lhs
<1>9. CASE g.rules[r].lhs = g.start
  <2>1. p[m].state = 0 /\ act = AcceptAction(t)
    BY <1>5, <1>9
  <2>2. q = <<>>
    BY <2>1, <1>6, <1>7 DEF Emptied
  <2> QED
    BY <1>8, <1>9, <2>1, <2>2 DEF ReducesTo, q, t
<1>10. CASE g.rules[r].lhs # g.start
  <2>1. act \in 0..MaxShiftReduce(t) /\ <<p[m].state, lhs, s>> \in a.steps
    BY <1>5, <1>10
  <2>2. act # AcceptAction(t)
    BY <2>1, <1>6
  <2>3. Len(rest) < StackDepth
    <3>1. m <= a.height[p[m].state] + 1
      BY <1>1 DEF Stacked, Climbs
    <3>2. s \in a.states
      BY <2>1 DEF Made, AutomatonFits, StepsFit
    <3>3. /\ a.height[p[m].state] \in 0..(StackBound - 1) /\ a.height[s] \in 0..(StackBound - 1)
          /\ a.height[p[m].state] < a.height[s]
      BY <1>1, <2>1, <3>2 DEF Made, AutomatonFits, HeightsFit
    <3>4. StackBound \in Nat /\ StackBound <= StackDepth /\ StackDepth \in Nat
      BY StackBoundAssumption, StackDepthAssumption
    <3> QED
      BY <1>1, <1>4, <3>1, <3>3, <3>4
  <2>4. q = Append(rest, e)
    <3>1. Shift(rest, e.state, e.major, minor) = Append(rest, e)
      BY <2>3, <1>1, <1>4, StackDepthAssumption DEF Shift
    <3>2. ~(act > MaxShiftReduce(t)) /\ act <= MaxShiftReduce(t)
      BY <2>1, <1>6
    <3>3. CASE n > 0
      BY <1>7, <3>2, <3>3
    <3>4. CASE ~(n > 0)
      BY <1>7, <3>1, <3>2, <3>4
    <3> QED
      BY <3>3, <3>4
  <2>5. /\ act = GotoAction(g, a, p, r) /\ s = GotoState(g, a, p, r)
        /\ lhs = Index(g, g.rules[r].lhs) /\ rest = Rest(g, p, r) /\ m = Base(g, p, r)
    BY Zenon DEF Base, Rest, GotoAction, GotoState, act, s, rest, t, n, lhs
  <2>6. q = Pushed(rest, s, lhs, minor)
    BY <2>4 DEF Pushed
  <2> QED
    BY <1>8, <1>10, <2>1, <2>2, <2>5, <2>6 DEF ReducesTo, q, t
<1> QED
  BY <1>9, <1>10

-----------------------------------------------------------------------------
(* What the code of a rule does to the builder *)

\* The builder still works on the same statement.
SameStatement(b, c) == c.started = b.started /\ c.statement.type = b.statement.type

LEMMA StartEffect ==
    ASSUME NEW b, Shaped(b), NEW type, NEW table
    PROVE  LET c == Start(b, type, table)
           IN  Shaped(c) /\ c.started /\ c.statement.type = type /\ c.expr = b.expr
<1> DEFINE c == Start(b, type, table)
<1>1. PICK tb : c = [b EXCEPT !.started = TRUE, !.valid = TRUE,
                            !.statement = [NoStatement EXCEPT !.type = type, !.table = tb]]
  BY Zenon DEF Start
<1> HIDE DEF c
<1>2. c = [started |-> TRUE, valid |-> TRUE,
           statement |-> [type |-> type, table |-> tb, list |-> <<>>, output |-> <<>>,
                          tables |-> <<>>, full_record |-> <<>>],
           expr |-> b.expr, temp_constraints |-> b.temp_constraints]
  BY <1>1 DEF Shaped, NoStatement
<1> QED
  BY <1>2 DEF Shaped, c

LEMMA TableNameEffect ==
    ASSUME NEW b, Shaped(b), NEW tok
    PROVE  LET c == AddTableName(b, tok)
           IN  Shaped(c) /\ SameStatement(b, c) /\ c.expr = b.expr
BY DEF Shaped, SameStatement, AddTableName

LEMMA ColumnEffect ==
    ASSUME NEW b, Shaped(b), NEW name, NEW type
    PROVE  LET c == AddColumn(b, name, type)
           IN  Shaped(c) /\ SameStatement(b, c) /\ c.expr = b.expr
BY DEF Shaped, SameStatement, AddColumn

LEMMA ConstraintEffect ==
    ASSUME NEW b, Shaped(b), NEW type, NEW tok
    PROVE  LET c == AddColumnConstraint(b, type, tok)
           IN  Shaped(c) /\ SameStatement(b, c) /\ c.expr = b.expr
BY DEF Shaped, SameStatement, AddColumnConstraint

LEMMA WithQueryEffect ==
    ASSUME NEW b, Shaped(b)
    PROVE  LET c == WithQuery(b)
           IN  /\ Shaped(c) /\ c.started /\ c.expr = b.expr
               /\ c.statement.type = IF b.started THEN b.statement.type ELSE "SELECT"
<1>1. CASE b.started
  BY <1>1 DEF WithQuery
<1>2. CASE ~b.started
  BY <1>2, StartEffect DEF WithQuery
<1> QED
  BY <1>1, <1>2

WithLists(b, l, o) == [b EXCEPT !.statement.list = l, !.statement.output = o]

LEMMA ListsReplaced ==
    ASSUME NEW b, Shaped(b), NEW l, NEW o
    PROVE  LET c == WithLists(b, l, o)
           IN  Shaped(c) /\ SameStatement(b, c) /\ c.expr = b.expr
<1> DEFINE d == [b EXCEPT !.statement.list = l]
           c == WithLists(b, l, o)
<1>1. d = [started |-> b.started, valid |-> b.valid,
           statement |-> [type |-> b.statement.type, table |-> b.statement.table, list |-> l,
                          output |-> b.statement.output, tables |-> b.statement.tables,
                          full_record |-> b.statement.full_record],
           expr |-> b.expr, temp_constraints |-> b.temp_constraints]
  BY DEF Shaped
<1>2. c = [d EXCEPT !.statement.output = o]
  BY DEF WithLists
<1> HIDE DEF c, d
<1>3. c = [started |-> b.started, valid |-> b.valid,
           statement |-> [type |-> b.statement.type, table |-> b.statement.table, list |-> l,
                          output |-> o, tables |-> b.statement.tables,
                          full_record |-> b.statement.full_record],
           expr |-> b.expr, temp_constraints |-> b.temp_constraints]
  BY <1>1, <1>2
<1> QED
  BY <1>3 DEF Shaped, SameStatement, c

LEMMA ExprReplaced ==
    ASSUME NEW b, Shaped(b), NEW e, NEW c, e.complete \in BOOLEAN, c = [b EXCEPT !.expr = e],
           e = [flags |-> e.flags, operation |-> e.operation, kids |-> e.kids,
                complete |-> e.complete]
    PROVE  Shaped(c) /\ SameStatement(b, c) /\ c.expr = e
<1>1. c = [started |-> b.started, valid |-> b.valid, statement |-> b.statement, expr |-> e,
           temp_constraints |-> b.temp_constraints]
  BY DEF Shaped
<1> QED
  BY <1>1 DEF Shaped, SameStatement

LEMMA SelectAllEffect ==
    ASSUME NEW b, Shaped(b), NEW tok
    PROVE  LET c == AddSelectAllColumns(b, tok)
           IN  /\ Shaped(c) /\ c.started /\ c.expr = b.expr
               /\ c.statement.type = IF b.started THEN b.statement.type ELSE "SELECT"
<1> DEFINE q == WithQuery(b)
<1>1. /\ Shaped(q) /\ q.started /\ q.expr = b.expr
      /\ q.statement.type = IF b.started THEN b.statement.type ELSE "SELECT"
  BY WithQueryEffect
<1>2. PICK l, o : AddSelectAllColumns(b, tok) \in {q, WithLists(q, l, o)}
  BY Zenon DEF AddSelectAllColumns, WithLists
<1> HIDE DEF q
<1> DEFINE c == AddSelectAllColumns(b, tok)
<1>3. Shaped(c) /\ SameStatement(q, c) /\ c.expr = q.expr
  <2>1. LET d == WithLists(q, l, o)
        IN  Shaped(d) /\ SameStatement(q, d) /\ d.expr = q.expr
    BY <1>1, ListsReplaced, Zenon
  <2> QED
    BY <1>1, <1>2, <2>1 DEF SameStatement
<1> QED
  BY <1>1, <1>3 DEF SameStatement

LEMMA SelectColumnEffect ==
    ASSUME NEW b, Shaped(b), NEW tok, NEW source, NEW output
    PROVE  LET c == AddQualifiedSelectColumn(b, tok, source, output)
           IN  /\ Shaped(c) /\ c.started /\ c.expr = b.expr
               /\ c.statement.type = IF b.started THEN b.statement.type ELSE "SELECT"
<1> DEFINE q == WithQuery(b)
<1>1. /\ Shaped(q) /\ q.started /\ q.expr = b.expr
      /\ q.statement.type = IF b.started THEN b.statement.type ELSE "SELECT"
  BY WithQueryEffect
<1>2. PICK l, o : AddQualifiedSelectColumn(b, tok, source, output) = WithLists(q, l, o)
  BY Zenon DEF AddQualifiedSelectColumn, WithLists
<1> HIDE DEF q
<1> DEFINE c == AddQualifiedSelectColumn(b, tok, source, output)
<1>3. Shaped(c) /\ SameStatement(q, c) /\ c.expr = q.expr
  <2>1. LET d == WithLists(q, l, o)
        IN  Shaped(d) /\ SameStatement(q, d) /\ d.expr = q.expr
    BY <1>1, ListsReplaced, Zenon
  <2> QED
    BY <1>1, <1>2, <2>1 DEF SameStatement
<1> QED
  BY <1>1, <1>3 DEF SameStatement

LEMMA FinishSelectEffect ==
    ASSUME NEW b, Shaped(b)
    PROVE  LET c == FinishSelectQuery(b)
           IN  Shaped(c) /\ SameStatement(b, c) /\ c.expr = b.expr
<1>1. PICK ts : FinishSelectQuery(b) \in {b, [b EXCEPT !.statement.tables = ts]}
  BY Zenon DEF FinishSelectQuery
<1> QED
  BY <1>1 DEF Shaped, SameStatement

LEMMA DataItemEffect ==
    ASSUME NEW b, Shaped(b), NEW tok
    PROVE  LET c == AddDataItem(b, tok)
           IN  Shaped(c) /\ SameStatement(b, c) /\ c.expr = b.expr
BY DEF Shaped, SameStatement, AddDataItem

LEMMA UpdateExprEffect ==
    ASSUME NEW b, Shaped(b), NEW op, NEW column, NEW tok
    PROVE  LET c == AddUpdateExpr(b, op, column, tok)
           IN  Shaped(c) /\ SameStatement(b, c) /\ c.expr = b.expr
<1>1. PICK l : AddUpdateExpr(b, op, column, tok) \in {b, [b EXCEPT !.statement.list = l]}
  BY Zenon DEF AddUpdateExpr
<1> QED
  BY <1>1 DEF Shaped, SameStatement

LEMMA FinishUpdateEffect ==
    ASSUME NEW b, Shaped(b)
    PROVE  LET c == FinishUpdateCommand(b)
           IN  Shaped(c) /\ SameStatement(b, c) /\ c.expr = b.expr
<1>1. PICK f : FinishUpdateCommand(b) \in {b, [b EXCEPT !.statement.full_record = f]}
  BY Zenon DEF FinishUpdateCommand
<1> QED
  BY <1>1 DEF Shaped, SameStatement

\* A comparison begins the condition or is joined to it by a node that waits
\* for its operation.
LEMMA ValueExprEffect ==
    ASSUME NEW b, Shaped(b), NEW op, NEW left, NEW right
    PROVE  LET c == AddValueExpr(b, op, left, right)
           IN  /\ Shaped(c) /\ SameStatement(b, c) /\ c.expr.flags # "none"
               /\ b.expr.flags = "none" => c.expr.complete /\ ~Open(c.expr)
               /\ b.expr.flags # "none" => c.expr.complete = (b.expr.complete /\ ~Open(b.expr))
<1> DEFINE new == CreateExpression(op, left, right)
           c == AddValueExpr(b, op, left, right)
<1>1. PICK o, k : new = [flags |-> "OPERATION", operation |-> o, kids |-> k, complete |-> TRUE]
  <2>1. new = [flags |-> "OPERATION", operation |-> new.operation, kids |-> new.kids,
               complete |-> TRUE]
    BY DEF CreateExpression
  <2> QED
    BY <2>1
<1>2. CASE b.expr.flags = "none"
  <2>1. c = [b EXCEPT !.expr = new]
    BY <1>2, Zenon DEF AddValueExpr
  <2>2. Shaped(c) /\ SameStatement(b, c) /\ c.expr = new
    <3> HIDE DEF new, c
    <3>1. /\ new.complete \in BOOLEAN
          /\ new = [flags |-> new.flags, operation |-> new.operation, kids |-> new.kids,
                    complete |-> new.complete]
      BY <1>1
    <3> QED
      BY <3>1, <2>1, ExprReplaced
  <2> HIDE DEF new, c
  <2> QED
    BY <1>1, <1>2, <2>2 DEF Open, c
<1>3. CASE b.expr.flags # "none"
  <2> DEFINE d == b.expr.complete /\ ~(b.expr.flags = "NESTED" /\ b.expr.operation = "NO_OP")
  <2>1. PICK kids : c = [b EXCEPT !.expr = [flags |-> "NESTED", operation |-> "NO_OP",
                                            kids |-> kids, complete |-> d]]
    BY <1>3, Zenon DEF AddValueExpr
  <2>2. d \in BOOLEAN
    OBVIOUS
  <2> HIDE DEF d, c
  <2> DEFINE e == [flags |-> "NESTED", operation |-> "NO_OP", kids |-> kids, complete |-> d]
  <2>5. /\ e.flags = "NESTED" /\ e.complete = d /\ c = [b EXCEPT !.expr = e]
        /\ e = [flags |-> e.flags, operation |-> e.operation, kids |-> e.kids,
                complete |-> e.complete]
    BY <2>1
  <2> HIDE DEF e
  <2>3. Shaped(c) /\ SameStatement(b, c) /\ c.expr = e
    BY <2>2, <2>5, ExprReplaced
  <2>4. c.expr.flags = "NESTED" /\ c.expr.complete = d
    BY <2>3, <2>5
  <2> QED
    BY <1>3, <2>3, <2>4 DEF Open, c, d
<1> QED
  BY <1>2, <1>3

\* AND and OR give the node its operation.
LEMMA NestedExprEffect ==
    ASSUME NEW b, Shaped(b), NEW op
    PROVE  LET c == StartNestedExpr(b, op)
           IN  /\ Shaped(c) /\ SameStatement(b, c)
               /\ c.expr.flags = b.expr.flags /\ c.expr.complete = b.expr.complete
               /\ op.operation # "NO_OP" => ~Open(c.expr)
<1>1. CASE b.expr.flags # "NESTED"
  BY <1>1 DEF StartNestedExpr, SameStatement, Open
<1>2. CASE b.expr.flags = "NESTED"
  <2>1. PICK o : /\ StartNestedExpr(b, op) = [b EXCEPT !.expr.operation = o]
                 /\ op.operation # "NO_OP" => o # "NO_OP"
    <3>1. StartNestedExpr(b, op) = [b EXCEPT !.expr.operation = Detailed(op.operation, "some")]
      BY <1>2 DEF StartNestedExpr
    <3>2. op.operation # "NO_OP" => Detailed(op.operation, "some") # "NO_OP"
      BY DEF Detailed
    <3> QED
      BY <3>1, <3>2
  <2> QED
    BY <2>1 DEF Shaped, SameStatement, Open
<1> QED
  BY <1>1, <1>2

StartingActs == {"builderStartCreateTable", "builderStartDropTable", "startInsert", "startUpdate"}
SelectingActs == {"builderAddSelectAllColumns", "builderAddQualifiedSelectColumn"}
ConditionActs == {"builderAddValueExpr", "builderStartNestedExpr"}

StartedBy(act) ==
    CASE act = "builderStartCreateTable" -> "CREATE_TABLE"
      [] act = "builderStartDropTable" -> "DROP_TABLE"
      [] act = "startInsert" -> "INSERT_INTO"
      [] act = "startUpdate" -> "UPDATE"

LEMMA StartingEffect ==
    ASSUME NEW act \in StartingActs, NEW b, Shaped(b), NEW m
    PROVE  LET c == Code(act, b, m)
           IN  Shaped(c) /\ c.started /\ c.statement.type = StartedBy(act) /\ c.expr = b.expr
<1>1. CASE act = "builderStartCreateTable"
  <2>1. Code(act, b, m) = Start(b, "CREATE_TABLE", m[3].text) /\ StartedBy(act) = "CREATE_TABLE"
    BY <1>1 DEF Code, StartedBy
  <2> QED
    BY <2>1, StartEffect
<1>2. CASE act = "builderStartDropTable"
  <2>1. Code(act, b, m) = Start(b, "DROP_TABLE", m[3].text) /\ StartedBy(act) = "DROP_TABLE"
    BY <1>2 DEF Code, StartedBy
  <2> QED
    BY <2>1, StartEffect
<1>3. CASE act = "startInsert"
  <2>1. /\ Code(act, b, m) = AddTableName(Start(b, "INSERT_INTO", <<>>), m[1])
        /\ StartedBy(act) = "INSERT_INTO"
    BY <1>3 DEF Code, StartedBy
  <2> QED
    BY <2>1, StartEffect, TableNameEffect DEF SameStatement
<1>4. CASE act = "startUpdate"
  <2>1. /\ Code(act, b, m) = AddTableName(Start(b, "UPDATE", <<>>), m[1])
        /\ StartedBy(act) = "UPDATE"
    BY <1>4 DEF Code, StartedBy
  <2> QED
    BY <2>1, StartEffect, TableNameEffect DEF SameStatement
<1> QED
  BY <1>1, <1>2, <1>3, <1>4 DEF StartingActs

LEMMA SelectingEffect ==
    ASSUME NEW act \in SelectingActs, NEW b, Shaped(b), NEW m
    PROVE  LET c == Code(act, b, m)
           IN  /\ Shaped(c) /\ c.started /\ c.expr = b.expr
               /\ c.statement.type = IF b.started THEN b.statement.type ELSE "SELECT"
<1>1. CASE act = "builderAddSelectAllColumns"
  <2>1. Code(act, b, m) = AddSelectAllColumns(b, m[1])
    BY <1>1 DEF Code
  <2> QED
    BY <2>1, SelectAllEffect
<1>2. CASE act = "builderAddQualifiedSelectColumn"
  <2>1. Code(act, b, m) = AddQualifiedSelectColumn(b, m[1], m[3], m[4])
    BY <1>2 DEF Code
  <2> QED
    BY <2>1, SelectColumnEffect
<1> QED
  BY <1>1, <1>2 DEF SelectingActs

LEMMA OtherEffect ==
    ASSUME NEW act, act \notin StartingActs \cup SelectingActs \cup ConditionActs,
           NEW b, Shaped(b), NEW m
    PROVE  LET c == Code(act, b, m)
           IN  Shaped(c) /\ SameStatement(b, c) /\ c.expr = b.expr
<1>1. CASE act = "builderAddColumn"
  <2>1. Code(act, b, m) = AddColumn(b, m[1], m[2])
    BY <1>1 DEF Code
  <2> QED
    BY <2>1, ColumnEffect
<1>2. CASE act = "constraintDefault"
  <2>1. Code(act, b, m) = AddColumnConstraint(b, "DEFAULT", m[2])
    BY <1>2 DEF Code
  <2> QED
    BY <2>1, ConstraintEffect
<1>3. CASE act = "constraintNotNull"
  <2>1. Code(act, b, m) = AddColumnConstraint(b, "NOT_NULL", NullToken)
    BY <1>3 DEF Code
  <2> QED
    BY <2>1, ConstraintEffect
<1>4. CASE act = "constraintAutoIncrement"
  <2>1. Code(act, b, m) = AddColumnConstraint(b, "AUTO_INCREMENT", NullToken)
    BY <1>4 DEF Code
  <2> QED
    BY <2>1, ConstraintEffect
<1>5. CASE act = "builderFinishSelectQuery"
  <2>1. Code(act, b, m) = FinishSelectQuery(b)
    BY <1>5 DEF Code
  <2> QED
    BY <2>1, FinishSelectEffect
<1>6. CASE act = "builderFinishUpdateCommand"
  <2>1. Code(act, b, m) = FinishUpdateCommand(b)
    BY <1>6 DEF Code
  <2> QED
    BY <2>1, FinishUpdateEffect
<1>7. CASE act = "builderAddDataItem"
  <2>1. Code(act, b, m) = AddDataItem(b, m[1])
    BY <1>7 DEF Code
  <2> QED
    BY <2>1, DataItemEffect
<1>8. CASE act = "builderAddUpdateExpr"
  <2>1. Code(act, b, m) = AddUpdateExpr(b, m[2], m[1], m[3])
    BY <1>8 DEF Code
  <2> QED
    BY <2>1, UpdateExprEffect
<1>9. CASE act = "builderAddTableName"
  <2>1. Code(act, b, m) = AddTableName(b, m[1])
    BY <1>9 DEF Code
  <2> QED
    BY <2>1, TableNameEffect
<1>10. CASE act \notin {"builderAddColumn", "constraintDefault", "constraintNotNull",
                           "constraintAutoIncrement", "builderFinishSelectQuery", "builderFinishUpdateCommand",
                           "builderAddDataItem", "builderAddUpdateExpr", "builderAddTableName"}
  <2>1. Code(act, b, m) = b
    BY <1>10 DEF Code, StartingActs, SelectingActs, ConditionActs
  <2> QED
    BY <2>1 DEF SameStatement
<1> QED
  BY <1>1, <1>2, <1>3, <1>4, <1>5, <1>6, <1>7, <1>8, <1>9, <1>10

LEMMA ConditionEffect ==
    ASSUME NEW b, NEW m
    PROVE  /\ Code("builderAddValueExpr", b, m) = AddValueExpr(b, m[2], m[1], m[3])
           /\ Code("builderStartNestedExpr", b, m) = StartNestedExpr(b, m[2])
BY DEF Code

LEMMA StatementKept ==
    ASSUME NEW act, act \notin StartingActs \cup SelectingActs, NEW b, Shaped(b), NEW m
    PROVE  LET c == Code(act, b, m)
           IN  Shaped(c) /\ SameStatement(b, c)
<1>1. CASE act = "builderAddValueExpr"
  BY <1>1, ConditionEffect, ValueExprEffect
<1>2. CASE act = "builderStartNestedExpr"
  BY <1>2, ConditionEffect, NestedExprEffect
<1>3. CASE act \notin ConditionActs
  BY <1>3, OtherEffect
<1> QED
  BY <1>1, <1>2, <1>3 DEF ConditionActs

LEMMA ExprKept ==
    ASSUME NEW act, act \notin ConditionActs, NEW b, Shaped(b), NEW m
    PROVE  Code(act, b, m).expr = b.expr
<1>1. CASE act \in StartingActs
  BY <1>1, StartingEffect
<1>2. CASE act \in SelectingActs
  BY <1>2, SelectingEffect
<1>3. CASE act \notin StartingActs \cup SelectingActs
  BY <1>3, OtherEffect
<1> QED
  BY <1>1, <1>2, <1>3

LEMMA CodeShaped ==
    ASSUME NEW act, NEW b, Shaped(b), NEW m
    PROVE  Shaped(Code(act, b, m))
<1>1. CASE act \in StartingActs
  BY <1>1, StartingEffect
<1>2. CASE act \in SelectingActs
  BY <1>2, SelectingEffect
<1>3. CASE act \notin StartingActs \cup SelectingActs
  BY <1>3, StatementKept
<1> QED
  BY <1>1, <1>2, <1>3

-----------------------------------------------------------------------------
(* What a step of the stack does to the symbols on it *)

\* Stack q is p with the left-hand side of rule r in place of its right-hand side.
Replaced(g, p, r, q) ==
    /\ Len(q) = Base(g, p, r) + 1
    /\ \A i \in 1..Base(g, p, r) : q[i] = p[i]
    /\ q[Base(g, p, r) + 1].major = Index(g, g.rules[r].lhs)

\* The symbols of a command stay until it is complete.
LEMMA CarriedOver ==
    ASSUME NEW g, NEW a, Made(g, a), NEW p, Typed(a, p), Stacked(g, a, p),
           NEW c, NEW r, IsDue(g, a, p, c, r), NEW q, Replaced(g, p, r, q),
           NEW symbols, CarriedOn(g, symbols), BelowAny(g, p, symbols)
    PROVE  BelowAny(g, q, symbols) \/ Completes(g.rules[r])
<1> DEFINE m == Base(g, p, r)
<1>1. /\ Len(p) \in Nat /\ m \in 1..Len(p) /\ Len(g.rules[r].rhs) \in Nat
      /\ DOMAIN g.rules[r].rhs = 1..Len(g.rules[r].rhs)
  BY HandleOnTop
<1>2. \A i \in (m + 1)..Len(p) : p[i].major \in Codes(g, Range(g.rules[r].rhs[i - m]))
  BY HandleOnTop
<1>3. Len(q) = m + 1 /\ (\A i \in 1..m : q[i] = p[i])
      /\ q[m + 1].major = Index(g, g.rules[r].lhs)
  BY DEF Replaced
<1>4. m + Len(g.rules[r].rhs) = Len(p)
  BY <1>1 DEF Base
<1>5. PICK i \in 2..Len(p) : p[i].major \in Codes(g, symbols)
  BY DEF BelowAny
<1> HIDE DEF m
<1>6. CASE i <= m
  BY <1>1, <1>3, <1>5, <1>6 DEF BelowAny
<1>7. CASE i > m
  <2>1. i - m \in DOMAIN g.rules[r].rhs /\ i \in (m + 1)..Len(p)
    BY <1>1, <1>4, <1>7
  <2>2. Uses(g, g.rules[r], symbols)
    BY <2>1, <1>2, <1>5 DEF Uses
  <2>3. g.rules[r].lhs \in symbols \/ Completes(g.rules[r])
    BY <2>2 DEF CarriedOn, IsDue
  <2>4. g.rules[r].lhs \in symbols => q[m + 1].major \in Codes(g, symbols)
    BY <1>3 DEF Codes
  <2> QED
    BY <1>1, <1>3, <2>3, <2>4 DEF BelowAny
<1> QED
  BY <1>1, <1>6, <1>7

\* A symbol on the new stack has been there or is the left-hand side.
LEMMA BelowReplaced ==
    ASSUME NEW g, NEW p, NEW r, Base(g, p, r) \in 1..Len(p), Len(p) \in Nat,
           NEW q, Replaced(g, p, r, q), NEW x, Below(g, q, x)
    PROVE  \/ \E i \in 2..Base(g, p, r) : p[i].major = Index(g, x)
           \/ Index(g, g.rules[r].lhs) = Index(g, x)
<1>1. PICK i \in 2..Len(q) : q[i].major = Index(g, x)
  BY DEF Below
<1> QED
  BY <1>1 DEF Replaced

\* What the code of a rule needs is on the stack when the rule is due.
LEMMA NeededBelow ==
    ASSUME NEW g, NEW a, Made(g, a), NEW p, Typed(a, p), Stacked(g, a, p),
           NEW c, NEW r, IsDue(g, a, p, c, r), Needed(g.rules[r].act) # NoSymbol
    PROVE  Below(g, p, Needed(g.rules[r].act))
<1> DEFINE x == Needed(g.rules[r].act)
           top == p[Len(p)].state
<1>1. Len(p) \in Nat /\ Len(p) >= 1 /\ top \in a.states
  BY NonEmptyLen, EntryTyped DEF IsDue
<1>2. <<r, Len(g.rules[r].rhs)>> \in a.items[top]
  BY HandleOnTop
<1>3. top \notin a.without[x]
  BY <1>1, <1>2 DEF IsDue, Made, AutomatonFits, StartsFit
<1>4. x \in Starters
  BY DEF Needed, Starters
<1>5. \E j \in 2..Len(p) : p[j].major = Index(g, x)
  BY <1>1, <1>3, <1>4 DEF Stacked, Passed
<1> QED
  BY <1>5 DEF Below

\* Where a statement can be started none has been.
LEMMA NoneStarted ==
    ASSUME NEW g, NEW a, Made(g, a), NEW p, Stacked(g, a, p), NEW n \in 1..Len(p),
           NEW code, NEW s, <<p[n].state, code, s>> \in a.steps, code \in Codes(g, Starters)
    PROVE  \A i \in 2..n : p[i].major \notin Codes(g, Starters)
<1>1. p[n].state \notin a.started
  BY DEF Made, AutomatonFits, StartsFit
<1> QED
  BY <1>1 DEF Stacked, Passed

-----------------------------------------------------------------------------
(* The statement of the first command *)

LEMMA StatementReduced ==
    ASSUME NEW g, NEW a, Made(g, a), NEW p, Typed(a, p), Stacked(g, a, p),
           NEW c, NEW r, IsDue(g, a, p, c, r), NEW q, Replaced(g, p, r, q),
           NEW s, <<p[Base(g, p, r)].state, Index(g, g.rules[r].lhs), s>> \in a.steps,
           ~Completes(g.rules[r]),
           NEW b, Shaped(b), StatementFits(g, p, b), NEW m
    PROVE  StatementFits(g, q, Code(g.rules[r].act, b, m))
<1> DEFINE act == g.rules[r].act
           lhs == g.rules[r].lhs
           d == Code(act, b, m)
           n == Base(g, p, r)
<1>1. Len(p) \in Nat /\ n \in 1..Len(p)
  BY HandleOnTop
<1>2. /\ act \in StartingActs => lhs \in Starters
      /\ Index(g, lhs) = Index(g, "create_table") => act = "builderStartCreateTable"
      /\ Index(g, lhs) = Index(g, "update_table") => act = "startUpdate"
      /\ Index(g, lhs) = Index(g, "insert_table") => act = "startInsert"
      /\ Index(g, lhs) # Index(g, "SELECT")
  BY DEF IsDue, Made, AutomatonFits, StartsFit, StartingActs
<1>3. DOMAIN KindOf = {"create_table", "update_table", "insert_table"}
      /\ KindOf["create_table"] = "CREATE_TABLE" /\ KindOf["update_table"] = "UPDATE"
      /\ KindOf["insert_table"] = "INSERT_INTO"
  BY DEF KindOf
<1>4. \A x : Below(g, q, x) => Below(g, p, x) \/ Index(g, lhs) = Index(g, x)
  <2> SUFFICES ASSUME NEW x, Below(g, q, x)
               PROVE  Below(g, p, x) \/ Index(g, lhs) = Index(g, x)
    OBVIOUS
  <2>1. \/ \E i \in 2..n : p[i].major = Index(g, x)
        \/ Index(g, lhs) = Index(g, x)
    BY <1>1, BelowReplaced
  <2> QED
    BY <1>1, <2>1 DEF Below
<1>5. BelowAny(g, p, Starters) => BelowAny(g, q, Starters)
  BY CarriedOver DEF Made, AutomatonFits, StartsFit
<1>6. CASE act \in StartingActs
  <2>1. d.started /\ d.statement.type = StartedBy(act)
    BY <1>6, StartingEffect
  <2>2. Index(g, lhs) \in Codes(g, Starters)
    BY <1>2, <1>6 DEF Codes
  <2>3. \A i \in 2..n : p[i].major \notin Codes(g, Starters)
    BY <1>1, <2>2, NoneStarted
  <2>4. ASSUME NEW x \in Starters, Below(g, q, x)
        PROVE  Index(g, lhs) = Index(g, x)
    <3>1. \/ \E i \in 2..n : p[i].major = Index(g, x)
          \/ Index(g, lhs) = Index(g, x)
      BY <1>1, <2>4, BelowReplaced
    <3> QED
      BY <2>3, <3>1 DEF Codes
  <2>5. ASSUME NEW x \in DOMAIN KindOf, Below(g, q, x)
        PROVE  d.started /\ d.statement.type = KindOf[x]
    <3>1. Index(g, lhs) = Index(g, x)
      BY <1>3, <2>4, <2>5 DEF Starters
    <3> QED
      BY <3>1, <1>2, <1>3, <2>1 DEF StartedBy
  <2>6. ~Below(g, q, "SELECT")
    BY <1>2, <2>4 DEF Starters
  <2>7. BelowAny(g, q, Starters)
    BY <1>1, <2>2 DEF BelowAny, Replaced
  <2> QED
    BY <2>5, <2>6, <2>7 DEF StatementFits
<1>7. CASE act \in SelectingActs
  <2>1. d.started /\ d.statement.type = IF b.started THEN b.statement.type ELSE "SELECT"
    BY <1>7, SelectingEffect
  <2>2. Needed(act) = "SELECT"
    BY <1>7 DEF SelectingActs, Needed
  <2>3. Below(g, p, "SELECT")
    BY <2>2, NeededBelow DEF NoSymbol
  <2>4. ~b.started \/ b.statement.type = "SELECT"
    BY <2>3 DEF StatementFits
  <2>5. act \notin {"builderStartCreateTable", "startUpdate", "startInsert"}
    BY <1>7 DEF SelectingActs
  <2>6. ASSUME NEW x \in DOMAIN KindOf, Below(g, q, x)
        PROVE  d.started /\ d.statement.type = KindOf[x]
    <3>1. Below(g, p, x)
      BY <1>2, <1>3, <1>4, <2>5, <2>6
    <3> QED
      BY <3>1, <2>1 DEF StatementFits
  <2>7. BelowAny(g, q, Starters)
    <3>1. BelowAny(g, p, Starters)
      BY <2>3 DEF Below, BelowAny, Codes, Starters
    <3> QED
      BY <3>1, <1>5
  <2> QED
    BY <2>1, <2>4, <2>6, <2>7 DEF StatementFits
<1>8. CASE act \notin StartingActs \cup SelectingActs
  <2>1. d.started = b.started /\ d.statement.type = b.statement.type
    BY <1>8, StatementKept DEF SameStatement
  <2>2. act \notin {"builderStartCreateTable", "startUpdate", "startInsert"}
    BY <1>8 DEF StartingActs
  <2>3. ASSUME NEW x \in DOMAIN KindOf, Below(g, q, x)
        PROVE  d.started /\ d.statement.type = KindOf[x]
    <3>1. Below(g, p, x)
      BY <1>2, <1>3, <1>4, <2>2, <2>3
    <3> QED
      BY <3>1, <2>1 DEF StatementFits
  <2>4. Below(g, q, "SELECT") => Below(g, p, "SELECT")
    BY <1>2, <1>4
  <2> QED
    BY <2>1, <2>3, <2>4, <1>5 DEF StatementFits
<1> QED
  BY <1>6, <1>7, <1>8

-----------------------------------------------------------------------------
(* The condition of the first command *)

\* While a node waits for its operation nothing is due but the rule that gives
\* it, whatever the next token is.
LEMMA OpenIsClosed ==
    ASSUME NEW g, NEW a, Made(g, a), NEW p, Typed(a, p), Stacked(g, a, p),
           NEW b, ConditionFits(g, p, b), Open(b.expr), NEW c \in TokenCodes(g) \cup {0}
    PROVE  LET r == ActOn(a, p, c) - MinReduce(a.tables) + 1
           IN  r \in DOMAIN g.rules /\ g.rules[r].act = "builderStartNestedExpr"
<1> DEFINE n == Len(p)
           d == <<p[n - 2].state, p[n - 1].major, p[n - 1].state>>
           e == <<p[n - 1].state, p[n].major, p[n].state>>
<1>1. n \in Nat /\ n >= 3 /\ p[n].major = Index(g, "expr") /\ p[n - 1].major \in Joins(g)
  BY EntryTyped DEF ConditionFits
<1>2. d \in a.steps /\ e \in a.steps
  <2>1. n - 1 \in 2..n /\ n \in 2..n /\ (n - 1) - 1 = n - 2
    BY <1>1
  <2> QED
    BY <2>1 DEF Stacked, Walk
<1>3. /\ d[3] = e[1] /\ d[2] \in Codes(g, {"AND", "OR"}) /\ e[2] = Index(g, "expr")
      /\ e[3] = p[n].state
  BY <1>1 DEF Joins
<1> HIDE DEF d, e
<1> QED
  BY <1>2, <1>3 DEF Made, AutomatonFits, ConditionsFit, ActOn

\* The rule of AND and OR finds both on the stack.
LEMMA JoinOnStack ==
    ASSUME NEW g, NEW a, Made(g, a), NEW p, Typed(a, p), Stacked(g, a, p),
           NEW c, NEW r, IsDue(g, a, p, c, r), g.rules[r].act = "builderStartNestedExpr"
    PROVE  /\ Len(g.rules[r].rhs) = 3 /\ Base(g, p, r) + 2 \in 1..Len(p)
           /\ p[Base(g, p, r) + 2].minor.operation # "NO_OP"
           /\ Below(g, p, "expr")
<1> DEFINE n == Base(g, p, r)
<1>1. g.rules[r].rhs = <<<<"expr">>, <<"AND", "OR">>, <<"expr">>>>
  BY DEF IsDue, Made, AutomatonFits, ConditionsFit
<1>2. /\ Len(p) \in Nat /\ n \in 1..Len(p)
      /\ \A i \in (n + 1)..Len(p) : p[i].major \in Codes(g, Range(g.rules[r].rhs[i - n]))
  BY HandleOnTop
<1>3. Len(g.rules[r].rhs) = 3 /\ n + 3 = Len(p)
  BY <1>1, <1>2 DEF Base
<1> HIDE DEF n
<1>4. p[n + 2].major \in Joins(g)
  <2>1. p[n + 2].major \in Codes(g, Range(g.rules[r].rhs[2]))
    <3>1. n + 2 \in (n + 1)..Len(p) /\ (n + 2) - n = 2
      BY <1>2, <1>3
    <3> QED
      BY <3>1, <1>2
  <2>2. Range(<<"AND", "OR">>) = {"AND", "OR"}
    BY DEF Range
  <2> QED
    BY <1>1, <2>1, <2>2 DEF Joins
<1>5. p[n + 3].major = Index(g, "expr")
  <2>1. p[n + 3].major \in Codes(g, Range(g.rules[r].rhs[3]))
    <3>1. n + 3 \in (n + 1)..Len(p) /\ (n + 3) - n = 3
      BY <1>2, <1>3
    <3> QED
      BY <3>1, <1>2
  <2>2. Range(<<"expr">>) = {"expr"}
    BY DEF Range
  <2> QED
    BY <1>1, <2>1, <2>2 DEF Codes
<1>6. n + 2 \in 2..Len(p) /\ n + 3 \in 2..Len(p)
  BY <1>2, <1>3
<1> QED
  BY <1>2, <1>3, <1>4, <1>5, <1>6 DEF Stacked, JoinsKnown, Below, n

\* What a comparison is joined to is behind AND or OR.
LEMMA JoinedBehind ==
    ASSUME NEW g, NEW a, Made(g, a), NEW p, Typed(a, p), Stacked(g, a, p),
           NEW n \in 2..Len(p), BelowAny(g, SubSeq(p, 1, n), Conditionals),
           NEW s, <<p[n].state, Index(g, "expr"), s>> \in a.steps
    PROVE  p[n].major \in Joins(g)
<1> DEFINE q == SubSeq(p, 1, n)
<1>1. Len(p) \in Nat /\ Len(q) = n /\ \A i \in 1..n : q[i] = p[i]
  <2>1. n \in 0..Len(p)
    BY EntryTyped
  <2> QED
    BY <2>1, Popped
<1>2. PICK i \in 2..n : p[i].major \in Codes(g, Conditionals)
  BY <1>1 DEF BelowAny
<1>3. p[n].state \in a.conditional
  BY <1>1, <1>2 DEF Stacked, Passed
<1> DEFINE d == <<p[n - 1].state, p[n].major, p[n].state>>
           e == <<p[n].state, Index(g, "expr"), s>>
<1>4. d \in a.steps /\ e \in a.steps
  BY DEF Stacked, Walk
<1>5. e[2] = Index(g, "expr") /\ e[1] = p[n].state /\ d[3] = p[n].state /\ d[2] = p[n].major
  OBVIOUS
<1> HIDE DEF d, e
<1> QED
  BY <1>3, <1>4, <1>5 DEF Made, AutomatonFits, ConditionsFit, Joins

LEMMA ConditionReduced ==
    ASSUME NEW g, NEW a, Made(g, a), NEW p, Typed(a, p), Stacked(g, a, p),
           NEW c, NEW r, IsDue(g, a, p, c, r), NEW q, Replaced(g, p, r, q),
           NEW s, <<p[Base(g, p, r)].state, Index(g, g.rules[r].lhs), s>> \in a.steps,
           ~Completes(g.rules[r]),
           NEW b, Shaped(b), ConditionFits(g, p, b),
           NEW m, g.rules[r].act = "builderStartNestedExpr" => m[2].operation # "NO_OP"
    PROVE  ConditionFits(g, q, Code(g.rules[r].act, b, m))
<1> DEFINE act == g.rules[r].act
           lhs == g.rules[r].lhs
           d == Code(act, b, m)
           n == Base(g, p, r)
<1>1. /\ Len(p) \in Nat /\ n \in 1..Len(p)
      /\ Len(q) = n + 1 /\ (\A i \in 1..n : q[i] = p[i]) /\ q[n + 1].major = Index(g, lhs)
  BY HandleOnTop DEF Replaced
<1>2. BelowAny(g, p, Conditionals) => BelowAny(g, q, Conditionals)
  BY CarriedOver DEF Made, AutomatonFits, ConditionsFit
<1>3. lhs = "expr" => BelowAny(g, q, Conditionals) /\ Below(g, q, "expr")
  BY <1>1 DEF BelowAny, Below, Codes, Conditionals
<1>4. Open(b.expr) => act = "builderStartNestedExpr"
  BY OpenIsClosed DEF IsDue
<1>5. CASE act = "builderAddValueExpr"
  <2>1. lhs = "expr" /\ ~Uses(g, g.rules[r], Conditionals)
    BY <1>5 DEF IsDue, Made, AutomatonFits, ConditionsFit
  <2>2. d = AddValueExpr(b, m[2], m[1], m[3])
    BY <1>5, ConditionEffect
  <2>3. /\ d.expr.flags # "none"
        /\ b.expr.flags = "none" => d.expr.complete /\ ~Open(d.expr)
        /\ b.expr.flags # "none" => d.expr.complete = (b.expr.complete /\ ~Open(b.expr))
    BY <2>2, ValueExprEffect
  <2>4. d.expr.complete
    BY <1>4, <1>5, <2>3 DEF ConditionFits
  <2>5. ASSUME Open(d.expr)
        PROVE  Len(q) >= 3 /\ q[Len(q)].major = Index(g, "expr") /\ q[Len(q) - 1].major \in Joins(g)
    <3>1. b.expr.flags # "none"
      BY <2>3, <2>5
    <3>2. PICK i \in 2..Len(p) : p[i].major \in Codes(g, Conditionals)
      BY <3>1 DEF ConditionFits, BelowAny
    <3>3. i <= n
      <4> SUFFICES ASSUME i > n
                   PROVE  FALSE
        BY <1>1
      <4>1. /\ p[i].major \in Codes(g, Range(g.rules[r].rhs[i - n]))
            /\ DOMAIN g.rules[r].rhs = 1..Len(g.rules[r].rhs)
            /\ Len(g.rules[r].rhs) \in Nat
        <5>1. i \in (n + 1)..Len(p)
          BY <1>1
        <5>2. /\ \A j \in (n + 1)..Len(p) : p[j].major \in Codes(g, Range(g.rules[r].rhs[j - n]))
              /\ DOMAIN g.rules[r].rhs = 1..Len(g.rules[r].rhs)
              /\ Len(g.rules[r].rhs) \in Nat
          BY HandleOnTop
        <5> HIDE DEF n
        <5> QED
          BY <5>1, <5>2
      <4>2. i - n \in DOMAIN g.rules[r].rhs
        BY <1>1, <4>1 DEF Base
      <4> QED
        BY <2>1, <3>2, <4>1, <4>2 DEF Uses
    <3>4. BelowAny(g, SubSeq(p, 1, n), Conditionals)
      <4>1. Len(SubSeq(p, 1, n)) = n /\ \A j \in 1..n : SubSeq(p, 1, n)[j] = p[j]
        <5>1. n \in 0..Len(p)
          BY <1>1
        <5> QED
          BY <5>1, Popped
      <4> QED
        BY <1>1, <3>2, <3>3, <4>1 DEF BelowAny
    <3>5. n \in 2..Len(p)
      BY <1>1, <3>2, <3>3
    <3>6. p[n].major \in Joins(g)
      BY <2>1, <3>4, <3>5, JoinedBehind
    <3> HIDE DEF n
    <3> QED
      BY <1>1, <2>1, <3>5, <3>6
  <2> QED
    BY <1>3, <2>1, <2>3, <2>4, <2>5 DEF ConditionFits
<1>6. CASE act = "builderStartNestedExpr"
  <2>1. lhs = "expr"
    BY <1>6 DEF IsDue, Made, AutomatonFits, ConditionsFit
  <2>2. d = StartNestedExpr(b, m[2])
    BY <1>6, ConditionEffect
  <2>3. d.expr.flags = b.expr.flags /\ d.expr.complete = b.expr.complete /\ ~Open(d.expr)
    BY <1>6, <2>2, NestedExprEffect
  <2>4. Below(g, p, "expr")
    BY <1>6, JoinOnStack
  <2> QED
    BY <1>3, <2>1, <2>3, <2>4 DEF ConditionFits
<1>7. CASE act \notin ConditionActs
  <2>1. d.expr = b.expr
    BY <1>7, ExprKept
  <2>2. Index(g, lhs) # Index(g, "expr")
    BY <1>7 DEF IsDue, Made, AutomatonFits, ConditionsFit, ConditionActs
  <2>3. Below(g, q, "expr") => Below(g, p, "expr")
    <3>1. Below(g, q, "expr") => \E i \in 2..n : p[i].major = Index(g, "expr")
      BY <1>1, <2>2, BelowReplaced
    <3> HIDE DEF n
    <3> QED
      BY <1>1, <3>1 DEF Below
  <2>4. ~Open(b.expr)
    BY <1>4, <1>7 DEF ConditionActs
  <2> QED
    BY <1>2, <2>1, <2>3, <2>4 DEF ConditionFits
<1> QED
  BY <1>5, <1>6, <1>7 DEF ConditionActs

-----------------------------------------------------------------------------
(* The builder and the stack together *)

\* The code of a rule finds the statement and the expression it works on.
LEMMA DueFits ==
    ASSUME NEW g, NEW a, Made(g, a), NEW p, Typed(a, p), Stacked(g, a, p),
           NEW c, NEW r, IsDue(g, a, p, c, r),
           NEW b, StatementFits(g, p, b), ConditionFits(g, p, b)
    PROVE  Fits(g.rules[r].act, b)
<1> DEFINE act == g.rules[r].act
<1>1. Needed(act) # NoSymbol => Below(g, p, Needed(act))
  BY NeededBelow
<1>2. /\ Below(g, p, "create_table") => b.statement.type = "CREATE_TABLE"
      /\ Below(g, p, "update_table") => b.statement.type = "UPDATE"
      /\ Below(g, p, "insert_table") => b.statement.type = "INSERT_INTO"
      /\ Below(g, p, "SELECT") => ~b.started \/ b.statement.type = "SELECT"
      /\ Below(g, p, "expr") => b.expr.flags # "none"
  BY DEF StatementFits, ConditionFits, KindOf
<1>3. act = "builderStartNestedExpr" => Below(g, p, "expr")
  BY JoinOnStack
<1> HIDE DEF act
<1>4. CASE act \in SelectingActs
  <2>1. Needed(act) = "SELECT"
    BY <1>4 DEF Needed, SelectingActs
  <2> QED
    BY <1>1, <1>2, <1>4, <2>1 DEF Fits, NoSymbol, SelectingActs, act
<1>5. CASE act = "builderAddDataItem"
  <2>1. Needed(act) = "insert_table"
    BY <1>5 DEF Needed
  <2> QED
    BY <1>1, <1>2, <1>5, <2>1 DEF Fits, NoSymbol, act
<1>6. CASE act \in {"builderAddUpdateExpr", "builderFinishUpdateCommand"}
  <2>1. Needed(act) = "update_table"
    BY <1>6 DEF Needed
  <2> QED
    BY <1>1, <1>2, <1>6, <2>1 DEF Fits, NoSymbol, act
<1>7. CASE act = "builderAddColumn"
  <2>1. Needed(act) = "create_table"
    BY <1>7 DEF Needed
  <2> QED
    BY <1>1, <1>2, <1>7, <2>1 DEF Fits, NoSymbol, act
<1>8. CASE act = "builderStartNestedExpr"
  BY <1>2, <1>3, <1>8 DEF Fits, act
<1>9. CASE act \notin SelectingActs \cup {"builderAddDataItem", "builderAddUpdateExpr",
               "builderFinishUpdateCommand", "builderAddColumn", "builderStartNestedExpr"}
  BY <1>9 DEF Fits, SelectingActs, act
<1> QED
  BY <1>4, <1>5, <1>6, <1>7, <1>8, <1>9

\* The rules of conditions complete no command.
LEMMA ConditionRules ==
    ASSUME NEW g, NEW a, Made(g, a), NEW r \in DOMAIN g.rules, g.rules[r].act \in ConditionActs
    PROVE  g.rules[r].lhs = "expr" /\ ~Completes(g.rules[r])
<1>1. g.rules[r].lhs = "expr"
  BY DEF Made, AutomatonFits, ConditionsFit, ConditionActs
<1> QED
  BY <1>1 DEF Completes

LEMMA BuilderReduced ==
    ASSUME NEW g, NEW a, Made(g, a), NEW p, Typed(a, p), Stacked(g, a, p),
           NEW c, NEW r, IsDue(g, a, p, c, r), NEW q, Replaced(g, p, r, q),
           NEW s, <<p[Base(g, p, r)].state, Index(g, g.rules[r].lhs), s>> \in a.steps,
           NEW b, Shaped(b), NEW n \in 0..2, BuilderFits(g, p, b, n),
           NEW m, g.rules[r].act = "builderStartNestedExpr" => m[2].operation # "NO_OP"
    PROVE  BuilderFits(g, q, Code(g.rules[r].act, b, m),
                       IF Completes(g.rules[r]) /\ n < 2 THEN n + 1 ELSE n)
<1> DEFINE act == g.rules[r].act
           d == Code(act, b, m)
<1>1. r \in DOMAIN g.rules
  BY DEF IsDue
<1>2. act \notin ConditionActs => d.expr = b.expr
  BY ExprKept
<1>3. act \in ConditionActs => ~Completes(g.rules[r]) /\ BelowAny(g, q, Conditionals)
  <2> SUFFICES ASSUME act \in ConditionActs
               PROVE  ~Completes(g.rules[r]) /\ BelowAny(g, q, Conditionals)
    OBVIOUS
  <2>1. g.rules[r].lhs = "expr" /\ ~Completes(g.rules[r])
    BY <1>1, ConditionRules
  <2>2. Len(p) \in Nat /\ Base(g, p, r) \in 1..Len(p)
    BY HandleOnTop
  <2> QED
    BY <2>1, <2>2 DEF BelowAny, Replaced, Codes, Conditionals
<1>4. BelowAny(g, p, Conditionals) => BelowAny(g, q, Conditionals) \/ Completes(g.rules[r])
  BY CarriedOver DEF Made, AutomatonFits, ConditionsFit
<1>5. CASE n = 0 /\ ~Completes(g.rules[r])
  <2>1. StatementFits(g, p, b) /\ ConditionFits(g, p, b) /\ ~Completes(g.rules[r])
    BY <1>5 DEF BuilderFits
  <2>2. StatementFits(g, q, d)
    BY <2>1, StatementReduced
  <2>3. ConditionFits(g, q, d)
    BY <2>1, ConditionReduced
  <2> QED
    BY <1>5, <2>2, <2>3 DEF BuilderFits
<1>6. CASE n = 0 /\ Completes(g.rules[r])
  <2>1. b.expr.complete /\ (Open(b.expr) => act = "builderStartNestedExpr")
    BY <1>6, OpenIsClosed DEF BuilderFits, ConditionFits, IsDue
  <2>2. ExprComplete(d.expr)
    BY <1>2, <1>3, <1>6, <2>1 DEF ExprComplete, Open, ConditionActs
  <2> QED
    BY <1>6, <2>2 DEF BuilderFits
<1>7. CASE n = 1 /\ ~Completes(g.rules[r])
  BY <1>2, <1>3, <1>4, <1>7 DEF BuilderFits
<1>8. CASE n = 2 \/ (n = 1 /\ Completes(g.rules[r]))
  BY <1>8 DEF BuilderFits
<1> QED
  BY <1>5, <1>6, <1>7, <1>8

\* When the start rule is due there is no condition left on the stack.
LEMMA AcceptedComplete ==
    ASSUME NEW g, NEW a, Made(g, a), NEW p, Typed(a, p), Stacked(g, a, p),
           NEW c, NEW r, IsDue(g, a, p, c, r), g.rules[r].lhs = g.start,
           NEW b, NEW n \in 0..1, BuilderFits(g, p, b, n)
    PROVE  ExprComplete(b.expr)
<1>1. /\ g.rules[r].act = "none" /\ ~Completes(g.rules[r]) /\ g.start \notin Conditionals
      /\ CarriedOn(g, Conditionals)
  BY DEF IsDue, Made, AutomatonFits, ConditionsFit
<1>3. CASE n = 0
  <2>1. b.expr.complete /\ (Open(b.expr) => g.rules[r].act = "builderStartNestedExpr")
    BY <1>3, OpenIsClosed DEF BuilderFits, ConditionFits, IsDue
  <2> QED
    BY <1>1, <2>1 DEF ExprComplete, Open
<1>4. CASE n = 1
  <2> SUFFICES ASSUME BelowAny(g, p, Conditionals)
               PROVE  FALSE
    BY <1>1, <1>4 DEF BuilderFits
  <2>1. Base(g, p, r) = 1
    BY StartAtBase
  <2>2. PICK i \in 2..Len(p) : p[i].major \in Codes(g, Conditionals)
    BY DEF BelowAny
  <2>3. /\ \A j \in (Base(g, p, r) + 1)..Len(p) :
             p[j].major \in Codes(g, Range(g.rules[r].rhs[j - Base(g, p, r)]))
        /\ DOMAIN g.rules[r].rhs = 1..Len(g.rules[r].rhs)
        /\ Len(g.rules[r].rhs) \in Nat /\ Len(p) \in Nat
    BY HandleOnTop
  <2>4. Len(p) - Len(g.rules[r].rhs) = 1
    BY <2>1 DEF Base
  <2>5. i - 1 \in DOMAIN g.rules[r].rhs /\ p[i].major \in Codes(g, Range(g.rules[r].rhs[i - 1]))
    BY <2>1, <2>3, <2>4
  <2>6. Uses(g, g.rules[r], Conditionals)
    BY <2>2, <2>5 DEF Uses
  <2> QED
    BY <1>1, <2>6 DEF CarriedOn, IsDue
<1> QED
  BY <1>3, <1>4

\* A token that the tables shift makes a step.
LEMMA ShiftedStep ==
    ASSUME NEW g, NEW a, Made(g, a), NEW p, Typed(a, p), p # <<>>,
           NEW c \in TokenCodes(g) \cup {0}, ActOn(a, p, c) <= MaxShiftReduce(a.tables)
    PROVE  <<p[Len(p)].state, c, Pending(a.tables, ActOn(a, p, c))>> \in a.steps
<1>1. p[Len(p)].state \in a.states
  BY NonEmptyLen, EntryTyped
<1> QED
  BY <1>1 DEF ActOn, Made, AutomatonFits, ActionsFit

\* The end of the text and an unknown letter are not shifted.
LEMMA ShiftedToken ==
    ASSUME NEW g, NEW a, Made(g, a), NEW p, Typed(a, p), p # <<>>,
           NEW c \in TokenCodes(g) \cup {0}, ActOn(a, p, c) <= MaxShiftReduce(a.tables)
    PROVE  c # 0 /\ c # IllegalCode
<1>1. p[Len(p)].state \in a.states
  BY NonEmptyLen, EntryTyped
<1>2. c \in {0, IllegalCode} => ActOn(a, p, c) > MaxShiftReduce(a.tables)
  BY <1>1 DEF ActOn, Made, AutomatonFits, ActionsFit
<1>3. ActOn(a, p, c) \in 0..AcceptAction(a.tables)
  BY <1>1 DEF ActOn, Made, AutomatonFits, ActionsFit
<1>4. MaxShiftReduce(a.tables) \in Int
  BY ActionNumbers
<1> QED
  BY <1>2, <1>3, <1>4

\* A token is put on the stack.
LEMMA BuilderShifted ==
    ASSUME NEW g, NEW a, Made(g, a), NEW p, Typed(a, p), Stacked(g, a, p), p # <<>>,
           NEW c \in TokenCodes(g), c # IllegalCode,
           ActOn(a, p, c) <= MaxShiftReduce(a.tables),
           NEW s, <<p[Len(p)].state, c, s>> \in a.steps,
           NEW q, Len(q) = Len(p) + 1, \A i \in 1..Len(p) : q[i] = p[i], q[Len(p) + 1].major = c,
           NEW b, NEW n, BuilderFits(g, p, b, n)
    PROVE  BuilderFits(g, q, b, n)
<1>1. Len(p) \in Nat /\ Len(p) >= 1
  BY NonEmptyLen
<1>2. \A x \in DOMAIN KindOf \cup {"expr"} : c # Index(g, x)
  BY DEF TokenCodes, Codes, Made, AutomatonFits, CodesFit
<1>3. \A x : Below(g, q, x) => Below(g, p, x) \/ c = Index(g, x)
  <2> SUFFICES ASSUME NEW x, Below(g, q, x)
               PROVE  Below(g, p, x) \/ c = Index(g, x)
    OBVIOUS
  <2>1. PICK i \in 2..Len(q) : q[i].major = Index(g, x)
    BY DEF Below
  <2> QED
    BY <1>1, <2>1 DEF Below
<1>4. \A symbols : BelowAny(g, p, symbols) => BelowAny(g, q, symbols)
  <2> SUFFICES ASSUME NEW symbols, BelowAny(g, p, symbols)
               PROVE  BelowAny(g, q, symbols)
    OBVIOUS
  <2>1. PICK i \in 2..Len(p) : p[i].major \in Codes(g, symbols)
    BY DEF BelowAny
  <2> QED
    BY <1>1, <2>1 DEF BelowAny
<1>5. ASSUME StatementFits(g, p, b)
      PROVE  StatementFits(g, q, b)
  <2>1. \A x \in DOMAIN KindOf : Below(g, q, x) => b.started /\ b.statement.type = KindOf[x]
    BY <1>2, <1>3, <1>5 DEF StatementFits
  <2>2. ASSUME c = Index(g, "SELECT")
        PROVE  ~b.started
    <3>1. c \in Codes(g, Starters)
      BY <2>2 DEF Codes, Starters
    <3>2. \A i \in 2..Len(p) : p[i].major \notin Codes(g, Starters)
      BY <1>1, <3>1, NoneStarted
    <3> QED
      BY <1>5, <3>2 DEF StatementFits, BelowAny
  <2>3. Below(g, q, "SELECT") => ~b.started \/ b.statement.type = "SELECT"
    BY <1>3, <1>5, <2>2 DEF StatementFits
  <2> QED
    BY <1>4, <1>5, <2>1, <2>3 DEF StatementFits
<1>6. ASSUME ConditionFits(g, p, b)
      PROVE  ConditionFits(g, q, b)
  <2>1. ~Open(b.expr)
    <3> SUFFICES ASSUME Open(b.expr)
                 PROVE  FALSE
      OBVIOUS
    <3>1. ActOn(a, p, c) - MinReduce(a.tables) + 1 \in DOMAIN g.rules
      BY <1>6, OpenIsClosed
    <3>2. ActOn(a, p, c) \in Int
      <4>1. p[Len(p)].state \in a.states
        BY <1>1, EntryTyped
      <4>2. ActOn(a, p, c) \in 0..AcceptAction(a.tables)
        BY <4>1 DEF ActOn, Made, AutomatonFits, ActionsFit
      <4> QED
        BY <4>2
    <3> QED
      BY <3>1, <3>2, ActionNumbers
  <2>2. Below(g, q, "expr") => Below(g, p, "expr")
    BY <1>2, <1>3
  <2> QED
    BY <1>4, <1>6, <2>1, <2>2 DEF ConditionFits
<1> QED
  BY <1>4, <1>5, <1>6 DEF BuilderFits

\* A text begins with a new builder and nothing on the stack.
LEMMA BuilderBegins ==
    ASSUME NEW g, NEW p, Len(p) = 1
    PROVE  Shaped(NewBuilder) /\ BuilderFits(g, p, NewBuilder, 0)
<1>1. Shaped(NewBuilder)
  BY DEF Shaped, NewBuilder, NoStatement, NoExpr
<1>2. (\A x : ~Below(g, p, x)) /\ \A symbols : ~BelowAny(g, p, symbols)
  BY DEF Below, BelowAny
<1>3. /\ NewBuilder.started = FALSE /\ NewBuilder.expr.flags = "none"
      /\ NewBuilder.expr.complete = TRUE
  BY DEF NewBuilder, NoExpr
<1>4. StatementFits(g, p, NewBuilder)
  BY <1>2, <1>3 DEF StatementFits
<1>5. ConditionFits(g, p, NewBuilder)
  BY <1>2, <1>3 DEF ConditionFits, Open
<1> QED
  BY <1>1, <1>4, <1>5 DEF BuilderFits

-----------------------------------------------------------------------------
(* The invariant is inductive: main *)

\* main has made nothing yet, and the parser and the builder are new.
THEOREM InitInv == Init => Inv
<1> SUFFICES ASSUME Init
             PROVE  Inv
  OBVIOUS
<1>0. /\ grammar \in DOMAIN Grammars /\ stage = "FindFirstSets" /\ work = NoWork
      /\ parser = <<>> /\ call = NoCall /\ builder = NewBuilder
      /\ accepted = FALSE /\ commands = 0 /\ ended = FALSE /\ died = "no"
  BY DEF Init, SessionInit, GenInit, DriverInit
<1>1. MainFollows
  BY <1>0 DEF MainFollows
<1>2. CallFits
  BY <1>0 DEF CallFits
<1>3. ParserFits
  <2>1. Typed(TheAutomaton, <<>>)
    BY DEF Typed
  <2>2. Stacked(TheGrammar, TheAutomaton, <<>>)
    BY DEF Stacked, Walk, Climbs, HandlesBelow, Passed, JoinsKnown
  <2> QED
    BY <1>0, <2>1, <2>2 DEF ParserFits
<1>4. TextFits
  <2>1. Shaped(NewBuilder)
    BY DEF Shaped, NewBuilder, NoStatement, NoExpr
  <2>2. commands \in 0..2
    BY <1>0
  <2>3. accepted \in BOOLEAN /\ ended \in BOOLEAN
    BY <1>0, Zenon
  <2>4. ~ended /\ died # "misfit"
    BY <1>0
  <2> QED
    BY <1>0, <2>1, <2>2, <2>3, <2>4, Zenon DEF TextFits
<1> QED
  BY <1>1, <1>2, <1>3, <1>4 DEF Inv

\* One call of main adds its field to the work and leaves the others.
LEMMA ComputesField ==
    ASSUME NEW now, NEW f \in DOMAIN work, NEW value, NEW next, Computes(now, f, value, next)
    PROVE  /\ stage = now /\ stage' = next /\ grammar' = grammar /\ tables' = tables
           /\ DOMAIN work' = DOMAIN work /\ work'[f] = value
           /\ \A x \in DOMAIN work : x # f => work'[x] = work[x]
BY DEF Computes

LEMMA GeneratingMain ==
    ASSUME MainFollows, Generating
    PROVE  MainFollows' /\ grammar' = grammar /\ stage # "built"
<1> DEFINE g == TheGrammar
           L == Lambdas(g)
           S == FindStates(g)
           F == FirstSets(g, L)
           W == FindFollowSets(g, L, F, S)
           A == FindActions(g, S, W)
           C == CompressTables(g, A)
           R == ResortStates(g, C)
<1>1. DOMAIN work = {"lambdas", "first", "states", "fws", "actions", "compressed", "sorted"}
  BY DEF MainFollows, NoWork
<1>2. DOMAIN NoWork = {"lambdas", "first", "states", "fws", "actions", "compressed", "sorted"}
  BY DEF NoWork
<1>3. /\ grammar \in DOMAIN Grammars
      /\ stage \in {"FirstSets", "FindStates", "FindFollowSets"} => work.lambdas = L
      /\ stage \in {"FindStates", "FindFollowSets"} => work.first = F
      /\ stage \in {"FindFollowSets", "FindActions"} => work.states = S
      /\ stage = "FindActions" => work.fws = W
      /\ stage = "CompressTables" => work.actions = A
      /\ stage \in {"ResortStates", "ReportTable"} => work.compressed = C
      /\ stage = "ReportTable" => work.sorted = R
      /\ stage \in {"compile", "built"} => tables = TheAutomaton.tables
  BY DEF MainFollows
<1> DEFINE Follows ==
             /\ stage' = "FirstSets" => work'.lambdas = L
             /\ stage' = "FindStates" => work'.lambdas = L /\ work'.first = F
             /\ stage' = "FindFollowSets" =>
                  work'.lambdas = L /\ work'.first = F /\ work'.states = S
             /\ stage' = "FindActions" => work'.states = S /\ work'.fws = W
             /\ stage' = "CompressTables" => work'.actions = A
             /\ stage' = "ResortStates" => work'.compressed = C
             /\ stage' = "ReportTable" => work'.compressed = C /\ work'.sorted = R
             /\ stage' \in {"compile", "built"} => tables' = TheAutomaton.tables
           Result == /\ grammar' = grammar /\ stage # "built" /\ DOMAIN work' = DOMAIN work
                     /\ stage' \in {"FirstSets", "FindStates", "FindFollowSets", "FindActions",
                                    "CompressTables", "ResortStates", "ReportTable", "compile",
                                    "built"}
                     /\ Follows
<1>4. ASSUME Computes("FindFirstSets", "lambdas", Lambdas(TheGrammar), "FirstSets")
      PROVE  Result
  <2>1. stage = "FindFirstSets" /\ stage' = "FirstSets" /\ grammar' = grammar
        /\ DOMAIN work' = DOMAIN work /\ work'.lambdas = L
    BY <1>1, <1>4, ComputesField
  <2> HIDE DEF L, F, S, W, A, C, R
  <2> QED
    BY <2>1
<1>5. ASSUME Computes("FirstSets", "first", FirstSets(TheGrammar, work.lambdas), "FindStates")
      PROVE  Result
  <2>1. stage = "FirstSets" /\ stage' = "FindStates" /\ grammar' = grammar
        /\ DOMAIN work' = DOMAIN work /\ work'.first = FirstSets(TheGrammar, work.lambdas)
        /\ work'.lambdas = work.lambdas
    BY <1>1, <1>5, ComputesField
  <2>2. work'.first = F /\ work'.lambdas = L
    BY <1>3, <2>1
  <2> HIDE DEF L, F, S, W, A, C, R
  <2> QED
    BY <2>1, <2>2
<1>6. ASSUME Computes("FindStates", "states", FindStates(TheGrammar), "FindFollowSets")
      PROVE  Result
  <2>1. stage = "FindStates" /\ stage' = "FindFollowSets" /\ grammar' = grammar
        /\ DOMAIN work' = DOMAIN work /\ work'.states = S
        /\ work'.lambdas = work.lambdas /\ work'.first = work.first
    BY <1>1, <1>6, ComputesField
  <2>2. work'.first = F /\ work'.lambdas = L
    BY <1>3, <2>1
  <2> HIDE DEF L, F, S, W, A, C, R
  <2> QED
    BY <2>1, <2>2
<1>7. ASSUME Computes("FindFollowSets", "fws",
              FindFollowSets(TheGrammar, work.lambdas, work.first, work.states), "FindActions")
      PROVE  Result
  <2>1. stage = "FindFollowSets" /\ stage' = "FindActions" /\ grammar' = grammar
        /\ DOMAIN work' = DOMAIN work /\ work'.states = work.states
        /\ work'.fws = FindFollowSets(TheGrammar, work.lambdas, work.first, work.states)
    BY <1>1, <1>7, ComputesField
  <2>2. work'.fws = W /\ work'.states = S
    BY <1>3, <2>1
  <2> HIDE DEF L, F, S, W, A, C, R
  <2> QED
    BY <2>1, <2>2
<1>8. ASSUME Computes("FindActions", "actions",
              FindActions(TheGrammar, work.states, work.fws), "CompressTables")
      PROVE  Result
  <2>1. stage = "FindActions" /\ stage' = "CompressTables" /\ grammar' = grammar
        /\ DOMAIN work' = DOMAIN work
        /\ work'.actions = FindActions(TheGrammar, work.states, work.fws)
    BY <1>1, <1>8, ComputesField
  <2>2. work'.actions = A
    BY <1>3, <2>1
  <2> HIDE DEF L, F, S, W, A, C, R
  <2> QED
    BY <2>1, <2>2
<1>9. ASSUME Computes("CompressTables", "compressed",
              CompressTables(TheGrammar, work.actions), "ResortStates")
      PROVE  Result
  <2>1. stage = "CompressTables" /\ stage' = "ResortStates" /\ grammar' = grammar
        /\ DOMAIN work' = DOMAIN work
        /\ work'.compressed = CompressTables(TheGrammar, work.actions)
    BY <1>1, <1>9, ComputesField
  <2>2. work'.compressed = C
    BY <1>3, <2>1
  <2> HIDE DEF L, F, S, W, A, C, R
  <2> QED
    BY <2>1, <2>2
<1>10. ASSUME Computes("ResortStates", "sorted",
              ResortStates(TheGrammar, work.compressed), "ReportTable")
      PROVE  Result
  <2>1. stage = "ResortStates" /\ stage' = "ReportTable" /\ grammar' = grammar
        /\ DOMAIN work' = DOMAIN work /\ work'.compressed = work.compressed
        /\ work'.sorted = ResortStates(TheGrammar, work.compressed)
    BY <1>1, <1>10, ComputesField
  <2>2. work'.compressed = C /\ work'.sorted = R
    BY <1>3, <2>1
  <2> HIDE DEF L, F, S, W, A, C, R
  <2> QED
    BY <2>1, <2>2
<1>11. ASSUME ReportTable
      PROVE  Result
  <2>1. /\ stage = "ReportTable" /\ stage' = "compile" /\ grammar' = grammar /\ work' = work
        /\ tables' = PackTables(TheGrammar, C, R)
    BY <1>3, <1>11 DEF ReportTable
  <2>2. TheAutomaton = Automaton(TheGrammar)
    BY <1>3, OnceItself DEF TheAutomaton, TheGrammar, Automata
  <2>3. tables' = TheAutomaton.tables
    BY <2>1, <2>2, ComputedTables
  <2> HIDE DEF L, F, S, W, A, C, R
  <2> QED
    BY <2>1, <2>3
<1>12. ASSUME Compile
      PROVE  Result
  <2>1. /\ stage = "compile" /\ stage' = "built" /\ grammar' = grammar /\ tables' = tables
        /\ DOMAIN work' = DOMAIN work
    BY <1>1, <1>2, <1>12 DEF Compile
  <2> HIDE DEF L, F, S, W, A, C, R
  <2> QED
    BY <1>3, <2>1
<1>13. Result
  <2> HIDE DEF Result
  <2> QED
    BY <1>4, <1>5, <1>6, <1>7, <1>8, <1>9, <1>10, <1>11, <1>12 DEF Generating, GenNext
<1>14. TheGrammar' = TheGrammar /\ TheAutomaton' = TheAutomaton
  BY <1>13 DEF TheGrammar, TheAutomaton
<1> QED
  BY <1>1, <1>2, <1>3, <1>13, <1>14, Zenon DEF MainFollows

-----------------------------------------------------------------------------
(* The invariant is inductive: the parser *)

\* While the parser runs its tables are those of the automaton.
LEMMA BuiltTables ==
    ASSUME MainFollows, stage = "built"
    PROVE  Made(TheGrammar, TheAutomaton) /\ tables = TheAutomaton.tables
BY GrammarsMade DEF MainFollows, TheGrammar, TheAutomaton

\* What is known of a parser at work on a token.
LEMMA AtWork ==
    ASSUME Inv, call # NoCall
    PROVE  /\ Made(TheGrammar, TheAutomaton) /\ tables = TheAutomaton.tables
           /\ Typed(TheAutomaton, parser) /\ Stacked(TheGrammar, TheAutomaton, parser)
           /\ stage = "built" /\ parser # <<>> /\ Len(parser) \in Nat /\ Len(parser) >= 1
           /\ call.major \in TokenCodes(TheGrammar) \cup {0}
           /\ call.end = (call.major = 0) /\ ended = call.end
           /\ Act = ActOn(TheAutomaton, parser, call.major)
           /\ parser[Len(parser)].state \in TheAutomaton.states
<1>1. stage = "built" /\ parser # <<>> /\ call.major \in TokenCodes(TheGrammar) \cup {0}
      /\ call.end = (call.major = 0) /\ ended = call.end
  BY DEF Inv, CallFits
<1>2. Made(TheGrammar, TheAutomaton) /\ tables = TheAutomaton.tables
  BY <1>1, BuiltTables DEF Inv
<1>3. Typed(TheAutomaton, parser) /\ Stacked(TheGrammar, TheAutomaton, parser)
  BY DEF Inv, ParserFits
<1>4. Act = ActOn(TheAutomaton, parser, call.major)
  BY <1>2 DEF Act, ActOn, Top, Last
<1>5. Len(parser) \in Nat /\ Len(parser) >= 1
      /\ parser[Len(parser)].state \in TheAutomaton.states
  <2>1. Len(parser) \in Nat /\ Len(parser) >= 1
    BY <1>1, <1>3, NonEmptyLen
  <2> QED
    BY <2>1, <1>3, EntryTyped
<1> QED
  BY <1>1, <1>2, <1>3, <1>4, <1>5, Zenon

\* There is room for every step.
LEMMA RoomForStep ==
    ASSUME NEW g, NEW a, Made(g, a), NEW p, Typed(a, p), Stacked(g, a, p), p # <<>>,
           NEW code, NEW s, <<p[Len(p)].state, code, s>> \in a.steps
    PROVE  Len(p) < StackDepth
<1> DEFINE top == p[Len(p)].state
<1>1. Len(p) \in Nat /\ Len(p) >= 1 /\ top \in a.states
  BY NonEmptyLen, EntryTyped
<1>2. Len(p) <= a.height[top] + 1
  BY <1>1 DEF Stacked, Climbs
<1>3. s \in a.states
  BY DEF Made, AutomatonFits, StepsFit
<1>4. /\ a.height[top] \in 0..(StackBound - 1) /\ a.height[s] \in 0..(StackBound - 1)
      /\ a.height[top] < a.height[s]
  BY <1>1, <1>3 DEF Made, AutomatonFits, HeightsFit
<1>5. StackBound \in Nat /\ StackBound <= StackDepth /\ StackDepth \in Nat
  BY StackBoundAssumption, StackDepthAssumption
<1> QED
  BY <1>1, <1>2, <1>4, <1>5

\* A call of Parse, with ended told of it.
LEMMA ParseInv ==
    ASSUME Inv, ~ended, NEW major, NEW minor, Parse(major, minor),
           major \in TokenCodes(TheGrammar) \cup {0},
           major \in Joins(TheGrammar) => minor.operation # "NO_OP",
           ended' = (major = 0), UNCHANGED <<builder, accepted, commands, died>>
    PROVE  Inv'
<1>1. stage = "built" /\ call = NoCall /\ UNCHANGED <<grammar, stage, work, tables>>
  BY DEF Parse, genVars
<1>2. parser' = IF parser = <<>> THEN <<[state |-> 0, major |-> 0, minor |-> NoMinor]>>
                ELSE parser
  BY DEF Parse
<1>3. call' = [major |-> major, minor |-> minor, end |-> major = 0]
  BY DEF Parse
<1>4. TheGrammar' = TheGrammar /\ TheAutomaton' = TheAutomaton
  BY <1>1 DEF TheGrammar, TheAutomaton
<1>5. Made(TheGrammar, TheAutomaton)
  BY <1>1, BuiltTables DEF Inv
<1>6. MainFollows'
  BY <1>1, <1>4 DEF Inv, MainFollows
<1>7. /\ Typed(TheAutomaton, parser') /\ Stacked(TheGrammar, TheAutomaton, parser')
      /\ parser' # <<>> /\ (parser = <<>> => Len(parser') = 1)
  <2>1. CASE parser = <<>>
    <3>1. /\ Typed(TheAutomaton, parser') /\ Stacked(TheGrammar, TheAutomaton, parser')
          /\ Len(parser') = 1
      BY <1>2, <1>5, <2>1, BaseStacked DEF Made
    <3> QED
      BY <1>2, <2>1, <3>1
  <2>2. CASE parser # <<>>
    BY <1>2, <2>2 DEF Inv, ParserFits
  <2> QED
    BY <2>1, <2>2
<1>8. CallFits'
  <2>1. call'.major = major /\ call'.minor = minor /\ call'.end = (major = 0)
    BY <1>3
  <2>2. ended' /\ call' = NoCall => FALSE
    <3>1. NoCall.end = FALSE
      BY DEF NoCall
    <3> QED
      BY <2>1, <3>1
  <2> QED
    BY <1>1, <1>4, <1>7, <2>1, <2>2 DEF CallFits
<1>9. ParserFits'
  BY <1>4, <1>7 DEF ParserFits
<1>10. TextFits'
  <2>1. BuilderFits(TheGrammar, parser', builder, commands)
    <3>1. CASE parser = <<>>
      <4>1. builder = NewBuilder /\ commands = 0
        BY <3>1 DEF Inv, TextFits
      <4> QED
        BY <1>7, <3>1, <4>1, BuilderBegins
    <3>2. CASE parser # <<>>
      BY <1>2, <3>2 DEF Inv, TextFits
    <3> QED
      BY <3>1, <3>2
  <2>2. /\ Shaped(builder) /\ commands \in 0..2 /\ accepted \in BOOLEAN
        /\ died = "misfit" => commands > 0
    BY DEF Inv, TextFits
  <2>3. ended' \in BOOLEAN
    BY Zenon
  <2> QED
    BY <1>1, <1>4, <1>7, <2>1, <2>2, <2>3, Zenon DEF TextFits
<1> QED
  BY <1>6, <1>8, <1>9, <1>10 DEF Inv

\* The tokens of TokenTypes are what Parse may be called with; AND and OR
\* carry their operation.
LEMMA TokensKnown ==
    ASSUME MainFollows, stage = "built", NEW type \in TokenTypes
    PROVE  LET c == CodeOf(Token(type))
           IN  /\ c \in TokenCodes(TheGrammar) /\ c # 0
               /\ c \in Joins(TheGrammar) => Token(type).operation # "NO_OP"
<1> DEFINE g == TheGrammar
           c == CodeOf(Token(type))
<1>1. Made(g, TheAutomaton)
  BY BuiltTables
<1>2. /\ 0 \notin TokenCodes(g)
      /\ \A x \in Terminals(g) : Index(g, x) \in Joins(g) => x \in {"AND", "OR"}
      /\ IllegalCode \notin Joins(g)
  BY <1>1 DEF Made, AutomatonFits, CodesFit, Joins
<1>3. type \in (Terminals(g) \ {"$"}) \cup {"ILLEGAL"}
  BY TokenTypesAssumption DEF MainFollows, TheGrammar
<1>4. Token(type).type = type /\ Token(type).operation = OperationOf(type)
  BY DEF Token, NullToken
<1>5. CASE type = "ILLEGAL"
  <2>1. c = IllegalCode
    BY <1>4, <1>5 DEF CodeOf
  <2>2. c \in TokenCodes(g)
    BY <2>1 DEF TokenCodes
  <2> QED
    BY <1>2, <2>1, <2>2
<1>6. CASE type # "ILLEGAL"
  <2>1. c = Index(g, type) /\ type \in Terminals(g) \ {"$"}
    BY <1>3, <1>4, <1>6 DEF CodeOf
  <2>2. c \in TokenCodes(g)
    BY <2>1 DEF TokenCodes, Codes
  <2>3. type \in {"AND", "OR"} => OperationOf(type) # "NO_OP"
    BY DEF OperationOf
  <2> QED
    BY <1>2, <1>4, <2>1, <2>2, <2>3
<1> QED
  BY <1>5, <1>6

LEMMA AnyTokenInv ==
    ASSUME Inv, AnyToken
    PROVE  Inv'
<1>1. PICK type \in TokenTypes : ParseToken(Token(type))
  BY DEF AnyToken
<1>2. /\ ~ended /\ Parse(CodeOf(Token(type)), Token(type))
      /\ UNCHANGED <<builder, accepted, commands, ended, died>>
  BY <1>1 DEF ParseToken, sessionVars
<1>3. stage = "built"
  BY <1>2 DEF Parse
<1>4. /\ CodeOf(Token(type)) \in TokenCodes(TheGrammar) /\ CodeOf(Token(type)) # 0
      /\ CodeOf(Token(type)) \in Joins(TheGrammar) => Token(type).operation # "NO_OP"
  BY <1>3, TokensKnown DEF Inv
<1>5. ended' = (CodeOf(Token(type)) = 0)
  <2>1. ended = FALSE
    BY <1>2 DEF Inv, TextFits
  <2> QED
    BY <1>2, <1>4, <2>1
<1> QED
  BY <1>2, <1>4, <1>5, ParseInv

LEMMA ParseEndInv ==
    ASSUME Inv, ParseEnd
    PROVE  Inv'
<1>1. ~ended /\ Parse(0, NullToken) /\ ended' = TRUE /\ UNCHANGED <<builder, accepted, commands, died>>
  BY DEF ParseEnd
<1>2. stage = "built"
  BY <1>1 DEF Parse
<1>3. 0 \notin Joins(TheGrammar)
  <2>1. Made(TheGrammar, TheAutomaton)
    BY <1>2, BuiltTables DEF Inv
  <2> QED
    BY <2>1 DEF Joins, Made, AutomatonFits, CodesFit
<1> QED
  BY <1>1, <1>3, ParseInv

LEMMA DoShiftInv ==
    ASSUME Inv, DoShift
    PROVE  Inv'
<1> DEFINE g == TheGrammar
           a == TheAutomaton
           c == call.major
           s == Pending(a.tables, Act)
           n == Len(parser)
<1>1. /\ call # NoCall /\ Act <= MaxShiftReduce(tables) /\ call' = NoCall
      /\ parser' = Shift(parser, Pending(tables, Act), call.major, call.minor)
      /\ UNCHANGED <<grammar, stage, work, tables, builder, accepted, commands, ended, died>>
  BY DEF DoShift, ShiftToken, genVars, sessionVars
<1>2. /\ Made(g, a) /\ tables = a.tables /\ Typed(a, parser) /\ Stacked(g, a, parser)
      /\ stage = "built" /\ parser # <<>> /\ n \in Nat /\ n >= 1
      /\ c \in TokenCodes(g) \cup {0} /\ call.end = (c = 0) /\ ended = call.end
      /\ Act = ActOn(a, parser, c) /\ parser[n].state \in a.states
  BY <1>1, AtWork
<1>3. g' = g /\ a' = a
  BY <1>1 DEF TheGrammar, TheAutomaton
<1>4. <<parser[n].state, c, s>> \in a.steps
  <2>1. ActOn(a, parser, c) <= MaxShiftReduce(a.tables)
    BY <1>1, <1>2
  <2>2. <<parser[n].state, c, Pending(a.tables, ActOn(a, parser, c))>> \in a.steps
    BY <1>2, <2>1, ShiftedStep
  <2> QED
    BY <1>2, <2>2
<1>5. c \in TokenCodes(g) /\ c # IllegalCode /\ ended = FALSE
  <2>1. ActOn(a, parser, c) <= MaxShiftReduce(a.tables)
    BY <1>1, <1>2
  <2>2. c # 0 /\ c # IllegalCode
    BY <1>2, <2>1, ShiftedToken
  <2> QED
    BY <1>2, <2>2
<1>6. c \in Joins(g) => call.minor.operation # "NO_OP"
  BY <1>1 DEF Inv, CallFits
<1>7. n < StackDepth
  BY <1>2, <1>4, RoomForStep
<1>8. parser' = Append(parser, [state |-> s, major |-> c, minor |-> call.minor])
  BY <1>1, <1>2, <1>7, StackDepthAssumption DEF Shift
<1> HIDE DEF g, a, c, s
<1>9. Typed(a, parser') /\ Stacked(g, a, parser')
  BY <1>2, <1>4, <1>6, <1>8, StepStacked DEF Made
<1>10. s \in a.states /\ c \in Int
  BY <1>2, <1>4 DEF Made, AutomatonFits, StepsFit
<1>11. /\ Len(parser') = n + 1 /\ parser' # <<>> /\ (\A i \in 1..n : parser'[i] = parser[i])
       /\ parser'[n + 1].major = c
  BY <1>2, <1>8, <1>10, Appended
<1>12. BuilderFits(g, parser', builder, commands)
  <2>1. BuilderFits(g, parser, builder, commands)
    BY <1>2 DEF Inv, TextFits, g
  <2>2. ActOn(a, parser, c) <= MaxShiftReduce(a.tables)
    BY <1>1, <1>2
  <2> QED
    BY <1>2, <1>4, <1>5, <1>11, <2>1, <2>2, BuilderShifted
<1>13. MainFollows'
  BY <1>1, <1>3 DEF Inv, MainFollows, g, a
<1>14. CallFits'
  BY <1>1, <1>2, <1>5 DEF CallFits
<1>15. ParserFits'
  BY <1>3, <1>9 DEF ParserFits, g, a
<1>16. TextFits'
  <2>1. /\ Shaped(builder) /\ commands \in 0..2 /\ accepted \in BOOLEAN /\ ended \in BOOLEAN
        /\ died = "misfit" => commands > 0
    BY DEF Inv, TextFits
  <2> QED
    BY <1>1, <1>2, <1>3, <1>11, <1>12, <2>1, Zenon DEF TextFits, g, a
<1> QED
  BY <1>13, <1>14, <1>15, <1>16 DEF Inv

\* A rule that is due in the model is due over the stack.
LEMMA DueRule ==
    ASSUME Inv, Reduces
    PROVE  /\ call # NoCall
           /\ IsDue(TheGrammar, TheAutomaton, parser, call.major, Due + 1)
           /\ (Due + 1) - 1 = Due
<1>1. call # NoCall /\ Act \in MinReduce(tables)..MaxReduce(tables)
  BY DEF Reduces
<1>2. /\ Made(TheGrammar, TheAutomaton) /\ tables = TheAutomaton.tables
      /\ Act = ActOn(TheAutomaton, parser, call.major)
      /\ call.major \in TokenCodes(TheGrammar) \cup {0} /\ parser # <<>>
  BY <1>1, AtWork
<1> DEFINE t == TheAutomaton.tables
<1>3. /\ Len(TheGrammar.rules) \in Nat /\ DOMAIN TheGrammar.rules = 1..Len(TheGrammar.rules)
      /\ MaxShiftReduce(t) \in Int /\ MinReduce(t) = MaxShiftReduce(t) + 1
      /\ MaxReduce(t) = MinReduce(t) + Len(TheGrammar.rules) - 1
  BY <1>2, ActionNumbers
<1> HIDE DEF t
<1>4. Due = Act - MinReduce(t) /\ Act \in MinReduce(t)..MaxReduce(t)
  BY <1>1, <1>2 DEF Due, t
<1>5. Due + 1 \in DOMAIN TheGrammar.rules /\ (Due + 1) - 1 = Due
      /\ Due + 1 = ActOn(TheAutomaton, parser, call.major) - MinReduce(t) + 1
  BY <1>2, <1>3, <1>4
<1> QED
  BY <1>1, <1>2, <1>5 DEF IsDue, t

\* The minors of AND and OR reach the code of their rule.
LEMMA JoinMinor ==
    ASSUME Inv, Reduces, TheGrammar.rules[Due + 1].act = "builderStartNestedExpr"
    PROVE  Minors[2].operation # "NO_OP"
<1> DEFINE g == TheGrammar
           a == TheAutomaton
           r == Due + 1
<1>1. /\ call # NoCall /\ IsDue(g, a, parser, call.major, r)
  BY DueRule
<1>2. /\ Made(g, a) /\ tables = a.tables /\ Typed(a, parser) /\ Stacked(g, a, parser)
      /\ Len(parser) \in Nat
  BY <1>1, AtWork
<1> HIDE DEF g, a, r
<1>3. /\ Len(g.rules[r].rhs) = 3 /\ Base(g, parser, r) + 2 \in 1..Len(parser)
      /\ parser[Base(g, parser, r) + 2].minor.operation # "NO_OP"
      /\ Base(g, parser, r) \in 1..Len(parser)
  BY <1>1, <1>2, JoinOnStack, HandleOnTop DEF g, r
<1>4. tables.ruleInfo[Due + 1].nrhs = 3
  <2>1. r \in DOMAIN g.rules
    BY <1>1 DEF IsDue
  <2>2. a.tables.ruleInfo[r].nrhs = Len(g.rules[r].rhs)
    BY <1>2, <2>1 DEF Made
  <2> QED
    BY <1>2, <1>3, <2>2 DEF r
<1> DEFINE handle == Handle(tables, parser, Due)
<1>5. handle = SubSeq(parser, Len(parser) - 3 + 1, Len(parser))
  BY <1>4 DEF Handle
<1>6. PICK M : parser \in Seq(Entries(a, M))
  BY <1>2 DEF Typed
<1>7. Len(parser) >= 3 /\ Base(g, parser, r) = Len(parser) - 3
  BY <1>2, <1>3 DEF Base
<1>8. 2 \in DOMAIN handle /\ handle[2] = parser[Base(g, parser, r) + 2]
  <2>1. Len(parser) - 3 + 1 \in 1..(Len(parser) + 1)
    BY <1>2, <1>7
  <2>2. Len(handle) = 3 /\ DOMAIN handle = 1..3
    BY <1>2, <1>5, <1>6, <1>7
  <2>3. handle[2] = parser[Len(parser) - 3 + 1 + 2 - 1]
    BY <1>2, <1>5, <1>6, <1>7, <2>2
  <2> QED
    BY <1>2, <1>7, <2>2, <2>3
<1>9. Minors[2] = handle[2].minor
  BY <1>8 DEF Minors
<1> QED
  BY <1>3, <1>8, <1>9

LEMMA DoReduceInv ==
    ASSUME Inv, DoReduce
    PROVE  Inv'
<1> DEFINE g == TheGrammar
           a == TheAutomaton
           c == call.major
           r == Due + 1
           rule == g.rules[r]
           m == Base(g, parser, r)
           code == Index(g, rule.lhs)
           s == GotoState(g, a, parser, r)
           minor == Yield(rule.act, Minors)
<1>1. /\ Reduces /\ parser' = Reduced(tables, parser, Due, minor)
      /\ call' = IF parser' = <<>> THEN NoCall ELSE call
      /\ builder' = Code(rule.act, builder, Minors)
      /\ accepted' = (accepted \/ Accepts(tables, parser, Due))
      /\ UNCHANGED <<grammar, stage, work, tables, ended, died>>
  BY DEF DoReduce, ReduceTo, genVars
<1>2. commands' = IF Completes(rule) /\ commands < 2 THEN commands + 1 ELSE commands
  BY DEF DoReduce, Completes
<1>3. call # NoCall /\ IsDue(g, a, parser, c, r) /\ r - 1 = Due
  BY <1>1, DueRule
<1>4. /\ Made(g, a) /\ tables = a.tables /\ Typed(a, parser) /\ Stacked(g, a, parser)
      /\ stage = "built" /\ parser # <<>> /\ Len(parser) \in Nat
      /\ c \in TokenCodes(g) \cup {0} /\ call.end = (c = 0) /\ ended = call.end
  BY <1>3, AtWork
<1>5. rule.act = "builderStartNestedExpr" => Minors[2].operation # "NO_OP"
  BY <1>1, JoinMinor
<1>6. /\ Shaped(builder) /\ commands \in 0..2 /\ accepted \in BOOLEAN /\ ended \in BOOLEAN
      /\ died = "misfit" => commands > 0
      /\ BuilderFits(g, parser, builder, commands)
  BY <1>4 DEF Inv, TextFits
<1>7. g' = g /\ a' = a
  BY <1>1 DEF TheGrammar, TheAutomaton
<1>8. MainFollows'
  BY <1>1, <1>7 DEF Inv, MainFollows
<1>9. Shaped(builder') /\ commands' \in 0..2 /\ accepted' \in BOOLEAN /\ commands' >= commands
  <2>1. Shaped(builder')
    BY <1>1, <1>6, CodeShaped
  <2>2. commands' \in 0..2 /\ commands' >= commands
    BY <1>2, <1>6
  <2>3. accepted' \in BOOLEAN
    BY <1>1, Zenon
  <2> QED
    BY <2>1, <2>2, <2>3
<1>10. died' = "misfit" => commands' > 0
  BY <1>1, <1>6, <1>9
<1> HIDE DEF minor
<1>11. /\ Accepts(tables, parser, Due) <=> rule.lhs = g.start
       /\ rule.lhs = g.start => parser' = <<>> /\ m = 1 /\ c = 0
       /\ rule.lhs # g.start =>
            /\ <<parser[m].state, code, s>> \in a.steps
            /\ parser' = Pushed(Rest(g, parser, r), s, code, minor)
  <2> DEFINE q == Reduced(a.tables, parser, r - 1, minor)
  <2>1. /\ Accepts(a.tables, parser, r - 1) <=> rule.lhs = g.start
        /\ rule.lhs = g.start => q = <<>>
        /\ rule.lhs # g.start =>
             /\ <<parser[m].state, code, s>> \in a.steps
             /\ q = Pushed(Rest(g, parser, r), s, code, minor)
    <3>1. Made(g, a) /\ Typed(a, parser) /\ Stacked(g, a, parser) /\ IsDue(g, a, parser, c, r)
      BY <1>3, <1>4
    <3>2. ReducesTo(g, a, parser, r, minor)
      BY <3>1, ReducedStack
    <3> QED
      BY <3>2 DEF ReducesTo
  <2>2. rule.lhs = g.start => m = 1
    BY <1>3, <1>4, StartAtBase
  <2>3. rule.lhs = g.start => c = 0
    BY <1>3, <1>4, StartAtEnd
  <2>4. Due = r - 1 /\ parser' = q
    BY <1>1, <1>3, <1>4
  <2> HIDE DEF q, r, g, a, c, s, code
  <2> QED
    BY <1>4, <2>1, <2>2, <2>3, <2>4
<1> HIDE DEF g, a, c, r, rule, m, code, s
<1>12. CASE rule.lhs = g.start
  <2>1. parser' = <<>> /\ call' = NoCall /\ c = 0 /\ accepted' = TRUE
    BY <1>1, <1>11, <1>12
  <2>2. ended' = TRUE
    BY <1>1, <1>4, <2>1
  <2>3. CallFits'
    BY <1>1, <1>4, <2>1 DEF CallFits
  <2>4. ParserFits'
    <3>1. Typed(a, <<>>)
      BY DEF Typed
    <3>2. Stacked(g, a, <<>>)
      BY DEF Stacked, Walk, Climbs, HandlesBelow, Passed, JoinsKnown
    <3> QED
      BY <1>7, <2>1, <3>1, <3>2 DEF ParserFits, g, a
  <2>5. commands' <= 1 => ExprComplete(builder'.expr)
    <3> SUFFICES ASSUME commands' <= 1
                 PROVE  ExprComplete(builder'.expr)
      OBVIOUS
    <3>1. commands \in 0..1
      BY <1>6, <1>9
    <3>2. g.rules[r].lhs = g.start /\ BuilderFits(g, parser, builder, commands)
      BY <1>6, <1>12 DEF rule
    <3>3. Code(g.rules[r].act, builder, Minors) = builder
      <4>1. g.rules[r].act = "none"
        BY <1>3, <1>4, <3>2 DEF IsDue, Made, AutomatonFits, ConditionsFit
      <4> QED
        BY <4>1 DEF Code
    <3>4. ExprComplete(builder.expr)
      BY <1>3, <1>4, <3>1, <3>2, AcceptedComplete
    <3> QED
      BY <1>1, <3>3, <3>4 DEF rule
  <2>6. TextFits'
    BY <1>1, <1>4, <1>6, <1>9, <1>10, <2>1, <2>2, <2>5, Zenon DEF TextFits
  <2> QED
    BY <1>8, <2>3, <2>4, <2>6 DEF Inv
<1>13. CASE rule.lhs # g.start
  <2> DEFINE rest == Rest(g, parser, r)
  <2>1. m \in 1..Len(parser)
    BY <1>3, <1>4, HandleOnTop DEF m
  <2>2. /\ Typed(a, rest) /\ Len(rest) = m /\ \A i \in 1..m : rest[i] = parser[i]
    <3>1. m \in 0..Len(parser) /\ rest = SubSeq(parser, 1, m)
      BY <1>4, <2>1 DEF Rest, m
    <3> QED
      BY <1>4, <3>1, Popped
  <2>3. Stacked(g, a, rest) /\ rest # <<>>
    <3>1. rest = SubSeq(parser, 1, m)
      BY DEF Rest, m
    <3>2. Stacked(g, a, rest)
      BY <1>4, <2>1, <3>1, PrefixStacked
    <3>3. rest # <<>>
      BY <1>4, <2>1, <2>2
    <3> QED
      BY <3>2, <3>3
  <2>4. /\ <<parser[m].state, code, s>> \in a.steps
        /\ parser' = Append(rest, [state |-> s, major |-> code, minor |-> minor])
    BY <1>11, <1>13 DEF Pushed
  <2> HIDE DEF rest
  <2>5. rest[Len(rest)].state = parser[m].state
    BY <1>4, <2>1, <2>2
  <2>6. code \notin Joins(g)
    BY <1>3, <1>4 DEF Made, AutomatonFits, RulesFit, Joins, IsDue, code, rule
  <2>7. Typed(a, parser') /\ Stacked(g, a, parser')
    BY <1>4, <2>2, <2>3, <2>4, <2>5, <2>6, StepStacked DEF Made
  <2>8. s \in a.states /\ code \in Int
    BY <1>4, <2>4 DEF Made, AutomatonFits, StepsFit
  <2>9. /\ Len(parser') = m + 1 /\ parser' # <<>>
        /\ \A i \in 1..m : parser'[i] = parser[i]
        /\ parser'[m + 1].major = code
    <3>1. /\ Len(parser') = Len(rest) + 1 /\ parser' # <<>>
          /\ \A i \in 1..Len(rest) : parser'[i] = rest[i]
          /\ parser'[Len(rest) + 1] = [state |-> s, major |-> code, minor |-> minor]
      BY <2>2, <2>4, <2>8, Appended
    <3> QED
      BY <2>2, <3>1
  <2>10. Replaced(g, parser, r, parser')
    BY <2>9 DEF Replaced, m, code, rule
  <2>11. BuilderFits(g, parser', builder', commands')
    <3>1. BuilderFits(g, parser', Code(rule.act, builder, Minors),
                      IF Completes(rule) /\ commands < 2 THEN commands + 1 ELSE commands)
      BY <1>3, <1>4, <1>5, <1>6, <2>4, <2>10, BuilderReduced DEF rule, code, m
    <3> QED
      BY <1>1, <1>2, <3>1
  <2>12. call' = call
    BY <1>1, <2>9
  <2>13. CallFits'
    BY <1>1, <1>3, <1>4, <1>7, <2>9, <2>12 DEF Inv, CallFits, g
  <2>14. ParserFits'
    BY <1>7, <2>7 DEF ParserFits, g, a
  <2>15. TextFits'
    BY <1>1, <1>4, <1>6, <1>7, <1>9, <1>10, <2>9, <2>11, Zenon DEF TextFits, g, a
  <2> QED
    BY <1>8, <2>13, <2>14, <2>15 DEF Inv
<1> QED
  BY <1>12, <1>13

\* An empty stack is as the invariant says.
LEMMA EmptyStacked ==
    ASSUME NEW g, NEW a
    PROVE  Typed(a, <<>>) /\ Stacked(g, a, <<>>)
<1>1. Typed(a, <<>>)
  BY DEF Typed
<1>2. Stacked(g, a, <<>>)
  BY DEF Stacked, Walk, Climbs, HandlesBelow, Passed, JoinsKnown
<1> QED
  BY <1>1, <1>2

LEMMA DoErrorInv ==
    ASSUME Inv, DoError
    PROVE  Inv'
<1>1. /\ call # NoCall /\ call' = NoCall
      /\ parser' = (IF call.end THEN <<>> ELSE parser)
      /\ builder' = (IF call.end THEN BuilderClean(builder) ELSE builder)
      /\ UNCHANGED <<grammar, stage, work, tables, accepted, commands, ended, died>>
  BY DEF DoError, SyntaxError, Emptied, genVars
<1>2. stage = "built" /\ parser # <<>> /\ ended = call.end
  BY <1>1, AtWork
<1>3. TheGrammar' = TheGrammar /\ TheAutomaton' = TheAutomaton
  BY <1>1 DEF TheGrammar, TheAutomaton
<1>4. MainFollows'
  BY <1>1, <1>3 DEF Inv, MainFollows
<1>5. /\ Shaped(builder) /\ commands \in 0..2 /\ accepted \in BOOLEAN /\ ended \in BOOLEAN
      /\ died = "misfit" => commands > 0
      /\ BuilderFits(TheGrammar, parser, builder, commands)
  BY <1>2 DEF Inv, TextFits
<1>6. CASE call.end
  <2>1. parser' = <<>> /\ builder' = BuilderClean(builder) /\ ended' = TRUE
    BY <1>1, <1>2, <1>5, <1>6
  <2>2. CallFits'
    BY <1>1, <1>2, <2>1 DEF CallFits
  <2>3. ParserFits'
    BY <1>3, <2>1, EmptyStacked DEF ParserFits
  <2>4. builder'.statement = NoStatement /\ Shaped(builder')
    BY <1>5, <2>1 DEF BuilderClean, Shaped, NoStatement
  <2>5. TextFits'
    BY <1>1, <1>2, <1>5, <2>1, <2>4, Zenon DEF TextFits
  <2> QED
    BY <1>4, <2>2, <2>3, <2>5 DEF Inv
<1>7. CASE ~call.end
  <2>1. parser' = parser /\ builder' = builder /\ ended' = FALSE
    BY <1>1, <1>2, <1>5, <1>7
  <2>2. CallFits'
    BY <1>1, <1>2, <2>1 DEF CallFits
  <2>3. ParserFits'
    BY <1>3, <2>1 DEF Inv, ParserFits
  <2>4. TextFits'
    BY <1>1, <1>2, <1>3, <1>5, <2>1, Zenon DEF TextFits
  <2> QED
    BY <1>4, <2>2, <2>3, <2>4 DEF Inv
<1> QED
  BY <1>6, <1>7

LEMMA DieInv ==
    ASSUME Inv, Die
    PROVE  Inv'
<1>1. /\ Reduces
      /\ died' = IF Fits(TheGrammar.rules[Due + 1].act, builder) THEN "null" ELSE "misfit"
      /\ UNCHANGED <<grammar, stage, work, tables, parser, call, builder, accepted, commands, ended>>
  BY DEF Die, genVars, parserVars
<1>2. call # NoCall /\ IsDue(TheGrammar, TheAutomaton, parser, call.major, Due + 1)
  BY <1>1, DueRule
<1>3. /\ Made(TheGrammar, TheAutomaton) /\ Typed(TheAutomaton, parser)
      /\ Stacked(TheGrammar, TheAutomaton, parser) /\ stage = "built" /\ parser # <<>>
  BY <1>2, AtWork
<1>4. TheGrammar' = TheGrammar /\ TheAutomaton' = TheAutomaton
  BY <1>1 DEF TheGrammar, TheAutomaton
<1>5. MainFollows' /\ CallFits' /\ ParserFits'
  BY <1>1, <1>4 DEF Inv, MainFollows, CallFits, ParserFits
<1>6. /\ Shaped(builder) /\ commands \in 0..2 /\ accepted \in BOOLEAN /\ ended \in BOOLEAN
      /\ BuilderFits(TheGrammar, parser, builder, commands)
  BY <1>3 DEF Inv, TextFits
<1>7. died' = "misfit" => commands > 0
  <2> SUFFICES ASSUME commands = 0
               PROVE  Fits(TheGrammar.rules[Due + 1].act, builder)
    BY <1>1, <1>6
  <2>1. StatementFits(TheGrammar, parser, builder) /\ ConditionFits(TheGrammar, parser, builder)
    BY <1>6 DEF BuilderFits
  <2> QED
    BY <1>2, <1>3, <2>1, DueFits
<1>8. TextFits'
  BY <1>1, <1>3, <1>4, <1>6, <1>7, Zenon DEF TextFits
<1> QED
  BY <1>5, <1>8 DEF Inv

\* A new text with an empty stack.
LEMMA NewTextInv ==
    ASSUME Inv, NewSession, parser' = <<>>, call' = NoCall, UNCHANGED genVars
    PROVE  Inv'
<1>1. /\ UNCHANGED <<grammar, stage, work, tables>>
      /\ builder' = NewBuilder /\ accepted' = FALSE /\ commands' = 0
      /\ ended' = FALSE /\ died' = "no"
  BY DEF NewSession, genVars
<1>2. TheGrammar' = TheGrammar /\ TheAutomaton' = TheAutomaton
  BY <1>1 DEF TheGrammar, TheAutomaton
<1>3. MainFollows'
  BY <1>1, <1>2 DEF Inv, MainFollows
<1>4. CallFits'
  BY <1>1 DEF CallFits
<1>5. ParserFits'
  BY <1>2, EmptyStacked DEF ParserFits
<1>6. TextFits'
  <2>1. Shaped(NewBuilder)
    BY DEF Shaped, NewBuilder, NoStatement, NoExpr
  <2>2. commands' \in 0..2
    BY <1>1
  <2>3. accepted' \in BOOLEAN /\ ended' \in BOOLEAN
    BY <1>1, Zenon
  <2>4. ~ended' /\ died' # "misfit"
    BY <1>1
  <2> QED
    BY <1>1, <2>1, <2>2, <2>3, <2>4, Zenon DEF TextFits
<1> QED
  BY <1>3, <1>4, <1>5, <1>6 DEF Inv

LEMMA NextTextInv ==
    ASSUME Inv, NextText
    PROVE  Inv'
<1>1. parser = <<>> /\ call = NoCall
  BY DEF Inv, CallFits, NextText, Finished
<1> QED
  BY <1>1, NewTextInv DEF NextText, parserVars

LEMMA StartAgainInv ==
    ASSUME Inv, StartAgain
    PROVE  Inv'
BY NewTextInv DEF StartAgain

LEMMA GeneratingInv ==
    ASSUME Inv, Generating
    PROVE  Inv'
<1>1. stage # "built"
  BY DEF Generating, GenNext, Computes, ReportTable, Compile
<1>2. call = NoCall /\ parser = <<>> /\ ended = FALSE /\ died = "no"
  BY <1>1 DEF Inv, CallFits, TextFits
<1>3. UNCHANGED <<parser, call, builder, accepted, commands, ended, died>>
  BY DEF Generating, parserVars, sessionVars
<1>4. MainFollows'
  BY GeneratingMain DEF Inv
<1>5. CallFits'
  BY <1>2, <1>3 DEF CallFits
<1>6. ParserFits'
  BY <1>2, <1>3, EmptyStacked DEF ParserFits
<1>7. TextFits'
  BY <1>2, <1>3 DEF Inv, TextFits
<1> QED
  BY <1>4, <1>5, <1>6, <1>7 DEF Inv

\* Steps that change none of the variables.
LEMMA StutterInv ==
    ASSUME Inv, UNCHANGED vars
    PROVE  Inv'
<1>1. UNCHANGED <<grammar, stage, work, tables, parser, call, builder, accepted, commands, ended, died>>
  BY DEF vars, genVars, parserVars, sessionVars
<1>2. TheGrammar' = TheGrammar /\ TheAutomaton' = TheAutomaton
  BY <1>1 DEF TheGrammar, TheAutomaton
<1>3. MainFollows'
  BY <1>1, <1>2 DEF Inv, MainFollows
<1>4. CallFits'
  BY <1>1, <1>2 DEF Inv, CallFits
<1>5. ParserFits'
  BY <1>1, <1>2 DEF Inv, ParserFits
<1>6. TextFits'
  BY <1>1, <1>2 DEF Inv, TextFits
<1> QED
  BY <1>3, <1>4, <1>5, <1>6 DEF Inv

\* The invariant of the parser and the builder: in every state of a behaviour
\* the stack is a walk through the automaton of the tables, and what stands on
\* it says what Parse and the code of parse.y have left in the builder.
THEOREM Invariance == Spec => []Inv
<1>1. Init => Inv
  BY InitInv
<1>2. Inv /\ [Next]_vars => Inv'
  <2> SUFFICES ASSUME Inv, [Next]_vars
               PROVE  Inv'
    OBVIOUS
  <2>1. CASE Generating
    BY <2>1, GeneratingInv
  <2>2. CASE AnyToken
    BY <2>2, AnyTokenInv
  <2>3. CASE ParseEnd
    BY <2>3, ParseEndInv
  <2>4. CASE DoShift
    BY <2>4, DoShiftInv
  <2>5. CASE DoReduce
    BY <2>5, DoReduceInv
  <2>6. CASE DoError
    BY <2>6, DoErrorInv
  <2>7. CASE Die
    BY <2>7, DieInv
  <2>8. CASE NextText
    BY <2>8, NextTextInv
  <2>9. CASE StartAgain
    BY <2>9, StartAgainInv
  <2>10. CASE UNCHANGED vars
    BY <2>10, StutterInv
  <2> QED
    BY <2>1, <2>2, <2>3, <2>4, <2>5, <2>6, <2>7, <2>8, <2>9, <2>10 DEF Next, Working
<1> QED
  BY <1>1, <1>2, PTL DEF Spec

-----------------------------------------------------------------------------
(* What follows from the invariant *)

\* The stack of the parser never needs more than StackBound of its YYSTACKDEPTH
\* entries, however long the text is and wherever its errors are, and nothing
\* is left on it for the next text of the worker.
THEOREM StacksStayBounded == Spec => []StackBounded
<1>1. ASSUME Inv
      PROVE  StackBounded
  <2>1. Finished => parser = <<>>
    BY <1>1 DEF Inv, CallFits, Finished
  <2>2. CASE parser = <<>>
    BY <2>2, StackBoundAssumption DEF StackBounded
  <2>3. CASE parser # <<>>
    <3> DEFINE top == parser[Len(parser)].state
    <3>1. Typed(TheAutomaton, parser) /\ Climbs(TheAutomaton, parser) /\ stage = "built"
      BY <1>1, <2>3 DEF Inv, ParserFits, Stacked, CallFits
    <3>2. Len(parser) \in Nat /\ Len(parser) >= 1 /\ top \in TheAutomaton.states
      BY <2>3, <3>1, NonEmptyLen, EntryTyped
    <3>3. Len(parser) <= TheAutomaton.height[top] + 1
      BY <3>1, <3>2 DEF Climbs
    <3>4. TheAutomaton.height[top] \in 0..(StackBound - 1)
      <4>1. Made(TheGrammar, TheAutomaton)
        BY <1>1, <3>1, BuiltTables DEF Inv
      <4> QED
        BY <3>2, <4>1 DEF Made, AutomatonFits, HeightsFit
    <3> HIDE DEF top
    <3> QED
      BY <2>1, <3>2, <3>3, <3>4, StackBoundAssumption DEF StackBounded
  <2> QED
    BY <2>2, <2>3
<1> QED
  BY <1>1, Invariance, PTL

\* A text that Parse does not accept leaves no statement that the server would
\* run: %parse_failure has cleaned the builder, whatever was reduced before.
THEOREM FailuresLeaveNothing == Spec => []FailureLeavesNothing
<1>1. ASSUME Inv
      PROVE  FailureLeavesNothing
  <2> SUFFICES ASSUME Finished, ~accepted
               PROVE  ~Succeeds
    BY DEF FailureLeavesNothing
  <2>1. parser = <<>> /\ ended
    BY <1>1 DEF Inv, CallFits, Finished
  <2>2. builder.statement = NoStatement
    BY <1>1, <2>1 DEF Inv, TextFits
  <2> QED
    BY <2>2 DEF Succeeds, NoStatement
<1> QED
  BY <1>1, Invariance, PTL

\* In the first command of a text the code of every rule finds the kind of
\* statement that it casts builder->statement to.
THEOREM CodeFindsItsStatement == Spec => []CodeFitsStatement
<1>1. Inv => CodeFitsStatement
  BY DEF Inv, TextFits, CodeFitsStatement
<1> QED
  BY <1>1, Invariance, PTL

\* A text of one command that leaves a statement to run leaves a condition in
\* which every AND and OR stands at a node.
THEOREM ConditionsComplete == Spec => []ConditionComplete
<1>1. ASSUME Inv
      PROVE  ConditionComplete
  <2> SUFFICES ASSUME commands <= 1, Finished, Succeeds
               PROVE  ExprComplete(builder.expr)
    BY DEF ConditionComplete
  <2>1. parser = <<>> /\ ended
    BY <1>1 DEF Inv, CallFits, Finished
  <2>2. builder.statement # NoStatement
    BY DEF Succeeds, NoStatement
  <2> QED
    BY <1>1, <2>1, <2>2 DEF Inv, TextFits
<1> QED
  BY <1>1, Invariance, PTL

\* A rule that is due finds its right-hand side on the stack, and the tables
\* know where to go from below it: a shift, or the end of the text.
GotosFound ==
    Reduces =>
      LET info == tables.ruleInfo[Due + 1]
          below == Len(parser) - info.nrhs
      IN  /\ below \in 1..Len(parser)
          /\ \/ FindReduceAction(tables, parser[below].state, info.lhs) \in 0..MaxShiftReduce(tables)
             \/ Accepts(tables, parser, Due) /\ call.end

\* The assertions of yy_find_reduce_action and of yy_reduce hold: no reduction
\* looks for a goto that is not in the table, or pops more than was put on.
THEOREM GotosAreFound == Spec => []GotosFound
<1>1. ASSUME Inv
      PROVE  GotosFound
  <2> SUFFICES ASSUME Reduces
               PROVE  GotosFound
    BY DEF GotosFound
  <2> DEFINE g == TheGrammar
             a == TheAutomaton
             r == Due + 1
  <2>1. call # NoCall /\ IsDue(g, a, parser, call.major, r) /\ r - 1 = Due
    BY <1>1, DueRule
  <2>2. /\ Made(g, a) /\ tables = a.tables /\ Typed(a, parser) /\ Stacked(g, a, parser)
        /\ call.end = (call.major = 0)
    BY <1>1, <2>1, AtWork
  <2> HIDE DEF g, a, r
  <2>3. Base(g, parser, r) \in 1..Len(parser)
    BY <2>1, <2>2, HandleOnTop
  <2>4. ReducesTo(g, a, parser, r, NoMinor)
    BY <2>1, <2>2, ReducedStack
  <2>5. g.rules[r].lhs = g.start => call.major = 0
    BY <2>1, <2>2, StartAtEnd
  <2>6. /\ tables.ruleInfo[r].lhs = Index(g, g.rules[r].lhs)
        /\ Len(parser) - tables.ruleInfo[r].nrhs = Base(g, parser, r)
    <3>1. r \in DOMAIN g.rules
      BY <2>1 DEF IsDue
    <3>2. /\ a.tables.ruleInfo[r].lhs = Index(g, g.rules[r].lhs)
          /\ a.tables.ruleInfo[r].nrhs = Len(g.rules[r].rhs)
      BY <2>2, <3>1 DEF Made
    <3> QED
      BY <2>2, <3>2 DEF Base
  <2>7. CASE g.rules[r].lhs = g.start
    <3>1. Accepts(tables, parser, Due) /\ call.end
      BY <2>1, <2>2, <2>4, <2>5, <2>7 DEF ReducesTo
    <3> QED
      BY <2>3, <2>6, <3>1 DEF GotosFound, r
  <2>8. CASE g.rules[r].lhs # g.start
    <3>1. GotoAction(g, a, parser, r) \in 0..MaxShiftReduce(a.tables)
      BY <2>4, <2>8 DEF ReducesTo
    <3>2. GotoAction(g, a, parser, r)
            = FindReduceAction(tables, parser[Base(g, parser, r)].state, tables.ruleInfo[r].lhs)
      BY <2>2, <2>6 DEF GotoAction
    <3> QED
      BY <2>2, <2>3, <2>6, <3>1, <3>2 DEF GotosFound, r
  <2> QED
    BY <2>7, <2>8
<1> QED
  BY <1>1, Invariance, PTL

=============================================================================
