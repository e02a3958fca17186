------------------------------- MODULE Lempar -------------------------------
(***************************************************************************)
(* From a grammar to a running parser: main of tools/lemon/lemon.c, one    *)
(* action per call it makes, and then the driver of tools/lemon/lempar.c,  *)
(* which the build fills with the tables main has made.  A parser is kept  *)
(* from one text to the next, as the server keeps one per worker thread.   *)
(*                                                                         *)
(* States, rules and symbols have the numbers of the generated code, which *)
(* start at 0; a stack is a sequence of [state, major, minor] and empty    *)
(* where yyidx is -1.  yyerrcnt is left out: it decides how often          *)
(* %syntax_error runs, and that of parse.y changes nothing.                *)
(***************************************************************************)
EXTENDS Lemon

CONSTANTS Grammars,    \* name -> grammar
          StackDepth   \* YYSTACKDEPTH

ASSUME StackDepthAssumption == StackDepth \in Nat \ {0}

VARIABLES grammar,  \* the name of the grammar
          stage,    \* the call main is about to make, or "built"
          work,     \* what main has computed so far
          tables,   \* the tables of the generated parser
          parser,   \* its stack
          call      \* the token Parse works on, or NoCall

genVars == <<grammar, stage, work, tables>>
parserVars == <<parser, call>>

TheGrammar == Grammars[grammar]

-----------------------------------------------------------------------------
(* main *)

NotYet == "not yet"
NoWork == [lambdas |-> NotYet, first |-> NotYet, states |-> NotYet, fws |-> NotYet,
           actions |-> NotYet, compressed |-> NotYet, sorted |-> NotYet]

GenInit ==
    /\ grammar \in DOMAIN Grammars
    /\ stage = "FindFirstSets"
    /\ work = NoWork
    /\ tables = NotYet

\* One call of main: it computes the field f of the work.
Computes(now, f, value, next) ==
    /\ stage = now
    /\ stage' = next
    /\ work' = [work EXCEPT ![f] = value]
    /\ UNCHANGED <<grammar, tables>>

GenNext ==
    \/ Computes("FindFirstSets", "lambdas", Lambdas(TheGrammar), "FirstSets")
    \/ Computes("FirstSets", "first", FirstSets(TheGrammar, work.lambdas), "FindStates")
    \/ Computes("FindStates", "states", FindStates(TheGrammar), "FindFollowSets")
    \/ Computes("FindFollowSets", "fws",
                FindFollowSets(TheGrammar, work.lambdas, work.first, work.states), "FindActions")
    \/ Computes("FindActions", "actions",
                FindActions(TheGrammar, work.states, work.fws), "CompressTables")
    \/ Computes("CompressTables", "compressed",
                CompressTables(TheGrammar, work.actions), "ResortStates")
    \/ Computes("ResortStates", "sorted", ResortStates(TheGrammar, work.compressed), "ReportTable")

ReportTable ==
    /\ stage = "ReportTable"
    /\ stage' = "compile"
    /\ tables' = PackTables(TheGrammar, work.compressed, work.sorted)
    /\ UNCHANGED <<grammar, work>>

\* The generated file is compiled into the server; nothing else is left.
Compile ==
    /\ stage = "compile"
    /\ stage' = "built"
    /\ work' = NoWork
    /\ UNCHANGED <<grammar, tables>>

-----------------------------------------------------------------------------
(* The numbers of the actions *)

MaxShift(t) == t.maxShift
MinShiftReduce(t) == t.nstate
MaxShiftReduce(t) == t.nstate + t.nrule - 1
MinReduce(t) == t.nstate + t.nrule
MaxReduce(t) == t.nstate + 2 * t.nrule - 1
AcceptAction(t) == t.nstate + 2 * t.nrule + 1

\* A SHIFTREDUCE leaves its rule on the stack in the place of a state.
Pending(t, act) == IF act > MaxShift(t) THEN act + MinReduce(t) - MinShiftReduce(t) ELSE act

\* Holds for any cell in the table.
HoldsInRange(t, ofst, code) == ofst # NoOffset /\ ofst + code + 1 \in DOMAIN t.lookahead

\* The cell of yy_action for a symbol at an offset, if it is that symbol's.
Holds(t, ofst, code) == /\ ofst # NoOffset
                        /\ ofst + code + 1 \in DOMAIN t.lookahead
                        /\ t.lookahead[ofst + code + 1] = code

FindShiftAction(t, state, code) ==
    IF state >= MinReduce(t) THEN state
    ELSE LET ofst == t.shiftOfst[state + 1]
         IN  IF Holds(t, ofst, code) THEN t.action[ofst + code + 1] ELSE t.default[state + 1]

\* A goto has no default: its assertions say that it is always in the table.
NoGoto == -1
FindReduceAction(t, state, code) ==
    IF state <= MaxShift(t) /\ Holds(t, t.reduceOfst[state + 1], code)
    THEN t.action[t.reduceOfst[state + 1] + code + 1] ELSE NoGoto

-----------------------------------------------------------------------------
(* The driver *)

NoMinor == [label |-> "none", kids |-> <<>>]
NoCall == [major |-> -1, minor |-> NoMinor, end |-> FALSE]

Top(p) == Last(p).state
Emptied == <<>>

\* yy_shift: a full stack is thrown away with everything on it.
Shift(p, state, major, minor) ==
    IF Len(p) >= StackDepth THEN Emptied
    ELSE Append(p, [state |-> state, major |-> major, minor |-> minor])

\* The right-hand side of rule r, which is on top of the stack.
Handle(t, p, r) == LET n == t.ruleInfo[r + 1].nrhs
                   IN  SubSeq(p, Len(p) - n + 1, Len(p))

\* yy_reduce without the code of the rule, which yields minor.
Reduced(t, p, r, minor) ==
    LET info == t.ruleInfo[r + 1]
        popped == SubSeq(p, 1, Len(p) - info.nrhs)
        act == FindReduceAction(t, Top(popped), info.lhs)
        entry == [state |-> Pending(t, act), major |-> info.lhs, minor |-> minor]
    IN  CASE act > MaxShiftReduce(t) -> Emptied
          [] act <= MaxShiftReduce(t) /\ info.nrhs > 0 -> Append(popped, entry)
          [] OTHER -> Shift(popped, entry.state, entry.major, minor)

Accepts(t, p, r) ==
    LET info == t.ruleInfo[r + 1]
    IN  FindReduceAction(t, p[Len(p) - info.nrhs].state, info.lhs) = AcceptAction(t)

DriverInit ==
    /\ parser = <<>>
    /\ call = NoCall

\* Parse is called; a parser that has accepted or failed starts over.
Parse(major, minor) ==
    /\ stage = "built" /\ call = NoCall
    /\ parser' = IF parser = <<>> THEN <<[state |-> 0, major |-> 0, minor |-> NoMinor]>>
                 ELSE parser
    /\ call' = [major |-> major, minor |-> minor, end |-> major = 0]
    /\ UNCHANGED genVars

Act == FindShiftAction(tables, Top(parser), call.major)

ShiftToken ==
    /\ call # NoCall /\ Act <= MaxShiftReduce(tables)
    /\ parser' = Shift(parser, Pending(tables, Act), call.major, call.minor)
    /\ call' = NoCall
    /\ UNCHANGED genVars

\* The rule that is due, if one is.
Reduces == call # NoCall /\ Act \in MinReduce(tables)..MaxReduce(tables)
Due == Act - MinReduce(tables)

\* Its code has yielded minor.  Parse returns when the stack is empty.
ReduceTo(minor) ==
    /\ Reduces
    /\ parser' = Reduced(tables, parser, Due, minor)
    /\ call' = IF parser' = <<>> THEN NoCall ELSE call
    /\ UNCHANGED genVars

\* SyntaxError that keeps the token and tries again.
SyntaxErrorRetried ==
    /\ call # NoCall /\ Act > MaxReduce(tables)
    /\ parser' = IF call.end THEN Emptied ELSE parser
    /\ call' = IF call.end THEN NoCall ELSE call
    /\ UNCHANGED genVars

\* SyntaxError that fails the parse at the first token that does not fit.
SyntaxErrorPopping ==
    /\ call # NoCall /\ Act > MaxReduce(tables)
    /\ parser' = Emptied
    /\ call' = NoCall
    /\ UNCHANGED genVars

\* SyntaxError that leaves the stack to the next text.
SyntaxErrorLeaving ==
    /\ call # NoCall /\ Act > MaxReduce(tables)
    /\ call' = NoCall
    /\ UNCHANGED <<genVars, parser>>

\* No error symbol in the grammar: the token is thrown away, and at the end
\* of the text the parse fails.
SyntaxError ==
    /\ call # NoCall /\ Act > MaxReduce(tables)
    /\ parser' = IF call.end THEN Emptied ELSE parser
    /\ call' = NoCall
    /\ UNCHANGED genVars

=============================================================================
