------------------------------- MODULE Lemon -------------------------------
(***************************************************************************)
(* The parser generator of the build (tools/lemon/lemon.c).  The Makefile  *)
(* runs it on parse.y, so these algorithms decide what the server takes    *)
(* for SQL.  A grammar is a record                                         *)
(*   terminals     the terminals in the order of their codes, "$" first    *)
(*   nonterminals  the nonterminals, "error" first                         *)
(*   rules         the rules in the order of the file                      *)
(*   prec          symbol -> [level, assoc], for those a %left, %right or  *)
(*                 %nonassoc names                                         *)
(*   start         the left-hand side of the first rule                    *)
(* An element of a right-hand side is a sequence of symbols: one symbol,   *)
(* or the constituents of a MULTITERMINAL such as AND|OR.                  *)
(*                                                                         *)
(* The loops of the C code that compute least fixed points are written as  *)
(* such, but for the one of FindFollowSets, which keeps its order and its  *)
(* COMPLETE and INCOMPLETE marks; what depends on the order of a loop (the *)
(* numbers of the states, the default actions, the packing) keeps it.      *)
(* %fallback and %wildcard are left out: parse.y has neither.              *)
(***************************************************************************)
EXTENDS Integers, FiniteSets, Sequences, SequencesExt, FiniteSetsExt, Functions

\* x itself; TLC computes it once and not at every use.
Once(x) == CHOOSE y \in {x} : y = y

NoSymbol == "no symbol"
NoRule == 0

Rule(lhs, rhs) == [lhs |-> lhs, rhs |-> rhs, mark |-> NoSymbol]

Terminals(g) == Range(g.terminals)
SymbolsOf(g) == g.terminals \o g.nonterminals
RulesFor(g, n) == {r \in DOMAIN g.rules : g.rules[r].lhs = n}
Index(g, sym) == SelectInSeq(SymbolsOf(g), LAMBDA s : s = sym) - 1

\* The symbol that gives a rule its precedence: the one marked in the file,
\* otherwise the first on the right-hand side that has a precedence.
RulePrecedence(g, r) ==
    LET ranked == SelectSeq(FlattenSeq(g.rules[r].rhs), LAMBDA s : s \in DOMAIN g.prec)
    IN  CASE g.rules[r].mark # NoSymbol -> g.rules[r].mark
          [] g.rules[r].mark = NoSymbol /\ ranked # <<>> -> ranked[1]
          [] OTHER -> NoSymbol

-----------------------------------------------------------------------------
(* A set in the order given by before, which is total on it. *)
InOrder(S, before(_, _)) ==
    LET from[T \in SUBSET S] ==
          IF T = {} THEN <<>>
          ELSE LET x == CHOOSE x \in T : \A y \in T \ {x} : before(x, y)
               IN  <<x>> \o from[T \ {x}]
    IN  from[S]

(* First sets *)

\* The nonterminals that generate the empty string.
Lambdas(g) ==
    LET with(found) == {g.rules[r].lhs : r \in {r \in DOMAIN g.rules :
                          \A i \in DOMAIN g.rules[r].rhs : g.rules[r].rhs[i][1] \in found}}
        from[found \in SUBSET Range(g.nonterminals)] ==
          IF with(found) \subseteq found THEN found ELSE from[found \cup with(found)]
    IN  from[{}]

\* The terminals that can begin what rhs generates from position i on, given
\* the first sets found so far.
Leading(g, lambdas, first, rhs, i) ==
    UNION {IF rhs[k][1] \in Terminals(g) THEN Range(rhs[k]) ELSE first[rhs[k][1]] :
             k \in {k \in i..Len(rhs) : \A j \in i..(k - 1) : rhs[j][1] \in lambdas}}

FirstSets(g, lambdas) ==
    LET with(first) == [n \in DOMAIN first |->
                          first[n] \cup UNION {Leading(g, lambdas, first, g.rules[r].rhs, 1) :
                                                 r \in RulesFor(g, n)}]
        from[first \in [Range(g.nonterminals) -> SUBSET Terminals(g)]] ==
          LET next == with(first) IN IF next = first THEN first ELSE from[next]
    IN  from[[n \in Range(g.nonterminals) |-> {}]]

-----------------------------------------------------------------------------
(* Configurations <<rule, dot>> and the LR(0) states *)

AtEnd(g, c) == c[2] = Len(g.rules[c[1]].rhs)
AfterDot(g, c) == g.rules[c[1]].rhs[c[2] + 1]
Configcmp(c, d) == \/ c[1] < d[1]
                   \/ c[1] = d[1] /\ c[2] < d[2]

Configurations(g) == UNION {{r} \X (0..Len(g.rules[r].rhs)) : r \in DOMAIN g.rules}

Closure(g, configs) ==
    LET awaited(cs) == {AfterDot(g, c)[1] : c \in {c \in cs : ~AtEnd(g, c)}}
        more(cs) == (UNION {RulesFor(g, n) : n \in awaited(cs)}) \X {0}
        from[cs \in SUBSET Configurations(g)] ==
          IF more(cs) \subseteq cs THEN cs ELSE from[cs \cup more(cs)]
    IN  from[configs]

Goto(g, items, x) ==
    {<<c[1], c[2] + 1>> : c \in {c \in items : ~AtEnd(g, c) /\ AfterDot(g, c) = x}}

\* The symbols that can be shifted, by the first configuration that waits
\* for each.
ShiftOrder(g, items) ==
    LET waiting == SelectSeq(InOrder(items, Configcmp), LAMBDA c : ~AtEnd(g, c))
        firsts == SelectSeq([i \in DOMAIN waiting |-> i],
                    LAMBDA i : \A j \in 1..(i - 1) :
                                 AfterDot(g, waiting[j]) # AfterDot(g, waiting[i]))
    IN  [i \in DOMAIN firsts |-> AfterDot(g, waiting[firsts[i]])]

Numbered(states, basis) == SelectInSeq(states, LAMBDA st : st.basis = basis)

\* getstate and buildshifts: the states [basis, items] in the order they are
\* numbered, which is depth first.
FindStates(g) ==
    LET sets == SUBSET Configurations(g)
        built[states \in Seq([basis : sets, items : sets]), pending \in Seq(sets)] ==
          CASE pending = <<>> -> states
            [] pending # <<>> /\ Numbered(states, pending[1]) # 0 -> built[states, Tail(pending)]
            [] OTHER ->
                 LET items == Closure(g, pending[1])
                     order == ShiftOrder(g, items)
                 IN  built[Append(states, [basis |-> pending[1], items |-> items]),
                           [i \in DOMAIN order |-> Goto(g, items, order[i])] \o Tail(pending)]
    IN  built[<<>>, <<RulesFor(g, g.start) \X {0}>>]

-----------------------------------------------------------------------------
(* Follow sets.  A node is a state and one of its configurations. *)

Nodes(states) == UNION {{s} \X states[s].items : s \in DOMAIN states}

\* Where the follow set of a node is propagated: to the configuration with
\* the dot moved on, and to the rules of the nonterminal behind the dot if
\* nothing must follow that nonterminal.
Links(g, lambdas, states, node) ==
    LET s == node[1]
        c == node[2]
        rhs == g.rules[c[1]].rhs
        next == Goto(g, states[s].items, AfterDot(g, c))
    IN  IF AtEnd(g, c) THEN {}
        ELSE {<<Numbered(states, next), <<c[1], c[2] + 1>>>>}
             \cup IF \A i \in (c[2] + 2)..Len(rhs) : rhs[i][1] \in lambdas
                  THEN {<<s, <<r, 0>>>> : r \in RulesFor(g, AfterDot(g, c)[1])}
                  ELSE {}

\* The follow sets before propagation: "$" behind the start symbol, and what
\* begins the rest of the rule behind a nonterminal.
Seeds(g, lambdas, first, states, node) ==
    LET s == node[1]
        r == node[2][1]
        before == {c \in states[s].items : ~AtEnd(g, c) /\ AfterDot(g, c)[1] = g.rules[r].lhs}
    IN  IF node[2][2] # 0 THEN {}
        ELSE UNION {Leading(g, lambdas, first, g.rules[c[1]].rhs, c[2] + 2) : c \in before}
             \cup IF s = 1 /\ g.rules[r].lhs = g.start THEN {"$"} ELSE {}

\* The nodes in the order FindFollowSets goes over them, state by state.
NodesInOrder(states) ==
    LET of(s) == LET items == InOrder(states[s].items, Configcmp)
                 IN  [i \in DOMAIN items |-> <<s, items[i]>>]
    IN  [s \in DOMAIN states |-> of(s)]

\* Where the follow set of a node is not part of the follow set already, and
\* all follow sets once it is given there.
Grown(links, at, n) == {m \in links[n] : ~(at.fws[n] \subseteq at.fws[m])}
Given(at, n, grown) ==
    [m \in DOMAIN at.fws |-> IF m \in grown THEN at.fws[m] \cup at.fws[n] ELSE at.fws[m]]

\* Visit without marking what grows INCOMPLETE again.
VisitOnce(links, at, n) ==
    LET grown == Grown(links, at, n)
    IN  IF n \notin at.incomplete THEN at
        ELSE [fws |-> Given(at, n, grown), incomplete |-> at.incomplete \ {n},
              progress |-> at.progress \/ grown # {}]

\* A node that is not COMPLETE gives its follow set along its links.  What
\* grows by it is INCOMPLETE, also if it was COMPLETE before.
Visit(links, at, n) ==
    LET grown == Grown(links, at, n)
    IN  IF n \notin at.incomplete THEN at
        ELSE [fws |-> Given(at, n, grown),
              incomplete |-> (at.incomplete \cup grown) \ {n},
              progress |-> at.progress \/ grown # {}]

\* Rounds over the nodes until one makes no progress.
Propagate(g, order, links, fws) ==
    LET nodes == DOMAIN fws
        Marked == [fws : [nodes -> SUBSET Terminals(g)], incomplete : SUBSET nodes, progress : BOOLEAN]
        visited[at \in Marked, ns \in Seq(nodes)] ==
          IF ns = <<>> THEN at ELSE visited[Once(Visit(links, at, Head(ns))), Tail(ns)]
        round[at \in Marked, nss \in Seq(Seq(nodes))] ==
          IF nss = <<>> THEN at ELSE round[visited[at, Head(nss)], Tail(nss)]
        rounds[at \in Marked] ==
          LET next == round[[at EXCEPT !.progress = FALSE], order]
          IN  IF next.progress THEN rounds[next] ELSE next.fws
    IN  rounds[[fws |-> fws, incomplete |-> nodes, progress |-> FALSE]]

FindFollowSets(g, lambdas, first, states) ==
    LET nodes == Nodes(states)
        links == Once([n \in nodes |-> Links(g, lambdas, states, n)])
        seeds == Once([n \in nodes |-> Seeds(g, lambdas, first, states, n)])
    IN  Propagate(g, NodesInOrder(states), links, seeds)

-----------------------------------------------------------------------------
(* Actions [sp, type, to]: on symbol sp, to a state or by a rule *)

Action(sp, type, to) == [sp |-> sp, type |-> type, to |-> to]

\* ResolveConflict without precedences: a shift wins.
ResolveByShift(g, x, y) ==
    IF y.type = "REDUCE" THEN <<x, [y EXCEPT !.type = "RD_RESOLVED"]>> ELSE <<x, y>>

\* Which of two actions on one lookahead is taken.  The first is a shift if
\* either is; a pair in which one has lost already stays as it is.
ResolveConflict(g, x, y) ==
    LET rank(sym) == IF sym \in DOMAIN g.prec THEN g.prec[sym].level ELSE -1
        own == IF x.type = "SHIFT" THEN x.sp ELSE RulePrecedence(g, x.to)
        other == RulePrecedence(g, y.to)
        lose(a, why) == [a EXCEPT !.type = why]
        unranked == rank(own) < 0 \/ rank(other) < 0
    IN  CASE x.type = "SHIFT" /\ y.type = "SHIFT" -> <<x, lose(y, "SSCONFLICT")>>
          [] x.type = "SHIFT" /\ y.type = "REDUCE" ->
               (CASE unranked -> <<x, lose(y, "SRCONFLICT")>>
                  [] ~unranked /\ rank(own) > rank(other) -> <<x, lose(y, "RD_RESOLVED")>>
                  [] ~unranked /\ rank(own) < rank(other) -> <<lose(x, "SH_RESOLVED"), y>>
                  [] OTHER ->
                       CASE g.prec[own].assoc = "RIGHT" -> <<x, lose(y, "RD_RESOLVED")>>
                         [] g.prec[own].assoc = "LEFT" -> <<lose(x, "SH_RESOLVED"), y>>
                         [] OTHER -> <<lose(x, "ERROR"), y>>)
          [] x.type = "REDUCE" /\ y.type = "REDUCE" ->
               (CASE unranked \/ rank(own) = rank(other) -> <<x, lose(y, "RRCONFLICT")>>
                  [] ~unranked /\ rank(own) > rank(other) -> <<x, lose(y, "RD_RESOLVED")>>
                  [] OTHER -> <<lose(x, "RD_RESOLVED"), y>>)
          [] OTHER -> <<x, y>>

ResolveAll(g, actions) ==
    LET pairs == InOrder({p \in (DOMAIN actions) \X (DOMAIN actions) : p[1] < p[2]}, Configcmp)
        step(as, p) == LET xy == ResolveConflict(g, as[p[1]], as[p[2]])
                       IN  [as EXCEPT ![p[1]] = xy[1], ![p[2]] = xy[2]]
    IN  FoldLeft(step, actions, pairs)

\* The actions of a state on one symbol as Action_sort leaves them: shifts,
\* the latest first, then reductions by the number of their rules.
ActionsOn(g, states, fws, s, sp) ==
    LET items == states[s].items
        order == SelectSeq(ShiftOrder(g, items), LAMBDA x : sp \in Range(x))
        shifts == [i \in DOMAIN order |->
                     Action(sp, "SHIFT", Numbered(states, Goto(g, items, order[i])))]
        complete == {c \in items : AtEnd(g, c) /\ sp \in fws[<<s, c>>]}
        reduces == InOrder({Action(sp, "REDUCE", c[1]) : c \in complete},
                           LAMBDA a, b : a.to < b.to)
        accepts == IF s = 1 /\ sp = g.start THEN <<Action(sp, "ACCEPT", 0)>> ELSE <<>>
    IN  Reverse(shifts) \o accepts \o reduces

FindActions(g, states, fws) ==
    LET on(s, sp) == ResolveAll(g, ActionsOn(g, states, fws, s, sp))
        symbols == SymbolsOf(g)
    IN  [s \in DOMAIN states |-> FlattenSeq([k \in DOMAIN symbols |-> on(s, symbols[k])])]

-----------------------------------------------------------------------------
(* Compression: the reduction a state does most often becomes its default, *)
(* and a shift to a state that can only reduce becomes a SHIFTREDUCE.      *)

ReducesBy(actions, s, r) == {i \in DOMAIN actions[s] : /\ actions[s][i].type = "REDUCE"
                                                       /\ actions[s][i].to = r}

\* DefaultReduce that takes the start rule for a default too.
DefaultReduceAny(g, actions, s) ==
    LET reduced == {r \in DOMAIN g.rules : ReducesBy(actions, s, r) # {}}
    IN  IF reduced = {} THEN NoRule ELSE Min(reduced)

DefaultReduce(g, actions, s) ==
    LET count(r) == Cardinality(ReducesBy(actions, s, r))
        candidates == {r \in DOMAIN g.rules : count(r) > 0 /\ g.rules[r].lhs # g.start}
        most == {r \in candidates : \A q \in candidates : count(q) <= count(r)}
    IN  IF candidates = {} THEN NoRule
        ELSE CHOOSE r \in most :
               \A q \in most : Min(ReducesBy(actions, s, r)) <= Min(ReducesBy(actions, s, q))

CompressTables(g, actions) ==
    LET default == [s \in DOMAIN actions |-> DefaultReduce(g, actions, s)]
        rest(s) == SelectSeq(actions[s],
                     LAMBDA a : ~(a.type = "REDUCE" /\ a.to = default[s]))
        autoReduce == {s \in DOMAIN actions :
                         /\ default[s] # NoRule
                         /\ \A a \in Range(rest(s)) : a.type \notin {"SHIFT", "REDUCE"}}
        shorten(a) == IF a.type = "SHIFT" /\ a.to \in autoReduce
                      THEN Action(a.sp, "SHIFTREDUCE", default[a.to]) ELSE a
        short(s) == LET as == rest(s) IN [i \in DOMAIN as |-> shorten(as[i])]
    IN  [actions |-> [s \in DOMAIN actions |-> short(s)],
         default |-> default, autoReduce |-> autoReduce]

\* The actions that get a number, on the terminals or on the nonterminals.
Coded(g, actions, onTerminals) ==
    SelectSeq(actions, LAMBDA a : /\ a.type \in {"SHIFT", "SHIFTREDUCE", "REDUCE", "ERROR", "ACCEPT"}
                                  /\ (a.sp \in Terminals(g)) = onTerminals)

\* The states in the order of the generated parser: the first one, then
\* those with more gotos, with more token actions, with higher numbers.
ResortStates(g, c) ==
    LET counts == {<<Len(Coded(g, c.actions[s], FALSE)), Len(Coded(g, c.actions[s], TRUE)), s>> :
                     s \in DOMAIN c.actions \ {1}}
        before(x, y) == \/ x[1] > y[1]
                        \/ x[1] = y[1] /\ x[2] > y[2]
                        \/ x[1] = y[1] /\ x[2] = y[2] /\ x[3] > y[3]
        order == InOrder(counts, before)
    IN  <<1>> \o [i \in DOMAIN order |-> order[i][3]]

\* nxstate: the states that only reduce and stand at the end are left out.
KeptStates(c, sorted) ==
    Max({1} \cup {i \in DOMAIN sorted : sorted[i] \notin c.autoReduce})

-----------------------------------------------------------------------------
(* The tables of the generated parser.  States, rules and symbols are      *)
(* numbered from 0 there.                                                  *)

ComputeAction(g, sorted, a) ==
    LET nstate == Len(sorted)
        nrule == Len(g.rules)
    IN  CASE a.type = "SHIFT" -> SelectInSeq(sorted, LAMBDA s : s = a.to) - 1
          [] a.type = "SHIFTREDUCE" -> nstate + a.to - 1
          [] a.type = "REDUCE" -> nstate + nrule + a.to - 1
          [] a.type = "ERROR" -> nstate + 2 * nrule
          [] a.type = "ACCEPT" -> nstate + 2 * nrule + 1

\* An action table: its cells [lookahead, action] and the cells allocated.
\* A cell that is not used has the lookahead -1.
Unused == [lookahead |-> -1, action |-> -1]
Cell(t, i) == IF i + 1 \in DOMAIN t.cells THEN t.cells[i + 1] ELSE Unused

\* Misled that looks at no cell between those of the set.
NeverMisled(t, lowest, i) == {}

\* Where a set of actions put at i would find a lookahead of its own in the
\* wrong cell.  An unused cell counts when it stands before all of them.
Misled(t, lowest, i) ==
    {j \in 0..(Len(t.cells) - 1) : Cell(t, j).lookahead = j + lowest - i}

\* acttab_insert: reuse the cells of an equal set, otherwise the first hole
\* the set fits in; the offset is where lookahead 0 would be.
ActtabInsert(t, set) ==
    LET las == {set[k].lookahead : k \in DOMAIN set}
        lowest == Min(las)
        alloc == IF Len(t.cells) + Max(las) + 1 >= t.alloc
                 THEN Len(t.cells) + Max(las) + 1 + t.alloc + 20 ELSE t.alloc
        at(k, i) == set[k].lookahead - lowest + i
        equal == {i \in 0..(Len(t.cells) - 1) :
                    /\ \A k \in DOMAIN set : Cell(t, at(k, i)) = set[k]
                    /\ Cardinality({j \in Misled(t, lowest, i) : Cell(t, j).lookahead >= 0}) = Len(set)}
        fitting == {i \in 0..(alloc - Max(las) - 1) :
                      /\ Cell(t, i).lookahead < 0
                      /\ \A k \in DOMAIN set : Cell(t, at(k, i)).lookahead < 0
                      /\ Misled(t, lowest, i) = {}}
        i == CASE equal # {} -> Max(equal)
               [] equal = {} /\ fitting # {} -> Min(fitting)
               [] OTHER -> alloc - Max(las)
        top == Max({Len(t.cells)} \cup {at(k, i) + 1 : k \in DOMAIN set})
        written(j) == {k \in DOMAIN set : at(k, i) = j - 1}
    IN  [cells |-> [j \in 1..top |-> IF written(j) # {} THEN set[Max(written(j))] ELSE Cell(t, j - 1)],
         alloc |-> alloc, offset |-> i - lowest]

\* The actions of each kept state, on terminals and on nonterminals.
ActionSets(g, c, sorted) ==
    LET coded(i, onTerminals) ==
            LET as == Coded(g, c.actions[sorted[i]], onTerminals)
            IN  [k \in DOMAIN as |-> [lookahead |-> Index(g, as[k].sp),
                                      action |-> ComputeAction(g, sorted, as[k])]]
    IN  [i \in 1..KeptStates(c, sorted) |-> [b \in BOOLEAN |-> coded(i, b)]]

\* axset_compare: the largest set first.
PackingOrder(sets) ==
    LET before(x, y) == LET n(z) == Len(sets[z[1]][z[2]])
                        IN  \/ n(x) > n(y)
                            \/ n(x) = n(y) /\ x[1] < y[1]
                            \/ n(x) = n(y) /\ x[1] = y[1] /\ x[2] /\ ~y[2]
    IN  InOrder({x \in (DOMAIN sets) \X BOOLEAN : sets[x[1]][x[2]] # <<>>}, before)

\* One action table for all sets; NoOffset for a set without actions.
NoOffset == -1000000
Packed(sets) ==
    LET pack(t, x) == LET new == ActtabInsert(t, sets[x[1]][x[2]])
                      IN  [cells |-> new.cells, alloc |-> new.alloc,
                           offset |-> [t.offset EXCEPT ![x[1]][x[2]] = new.offset]]
    IN  FoldLeft(pack, [cells |-> <<>>, alloc |-> 0,
                        offset |-> [i \in DOMAIN sets |-> [b \in BOOLEAN |-> NoOffset]]],
                 PackingOrder(sets))

\* ReportTable: what the generated file holds.
PackTables(g, c, sorted) ==
    LET sets == ActionSets(g, c, sorted)
        packed == Packed(sets)
        reduction(i) == LET r == c.default[sorted[i]]
                        IN  IF r = NoRule THEN Len(g.rules) ELSE r - 1
    IN  [action |-> [k \in DOMAIN packed.cells |-> packed.cells[k].action],
         lookahead |-> [k \in DOMAIN packed.cells |-> packed.cells[k].lookahead],
         shiftOfst |-> [i \in DOMAIN sets |-> packed.offset[i][TRUE]],
         reduceOfst |-> [i \in DOMAIN sets |-> packed.offset[i][FALSE]],
         default |-> [i \in DOMAIN sets |-> reduction(i) + Len(sorted) + Len(g.rules)],
         ruleInfo |-> [r \in DOMAIN g.rules |-> [lhs |-> Index(g, g.rules[r].lhs),
                                                 nrhs |-> Len(g.rules[r].rhs)]],
         maxShift |-> Len(sets) - 1, nstate |-> Len(sorted), nrule |-> Len(g.rules)]

=============================================================================
