------------------------------ MODULE SqlTokens ------------------------------
(* The parser of parse.y on texts of any tokens in any order and number. *)
EXTENDS SqlAutomaton

CONSTANT TokenTypes  \* the types of the tokens

ASSUME TokenTypesAssumption ==
    \A x \in DOMAIN Grammars :
      TokenTypes \subseteq (Terminals(Grammars[x]) \ {"$"}) \cup {"ILLEGAL"}

vars == <<genVars, parserVars, sessionVars>>

\* The operation the tokenizer gives a token of the type.
OperationOf(type) ==
    CASE type = "EQ" -> "EQUALS"
      [] type = "NE" -> "NOT_EQUALS"
      [] type = "LT" -> "LESSER"
      [] type = "LE" -> "LESSER_EQUALS"
      [] type = "GT" -> "GREATER"
      [] type = "GE" -> "GREATER_EQUALS"
      [] type \in {"AND", "OR"} -> type
      [] OTHER -> "NO_OP"

\* A token as the tokenizer makes it; of what it holds only what decides
\* the control of the rules' code.
Token(type) ==
    [NullToken EXCEPT !.type = type,
       !.value = IF type \in {"INTEGER", "FLOAT", "DATE", "NULL"}
                 THEN [type |-> "some", text |-> <<>>] ELSE NoValue,
       !.operation = OperationOf(type)]

Init == SessionInit

AnyToken ==
    \E type \in TokenTypes : ParseToken(Token(type))

NextText ==
    /\ Finished
    /\ NewSession
    /\ UNCHANGED <<genVars, parserVars>>

Next == Generating \/ AnyToken \/ ParseEnd \/ Working \/ NextText \/ StartAgain
Spec == Init /\ [][Next]_vars

-----------------------------------------------------------------------------
\* The lists of parse.y are recursive to the left: no text is long or nested
\* enough to overflow the stack, and nothing is left on it for the next text.
StackBounded ==
    /\ Len(parser) <= StackBound
    /\ Finished => parser = <<>>

\* A text that is not accepted leaves no statement to run.
FailureLeavesNothing == Finished /\ ~accepted => ~Succeeds

\* In the first command of a text the code of every rule finds the kind of
\* statement it casts builder->statement to, and the expression it
\* dereferences, whatever tokens were thrown away before.
CodeFitsStatement == died = "misfit" => commands > 0

\* In a text of one command every AND and OR reaches its node of the condition
\* before the next comparison is joined to it.
ConditionComplete ==
    commands <= 1 /\ Finished /\ Succeeds => ExprComplete(builder.expr)

=============================================================================
