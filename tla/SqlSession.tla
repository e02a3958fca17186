----------------------------- MODULE SqlSession -----------------------------
(***************************************************************************)
(* One worker's parser at work: the driver of Lempar with the tables made  *)
(* of parse.y, each reduction running the code of its rule on the builder  *)
(* of the text.  parse of omdb_parser.cc makes a new builder for each text *)
(* and keeps the parser.  Where the tokens come from is left open.         *)
(***************************************************************************)
EXTENDS Lempar, SqlGrammar, StatementBuilder

VARIABLES builder,   \* the StatementBuilder of the text
          accepted,  \* whether the text was accepted
          commands,  \* the complete commands of the text; two stands for more
          ended,     \* whether Parse has been called for the end of the text
          died       \* what has ended the server: "misfit", "null" or nothing, "no"

sessionVars == <<builder, accepted, commands, ended, died>>

SqlGrammars == [sql |-> SqlGrammar]

\* TK_ILLEGAL was added to the codes of parse.h by hand: in the tables it is
\* the number of a nonterminal.
IllegalCode == 51
CodeOf(tok) == IF tok.type = "ILLEGAL" THEN IllegalCode ELSE Index(TheGrammar, tok.type)

SessionInit ==
    /\ GenInit
    /\ DriverInit
    /\ builder = NewBuilder
    /\ accepted = FALSE /\ commands = 0 /\ ended = FALSE /\ died = "no"

NewSession ==
    /\ builder' = NewBuilder
    /\ accepted' = FALSE /\ commands' = 0 /\ ended' = FALSE /\ died' = "no"

Generating ==
    /\ GenNext \/ ReportTable \/ Compile
    /\ UNCHANGED <<parserVars, sessionVars>>

ParseToken(tok) ==
    /\ ~ended
    /\ Parse(CodeOf(tok), tok)
    /\ UNCHANGED sessionVars

ParseEnd ==
    /\ ~ended
    /\ Parse(0, NullToken)
    /\ ended' = TRUE
    /\ UNCHANGED <<builder, accepted, commands, died>>

DoShift ==
    /\ ShiftToken
    /\ UNCHANGED sessionVars

Minors == LET handle == Handle(tables, parser, Due)
          IN  [i \in DOMAIN handle |-> handle[i].minor]

\* The code of the rule that is due is about to take a statement for one it is
\* not, or to follow a null pointer.
Undefined ==
    LET act == TheGrammar.rules[Due + 1].act
    IN  ~Fits(act, builder) \/ ReadsNull(act, builder, Minors)

DoReduce ==
    /\ Reduces /\ ~Undefined
    /\ LET rule == TheGrammar.rules[Due + 1]
       IN  /\ ReduceTo(Yield(rule.act, Minors))
           /\ builder' = Code(rule.act, builder, Minors)
           /\ commands' = IF rule.lhs = "end_cmd" /\ Len(rule.rhs) > 1 /\ commands < 2
                          THEN commands + 1 ELSE commands
    /\ accepted' = (accepted \/ Accepts(tables, parser, Due))
    /\ UNCHANGED <<ended, died>>

\* What follows is not followed here but as the end of the server, which is
\* started again.
Die ==
    /\ Reduces /\ Undefined /\ died = "no"
    /\ died' = IF Fits(TheGrammar.rules[Due + 1].act, builder) THEN "null" ELSE "misfit"
    /\ UNCHANGED <<genVars, parserVars, builder, accepted, commands, ended>>

StartAgain ==
    /\ died # "no"
    /\ NewSession
    /\ parser' = <<>> /\ call' = NoCall
    /\ UNCHANGED genVars

\* At the end of the text %parse_failure cleans the builder.
DoError ==
    /\ SyntaxError
    /\ builder' = IF call.end THEN BuilderClean(builder) ELSE builder
    /\ UNCHANGED <<accepted, commands, ended, died>>

Working == DoShift \/ DoReduce \/ DoError \/ Die

\* What parse answers.
Finished == ended /\ call = NoCall
Succeeds == builder.statement.type # "none" /\ builder.valid

=============================================================================
