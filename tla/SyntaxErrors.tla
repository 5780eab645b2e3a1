---------------------------- MODULE SyntaxErrors ----------------------------
(* What lexer and parser tell each other about places in the statement, and  *)
(* the error they record: the semantic values yytext and yylloc, the members *)
(* m_err_state, m_err_pos and m_err_len, set_err_state and rsqlp_error.      *)
EXTENDS Integers

VARIABLES
  yytext,          \* the lexer's last match
  yylloc,          \* the location of the last token, as bison sees it
  err,             \* m_err_state, m_err_pos and m_err_len
  failed           \* the function whose assert stopped the process, "none" if none did

errorVars == <<yytext, yylloc, err, failed>>

\* A location is the places of its first byte and of the byte behind it.
Location(b, e) == [begin |-> b, end |-> e]

ErrorsInit ==
  /\ yytext = Location(0, 0) /\ yylloc = Location(-1, -1)
  /\ err = [state |-> "NONE", pos |-> 0, len |-> 0]
  /\ failed = "none"

\* set_err_state: the first error is kept, and an assert says that it is the
\* left-most one or, at the same place, the shorter one.
set_err_state(state, loc) ==
  LET len == loc.end - loc.begin
  IN  IF err.state = "NONE"
      THEN err' = [state |-> state, pos |-> loc.begin, len |-> len] /\ UNCHANGED failed
      ELSE /\ failed' = IF err.pos < loc.begin \/ (err.pos = loc.begin /\ err.len <= len)
                        THEN "none" ELSE "set_err_state"
           /\ UNCHANGED err

\* Mutant of ErrorLocation: bison's location is always taken.
ErrorLocationOfBison == yylloc

\* rsqlp_error: bison's location, unless the lexer has gone on without setting it.
ErrorLocation == IF yylloc.end = yytext.end THEN yylloc ELSE yytext

\* "Those two cases should be the only possibilities."
Locatable ==
  \/ yylloc.end = yytext.end
  \/ yylloc.end <= yytext.begin /\ yytext.end = yytext.begin + 1

rsqlp_error ==
  IF Locatable THEN set_err_state("PARSER_ERROR", ErrorLocation)
               ELSE failed' = "rsqlp_error" /\ UNCHANGED err

=============================================================================
