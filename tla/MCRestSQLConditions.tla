------------------------- MODULE MCRestSQLConditions -------------------------
(* Model checking of conditions: all texts over five sets of tokens.         *)
EXTENDS RestSQLConditions

\* One operator of every level, two of some.
Operators == {"OR", "XOR", "AND", "NOT", "=", "|", "&", "<<", "+", "-", "*", "^", "!"}

MCLanguages == {
  [tokens |-> {"IDENTIFIER"} \cup Operators, max |-> 5],
  [tokens |-> {"IDENTIFIER", "-", "(", ")", "*", "NOT", "AND", "="}, max |-> 7],
  [tokens |-> {"IDENTIFIER", "INT", "-", "(", ")", "/"}, max |-> 7],
  [tokens |-> {"IDENTIFIER", "IS", "NULL", "NOT", "=", "AND", "+"}, max |-> 8],
  [tokens |-> {"STRING", "DATE_ADD", "EXTRACT", "INTERVAL", "DAY", "SECOND", "FROM", "(", ")", ",",
               "+", "<"}, max |-> 8]}

=============================================================================
