-------------------------- MODULE MCRestSQLPreparer --------------------------
(* Model checking of the preparer: all statements of a few tokens.           *)
EXTENDS RestSQLPreparer

Lexeme(token, val, width) == [token |-> token, val |-> val, width |-> width]
Plain(tokens) == {Lexeme(token, "none", 1) : token \in tokens}
Functions(names) == {Lexeme("FUNCTION", name, 1) : name \in names}
Names == {Lexeme("IDENTIFIER", "a", 1), Lexeme("IDENTIFIER", "b", 3)}

\* Expressions, one after the other.
ExpressionLexemes ==
  Plain({"SELECT", "(", ")", "Minus", "Mul", "Div", "AS", "FROM"}) \cup Functions({"Sum"}) \cup Names

\* Everything the grammar of the model knows.
StatementLexemes ==
  Plain({"SELECT", "COMMA", "(", ")", "Add", "Minus", "Mul", "Div", "AS", "FROM", "WHERE", "CONDITION", "GROUP", "BY",
         "ORDER", "DESC", "SEMICOLON"})
  \cup Functions({"Avg", "Count"}) \cup Names \cup {Lexeme("INT", 1, 1)}

AllErrors ==
  {"LEX_HERE", "LEX_ILLEGAL_TOKEN", "LEX_TOO_LONG_IDENTIFIER", "LEX_UNEXPECTED_EOI"}

TwoColumns == 1 .. 2

\* Behind an operand, no text that is too long for all its parentheses to be closed.
CanStillBeClosed ==
  args # <<>> /\ look = None =>
    pos + Cardinality({i \in DOMAIN ops : ops[i] = "("}) + (IF at = "operand" THEN 2 ELSE 1) <= MaxPos

\* Expressions are parsed alike in all functions: with operators in one of them.
OneFunctionOfExpressions == out.fun = "Count" => ops = <<>>

=============================================================================
