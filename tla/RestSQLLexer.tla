---------------------------- MODULE RestSQLLexer ----------------------------
(* The lexer (RestSQLLexer.l), byte by byte: which bytes are tokens and with *)
(* which values, and which are errors.  Of all rules of the current start    *)
(* condition flex takes the one with the longest match, of several such ones *)
(* the first.  RestSQLParser reads lexemes, which are what this lexer makes  *)
(* of the text; here it is the parser that is reduced, to accepting a token  *)
(* and asking for the next, refusing it, or giving up an output that ended   *)
(* before it.                                                                *)
EXTENDS SyntaxErrors, KeywordSearch, FiniteSetsExt

CONSTANTS
  Texts,        \* the texts to be read
  Dictionary,   \* words in upper case in the order of strcmp, those of the tables among them
  MaxKeyword,   \* the longest word that is looked up, 18
  MaxName,      \* the longest identifier, 64
  IntMax,       \* INT_MAX and LONG_MAX
  LongMax

ASSUME TextsAssumption == Texts \subseteq Seq(0 .. 255)
ASSUME LimitsAssumption ==
  MaxKeyword \in Nat \ {0} /\ MaxName \in Nat /\ IntMax \in Nat /\ LongMax \in Nat /\ IntMax <= LongMax

VARIABLES
  text,      \* the buffer without the two NULs behind it
  pos,       \* where the lexer goes on
  mode,      \* the start condition
  value,     \* yylval, a number as a sequence of one
  token,     \* the token returned to the parser, "NONE" while there is none
  verdict,   \* what the parser made of the text, "none" while it reads
  output     \* where an output is that ends with the last token the parser took

lexerVars == <<text, pos, mode, value, token, verdict, output>>

LexerInit ==
  /\ ErrorsInit /\ SearchInit
  /\ text \in Texts
  /\ pos = 0 /\ mode = "INITIAL" /\ value = <<>> /\ token = "NONE" /\ verdict = "none"
  /\ output = Location(-1, -1)

-----------------------------------------------------------------------------
(* Patterns: sets of sequences of sets of bytes                              *)

Byte(p) == text[p + 1]
Bytes(from, to) == SubSeq(text, from + 1, to)

Continuation == 128 .. 191
U_PARTIAL == {
  <<192 .. 223>>,
  <<224 .. 239>>, <<224 .. 239, Continuation>>,
  <<240 .. 247>>, <<240 .. 247, Continuation>>, <<240 .. 247, Continuation, Continuation>>}
U_OVERLONG == {
  <<{192, 193}, Continuation>>, <<{224}, 128 .. 159, Continuation>>,
  <<{240}, 128 .. 143, Continuation, Continuation>>}
U_SURROGATE == {<<{237}, 160 .. 191, Continuation>>}

\* Mutant of U_EXTBMP: what may follow the first byte is not looked at.
U_EXTBMP_any == {<<194 .. 223, Continuation>>, <<224 .. 239, Continuation, Continuation>>}

U_EXTBMP == {
  <<194 .. 223, Continuation>>,
  <<{224}, 160 .. 191, Continuation>>, <<225 .. 236, Continuation, Continuation>>,
  <<{237}, 128 .. 159, Continuation>>, <<238 .. 239, Continuation, Continuation>>}
U_NONBMP == {
  <<{240}, 144 .. 191, Continuation, Continuation>>,
  <<241 .. 243, Continuation, Continuation, Continuation>>,
  <<{244}, 128 .. 143, Continuation, Continuation>>}
U_TOOHIGH == {
  <<{244}, 144 .. 191, Continuation, Continuation>>,
  <<245 .. 247, Continuation, Continuation, Continuation>>}

NUL == 0
Newline == 10
Apostrophe == 39
Backslash == 92
Backtick == 96
Space == {9, 10, 13, 32}
Digit == 48 .. 57
Letter == (65 .. 90) \cup {95} \cup (97 .. 122)

NameChar == {<<{36} \cup Digit \cup Letter>>} \cup U_EXTBMP
QuotedNameChar == {<<1 .. 127 \ {Backtick}>>} \cup U_EXTBMP
StringChar == {<<1 .. 127 \ {Apostrophe, Backslash}>>} \cup U_EXTBMP \cup U_NONBMP
EscapeSequence == {<<{Backslash}, 0 .. 255 \ {Newline}>>}

\* The punctuation: ! % & ( ) * + , - / ; < = > ^ | and && << <= <> != >= >> ||
Operators ==
  {<<{c}>> : c \in {33, 37, 38, 59, 60, 61, 62, 94, 124} \cup (40 .. 45) \cup {47}} \cup
  {<<{c}, {c}>> : c \in {38, 60, 62, 124}} \cup
  {<<{60}, {61, 62}>>, <<{33, 62}, {61}>>}

\* What is left for the last rule.
Illegal ==
  1 .. 127 \ (Space \cup Digit \cup Letter \cup {36, Apostrophe, Backtick}
              \cup {c \in 33 .. 124 : <<{c}>> \in Operators})

Matches(pattern, p) ==
  p + Len(pattern) <= Len(text) /\ \A i \in DOMAIN pattern : text[p + i] \in pattern[i]

\* The length of the longest match of one of the patterns, 0 if there is none.
Longest(patterns, p) == Max({0} \cup {Len(q) : q \in {r \in patterns : Matches(r, p)}})

\* The length of the longest repetition of the patterns.
Repeated(patterns, p) ==
  LET run[q \in p .. Len(text)] ==
        LET n == Longest(patterns, q) IN IF n = 0 THEN 0 ELSE n + run[q + n]
  IN  run[p]

-----------------------------------------------------------------------------
(* Rules                                                                     *)

\* The number with a fraction, and the two strings next to each other.
Float ==
  LET n == Repeated({<<Digit>>}, pos)
      m == IF n > 0 /\ Matches(<<{46}>>, pos + n) THEN Repeated({<<Digit>>}, pos + n + 1) ELSE 0
  IN  IF m > 0 THEN n + 1 + m ELSE 0

Adjacent ==
  LET n == IF Matches(<<{Apostrophe}>>, pos) THEN Repeated({<<Space>>}, pos + 1) ELSE 0
  IN  IF n > 0 /\ Matches(<<{Apostrophe}>>, pos + 1 + n) THEN n + 2 ELSE 0

\* Mutant of WordLength: the rule is shorter than the longest keyword.
WordLengthShort == Min({MaxKeyword - 1, Repeated({<<Letter>>}, pos)})

WordLength == Min({MaxKeyword, Repeated({<<Letter>>}, pos)})

\* A rule's name and the length of its match, in the order of the rules.
Rule(name, len) == [name |-> name, len |-> len]

ErrorRules ==
  <<Rule("LEX_NUL", Longest({<<{NUL}>>}, pos)),
    Rule("LEX_U_ILLEGAL_BYTE", Longest({<<248 .. 255>>}, pos)),
    Rule("LEX_U_ENC_ERR", Longest(U_PARTIAL \cup {<<Continuation>>}, pos)),
    Rule("LEX_U_OVERLONG", Longest(U_OVERLONG, pos)),
    Rule("LEX_U_TOOHIGH", Longest(U_TOOHIGH, pos)),
    Rule("LEX_U_SURROGATE", Longest(U_SURROGATE, pos)),
    Rule("LEX_NONBMP_IDENTIFIER",
         IF mode = "SINGLE_QUOTED_STRING" THEN 0 ELSE Longest(U_NONBMP, pos))>>

StringRules ==
  <<Rule("RUN", Repeated(StringChar, pos)),
    Rule("DOUBLED", Longest({<<{Apostrophe}, {Apostrophe}>>}, pos)),
    Rule("CLOSE", Longest({<<{Apostrophe}>>}, pos)),
    Rule("ESCAPE", Longest(EscapeSequence, pos)),
    Rule("LEX_INCOMPLETE_ESCAPE_SEQUENCE_IN_SINGLE_QUOTED_STRING",
         Longest({<<{Backslash}>>}, pos)),
    Rule("ADJACENT", Adjacent)>>

QuotedIdentifierRules ==
  <<Rule("RUN", Repeated(QuotedNameChar, pos)),
    Rule("DOUBLED", Longest({<<{Backtick}, {Backtick}>>}, pos)),
    Rule("CLOSE", Longest({<<{Backtick}>>}, pos))>>

InitialRules ==
  <<Rule("SPACE", Longest({<<Space>>}, pos)),
    Rule("FLOAT", Float),
    Rule("INT", Repeated({<<Digit>>}, pos)),
    Rule("OPERATOR", Longest(Operators, pos)),
    Rule("WORD", WordLength),
    Rule("IDENTIFIER", Repeated(NameChar, pos)),
    Rule("OPEN", Longest({<<{Backtick, Apostrophe}>>}, pos)),
    Rule("LEX_ILLEGAL_TOKEN", Longest({<<Illegal>>}, pos))>>

\* The rule flex takes.
Winner ==
  LET rules == ErrorRules \o (CASE mode = "INITIAL" -> InitialRules
                                [] mode = "QUOTED_IDENTIFIER" -> QuotedIdentifierRules
                                [] mode = "SINGLE_QUOTED_STRING" -> StringRules)
      longest == {i \in DOMAIN rules : \A j \in DOMAIN rules : rules[j].len <= rules[i].len}
  IN  rules[Min(longest)]

-----------------------------------------------------------------------------
(* The actions of the rules                                                  *)

Reading == failed = "none" /\ verdict = "none" /\ token = "NONE" /\ outcome = "none"

here(rule) == Location(pos, pos + rule.len)
matched(rule) == Bytes(pos, pos + rule.len)

\* return_err
ReturnError(state, loc) == set_err_state(state, loc) /\ token' = "ERR"
Return(tok) == token' = tok /\ UNCHANGED <<err, failed>>

\* Rules that report what they match.  The one for illegal tokens sets no location.
EncodingErrors ==
  {"LEX_NUL", "LEX_U_ILLEGAL_BYTE", "LEX_U_ENC_ERR", "LEX_U_OVERLONG", "LEX_U_TOOHIGH",
   "LEX_U_SURROGATE"}
ErrorNames ==
  EncodingErrors \cup {"LEX_NONBMP_IDENTIFIER", "LEX_ILLEGAL_TOKEN",
                       "LEX_INCOMPLETE_ESCAPE_SEQUENCE_IN_SINGLE_QUOTED_STRING"}
MatchError(rule) ==
  /\ rule.name \in ErrorNames
  /\ ReturnError(rule.name, here(rule))
  /\ yylloc' = IF rule.name = "LEX_ILLEGAL_TOKEN" THEN yylloc ELSE here(rule)
  /\ UNCHANGED <<mode, value, searchVars>>

\* White space, also between two strings, which become one.
Skip(rule) ==
  /\ rule.name \in {"SPACE", "ADJACENT"}
  /\ Return("NONE")
  /\ UNCHANGED <<mode, value, yylloc, searchVars>>

\* atoi: strtol stops at LONG_MAX, and the result is cut to an int.
atoi(digits) ==
  LET n[i \in 0 .. Len(digits)] == IF i = 0 THEN 0 ELSE 10 * n[i - 1] + digits[i] - 48
      long == Min({n[Len(digits)], LongMax})
  IN  ((long + IntMax + 1) % (2 * IntMax + 2)) - IntMax - 1

MatchNumber(rule) ==
  /\ rule.name \in {"INT", "FLOAT"}
  /\ Return(rule.name)
  /\ yylloc' = here(rule)
  /\ value' = IF rule.name = "INT" THEN <<atoi(matched(rule))>> ELSE <<>>
  /\ UNCHANGED <<mode, searchVars>>

MatchOperator(rule) ==
  /\ rule.name = "OPERATOR"
  /\ Return("OPERATOR")
  /\ yylloc' = here(rule)
  /\ UNCHANGED <<mode, value, searchVars>>

\* A word that may be a keyword is looked up in upper case.
Upper(word) == [i \in DOMAIN word |-> IF word[i] \in 97 .. 122 THEN word[i] - 32 ELSE word[i]]
Rank(word) == CHOOSE i \in DOMAIN Dictionary : Dictionary[i] = Upper(word)

\* What KeywordsUnitTest.cpp checks of the words in the tables; and the dictionary
\* has each word once, that of any run of letters too.
ASSUME DictionaryAssumption ==
  /\ Dictionary \in Seq(Seq(0 .. 255))
  /\ \A i, j \in DOMAIN Dictionary : Dictionary[i] = Dictionary[j] => i = j
  /\ \A i \in Words(Implemented) \cup Words(Defined) :
       /\ i \in DOMAIN Dictionary
       /\ \A k \in DOMAIN Dictionary[i] : Dictionary[i][k] \in Digit \cup (65 .. 90) \cup {95}
  /\ \A t \in Texts : \A i \in DOMAIN t, j \in DOMAIN t :
       /\ i <= j /\ j < i + MaxKeyword
       /\ \A k \in i .. j : t[k] \in Letter
       => \E d \in DOMAIN Dictionary : Dictionary[d] = Upper(SubSeq(t, i, j))

MatchWord(rule) ==
  /\ rule.name = "WORD"
  /\ Return("NONE")
  /\ yylloc' = here(rule)
  /\ Begin(Rank(matched(rule)))
  /\ UNCHANGED <<mode, value>>

MatchIdentifier(rule) ==
  /\ rule.name = "IDENTIFIER"
  /\ IF rule.len > MaxName THEN ReturnError("LEX_TOO_LONG_IDENTIFIER", here(rule))
                           ELSE Return("IDENTIFIER")
  /\ yylloc' = here(rule)
  /\ value' = matched(rule)
  /\ UNCHANGED <<mode, searchVars>>

Open(rule) ==
  /\ rule.name = "OPEN"
  /\ Return("NONE")
  /\ mode' = IF Byte(pos) = Backtick THEN "QUOTED_IDENTIFIER" ELSE "SINGLE_QUOTED_STRING"
  /\ value' = <<>>
  /\ yylloc' = [yylloc EXCEPT !.begin = pos]
  /\ UNCHANGED searchVars

\* Mutant of Escaped: the backslash before % and _ is dropped.
EscapedBare(c) ==
  CASE c = 48 -> <<0>> [] c = 98 -> <<8>> [] c = 110 -> <<10>> [] c = 114 -> <<13>>
    [] c = 116 -> <<9>> [] c = 90 -> <<26>> [] OTHER -> <<c>>

\* \0 \b \n \r \t \Z are control characters, \% and \_ stay as they are.
Escaped(c) ==
  CASE c = 48 -> <<0>> [] c = 98 -> <<8>> [] c = 110 -> <<10>> [] c = 114 -> <<13>>
    [] c = 116 -> <<9>> [] c = 90 -> <<26>> [] c \in {37, 95} -> <<Backslash, c>>
    [] OTHER -> <<c>>

\* A part of what is quoted is appended to the value.
Concatenate(rule) ==
  /\ rule.name \in {"RUN", "DOUBLED", "ESCAPE"}
  /\ Return("NONE")
  /\ value' = value \o (CASE rule.name = "RUN" -> matched(rule)
                          [] rule.name = "DOUBLED" -> <<Byte(pos)>>
                          [] rule.name = "ESCAPE" -> Escaped(Byte(pos + 1)))
  /\ UNCHANGED <<mode, yylloc, searchVars>>

Close(rule) ==
  /\ rule.name = "CLOSE"
  /\ mode' = "INITIAL"
  /\ yylloc' = [yylloc EXCEPT !.end = pos + 1]
  /\ IF mode = "QUOTED_IDENTIFIER" /\ Len(value) > MaxName
     THEN ReturnError("LEX_TOO_LONG_IDENTIFIER", yylloc')
     ELSE Return(IF mode = "QUOTED_IDENTIFIER" THEN "IDENTIFIER" ELSE "STRING")
  /\ UNCHANGED <<value, searchVars>>

Read ==
  /\ Reading /\ pos < Len(text)
  /\ \E rule \in {Winner} :
       /\ pos' = pos + rule.len
       /\ yytext' = here(rule)
       /\ \/ MatchError(rule) \/ Skip(rule) \/ MatchNumber(rule) \/ MatchOperator(rule)
          \/ MatchWord(rule) \/ MatchIdentifier(rule)
          \/ Open(rule) \/ Concatenate(rule) \/ Close(rule)
  /\ UNCHANGED <<text, verdict, output>>

Search == SearchStep /\ UNCHANGED <<errorVars, lexerVars>>

\* The rule for words returns what the search has found.
WordFound ==
  /\ outcome \in {"keyword", "unimplemented", "identifier"}
  /\ outcome' = "none"
  /\ CASE outcome = "keyword" -> Return("KEYWORD") /\ UNCHANGED value
       [] outcome = "unimplemented" ->
            ReturnError("LEX_UNIMPLEMENTED_KEYWORD", yylloc) /\ UNCHANGED value
       [] outcome = "identifier" ->
            Return("IDENTIFIER") /\ value' = Bytes(yylloc.begin, yylloc.end)
  /\ UNCHANGED <<sought, list, low, high, yytext, yylloc, text, pos, mode, verdict, output>>

\* The end of the buffer; yytext is the NUL behind it.
ReadEnd ==
  /\ Reading /\ pos = Len(text)
  /\ yytext' = Location(pos, pos + 1)
  /\ IF mode = "INITIAL"
     THEN Return("END") /\ UNCHANGED yylloc
     ELSE /\ yylloc' = [yylloc EXCEPT !.end = pos]
          /\ ReturnError(IF mode = "QUOTED_IDENTIFIER"
                         THEN "LEX_UNEXPECTED_EOI_IN_QUOTED_IDENTIFIER"
                         ELSE "LEX_UNEXPECTED_EOI_IN_SINGLE_QUOTED_STRING", yylloc')
  /\ UNCHANGED <<text, pos, mode, value, verdict, output, searchVars>>

-----------------------------------------------------------------------------
(* The parser                                                                *)

Parsing == failed = "none" /\ verdict = "none" /\ token # "NONE"

\* An output begins with this token or with an earlier one: with any, for which
\* tokens in a row are an output is the grammar's business.
Proceed ==
  /\ Parsing /\ token \notin {"ERR", "END"}
  /\ token' = "NONE"
  /\ \E b \in {output.begin, yylloc.begin} \ {-1} : output' = Location(b, yylloc.end)
  /\ UNCHANGED <<text, pos, mode, value, verdict, errorVars, searchVars>>

Refuse ==
  /\ Parsing
  /\ rsqlp_error
  /\ verdict' = "refused"
  /\ UNCHANGED <<text, pos, mode, value, token, output, yytext, yylloc, searchVars>>

\* output: nonaliased_output.  The token behind it, an error too, has been read to
\* see that it is not AS; the name is the text of the output, and too long.
GiveUpOutput ==
  /\ Parsing
  /\ output.end - output.begin > MaxName
  /\ set_err_state("TOO_LONG_UNALIASED_OUTPUT", output)
  /\ verdict' = "too_long"
  /\ UNCHANGED <<text, pos, mode, value, token, output, yytext, yylloc, searchVars>>

Accept ==
  /\ Parsing /\ token = "END"
  /\ verdict' = "accepted"
  /\ UNCHANGED <<text, pos, mode, value, token, output, errorVars, searchVars>>

LexerNext ==
  Read \/ Search \/ WordFound \/ ReadEnd \/ Proceed \/ Refuse \/ GiveUpOutput \/ Accept

=============================================================================
