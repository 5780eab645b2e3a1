------------------------- MODULE RestSQLDiagnostics -------------------------
(* Lexer and error report together: what is read is a token with its value,  *)
(* and what is refused is reported with the error underlined.                *)
EXTENDS RestSQLLexer

VARIABLES printed, line_started_at, line, marked

INSTANCE ErrorReport

reportVars == <<printed, line_started_at, line, marked>>
diagVars == <<errorVars, searchVars, lexerVars, reportVars>>

DiagInit == LexerInit /\ ReportInit

LexerStep == LexerNext /\ UNCHANGED reportVars

\* The text is printed unless it is empty, when there is nothing to underline.
\* The asserts of parse() come first.
Report ==
  /\ verdict \in {"refused", "too_long"} /\ failed = "none"
  /\ IF 0 <= err.pos /\ err.pos <= Len(text) /\ Stop <= Len(text) + 1
     THEN /\ err.state = "PARSER_ERROR" => text # <<>>
          /\ BeginReport
          /\ UNCHANGED failed
     ELSE failed' = "parse" /\ UNCHANGED reportVars
  /\ UNCHANGED <<yytext, yylloc, err, searchVars, lexerVars>>

PrintStep == PrintByte /\ UNCHANGED <<errorVars, searchVars, lexerVars>>

DiagNext == LexerStep \/ Report \/ PrintStep
DiagSpec == DiagInit /\ [][DiagNext]_diagVars

-----------------------------------------------------------------------------
(* Properties                                                                *)

\* The code point of the n bytes at p by the scheme of UTF-8, -1 if they have none.
CodePoint(p, n) ==
  LET lead == Byte(p)
      first == CASE n = 1 -> IF lead < 128 THEN lead ELSE -1
                 [] n = 2 -> IF lead \in 192 .. 223 THEN lead - 192 ELSE -1
                 [] n = 3 -> IF lead \in 224 .. 239 THEN lead - 224 ELSE -1
                 [] n = 4 -> IF lead \in 240 .. 247 THEN lead - 240 ELSE -1
      cp[i \in 0 .. (n - 1)] == IF i = 0 THEN first ELSE 64 * cp[i - 1] + Byte(p + i) - 128
  IN  IF first >= 0 /\ \A i \in 1 .. (n - 1) : Byte(p + i) \in 128 .. 191 THEN cp[n - 1] ELSE -1

\* The code points n bytes are for: no shorter sequence has them, they are not
\* surrogates, and there are no more than 17 planes; zero is not allowed.
CodePointsOf(n) ==
  {c \in Nat :
     \/ n = 1 /\ 1 <= c /\ c <= 127
     \/ n = 2 /\ 128 <= c /\ c <= 2047
     \/ n = 3 /\ 2048 <= c /\ c <= 65535 /\ ~(55296 <= c /\ c <= 57343)
     \/ n = 4 /\ 65536 <= c /\ c <= 1114111}

\* The quotes a place of the text is in, NUL outside of quotes.
Quotes == {NUL, Apostrophe, Backtick}
Toggled(q, byte) ==
  IF byte = q THEN NUL
  ELSE IF q = NUL /\ byte \in {Apostrophe, Backtick} THEN byte ELSE q

\* In the quotes q the n bytes at p are a character, or in single quotes a backslash
\* and the byte behind it, whichever that is; behind them the text is in the quotes r.
Unit(p, n, q, r) ==
  IF q = Apostrophe /\ Byte(p) = Backslash
  THEN n = 2 /\ Byte(p + 1) # Newline /\ r = q
  ELSE CodePoint(p, n) \in CodePointsOf(n) /\ r = Toggled(q, Byte(p))

\* The quotes the text is in at p when it is read from the front, a set of one; an
\* empty one if it cannot be read up to p.
QuotesAt(p) ==
  LET at[e \in 0 .. Len(text)] ==
        IF e = 0 THEN {NUL}
        ELSE {r \in Quotes : \E n \in 1 .. 4 : n <= e /\ \E q \in at[e - n] : Unit(e - n, n, q, r)}
  IN  at[p]

\* No character begins at p.
NoCharacter(p) ==
  \A n \in 1 .. 4 : p + n <= Len(text) => CodePoint(p, n) \notin CodePointsOf(n)

\* "RonDB REST SQL supports and requires UTF-8 encoding.  NUL characters are not
\* allowed anywhere" (spec.md).  The rules for names, strings and errors, ranges of
\* bytes in three start conditions, agree with reading the text from the front by the
\* arithmetic of code points: it is accepted only if it can be read to its end, all
\* quotes closed; and an encoding error is where reading stops, at a byte behind what
\* could be read, where no character begins.  One thing is read otherwise than
\* spec.md says: in single quotes a backslash takes one byte.  So a NUL or half a
\* character is accepted there, and a character of several bytes is refused there.
DecodesUTF8 ==
  /\ verdict = "accepted" => NUL \in QuotesAt(Len(text))
  /\ err.state \in EncodingErrors =>
       err.pos < Len(text) /\ QuotesAt(err.pos) # {} /\ NoCharacter(err.pos)

\* What \0, \b, \t, \n, \r and \Z stand for in MySQL, and the two escapes it leaves
\* to LIKE; any other character stands for itself.
MySQLEscape(c) ==
  LET control == {<<48, 0>>, <<98, 8>>, <<116, 9>>, <<110, 10>>, <<114, 13>>, <<90, 26>>}
  IN  IF c \in {37, 95} THEN <<Backslash, c>>
      ELSE <<CHOOSE d \in 0 .. 255 : IF \E e \in control : e[1] = c THEN <<c, d>> \in control
                                                                  ELSE d = c>>

\* The value MySQL gives to what stands in quotes from b to e: a quote is doubled
\* or escaped, a string ends only to begin again behind white space.
Quoted(b, e) ==
  LET quote == Byte(b)
      Gap(p) == {q \in p + 2 .. e - 1 : Byte(q) = quote /\ \A r \in p + 1 .. q - 1 : Byte(r) \in Space}
      v[p \in b + 1 .. e] ==
        IF p >= e - 1 THEN <<>>
        ELSE CASE Byte(p) = Backslash /\ quote = Apostrophe -> MySQLEscape(Byte(p + 1)) \o v[p + 2]
               [] Byte(p) = quote /\ Byte(p + 1) = quote -> <<quote>> \o v[p + 2]
               [] Byte(p) = quote /\ Gap(p) # {} -> v[1 + CHOOSE q \in Gap(p) : TRUE]
               [] OTHER -> <<Byte(p)>> \o v[p + 1]
  IN  v[b + 1]

\* A token is what its place in the text says: a quoted one decoded as MySQL does,
\* a word or number as it stands there, if it is no larger than an int.
TokenIsItsText ==
  token \in {"STRING", "IDENTIFIER", "INT"} =>
    LET b == yylloc.begin
        e == yylloc.end
        decimal[n \in 0 .. e - b] ==
          IF n = 0 THEN 0 ELSE 10 * decimal[n - 1] + Byte(b + n - 1) - 48
    IN  /\ e = pos
        /\ CASE token = "INT" -> decimal[e - b] <= IntMax => value = <<decimal[e - b]>>
             [] Byte(b) \in {Apostrophe, Backtick} -> value = Quoted(b, e)
             [] OTHER -> value = Bytes(b, e)

\* "Unquoted identifiers may not coincide with a MySQL keyword": no way through the
\* rules makes a name of one, except that words too long for the rule, and words
\* with digits, are not looked up at all.
KeywordsAreNoNames ==
  token = "IDENTIFIER" /\ Byte(yylloc.begin) # Backtick =>
    LET word == Upper(Bytes(yylloc.begin, yylloc.end))
    IN  \/ Len(word) > MaxKeyword
        \/ \E i \in DOMAIN word : word[i] \in Digit
        \/ \A i \in Words(Defined) \cup Words(Implemented) : Dictionary[i] # word

\* However lexer and parser take turns, rsqlp_error finds the place of the error,
\* the error recorded first is the left-most one, and it lies within the text; only
\* an output found too long when the lexer has refused the token behind it is an
\* error to the left of the one recorded, and fails the assert of set_err_state.
ReportsWithoutAssert ==
  failed # "none" => failed = "set_err_state" /\ verdict = "too_long" /\ token = "ERR"

=============================================================================
