------------------------ MODULE MCRestSQLDiagnostics ------------------------
(* Model checking of the lexer: texts of a few bytes that matter to each of  *)
(* its parts, an order of words in which the tables leave gaps.              *)
EXTENDS RestSQLDiagnostics

LOCAL INSTANCE SequencesExt

UpTo(S, n) == UNION {[1 .. k -> S] : k \in 0 .. n}
Behind(prefixes, S, n) == {p \o t : p \in prefixes, t \in UpTo(S, n)}

\* Characters of every length, one byte too few, too many or out of range.
UTF8Bytes == {0, 65, 128, 144, 160, 193, 194, 224, 237, 240, 244, 245, 248}
EncodingTexts ==
  Behind({<<>>}, UTF8Bytes, 3)
  \cup [1 .. 4 -> {65, 128, 144, 160, 194, 237, 240, 244}]
  \cup Behind({<<Backtick>>}, {65, Backtick, 128, 160, 194, 224, 240}, 4)
  \cup Behind({<<Apostrophe>>}, {Apostrophe, 65, 128, 160, 237, 240, 244}, 5)
  \cup Behind({<<>>, <<Apostrophe>>}, {0, Apostrophe, Backslash, Backtick, 128, 194}, 4)

\* Quotes, escapes, spaces and newlines.
QuotedTexts ==
  Behind({<<Apostrophe>>}, {Apostrophe, Backslash, 32, 98, 37}, 5)
  \cup Behind({<<Apostrophe>>}, {Apostrophe, Backslash, 10, 48}, 5)
  \cup Behind({<<Backtick>>}, {Backtick, Backslash, 10, 65}, 4)

\* Outputs of several tokens, and what may be behind them.
OutputTexts == UpTo({65, 66, 10, 40, 46}, 5)

\* Words, names and numbers, and operators of two characters.
WordTexts == UpTo({65, 97, 66, 95}, 3) \cup [1 .. 4 -> {65, 66}] \cup UpTo({65, 66, 49, 46}, 4)
OperatorTexts == UpTo({33, 38, 60, 61, 62, 124, 126}, 2)

\* Errors on several lines, with characters of several bytes before them.
LinesTexts ==
  {FlattenSeq(t) : t \in UpTo({<<10>>, <<65>>, <<194, 160>>, <<58>>, <<Backtick>>, <<CR>>}, 5)}

MCTexts == EncodingTexts \cup QuotedTexts \cup WordTexts \cup OperatorTexts \cup OutputTexts \cup LinesTexts

\* All words of the texts, in order.
MCDictionary ==
  <<<<65>>, <<65, 65>>, <<65, 66>>, <<65, 95>>, <<66>>, <<66, 65>>, <<66, 66>>, <<66, 95>>,
    <<95>>, <<95, 65>>, <<95, 66>>, <<95, 95>>>>
MCImplemented == <<3, 6, 9>>
MCDefined == <<1, 3, 4, 6, 7, 9, 12>>

=============================================================================
