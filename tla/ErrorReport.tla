----------------------------- MODULE ErrorReport -----------------------------
(* parse() explains an error by printing the statement, with a row of carets *)
(* under every line the error is in.  The loop goes through the text byte by *)
(* byte, the NUL behind it included; positions count from zero.              *)
EXTENDS Integers, Sequences, FiniteSets

VARIABLES
  text,              \* m_sql, a sequence of bytes
  err,               \* m_err_pos and m_err_len, as offsets
  printed,           \* pos, -1 before the loop
  line_started_at,
  line,              \* the places of the bytes printed since then
  marked             \* the lines with a row of carets below them

NL == 10
CR == 13

\* The buffer ends with a NUL.
Char(p) == IF p < Len(text) THEN text[p + 1] ELSE 0
Stop == err.pos + err.len

ReportInit == printed = -1 /\ line_started_at = 0 /\ line = {} /\ marked = {}

BeginReport == printed = -1 /\ printed' = 0 /\ UNCHANGED <<line_started_at, line, marked>>

IsContinuation(p) == Char(p) \in 128 .. 191

\* The byte leads a sequence of more than n bytes.
Leads(p, n) == Char(p) \in (IF n = 1 THEN 192 ELSE IF n = 2 THEN 224 ELSE 240) .. 247

\* Mutant of has_width: the third byte before is not looked at.
has_width_two(p) ==
  \/ ~IsContinuation(p) \/ p < 1
  \/ /\ ~Leads(p - 1, 1)
     /\ ~IsContinuation(p - 1) \/ p < 2 \/ ~Leads(p - 2, 2)

\* False for a continuation byte that belongs to the beginning of a sequence.
has_width(p) ==
  \/ ~IsContinuation(p) \/ p < 1
  \/ /\ ~Leads(p - 1, 1)
     /\ \/ ~IsContinuation(p - 1) \/ p < 2
        \/ /\ ~Leads(p - 2, 2)
           /\ ~IsContinuation(p - 2) \/ p < 3 \/ ~Leads(p - 3, 3)

\* How many bytes have a width among those from b to e - 1.
Widths(b, e) == Cardinality({p \in b .. e - 1 : has_width(p)})

\* The row of carets below a line that ends before `printed': it begins in the
\* column behind `spaces', and ends with the error or the line.
Spaces == Widths(line_started_at, err.pos)
Carets ==
  LET first == IF err.pos > line_started_at THEN err.pos ELSE line_started_at
      last == IF printed = err.pos THEN printed + 1 ELSE printed
  IN  Widths(first, IF Stop < last THEN Stop ELSE last)

PrintByte ==
  /\ printed \in 0 .. Len(text)
  /\ LET atend == printed = Len(text)
         eol == IF atend THEN Char(printed - 1) # NL ELSE Char(printed) = NL
         shown == IF atend \/ Char(printed) \in {CR, NL} THEN line ELSE line \cup {printed}
     IN  /\ line' = IF eol THEN {} ELSE shown
         /\ line_started_at' = IF eol THEN printed + 1 ELSE line_started_at
         /\ marked' = IF eol /\ err.pos <= printed /\ line_started_at <= Stop
                      THEN marked \cup {[shown |-> shown, eol |-> printed,
                                          spaces |-> Spaces, carets |-> Carets]}
                      ELSE marked
  /\ printed' = printed + 1

Reported == printed = Len(text) + 1

-----------------------------------------------------------------------------
(* Properties                                                                *)

\* How many bytes a sequence should have that begins with this byte.
Wanted(byte) ==
  CASE byte \in 192 .. 223 -> 2 [] byte \in 224 .. 239 -> 3 [] byte \in 240 .. 247 -> 4
    [] OTHER -> 1

\* A byte that takes a column: it continues no sequence begun before it.
Begins(p) ==
  ~ \E k \in 1 .. 3 :
      /\ k <= p /\ Wanted(Char(p - k)) > k
      /\ \A i \in (p - k + 1) .. p : IsContinuation(i)

\* The places above the carets of a line, -1 if there is none; behind a line's bytes
\* comes its end.
Columns(m) == {p \in m.shown : Begins(p)} \cup {m.eol}
Underlined(m) ==
  LET below == m.spaces .. m.spaces + m.carets - 1
  IN  {p \in Columns(m) : Cardinality({q \in Columns(m) : q < p}) \in below}
      \cup {-1 : k \in {c \in below : Cardinality(Columns(m)) <= c}}

\* Three things the loop does not print right: a carriage return takes no column;
\* behind a newline at the very end no row is printed; and an error that begins
\* inside of a character, behind an escaped first byte, has no column of its own.
LineOfError == {p \in 0 .. Stop : \A q \in p .. (err.pos - 1) : Char(q) # NL}
Misprinted ==
  \/ \E p \in LineOfError : Char(p) = CR
  \/ err.pos = Len(text) /\ Char(err.pos - 1) = NL
  \/ ~Begins(err.pos)

\* "A print of the SQL statement with the problematic section underlined": on
\* however many lines the error is, and whatever characters stand before it, the
\* carets are below its characters and below nothing else.
ErrorIsUnderlined ==
  Reported =>
    \/ Misprinted
    \/ LET visible == {p \in err.pos .. (Stop - 1) : Begins(p) /\ Char(p) # NL}
       IN  visible # {} /\ UNION {Underlined(m) : m \in marked} = visible

=============================================================================
