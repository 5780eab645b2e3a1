---------------------- MODULE RestSQLDiagnostics_proofs ----------------------
(* Proofs about the diagnostics, for every text and for tables of every      *)
(* length: the keyword search, the widths of the report, and the lexer with  *)
(* its report: its asserts hold, its names are no keywords, what it accepts  *)
(* is UTF-8, and its tokens have the values their text says.                 *)
EXTENDS RestSQLDiagnostics, RecursionTheorems, SequenceTheorems

-----------------------------------------------------------------------------
(* The keyword search                                                        *)

Outcomes == {"none", "searching", "keyword", "unimplemented", "identifier"}

\* What is left of the table lies within it.
WithinTable ==
  /\ sought \in Nat /\ list \in {"implemented", "defined"} /\ outcome \in Outcomes
  /\ low \in Int /\ high \in Int
  /\ outcome = "searching" => 0 <= low /\ low <= high + 1 /\ high < Len(Table)

\* If the word is in the table, then in what is left of it.
NothingMissed ==
  outcome = "searching" =>
    \A i \in DOMAIN Table : Table[i] = sought => low < i /\ i <= high + 1

\* The second table is searched for words that are not in the first.
FirstTableDone ==
  outcome \in {"searching", "unimplemented", "identifier"} /\ list = "defined" =>
    sought \notin Words(Implemented)

SearchInv == WithinTable /\ NothingMissed /\ FirstTableDone /\ SearchIsExact

\* The tables as the steps read them: words in increasing order.
LEMMA TableOrder ==
  /\ Table \in Seq(Nat)
  /\ \A i, j \in DOMAIN Table : i < j => Table[i] < Table[j]
  /\ DOMAIN Table = 1 .. Len(Table) /\ Len(Table) \in Nat
  BY KeywordTables DEF Table, Sorted

\* The middle is in what is left, and closer to both ends than these are.
LEMMA MiddleIsLeft ==
  ASSUME WithinTable, Searching
  PROVE  /\ mid \in Int /\ low <= mid /\ mid <= high
         /\ mid + 1 \in DOMAIN Table /\ Middle \in Nat
<1>1. mid \in Int /\ low <= mid /\ mid <= high
  BY DEF WithinTable, Searching, mid
<1>2. mid + 1 \in DOMAIN Table
  BY <1>1, TableOrder DEF WithinTable, Searching
<1> QED BY <1>1, <1>2, TableOrder DEF Middle

LEMMA InitSearches == SearchInit => SearchInv
  BY DEF SearchInit, SearchInv, WithinTable, NothingMissed, FirstTableDone, SearchIsExact, Outcomes

\* Words before the middle are smaller, those behind it are larger.
LEMMA LeftKeeps == SearchInv /\ LookLeft => SearchInv'
<1> SUFFICES ASSUME SearchInv, LookLeft PROVE SearchInv' OBVIOUS
<1> USE DEF SearchInv
<1>0. Searching BY DEF LookLeft
<1>1. UNCHANGED <<sought, list, low, outcome>> /\ high' = mid - 1 /\ Table' = Table
  BY DEF LookLeft, Table
<1>2. WithinTable' BY <1>0, <1>1, MiddleIsLeft DEF WithinTable, Searching
<1>3. NothingMissed'
  <2> SUFFICES ASSUME NEW i \in DOMAIN Table, Table[i] = sought PROVE low < i /\ i <= high' + 1
    BY <1>1 DEF NothingMissed
  <2>1. low < i /\ i \in Int BY <1>0, TableOrder DEF NothingMissed, Searching
  <2>2. ~(mid + 1 < i) /\ i # mid + 1
    BY <1>0, <2>1, MiddleIsLeft, TableOrder DEF LookLeft, Middle, WithinTable
  <2> QED BY <1>0, <1>1, <2>1, <2>2, MiddleIsLeft
<1>4. (FirstTableDone /\ SearchIsExact)' BY <1>1 DEF FirstTableDone, SearchIsExact, Words
<1> QED BY <1>2, <1>3, <1>4

LEMMA RightKeeps == SearchInv /\ LookRight => SearchInv'
<1> SUFFICES ASSUME SearchInv, LookRight PROVE SearchInv' OBVIOUS
<1> USE DEF SearchInv
<1>0. Searching BY DEF LookRight
<1>1. UNCHANGED <<sought, list, high, outcome>> /\ low' = mid + 1 /\ Table' = Table
  BY DEF LookRight, Table
<1>2. WithinTable' BY <1>0, <1>1, MiddleIsLeft DEF WithinTable, Searching
<1>3. NothingMissed'
  <2> SUFFICES ASSUME NEW i \in DOMAIN Table, Table[i] = sought PROVE low' < i /\ i <= high + 1
    BY <1>1 DEF NothingMissed
  <2>1. i <= high + 1 /\ i \in Int BY <1>0, TableOrder DEF NothingMissed, Searching
  <2>2. ~(i < mid + 1) /\ i # mid + 1
    BY <1>0, <2>1, MiddleIsLeft, TableOrder DEF LookRight, Middle, WithinTable
  <2> QED BY <1>0, <1>1, <2>1, <2>2, MiddleIsLeft
<1>4. (FirstTableDone /\ SearchIsExact)' BY <1>1 DEF FirstTableDone, SearchIsExact, Words
<1> QED BY <1>2, <1>3, <1>4

LEMMA FoundKeeps == SearchInv /\ Found => SearchInv'
<1> SUFFICES ASSUME SearchInv, Found PROVE SearchInv' OBVIOUS
<1> USE DEF SearchInv
<1>0. Searching /\ UNCHANGED <<sought, list, low, high>> BY DEF Found
<1>1. sought \in Words(Table)
  BY <1>0, MiddleIsLeft DEF Found, Words, Middle
<1>2. outcome' = IF list = "implemented" THEN "keyword" ELSE "unimplemented" BY DEF Found
<1>3. WithinTable' BY <1>0, <1>2 DEF WithinTable, Outcomes
<1>4. NothingMissed' BY <1>2 DEF NothingMissed
<1>5. FirstTableDone' /\ SearchIsExact'
  BY <1>0, <1>1, <1>2 DEF FirstTableDone, SearchIsExact, Table, Words, Searching, WithinTable
<1> QED BY <1>3, <1>4, <1>5

\* Nothing is left of a table: the word is not in it.
LEMMA NotInTable ==
  ASSUME SearchInv, outcome = "searching", low > high
  PROVE  sought \notin Words(Table)
  BY TableOrder DEF SearchInv, WithinTable, NothingMissed, Words

LEMMA NextTableKeeps == SearchInv /\ NextTable => SearchInv'
<1> SUFFICES ASSUME SearchInv, NextTable PROVE SearchInv' OBVIOUS
<1> USE DEF SearchInv
<1>1. sought \notin Words(Implemented) BY NotInTable DEF NextTable, Table
<1>2. Table' = Defined BY DEF NextTable, Table
<1>3. Defined \in Seq(Nat) /\ Len(Defined) \in Nat /\ DOMAIN Defined = 1 .. Len(Defined)
  BY KeywordTables
<1>4. WithinTable' BY <1>2, <1>3 DEF WithinTable, NextTable, Outcomes
<1>5. NothingMissed' BY <1>2, <1>3 DEF NothingMissed, NextTable
<1>6. (FirstTableDone /\ SearchIsExact)'
  BY <1>1 DEF FirstTableDone, SearchIsExact, NextTable, Words
<1> QED BY <1>4, <1>5, <1>6

LEMMA NotFoundKeeps == SearchInv /\ NotFound => SearchInv'
<1> SUFFICES ASSUME SearchInv, NotFound PROVE SearchInv' OBVIOUS
<1> USE DEF SearchInv
<1>1. sought \notin Words(Defined) BY NotInTable DEF NotFound, Table
<1>2. sought \notin Words(Implemented) BY DEF FirstTableDone, NotFound
<1>3. WithinTable' BY DEF WithinTable, NotFound, Outcomes
<1>4. NothingMissed' BY DEF NothingMissed, NotFound
<1>5. (FirstTableDone /\ SearchIsExact)'
  BY <1>1, <1>2 DEF FirstTableDone, SearchIsExact, NotFound, Words
<1> QED BY <1>3, <1>4, <1>5

LEMMA BeginKeeps == ASSUME NEW word \in Nat, SearchInv, Begin(word) PROVE SearchInv'
<1>1. Table' = Implemented BY DEF Begin, Table
<1>2. Len(Implemented) \in Nat /\ DOMAIN Implemented = 1 .. Len(Implemented) BY KeywordTables
<1>3. WithinTable' BY <1>1, <1>2 DEF WithinTable, Begin, Outcomes
<1>4. NothingMissed' BY <1>1, <1>2 DEF NothingMissed, Begin
<1>5. (FirstTableDone /\ SearchIsExact)' BY DEF FirstTableDone, SearchIsExact, Begin, Words
<1> QED BY <1>3, <1>4, <1>5 DEF SearchInv

\* For any two sorted tables and any words looked up in them one after the other,
\* the search says what the word is: the property of the lexer on which it rests
\* that no keyword becomes a name.
THEOREM SearchAlwaysExact == SearchSpec => []SearchIsExact
<1>1. SearchInit => SearchInv BY InitSearches
<1>2. SearchInv /\ [SearchNext]_searchVars => SearchInv'
  <2> SUFFICES ASSUME SearchInv, [SearchNext]_searchVars PROVE SearchInv' OBVIOUS
  <2>1. CASE SearchStep
    BY <2>1, LeftKeeps, RightKeeps, FoundKeeps, NextTableKeeps, NotFoundKeeps DEF SearchStep
  <2>2. CASE \E word \in Nat : outcome # "searching" /\ Begin(word)
    BY <2>2, BeginKeeps
  <2>3. CASE UNCHANGED searchVars
    BY <2>3 DEF SearchInv, WithinTable, NothingMissed, FirstTableDone, SearchIsExact,
                searchVars, Table, Words
  <2> QED BY <2>1, <2>2, <2>3 DEF SearchNext
<1>3. SearchInv => SearchIsExact BY DEF SearchInv
<1> QED BY <1>1, <1>2, <1>3, PTL DEF SearchSpec

-----------------------------------------------------------------------------
(* The report of an error                                                    *)

\* A byte leads a sequence of more than k bytes if that is what it asks for.
LEMMA LeadsWants ==
  ASSUME NEW p \in Int, NEW k \in 1 .. 3
  PROVE  Leads(p, k) <=> Wanted(Char(p)) > k
  BY DEF Leads, Wanted

LEMMA ContinuationWantsNone ==
  ASSUME NEW p \in Int, IsContinuation(p)
  PROVE  Wanted(Char(p)) = 1
  BY DEF IsContinuation, Wanted

\* The comment before has_width, for every text and every place in it: has_width is
\* true unless one of the three bytes before begins a sequence that the bytes up to
\* this one continue.  The function looks back one byte at a time and stops at the
\* first that decides; that no byte further back could have decided otherwise is
\* what has to be shown.
THEOREM WidthIsExact ==
  ASSUME NEW p \in Nat
  PROVE  has_width(p) <=> Begins(p)
<1> DEFINE Continues(k) ==
      /\ k <= p /\ Wanted(Char(p - k)) > k
      /\ \A i \in (p - k + 1) .. p : IsContinuation(i)
<1>0. Begins(p) <=> ~Continues(1) /\ ~Continues(2) /\ ~Continues(3)
  BY DEF Begins
<1>1. Continues(1) <=> p >= 1 /\ Leads(p - 1, 1) /\ IsContinuation(p)
  <2>1. (p - 1 + 1) .. p = {p} OBVIOUS
  <2> QED BY <2>1, LeadsWants
<1>2. Continues(2) <=>
        p >= 2 /\ Leads(p - 2, 2) /\ IsContinuation(p) /\ IsContinuation(p - 1)
  <2>1. (p - 2 + 1) .. p = {p, p - 1} OBVIOUS
  <2> QED BY <2>1, LeadsWants
<1>3. Continues(3) <=>
        /\ p >= 3 /\ Leads(p - 3, 3)
        /\ IsContinuation(p) /\ IsContinuation(p - 1) /\ IsContinuation(p - 2)
  <2>1. (p - 3 + 1) .. p = {p, p - 1, p - 2} OBVIOUS
  <2> QED BY <2>1, LeadsWants
<1>4. ASSUME NEW q \in Int, IsContinuation(q), NEW k \in 1 .. 3 PROVE ~Leads(q, k)
  BY <1>4, LeadsWants, ContinuationWantsNone
<1>5. p >= 1 /\ Leads(p - 1, 1) => ~IsContinuation(p - 1)
  BY <1>4
<1>6. p >= 2 /\ Leads(p - 2, 2) => ~IsContinuation(p - 2)
  BY <1>4
<1> HIDE DEF Continues
<1> QED BY <1>0, <1>1, <1>2, <1>3, <1>5, <1>6 DEF has_width

-----------------------------------------------------------------------------
(* What patterns match                                                       *)

\* A pattern has up to four bytes.
Short(patterns) == \A r \in patterns : Len(r) \in 1 .. 4

\* The longest match is of one of the patterns, and no other match is longer.
LEMMA LongestIs ==
  ASSUME NEW patterns, Short(patterns), NEW p
  PROVE  /\ Longest(patterns, p) \in 0 .. 4
         /\ Longest(patterns, p) > 0 =>
              \E r \in patterns : Matches(r, p) /\ Len(r) = Longest(patterns, p)
         /\ \A r \in patterns : Matches(r, p) => Len(r) <= Longest(patterns, p)
<1> DEFINE S == {0} \cup {Len(q) : q \in {r \in patterns : Matches(r, p)}}
<1>1. S \subseteq 0 .. 4 /\ 0 \in S
  <2>1. \A q \in patterns : Len(q) \in 0 .. 4
    BY DEF Short
  <2> SUFFICES ASSUME NEW x \in S PROVE x \in 0 .. 4
    OBVIOUS
  <2>2. CASE x = 0
    BY <2>2
  <2>3. CASE x # 0
    <3>1. \E q \in patterns : x = Len(q)
      BY <2>3
    <3> QED BY <2>1, <3>1
  <2> QED BY <2>2, <2>3
<1>2. PICK k \in S : \A j \in S : j <= k
  <2> HIDE DEF S
  <2> QED BY <1>1, GreatestNat
<1>3. Max(S) \in S /\ \A j \in S : j <= Max(S)
  <2> HIDE DEF S
  <2>1. \A j \in S : k >= j
    BY <1>1, <1>2
  <2>2. Max(S) \in S /\ \A j \in S : Max(S) >= j
    BY <2>1 DEF Max
  <2> QED BY <1>1, <2>2
<1>4. Longest(patterns, p) = Max(S)
  BY DEF Longest
<1>5. \A r \in patterns : Matches(r, p) => Len(r) \in S
  OBVIOUS
<1>6. \A k0 \in S : k0 > 0 => \E r \in patterns : Matches(r, p) /\ Len(r) = k0
  OBVIOUS
<1> HIDE DEF S
<1> QED
  BY <1>1, <1>3, <1>4, <1>5, <1>6

\* A pattern of one byte.
LEMMA OneByte ==
  ASSUME NEW D, NEW p \in Nat
  PROVE  Matches(<<D>>, p) <=> p + 1 <= Len(text) /\ Byte(p) \in D
  BY DEF Matches, Byte

LEMMA LongestByte ==
  ASSUME NEW D, NEW p \in Nat
  PROVE  /\ Longest({<<D>>}, p) \in {0, 1}
         /\ Longest({<<D>>}, p) = 1 <=> p + 1 <= Len(text) /\ Byte(p) \in D
<1> DEFINE patterns == {<<D>>}
<1>1. Short(patterns) /\ Len(<<D>>) = 1 /\ <<D>> \in patterns /\ \A r \in patterns : r = <<D>>
  BY DEF Short
<1>2. /\ Longest(patterns, p) > 0 => Matches(<<D>>, p) /\ 1 = Longest(patterns, p)
      /\ Matches(<<D>>, p) => 1 <= Longest(patterns, p)
      /\ Longest(patterns, p) \in 0 .. 4
  <2> HIDE DEF patterns
  <2> QED BY <1>1, LongestIs
<1> QED
  BY <1>2, OneByte

\* A match is in the text.
LEMMA LongestInText ==
  ASSUME NEW patterns, Short(patterns), NEW p \in Nat, p <= Len(text), text \in Seq(0 .. 255)
  PROVE  Longest(patterns, p) \in Nat /\ p + Longest(patterns, p) <= Len(text)
<1>1. CASE Longest(patterns, p) > 0
  <2>1. PICK r \in patterns : Matches(r, p) /\ Len(r) = Longest(patterns, p)
    BY <1>1, LongestIs
  <2> QED BY <2>1, LongestIs DEF Matches
<1>2. CASE ~(Longest(patterns, p) > 0)
  <2>1. Longest(patterns, p) = 0
    BY <1>2, LongestIs
  <2> QED BY <2>1
<1> QED
  BY <1>1, <1>2

\* The length of a repetition, from every place.
Run(patterns, p, run) ==
  run = [q \in p .. Len(text) |->
           LET n == Longest(patterns, q) IN IF n = 0 THEN 0 ELSE n + run[q + n]]

LEMMA RunIsLength ==
  ASSUME NEW patterns, Short(patterns), NEW p \in Nat, p <= Len(text), text \in Seq(0 .. 255),
         NEW run, Run(patterns, p, run)
  PROVE  run \in [p .. Len(text) -> Nat]
<1> DEFINE I == p .. Len(text)
           L(q) == Longest(patterns, q)
           Bad == {m \in Nat : \E q \in I : m = Len(text) - q /\ run[q] \notin Nat}
<1>1. \A q \in I : L(q) \in Nat /\ q + L(q) <= Len(text) /\ q \in Nat
  BY LongestInText
<1>2. \A q \in I : /\ L(q) = 0 => run[q] = 0
                   /\ L(q) # 0 => run[q] = L(q) + run[q + L(q)]
  BY DEF Run
<1>9. run = [q \in I |-> run[q]]
  BY DEF Run
<1> HIDE DEF L
<1>3. SUFFICES ASSUME Bad # {} PROVE FALSE
  <2>1. \A q \in I : run[q] \in Nat
    <3>1. \A q \in I : Len(text) - q \in Nat
      OBVIOUS
    <3> QED BY <1>3, <3>1
  <2> QED BY <1>9, <2>1
<1>4. PICK m \in Bad : \A j \in Bad : m <= j
  <2>1. Bad \subseteq Nat
    OBVIOUS
  <2> HIDE DEF Bad
  <2> QED BY <1>3, <2>1, LeastNat
<1>5. PICK q \in I : m = Len(text) - q /\ run[q] \notin Nat
  BY <1>4
<1>6. L(q) # 0
  BY <1>2, <1>5
<1>7. PICK l : l = L(q)
  OBVIOUS
<1>8. l \in Nat \ {0} /\ q + l <= Len(text) /\ q \in Nat /\ run[q] = l + run[q + l]
  BY <1>1, <1>2, <1>5, <1>6, <1>7
<1>10. q + l \in I /\ Len(text) - (q + l) \in Nat /\ Len(text) - (q + l) < m
  BY <1>5, <1>8
<1>11. run[q + l] \in Nat
  <2>1. Len(text) - (q + l) \notin Bad
    <3>1. m \in Nat /\ \A j \in Bad : m <= j
      BY <1>4
    <3> HIDE DEF Bad
    <3> QED BY <1>10, <3>1
  <2> HIDE DEF I
  <2> QED BY <1>10, <2>1
<1> QED
  BY <1>5, <1>8, <1>11

LEMMA RunExists ==
  ASSUME NEW patterns, Short(patterns), NEW p \in Nat, p <= Len(text), text \in Seq(0 .. 255)
  PROVE  \E run \in [p .. Len(text) -> Nat] :
           Run(patterns, p, run) /\ Repeated(patterns, p) = run[p]
<1> DEFINE I == p .. Len(text)
           n == Len(text)
           L(q) == Longest(patterns, q)
           rank == [q \in I |-> Len(text) - q]
           D == [q \in I |-> [f \in [I -> Nat] |-> IF L(q) = 0 THEN 0 ELSE L(q) + f[q + L(q)]]]
<1>1. \A q \in I : L(q) \in Nat /\ (L(q) # 0 => q + L(q) \in I /\ rank[q + L(q)] < rank[q])
  <2> SUFFICES ASSUME NEW q \in I
               PROVE  L(q) \in Nat /\ (L(q) # 0 => q + L(q) \in I /\ rank[q + L(q)] < rank[q])
    OBVIOUS
  <2>1. L(q) \in Nat /\ q + L(q) <= Len(text)
    BY LongestInText
  <2> HIDE DEF L
  <2> QED BY <2>1
<1> HIDE DEF L
<1>2. Recursion(I, Nat, n, rank, D)
  <2>1. rank \in [I -> 0 .. n]
    OBVIOUS
  <2>2. \A q \in I : \A f \in [I -> Nat] : (IF L(q) = 0 THEN 0 ELSE L(q) + f[q + L(q)]) \in Nat
    <3> SUFFICES ASSUME NEW q \in I, NEW f \in [I -> Nat], L(q) # 0
                 PROVE  L(q) + f[q + L(q)] \in Nat
      OBVIOUS
    <3>1. L(q) \in Nat /\ q + L(q) \in I
      BY <1>1
    <3>2. f[q + L(q)] \in Nat
      <4> HIDE DEF I
      <4> QED BY <3>1
    <3> QED BY <3>1, <3>2
  <2>3. \A q \in I : \A g, h \in [I -> Nat] :
          (\A j \in I : rank[j] < rank[q] => g[j] = h[j]) => D[q][g] = D[q][h]
    <3> HIDE DEF rank
    <3> QED BY <1>1
  <2>4. D \in [I -> [[I -> Nat] -> Nat]]
    BY <2>2
  <2>5. Nat # {} /\ n \in Nat
    OBVIOUS
  <2> HIDE DEF D, rank, I, n
  <2> QED BY <2>1, <2>3, <2>4, <2>5 DEF Recursion
<1>3. PICK f \in [I -> Nat] : \A q \in I : f[q] = D[q][f]
  <2> HIDE DEF D, rank, I, n
  <2> QED BY <1>2, RecursiveFunctionExists
<1>4. f = [q \in I |-> IF L(q) = 0 THEN 0 ELSE L(q) + f[q + L(q)]]
  <2>1. \A q \in I : f[q] = IF L(q) = 0 THEN 0 ELSE L(q) + f[q + L(q)]
    BY <1>3
  <2> HIDE DEF D
  <2> QED BY <2>1
<1>5. Run(patterns, p, f)
  BY <1>4 DEF Run, L
<1> DEFINE c == CHOOSE run : Run(patterns, p, run)
<1>6. Run(patterns, p, c)
  BY <1>5
<1>7. Repeated(patterns, p) = c[p]
  BY Zenon DEF Repeated, Run
<1>8. c \in [I -> Nat]
  BY <1>6, RunIsLength
<1> QED
  BY <1>6, <1>7, <1>8

\* A repetition ends at one of the places that are reached match by match.
LEMMA RunReaches ==
  ASSUME NEW patterns, Short(patterns), NEW p \in Nat, p <= Len(text), text \in Seq(0 .. 255),
         NEW run, Run(patterns, p, run), run \in [p .. Len(text) -> Nat],
         NEW S, p \in S,
         \A q \in p .. Len(text) :
           q \in S /\ Longest(patterns, q) > 0 => q + Longest(patterns, q) \in S
  PROVE  p + run[p] \in S /\ p + run[p] <= Len(text)
<1> DEFINE I == p .. Len(text)
           G == {q \in I : q \in S}
           Bad == {m \in Nat : \E q \in G : m = Len(text) - q /\ q + run[q] \notin G}
<1>1. p \in G /\ \A q \in G : q \in I /\ q \in S
  OBVIOUS
<1>2. \A q \in I : q \in Nat /\ q <= Len(text) /\ Len(text) - q \in Nat
  OBVIOUS
<1>3. SUFFICES ASSUME Bad # {} PROVE FALSE
  <2>1. p + run[p] \in G
    <3>1. Len(text) - p \in Nat
      OBVIOUS
    <3> HIDE DEF G
    <3> QED BY <1>1, <1>3, <3>1
  <2> QED BY <2>1
<1>4. PICK m \in Bad : \A j \in Bad : m <= j
  <2>1. Bad \subseteq Nat
    OBVIOUS
  <2> HIDE DEF Bad
  <2> QED BY <1>3, <2>1, LeastNat
<1>5. PICK q \in G : m = Len(text) - q /\ q + run[q] \notin G
  BY <1>4
<1>6. PICK l : l = Longest(patterns, q)
  OBVIOUS
<1>7. l \in Nat /\ q + l <= Len(text) /\ q \in Nat /\ q \in I /\ q \in S
  BY <1>1, <1>2, <1>6, LongestInText
<1>8. run[q] = IF l = 0 THEN 0 ELSE l + run[q + l]
  BY <1>6, <1>7 DEF Run
<1>9. l # 0
  BY <1>5, <1>7, <1>8
<1>10. q + l \in G /\ Len(text) - (q + l) \in Nat /\ Len(text) - (q + l) < m
  BY <1>5, <1>6, <1>7, <1>9
<1>11. (q + l) + run[q + l] \in G
  <2>1. Len(text) - (q + l) \notin Bad
    <3>1. m \in Nat /\ \A j \in Bad : m <= j
      BY <1>4
    <3> HIDE DEF Bad
    <3> QED BY <1>10, <3>1
  <2> HIDE DEF G
  <2> QED BY <1>10, <2>1
<1>12. run[q + l] \in Nat
  BY <1>10
<1>13. q + run[q] = (q + l) + run[q + l]
  BY <1>7, <1>8, <1>9, <1>12
<1> QED
  BY <1>5, <1>11, <1>13

LEMMA RepeatedReaches ==
  ASSUME NEW patterns, Short(patterns), NEW p \in Nat, p <= Len(text), text \in Seq(0 .. 255),
         NEW S, p \in S,
         \A q \in p .. Len(text) :
           q \in S /\ Longest(patterns, q) > 0 => q + Longest(patterns, q) \in S
  PROVE  p + Repeated(patterns, p) \in S
<1>1. PICK run \in [p .. Len(text) -> Nat] : Run(patterns, p, run) /\ Repeated(patterns, p) = run[p]
  BY RunExists
<1> QED
  BY <1>1, RunReaches

\* A repetition is as long as it can be.
LEMMA RepeatedIs ==
  ASSUME NEW patterns, Short(patterns), NEW p \in Nat, p <= Len(text), text \in Seq(0 .. 255)
  PROVE  /\ Repeated(patterns, p) \in Nat /\ p + Repeated(patterns, p) <= Len(text)
         /\ Longest(patterns, p + Repeated(patterns, p)) = 0
         /\ Longest(patterns, p) <= Repeated(patterns, p)
<1>1. PICK run \in [p .. Len(text) -> Nat] : Run(patterns, p, run) /\ Repeated(patterns, p) = run[p]
  BY RunExists
<1> DEFINE I == p .. Len(text)
           S == {q \in I : q + run[q] = p + run[p]}
<1>2. p \in I /\ run[p] \in Nat
  BY <1>1
<1>3. \A q \in I : q \in S /\ Longest(patterns, q) > 0 => q + Longest(patterns, q) \in S
  <2> SUFFICES ASSUME NEW q \in S, Longest(patterns, q) > 0 PROVE q + Longest(patterns, q) \in S
    OBVIOUS
  <2>1. PICK l : l = Longest(patterns, q)
    OBVIOUS
  <2>2. l \in Nat \ {0} /\ q + l <= Len(text) /\ q \in Nat /\ q \in I
    BY <2>1, LongestInText
  <2>3. run[q] = l + run[q + l] /\ q + l \in I
    BY <1>1, <2>1, <2>2 DEF Run
  <2>4. run[q + l] \in Nat
    BY <1>1, <2>3
  <2>5. q + run[q] = (q + l) + run[q + l]
    BY <2>2, <2>3, <2>4
  <2>6. q + run[q] = p + run[p]
    OBVIOUS
  <2> QED BY <2>1, <2>3, <2>5, <2>6
<1>4. p + run[p] \in S /\ p + run[p] <= Len(text)
  <2>1. p \in S
    BY <1>2
  <2> HIDE DEF S
  <2> QED BY <1>1, <1>3, <2>1, RunReaches
<1>5. PICK r : r = p + run[p]
  OBVIOUS
<1>6. r \in I /\ run[r] = 0
  <2>1. r \in I /\ r + run[r] = r
    BY <1>4, <1>5
  <2>2. run[r] \in Nat
    BY <1>1, <2>1
  <2> QED BY <2>1, <2>2
<1>7. Longest(patterns, r) = 0
  <2>1. PICK l : l = Longest(patterns, r)
    OBVIOUS
  <2>2. l \in Nat /\ r + l <= Len(text) /\ r \in Nat
    BY <1>6, <2>1, LongestInText
  <2>3. l # 0 => run[r] = l + run[r + l] /\ r + l \in I
    BY <1>1, <1>6, <2>1, <2>2 DEF Run
  <2>4. r + l \in I => run[r + l] \in Nat
    BY <1>1
  <2> QED BY <1>6, <2>1, <2>2, <2>3, <2>4
<1>8. Longest(patterns, p) <= run[p]
  <2>1. PICK l : l = Longest(patterns, p)
    OBVIOUS
  <2>2. l \in Nat /\ p + l <= Len(text)
    BY <2>1, LongestInText
  <2>3. l # 0 => run[p] = l + run[p + l] /\ p + l \in I
    BY <1>1, <1>2, <2>1, <2>2 DEF Run
  <2>4. p + l \in I => run[p + l] \in Nat
    BY <1>1
  <2> QED BY <1>2, <2>1, <2>2, <2>3, <2>4
<1> QED
  BY <1>1, <1>2, <1>4, <1>5, <1>7, <1>8

\* At p there are n bytes of D, and no more.
Bytewise(D, p, n) ==
  /\ n \in Nat /\ p + n <= Len(text)
  /\ \A i \in p .. (p + n - 1) : Byte(i) \in D
  /\ p + n < Len(text) => Byte(p + n) \notin D

\* The bytes of a repetition of single bytes.
LEMMA RepeatedBytes ==
  ASSUME NEW D, NEW p \in Nat, p <= Len(text), text \in Seq(0 .. 255)
  PROVE  Bytewise(D, p, Repeated({<<D>>}, p))
<1> DEFINE patterns == {<<D>>}
           S == {q \in p .. Len(text) : \A i \in p .. (q - 1) : Byte(i) \in D}
<1>1. Short(patterns)
  BY DEF Short
<1>2. PICK n : n = Repeated(patterns, p)
  OBVIOUS
<1>3. n \in Nat /\ p + n <= Len(text) /\ Longest(patterns, p + n) = 0
  <2> HIDE DEF patterns
  <2> QED BY <1>1, <1>2, RepeatedIs
<1>4. p \in S
  OBVIOUS
<1>5. \A q \in p .. Len(text) : q \in S /\ Longest(patterns, q) > 0 => q + Longest(patterns, q) \in S
  <2> SUFFICES ASSUME NEW q \in p .. Len(text), q \in S, Longest(patterns, q) > 0
               PROVE  q + Longest(patterns, q) \in S
    OBVIOUS
  <2>1. Longest(patterns, q) = 1 /\ q + 1 <= Len(text) /\ Byte(q) \in D
    BY LongestByte
  <2>2. q + 1 \in p .. Len(text) /\ \A i \in p .. (q + 1 - 1) : i = q \/ i \in p .. (q - 1)
    BY <2>1
  <2>3. q + 1 \in S
    BY <2>1, <2>2
  <2> QED BY <2>1, <2>3
<1>6. p + n \in S
  <2> HIDE DEF patterns, S
  <2> QED BY <1>1, <1>2, <1>4, <1>5, RepeatedReaches
<1>7. p + n < Len(text) => Byte(p + n) \notin D
  <2>1. p + n \in Nat
    BY <1>3
  <2> QED BY <1>3, <2>1, LongestByte
<1>8. \A i \in p .. (p + n - 1) : Byte(i) \in D
  <2>1. \A r \in S : \A i \in p .. (r - 1) : Byte(i) \in D
    OBVIOUS
  <2>2. PICK r : r = p + n
    OBVIOUS
  <2> HIDE DEF S
  <2>3. \A i \in p .. (r - 1) : Byte(i) \in D
    BY <1>6, <2>1, <2>2
  <2> QED BY <1>3, <2>2, <2>3
<1>9. Bytewise(D, p, n)
  BY <1>3, <1>7, <1>8 DEF Bytewise
<1> QED
  BY <1>2, <1>9

-----------------------------------------------------------------------------
(* The rule that wins                                                        *)

\* Of rules that match no more than n bytes one is the first of the longest.
LEMMA FirstLongest ==
  ASSUME NEW n \in Nat, NEW X, \A r \in X : r.len \in 0 .. n, NEW R \in Seq(X), R # <<>>
  PROVE  LET longest == {i \in DOMAIN R : \A j \in DOMAIN R : R[j].len <= R[i].len}
         IN  /\ Min(longest) \in DOMAIN R
             /\ \A j \in DOMAIN R : /\ R[j].len <= R[Min(longest)].len
                                    /\ j < Min(longest) => R[j].len < R[Min(longest)].len
<1> DEFINE longest == {i \in DOMAIN R : \A j \in DOMAIN R : R[j].len <= R[i].len}
           lens == {R[i].len : i \in DOMAIN R}
<1>1. /\ DOMAIN R \subseteq Nat /\ 1 \in DOMAIN R
      /\ \A i \in DOMAIN R : R[i].len \in 0 .. n
  <2>1. DOMAIN R \subseteq Nat /\ 1 \in DOMAIN R
    OBVIOUS
  <2>2. \A i \in DOMAIN R : R[i] \in X
    OBVIOUS
  <2> QED BY <2>1, <2>2
<1>2. lens \subseteq 0 .. n /\ lens # {}
  BY <1>1
<1>3. PICK l \in lens : \A k \in lens : k <= l
  <2> HIDE DEF lens
  <2> QED BY <1>2, GreatestNat
<1>4. PICK i \in DOMAIN R : l = R[i].len
  OBVIOUS
<1>5. i \in longest
  BY <1>3, <1>4
<1>6. longest \subseteq Nat /\ longest # {}
  BY <1>1, <1>5
<1>7. PICK k \in longest : \A j \in longest : k <= j
  <2> HIDE DEF longest
  <2> QED BY <1>6, LeastNat
<1>8. Min(longest) \in longest /\ \A j \in longest : Min(longest) <= j
  <2> HIDE DEF longest
  <2> QED BY <1>7 DEF Min
<1>9. PICK w : w = Min(longest)
  OBVIOUS
<1>10. w \in DOMAIN R /\ \A j \in DOMAIN R : R[j].len <= R[w].len
  BY <1>8, <1>9
<1>11. ASSUME NEW j \in DOMAIN R, j < w PROVE R[j].len < R[w].len
  <2>1. j \notin longest
    <3>1. w \in Nat /\ j \in Nat /\ ~(w <= j)
      BY <1>1, <1>10, <1>11
    <3> HIDE DEF longest
    <3> QED BY <1>8, <1>9, <3>1
  <2>2. PICK k1 \in DOMAIN R : ~(R[k1].len <= R[j].len)
    BY <2>1
  <2>3. R[k1].len \in Int /\ R[j].len \in Int /\ R[w].len \in Int /\ R[k1].len <= R[w].len
    BY <1>1, <1>10
  <2>4. \A a, b, c \in Int : ~(a <= b) /\ a <= c => b < c
    OBVIOUS
  <2> QED BY <2>2, <2>3, <2>4
<1> QED
  BY <1>9, <1>10, <1>11

\* The patterns of the rules are short.
LEMMA ErrorPatternsShort ==
  /\ \A D : Short({<<D>>})
  /\ Short(U_PARTIAL) /\ Short(U_PARTIAL \cup {<<Continuation>>}) /\ Short(U_OVERLONG) /\ Short(U_TOOHIGH)
  /\ Short(U_SURROGATE) /\ Short(U_NONBMP) /\ Short(U_EXTBMP)
<1>1. \A D : Short({<<D>>})
  BY DEF Short
<1>2. \A A, B, C, D : Len(<<A>>) = 1 /\ Len(<<A, B>>) = 2 /\ Len(<<A, B, C>>) = 3 /\ Len(<<A, B, C, D>>) = 4
  OBVIOUS
<1>3. Short(U_PARTIAL)
  BY <1>2 DEF Short, U_PARTIAL
<1>4. Short(U_PARTIAL \cup {<<Continuation>>})
  BY <1>2, <1>3 DEF Short
<1>5. Short(U_OVERLONG) /\ Short(U_SURROGATE)
  BY <1>2 DEF Short, U_OVERLONG, U_SURROGATE
<1>6. Short(U_NONBMP)
  BY <1>2 DEF Short, U_NONBMP
<1>7. Short(U_TOOHIGH)
  BY <1>2 DEF Short, U_TOOHIGH
<1>8. Short(U_EXTBMP)
  BY <1>2 DEF Short, U_EXTBMP
<1> QED
  BY <1>1, <1>3, <1>4, <1>5, <1>6, <1>7, <1>8

LEMMA NamePatternsShort ==
  /\ Short(NameChar) /\ Short(QuotedNameChar) /\ Short(StringChar)
  /\ Short(EscapeSequence) /\ Short({<<{Apostrophe}, {Apostrophe}>>}) /\ Short({<<{Backtick}, {Backtick}>>})
  /\ Short(Operators)
<1>1. \A A, B : Len(<<A>>) = 1 /\ Len(<<A, B>>) = 2
  OBVIOUS
<1>2. Short(NameChar) /\ Short(QuotedNameChar) /\ Short(StringChar)
  BY <1>1, ErrorPatternsShort DEF Short, NameChar, QuotedNameChar, StringChar
<1>3. Short(EscapeSequence) /\ Short({<<{Apostrophe}, {Apostrophe}>>}) /\ Short({<<{Backtick}, {Backtick}>>})
  BY <1>1 DEF Short, EscapeSequence
<1>4. \A r \in Operators : \E A, B : r = <<A>> \/ r = <<A, B>>
  BY Zenon DEF Operators
<1>5. Short(Operators)
  BY <1>1, <1>4 DEF Short
<1> QED
  BY <1>2, <1>3, <1>5

\* The lexer is in the text.
InText == text \in Seq(0 .. 255) /\ pos \in 0 .. Len(text)

\* Bytes that are characters by themselves, and have no other meaning in the quotes q.
Inside(q) ==
  {x \in 1 .. 127 : /\ x # q /\ (q = NUL => x \notin {Apostrophe, Backtick})
                    /\ (q = Apostrophe => x # Backslash)}

\* The bytes from b to e - 1 are such, outside of quotes.
Ascii(b, e) == \A i \in b .. (e - 1) : Byte(i) \in Inside(NUL)

\* A number with a fraction.
LEMMA FloatIs ==
  ASSUME InText
  PROVE  Float \in Nat /\ pos + Float <= Len(text) /\ Ascii(pos, pos + Float)
<1> USE DEF InText
<1>1. PICK n : n = Repeated({<<Digit>>}, pos)
  OBVIOUS
<1>2. n \in Nat /\ pos + n <= Len(text) /\ \A i \in pos .. (pos + n - 1) : Byte(i) \in Digit
  <2>1. Bytewise(Digit, pos, n)
    BY <1>1, RepeatedBytes
  <2> QED BY <2>1 DEF Bytewise
<1>3. CASE n > 0 /\ Matches(<<{46}>>, pos + n) /\ Repeated({<<Digit>>}, pos + n + 1) > 0
  <2>1. pos + n \in Nat /\ pos + n + 1 <= Len(text) /\ Byte(pos + n) \in {46}
    BY <1>2, <1>3, OneByte
  <2>2. PICK m : m = Repeated({<<Digit>>}, pos + n + 1)
    OBVIOUS
  <2>3. PICK q : q = pos + n + 1
    OBVIOUS
  <2>4. m \in Nat /\ q + m <= Len(text) /\ \A i \in q .. (q + m - 1) : Byte(i) \in Digit
    <3>1. Bytewise(Digit, q, m)
      BY <2>1, <2>2, <2>3, RepeatedBytes
    <3> QED BY <3>1 DEF Bytewise
  <2>5. Float = n + 1 + m
    BY <1>1, <1>3, <2>2 DEF Float
  <2>6. \A i \in pos .. (pos + (n + 1 + m) - 1) : Byte(i) \in Inside(NUL)
    <3> SUFFICES ASSUME NEW i \in pos .. (pos + (n + 1 + m) - 1) PROVE Byte(i) \in Inside(NUL)
      OBVIOUS
    <3>1. i \in pos .. (pos + n - 1) \/ i = pos + n \/ i \in q .. (q + m - 1)
      BY <1>2, <2>3, <2>4
    <3>2. \A x \in Digit \cup {46} : x \in Inside(NUL)
      BY DEF Digit, Inside, NUL, Apostrophe, Backtick
    <3>3. Byte(i) \in Digit \cup {46}
      BY <1>2, <2>1, <2>4, <3>1
    <3> QED BY <3>2, <3>3
  <2> QED BY <1>2, <2>3, <2>4, <2>5, <2>6 DEF Ascii
<1>4. CASE ~(n > 0 /\ Matches(<<{46}>>, pos + n) /\ Repeated({<<Digit>>}, pos + n + 1) > 0)
  <2>1. Float = 0
    BY <1>1, <1>4 DEF Float
  <2> QED BY <2>1 DEF Ascii
<1> QED
  BY <1>3, <1>4

\* The end of a string, white space, and the beginning of the next.
LEMMA AdjacentIs ==
  ASSUME InText
  PROVE  \/ Adjacent = 0
         \/ \E n \in Nat \ {0} :
              /\ Adjacent = n + 2 /\ pos + n + 2 <= Len(text)
              /\ Byte(pos) = Apostrophe /\ Byte(pos + n + 1) = Apostrophe
              /\ \A i \in (pos + 1) .. (pos + n) : Byte(i) \in Space
<1> USE DEF InText
<1>1. CASE Matches(<<{Apostrophe}>>, pos)
  <2>1. pos + 1 <= Len(text) /\ Byte(pos) = Apostrophe /\ pos + 1 \in Nat
    BY <1>1, OneByte
  <2>2. PICK n : n = Repeated({<<Space>>}, pos + 1)
    OBVIOUS
  <2>3. PICK q : q = pos + 1
    OBVIOUS
  <2>4. n \in Nat /\ q + n <= Len(text) /\ \A i \in q .. (q + n - 1) : Byte(i) \in Space
    <3>1. Bytewise(Space, q, n)
      BY <2>1, <2>2, <2>3, RepeatedBytes
    <3> QED BY <3>1 DEF Bytewise
  <2>5. CASE n > 0 /\ Matches(<<{Apostrophe}>>, pos + 1 + n)
    <3>1. Adjacent = n + 2
      BY <1>1, <2>2, <2>5 DEF Adjacent
    <3>2. pos + 1 + n \in Nat
      BY <2>4
    <3>3. pos + 1 + n + 1 <= Len(text) /\ Byte(pos + 1 + n) \in {Apostrophe}
      BY <2>5, <3>2, OneByte
    <3>4. pos + 1 + n = pos + n + 1 /\ q + n - 1 = pos + n /\ pos + n + 2 = pos + 1 + n + 1
      BY <2>3, <2>4
    <3> QED BY <2>1, <2>3, <2>4, <2>5, <3>1, <3>3, <3>4
  <2>6. CASE ~(n > 0 /\ Matches(<<{Apostrophe}>>, pos + 1 + n))
    BY <1>1, <2>2, <2>6 DEF Adjacent
  <2> QED BY <2>5, <2>6
<1>2. CASE ~Matches(<<{Apostrophe}>>, pos)
  BY <1>2 DEF Adjacent
<1> QED
  BY <1>1, <1>2

\* The letters of a word, as far as the rule for words takes them.
LEMMA WordLengthIs ==
  ASSUME InText
  PROVE  /\ WordLength \in Nat /\ WordLength <= MaxKeyword /\ pos + WordLength <= Len(text)
         /\ \A i \in pos .. (pos + WordLength - 1) : Byte(i) \in Letter
         /\ WordLength < MaxKeyword /\ pos + WordLength < Len(text) =>
              Byte(pos + WordLength) \notin Letter
<1> USE DEF InText
<1>1. PICK n : n = Repeated({<<Letter>>}, pos)
  OBVIOUS
<1>2. /\ n \in Nat /\ pos + n <= Len(text) /\ \A i \in pos .. (pos + n - 1) : Byte(i) \in Letter
      /\ pos + n < Len(text) => Byte(pos + n) \notin Letter
  <2>1. Bytewise(Letter, pos, n)
    BY <1>1, RepeatedBytes
  <2> QED BY <2>1 DEF Bytewise
<1>3. PICK w : w = WordLength
  OBVIOUS
<1>4. w \in {MaxKeyword, n} /\ w <= MaxKeyword /\ w <= n /\ w \in Nat
  <2>1. w = Min({MaxKeyword, n})
    BY <1>1, <1>3 DEF WordLength
  <2>2. \E x \in {MaxKeyword, n} : \A y \in {MaxKeyword, n} : x <= y
    BY <1>2, LimitsAssumption
  <2>3. w \in {MaxKeyword, n} /\ \A y \in {MaxKeyword, n} : w <= y
    BY <2>1, <2>2 DEF Min
  <2> QED BY <1>2, <2>3, LimitsAssumption
<1>5. \A i \in pos .. (pos + w - 1) : i \in pos .. (pos + n - 1)
  BY <1>2, <1>4
<1>6. w < MaxKeyword => w = n
  BY <1>4, LimitsAssumption
<1> QED
  BY <1>2, <1>3, <1>4, <1>5, <1>6

Modes == {"INITIAL", "QUOTED_IDENTIFIER", "SINGLE_QUOTED_STRING"}
ModeRules ==
  CASE mode = "INITIAL" -> InitialRules
    [] mode = "QUOTED_IDENTIFIER" -> QuotedIdentifierRules
    [] mode = "SINGLE_QUOTED_STRING" -> StringRules
Rules == ErrorRules \o ModeRules

\* What rules match is left in the text.
Fitting == 0 .. (Len(text) - pos)
RuleNames ==
  ErrorNames \cup {"SPACE", "FLOAT", "INT", "OPERATOR", "WORD", "IDENTIFIER", "OPEN",
                   "RUN", "DOUBLED", "CLOSE", "ESCAPE", "ADJACENT"}
FittingRules == [name : RuleNames, len : Fitting]

LEMMA ErrorRulesFit ==
  ASSUME InText
  PROVE  ErrorRules \in Seq(FittingRules) /\ Len(ErrorRules) = 7
<1>1. \A P : Short(P) => Longest(P, pos) \in Fitting
  BY LongestInText DEF InText, Fitting
<1>2. 0 \in Fitting
  BY DEF InText, Fitting
<1>4. /\ Longest({<<{NUL}>>}, pos) \in Fitting /\ Longest({<<248 .. 255>>}, pos) \in Fitting
      /\ Longest(U_PARTIAL \cup {<<Continuation>>}, pos) \in Fitting
      /\ Longest(U_OVERLONG, pos) \in Fitting /\ Longest(U_TOOHIGH, pos) \in Fitting
      /\ Longest(U_SURROGATE, pos) \in Fitting
      /\ (IF mode = "SINGLE_QUOTED_STRING" THEN 0 ELSE Longest(U_NONBMP, pos)) \in Fitting
  BY <1>1, <1>2, ErrorPatternsShort
<1> HIDE DEF FittingRules
<1>5. \A a, b, c, d, e, f, g \in FittingRules :
        <<a, b, c, d, e, f, g>> \in Seq(FittingRules) /\ Len(<<a, b, c, d, e, f, g>>) = 7
  OBVIOUS
<1>6. /\ Rule("LEX_NUL", Longest({<<{NUL}>>}, pos)) \in FittingRules
      /\ Rule("LEX_U_ILLEGAL_BYTE", Longest({<<248 .. 255>>}, pos)) \in FittingRules
      /\ Rule("LEX_U_ENC_ERR", Longest(U_PARTIAL \cup {<<Continuation>>}, pos)) \in FittingRules
      /\ Rule("LEX_U_OVERLONG", Longest(U_OVERLONG, pos)) \in FittingRules
      /\ Rule("LEX_U_TOOHIGH", Longest(U_TOOHIGH, pos)) \in FittingRules
      /\ Rule("LEX_U_SURROGATE", Longest(U_SURROGATE, pos)) \in FittingRules
      /\ Rule("LEX_NONBMP_IDENTIFIER",
              IF mode = "SINGLE_QUOTED_STRING" THEN 0 ELSE Longest(U_NONBMP, pos)) \in FittingRules
  BY <1>4 DEF Rule, FittingRules, RuleNames, ErrorNames, EncodingErrors
<1> QED
  BY <1>5, <1>6 DEF ErrorRules

LEMMA ModeRulesFit ==
  ASSUME InText, mode \in Modes
  PROVE  ModeRules \in Seq(FittingRules) /\ Len(ModeRules) > 0
<1>1. \A P : Short(P) => Longest(P, pos) \in Fitting /\ Repeated(P, pos) \in Fitting
  <2>1. ASSUME NEW P, Short(P) PROVE Longest(P, pos) \in Fitting
    BY <2>1, LongestInText DEF InText, Fitting
  <2>2. ASSUME NEW P, Short(P) PROVE Repeated(P, pos) \in Fitting
    <3>1. Repeated(P, pos) \in Nat /\ pos + Repeated(P, pos) <= Len(text)
      BY <2>2, RepeatedIs DEF InText
    <3> QED BY <3>1 DEF InText, Fitting
  <2> QED BY <2>1, <2>2
<1>3. Float \in Fitting /\ WordLength \in Fitting /\ Adjacent \in Fitting
  BY FloatIs, WordLengthIs, AdjacentIs DEF InText, Fitting
<1>4. /\ Longest({<<Space>>}, pos) \in Fitting /\ Longest({<<{Backtick, Apostrophe}>>}, pos) \in Fitting
      /\ Longest({<<Illegal>>}, pos) \in Fitting /\ Repeated({<<Digit>>}, pos) \in Fitting
      /\ Longest({<<{Apostrophe}>>}, pos) \in Fitting /\ Longest({<<{Backtick}>>}, pos) \in Fitting
      /\ Longest({<<{Backslash}>>}, pos) \in Fitting
  BY <1>1, ErrorPatternsShort
<1>5. /\ Longest(Operators, pos) \in Fitting /\ Repeated(NameChar, pos) \in Fitting
      /\ Repeated(StringChar, pos) \in Fitting /\ Repeated(QuotedNameChar, pos) \in Fitting
      /\ Longest(EscapeSequence, pos) \in Fitting
      /\ Longest({<<{Apostrophe}, {Apostrophe}>>}, pos) \in Fitting
      /\ Longest({<<{Backtick}, {Backtick}>>}, pos) \in Fitting
  BY <1>1, NamePatternsShort
<1> HIDE DEF FittingRules
<1>6. \A a, b, c, d, e, f, g, h \in FittingRules :
        <<a, b, c, d, e, f, g, h>> \in Seq(FittingRules) /\ Len(<<a, b, c, d, e, f, g, h>>) = 8
  OBVIOUS
<1>7. \A a, b, c, d, e, f \in FittingRules :
        <<a, b, c, d, e, f>> \in Seq(FittingRules) /\ Len(<<a, b, c, d, e, f>>) = 6
  OBVIOUS
<1>8. \A a, b, c \in FittingRules : <<a, b, c>> \in Seq(FittingRules) /\ Len(<<a, b, c>>) = 3
  OBVIOUS
<1>9. CASE mode = "INITIAL"
  <2>1. ModeRules = InitialRules
    BY <1>9 DEF ModeRules
  <2>2. /\ Rule("SPACE", Longest({<<Space>>}, pos)) \in FittingRules
        /\ Rule("FLOAT", Float) \in FittingRules
        /\ Rule("INT", Repeated({<<Digit>>}, pos)) \in FittingRules
        /\ Rule("OPERATOR", Longest(Operators, pos)) \in FittingRules
        /\ Rule("WORD", WordLength) \in FittingRules
        /\ Rule("IDENTIFIER", Repeated(NameChar, pos)) \in FittingRules
        /\ Rule("OPEN", Longest({<<{Backtick, Apostrophe}>>}, pos)) \in FittingRules
        /\ Rule("LEX_ILLEGAL_TOKEN", Longest({<<Illegal>>}, pos)) \in FittingRules
    BY <1>3, <1>4, <1>5 DEF Rule, FittingRules, RuleNames, ErrorNames, EncodingErrors
  <2> QED BY <2>1, <2>2, <1>6 DEF InitialRules
<1>10. CASE mode = "QUOTED_IDENTIFIER"
  <2>1. ModeRules = QuotedIdentifierRules
    BY <1>10 DEF ModeRules
  <2>2. /\ Rule("RUN", Repeated(QuotedNameChar, pos)) \in FittingRules
        /\ Rule("DOUBLED", Longest({<<{Backtick}, {Backtick}>>}, pos)) \in FittingRules
        /\ Rule("CLOSE", Longest({<<{Backtick}>>}, pos)) \in FittingRules
    BY <1>4, <1>5 DEF Rule, FittingRules, RuleNames, ErrorNames, EncodingErrors
  <2> QED BY <2>1, <2>2, <1>8 DEF QuotedIdentifierRules
<1>11. CASE mode = "SINGLE_QUOTED_STRING"
  <2>1. ModeRules = StringRules
    BY <1>11 DEF ModeRules
  <2>2. /\ Rule("RUN", Repeated(StringChar, pos)) \in FittingRules
        /\ Rule("DOUBLED", Longest({<<{Apostrophe}, {Apostrophe}>>}, pos)) \in FittingRules
        /\ Rule("CLOSE", Longest({<<{Apostrophe}>>}, pos)) \in FittingRules
        /\ Rule("ESCAPE", Longest(EscapeSequence, pos)) \in FittingRules
        /\ Rule("LEX_INCOMPLETE_ESCAPE_SEQUENCE_IN_SINGLE_QUOTED_STRING",
              Longest({<<{Backslash}>>}, pos)) \in FittingRules
        /\ Rule("ADJACENT", Adjacent) \in FittingRules
    BY <1>3, <1>4, <1>5 DEF Rule, FittingRules, RuleNames, ErrorNames, EncodingErrors
  <2> QED BY <2>1, <2>2, <1>7 DEF StringRules
<1> QED
  BY <1>9, <1>10, <1>11 DEF Modes

\* The rule flex takes matches as much as any, and more than those before it.
Takes(w) ==
  \E i \in DOMAIN Rules :
    /\ w = Rules[i]
    /\ \A j \in DOMAIN Rules : Rules[j].len <= w.len /\ (j < i => Rules[j].len < w.len)

LEMMA WinnerTakes ==
  ASSUME InText, mode \in Modes
  PROVE  /\ Takes(Winner) /\ Winner.len \in Nat /\ pos + Winner.len <= Len(text)
         /\ \A j \in DOMAIN Rules : Rules[j].len \in Nat
<1>1. Rules \in Seq(FittingRules) /\ Rules # <<>>
  <2>1. ErrorRules \in Seq(FittingRules) /\ Len(ErrorRules) = 7
    BY ErrorRulesFit
  <2>2. ModeRules \in Seq(FittingRules) /\ Len(ModeRules) > 0
    BY ModeRulesFit
  <2> QED BY <2>1, <2>2 DEF Rules
<1>2. PICK n \in Nat : n = Len(text) - pos
  BY DEF InText
<1>3. \A r \in FittingRules : r.len \in 0 .. n
  BY <1>2 DEF FittingRules, Fitting
<1> DEFINE longest == {i \in DOMAIN Rules : \A j \in DOMAIN Rules : Rules[j].len <= Rules[i].len}
<1>4. /\ Min(longest) \in DOMAIN Rules
      /\ \A j \in DOMAIN Rules : /\ Rules[j].len <= Rules[Min(longest)].len
                                 /\ j < Min(longest) => Rules[j].len < Rules[Min(longest)].len
  BY <1>1, <1>3, FirstLongest
<1>5. Winner = Rules[Min(longest)]
  BY DEF Winner, Rules, ModeRules
<1>6. \A j \in DOMAIN Rules : Rules[j].len \in 0 .. n
  <2>1. \A j \in DOMAIN Rules : Rules[j] \in FittingRules
    BY <1>1
  <2> QED BY <1>3, <2>1
<1> HIDE DEF longest
<1> QED
  BY <1>2, <1>4, <1>5, <1>6 DEF Takes, InText

\* The rules by name, with what they match.
IsErrorRule(w) ==
  \/ w.name = "LEX_NUL" /\ w.len = Longest({<<{NUL}>>}, pos)
  \/ w.name = "LEX_U_ILLEGAL_BYTE" /\ w.len = Longest({<<248 .. 255>>}, pos)
  \/ w.name = "LEX_U_ENC_ERR" /\ w.len = Longest(U_PARTIAL \cup {<<Continuation>>}, pos)
  \/ w.name = "LEX_U_OVERLONG" /\ w.len = Longest(U_OVERLONG, pos)
  \/ w.name = "LEX_U_TOOHIGH" /\ w.len = Longest(U_TOOHIGH, pos)
  \/ w.name = "LEX_U_SURROGATE" /\ w.len = Longest(U_SURROGATE, pos)
  \/ w.name = "LEX_NONBMP_IDENTIFIER" /\ (w.len = 0 \/ w.len = Longest(U_NONBMP, pos))

IsStringRule(w) ==
  \/ w.name = "RUN" /\ w.len = Repeated(StringChar, pos)
  \/ w.name = "DOUBLED" /\ w.len = Longest({<<{Apostrophe}, {Apostrophe}>>}, pos)
  \/ w.name = "CLOSE" /\ w.len = Longest({<<{Apostrophe}>>}, pos)
  \/ w.name = "ESCAPE" /\ w.len = Longest(EscapeSequence, pos)
  \/ /\ w.name = "LEX_INCOMPLETE_ESCAPE_SEQUENCE_IN_SINGLE_QUOTED_STRING"
     /\ w.len = Longest({<<{Backslash}>>}, pos)
  \/ w.name = "ADJACENT" /\ w.len = Adjacent

IsQuotedRule(w) ==
  \/ w.name = "RUN" /\ w.len = Repeated(QuotedNameChar, pos)
  \/ w.name = "DOUBLED" /\ w.len = Longest({<<{Backtick}, {Backtick}>>}, pos)
  \/ w.name = "CLOSE" /\ w.len = Longest({<<{Backtick}>>}, pos)

IsInitialRule(w) ==
  \/ w.name = "SPACE" /\ w.len = Longest({<<Space>>}, pos)
  \/ w.name = "FLOAT" /\ w.len = Float
  \/ w.name = "INT" /\ w.len = Repeated({<<Digit>>}, pos)
  \/ w.name = "OPERATOR" /\ w.len = Longest(Operators, pos)
  \/ w.name = "WORD" /\ w.len = WordLength
  \/ w.name = "IDENTIFIER" /\ w.len = Repeated(NameChar, pos)
  \/ w.name = "OPEN" /\ w.len = Longest({<<{Backtick, Apostrophe}>>}, pos)
  \/ w.name = "LEX_ILLEGAL_TOKEN" /\ w.len = Longest({<<Illegal>>}, pos)

\* The rule taken is one of those of its start condition.  It matches something
\* unless no rule does; a name is longer than the word it begins with.
Taken(w) ==
  /\ w.len \in Nat /\ pos + w.len <= Len(text)
  /\ w.len = 0 => w.name = "LEX_NUL"
  /\ \/ IsErrorRule(w)
     \/ mode = "INITIAL" /\ IsInitialRule(w)
     \/ mode = "QUOTED_IDENTIFIER" /\ IsQuotedRule(w)
     \/ mode = "SINGLE_QUOTED_STRING" /\ IsStringRule(w)
  /\ w.name = "IDENTIFIER" => WordLength < w.len
  /\ mode = "INITIAL" => Repeated(NameChar, pos) <= w.len
  /\ mode = "QUOTED_IDENTIFIER" => Repeated(QuotedNameChar, pos) <= w.len
  /\ mode = "SINGLE_QUOTED_STRING" => Repeated(StringChar, pos) <= w.len
  /\ mode # "SINGLE_QUOTED_STRING" => Longest(U_NONBMP, pos) <= w.len

\* r is s followed by t.
Joins(s, t, r) ==
  /\ DOMAIN r = 1 .. (Len(s) + Len(t)) /\ Len(t) \in Nat
  /\ \A j \in 1 .. Len(s) : r[j] = s[j]
  /\ \A j \in 1 .. Len(t) : r[Len(s) + j] = t[j]

LEMMA Concatenated ==
  ASSUME NEW X, NEW s \in Seq(X), NEW t \in Seq(X)
  PROVE  Joins(s, t, s \o t)
  BY DEF Joins

LEMMA RulesAre ==
  ASSUME InText, mode \in Modes
  PROVE  /\ Len(InitialRules) = 8 /\ Len(StringRules) = 6 /\ Len(QuotedIdentifierRules) = 3
         /\ DOMAIN Rules = 1 .. (7 + Len(ModeRules)) /\ Len(ModeRules) \in Nat
         /\ \A j \in 1 .. 7 : Rules[j] = ErrorRules[j]
         /\ \A j \in 1 .. Len(ModeRules) : Rules[7 + j] = ModeRules[j]
<1>1. \A a, b, c, d, e, f, g, h : /\ Len(<<a, b, c>>) = 3 /\ Len(<<a, b, c, d, e, f>>) = 6
                                 /\ Len(<<a, b, c, d, e, f, g, h>>) = 8
  OBVIOUS
<1>2. Len(InitialRules) = 8 /\ Len(StringRules) = 6 /\ Len(QuotedIdentifierRules) = 3
  BY <1>1 DEF InitialRules, StringRules, QuotedIdentifierRules
<1>4. ErrorRules \in Seq(FittingRules) /\ Len(ErrorRules) = 7 /\ ModeRules \in Seq(FittingRules)
  BY ErrorRulesFit, ModeRulesFit
<1>5. PICK X, s, t : X = FittingRules /\ s = ErrorRules /\ t = ModeRules
  OBVIOUS
<1>6. Rules = s \o t
  BY <1>5 DEF Rules
<1>7. s \in Seq(X) /\ t \in Seq(X) /\ Len(s) = 7
  BY <1>4, <1>5
<1>8. /\ DOMAIN Rules = 1 .. (7 + Len(t)) /\ Len(t) \in Nat
      /\ \A j \in 1 .. 7 : Rules[j] = s[j]
      /\ \A j \in 1 .. Len(t) : Rules[7 + j] = t[j]
  <2>1. Joins(s, t, Rules)
    BY <1>6, <1>7, Concatenated
  <2> QED BY <1>7, <2>1 DEF Joins
<1> QED
  BY <1>2, <1>5, <1>8

\* The two rules of a place and a name.
LEMMA ErrorRulesAre ==
  ASSUME NEW j \in 1 .. 7
  PROVE  IsErrorRule(ErrorRules[j]) /\ ErrorRules[1].name = "LEX_NUL" /\ ErrorRules[j].name # "IDENTIFIER"
         /\ ErrorRules[7].len = IF mode = "SINGLE_QUOTED_STRING" THEN 0 ELSE Longest(U_NONBMP, pos)
<1>1. j \in {1, 2, 3, 4, 5, 6, 7}
  OBVIOUS
<1>2. /\ ErrorRules[1].name = "LEX_NUL" /\ IsErrorRule(ErrorRules[1])
      /\ ErrorRules[2].name = "LEX_U_ILLEGAL_BYTE" /\ IsErrorRule(ErrorRules[2])
  BY DEF ErrorRules, IsErrorRule, Rule
<1>3. /\ ErrorRules[3].name = "LEX_U_ENC_ERR" /\ IsErrorRule(ErrorRules[3])
      /\ ErrorRules[4].name = "LEX_U_OVERLONG" /\ IsErrorRule(ErrorRules[4])
  BY DEF ErrorRules, IsErrorRule, Rule
<1>4. /\ ErrorRules[5].name = "LEX_U_TOOHIGH" /\ IsErrorRule(ErrorRules[5])
      /\ ErrorRules[6].name = "LEX_U_SURROGATE" /\ IsErrorRule(ErrorRules[6])
  BY DEF ErrorRules, IsErrorRule, Rule
<1>5. /\ ErrorRules[7].name = "LEX_NONBMP_IDENTIFIER" /\ IsErrorRule(ErrorRules[7])
      /\ ErrorRules[7].len = IF mode = "SINGLE_QUOTED_STRING" THEN 0 ELSE Longest(U_NONBMP, pos)
  BY DEF ErrorRules, IsErrorRule, Rule
<1> QED
  BY <1>1, <1>2, <1>3, <1>4, <1>5

LEMMA InitialRulesAre ==
  ASSUME NEW j \in 1 .. 8
  PROVE  /\ IsInitialRule(InitialRules[j])
         /\ InitialRules[j].name = "IDENTIFIER" => j = 6
         /\ InitialRules[5].len = WordLength /\ InitialRules[6].len = Repeated(NameChar, pos)
<1>1. j \in {1, 2, 3, 4, 5, 6, 7, 8}
  OBVIOUS
<1>2. /\ InitialRules[1].name = "SPACE" /\ IsInitialRule(InitialRules[1])
      /\ InitialRules[2].name = "FLOAT" /\ IsInitialRule(InitialRules[2])
      /\ InitialRules[3].name = "INT" /\ IsInitialRule(InitialRules[3])
  BY DEF InitialRules, IsInitialRule, Rule
<1>3. /\ InitialRules[4].name = "OPERATOR" /\ IsInitialRule(InitialRules[4])
      /\ InitialRules[5].name = "WORD" /\ IsInitialRule(InitialRules[5])
      /\ InitialRules[5].len = WordLength /\ InitialRules[6].len = Repeated(NameChar, pos)
      /\ IsInitialRule(InitialRules[6])
  BY DEF InitialRules, IsInitialRule, Rule
<1>4. /\ InitialRules[7].name = "OPEN" /\ IsInitialRule(InitialRules[7])
      /\ InitialRules[8].name = "LEX_ILLEGAL_TOKEN" /\ IsInitialRule(InitialRules[8])
  BY DEF InitialRules, IsInitialRule, Rule
<1> QED
  BY <1>1, <1>2, <1>3, <1>4

LEMMA StringRulesAre ==
  ASSUME NEW j \in 1 .. 6
  PROVE  /\ IsStringRule(StringRules[j]) /\ StringRules[j].name # "IDENTIFIER"
         /\ StringRules[1].len = Repeated(StringChar, pos)
<1>1. j \in {1, 2, 3, 4, 5, 6}
  OBVIOUS
<1>2. /\ StringRules[1].name = "RUN" /\ IsStringRule(StringRules[1])
      /\ StringRules[2].name = "DOUBLED" /\ IsStringRule(StringRules[2])
      /\ StringRules[3].name = "CLOSE" /\ IsStringRule(StringRules[3])
      /\ StringRules[1].len = Repeated(StringChar, pos)
  BY DEF StringRules, IsStringRule, Rule
<1>3. /\ StringRules[4].name = "ESCAPE" /\ IsStringRule(StringRules[4])
      /\ StringRules[5].name # "IDENTIFIER" /\ IsStringRule(StringRules[5])
      /\ StringRules[6].name = "ADJACENT" /\ IsStringRule(StringRules[6])
  BY DEF StringRules, IsStringRule, Rule
<1> QED
  BY <1>1, <1>2, <1>3

LEMMA QuotedRulesAre ==
  ASSUME NEW j \in 1 .. 3
  PROVE  /\ IsQuotedRule(QuotedIdentifierRules[j]) /\ QuotedIdentifierRules[j].name # "IDENTIFIER"
         /\ QuotedIdentifierRules[1].len = Repeated(QuotedNameChar, pos)
<1>1. j \in {1, 2, 3}
  OBVIOUS
<1>2. /\ QuotedIdentifierRules[1].name = "RUN" /\ IsQuotedRule(QuotedIdentifierRules[1])
      /\ QuotedIdentifierRules[2].name = "DOUBLED" /\ IsQuotedRule(QuotedIdentifierRules[2])
      /\ QuotedIdentifierRules[3].name = "CLOSE" /\ IsQuotedRule(QuotedIdentifierRules[3])
      /\ QuotedIdentifierRules[1].len = Repeated(QuotedNameChar, pos)
  BY DEF QuotedIdentifierRules, IsQuotedRule, Rule
<1> QED
  BY <1>1, <1>2

LEMMA WinnerIsTaken ==
  ASSUME InText, mode \in Modes
  PROVE  Taken(Winner)
<1>1. PICK w : w = Winner
  OBVIOUS
<1>2. /\ Takes(w) /\ w.len \in Nat /\ pos + w.len <= Len(text)
      /\ \A j \in DOMAIN Rules : Rules[j].len \in Nat
  BY <1>1, WinnerTakes
<1>3. PICK i \in DOMAIN Rules :
        /\ w = Rules[i]
        /\ \A j \in DOMAIN Rules : Rules[j].len <= w.len /\ (j < i => Rules[j].len < w.len)
  BY <1>2 DEF Takes
<1>4. PICK k : k = Len(ModeRules)
  OBVIOUS
<1>5. /\ DOMAIN Rules = 1 .. (7 + k) /\ k \in Nat
      /\ \A j \in 1 .. 7 : Rules[j] = ErrorRules[j]
      /\ \A j \in 1 .. k : Rules[7 + j] = ModeRules[j]
  BY <1>4, RulesAre
<1>6. \A j \in 1 .. 7 : j \in DOMAIN Rules
  BY <1>5
<1>7. \A j \in 1 .. k : 7 + j \in DOMAIN Rules
  BY <1>5
<1>8. i \in 1 .. 7 \/ \E j \in 1 .. k : i = 7 + j
  <2>1. i \in 1 .. 7 \/ (i - 7 \in 1 .. k /\ i = 7 + (i - 7))
    BY <1>3, <1>5
  <2> QED BY <2>1
<1>9. w.len = 0 => w.name = "LEX_NUL"
  <2> SUFFICES ASSUME w.len = 0 PROVE w.name = "LEX_NUL"
    OBVIOUS
  <2>1. ~(1 < i)
    <3>1. 1 \in DOMAIN Rules /\ Rules[1].len \in Nat
      BY <1>2, <1>6
    <3> QED BY <1>3, <3>1
  <2>2. i = 1
    BY <1>3, <1>5, <2>1
  <2> QED BY <1>3, <1>5, <2>2, ErrorRulesAre
<1>10. mode # "SINGLE_QUOTED_STRING" => Longest(U_NONBMP, pos) <= w.len
  BY <1>3, <1>5, <1>6, ErrorRulesAre
<1>11. CASE mode = "INITIAL"
  <2>1. ModeRules = InitialRules /\ k = 8
    BY <1>4, <1>11, RulesAre DEF ModeRules
  <2>2. /\ 12 \in DOMAIN Rules /\ Rules[12].len = WordLength
        /\ 13 \in DOMAIN Rules /\ Rules[13].len = Repeated(NameChar, pos)
    <3>1. 5 \in 1 .. k /\ 6 \in 1 .. k /\ 7 + 5 = 12 /\ 7 + 6 = 13
      BY <2>1
    <3> QED BY <1>5, <1>7, <2>1, <3>1, InitialRulesAre
  <2>3. IsErrorRule(w) \/ IsInitialRule(w)
    BY <1>3, <1>5, <1>8, <2>1, ErrorRulesAre, InitialRulesAre
  <2>4. w.name = "IDENTIFIER" => WordLength < w.len
    <3> SUFFICES ASSUME w.name = "IDENTIFIER" PROVE 12 < i
      BY <1>3, <2>2
    <3>1. PICK j \in 1 .. k : i = 7 + j
      BY <1>3, <1>5, <1>8, ErrorRulesAre
    <3>2. j = 6
      BY <1>3, <1>5, <2>1, <3>1, InitialRulesAre
    <3> QED BY <3>1, <3>2
  <2>5. Repeated(NameChar, pos) <= w.len
    BY <1>3, <2>2
  <2> QED BY <1>1, <1>2, <1>9, <1>10, <1>11, <2>3, <2>4, <2>5 DEF Taken
<1>12. CASE mode = "QUOTED_IDENTIFIER"
  <2>1. ModeRules = QuotedIdentifierRules /\ k = 3
    BY <1>4, <1>12, RulesAre DEF ModeRules
  <2>2. 8 \in DOMAIN Rules /\ Rules[8].len = Repeated(QuotedNameChar, pos)
    <3>1. 1 \in 1 .. k /\ 7 + 1 = 8
      BY <2>1
    <3> QED BY <1>5, <1>7, <2>1, <3>1, QuotedRulesAre
  <2>3. (IsErrorRule(w) \/ IsQuotedRule(w)) /\ w.name # "IDENTIFIER"
    BY <1>3, <1>5, <1>8, <2>1, ErrorRulesAre, QuotedRulesAre
  <2>4. Repeated(QuotedNameChar, pos) <= w.len
    BY <1>3, <2>2
  <2> QED BY <1>1, <1>2, <1>9, <1>10, <1>12, <2>3, <2>4 DEF Taken
<1>13. CASE mode = "SINGLE_QUOTED_STRING"
  <2>1. ModeRules = StringRules /\ k = 6
    BY <1>4, <1>13, RulesAre DEF ModeRules
  <2>2. 8 \in DOMAIN Rules /\ Rules[8].len = Repeated(StringChar, pos)
    <3>1. 1 \in 1 .. k /\ 7 + 1 = 8
      BY <2>1
    <3> QED BY <1>5, <1>7, <2>1, <3>1, StringRulesAre
  <2>3. (IsErrorRule(w) \/ IsStringRule(w)) /\ w.name # "IDENTIFIER"
    BY <1>3, <1>5, <1>8, <2>1, ErrorRulesAre, StringRulesAre
  <2>4. Repeated(StringChar, pos) <= w.len
    BY <1>3, <2>2
  <2> QED BY <1>1, <1>2, <1>9, <1>10, <1>13, <2>3, <2>4 DEF Taken
<1> QED
  BY <1>11, <1>12, <1>13 DEF Modes

-----------------------------------------------------------------------------
(* The lexer's state                                                         *)

Locations == [begin : Int, end : Int]

TypesOK ==
  /\ text \in Texts /\ pos \in 0 .. Len(text) /\ mode \in Modes
  /\ yylloc \in Locations /\ yytext \in Locations /\ yylloc.end <= pos
  /\ verdict \in {"none", "accepted", "refused", "too_long"}
  /\ failed # "none" => failed = "set_err_state" /\ verdict = "too_long" /\ token = "ERR"
  /\ err.pos \in Int /\ err.len \in Int

\* In quotes the last location begins with the quote.
QuoteOK ==
  mode # "INITIAL" /\ token = "NONE" =>
    /\ yylloc.begin \in 0 .. (pos - 1)
    /\ Byte(yylloc.begin) = IF mode = "QUOTED_IDENTIFIER" THEN Backtick ELSE Apostrophe

\* The word that is looked up, or has been, is the last match.
WordOK ==
  outcome # "none" =>
    /\ mode = "INITIAL" /\ token = "NONE" /\ verdict = "none"
    /\ yytext = yylloc /\ yylloc.end = pos /\ yylloc.begin \in 0 .. (pos - 1)
    /\ pos - yylloc.begin <= MaxKeyword
    /\ \A i \in yylloc.begin .. (pos - 1) : Byte(i) \in Letter
    /\ sought = Rank(Bytes(yylloc.begin, pos))

\* The token the parser looks at.
TokenOK ==
  /\ token \in {"NONE", "ERR", "END", "INT", "FLOAT", "OPERATOR", "KEYWORD", "IDENTIFIER", "STRING"}
  /\ verdict = "accepted" => token = "END"
  /\ verdict \in {"refused", "too_long"} => token # "NONE"
  /\ token \notin {"NONE", "END", "ERR"} =>
       yylloc.end = pos /\ yytext.end = pos /\ yylloc.begin \in 0 .. (pos - 1)
  /\ token \notin {"NONE", "ERR"} => mode = "INITIAL"
  /\ token = "END" => pos = Len(text) /\ yytext = Location(pos, pos + 1)

\* A name that is not quoted is too long for a keyword, has other bytes than
\* letters, or has been looked up.
NameOK ==
  token = "IDENTIFIER" /\ Byte(yylloc.begin) # Backtick =>
    \/ pos - yylloc.begin > MaxKeyword
    \/ \E i \in yylloc.begin .. (pos - 1) : Byte(i) \notin Letter
    \/ /\ sought = Rank(Bytes(yylloc.begin, pos))
       /\ sought \notin Words(Implemented) \cup Words(Defined)

\* Whoever reports the next error, the first one is to the left of it.
ErrorOK ==
  /\ token # "ERR" /\ verdict \notin {"refused", "too_long"} => err.state = "NONE"
  /\ token = "ERR" \/ verdict \in {"refused", "too_long"} =>
       err.state # "NONE" /\ 0 <= err.pos /\ err.pos <= Len(text) /\ Stop <= Len(text) + 1
  /\ token = "ERR" =>
       /\ Locatable
       /\ \/ err.pos < ErrorLocation.begin
          \/ /\ err.pos = ErrorLocation.begin
             /\ err.len <= ErrorLocation.end - ErrorLocation.begin

\* The tokens of an output lie before the token the parser looks at.
OutputOK ==
  /\ output \in Locations /\ output.end <= pos
  /\ (output.begin = -1 /\ output.end = -1) \/ (0 <= output.begin /\ output.begin < output.end)

LexOK == TypesOK /\ QuoteOK /\ WordOK /\ TokenOK /\ NameOK /\ ErrorOK

\* The lexer reads on, and w is the rule it takes.
Reads(w) ==
  /\ LexOK /\ Reading /\ pos < Len(text) /\ Taken(w)
  /\ pos' = pos + w.len /\ yytext' = here(w)
  /\ UNCHANGED <<text, verdict>>

LEMMA TextIs ==
  ASSUME TypesOK
  PROVE  InText /\ text \in Texts
  BY TextsAssumption DEF TypesOK, InText

\* What reading does in any case.
LEMMA ReadsOn ==
  ASSUME NEW w, Reads(w)
  PROVE  /\ w.len \in Nat /\ w.len <= Len(text) - pos /\ pos \in Nat /\ Len(text) \in Nat /\ pos < Len(text)
         /\ pos' \in 0 .. Len(text') /\ text' = text /\ text' \in Texts /\ pos' = pos + w.len
         /\ yytext' \in Locations /\ yytext'.begin = pos /\ yytext'.end = pos'
         /\ yylloc \in Locations /\ yylloc.end <= pos /\ pos <= pos'
         /\ failed = "none" /\ verdict' = "none" /\ token = "NONE" /\ outcome = "none"
         /\ err.state = "NONE" /\ err.pos \in Int /\ err.len \in Int
         /\ mode \in Modes /\ text \in Seq(0 .. 255)
<1>1. InText
  BY TextIs DEF Reads, LexOK
<1>2. w.len \in Nat /\ pos + w.len <= Len(text) /\ pos \in Nat /\ Len(text) \in Nat /\ pos < Len(text)
  BY <1>1 DEF Reads, Taken, InText
<1>3. yytext' \in Locations /\ yytext'.begin = pos /\ yytext'.end = pos'
  BY <1>2 DEF Reads, here, Location, Locations
<1> QED
  BY <1>1, <1>2, <1>3 DEF Reads, LexOK, TypesOK, ErrorOK, TokenOK, Reading, InText

\* A rule with another name than that for NUL matches something.
LEMMA TakesSomething ==
  ASSUME NEW w, Taken(w), w.name # "LEX_NUL"
  PROVE  w.len > 0
  BY DEF Taken

\* Error rules.
LEMMA MatchErrorKeeps ==
  ASSUME NEW w, Reads(w), MatchError(w)
  PROVE  LexOK'
<1>1. /\ w.len \in Nat /\ w.len <= Len(text) - pos /\ pos \in Nat /\ Len(text) \in Nat /\ pos < Len(text)
      /\ pos' \in 0 .. Len(text') /\ text' = text /\ text' \in Texts /\ pos' = pos + w.len
      /\ yytext' \in Locations /\ yytext'.begin = pos /\ yytext'.end = pos'
      /\ yylloc \in Locations /\ yylloc.end <= pos /\ pos <= pos'
      /\ failed = "none" /\ verdict' = "none" /\ outcome = "none"
      /\ err.state = "NONE" /\ mode \in Modes
  BY ReadsOn
<1>2. /\ err' = [state |-> w.name, pos |-> pos, len |-> w.len] /\ failed' = failed /\ token' = "ERR"
      /\ UNCHANGED <<mode, outcome>> /\ w.name # "NONE"
      /\ yylloc' = IF w.name = "LEX_ILLEGAL_TOKEN" THEN yylloc ELSE yytext'
  <2>1. pos + w.len - pos = w.len
    BY <1>1
  <2>2. here(w) = yytext' /\ w.name # "NONE"
    BY DEF Reads, MatchError, ErrorNames, EncodingErrors
  <2> QED BY <1>1, <2>1, <2>2 DEF MatchError, ReturnError, set_err_state, here, Location, searchVars
<1>3. w.name = "LEX_ILLEGAL_TOKEN" => w.len = 1
  <2> SUFFICES ASSUME w.name = "LEX_ILLEGAL_TOKEN" PROVE w.len = 1
    OBVIOUS
  <2>1. Taken(w)
    BY DEF Reads
  <2>2. w.len = Longest({<<Illegal>>}, pos)
    BY <2>1 DEF Taken, IsErrorRule, IsInitialRule, IsQuotedRule, IsStringRule
  <2>3. w.len > 0
    BY <2>1, TakesSomething
  <2>4. PICK l : l = Longest({<<Illegal>>}, pos)
    OBVIOUS
  <2>5. l \in {0, 1}
    BY <1>1, <2>4, LongestByte
  <2> QED BY <1>1, <2>2, <2>3, <2>4, <2>5
<1>4. Locatable' /\ ErrorLocation' = yytext'
  <2>1. CASE w.name = "LEX_ILLEGAL_TOKEN"
    <3>1. yylloc'.end \in Int /\ yylloc'.end <= pos /\ yytext'.end = pos + 1
      BY <1>1, <1>2, <1>3, <2>1 DEF Locations
    <3> QED BY <1>1, <3>1 DEF Locatable, ErrorLocation
  <2>2. CASE w.name # "LEX_ILLEGAL_TOKEN"
    BY <1>2, <2>2 DEF Locatable, ErrorLocation
  <2> QED BY <2>1, <2>2
<1>5. TypesOK'
  <2>1. yylloc' \in Locations /\ yylloc'.end <= pos'
    <3>1. yylloc.end \in Int /\ pos' \in Int
      BY <1>1 DEF Locations
    <3>2. yylloc' = yylloc \/ yylloc' = yytext'
      BY <1>2
    <3> QED BY <1>1, <3>1, <3>2
  <2>2. failed' = "none" /\ err'.pos \in Int /\ err'.len \in Int /\ mode' \in Modes
    BY <1>1, <1>2
  <2> QED BY <1>1, <2>1, <2>2 DEF TypesOK
<1>6. ErrorOK'
  <2>1. Stop' = pos + w.len
    BY <1>2 DEF Stop
  <2> QED BY <1>1, <1>2, <1>4, <2>1 DEF ErrorOK
<1> QED
  BY <1>1, <1>2, <1>5, <1>6 DEF LexOK, QuoteOK, WordOK, TokenOK, NameOK

\* What stays in its place.
Settled(loc) ==
  /\ loc \in Locations /\ loc.end <= pos'
  /\ failed' = failed /\ err' = err /\ mode' \in Modes

LEMMA ReadKeepsTypes ==
  ASSUME NEW w, Reads(w), Settled(yylloc')
  PROVE  TypesOK'
<1>1. /\ pos' \in 0 .. Len(text') /\ text' \in Texts /\ yytext' \in Locations
      /\ failed = "none" /\ verdict' = "none" /\ err.pos \in Int /\ err.len \in Int
  BY ReadsOn
<1>2. yylloc' \in Locations /\ yylloc'.end <= pos' /\ failed' = failed /\ err' = err /\ mode' \in Modes
  BY DEF Settled
<1> QED
  BY <1>1, <1>2 DEF TypesOK

LEMMA ReadKeepsError ==
  ASSUME NEW w, Reads(w), err' = err, token' # "ERR"
  PROVE  ErrorOK'
<1>1. err.state = "NONE" /\ verdict' = "none"
  BY ReadsOn
<1> QED
  BY <1>1 DEF ErrorOK

\* White space.
LEMMA SkipKeeps ==
  ASSUME NEW w, Reads(w), Skip(w)
  PROVE  LexOK'
<1>1. /\ token' = "NONE" /\ yylloc' = yylloc /\ mode' = mode /\ outcome' = outcome /\ outcome = "none"
      /\ err' = err /\ failed' = failed /\ text' = text /\ verdict' = "none"
  BY ReadsOn DEF Skip, Return, searchVars
<1>2. /\ yylloc \in Locations /\ yylloc.end <= pos /\ pos <= pos' /\ pos \in Nat /\ pos' \in Nat
      /\ mode \in Modes
  BY ReadsOn
<1>3. Settled(yylloc')
  <2>1. yylloc.end \in Int
    BY <1>2 DEF Locations
  <2> QED BY <1>1, <1>2, <2>1 DEF Settled
<1>4. QuoteOK'
  <2>1. mode # "INITIAL" =>
          /\ yylloc.begin \in 0 .. (pos - 1)
          /\ Byte(yylloc.begin) = IF mode = "QUOTED_IDENTIFIER" THEN Backtick ELSE Apostrophe
    BY ReadsOn DEF Reads, LexOK, QuoteOK
  <2> QED BY <1>1, <1>2, <2>1 DEF QuoteOK, Byte
<1> QED
  BY <1>1, <1>3, <1>4, ReadKeepsTypes, ReadKeepsError DEF LexOK, WordOK, TokenOK, NameOK

\* A token where it stands.
LEMMA TokenRead ==
  ASSUME NEW w, Reads(w), w.len > 0, mode = "INITIAL", yylloc' = here(w),
         UNCHANGED <<err, failed, mode, outcome>>,
         token' \in {"INT", "FLOAT", "OPERATOR", "IDENTIFIER"}, NameOK'
  PROVE  LexOK'
<1>1. /\ w.len \in Nat /\ pos \in Nat /\ pos' = pos + w.len /\ pos' \in Nat
      /\ yytext' \in Locations /\ yytext'.begin = pos /\ yytext'.end = pos'
      /\ mode \in Modes /\ outcome = "none" /\ verdict' = "none"
  BY ReadsOn
<1>2. yylloc' = yytext'
  BY DEF Reads
<1>3. Settled(yylloc')
  BY <1>1, <1>2 DEF Settled
<1>4. TokenOK'
  <2>1. pos \in 0 .. (pos' - 1)
    BY <1>1
  <2> QED BY <1>1, <1>2, <2>1 DEF TokenOK
<1> QED
  BY <1>1, <1>3, <1>4, ReadKeepsTypes, ReadKeepsError DEF LexOK, WordOK, QuoteOK

\* Numbers and operators.
LEMMA MatchNumberKeeps ==
  ASSUME NEW w, Reads(w), MatchNumber(w)
  PROVE  LexOK'
<1>1. /\ token' \in {"INT", "FLOAT"} /\ yylloc' = here(w) /\ UNCHANGED <<err, failed, mode, outcome>>
      /\ w.name \in {"INT", "FLOAT", "OPERATOR"}
  BY DEF MatchNumber, Return, searchVars
<1>2. w.len > 0 /\ NameOK' /\ Taken(w)
  BY <1>1, TakesSomething DEF Reads, NameOK
<1>3. mode = "INITIAL"
  BY <1>1, <1>2 DEF Taken, IsErrorRule, IsQuotedRule, IsStringRule
<1> QED
  BY <1>1, <1>2, <1>3, TokenRead

LEMMA MatchOperatorKeeps ==
  ASSUME NEW w, Reads(w), MatchOperator(w)
  PROVE  LexOK'
<1>1. /\ token' = "OPERATOR" /\ yylloc' = here(w) /\ UNCHANGED <<err, failed, mode, outcome>>
      /\ w.name \in {"INT", "FLOAT", "OPERATOR"}
  BY DEF MatchOperator, Return, searchVars
<1>2. w.len > 0 /\ NameOK' /\ Taken(w)
  BY <1>1, TakesSomething DEF Reads, NameOK
<1>3. mode = "INITIAL"
  BY <1>1, <1>2 DEF Taken, IsErrorRule, IsQuotedRule, IsStringRule
<1> QED
  BY <1>1, <1>2, <1>3, TokenRead

\* A word is looked up.
LEMMA MatchWordKeeps ==
  ASSUME NEW w, Reads(w), MatchWord(w)
  PROVE  LexOK'
<1>1. /\ token' = "NONE" /\ yylloc' = here(w) /\ UNCHANGED <<err, failed, mode>>
      /\ w.name = "WORD" /\ sought' = Rank(matched(w)) /\ outcome' = "searching"
  BY DEF MatchWord, Return, Begin
<1>2. /\ w.len \in Nat /\ pos \in Nat /\ pos' = pos + w.len /\ pos' \in Nat /\ text' = text
      /\ yytext' \in Locations /\ yytext'.begin = pos /\ yytext'.end = pos'
      /\ mode \in Modes /\ verdict' = "none"
  BY ReadsOn
<1>3. Taken(w) /\ yylloc' = yytext' /\ InText
  BY <1>1, TextIs DEF Reads, LexOK
<1>4. mode = "INITIAL" /\ w.len = WordLength
  BY <1>1, <1>3 DEF Taken, IsErrorRule, IsInitialRule, IsQuotedRule, IsStringRule
<1>5. w.len > 0 /\ w.len <= MaxKeyword /\ \A i \in pos .. (pos + w.len - 1) : Byte(i) \in Letter
  BY <1>1, <1>3, <1>4, TakesSomething, WordLengthIs
<1>6. Settled(yylloc')
  BY <1>1, <1>2, <1>3 DEF Settled
<1>7. WordOK'
  <2>1. pos \in 0 .. (pos' - 1) /\ pos' - pos <= MaxKeyword /\ pos' - 1 = pos + w.len - 1
    BY <1>2, <1>5, LimitsAssumption
  <2>2. \A i \in pos .. (pos' - 1) : Byte(i)' \in Letter
    BY <1>2, <1>5, <2>1 DEF Byte
  <2>3. yylloc'.begin = pos
    BY <1>2, <1>3
  <2>4. Bytes(yylloc.begin, pos)' = matched(w)
    BY <1>2, <2>3 DEF Bytes, matched
  <2>5. sought' = Rank(Bytes(yylloc.begin, pos))'
    BY <1>1, <2>4 DEF Rank, Upper
  <2> QED BY <1>1, <1>2, <1>3, <1>4, <2>1, <2>2, <2>3, <2>5 DEF WordOK
<1> QED
  BY <1>1, <1>2, <1>4, <1>6, <1>7, ReadKeepsTypes, ReadKeepsError DEF LexOK, QuoteOK, TokenOK, NameOK

\* What the last match completes is too long.
LEMMA TooLongKeeps ==
  ASSUME NEW w, Reads(w), NEW b, b \in 0 .. pos, yylloc' = Location(b, pos'),
         err' = [state |-> "LEX_TOO_LONG_IDENTIFIER", pos |-> b, len |-> pos' - b],
         token' = "ERR", UNCHANGED <<failed, outcome>>, mode' \in Modes
  PROVE  LexOK'
<1>1. /\ pos \in Nat /\ Len(text) \in Nat /\ pos < Len(text) /\ pos <= pos' /\ text' = text
      /\ pos' \in 0 .. Len(text') /\ text' \in Texts
      /\ yytext' \in Locations /\ yytext'.begin = pos /\ yytext'.end = pos'
      /\ failed = "none" /\ verdict' = "none" /\ outcome = "none"
  BY ReadsOn
<1>2. pos' \in Nat /\ pos' <= Len(text)
  BY <1>1
<1>3. yylloc' \in Locations /\ yylloc'.begin = b /\ yylloc'.end = pos'
  BY <1>2 DEF Location, Locations
<1>4. TypesOK'
  <2>1. err'.pos \in Int /\ err'.len \in Int
    BY <1>1, <1>2
  <2>2. yylloc'.end <= pos'
    BY <1>2, <1>3
  <2> QED BY <1>1, <1>3, <2>1, <2>2 DEF TypesOK
<1>5. ErrorOK'
  <2>1. Stop' = pos' /\ pos' \in Int
    <3>1. b \in Int /\ err'.pos = b /\ err'.len = pos' - b
      BY <1>1, <1>2
    <3>2. \A x, y \in Int : x + (y - x) = y
      OBVIOUS
    <3>3. pos' \in Int
      BY <1>2
    <3>4. PICK c : c = pos' - b
      OBVIOUS
    <3>5. b + c = pos'
      BY <3>1, <3>2, <3>3, <3>4, Zenon
    <3> QED BY <3>1, <3>3, <3>4, <3>5 DEF Stop
  <2>2. Locatable' /\ ErrorLocation' = yylloc'
    BY <1>1, <1>3 DEF Locatable, ErrorLocation
  <2>3. err'.pos = ErrorLocation'.begin /\ err'.len <= ErrorLocation'.end - ErrorLocation'.begin
    BY <1>2, <1>3, <2>2
  <2>4. 0 <= err'.pos /\ err'.pos <= Len(text') /\ Stop' <= Len(text') + 1 /\ err'.state # "NONE"
    BY <1>1, <1>2, <2>1
  <2> QED BY <1>1, <2>2, <2>3, <2>4 DEF ErrorOK
<1> QED
  BY <1>1, <1>4, <1>5 DEF LexOK, QuoteOK, WordOK, TokenOK, NameOK

\* Names without quotes.
LEMMA MatchIdentifierKeeps ==
  ASSUME NEW w, Reads(w), MatchIdentifier(w)
  PROVE  LexOK'
<1>1. /\ w.len \in Nat /\ pos \in Nat /\ pos' = pos + w.len /\ pos' \in Nat /\ text' = text
      /\ yytext' \in Locations /\ yytext'.begin = pos /\ yytext'.end = pos'
      /\ mode \in Modes /\ pos \in 0 .. pos /\ pos <= pos' /\ err.state = "NONE"
      /\ Len(text) \in Nat /\ w.len <= Len(text) - pos
  BY ReadsOn
<1>2. /\ w.name = "IDENTIFIER" /\ UNCHANGED <<mode, outcome>> /\ yylloc' = here(w) /\ here(w) = yytext'
      /\ Taken(w) /\ InText
  BY TextIs DEF MatchIdentifier, Reads, LexOK, searchVars
<1>3. yytext' = Location(pos, pos')
  BY <1>1, <1>2 DEF here
<1>4. CASE w.len > MaxName
  <2>1. set_err_state("LEX_TOO_LONG_IDENTIFIER", here(w)) /\ token' = "ERR"
    BY <1>4 DEF MatchIdentifier, ReturnError
  <2>2. /\ err' = [state |-> "LEX_TOO_LONG_IDENTIFIER", pos |-> pos, len |-> pos' - pos]
        /\ failed' = failed
    BY <1>1, <1>2, <2>1 DEF set_err_state
  <2> QED BY <1>1, <1>2, <1>3, <2>1, <2>2, TooLongKeeps
<1>5. CASE ~(w.len > MaxName)
  <2>1. token' = "IDENTIFIER" /\ UNCHANGED <<err, failed>>
    BY <1>5 DEF MatchIdentifier, Return
  <2>2. w.len > 0 /\ WordLength < w.len
    BY <1>2, TakesSomething DEF Taken
  <2>3. NameOK'
    <3>1. yylloc'.begin = pos
      BY <1>1, <1>2
    <3>2. CASE w.len > MaxKeyword
      BY <1>1, <3>1, <3>2 DEF NameOK
    <3>3. CASE ~(w.len > MaxKeyword)
      <4>1. PICK n : n = WordLength
        OBVIOUS
      <4>2. n \in Nat /\ n < MaxKeyword /\ pos + n < Len(text)
        BY <1>1, <1>2, <2>2, <3>3, <4>1, WordLengthIs, LimitsAssumption
      <4>3. Byte(pos + n) \notin Letter
        BY <1>2, <4>1, <4>2, WordLengthIs
      <4>4. \E i \in pos .. (pos' - 1) : text'[i + 1] \notin Letter
        BY <1>1, <2>2, <4>1, <4>2, <4>3 DEF Byte
      <4> QED BY <3>1, <4>4 DEF NameOK, Byte
    <3> QED BY <3>2, <3>3
  <2>4. mode = "INITIAL"
    BY <1>2 DEF Taken, IsErrorRule, IsQuotedRule, IsStringRule
  <2> QED BY <1>2, <2>1, <2>2, <2>3, <2>4, TokenRead
<1> QED
  BY <1>4, <1>5

\* A quote opens.
LEMMA OpenKeeps ==
  ASSUME NEW w, Reads(w), Open(w)
  PROVE  LexOK'
<1>1. /\ w.len \in Nat /\ pos \in Nat /\ pos' = pos + w.len /\ pos' \in Nat /\ text' = text
      /\ yylloc \in Locations /\ yylloc.end <= pos /\ verdict' = "none" /\ outcome = "none"
  BY ReadsOn
<1>2. /\ w.name = "OPEN" /\ token' = "NONE" /\ UNCHANGED <<err, failed, outcome>>
      /\ mode' = (IF Byte(pos) = Backtick THEN "QUOTED_IDENTIFIER" ELSE "SINGLE_QUOTED_STRING")
      /\ yylloc' = [yylloc EXCEPT !.begin = pos]
  BY DEF Open, Return, searchVars
<1>3. Taken(w)
  BY DEF Reads
<1>4. w.len = Longest({<<{Backtick, Apostrophe}>>}, pos) /\ w.len > 0
  BY <1>2, <1>3, TakesSomething DEF Taken, IsErrorRule, IsInitialRule, IsQuotedRule, IsStringRule
<1>5. Byte(pos) \in {Backtick, Apostrophe}
  <2>1. PICK l : l = Longest({<<{Backtick, Apostrophe}>>}, pos)
    OBVIOUS
  <2>2. l \in {0, 1} /\ (l = 1 => Byte(pos) \in {Backtick, Apostrophe})
    BY <1>1, <2>1, LongestByte
  <2> QED BY <1>4, <2>1, <2>2
<1>6. yylloc' \in Locations /\ yylloc'.begin = pos /\ yylloc'.end = yylloc.end /\ yylloc.end \in Int
  BY <1>1, <1>2 DEF Locations
<1>7. Settled(yylloc')
  BY <1>1, <1>2, <1>6 DEF Settled, Modes
<1>8. QuoteOK'
  <2>1. pos \in 0 .. (pos' - 1)
    BY <1>1, <1>4
  <2>2. Byte(pos)' = text'[pos' + 1]
    BY DEF Byte
  <2>3. text'[pos + 1] = Byte(pos)
    BY <1>1 DEF Byte
  <2>4. Byte(pos) = IF mode' = "QUOTED_IDENTIFIER" THEN Backtick ELSE Apostrophe
    BY <1>2, <1>5
  <2> QED BY <1>6, <2>1, <2>3, <2>4 DEF QuoteOK, Byte
<1> QED
  BY <1>1, <1>2, <1>7, <1>8, ReadKeepsTypes, ReadKeepsError DEF LexOK, WordOK, TokenOK, NameOK

\* Something in quotes.
LEMMA ConcatenateKeeps ==
  ASSUME NEW w, Reads(w), Concatenate(w)
  PROVE  LexOK'
<1>1. /\ token' = "NONE" /\ yylloc' = yylloc /\ mode' = mode /\ outcome' = outcome /\ outcome = "none"
      /\ err' = err /\ failed' = failed /\ text' = text /\ verdict' = "none"
  BY ReadsOn DEF Concatenate, Return, searchVars
<1>2. /\ yylloc \in Locations /\ yylloc.end <= pos /\ pos <= pos' /\ pos \in Nat /\ pos' \in Nat
      /\ mode \in Modes
  BY ReadsOn
<1>3. Settled(yylloc')
  <2>1. yylloc.end \in Int
    BY <1>2 DEF Locations
  <2> QED BY <1>1, <1>2, <2>1 DEF Settled
<1>4. QuoteOK'
  <2>1. mode # "INITIAL" =>
          /\ yylloc.begin \in 0 .. (pos - 1)
          /\ Byte(yylloc.begin) = IF mode = "QUOTED_IDENTIFIER" THEN Backtick ELSE Apostrophe
    BY ReadsOn DEF Reads, LexOK, QuoteOK
  <2> QED BY <1>1, <1>2, <2>1 DEF QuoteOK, Byte
<1> QED
  BY <1>1, <1>3, <1>4, ReadKeepsTypes, ReadKeepsError DEF LexOK, WordOK, TokenOK, NameOK

\* A quote closes.
LEMMA CloseKeeps ==
  ASSUME NEW w, Reads(w), Close(w)
  PROVE  LexOK'
<1>1. /\ w.len \in Nat /\ pos \in Nat /\ pos' = pos + w.len /\ pos' \in Nat /\ text' = text
      /\ yylloc \in Locations /\ verdict' = "none" /\ outcome = "none" /\ err.state = "NONE"
      /\ yytext' \in Locations /\ yytext'.end = pos' /\ mode \in Modes
  BY ReadsOn
<1>2. /\ w.name = "CLOSE" /\ mode' = "INITIAL" /\ yylloc' = [yylloc EXCEPT !.end = pos + 1]
      /\ UNCHANGED outcome
  BY DEF Close, searchVars
<1>3. Taken(w) /\ w.len > 0
  BY <1>2, TakesSomething DEF Reads
<1>4. /\ mode = "QUOTED_IDENTIFIER" => w.len = Longest({<<{Backtick}>>}, pos)
      /\ mode # "QUOTED_IDENTIFIER" => w.len = Longest({<<{Apostrophe}>>}, pos)
      /\ mode # "INITIAL"
  BY <1>2, <1>3 DEF Taken, IsErrorRule, IsInitialRule, IsQuotedRule, IsStringRule
<1>5. w.len = 1
  <2>1. PICK l : l = Longest({<<{Backtick}>>}, pos)
    OBVIOUS
  <2>2. PICK m : m = Longest({<<{Apostrophe}>>}, pos)
    OBVIOUS
  <2>3. l \in {0, 1} /\ m \in {0, 1}
    BY <1>1, <2>1, <2>2, LongestByte
  <2> QED BY <1>3, <1>4, <2>1, <2>2, <2>3
<1>6. /\ yylloc.begin \in 0 .. (pos - 1)
      /\ Byte(yylloc.begin) = IF mode = "QUOTED_IDENTIFIER" THEN Backtick ELSE Apostrophe
  BY <1>4, ReadsOn DEF Reads, LexOK, QuoteOK
<1>7. yylloc' \in Locations /\ yylloc'.begin = yylloc.begin /\ yylloc'.end = pos' /\ pos' = pos + 1
  BY <1>1, <1>2, <1>5 DEF Locations
<1>8. CASE mode = "QUOTED_IDENTIFIER" /\ Len(value) > MaxName
  <2>1. set_err_state("LEX_TOO_LONG_IDENTIFIER", yylloc') /\ token' = "ERR"
    BY <1>8 DEF Close, ReturnError
  <2>2. /\ err' = [state |-> "LEX_TOO_LONG_IDENTIFIER", pos |-> yylloc.begin, len |-> pos' - yylloc.begin]
        /\ failed' = failed
    BY <1>1, <1>7, <2>1 DEF set_err_state
  <2>3. yylloc' = Location(yylloc.begin, pos') /\ yylloc.begin \in 0 .. pos
    BY <1>1, <1>6, <1>7 DEF Location, Locations
  <2> QED BY <1>1, <1>2, <2>1, <2>2, <2>3, TooLongKeeps DEF Modes
<1>9. CASE ~(mode = "QUOTED_IDENTIFIER" /\ Len(value) > MaxName)
  <2>1. /\ token' = (IF mode = "QUOTED_IDENTIFIER" THEN "IDENTIFIER" ELSE "STRING")
        /\ UNCHANGED <<err, failed>>
    BY <1>9 DEF Close, Return
  <2>2. Settled(yylloc')
    BY <1>1, <1>2, <1>7, <2>1 DEF Settled, Modes
  <2>3. TokenOK'
    <3>1. yylloc.begin \in 0 .. (pos' - 1)
      BY <1>1, <1>6, <1>7
    <3> QED BY <1>1, <1>2, <1>7, <2>1, <3>1 DEF TokenOK
  <2>4. NameOK'
    <3>1. token' = "IDENTIFIER" => Byte(yylloc.begin) = Backtick
      BY <1>6, <2>1
    <3>2. Byte(yylloc.begin)' = Byte(yylloc.begin)
      BY <1>1, <1>7 DEF Byte
    <3> QED BY <3>1, <3>2 DEF NameOK
  <2> QED
    BY <1>1, <1>2, <2>1, <2>2, <2>3, <2>4, ReadKeepsTypes, ReadKeepsError DEF LexOK, QuoteOK, WordOK
<1> QED
  BY <1>8, <1>9

\* A rule is taken.
LEMMA ReadKeeps ==
  ASSUME LexOK, SearchInv, Read
  PROVE  LexOK' /\ SearchInv'
<1>1. PICK w : w = Winner
  OBVIOUS
<1>2. InText /\ mode \in Modes
  BY TextIs DEF LexOK, TypesOK
<1>3. Taken(w)
  BY <1>1, <1>2, WinnerIsTaken
<1>4. /\ Reads(w)
      /\ \/ MatchError(w) \/ Skip(w) \/ MatchNumber(w) \/ MatchOperator(w) \/ MatchWord(w)
         \/ MatchIdentifier(w) \/ Open(w) \/ Concatenate(w) \/ Close(w)
  BY <1>1, <1>3 DEF Read, Reads
<1>5. LexOK'
  BY <1>4, MatchErrorKeeps, SkipKeeps, MatchNumberKeeps, MatchOperatorKeeps, MatchWordKeeps,
     MatchIdentifierKeeps, OpenKeeps, ConcatenateKeeps, CloseKeeps
<1>6. SearchInv'
  <2>1. CASE UNCHANGED searchVars
    BY <2>1 DEF SearchInv, WithinTable, NothingMissed, FirstTableDone, SearchIsExact, searchVars,
                Table, Words
  <2>2. CASE MatchWord(w)
    <3>1. w.name = "WORD" /\ Begin(Rank(matched(w))) /\ Taken(w)
      BY <2>2, <1>3 DEF MatchWord
    <3>2. mode = "INITIAL" /\ w.len = WordLength /\ w.len > 0
      BY <3>1, TakesSomething DEF Taken, IsErrorRule, IsInitialRule, IsQuotedRule, IsStringRule
    <3>3. PICK n : n = w.len
      OBVIOUS
    <3>4. /\ n \in Nat /\ n > 0 /\ n <= MaxKeyword /\ pos + n <= Len(text) /\ pos \in Nat
          /\ \A i \in pos .. (pos + n - 1) : Byte(i) \in Letter
          /\ text \in Texts /\ text \in Seq(0 .. 255)
      BY <1>2, <3>2, <3>3, WordLengthIs, TextIs DEF LexOK, InText
    <3>5. \E d \in DOMAIN Dictionary : Dictionary[d] = Upper(SubSeq(text, pos + 1, pos + n))
      <4>1. pos + 1 \in DOMAIN text /\ pos + n \in DOMAIN text
        BY <3>4
      <4>2. pos + 1 <= pos + n /\ pos + n < pos + 1 + MaxKeyword
        BY <3>4, LimitsAssumption
      <4>3. \A k \in (pos + 1) .. (pos + n) : text[k] \in Letter
        <5> SUFFICES ASSUME NEW k \in (pos + 1) .. (pos + n) PROVE text[k] \in Letter
          OBVIOUS
        <5>1. k - 1 \in pos .. (pos + n - 1) /\ k - 1 + 1 = k
          BY <3>4
        <5> QED BY <3>4, <5>1 DEF Byte
      <4> QED BY <3>4, <4>1, <4>2, <4>3, DictionaryAssumption
    <3>6. matched(w) = SubSeq(text, pos + 1, pos + n)
      BY <3>3 DEF matched, Bytes
    <3>7. Rank(matched(w)) \in DOMAIN Dictionary
      BY <3>5, <3>6 DEF Rank
    <3>8. Rank(matched(w)) \in Nat
      BY <3>7, DictionaryAssumption
    <3> QED BY <3>1, <3>8, BeginKeeps
  <2> QED
    BY <1>4, <2>1, <2>2 DEF MatchError, Skip, MatchNumber, MatchOperator, MatchIdentifier, Open,
                            Concatenate, Close
<1> QED BY <1>5, <1>6

\* A comparison of the search.
LEMMA SearchKeeps ==
  ASSUME LexOK, SearchInv, Search
  PROVE  LexOK' /\ SearchInv'
<1>1. SearchInv'
  BY LeftKeeps, RightKeeps, FoundKeeps, NextTableKeeps, NotFoundKeeps DEF Search, SearchStep
<1>2. UNCHANGED <<yytext, yylloc, err, failed, text, pos, mode, value, token, verdict>>
  BY DEF Search, errorVars, lexerVars
<1>3. outcome # "none" /\ sought' = sought
  BY DEF Search, SearchStep, LookLeft, LookRight, Searching, Found, NextTable, NotFound
<1>4. WordOK' /\ token = "NONE"
  <2>1. (Rank(Bytes(yylloc.begin, pos)))' = Rank(Bytes(yylloc.begin, pos))
    BY <1>2 DEF Rank, Upper, Bytes
  <2>2. \A i \in yylloc.begin .. (pos - 1) : text'[i + 1] \in Letter
    BY <1>2, <1>3 DEF LexOK, WordOK, Byte
  <2>3. /\ mode = "INITIAL" /\ token = "NONE" /\ verdict = "none"
        /\ yytext = yylloc /\ yylloc.end = pos /\ yylloc.begin \in 0 .. (pos - 1)
        /\ pos - yylloc.begin <= MaxKeyword
        /\ sought = Rank(Bytes(yylloc.begin, pos))
    BY <1>3 DEF LexOK, WordOK
  <2> QED BY <1>2, <1>3, <2>1, <2>2, <2>3 DEF WordOK, Byte
<1>5. TypesOK' /\ QuoteOK' /\ TokenOK' /\ ErrorOK'
  BY <1>2 DEF LexOK, TypesOK, QuoteOK, TokenOK, ErrorOK, Byte, Stop, Locatable, ErrorLocation
<1>6. NameOK'
  BY <1>2, <1>4 DEF NameOK
<1> QED BY <1>1, <1>4, <1>5, <1>6 DEF LexOK

\* The word has been found, or has not.
LEMMA WordFoundKeeps ==
  ASSUME LexOK, SearchInv, WordFound
  PROVE  LexOK' /\ SearchInv'
<1>1. /\ UNCHANGED <<sought, list, low, high, yytext, yylloc, text, pos, mode, verdict>>
      /\ outcome' = "none" /\ outcome \in {"keyword", "unimplemented", "identifier"}
  BY DEF WordFound
<1>2. SearchInv'
  BY <1>1 DEF SearchInv, WithinTable, NothingMissed, FirstTableDone, SearchIsExact, Outcomes
<1>3. /\ mode = "INITIAL" /\ token = "NONE" /\ verdict = "none" /\ err.state = "NONE" /\ failed = "none"
      /\ yytext = yylloc /\ yylloc.end = pos /\ yylloc.begin \in 0 .. (pos - 1)
      /\ sought = Rank(Bytes(yylloc.begin, pos))
      /\ pos \in 0 .. Len(text) /\ Len(text) \in Nat /\ err.pos \in Int /\ err.len \in Int
      /\ text \in Texts /\ yylloc \in Locations
  <2>1. InText
    BY TextIs DEF LexOK
  <2> QED BY <1>1, <2>1 DEF LexOK, WordOK, ErrorOK, TypesOK, InText
<1>4. QuoteOK' /\ WordOK'
  BY <1>1, <1>3 DEF QuoteOK, WordOK
<1>5. CASE outcome = "unimplemented"
  <2>1. set_err_state("LEX_UNIMPLEMENTED_KEYWORD", yylloc) /\ token' = "ERR"
    BY <1>5 DEF WordFound, ReturnError
  <2>2. PICK b : b = yylloc.begin
    OBVIOUS
  <2>3. b \in Int /\ 0 <= b /\ b < pos /\ pos \in Int /\ pos <= Len(text)
    BY <1>3, <2>2
  <2>4. err' = [state |-> "LEX_UNIMPLEMENTED_KEYWORD", pos |-> b, len |-> pos - b] /\ failed' = failed
    BY <1>3, <2>1, <2>2 DEF set_err_state
  <2>5. TypesOK'
    BY <1>1, <1>3, <2>3, <2>4 DEF TypesOK, LexOK
  <2>6. Stop' = pos
    <3>1. PICK c : c = pos - b
      OBVIOUS
    <3>2. b + c = pos
      BY <2>3, <3>1
    <3> QED BY <2>4, <3>1, <3>2 DEF Stop
  <2>7. Locatable' /\ ErrorLocation' = yylloc
    BY <1>1, <1>3 DEF Locatable, ErrorLocation
  <2>8. ErrorOK'
    <3>1. err'.len <= yylloc.end - yylloc.begin
      BY <1>3, <2>2, <2>3, <2>4
    <3>2. err'.pos <= Len(text') /\ Stop' <= Len(text') + 1
      BY <1>1, <1>3, <2>3, <2>4, <2>6
    <3> QED BY <1>1, <1>3, <2>1, <2>2, <2>3, <2>4, <2>7, <3>1, <3>2 DEF ErrorOK
  <2> QED
    BY <1>1, <1>2, <1>3, <1>4, <2>1, <2>5, <2>8 DEF LexOK, TokenOK, NameOK
<1>6. CASE outcome \in {"keyword", "identifier"}
  <2>1. /\ token' = (IF outcome = "keyword" THEN "KEYWORD" ELSE "IDENTIFIER")
        /\ UNCHANGED <<err, failed>>
    BY <1>6 DEF WordFound, Return
  <2>2. TypesOK'
    BY <1>1, <1>3, <2>1 DEF LexOK, TypesOK
  <2>3. TokenOK' /\ ErrorOK'
    BY <1>1, <1>3, <2>1 DEF TokenOK, ErrorOK
  <2>4. NameOK'
    <3>1. outcome = "identifier" => sought \notin Words(Implemented) \cup Words(Defined)
      BY DEF SearchInv, SearchIsExact
    <3>2. (Rank(Bytes(yylloc.begin, pos)))' = Rank(Bytes(yylloc.begin, pos))
      BY <1>1 DEF Rank, Upper, Bytes
    <3>3. outcome = "identifier" =>
            /\ sought' = (Rank(Bytes(yylloc.begin, pos)))'
            /\ sought' \notin Words(Implemented) \cup Words(Defined)
      BY <1>1, <1>3, <3>1, <3>2
    <3> QED BY <1>6, <2>1, <3>3 DEF NameOK
  <2> QED BY <1>2, <1>4, <2>2, <2>3, <2>4 DEF LexOK
<1> QED BY <1>1, <1>5, <1>6

\* The end of the text.
LEMMA ReadEndKeeps ==
  ASSUME LexOK, SearchInv, ReadEnd
  PROVE  LexOK' /\ SearchInv'
<1>1. /\ UNCHANGED <<text, pos, mode, value, verdict, sought, list, low, high, outcome>>
      /\ yytext' = Location(pos, pos + 1) /\ pos = Len(text) /\ Reading
  BY DEF ReadEnd, searchVars
<1>2. SearchInv'
  BY <1>1 DEF SearchInv, WithinTable, NothingMissed, FirstTableDone, SearchIsExact, Table, Words
<1>3. /\ text \in Texts /\ pos \in Nat /\ pos \in 0 .. Len(text) /\ mode \in Modes /\ verdict = "none"
      /\ failed = "none" /\ token = "NONE" /\ outcome = "none" /\ err.state = "NONE"
      /\ err.pos \in Int /\ err.len \in Int /\ yylloc \in Locations /\ yylloc.end <= pos
  <2>1. InText
    BY TextIs DEF LexOK
  <2> QED BY <1>1, <2>1 DEF LexOK, ErrorOK, TypesOK, InText, Reading
<1>4. yytext' \in Locations /\ yytext'.begin = pos /\ yytext'.end = pos + 1
  BY <1>1, <1>3 DEF Location, Locations
<1>5. yylloc.begin \in Int /\ yylloc.end \in Int
  BY <1>3 DEF Locations
<1>6. CASE mode = "INITIAL"
  <2>1. token' = "END" /\ UNCHANGED <<err, failed, yylloc>>
    BY <1>6 DEF ReadEnd, Return
  <2>2. TypesOK'
    BY <1>1, <1>3, <1>4, <2>1 DEF TypesOK
  <2> QED
    BY <1>1, <1>2, <1>3, <1>6, <2>1, <2>2 DEF LexOK, QuoteOK, WordOK, TokenOK, NameOK, ErrorOK
<1>7. CASE mode # "INITIAL"
  <2>1. PICK s : s = IF mode = "QUOTED_IDENTIFIER" THEN "LEX_UNEXPECTED_EOI_IN_QUOTED_IDENTIFIER"
                     ELSE "LEX_UNEXPECTED_EOI_IN_SINGLE_QUOTED_STRING"
    OBVIOUS
  <2>2. /\ set_err_state(s, yylloc') /\ token' = "ERR" /\ s # "NONE"
        /\ yylloc' = [yylloc EXCEPT !.end = pos]
    BY <1>7, <2>1 DEF ReadEnd, ReturnError
  <2>3. PICK b : b = yylloc.begin
    OBVIOUS
  <2>4. b \in Int /\ 0 <= b /\ b < pos
    BY <1>3, <1>7, <2>3 DEF LexOK, QuoteOK
  <2>5. yylloc' \in Locations /\ yylloc'.begin = b /\ yylloc'.end = pos
    BY <1>3, <1>5, <2>2, <2>3 DEF Locations
  <2>6. err' = [state |-> s, pos |-> b, len |-> pos - b] /\ failed' = failed
    BY <1>3, <2>2, <2>5 DEF set_err_state
  <2>7. TypesOK'
    BY <1>1, <1>3, <1>4, <2>4, <2>5, <2>6 DEF TypesOK
  <2>8. Stop' = pos
    <3>1. PICK c : c = pos - b
      OBVIOUS
    <3>2. b + c = pos
      BY <1>3, <2>4, <3>1
    <3> QED BY <2>6, <3>1, <3>2 DEF Stop
  <2>9. Locatable' /\ ErrorLocation'.begin = pos
    BY <1>3, <1>4, <2>5 DEF Locatable, ErrorLocation
  <2>10. ErrorOK'
    <3>1. err'.pos <= Len(text') /\ Stop' <= Len(text') + 1 /\ err'.pos < ErrorLocation'.begin
      BY <1>1, <1>3, <2>4, <2>6, <2>8, <2>9
    <3> QED BY <1>1, <1>3, <2>2, <2>4, <2>6, <2>9, <3>1 DEF ErrorOK
  <2> QED
    BY <1>1, <1>2, <1>3, <2>2, <2>7, <2>10 DEF LexOK, QuoteOK, WordOK, TokenOK, NameOK
<1> QED BY <1>6, <1>7

\* What neither lexer nor search touches.
LEMMA SearchRests ==
  ASSUME SearchInv, UNCHANGED searchVars
  PROVE  SearchInv'
  BY DEF SearchInv, WithinTable, NothingMissed, FirstTableDone, SearchIsExact, searchVars, Table, Words

LEMMA NameRests ==
  ASSUME NameOK, UNCHANGED <<token, yylloc, pos, text, sought>>
  PROVE  NameOK'
<1>1. (Rank(Bytes(yylloc.begin, pos)))' = Rank(Bytes(yylloc.begin, pos))
  BY DEF Rank, Upper, Bytes
<1>2. (Byte(yylloc.begin))' = Byte(yylloc.begin)
  BY DEF Byte
<1>3. CASE ~(token = "IDENTIFIER" /\ Byte(yylloc.begin) # Backtick)
  BY <1>2, <1>3 DEF NameOK
<1>4. CASE pos - yylloc.begin > MaxKeyword
  BY <1>4 DEF NameOK
<1>5. CASE \E i \in yylloc.begin .. (pos - 1) : Byte(i) \notin Letter
  <2>1. \E i \in yylloc.begin .. (pos - 1) : text'[i + 1] \notin Letter
    BY <1>5 DEF Byte
  <2> QED BY <2>1 DEF NameOK, Byte
<1>6. CASE /\ sought = Rank(Bytes(yylloc.begin, pos))
           /\ sought \notin Words(Implemented) \cup Words(Defined)
  <2>1. /\ sought' = (Rank(Bytes(yylloc.begin, pos)))'
        /\ sought' \notin Words(Implemented) \cup Words(Defined)
    BY <1>1, <1>6
  <2> QED BY <2>1 DEF NameOK
<1> QED BY <1>3, <1>4, <1>5, <1>6 DEF NameOK

\* A report touches neither of them; nor does a step that is none.
LEMMA ReportKeeps ==
  ASSUME LexOK, SearchInv, UNCHANGED <<errorVars, searchVars, lexerVars>>
  PROVE  LexOK' /\ SearchInv'
<1>1. UNCHANGED <<yytext, yylloc, err, failed, text, pos, mode, value, token, verdict, outcome, sought>>
  BY DEF errorVars, lexerVars, searchVars
<1>2. TypesOK' /\ QuoteOK' /\ TokenOK' /\ ErrorOK'
  BY <1>1 DEF LexOK, TypesOK, QuoteOK, TokenOK, ErrorOK, Byte, Stop, Locatable, ErrorLocation
<1>3. NameOK'
  BY <1>1, NameRests DEF LexOK
<1>4. WordOK'
  <2>1. CASE outcome = "none"
    BY <1>1, <2>1 DEF WordOK
  <2>2. CASE outcome # "none"
    <3>1. (Rank(Bytes(yylloc.begin, pos)))' = Rank(Bytes(yylloc.begin, pos))
      BY <1>1 DEF Rank, Upper, Bytes
    <3>2. \A i \in yylloc.begin .. (pos - 1) : text'[i + 1] \in Letter
      BY <1>1, <2>2 DEF LexOK, WordOK, Byte
    <3>3. /\ mode = "INITIAL" /\ token = "NONE" /\ verdict = "none"
          /\ yytext = yylloc /\ yylloc.end = pos /\ yylloc.begin \in 0 .. (pos - 1)
          /\ pos - yylloc.begin <= MaxKeyword
          /\ sought = Rank(Bytes(yylloc.begin, pos))
      BY <2>2 DEF LexOK, WordOK
    <3> QED BY <1>1, <3>1, <3>2, <3>3 DEF WordOK, Byte
  <2> QED BY <2>1, <2>2
<1> QED BY <1>2, <1>3, <1>4, SearchRests DEF LexOK

\* The parser asks for the next token.
LEMMA ProceedKeeps ==
  ASSUME LexOK, SearchInv, Proceed
  PROVE  LexOK' /\ SearchInv'
<1>1. /\ UNCHANGED <<yytext, yylloc, err, failed, text, pos, mode, value, verdict, outcome, sought>>
      /\ UNCHANGED searchVars /\ token' = "NONE" /\ token \notin {"NONE", "ERR", "END"} /\ verdict = "none"
  BY DEF Proceed, Parsing, errorVars, searchVars
<1>2. outcome = "none" /\ mode = "INITIAL"
  BY <1>1 DEF LexOK, WordOK, TokenOK
<1>3. TypesOK' /\ ErrorOK'
  BY <1>1 DEF LexOK, TypesOK, ErrorOK
<1>4. QuoteOK' /\ WordOK' /\ TokenOK' /\ NameOK'
  BY <1>1, <1>2 DEF QuoteOK, WordOK, TokenOK, NameOK
<1> QED BY <1>1, <1>3, <1>4, SearchRests DEF LexOK

\* The parser accepts.
LEMMA AcceptKeeps ==
  ASSUME LexOK, SearchInv, Accept
  PROVE  LexOK' /\ SearchInv'
<1>1. /\ UNCHANGED <<yytext, yylloc, err, failed, text, pos, mode, value, token, outcome, sought>>
      /\ UNCHANGED searchVars /\ verdict' = "accepted" /\ token = "END"
  BY DEF Accept, Parsing, errorVars, searchVars
<1>2. TypesOK' /\ ErrorOK' /\ TokenOK'
  BY <1>1 DEF LexOK, TypesOK, ErrorOK, TokenOK, Accept, Parsing
<1>3. QuoteOK' /\ WordOK' /\ NameOK'
  BY <1>1 DEF LexOK, QuoteOK, WordOK, NameOK
<1> QED BY <1>1, <1>2, <1>3, SearchRests DEF LexOK

\* The parser refuses, and rsqlp_error finds the place of the error.
LEMMA RefuseKeeps ==
  ASSUME LexOK, SearchInv, Refuse
  PROVE  LexOK' /\ SearchInv'
<1>1. /\ UNCHANGED <<yytext, yylloc, text, pos, mode, value, token, outcome, sought>>
      /\ UNCHANGED searchVars /\ verdict' = "refused" /\ token # "NONE" /\ verdict = "none"
      /\ failed = "none" /\ rsqlp_error
  BY DEF Refuse, Parsing, searchVars
<1>2. /\ text \in Texts /\ pos \in Nat /\ pos \in 0 .. Len(text) /\ pos <= Len(text) /\ Len(text) \in Nat
      /\ mode \in Modes /\ yylloc \in Locations /\ yylloc.end <= pos /\ yytext \in Locations
      /\ err.pos \in Int /\ err.len \in Int
  <2>1. InText
    BY TextIs DEF LexOK
  <2> QED BY <2>1 DEF LexOK, TypesOK, InText
<1>3. /\ yylloc.begin \in Int /\ yylloc.end \in Int /\ yytext.begin \in Int /\ yytext.end \in Int
  BY <1>2 DEF Locations
<1>4. QuoteOK' /\ WordOK' /\ TokenOK' /\ NameOK'
  <2>1. NameOK'
    BY <1>1, NameRests DEF LexOK
  <2>2. outcome = "none"
    BY <1>1 DEF LexOK, WordOK
  <2> QED BY <1>1, <2>1, <2>2 DEF LexOK, QuoteOK, WordOK, TokenOK
<1>5. CASE token = "ERR"
  <2>1. /\ Locatable /\ err.state # "NONE"
        /\ 0 <= err.pos /\ err.pos <= Len(text) /\ Stop <= Len(text) + 1
        /\ \/ err.pos < ErrorLocation.begin
           \/ /\ err.pos = ErrorLocation.begin
              /\ err.len <= ErrorLocation.end - ErrorLocation.begin
    BY <1>5 DEF LexOK, ErrorOK
  <2>2. set_err_state("PARSER_ERROR", ErrorLocation)
    BY <1>1, <2>1 DEF rsqlp_error
  <2>3. failed' = "none" /\ err' = err
    BY <2>1, <2>2 DEF set_err_state
  <2>4. TypesOK'
    BY <1>1, <1>2, <2>3 DEF TypesOK
  <2>5. ErrorOK'
    BY <1>1, <1>5, <2>1, <2>3 DEF ErrorOK, Stop, Locatable, ErrorLocation
  <2> QED BY <1>1, <1>4, <2>4, <2>5, SearchRests DEF LexOK
<1>6. CASE token # "ERR"
  <2>1. err.state = "NONE"
    BY <1>1, <1>6 DEF LexOK, ErrorOK
  <2>2. \/ token = "END" /\ pos = Len(text) /\ yytext = Location(pos, pos + 1)
        \/ /\ token # "END" /\ yylloc.end = pos /\ yytext.end = pos
           /\ yylloc.begin \in 0 .. (pos - 1)
    BY <1>1, <1>6 DEF LexOK, TokenOK
  <2>3. /\ Locatable
        /\ ErrorLocation.begin \in Int /\ ErrorLocation.end \in Int
        /\ 0 <= ErrorLocation.begin /\ ErrorLocation.begin <= Len(text)
        /\ ErrorLocation.end <= Len(text) + 1
    <3>1. CASE token = "END" /\ pos = Len(text) /\ yytext = Location(pos, pos + 1)
      <4>1. yytext.begin = pos /\ yytext.end = pos + 1
        BY <3>1 DEF Location
      <4>2. ErrorLocation = yytext
        BY <1>2, <1>3, <4>1 DEF ErrorLocation
      <4> QED BY <1>2, <1>3, <3>1, <4>1, <4>2 DEF Locatable
    <3>2. CASE /\ token # "END" /\ yylloc.end = pos /\ yytext.end = pos
               /\ yylloc.begin \in 0 .. (pos - 1)
      <4>1. ErrorLocation = yylloc /\ Locatable
        BY <3>2 DEF ErrorLocation, Locatable
      <4> QED BY <1>2, <1>3, <3>2, <4>1
    <3> QED BY <2>2, <3>1, <3>2
  <2>4. PICK b, e : b = ErrorLocation.begin /\ e = ErrorLocation.end
    OBVIOUS
  <2>5. set_err_state("PARSER_ERROR", ErrorLocation)
    BY <1>1, <2>3 DEF rsqlp_error
  <2>6. err' = [state |-> "PARSER_ERROR", pos |-> b, len |-> e - b] /\ failed' = failed
    BY <2>1, <2>4, <2>5 DEF set_err_state
  <2>7. TypesOK'
    BY <1>1, <1>2, <2>3, <2>4, <2>6 DEF TypesOK
  <2>8. Stop' = e
    <3>1. PICK c : c = e - b
      OBVIOUS
    <3>2. b + c = e
      BY <2>3, <2>4, <3>1
    <3> QED BY <2>6, <3>1, <3>2 DEF Stop
  <2>9. ErrorOK'
    <3>1. err'.state # "NONE" /\ 0 <= err'.pos /\ err'.pos <= Len(text') /\ Stop' <= Len(text') + 1
      BY <1>1, <2>3, <2>4, <2>6, <2>8
    <3> QED BY <1>1, <1>6, <3>1 DEF ErrorOK
  <2> QED BY <1>1, <1>4, <2>7, <2>9, SearchRests DEF LexOK
<1> QED BY <1>5, <1>6

\* The parser gives an output up: to the left of the token behind it, and of an error
\* of the lexer there.
LEMMA GiveUpOutputKeeps ==
  ASSUME LexOK, OutputOK, SearchInv, GiveUpOutput
  PROVE  LexOK' /\ SearchInv'
<1>1. /\ UNCHANGED <<yytext, yylloc, text, pos, mode, value, token, outcome, sought>>
      /\ UNCHANGED searchVars /\ verdict' = "too_long" /\ token # "NONE" /\ verdict = "none"
      /\ failed = "none" /\ set_err_state("TOO_LONG_UNALIASED_OUTPUT", output)
      /\ output.end - output.begin > MaxName
  BY DEF GiveUpOutput, Parsing, searchVars
<1>2. /\ text \in Texts /\ pos \in Nat /\ pos \in 0 .. Len(text) /\ pos <= Len(text) /\ Len(text) \in Nat
      /\ mode \in Modes /\ yylloc \in Locations /\ yylloc.end <= pos /\ yytext \in Locations
      /\ err.pos \in Int /\ err.len \in Int
  <2>1. InText
    BY TextIs DEF LexOK
  <2> QED BY <2>1 DEF LexOK, TypesOK, InText
<1>3. QuoteOK' /\ WordOK' /\ TokenOK' /\ NameOK'
  <2>1. NameOK'
    BY <1>1, NameRests DEF LexOK
  <2>2. outcome = "none"
    BY <1>1 DEF LexOK, WordOK
  <2> QED BY <1>1, <2>1, <2>2 DEF LexOK, QuoteOK, WordOK, TokenOK
<1>4. CASE token = "ERR"
  <2>1. /\ Locatable /\ err.state # "NONE"
        /\ 0 <= err.pos /\ err.pos <= Len(text) /\ Stop <= Len(text) + 1
        /\ \/ err.pos < ErrorLocation.begin
           \/ /\ err.pos = ErrorLocation.begin
              /\ err.len <= ErrorLocation.end - ErrorLocation.begin
    BY <1>4 DEF LexOK, ErrorOK
  <2>2. failed' \in {"none", "set_err_state"} /\ err' = err
    BY <1>1, <2>1 DEF set_err_state
  <2>3. TypesOK'
    BY <1>1, <1>2, <1>4, <2>2 DEF TypesOK
  <2>4. ErrorOK'
    BY <1>1, <1>4, <2>1, <2>2 DEF ErrorOK, Stop, Locatable, ErrorLocation
  <2> QED BY <1>1, <1>3, <2>3, <2>4, SearchRests DEF LexOK
<1>5. CASE token # "ERR"
  <2>1. err.state = "NONE"
    BY <1>1, <1>5 DEF LexOK, ErrorOK
  <2>2. PICK b, e : b = output.begin /\ e = output.end
    OBVIOUS
  <2>3. err' = [state |-> "TOO_LONG_UNALIASED_OUTPUT", pos |-> b, len |-> e - b] /\ failed' = failed
    BY <1>1, <2>1, <2>2 DEF set_err_state
  <2>4. b \in Int /\ e \in Int /\ 0 <= b /\ b < e /\ e <= pos
    <3>1. b \in Int /\ e \in Int /\ e <= pos /\ ((b = -1 /\ e = -1) \/ (0 <= b /\ b < e))
      BY <2>2 DEF OutputOK, Locations
    <3>2. e - b > MaxName /\ MaxName \in Nat
      BY <1>1, <2>2, LimitsAssumption
    <3> QED BY <3>1, <3>2
  <2>5. TypesOK'
    BY <1>1, <1>2, <2>3, <2>4 DEF TypesOK
  <2>6. Stop' = e
    <3>1. PICK c : c = e - b
      OBVIOUS
    <3>2. b + c = e
      BY <2>4, <3>1
    <3> QED BY <2>3, <3>1, <3>2 DEF Stop
  <2>7. ErrorOK'
    <3>1. err'.state # "NONE" /\ 0 <= err'.pos /\ err'.pos <= Len(text') /\ Stop' <= Len(text') + 1
      BY <1>1, <1>2, <2>3, <2>4, <2>6
    <3> QED BY <1>1, <1>5, <3>1 DEF ErrorOK
  <2> QED BY <1>1, <1>3, <2>5, <2>7, SearchRests DEF LexOK
<1> QED BY <1>4, <1>5

\* The asserts before the report hold.
LEMMA ReportBegins ==
  ASSUME LexOK, SearchInv, Report
  PROVE  LexOK' /\ SearchInv'
<1>1. 0 <= err.pos /\ err.pos <= Len(text) /\ Stop <= Len(text) + 1
  BY DEF Report, LexOK, ErrorOK
<1>2. UNCHANGED <<yytext, yylloc, err, failed, searchVars, lexerVars>>
  BY <1>1 DEF Report
<1> QED BY <1>2, ReportKeeps DEF errorVars

LEMMA DiagnosticsBegin == DiagInit => LexOK /\ OutputOK /\ SearchInv
<1> SUFFICES ASSUME DiagInit PROVE LexOK /\ OutputOK /\ SearchInv
  OBVIOUS
<1>1. SearchInv
  BY InitSearches DEF DiagInit, LexerInit
<1>2. /\ yytext = Location(0, 0) /\ yylloc = Location(-1, -1) /\ failed = "none"
      /\ err = [state |-> "NONE", pos |-> 0, len |-> 0] /\ outcome = "none"
      /\ text \in Texts /\ pos = 0 /\ mode = "INITIAL" /\ token = "NONE" /\ verdict = "none"
      /\ output = Location(-1, -1)
  BY DEF DiagInit, LexerInit, ErrorsInit, SearchInit
<1>3. text \in Seq(0 .. 255)
  BY <1>2, TextsAssumption
<1>4. Len(text) \in Nat
  BY <1>3
<1>5. yytext \in Locations /\ yylloc \in Locations /\ yylloc.end = -1
  BY <1>2 DEF Location, Locations
<1>6. TypesOK
  BY <1>2, <1>4, <1>5 DEF TypesOK, Modes
<1>7. OutputOK
  BY <1>2, <1>5 DEF OutputOK, Location
<1> QED
  BY <1>1, <1>2, <1>6, <1>7 DEF LexOK, QuoteOK, WordOK, TokenOK, NameOK, ErrorOK

\* The lexer moves on, and the parser takes the token the lexer has just read.
LEMMA OutputKeeps ==
  ASSUME LexOK, OutputOK, [DiagNext]_diagVars
  PROVE  OutputOK'
<1>1. pos \in Nat /\ output \in Locations /\ yylloc \in Locations
  <2>1. InText
    BY TextIs DEF LexOK
  <2> QED BY <2>1 DEF LexOK, TypesOK, OutputOK, InText
<1>2. output.begin \in Int /\ output.end \in Int /\ yylloc.begin \in Int /\ yylloc.end \in Int
  BY <1>1 DEF Locations
<1>3. ASSUME output' = output, pos' \in Nat, pos <= pos' PROVE OutputOK'
  BY <1>1, <1>2, <1>3 DEF OutputOK
<1>4. CASE Proceed
  <2>1. /\ pos' = pos /\ token \notin {"NONE", "ERR", "END"}
        /\ \E b \in {output.begin, yylloc.begin} \ {-1} : output' = Location(b, yylloc.end)
    BY <1>4 DEF Proceed, Parsing
  <2>2. PICK b \in {output.begin, yylloc.begin} \ {-1} : output' = Location(b, yylloc.end)
    BY <2>1
  <2>3. PICK e : e = yylloc.end
    OBVIOUS
  <2>4. e = pos /\ yylloc.begin \in 0 .. (pos - 1)
    BY <2>1, <2>3 DEF LexOK, TokenOK
  <2>5. b \in Int /\ 0 <= b /\ b < e
    <3>1. /\ output.begin = -1 \/ (0 <= output.begin /\ output.begin < output.end)
          /\ output.end <= pos
      BY DEF OutputOK
    <3> QED BY <1>1, <1>2, <2>2, <2>4, <3>1
  <2>6. output'.begin = b /\ output'.end = e /\ output' \in Locations
    BY <1>1, <2>2, <2>3, <2>4, <2>5 DEF Location, Locations
  <2> QED BY <1>1, <2>1, <2>4, <2>5, <2>6 DEF OutputOK
<1>5. CASE Read
  <2>1. InText /\ mode \in Modes
    BY TextIs DEF LexOK, TypesOK
  <2>2. Winner.len \in Nat /\ pos' = pos + Winner.len /\ output' = output
    <3>1. pos' = pos + Winner.len /\ output' = output
      BY <1>5 DEF Read
    <3> QED BY <2>1, <3>1, WinnerIsTaken DEF Taken
  <2> QED BY <1>1, <1>3, <2>2
<1>6. CASE Search \/ WordFound \/ ReadEnd \/ Refuse \/ GiveUpOutput \/ Accept \/ Report \/ PrintStep
           \/ UNCHANGED diagVars
  <2>1. UNCHANGED <<pos, output>>
    BY <1>6 DEF Search, WordFound, ReadEnd, Refuse, GiveUpOutput, Accept, Report, PrintStep,
                diagVars, lexerVars
  <2> QED BY <1>1, <1>3, <2>1
<1> QED
  BY <1>4, <1>5, <1>6 DEF DiagNext, LexerStep, LexerNext

LEMMA DiagnosticsKeep ==
  LexOK /\ OutputOK /\ SearchInv /\ [DiagNext]_diagVars => LexOK' /\ OutputOK' /\ SearchInv'
<1> SUFFICES ASSUME LexOK, OutputOK, SearchInv, [DiagNext]_diagVars PROVE LexOK' /\ SearchInv'
  BY OutputKeeps
<1>1. CASE LexerStep
  BY <1>1, ReadKeeps, SearchKeeps, WordFoundKeeps, ReadEndKeeps, ProceedKeeps, RefuseKeeps,
     GiveUpOutputKeeps, AcceptKeeps
     DEF LexerStep, LexerNext
<1>2. CASE Report
  BY <1>2, ReportBegins
<1>3. CASE PrintStep
  BY <1>3, ReportKeeps DEF PrintStep
<1>4. CASE UNCHANGED diagVars
  BY <1>4, ReportKeeps DEF diagVars
<1> QED
  BY <1>1, <1>2, <1>3, <1>4 DEF DiagNext

\* A name is no keyword: what the search has not found, or what no word of a table
\* can be.
LEMMA NamesAreNoKeywords ==
  ASSUME LexOK
  PROVE  KeywordsAreNoNames
<1> SUFFICES ASSUME token = "IDENTIFIER", Byte(yylloc.begin) # Backtick PROVE KeywordsAreNoNames
  BY DEF KeywordsAreNoNames
<1>1. PICK b : b = yylloc.begin
  OBVIOUS
<1>2. /\ yylloc.end = pos /\ b \in Nat /\ b < pos /\ pos \in Nat /\ pos <= Len(text)
      /\ text \in Seq(0 .. 255)
  <2>1. InText
    BY TextIs DEF LexOK
  <2>2. yylloc.end = pos /\ yylloc.begin \in 0 .. (pos - 1)
    BY DEF LexOK, TokenOK
  <2> QED BY <1>1, <2>1, <2>2 DEF InText
<1>3. PICK s : s = Bytes(b, pos)
  OBVIOUS
<1>4. /\ s \in Seq(0 .. 255) /\ Len(s) = pos - b /\ DOMAIN s = 1 .. (pos - b)
      /\ \A i \in 1 .. (pos - b) : s[i] = Byte(b + i - 1)
  <2>1. s = SubSeq(text, b + 1, pos)
    BY <1>3 DEF Bytes
  <2>2. PICK m : m = b + 1
    OBVIOUS
  <2>3. /\ m \in 1 .. Len(text) /\ pos \in m .. Len(text) /\ pos - m + 1 = pos - b
        /\ \A i \in 1 .. (pos - b) : m + i - 1 = b + i - 1 + 1
    BY <1>2, <2>2
  <2>4. /\ SubSeq(text, m, pos) \in Seq(0 .. 255) /\ Len(SubSeq(text, m, pos)) = pos - m + 1
        /\ \A i \in 1 .. (pos - m + 1) : SubSeq(text, m, pos)[i] = text[m + i - 1]
    <3>1. m \in Int /\ pos \in Int /\ m <= pos
      BY <1>2, <2>3
    <3>2. \A i \in m .. pos : i \in 1 .. Len(text)
      BY <1>2, <2>3
    <3>3. \A i \in 1 .. Len(text) : text[i] \in 0 .. 255
      BY <1>2, ElementOfSeq
    <3> QED BY <3>1, <3>2, <3>3, SubSeqProperties
  <2>5. Len(s) = pos - b /\ s \in Seq(0 .. 255) /\ \A i \in 1 .. (pos - b) : s[i] = text[m + i - 1]
    BY <2>1, <2>2, <2>3, <2>4
  <2> QED BY <2>3, <2>5 DEF Byte
<1>5. PICK word : word = Upper(s)
  OBVIOUS
<1>6. /\ DOMAIN word = 1 .. (pos - b)
      /\ \A i \in DOMAIN word : word[i] = IF s[i] \in 97 .. 122 THEN s[i] - 32 ELSE s[i]
  BY <1>4, <1>5 DEF Upper
<1>7. KeywordsAreNoNames <=>
        \/ Len(word) > MaxKeyword
        \/ \E i \in DOMAIN word : word[i] \in Digit
        \/ \A i \in Words(Defined) \cup Words(Implemented) : Dictionary[i] # word
  BY <1>1, <1>2, <1>3, <1>5 DEF KeywordsAreNoNames
<1>8. Len(word) = pos - b
  <2>1. pos - b \in Nat
    BY <1>2
  <2>2. word \in [1 .. (pos - b) -> Int]
    <3> SUFFICES ASSUME NEW i \in 1 .. (pos - b) PROVE word[i] \in Int
      BY <1>5, <1>6, <2>1 DEF Upper
    <3>1. s[i] \in Int
      BY <1>4
    <3> QED BY <1>6, <3>1
  <2> QED BY <2>1, <2>2
<1>9. CASE pos - b > MaxKeyword
  BY <1>7, <1>8, <1>9
<1>10. CASE \E i \in b .. (pos - 1) : Byte(i) \notin Letter
  <2>1. PICK i \in b .. (pos - 1) : Byte(i) \notin Letter
    BY <1>10
  <2>2. PICK k : k = i - b + 1
    OBVIOUS
  <2>3. k \in DOMAIN word /\ k \in 1 .. (pos - b) /\ b + k - 1 = i
    BY <1>2, <1>6, <2>1, <2>2
  <2>4. s[k] = Byte(i)
    BY <1>4, <2>3
  <2>5. s[k] \notin 97 .. 122 /\ word[k] = s[k] /\ word[k] \notin (65 .. 90) \cup {95}
    <3>1. s[k] \notin Letter
      BY <2>1, <2>4
    <3>2. s[k] \notin 97 .. 122
      BY <3>1 DEF Letter
    <3>3. word[k] = s[k]
      BY <1>6, <2>3, <3>2
    <3> QED BY <3>1, <3>2, <3>3 DEF Letter
  <2>6. SUFFICES ASSUME word[k] \notin Digit,
                        NEW d \in Words(Defined) \cup Words(Implemented), Dictionary[d] = word
                 PROVE  FALSE
    BY <1>7, <2>3
  <2>7. \A n \in DOMAIN Dictionary[d] : Dictionary[d][n] \in Digit \cup (65 .. 90) \cup {95}
    BY DictionaryAssumption
  <2> QED BY <2>3, <2>5, <2>6, <2>7
<1>11. CASE /\ sought = Rank(Bytes(yylloc.begin, pos))
            /\ sought \notin Words(Implemented) \cup Words(Defined)
  <2>1. SUFFICES ASSUME NEW d \in Words(Defined) \cup Words(Implemented), Dictionary[d] = word
                 PROVE  FALSE
    BY <1>7
  <2>2. d \in DOMAIN Dictionary
    BY DictionaryAssumption
  <2>3. sought = CHOOSE i \in DOMAIN Dictionary : Dictionary[i] = word
    BY <1>1, <1>3, <1>5, <1>11 DEF Rank
  <2>4. sought \in DOMAIN Dictionary /\ Dictionary[sought] = word
    BY <2>1, <2>2, <2>3
  <2>5. sought = d
    BY <2>1, <2>2, <2>4, DictionaryAssumption
  <2> QED BY <1>11, <2>5
<1> QED
  BY <1>1, <1>9, <1>10, <1>11 DEF LexOK, NameOK

\* Whatever the text is, and wherever the parser refuses it, rsqlp_error finds itself
\* in one of the two cases it names, set_err_state is given errors from left to right,
\* and what parse() asserts of the place to be underlined is true.  Only an output
\* found too long when the token behind it is already refused stops the process.
THEOREM OnlyTooLongOutputsAssert == DiagSpec => []ReportsWithoutAssert
<1>1. LexOK => ReportsWithoutAssert
  BY DEF LexOK, TypesOK, ReportsWithoutAssert
<1> QED BY <1>1, DiagnosticsBegin, DiagnosticsKeep, PTL DEF DiagSpec

\* The keyword search is exact where the lexer uses it, for every text.
THEOREM LexerSearchIsExact == DiagSpec => []SearchIsExact
<1>1. SearchInv => SearchIsExact
  BY DEF SearchInv
<1> QED BY <1>1, DiagnosticsBegin, DiagnosticsKeep, PTL DEF DiagSpec

\* In no text a keyword becomes a name: the rule for names wins over that for words
\* only with a byte that no keyword has, or with more than MaxKeyword of them.
THEOREM KeywordsAreNeverNames == DiagSpec => []KeywordsAreNoNames
<1>1. LexOK => KeywordsAreNoNames
  BY NamesAreNoKeywords
<1> QED BY <1>1, DiagnosticsBegin, DiagnosticsKeep, PTL DEF DiagSpec

-----------------------------------------------------------------------------
(* Characters: code points by arithmetic, and ranges of bytes                *)

\* The text is a sequence of bytes.
IsText == text \in Seq(0 .. 255)

\* What the first of n bytes contributes.
First(p, n) ==
  CASE n = 1 -> IF Byte(p) < 128 THEN Byte(p) ELSE -1
    [] n = 2 -> IF Byte(p) \in 192 .. 223 THEN Byte(p) - 192 ELSE -1
    [] n = 3 -> IF Byte(p) \in 224 .. 239 THEN Byte(p) - 224 ELSE -1
    [] n = 4 -> IF Byte(p) \in 240 .. 247 THEN Byte(p) - 240 ELSE -1

Decodes(p, n, cp) ==
  cp = [i \in 0 .. (n - 1) |-> IF i = 0 THEN First(p, n) ELSE 64 * cp[i - 1] + Byte(p + i) - 128]

LEMMA ByteIs ==
  ASSUME IsText, NEW p \in Nat, p < Len(text)
  PROVE  Byte(p) \in Int /\ 0 <= Byte(p) /\ Byte(p) <= 255
<1>1. PICK k : k = p + 1
  OBVIOUS
<1>2. k \in 1 .. Len(text)
  BY <1>1 DEF IsText
<1>3. PICK n : n = 255
  OBVIOUS
<1>4. Byte(p) \in 0 .. n
  BY <1>1, <1>2, <1>3, ElementOfSeq DEF Byte, IsText
<1>5. n \in Int
  BY <1>3
<1>6. Byte(p) \in Int /\ 0 <= Byte(p) /\ Byte(p) <= n
  BY <1>4, <1>5
<1> QED BY <1>3, <1>6, Zenon

LEMMA BehindFirst ==
  \A n \in Nat : \A i \in 0 .. (n - 1) : i # 0 => i \in 1 .. (n - 1)
  OBVIOUS

LEMMA DecodingExists ==
  ASSUME IsText, NEW p \in Nat, NEW n \in 1 .. 4, p + n <= Len(text)
  PROVE  \E cp : Decodes(p, n, cp)
<1>1. \A i \in 0 .. (n - 1) : Byte(p + i) \in Int
  <2> SUFFICES ASSUME NEW i \in 0 .. (n - 1) PROVE Byte(p + i) \in Int
    OBVIOUS
  <2>1. p + i \in Nat /\ p + i < Len(text)
    OBVIOUS
  <2> QED BY <2>1, ByteIs
<1>2. First(p, n) \in Int
  <2>1. Byte(p) \in Int
    <3>1. p < Len(text)
      OBVIOUS
    <3> QED BY <3>1, ByteIs
  <2>2. n \in {1, 2, 3, 4}
    OBVIOUS
  <2> QED BY <2>1, <2>2 DEF First
<1> DEFINE step == [i \in 1 .. (n - 1) |-> [c \in Int |-> 64 * c + Byte(p + i) - 128]]
<1>3. step \in [1 .. (n - 1) -> [Int -> Int]]
  <2> SUFFICES ASSUME NEW i \in 1 .. (n - 1), NEW c \in Int PROVE 64 * c + Byte(p + i) - 128 \in Int
    OBVIOUS
  <2>1. Byte(p + i) \in Int
    <3>1. i \in 0 .. (n - 1)
      OBVIOUS
    <3> QED BY <1>1, <3>1, Zenon
  <2> QED BY <2>1
<1>4. n - 1 \in Nat
  OBVIOUS
<1>5. \A i \in 1 .. (n - 1), c \in Int : step[i][c] = 64 * c + Byte(p + i) - 128
  OBVIOUS
<1> HIDE DEF step
<1>6. PICK cp \in [0 .. (n - 1) -> Int] : Iterates(cp, n - 1, First(p, n), step)
  BY <1>2, <1>3, <1>4, IterationExists
<1>7. /\ cp[0] = First(p, n)
      /\ \A i \in 1 .. (n - 1) : cp[i] = step[i][cp[i - 1]] /\ cp[i - 1] \in Int
  BY <1>4, <1>6 DEF Iterates
<1>8. \A i \in 0 .. (n - 1) :
        cp[i] = IF i = 0 THEN First(p, n) ELSE 64 * cp[i - 1] + Byte(p + i) - 128
  <2> SUFFICES ASSUME NEW i \in 0 .. (n - 1)
               PROVE  cp[i] = IF i = 0 THEN First(p, n) ELSE 64 * cp[i - 1] + Byte(p + i) - 128
    OBVIOUS
  <2>1. CASE i = 0
    BY <1>7, <2>1
  <2>2. CASE i # 0
    <3>1. i \in 1 .. (n - 1)
      BY <2>2, BehindFirst
    <3>2. cp[i] = step[i][cp[i - 1]] /\ cp[i - 1] \in Int
      BY <1>7, <3>1
    <3>3. step[i][cp[i - 1]] = 64 * cp[i - 1] + Byte(p + i) - 128
      BY <1>5, <3>1, <3>2
    <3> QED BY <2>2, <3>2, <3>3
  <2> QED BY <2>1, <2>2
<1>9. cp = [i \in 0 .. (n - 1) |-> IF i = 0 THEN First(p, n) ELSE 64 * cp[i - 1] + Byte(p + i) - 128]
  BY <1>6, <1>8
<1> QED BY <1>9 DEF Decodes

\* The code point, if the bytes have one.
Decoded(p, n, cp) ==
  /\ cp[0] = First(p, n)
  /\ \A i \in 1 .. (n - 1) : cp[i] = 64 * cp[i - 1] + Byte(p + i) - 128
  /\ CodePoint(p, n) =
       IF First(p, n) >= 0 /\ \A i \in 1 .. (n - 1) : Byte(p + i) \in 128 .. 191
       THEN cp[n - 1] ELSE -1

LEMMA CodePointIs ==
  ASSUME IsText, NEW p \in Nat, NEW n \in 1 .. 4, p + n <= Len(text)
  PROVE  \E cp : Decoded(p, n, cp)
<1>1. PICK cp : cp = CHOOSE c : Decodes(p, n, c)
  OBVIOUS
<1>2. Decodes(p, n, cp)
  BY <1>1, DecodingExists
<1>3. CodePoint(p, n) =
        IF First(p, n) >= 0 /\ \A i \in 1 .. (n - 1) : Byte(p + i) \in 128 .. 191
        THEN (CHOOSE c : Decodes(p, n, c))[n - 1] ELSE -1
  BY Zenon DEF CodePoint, First, Decodes
<1>4. \A i \in 0 .. (n - 1) :
        cp[i] = IF i = 0 THEN First(p, n) ELSE 64 * cp[i - 1] + Byte(p + i) - 128
  BY <1>2 DEF Decodes
<1>5. cp[0] = First(p, n)
  <2>1. 0 \in 0 .. (n - 1)
    OBVIOUS
  <2> QED BY <1>4, <2>1
<1>6. \A i \in 1 .. (n - 1) : cp[i] = 64 * cp[i - 1] + Byte(p + i) - 128
  <2>1. \A i \in 1 .. (n - 1) : i \in 0 .. (n - 1) /\ i # 0
    OBVIOUS
  <2> QED BY <1>4, <2>1
<1>7. Decoded(p, n, cp)
  BY <1>1, <1>3, <1>5, <1>6 DEF Decoded
<1> QED BY <1>7

\* A character of n bytes is at p.
Character(p, n) == p + n <= Len(text) /\ CodePoint(p, n) \in CodePointsOf(n)

Continues(x) == 128 <= x /\ x <= 191

Single(p) == p + 1 <= Len(text) /\ 1 <= Byte(p) /\ Byte(p) <= 127
Double(p) == p + 2 <= Len(text) /\ 194 <= Byte(p) /\ Byte(p) <= 223 /\ Continues(Byte(p + 1))
Triple(p) ==
  /\ p + 3 <= Len(text)
  /\ 224 <= Byte(p) /\ Byte(p) <= 239 /\ Continues(Byte(p + 1)) /\ Continues(Byte(p + 2))
  /\ Byte(p) = 224 => 160 <= Byte(p + 1)
  /\ Byte(p) = 237 => Byte(p + 1) <= 159
Quadruple(p) ==
  /\ p + 4 <= Len(text)
  /\ 240 <= Byte(p) /\ Byte(p) <= 244
  /\ Continues(Byte(p + 1)) /\ Continues(Byte(p + 2)) /\ Continues(Byte(p + 3))
  /\ Byte(p) = 240 => 144 <= Byte(p + 1)
  /\ Byte(p) = 244 => Byte(p + 1) <= 143

\* The code points n bytes are for are those of the ranges of bytes.
LEMMA SingleIs ==
  ASSUME IsText, NEW p \in Nat
  PROVE  Character(p, 1) <=> Single(p)
<1> SUFFICES ASSUME p + 1 <= Len(text)
             PROVE  CodePoint(p, 1) \in CodePointsOf(1) <=> 1 <= Byte(p) /\ Byte(p) <= 127
  BY DEF Character, Single
<1>1. PICK cp : Decoded(p, 1, cp)
  <2>1. 1 \in 1 .. 4
    OBVIOUS
  <2> QED BY <2>1, CodePointIs, Zenon
<1>2. PICK a : a = Byte(p)
  OBVIOUS
<1>3. /\ a \in Int /\ 0 <= a /\ a <= 255
  <2>1. p < Len(text)
    OBVIOUS
  <2> QED BY <1>2, <2>1, ByteIs
<1>4. First(p, 1) = IF a < 128 THEN a ELSE -1
  BY <1>2 DEF First
<1>5. CodePoint(p, 1) = IF First(p, 1) >= 0 THEN First(p, 1) ELSE -1
  BY <1>1 DEF Decoded
<1>6. \A x \in Int : x \in CodePointsOf(1) <=> 1 <= x /\ x <= 127
  BY DEF CodePointsOf
<1>7. CASE a < 128
  <2>1. CodePoint(p, 1) = a
    BY <1>3, <1>4, <1>5, <1>7
  <2>2. a \in CodePointsOf(1) <=> 1 <= a /\ a <= 127
    BY <1>3, <1>6
  <2> QED BY <1>2, <2>1, <2>2, Zenon
<1>8. CASE ~(a < 128)
  <2>1. CodePoint(p, 1) = -1
    BY <1>3, <1>4, <1>5, <1>8
  <2>2. -1 \notin CodePointsOf(1)
    BY <1>6
  <2> QED BY <1>2, <1>3, <1>8, <2>1, <2>2
<1> QED BY <1>7, <1>8

LEMMA DoubleIs ==
  ASSUME IsText, NEW p \in Nat
  PROVE  Character(p, 2) <=> Double(p)
<1> SUFFICES ASSUME p + 2 <= Len(text) PROVE CodePoint(p, 2) \in CodePointsOf(2) <=> Double(p)
  BY DEF Character, Double
<1>1. PICK cp : Decoded(p, 2, cp)
  <2>1. 2 \in 1 .. 4
    OBVIOUS
  <2> QED BY <2>1, CodePointIs, Zenon
<1>2. PICK a, b : a = Byte(p) /\ b = Byte(p + 1)
  OBVIOUS
<1>3. /\ a \in Int /\ 0 <= a /\ a <= 255
      /\ b \in Int /\ 0 <= b /\ b <= 255
  <2>1. p < Len(text) /\ p + 1 < Len(text) /\ p + 1 \in Nat
    OBVIOUS
  <2> QED BY <1>2, <2>1, ByteIs
<1>4. First(p, 2) = IF 192 <= a /\ a <= 223 THEN a - 192 ELSE -1
  <2>1. a \in 192 .. 223 <=> 192 <= a /\ a <= 223
    BY <1>3
  <2> QED BY <1>2, <2>1 DEF First
<1>5. cp[1] = 64 * First(p, 2) + b - 128
  <2>1. cp[0] = First(p, 2) /\ \A i \in 1 .. (2 - 1) : cp[i] = 64 * cp[i - 1] + Byte(p + i) - 128
    BY <1>1 DEF Decoded
  <2>2. 1 \in 1 .. (2 - 1) /\ 1 - 1 = 0
    OBVIOUS
  <2>3. cp[1] = 64 * cp[0] + Byte(p + 1) - 128
    BY <2>1, <2>2
  <2> QED BY <1>2, <2>1, <2>3
<1>6. CodePoint(p, 2) = IF First(p, 2) >= 0 /\ 128 <= b /\ b <= 191 THEN cp[1] ELSE -1
  <2>1. CodePoint(p, 2) = IF First(p, 2) >= 0 /\ \A i \in 1 .. (2 - 1) : Byte(p + i) \in 128 .. 191
                          THEN cp[2 - 1] ELSE -1
    BY <1>1 DEF Decoded
  <2>2. 1 .. (2 - 1) = {1} /\ 2 - 1 = 1
    OBVIOUS
  <2>3. b \in 128 .. 191 <=> 128 <= b /\ b <= 191
    BY <1>3
  <2>4. (\A i \in 1 .. (2 - 1) : Byte(p + i) \in 128 .. 191) <=> b \in 128 .. 191
    BY <1>2, <2>2
  <2> QED BY <2>1, <2>2, <2>3, <2>4
<1>7. \A x \in Int : x \in CodePointsOf(2) <=> 128 <= x /\ x <= 2047
  BY DEF CodePointsOf
<1>8. Double(p) <=> 194 <= a /\ a <= 223 /\ 128 <= b /\ b <= 191
  BY <1>2, Zenon DEF Double, Continues
<1>9. CASE 192 <= a /\ a <= 223 /\ 128 <= b /\ b <= 191
  <2>1. PICK x : x = 64 * (a - 192) + b - 128
    OBVIOUS
  <2>2. CodePoint(p, 2) = x
    <3>1. First(p, 2) = a - 192 /\ a - 192 >= 0
      BY <1>3, <1>4, <1>9
    <3> QED BY <1>5, <1>6, <1>9, <2>1, <3>1
  <2>3. x \in Int /\ (128 <= x /\ x <= 2047 <=> 194 <= a)
    BY <1>3, <1>9, <2>1
  <2> QED BY <1>7, <1>8, <1>9, <2>2, <2>3
<1>10. CASE ~(192 <= a /\ a <= 223 /\ 128 <= b /\ b <= 191)
  <2>1. CodePoint(p, 2) = -1
    BY <1>3, <1>4, <1>6, <1>10
  <2>2. -1 \notin CodePointsOf(2)
    BY <1>7
  <2> QED BY <1>3, <1>8, <1>10, <2>1, <2>2
<1> QED BY <1>9, <1>10

LEMMA TripleIs ==
  ASSUME IsText, NEW p \in Nat
  PROVE  Character(p, 3) <=> Triple(p)
<1> SUFFICES ASSUME p + 3 <= Len(text) PROVE CodePoint(p, 3) \in CodePointsOf(3) <=> Triple(p)
  BY DEF Character, Triple
<1>1. PICK cp : Decoded(p, 3, cp)
  <2>1. 3 \in 1 .. 4
    OBVIOUS
  <2> QED BY <2>1, CodePointIs, Zenon
<1>2. PICK a, b, c : a = Byte(p) /\ b = Byte(p + 1) /\ c = Byte(p + 2)
  OBVIOUS
<1>3. /\ a \in Int /\ 0 <= a /\ a <= 255
      /\ b \in Int /\ 0 <= b /\ b <= 255
      /\ c \in Int /\ 0 <= c /\ c <= 255
  <2>1. p < Len(text) /\ p + 1 < Len(text) /\ p + 1 \in Nat /\ p + 2 < Len(text) /\ p + 2 \in Nat
    OBVIOUS
  <2> QED BY <1>2, <2>1, ByteIs
<1>4. First(p, 3) = IF 224 <= a /\ a <= 239 THEN a - 224 ELSE -1
  <2>1. a \in 224 .. 239 <=> 224 <= a /\ a <= 239
    BY <1>3
  <2> QED BY <1>2, <2>1 DEF First
<1>5. cp[2] = 64 * (64 * First(p, 3) + b - 128) + c - 128
  <2>1. cp[0] = First(p, 3) /\ \A i \in 1 .. (3 - 1) : cp[i] = 64 * cp[i - 1] + Byte(p + i) - 128
    BY <1>1 DEF Decoded
  <2>2. 1 \in 1 .. (3 - 1) /\ 1 - 1 = 0 /\ 2 \in 1 .. (3 - 1) /\ 2 - 1 = 1
    OBVIOUS
  <2>3. cp[1] = 64 * cp[0] + Byte(p + 1) - 128
    BY <2>1, <2>2
  <2>4. cp[2] = 64 * cp[1] + Byte(p + 2) - 128
    BY <2>1, <2>2
  <2> QED BY <1>2, <2>1, <2>3, <2>4
<1>6. CodePoint(p, 3) =
        IF First(p, 3) >= 0 /\ 128 <= b /\ b <= 191 /\ 128 <= c /\ c <= 191 THEN cp[2] ELSE -1
  <2>1. CodePoint(p, 3) = IF First(p, 3) >= 0 /\ \A i \in 1 .. (3 - 1) : Byte(p + i) \in 128 .. 191
                          THEN cp[3 - 1] ELSE -1
    BY <1>1 DEF Decoded
  <2>2. 1 .. (3 - 1) = {1, 2} /\ 3 - 1 = 2
    OBVIOUS
  <2>3. \A x \in {b, c} : x \in 128 .. 191 <=> 128 <= x /\ x <= 191
    BY <1>3
  <2>4. (\A i \in 1 .. (3 - 1) : Byte(p + i) \in 128 .. 191) <=> b \in 128 .. 191 /\ c \in 128 .. 191
    BY <1>2, <2>2
  <2> QED BY <2>1, <2>2, <2>3, <2>4
<1>7. \A x \in Int : x \in CodePointsOf(3) <=> 2048 <= x /\ x <= 65535 /\ ~(55296 <= x /\ x <= 57343)
  BY DEF CodePointsOf
<1>8. Triple(p) <=> /\ 224 <= a /\ a <= 239 /\ 128 <= b /\ b <= 191 /\ 128 <= c /\ c <= 191
                    /\ a = 224 => 160 <= b
                    /\ a = 237 => b <= 159
  <2>1. \A x : Continues(x) <=> 128 <= x /\ x <= 191
    BY DEF Continues
  <2>2. PICK t : t = Triple(p)
    OBVIOUS
  <2>3. t = /\ p + 3 <= Len(text)
            /\ 224 <= a /\ a <= 239 /\ Continues(b) /\ Continues(c)
            /\ a = 224 => 160 <= b
            /\ a = 237 => b <= 159
    BY <1>2, <2>2 DEF Triple
  <2> QED BY <2>1, <2>2, <2>3
<1>9. CASE 224 <= a /\ a <= 239 /\ 128 <= b /\ b <= 191 /\ 128 <= c /\ c <= 191
  <2>1. PICK x : x = 64 * (64 * (a - 224) + b - 128) + c - 128
    OBVIOUS
  <2>2. CodePoint(p, 3) = x
    <3>1. First(p, 3) = a - 224 /\ a - 224 >= 0
      BY <1>3, <1>4, <1>9
    <3> QED BY <1>5, <1>6, <1>9, <2>1, <3>1
  <2>3. x \in Int /\ x = 4096 * (a - 224) + 64 * (b - 128) + (c - 128)
    BY <1>3, <2>1
  <2>4. 2048 <= x /\ x <= 65535 <=> ~(a = 224 /\ b < 160)
    BY <1>3, <1>9, <2>3
  <2>5. 55296 <= x /\ x <= 57343 <=> a = 237 /\ b >= 160
    BY <1>3, <1>9, <2>3
  <2> QED BY <1>3, <1>7, <1>8, <1>9, <2>2, <2>3, <2>4, <2>5
<1>10. CASE ~(224 <= a /\ a <= 239 /\ 128 <= b /\ b <= 191 /\ 128 <= c /\ c <= 191)
  <2>1. CodePoint(p, 3) = -1
    BY <1>3, <1>4, <1>6, <1>10
  <2>2. -1 \notin CodePointsOf(3)
    BY <1>7
  <2> QED BY <1>8, <1>10, <2>1, <2>2
<1> QED BY <1>9, <1>10

LEMMA QuadrupleIs ==
  ASSUME IsText, NEW p \in Nat
  PROVE  Character(p, 4) <=> Quadruple(p)
<1> SUFFICES ASSUME p + 4 <= Len(text) PROVE CodePoint(p, 4) \in CodePointsOf(4) <=> Quadruple(p)
  BY DEF Character, Quadruple
<1>1. PICK cp : Decoded(p, 4, cp)
  <2>1. 4 \in 1 .. 4
    OBVIOUS
  <2> QED BY <2>1, CodePointIs, Zenon
<1>2. PICK a, b, c, d : a = Byte(p) /\ b = Byte(p + 1) /\ c = Byte(p + 2) /\ d = Byte(p + 3)
  OBVIOUS
<1>3. /\ a \in Int /\ 0 <= a /\ a <= 255
      /\ b \in Int /\ 0 <= b /\ b <= 255
      /\ c \in Int /\ 0 <= c /\ c <= 255
      /\ d \in Int /\ 0 <= d /\ d <= 255
  <2>1. p < Len(text) /\ p + 1 < Len(text) /\ p + 1 \in Nat /\ p + 2 < Len(text) /\ p + 2 \in Nat
    OBVIOUS
  <2>2. p + 3 < Len(text) /\ p + 3 \in Nat
    OBVIOUS
  <2> QED BY <1>2, <2>1, <2>2, ByteIs
<1>4. First(p, 4) = IF 240 <= a /\ a <= 247 THEN a - 240 ELSE -1
  <2>1. a \in 240 .. 247 <=> 240 <= a /\ a <= 247
    BY <1>3
  <2> QED BY <1>2, <2>1 DEF First
<1>5. cp[3] = 64 * (64 * (64 * First(p, 4) + b - 128) + c - 128) + d - 128
  <2>1. cp[0] = First(p, 4) /\ \A i \in 1 .. (4 - 1) : cp[i] = 64 * cp[i - 1] + Byte(p + i) - 128
    BY <1>1 DEF Decoded
  <2>2. /\ 1 \in 1 .. (4 - 1) /\ 1 - 1 = 0 /\ 2 \in 1 .. (4 - 1) /\ 2 - 1 = 1
        /\ 3 \in 1 .. (4 - 1) /\ 3 - 1 = 2
    OBVIOUS
  <2>3. cp[1] = 64 * cp[0] + Byte(p + 1) - 128
    BY <2>1, <2>2
  <2>4. cp[2] = 64 * cp[1] + Byte(p + 2) - 128
    BY <2>1, <2>2
  <2>5. cp[3] = 64 * cp[2] + Byte(p + 3) - 128
    BY <2>1, <2>2
  <2> QED BY <1>2, <2>1, <2>3, <2>4, <2>5
<1>6. CodePoint(p, 4) =
        IF First(p, 4) >= 0 /\ 128 <= b /\ b <= 191 /\ 128 <= c /\ c <= 191 /\ 128 <= d /\ d <= 191
        THEN cp[3] ELSE -1
  <2>1. CodePoint(p, 4) = IF First(p, 4) >= 0 /\ \A i \in 1 .. (4 - 1) : Byte(p + i) \in 128 .. 191
                          THEN cp[4 - 1] ELSE -1
    BY <1>1 DEF Decoded
  <2>2. 1 .. (4 - 1) = {1, 2, 3} /\ 4 - 1 = 3
    OBVIOUS
  <2>3. \A x \in {b, c, d} : x \in 128 .. 191 <=> 128 <= x /\ x <= 191
    BY <1>3
  <2>4. (\A i \in 1 .. (4 - 1) : Byte(p + i) \in 128 .. 191)
        <=> b \in 128 .. 191 /\ c \in 128 .. 191 /\ d \in 128 .. 191
    BY <1>2, <2>2
  <2> QED BY <2>1, <2>2, <2>3, <2>4
<1>7. \A x \in Int : x \in CodePointsOf(4) <=> 65536 <= x /\ x <= 1114111
  BY DEF CodePointsOf
<1>8. Quadruple(p) <=>
        /\ 240 <= a /\ a <= 244 /\ 128 <= b /\ b <= 191
        /\ 128 <= c /\ c <= 191 /\ 128 <= d /\ d <= 191
        /\ a = 240 => 144 <= b
        /\ a = 244 => b <= 143
  <2>1. \A x : Continues(x) <=> 128 <= x /\ x <= 191
    BY DEF Continues
  <2>2. PICK t : t = Quadruple(p)
    OBVIOUS
  <2>3. t = /\ p + 4 <= Len(text)
            /\ 240 <= a /\ a <= 244
            /\ Continues(b) /\ Continues(c) /\ Continues(d)
            /\ a = 240 => 144 <= b
            /\ a = 244 => b <= 143
    BY <1>2, <2>2 DEF Quadruple
  <2> QED BY <2>1, <2>2, <2>3
<1>9. CASE /\ 240 <= a /\ a <= 247 /\ 128 <= b /\ b <= 191
           /\ 128 <= c /\ c <= 191 /\ 128 <= d /\ d <= 191
  <2>1. PICK x : x = 64 * (64 * (64 * (a - 240) + b - 128) + c - 128) + d - 128
    OBVIOUS
  <2>2. CodePoint(p, 4) = x
    <3>1. First(p, 4) = a - 240 /\ a - 240 >= 0
      BY <1>3, <1>4, <1>9
    <3> QED BY <1>5, <1>6, <1>9, <2>1, <3>1
  <2>3. x \in Int /\ x = 262144 * (a - 240) + 4096 * (b - 128) + 64 * (c - 128) + (d - 128)
    BY <1>3, <2>1
  <2>4. 65536 <= x /\ x <= 1114111 <=> ~(a = 240 /\ b < 144) /\ ~(a = 244 /\ b >= 144) /\ a <= 244
    BY <1>3, <1>9, <2>3
  <2> QED BY <1>3, <1>7, <1>8, <1>9, <2>2, <2>3, <2>4
<1>10. CASE ~(/\ 240 <= a /\ a <= 247 /\ 128 <= b /\ b <= 191
              /\ 128 <= c /\ c <= 191 /\ 128 <= d /\ d <= 191)
  <2>1. CodePoint(p, 4) = -1
    BY <1>3, <1>4, <1>6, <1>10
  <2>2. -1 \notin CodePointsOf(4)
    BY <1>7
  <2> QED BY <1>3, <1>8, <1>10, <2>1, <2>2
<1> QED BY <1>9, <1>10

\* Patterns of several bytes.
LEMMA TwoBytes ==
  ASSUME NEW A, NEW B, NEW p \in Nat
  PROVE  Matches(<<A, B>>, p) <=> p + 2 <= Len(text) /\ Byte(p) \in A /\ Byte(p + 1) \in B
<1>1. PICK r : r = <<A, B>>
  OBVIOUS
<1>2. Len(r) = 2 /\ DOMAIN r = {1, 2} /\ r[1] = A /\ r[2] = B
  BY <1>1
<1>3. p + 1 + 1 = p + 2
  OBVIOUS
<1> QED BY <1>1, <1>2, <1>3 DEF Matches, Byte

LEMMA ThreeBytes ==
  ASSUME NEW A, NEW B, NEW C, NEW p \in Nat
  PROVE  Matches(<<A, B, C>>, p) <=>
           p + 3 <= Len(text) /\ Byte(p) \in A /\ Byte(p + 1) \in B /\ Byte(p + 2) \in C
<1>1. PICK r : r = <<A, B, C>>
  OBVIOUS
<1>2. Len(r) = 3 /\ DOMAIN r = {1, 2, 3} /\ r[1] = A /\ r[2] = B /\ r[3] = C
  BY <1>1
<1>3. p + 1 + 1 = p + 2 /\ p + 2 + 1 = p + 3
  OBVIOUS
<1> QED BY <1>1, <1>2, <1>3 DEF Matches, Byte

LEMMA FourBytes ==
  ASSUME NEW A, NEW B, NEW C, NEW D, NEW p \in Nat
  PROVE  Matches(<<A, B, C, D>>, p) <=>
           /\ p + 4 <= Len(text)
           /\ Byte(p) \in A /\ Byte(p + 1) \in B /\ Byte(p + 2) \in C /\ Byte(p + 3) \in D
<1>1. PICK r : r = <<A, B, C, D>>
  OBVIOUS
<1>2. Len(r) = 4 /\ DOMAIN r = {1, 2, 3, 4} /\ r[1] = A /\ r[2] = B /\ r[3] = C /\ r[4] = D
  BY <1>1
<1>3. p + 1 + 1 = p + 2 /\ p + 2 + 1 = p + 3 /\ p + 3 + 1 = p + 4
  OBVIOUS
<1> QED BY <1>1, <1>2, <1>3 DEF Matches, Byte

\* The first byte of two, the first two bytes of three and of four.
DoubleLead(a) == 194 <= a /\ a <= 223
TripleLead(a, b) ==
  /\ 224 <= a /\ a <= 239 /\ Continues(b)
  /\ a = 224 => 160 <= b
  /\ a = 237 => b <= 159
QuadrupleLead(a, b) ==
  /\ 240 <= a /\ a <= 244 /\ Continues(b)
  /\ a = 240 => 144 <= b
  /\ a = 244 => b <= 143

LEMMA LeadsAre ==
  ASSUME NEW p
  PROVE  /\ Double(p) <=> p + 2 <= Len(text) /\ DoubleLead(Byte(p)) /\ Continues(Byte(p + 1))
         /\ Triple(p) <=> /\ p + 3 <= Len(text)
                          /\ TripleLead(Byte(p), Byte(p + 1)) /\ Continues(Byte(p + 2))
         /\ Quadruple(p) <=>
              /\ p + 4 <= Len(text) /\ QuadrupleLead(Byte(p), Byte(p + 1))
              /\ Continues(Byte(p + 2)) /\ Continues(Byte(p + 3))
  BY Zenon DEF Double, Triple, Quadruple, DoubleLead, TripleLead, QuadrupleLead

\* The sets of the patterns.
IsDoubleLead(A) == A = 194 .. 223
IsTripleLead(A, B) ==
  \/ A = {224} /\ B = 160 .. 191
  \/ A = 225 .. 236 /\ B = Continuation
  \/ A = {237} /\ B = 128 .. 159
  \/ A = 238 .. 239 /\ B = Continuation
IsQuadrupleLead(A, B) ==
  \/ A = {240} /\ B = 144 .. 191
  \/ A = 241 .. 243 /\ B = Continuation
  \/ A = {244} /\ B = 128 .. 143

LEMMA InContinuation ==
  ASSUME NEW x \in Int
  PROVE  x \in Continuation <=> Continues(x)
  BY DEF Continuation, Continues

LEMMA InDoubleLead ==
  ASSUME NEW a \in Int, NEW A, IsDoubleLead(A)
  PROVE  a \in A <=> DoubleLead(a)
  BY DEF IsDoubleLead, DoubleLead

LEMMA InTripleLead ==
  ASSUME NEW a \in Int, NEW b \in Int, NEW A, NEW B, IsTripleLead(A, B), a \in A, b \in B
  PROVE  TripleLead(a, b)
<1>1. CASE A = {224} /\ B = 160 .. 191
  BY <1>1 DEF TripleLead, Continues
<1>2. CASE A = 225 .. 236 /\ B = Continuation
  BY <1>2, InContinuation DEF TripleLead
<1>3. CASE A = {237} /\ B = 128 .. 159
  BY <1>3 DEF TripleLead, Continues
<1>4. CASE A = 238 .. 239 /\ B = Continuation
  BY <1>4, InContinuation DEF TripleLead
<1> QED BY <1>1, <1>2, <1>3, <1>4 DEF IsTripleLead

LEMMA InQuadrupleLead ==
  ASSUME NEW a \in Int, NEW b \in Int, NEW A, NEW B, IsQuadrupleLead(A, B), a \in A, b \in B
  PROVE  QuadrupleLead(a, b)
<1>1. CASE A = {240} /\ B = 144 .. 191
  BY <1>1 DEF QuadrupleLead, Continues
<1>2. CASE A = 241 .. 243 /\ B = Continuation
  BY <1>2, InContinuation DEF QuadrupleLead
<1>3. CASE A = {244} /\ B = 128 .. 143
  BY <1>3 DEF QuadrupleLead, Continues
<1> QED BY <1>1, <1>2, <1>3 DEF IsQuadrupleLead

LEMMA TripleLeadIn ==
  ASSUME NEW a \in Int, NEW b \in Int, TripleLead(a, b)
  PROVE  \E A, B : IsTripleLead(A, B) /\ a \in A /\ b \in B
<1>0. b \in Continuation
  BY InContinuation DEF TripleLead
<1>1. CASE a = 224
  <2>1. PICK A, B : A = {224} /\ B = 160 .. 191
    OBVIOUS
  <2>2. a \in A /\ b \in B
    BY <1>1, <2>1 DEF TripleLead, Continues
  <2>3. IsTripleLead(A, B)
    BY <2>1, Zenon DEF IsTripleLead
  <2> QED BY <2>2, <2>3
<1>2. CASE a = 237
  <2>1. PICK A, B : A = {237} /\ B = 128 .. 159
    OBVIOUS
  <2>2. a \in A /\ b \in B
    BY <1>2, <2>1 DEF TripleLead, Continues
  <2>3. IsTripleLead(A, B)
    BY <2>1, Zenon DEF IsTripleLead
  <2> QED BY <2>2, <2>3
<1>3. CASE 225 <= a /\ a <= 236
  <2>1. a \in 225 .. 236
    BY <1>3
  <2> QED BY <1>0, <2>1 DEF IsTripleLead
<1>4. CASE 238 <= a /\ a <= 239
  <2>1. a \in 238 .. 239
    BY <1>4
  <2> QED BY <1>0, <2>1 DEF IsTripleLead
<1> QED BY <1>1, <1>2, <1>3, <1>4 DEF TripleLead

LEMMA QuadrupleLeadIn ==
  ASSUME NEW a \in Int, NEW b \in Int, QuadrupleLead(a, b)
  PROVE  \E A, B : IsQuadrupleLead(A, B) /\ a \in A /\ b \in B
<1>0. b \in Continuation
  BY InContinuation DEF QuadrupleLead
<1>1. CASE a = 240
  <2>1. PICK A, B : A = {240} /\ B = 144 .. 191
    OBVIOUS
  <2>2. a \in A /\ b \in B
    BY <1>1, <2>1 DEF QuadrupleLead, Continues
  <2>3. IsQuadrupleLead(A, B)
    BY <2>1, Zenon DEF IsQuadrupleLead
  <2> QED BY <2>2, <2>3
<1>2. CASE a = 244
  <2>1. PICK A, B : A = {244} /\ B = 128 .. 143
    OBVIOUS
  <2>2. a \in A /\ b \in B
    BY <1>2, <2>1 DEF QuadrupleLead, Continues
  <2>3. IsQuadrupleLead(A, B)
    BY <2>1, Zenon DEF IsQuadrupleLead
  <2> QED BY <2>2, <2>3
<1>3. CASE 241 <= a /\ a <= 243
  <2>1. a \in 241 .. 243
    BY <1>3
  <2> QED BY <1>0, <2>1 DEF IsQuadrupleLead
<1> QED BY <1>1, <1>2, <1>3 DEF QuadrupleLead

\* The patterns for characters of several bytes.
LEMMA ExtBMPAre ==
  /\ \A r \in U_EXTBMP :
       \/ \E A : r = <<A, Continuation>> /\ IsDoubleLead(A)
       \/ \E A, B : r = <<A, B, Continuation>> /\ IsTripleLead(A, B)
  /\ \A A : IsDoubleLead(A) => <<A, Continuation>> \in U_EXTBMP
  /\ \A A, B : IsTripleLead(A, B) => <<A, B, Continuation>> \in U_EXTBMP
<1>1. ASSUME NEW r \in U_EXTBMP
      PROVE  \/ \E A : r = <<A, Continuation>> /\ IsDoubleLead(A)
             \/ \E A, B : r = <<A, B, Continuation>> /\ IsTripleLead(A, B)
  <2>1. ASSUME NEW A, NEW B, IsTripleLead(A, B), r = <<A, B, Continuation>>
        PROVE  \E X, Y : r = <<X, Y, Continuation>> /\ IsTripleLead(X, Y)
    BY <2>1
  <2>2. /\ IsTripleLead({224}, 160 .. 191) /\ IsTripleLead(225 .. 236, Continuation)
        /\ IsTripleLead({237}, 128 .. 159) /\ IsTripleLead(238 .. 239, Continuation)
    BY DEF IsTripleLead
  <2>3. CASE r = <<194 .. 223, Continuation>>
    BY <2>3 DEF IsDoubleLead
  <2>4. CASE r = <<{224}, 160 .. 191, Continuation>>
    BY <2>1, <2>2, <2>4
  <2>5. CASE r = <<225 .. 236, Continuation, Continuation>>
    BY <2>1, <2>2, <2>5
  <2>6. CASE r = <<{237}, 128 .. 159, Continuation>>
    BY <2>1, <2>2, <2>6
  <2>7. CASE r = <<238 .. 239, Continuation, Continuation>>
    BY <2>1, <2>2, <2>7
  <2> QED BY <2>3, <2>4, <2>5, <2>6, <2>7 DEF U_EXTBMP
<1>2. ASSUME NEW A, IsDoubleLead(A)
      PROVE  <<A, Continuation>> \in U_EXTBMP
  BY <1>2 DEF U_EXTBMP, IsDoubleLead
<1>3. ASSUME NEW A, NEW B, IsTripleLead(A, B)
      PROVE  <<A, B, Continuation>> \in U_EXTBMP
  BY <1>3 DEF U_EXTBMP, IsTripleLead
<1> QED BY <1>1, <1>2, <1>3

LEMMA NonBMPAre ==
  /\ \A r \in U_NONBMP :
       \E A, B : r = <<A, B, Continuation, Continuation>> /\ IsQuadrupleLead(A, B)
  /\ \A A, B : IsQuadrupleLead(A, B) => <<A, B, Continuation, Continuation>> \in U_NONBMP
<1>1. ASSUME NEW r \in U_NONBMP
      PROVE  \E A, B : r = <<A, B, Continuation, Continuation>> /\ IsQuadrupleLead(A, B)
  <2>1. ASSUME NEW A, NEW B, IsQuadrupleLead(A, B), r = <<A, B, Continuation, Continuation>>
        PROVE  \E X, Y : r = <<X, Y, Continuation, Continuation>> /\ IsQuadrupleLead(X, Y)
    BY <2>1
  <2>2. /\ IsQuadrupleLead({240}, 144 .. 191) /\ IsQuadrupleLead(241 .. 243, Continuation)
        /\ IsQuadrupleLead({244}, 128 .. 143)
    BY DEF IsQuadrupleLead
  <2>3. CASE r = <<{240}, 144 .. 191, Continuation, Continuation>>
    BY <2>1, <2>2, <2>3
  <2>4. CASE r = <<241 .. 243, Continuation, Continuation, Continuation>>
    BY <2>1, <2>2, <2>4
  <2>5. CASE r = <<{244}, 128 .. 143, Continuation, Continuation>>
    BY <2>1, <2>2, <2>5
  <2> QED BY <2>3, <2>4, <2>5 DEF U_NONBMP
<1>2. ASSUME NEW A, NEW B, IsQuadrupleLead(A, B)
      PROVE  <<A, B, Continuation, Continuation>> \in U_NONBMP
  BY <1>2 DEF U_NONBMP, IsQuadrupleLead
<1> QED BY <1>1, <1>2

LEMMA Lengths ==
  \A A, B, C, D : Len(<<A>>) = 1 /\ Len(<<A, B>>) = 2 /\ Len(<<A, B, C>>) = 3 /\ Len(<<A, B, C, D>>) = 4
  OBVIOUS

\* The n bytes from p on, n up to 4.
LEMMA BytesAre ==
  ASSUME IsText, NEW p \in Nat
  PROVE  /\ p + 1 <= Len(text) => Byte(p) \in Int
         /\ p + 2 <= Len(text) => Byte(p) \in Int /\ Byte(p + 1) \in Int
         /\ p + 3 <= Len(text) => Byte(p) \in Int /\ Byte(p + 1) \in Int /\ Byte(p + 2) \in Int
         /\ p + 4 <= Len(text) =>
              Byte(p) \in Int /\ Byte(p + 1) \in Int /\ Byte(p + 2) \in Int /\ Byte(p + 3) \in Int
<1>1. Len(text) \in Nat
  BY DEF IsText
<1>2. \A q \in {p, p + 1, p + 2, p + 3} : q < Len(text) => Byte(q) \in Int
  BY ByteIs
<1> QED BY <1>1, <1>2

\* What they match are characters.
LEMMA ExtBMPIs ==
  ASSUME IsText, NEW p \in Nat, NEW r \in U_EXTBMP, Matches(r, p)
  PROVE  (Len(r) = 2 /\ Double(p)) \/ (Len(r) = 3 /\ Triple(p))
<1>1. ASSUME NEW A, r = <<A, Continuation>>, IsDoubleLead(A)
      PROVE  Len(r) = 2 /\ Double(p)
  <2>1. p + 2 <= Len(text) /\ Byte(p) \in A /\ Byte(p + 1) \in Continuation
    BY <1>1, TwoBytes
  <2>2. DoubleLead(Byte(p)) /\ Continues(Byte(p + 1))
    BY <1>1, <2>1, BytesAre, InDoubleLead, InContinuation
  <2> QED BY <1>1, <2>1, <2>2, LeadsAre, Lengths
<1>2. ASSUME NEW A, NEW B, r = <<A, B, Continuation>>, IsTripleLead(A, B)
      PROVE  Len(r) = 3 /\ Triple(p)
  <2>1. p + 3 <= Len(text) /\ Byte(p) \in A /\ Byte(p + 1) \in B /\ Byte(p + 2) \in Continuation
    BY <1>2, ThreeBytes
  <2>2. TripleLead(Byte(p), Byte(p + 1)) /\ Continues(Byte(p + 2))
    BY <1>2, <2>1, BytesAre, InTripleLead, InContinuation
  <2> QED BY <1>2, <2>1, <2>2, LeadsAre, Lengths
<1>3. CASE \E A : r = <<A, Continuation>> /\ IsDoubleLead(A)
  <2>1. PICK A : r = <<A, Continuation>> /\ IsDoubleLead(A)
    BY <1>3, Zenon
  <2>2. Len(r) = 2 /\ Double(p)
    BY <1>1, <2>1
  <2> QED BY <2>2
<1>4. CASE \E A, B : r = <<A, B, Continuation>> /\ IsTripleLead(A, B)
  BY <1>2, <1>4, Zenon
<1> QED BY <1>3, <1>4, ExtBMPAre, Zenon

LEMMA NonBMPIs ==
  ASSUME IsText, NEW p \in Nat, NEW r \in U_NONBMP, Matches(r, p)
  PROVE  Len(r) = 4 /\ Quadruple(p)
<1>1. PICK A, B : r = <<A, B, Continuation, Continuation>> /\ IsQuadrupleLead(A, B)
  BY NonBMPAre, Zenon
<1>2. /\ p + 4 <= Len(text) /\ Byte(p) \in A /\ Byte(p + 1) \in B
      /\ Byte(p + 2) \in Continuation /\ Byte(p + 3) \in Continuation
  BY <1>1, FourBytes
<1>3. QuadrupleLead(Byte(p), Byte(p + 1)) /\ Continues(Byte(p + 2)) /\ Continues(Byte(p + 3))
  BY <1>1, <1>2, BytesAre, InQuadrupleLead, InContinuation
<1> QED BY <1>1, <1>2, <1>3, LeadsAre, Lengths

\* Every character of several bytes is matched by one of them.
LEMMA DoubleMatches ==
  ASSUME IsText, NEW p \in Nat, Double(p)
  PROVE  \E r \in U_EXTBMP : Matches(r, p) /\ Len(r) = 2
<1>1. p + 2 <= Len(text) /\ DoubleLead(Byte(p)) /\ Continues(Byte(p + 1))
  BY LeadsAre
<1>2. PICK A : IsDoubleLead(A)
  BY DEF IsDoubleLead
<1>3. Byte(p) \in A /\ Byte(p + 1) \in Continuation
  BY <1>1, <1>2, BytesAre, InDoubleLead, InContinuation
<1>4. Matches(<<A, Continuation>>, p)
  BY <1>1, <1>3, TwoBytes
<1> QED BY <1>2, <1>4, ExtBMPAre, Lengths, Zenon

LEMMA TripleMatches ==
  ASSUME IsText, NEW p \in Nat, Triple(p)
  PROVE  \E r \in U_EXTBMP : Matches(r, p) /\ Len(r) = 3
<1>1. p + 3 <= Len(text) /\ TripleLead(Byte(p), Byte(p + 1)) /\ Continues(Byte(p + 2))
  BY LeadsAre
<1>2. Byte(p) \in Int /\ Byte(p + 1) \in Int /\ Byte(p + 2) \in Int
  BY <1>1, BytesAre
<1>3. PICK A, B : IsTripleLead(A, B) /\ Byte(p) \in A /\ Byte(p + 1) \in B
  BY <1>1, <1>2, TripleLeadIn
<1>4. Byte(p + 2) \in Continuation
  BY <1>1, <1>2, InContinuation
<1>5. Matches(<<A, B, Continuation>>, p)
  BY <1>1, <1>3, <1>4, ThreeBytes
<1> QED BY <1>3, <1>5, ExtBMPAre, Lengths, Zenon

LEMMA QuadrupleMatches ==
  ASSUME IsText, NEW p \in Nat, Quadruple(p)
  PROVE  \E r \in U_NONBMP : Matches(r, p) /\ Len(r) = 4
<1>1. /\ p + 4 <= Len(text) /\ QuadrupleLead(Byte(p), Byte(p + 1))
      /\ Continues(Byte(p + 2)) /\ Continues(Byte(p + 3))
  BY LeadsAre
<1>2. Byte(p) \in Int /\ Byte(p + 1) \in Int /\ Byte(p + 2) \in Int /\ Byte(p + 3) \in Int
  BY <1>1, BytesAre
<1>3. PICK A, B : IsQuadrupleLead(A, B) /\ Byte(p) \in A /\ Byte(p + 1) \in B
  BY <1>1, <1>2, QuadrupleLeadIn
<1>4. Byte(p + 2) \in Continuation /\ Byte(p + 3) \in Continuation
  BY <1>1, <1>2, InContinuation
<1>5. Matches(<<A, B, Continuation, Continuation>>, p)
  BY <1>1, <1>3, <1>4, FourBytes
<1> QED BY <1>3, <1>5, NonBMPAre, Lengths, Zenon

-----------------------------------------------------------------------------
(* What the rules for errors match is no character                           *)

LEMMA NoCharacterIs ==
  ASSUME IsText, NEW p \in Nat
  PROVE  NoCharacter(p) <=> ~Single(p) /\ ~Double(p) /\ ~Triple(p) /\ ~Quadruple(p)
<1>1. \A n : n \in 1 .. 4 <=> n = 1 \/ n = 2 \/ n = 3 \/ n = 4
  OBVIOUS
<1>2. NoCharacter(p) <=>
        ~Character(p, 1) /\ ~Character(p, 2) /\ ~Character(p, 3) /\ ~Character(p, 4)
  <2>1. NoCharacter(p) <=> \A n \in 1 .. 4 : ~Character(p, n)
    BY Zenon DEF NoCharacter, Character
  <2> QED BY <1>1, <2>1
<1> QED BY <1>2, SingleIs, DoubleIs, TripleIs, QuadrupleIs

\* A match is no longer than the longest one, and that no longer than a repetition.
LEMMA MatchIsBounded ==
  ASSUME IsText, NEW P, Short(P), NEW p \in Nat, p <= Len(text), NEW r \in P, Matches(r, p)
  PROVE  /\ Len(r) \in Nat /\ Longest(P, p) \in Nat /\ Repeated(P, p) \in Nat
         /\ 1 <= Len(r) /\ Len(r) <= Longest(P, p) /\ Longest(P, p) <= Repeated(P, p)
<1>1. Len(r) \in 1 .. 4
  BY DEF Short
<1>2. Longest(P, p) \in 0 .. 4 /\ Len(r) <= Longest(P, p)
  BY LongestIs
<1>3. Repeated(P, p) \in Nat /\ Longest(P, p) <= Repeated(P, p)
  BY RepeatedIs DEF IsText
<1>4. \A n \in 1 .. 4 : n \in Nat /\ 1 <= n
  OBVIOUS
<1>5. Longest(P, p) \in Nat
  BY <1>2
<1> QED BY <1>1, <1>2, <1>3, <1>4, <1>5, Zenon

\* The rule taken is as long as a character of several bytes.
LEMMA CharacterTaken ==
  ASSUME IsText, pos \in Nat, pos <= Len(text), mode \in Modes, NEW w, Taken(w)
  PROVE  /\ Double(pos) => 2 <= w.len
         /\ Triple(pos) => 3 <= w.len
         /\ Quadruple(pos) => 4 <= w.len
<1>1. w.len \in Nat
  BY DEF Taken
<1>2. ASSUME NEW r \in U_EXTBMP, Matches(r, pos)
      PROVE  Len(r) <= w.len
  <2>1. r \in NameChar /\ r \in QuotedNameChar /\ r \in StringChar
    BY Zenon DEF NameChar, QuotedNameChar, StringChar
  <2>2. CASE mode = "INITIAL"
    <3>1. Repeated(NameChar, pos) <= w.len
      BY <2>2 DEF Taken
    <3> QED BY <1>1, <1>2, <2>1, <3>1, MatchIsBounded, NamePatternsShort
  <2>3. CASE mode = "QUOTED_IDENTIFIER"
    <3>1. Repeated(QuotedNameChar, pos) <= w.len
      BY <2>3 DEF Taken
    <3> QED BY <1>1, <1>2, <2>1, <3>1, MatchIsBounded, NamePatternsShort
  <2>4. CASE mode = "SINGLE_QUOTED_STRING"
    <3>1. Repeated(StringChar, pos) <= w.len
      BY <2>4 DEF Taken
    <3> QED BY <1>1, <1>2, <2>1, <3>1, MatchIsBounded, NamePatternsShort
  <2> QED BY <2>2, <2>3, <2>4 DEF Modes
<1>3. ASSUME NEW r \in U_NONBMP, Matches(r, pos)
      PROVE  Len(r) <= w.len
  <2>1. CASE mode = "SINGLE_QUOTED_STRING"
    <3>1. Repeated(StringChar, pos) <= w.len
      BY <2>1 DEF Taken
    <3>2. r \in StringChar
      BY Zenon DEF StringChar
    <3> QED BY <1>1, <1>3, <3>1, <3>2, MatchIsBounded, NamePatternsShort
  <2>2. CASE mode # "SINGLE_QUOTED_STRING"
    <3>1. Longest(U_NONBMP, pos) <= w.len
      BY <2>2 DEF Taken
    <3> QED BY <1>1, <1>3, <3>1, MatchIsBounded, ErrorPatternsShort
  <2> QED BY <2>1, <2>2
<1>4. Double(pos) => 2 <= w.len
  BY <1>2, DoubleMatches
<1>5. Triple(pos) => 3 <= w.len
  BY <1>2, TripleMatches
<1>6. Quadruple(pos) => 4 <= w.len
  BY <1>3, QuadrupleMatches
<1> QED BY <1>4, <1>5, <1>6

\* The first bytes of a match.
LEMMA MatchedBytes ==
  ASSUME NEW p \in Nat, NEW r, Matches(r, p), NEW A, NEW B, NEW C, NEW D
  PROVE  /\ r = <<A>> => Byte(p) \in A /\ Len(r) = 1
         /\ r = <<A, B>> => Byte(p) \in A /\ Byte(p + 1) \in B /\ Len(r) = 2
         /\ r = <<A, B, C>> => Byte(p) \in A /\ Byte(p + 1) \in B /\ Len(r) = 3
         /\ r = <<A, B, C, D>> => Byte(p) \in A /\ Byte(p + 1) \in B /\ Len(r) = 4
<1>1. Len(<<A>>) = 1 /\ Len(<<A, B>>) = 2 /\ Len(<<A, B, C>>) = 3 /\ Len(<<A, B, C, D>>) = 4
  OBVIOUS
<1>2. r = <<A>> => Byte(p) \in A /\ Len(r) = 1
  BY <1>1, OneByte
<1>3. r = <<A, B>> => Byte(p) \in A /\ Byte(p + 1) \in B /\ Len(r) = 2
  BY <1>1, TwoBytes
<1>4. r = <<A, B, C>> => Byte(p) \in A /\ Byte(p + 1) \in B /\ Len(r) = 3
  BY <1>1, ThreeBytes
<1>5. r = <<A, B, C, D>> => Byte(p) \in A /\ Byte(p + 1) \in B /\ Len(r) = 4
  BY <1>1, FourBytes
<1> QED BY <1>2, <1>3, <1>4, <1>5

\* What begins like a character and is too short for one.
PartialLead(a, n) ==
  \/ n = 1 /\ 128 <= a /\ a <= 223
  \/ n <= 2 /\ 224 <= a /\ a <= 239
  \/ n <= 3 /\ 240 <= a /\ a <= 247

LEMMA InPartialLead ==
  ASSUME NEW a \in Int
  PROVE  /\ a \in 192 .. 223 => PartialLead(a, 1)
         /\ a \in Continuation => PartialLead(a, 1)
         /\ a \in 224 .. 239 => PartialLead(a, 1) /\ PartialLead(a, 2)
         /\ a \in 240 .. 247 => PartialLead(a, 1) /\ PartialLead(a, 2) /\ PartialLead(a, 3)
  BY DEF PartialLead, Continuation

LEMMA PartialIs ==
  ASSUME IsText, NEW p \in Nat, p < Len(text), NEW r \in U_PARTIAL \cup {<<Continuation>>}, Matches(r, p)
  PROVE  PartialLead(Byte(p), Len(r))
<1>1. Byte(p) \in Int
  BY ByteIs
<1>2. PICK A, B, C : A = 192 .. 223 /\ B = 224 .. 239 /\ C = 240 .. 247
  OBVIOUS
<1>3. CASE r = <<A>>
  <2>1. Byte(p) \in A /\ Len(r) = 1
    BY <1>3, MatchedBytes
  <2>2. Byte(p) \in 192 .. 223
    BY <1>2, <2>1
  <2> QED BY <1>1, <2>1, <2>2, InPartialLead
<1>4. CASE r = <<B>> \/ r = <<B, Continuation>>
  <2>1. Byte(p) \in B /\ (Len(r) = 1 \/ Len(r) = 2)
    BY <1>4, MatchedBytes
  <2>2. Byte(p) \in 224 .. 239
    BY <1>2, <2>1
  <2> QED BY <1>1, <2>1, <2>2, InPartialLead
<1>5. CASE r = <<C>> \/ r = <<C, Continuation>> \/ r = <<C, Continuation, Continuation>>
  <2>1. Byte(p) \in C /\ (Len(r) = 1 \/ Len(r) = 2 \/ Len(r) = 3)
    BY <1>5, MatchedBytes
  <2>2. Byte(p) \in 240 .. 247
    BY <1>2, <2>1
  <2> QED BY <1>1, <2>1, <2>2, InPartialLead
<1>6. CASE r = <<Continuation>>
  <2>1. Byte(p) \in Continuation /\ Len(r) = 1
    BY <1>6, MatchedBytes
  <2> QED BY <1>1, <2>1, InPartialLead
<1>7. U_PARTIAL = {<<A>>, <<B>>, <<B, Continuation>>, <<C>>, <<C, Continuation>>,
                   <<C, Continuation, Continuation>>}
  BY <1>2 DEF U_PARTIAL
<1> QED BY <1>3, <1>4, <1>5, <1>6, <1>7

\* What is no beginning of a character.
WrongLead(a, b) ==
  \/ a = 0 \/ 248 <= a \/ a = 192 \/ a = 193
  \/ a = 224 /\ b <= 159
  \/ a = 237 /\ 160 <= b
  \/ a = 240 /\ b <= 143
  \/ a = 244 /\ 144 <= b
  \/ 245 <= a

LEMMA InWrongLead ==
  ASSUME NEW a \in Int, NEW b
  PROVE  /\ a \in {NUL} \/ a \in 248 .. 255 \/ a \in {192, 193} \/ a \in 245 .. 247 => WrongLead(a, b)
         /\ a \in {224} /\ b \in 128 .. 159 => WrongLead(a, b)
         /\ a \in {237} /\ b \in 160 .. 191 => WrongLead(a, b)
         /\ a \in {240} /\ b \in 128 .. 143 => WrongLead(a, b)
         /\ a \in {244} /\ b \in 144 .. 191 => WrongLead(a, b)
  BY DEF WrongLead, NUL

LEMMA WrongLeadIs ==
  ASSUME NEW a \in Int, NEW b, WrongLead(a, b)
  PROVE  /\ ~(1 <= a /\ a <= 127) /\ ~DoubleLead(a)
         /\ b \in Int => ~TripleLead(a, b) /\ ~QuadrupleLead(a, b)
  BY DEF WrongLead, DoubleLead, TripleLead, QuadrupleLead

LEMMA WrongIs ==
  ASSUME IsText, NEW p \in Nat, p < Len(text),
         NEW r \in {<<{NUL}>>} \cup {<<248 .. 255>>} \cup U_OVERLONG \cup U_TOOHIGH \cup U_SURROGATE,
         Matches(r, p)
  PROVE  NoCharacter(p)
<1>1. Byte(p) \in Int
  BY ByteIs
<1>4. WrongLead(Byte(p), Byte(p + 1)) => NoCharacter(p)
  <2> SUFFICES ASSUME WrongLead(Byte(p), Byte(p + 1)) PROVE NoCharacter(p)
    OBVIOUS
  <2>1. ~Single(p) /\ ~Double(p)
    BY <1>1, WrongLeadIs, LeadsAre DEF Single
  <2>2. ~Triple(p) /\ ~Quadruple(p)
    BY <1>1, BytesAre, WrongLeadIs, LeadsAre
  <2> QED BY <2>1, <2>2, NoCharacterIs
<1>5. CASE r = <<{NUL}>>
  <2>1. PICK A : A = {NUL}
    OBVIOUS
  <2>2. r = <<A>>
    BY <1>5, <2>1
  <2>3. Byte(p) \in A
    BY <2>2, MatchedBytes
  <2>4. Byte(p) \in {NUL}
    BY <2>1, <2>3
  <2> QED BY <1>1, <1>4, <2>4, InWrongLead
<1>6. CASE r = <<248 .. 255>>
  <2>1. PICK A : A = 248 .. 255
    OBVIOUS
  <2>2. r = <<A>>
    BY <1>6, <2>1
  <2>3. Byte(p) \in A
    BY <2>2, MatchedBytes
  <2>4. Byte(p) \in 248 .. 255
    BY <2>1, <2>3
  <2> QED BY <1>1, <1>4, <2>4, InWrongLead
<1>7. CASE r = <<{192, 193}, Continuation>>
  <2>1. PICK A : A = {192, 193}
    OBVIOUS
  <2>2. r = <<A, Continuation>>
    BY <1>7, <2>1
  <2>3. Byte(p) \in A
    BY <2>2, MatchedBytes
  <2>4. Byte(p) \in {192, 193}
    BY <2>1, <2>3
  <2> QED BY <1>1, <1>4, <2>4, InWrongLead
<1>8. CASE r = <<{224}, 128 .. 159, Continuation>>
  <2>1. PICK A, B : A = {224} /\ B = 128 .. 159
    OBVIOUS
  <2>2. r = <<A, B, Continuation>>
    BY <1>8, <2>1
  <2>3. Byte(p) \in A /\ Byte(p + 1) \in B
    BY <2>2, MatchedBytes
  <2>4. Byte(p) \in {224} /\ Byte(p + 1) \in 128 .. 159
    BY <2>1, <2>3
  <2> QED BY <1>1, <1>4, <2>4, InWrongLead
<1>9. CASE r = <<{240}, 128 .. 143, Continuation, Continuation>>
  <2>1. PICK A, B : A = {240} /\ B = 128 .. 143
    OBVIOUS
  <2>2. r = <<A, B, Continuation, Continuation>>
    BY <1>9, <2>1
  <2>3. Byte(p) \in A /\ Byte(p + 1) \in B
    BY <2>2, MatchedBytes
  <2>4. Byte(p) \in {240} /\ Byte(p + 1) \in 128 .. 143
    BY <2>1, <2>3
  <2> QED BY <1>1, <1>4, <2>4, InWrongLead
<1>10. CASE r = <<{244}, 144 .. 191, Continuation, Continuation>>
  <2>1. PICK A, B : A = {244} /\ B = 144 .. 191
    OBVIOUS
  <2>2. r = <<A, B, Continuation, Continuation>>
    BY <1>10, <2>1
  <2>3. Byte(p) \in A /\ Byte(p + 1) \in B
    BY <2>2, MatchedBytes
  <2>4. Byte(p) \in {244} /\ Byte(p + 1) \in 144 .. 191
    BY <2>1, <2>3
  <2> QED BY <1>1, <1>4, <2>4, InWrongLead
<1>11. CASE r = <<245 .. 247, Continuation, Continuation, Continuation>>
  <2>1. PICK A : A = 245 .. 247
    OBVIOUS
  <2>2. r = <<A, Continuation, Continuation, Continuation>>
    BY <1>11, <2>1
  <2>3. Byte(p) \in A
    BY <2>2, MatchedBytes
  <2>4. Byte(p) \in 245 .. 247
    BY <2>1, <2>3
  <2> QED BY <1>1, <1>4, <2>4, InWrongLead
<1>12. CASE r = <<{237}, 160 .. 191, Continuation>>
  <2>1. PICK A, B : A = {237} /\ B = 160 .. 191
    OBVIOUS
  <2>2. r = <<A, B, Continuation>>
    BY <1>12, <2>1
  <2>3. Byte(p) \in A /\ Byte(p + 1) \in B
    BY <2>2, MatchedBytes
  <2>4. Byte(p) \in {237} /\ Byte(p + 1) \in 160 .. 191
    BY <2>1, <2>3
  <2> QED BY <1>1, <1>4, <2>4, InWrongLead
<1>13. CASE r \in U_OVERLONG
  BY <1>13, <1>7, <1>8, <1>9 DEF U_OVERLONG
<1>14. CASE r \in U_TOOHIGH
  BY <1>14, <1>10, <1>11 DEF U_TOOHIGH
<1>15. CASE r \in U_SURROGATE
  BY <1>15, <1>12 DEF U_SURROGATE
<1> QED BY <1>5, <1>6, <1>13, <1>14, <1>15

\* The rule taken matches as much as those for single bytes.
Covers(w) ==
  /\ mode = "INITIAL" =>
       /\ Longest({<<Space>>}, pos) <= w.len
       /\ Longest(Operators, pos) <= w.len
       /\ Longest({<<{Backtick, Apostrophe}>>}, pos) <= w.len
       /\ Longest({<<Illegal>>}, pos) <= w.len
  /\ mode = "QUOTED_IDENTIFIER" => Longest({<<{Backtick}>>}, pos) <= w.len
  /\ mode = "SINGLE_QUOTED_STRING" =>
       /\ Longest({<<{Apostrophe}>>}, pos) <= w.len
       /\ Longest({<<{Backslash}>>}, pos) <= w.len

LEMMA WinnerCovers ==
  ASSUME InText, mode \in Modes
  PROVE  Covers(Winner)
<1>1. PICK w : w = Winner
  OBVIOUS
<1>2. \A j \in DOMAIN Rules : Rules[j].len <= w.len
  BY <1>1, WinnerTakes DEF Takes
<1>3. \A j \in 1 .. Len(ModeRules) : ModeRules[j].len <= w.len
  <2> SUFFICES ASSUME NEW j \in 1 .. Len(ModeRules) PROVE ModeRules[j].len <= w.len
    OBVIOUS
  <2>1. 7 + j \in DOMAIN Rules /\ Rules[7 + j] = ModeRules[j]
    BY RulesAre
  <2> QED BY <1>2, <2>1
<1>4. CASE mode = "INITIAL"
  <2>1. ModeRules = InitialRules /\ Len(ModeRules) = 8
    BY <1>4, RulesAre DEF ModeRules
  <2>2. /\ InitialRules[1].len <= w.len /\ InitialRules[4].len <= w.len
        /\ InitialRules[7].len <= w.len /\ InitialRules[8].len <= w.len
    BY <1>3, <2>1
  <2>3. /\ InitialRules[1].len = Longest({<<Space>>}, pos)
        /\ InitialRules[4].len = Longest(Operators, pos)
        /\ InitialRules[7].len = Longest({<<{Backtick, Apostrophe}>>}, pos)
        /\ InitialRules[8].len = Longest({<<Illegal>>}, pos)
    BY DEF InitialRules, Rule
  <2> QED BY <1>1, <1>4, <2>2, <2>3 DEF Covers
<1>5. CASE mode = "QUOTED_IDENTIFIER"
  <2>1. ModeRules = QuotedIdentifierRules /\ Len(ModeRules) = 3
    BY <1>5, RulesAre DEF ModeRules
  <2>2. QuotedIdentifierRules[3].len <= w.len
    BY <1>3, <2>1
  <2>3. QuotedIdentifierRules[3].len = Longest({<<{Backtick}>>}, pos)
    BY DEF QuotedIdentifierRules, Rule
  <2> QED BY <1>1, <1>5, <2>2, <2>3 DEF Covers
<1>6. CASE mode = "SINGLE_QUOTED_STRING"
  <2>1. ModeRules = StringRules /\ Len(ModeRules) = 6
    BY <1>6, RulesAre DEF ModeRules
  <2>2. StringRules[3].len <= w.len /\ StringRules[5].len <= w.len
    BY <1>3, <2>1
  <2>3. /\ StringRules[3].len = Longest({<<{Apostrophe}>>}, pos)
        /\ StringRules[5].len = Longest({<<{Backslash}>>}, pos)
    BY DEF StringRules, Rule
  <2> QED BY <1>1, <1>6, <2>2, <2>3 DEF Covers
<1> QED BY <1>4, <1>5, <1>6 DEF Modes

\* The lexer's place, as the lemmas about matches need it.
LEMMA PlaceIs ==
  ASSUME InText
  PROVE  IsText /\ pos \in Nat /\ pos <= Len(text) /\ Len(text) \in Nat
  BY DEF InText, IsText

\* A byte of a set of a pattern makes a match.
LEMMA ByteMatches ==
  ASSUME IsText, NEW P, Short(P), NEW p \in Nat, p < Len(text), NEW D, <<D>> \in P, Byte(p) \in D
  PROVE  Longest(P, p) \in Nat /\ Repeated(P, p) \in Nat /\ 1 <= Longest(P, p) /\ 1 <= Repeated(P, p)
<1>1. Len(text) \in Nat
  BY DEF IsText
<1>2. Matches(<<D>>, p)
  BY <1>1, OneByte
<1>3. Len(<<D>>) = 1
  OBVIOUS
<1>4. p <= Len(text)
  BY <1>1
<1> QED BY <1>2, <1>3, <1>4, MatchIsBounded

LEMMA OneByteMatches ==
  ASSUME IsText, NEW p \in Nat, p < Len(text), NEW D, Byte(p) \in D
  PROVE  Longest({<<D>>}, p) = 1
<1>1. p + 1 <= Len(text)
  BY DEF IsText
<1> QED BY <1>1, LongestByte

LEMMA InASCII ==
  ASSUME NEW a \in Int, 1 <= a, a <= 127
  PROVE  a \in 1 .. 127
  OBVIOUS

\* Every byte of ASCII but NUL is matched in every start condition.
LEMMA SingleTaken ==
  ASSUME IsText, pos \in Nat, pos < Len(text), mode \in Modes, NEW w, Taken(w), Covers(w),
         Byte(pos) \in 1 .. 127
  PROVE  1 <= w.len
<1>1. w.len \in Nat
  BY DEF Taken
<1>2. CASE mode = "INITIAL"
  <2>1. /\ Longest({<<Space>>}, pos) <= w.len /\ Longest(Operators, pos) <= w.len
        /\ Longest({<<{Backtick, Apostrophe}>>}, pos) <= w.len /\ Longest({<<Illegal>>}, pos) <= w.len
        /\ Repeated(NameChar, pos) <= w.len
    BY <1>2 DEF Covers, Taken
  <2>2. \/ Byte(pos) \in Illegal \/ Byte(pos) \in Space \/ Byte(pos) \in {36} \cup Digit \cup Letter
        \/ Byte(pos) \in {Backtick, Apostrophe} \/ <<{Byte(pos)}>> \in Operators
    BY Zenon DEF Illegal
  <2>3. CASE Byte(pos) \in Illegal
    BY <1>1, <2>1, <2>3, OneByteMatches
  <2>4. CASE Byte(pos) \in Space
    BY <1>1, <2>1, <2>4, OneByteMatches
  <2>5. CASE Byte(pos) \in {Backtick, Apostrophe}
    BY <1>1, <2>1, <2>5, OneByteMatches
  <2>6. CASE <<{Byte(pos)}>> \in Operators
    <3>1. Byte(pos) \in {Byte(pos)}
      OBVIOUS
    <3>2. Longest(Operators, pos) \in Nat /\ 1 <= Longest(Operators, pos)
      BY <2>6, <3>1, ByteMatches, NamePatternsShort
    <3> QED BY <1>1, <2>1, <3>2
  <2>7. CASE Byte(pos) \in {36} \cup Digit \cup Letter
    <3>1. <<{36} \cup Digit \cup Letter>> \in NameChar
      BY Zenon DEF NameChar
    <3>2. Repeated(NameChar, pos) \in Nat /\ 1 <= Repeated(NameChar, pos)
      BY <2>7, <3>1, ByteMatches, NamePatternsShort
    <3> QED BY <1>1, <2>1, <3>2
  <2> QED BY <2>2, <2>3, <2>4, <2>5, <2>6, <2>7
<1>3. CASE mode = "QUOTED_IDENTIFIER"
  <2>1. Longest({<<{Backtick}>>}, pos) <= w.len /\ Repeated(QuotedNameChar, pos) <= w.len
    BY <1>3 DEF Covers, Taken
  <2>2. CASE Byte(pos) \in {Backtick}
    BY <1>1, <2>1, <2>2, OneByteMatches
  <2>3. CASE Byte(pos) \in 1 .. 127 \ {Backtick}
    <3>1. <<1 .. 127 \ {Backtick}>> \in QuotedNameChar
      BY Zenon DEF QuotedNameChar
    <3>2. Repeated(QuotedNameChar, pos) \in Nat /\ 1 <= Repeated(QuotedNameChar, pos)
      BY <2>3, <3>1, ByteMatches, NamePatternsShort
    <3> QED BY <1>1, <2>1, <3>2
  <2> QED BY <2>2, <2>3
<1>4. CASE mode = "SINGLE_QUOTED_STRING"
  <2>1. /\ Longest({<<{Apostrophe}>>}, pos) <= w.len /\ Longest({<<{Backslash}>>}, pos) <= w.len
        /\ Repeated(StringChar, pos) <= w.len
    BY <1>4 DEF Covers, Taken
  <2>2. CASE Byte(pos) \in {Apostrophe}
    BY <1>1, <2>1, <2>2, OneByteMatches
  <2>3. CASE Byte(pos) \in {Backslash}
    BY <1>1, <2>1, <2>3, OneByteMatches
  <2>4. CASE Byte(pos) \in 1 .. 127 \ {Apostrophe, Backslash}
    <3>1. <<1 .. 127 \ {Apostrophe, Backslash}>> \in StringChar
      BY Zenon DEF StringChar
    <3>2. Repeated(StringChar, pos) \in Nat /\ 1 <= Repeated(StringChar, pos)
      BY <2>4, <3>1, ByteMatches, NamePatternsShort
    <3> QED BY <1>1, <2>1, <3>2
  <2> QED BY <2>2, <2>3, <2>4
<1> QED BY <1>2, <1>3, <1>4 DEF Modes

\* What is reported as an error of encoding is no character.
LEMMA EncodingErrorIs ==
  ASSUME IsText, pos \in Nat, pos < Len(text), mode \in Modes, NEW w, Taken(w), Covers(w),
         w.name \in EncodingErrors
  PROVE  NoCharacter(pos)
<1>1. w.len \in Nat /\ Len(text) \in Nat /\ pos <= Len(text)
  BY DEF Taken, IsText
<1>2. Byte(pos) \in Int
  BY ByteIs
<1>3. CASE w.len = 0
  <2>1. ~Single(pos)
    <3> SUFFICES ASSUME Single(pos) PROVE FALSE
      OBVIOUS
    <3>1. Byte(pos) \in 1 .. 127
      BY <1>2, InASCII DEF Single
    <3> QED BY <1>1, <1>3, <3>1, SingleTaken
  <2>2. ~Double(pos) /\ ~Triple(pos) /\ ~Quadruple(pos)
    BY <1>1, <1>3, CharacterTaken
  <2> QED BY <2>1, <2>2, NoCharacterIs
<1>4. CASE w.name = "LEX_U_ENC_ERR" /\ w.len = Longest(U_PARTIAL \cup {<<Continuation>>}, pos) /\ w.len > 0
  <2>1. PICK r \in U_PARTIAL \cup {<<Continuation>>} : Matches(r, pos) /\ Len(r) = w.len
    BY <1>4, LongestIs, ErrorPatternsShort
  <2>2. PartialLead(Byte(pos), w.len)
    BY <2>1, PartialIs
  <2>3. ~Single(pos)
    BY <1>1, <1>2, <2>2 DEF PartialLead, Single
  <2>4. ~Double(pos)
    BY <1>1, <1>2, <2>2, LeadsAre, CharacterTaken DEF PartialLead, DoubleLead
  <2>5. ~Triple(pos)
    BY <1>1, <1>2, <2>2, LeadsAre, CharacterTaken DEF PartialLead, TripleLead
  <2>6. ~Quadruple(pos)
    BY <1>1, <1>2, <2>2, LeadsAre, CharacterTaken DEF PartialLead, QuadrupleLead
  <2> QED BY <2>3, <2>4, <2>5, <2>6, NoCharacterIs
<1>5. ASSUME NEW P, w.len = Longest(P, pos), w.len > 0, Short(P),
             P \subseteq {<<{NUL}>>} \cup {<<248 .. 255>>} \cup U_OVERLONG \cup U_TOOHIGH \cup U_SURROGATE
      PROVE  NoCharacter(pos)
  <2>1. PICK r \in P : Matches(r, pos)
    BY <1>5, LongestIs
  <2> QED BY <1>5, <2>1, WrongIs
<1>6. \/ w.name = "LEX_U_ENC_ERR" /\ w.len = Longest(U_PARTIAL \cup {<<Continuation>>}, pos)
      \/ w.len = Longest({<<{NUL}>>}, pos) \/ w.len = Longest({<<248 .. 255>>}, pos)
      \/ w.len = Longest(U_OVERLONG, pos) \/ w.len = Longest(U_TOOHIGH, pos)
      \/ w.len = Longest(U_SURROGATE, pos)
  <2>1. IsErrorRule(w)
    BY DEF Taken, IsInitialRule, IsQuotedRule, IsStringRule, EncodingErrors
  <2> QED BY <2>1 DEF IsErrorRule, EncodingErrors
<1>7. CASE w.len > 0
  <2>1. CASE w.name = "LEX_U_ENC_ERR" /\ w.len = Longest(U_PARTIAL \cup {<<Continuation>>}, pos)
    BY <1>4, <1>7, <2>1
  <2>2. CASE w.len = Longest({<<{NUL}>>}, pos)
    <3>1. Short({<<{NUL}>>})
      BY ErrorPatternsShort, Zenon
    <3> QED BY <1>5, <1>7, <2>2, <3>1
  <2>3. CASE w.len = Longest({<<248 .. 255>>}, pos)
    <3>1. PICK A : A = 248 .. 255
      OBVIOUS
    <3>2. Short({<<A>>}) /\ w.len = Longest({<<A>>}, pos)
      BY <2>3, <3>1, ErrorPatternsShort
    <3>3. {<<A>>} \subseteq {<<{NUL}>>} \cup {<<248 .. 255>>} \cup U_OVERLONG \cup U_TOOHIGH \cup U_SURROGATE
      BY <3>1
    <3> QED BY <1>5, <1>7, <3>2, <3>3
  <2>4. CASE w.len = Longest(U_OVERLONG, pos)
    <3>1. PICK P : P = U_OVERLONG
      OBVIOUS
    <3>2. w.len = Longest(P, pos) /\ Short(P)
      BY <2>4, <3>1, ErrorPatternsShort
    <3>3. P \subseteq {<<{NUL}>>} \cup {<<248 .. 255>>} \cup U_OVERLONG \cup U_TOOHIGH \cup U_SURROGATE
      BY <3>1
    <3> QED BY <1>5, <1>7, <3>2, <3>3
  <2>5. CASE w.len = Longest(U_TOOHIGH, pos)
    <3>1. PICK P : P = U_TOOHIGH
      OBVIOUS
    <3>2. w.len = Longest(P, pos) /\ Short(P)
      BY <2>5, <3>1, ErrorPatternsShort
    <3>3. P \subseteq {<<{NUL}>>} \cup {<<248 .. 255>>} \cup U_OVERLONG \cup U_TOOHIGH \cup U_SURROGATE
      BY <3>1
    <3> QED BY <1>5, <1>7, <3>2, <3>3
  <2>6. CASE w.len = Longest(U_SURROGATE, pos)
    <3>1. PICK P : P = U_SURROGATE
      OBVIOUS
    <3>2. w.len = Longest(P, pos) /\ Short(P)
      BY <2>6, <3>1, ErrorPatternsShort
    <3>3. P \subseteq {<<{NUL}>>} \cup {<<248 .. 255>>} \cup U_OVERLONG \cup U_TOOHIGH \cup U_SURROGATE
      BY <3>1
    <3> QED BY <1>5, <1>7, <3>2, <3>3
  <2> QED BY <1>6, <2>1, <2>2, <2>3, <2>4, <2>5, <2>6
<1> QED BY <1>1, <1>3, <1>7

-----------------------------------------------------------------------------
(* What is read without an error consists of characters                      *)

\* A unit by the ranges of its bytes.
Wide(p, n) ==
  \/ n = 1 /\ Single(p)
  \/ n = 2 /\ Double(p)
  \/ n = 3 /\ Triple(p)
  \/ n = 4 /\ Quadruple(p)
UnitAt(p, n, q, r) ==
  IF q = Apostrophe /\ Byte(p) = Backslash
  THEN n = 2 /\ p + 2 <= Len(text) /\ Byte(p + 1) # Newline /\ r = q
  ELSE Wide(p, n) /\ r = Toggled(q, Byte(p))

LEMMA WideIs ==
  ASSUME IsText, NEW p \in Nat, NEW n \in 1 .. 4
  PROVE  Character(p, n) <=> Wide(p, n)
<1>1. n = 1 \/ n = 2 \/ n = 3 \/ n = 4
  OBVIOUS
<1>2. CASE n = 1
  BY <1>2, SingleIs DEF Wide
<1>3. CASE n = 2
  BY <1>3, DoubleIs DEF Wide
<1>4. CASE n = 3
  BY <1>4, TripleIs DEF Wide
<1>5. CASE n = 4
  BY <1>5, QuadrupleIs DEF Wide
<1> QED BY <1>1, <1>2, <1>3, <1>4, <1>5

LEMMA UnitIs ==
  ASSUME IsText, NEW p \in Nat, NEW n \in 1 .. 4, NEW q, NEW r
  PROVE  p + n <= Len(text) /\ Unit(p, n, q, r) <=> UnitAt(p, n, q, r)
<1>1. Wide(p, n) <=> p + n <= Len(text) /\ CodePoint(p, n) \in CodePointsOf(n)
  BY WideIs DEF Character
<1>2. CASE q = Apostrophe /\ Byte(p) = Backslash
  <2>1. Unit(p, n, q, r) <=> n = 2 /\ Byte(p + 1) # Newline /\ r = q
    BY <1>2, Zenon DEF Unit
  <2>2. UnitAt(p, n, q, r) <=> n = 2 /\ p + 2 <= Len(text) /\ Byte(p + 1) # Newline /\ r = q
    BY <1>2, Zenon DEF UnitAt
  <2> QED BY <2>1, <2>2, Zenon
<1>3. CASE ~(q = Apostrophe /\ Byte(p) = Backslash)
  <2>1. Unit(p, n, q, r) <=> CodePoint(p, n) \in CodePointsOf(n) /\ r = Toggled(q, Byte(p))
    BY <1>3, Zenon DEF Unit
  <2>2. UnitAt(p, n, q, r) <=> Wide(p, n) /\ r = Toggled(q, Byte(p))
    BY <1>3, Zenon DEF UnitAt
  <2> QED BY <1>1, <2>1, <2>2, Zenon
<1> QED BY <1>2, <1>3

\* S has with a place and the quotes there also the place behind a unit.
Forward(S) ==
  \A p \in Nat, n \in 1 .. 4, q \in Quotes, r \in Quotes :
    <<p, q>> \in S /\ UnitAt(p, n, q, r) => <<p + n, r>> \in S

\* Who reads from b, in the quotes q, comes to e and is in the quotes r there.
Whole(b, q, e, r) == \A S : Forward(S) /\ <<b, q>> \in S => <<e, r>> \in S

LEMMA WholeIs ==
  /\ \A b, q : Whole(b, q, b, q)
  /\ \A b, q, m, s, e, r : Whole(b, q, m, s) /\ Whole(m, s, e, r) => Whole(b, q, e, r)
  BY Zenon DEF Whole

LEMMA UnitIsWhole ==
  ASSUME NEW p \in Nat, NEW n \in 1 .. 4, NEW q \in Quotes, NEW r \in Quotes,
         UnitAt(p, n, q, r)
  PROVE  Whole(p, q, p + n, r)
  BY Zenon DEF Whole, Forward

LEMMA QuotesAre ==
  NUL \in Quotes /\ Apostrophe \in Quotes /\ Backtick \in Quotes
  BY Zenon DEF Quotes

LEMMA CharacterIsWhole ==
  ASSUME IsText, NEW p \in Nat, NEW q \in Quotes
  PROVE  /\ Single(p) /\ Byte(p) \in Inside(q) => Whole(p, q, p + 1, q)
         /\ Double(p) => Whole(p, q, p + 2, q)
         /\ Triple(p) => Whole(p, q, p + 3, q)
         /\ Quadruple(p) => Whole(p, q, p + 4, q)
<1>1. 1 \in 1 .. 4 /\ 2 \in 1 .. 4 /\ 3 \in 1 .. 4 /\ 4 \in 1 .. 4
  OBVIOUS
<1>2. PICK x : x = Byte(p)
  OBVIOUS
<1>3. ASSUME NEW n \in 1 .. 4, Wide(p, n), x \in Inside(q) \/ x > 127
      PROVE  Whole(p, q, p + n, q)
  <2>1. x # q /\ (q = NUL => x \notin {Apostrophe, Backtick}) /\ (q = Apostrophe => x # Backslash)
    BY <1>3 DEF Inside, Quotes, NUL, Apostrophe, Backtick, Backslash
  <2>2. Toggled(q, x) = q
    BY <2>1 DEF Toggled
  <2>3. UnitAt(p, n, q, q)
    BY <1>2, <1>3, <2>1, <2>2, Zenon DEF UnitAt
  <2> QED BY <2>3, UnitIsWhole
<1>4. Single(p) /\ Byte(p) \in Inside(q) => Whole(p, q, p + 1, q)
  BY <1>1, <1>2, <1>3 DEF Wide
<1>5. Double(p) => Whole(p, q, p + 2, q)
  <2>1. Double(p) => x > 127
    BY <1>2, ByteIs DEF Double, IsText
  <2>2. Double(p) => Wide(p, 2)
    BY DEF Wide
  <2> QED BY <1>1, <1>3, <2>1, <2>2
<1>6. Triple(p) => Whole(p, q, p + 3, q)
  <2>1. Triple(p) => x > 127
    BY <1>2, ByteIs DEF Triple, IsText
  <2>2. Triple(p) => Wide(p, 3)
    BY DEF Wide
  <2> QED BY <1>1, <1>3, <2>1, <2>2
<1>7. Quadruple(p) => Whole(p, q, p + 4, q)
  <2>1. Quadruple(p) => x > 127
    BY <1>2, ByteIs DEF Quadruple, IsText
  <2>2. Quadruple(p) => Wide(p, 4)
    BY DEF Wide
  <2> QED BY <1>1, <1>3, <2>1, <2>2
<1> QED BY <1>4, <1>5, <1>6, <1>7

\* A quote opens what it closes; and what a backslash takes.
LEMMA QuoteIsWhole ==
  ASSUME IsText, NEW p \in Nat, NEW q \in {Apostrophe, Backtick}
  PROVE  /\ p + 1 <= Len(text) /\ Byte(p) = q =>
              Whole(p, NUL, p + 1, q) /\ Whole(p, q, p + 1, NUL)
         /\ p + 2 <= Len(text) /\ Byte(p) = Backslash /\ Byte(p + 1) # Newline =>
              Whole(p, Apostrophe, p + 2, Apostrophe)
<1>1. 1 \in 1 .. 4 /\ 2 \in 1 .. 4 /\ q \in Quotes
  BY DEF Quotes
<1>2. ASSUME p + 1 <= Len(text), Byte(p) = q
      PROVE  Whole(p, NUL, p + 1, q) /\ Whole(p, q, p + 1, NUL)
  <2>1. q \in Int /\ 1 <= q /\ q <= 127 /\ q # NUL /\ q # Backslash
    BY DEF NUL, Apostrophe, Backtick, Backslash
  <2>2. Single(p)
    BY <1>2, <2>1 DEF Single
  <2>3. Wide(p, 1)
    BY <2>2 DEF Wide
  <2>4. Toggled(NUL, q) = q /\ Toggled(q, q) = NUL
    BY <2>1, Zenon DEF Toggled
  <2>5. UnitAt(p, 1, NUL, q) /\ UnitAt(p, 1, q, NUL)
    BY <1>2, <2>1, <2>3, <2>4, Zenon DEF UnitAt
  <2> QED BY <1>1, <1>2, <2>5, QuotesAre, UnitIsWhole
<1>3. ASSUME p + 2 <= Len(text), Byte(p) = Backslash, Byte(p + 1) # Newline
      PROVE  Whole(p, Apostrophe, p + 2, Apostrophe)
  <2>1. UnitAt(p, 2, Apostrophe, Apostrophe)
    BY <1>3, Zenon DEF UnitAt
  <2> QED BY <1>1, <1>3, <2>1, QuotesAre, UnitIsWhole
<1> QED BY <1>2, <1>3

LEMMA InsideByte ==
  ASSUME NEW q, NEW p, p + 1 <= Len(text), Byte(p) \in Inside(q)
  PROVE  Single(p)
<1>1. \A x \in 1 .. 127 : 1 <= x /\ x <= 127
  OBVIOUS
<1>2. Byte(p) \in 1 .. 127
  BY DEF Inside
<1>3. 1 <= Byte(p) /\ Byte(p) <= 127
  BY <1>1, <1>2, Zenon
<1> QED BY <1>3 DEF Single

\* Bytes that are characters by themselves, and no quotes.
LEMMA BytesAreWhole ==
  ASSUME IsText, NEW q \in Quotes, NEW p \in Nat, NEW n \in Nat, p + n <= Len(text),
         \A i \in p .. (p + n - 1) : Byte(i) \in Inside(q)
  PROVE  Whole(p, q, p + n, q)
<1>1. \A i \in Nat : i < n => Whole(p + i, q, p + i + 1, q)
  <2> SUFFICES ASSUME NEW i \in Nat, i < n PROVE Whole(p + i, q, p + i + 1, q)
    OBVIOUS
  <2>1. PICK j : j = p + i
    OBVIOUS
  <2>2. j \in Nat /\ j \in p .. (p + n - 1) /\ j + 1 <= Len(text)
    BY <2>1 DEF IsText
  <2>3. Byte(j) \in Inside(q)
    BY <2>2
  <2>4. Single(j)
    BY <2>2, <2>3, InsideByte
  <2> QED BY <2>1, <2>2, <2>3, <2>4, CharacterIsWhole
<1> DEFINE Good(i) == Whole(p, q, p + i, q)
<1>2. Good(0)
  <2>1. p + 0 = p
    OBVIOUS
  <2> QED BY <2>1, WholeIs
<1>3. ASSUME NEW i \in Nat, i < n, Good(i)
      PROVE  Good(i + 1)
  <2>1. Whole(p + i, q, p + i + 1, q)
    BY <1>1, <1>3
  <2>2. p + (i + 1) = p + i + 1
    OBVIOUS
  <2> QED BY <1>3, <2>1, <2>2, WholeIs
<1> HIDE DEF Good
<1>4. \A i \in Nat : i <= n => Good(i)
  <2> DEFINE Bad == {i \in Nat : i <= n /\ ~Good(i)}
  <2> SUFFICES ASSUME Bad # {} PROVE FALSE
    OBVIOUS
  <2>1. PICK m \in Bad : \A j \in Bad : m <= j
    <3>1. Bad \subseteq Nat
      OBVIOUS
    <3> HIDE DEF Bad
    <3> QED BY <3>1, LeastNat
  <2>2. m # 0
    BY <1>2
  <2>3. m - 1 \in Nat /\ m - 1 < n /\ m - 1 \notin Bad /\ m - 1 + 1 = m
    BY <2>1, <2>2
  <2>4. Good(m - 1)
    BY <2>3
  <2>5. Good(m)
    BY <1>3, <2>3, <2>4
  <2> QED BY <2>5
<1> QED BY <1>4 DEF Good

\* Patterns whose matches are characters, and no quotes.
Characters(P, q) == \A p \in Nat, r \in P : Matches(r, p) => Whole(p, q, p + Len(r), q)

LEMMA RepeatedIsWhole ==
  ASSUME IsText, NEW P, Short(P), NEW q, Characters(P, q), NEW p \in Nat, p <= Len(text)
  PROVE  Whole(p, q, p + Repeated(P, p), q)
<1> DEFINE S == {e \in Nat : Whole(p, q, e, q)}
<1>1. p \in S
  BY WholeIs
<1>2. \A e \in p .. Len(text) : e \in S /\ Longest(P, e) > 0 => e + Longest(P, e) \in S
  <2> SUFFICES ASSUME NEW e \in p .. Len(text), e \in S, Longest(P, e) > 0
               PROVE  e + Longest(P, e) \in S
    OBVIOUS
  <2>1. PICK r \in P : Matches(r, e) /\ Len(r) = Longest(P, e)
    BY LongestIs
  <2>2. e \in Nat /\ Longest(P, e) \in Nat
    BY LongestIs
  <2>3. Whole(p, q, e, q) /\ Whole(e, q, e + Longest(P, e), q)
    BY <2>1, <2>2 DEF Characters
  <2> QED BY <2>2, <2>3, WholeIs
<1>3. p + Repeated(P, p) \in S
  <2> HIDE DEF S
  <2> QED BY <1>1, <1>2, RepeatedReaches DEF IsText
<1> QED BY <1>3

LEMMA NamesAreCharacters ==
  ASSUME IsText
  PROVE  /\ Characters(NameChar, NUL) /\ Characters(QuotedNameChar, Backtick)
         /\ Characters(StringChar, Apostrophe)
<1>1. ASSUME NEW q \in Quotes, NEW p \in Nat, NEW r \in U_EXTBMP, Matches(r, p)
      PROVE  Whole(p, q, p + Len(r), q)
  BY <1>1, ExtBMPIs, CharacterIsWhole
<1>2. ASSUME NEW q \in Quotes, NEW p \in Nat, NEW r \in U_NONBMP, Matches(r, p)
      PROVE  Whole(p, q, p + Len(r), q)
  BY <1>2, NonBMPIs, CharacterIsWhole
<1>3. ASSUME NEW q \in Quotes, NEW p \in Nat, NEW D, D \subseteq Inside(q), Matches(<<D>>, p)
      PROVE  Whole(p, q, p + Len(<<D>>), q)
  <2>1. p + 1 <= Len(text) /\ Byte(p) \in Inside(q)
    BY <1>3, OneByte
  <2>2. Single(p)
    BY <2>1, InsideByte
  <2>3. Len(<<D>>) = 1
    OBVIOUS
  <2> QED BY <2>1, <2>2, <2>3, CharacterIsWhole
<1>4. /\ {36} \cup Digit \cup Letter \subseteq Inside(NUL)
      /\ 1 .. 127 \ {Backtick} \subseteq Inside(Backtick)
      /\ 1 .. 127 \ {Apostrophe, Backslash} \subseteq Inside(Apostrophe)
  BY DEF Digit, Letter, Inside, NUL, Apostrophe, Backtick, Backslash
<1>5. /\ \A r \in NameChar : r \in U_EXTBMP \/ \E D : D \subseteq Inside(NUL) /\ r = <<D>>
      /\ \A r \in QuotedNameChar : r \in U_EXTBMP \/ \E D : D \subseteq Inside(Backtick) /\ r = <<D>>
      /\ \A r \in StringChar :
           r \in U_EXTBMP \/ r \in U_NONBMP \/ \E D : D \subseteq Inside(Apostrophe) /\ r = <<D>>
  BY <1>4, Zenon DEF NameChar, QuotedNameChar, StringChar
<1>6. ASSUME NEW q \in Quotes, NEW P,
             \A r \in P : r \in U_EXTBMP \/ r \in U_NONBMP \/ \E D : D \subseteq Inside(q) /\ r = <<D>>
      PROVE  Characters(P, q)
  <2> SUFFICES ASSUME NEW p \in Nat, NEW r \in P, Matches(r, p) PROVE Whole(p, q, p + Len(r), q)
    BY Zenon DEF Characters
  <2>1. CASE \E D : D \subseteq Inside(q) /\ r = <<D>>
    <3>1. PICK D : D \subseteq Inside(q) /\ r = <<D>>
      BY <2>1, Zenon
    <3> QED BY <1>3, <3>1, Zenon
  <2>2. CASE r \in U_EXTBMP \/ r \in U_NONBMP
    BY <1>1, <1>2, <2>2, Zenon
  <2> QED BY <1>6, <2>1, <2>2, Zenon
<1> QED BY <1>5, <1>6, QuotesAre, Zenon

LEMMA OperatorsAreInside ==
  \A r \in Operators :
    \/ \E A : r = <<A>> /\ A \subseteq Inside(NUL)
    \/ \E A, B : r = <<A, B>> /\ A \subseteq Inside(NUL) /\ B \subseteq Inside(NUL)
<1> SUFFICES ASSUME NEW r \in Operators
             PROVE  \/ \E A : r = <<A>> /\ A \subseteq Inside(NUL)
                    \/ \E A, B : r = <<A, B>> /\ A \subseteq Inside(NUL) /\ B \subseteq Inside(NUL)
  OBVIOUS
<1>0. \A x \in 1 .. 127 : x # 39 /\ x # 96 => x \in Inside(NUL)
  BY DEF Inside, NUL, Apostrophe, Backtick
<1>1. ASSUME NEW c \in {33, 37, 38, 59, 60, 61, 62, 94, 124} \cup (40 .. 45) \cup {47}
      PROVE  {c} \subseteq Inside(NUL)
  <2>1. c \in 1 .. 127 /\ c # 39 /\ c # 96
    OBVIOUS
  <2> QED BY <1>0, <2>1
<1>2. ASSUME NEW c \in {38, 60, 62, 124}
      PROVE  {c} \subseteq Inside(NUL)
  <2>1. c \in 1 .. 127 /\ c # 39 /\ c # 96
    OBVIOUS
  <2> QED BY <1>0, <2>1
<1>3. /\ {60} \subseteq Inside(NUL) /\ {61, 62} \subseteq Inside(NUL)
      /\ {33, 62} \subseteq Inside(NUL) /\ {61} \subseteq Inside(NUL)
  BY <1>0
<1>4. \/ \E c \in {33, 37, 38, 59, 60, 61, 62, 94, 124} \cup (40 .. 45) \cup {47} : r = <<{c}>>
      \/ \E c \in {38, 60, 62, 124} : r = <<{c}, {c}>>
      \/ r = <<{60}, {61, 62}>> \/ r = <<{33, 62}, {61}>>
  BY Zenon DEF Operators
<1>5. CASE \E c \in {33, 37, 38, 59, 60, 61, 62, 94, 124} \cup (40 .. 45) \cup {47} : r = <<{c}>>
  <2>1. PICK c \in {33, 37, 38, 59, 60, 61, 62, 94, 124} \cup (40 .. 45) \cup {47} : r = <<{c}>>
    BY <1>5, Zenon
  <2> QED BY <1>1, <2>1
<1>6. CASE \E c \in {38, 60, 62, 124} : r = <<{c}, {c}>>
  <2>1. PICK c \in {38, 60, 62, 124} : r = <<{c}, {c}>>
    BY <1>6, Zenon
  <2> QED BY <1>2, <2>1
<1>7. CASE r = <<{60}, {61, 62}>>
  BY <1>3, <1>7
<1>8. CASE r = <<{33, 62}, {61}>>
  BY <1>3, <1>8
<1> QED BY <1>4, <1>5, <1>6, <1>7, <1>8

LEMMA SingleByte ==
  ASSUME NEW p, p + 1 <= Len(text), Byte(p) \in 1 .. 127
  PROVE  Single(p)
<1>1. \A x \in 1 .. 127 : 1 <= x /\ x <= 127
  OBVIOUS
<1>2. 1 <= Byte(p) /\ Byte(p) <= 127
  BY <1>1, Zenon
<1> QED BY <1>2 DEF Single

\* One and two bytes outside of quotes.
LEMMA InsideMatchIsWhole ==
  ASSUME IsText, NEW p \in Nat, NEW A, A \subseteq Inside(NUL), NEW B, B \subseteq Inside(NUL)
  PROVE  /\ Matches(<<A>>, p) => Whole(p, NUL, p + 1, NUL)
         /\ Matches(<<A, B>>, p) => Whole(p, NUL, p + 2, NUL)
<1>1. ASSUME NEW e \in Nat, e + 1 <= Len(text), Byte(e) \in Inside(NUL)
      PROVE  Whole(e, NUL, e + 1, NUL)
  BY <1>1, InsideByte, CharacterIsWhole, QuotesAre
<1>2. ASSUME Matches(<<A>>, p)
      PROVE  Whole(p, NUL, p + 1, NUL)
  BY <1>1, <1>2, OneByte
<1>3. ASSUME Matches(<<A, B>>, p)
      PROVE  Whole(p, NUL, p + 2, NUL)
  <2>1. p + 2 <= Len(text) /\ Byte(p) \in Inside(NUL) /\ Byte(p + 1) \in Inside(NUL)
    BY <1>3, TwoBytes
  <2>2. PICK e : e = p + 1
    OBVIOUS
  <2>3. e \in Nat /\ p + 1 <= Len(text) /\ e + 1 <= Len(text) /\ Byte(e) \in Inside(NUL) /\ e + 1 = p + 2
    BY <2>1, <2>2 DEF IsText
  <2>4. Whole(p, NUL, e, NUL) /\ Whole(e, NUL, p + 2, NUL)
    <3>1. Whole(p, NUL, p + 1, NUL) /\ Whole(e, NUL, e + 1, NUL)
      BY <1>1, <2>1, <2>3
    <3> QED BY <2>2, <2>3, <3>1
  <2> QED BY <2>4, WholeIs
<1> QED BY <1>2, <1>3

LEMMA LongestIsWhole ==
  ASSUME IsText, NEW P, Short(P), NEW p \in Nat,
         \A r \in P : \/ \E A : r = <<A>> /\ A \subseteq Inside(NUL)
                      \/ \E A, B : r = <<A, B>> /\ A \subseteq Inside(NUL) /\ B \subseteq Inside(NUL)
  PROVE  Whole(p, NUL, p + Longest(P, p), NUL)
<1>1. CASE Longest(P, p) > 0
  <2>1. PICK r \in P : Matches(r, p) /\ Len(r) = Longest(P, p)
    BY <1>1, LongestIs
  <2>2. CASE \E A : r = <<A>> /\ A \subseteq Inside(NUL)
    <3>1. PICK A : r = <<A>> /\ A \subseteq Inside(NUL)
      BY <2>2, Zenon
    <3>2. Len(r) = 1
      BY <3>1
    <3> QED BY <2>1, <3>1, <3>2, InsideMatchIsWhole
  <2>3. CASE \E A, B : r = <<A, B>> /\ A \subseteq Inside(NUL) /\ B \subseteq Inside(NUL)
    <3>1. PICK A, B : r = <<A, B>> /\ A \subseteq Inside(NUL) /\ B \subseteq Inside(NUL)
      BY <2>3, Zenon
    <3>2. Len(r) = 2
      BY <3>1
    <3> QED BY <2>1, <3>1, <3>2, InsideMatchIsWhole
  <2> QED BY <2>2, <2>3, Zenon
<1>2. CASE ~(Longest(P, p) > 0)
  <2>1. p + Longest(P, p) = p
    BY <1>2, LongestIs
  <2> QED BY <2>1, WholeIs
<1> QED BY <1>1, <1>2

LEMMA InsideSets ==
  Space \subseteq Inside(NUL) /\ Digit \subseteq Inside(NUL) /\ Letter \subseteq Inside(NUL)
  BY DEF Space, Digit, Letter, Inside, NUL, Apostrophe, Backtick

\* What two bytes match.
LEMMA TwoBytesTaken ==
  ASSUME InText, NEW A, NEW B, Longest({<<A, B>>}, pos) > 0
  PROVE  Longest({<<A, B>>}, pos) = 2 /\ pos + 2 <= Len(text) /\ Byte(pos) \in A /\ Byte(pos + 1) \in B
<1>0. pos \in Nat
  BY PlaceIs
<1>1. PICK r : r = <<A, B>>
  OBVIOUS
<1>2. PICK P : P = {r}
  OBVIOUS
<1>3. Len(r) = 2 /\ Short(P)
  BY <1>1, <1>2 DEF Short
<1>4. Longest(P, pos) > 0
  BY <1>1, <1>2
<1>5. \E t \in P : Matches(t, pos) /\ Len(t) = Longest(P, pos)
  BY <1>3, <1>4, LongestIs
<1>6. Matches(r, pos) /\ 2 = Longest(P, pos)
  BY <1>2, <1>3, <1>5
<1> QED BY <1>0, <1>1, <1>2, <1>6, TwoBytes

\* Two quotes next to each other, or with white space between them.
LEMMA QuotesAreWhole ==
  ASSUME IsText, NEW q \in {Apostrophe, Backtick}, NEW p \in Nat, NEW n \in Nat, p + n + 2 <= Len(text),
         Byte(p) = q, Byte(p + n + 1) = q, \A i \in (p + 1) .. (p + n) : Byte(i) \in Space
  PROVE  Whole(p, q, p + n + 2, q)
<1>1. PICK b : b = p + 1
  OBVIOUS
<1>2. PICK e : e = p + n + 1
  OBVIOUS
<1>3. Len(text) \in Nat
  BY DEF IsText
<1>4. /\ b \in Nat /\ e \in Nat /\ p + 1 <= Len(text) /\ e + 1 <= Len(text)
      /\ b + n = e /\ b + n <= Len(text) /\ e + 1 = p + n + 2
  BY <1>1, <1>2, <1>3
<1>5. Whole(p, q, b, NUL)
  BY <1>1, <1>4, QuoteIsWhole
<1>6. \A i \in b .. (b + n - 1) : Byte(i) \in Inside(NUL)
  <2>1. \A i \in b .. (b + n - 1) : i \in (p + 1) .. (p + n)
    BY <1>1
  <2> QED BY <2>1, InsideSets
<1>7. Whole(b, NUL, b + n, NUL)
  BY <1>4, <1>6, BytesAreWhole, QuotesAre
<1>8. Whole(e, NUL, e + 1, q)
  BY <1>2, <1>4, QuoteIsWhole
<1>9. Whole(p, q, e, NUL)
  BY <1>4, <1>5, <1>7, WholeIs
<1> QED BY <1>4, <1>8, <1>9, WholeIs

\* The quotes of a start condition.
QuoteOf(m) ==
  CASE m = "INITIAL" -> NUL [] m = "QUOTED_IDENTIFIER" -> Backtick
    [] m = "SINGLE_QUOTED_STRING" -> Apostrophe

LEMMA QuoteOfIs ==
  /\ QuoteOf("INITIAL") = NUL /\ QuoteOf("QUOTED_IDENTIFIER") = Backtick
  /\ QuoteOf("SINGLE_QUOTED_STRING") = Apostrophe
  /\ \A m \in Modes : QuoteOf(m) \in Quotes
<1>1. /\ QuoteOf("INITIAL") = NUL /\ QuoteOf("QUOTED_IDENTIFIER") = Backtick
      /\ QuoteOf("SINGLE_QUOTED_STRING") = Apostrophe
  BY DEF QuoteOf
<1> QED BY <1>1, QuotesAre DEF Modes

\* The three places of a rule's match that are not where it began: a quote opened,
\* a quote closed, and any other that reports no error.
LEMMA TakenIsWhole ==
  ASSUME InText, mode \in Modes, NEW w, Taken(w), w.name \notin ErrorNames
  PROVE  /\ w.name \notin {"OPEN", "CLOSE"} => Whole(pos, QuoteOf(mode), pos + w.len, QuoteOf(mode))
         /\ w.name = "OPEN" => /\ mode = "INITIAL" /\ Byte(pos) \in {Apostrophe, Backtick}
                                /\ Whole(pos, NUL, pos + w.len, Byte(pos))
         /\ w.name = "CLOSE" => Whole(pos, QuoteOf(mode), pos + w.len, NUL)
<1>0. IsText /\ pos \in Nat /\ pos <= Len(text) /\ Len(text) \in Nat
  BY PlaceIs
<1>1. ASSUME NEW D, D \subseteq Inside(NUL)
      PROVE  /\ Whole(pos, NUL, pos + Longest({<<D>>}, pos), NUL)
             /\ Whole(pos, NUL, pos + Repeated({<<D>>}, pos), NUL)
  <2>1. Whole(pos, NUL, pos + Longest({<<D>>}, pos), NUL)
    <3>1. PICK P : P = {<<D>>}
      OBVIOUS
    <3>2. Short(P)
      BY <3>1, ErrorPatternsShort
    <3>3. \A r \in P : \E A : r = <<A>> /\ A \subseteq Inside(NUL)
      BY <1>1, <3>1, Zenon
    <3>4. Whole(pos, NUL, pos + Longest(P, pos), NUL)
      BY <1>0, <3>2, <3>3, LongestIsWhole
    <3> QED BY <3>1, <3>4
  <2>2. Whole(pos, NUL, pos + Repeated({<<D>>}, pos), NUL)
    <3>1. Bytewise(D, pos, Repeated({<<D>>}, pos))
      BY <1>0, RepeatedBytes DEF IsText
    <3>2. PICK n : n = Repeated({<<D>>}, pos)
      OBVIOUS
    <3>3. n \in Nat /\ pos + n <= Len(text) /\ \A i \in pos .. (pos + n - 1) : Byte(i) \in D
      BY <3>1, <3>2 DEF Bytewise
    <3>4. \A i \in pos .. (pos + n - 1) : Byte(i) \in Inside(NUL)
      BY <1>1, <3>3
    <3>5. Whole(pos, NUL, pos + n, NUL)
      BY <1>0, <3>3, <3>4, BytesAreWhole, QuotesAre
    <3> QED BY <3>2, <3>5
  <2> QED BY <2>1, <2>2
<1>2. Whole(pos, NUL, pos + Longest(Operators, pos), NUL)
  BY <1>0, NamePatternsShort, OperatorsAreInside, LongestIsWhole
<1>3. Whole(pos, NUL, pos + Float, NUL)
  <2>1. Float \in Nat /\ pos + Float <= Len(text)
    BY FloatIs
  <2>2. \A i \in pos .. ((pos + Float) - 1) : Byte(i) \in Inside(NUL)
    BY FloatIs DEF Ascii
  <2>3. PICK n : n = Float
    OBVIOUS
  <2>4. n \in Nat /\ pos + n <= Len(text) /\ \A i \in pos .. (pos + n - 1) : Byte(i) \in Inside(NUL)
    BY <1>0, <2>1, <2>2, <2>3
  <2>5. Whole(pos, NUL, pos + n, NUL)
    BY <1>0, <2>4, BytesAreWhole, QuotesAre
  <2> QED BY <2>3, <2>5
<1>4. Whole(pos, NUL, pos + WordLength, NUL)
  <2>1. \A i \in pos .. (pos + WordLength - 1) : Byte(i) \in Inside(NUL)
    BY WordLengthIs, InsideSets
  <2> QED BY <1>0, <2>1, WordLengthIs, BytesAreWhole, QuotesAre
<1>5. /\ Whole(pos, NUL, pos + Repeated(NameChar, pos), NUL)
      /\ Whole(pos, Backtick, pos + Repeated(QuotedNameChar, pos), Backtick)
      /\ Whole(pos, Apostrophe, pos + Repeated(StringChar, pos), Apostrophe)
  BY <1>0, NamePatternsShort, NamesAreCharacters, RepeatedIsWhole
<1>6. \A q : Whole(pos, q, pos + 0, q)
  <2>1. pos + 0 = pos
    BY <1>0
  <2> QED BY <2>1, WholeIs
<1>7. Whole(pos, Apostrophe, pos + Longest(EscapeSequence, pos), Apostrophe)
  <2>1. CASE Longest(EscapeSequence, pos) > 0
    <3>1. PICK r \in EscapeSequence : Matches(r, pos) /\ Len(r) = Longest(EscapeSequence, pos)
      BY <2>1, LongestIs, NamePatternsShort
    <3>2. PICK B : B = 0 .. 255 \ {Newline}
      OBVIOUS
    <3>3. r = <<{Backslash}, B>>
      BY <3>1, <3>2, Zenon DEF EscapeSequence
    <3>4. Len(r) = 2 /\ pos + 2 <= Len(text) /\ Byte(pos) = Backslash /\ Byte(pos + 1) \in B
      BY <1>0, <3>1, <3>3, TwoBytes
    <3>5. Byte(pos + 1) # Newline
      BY <3>2, <3>4
    <3> QED BY <1>0, <3>1, <3>4, <3>5, QuoteIsWhole
  <2>2. CASE ~(Longest(EscapeSequence, pos) > 0)
    <3>1. Longest(EscapeSequence, pos) = 0
      BY <1>0, <2>2, LongestIs, NamePatternsShort
    <3> QED BY <1>6, <3>1
  <2> QED BY <2>1, <2>2
<1>8. ASSUME NEW q \in {Apostrophe, Backtick}
      PROVE  Whole(pos, q, pos + Longest({<<{q}, {q}>>}, pos), q)
  <2>1. CASE Longest({<<{q}, {q}>>}, pos) > 0
    <3>1. /\ Longest({<<{q}, {q}>>}, pos) = 2 /\ pos + 2 <= Len(text)
          /\ Byte(pos) \in {q} /\ Byte(pos + 1) \in {q}
      BY <2>1, TwoBytesTaken
    <3>2. pos + 0 + 2 <= Len(text) /\ Byte(pos) = q /\ Byte(pos + 0 + 1) = q /\ pos + 0 + 2 = pos + 2
      BY <1>0, <3>1
    <3>3. \A i \in (pos + 1) .. (pos + 0) : Byte(i) \in Space
      BY <1>0
    <3>4. Whole(pos, q, pos + 0 + 2, q)
      BY <1>0, <3>2, <3>3, QuotesAreWhole
    <3> QED BY <3>1, <3>2, <3>4
  <2>2. CASE ~(Longest({<<{q}, {q}>>}, pos) > 0)
    <3>1. PICK P : P = {<<{q}, {q}>>}
      OBVIOUS
    <3>2. Short(P)
      BY <3>1 DEF Short
    <3>3. Longest(P, pos) = 0
      BY <2>2, <3>1, <3>2, LongestIs
    <3> QED BY <1>6, <3>1, <3>3
  <2> QED BY <2>1, <2>2
<1>9. Whole(pos, Apostrophe, pos + Adjacent, Apostrophe)
  <2>1. CASE Adjacent = 0
    BY <1>6, <2>1
  <2>2. CASE Adjacent # 0
    <3>1. PICK n \in Nat \ {0} :
            /\ Adjacent = n + 2 /\ pos + n + 2 <= Len(text)
            /\ Byte(pos) = Apostrophe /\ Byte(pos + n + 1) = Apostrophe
            /\ \A i \in (pos + 1) .. (pos + n) : Byte(i) \in Space
      BY <2>2, AdjacentIs
    <3>2. Whole(pos, Apostrophe, pos + n + 2, Apostrophe)
      BY <1>0, <3>1, QuotesAreWhole
    <3>3. pos + n + 2 = pos + Adjacent
      BY <1>0, <3>1
    <3> QED BY <3>2, <3>3
  <2> QED BY <2>1, <2>2
<1>10. ASSUME NEW D, D \subseteq {Apostrophe, Backtick}, w.len = Longest({<<D>>}, pos), w.len # 0
       PROVE  /\ Byte(pos) \in D
              /\ Whole(pos, NUL, pos + w.len, Byte(pos)) /\ Whole(pos, Byte(pos), pos + w.len, NUL)
  <2>1. w.len = 1 /\ pos + 1 <= Len(text) /\ Byte(pos) \in D
    BY <1>0, <1>10, LongestByte
  <2>2. PICK q : q = Byte(pos)
    OBVIOUS
  <2>3. Whole(pos, NUL, pos + 1, q) /\ Whole(pos, q, pos + 1, NUL)
    BY <1>0, <1>10, <2>1, <2>2, QuoteIsWhole
  <2> QED BY <2>1, <2>2, <2>3
<1>11. w.len # 0 /\ ~IsErrorRule(w)
  BY DEF Taken, IsErrorRule, ErrorNames, EncodingErrors
<1>12. CASE mode = "INITIAL" /\ IsInitialRule(w)
  <2>1. CASE w.name = "OPEN"
    <3>1. w.len = Longest({<<{Backtick, Apostrophe}>>}, pos)
      BY <1>12, <2>1 DEF IsInitialRule
    <3>2. {Backtick, Apostrophe} \subseteq {Apostrophe, Backtick}
      OBVIOUS
    <3>3. Byte(pos) \in {Backtick, Apostrophe} /\ Whole(pos, NUL, pos + w.len, Byte(pos))
      BY <1>10, <1>11, <3>1, <3>2
    <3> QED BY <1>12, <2>1, <3>3
  <2>2. CASE w.name # "OPEN"
    <3>1. \/ w.len = Longest({<<Space>>}, pos) \/ w.len = Float \/ w.len = Repeated({<<Digit>>}, pos)
          \/ w.len = Longest(Operators, pos) \/ w.len = WordLength \/ w.len = Repeated(NameChar, pos)
      BY <1>12, <2>2 DEF IsInitialRule, ErrorNames, EncodingErrors
    <3>2. Whole(pos, NUL, pos + w.len, NUL)
      BY <1>1, <1>2, <1>3, <1>4, <1>5, <3>1, InsideSets
    <3>3. w.name # "CLOSE"
      BY <1>12 DEF IsInitialRule
    <3> QED BY <1>12, <2>2, <3>2, <3>3, QuoteOfIs
  <2> QED BY <2>1, <2>2
<1>13. CASE mode = "QUOTED_IDENTIFIER" /\ IsQuotedRule(w)
  <2>1. CASE w.name = "CLOSE"
    <3>1. w.len = Longest({<<{Backtick}>>}, pos)
      BY <1>13, <2>1 DEF IsQuotedRule
    <3>2. {Backtick} \subseteq {Apostrophe, Backtick}
      OBVIOUS
    <3>3. Byte(pos) \in {Backtick} /\ Whole(pos, Byte(pos), pos + w.len, NUL)
      BY <1>10, <1>11, <3>1, <3>2
    <3>4. QuoteOf(mode) = Backtick
      BY <1>13, QuoteOfIs
    <3>5. Whole(pos, QuoteOf(mode), pos + w.len, NUL)
      BY <3>3, <3>4
    <3> QED BY <2>1, <3>5
  <2>2. CASE w.name # "CLOSE"
    <3>1. \/ w.len = Repeated(QuotedNameChar, pos) \/ w.len = Longest({<<{Backtick}, {Backtick}>>}, pos)
      BY <1>13, <2>2 DEF IsQuotedRule
    <3>2. Whole(pos, Backtick, pos + w.len, Backtick)
      BY <1>5, <1>8, <3>1
    <3>3. w.name # "OPEN"
      BY <1>13 DEF IsQuotedRule
    <3> QED BY <1>13, <2>2, <3>2, <3>3, QuoteOfIs
  <2> QED BY <2>1, <2>2
<1>14. CASE mode = "SINGLE_QUOTED_STRING" /\ IsStringRule(w)
  <2>1. CASE w.name = "CLOSE"
    <3>1. w.len = Longest({<<{Apostrophe}>>}, pos)
      BY <1>14, <2>1 DEF IsStringRule
    <3>2. {Apostrophe} \subseteq {Apostrophe, Backtick}
      OBVIOUS
    <3>3. Byte(pos) \in {Apostrophe} /\ Whole(pos, Byte(pos), pos + w.len, NUL)
      BY <1>10, <1>11, <3>1, <3>2
    <3>4. QuoteOf(mode) = Apostrophe
      BY <1>14, QuoteOfIs
    <3>5. Whole(pos, QuoteOf(mode), pos + w.len, NUL)
      BY <3>3, <3>4
    <3> QED BY <2>1, <3>5
  <2>2. CASE w.name # "CLOSE"
    <3>1. \/ w.len = Repeated(StringChar, pos) \/ w.len = Longest({<<{Apostrophe}, {Apostrophe}>>}, pos)
          \/ w.len = Longest(EscapeSequence, pos) \/ w.len = Adjacent
      BY <1>14, <2>2 DEF IsStringRule, ErrorNames
    <3>2. Whole(pos, Apostrophe, pos + w.len, Apostrophe)
      BY <1>5, <1>7, <1>8, <1>9, <3>1
    <3>3. w.name # "OPEN"
      BY <1>14 DEF IsStringRule
    <3> QED BY <1>14, <2>2, <3>2, <3>3, QuoteOfIs
  <2> QED BY <2>1, <2>2
<1> QED BY <1>11, <1>12, <1>13, <1>14 DEF Taken

-----------------------------------------------------------------------------
(* Whole characters can be read from the front                               *)

\* The quotes before e, if f knows those of the places before it.
Before(f, e) ==
  IF e = 0 THEN {NUL}
  ELSE {r \in Quotes : \E n \in 1 .. 4 : n <= e /\ \E q \in f[e - n] : Unit(e - n, n, q, r)}

Formed(f) == f = [e \in 0 .. Len(text) |-> Before(f, e)]

LEMMA FormedExists ==
  ASSUME IsText
  PROVE  \E f : Formed(f)
<1>1. PICK n \in Nat : n = Len(text)
  BY DEF IsText
<1> DEFINE I == 0 .. n
           V == SUBSET Quotes
           rank == [e \in I |-> e]
           D == [e \in I |-> [g \in [I -> V] |-> Before(g, e)]]
<1>2. rank \in [I -> 0 .. n] /\ \A e \in I : rank[e] = e
  OBVIOUS
<1>3. \A g, e : Before(g, e) \in V
  BY QuotesAre, Zenon DEF Before
<1>4. D \in [I -> [[I -> V] -> V]]
  BY <1>3, Zenon
<1>5. ASSUME NEW e \in I, NEW g \in [I -> V], NEW h \in [I -> V],
             \A j \in I : rank[j] < rank[e] => g[j] = h[j]
      PROVE  Before(g, e) = Before(h, e)
  <2>1. \A k \in 1 .. 4 : k <= e => g[e - k] = h[e - k]
    <3> SUFFICES ASSUME NEW k \in 1 .. 4, k <= e PROVE g[e - k] = h[e - k]
      OBVIOUS
    <3>1. e - k \in I /\ rank[e - k] < rank[e]
      BY <1>2
    <3> QED BY <1>5, <3>1
  <2>2. \A r : (\E k \in 1 .. 4 : k <= e /\ \E q \in g[e - k] : Unit(e - k, k, q, r))
                <=> (\E k \in 1 .. 4 : k <= e /\ \E q \in h[e - k] : Unit(e - k, k, q, r))
    BY <2>1, Zenon
  <2> QED BY <2>2, Zenon DEF Before
<1>6. \A e \in I : \A g \in [I -> V] : D[e][g] = Before(g, e)
  BY Zenon
<1>7. Recursion(I, V, n, rank, D)
  <2>1. \A e \in I : \A g, h \in [I -> V] :
          (\A j \in I : rank[j] < rank[e] => g[j] = h[j]) => D[e][g] = D[e][h]
    <3> SUFFICES ASSUME NEW e \in I, NEW g \in [I -> V], NEW h \in [I -> V],
                        \A j \in I : rank[j] < rank[e] => g[j] = h[j]
                 PROVE  D[e][g] = D[e][h]
      OBVIOUS
    <3>1. Before(g, e) = Before(h, e)
      BY <1>5
    <3>2. D[e][g] = Before(g, e) /\ D[e][h] = Before(h, e)
      BY <1>6
    <3> HIDE DEF D, rank, I, V
    <3> QED BY <3>1, <3>2
  <2>2. V # {}
    OBVIOUS
  <2> HIDE DEF D, rank, I, V
  <2> QED BY <1>2, <1>4, <2>1, <2>2 DEF Recursion
<1>8. PICK f \in [I -> V] : \A e \in I : f[e] = D[e][f]
  <2> HIDE DEF D, rank, I, V
  <2> QED BY <1>7, RecursiveFunctionExists
<1>9. \A e \in I : f[e] = Before(f, e)
  BY <1>6, <1>8, Zenon
<1>10. f = [e \in I |-> Before(f, e)]
  BY <1>8, <1>9, Zenon
<1> QED BY <1>1, <1>10, Zenon DEF Formed

LEMMA WholeIsRead ==
  ASSUME IsText, NEW e \in 0 .. Len(text), NEW r \in Quotes, Whole(0, NUL, e, r)
  PROVE  r \in QuotesAt(e)
<1>1. PICK f : f = CHOOSE g : Formed(g)
  OBVIOUS
<1>2. Formed(f)
  BY <1>1, FormedExists, Zenon
<1>3. QuotesAt(e) = (CHOOSE g : Formed(g))[e]
  BY Zenon DEF QuotesAt, Formed, Before
<1>4. Len(text) \in Nat
  BY DEF IsText
<1>5. \A p \in 0 .. Len(text) : f[p] = Before(f, p)
  BY <1>2, Zenon DEF Formed
<1> DEFINE S == {z \in (0 .. Len(text)) \X Quotes : z[2] \in f[z[1]]}
<1>6. \A p, q : <<p, q>> \in S <=> p \in 0 .. Len(text) /\ q \in Quotes /\ q \in f[p]
  OBVIOUS
<1> HIDE DEF S
<1>7. <<0, NUL>> \in S
  <2>1. 0 \in 0 .. Len(text)
    BY <1>4
  <2>2. NUL \in f[0]
    BY <1>5, <2>1, Zenon DEF Before
  <2> QED BY <1>6, <2>1, <2>2, QuotesAre
<1>8. Forward(S)
  <2> SUFFICES ASSUME NEW p \in Nat, NEW n \in 1 .. 4, NEW q \in Quotes, NEW s \in Quotes,
                      <<p, q>> \in S, UnitAt(p, n, q, s)
               PROVE  <<p + n, s>> \in S
    BY Zenon DEF Forward
  <2>1. p + n <= Len(text) /\ Unit(p, n, q, s)
    BY UnitIs
  <2>2. PICK d : d = p + n
    OBVIOUS
  <2>3. d \in 0 .. Len(text) /\ d # 0 /\ n <= d /\ d - n = p
    BY <1>4, <2>1, <2>2
  <2>4. q \in f[d - n] /\ Unit(d - n, n, q, s)
    BY <1>6, <2>1, <2>3
  <2>5. s \in Before(f, d)
    BY <2>3, <2>4, Zenon DEF Before
  <2>6. s \in f[d]
    BY <1>5, <2>3, <2>5, Zenon
  <2> QED BY <1>6, <2>2, <2>3, <2>6
<1>9. <<e, r>> \in S
  BY <1>7, <1>8, Zenon DEF Whole
<1>10. r \in f[e]
  BY <1>6, <1>9
<1> QED BY <1>1, <1>3, <1>10, Zenon

NoneAt(p) == p \in Nat /\ p < Len(text) /\ ~Single(p) /\ ~Double(p) /\ ~Triple(p) /\ ~Quadruple(p)

\* What has been read is whole unless there is an error, and the quotes are those of
\* the start condition; an error of encoding is behind what is whole, at a place where
\* no character begins.
UTF8OK ==
  /\ err.state = "NONE" => Whole(0, NUL, pos, QuoteOf(mode))
  /\ err.state \in EncodingErrors =>
       NoneAt(err.pos) /\ \E q \in Quotes : Whole(0, NUL, err.pos, q)

LEMMA TextStays ==
  ASSUME UNCHANGED text, NEW b, NEW q, NEW e, NEW r
  PROVE  /\ Whole(b, q, e, r) => (Whole(b, q, e, r))'
         /\ NoneAt(b) => (NoneAt(b))'
<1>1. (Len(text))' = Len(text) /\ \A p : (Byte(p))' = Byte(p)
  BY DEF Byte
<1>2. \A p : /\ (Single(p))' <=> Single(p)
             /\ (Double(p))' <=> Double(p)
             /\ (Triple(p))' <=> Triple(p)
             /\ (Quadruple(p))' <=> Quadruple(p)
  <2> TAKE p
  <2>1. (Single(p))' <=> Single(p)
    BY <1>1 DEF Single
  <2>2. (Double(p))' <=> Double(p)
    BY <1>1 DEF Double
  <2>3. (Triple(p))' <=> Triple(p)
    BY <1>1 DEF Triple
  <2>4. (Quadruple(p))' <=> Quadruple(p)
    BY <1>1 DEF Quadruple
  <2> QED BY <2>1, <2>2, <2>3, <2>4
<1>3. NoneAt(b) => (NoneAt(b))'
  BY <1>1, <1>2, Zenon DEF NoneAt
<1>4. \A p, n, s, t : (UnitAt(p, n, s, t))' <=> UnitAt(p, n, s, t)
  <2> TAKE p, n, s, t
  <2>1. (Wide(p, n))' <=> Wide(p, n)
    BY <1>2, Zenon DEF Wide
  <2>2. (Toggled(s, Byte(p)))' = Toggled(s, Byte(p))
    BY <1>1, Zenon DEF Toggled
  <2>3. (Byte(p + 1))' = Byte(p + 1) /\ (Byte(p))' = Byte(p)
    BY <1>1
  <2> QED BY <1>1, <2>1, <2>2, <2>3, Zenon DEF UnitAt
<1>5. \A S : (Forward(S))' => Forward(S)
  BY <1>4, Zenon DEF Forward
<1>6. Whole(b, q, e, r) => (Whole(b, q, e, r))'
  BY <1>5, Zenon DEF Whole
<1> QED BY <1>3, <1>6

\* The same of what is known of a place in some quotes.
LEMMA PlaceStaysRead ==
  ASSUME UNCHANGED text, NEW e, NEW q \in Quotes, Whole(0, NUL, e, q)
  PROVE  (\E s \in Quotes : Whole(0, NUL, e, s))'
<1>1. (Whole(0, NUL, e, q))'
  BY TextStays
<1> QED BY <1>1, Zenon

\* Steps that read nothing.
LEMMA RestKeepsUTF8 ==
  ASSUME UTF8OK, UNCHANGED <<text, pos, mode>>,
         \/ err' = err
         \/ err.state = "NONE" /\ err'.state # "NONE" /\ err'.state \notin EncodingErrors
  PROVE  UTF8OK'
<1>1. PICK p, q, m : p = pos /\ q = err.pos /\ m = QuoteOf(mode)
  OBVIOUS
<1>2. /\ Whole(0, NUL, p, m) => (Whole(0, NUL, p, m))'
      /\ NoneAt(q) => (NoneAt(q))'
      /\ (\E s \in Quotes : Whole(0, NUL, q, s)) => (\E s \in Quotes : Whole(0, NUL, q, s))'
  <2>1. Whole(0, NUL, p, m) => (Whole(0, NUL, p, m))'
    BY TextStays
  <2>2. NoneAt(q) => (NoneAt(q))'
    BY TextStays
  <2> QED BY <2>1, <2>2, PlaceStaysRead
<1>3. p = pos' /\ m = QuoteOf(mode)'
  BY <1>1 DEF QuoteOf
<1>4. CASE err' = err
  <2>1. err.state = "NONE" => (Whole(0, NUL, p, m))'
    BY <1>1, <1>2 DEF UTF8OK
  <2>2. err.state \in EncodingErrors => (NoneAt(q))' /\ (\E s \in Quotes : Whole(0, NUL, q, s))'
    BY <1>1, <1>2 DEF UTF8OK
  <2>3. EncodingErrors' = EncodingErrors /\ q = err'.pos
    BY <1>1, <1>4 DEF EncodingErrors
  <2> QED BY <1>3, <1>4, <2>1, <2>2, <2>3 DEF UTF8OK
<1>5. CASE err.state = "NONE" /\ err'.state # "NONE" /\ err'.state \notin EncodingErrors
  BY <1>5 DEF UTF8OK, EncodingErrors
<1> QED BY <1>4, <1>5

\* While the lexer reads there is no error.
LEMMA NoErrorYet ==
  ASSUME LexOK, token # "ERR", verdict \notin {"refused", "too_long"}
  PROVE  /\ err.state = "NONE"
         /\ \A state, loc : set_err_state(state, loc) =>
              err' = [state |-> state, pos |-> loc.begin, len |-> loc.end - loc.begin]
  BY DEF LexOK, ErrorOK, set_err_state

LEMMA ReadKeepsUTF8 ==
  ASSUME LexOK, UTF8OK, Read
  PROVE  UTF8OK'
<1>1. PICK w : w = Winner
  OBVIOUS
<1>2. InText /\ mode \in Modes
  BY TextIs DEF LexOK, TypesOK
<1>3. Taken(w) /\ Covers(w)
  BY <1>1, <1>2, WinnerIsTaken, WinnerCovers
<1>4. /\ pos < Len(text) /\ pos' = pos + w.len /\ text' = text /\ token = "NONE" /\ verdict = "none"
      /\ \/ MatchError(w) \/ Skip(w) \/ MatchNumber(w) \/ MatchOperator(w)
         \/ MatchWord(w) \/ MatchIdentifier(w)
         \/ Open(w) \/ Concatenate(w) \/ Close(w)
  BY <1>1 DEF Read, Reading
<1>5. /\ err.state = "NONE"
      /\ \A state, loc : set_err_state(state, loc) =>
           err' = [state |-> state, pos |-> loc.begin, len |-> loc.end - loc.begin]
  BY <1>4, NoErrorYet
<1>6. CASE MatchError(w)
  <2>1. w.name \in ErrorNames /\ set_err_state(w.name, here(w))
    BY <1>6 DEF MatchError, ReturnError
  <2>2. err' = [state |-> w.name, pos |-> here(w).begin, len |-> here(w).end - here(w).begin]
    BY <1>5, <2>1
  <2>3. PICK p : p = pos
    OBVIOUS
  <2>4. err'.state = w.name /\ err'.pos = p
    BY <2>2, <2>3 DEF here, Location
  <2>5. w.name # "NONE"
    BY <2>1 DEF ErrorNames, EncodingErrors
  <2>6. ASSUME w.name \in EncodingErrors
        PROVE  (NoneAt(p))' /\ (\E s \in Quotes : Whole(0, NUL, p, s))'
    <3>1. IsText /\ pos \in Nat
      BY <1>2, PlaceIs
    <3>2. NoCharacter(pos)
      BY <1>2, <1>3, <1>4, <2>6, <3>1, EncodingErrorIs
    <3>3. NoneAt(p)
      BY <1>4, <2>3, <3>1, <3>2, NoCharacterIs DEF NoneAt
    <3>4. Whole(0, NUL, p, QuoteOf(mode)) /\ QuoteOf(mode) \in Quotes
      BY <1>2, <1>5, <2>3, QuoteOfIs DEF UTF8OK
    <3>5. (NoneAt(p))'
      BY <1>4, <3>3, TextStays
    <3> QED BY <1>4, <3>4, <3>5, PlaceStaysRead
  <2>7. EncodingErrors' = EncodingErrors
    BY DEF EncodingErrors
  <2> QED BY <2>4, <2>5, <2>6, <2>7 DEF UTF8OK
<1>7. CASE ~MatchError(w)
  <2>1. w.name \notin ErrorNames
    BY <1>4, <1>7 DEF Skip, MatchNumber, MatchOperator, MatchWord, MatchIdentifier, Open, Concatenate, Close,
                      ErrorNames, EncodingErrors
  <2>2. err' = err \/ err'.state = "LEX_TOO_LONG_IDENTIFIER"
    <3>1. err' = err \/ \E loc : set_err_state("LEX_TOO_LONG_IDENTIFIER", loc)
      BY <1>4, <1>7 DEF Skip, MatchNumber, MatchOperator, MatchWord, MatchIdentifier, Open, Concatenate,
                        Close, Return, ReturnError
    <3> QED BY <1>5, <3>1
  <2>3. err'.state \notin EncodingErrors
    BY <1>5, <2>2 DEF EncodingErrors
  <2>4. PICK q, m, n : q = pos + w.len /\ m = QuoteOf(mode) /\ n = QuoteOf(mode')
    OBVIOUS
  <2>5. Whole(pos, m, q, n)
    <3>1. CASE Open(w)
      <4>1. /\ w.name = "OPEN"
            /\ mode' = IF Byte(pos) = Backtick THEN "QUOTED_IDENTIFIER" ELSE "SINGLE_QUOTED_STRING"
        BY <3>1 DEF Open
      <4>2. /\ mode = "INITIAL" /\ Byte(pos) \in {Apostrophe, Backtick}
            /\ Whole(pos, NUL, q, Byte(pos))
        BY <1>2, <1>3, <2>1, <2>4, <4>1, TakenIsWhole
      <4>3. n = Byte(pos)
        BY <2>4, <4>1, <4>2, QuoteOfIs DEF Apostrophe, Backtick
      <4> QED BY <2>4, <4>2, <4>3, QuoteOfIs
    <3>2. CASE Close(w)
      <4>1. w.name = "CLOSE" /\ mode' = "INITIAL"
        BY <3>2 DEF Close
      <4>2. Whole(pos, QuoteOf(mode), q, NUL)
        BY <1>2, <1>3, <2>1, <2>4, <4>1, TakenIsWhole
      <4> QED BY <2>4, <4>1, <4>2, QuoteOfIs
    <3>3. CASE ~Open(w) /\ ~Close(w)
      <4>1. w.name \notin {"OPEN", "CLOSE"} /\ mode' = mode
        BY <1>4, <1>7, <3>3
           DEF Skip, MatchNumber, MatchOperator, MatchWord, MatchIdentifier, Concatenate
      <4>2. Whole(pos, QuoteOf(mode), q, QuoteOf(mode))
        BY <1>2, <1>3, <2>1, <2>4, <4>1, TakenIsWhole
      <4> QED BY <2>4, <4>1, <4>2
    <3> QED BY <3>1, <3>2, <3>3
  <2>6. Whole(0, NUL, q, n)
    <3>1. Whole(0, NUL, pos, m)
      BY <1>5, <2>4 DEF UTF8OK
    <3> QED BY <2>5, <3>1, WholeIs
  <2>7. (Whole(0, NUL, q, n))'
    BY <1>4, <2>6, TextStays
  <2>8. EncodingErrors' = EncodingErrors /\ n = QuoteOf(mode)' /\ q = pos'
    BY <1>4, <2>4 DEF EncodingErrors, QuoteOf
  <2> QED BY <2>3, <2>7, <2>8 DEF UTF8OK
<1> QED BY <1>6, <1>7

LEMMA UTF8Keeps == LexOK /\ SearchInv /\ UTF8OK /\ [DiagNext]_diagVars => UTF8OK'
<1> SUFFICES ASSUME LexOK, UTF8OK, [DiagNext]_diagVars PROVE UTF8OK'
  OBVIOUS
<1>1. CASE Read
  BY <1>1, ReadKeepsUTF8
<1>2. CASE Search \/ Proceed \/ Accept \/ PrintStep \/ UNCHANGED diagVars
  <2>1. UNCHANGED <<text, pos, mode, err>>
    BY <1>2 DEF Search, Proceed, Accept, PrintStep, diagVars, errorVars, lexerVars
  <2> QED BY <2>1, RestKeepsUTF8
<1>3. CASE Report
  <2>1. UNCHANGED <<text, pos, mode, err>>
    BY <1>3 DEF Report, lexerVars
  <2> QED BY <2>1, RestKeepsUTF8
<1>4. CASE WordFound
  <2>1. UNCHANGED <<text, pos, mode>> /\ outcome # "none"
    BY <1>4 DEF WordFound
  <2>2. token = "NONE" /\ verdict = "none"
    BY <2>1 DEF LexOK, WordOK
  <2>3. err' = err \/ \E loc : set_err_state("LEX_UNIMPLEMENTED_KEYWORD", loc)
    BY <1>4 DEF WordFound, Return, ReturnError
  <2>4. err' = err \/ (err.state = "NONE" /\ err'.state = "LEX_UNIMPLEMENTED_KEYWORD")
    BY <2>2, <2>3, NoErrorYet
  <2> QED BY <2>1, <2>4, RestKeepsUTF8 DEF EncodingErrors
<1>5. CASE ReadEnd
  <2>1. UNCHANGED <<text, pos, mode>> /\ token = "NONE" /\ verdict = "none"
    BY <1>5 DEF ReadEnd, Reading
  <2>2. CASE mode = "INITIAL"
    <3>1. err' = err
      BY <1>5, <2>2 DEF ReadEnd, Return
    <3> QED BY <2>1, <3>1, RestKeepsUTF8
  <2>3. CASE mode # "INITIAL"
    <3>1. PICK loc : loc = yylloc'
      OBVIOUS
    <3>2. \/ set_err_state("LEX_UNEXPECTED_EOI_IN_QUOTED_IDENTIFIER", loc)
          \/ set_err_state("LEX_UNEXPECTED_EOI_IN_SINGLE_QUOTED_STRING", loc)
      BY <1>5, <2>3, <3>1 DEF ReadEnd, ReturnError
    <3>3. /\ err.state = "NONE"
          /\ err'.state \in {"LEX_UNEXPECTED_EOI_IN_QUOTED_IDENTIFIER",
                             "LEX_UNEXPECTED_EOI_IN_SINGLE_QUOTED_STRING"}
      BY <2>1, <3>2, NoErrorYet
    <3> QED BY <2>1, <3>3, RestKeepsUTF8 DEF EncodingErrors
  <2> QED BY <2>2, <2>3
<1>6. CASE Refuse
  <2>1. UNCHANGED <<text, pos, mode>> /\ verdict = "none"
    BY <1>6 DEF Refuse, Parsing
  <2>2. err' = err \/ \E loc : set_err_state("PARSER_ERROR", loc)
    BY <1>6 DEF Refuse, rsqlp_error
  <2>3. CASE token = "ERR"
    <3>1. err.state # "NONE"
      BY <2>3 DEF LexOK, ErrorOK
    <3>2. err' = err
      BY <2>2, <3>1 DEF set_err_state
    <3> QED BY <2>1, <3>2, RestKeepsUTF8
  <2>4. CASE token # "ERR"
    <3>1. err' = err \/ (err.state = "NONE" /\ err'.state = "PARSER_ERROR")
      BY <2>1, <2>2, <2>4, NoErrorYet
    <3> QED BY <2>1, <3>1, RestKeepsUTF8 DEF EncodingErrors
  <2> QED BY <2>3, <2>4
<1>7. CASE GiveUpOutput
  <2>1. UNCHANGED <<text, pos, mode>> /\ verdict = "none"
    BY <1>7 DEF GiveUpOutput, Parsing
  <2>2. set_err_state("TOO_LONG_UNALIASED_OUTPUT", output)
    BY <1>7 DEF GiveUpOutput
  <2>3. CASE err.state = "NONE"
    <3>1. err'.state = "TOO_LONG_UNALIASED_OUTPUT"
      BY <2>2, <2>3 DEF set_err_state
    <3> QED BY <2>1, <2>3, <3>1, RestKeepsUTF8 DEF EncodingErrors
  <2>4. CASE err.state # "NONE"
    <3>1. err' = err
      BY <2>2, <2>4 DEF set_err_state
    <3> QED BY <2>1, <3>1, RestKeepsUTF8
  <2> QED BY <2>3, <2>4
<1> QED
  BY <1>1, <1>2, <1>3, <1>4, <1>5, <1>6, <1>7 DEF DiagNext, LexerStep, LexerNext

LEMMA UTF8Is ==
  ASSUME LexOK, UTF8OK
  PROVE  DecodesUTF8
<1>1. IsText /\ Len(text) \in Nat
  BY TextIs, PlaceIs DEF LexOK
<1>2. ASSUME verdict = "accepted"
      PROVE  NUL \in QuotesAt(Len(text))
  <2>1. token = "END" /\ pos = Len(text) /\ mode = "INITIAL"
    BY <1>2 DEF LexOK, TokenOK
  <2>2. err.state = "NONE"
    BY <1>2, <2>1 DEF LexOK, ErrorOK
  <2>3. Whole(0, NUL, Len(text), NUL)
    BY <2>1, <2>2, QuoteOfIs DEF UTF8OK
  <2>4. Len(text) \in 0 .. Len(text)
    BY <1>1
  <2> QED BY <1>1, <2>3, <2>4, WholeIsRead, QuotesAre
<1>3. ASSUME err.state \in EncodingErrors
      PROVE  err.pos < Len(text) /\ QuotesAt(err.pos) # {} /\ NoCharacter(err.pos)
  <2>1. NoneAt(err.pos)
    BY <1>3 DEF UTF8OK
  <2>2. PICK q \in Quotes : Whole(0, NUL, err.pos, q)
    BY <1>3 DEF UTF8OK
  <2>3. err.pos \in 0 .. Len(text) /\ err.pos < Len(text)
    BY <1>1, <2>1 DEF NoneAt
  <2>4. q \in QuotesAt(err.pos)
    BY <1>1, <2>2, <2>3, WholeIsRead
  <2> QED BY <1>1, <2>1, <2>3, <2>4, NoCharacterIs DEF NoneAt
<1> QED BY <1>2, <1>3 DEF DecodesUTF8

\* What is accepted is characters, read from the front with the quotes they stand in,
\* and what is refused for its encoding is refused where reading stops: ranges of bytes
\* and the arithmetic of code points agree for every text.  Behind a backslash in
\* single quotes any byte but a newline counts as read, also NUL and half a character.
THEOREM AlwaysDecodesUTF8 == DiagSpec => []DecodesUTF8
<1>1. DiagInit => UTF8OK
  <2> SUFFICES ASSUME DiagInit PROVE UTF8OK
    OBVIOUS
  <2>1. err.state = "NONE" /\ pos = 0 /\ mode = "INITIAL"
    BY DEF DiagInit, LexerInit, ErrorsInit
  <2> QED BY <2>1, WholeIs, QuoteOfIs DEF UTF8OK, EncodingErrors
<1>2. LexOK /\ UTF8OK => DecodesUTF8
  BY UTF8Is
<1> QED BY <1>1, <1>2, DiagnosticsBegin, DiagnosticsKeep, UTF8Keeps, PTL DEF DiagSpec

-----------------------------------------------------------------------------
(* Values: what stands in quotes, decoded from the front and from the end    *)

Values == Seq(0 .. 255)

\* Where white space behind a quote ends with another one.
Blank(b, e, p) ==
  {q \in p + 2 .. e - 1 : Byte(q) = Byte(b) /\ \A r \in p + 1 .. q - 1 : Byte(r) \in Space}

QuotedStep(f, b, e, p) ==
  IF p >= e - 1 THEN <<>>
  ELSE CASE Byte(p) = Backslash /\ Byte(b) = Apostrophe -> MySQLEscape(Byte(p + 1)) \o f[p + 2]
         [] Byte(p) = Byte(b) /\ Byte(p + 1) = Byte(b) -> <<Byte(b)>> \o f[p + 2]
         [] Byte(p) = Byte(b) /\ Blank(b, e, p) # {} -> f[1 + CHOOSE q \in Blank(b, e, p) : TRUE]
         [] OTHER -> <<Byte(p)>> \o f[p + 1]

\* The concatenation, kept apart from what is concatenated.
After(x, y) == x \o y

\* f gives what stands from a place on in the quotes from b to e.
Unquotes(f, b, e) == f = [p \in b + 1 .. e |-> QuotedStep(f, b, e, p)]

LEMMA QuotedIs ==
  ASSUME NEW b, NEW e
  PROVE  Quoted(b, e) = (CHOOSE f : Unquotes(f, b, e))[b + 1]
  BY Zenon DEF Quoted, Unquotes, QuotedStep, Blank

IsQuote(b) == Byte(b) = Apostrophe \/ Byte(b) = Backtick

Escapes(b, p) == Byte(p) = Backslash /\ Byte(b) = Apostrophe
Doubles(b, p) == Byte(p) = Byte(b) /\ Byte(p + 1) = Byte(b)
Resumes(b, e, p) == Byte(p) = Byte(b) /\ Blank(b, e, p) # {}

\* No two of the cases of a step are true.
LEMMA CasesAreApart ==
  ASSUME NEW b, NEW e \in Int, NEW p \in Int, IsQuote(b)
  PROVE  /\ Escapes(b, p) => ~Doubles(b, p) /\ ~Resumes(b, e, p)
         /\ Doubles(b, p) => ~Resumes(b, e, p)
<1>1. Backslash # Apostrophe /\ Apostrophe \notin Space /\ Backtick \notin Space
  BY DEF Backslash, Apostrophe, Backtick, Space
<1>2. Escapes(b, p) => ~Doubles(b, p) /\ ~Resumes(b, e, p)
  BY <1>1 DEF Escapes, Doubles, Resumes
<1>3. ASSUME Doubles(b, p), Resumes(b, e, p)
      PROVE  FALSE
  <2>1. PICK q \in p + 2 .. e - 1 : \A r \in p + 1 .. q - 1 : Byte(r) \in Space
    BY <1>3 DEF Resumes, Blank
  <2>2. p + 1 \in p + 1 .. q - 1
    BY <2>1
  <2>3. Byte(p + 1) \in Space
    BY <2>1, <2>2
  <2> QED BY <1>1, <1>3, <2>3 DEF Doubles, IsQuote
<1> QED BY <1>2, <1>3

LEMMA LastStep ==
  ASSUME NEW f, NEW b, NEW e, NEW p, p >= e - 1
  PROVE  QuotedStep(f, b, e, p) = <<>>
  BY DEF QuotedStep

\* The case of a step.
Chosen(f, b, e, p, s) ==
  /\ Escapes(b, p) => s = After(MySQLEscape(Byte(p + 1)), f[p + 2])
  /\ Doubles(b, p) => s = After(<<Byte(b)>>, f[p + 2])
  /\ Resumes(b, e, p) => s = f[1 + CHOOSE q \in Blank(b, e, p) : TRUE]
  /\ ~Escapes(b, p) /\ ~Doubles(b, p) /\ ~Resumes(b, e, p) => s = After(<<Byte(p)>>, f[p + 1])

LEMMA StepIs ==
  ASSUME NEW f, NEW b, NEW e \in Int, NEW p \in Int, IsQuote(b), p < e - 1
  PROVE  Chosen(f, b, e, p, QuotedStep(f, b, e, p))
<1>1. PICK x, y, z, o : /\ x = After(MySQLEscape(Byte(p + 1)), f[p + 2])
                        /\ y = After(<<Byte(b)>>, f[p + 2])
                        /\ z = f[1 + CHOOSE q \in Blank(b, e, p) : TRUE]
                        /\ o = After(<<Byte(p)>>, f[p + 1])
  OBVIOUS
<1>2. ~(p >= e - 1)
  OBVIOUS
<1>3. QuotedStep(f, b, e, p) = CASE Escapes(b, p) -> x [] Doubles(b, p) -> y [] Resumes(b, e, p) -> z
                                 [] OTHER -> o
  BY <1>1, <1>2, Zenon DEF QuotedStep, Escapes, Doubles, Resumes, After
<1>4. /\ Escapes(b, p) => ~Doubles(b, p) /\ ~Resumes(b, e, p)
      /\ Doubles(b, p) => ~Resumes(b, e, p)
  BY CasesAreApart
<1>5. PICK s : s = QuotedStep(f, b, e, p)
  OBVIOUS
<1>6. /\ Escapes(b, p) => s = x
      /\ Doubles(b, p) => s = y
      /\ Resumes(b, e, p) => s = z
      /\ ~Escapes(b, p) /\ ~Doubles(b, p) /\ ~Resumes(b, e, p) => s = o
  BY <1>3, <1>4, <1>5
<1> QED BY <1>1, <1>5, <1>6, Zenon DEF Chosen

\* The escapes of the lexer are those of MySQL.
LEMMA EscapesAreMySQLs ==
  ASSUME NEW c \in 0 .. 255
  PROVE  MySQLEscape(c) = Escaped(c) /\ Escaped(c) \in Values
<1> DEFINE control == {<<48, 0>>, <<98, 8>>, <<116, 9>>, <<110, 10>>, <<114, 13>>, <<90, 26>>}
           D == CHOOSE d \in 0 .. 255 : IF \E e \in control : e[1] = c THEN <<c, d>> \in control
                                                                  ELSE d = c
<1>1. \A x \in 0 .. 255 : <<x>> \in Values
  BY DEF Values
<1>2. CASE c \in {37, 95}
  <2>1. MySQLEscape(c) = <<Backslash, c>>
    BY <1>2 DEF MySQLEscape
  <2>2. Escaped(c) = <<Backslash, c>>
    BY <1>2 DEF Escaped
  <2>3. Backslash \in 0 .. 255
    BY DEF Backslash
  <2> QED BY <2>1, <2>2, <2>3 DEF Values
<1>3. CASE c \notin {37, 95}
  <2>1. MySQLEscape(c) = <<D>>
    BY <1>3 DEF MySQLEscape
  <2>2. PICK k : k = CASE c = 48 -> 0 [] c = 98 -> 8 [] c = 116 -> 9 [] c = 110 -> 10 [] c = 114 -> 13
                       [] c = 90 -> 26 [] OTHER -> c
    OBVIOUS
  <2>3. \A d : <<c, d>> \in control <=> c \in {48, 98, 116, 110, 114, 90} /\ d = k
    <3> SUFFICES ASSUME NEW d PROVE <<c, d>> \in control <=> c \in {48, 98, 116, 110, 114, 90} /\ d = k
      OBVIOUS
    <3>1. \A x, y : <<c, d>> = <<x, y>> <=> c = x /\ d = y
      OBVIOUS
    <3>2. <<c, d>> \in control <=>
            \/ <<c, d>> = <<48, 0>>
            \/ <<c, d>> = <<98, 8>>
            \/ <<c, d>> = <<116, 9>>
            \/ <<c, d>> = <<110, 10>>
            \/ <<c, d>> = <<114, 13>>
            \/ <<c, d>> = <<90, 26>>
      OBVIOUS
    <3>3. <<c, d>> \in control <=>
            \/ c = 48 /\ d = 0
            \/ c = 98 /\ d = 8
            \/ c = 116 /\ d = 9
            \/ c = 110 /\ d = 10
            \/ c = 114 /\ d = 13
            \/ c = 90 /\ d = 26
      BY <3>1, <3>2
    <3> HIDE DEF control
    <3> QED BY <2>2, <3>3
  <2>4. (\E e \in control : e[1] = c) <=> c \in {48, 98, 116, 110, 114, 90}
    OBVIOUS
  <2>5. \A d : (IF \E e \in control : e[1] = c THEN <<c, d>> \in control ELSE d = c) <=> d = k
    <3>1. c \notin {48, 98, 116, 110, 114, 90} => k = c
      BY <2>2
    <3> HIDE DEF control
    <3>2. CASE c \in {48, 98, 116, 110, 114, 90}
      BY <2>3, <2>4, <3>2
    <3>3. CASE c \notin {48, 98, 116, 110, 114, 90}
      BY <2>4, <3>1, <3>3
    <3> QED BY <3>2, <3>3
  <2>6. k \in 0 .. 255
    BY <2>2
  <2>7. D = k
    <3> HIDE DEF control
    <3> QED BY <2>5, <2>6
  <2>8. Escaped(c) = <<k>>
    BY <1>3, <2>2 DEF Escaped
  <2> QED BY <1>1, <2>1, <2>6, <2>7, <2>8
<1> QED BY <1>2, <1>3

\* The quotes from b to e in the text.
InQuotes(b, e) == b \in Nat /\ e \in Nat /\ b < e /\ e <= Len(text) /\ IsText /\ IsQuote(b)

LEMMA ByteIsValue ==
  ASSUME IsText, NEW p \in Nat, p < Len(text)
  PROVE  Byte(p) \in 0 .. 255 /\ <<Byte(p)>> \in Values
<1>1. Byte(p) \in 0 .. 255
  <2>1. PICK x : x = Byte(p)
    OBVIOUS
  <2>2. x \in Int /\ 0 <= x /\ x <= 255
    BY <2>1, ByteIs
  <2>3. x \in 0 .. 255
    BY <2>2
  <2> QED BY <2>1, <2>3
<1>2. \A x \in 0 .. 255 : <<x>> \in Values
  BY DEF Values
<1> QED BY <1>1, <1>2

\* Before the end a step puts something before what stands from a later place on.
GoesOn(b, e, p, q) ==
  \/ \E x \in Values : \A f : QuotedStep(f, b, e, p) = After(x, f[q])
  \/ \A f : QuotedStep(f, b, e, p) = f[q]

LEMMA StepGoesOn ==
  ASSUME NEW b, NEW e, InQuotes(b, e), NEW p \in b + 1 .. e, p < e - 1
  PROVE  \E q \in b + 1 .. e : p < q /\ GoesOn(b, e, p, q)
<1>0. /\ b \in Nat /\ e \in Int /\ p \in Int /\ p \in Nat /\ IsQuote(b) /\ e <= Len(text) /\ IsText
      /\ Len(text) \in Nat
  BY DEF InQuotes, IsText
<1>1. p < Len(text) /\ p + 1 \in Nat /\ p + 1 < Len(text) /\ b < Len(text)
  BY <1>0
<1>2. p + 1 \in b + 1 .. e /\ p < p + 1 /\ p + 2 \in b + 1 .. e /\ p < p + 2
  BY <1>0
<1>9. \A f : Chosen(f, b, e, p, QuotedStep(f, b, e, p))
  BY <1>0, StepIs
<1>3. CASE Escapes(b, p)
  <2>1. MySQLEscape(Byte(p + 1)) \in Values
    BY <1>0, <1>1, ByteIsValue, EscapesAreMySQLs
  <2>2. \A f : QuotedStep(f, b, e, p) = After(MySQLEscape(Byte(p + 1)), f[p + 2])
    BY <1>3, <1>9, Zenon DEF Chosen
  <2>3. GoesOn(b, e, p, p + 2)
    BY <2>1, <2>2 DEF GoesOn
  <2> QED BY <1>2, <2>3
<1>4. CASE Doubles(b, p)
  <2>1. <<Byte(b)>> \in Values
    BY <1>0, <1>1, ByteIsValue
  <2>2. \A f : QuotedStep(f, b, e, p) = After(<<Byte(b)>>, f[p + 2])
    BY <1>4, <1>9, Zenon DEF Chosen
  <2>3. GoesOn(b, e, p, p + 2)
    BY <2>1, <2>2 DEF GoesOn
  <2> QED BY <1>2, <2>3
<1>5. CASE Resumes(b, e, p)
  <2>1. PICK k : k = CHOOSE q \in Blank(b, e, p) : TRUE
    OBVIOUS
  <2>2. k \in Blank(b, e, p)
    BY <1>5, <2>1 DEF Resumes
  <2>3. k \in p + 2 .. e - 1
    BY <2>2 DEF Blank
  <2>4. 1 + k \in b + 1 .. e /\ p < 1 + k
    BY <1>0, <2>3
  <2>5. \A f : QuotedStep(f, b, e, p) = f[1 + k]
    BY <1>5, <1>9, <2>1, Zenon DEF Chosen
  <2> QED BY <2>4, <2>5 DEF GoesOn
<1>6. CASE ~Escapes(b, p) /\ ~Doubles(b, p) /\ ~Resumes(b, e, p)
  <2>1. <<Byte(p)>> \in Values
    BY <1>0, <1>1, ByteIsValue
  <2>2. \A f : QuotedStep(f, b, e, p) = After(<<Byte(p)>>, f[p + 1])
    BY <1>6, <1>9, Zenon DEF Chosen
  <2>3. GoesOn(b, e, p, p + 1)
    BY <2>1, <2>2 DEF GoesOn
  <2> QED BY <1>2, <2>3
<1> QED BY <1>3, <1>4, <1>5, <1>6

LEMMA ValuesAppend ==
  /\ \A x, y \in Values : After(x, y) \in Values
  /\ \A x, y, z \in Values : After(After(x, y), z) = After(x, After(y, z))
  /\ <<>> \in Values /\ \A x \in Values : After(x, <<>>) = x /\ After(<<>>, x) = x
<1>1. \A x, y \in Values : After(x, y) \in Values
  BY ConcatProperties DEF Values, After
<1>2. \A x, y, z \in Values : After(After(x, y), z) = After(x, After(y, z))
  BY ConcatAssociative DEF Values, After
<1>3. <<>> \in Values
  BY DEF Values
<1>4. \A x \in Values : After(x, <<>>) = x /\ After(<<>>, x) = x
  BY ConcatEmptySeq DEF Values, After
<1> QED BY <1>1, <1>2, <1>3, <1>4

\* A step gives a value if what it reads does, and reads nothing before it.
LEMMA StepIsValue ==
  ASSUME NEW b, NEW e, InQuotes(b, e), NEW p \in b + 1 .. e
  PROVE  /\ \A f : (\A q \in b + 1 .. e : p < q => f[q] \in Values) => QuotedStep(f, b, e, p) \in Values
         /\ \A f, g : (\A q \in b + 1 .. e : p < q => f[q] = g[q]) =>
                        QuotedStep(f, b, e, p) = QuotedStep(g, b, e, p)
<1>0. e \in Int /\ p \in Int /\ IsQuote(b)
  BY DEF InQuotes
<1>1. CASE p < e - 1
  <2>1. PICK q \in b + 1 .. e : p < q /\ GoesOn(b, e, p, q)
    BY <1>1, StepGoesOn
  <2>2. CASE \E x \in Values : \A f : QuotedStep(f, b, e, p) = After(x, f[q])
    <3>1. PICK x \in Values : \A f : QuotedStep(f, b, e, p) = After(x, f[q])
      BY <2>2
    <3>2. ASSUME NEW f, f[q] \in Values PROVE QuotedStep(f, b, e, p) \in Values
      BY <3>1, <3>2, ValuesAppend
    <3>3. ASSUME NEW f, NEW g, f[q] = g[q] PROVE QuotedStep(f, b, e, p) = QuotedStep(g, b, e, p)
      BY <3>1, <3>3
    <3> QED BY <2>1, <3>2, <3>3, Zenon
  <2>3. CASE \A f : QuotedStep(f, b, e, p) = f[q]
    BY <2>1, <2>3
  <2> QED BY <2>1, <2>2, <2>3 DEF GoesOn
<1>2. CASE ~(p < e - 1)
  <2>1. p >= e - 1
    BY <1>0, <1>2
  <2>2. \A f : QuotedStep(f, b, e, p) = <<>>
    BY <2>1, LastStep
  <2> QED BY <2>2, ValuesAppend
<1> QED BY <1>1, <1>2

\* A solution has values, which stand for what is behind a place.
LEMMA UnquotesIsValue ==
  ASSUME NEW b, NEW e, InQuotes(b, e), NEW f, Unquotes(f, b, e)
  PROVE  /\ \A p \in b + 1 .. e : f[p] \in Values
         /\ \A p \in b + 1 .. e : f[p] = QuotedStep(f, b, e, p)
<1>1. \A p \in b + 1 .. e : f[p] = QuotedStep(f, b, e, p)
  BY DEF Unquotes
<1>2. ASSUME \E p \in b + 1 .. e : f[p] \notin Values
      PROVE  FALSE
  <2> DEFINE Bad == {m \in Nat : \E p \in b + 1 .. e : m = e - p /\ f[p] \notin Values}
  <2>1. b \in Nat /\ e \in Nat
    BY DEF InQuotes
  <2>2. Bad \subseteq Nat /\ Bad # {}
    <3>1. \A p \in b + 1 .. e : e - p \in Nat
      BY <2>1
    <3> QED BY <1>2, <3>1
  <2>3. PICK m \in Bad : \A j \in Bad : m <= j
    <3> HIDE DEF Bad
    <3> QED BY <2>2, LeastNat
  <2>4. PICK p \in b + 1 .. e : m = e - p /\ f[p] \notin Values
    BY <2>3
  <2>5. \A q \in b + 1 .. e : p < q => f[q] \in Values
    <3> SUFFICES ASSUME NEW q \in b + 1 .. e, p < q, f[q] \notin Values PROVE FALSE
      OBVIOUS
    <3>1. e - q \in Nat /\ e - q < m
      BY <2>1, <2>4
    <3>2. e - q \in Bad
      BY <3>1
    <3>3. m \in Int
      BY <2>1, <2>4
    <3> HIDE DEF Bad
    <3> QED BY <2>3, <3>1, <3>2, <3>3
  <2>6. QuotedStep(f, b, e, p) \in Values
    <3> HIDE DEF Bad
    <3> QED BY <2>5, StepIsValue
  <2> QED BY <1>1, <2>4, <2>6
<1> QED BY <1>1, <1>2

LEMMA UnquotesExists ==
  ASSUME NEW b, NEW e, InQuotes(b, e)
  PROVE  \E f : Unquotes(f, b, e)
<1> DEFINE I == b + 1 .. e
           rank == [p \in I |-> e - p]
           D == [p \in I |-> [f \in [I -> Values] |-> QuotedStep(f, b, e, p)]]
<1>0. b \in Nat /\ e \in Nat /\ b < e
  BY DEF InQuotes
<1>1. rank \in [I -> 0 .. e] /\ Values # {}
  BY <1>0, ValuesAppend
<1>2. \A p \in I : \A f \in [I -> Values] : QuotedStep(f, b, e, p) \in Values
  BY StepIsValue
<1>3. D \in [I -> [[I -> Values] -> Values]]
  BY <1>2
<1>4. \A p \in I : \A g, h \in [I -> Values] :
        (\A j \in I : rank[j] < rank[p] => g[j] = h[j]) => D[p][g] = D[p][h]
  <2> SUFFICES ASSUME NEW p \in I, NEW g \in [I -> Values], NEW h \in [I -> Values],
                      \A j \in I : rank[j] < rank[p] => g[j] = h[j]
               PROVE  D[p][g] = D[p][h]
    OBVIOUS
  <2>1. \A j \in I : p < j => rank[j] < rank[p]
    BY <1>0
  <2>2. \A j \in I : p < j => g[j] = h[j]
    BY <2>1
  <2>3. QuotedStep(g, b, e, p) = QuotedStep(h, b, e, p)
    BY <2>2, StepIsValue
  <2> QED BY <2>3
<1>5. Recursion(I, Values, e, rank, D)
  <2> HIDE DEF I, rank, D
  <2> QED BY <1>0, <1>1, <1>3, <1>4 DEF Recursion
<1>6. PICK f \in [I -> Values] : \A p \in I : f[p] = D[p][f]
  <2> HIDE DEF I, rank, D
  <2> QED BY <1>5, RecursiveFunctionExists
<1>7. \A p \in I : f[p] = QuotedStep(f, b, e, p)
  BY <1>6
<1>8. f = [p \in I |-> QuotedStep(f, b, e, p)]
  <2> HIDE DEF I, D
  <2> QED BY <1>6, <1>7
<1> QED BY <1>8 DEF Unquotes

\* s is the value of what stands behind the quote at b as far as p, wherever the
\* quotes may end.
Follows(b, p, s) ==
  \A e \in p + 1 .. Len(text) : \A f : Unquotes(f, b, e) => f[b + 1] = After(s, f[p])

\* The lexer is in quotes that begin at b.
Within(b, p) == b \in Nat /\ p \in b + 1 .. Len(text) /\ IsText /\ IsQuote(b)

LEMMA WithinIsInQuotes ==
  ASSUME NEW b, NEW p, Within(b, p), NEW e \in p + 1 .. Len(text)
  PROVE  InQuotes(b, e) /\ e \in Nat /\ p \in Nat /\ b + 1 \in b + 1 .. e /\ p \in b + 1 .. e
<1>1. b \in Nat /\ p \in Int /\ b + 1 <= p /\ Len(text) \in Nat
  BY DEF Within, IsText
<1>2. e \in Nat /\ b < e /\ e <= Len(text) /\ p < e
  BY <1>1
<1>3. InQuotes(b, e)
  BY <1>1, <1>2 DEF Within, InQuotes
<1> QED BY <1>1, <1>2, <1>3

LEMMA OpenFollows ==
  ASSUME NEW b, Within(b, b + 1)
  PROVE  Follows(b, b + 1, <<>>)
<1> SUFFICES ASSUME NEW e \in b + 1 + 1 .. Len(text), NEW f, Unquotes(f, b, e)
             PROVE  f[b + 1] = After(<<>>, f[b + 1])
  BY DEF Follows
<1>1. InQuotes(b, e) /\ b + 1 \in b + 1 .. e
  BY WithinIsInQuotes
<1>2. f[b + 1] \in Values
  BY <1>1, UnquotesIsValue
<1> QED BY <1>2, ValuesAppend

\* The value goes on with what stands from p to q.
Continuing(b, p, q, x) ==
  \A e \in q + 1 .. Len(text) : \A f : Unquotes(f, b, e) => f[p] = After(x, f[q])

LEMMA FollowsOn ==
  ASSUME NEW b, NEW p, Within(b, p), NEW s \in Values, Follows(b, p, s),
         NEW q \in p + 1 .. Len(text), NEW x \in Values, Continuing(b, p, q, x)
  PROVE  Within(b, q) /\ After(s, x) \in Values /\ Follows(b, q, After(s, x))
<1>1. b \in Nat /\ p \in Int /\ b + 1 <= p /\ Len(text) \in Nat
  BY DEF Within, IsText
<1>2. Within(b, q)
  BY <1>1 DEF Within
<1>3. ASSUME NEW e \in q + 1 .. Len(text), NEW f, Unquotes(f, b, e)
      PROVE  f[b + 1] = After(After(s, x), f[q])
  <2>1. e \in p + 1 .. Len(text)
    BY <1>1
  <2>2. f[b + 1] = After(s, f[p])
    BY <1>3, <2>1 DEF Follows
  <2>3. f[p] = After(x, f[q])
    BY <1>3 DEF Continuing
  <2>4. InQuotes(b, e) /\ q \in b + 1 .. e
    BY <1>2, WithinIsInQuotes
  <2>5. PICK g : g = f[q]
    OBVIOUS
  <2>6. g \in Values
    BY <1>3, <2>4, <2>5, UnquotesIsValue
  <2>7. After(After(s, x), g) = After(s, After(x, g))
    BY <2>6, ValuesAppend
  <2> QED BY <2>2, <2>3, <2>5, <2>7
<1> QED BY <1>2, <1>3, ValuesAppend DEF Follows

\* What a solution has at a place before the end.
LEMMA StepTaken ==
  ASSUME NEW b, NEW p, Within(b, p), NEW e \in p + 2 .. Len(text), NEW f, Unquotes(f, b, e)
  PROVE  Chosen(f, b, e, p, f[p])
<1>1. p \in Int /\ b \in Nat /\ Len(text) \in Nat /\ IsQuote(b)
  BY DEF Within, IsText
<1>2. e \in p + 1 .. Len(text) /\ e \in Int /\ p < e - 1
  BY <1>1
<1>3. InQuotes(b, e) /\ p \in b + 1 .. e
  BY <1>2, WithinIsInQuotes
<1>4. f[p] = QuotedStep(f, b, e, p)
  BY <1>3, UnquotesIsValue
<1> QED BY <1>1, <1>2, <1>4, StepIs

LEMMA DoubledContinues ==
  ASSUME NEW b, NEW p, Within(b, p), p + 2 <= Len(text), Doubles(b, p)
  PROVE  Continuing(b, p, p + 2, <<Byte(b)>>)
<1> SUFFICES ASSUME NEW e \in p + 2 + 1 .. Len(text), NEW f, Unquotes(f, b, e)
             PROVE  f[p] = After(<<Byte(b)>>, f[p + 2])
  BY DEF Continuing
<1>1. p \in Int /\ Len(text) \in Nat
  BY DEF Within, IsText
<1>2. e \in p + 2 .. Len(text)
  BY <1>1
<1>3. Chosen(f, b, e, p, f[p])
  BY <1>2, StepTaken
<1> QED BY <1>3, Zenon DEF Chosen

LEMMA EscapeContinues ==
  ASSUME NEW b, NEW p, Within(b, p), p + 2 <= Len(text), Escapes(b, p)
  PROVE  Continuing(b, p, p + 2, Escaped(Byte(p + 1))) /\ Escaped(Byte(p + 1)) \in Values
<1>1. p \in Int /\ Len(text) \in Nat /\ b \in Nat /\ b + 1 <= p /\ IsText
  BY DEF Within, IsText
<1>2. p + 1 \in Nat /\ p + 1 < Len(text)
  BY <1>1
<1>3. MySQLEscape(Byte(p + 1)) = Escaped(Byte(p + 1)) /\ Escaped(Byte(p + 1)) \in Values
  BY <1>1, <1>2, ByteIsValue, EscapesAreMySQLs
<1>4. ASSUME NEW e \in p + 2 + 1 .. Len(text), NEW f, Unquotes(f, b, e)
      PROVE  f[p] = After(Escaped(Byte(p + 1)), f[p + 2])
  <2>1. e \in p + 2 .. Len(text)
    BY <1>1
  <2>2. Chosen(f, b, e, p, f[p])
    BY <1>4, <2>1, StepTaken
  <2>3. f[p] = After(MySQLEscape(Byte(p + 1)), f[p + 2])
    BY <2>2, Zenon DEF Chosen
  <2> QED BY <1>3, <2>3
<1> QED BY <1>3, <1>4 DEF Continuing

\* White space between two strings.
LEMMA GapContinues ==
  ASSUME NEW b, NEW p, Within(b, p), NEW n \in Nat \ {0}, p + n + 2 <= Len(text),
         Byte(p) = Byte(b), Byte(p + n + 1) = Byte(b),
         \A i \in (p + 1) .. (p + n) : Byte(i) \in Space
  PROVE  Continuing(b, p, p + n + 2, <<>>)
<1>1. p \in Int /\ Len(text) \in Nat /\ b \in Nat /\ b + 1 <= p /\ IsText /\ IsQuote(b)
  BY DEF Within, IsText
<1>2. ASSUME NEW e \in p + n + 2 + 1 .. Len(text), NEW f, Unquotes(f, b, e)
      PROVE  f[p] = After(<<>>, f[p + n + 2])
  <2>1. e \in p + 2 .. Len(text) /\ e \in p + 1 .. Len(text) /\ e \in Nat
    BY <1>1
  <2>2. Chosen(f, b, e, p, f[p])
    BY <1>2, <2>1, StepTaken
  <2>3. p + n + 1 \in Blank(b, e, p)
    <3>1. p + n + 1 \in p + 2 .. e - 1
      BY <1>1
    <3>2. \A r \in p + 1 .. (p + n + 1) - 1 : Byte(r) \in Space
      BY <1>1
    <3> QED BY <3>1, <3>2 DEF Blank
  <2>4. \A q \in Blank(b, e, p) : q = p + n + 1
    <3> SUFFICES ASSUME NEW q \in Blank(b, e, p), q # p + n + 1 PROVE FALSE
      OBVIOUS
    <3>1. q \in p + 2 .. e - 1 /\ Byte(q) = Byte(b) /\ \A r \in p + 1 .. q - 1 : Byte(r) \in Space
      BY DEF Blank
    <3>2. Byte(b) \notin Space
      BY <1>1 DEF IsQuote, Apostrophe, Backtick, Space
    <3>3. CASE q < p + n + 1
      <4>1. q \in (p + 1) .. (p + n)
        BY <1>1, <3>1, <3>3
      <4> QED BY <3>1, <3>2, <4>1
    <3>4. CASE q > p + n + 1
      <4>1. p + n + 1 \in p + 1 .. q - 1
        BY <1>1, <3>1, <3>4
      <4> QED BY <3>1, <3>2, <4>1
    <3> QED BY <1>1, <3>1, <3>3, <3>4
  <2>5. Resumes(b, e, p)
    BY <2>3 DEF Resumes
  <2>6. (CHOOSE q \in Blank(b, e, p) : TRUE) = p + n + 1
    BY <2>3, <2>4
  <2>7. f[p] = f[1 + CHOOSE q \in Blank(b, e, p) : TRUE]
    BY <2>2, <2>5, Zenon DEF Chosen
  <2>8. 1 + (p + n + 1) = p + n + 2
    BY <1>1
  <2>9. f[p] = f[p + n + 2]
    BY <2>6, <2>7, <2>8
  <2>10. InQuotes(b, e) /\ p \in b + 1 .. e
    BY <2>1, WithinIsInQuotes
  <2>11. f[p] \in Values
    BY <1>2, <2>10, UnquotesIsValue
  <2> QED BY <2>9, <2>11, ValuesAppend
<1> QED BY <1>2 DEF Continuing

LEMMA FollowsToTheEnd ==
  ASSUME NEW b, NEW p, Within(b, p), p < Len(text), NEW s \in Values, Follows(b, p, s)
  PROVE  Quoted(b, p + 1) = s
<1>1. PICK e : e = p + 1
  OBVIOUS
<1>2. p \in Int /\ Len(text) \in Nat /\ e \in p + 1 .. Len(text) /\ p >= e - 1
  BY <1>1 DEF Within, IsText
<1>3. InQuotes(b, e) /\ p \in b + 1 .. e
  BY <1>2, WithinIsInQuotes
<1>4. PICK f : f = CHOOSE g : Unquotes(g, b, e)
  OBVIOUS
<1>5. Unquotes(f, b, e)
  BY <1>3, <1>4, UnquotesExists
<1>6. f[b + 1] = After(s, f[p])
  BY <1>2, <1>5 DEF Follows
<1>7. f[p] = <<>>
  BY <1>2, <1>3, <1>5, UnquotesIsValue, LastStep
<1>8. Quoted(b, e) = f[b + 1]
  BY <1>4, QuotedIs
<1> QED BY <1>1, <1>6, <1>7, <1>8, ValuesAppend

\* Bytes as a sequence, one by one.
LEMMA BytesAppend ==
  ASSUME IsText, NEW b \in Nat, NEW k \in Nat, b <= k, k < Len(text)
  PROVE  Bytes(b, k + 1) = After(Bytes(b, k), <<Byte(k)>>)
<1>1. PICK m, n : m = b + 1 /\ n = k + 1
  OBVIOUS
<1>2. m \in 1 .. Len(text) /\ n \in m .. Len(text) /\ n - 1 = k
  BY <1>1 DEF IsText
<1>3. SubSeq(text, m, n) = SubSeq(text, m, n - 1) \o <<text[n]>>
  BY <1>2, SubSeqRecursiveSecond DEF IsText
<1> QED BY <1>1, <1>2, <1>3 DEF Bytes, After, Byte

LEMMA BytesAreValues ==
  ASSUME IsText, NEW b \in Nat, NEW e \in Nat, e <= Len(text)
  PROVE  Bytes(b, e) \in Values /\ (e <= b => Bytes(b, e) = <<>>)
<1>1. PICK m : m = b + 1
  OBVIOUS
<1>2. m \in Int /\ e \in Int /\ m >= 1 /\ Len(text) \in Nat
  BY <1>1 DEF IsText
<1>3. \A i \in m .. e : text[i] \in 0 .. 255
  <2>1. \A i \in m .. e : i \in 1 .. Len(text)
    BY <1>2
  <2>2. \A i \in 1 .. Len(text) : text[i] \in 0 .. 255
    BY ElementOfSeq DEF IsText
  <2> QED BY <2>1, <2>2
<1>4. SubSeq(text, m, e) \in Seq(0 .. 255)
  BY <1>2, <1>3, SubSeqProperties
<1>5. e <= b => SubSeq(text, m, e) = <<>>
  BY <1>1, <1>2, SubSeqEmpty
<1> QED BY <1>1, <1>4, <1>5 DEF Bytes, Values

\* A byte that stands for itself in the quotes that begin at b.
Plain(b, i) == Byte(i) # Byte(b) /\ ~Escapes(b, i)

LEMMA PlainContinues ==
  ASSUME NEW b, NEW p, Within(b, p), NEW n \in Nat, p + n <= Len(text),
         \A i \in p .. (p + n - 1) : Plain(b, i)
  PROVE  Continuing(b, p, p + n, Bytes(p, p + n))
<1>0. /\ p \in Int /\ Len(text) \in Nat /\ b \in Nat /\ b + 1 <= p /\ IsText /\ IsQuote(b) /\ p \in Nat
      /\ p <= Len(text)
  BY DEF Within, IsText
<1> SUFFICES ASSUME NEW e \in p + n + 1 .. Len(text), NEW f, Unquotes(f, b, e)
             PROVE  f[p] = After(Bytes(p, p + n), f[p + n])
  BY DEF Continuing
<1> DEFINE G == {k \in 0 .. n : f[p] = After(Bytes(p, p + k), f[p + k])}
<1>1. \A k \in 0 .. n : InQuotes(b, e) /\ p + k \in b + 1 .. e
  <2>1. e \in p + 1 .. Len(text)
    BY <1>0
  <2>2. InQuotes(b, e)
    BY <2>1, WithinIsInQuotes
  <2>3. \A k \in 0 .. n : p + k \in b + 1 .. e
    BY <1>0
  <2> QED BY <2>2, <2>3
<1>2. \A k \in 0 .. n : f[p + k] \in Values
  BY <1>1, UnquotesIsValue
<1>3. 0 \in G
  <2>1. Bytes(p, p + 0) = <<>> /\ p + 0 = p
    BY <1>0, BytesAreValues
  <2>2. 0 \in 0 .. n
    OBVIOUS
  <2>3. f[p] = After(<<>>, f[p])
    <3>1. f[p + 0] \in Values
      BY <1>2, <2>2
    <3> QED BY <2>1, <3>1, ValuesAppend
  <2> QED BY <2>1, <2>2, <2>3
<1>4. ASSUME NEW k \in 1 .. n, k - 1 \in G
      PROVE  k \in G
  <2>1. PICK q : q = p + (k - 1)
    OBVIOUS
  <2>2. q \in Nat /\ p <= q /\ q < Len(text) /\ q + 1 = p + k /\ q \in p .. (p + n - 1) /\ k - 1 \in 0 .. n
    BY <1>0, <2>1
  <2>3. Plain(b, q)
    BY <2>2
  <2>4. Within(b, q) /\ e \in q + 2 .. Len(text)
    BY <1>0, <2>2 DEF Within
  <2>5. Chosen(f, b, e, q, f[q])
    BY <2>4, StepTaken
  <2>6. f[q] = After(<<Byte(q)>>, f[q + 1])
    <3>1. ~Escapes(b, q) /\ ~Doubles(b, q) /\ ~Resumes(b, e, q)
      BY <2>3 DEF Plain, Doubles, Resumes
    <3> QED BY <2>5, <3>1, Zenon DEF Chosen
  <2>7. f[p] = After(Bytes(p, q), f[q])
    BY <1>4, <2>1
  <2>8. Bytes(p, q + 1) = After(Bytes(p, q), <<Byte(q)>>)
    BY <1>0, <2>2, BytesAppend
  <2>9. PICK x, y, z : x = Bytes(p, q) /\ y = <<Byte(q)>> /\ z = f[q + 1]
    OBVIOUS
  <2>10. x \in Values /\ y \in Values /\ z \in Values
    <3>1. x \in Values
      BY <1>0, <2>2, <2>9, BytesAreValues
    <3>2. y \in Values
      BY <1>0, <2>2, <2>9, ByteIsValue
    <3>3. z \in Values
      <4>1. k \in 0 .. n
        OBVIOUS
      <4> QED BY <1>2, <2>2, <2>9, <4>1
    <3> QED BY <3>1, <3>2, <3>3
  <2>11. After(x, After(y, z)) = After(After(x, y), z)
    BY <2>10, ValuesAppend
  <2>12. f[p] = After(Bytes(p, q + 1), f[q + 1])
    BY <2>6, <2>7, <2>8, <2>9, <2>11
  <2>13. k \in 0 .. n
    OBVIOUS
  <2> QED BY <2>2, <2>12, <2>13
<1>5. n \in G
  <2> HIDE DEF G
  <2>1. n \in 0 .. n
    OBVIOUS
  <2> QED BY <1>3, <1>4, <2>1, UpTo
<1> QED BY <1>5

\* No byte that a pattern of P matches is in F.
Avoids(P, F) ==
  \A q \in Nat, r \in P : Matches(r, q) => \A i \in q .. (q + Len(r) - 1) : Byte(i) \notin F

LEMMA RepeatedAvoids ==
  ASSUME IsText, NEW P, Short(P), NEW F, Avoids(P, F), NEW p \in Nat, p <= Len(text),
         NEW n, n = Repeated(P, p)
  PROVE  n \in Nat /\ p + n <= Len(text) /\ \A i \in p .. (p + n - 1) : Byte(i) \notin F
<1> DEFINE S == {q \in p .. Len(text) : \A i \in p .. (q - 1) : Byte(i) \notin F}
<1>0. Len(text) \in Nat
  BY DEF IsText
<1>1. n \in Nat /\ p + n <= Len(text)
  BY RepeatedIs DEF IsText
<1>2. p \in S
  BY <1>0
<1>3. \A q \in p .. Len(text) : q \in S /\ Longest(P, q) > 0 => q + Longest(P, q) \in S
  <2> SUFFICES ASSUME NEW q \in p .. Len(text), q \in S, Longest(P, q) > 0
               PROVE  q + Longest(P, q) \in S
    OBVIOUS
  <2>1. q \in Nat /\ \A i \in p .. (q - 1) : Byte(i) \notin F
    OBVIOUS
  <2>2. PICK r \in P : Matches(r, q) /\ Len(r) = Longest(P, q)
    BY LongestIs
  <2>3. PICK l : l = Longest(P, q)
    OBVIOUS
  <2>4. l \in Nat /\ q + l <= Len(text)
    BY <2>1, <2>3, LongestInText DEF IsText
  <2>5. \A i \in q .. (q + l - 1) : Byte(i) \notin F
    <3> HIDE DEF S
    <3>1. \A i \in q .. (q + Len(r) - 1) : Byte(i) \notin F
      BY <2>1, <2>2, Zenon DEF Avoids
    <3>2. l = Len(r)
      BY <2>2, <2>3
    <3> QED BY <3>1, <3>2
  <2>6. \A i \in p .. (q + l - 1) : i \in p .. (q - 1) \/ i \in q .. (q + l - 1)
    BY <2>1, <2>4
  <2>7. q + l \in p .. Len(text)
    BY <1>0, <2>1, <2>4
  <2>8. q + l \in S
    <3>1. PICK e : e = q + l
      OBVIOUS
    <3>2. \A i \in p .. (e - 1) : Byte(i) \notin F
      <4> HIDE DEF S
      <4> SUFFICES ASSUME NEW i \in p .. (e - 1) PROVE Byte(i) \notin F
        OBVIOUS
      <4>1. i \in p .. (q - 1) \/ i \in q .. (q + l - 1)
        BY <2>1, <2>4, <3>1
      <4>2. \A j \in p .. (q - 1) : Byte(j) \notin F
        BY <2>1
      <4> QED BY <2>5, <4>1, <4>2, Zenon
    <3>3. e \in S
      BY <2>7, <3>1, <3>2
    <3> QED BY <3>1, <3>3
  <2> QED BY <2>3, <2>8
<1>4. p + n \in S
  <2> HIDE DEF S
  <2> QED BY <1>2, <1>3, RepeatedReaches DEF IsText
<1>5. \A m \in S : \A i \in p .. (m - 1) : Byte(i) \notin F
  OBVIOUS
<1> HIDE DEF S
<1> QED BY <1>1, <1>4, <1>5

\* A byte that is not ASCII.
High(x) == x \in Int /\ 128 <= x

LEMMA CharactersAreHigh ==
  ASSUME IsText, NEW q \in Nat, NEW r, r \in U_EXTBMP \/ r \in U_NONBMP, Matches(r, q)
  PROVE  \A i \in q .. (q + Len(r) - 1) : High(Byte(i))
<1>0. Len(text) \in Nat
  BY DEF IsText
<1>1. CASE Len(r) = 2 /\ Double(q)
  <2>1. q + 2 <= Len(text) /\ DoubleLead(Byte(q)) /\ Continues(Byte(q + 1))
    BY <1>1, LeadsAre
  <2>2. Byte(q) \in Int /\ Byte(q + 1) \in Int
    BY <2>1, BytesAre
  <2>3. High(Byte(q)) /\ High(Byte(q + 1))
    BY <2>1, <2>2 DEF High, DoubleLead, Continues
  <2>4. \A i \in q .. (q + 2 - 1) : i = q \/ i = q + 1
    OBVIOUS
  <2> QED BY <1>1, <2>3, <2>4
<1>2. CASE Len(r) = 3 /\ Triple(q)
  <2>1. q + 3 <= Len(text) /\ TripleLead(Byte(q), Byte(q + 1)) /\ Continues(Byte(q + 2))
    BY <1>2, LeadsAre
  <2>2. Byte(q) \in Int /\ Byte(q + 1) \in Int /\ Byte(q + 2) \in Int
    BY <2>1, BytesAre
  <2>3. High(Byte(q)) /\ High(Byte(q + 1)) /\ High(Byte(q + 2))
    BY <2>1, <2>2 DEF High, TripleLead, Continues
  <2>4. \A i \in q .. (q + 3 - 1) : i = q \/ i = q + 1 \/ i = q + 2
    OBVIOUS
  <2> QED BY <1>2, <2>3, <2>4
<1>3. CASE Len(r) = 4 /\ Quadruple(q)
  <2>1. /\ q + 4 <= Len(text) /\ QuadrupleLead(Byte(q), Byte(q + 1))
        /\ Continues(Byte(q + 2)) /\ Continues(Byte(q + 3))
    BY <1>3, LeadsAre
  <2>2. Byte(q) \in Int /\ Byte(q + 1) \in Int /\ Byte(q + 2) \in Int /\ Byte(q + 3) \in Int
    BY <2>1, BytesAre
  <2>3. High(Byte(q)) /\ High(Byte(q + 1)) /\ High(Byte(q + 2)) /\ High(Byte(q + 3))
    BY <2>1, <2>2 DEF High, QuadrupleLead, Continues
  <2>4. \A i \in q .. (q + 4 - 1) : i = q \/ i = q + 1 \/ i = q + 2 \/ i = q + 3
    OBVIOUS
  <2> QED BY <1>3, <2>3, <2>4
<1> QED BY <1>1, <1>2, <1>3, ExtBMPIs, NonBMPIs

\* What a run leaves out: the quote, and the backslash in a string.
LEMMA RunsAvoid ==
  ASSUME IsText
  PROVE  /\ Avoids(QuotedNameChar, {Backtick})
         /\ Avoids(StringChar, {Apostrophe, Backslash})
<1>1. ASSUME NEW F, F \subseteq 1 .. 127, NEW P,
             \A r \in P : r \in U_EXTBMP \/ r \in U_NONBMP \/ r = <<1 .. 127 \ F>>
      PROVE  Avoids(P, F)
  <2> SUFFICES ASSUME NEW q \in Nat, NEW r \in P, Matches(r, q), NEW i \in q .. (q + Len(r) - 1)
               PROVE  Byte(i) \notin F
    BY DEF Avoids
  <2>1. CASE r \in U_EXTBMP \/ r \in U_NONBMP
    <3>1. High(Byte(i))
      BY <2>1, CharactersAreHigh
    <3>2. \A x \in 1 .. 127 : ~High(x)
      BY DEF High
    <3> QED BY <1>1, <3>1, <3>2
  <2>2. CASE r = <<1 .. 127 \ F>>
    <3>1. PICK D : D = 1 .. 127 \ F
      OBVIOUS
    <3>2. Len(r) = 1
      BY <2>2, Lengths
    <3>3. i = q
      BY <3>2
    <3>4. Byte(q) \in D
      BY <2>2, <3>1, OneByte
    <3> QED BY <3>1, <3>3, <3>4
  <2> QED BY <1>1, <2>1, <2>2
<1>2. {Backtick} \subseteq 1 .. 127 /\ {Apostrophe, Backslash} \subseteq 1 .. 127
  BY DEF Backtick, Apostrophe, Backslash
<1>3. /\ \A r \in QuotedNameChar : r \in U_EXTBMP \/ r = <<1 .. 127 \ {Backtick}>>
      /\ \A r \in StringChar : r \in U_EXTBMP \/ r \in U_NONBMP \/ r = <<1 .. 127 \ {Apostrophe, Backslash}>>
  BY Zenon DEF QuotedNameChar, StringChar
<1> QED BY <1>1, <1>2, <1>3, Zenon

-----------------------------------------------------------------------------
(* Numbers                                                                   *)

LEMMA Remainder ==
  ASSUME NEW m \in Nat \ {0}, NEW a \in Nat, a < m
  PROVE  a % m = a
<1> DEFINE q == a \div m
           r == a % m
<1>1. q \in Int /\ r \in 0 .. (m - 1) /\ a = m * q + r
  BY SMT
<1> HIDE DEF q, r
<1>2. ~(q >= 1)
  <2> SUFFICES ASSUME q >= 1 PROVE FALSE
    OBVIOUS
  <2>1. m * q >= m * 1
    BY <1>1
  <2> QED BY <1>1, <2>1
<1>3. ~(q <= -1)
  <2> SUFFICES ASSUME q <= -1 PROVE FALSE
    OBVIOUS
  <2>1. m * q <= m * (-1)
    BY <1>1
  <2> QED BY <1>1, <2>1
<1>4. q = 0
  BY <1>1, <1>2, <1>3
<1>5. r = a
  BY <1>1, <1>4
<1> QED BY <1>5 DEF r

\* No number that an int holds is changed when it is cut to one.
LEMMA CutToInt ==
  ASSUME NEW n \in Nat, n <= IntMax
  PROVE  ((Min({n, LongMax}) + IntMax + 1) % (2 * IntMax + 2)) - IntMax - 1 = n
<1>1. IntMax \in Nat /\ LongMax \in Nat /\ n <= LongMax
  BY LimitsAssumption
<1>2. Min({n, LongMax}) = n
  <2>1. n \in {n, LongMax} /\ \A y \in {n, LongMax} : n <= y
    BY <1>1
  <2>2. \A x \in {n, LongMax} : (\A y \in {n, LongMax} : x <= y) => x = n
    BY <1>1
  <2> QED BY <2>1, <2>2 DEF Min
<1>3. PICK a, m : a = n + IntMax + 1 /\ m = 2 * IntMax + 2
  OBVIOUS
<1>4. a \in Nat /\ m \in Nat \ {0} /\ a < m
  BY <1>1, <1>3
<1>5. a % m = a
  BY <1>4, Remainder
<1>6. (n + IntMax + 1) % (2 * IntMax + 2) = n + IntMax + 1
  BY <1>3, <1>5
<1> QED BY <1>1, <1>2, <1>6

\* f gives what the first bytes behind b are as a decimal number.
Decimal(f, b, k) ==
  f = [n \in 0 .. k |-> IF n = 0 THEN 0 ELSE 10 * f[n - 1] + Byte(b + n - 1) - 48]

DecimalOf(b, e) == (CHOOSE f : Decimal(f, b, e - b))[e - b]

Digits(b, k) == b \in Nat /\ k \in Nat /\ \A i \in 1 .. k : Byte(b + i - 1) \in Digit

LEMMA DecimalExists ==
  ASSUME NEW b, NEW k, Digits(b, k)
  PROVE  \E f : Decimal(f, b, k)
<1> DEFINE step == [i \in 1 .. k |-> [x \in Nat |-> 10 * x + Byte(b + i - 1) - 48]]
<1>1. \A i \in 1 .. k : \A x \in Nat : 10 * x + Byte(b + i - 1) - 48 \in Nat
  <2>1. \A c \in Digit : \A x \in Nat : 10 * x + c - 48 \in Nat
    BY DEF Digit
  <2> QED BY <2>1 DEF Digits
<1>2. step \in [1 .. k -> [Nat -> Nat]]
  BY <1>1
<1>3. PICK f \in [0 .. k -> Nat] : Iterates(f, k, 0, step)
  <2> HIDE DEF step
  <2> QED BY <1>2, IterationExists DEF Digits
<1>4. \A i \in 0 .. k : i # 0 => i \in 1 .. k /\ i - 1 \in 0 .. k
  BY DEF Digits
<1>5. \A i \in 0 .. k : f[i] = IF i = 0 THEN 0 ELSE 10 * f[i - 1] + Byte(b + i - 1) - 48
  <2> SUFFICES ASSUME NEW i \in 0 .. k
               PROVE  f[i] = IF i = 0 THEN 0 ELSE 10 * f[i - 1] + Byte(b + i - 1) - 48
    OBVIOUS
  <2>1. CASE i = 0
    BY <1>3, <2>1 DEF Iterates
  <2>2. CASE i # 0
    <3>1. i \in 1 .. k /\ f[i - 1] \in Nat
      BY <1>3, <1>4, <2>2
    <3>2. f[i] = step[i][f[i - 1]]
      BY <1>3, <3>1 DEF Iterates
    <3> QED BY <2>2, <3>1, <3>2
  <2> QED BY <2>1, <2>2
<1>6. Decimal(f, b, k)
  <2> HIDE DEF step
  <2>1. f = [n \in 0 .. k |-> f[n]]
    BY <1>3
  <2>2. [n \in 0 .. k |-> f[n]] =
        [n \in 0 .. k |-> IF n = 0 THEN 0 ELSE 10 * f[n - 1] + Byte(b + n - 1) - 48]
    BY <1>5
  <2> QED BY <2>1, <2>2, Zenon DEF Decimal
<1> QED BY <1>6

\* One number only.
LEMMA DecimalIs ==
  ASSUME NEW b, NEW k, Digits(b, k), NEW f, Decimal(f, b, k), NEW g,
         \A i \in 0 .. k : g[i] = IF i = 0 THEN 0 ELSE 10 * g[i - 1] + Byte(b + i - 1) - 48
  PROVE  f[k] = g[k] /\ f[k] \in Nat
<1> DEFINE G == {i \in 0 .. k : f[i] = g[i] /\ f[i] \in Nat}
<1>0. k \in Nat /\ k \in 0 .. k
  BY DEF Digits
<1>1. \A i \in 0 .. k : f[i] = IF i = 0 THEN 0 ELSE 10 * f[i - 1] + Byte(b + i - 1) - 48
  BY DEF Decimal
<1>2. 0 \in G
  BY <1>0, <1>1
<1>3. \A i \in 1 .. k : i - 1 \in G => i \in G
  <2> SUFFICES ASSUME NEW i \in 1 .. k, f[i - 1] = g[i - 1], f[i - 1] \in Nat
               PROVE  f[i] = g[i] /\ f[i] \in Nat
    BY <1>0
  <2>1. i \in 0 .. k /\ i # 0
    BY <1>0
  <2>2. f[i] = 10 * f[i - 1] + Byte(b + i - 1) - 48 /\ g[i] = 10 * g[i - 1] + Byte(b + i - 1) - 48
    BY <1>1, <2>1
  <2>3. Byte(b + i - 1) \in Int /\ 48 <= Byte(b + i - 1)
    BY DEF Digits, Digit
  <2> QED BY <2>2, <2>3
<1>4. k \in G
  <2> HIDE DEF G
  <2> QED BY <1>0, <1>2, <1>3, UpTo
<1> QED BY <1>4

LEMMA AtoiIs ==
  ASSUME IsText, NEW b \in Nat, NEW e \in Nat, b <= e, e <= Len(text),
         \A i \in b .. (e - 1) : Byte(i) \in Digit, DecimalOf(b, e) <= IntMax
  PROVE  atoi(Bytes(b, e)) = DecimalOf(b, e)
<1>1. PICK k : k = e - b
  OBVIOUS
<1>2. k \in Nat
  BY <1>1
<1>3. Digits(b, k)
  <2>1. \A i \in 1 .. k : b + i - 1 \in b .. (e - 1)
    BY <1>1
  <2> QED BY <1>2, <2>1 DEF Digits
<1>4. PICK d : d = Bytes(b, e)
  OBVIOUS
<1>5. Len(d) = k /\ \A i \in 1 .. k : d[i] = Byte(b + i - 1)
  <2>1. PICK m : m = b + 1
    OBVIOUS
  <2>2. m \in Int /\ e \in Int /\ Len(text) \in Nat
    BY <2>1 DEF IsText
  <2>3. \A i \in m .. e : text[i] \in 0 .. 255
    <3>1. \A i \in m .. e : i \in 1 .. Len(text)
      BY <2>1, <2>2
    <3>2. \A i \in 1 .. Len(text) : text[i] \in 0 .. 255
      BY ElementOfSeq DEF IsText
    <3> QED BY <3>1, <3>2
  <2>4. /\ Len(SubSeq(text, m, e)) = IF m <= e THEN e - m + 1 ELSE 0
        /\ \A i \in 1 .. e - m + 1 : SubSeq(text, m, e)[i] = text[m + i - 1]
    BY <2>2, <2>3, SubSeqProperties
  <2>5. d = SubSeq(text, m, e)
    BY <1>4, <2>1 DEF Bytes
  <2>6. \A i \in 1 .. k : i \in 1 .. e - m + 1 /\ m + i - 1 = b + i - 1 + 1
    BY <1>1, <2>1
  <2>7. \A i \in 1 .. k : d[i] = text[b + i - 1 + 1]
    BY <2>4, <2>5, <2>6
  <2> QED BY <1>1, <2>1, <2>4, <2>5, <2>7 DEF Byte
<1>6. PICK f : f = CHOOSE h : Decimal(h, b, k)
  OBVIOUS
<1>7. Decimal(f, b, k) /\ DecimalOf(b, e) = f[k]
  BY <1>1, <1>3, <1>6, DecimalExists DEF DecimalOf
<1> DEFINE Read10(h) == h = [i \in 0 .. Len(d) |-> IF i = 0 THEN 0 ELSE 10 * h[i - 1] + d[i] - 48]
<1>8. PICK g : g = CHOOSE h : Read10(h)
  OBVIOUS
<1>9. Read10(f)
  <2>1. \A i \in 0 .. k : i # 0 => i \in 1 .. k
    BY <1>2
  <2>2. \A i \in 0 .. k : (IF i = 0 THEN 0 ELSE 10 * f[i - 1] + d[i] - 48) =
                          (IF i = 0 THEN 0 ELSE 10 * f[i - 1] + Byte(b + i - 1) - 48)
    BY <1>5, <2>1
  <2> QED BY <1>5, <1>7, <2>2 DEF Decimal
<1>10. Read10(g)
  <2> HIDE DEF Read10
  <2> QED BY <1>8, <1>9
<1>11. \A i \in 0 .. k : g[i] = IF i = 0 THEN 0 ELSE 10 * g[i - 1] + Byte(b + i - 1) - 48
  <2>1. \A i \in 0 .. k : i # 0 => i \in 1 .. k
    BY <1>2
  <2>2. \A i \in 0 .. k : g[i] = IF i = 0 THEN 0 ELSE 10 * g[i - 1] + d[i] - 48
    BY <1>5, <1>10
  <2> QED BY <1>5, <2>1, <2>2
<1>12. f[k] = g[k] /\ f[k] \in Nat
  <2> HIDE DEF Read10
  <2> QED BY <1>3, <1>7, <1>11, DecimalIs
<1>13. atoi(d) = ((Min({g[Len(d)], LongMax}) + IntMax + 1) % (2 * IntMax + 2)) - IntMax - 1
  BY <1>8, Zenon DEF atoi
<1>14. ((Min({f[k], LongMax}) + IntMax + 1) % (2 * IntMax + 2)) - IntMax - 1 = f[k]
  BY <1>7, <1>12, CutToInt
<1> HIDE DEF Read10
<1> QED BY <1>4, <1>5, <1>7, <1>12, <1>13, <1>14

-----------------------------------------------------------------------------
(* The value of a token, while it is read and when it is complete            *)

\* s is the value so far of what the quotes hold that begin at b, up to p.
Quoting(b, p, s) == Within(b, p) /\ s \in Values /\ Follows(b, p, s)

\* What the place of a token says.
Spells(tok, b, e, s) ==
  /\ tok = "INT" => /\ Byte(b) \in Digit
                    /\ DecimalOf(b, e) <= IntMax => s = <<DecimalOf(b, e)>>
  /\ tok # "INT" /\ Byte(b) \in {Apostrophe, Backtick} => s = Quoted(b, e)
  /\ tok # "INT" /\ Byte(b) \notin {Apostrophe, Backtick} => s = Bytes(b, e)

Valued == {"STRING", "IDENTIFIER", "INT"}

ValueOK ==
  /\ mode # "INITIAL" /\ token = "NONE" => Quoting(yylloc.begin, pos, value)
  /\ token \in Valued => yylloc.end = pos /\ Spells(token, yylloc.begin, pos, value)

LEMMA ValueIs ==
  ASSUME ValueOK
  PROVE  TokenIsItsText
<1> SUFFICES ASSUME token \in Valued PROVE TokenIsItsText
  BY Zenon DEF TokenIsItsText, Valued
<1>1. yylloc.end = pos /\ Spells(token, yylloc.begin, yylloc.end, value)
  BY DEF ValueOK
<1>2. PICK n : n = DecimalOf(yylloc.begin, yylloc.end)
  OBVIOUS
<1>3. (CASE token = "INT" -> n <= IntMax => value = <<n>>
         [] Byte(yylloc.begin) \in {Apostrophe, Backtick} -> value = Quoted(yylloc.begin, yylloc.end)
         [] OTHER -> value = Bytes(yylloc.begin, yylloc.end))
  <2>1. CASE token = "INT"
    <3>1. Byte(yylloc.begin) \in Digit /\ (n <= IntMax => value = <<n>>)
      BY <1>1, <1>2, <2>1, Zenon DEF Spells
    <3>2. Byte(yylloc.begin) \notin {Apostrophe, Backtick}
      BY <3>1 DEF Digit, Apostrophe, Backtick
    <3> QED BY <2>1, <3>1, <3>2
  <2>2. CASE token # "INT" /\ Byte(yylloc.begin) \in {Apostrophe, Backtick}
    BY <1>1, <2>2 DEF Spells
  <2>3. CASE token # "INT" /\ Byte(yylloc.begin) \notin {Apostrophe, Backtick}
    BY <1>1, <2>3 DEF Spells
  <2> QED BY <2>1, <2>2, <2>3
<1> QED BY <1>1, <1>2, <1>3, Zenon DEF TokenIsItsText, DecimalOf, Decimal

\* The text stays as it is, and what it says.
LEMMA UnquotesStays ==
  ASSUME UNCHANGED text, NEW b, NEW e
  PROVE  /\ \A f : (Unquotes(f, b, e))' <=> Unquotes(f, b, e)
         /\ (Quoted(b, e))' = Quoted(b, e)
<1>1. \A p : (Byte(p))' = Byte(p)
  BY DEF Byte
<1>2. \A p : (Blank(b, e, p))' = Blank(b, e, p)
  BY <1>1 DEF Blank
<1>3. ASSUME NEW f, NEW p
      PROVE  (QuotedStep(f, b, e, p))' = QuotedStep(f, b, e, p)
  <2>1. (CHOOSE q \in (Blank(b, e, p))' : TRUE) = (CHOOSE q \in Blank(b, e, p) : TRUE)
    BY <1>2
  <2>2. PICK x, d, z, o : /\ x = MySQLEscape(Byte(p + 1)) \o f[p + 2]
                          /\ d = <<Byte(b)>> \o f[p + 2]
                          /\ z = f[1 + CHOOSE q \in Blank(b, e, p) : TRUE]
                          /\ o = <<Byte(p)>> \o f[p + 1]
    OBVIOUS
  <2>3. /\ x = MySQLEscape((Byte(p + 1))') \o f[p + 2]
        /\ d = <<(Byte(b))'>> \o f[p + 2]
        /\ o = <<(Byte(p))'>> \o f[p + 1]
    BY <1>1, <2>2
  <2>4. z = f[1 + CHOOSE q \in (Blank(b, e, p))' : TRUE]
    BY <2>1, <2>2, Zenon
  <2>5. CASE p >= e - 1
    BY <2>5 DEF QuotedStep
  <2>6. CASE ~(p >= e - 1)
    <3>1. QuotedStep(f, b, e, p) =
            CASE Byte(p) = Backslash /\ Byte(b) = Apostrophe -> x
              [] Byte(p) = Byte(b) /\ Byte(p + 1) = Byte(b) -> d
              [] Byte(p) = Byte(b) /\ Blank(b, e, p) # {} -> z
              [] OTHER -> o
      BY <2>2, <2>6, Zenon DEF QuotedStep
    <3>2. (QuotedStep(f, b, e, p))' =
            CASE (Byte(p))' = Backslash /\ (Byte(b))' = Apostrophe -> x
              [] (Byte(p))' = (Byte(b))' /\ (Byte(p + 1))' = (Byte(b))' -> d
              [] (Byte(p))' = (Byte(b))' /\ (Blank(b, e, p))' # {} -> z
              [] OTHER -> o
      BY <2>3, <2>4, <2>6, Zenon DEF QuotedStep
    <3> QED BY <1>1, <1>2, <3>1, <3>2
  <2> QED BY <2>5, <2>6
<1>4. \A f : (Unquotes(f, b, e))' <=> Unquotes(f, b, e)
  BY <1>3, Zenon DEF Unquotes
<1>5. (Quoted(b, e))' = (CHOOSE f : (Unquotes(f, b, e))')[b + 1]
  BY Zenon DEF Quoted, Unquotes, QuotedStep, Blank
<1>6. (CHOOSE f : (Unquotes(f, b, e))') = (CHOOSE f : Unquotes(f, b, e))
  BY <1>4, Zenon
<1> QED BY <1>4, <1>5, <1>6, QuotedIs

LEMMA DecimalStays ==
  ASSUME UNCHANGED text, NEW b, NEW e
  PROVE  (DecimalOf(b, e))' = DecimalOf(b, e)
<1>1. \A p : (Byte(p))' = Byte(p)
  BY DEF Byte
<1>2. \A f : (Decimal(f, b, e - b))' <=> Decimal(f, b, e - b)
  BY <1>1 DEF Decimal
<1>3. (CHOOSE f : (Decimal(f, b, e - b))') = (CHOOSE f : Decimal(f, b, e - b))
  BY <1>2, Zenon
<1> QED BY <1>3, Zenon DEF DecimalOf

LEMMA ValueStays ==
  ASSUME UNCHANGED text, NEW b, NEW p, NEW s, NEW tok
  PROVE  /\ Quoting(b, p, s) => (Quoting(b, p, s))'
         /\ Spells(tok, b, p, s) => (Spells(tok, b, p, s))'
<1>1. (Len(text))' = Len(text) /\ \A q : (Byte(q))' = Byte(q)
  BY DEF Byte
<1>2. Within(b, p) => (Within(b, p))'
  BY <1>1 DEF Within, IsText, IsQuote
<1>3. Follows(b, p, s) => (Follows(b, p, s))'
  <2>1. \A e, f : (Unquotes(f, b, e))' <=> Unquotes(f, b, e)
    BY UnquotesStays
  <2> QED BY <1>1, <2>1 DEF Follows
<1>4. Quoting(b, p, s) => (Quoting(b, p, s))'
  BY <1>2, <1>3 DEF Quoting
<1>5. (Quoted(b, p))' = Quoted(b, p) /\ (DecimalOf(b, p))' = DecimalOf(b, p)
  BY UnquotesStays, DecimalStays
<1>6. (Bytes(b, p))' = Bytes(b, p)
  BY DEF Bytes
<1>7. Spells(tok, b, p, s) => (Spells(tok, b, p, s))'
  BY <1>1, <1>5, <1>6, Zenon DEF Spells
<1> QED BY <1>4, <1>7

\* What is to be shown of a step.
LEMMA ValueNext ==
  ASSUME UNCHANGED text, NEW b, NEW e, b = yylloc'.begin, e = yylloc'.end,
         NEW p, p = pos', NEW s, s = value', NEW tok, tok = token',
         mode' # "INITIAL" /\ tok = "NONE" => Quoting(b, p, s),
         tok \in Valued => e = p /\ Spells(tok, b, p, s)
  PROVE  ValueOK'
<1>1. mode' # "INITIAL" /\ tok = "NONE" => (Quoting(b, p, s))'
  BY ValueStays
<1>2. tok \in Valued => e = p /\ (Spells(tok, b, p, s))'
  BY ValueStays
<1> QED BY <1>1, <1>2 DEF ValueOK

\* In quotes, with the value so far.
LEMMA QuotingIs ==
  ASSUME NEW w, Reads(w), ValueOK, mode # "INITIAL"
  PROVE  /\ Quoting(yylloc.begin, pos, value)
         /\ Byte(yylloc.begin) = IF mode = "QUOTED_IDENTIFIER" THEN Backtick ELSE Apostrophe
  BY ReadsOn DEF Reads, LexOK, QuoteOK, ValueOK

\* Something is appended to the value, or nothing.
LEMMA AppendsValue ==
  ASSUME NEW w, Reads(w), ValueOK, mode # "INITIAL", w.len > 0,
         NEW x \in Values, Continuing(yylloc.begin, pos, pos + w.len, x), value' = After(value, x),
         UNCHANGED <<yylloc, token>>
  PROVE  ValueOK'
<1>1. PICK b, p, s, q, n : b = yylloc.begin /\ p = pos /\ s = value /\ q = pos + w.len /\ n = w.len
  OBVIOUS
<1>2. n \in Nat /\ p \in Nat /\ Len(text) \in Nat /\ n <= Len(text) - p /\ pos' = q /\ token = "NONE" /\ text' = text
  BY <1>1, ReadsOn
<1>3. q \in p + 1 .. Len(text)
  BY <1>1, <1>2
<1>4. Quoting(b, p, s) /\ Continuing(b, p, q, x)
  BY <1>1, QuotingIs
<1>5. Quoting(b, q, After(s, x))
  BY <1>3, <1>4, FollowsOn DEF Quoting
<1>6. PICK t, tok : t = After(s, x) /\ tok = token
  OBVIOUS
<1>7. /\ b = yylloc'.begin /\ q = pos' /\ t = value' /\ tok = token' /\ Quoting(b, q, t) /\ tok \notin Valued
  BY <1>1, <1>2, <1>5, <1>6 DEF Valued
<1>8. PICK e : e = yylloc'.end
  OBVIOUS
<1> QED BY <1>2, <1>7, <1>8, ValueNext

\* A run, a quote that is doubled, an escape.
LEMMA RunKeepsValue ==
  ASSUME NEW w, Reads(w), ValueOK, Concatenate(w), w.name = "RUN", mode # "INITIAL", w.len > 0
  PROVE  ValueOK'
<1>0. InText /\ Taken(w) /\ IsText /\ pos \in Nat /\ pos <= Len(text) /\ Len(text) \in Nat
  BY TextIs, PlaceIs DEF Reads, LexOK
<1>1. PICK b, n, P, F :
        /\ b = yylloc.begin /\ n = w.len
        /\ P = IF mode = "QUOTED_IDENTIFIER" THEN QuotedNameChar ELSE StringChar
        /\ F = IF mode = "QUOTED_IDENTIFIER" THEN {Backtick} ELSE {Apostrophe, Backslash}
  OBVIOUS
<1>2. n = Repeated(P, pos)
  <2>1. ~IsErrorRule(w)
    BY DEF IsErrorRule
  <2>2. CASE mode = "QUOTED_IDENTIFIER"
    <3>1. IsQuotedRule(w)
      BY <1>0, <2>1, <2>2 DEF Taken
    <3> QED BY <1>1, <2>2, <3>1 DEF IsQuotedRule
  <2>3. CASE mode # "QUOTED_IDENTIFIER"
    <3>1. IsStringRule(w)
      BY <1>0, <2>1, <2>3 DEF Taken
    <3> QED BY <1>1, <2>3, <3>1 DEF IsStringRule
  <2> QED BY <2>2, <2>3
<1>3. Short(P) /\ Avoids(P, F)
  BY <1>0, <1>1, NamePatternsShort, RunsAvoid
<1>4. n \in Nat /\ pos + n <= Len(text) /\ \A i \in pos .. (pos + n - 1) : Byte(i) \notin F
  BY <1>0, <1>2, <1>3, RepeatedAvoids
<1>5. Quoting(b, pos, value) /\ Byte(b) = IF mode = "QUOTED_IDENTIFIER" THEN Backtick ELSE Apostrophe
  BY <1>1, QuotingIs
<1>6. \A c : c \notin F => c # Byte(b) /\ ~(c = Backslash /\ Byte(b) = Apostrophe)
  <2>1. Backtick # Apostrophe
    BY DEF Backtick, Apostrophe
  <2> QED BY <1>1, <1>5, <2>1
<1>7. \A i \in pos .. (pos + n - 1) : Plain(b, i)
  BY <1>4, <1>6 DEF Plain, Escapes
<1>8. Continuing(b, pos, pos + n, Bytes(pos, pos + n))
  BY <1>4, <1>5, <1>7, PlainContinues DEF Quoting
<1>9. Bytes(pos, pos + n) \in Values
  <2>1. PICK q : q = pos + n
    OBVIOUS
  <2>2. q \in Nat /\ q <= Len(text)
    BY <1>0, <1>4, <2>1
  <2> QED BY <1>0, <2>1, <2>2, BytesAreValues
<1>10. value' = After(value, Bytes(pos, pos + n)) /\ UNCHANGED <<yylloc, token>>
  <2>1. value' = value \o matched(w) /\ token' = "NONE" /\ yylloc' = yylloc
    BY DEF Concatenate, Return
  <2>2. token = "NONE"
    BY ReadsOn
  <2> QED BY <1>1, <2>1, <2>2 DEF After, matched
<1>11. PICK x : x = Bytes(pos, pos + n)
  OBVIOUS
<1> QED BY <1>1, <1>8, <1>9, <1>10, <1>11, AppendsValue

LEMMA DoubledKeepsValue ==
  ASSUME NEW w, Reads(w), ValueOK, Concatenate(w), w.name = "DOUBLED", mode # "INITIAL", w.len > 0
  PROVE  ValueOK'
<1>0. InText /\ Taken(w) /\ IsText /\ pos \in Nat /\ Len(text) \in Nat
  BY TextIs, PlaceIs DEF Reads, LexOK
<1>1. PICK b, c : b = yylloc.begin /\ c = IF mode = "QUOTED_IDENTIFIER" THEN Backtick ELSE Apostrophe
  OBVIOUS
<1>2. w.len = Longest({<<{c}, {c}>>}, pos)
  <2>1. ~IsErrorRule(w)
    BY DEF IsErrorRule
  <2>2. CASE mode = "QUOTED_IDENTIFIER"
    <3>1. IsQuotedRule(w)
      BY <1>0, <2>1, <2>2 DEF Taken
    <3> QED BY <1>1, <2>2, <3>1 DEF IsQuotedRule
  <2>3. CASE mode # "QUOTED_IDENTIFIER"
    <3>1. IsStringRule(w)
      BY <1>0, <2>1, <2>3 DEF Taken
    <3> QED BY <1>1, <2>3, <3>1 DEF IsStringRule
  <2> QED BY <2>2, <2>3
<1>3. w.len = 2 /\ pos + 2 <= Len(text) /\ Byte(pos) = c /\ Byte(pos + 1) = c
  <2>1. PICK A : A = {c}
    OBVIOUS
  <2>2. w.len = Longest({<<A, A>>}, pos)
    BY <1>2, <2>1
  <2>3. w.len = 2 /\ pos + 2 <= Len(text) /\ Byte(pos) \in A /\ Byte(pos + 1) \in A
    BY <1>0, <2>2, TwoBytesTaken
  <2> QED BY <2>1, <2>3
<1>4. Quoting(b, pos, value) /\ Byte(b) = c
  BY <1>1, QuotingIs
<1>5. Continuing(b, pos, pos + 2, <<Byte(b)>>)
  BY <1>3, <1>4, DoubledContinues DEF Quoting, Doubles
<1>6. <<Byte(b)>> \in Values
  <2>1. pos < Len(text)
    BY <1>0, <1>3
  <2> QED BY <1>0, <1>3, <1>4, <2>1, ByteIsValue
<1>7. value' = After(value, <<Byte(b)>>) /\ UNCHANGED <<yylloc, token>>
  <2>1. value' = value \o <<Byte(pos)>> /\ token' = "NONE" /\ yylloc' = yylloc
    BY DEF Concatenate, Return
  <2>2. token = "NONE"
    BY ReadsOn
  <2> QED BY <1>3, <1>4, <2>1, <2>2 DEF After
<1>8. PICK x : x = <<Byte(b)>>
  OBVIOUS
<1> QED BY <1>1, <1>3, <1>5, <1>6, <1>7, <1>8, AppendsValue

LEMMA EscapeKeepsValue ==
  ASSUME NEW w, Reads(w), ValueOK, Concatenate(w), w.name = "ESCAPE", mode # "INITIAL", w.len > 0
  PROVE  ValueOK'
<1>0. InText /\ Taken(w) /\ IsText /\ pos \in Nat /\ Len(text) \in Nat
  BY TextIs, PlaceIs DEF Reads, LexOK
<1>1. PICK b : b = yylloc.begin
  OBVIOUS
<1>2. mode # "QUOTED_IDENTIFIER" /\ w.len = Longest(EscapeSequence, pos)
  BY <1>0 DEF Taken, IsErrorRule, IsQuotedRule, IsStringRule
<1>3. w.len = 2 /\ pos + 2 <= Len(text) /\ Byte(pos) = Backslash
  <2>1. PICK B : EscapeSequence = {<<{Backslash}, B>>}
    BY Zenon DEF EscapeSequence
  <2>2. w.len = 2 /\ pos + 2 <= Len(text) /\ Byte(pos) \in {Backslash}
    BY <1>0, <1>2, <2>1, TwoBytesTaken
  <2> QED BY <2>2
<1>4. Quoting(b, pos, value) /\ Byte(b) = Apostrophe
  BY <1>1, <1>2, QuotingIs
<1>5. Continuing(b, pos, pos + 2, Escaped(Byte(pos + 1))) /\ Escaped(Byte(pos + 1)) \in Values
  BY <1>3, <1>4, EscapeContinues DEF Quoting, Escapes
<1>6. value' = After(value, Escaped(Byte(pos + 1))) /\ UNCHANGED <<yylloc, token>>
  <2>1. value' = value \o Escaped(Byte(pos + 1)) /\ token' = "NONE" /\ yylloc' = yylloc
    BY DEF Concatenate, Return
  <2>2. token = "NONE"
    BY ReadsOn
  <2> QED BY <2>1, <2>2 DEF After
<1>7. PICK x : x = Escaped(Byte(pos + 1))
  OBVIOUS
<1> QED BY <1>1, <1>3, <1>5, <1>6, <1>7, AppendsValue

\* White space between two strings.
LEMMA SkipKeepsValue ==
  ASSUME NEW w, Reads(w), ValueOK, Skip(w)
  PROVE  ValueOK'
<1>0. InText /\ Taken(w) /\ pos \in Nat /\ Len(text) \in Nat /\ token = "NONE"
  BY TextIs, PlaceIs, ReadsOn DEF Reads, LexOK
<1>1. /\ value' = value /\ yylloc' = yylloc /\ mode' = mode /\ token' = "NONE"
      /\ w.name \in {"SPACE", "ADJACENT"} /\ w.len > 0
  BY <1>0, TakesSomething DEF Skip, Return
<1>2. CASE mode = "INITIAL"
  BY <1>1, <1>2 DEF ValueOK, Valued
<1>3. CASE mode # "INITIAL"
  <2>1. mode # "QUOTED_IDENTIFIER" /\ w.len = Adjacent
    BY <1>0, <1>1, <1>3 DEF Taken, IsErrorRule, IsQuotedRule, IsStringRule
  <2>2. PICK n \in Nat \ {0} :
          /\ Adjacent = n + 2 /\ pos + n + 2 <= Len(text)
          /\ Byte(pos) = Apostrophe /\ Byte(pos + n + 1) = Apostrophe
          /\ \A i \in (pos + 1) .. (pos + n) : Byte(i) \in Space
    BY <1>0, <1>1, <2>1, AdjacentIs
  <2>3. PICK b : b = yylloc.begin
    OBVIOUS
  <2>4. Quoting(b, pos, value) /\ Byte(b) = Apostrophe
    BY <1>3, <2>1, <2>3, QuotingIs
  <2>5. Continuing(b, pos, pos + n + 2, <<>>)
    BY <2>2, <2>4, GapContinues DEF Quoting
  <2>6. pos + n + 2 = pos + w.len
    BY <1>0, <2>1, <2>2
  <2>7. value' = After(value, <<>>) /\ <<>> \in Values
    BY <1>1, <2>4, ValuesAppend DEF Quoting
  <2>8. PICK x : x = <<>>
    OBVIOUS
  <2>9. x \in Values /\ Continuing(yylloc.begin, pos, pos + w.len, x) /\ value' = After(value, x)
    BY <2>3, <2>5, <2>6, <2>7, <2>8
  <2> QED BY <1>0, <1>1, <1>3, <2>9, AppendsValue
<1> QED BY <1>2, <1>3

\* A quote opens.
LEMMA OpenKeepsValue ==
  ASSUME NEW w, Reads(w), ValueOK, Open(w)
  PROVE  ValueOK'
<1>0. /\ InText /\ Taken(w) /\ IsText /\ pos \in Nat /\ Len(text) \in Nat /\ pos' = pos + w.len
      /\ text' = text /\ yylloc \in Locations
  BY TextIs, PlaceIs, ReadsOn DEF Reads, LexOK
<1>1. /\ w.name = "OPEN" /\ w.len > 0 /\ token' = "NONE" /\ value' = <<>>
      /\ yylloc' = [yylloc EXCEPT !.begin = pos]
  BY <1>0, TakesSomething DEF Open, Return
<1>2. w.len = Longest({<<{Backtick, Apostrophe}>>}, pos)
  BY <1>0, <1>1 DEF Taken, IsErrorRule, IsInitialRule, IsQuotedRule, IsStringRule
<1>3. w.len = 1 /\ pos + 1 <= Len(text) /\ Byte(pos) \in {Backtick, Apostrophe}
  <2>1. PICK l : l = Longest({<<{Backtick, Apostrophe}>>}, pos)
    OBVIOUS
  <2>2. l \in {0, 1} /\ (l = 1 => pos + 1 <= Len(text) /\ Byte(pos) \in {Backtick, Apostrophe})
    BY <1>0, <2>1, LongestByte
  <2> QED BY <1>1, <1>2, <2>1, <2>2
<1>4. PICK b, p, s, tok : b = pos /\ p = pos + 1 /\ s = <<>> /\ tok = "NONE"
  OBVIOUS
<1>5. Within(b, b + 1)
  BY <1>0, <1>3, <1>4 DEF Within, IsQuote
<1>6. Quoting(b, p, s)
  BY <1>4, <1>5, OpenFollows, ValuesAppend DEF Quoting
<1>7. b = yylloc'.begin /\ p = pos' /\ s = value' /\ tok = token' /\ tok \notin Valued
  BY <1>0, <1>1, <1>3, <1>4 DEF Locations, Valued
<1>8. PICK e : e = yylloc'.end
  OBVIOUS
<1> QED BY <1>0, <1>6, <1>7, <1>8, ValueNext

\* A quote closes.
LEMMA CloseKeepsValue ==
  ASSUME NEW w, Reads(w), ValueOK, Close(w)
  PROVE  ValueOK'
<1>0. /\ InText /\ Taken(w) /\ IsText /\ pos \in Nat /\ Len(text) \in Nat /\ pos' = pos + w.len
      /\ text' = text /\ yylloc \in Locations /\ pos < Len(text)
  BY TextIs, PlaceIs, ReadsOn DEF Reads, LexOK
<1>1. /\ w.name = "CLOSE" /\ w.len > 0 /\ mode' = "INITIAL" /\ value' = value
      /\ yylloc' = [yylloc EXCEPT !.end = pos + 1] /\ token' \in {"ERR", "IDENTIFIER", "STRING"}
  BY <1>0, TakesSomething DEF Close, Return, ReturnError
<1>2. /\ mode = "QUOTED_IDENTIFIER" => w.len = Longest({<<{Backtick}>>}, pos)
      /\ mode # "QUOTED_IDENTIFIER" => w.len = Longest({<<{Apostrophe}>>}, pos)
      /\ mode # "INITIAL"
  BY <1>0, <1>1 DEF Taken, IsErrorRule, IsInitialRule, IsQuotedRule, IsStringRule
<1>3. w.len = 1
  <2>1. PICK l, m : l = Longest({<<{Backtick}>>}, pos) /\ m = Longest({<<{Apostrophe}>>}, pos)
    OBVIOUS
  <2>2. l \in {0, 1} /\ m \in {0, 1}
    BY <1>0, <2>1, LongestByte
  <2> QED BY <1>1, <1>2, <2>1, <2>2
<1>4. PICK b, p, s, tok : b = yylloc.begin /\ p = pos + 1 /\ s = value /\ tok = token'
  OBVIOUS
<1>5. Quoting(b, pos, s) /\ Byte(b) \in {Apostrophe, Backtick}
  BY <1>2, <1>4, QuotingIs
<1>6. Quoted(b, p) = s
  BY <1>0, <1>4, <1>5, FollowsToTheEnd DEF Quoting
<1>7. Spells(tok, b, p, s)
  BY <1>1, <1>4, <1>5, <1>6 DEF Spells
<1>8. b = yylloc'.begin /\ p = yylloc'.end /\ p = pos' /\ s = value'
  BY <1>0, <1>1, <1>3, <1>4 DEF Locations
<1> QED BY <1>0, <1>1, <1>4, <1>7, <1>8, ValueNext

\* Numbers.
LEMMA NumberKeepsValue ==
  ASSUME NEW w, Reads(w), ValueOK, MatchNumber(w)
  PROVE  ValueOK'
<1>0. /\ InText /\ Taken(w) /\ IsText /\ pos \in Nat /\ Len(text) \in Nat /\ pos' = pos + w.len
      /\ text' = text /\ w.len \in Nat /\ pos + w.len <= Len(text)
  BY TextIs, PlaceIs, ReadsOn DEF Reads, LexOK, Taken
<1>1. /\ w.name \in {"INT", "FLOAT"} /\ w.len > 0 /\ token' = w.name /\ yylloc' = here(w)
      /\ w.name = "INT" => value' = <<atoi(matched(w))>>
  BY <1>0, TakesSomething DEF MatchNumber, Return
<1>2. CASE w.name # "INT"
  BY <1>1, <1>2 DEF ValueOK, Valued
<1>3. CASE w.name = "INT"
  <2>1. w.len = Repeated({<<Digit>>}, pos)
    BY <1>0, <1>3 DEF Taken, IsErrorRule, IsInitialRule, IsQuotedRule, IsStringRule
  <2>2. PICK b, e : b = pos /\ e = pos + w.len
    OBVIOUS
  <2>3. \A i \in b .. (e - 1) : Byte(i) \in Digit
    <3>1. Bytewise(Digit, pos, w.len)
      BY <1>0, <2>1, RepeatedBytes DEF IsText
    <3>2. \A i \in b .. (e - 1) : i \in pos .. (pos + w.len - 1)
      BY <1>0, <2>2
    <3> QED BY <3>1, <3>2, Zenon DEF Bytewise
  <2>4. b \in Nat /\ e \in Nat /\ b <= e /\ e <= Len(text) /\ b \in b .. (e - 1)
    BY <1>0, <1>1, <2>2
  <2>5. DecimalOf(b, e) <= IntMax => atoi(Bytes(b, e)) = DecimalOf(b, e)
    BY <1>0, <2>3, <2>4, AtoiIs
  <2>6. PICK s : s = <<atoi(Bytes(b, e))>>
    OBVIOUS
  <2>7. Byte(b) \in Digit
    BY <2>3, <2>4
  <2>8. Spells("INT", b, e, s)
    <3>1. PICK n : n = DecimalOf(b, e)
      OBVIOUS
    <3>2. n <= IntMax => s = <<n>>
      BY <2>5, <2>6, <3>1
    <3>3. n <= IntMax => s = <<DecimalOf(b, e)>>
      BY <3>1, <3>2
    <3> QED BY <2>7, <3>1, <3>3 DEF Spells
  <2>9. s = value' /\ b = yylloc'.begin /\ e = yylloc'.end /\ e = pos' /\ token' = "INT"
    BY <1>0, <1>1, <1>3, <2>2, <2>6 DEF here, matched, Location
  <2> QED BY <1>0, <2>8, <2>9, ValueNext
<1> QED BY <1>2, <1>3

\* Names without quotes.
LEMMA NamesAvoidQuotes ==
  ASSUME IsText
  PROVE  Avoids(NameChar, {Apostrophe, Backtick})
<1> SUFFICES ASSUME NEW q \in Nat, NEW r \in NameChar, Matches(r, q), NEW i \in q .. (q + Len(r) - 1)
             PROVE  Byte(i) \notin {Apostrophe, Backtick}
  BY DEF Avoids
<1>1. CASE r \in U_EXTBMP
  <2>1. High(Byte(i))
    BY <1>1, CharactersAreHigh
  <2>2. ~High(Apostrophe) /\ ~High(Backtick)
    BY DEF High, Apostrophe, Backtick
  <2> QED BY <2>1, <2>2
<1>2. CASE r = <<{36} \cup Digit \cup Letter>>
  <2>1. PICK D : D = {36} \cup Digit \cup Letter
    OBVIOUS
  <2>2. Len(r) = 1
    BY <1>2, Lengths
  <2>3. i = q
    BY <2>2
  <2>4. Byte(q) \in D
    BY <1>2, <2>1, OneByte
  <2>5. Apostrophe \notin D /\ Backtick \notin D
    BY <2>1 DEF Digit, Letter, Apostrophe, Backtick
  <2> QED BY <2>3, <2>4, <2>5
<1> QED BY <1>1, <1>2, Zenon DEF NameChar

LEMMA NameKeepsValue ==
  ASSUME NEW w, Reads(w), ValueOK, MatchIdentifier(w)
  PROVE  ValueOK'
<1>0. /\ InText /\ Taken(w) /\ IsText /\ pos \in Nat /\ Len(text) \in Nat /\ pos' = pos + w.len
      /\ text' = text /\ w.len \in Nat /\ pos + w.len <= Len(text)
  BY TextIs, PlaceIs, ReadsOn DEF Reads, LexOK, Taken
<1>1. /\ w.name = "IDENTIFIER" /\ w.len > 0 /\ token' \in {"ERR", "IDENTIFIER"} /\ yylloc' = here(w)
      /\ value' = matched(w)
  BY <1>0, TakesSomething DEF MatchIdentifier, Return, ReturnError
<1>2. w.len = Repeated(NameChar, pos)
  BY <1>0, <1>1 DEF Taken, IsErrorRule, IsInitialRule, IsQuotedRule, IsStringRule
<1>3. PICK b, e, s, tok, n : b = pos /\ e = pos + w.len /\ s = Bytes(b, e) /\ tok = token' /\ n = w.len
  OBVIOUS
<1>4. Byte(b) \notin {Apostrophe, Backtick}
  <2>1. Short(NameChar) /\ Avoids(NameChar, {Apostrophe, Backtick}) /\ pos <= Len(text)
    BY <1>0, NamePatternsShort, NamesAvoidQuotes
  <2>2. \A i \in pos .. (pos + n - 1) : Byte(i) \notin {Apostrophe, Backtick}
    BY <1>0, <1>2, <1>3, <2>1, RepeatedAvoids
  <2>3. b \in pos .. (pos + n - 1)
    BY <1>0, <1>1, <1>3
  <2> QED BY <2>2, <2>3
<1>5. Spells("IDENTIFIER", b, e, s)
  BY <1>3, <1>4 DEF Spells
<1>6. s = value' /\ b = yylloc'.begin /\ e = yylloc'.end /\ e = pos'
  BY <1>0, <1>1, <1>3 DEF here, matched, Location
<1>7. tok # "NONE" /\ (tok \in Valued => e = e /\ Spells(tok, b, e, s))
  BY <1>1, <1>3, <1>5 DEF Valued
<1> QED BY <1>0, <1>3, <1>6, <1>7, ValueNext

\* A name that was looked up.
LEMMA WordFoundKeepsValue ==
  ASSUME LexOK, ValueOK, WordFound
  PROVE  ValueOK'
<1>0. InText /\ IsText /\ pos \in Nat /\ Len(text) \in Nat /\ pos <= Len(text)
  BY TextIs, PlaceIs DEF LexOK
<1>1. /\ outcome # "none" /\ UNCHANGED <<text, pos, yylloc>>
      /\ token' \in {"KEYWORD", "ERR", "IDENTIFIER"}
      /\ token' = "IDENTIFIER" => value' = Bytes(yylloc.begin, yylloc.end)
  BY DEF WordFound, Return, ReturnError
<1>2. /\ yylloc.end = pos /\ yylloc.begin \in 0 .. (pos - 1)
      /\ \A i \in yylloc.begin .. (pos - 1) : Byte(i) \in Letter
  BY <1>1 DEF LexOK, WordOK
<1>3. PICK b, e, s, tok, p : b = yylloc.begin /\ e = yylloc.end /\ s = value' /\ tok = token' /\ p = pos
  OBVIOUS
<1>4. Byte(b) \notin {Apostrophe, Backtick}
  <2>1. b \in b .. (pos - 1)
    BY <1>0, <1>2, <1>3
  <2>2. Byte(b) \in Letter
    BY <1>2, <1>3, <2>1
  <2> QED BY <2>2 DEF Letter, Apostrophe, Backtick
<1>5. tok # "NONE" /\ (tok \in Valued => e = p /\ Spells(tok, b, p, s))
  BY <1>1, <1>2, <1>3, <1>4 DEF Spells, Valued
<1>6. b = yylloc'.begin /\ e = yylloc'.end /\ p = pos'
  BY <1>1, <1>3
<1> QED BY <1>1, <1>3, <1>5, <1>6, ValueNext

\* Everything the lexer reads.
LEMMA ReadKeepsValue ==
  ASSUME LexOK, ValueOK, Read
  PROVE  ValueOK'
<1>1. PICK w : w = Winner
  OBVIOUS
<1>2. InText /\ mode \in Modes
  BY TextIs DEF LexOK, TypesOK
<1>3. Taken(w)
  BY <1>1, <1>2, WinnerIsTaken
<1>4. /\ Reads(w)
      /\ \/ MatchError(w) \/ Skip(w) \/ MatchNumber(w) \/ MatchOperator(w)
         \/ MatchWord(w) \/ MatchIdentifier(w)
         \/ Open(w) \/ Concatenate(w) \/ Close(w)
  BY <1>1, <1>3 DEF Read, Reads
<1>5. CASE MatchError(w) \/ MatchOperator(w) \/ MatchWord(w)
  <2>1. token' \in {"ERR", "OPERATOR"} \/ (token' = "NONE" /\ mode' = "INITIAL")
    <3>1. CASE MatchError(w)
      BY <3>1 DEF MatchError, ReturnError
    <3>2. CASE MatchOperator(w)
      BY <3>2 DEF MatchOperator, Return
    <3>3. CASE MatchWord(w)
      <4>1. w.name = "WORD" /\ token' = "NONE" /\ mode' = mode
        BY <3>3 DEF MatchWord, Return
      <4> QED BY <1>3, <4>1 DEF Taken, IsErrorRule, IsQuotedRule, IsStringRule
    <3> QED BY <1>5, <3>1, <3>2, <3>3
  <2> QED BY <2>1 DEF ValueOK, Valued
<1>6. CASE Concatenate(w)
  <2>1. w.name \in {"RUN", "DOUBLED", "ESCAPE"}
    BY <1>6 DEF Concatenate
  <2>2. mode # "INITIAL" /\ w.len > 0
    BY <1>3, <2>1, TakesSomething DEF Taken, IsErrorRule, IsInitialRule
  <2> QED BY <1>4, <1>6, <2>1, <2>2, RunKeepsValue, DoubledKeepsValue, EscapeKeepsValue
<1> QED
  BY <1>4, <1>5, <1>6, SkipKeepsValue, NumberKeepsValue, NameKeepsValue, OpenKeepsValue, CloseKeepsValue

LEMMA ValueKeeps == LexOK /\ SearchInv /\ ValueOK /\ [DiagNext]_diagVars => ValueOK'
<1> SUFFICES ASSUME LexOK, ValueOK, [DiagNext]_diagVars PROVE ValueOK'
  OBVIOUS
<1>1. CASE Read
  BY <1>1, ReadKeepsValue
<1>2. CASE WordFound
  BY <1>2, WordFoundKeepsValue
<1>3. CASE Search \/ Refuse \/ GiveUpOutput \/ Accept \/ Report \/ PrintStep \/ UNCHANGED diagVars
  <2>1. UNCHANGED <<text, pos, mode, yylloc, value, token>>
    BY <1>3 DEF Search, Refuse, GiveUpOutput, Accept, Report, PrintStep, diagVars, errorVars, lexerVars
  <2>2. PICK b, e, p, s, tok : b = yylloc.begin /\ e = yylloc.end /\ p = pos /\ s = value /\ tok = token
    OBVIOUS
  <2>3. /\ mode # "INITIAL" /\ tok = "NONE" => Quoting(b, p, s)
        /\ tok \in Valued => e = p /\ Spells(tok, b, p, s)
    BY <2>2 DEF ValueOK
  <2> QED BY <2>1, <2>2, <2>3, ValueNext
<1>4. CASE ReadEnd
  <2>1. token' \in {"ERR", "END"}
    BY <1>4 DEF ReadEnd, Return, ReturnError
  <2> QED BY <2>1 DEF ValueOK, Valued
<1>5. CASE Proceed
  <2>1. token' = "NONE" /\ mode' = mode /\ token \notin {"NONE", "ERR"}
    BY <1>5 DEF Proceed, Parsing
  <2>2. mode' = "INITIAL"
    BY <2>1 DEF LexOK, TokenOK
  <2> QED BY <2>1, <2>2 DEF ValueOK, Valued
<1> QED
  BY <1>1, <1>2, <1>3, <1>4, <1>5 DEF DiagNext, LexerStep, LexerNext

\* A string is what MySQL makes of the text in quotes, escapes, doubled quotes and
\* strings side by side decoded, a number the number its digits write, if an int
\* holds it, and a word the text as it stands: for every text, however the lexer
\* takes it apart into runs, quotes and escapes.
THEOREM TokensAreTheirText == DiagSpec => []TokenIsItsText
<1>1. DiagInit => ValueOK
  BY DEF DiagInit, LexerInit, ValueOK, Valued
<1>2. ValueOK => TokenIsItsText
  BY ValueIs
<1> QED BY <1>1, <1>2, DiagnosticsBegin, DiagnosticsKeep, ValueKeeps, PTL DEF DiagSpec

-----------------------------------------------------------------------------
(* The report: the columns of a line, counted                                *)

\* Of a finite set of numbers, those below a bound are fewer than those below one of
\* them exactly if the bound is less.
LEMMA FewerBelow ==
  ASSUME NEW S \in SUBSET Int, IsFiniteSet(S), NEW p \in S, NEW x \in Int
  PROVE  /\ Cardinality({q \in S : q < x}) \in Nat
         /\ Cardinality({q \in S : q < x}) <= Cardinality(S)
         /\ Cardinality({q \in S : q < x}) <= Cardinality({q \in S : q < p}) <=> x <= p
<1>1. PICK below : below = {q \in S : q < x}
  OBVIOUS
<1>2. PICK before : before = {q \in S : q < p}
  OBVIOUS
<1>3. /\ IsFiniteSet(below) /\ IsFiniteSet(before)
      /\ Cardinality(below) \in Nat /\ Cardinality(before) \in Nat
      /\ Cardinality(below) <= Cardinality(S)
  BY <1>1, <1>2, FS_Subset, FS_CardinalityType
<1>4. ASSUME x <= p PROVE Cardinality(below) <= Cardinality(before)
  <2>1. below \in SUBSET before
    <3> SUFFICES ASSUME NEW q \in below PROVE q \in before
      OBVIOUS
    <3>1. q \in S /\ q \in Int /\ p \in Int /\ q < x
      BY <1>1
    <3> QED BY <1>2, <1>4, <3>1
  <2>2. Cardinality(below) <= Cardinality(before)
    BY <1>3, <2>1, FS_Subset
  <2> QED BY <1>4, <2>2
<1>5. ASSUME p < x PROVE ~(Cardinality(below) <= Cardinality(before))
  <2>1. before \in SUBSET below
    <3> SUFFICES ASSUME NEW q \in before PROVE q \in below
      OBVIOUS
    <3>1. q \in S /\ q \in Int /\ p \in Int /\ q < p
      BY <1>2
    <3> QED BY <1>1, <1>5, <3>1
  <2>3. p \in below /\ p \notin before
    <3>1. p \in Int
      OBVIOUS
    <3> QED BY <1>1, <1>2, <1>5, <3>1
  <2>2. Cardinality(before) <= Cardinality(below) /\ Cardinality(before) # Cardinality(below)
    BY <1>3, <2>1, <2>3, FS_Subset
  <2> QED BY <1>3, <1>5, <2>2
<1>6. Cardinality(below) <= Cardinality(before) <=> x <= p
  BY <1>4, <1>5
<1> QED BY <1>1, <1>2, <1>3, <1>6, Zenon

\* Those from a to b are as many as there are below b and not below a.
LEMMA CountBetween ==
  ASSUME NEW S \in SUBSET Int, IsFiniteSet(S), NEW a \in Int, NEW b \in Int, a <= b
  PROVE  Cardinality({q \in S : q < b}) =
           Cardinality({q \in S : q < a}) + Cardinality({q \in S : a <= q /\ q < b})
<1>1. PICK first : first = {q \in S : q < a}
  OBVIOUS
<1>2. PICK then : then = {q \in S : a <= q /\ q < b}
  OBVIOUS
<1>3. IsFiniteSet(first) /\ IsFiniteSet(then)
  BY <1>1, <1>2, FS_Subset
<1>4. first \cap then = {} /\ first \cup then = {q \in S : q < b}
  <2>1. \A q \in S : q \in Int
    OBVIOUS
  <2>2. \A q \in S : q < b <=> q < a \/ (a <= q /\ q < b)
    BY <2>1
  <2>3. \A q \in S : ~(q < a /\ a <= q)
    BY <2>1
  <2>4. first \cap then = {}
    BY <1>1, <1>2, <2>3
  <2>5. first \cup then = {q \in S : q < b}
    BY <1>1, <1>2, <2>2
  <2> QED BY <2>4, <2>5
<1>5. Cardinality(first \cup then) = Cardinality(first) + Cardinality(then) - Cardinality(first \cap then)
  BY <1>3, FS_Union
<1>6. Cardinality(first) \in Nat /\ Cardinality(then) \in Nat /\ Cardinality(first \cap then) = 0
  BY <1>3, <1>4, FS_CardinalityType, FS_EmptySet
<1>7. Cardinality(first \cup then) = Cardinality(first) + Cardinality(then)
  BY <1>5, <1>6
<1> QED BY <1>1, <1>2, <1>4, <1>7, Zenon

\* A row of carets whose spaces are the columns below a, and that ends before b, is
\* below the columns from a to b.
LEMMA UnderlinedIs ==
  ASSUME NEW m, Columns(m) \in SUBSET Int, IsFiniteSet(Columns(m)),
         NEW a \in Int, NEW b \in Int, a <= b,
         m.spaces = Cardinality({q \in Columns(m) : q < a}),
         m.carets = Cardinality({q \in Columns(m) : a <= q /\ q < b})
  PROVE  Underlined(m) = {q \in Columns(m) : a <= q /\ q < b}
<1>1. PICK S : S = Columns(m)
  OBVIOUS
<1>2. S \in SUBSET Int /\ IsFiniteSet(S)
  BY <1>1
<1>3. PICK s, c : s = m.spaces /\ c = m.carets
  OBVIOUS
<1>4. s = Cardinality({q \in S : q < a}) /\ s + c = Cardinality({q \in S : q < b})
  BY <1>1, <1>2, <1>3, CountBetween
<1>5. {q \in S : q < a} \in SUBSET S /\ {q \in S : q < b} \in SUBSET S
  OBVIOUS
<1>6. IsFiniteSet({q \in S : q < a}) /\ IsFiniteSet({q \in S : a <= q /\ q < b})
  <2>1. {q \in S : a <= q /\ q < b} \in SUBSET S
    OBVIOUS
  <2> QED BY <1>2, <1>5, <2>1, FS_Subset
<1>7. s \in Nat /\ c \in Nat /\ s + c <= Cardinality(S) /\ Cardinality(S) \in Nat
  <2>1. s \in Nat /\ c \in Nat
    BY <1>1, <1>3, <1>4, <1>6, FS_CardinalityType
  <2>2. Cardinality({q \in S : q < b}) <= Cardinality(S)
    BY <1>2, <1>5, FS_Subset
  <2> QED BY <1>2, <1>4, <2>1, <2>2, FS_CardinalityType
<1>8. ASSUME NEW p \in S
      PROVE  Cardinality({q \in S : q < p}) \in s .. s + c - 1 <=> a <= p /\ p < b
  <2>1. PICK n : n = Cardinality({q \in S : q < p})
    OBVIOUS
  <2>2. p \in Int /\ n \in Nat
    BY <1>2, <2>1, FewerBelow
  <2>3. (s <= n <=> a <= p) /\ (s + c <= n <=> b <= p)
    BY <1>2, <1>4, <2>1, FewerBelow
  <2> QED BY <1>7, <2>1, <2>2, <2>3
<1>9. {-1 : k \in {n \in s .. s + c - 1 : Cardinality(S) <= n}} = {}
  BY <1>7
<1>10. Underlined(m) =
         {p \in S : Cardinality({q \in S : q < p}) \in s .. s + c - 1}
         \cup {-1 : k \in {n \in s .. s + c - 1 : Cardinality(S) <= n}}
  BY <1>1, <1>3 DEF Underlined
<1> QED BY <1>1, <1>8, <1>9, <1>10

\* What an error has to be for the report: it is not empty, does not begin with the
\* end of a line, and is behind the text only if it is the NUL there.
Underlinable ==
  /\ err.pos \in Nat /\ Stop \in Int /\ err.pos < Stop
  /\ Char(err.pos) # NL
  /\ Stop <= Len(text) \/ (err.pos = Len(text) /\ Stop = Len(text) + 1)

\* The characters of the error.
Visible == {p \in err.pos .. (Stop - 1) : Begins(p) /\ Char(p) # NL}

\* The loop is at n, in a line that begins at l.
InLine(l, n) ==
  /\ n \in 0 .. Len(text) /\ l \in 0 .. n
  /\ \A p \in l .. n - 1 : Char(p) # NL
  /\ line = {p \in l .. n - 1 : Char(p) # CR}

\* Where a row of carets begins and where it ends.
RowBegins(l) == IF err.pos > l THEN err.pos ELSE l
RowEnds(n) ==
  LET last == IF n = err.pos THEN n + 1 ELSE n IN IF Stop < last THEN Stop ELSE last

LEMMA RowBounds ==
  ASSUME IsText, Underlinable, NEW l, NEW n, InLine(l, n), err.pos <= n, l <= Stop
  PROVE  /\ l \in Nat /\ n \in Nat /\ RowBegins(l) \in Nat /\ RowEnds(n) \in Nat
         /\ l <= n /\ l <= RowBegins(l) /\ err.pos <= RowBegins(l) /\ RowBegins(l) <= RowEnds(n)
         /\ RowEnds(n) <= Stop /\ RowEnds(n) <= n + 1
         /\ RowEnds(n) = n + 1 => n = err.pos
         /\ RowBegins(l) = l \/ RowBegins(l) = err.pos
  BY DEF Underlinable, InLine, RowBegins, RowEnds, IsText

\* The columns of a line up to the end of its row: all bytes there begin something
\* that is printed, since there is no carriage return in the line before.
LEMMA ColumnsAre ==
  ASSUME IsText, Underlinable, ~Misprinted, NEW l, NEW n, InLine(l, n), err.pos <= n, l <= Stop,
         NEW m, m.shown = line, m.eol = n
  PROVE  /\ Columns(m) \in SUBSET (l .. n)
         /\ \A q \in Int : q < RowEnds(n) => (q \in Columns(m) <=> l <= q /\ Begins(q))
<1>1. /\ l \in Nat /\ n \in Nat /\ RowEnds(n) \in Nat /\ l <= n
      /\ RowEnds(n) <= Stop /\ RowEnds(n) <= n + 1 /\ (RowEnds(n) = n + 1 => n = err.pos)
      /\ err.pos \in Nat /\ Stop \in Int
  BY RowBounds DEF Underlinable
<1>2. \A q : q \in Columns(m) <=> (q \in l .. n - 1 /\ Char(q) # CR /\ Begins(q)) \/ q = n
  BY DEF Columns, InLine
<1>3. Columns(m) \in SUBSET (l .. n)
  BY <1>1, <1>2
<1>4. ASSUME NEW q \in Int, q < RowEnds(n)
      PROVE  q \in Columns(m) <=> l <= q /\ Begins(q)
  <2>1. CASE q = n
    <3>1. RowEnds(n) = n + 1
      BY <1>1, <1>4, <2>1
    <3>2. q = err.pos
      BY <1>1, <2>1, <3>1
    <3>3. Begins(q)
      BY <3>2 DEF Misprinted
    <3> QED BY <1>1, <1>2, <2>1, <3>3
  <2>2. CASE q # n /\ l <= q
    <3>1. q \in l .. n - 1
      BY <1>1, <1>4, <2>2
    <3>2. q \in 0 .. Stop
      BY <1>1, <1>4, <2>2
    <3>3. \A i \in q .. err.pos - 1 : i \in l .. n - 1
      BY <1>1, <2>2, <3>1
    <3>4. q \in LineOfError
      BY <3>2, <3>3 DEF LineOfError, InLine
    <3>5. Char(q) # CR
      BY <3>4 DEF Misprinted
    <3> QED BY <1>2, <2>2, <3>1, <3>5
  <2>3. CASE q # n /\ ~(l <= q)
    <3>1. q \notin l .. n - 1
      BY <1>1, <2>3
    <3> QED BY <1>2, <2>3, <3>1
  <2> QED BY <2>1, <2>2, <2>3
<1> QED BY <1>3, <1>4

\* A row of carets is below the characters of the error that are in its line.
LEMMA RowIs ==
  ASSUME IsText, Underlinable, ~Misprinted, InLine(line_started_at, printed),
         err.pos <= printed, line_started_at <= Stop,
         printed = Len(text) \/ Char(printed) = NL,
         NEW m, m = [shown |-> line, eol |-> printed, spaces |-> Spaces, carets |-> Carets]
  PROVE  Underlined(m) = {p \in Visible : line_started_at <= p /\ p <= printed}
<1>1. PICK l, n, e : l = line_started_at /\ n = printed /\ e = err.pos
  OBVIOUS
<1>2. PICK a, b : a = RowBegins(l) /\ b = RowEnds(n)
  OBVIOUS
<1>3. /\ l \in Nat /\ n \in Nat /\ a \in Nat /\ b \in Nat /\ e \in Nat /\ Stop \in Int /\ Len(text) \in Nat
      /\ l <= n /\ l <= a /\ e <= a /\ a <= b /\ b <= Stop /\ b <= n + 1
      /\ (b = n + 1 => n = e) /\ (a = l \/ a = e)
  BY <1>1, <1>2, RowBounds DEF Underlinable, IsText
<1>4. m.shown = line /\ m.eol = n /\ m.spaces = Spaces /\ m.carets = Carets
  BY <1>1
<1>5. PICK C : C = Columns(m)
  OBVIOUS
<1>6. C \in SUBSET (l .. n) /\ \A q \in Int : q < b => (q \in C <=> l <= q /\ Begins(q))
  BY <1>1, <1>2, <1>4, <1>5, ColumnsAre
<1>7. C \in SUBSET Int /\ IsFiniteSet(C)
  <2>1. IsFiniteSet(l .. n)
    BY <1>3, FS_Interval
  <2>2. IsFiniteSet(C)
    BY <1>6, <2>1, FS_Subset
  <2>3. \A q \in C : q \in Int
    BY <1>6
  <2> QED BY <2>2, <2>3
<1>8. Spaces = Cardinality({q \in C : q < a})
  <2>1. Spaces = Cardinality({p \in l .. e - 1 : has_width(p)})
    BY <1>1 DEF Spaces, Widths
  <2>2. ASSUME NEW q PROVE q \in l .. e - 1 /\ has_width(q) <=> q \in C /\ q < a
    <3>1. CASE q \in l .. e - 1
      <4>1. q \in Nat /\ q < a /\ q < b /\ l <= q
        BY <1>3, <3>1
      <4> QED BY <1>6, <3>1, <4>1, WidthIsExact
    <3>2. CASE q \in C /\ q < a
      <4>1. q \in Int /\ l <= q /\ q < b
        BY <1>3, <1>6, <3>2
      <4>2. a = e /\ q \in l .. e - 1 /\ q \in Nat
        BY <1>3, <3>2, <4>1
      <4> QED BY <1>6, <3>2, <4>1, <4>2, WidthIsExact
    <3> QED BY <3>1, <3>2
  <2>3. {p \in l .. e - 1 : has_width(p)} = {q \in C : q < a}
    BY <2>2
  <2> QED BY <2>1, <2>3
<1>9. Carets = Cardinality({q \in C : a <= q /\ q < b})
  <2>1. Carets = Cardinality({p \in a .. b - 1 : has_width(p)})
    BY <1>1, <1>2 DEF Carets, Widths, RowBegins, RowEnds
  <2>2. ASSUME NEW q PROVE q \in a .. b - 1 /\ has_width(q) <=> q \in C /\ a <= q /\ q < b
    <3>1. CASE q \in a .. b - 1
      <4>1. q \in Nat /\ a <= q /\ q < b /\ l <= q
        BY <1>3, <3>1
      <4> QED BY <1>6, <3>1, <4>1, WidthIsExact
    <3>2. CASE q \in C /\ a <= q /\ q < b
      <4>1. q \in Nat /\ q \in a .. b - 1
        BY <1>3, <1>7, <3>2
      <4> QED BY <1>6, <3>2, <4>1, WidthIsExact
    <3> QED BY <3>1, <3>2
  <2>3. {p \in a .. b - 1 : has_width(p)} = {q \in C : a <= q /\ q < b}
    BY <2>2
  <2> QED BY <2>1, <2>3
<1>10. Underlined(m) = {q \in C : a <= q /\ q < b}
  <2>1. a \in Int /\ b \in Int
    BY <1>3
  <2> QED BY <1>3, <1>4, <1>5, <1>7, <1>8, <1>9, <2>1, UnderlinedIs
<1>11. ASSUME NEW q
       PROVE  q \in C /\ a <= q /\ q < b <=> q \in Visible /\ l <= q /\ q <= n
  <2>1. CASE q \in C /\ a <= q /\ q < b
    <3>1. q \in Int /\ Begins(q) /\ l <= q /\ q <= n /\ q \in e .. Stop - 1
      BY <1>3, <1>6, <1>7, <2>1
    <3>2. Char(q) # NL
      <4>1. CASE q = n
        <5>1. q = err.pos
          BY <1>1, <1>3, <2>1, <4>1
        <5> QED BY <5>1 DEF Underlinable
      <4>2. CASE q # n
        <5>1. q \in l .. n - 1
          BY <1>3, <3>1, <4>2
        <5> QED BY <1>1, <5>1 DEF InLine
      <4> QED BY <4>1, <4>2
    <3> QED BY <1>1, <2>1, <3>1, <3>2 DEF Visible
  <2>2. CASE q \in Visible /\ l <= q /\ q <= n
    <3>1. q \in Int /\ e <= q /\ q < Stop /\ Begins(q) /\ Char(q) # NL
      BY <1>1, <1>3, <2>2 DEF Visible
    <3>2. n = e \/ q < n
      <4> SUFFICES ASSUME q = n PROVE n = e
        BY <1>3, <2>2, <3>1
      <4>1. n = Len(text)
        BY <1>1, <3>1
      <4>2. ~(Stop <= Len(text))
        BY <1>3, <3>1, <4>1
      <4> QED BY <1>1, <4>1, <4>2 DEF Underlinable
    <3>3. a <= q /\ q < b
      BY <1>1, <1>2, <1>3, <2>2, <3>1, <3>2 DEF RowBegins, RowEnds
    <3> QED BY <1>6, <2>2, <3>1, <3>3
  <2> QED BY <2>1, <2>2
<1> QED BY <1>1, <1>10, <1>11

-----------------------------------------------------------------------------
(* The loop that prints                                                      *)

\* What is underlined so far are the characters of the error in the lines that are
\* done; only behind a newline at the very end there is no further line.
ReportOK ==
  /\ printed \in -1 .. Len(text) + 1
  /\ printed = -1 => line_started_at = 0 /\ line = {} /\ marked = {}
  /\ printed \in 0 .. Len(text) => InLine(line_started_at, printed)
  /\ printed = Len(text) + 1 =>
       line_started_at = Len(text) + 1 \/ (line_started_at = Len(text) /\ Char(Len(text) - 1) = NL)
  /\ printed # -1 =>
       Misprinted \/ UNION {Underlined(m) : m \in marked} = {p \in Visible : p < line_started_at}

\* The definitions above read the text and the place of the error, which stay.
LEMMA RowsStay ==
  ASSUME UNCHANGED <<text, err>>
  PROVE  /\ \A p : (Char(p))' = Char(p)
         /\ Stop' = Stop /\ Misprinted' = Misprinted /\ Visible' = Visible
         /\ \A m : (Underlined(m))' = Underlined(m)
<1>1. \A p : (Char(p))' = Char(p)
  BY DEF Char
<1>2. \A p : (IsContinuation(p))' = IsContinuation(p)
  BY <1>1 DEF IsContinuation
<1>3. \A p : (Begins(p))' = Begins(p)
  <2> TAKE p
  <2> QED BY <1>1, <1>2 DEF Begins, Wanted
<1>4. Stop' = Stop
  BY DEF Stop
<1>5. LineOfError' = LineOfError
  BY <1>1, <1>4 DEF LineOfError
<1>6. Misprinted' = Misprinted
  BY <1>1, <1>3, <1>5 DEF Misprinted
<1>7. Visible' = Visible
  BY <1>1, <1>3, <1>4 DEF Visible
<1>8. \A m : (Columns(m))' = Columns(m)
  BY <1>3 DEF Columns
<1>9. \A m : (Underlined(m))' = Underlined(m)
  BY <1>8, Zenon DEF Underlined
<1> QED BY <1>1, <1>4, <1>6, <1>7, <1>9

LEMMA UnderlinedStays ==
  ASSUME UNCHANGED <<text, err>>
  PROVE  (UNION {Underlined(m) : m \in marked})' = UNION {Underlined(m) : m \in marked'}
<1>1. \A m : (Underlined(m))' = Underlined(m)
  BY RowsStay
<1> QED BY <1>1, Zenon

LEMMA ReportStays ==
  ASSUME ReportOK, UNCHANGED <<text, err, reportVars>>
  PROVE  ReportOK'
<1>1. UNCHANGED <<printed, line_started_at, line, marked>>
  BY DEF reportVars
<1>2. \A p : (Char(p))' = Char(p)
  BY RowsStay
<1>3. Misprinted' = Misprinted /\ Visible' = Visible
  BY RowsStay
<1>4. (UNION {Underlined(m) : m \in marked})' = UNION {Underlined(m) : m \in marked}
  BY <1>1, UnderlinedStays
<1>5. (InLine(line_started_at, printed))' <=> InLine(line_started_at, printed)
  BY <1>1, <1>2 DEF InLine
<1> QED BY <1>1, <1>2, <1>3, <1>4, <1>5 DEF ReportOK

\* Before the report, the error may still be found.
LEMMA NoReportYet ==
  ASSUME ReportOK, printed = -1, IsText', UNCHANGED reportVars
  PROVE  ReportOK'
<1>1. printed' = -1 /\ line_started_at' = 0 /\ line' = {} /\ marked' = {}
  BY DEF ReportOK, reportVars
<1>2. (Len(text))' \in Nat
  BY DEF IsText
<1> QED BY <1>1, <1>2 DEF ReportOK

LEMMA ReportStarts ==
  ASSUME ReportOK, IsText, Underlinable, BeginReport, UNCHANGED <<text, err>>
  PROVE  ReportOK'
<1>1. printed' = 0 /\ line_started_at' = 0 /\ line' = {} /\ marked' = {} /\ marked = {}
  BY DEF ReportOK, BeginReport
<1>2. Misprinted' = Misprinted /\ Visible' = Visible
  BY RowsStay
<1>3. (UNION {Underlined(m) : m \in marked})' = {}
  BY <1>1
<1>4. {p \in Visible : p < 0} = {}
  BY DEF Visible, Underlinable
<1>5. Len(text) \in Nat /\ text' = text
  BY DEF IsText
<1>6. (InLine(line_started_at, printed))'
  BY <1>1, <1>5 DEF InLine
<1> QED BY <1>1, <1>2, <1>3, <1>4, <1>5, <1>6 DEF ReportOK

\* Line by line: a row is printed below each line the error is in.
LEMMA PrintKeeps ==
  ASSUME ReportOK, IsText, Underlinable, PrintByte, UNCHANGED <<text, err>>
  PROVE  ReportOK'
<1>1. PICK n, l, e : n = printed /\ l = line_started_at /\ e = err.pos
  OBVIOUS
<1>2. PICK eol \in BOOLEAN : eol = (IF n = Len(text) THEN Char(n - 1) # NL ELSE Char(n) = NL)
  OBVIOUS
<1>3. PICK row : row = [shown |-> line, eol |-> n, spaces |-> Spaces, carets |-> Carets]
  OBVIOUS
<1>4. /\ n \in Nat /\ n <= Len(text) /\ Len(text) \in Nat /\ InLine(l, n) /\ l \in Nat /\ l <= n
      /\ e \in Nat /\ Stop \in Int
  BY <1>1 DEF ReportOK, InLine, PrintByte, IsText, Underlinable
<1>5. /\ printed' = n + 1
      /\ line_started_at' = IF eol THEN n + 1 ELSE l
      /\ line' = IF eol THEN {}
                 ELSE IF n = Len(text) \/ Char(n) \in {CR, NL} THEN line ELSE line \cup {n}
  BY <1>1, <1>2 DEF PrintByte
<1>6. marked' = IF eol /\ e <= n /\ l <= Stop THEN marked \cup {row} ELSE marked
  <2>1. eol => (n = Len(text) \/ Char(n) = NL)
    BY <1>2
  <2> QED BY <1>1, <1>2, <1>3, <2>1 DEF PrintByte
<1>7. \A p : (Char(p))' = Char(p)
  BY RowsStay
<1>8. ASSUME ~Misprinted
      PROVE  UNION {Underlined(m) : m \in marked'} = {p \in Visible : p < line_started_at'}
  <2>1. UNION {Underlined(m) : m \in marked} = {p \in Visible : p < l}
    <3>1. printed # -1
      BY <1>1, <1>4
    <3> QED BY <1>1, <1>8, <3>1 DEF ReportOK
  <2>2. CASE ~eol
    BY <1>5, <1>6, <2>1, <2>2
  <2>3. CASE eol /\ e <= n /\ l <= Stop
    <3>1. n = Len(text) \/ Char(n) = NL
      BY <1>2, <2>3
    <3>2. Underlined(row) = {p \in Visible : l <= p /\ p <= n}
      BY <1>1, <1>3, <1>4, <1>8, <2>3, <3>1, RowIs
    <3>3. UNION {Underlined(m) : m \in marked'} =
            {p \in Visible : p < l} \cup {p \in Visible : l <= p /\ p <= n}
      <4>1. marked' = marked \cup {row}
        BY <1>6, <2>3
      <4> QED BY <2>1, <3>2, <4>1
    <3>4. \A p \in Visible : p < l \/ (l <= p /\ p <= n) <=> p < n + 1
      BY <1>4 DEF Visible, Underlinable
    <3> QED BY <1>5, <2>3, <3>3, <3>4
  <2>4. CASE eol /\ ~(e <= n /\ l <= Stop)
    <3>1. \A p \in Visible : p < l <=> p < n + 1
      BY <1>1, <1>4, <2>4 DEF Visible
    <3> QED BY <1>5, <1>6, <2>1, <2>4, <3>1
  <2> QED BY <2>2, <2>3, <2>4
<1>9. (Misprinted \/ UNION {Underlined(m) : m \in marked} = {p \in Visible : p < line_started_at})'
  <2>1. Misprinted' = Misprinted /\ Visible' = Visible
    BY RowsStay
  <2> QED BY <1>8, <2>1, UnderlinedStays
<1>10. ASSUME n < Len(text)
       PROVE  (InLine(line_started_at, printed))'
  <2>1. CASE eol
    BY <1>4, <1>5, <1>10, <2>1 DEF InLine
  <2>2. CASE ~eol
    <3>1. Char(n) # NL
      <4>1. n # Len(text)
        BY <1>4, <1>10
      <4> QED BY <1>2, <2>2, <4>1, Zenon
    <3>2. /\ line_started_at' = l /\ printed' = n + 1
          /\ printed' \in 0 .. Len(text) /\ line_started_at' \in 0 .. printed'
      BY <1>4, <1>5, <1>10, <2>2
    <3>3. \A p : p \in line_started_at' .. printed' - 1 <=> p \in l .. n - 1 \/ p = n
      BY <1>4, <3>2
    <3>4. (\A p \in l .. n - 1 : Char(p) # NL) /\ line = {p \in l .. n - 1 : Char(p) # CR}
      BY <1>4 DEF InLine
    <3>5. \A p \in line_started_at' .. printed' - 1 : (Char(p))' # NL
      BY <1>7, <3>1, <3>3, <3>4
    <3>6. ASSUME NEW p
          PROVE  p \in line' <=> p \in line_started_at' .. printed' - 1 /\ (Char(p))' # CR
      <4>1. p \in line' <=> p \in line \/ (p = n /\ Char(n) # CR)
        BY <1>4, <1>5, <1>10, <2>2, <3>1
      <4> QED BY <1>7, <3>3, <3>4, <4>1
    <3>7. line' = {p \in line_started_at' .. printed' - 1 : (Char(p))' # CR}
      <4>1. line' \in SUBSET (line_started_at' .. printed' - 1)
        BY <3>6
      <4> QED BY <3>6, <4>1
    <3> QED BY <3>2, <3>5, <3>7 DEF InLine
  <2> QED BY <2>1, <2>2
<1>11. ASSUME n = Len(text)
       PROVE  line_started_at' = n + 1 \/ (line_started_at' = n /\ Char(n - 1) = NL)
  <2>1. CASE eol
    BY <1>5, <2>1
  <2>2. CASE ~eol
    <3>1. Char(n - 1) = NL
      BY <1>2, <1>11, <2>2, Zenon
    <3>2. n - 1 \notin l .. n - 1
      BY <1>4, <3>1 DEF InLine
    <3>3. l = n
      BY <1>4, <3>2
    <3> QED BY <1>5, <2>2, <3>1, <3>3
  <2> QED BY <2>1, <2>2
<1>12. printed' \in -1 .. (Len(text))' + 1 /\ printed' # -1
  BY <1>4, <1>5
<1>13. (printed \in 0 .. Len(text) => InLine(line_started_at, printed))'
  BY <1>4, <1>5, <1>10
<1>14. (printed = Len(text) + 1 =>
          line_started_at = Len(text) + 1 \/ (line_started_at = Len(text) /\ Char(Len(text) - 1) = NL))'
  BY <1>4, <1>5, <1>7, <1>11
<1> QED BY <1>9, <1>12, <1>13, <1>14 DEF ReportOK

\* At the end all characters of the error are underlined.
LEMMA ReportIsExact ==
  ASSUME ReportOK, IsText, Reported => Underlinable
  PROVE  ErrorIsUnderlined
<1> SUFFICES ASSUME Reported, ~Misprinted
             PROVE  Visible # {} /\ UNION {Underlined(m) : m \in marked} = Visible
  BY DEF ErrorIsUnderlined, Visible
<1>1. err.pos \in Visible
  BY DEF Underlinable, Visible, Misprinted
<1>2. \A p \in Visible : p < line_started_at
  <2> SUFFICES ASSUME NEW p \in Visible PROVE p < line_started_at
    OBVIOUS
  <2>1. /\ p \in Int /\ p < Stop /\ Stop \in Int /\ Len(text) \in Nat
        /\ Stop <= Len(text) \/ (err.pos = Len(text) /\ Stop = Len(text) + 1)
    BY DEF Visible, Underlinable, IsText
  <2>2. CASE line_started_at = Len(text) + 1
    BY <2>1, <2>2
  <2>3. CASE (line_started_at = Len(text) /\ Char(Len(text) - 1) = NL)
    <3>1. err.pos # Len(text)
      BY <2>3 DEF Misprinted
    <3> QED BY <2>1, <2>3, <3>1
  <2> QED BY <2>2, <2>3 DEF ReportOK, Reported
<1>3. UNION {Underlined(m) : m \in marked} = {p \in Visible : p < line_started_at}
  <2>1. printed # -1
    BY DEF IsText, Reported
  <2> QED BY <2>1 DEF ReportOK
<1> QED BY <1>1, <1>2, <1>3

-----------------------------------------------------------------------------
(* Where tokens and errors begin                                             *)

\* The rules for errors of encoding match every byte that is not ASCII.
LEMMA ErrorsCover ==
  ASSUME InText, mode \in Modes
  PROVE  /\ Longest({<<{NUL}>>}, pos) <= Winner.len
         /\ Longest({<<248 .. 255>>}, pos) <= Winner.len
         /\ Longest(U_PARTIAL \cup {<<Continuation>>}, pos) <= Winner.len
<1>1. PICK w : w = Winner
  OBVIOUS
<1>2. \A j \in DOMAIN Rules : Rules[j].len <= w.len
  BY <1>1, WinnerTakes DEF Takes
<1>3. \A j \in 1 .. 7 : ErrorRules[j].len <= w.len
  <2> SUFFICES ASSUME NEW j \in 1 .. 7 PROVE ErrorRules[j].len <= w.len
    OBVIOUS
  <2>1. j \in DOMAIN Rules /\ Rules[j] = ErrorRules[j]
    BY RulesAre
  <2> QED BY <1>2, <2>1
<1>4. ErrorRules[1].len <= w.len /\ ErrorRules[2].len <= w.len /\ ErrorRules[3].len <= w.len
  BY <1>3
<1>5. /\ ErrorRules[1].len = Longest({<<{NUL}>>}, pos)
      /\ ErrorRules[2].len = Longest({<<248 .. 255>>}, pos)
      /\ ErrorRules[3].len = Longest(U_PARTIAL \cup {<<Continuation>>}, pos)
  BY DEF ErrorRules, Rule
<1> QED BY <1>1, <1>4, <1>5

LEMMA LeadsArePartial ==
  <<192 .. 223>> \in U_PARTIAL /\ <<224 .. 239>> \in U_PARTIAL /\ <<240 .. 247>> \in U_PARTIAL
<1>1. PICK A, B, C : A = 192 .. 223 /\ B = 224 .. 239 /\ C = 240 .. 247
  OBVIOUS
<1>2. U_PARTIAL = {<<A>>, <<B>>, <<B, Continuation>>, <<C>>, <<C, Continuation>>,
                   <<C, Continuation, Continuation>>}
  BY <1>1 DEF U_PARTIAL
<1>3. PICK a, b, c : a = <<A>> /\ b = <<B>> /\ c = <<C>>
  OBVIOUS
<1>4. a \in U_PARTIAL /\ b \in U_PARTIAL /\ c \in U_PARTIAL
  BY <1>2, <1>3, Zenon
<1> QED BY <1>1, <1>3, <1>4

\* A rule always matches.
LEMMA SomethingTaken ==
  ASSUME InText, pos < Len(text), mode \in Modes
  PROVE  Winner.len \in Nat /\ 1 <= Winner.len
<1>1. PICK w : w = Winner
  OBVIOUS
<1>2. Taken(w) /\ Covers(w) /\ w.len \in Nat
  BY <1>1, WinnerIsTaken, WinnerCovers DEF Taken
<1>3. IsText /\ pos \in Nat /\ Byte(pos) \in Int /\ 0 <= Byte(pos) /\ Byte(pos) <= 255
  BY PlaceIs, ByteIs
<1>4. ASSUME Byte(pos) \in 1 .. 127 PROVE 1 <= w.len
  BY <1>1, <1>2, <1>3, <1>4, SingleTaken
<1>5. ASSUME Byte(pos) = 0 PROVE 1 <= w.len
  <2>1. Byte(pos) \in {NUL}
    BY <1>5 DEF NUL
  <2>2. Longest({<<{NUL}>>}, pos) = 1
    BY <1>3, <2>1, OneByteMatches
  <2> QED BY <1>1, <1>2, <2>2, ErrorsCover
<1>6. ASSUME 248 <= Byte(pos) PROVE 1 <= w.len
  <2>1. PICK D : D = 248 .. 255
    OBVIOUS
  <2>2. Byte(pos) \in D
    BY <1>3, <1>6, <2>1
  <2>3. Longest({<<D>>}, pos) = 1
    BY <1>3, <2>2, OneByteMatches
  <2> QED BY <1>1, <1>2, <2>1, <2>3, ErrorsCover
<1>7. ASSUME NEW D, <<D>> \in U_PARTIAL \cup {<<Continuation>>}, Byte(pos) \in D
      PROVE  1 <= w.len
  <2>1. PICK P : P = U_PARTIAL \cup {<<Continuation>>}
    OBVIOUS
  <2>2. Short(P) /\ <<D>> \in P
    BY <1>7, <2>1, ErrorPatternsShort
  <2>3. Longest(P, pos) \in Nat /\ 1 <= Longest(P, pos)
    BY <1>3, <1>7, <2>2, ByteMatches
  <2> QED BY <1>1, <1>2, <2>1, <2>3, ErrorsCover
<1>8. ASSUME 128 <= Byte(pos), Byte(pos) <= 247 PROVE 1 <= w.len
  <2>1. PICK A, B, C : A = 192 .. 223 /\ B = 224 .. 239 /\ C = 240 .. 247
    OBVIOUS
  <2>2. /\ <<Continuation>> \in U_PARTIAL \cup {<<Continuation>>}
        /\ <<A>> \in U_PARTIAL \cup {<<Continuation>>}
        /\ <<B>> \in U_PARTIAL \cup {<<Continuation>>}
        /\ <<C>> \in U_PARTIAL \cup {<<Continuation>>}
    BY <2>1, LeadsArePartial
  <2>3. Byte(pos) \in Continuation \/ Byte(pos) \in A \/ Byte(pos) \in B \/ Byte(pos) \in C
    <3>1. PICK b : b = Byte(pos)
      OBVIOUS
    <3>2. b \in Int /\ 128 <= b /\ b <= 247
      BY <1>3, <1>8, <3>1
    <3>3. b \in 128 .. 191 \/ b \in 192 .. 223 \/ b \in 224 .. 239 \/ b \in 240 .. 247
      BY <3>2
    <3> QED BY <2>1, <3>1, <3>3, Zenon DEF Continuation
  <2>4. CASE Byte(pos) \in Continuation
    BY <1>7, <2>2, <2>4
  <2>5. CASE Byte(pos) \in A
    BY <1>7, <2>2, <2>5
  <2>6. CASE Byte(pos) \in B
    BY <1>7, <2>2, <2>6
  <2>7. CASE Byte(pos) \in C
    BY <1>7, <2>2, <2>7
  <2> QED BY <2>3, <2>4, <2>5, <2>6, <2>7
<1>9. 1 <= w.len
  <2>1. Byte(pos) = 0 \/ Byte(pos) \in 1 .. 127 \/ (128 <= Byte(pos) /\ Byte(pos) <= 247) \/ 248 <= Byte(pos)
    <3>1. PICK b : b = Byte(pos)
      OBVIOUS
    <3>2. b \in Int /\ 0 <= b
      BY <1>3, <3>1
    <3>3. b = 0 \/ b \in 1 .. 127 \/ (128 <= b /\ b <= 247) \/ 248 <= b
      BY <3>2
    <3> QED BY <3>1, <3>3
  <2> QED BY <1>4, <1>5, <1>6, <1>8, <2>1
<1> QED BY <1>1, <1>2, <1>9

\* No operator begins with the end of a line, and no name.
LEMMA OperatorsAvoidNewline ==
  ASSUME NEW r \in Operators, NEW p, Matches(r, p), p \in Nat
  PROVE  Byte(p) # Newline
<1>1. \/ \E c \in {33, 37, 38, 59, 60, 61, 62, 94, 124} \cup (40 .. 45) \cup {47} : r = <<{c}>>
      \/ \E c \in {38, 60, 62, 124} : r = <<{c}, {c}>>
      \/ r = <<{60}, {61, 62}>> \/ r = <<{33, 62}, {61}>>
  BY Zenon DEF Operators
<1>2. \E A, B : (r = <<A>> \/ r = <<A, B>>) /\ 10 \notin A
  <2>1. CASE \E c \in {33, 37, 38, 59, 60, 61, 62, 94, 124} \cup (40 .. 45) \cup {47} : r = <<{c}>>
    <3>1. PICK c \in {33, 37, 38, 59, 60, 61, 62, 94, 124} \cup (40 .. 45) \cup {47} : r = <<{c}>>
      BY <2>1, Zenon
    <3>2. 10 \notin {c}
      OBVIOUS
    <3> QED BY <3>1, <3>2
  <2>2. CASE \E c \in {38, 60, 62, 124} : r = <<{c}, {c}>>
    <3>1. PICK c \in {38, 60, 62, 124} : r = <<{c}, {c}>>
      BY <2>2, Zenon
    <3>2. 10 \notin {c}
      OBVIOUS
    <3> QED BY <3>1, <3>2
  <2>3. CASE r = <<{60}, {61, 62}>>
    <3>1. 10 \notin {60}
      OBVIOUS
    <3> QED BY <2>3, <3>1
  <2>4. CASE r = <<{33, 62}, {61}>>
    <3>1. 10 \notin {33, 62}
      OBVIOUS
    <3> QED BY <2>4, <3>1
  <2> QED BY <1>1, <2>1, <2>2, <2>3, <2>4
<1>3. PICK A, B : (r = <<A>> \/ r = <<A, B>>) /\ 10 \notin A
  BY <1>2
<1>4. r[1] = A /\ 1 \in DOMAIN r
  BY <1>3
<1>5. text[p + 1] \in A
  BY <1>4 DEF Matches
<1> QED BY <1>3, <1>5 DEF Byte, Newline

LEMMA NamesAvoidNewline ==
  ASSUME IsText
  PROVE  Avoids(NameChar, {Newline})
<1> SUFFICES ASSUME NEW q \in Nat, NEW r \in NameChar, Matches(r, q), NEW i \in q .. (q + Len(r) - 1)
             PROVE  Byte(i) \notin {Newline}
  BY DEF Avoids
<1>1. CASE r \in U_EXTBMP
  <2>1. High(Byte(i))
    BY <1>1, CharactersAreHigh
  <2>2. ~High(Newline)
    BY DEF High, Newline
  <2> QED BY <2>1, <2>2
<1>2. CASE r = <<{36} \cup Digit \cup Letter>>
  <2>1. PICK D : D = {36} \cup Digit \cup Letter
    OBVIOUS
  <2>2. Len(r) = 1
    BY <1>2, Lengths
  <2>3. i = q
    BY <2>2
  <2>4. Byte(q) \in D
    BY <1>2, <2>1, OneByte
  <2>5. Newline \notin D
    BY <2>1 DEF Digit, Letter, Newline
  <2> QED BY <2>3, <2>4, <2>5
<1> QED BY <1>1, <1>2, Zenon DEF NameChar

\* A number with a fraction begins with a digit.
LEMMA FloatBegins ==
  ASSUME InText, Float > 0
  PROVE  Repeated({<<Digit>>}, pos) > 0
<1>1. PICK n : n = Repeated({<<Digit>>}, pos)
  OBVIOUS
<1>2. n \in Nat
  BY <1>1, PlaceIs, RepeatedBytes DEF InText, Bytewise
<1>3. ASSUME n = 0 PROVE Float = 0
  BY <1>1, <1>3 DEF Float
<1> QED BY <1>1, <1>2, <1>3

LEMMA DigitsBegin ==
  ASSUME InText, Repeated({<<Digit>>}, pos) > 0
  PROVE  Byte(pos) \in Digit
<1>1. PICK n : n = Repeated({<<Digit>>}, pos)
  OBVIOUS
<1>2. Bytewise(Digit, pos, n) /\ pos \in Nat
  BY <1>1, PlaceIs, RepeatedBytes DEF InText
<1>3. pos \in pos .. (pos + n - 1)
  BY <1>1, <1>2 DEF Bytewise
<1> QED BY <1>2, <1>3 DEF Bytewise

\* The end of a line is neither an error nor the beginning of a token.
Tokens == {"INT", "FLOAT", "OPERATOR", "IDENTIFIER"}

LEMMA NewlineIsNoToken ==
  ASSUME InText, pos < Len(text), mode \in Modes, NEW w, w = Winner, w.name \in ErrorNames \cup Tokens
  PROVE  Byte(pos) # Newline
<1>1. Taken(w) /\ Covers(w) /\ w.len \in Nat /\ 1 <= w.len
  BY WinnerIsTaken, WinnerCovers, SomethingTaken
<1>2. IsText /\ pos \in Nat /\ pos <= Len(text) /\ Byte(pos) \in Int /\ text \in Seq(0 .. 255)
  BY PlaceIs, ByteIs DEF IsText
<1>3. PICK n : n = w.len
  OBVIOUS
<1>4. ASSUME NEW D, n = Longest({<<D>>}, pos)
      PROVE  Byte(pos) \in D
  <2>1. n \in {0, 1} /\ (n = 1 => Byte(pos) \in D)
    BY <1>2, <1>4, LongestByte
  <2> QED BY <1>1, <1>3, <2>1
<1>5. CASE w.name \in EncodingErrors
  <2>1. NoCharacter(pos)
    BY <1>1, <1>2, <1>5, EncodingErrorIs
  <2>2. ~Single(pos)
    BY <1>2, <2>1, NoCharacterIs
  <2>3. Newline \in 1 .. 127 /\ pos + 1 <= Len(text)
    BY <1>2 DEF Newline, IsText
  <2> QED BY <2>2, <2>3, SingleByte
<1>6. CASE w.name = "LEX_NONBMP_IDENTIFIER"
  <2>1. n = Longest(U_NONBMP, pos)
    BY <1>1, <1>3, <1>6 DEF Taken, IsErrorRule, IsInitialRule, IsQuotedRule, IsStringRule
  <2>2. PICK r \in U_NONBMP : Matches(r, pos)
    BY <1>1, <1>3, <2>1, LongestIs, ErrorPatternsShort
  <2>3. Quadruple(pos)
    BY <1>2, <2>2, NonBMPIs
  <2> QED BY <1>2, <2>3 DEF Quadruple, Newline
<1>7. CASE w.name = "LEX_ILLEGAL_TOKEN"
  <2>1. n = Longest({<<Illegal>>}, pos)
    BY <1>1, <1>3, <1>7 DEF Taken, IsErrorRule, IsInitialRule, IsQuotedRule, IsStringRule
  <2>2. Byte(pos) \in Illegal
    BY <1>4, <2>1
  <2>3. Byte(pos) \notin Space
    BY <2>2, Zenon DEF Illegal
  <2> QED BY <2>3 DEF Space, Newline
<1>8. CASE w.name = "LEX_INCOMPLETE_ESCAPE_SEQUENCE_IN_SINGLE_QUOTED_STRING"
  <2>1. n = Longest({<<{Backslash}>>}, pos)
    BY <1>1, <1>3, <1>8 DEF Taken, IsErrorRule, IsInitialRule, IsQuotedRule, IsStringRule
  <2>2. Byte(pos) \in {Backslash}
    BY <1>4, <2>1
  <2> QED BY <2>2 DEF Backslash, Newline
<1>9. CASE w.name \in {"INT", "FLOAT"}
  <2>1. n = Float \/ n = Repeated({<<Digit>>}, pos)
    BY <1>1, <1>3, <1>9 DEF Taken, IsErrorRule, IsInitialRule, IsQuotedRule, IsStringRule
  <2>2. Repeated({<<Digit>>}, pos) > 0
    BY <1>1, <1>3, <2>1, FloatBegins
  <2>3. Byte(pos) \in Digit
    BY <2>2, DigitsBegin
  <2> QED BY <2>3 DEF Digit, Newline
<1>10. CASE w.name = "OPERATOR"
  <2>1. n = Longest(Operators, pos)
    BY <1>1, <1>3, <1>10 DEF Taken, IsErrorRule, IsInitialRule, IsQuotedRule, IsStringRule
  <2>2. PICK r \in Operators : Matches(r, pos)
    BY <1>1, <1>3, <2>1, LongestIs, NamePatternsShort
  <2> QED BY <1>2, <2>2, OperatorsAvoidNewline
<1>11. CASE w.name = "IDENTIFIER"
  <2>1. n = Repeated(NameChar, pos)
    BY <1>1, <1>3, <1>11 DEF Taken, IsErrorRule, IsInitialRule, IsQuotedRule, IsStringRule
  <2>2. \A i \in pos .. (pos + n - 1) : Byte(i) \notin {Newline}
    BY <1>2, <2>1, NamesAvoidNewline, NamePatternsShort, RepeatedAvoids
  <2>3. pos \in pos .. (pos + n - 1)
    BY <1>1, <1>2, <1>3
  <2> QED BY <2>2, <2>3
<1> QED BY <1>5, <1>6, <1>7, <1>8, <1>9, <1>10, <1>11 DEF ErrorNames, Tokens

-----------------------------------------------------------------------------
(* The place of an error                                                     *)

\* No token begins with the end of a line, and what is an error can be underlined.
PlaceOK ==
  /\ token \notin {"NONE", "ERR", "END"} => Byte(yylloc.begin) # Newline
  /\ err.state # "NONE" => Underlinable

\* An error from b to e.
LEMMA PlaceIsUnderlinable ==
  ASSUME IsText, UNCHANGED text, NEW b \in Nat, NEW e \in Nat, b < e, e <= Len(text), Byte(b) # Newline,
         err'.pos = b, err'.len = e - b
  PROVE  Underlinable'
<1>1. Len(text) \in Nat
  BY DEF IsText
<1>2. Stop' = e
  <2>1. PICK n : n = e - b
    OBVIOUS
  <2>2. b + n = e
    BY <2>1
  <2> QED BY <2>1, <2>2 DEF Stop
<1>3. (Char(err.pos))' # NL
  <2>1. b < Len(text)
    BY <1>1
  <2> QED BY <2>1 DEF Char, Byte, NL, Newline
<1> QED BY <1>1, <1>2, <1>3 DEF Underlinable

LEMMA PlaceStays ==
  ASSUME UNCHANGED <<text, err>>, Underlinable
  PROVE  Underlinable'
<1>1. (Char(err.pos))' = Char(err.pos) /\ Stop' = Stop
  BY DEF Char, Stop
<1> QED BY <1>1 DEF Underlinable

LEMMA PlaceNext ==
  ASSUME PlaceOK, UNCHANGED text, err' = err \/ Underlinable', NEW b, b = yylloc'.begin,
         token' \in {"NONE", "ERR", "END"} \/ Byte(b) # Newline
  PROVE  PlaceOK'
<1>1. (Byte(yylloc.begin))' = Byte(b)
  BY DEF Byte
<1>2. CASE err' = err
  <2>1. err.state # "NONE" => Underlinable'
    BY <1>2, PlaceStays DEF PlaceOK
  <2>2. err'.state = err.state
    BY <1>2
  <2>3. Newline' = Newline
    BY DEF Newline
  <2> QED BY <1>1, <2>1, <2>2, <2>3 DEF PlaceOK
<1>3. CASE Underlinable'
  BY <1>1, <1>3 DEF PlaceOK, Newline
<1> QED BY <1>2, <1>3

\* What a rule has matched.
LEMMA ReadKeepsPlace ==
  ASSUME LexOK, PlaceOK, Read
  PROVE  PlaceOK'
<1>1. PICK w : w = Winner
  OBVIOUS
<1>2. InText /\ mode \in Modes /\ IsText
  BY TextIs, PlaceIs DEF LexOK, TypesOK
<1>3. Taken(w)
  BY <1>1, <1>2, WinnerIsTaken
<1>4. /\ Reads(w)
      /\ \/ MatchError(w) \/ Skip(w) \/ MatchNumber(w) \/ MatchOperator(w)
         \/ MatchWord(w) \/ MatchIdentifier(w)
         \/ Open(w) \/ Concatenate(w) \/ Close(w)
  BY <1>1, <1>3 DEF Read, Reads
<1>5. PICK b, n : b = pos /\ n = w.len
  OBVIOUS
<1>6. /\ n \in Nat /\ b \in Nat /\ Len(text) \in Nat /\ b < Len(text) /\ n <= Len(text) - b
      /\ text' = text /\ token = "NONE" /\ yylloc \in Locations /\ err.state = "NONE"
  BY <1>4, <1>5, ReadsOn
<1>7. /\ 1 <= n
      /\ w.name \in ErrorNames \cup Tokens => Byte(b) # Newline
  <2>1. pos < Len(text)
    BY <1>5, <1>6
  <2>2. 1 <= n
    BY <1>1, <1>2, <1>5, <2>1, SomethingTaken
  <2>3. w.name \in ErrorNames \cup Tokens => Byte(b) # Newline
    BY <1>1, <1>2, <1>5, <2>1, NewlineIsNoToken
  <2> QED BY <2>2, <2>3
<1>8. here(w).begin = b /\ here(w).end = b + n
  BY <1>5 DEF here, Location
<1>9. PICK e : e = b + n
  OBVIOUS
<1>10. e \in Nat /\ b < e /\ e <= Len(text)
  BY <1>6, <1>7, <1>9
<1>11. \A state, loc : set_err_state(state, loc) =>
         err' = [state |-> state, pos |-> loc.begin, len |-> loc.end - loc.begin]
  BY <1>6 DEF set_err_state
<1>12. ASSUME NEW state, set_err_state(state, here(w)), Byte(b) # Newline
       PROVE  Underlinable'
  <2>1. err' = [state |-> state, pos |-> b, len |-> e - b]
    BY <1>8, <1>9, <1>11, <1>12
  <2>2. err'.pos = b /\ err'.len = e - b
    BY <2>1
  <2> QED BY <1>2, <1>6, <1>10, <1>12, <2>2, PlaceIsUnderlinable
<1>13. PICK c : c = yylloc'.begin
  OBVIOUS
<1>14. CASE MatchError(w)
  <2>1. w.name \in ErrorNames /\ set_err_state(w.name, here(w)) /\ token' = "ERR"
    BY <1>14 DEF MatchError, ReturnError
  <2>2. Underlinable'
    BY <1>7, <1>12, <2>1
  <2> QED BY <1>6, <1>13, <2>1, <2>2, PlaceNext
<1>15. CASE Skip(w) \/ MatchWord(w) \/ Open(w) \/ Concatenate(w)
  <2>1. token' = "NONE" /\ err' = err
    BY <1>15 DEF Skip, MatchWord, Open, Concatenate, Return
  <2> QED BY <1>6, <1>13, <2>1, PlaceNext
<1>16. CASE MatchNumber(w) \/ MatchOperator(w)
  <2>1. err' = err /\ yylloc' = here(w) /\ w.name \in Tokens
    BY <1>16 DEF MatchNumber, MatchOperator, Return, Tokens
  <2>2. c = b
    BY <1>8, <1>13, <2>1
  <2> QED BY <1>6, <1>7, <1>13, <2>1, <2>2, PlaceNext
<1>17. CASE MatchIdentifier(w)
  <2>1. /\ yylloc' = here(w) /\ w.name \in Tokens
        /\ err' = err \/ set_err_state("LEX_TOO_LONG_IDENTIFIER", here(w))
    BY <1>17 DEF MatchIdentifier, Return, ReturnError, Tokens
  <2>2. c = b
    BY <1>8, <1>13, <2>1
  <2>3. Byte(b) # Newline
    BY <1>7, <2>1
  <2>4. err' = err \/ Underlinable'
    BY <1>12, <2>1, <2>3
  <2> QED BY <1>6, <1>13, <2>2, <2>3, <2>4, PlaceNext
<1>18. CASE Close(w)
  <2>1. /\ w.name = "CLOSE" /\ yylloc' = [yylloc EXCEPT !.end = pos + 1]
        /\ err' = err \/ set_err_state("LEX_TOO_LONG_IDENTIFIER", yylloc')
    BY <1>18 DEF Close, Return, ReturnError
  <2>2. mode # "INITIAL"
    BY <1>3, <2>1 DEF Taken, IsErrorRule, IsInitialRule
  <2>3. PICK q : q = yylloc.begin
    OBVIOUS
  <2>4. q \in Nat /\ q < b /\ Byte(q) # Newline
    <3>1. q \in 0 .. (b - 1) /\ Byte(q) \in {Backtick, Apostrophe}
      BY <1>5, <1>6, <2>2, <2>3 DEF LexOK, QuoteOK
    <3> QED BY <1>6, <3>1 DEF Backtick, Apostrophe, Newline
  <2>5. yylloc'.begin = q /\ yylloc'.end = b + 1
    BY <1>5, <1>6, <2>1, <2>3 DEF Locations
  <2>6. ASSUME set_err_state("LEX_TOO_LONG_IDENTIFIER", yylloc') PROVE Underlinable'
    <3>1. PICK f : f = b + 1
      OBVIOUS
    <3>2. err' = [state |-> "LEX_TOO_LONG_IDENTIFIER", pos |-> q, len |-> f - q]
      BY <1>11, <2>5, <2>6, <3>1
    <3>3. err'.pos = q /\ err'.len = f - q /\ f \in Nat /\ q < f /\ f <= Len(text)
      BY <1>6, <2>4, <3>1, <3>2
    <3> QED BY <1>2, <1>6, <2>4, <3>3, PlaceIsUnderlinable
  <2>7. c = q
    BY <1>13, <2>5
  <2> QED BY <1>6, <1>13, <2>1, <2>4, <2>6, <2>7, PlaceNext
<1> QED BY <1>4, <1>14, <1>15, <1>16, <1>17, <1>18

\* A word that has been looked up.
LEMMA WordFoundKeepsPlace ==
  ASSUME LexOK, PlaceOK, WordFound
  PROVE  PlaceOK'
<1>1. IsText /\ pos \in Nat /\ pos <= Len(text)
  BY TextIs, PlaceIs DEF LexOK
<1>2. /\ outcome # "none" /\ UNCHANGED <<text, yylloc>>
      /\ err' = err \/ set_err_state("LEX_UNIMPLEMENTED_KEYWORD", yylloc)
  BY DEF WordFound, Return, ReturnError
<1>3. /\ token = "NONE" /\ verdict = "none" /\ yylloc.end = pos /\ yylloc.begin \in 0 .. (pos - 1)
      /\ \A i \in yylloc.begin .. (pos - 1) : Byte(i) \in Letter
  BY <1>2 DEF LexOK, WordOK
<1>4. PICK b, e : b = yylloc.begin /\ e = pos
  OBVIOUS
<1>5. b \in Nat /\ e \in Nat /\ b < e /\ e <= Len(text) /\ b = yylloc'.begin
  BY <1>1, <1>2, <1>3, <1>4
<1>6. Byte(b) # Newline
  <2>1. b \in b .. (e - 1)
    BY <1>5
  <2>2. Byte(b) \in Letter
    BY <1>3, <1>4, <2>1
  <2> QED BY <2>2 DEF Letter, Newline
<1>7. ASSUME set_err_state("LEX_UNIMPLEMENTED_KEYWORD", yylloc) PROVE Underlinable'
  <2>1. err' = [state |-> "LEX_UNIMPLEMENTED_KEYWORD", pos |-> b, len |-> e - b]
    BY <1>3, <1>4, <1>7, NoErrorYet
  <2>2. err'.pos = b /\ err'.len = e - b
    BY <2>1
  <2> QED BY <1>1, <1>2, <1>5, <1>6, <2>2, PlaceIsUnderlinable
<1> QED BY <1>2, <1>5, <1>6, <1>7, PlaceNext

\* At the end of the text what is in quotes is an error from the quote on.
LEMMA ReadEndKeepsPlace ==
  ASSUME LexOK, PlaceOK, ReadEnd
  PROVE  PlaceOK'
<1>1. IsText /\ pos \in Nat /\ pos <= Len(text) /\ yylloc \in Locations
  BY TextIs, PlaceIs DEF LexOK, TypesOK
<1>2. UNCHANGED text /\ token = "NONE" /\ verdict = "none" /\ token' \in {"END", "ERR"}
  BY DEF ReadEnd, Reading, Return, ReturnError
<1>3. PICK b, e : b = yylloc.begin /\ e = pos
  OBVIOUS
<1>4. CASE mode = "INITIAL"
  <2>1. err' = err
    BY <1>4 DEF ReadEnd, Return
  <2> QED BY <1>2, <2>1, PlaceNext
<1>5. CASE mode # "INITIAL"
  <2>1. PICK loc : loc = yylloc'
    OBVIOUS
  <2>2. /\ loc = [yylloc EXCEPT !.end = pos]
        /\ \/ set_err_state("LEX_UNEXPECTED_EOI_IN_QUOTED_IDENTIFIER", loc)
           \/ set_err_state("LEX_UNEXPECTED_EOI_IN_SINGLE_QUOTED_STRING", loc)
    BY <1>5, <2>1 DEF ReadEnd, ReturnError
  <2>3. loc.begin = b /\ loc.end = e
    BY <1>1, <1>3, <2>2 DEF Locations
  <2>4. b \in 0 .. (e - 1) /\ Byte(b) \in {Backtick, Apostrophe}
    BY <1>2, <1>3, <1>5 DEF LexOK, QuoteOK
  <2>5. b \in Nat /\ e \in Nat /\ b < e /\ e <= Len(text) /\ Byte(b) # Newline
    BY <1>1, <1>3, <2>4 DEF Backtick, Apostrophe, Newline
  <2>6. err'.pos = b /\ err'.len = e - b
    <3>1. \E state : err' = [state |-> state, pos |-> loc.begin, len |-> loc.end - loc.begin]
      BY <1>2, <2>2, NoErrorYet
    <3> QED BY <2>3, <3>1
  <2>7. Underlinable'
    BY <1>1, <1>2, <2>5, <2>6, PlaceIsUnderlinable
  <2> QED BY <1>2, <2>7, PlaceNext
<1> QED BY <1>4, <1>5

\* What the parser refuses: nothing more behind an error of the lexer, the end of
\* the text, or a token.
LEMMA RefuseKeepsPlace ==
  ASSUME LexOK, PlaceOK, Refuse
  PROVE  PlaceOK'
<1>1. /\ IsText /\ pos \in Nat /\ pos <= Len(text) /\ Len(text) \in Nat
      /\ yylloc \in Locations /\ yytext \in Locations /\ yylloc.end <= pos
  BY TextIs, PlaceIs DEF LexOK, TypesOK, IsText
<1>2. /\ UNCHANGED <<text, token, yylloc>>
      /\ token # "NONE" /\ verdict = "none" /\ failed = "none" /\ rsqlp_error
  BY DEF Refuse, Parsing
<1>3. PICK b : b = yylloc.begin
  OBVIOUS
<1>4. token \in {"NONE", "ERR", "END"} \/ Byte(b) # Newline
  BY <1>3 DEF PlaceOK
<1>5. err' = err \/ set_err_state("PARSER_ERROR", ErrorLocation)
  BY <1>2 DEF rsqlp_error
<1>6. CASE token = "ERR"
  <2>1. err.state # "NONE"
    BY <1>6 DEF LexOK, ErrorOK
  <2>2. err' = err
    BY <1>5, <2>1 DEF set_err_state
  <2> QED BY <1>2, <1>3, <1>4, <2>2, PlaceNext
<1>7. ASSUME token # "ERR", set_err_state("PARSER_ERROR", ErrorLocation) PROVE Underlinable'
  <2>1. err' = [state |-> "PARSER_ERROR", pos |-> ErrorLocation.begin,
                len |-> ErrorLocation.end - ErrorLocation.begin]
    BY <1>2, <1>7, NoErrorYet
  <2>2. CASE token = "END"
    <3>1. pos = Len(text) /\ yytext = Location(pos, pos + 1)
      BY <2>2 DEF LexOK, TokenOK
    <3>2. yytext.begin = pos /\ yytext.end = pos + 1 /\ yylloc.end \in Int
      BY <1>1, <3>1 DEF Location, Locations
    <3>3. ErrorLocation = yytext
      BY <1>1, <3>2 DEF ErrorLocation
    <3>4. PICK n : n = Len(text)
      OBVIOUS
    <3>5. err'.pos = n /\ err'.len = 1 /\ n \in Nat
      BY <1>1, <2>1, <3>1, <3>2, <3>3, <3>4
    <3>6. (Char(err.pos))' = 0
      BY <1>2, <3>4, <3>5 DEF Char
    <3>7. Stop' = n + 1
      BY <3>5 DEF Stop
    <3> QED BY <1>2, <3>4, <3>5, <3>6, <3>7 DEF Underlinable, NL
  <2>3. CASE token # "END"
    <3>1. yylloc.end = pos /\ yytext.end = pos /\ yylloc.begin \in 0 .. (pos - 1)
      BY <1>2, <1>7, <2>3 DEF LexOK, TokenOK
    <3>2. ErrorLocation = yylloc
      BY <3>1 DEF ErrorLocation
    <3>3. PICK e : e = pos
      OBVIOUS
    <3>4. err'.pos = b /\ err'.len = e - b
      BY <1>3, <2>1, <3>1, <3>2, <3>3
    <3>5. b \in Nat /\ e \in Nat /\ b < e /\ e <= Len(text) /\ Byte(b) # Newline
      BY <1>1, <1>2, <1>3, <1>4, <1>7, <2>3, <3>1, <3>3
    <3> QED BY <1>1, <1>2, <3>4, <3>5, PlaceIsUnderlinable
  <2> QED BY <2>2, <2>3
<1>8. CASE token # "ERR"
  <2>1. err' = err \/ Underlinable'
    BY <1>5, <1>7, <1>8
  <2> QED BY <1>2, <1>3, <1>4, <2>1, PlaceNext
<1> QED BY <1>6, <1>8

\* An output begins with a token.
OutputBegins == output.begin # -1 => Byte(output.begin) # Newline

\* What the parser gives up is an output.
LEMMA GiveUpOutputKeepsPlace ==
  ASSUME LexOK, OutputOK, PlaceOK, OutputBegins, GiveUpOutput
  PROVE  PlaceOK'
<1>1. /\ IsText /\ pos \in Nat /\ pos <= Len(text) /\ Len(text) \in Nat
  BY TextIs, PlaceIs DEF LexOK, IsText
<1>2. /\ UNCHANGED <<text, token, yylloc>> /\ output.end - output.begin > MaxName
      /\ set_err_state("TOO_LONG_UNALIASED_OUTPUT", output)
  BY DEF GiveUpOutput
<1>3. PICK b : b = yylloc.begin
  OBVIOUS
<1>4. token \in {"NONE", "ERR", "END"} \/ Byte(b) # Newline
  BY <1>3 DEF PlaceOK
<1>5. PICK c, e : c = output.begin /\ e = output.end
  OBVIOUS
<1>6. c \in Nat /\ e \in Nat /\ c < e /\ e <= Len(text) /\ Byte(c) # Newline
  <2>1. c \in Int /\ e \in Int /\ e <= pos /\ ((c = -1 /\ e = -1) \/ (0 <= c /\ c < e))
    BY <1>5 DEF OutputOK, Locations
  <2>2. e - c > MaxName /\ MaxName \in Nat
    BY <1>2, <1>5, LimitsAssumption
  <2>3. c # -1
    BY <2>1, <2>2
  <2> QED BY <1>1, <1>5, <2>1, <2>3 DEF OutputBegins
<1>7. CASE err.state = "NONE"
  <2>1. err'.pos = c /\ err'.len = e - c
    BY <1>2, <1>5, <1>7 DEF set_err_state
  <2>2. Underlinable'
    BY <1>1, <1>2, <1>6, <2>1, PlaceIsUnderlinable
  <2> QED BY <1>2, <1>3, <1>4, <2>2, PlaceNext
<1>8. CASE err.state # "NONE"
  <2>1. err' = err
    BY <1>2, <1>8 DEF set_err_state
  <2> QED BY <1>2, <1>3, <1>4, <2>1, PlaceNext
<1> QED BY <1>7, <1>8

LEMMA OutputBeginsKeeps ==
  ASSUME LexOK, OutputOK, PlaceOK, OutputBegins, [DiagNext]_diagVars
  PROVE  OutputBegins'
<1>1. text' = text
  BY DEF DiagNext, LexerStep, LexerNext, Read, Search, WordFound, ReadEnd, Proceed, Refuse, GiveUpOutput,
         Accept, Report, PrintStep, diagVars, lexerVars
<1>2. CASE Proceed
  <2>1. PICK b \in {output.begin, yylloc.begin} \ {-1} : output' = Location(b, yylloc.end)
    BY <1>2 DEF Proceed
  <2>2. output'.begin = b
    BY <2>1 DEF Location
  <2>3. Byte(b) # Newline
    <3>1. CASE b = output.begin
      BY <2>1, <3>1 DEF OutputBegins
    <3>2. CASE b = yylloc.begin
      BY <1>2, <3>2 DEF PlaceOK, Proceed, Parsing
    <3> QED BY <2>1, <3>1, <3>2
  <2>4. (Byte(output.begin))' = Byte(b)
    BY <1>1, <2>2 DEF Byte
  <2> QED BY <2>3, <2>4 DEF OutputBegins, Newline
<1>3. CASE output' = output
  <2>1. (Byte(output.begin))' = Byte(output.begin)
    BY <1>1, <1>3 DEF Byte
  <2> QED BY <1>3, <2>1 DEF OutputBegins, Newline
<1>4. Proceed \/ output' = output
  BY DEF DiagNext, LexerStep, LexerNext, Read, Search, WordFound, ReadEnd, Refuse, GiveUpOutput,
         Accept, Report, PrintStep, diagVars, lexerVars
<1> QED BY <1>2, <1>3, <1>4

\* The report begins when the parser has refused the text or given it up.
UnderlineOK ==
  /\ PlaceOK /\ OutputBegins /\ ReportOK
  /\ printed # -1 => verdict \in {"refused", "too_long"}

LEMMA LexerKeepsPlace ==
  ASSUME LexOK, OutputOK, PlaceOK, OutputBegins, LexerNext
  PROVE  PlaceOK'
<1>1. CASE Read
  BY <1>1, ReadKeepsPlace
<1>2. CASE WordFound
  BY <1>2, WordFoundKeepsPlace
<1>3. CASE ReadEnd
  BY <1>3, ReadEndKeepsPlace
<1>4. CASE Refuse
  BY <1>4, RefuseKeepsPlace
<1>5. CASE Search \/ Accept \/ Proceed
  <2>1. UNCHANGED <<text, err, yylloc>> /\ (token' = token \/ token' = "NONE")
    BY <1>5 DEF Search, Accept, Proceed, errorVars, lexerVars
  <2>2. PICK b : b = yylloc.begin
    OBVIOUS
  <2>3. token' \in {"NONE", "ERR", "END"} \/ Byte(b) # Newline
    BY <2>1, <2>2 DEF PlaceOK
  <2> QED BY <2>1, <2>2, <2>3, PlaceNext
<1>6. CASE GiveUpOutput
  BY <1>6, GiveUpOutputKeepsPlace
<1> QED BY <1>1, <1>2, <1>3, <1>4, <1>5, <1>6 DEF LexerNext

\* The lexer stands still when the report is printed.
LEMMA LexerIsDone ==
  ASSUME LexOK, LexerNext
  PROVE  verdict = "none"
<1>1. CASE Search
  <2>1. outcome # "none"
    BY <1>1 DEF Search, SearchStep, LookLeft, LookRight, Searching, Found, NextTable, NotFound
  <2> QED BY <2>1 DEF LexOK, WordOK
<1>2. CASE WordFound
  <2>1. outcome # "none"
    BY <1>2 DEF WordFound
  <2> QED BY <2>1 DEF LexOK, WordOK
<1>3. CASE Read \/ ReadEnd \/ Proceed \/ Refuse \/ GiveUpOutput \/ Accept
  BY <1>3 DEF Read, ReadEnd, Reading, Proceed, Refuse, GiveUpOutput, Accept, Parsing
<1> QED BY <1>1, <1>2, <1>3 DEF LexerNext

LEMMA UnderlineKeeps ==
  LexOK /\ LexOK' /\ OutputOK /\ UnderlineOK /\ [DiagNext]_diagVars => UnderlineOK'
<1> SUFFICES ASSUME LexOK, LexOK', OutputOK, UnderlineOK, [DiagNext]_diagVars PROVE UnderlineOK'
  OBVIOUS
<1>1. IsText
  BY TextIs, PlaceIs DEF LexOK
<1>2. IsText'
  <2>1. text' \in Texts
    BY DEF LexOK, TypesOK
  <2> QED BY <2>1, TextsAssumption DEF IsText
<1>3. ASSUME UNCHANGED <<text, err, token, yylloc>>
      PROVE  PlaceOK'
  <2>1. PICK b : b = yylloc.begin
    OBVIOUS
  <2>2. token' \in {"NONE", "ERR", "END"} \/ Byte(b) # Newline
    BY <1>3, <2>1 DEF UnderlineOK, PlaceOK
  <2> QED BY <1>3, <2>1, <2>2, PlaceNext DEF UnderlineOK
<1>4. OutputBegins'
  BY OutputBeginsKeeps DEF UnderlineOK
<1>5. CASE LexerStep
  <2>1. verdict = "none" /\ UNCHANGED reportVars
    BY <1>5, LexerIsDone DEF LexerStep
  <2>2. printed = -1 /\ printed' = -1
    BY <2>1 DEF UnderlineOK, reportVars
  <2>3. ReportOK'
    BY <1>2, <2>1, <2>2, NoReportYet DEF UnderlineOK
  <2>4. PlaceOK'
    BY <1>5, LexerKeepsPlace DEF LexerStep, UnderlineOK
  <2> QED BY <1>4, <2>2, <2>3, <2>4 DEF UnderlineOK
<1>6. CASE Report \/ PrintStep
  <2>1. UNCHANGED <<text, err, token, yylloc, verdict>>
    BY <1>6 DEF Report, PrintStep, errorVars, lexerVars
  <2>2. verdict \in {"refused", "too_long"}
    <3>1. CASE Report
      BY <3>1 DEF Report
    <3>2. CASE PrintStep
      <4>1. printed # -1
        BY <3>2 DEF PrintStep, PrintByte
      <4> QED BY <4>1 DEF UnderlineOK
    <3> QED BY <1>6, <3>1, <3>2
  <2>3. Underlinable
    BY <2>2 DEF LexOK, ErrorOK, UnderlineOK, PlaceOK
  <2>4. ReportOK'
    <3>1. CASE BeginReport
      BY <1>1, <2>1, <2>3, <3>1, ReportStarts DEF UnderlineOK
    <3>2. CASE UNCHANGED reportVars
      BY <2>1, <3>2, ReportStays DEF UnderlineOK
    <3>3. CASE PrintByte
      BY <1>1, <2>1, <2>3, <3>3, PrintKeeps DEF UnderlineOK
    <3> QED BY <1>6, <3>1, <3>2, <3>3 DEF Report, PrintStep
  <2> QED BY <1>3, <1>4, <2>1, <2>2, <2>4 DEF UnderlineOK
<1>7. CASE UNCHANGED diagVars
  <2>1. UNCHANGED <<text, err, token, yylloc, verdict, printed, reportVars>>
    BY <1>7 DEF diagVars, errorVars, lexerVars, reportVars
  <2>2. ReportOK'
    BY <2>1, ReportStays DEF UnderlineOK
  <2> QED BY <1>3, <1>4, <2>1, <2>2 DEF UnderlineOK
<1> QED BY <1>5, <1>6, <1>7 DEF DiagNext

LEMMA UnderlineBegins == DiagInit => UnderlineOK
<1> SUFFICES ASSUME DiagInit PROVE UnderlineOK
  OBVIOUS
<1>1. /\ token = "NONE" /\ err.state = "NONE" /\ text \in Seq(0 .. 255)
      /\ printed = -1 /\ line_started_at = 0 /\ line = {} /\ marked = {}
  BY TextsAssumption DEF DiagInit, LexerInit, ErrorsInit, ReportInit
<1>2. Len(text) \in Nat
  BY <1>1
<1>3. output.begin = -1
  BY DEF DiagInit, LexerInit, Location
<1> QED BY <1>1, <1>2, <1>3 DEF UnderlineOK, PlaceOK, OutputBegins, ReportOK

\* The rows of carets below the printed statement are below the characters of the
\* error and below nothing else: for every text that is refused, whichever rule or
\* token the error comes from, on however many lines it is, and whatever characters
\* of several bytes stand before it; but for what is named in Misprinted.
THEOREM ErrorIsAlwaysUnderlined == DiagSpec => []ErrorIsUnderlined
<1>1. LexOK /\ UnderlineOK => ErrorIsUnderlined
  <2> SUFFICES ASSUME LexOK, UnderlineOK PROVE ErrorIsUnderlined
    OBVIOUS
  <2>1. IsText
    BY TextIs, PlaceIs DEF LexOK
  <2>2. Reported => Underlinable
    <3> SUFFICES ASSUME Reported PROVE Underlinable
      OBVIOUS
    <3>1. printed # -1
      BY <2>1 DEF Reported, IsText
    <3> QED BY <3>1 DEF UnderlineOK, PlaceOK, LexOK, ErrorOK
  <2> QED BY <2>1, <2>2, ReportIsExact DEF UnderlineOK
<1> QED BY <1>1, DiagnosticsBegin, DiagnosticsKeep, UnderlineBegins, UnderlineKeeps, PTL DEF DiagSpec

=============================================================================
