---------------------------- MODULE KeywordSearch ----------------------------
(* The lexer looks a word up in two sorted tables, keywords_implemented_in_  *)
(* rest_sql and keywords_defined_in_mysql, one comparison at a time.  A word *)
(* is its place in the order of strcmp.                                      *)
EXTENDS Integers, Sequences

CONSTANTS
  Implemented,   \* keywords_implemented_in_rest_sql
  Defined        \* keywords_defined_in_mysql

Sorted(table) == \A i, j \in DOMAIN table : i < j => table[i] < table[j]

\* What KeywordsUnitTest.cpp checks of the tables.
ASSUME KeywordTables ==
  /\ Implemented \in Seq(Nat) /\ Sorted(Implemented)
  /\ Defined \in Seq(Nat) /\ Sorted(Defined)

VARIABLES
  sought,      \* cword
  list,        \* the table being searched, "implemented" or "defined"
  low, high,   \* what is left of it, counted from zero
  outcome      \* "searching", or what the word turned out to be, or "none"

searchVars == <<sought, list, low, high, outcome>>

SearchInit ==
  sought = 0 /\ list = "implemented" /\ low = 0 /\ high = -1 /\ outcome = "none"

Begin(word) ==
  /\ sought' = word
  /\ list' = "implemented" /\ low' = 0 /\ high' = Len(Implemented) - 1
  /\ outcome' = "searching"

Table == IF list = "implemented" THEN Implemented ELSE Defined
mid == (low + high) \div 2
Middle == Table[mid + 1]

Searching == outcome = "searching" /\ low <= high

\* Mutant of LookLeft: the middle is skipped with one word too many.
LookLeftTooFar ==
  /\ Searching /\ sought < Middle
  /\ high' = mid - 2
  /\ UNCHANGED <<sought, list, low, outcome>>

LookLeft ==
  /\ Searching /\ sought < Middle
  /\ high' = mid - 1
  /\ UNCHANGED <<sought, list, low, outcome>>

LookRight ==
  /\ Searching /\ sought > Middle
  /\ low' = mid + 1
  /\ UNCHANGED <<sought, list, high, outcome>>

Found ==
  /\ Searching /\ sought = Middle
  /\ outcome' = IF list = "implemented" THEN "keyword" ELSE "unimplemented"
  /\ UNCHANGED <<sought, list, low, high>>

\* The word is not in the first table: the second one is searched.
NextTable ==
  /\ outcome = "searching" /\ low > high /\ list = "implemented"
  /\ list' = "defined" /\ low' = 0 /\ high' = Len(Defined) - 1
  /\ UNCHANGED <<sought, outcome>>

NotFound ==
  /\ outcome = "searching" /\ low > high /\ list = "defined"
  /\ outcome' = "identifier"
  /\ UNCHANGED <<sought, list, low, high>>

SearchStep == LookLeft \/ LookRight \/ Found \/ NextTable \/ NotFound

SearchNext == SearchStep \/ \E word \in Nat : outcome # "searching" /\ Begin(word)
SearchSpec == SearchInit /\ [][SearchNext]_searchVars

-----------------------------------------------------------------------------
(* Properties                                                                *)

Words(table) == {table[i] : i \in DOMAIN table}

\* Halving finds every word that is in a table and no other one, at the ends of
\* the tables too, and a word of both is found in the first.
SearchIsExact ==
  /\ outcome = "keyword" => sought \in Words(Implemented)
  /\ outcome = "unimplemented" => sought \in Words(Defined) \ Words(Implemented)
  /\ outcome = "identifier" => sought \notin Words(Implemented) \cup Words(Defined)

=============================================================================
