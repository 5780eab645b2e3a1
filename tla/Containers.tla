----------------------------- MODULE Containers -----------------------------
(* What lives in one arena while a statement is prepared: strings that       *)
(* LexString::concat builds (LexString.cpp), nodes of the syntax tree        *)
(* (RestSQLParser.y) and a dynamic array (DynamicArray.hpp) with the copy    *)
(* that dead_code_elimination takes before it truncates the array.           *)
(*                                                                           *)
(* Every string and node carries `text', every array `items': what was put   *)
(* in, to compare with what the memory holds.  They are no part of the code. *)
EXTENDS ArenaAllocator, FiniteSets

CONSTANTS
  Nodes,             \* what is allocated besides strings, as sequences
  Items,             \* what is pushed to the arrays
  ItemsPerPage,      \* ITEMS_PER_PAGE
  InitialCapacity,   \* INITIAL_PAGES_CAPACITY
  MaxTexts,          \* bound on the number of strings and nodes
  MaxLen,            \* bound on the length of a string
  MaxItems           \* bound on the number of items of an array

ASSUME ArrayAssumption ==
  {ItemsPerPage, InitialCapacity} \subseteq Nat \ {0}
ASSUME ContentAssumption == Nodes \subseteq Seq(Cells) /\ Items \subseteq Cells

VARIABLES
  arena,     \* the allocator
  texts,     \* the strings and nodes the program holds, in order of creation
  array,     \* an array, e.g. m_program
  old        \* its copy, e.g. old_program

vars == <<arena, texts, array, old>>

Text(ptr, len, text) == [str |-> ptr, len |-> len, text |-> text]
NullString == Text(NULL, 0, <<>>)

EmptyArray == [pages |-> NULL, item_count |-> 0, pages_capacity |-> 0, items |-> <<>>]

Init ==
  /\ arena = NewArena
  /\ texts = <<NullString>>
  /\ array = EmptyArray
  /\ old = EmptyArray

-----------------------------------------------------------------------------
(* Strings and nodes                                                         *)

\* A call of the allocator with result `new': on success the caller goes on
\* with the arena `after', otherwise the exception leaves all else alone.
Finish(new, after) == arena' = IF new.ptr = NULL THEN new.arena ELSE after

\* A token of the lexer points into the SQL buffer.
Token(offset, len) ==
  /\ Len(texts) < MaxTexts
  /\ texts' = Append(texts, Text(<<0, offset>>, len, SubSeq(Sql, offset + 1, offset + len)))
  /\ UNCHANGED <<arena, array, old>>

\* initptr in a grammar action, or Load(const char*): allocate and fill in.
NewNode(cells, out_of_memory) ==
  /\ Len(texts) < MaxTexts
  /\ LET new == Alloc(arena, Len(cells), out_of_memory)
     IN  /\ Finish(new, Write(new.arena, new.ptr, cells))
         /\ texts' = IF new.ptr = NULL THEN texts
                     ELSE Append(texts, Text(new.ptr, Len(cells), cells))
  /\ UNCHANGED <<array, old>>

\* The two memcpy of concat: s, and behind it other.
Concatenated(a, ptr, s, other) ==
  LET left == Write(a, ptr, Read(a, s.str, s.len))
  IN  Write(left, <<ptr[1], ptr[2] + s.len>>, Read(left, other.str, other.len))

\* s.concat(other): the null string concatenated with other is other itself.
Concat(s, other, out_of_memory) ==
  /\ Len(texts) < MaxTexts
  /\ s.len + other.len <= MaxLen
  /\ other.str # NULL
  /\ IF s.str = NULL
     THEN texts' = Append(texts, other) /\ UNCHANGED arena
     ELSE LET new == Realloc(arena, s.str, s.len + other.len, s.len, out_of_memory)
          IN  /\ Finish(new, Concatenated(new.arena, new.ptr, s, other))
              /\ texts' = IF new.ptr = NULL THEN texts
                          ELSE Append(texts, Text(new.ptr, s.len + other.len,
                                                  s.text \o other.text))
  /\ UNCHANGED <<array, old>>

-----------------------------------------------------------------------------
(* The array                                                                 *)

\* The page of the array with number n, from its table of pages.
PageOf(a, arr, n) == Read(a, <<arr.pages[1], arr.pages[2] + n>>, 1)[1]

AddressOf(a, arr, index) ==
  LET page == PageOf(a, arr, index \div ItemsPerPage)
  IN  <<page[1], page[2] + (index % ItemsPerPage)>>

\* operator[].
ItemAt(a, arr, index) == Read(a, AddressOf(a, arr, index), 1)[1]

Capacity(arr) ==
  IF InitialCapacity > 2 * arr.pages_capacity THEN InitialCapacity
                                              ELSE 2 * arr.pages_capacity

TableFull(arr) == arr.item_count \div ItemsPerPage >= arr.pages_capacity

\* A larger table with the pages so far; an exception leaves the array alone.
Grow(a, arr, out_of_memory) ==
  LET new == Alloc(a, Capacity(arr), out_of_memory)
      old_table == IF arr.pages_capacity = 0 THEN <<>>
                   ELSE Read(a, arr.pages, arr.pages_capacity)
  IN  IF ~TableFull(arr) THEN [ok |-> TRUE, arena |-> a, arr |-> arr]
      ELSE IF new.ptr = NULL THEN [ok |-> FALSE, arena |-> new.arena, arr |-> arr]
      ELSE [ok |-> TRUE, arena |-> Write(new.arena, new.ptr, old_table),
            arr |-> [arr EXCEPT !.pages = new.ptr, !.pages_capacity = Capacity(arr)]]

\* Where the table notes the page of the next item.
Entry(arr) == <<arr.pages[1], arr.pages[2] + arr.item_count \div ItemsPerPage>>

\* A page for the next items; on an exception a table that has grown stays.
AddPage(g, out_of_memory) ==
  LET new == Alloc(g.arena, ItemsPerPage, out_of_memory)
  IN  IF new.ptr = NULL THEN [g EXCEPT !.ok = FALSE, !.arena = new.arena]
      ELSE [g EXCEPT !.arena = Write(new.arena, Entry(g.arr), <<new.ptr>>)]

StoreItem(g, item) ==
  LET arr == [g.arr EXCEPT !.item_count = @ + 1, !.items = Append(@, item)]
  IN  [g EXCEPT !.arena = Write(@, AddressOf(@, g.arr, g.arr.item_count), <<item>>),
                !.arr = arr]

\* push(item), where the first or the second malloc may fail.
Pushed(a, arr, item, no_table, no_page) ==
  LET grown == Grow(a, arr, no_table)
      paged == AddPage(grown, no_page)
  IN  IF arr.item_count % ItemsPerPage # 0
      THEN StoreItem([ok |-> TRUE, arena |-> a, arr |-> arr], item)
      ELSE IF ~grown.ok THEN grown
      ELSE IF ~paged.ok THEN paged
      ELSE StoreItem(paged, item)

Push(item, no_table, no_page) ==
  /\ array.item_count < MaxItems
  /\ LET p == Pushed(arena, array, item, no_table, no_page)
     IN  arena' = p.arena /\ array' = p.arr
  /\ UNCHANGED <<texts, old>>

\* The copy is an array like any other.
PushOld(item, no_table, no_page) ==
  /\ old.items # <<>> /\ old.item_count < MaxItems
  /\ LET p == Pushed(arena, old, item, no_table, no_page)
     IN  arena' = p.arena /\ old' = p.arr
  /\ UNCHANGED <<texts, array>>

\* Mutant of Truncated: the pages are kept for the next items.
TruncatedInPlace(arr) == [arr EXCEPT !.item_count = 0, !.items = <<>>]

Truncated(arr) ==
  [arr EXCEPT !.item_count = 0, !.pages_capacity = 0, !.pages = NULL, !.items = <<>>]

\* old_program = m_program; m_program.truncate().
CopyAndTruncate ==
  /\ array.items # <<>> /\ old.items = <<>>
  /\ old' = array
  /\ array' = Truncated(array)
  /\ UNCHANGED <<arena, texts>>

\* Mutant of InPage: the page has one item more.
InPageOrAtEnd(page, ptr) ==
  ptr[1] = page[1] /\ page[2] <= ptr[2] /\ ptr[2] <= page[2] + ItemsPerPage

InPage(page, ptr) ==
  ptr[1] = page[1] /\ page[2] <= ptr[2] /\ ptr[2] < page[2] + ItemsPerPage

\* has_item of an array that is not empty: the first page that holds the
\* address decides.
HasItem(a, arr, ptr) ==
  \E n \in 0 .. ((arr.item_count - 1) \div ItemsPerPage) :
    /\ InPage(PageOf(a, arr, n), ptr)
    /\ \A m \in 0 .. (n - 1) : ~InPage(PageOf(a, arr, m), ptr)
    /\ n * ItemsPerPage + (ptr[2] - PageOf(a, arr, n)[2]) < arr.item_count

-----------------------------------------------------------------------------
Next ==
  \/ \E offset \in 0 .. (Len(Sql) - 1) : \E len \in 1 .. (Len(Sql) - offset) :
       Token(offset, len)
  \/ \E cells \in Nodes, oom \in BOOLEAN : NewNode(cells, oom)
  \/ \E i, j \in 1 .. Len(texts), oom \in BOOLEAN : Concat(texts[i], texts[j], oom)
  \/ \E item \in Items, no_table, no_page \in BOOLEAN :
       Push(item, no_table, no_page) \/ PushOld(item, no_table, no_page)
  \/ CopyAndTruncate

Spec == Init /\ [][Next]_vars

-----------------------------------------------------------------------------
(* Properties                                                                *)

Pointers ==
  UNION {{<<p, o>> : o \in 0 .. Len(arena.pages[p])} : p \in 1 .. Len(arena.pages)}

\* Nothing the program holds is ever overwritten: every string and every node
\* lies inside a page and still reads as what was put there, although strings
\* that share their beginning may share memory and are extended in place, and
\* although a failed allocation leaves its page size behind.
TextsSurvive ==
  /\ arena.point \in 0 .. Stop(arena)
  /\ \A i \in 1 .. Len(texts) :
       LET t == texts[i]
       IN  /\ t.len = Len(t.text)
           /\ t.str # NULL =>
                /\ t.str[1] > 0 => t.str[2] + t.len <= Len(arena.pages[t.str[1]])
                /\ Read(arena, t.str, t.len) = t.text

\* "a copy of the array object before truncation will be intact, independent
\* and usable": both arrays hold what was pushed to each of them, also after an
\* exception in the middle of a push.
ArraysSurvive ==
  \A arr \in {array, old} : \A i \in 0 .. (arr.item_count - 1) :
    ItemAt(arena, arr, i) = arr.items[i + 1]

\* has_item answers TRUE for the addresses of the items and for no other.
HasItemIsExact ==
  \A arr \in {array, old} : arr.item_count > 0 =>
    \A ptr \in Pointers :
      HasItem(arena, arr, ptr) <=>
        \E i \in 0 .. (arr.item_count - 1) : ptr = AddressOf(arena, arr, i)

\* Where the items of arr are before the step and those of new_arr after it.
SamePlaces(arr, new_arr) ==
  \A i \in 0 .. (arr.item_count - 1) :
    AddressOf(arena', new_arr, i) = AddressOf(arena, arr, i)

\* "The items themselves are never moved": pointers to items, such as every
\* Expr*, stay good while the array, its copy and everything else in the arena
\* grows.
ItemsNeverMove ==
  [][/\ SamePlaces(old, old')
     /\ IF CopyAndTruncate THEN SamePlaces(array, old') ELSE SamePlaces(array, array')]_vars
=============================================================================
