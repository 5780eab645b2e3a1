--------------------------- MODULE ArenaAllocator ---------------------------
(* The arena (ArenaAllocator.hpp and .cpp): memory is handed out from the    *)
(* current page and never given back before the arena is destroyed.  Memory  *)
(* is measured in cells; a cell holds one byte of a string, one item of an   *)
(* array or one pointer.                                                     *)
(*                                                                           *)
(* A pointer is <<page, offset>> with `offset' cells before it on the page.  *)
(* Page 0 is memory that is not the arena's, the SQL buffer; page 1 is       *)
(* m_initial_stack_allocated_page; the last page is the current one, and its *)
(* length is m_stop.  An address past the end of a page never equals m_point *)
(* on another one: a header lies between them.                               *)
EXTENDS Integers, Sequences

CONSTANTS
  InitialPageSize,   \* INITIAL_PAGE_SIZE
  DefaultPageSize,   \* DEFAULT_PAGE_SIZE
  Overhead,          \* the header of a page
  TooLarge,          \* the limit 0x40000000 on a request
  Cells,             \* what a cell may hold besides a pointer
  Sql,               \* the SQL buffer, a sequence of bytes
  Garbage            \* what fresh memory holds

ASSUME PageAssumption ==
  /\ {InitialPageSize, DefaultPageSize, Overhead, TooLarge} \subseteq Nat \ {0}
  /\ Overhead < DefaultPageSize
ASSUME CellAssumption == Sql \in Seq(Cells) /\ Garbage \in Cells

NULL == <<>>

Fresh(n) == [i \in 1 .. n |-> Garbage]

NewArena ==
  [pages |-> <<Fresh(InitialPageSize)>>, page_size |-> DefaultPageSize, point |-> 0]

Current(a) == Len(a.pages)
Point(a) == <<Current(a), a.point>>
Stop(a) == Len(a.pages[Current(a)])

\* What n cells at ptr hold.
Read(a, ptr, n) ==
  LET page == IF ptr[1] = 0 THEN Sql ELSE a.pages[ptr[1]]
  IN  SubSeq(page, ptr[2] + 1, ptr[2] + n)

\* memcpy(ptr, cells, Len(cells)).
Write(a, ptr, cells) ==
  [a EXCEPT !.pages[ptr[1]] =
     [i \in DOMAIN @ |-> IF i - ptr[2] \in DOMAIN cells THEN cells[i - ptr[2]] ELSE @[i]]]

\* Mutant of PageFor: the header is forgotten.
PageForData(size, page_size) ==
  LET p[n \in Nat] == IF n >= size THEN n ELSE p[2 * n]
  IN  p[page_size]

\* m_page_data_size is doubled until a page is twice as large as the request.
PageFor(size, page_size) ==
  LET p[n \in Nat] == IF n >= 2 * size + Overhead THEN n ELSE p[2 * n]
  IN  p[page_size]

Thrown(a) == [ptr |-> NULL, arena |-> a]

\* alloc, where malloc returns NULL if out_of_memory.  A request that throws
\* leaves the pages as they are.
Alloc(a, size, out_of_memory) ==
  LET grown == [a EXCEPT !.page_size = PageFor(size, @)]
      paged == [grown EXCEPT !.pages = Append(@, Fresh(grown.page_size - Overhead)),
                             !.point = size]
  IN  IF a.point + size <= Stop(a)
      THEN [ptr |-> Point(a), arena |-> [a EXCEPT !.point = @ + size]]
      ELSE IF TooLarge <= 2 * size + Overhead THEN Thrown(a)
      ELSE IF out_of_memory THEN Thrown(grown)
      ELSE [ptr |-> <<Current(paged), 0>>, arena |-> paged]

\* Mutant of EndsAtPoint: a block may be extended if it is on the current page.
EndsOnCurrentPage(a, ptr, size) ==
  ptr[1] = Current(a) /\ ptr[2] + size <= a.point

\* The unused memory begins where the block ends.
EndsAtPoint(a, ptr, size) == <<ptr[1], ptr[2] + size>> = Point(a)

\* realloc: in place if the block can be extended, and else by a copy.
Realloc(a, ptr, size, original_size, out_of_memory) ==
  LET new == Alloc(a, size, out_of_memory)
      kept == IF size < original_size THEN size ELSE original_size
  IN  IF /\ EndsAtPoint(a, ptr, original_size)
         /\ size >= original_size
         /\ ptr[2] + size <= Stop(a)
      THEN [ptr |-> ptr, arena |-> [a EXCEPT !.point = @ + (size - original_size)]]
      ELSE IF new.ptr = NULL THEN new
      ELSE [new EXCEPT !.arena = Write(@, new.ptr, Read(a, ptr, kept))]
=============================================================================
