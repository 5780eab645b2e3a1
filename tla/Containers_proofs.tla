------------------------- MODULE Containers_proofs -------------------------
(* Proofs about the containers, for every size of pages, tables and strings, *)
(* every SQL buffer and every sequence of operations and failed allocations. *)
EXTENDS Containers, RecursionTheorems, SequenceTheorems

\* What the proofs use of the assumptions.
LEMMA Sizes ==
  /\ InitialPageSize \in Nat /\ DefaultPageSize \in Nat /\ DefaultPageSize > 0
  /\ Overhead \in Nat /\ Overhead > 0
  /\ ItemsPerPage \in Nat /\ ItemsPerPage > 0
  /\ InitialCapacity \in Nat /\ InitialCapacity > 0
  /\ Sql \in Seq(Cells) /\ Garbage \in Cells
  BY PageAssumption, CellAssumption, ArrayAssumption

-----------------------------------------------------------------------------
(* Division by ItemsPerPage                                                  *)

PageNo(i) == i \div ItemsPerPage
Slot(i) == i % ItemsPerPage

\* An item's index is its page's number times the page's size, and a place there.
LEMMA Division ==
  ASSUME NEW i \in Nat
  PROVE  /\ PageNo(i) \in Nat /\ Slot(i) \in 0 .. (ItemsPerPage - 1)
         /\ i = PageNo(i) * ItemsPerPage + Slot(i)
  BY Sizes DEF PageNo, Slot

\* A page's number and a place on it determine the index.
LEMMA DivisionIsUnique ==
  ASSUME NEW q \in Nat, NEW r \in 0 .. (ItemsPerPage - 1)
  PROVE  PageNo(q * ItemsPerPage + r) = q /\ Slot(q * ItemsPerPage + r) = r
  BY Sizes DEF PageNo, Slot

\* A later page begins behind an earlier one.
LEMMA PagesInOrder ==
  ASSUME NEW p \in Nat, NEW q \in Nat, q < p
  PROVE  q * ItemsPerPage + ItemsPerPage <= p * ItemsPerPage
<1> DEFINE b == ItemsPerPage
           d == p - q - 1
<1>1. d \in Nat /\ b \in Nat /\ p = q + 1 + d
  BY Sizes
<1>2. d * b \in Nat /\ q * b \in Nat
  BY <1>1
<1>3. (q + 1 + d) * b = q * b + b + d * b
  BY <1>1
<1> QED
  BY <1>1, <1>2, <1>3

\* Items are laid out in the order of their pages.
LEMMA LaterPage ==
  ASSUME NEW i \in Nat, NEW j \in Nat, i <= j
  PROVE  PageNo(i) <= PageNo(j)
<1>1. SUFFICES ASSUME PageNo(j) < PageNo(i) PROVE FALSE
  BY Division
<1>2. PageNo(j) * ItemsPerPage + ItemsPerPage <= PageNo(i) * ItemsPerPage
  BY <1>1, Division, PagesInOrder
<1> DEFINE pi == PageNo(i) * ItemsPerPage
           pj == PageNo(j) * ItemsPerPage
<1>3. pi \in Nat /\ pj \in Nat
  <2>1. PageNo(i) \in Nat /\ PageNo(j) \in Nat
    BY Division
  <2> QED BY <2>1, Sizes
<1>4. /\ i = pi + Slot(i) /\ Slot(i) \in 0 .. (ItemsPerPage - 1)
      /\ j = pj + Slot(j) /\ Slot(j) \in 0 .. (ItemsPerPage - 1)
  BY Division
<1> HIDE DEF pi, pj
<1> QED
  BY <1>2, <1>3, <1>4, Sizes DEF pi, pj

\* The items before the first one of a page are on earlier pages.
LEMMA FirstOfPage ==
  ASSUME NEW i \in Nat, NEW j \in Nat, i < j, Slot(j) = 0
  PROVE  PageNo(i) < PageNo(j)
<1>1. PageNo(i) <= PageNo(j)
  BY LaterPage
<1>2. PageNo(i) # PageNo(j)
  <2>1. /\ i = PageNo(i) * ItemsPerPage + Slot(i) /\ Slot(i) \in 0 .. (ItemsPerPage - 1)
        /\ j = PageNo(j) * ItemsPerPage + Slot(j) /\ PageNo(j) \in Nat
    BY Division
  <2>2. PageNo(j) * ItemsPerPage \in Nat
    BY <2>1, Sizes
  <2> QED BY <2>1, <2>2
<1> QED
  BY <1>1, <1>2, Division

\* Any other item is on the page of the one before.
LEMMA NotFirstOfPage ==
  ASSUME NEW j \in Nat, Slot(j) # 0
  PROVE  j - 1 \in Nat /\ PageNo(j - 1) = PageNo(j)
<1> DEFINE q == PageNo(j)
           r == Slot(j) - 1
<1>1. q \in Nat /\ r \in 0 .. (ItemsPerPage - 1) /\ j = q * ItemsPerPage + r + 1
  <2>1. PageNo(j) \in Nat /\ Slot(j) \in 0 .. (ItemsPerPage - 1)
        /\ j = PageNo(j) * ItemsPerPage + Slot(j)
    BY Division
  <2>2. PageNo(j) * ItemsPerPage \in Nat /\ Slot(j) \in Nat
    BY <2>1, Sizes
  <2> DEFINE full == PageNo(j) * ItemsPerPage
             slot == Slot(j)
  <2>3. full \in Nat /\ slot \in Nat /\ slot < ItemsPerPage /\ slot # 0
        /\ ItemsPerPage \in Nat /\ j = full + slot
    BY <2>1, <2>2, Sizes
  <2> HIDE DEF full, slot
  <2>4. slot - 1 \in 0 .. (ItemsPerPage - 1) /\ j = full + (slot - 1) + 1
    BY <2>3
  <2> QED BY <2>1, <2>4 DEF full, slot
<1>2. q * ItemsPerPage \in Nat
  BY <1>1, Sizes
<1>3. j - 1 \in Nat /\ j - 1 = q * ItemsPerPage + r
  BY <1>1, <1>2
<1> HIDE DEF q, r
<1>4. PageNo(j - 1) = q
  BY <1>1, <1>3, DivisionIsUnique
<1> QED
  BY <1>3, <1>4 DEF q

\* Items on the same page are in different places there.
LEMMA OneSlotEach ==
  ASSUME NEW i \in Nat, NEW j \in Nat, PageNo(i) = PageNo(j), Slot(i) = Slot(j)
  PROVE  i = j
  BY Division

-----------------------------------------------------------------------------
(* The page for a request                                                    *)

\* The loop ends, for it starts with a page size that is not 0, and the page is
\* large enough.
LEMMA PageForFits ==
  ASSUME NEW size \in Nat, NEW page_size \in Nat \ {0}
  PROVE  /\ PageFor(size, page_size) \in Nat \ {0}
         /\ PageFor(size, page_size) - Overhead \in Nat
         /\ size <= PageFor(size, page_size) - Overhead
<1> DEFINE m == 2 * size + Overhead
           Body(f) == [n \in Nat |-> IF n >= m THEN n ELSE f[2 * n]]
           p == CHOOSE f : f = Body(f)
           rank == [n \in Nat |-> IF n >= m THEN 0 ELSE m - n]
           D == [n \in Nat |-> [f \in [Nat -> Nat] |->
                   IF n >= m THEN n ELSE IF n = 0 THEN 0 ELSE f[2 * n]]]
<1>1. m \in Nat /\ m > 0 /\ \A n \in Nat : 2 * n \in Nat
  BY Sizes
<1>2. Recursion(Nat, Nat, m, rank, D)
  <2> HIDE DEF m
  <2>1. rank \in [Nat -> 0 .. m]
    BY <1>1
  <2>2. D \in [Nat -> [[Nat -> Nat] -> Nat]]
    BY <1>1
  <2>3. ASSUME NEW k \in Nat, NEW g \in [Nat -> Nat], NEW h \in [Nat -> Nat],
               \A j \in Nat : rank[j] < rank[k] => g[j] = h[j]
        PROVE  D[k][g] = D[k][h]
    <3>1. k < m /\ k # 0 => 2 * k \in Nat /\ rank[2 * k] < rank[k]
      BY <1>1
    <3> HIDE DEF rank
    <3> QED BY <1>1, <2>3, <3>1
  <2> HIDE DEF rank, D
  <2> QED BY <1>1, <2>1, <2>2, <2>3 DEF Recursion
<1>3. PICK f \in [Nat -> Nat] : \A k \in Nat : f[k] = D[k][f]
  <2> DEFINE I == Nat
  <2>1. Recursion(I, I, m, rank, D)
    BY <1>2
  <2>2. \E f \in [I -> I] : \A k \in I : f[k] = D[k][f]
    <3> HIDE DEF rank, D, m, I
    <3> QED BY <2>1, RecursiveFunctionExists
  <2> QED BY <2>2
<1>4. f = Body(f)
  <2> HIDE DEF m
  <2>1. \A k \in Nat : f[k] = IF k >= m THEN k ELSE f[2 * k]
    BY <1>1, <1>3
  <2> QED BY <2>1
<1>5. p = Body(p)
  <2> HIDE DEF Body
  <2> QED BY <1>4
<1>6. \A n \in Nat : p[n] = IF n >= m THEN n ELSE p[2 * n]
  <2> HIDE DEF p, m
  <2> QED BY <1>5
<1> HIDE DEF p, m, D, rank, Body
<1> DEFINE G == {k \in 0 .. m : \A n \in Nat \ {0} : n + k >= m => p[n] \in Nat /\ p[n] >= m}
<1>7. 0 \in G
  BY <1>1, <1>6
<1>8. ASSUME NEW k \in 1 .. m, k - 1 \in G PROVE k \in G
  <2>1. ASSUME NEW n \in Nat \ {0}, n + k >= m PROVE p[n] \in Nat /\ p[n] >= m
    <3>1. 2 * n \in Nat \ {0} /\ 2 * n + (k - 1) >= m
      BY <1>1, <2>1
    <3>2. p[2 * n] \in Nat /\ p[2 * n] >= m
      BY <1>8, <3>1
    <3> QED BY <1>1, <1>6, <3>2
  <2> QED BY <2>1
<1>9. m \in G
  <2> HIDE DEF G
  <2>1. \A k \in 0 .. m : k \in G
    BY <1>1, <1>7, <1>8, UpTo
  <2> QED BY <1>1, <2>1
<1>10. p[page_size] \in Nat /\ p[page_size] >= m
  BY <1>1, <1>9
<1>11. PageFor(size, page_size) = p[page_size]
  BY DEF PageFor, p, Body, m
<1> QED
  <2> DEFINE r == p[page_size]
  <2>1. r \in Nat /\ r >= 2 * size + Overhead
    BY <1>10 DEF m
  <2> HIDE DEF r
  <2>2. r \in Nat \ {0} /\ r - Overhead \in Nat /\ size <= r - Overhead
    BY <2>1, Sizes
  <2> QED BY <1>11, <2>2 DEF r

-----------------------------------------------------------------------------
(* The memory                                                                *)

Addresses == Nat \X Nat

\* What a cell may hold.
Memory == Cells \cup Addresses

Arenas == [pages : Seq(Seq(Memory)), page_size : Nat \ {0}, point : Nat]

\* There is a current page, and m_point is on it.
ArenaOK(a) == a \in Arenas /\ Len(a.pages) > 0 /\ a.point <= Len(a.pages[Len(a.pages)])

\* The n cells at ptr are on a page of the arena, and in use.
OnPage(a, ptr, n) ==
  /\ ptr \in Addresses
  /\ ptr[1] \in 1 .. Len(a.pages)
  /\ ptr[2] + n <= Len(a.pages[ptr[1]])

InUse(a, ptr, n) ==
  OnPage(a, ptr, n) /\ (ptr[1] = Len(a.pages) => ptr[2] + n <= a.point)

\* Cell i of page p is one of the n cells at ptr.
Within(p, i, ptr, n) == p = ptr[1] /\ i - ptr[2] \in 1 .. n

\* The arena has grown from a to b, and what was in use is as it was, the n
\* cells at ptr left aside.
Grown(a, b) ==
  /\ Len(a.pages) <= Len(b.pages)
  /\ \A p \in 1 .. Len(a.pages) : Len(b.pages[p]) = Len(a.pages[p])
  /\ Len(a.pages) = Len(b.pages) => a.point <= b.point

KeepsBut(a, b, ptr, n) ==
  /\ Grown(a, b)
  /\ \A p \in 1 .. Len(a.pages) : \A i \in 1 .. Len(a.pages[p]) :
       /\ p = Len(a.pages) => i <= a.point
       /\ ~Within(p, i, ptr, n)
       => b.pages[p][i] = a.pages[p][i]

Keeps(a, b) ==
  /\ Grown(a, b)
  /\ \A p \in 1 .. Len(a.pages) : \A i \in 1 .. Len(a.pages[p]) :
       (p = Len(a.pages) => i <= a.point) => b.pages[p][i] = a.pages[p][i]

\* What the arena consists of, in the form the provers need.
LEMMA ArenaFacts ==
  ASSUME NEW a, ArenaOK(a)
  PROVE  /\ a.pages \in Seq(Seq(Memory)) /\ Len(a.pages) \in Nat \ {0}
         /\ DOMAIN a.pages = 1 .. Len(a.pages)
         /\ \A p \in 1 .. Len(a.pages) :
              /\ a.pages[p] \in Seq(Memory) /\ Len(a.pages[p]) \in Nat
              /\ DOMAIN a.pages[p] = 1 .. Len(a.pages[p])
         /\ Len(a.pages) \in 1 .. Len(a.pages)
         /\ a.point \in Nat /\ a.point <= Len(a.pages[Len(a.pages)])
         /\ a.page_size \in Nat \ {0}
<1>1. a.pages \in Seq(Seq(Memory)) /\ a.point \in Nat /\ a.page_size \in Nat \ {0}
  BY DEF ArenaOK, Arenas
<1>2. Len(a.pages) \in Nat /\ DOMAIN a.pages = 1 .. Len(a.pages) /\ Len(a.pages) > 0
  BY <1>1 DEF ArenaOK
<1>3. \A p \in 1 .. Len(a.pages) : a.pages[p] \in Seq(Memory)
  BY <1>1, <1>2
<1> QED
  BY <1>1, <1>2, <1>3 DEF ArenaOK

\* An address is not the null pointer.
LEMMA NullIsNoAddress == NULL \notin Addresses
<1> SUFFICES ASSUME NULL \in Addresses PROVE FALSE
  OBVIOUS
<1>1. PICK i \in Nat, j \in Nat : NULL = <<i, j>>
  BY DEF Addresses
<1> QED
  BY <1>1 DEF NULL

\* A new page holds as many cells as it was asked for.
LEMMA FreshCells ==
  ASSUME NEW n \in Nat
  PROVE  Fresh(n) \in Seq(Memory) /\ Len(Fresh(n)) = n
  BY Sizes DEF Fresh, Memory

\* The n cells at ptr.
CellsAt(a, ptr, n) == [i \in 1 .. n |-> a.pages[ptr[1]][ptr[2] + i]]

\* Read returns the cells.
LEMMA ReadIs ==
  ASSUME NEW a, ArenaOK(a), NEW ptr, NEW n \in Nat, OnPage(a, ptr, n)
  PROVE  /\ Read(a, ptr, n) \in Seq(Memory) /\ Len(Read(a, ptr, n)) = n
         /\ Read(a, ptr, n) = CellsAt(a, ptr, n)
<1> DEFINE page == a.pages[ptr[1]]
           o == ptr[2]
<1>1. page \in Seq(Memory) /\ o \in Nat /\ ptr[1] # 0 /\ o + n <= Len(page)
  BY ArenaFacts DEF OnPage, Addresses
<1>2. Read(a, ptr, n) = SubSeq(page, o + 1, o + n)
  BY <1>1 DEF Read
<1> HIDE DEF page, o
<1>3. /\ SubSeq(page, o + 1, o + n) \in Seq(Memory)
      /\ Len(SubSeq(page, o + 1, o + n)) = n
      /\ \A i \in 1 .. n : SubSeq(page, o + 1, o + n)[i] = page[o + i]
  BY <1>1
<1>4. SubSeq(page, o + 1, o + n) = [i \in 1 .. n |-> page[o + i]]
  BY <1>1, <1>3
<1> QED
  BY <1>2, <1>3, <1>4 DEF CellsAt, page, o

\* In b, the cells at ptr have been written, and all else is as in a.
Written(a, b, ptr, cells) ==
  /\ Len(b.pages) = Len(a.pages) /\ b.point = a.point
  /\ b.page_size = a.page_size
  /\ \A p \in 1 .. Len(a.pages) : Len(b.pages[p]) = Len(a.pages[p])
  /\ \A p \in 1 .. Len(a.pages) : \A i \in 1 .. Len(a.pages[p]) :
       b.pages[p][i] = IF Within(p, i, ptr, Len(cells)) THEN cells[i - ptr[2]]
                                                       ELSE a.pages[p][i]

\* Write puts the cells where they belong and touches no other cell.
LEMMA WriteIs ==
  ASSUME NEW a, ArenaOK(a), NEW ptr, NEW cells \in Seq(Memory), OnPage(a, ptr, Len(cells)),
         NEW b, b = Write(a, ptr, cells)
  PROVE  ArenaOK(b) /\ Written(a, b, ptr, cells)
<1> DEFINE q == ptr[1]
           o == ptr[2]
           page == [i \in DOMAIN a.pages[q] |->
                      IF i - o \in DOMAIN cells THEN cells[i - o] ELSE a.pages[q][i]]
<1>1. q \in 1 .. Len(a.pages) /\ o \in Nat /\ a.pages[q] \in Seq(Memory)
  BY ArenaFacts DEF OnPage, Addresses
<1>2. /\ b = [a EXCEPT !.pages = [a.pages EXCEPT ![q] = page]]
      /\ DOMAIN a.pages = 1 .. Len(a.pages)
      /\ DOMAIN a.pages[q] = 1 .. Len(a.pages[q]) /\ DOMAIN cells = 1 .. Len(cells)
  BY <1>1, ArenaFacts DEF Write
<1>3. page \in Seq(Memory) /\ Len(page) = Len(a.pages[q])
  <2>1. \A i \in 1 .. Len(a.pages[q]) : page[i] \in Memory
    BY <1>1, <1>2
  <2>2. page \in [1 .. Len(a.pages[q]) -> Memory]
    BY <1>2, <2>1
  <2> DEFINE n == Len(a.pages[q])
  <2>3. n \in Nat /\ page \in [1 .. n -> Memory]
    BY <1>1, <2>2
  <2> HIDE DEF page, n
  <2>4. page \in Seq(Memory) /\ Len(page) = n
    BY <2>3
  <2> QED BY <2>4 DEF n
<1>4. \A i \in 1 .. Len(a.pages[q]) :
        page[i] = IF Within(q, i, ptr, Len(cells)) THEN cells[i - o] ELSE a.pages[q][i]
  BY <1>2 DEF Within
<1> HIDE DEF page
<1> DEFINE pages == [a.pages EXCEPT ![q] = page]
<1>5. /\ pages \in Seq(Seq(Memory)) /\ Len(pages) = Len(a.pages) /\ pages[q] = page
      /\ \A p \in 1 .. Len(a.pages) : p # q => pages[p] = a.pages[p]
  BY <1>1, <1>2, <1>3, ArenaFacts
<1>6. b \in Arenas /\ b.pages = pages /\ b.point = a.point /\ b.page_size = a.page_size
  BY <1>2, <1>5 DEF ArenaOK, Arenas
<1> HIDE DEF pages
<1>7. \A p \in 1 .. Len(a.pages) : Len(pages[p]) = Len(a.pages[p])
  BY <1>3, <1>5
<1>8. ArenaOK(b)
  BY <1>5, <1>6, <1>7, ArenaFacts DEF ArenaOK
<1>9. \A p \in 1 .. Len(a.pages) : \A i \in 1 .. Len(a.pages[p]) :
        pages[p][i] = IF Within(p, i, ptr, Len(cells)) THEN cells[i - ptr[2]]
                                                      ELSE a.pages[p][i]
  BY <1>4, <1>5 DEF Within
<1> QED
  BY <1>5, <1>6, <1>7, <1>8, <1>9 DEF Written

\* Two blocks have no cell in common.
Apart(q, m, ptr, n) == q[1] # ptr[1] \/ q[2] + m <= ptr[2] \/ ptr[2] + n <= q[2]

\* What is at ptr is not in use.
Unused(a, ptr) ==
  /\ ptr \in Addresses
  /\ ptr[1] >= Len(a.pages)
  /\ ptr[1] = Len(a.pages) => a.point <= ptr[2]

\* A block that was not in use has no cell in common with one that was.
LEMMA UnusedIsApart ==
  ASSUME NEW a, ArenaOK(a), NEW q, NEW m \in Nat, InUse(a, q, m),
         NEW ptr, Unused(a, ptr), NEW n \in Nat
  PROVE  Apart(q, m, ptr, n)
  BY ArenaFacts DEF InUse, OnPage, Unused, Apart, Addresses

\* A part of a block is apart from what the block is apart from.
LEMMA PartIsApart ==
  ASSUME NEW q \in Addresses, NEW m \in Nat, NEW ptr \in Addresses, NEW n \in Nat,
         Apart(q, m, ptr, n), NEW i \in Nat, NEW k \in Nat, i + k <= n
  PROVE  Apart(q, m, <<ptr[1], ptr[2] + i>>, k)
  BY DEF Apart, Addresses

\* Being apart is mutual.
LEMMA ApartIsSymmetric ==
  \A q, m, ptr, n : Apart(q, m, ptr, n) <=> Apart(ptr, n, q, m)
  BY DEF Apart

\* What is kept is still in use and reads the same.
LEMMA KeptButReads ==
  ASSUME NEW a, ArenaOK(a), NEW b, ArenaOK(b), NEW ptr \in Addresses, NEW n \in Nat,
         KeepsBut(a, b, ptr, n),
         NEW q, NEW m \in Nat, InUse(a, q, m), Apart(q, m, ptr, n)
  PROVE  InUse(b, q, m) /\ Read(b, q, m) = Read(a, q, m)
<1>1. InUse(b, q, m)
  <2> DEFINE p == q[1]
             o == q[2]
  <2>1. /\ q \in Addresses /\ p \in 1 .. Len(a.pages) /\ o + m <= Len(a.pages[p])
        /\ p = Len(a.pages) => o + m <= a.point
    BY DEF InUse, OnPage
  <2>2. o \in Nat /\ Len(a.pages) \in Nat /\ Len(b.pages) \in Nat
        /\ a.point \in Nat /\ b.point \in Nat
    BY <2>1, ArenaFacts DEF Addresses
  <2>3. /\ Len(a.pages) <= Len(b.pages) /\ Len(b.pages[p]) = Len(a.pages[p])
        /\ Len(a.pages) = Len(b.pages) => a.point <= b.point
    BY <2>1 DEF KeepsBut, Grown
  <2> HIDE DEF p, o
  <2>4. /\ p \in 1 .. Len(b.pages) /\ o + m <= Len(b.pages[p])
        /\ p = Len(b.pages) => o + m <= b.point
    <3> DEFINE last == Len(a.pages)
               now == Len(b.pages)
               x == a.point
               y == b.point
               end == o + m
    <3>1. /\ p \in 1 .. last /\ last \in Nat /\ now \in Nat /\ last <= now
          /\ x \in Nat /\ y \in Nat /\ end \in Nat
          /\ p = last => end <= x
          /\ last = now => x <= y
      BY <2>1, <2>2, <2>3
    <3> HIDE DEF last, now, x, y, end
    <3>2. p \in 1 .. now /\ (p = now => end <= y)
      BY <3>1
    <3> QED BY <2>1, <2>3, <3>2 DEF now, y, end
  <2> QED BY <2>1, <2>4 DEF InUse, OnPage, p, o
<1>2. \A i \in 1 .. m : b.pages[q[1]][q[2] + i] = a.pages[q[1]][q[2] + i]
  <2> SUFFICES ASSUME NEW i \in 1 .. m
               PROVE  b.pages[q[1]][q[2] + i] = a.pages[q[1]][q[2] + i]
    OBVIOUS
  <2> DEFINE p == q[1]
             o == q[2]
             j == o + i
  <2>1. /\ p \in 1 .. Len(a.pages) /\ o \in Nat /\ ptr[2] \in Nat
        /\ o + m <= Len(a.pages[p]) /\ Len(a.pages[p]) \in Nat
        /\ p = Len(a.pages) => o + m <= a.point
        /\ a.point \in Nat
    BY ArenaFacts DEF InUse, OnPage, Addresses
  <2>2. p # ptr[1] \/ o + m <= ptr[2] \/ ptr[2] + n <= o
    BY DEF Apart
  <2> HIDE DEF p, o
  <2>3. j \in 1 .. Len(a.pages[p]) /\ (p = Len(a.pages) => j <= a.point)
    <3> DEFINE size == Len(a.pages[p])
               end == o + m
    <3>1. end \in Nat /\ j \in Nat /\ j > 0 /\ j <= end
      BY <2>1
    <3> HIDE DEF end, j
    <3>2. j <= size /\ (p = Len(a.pages) => j <= a.point)
      BY <2>1, <3>1 DEF end
    <3> QED BY <2>1, <3>1, <3>2
  <2>4. ~Within(p, j, ptr, n)
    BY <2>1, <2>2 DEF Within
  <2> HIDE DEF j
  <2>5. b.pages[p][j] = a.pages[p][j]
    BY <2>1, <2>3, <2>4 DEF KeepsBut
  <2> QED BY <2>5 DEF p, o, j
<1>3. Read(a, q, m) = CellsAt(a, q, m) /\ Read(b, q, m) = CellsAt(b, q, m)
  BY <1>1, ReadIs DEF InUse
<1> QED
  BY <1>1, <1>2, <1>3 DEF CellsAt

Nowhere == <<0, 0>>

\* To keep all is to keep all but a block of no cells.
LEMMA KeepsIsKeepsBut ==
  ASSUME NEW a, NEW b
  PROVE  Nowhere \in Addresses /\ (Keeps(a, b) => KeepsBut(a, b, Nowhere, 0))
  BY DEF Keeps, KeepsBut, Nowhere, Addresses

\* What was in use is still in use and reads the same.
LEMMA KeptReads ==
  ASSUME NEW a, ArenaOK(a), NEW b, ArenaOK(b), Keeps(a, b),
         NEW q, NEW m \in Nat, InUse(a, q, m)
  PROVE  InUse(b, q, m) /\ Read(b, q, m) = Read(a, q, m)
<1>1. Nowhere \in Addresses /\ KeepsBut(a, b, Nowhere, 0)
  BY KeepsIsKeepsBut
<1>2. Apart(q, m, Nowhere, 0)
  BY DEF Apart, Nowhere, InUse, OnPage, Addresses
<1> QED
  BY <1>1, <1>2, KeptButReads

\* Growing twice is growing.
LEMMA GrownTwice ==
  ASSUME NEW a, ArenaOK(a), NEW b, ArenaOK(b), NEW c, ArenaOK(c), Grown(a, b), Grown(b, c)
  PROVE  Grown(a, c)
<1> DEFINE la == Len(a.pages)
           lb == Len(b.pages)
           lc == Len(c.pages)
<1>1. /\ la \in Nat /\ lb \in Nat /\ lc \in Nat
      /\ a.point \in Nat /\ b.point \in Nat /\ c.point \in Nat
  BY ArenaFacts
<1>2. /\ la <= lb /\ lb <= lc
      /\ \A p \in 1 .. la : Len(b.pages[p]) = Len(a.pages[p])
      /\ \A p \in 1 .. lb : Len(c.pages[p]) = Len(b.pages[p])
      /\ la = lb => a.point <= b.point
      /\ lb = lc => b.point <= c.point
  BY DEF Grown
<1> HIDE DEF la, lb, lc
<1>3. \A p \in 1 .. la : p \in 1 .. lb
  BY <1>1, <1>2
<1>4. la <= lc /\ (la = lc => a.point <= c.point)
  BY <1>1, <1>2
<1>5. \A p \in 1 .. la : Len(c.pages[p]) = Len(a.pages[p])
  BY <1>2, <1>3
<1> QED
  BY <1>4, <1>5 DEF Grown, la, lc

\* A cell that was in use before the arena grew is in use after that.
LEMMA StillInUse ==
  ASSUME NEW a, ArenaOK(a), NEW b, ArenaOK(b), Grown(a, b),
         NEW p \in 1 .. Len(a.pages), NEW i \in 1 .. Len(a.pages[p]),
         p = Len(a.pages) => i <= a.point
  PROVE  /\ p \in 1 .. Len(b.pages) /\ i \in 1 .. Len(b.pages[p])
         /\ p = Len(b.pages) => i <= b.point
<1>1. /\ Len(a.pages) \in Nat /\ Len(b.pages) \in Nat /\ a.point \in Nat /\ b.point \in Nat
      /\ Len(a.pages[p]) \in Nat
  BY ArenaFacts
<1>2. /\ Len(a.pages) <= Len(b.pages) /\ Len(b.pages[p]) = Len(a.pages[p])
      /\ Len(a.pages) = Len(b.pages) => a.point <= b.point
  BY DEF Grown
<1> QED
  BY <1>1, <1>2

\* Two steps, the second of which may change the block, keep all but the block.
LEMMA KeepsThenKeepsBut ==
  ASSUME NEW a, ArenaOK(a), NEW b, ArenaOK(b), NEW c, ArenaOK(c),
         NEW ptr, NEW n, Keeps(a, b), KeepsBut(b, c, ptr, n)
  PROVE  KeepsBut(a, c, ptr, n)
<1>1. Grown(a, c)
  BY GrownTwice DEF Keeps, KeepsBut
<1>2. ASSUME NEW p \in 1 .. Len(a.pages), NEW i \in 1 .. Len(a.pages[p]),
             p = Len(a.pages) => i <= a.point, ~Within(p, i, ptr, n)
      PROVE  c.pages[p][i] = a.pages[p][i]
  <2>1. b.pages[p][i] = a.pages[p][i]
    BY <1>2 DEF Keeps
  <2>2. /\ p \in 1 .. Len(b.pages) /\ i \in 1 .. Len(b.pages[p])
        /\ p = Len(b.pages) => i <= b.point
    BY <1>2, StillInUse DEF Keeps
  <2> QED BY <1>2, <2>1, <2>2 DEF KeepsBut
<1> QED
  BY <1>1, <1>2 DEF KeepsBut

\* The same, when it is the first step that may change the block.
LEMMA KeepsButThenKeeps ==
  ASSUME NEW a, ArenaOK(a), NEW b, ArenaOK(b), NEW c, ArenaOK(c),
         NEW ptr, NEW n, KeepsBut(a, b, ptr, n), Keeps(b, c)
  PROVE  KeepsBut(a, c, ptr, n)
<1>1. Grown(a, c)
  BY GrownTwice DEF Keeps, KeepsBut
<1>2. ASSUME NEW p \in 1 .. Len(a.pages), NEW i \in 1 .. Len(a.pages[p]),
             p = Len(a.pages) => i <= a.point, ~Within(p, i, ptr, n)
      PROVE  c.pages[p][i] = a.pages[p][i]
  <2>1. b.pages[p][i] = a.pages[p][i]
    BY <1>2 DEF KeepsBut
  <2>2. /\ p \in 1 .. Len(b.pages) /\ i \in 1 .. Len(b.pages[p])
        /\ p = Len(b.pages) => i <= b.point
    BY <1>2, StillInUse DEF KeepsBut
  <2> QED BY <1>2, <2>1, <2>2 DEF Keeps
<1> QED
  BY <1>1, <1>2 DEF KeepsBut

\* Two steps that keep all keep all.
LEMMA KeepsTwice ==
  ASSUME NEW a, ArenaOK(a), NEW b, ArenaOK(b), NEW c, ArenaOK(c), Keeps(a, b), Keeps(b, c)
  PROVE  Keeps(a, c)
<1>1. Grown(a, c)
  BY GrownTwice DEF Keeps
<1>2. ASSUME NEW p \in 1 .. Len(a.pages), NEW i \in 1 .. Len(a.pages[p]),
             p = Len(a.pages) => i <= a.point
      PROVE  c.pages[p][i] = a.pages[p][i]
  <2>1. b.pages[p][i] = a.pages[p][i]
    BY <1>2 DEF Keeps
  <2>2. /\ p \in 1 .. Len(b.pages) /\ i \in 1 .. Len(b.pages[p])
        /\ p = Len(b.pages) => i <= b.point
    BY <1>2, StillInUse DEF Keeps
  <2> QED BY <2>1, <2>2 DEF Keeps
<1> QED
  BY <1>1, <1>2 DEF Keeps

\* A change of cells that were not in use is no change of what was in use.
LEMMA UnusedIsNoChange ==
  ASSUME NEW a, ArenaOK(a), NEW b, NEW ptr, Unused(a, ptr), NEW n \in Nat,
         KeepsBut(a, b, ptr, n)
  PROVE  Keeps(a, b)
<1>1. ASSUME NEW p \in 1 .. Len(a.pages), NEW i \in 1 .. Len(a.pages[p]),
             p = Len(a.pages) => i <= a.point
      PROVE  ~Within(p, i, ptr, n)
  BY <1>1, ArenaFacts DEF Within, Unused, Addresses
<1> QED
  BY <1>1 DEF Keeps, KeepsBut

\* A write keeps all but the cells that are written, and these are read back.
LEMMA WriteKeeps ==
  ASSUME NEW a, ArenaOK(a), NEW ptr, NEW cells \in Seq(Memory), OnPage(a, ptr, Len(cells)),
         NEW b, b = Write(a, ptr, cells)
  PROVE  /\ ArenaOK(b) /\ KeepsBut(a, b, ptr, Len(cells))
         /\ \A q, m : OnPage(a, q, m) => OnPage(b, q, m)
         /\ \A q, m : InUse(a, q, m) => InUse(b, q, m)
         /\ Read(b, ptr, Len(cells)) = cells
<1>1. /\ ArenaOK(b) /\ Len(b.pages) = Len(a.pages) /\ b.point = a.point
      /\ b.page_size = a.page_size
      /\ \A p \in 1 .. Len(a.pages) : Len(b.pages[p]) = Len(a.pages[p])
      /\ \A p \in 1 .. Len(a.pages) : \A i \in 1 .. Len(a.pages[p]) :
           b.pages[p][i] = IF Within(p, i, ptr, Len(cells)) THEN cells[i - ptr[2]]
                                                           ELSE a.pages[p][i]
  <2>1. ArenaOK(b) /\ Written(a, b, ptr, cells)
    BY WriteIs
  <2> QED BY <2>1 DEF Written
<1>2. KeepsBut(a, b, ptr, Len(cells))
  BY <1>1, ArenaFacts DEF KeepsBut, Grown
<1>3. /\ \A q, m : OnPage(a, q, m) => OnPage(b, q, m)
      /\ \A q, m : InUse(a, q, m) => InUse(b, q, m)
  BY <1>1 DEF InUse, OnPage
<1>4. Read(b, ptr, Len(cells)) = cells
  <2> DEFINE n == Len(cells)
             p == ptr[1]
             o == ptr[2]
  <2>1. n \in Nat /\ p \in 1 .. Len(a.pages) /\ o \in Nat /\ o + n <= Len(a.pages[p])
        /\ Len(a.pages[p]) \in Nat
    BY ArenaFacts DEF OnPage, Addresses
  <2>2. \A i \in 1 .. n : o + i \in 1 .. Len(a.pages[p]) /\ (o + i) - o = i
    <3> HIDE DEF o, p, n
    <3> QED BY <2>1
  <2>3. \A i \in 1 .. n : Within(p, o + i, ptr, n)
    BY <2>2 DEF Within
  <2>4. \A i \in 1 .. n : b.pages[p][o + i] = cells[i]
    BY <1>1, <2>1, <2>2, <2>3
  <2>5. Read(b, ptr, n) = [i \in 1 .. n |-> b.pages[p][o + i]]
    <3>1. OnPage(b, ptr, n)
      BY <1>3
    <3> HIDE DEF n
    <3>2. Read(b, ptr, n) = CellsAt(b, ptr, n)
      BY <1>1, <2>1, <3>1, ReadIs
    <3> QED BY <3>2 DEF CellsAt, p, o
  <2>6. cells = [i \in 1 .. n |-> cells[i]]
    OBVIOUS
  <2> QED BY <2>4, <2>5, <2>6
<1> QED
  BY <1>1, <1>2, <1>3, <1>4

\* To write what is there already is no change.
LEMMA WriteBack ==
  ASSUME NEW a, ArenaOK(a), NEW ptr, NEW n \in Nat, OnPage(a, ptr, n),
         NEW b, b = Write(a, ptr, Read(a, ptr, n))
  PROVE  Keeps(a, b)
<1> DEFINE cells == Read(a, ptr, n)
<1>1. /\ cells \in Seq(Memory) /\ Len(cells) = n
      /\ cells = [i \in 1 .. n |-> a.pages[ptr[1]][ptr[2] + i]]
  BY ReadIs DEF CellsAt
<1>2. b = Write(a, ptr, cells)
  OBVIOUS
<1> HIDE DEF cells
<1>3. ArenaOK(b) /\ Written(a, b, ptr, cells)
  BY <1>1, <1>2, WriteIs
<1>4. Grown(a, b)
  BY <1>3, ArenaFacts DEF Written, Grown
<1>5. ASSUME NEW p \in 1 .. Len(a.pages), NEW i \in 1 .. Len(a.pages[p])
      PROVE  b.pages[p][i] = a.pages[p][i]
  <2>1. CASE Within(p, i, ptr, n)
    <3>1. i - ptr[2] \in 1 .. n /\ p = ptr[1] /\ i \in Int /\ ptr[2] \in Int
      BY <2>1 DEF Within, OnPage, Addresses
    <3>2. cells[i - ptr[2]] = a.pages[p][ptr[2] + (i - ptr[2])]
      BY <1>1, <3>1
    <3>3. ptr[2] + (i - ptr[2]) = i
      BY <3>1
    <3> QED BY <1>1, <1>3, <2>1, <3>2, <3>3 DEF Written
  <2>2. CASE ~Within(p, i, ptr, n)
    BY <1>1, <1>3, <2>2 DEF Written
  <2> QED BY <2>1, <2>2
<1> QED
  BY <1>4, <1>5 DEF Keeps

SplitRead(a, ptr, m, n) ==
  Read(a, ptr, m + n) = Read(a, ptr, m) \o Read(a, <<ptr[1], ptr[2] + m>>, n)

\* Two blocks side by side are read as one.
LEMMA ReadJoined ==
  ASSUME NEW a, ArenaOK(a), NEW ptr, NEW m \in Nat, NEW n \in Nat, OnPage(a, ptr, m + n)
  PROVE  /\ OnPage(a, ptr, m) /\ OnPage(a, <<ptr[1], ptr[2] + m>>, n)
         /\ SplitRead(a, ptr, m, n)
<1> DEFINE mid == <<ptr[1], ptr[2] + m>>
           o == ptr[2]
           page == a.pages[ptr[1]]
<1>1. ptr \in Addresses /\ o \in Nat /\ ptr[1] \in 1 .. Len(a.pages) /\ ptr[1] \in Nat
      /\ o + (m + n) <= Len(page) /\ Len(page) \in Nat
  BY ArenaFacts DEF OnPage, Addresses
<1>2. OnPage(a, ptr, m) /\ OnPage(a, mid, n)
  <2>1. o + m <= Len(page) /\ (o + m) + n <= Len(page)
    <3> HIDE DEF o, page
    <3> QED BY <1>1
  <2> QED BY <1>1, <2>1 DEF OnPage, Addresses
<1>3. /\ Read(a, ptr, m) \in Seq(Memory) /\ Len(Read(a, ptr, m)) = m
      /\ Read(a, ptr, m) = [i \in 1 .. m |-> page[o + i]]
      /\ Read(a, mid, n) \in Seq(Memory) /\ Len(Read(a, mid, n)) = n
      /\ Read(a, mid, n) = [i \in 1 .. n |-> page[(o + m) + i]]
  BY <1>2, ReadIs DEF CellsAt
<1>4. Read(a, ptr, m + n) = [i \in 1 .. (m + n) |-> page[o + i]]
  BY ReadIs DEF CellsAt
<1> DEFINE left == Read(a, ptr, m)
           right == Read(a, mid, n)
<1> HIDE DEF page, o, mid
<1>5. left \o right = [i \in 1 .. (m + n) |-> IF i <= m THEN left[i] ELSE right[i - m]]
  <2> HIDE DEF left, right
  <2> QED BY <1>3 DEF left, right
<1>6. ASSUME NEW i \in 1 .. (m + n)
      PROVE  page[o + i] = IF i <= m THEN left[i] ELSE right[i - m]
  <2>1. CASE i <= m
    BY <1>3, <2>1
  <2>2. CASE ~(i <= m)
    <3>1. i - m \in 1 .. n /\ (o + m) + (i - m) = o + i
      BY <1>1, <2>2
    <3> QED BY <1>3, <2>2, <3>1
  <2> QED BY <2>1, <2>2
<1> QED
  BY <1>2, <1>4, <1>5, <1>6 DEF mid, SplitRead

-----------------------------------------------------------------------------
(* The allocator                                                             *)

\* A new block has not been in use before, and what was in use is kept.
Allocated(a, new, size) ==
  /\ ArenaOK(new.arena) /\ Keeps(a, new.arena)
  /\ new.ptr # NULL => InUse(new.arena, new.ptr, size) /\ Unused(a, new.ptr)

\* alloc_bytes returns a block that was not in use, or nothing, and keeps all that
\* was in use; so it does when the page is full and when malloc fails.
LEMMA AllocIs ==
  ASSUME NEW a, ArenaOK(a), NEW size \in Nat, NEW oom \in BOOLEAN,
         NEW new, new = Alloc(a, size, oom)
  PROVE  Allocated(a, new, size)
<1> DEFINE larger == PageFor(size, a.page_size)
           grown == [a EXCEPT !.page_size = larger]
           next == Fresh(larger - Overhead)
           paged == [grown EXCEPT !.pages = Append(a.pages, next), !.point = size]
           n == Len(a.pages)
<1>1. larger \in Nat \ {0} /\ larger - Overhead \in Nat /\ size <= larger - Overhead
  BY ArenaFacts, PageForFits
<1>2. next \in Seq(Memory) /\ Len(next) = larger - Overhead
  BY <1>1, FreshCells
<1>3. grown.page_size = larger /\ grown.pages = a.pages
  BY DEF ArenaOK, Arenas
<1>4. \/ /\ a.point + size <= Len(a.pages[n])
         /\ new = [ptr |-> <<n, a.point>>, arena |-> [a EXCEPT !.point = a.point + size]]
      \/ new = [ptr |-> NULL, arena |-> a]
      \/ new = [ptr |-> NULL, arena |-> grown]
      \/ new = [ptr |-> <<Len(paged.pages), 0>>, arena |-> paged]
  <2> HIDE DEF larger
  <2> QED BY <1>3 DEF Alloc, Thrown, Stop, Point, Current, larger
<1>5. Keeps(a, a)
  BY ArenaFacts DEF Keeps, Grown
<1>6. CASE /\ a.point + size <= Len(a.pages[n])
           /\ new = [ptr |-> <<n, a.point>>, arena |-> [a EXCEPT !.point = a.point + size]]
  <2>1. /\ new.arena \in Arenas /\ new.arena.pages = a.pages
        /\ new.arena.point = a.point + size /\ new.ptr = <<n, a.point>>
    <3>1. a.point + size \in Nat
      BY ArenaFacts
    <3>2. a \in Arenas
      BY DEF ArenaOK
    <3>3. new.ptr = <<n, a.point>> /\ new.arena = [a EXCEPT !.point = a.point + size]
      BY <1>6
    <3> HIDE DEF n
    <3>4. /\ new.arena \in Arenas /\ new.arena.pages = a.pages
          /\ new.arena.point = a.point + size
      BY <3>1, <3>2, <3>3 DEF Arenas
    <3> QED BY <3>3, <3>4
  <2>2. ArenaOK(new.arena)
    BY <1>6, <2>1 DEF ArenaOK
  <2>3. Keeps(a, new.arena)
    BY <2>1, ArenaFacts DEF Keeps, Grown
  <2>4. InUse(new.arena, new.ptr, size)
    BY <1>6, <2>1, ArenaFacts DEF InUse, OnPage, Addresses
  <2>5. Unused(a, new.ptr)
    BY <2>1, ArenaFacts DEF Unused, Addresses
  <2> QED BY <2>2, <2>3, <2>4, <2>5 DEF Allocated
<1>7. CASE new = [ptr |-> NULL, arena |-> a]
  BY <1>5, <1>7 DEF Allocated
<1>8. CASE new = [ptr |-> NULL, arena |-> grown]
  <2>1. new.ptr = NULL /\ new.arena = grown
    BY <1>8
  <2>2. grown \in Arenas /\ grown.pages = a.pages /\ grown.point = a.point
    BY <1>1 DEF ArenaOK, Arenas
  <2> HIDE DEF grown
  <2>3. ArenaOK(grown)
    BY <2>2 DEF ArenaOK
  <2>4. Keeps(a, grown)
    BY <1>5, <2>2 DEF Keeps, Grown
  <2> QED BY <2>1, <2>3, <2>4 DEF Allocated
<1>9. CASE new = [ptr |-> <<Len(paged.pages), 0>>, arena |-> paged]
  <2> DEFINE pages == Append(a.pages, next)
  <2>1. /\ pages \in Seq(Seq(Memory)) /\ Len(pages) = n + 1 /\ pages[n + 1] = next
        /\ \A p \in 1 .. n : pages[p] = a.pages[p]
    <3> HIDE DEF next
    <3> QED BY <1>2, ArenaFacts
  <2> HIDE DEF next, larger
  <2>2. paged.pages = pages /\ paged.point = size /\ paged \in Arenas
    BY <1>1, <1>3, <2>1 DEF ArenaOK, Arenas
  <2>3. new.ptr = <<n + 1, 0>> /\ new.arena = paged
    BY <1>9, <2>1, <2>2
  <2> HIDE DEF paged, pages, grown
  <2>4. n \in Nat /\ n > 0
    BY ArenaFacts
  <2> DEFINE usable == larger - Overhead
             last == n + 1
  <2>5. /\ usable \in Nat /\ size <= usable /\ Len(next) = usable
        /\ Len(a.pages) = n /\ last \in Nat \ {0} /\ n < last
        /\ Len(paged.pages) = last /\ paged.pages[last] = next
        /\ \A p \in 1 .. n : paged.pages[p] = a.pages[p]
    BY <1>1, <1>2, <2>1, <2>2, <2>4
  <2>6. ArenaOK(paged)
    <3> HIDE DEF n, usable, last
    <3> QED BY <2>2, <2>5 DEF ArenaOK
  <2>7. Keeps(a, paged)
    <3> HIDE DEF n, usable, last
    <3> QED BY <2>4, <2>5 DEF Keeps, Grown
  <2>8. InUse(paged, <<n + 1, 0>>, size)
    <3> HIDE DEF n, usable
    <3>1. last \in 1 .. Len(paged.pages) /\ <<last, 0>> \in Addresses
      BY <2>5 DEF Addresses
    <3> HIDE DEF last
    <3>2. OnPage(paged, <<last, 0>>, size)
      BY <2>5, <3>1 DEF OnPage
    <3>3. InUse(paged, <<last, 0>>, size)
      BY <2>2, <3>2 DEF InUse
    <3> QED BY <3>3 DEF last
  <2>9. Unused(a, <<n + 1, 0>>)
    BY <2>4 DEF Unused, Addresses
  <2> QED BY <2>3, <2>6, <2>7, <2>8, <2>9 DEF Allocated
<1> QED
  BY <1>4, <1>6, <1>7, <1>8, <1>9

\* What is written to a new block is no change of what was in use.
LEMMA WriteToNew ==
  ASSUME NEW a, ArenaOK(a), NEW size \in Nat, NEW new, Allocated(a, new, size),
         new.ptr # NULL, NEW cells \in Seq(Memory), Len(cells) <= size,
         NEW b, b = Write(new.arena, new.ptr, cells)
  PROVE  /\ ArenaOK(b) /\ Keeps(a, b) /\ InUse(b, new.ptr, size)
         /\ Read(b, new.ptr, Len(cells)) = cells
<1>1. ArenaOK(new.arena) /\ Keeps(a, new.arena)
      /\ InUse(new.arena, new.ptr, size) /\ Unused(a, new.ptr)
  BY DEF Allocated
<1>2. OnPage(new.arena, new.ptr, Len(cells)) /\ Len(cells) \in Nat
  <2>1. Len(cells) \in Nat /\ OnPage(new.arena, new.ptr, size)
    BY <1>1 DEF InUse
  <2>2. new.ptr[2] \in Nat /\ Len(new.arena.pages[new.ptr[1]]) \in Nat
    BY <1>1, <2>1, ArenaFacts DEF OnPage, Addresses
  <2>3. new.ptr[2] + size <= Len(new.arena.pages[new.ptr[1]])
    BY <2>1 DEF OnPage
  <2>4. new.ptr[2] + Len(cells) <= Len(new.arena.pages[new.ptr[1]])
    <3> DEFINE o == new.ptr[2]
               k == Len(cells)
               n == Len(new.arena.pages[new.ptr[1]])
    <3>1. o \in Nat /\ k \in Nat /\ n \in Nat /\ k <= size /\ o + size <= n
      BY <2>1, <2>2, <2>3
    <3> HIDE DEF o, k, n
    <3>2. o + k <= n
      BY <3>1
    <3> QED BY <3>2 DEF o, k, n
  <2> QED BY <2>1, <2>4 DEF OnPage
<1>3. /\ ArenaOK(b) /\ KeepsBut(new.arena, b, new.ptr, Len(cells))
      /\ InUse(b, new.ptr, size) /\ Read(b, new.ptr, Len(cells)) = cells
  BY <1>1, <1>2, WriteKeeps
<1>4. KeepsBut(a, b, new.ptr, Len(cells))
  BY <1>1, <1>3, KeepsThenKeepsBut
<1>5. Keeps(a, b)
  BY <1>1, <1>2, <1>4, UnusedIsNoChange
<1> QED
  BY <1>3, <1>5

\* The n cells at ptr are in use, or they are in the SQL buffer.
Readable(a, ptr, n) ==
  \/ ptr \in {0} \X Nat /\ ptr[2] + n <= Len(Sql)
  \/ InUse(a, ptr, n)

\* The statement is a piece of memory.
LEMMA SqlIsMemory == Sql \in Seq(Memory) /\ Len(Sql) \in Nat
<1>1. Sql \in Seq(Cells) /\ Cells \subseteq Memory
  BY Sizes DEF Memory
<1> QED
  BY <1>1, SeqMonotonic

\* A readable block reads as cells of memory, as many as were asked for.
LEMMA ReadableReads ==
  ASSUME NEW a, ArenaOK(a), NEW ptr, NEW n \in Nat, Readable(a, ptr, n)
  PROVE  Read(a, ptr, n) \in Seq(Memory) /\ Len(Read(a, ptr, n)) = n
<1>1. CASE ptr \in {0} \X Nat /\ ptr[2] + n <= Len(Sql)
  <2> DEFINE o == ptr[2]
  <2>1. o \in Nat /\ o + n <= Len(Sql) /\ Read(a, ptr, n) = SubSeq(Sql, o + 1, o + n)
    BY <1>1 DEF Read
  <2> HIDE DEF o
  <2>2. /\ SubSeq(Sql, o + 1, o + n) \in Seq(Memory)
        /\ Len(SubSeq(Sql, o + 1, o + n)) = n
    BY <2>1, SqlIsMemory
  <2> QED BY <2>1, <2>2
<1>2. CASE InUse(a, ptr, n)
  BY <1>2, ReadIs DEF InUse
<1> QED
  BY <1>1, <1>2 DEF Readable

\* A readable block stays readable and reads the same.
LEMMA ReadableKept ==
  ASSUME NEW a, ArenaOK(a), NEW b, ArenaOK(b), Keeps(a, b),
         NEW ptr, NEW n \in Nat, Readable(a, ptr, n)
  PROVE  Readable(b, ptr, n) /\ Read(b, ptr, n) = Read(a, ptr, n)
<1>1. CASE ptr \in {0} \X Nat /\ ptr[2] + n <= Len(Sql)
  BY <1>1 DEF Read, Readable
<1>2. CASE InUse(a, ptr, n)
  BY <1>2, KeptReads DEF Readable
<1> QED
  BY <1>1, <1>2 DEF Readable

\* A block is extended in place if it ends where the unused memory begins;
\* otherwise its content is copied to new memory.
Extended(a, ptr, n, new_ptr) ==
  new_ptr = ptr /\ InUse(a, ptr, n) /\ ptr[1] = Len(a.pages) /\ ptr[2] + n = a.point

Reallocated(a, ptr, n, new, size) ==
  /\ ArenaOK(new.arena) /\ Keeps(a, new.arena)
  /\ new.ptr # NULL =>
       /\ InUse(new.arena, new.ptr, size)
       /\ Unused(a, new.ptr) \/ Extended(a, ptr, n, new.ptr)

\* realloc_bytes returns a block that starts with the cells of the old one.
LEMMA ReallocIs ==
  ASSUME NEW a, ArenaOK(a), NEW ptr, NEW n \in Nat, Readable(a, ptr, n),
         NEW size \in Nat, n <= size, NEW oom \in BOOLEAN,
         NEW new, new = Realloc(a, ptr, size, n, oom)
  PROVE  Reallocated(a, ptr, n, new, size)
<1> DEFINE moved == Alloc(a, size, oom)
           kept == IF size < n THEN size ELSE n
           filled == [moved EXCEPT !.arena = Write(moved.arena, moved.ptr, Read(a, ptr, kept))]
           longer == [ptr |-> ptr, arena |-> [a EXCEPT !.point = a.point + (size - n)]]
<1>1. Allocated(a, moved, size)
  BY AllocIs
<1>2. kept = n
  BY DEF kept
<1>3. \/ EndsAtPoint(a, ptr, n) /\ ptr[2] + size <= Stop(a) /\ new = longer
      \/ moved.ptr = NULL /\ new = moved
      \/ moved.ptr # NULL /\ new = filled
  BY DEF Realloc
<1>4. CASE EndsAtPoint(a, ptr, n) /\ ptr[2] + size <= Stop(a) /\ new = longer
  <2>1. ptr[1] = Len(a.pages) /\ ptr[2] + n = a.point /\ ptr[2] + size <= Len(a.pages[Len(a.pages)])
    BY <1>4 DEF EndsAtPoint, Point, Current, Stop
  <2>2. InUse(a, ptr, n)
    BY <2>1, ArenaFacts DEF Readable
  <2>3. ptr \in Addresses /\ ptr[1] \in 1 .. Len(a.pages) /\ ptr[2] \in Nat
    BY <2>2 DEF InUse, OnPage, Addresses
  <2>4. a.point + (size - n) = ptr[2] + size /\ ptr[2] + size \in Nat
    BY <2>1, <2>3, ArenaFacts
  <2>5. new.ptr = ptr /\ new.arena = [a EXCEPT !.point = ptr[2] + size]
    BY <1>4, <2>4
  <2>6. /\ new.arena \in Arenas /\ new.arena.pages = a.pages
        /\ new.arena.point = ptr[2] + size
    <3>1. a \in Arenas
      BY DEF ArenaOK
    <3> QED BY <2>4, <2>5, <3>1 DEF Arenas
  <2>7. ArenaOK(new.arena)
    BY <2>1, <2>6 DEF ArenaOK
  <2>8. Keeps(a, new.arena)
    <3>1. a.point <= ptr[2] + size /\ Len(a.pages) <= Len(a.pages)
      BY <2>1, <2>3, ArenaFacts
    <3> QED BY <2>6, <3>1 DEF Keeps, Grown
  <2>9. InUse(new.arena, ptr, size)
    <3>1. ptr[2] + size <= ptr[2] + size
      BY <2>4
    <3> QED BY <2>1, <2>3, <2>6, <3>1 DEF InUse, OnPage
  <2> QED BY <2>1, <2>2, <2>5, <2>7, <2>8, <2>9 DEF Reallocated, Extended
<1>5. CASE moved.ptr = NULL /\ new = moved
  BY <1>1, <1>5 DEF Reallocated, Allocated
<1>6. CASE moved.ptr # NULL /\ new = filled
  <2> DEFINE content == Read(a, ptr, n)
  <2>1. content \in Seq(Memory) /\ Len(content) = n
    BY ReadableReads
  <2>2. new.ptr = moved.ptr /\ new.arena = Write(moved.arena, moved.ptr, content)
    <3>1. "arena" \in DOMAIN moved /\ "ptr" \in DOMAIN moved
      BY DEF Alloc, Thrown
    <3> HIDE DEF moved
    <3> QED BY <1>2, <1>6, <3>1
  <2> HIDE DEF moved, content
  <2>3. ArenaOK(new.arena) /\ Keeps(a, new.arena) /\ InUse(new.arena, moved.ptr, size)
    BY <1>1, <1>6, <2>1, <2>2, WriteToNew
  <2>4. Unused(a, moved.ptr)
    BY <1>1, <1>6 DEF Allocated
  <2> QED BY <2>2, <2>3, <2>4 DEF Reallocated
<1> QED
  BY <1>3, <1>4, <1>5, <1>6

-----------------------------------------------------------------------------
(* The strings                                                               *)

\* s and other are side by side in b, at ptr, and all else is as in a.
Joined(a, b, ptr, s, other) ==
  /\ ArenaOK(b) /\ Keeps(a, b) /\ InUse(b, ptr, s.len + other.len)
  /\ Read(b, ptr, s.len + other.len) = Read(a, s.str, s.len) \o Read(a, other.str, other.len)

\* LexString::concat leaves the first text followed by the second in the new block.
LEMMA ConcatenatedIs ==
  ASSUME NEW a, ArenaOK(a), NEW s, NEW other, s.len \in Nat, other.len \in Nat,
         Readable(a, s.str, s.len), Readable(a, other.str, other.len),
         NEW new, Reallocated(a, s.str, s.len, new, s.len + other.len), new.ptr # NULL,
         NEW b, b = Concatenated(new.arena, new.ptr, s, other)
  PROVE  Joined(a, b, new.ptr, s, other)
<1> DEFINE m == s.len
           n == other.len
           ptr == new.ptr
           mid == <<ptr[1], ptr[2] + m>>
           a1 == new.arena
           first == Read(a, s.str, m)
           second == Read(a, other.str, n)
           left == Write(a1, ptr, Read(a1, s.str, m))
<1>1. /\ ArenaOK(a1) /\ Keeps(a, a1) /\ InUse(a1, ptr, m + n)
      /\ Unused(a, ptr) \/ Extended(a, s.str, m, ptr)
  BY DEF Reallocated
<1>2. /\ first \in Seq(Memory) /\ Len(first) = m
      /\ second \in Seq(Memory) /\ Len(second) = n
  BY ReadableReads
<1>3. Read(a1, s.str, m) = first /\ Readable(a1, s.str, m)
  BY <1>1, ReadableKept
<1>4. m \in Nat /\ n \in Nat
  OBVIOUS
<1>5. ptr \in Addresses /\ ptr[1] \in Nat /\ ptr[2] \in Nat /\ mid \in Addresses
  BY <1>1, <1>4 DEF InUse, OnPage, Addresses
<1>6. OnPage(a1, ptr, m + n) /\ OnPage(a1, ptr, m) /\ OnPage(a1, mid, n)
  <2>1. OnPage(a1, ptr, m + n)
    BY <1>1 DEF InUse
  <2> HIDE DEF m, n, ptr, a1
  <2> QED BY <1>1, <1>4, <2>1, ReadJoined
<1>7. b = Write(left, mid, Read(left, other.str, n))
  BY DEF Concatenated
<1>8. /\ ArenaOK(left) /\ KeepsBut(a1, left, ptr, m) /\ InUse(left, ptr, m + n)
      /\ OnPage(left, mid, n) /\ Read(left, ptr, m) = first
  <2> HIDE DEF m, n, ptr, a1, mid, first
  <2> QED BY <1>1, <1>2, <1>3, <1>4, <1>6, WriteKeeps
<1>9. Keeps(a, left)
  <2>1. CASE Unused(a, ptr)
    <3> HIDE DEF m, n, ptr, a1, mid, first, left
    <3>1. KeepsBut(a, left, ptr, m)
      BY <1>1, <1>8, KeepsThenKeepsBut
    <3> QED BY <1>4, <2>1, <3>1, UnusedIsNoChange
  <2>2. CASE Extended(a, s.str, m, ptr)
    <3>1. left = Write(a1, ptr, Read(a1, ptr, m))
      BY <2>2 DEF Extended
    <3> HIDE DEF m, n, ptr, a1, mid, first, left
    <3>2. Keeps(a1, left)
      BY <1>1, <1>4, <1>6, <3>1, WriteBack
    <3> QED BY <1>1, <1>8, <3>2, KeepsTwice
  <2> QED BY <1>1, <2>1, <2>2
<1>10. Read(left, other.str, n) = second
  BY <1>8, <1>9, ReadableKept
<1>11. Unused(a, mid)
  <2>1. CASE Unused(a, ptr)
    BY <1>4, <1>5, <2>1, ArenaFacts DEF Unused
  <2>2. CASE Extended(a, s.str, m, ptr)
    <3>1. mid[1] = Len(a.pages) /\ mid[2] = a.point
      BY <2>2 DEF Extended
    <3> QED BY <1>5, <3>1, ArenaFacts DEF Unused
  <2> QED BY <1>1, <2>1, <2>2
<1> HIDE DEF m, n, ptr, a1, first, second, left
<1>12. /\ ArenaOK(b) /\ KeepsBut(left, b, mid, n) /\ InUse(b, ptr, m + n)
       /\ Read(b, mid, n) = second
  <2> HIDE DEF mid
  <2> QED BY <1>2, <1>7, <1>8, <1>10, WriteKeeps
<1>13. Keeps(a, b)
  <2> HIDE DEF mid
  <2>1. KeepsBut(a, b, mid, n)
    BY <1>8, <1>9, <1>12, KeepsThenKeepsBut
  <2> QED BY <1>4, <1>11, <2>1, UnusedIsNoChange
<1>14. Read(b, ptr, m) = first
  <2>1. InUse(left, ptr, m)
    <3>1. /\ ptr[1] \in 1 .. Len(left.pages) /\ ptr[2] + (m + n) <= Len(left.pages[ptr[1]])
          /\ ptr[1] = Len(left.pages) => ptr[2] + (m + n) <= left.point
      BY <1>8 DEF InUse, OnPage
    <3>2. Len(left.pages[ptr[1]]) \in Nat /\ left.point \in Nat
      BY <1>8, <3>1, ArenaFacts
    <3> DEFINE o == ptr[2]
               size == Len(left.pages[ptr[1]])
               point == left.point
    <3>3. \A k \in Nat : o + (m + n) <= k => o + m <= k
      <4>1. o \in Nat
        BY <1>5
      <4> HIDE DEF o
      <4> QED BY <1>4, <4>1
    <3>4. /\ o + m <= size
          /\ ptr[1] = Len(left.pages) => o + m <= point
      <4>1. /\ o + (m + n) <= size /\ size \in Nat /\ point \in Nat
            /\ ptr[1] = Len(left.pages) => o + (m + n) <= point
        BY <3>1, <3>2
      <4> HIDE DEF o, size, point
      <4> QED BY <3>3, <4>1
    <3> QED BY <1>5, <3>1, <3>4 DEF InUse, OnPage
  <2>2. Apart(ptr, m, mid, n)
    BY <1>4, <1>5 DEF Apart
  <2> HIDE DEF mid
  <2> QED BY <1>4, <1>5, <1>8, <1>12, <2>1, <2>2, KeptButReads
<1>15. Read(b, ptr, m + n) = first \o second
  <2>1. ArenaOK(b) /\ OnPage(b, ptr, m + n)
    BY <1>12 DEF InUse
  <2>2. Read(b, ptr, m + n) = Read(b, ptr, m) \o Read(b, <<ptr[1], ptr[2] + m>>, n)
    <3>1. SplitRead(b, ptr, m, n)
      BY <1>4, <2>1, ReadJoined
    <3> QED BY <3>1 DEF SplitRead
  <2> QED BY <1>12, <1>14, <2>2
<1> QED
  BY <1>12, <1>13, <1>15 DEF Joined, m, n, ptr, first, second

-----------------------------------------------------------------------------
(* The arrays                                                                *)

Arrays == [pages : Addresses \cup {NULL}, item_count : Nat, pages_capacity : Nat,
           items : Seq(Items)]

\* The page of item i.
PageFrom(a, arr, i) == PageOf(a, arr, PageNo(i))

\* The table and the pages of the first k items are in use and have no cell in
\* common.
TableOK(a, arr, k) ==
  /\ arr.pages_capacity > 0 => InUse(a, arr.pages, arr.pages_capacity)
  /\ \A i \in 0 .. (k - 1) :
       /\ PageNo(i) < arr.pages_capacity
       /\ InUse(a, PageFrom(a, arr, i), ItemsPerPage)
       /\ Apart(PageFrom(a, arr, i), ItemsPerPage, arr.pages, arr.pages_capacity)
  /\ \A i, j \in 0 .. (k - 1) :
       PageNo(i) # PageNo(j) =>
         Apart(PageFrom(a, arr, i), ItemsPerPage, PageFrom(a, arr, j), ItemsPerPage)

HoldsItems(a, arr) ==
  \A i \in 0 .. (arr.item_count - 1) : ItemAt(a, arr, i) = arr.items[i + 1]

Counted(arr) == arr \in Arrays /\ arr.item_count = Len(arr.items)

ArrayOK(a, arr) == Counted(arr) /\ TableOK(a, arr, arr.item_count) /\ HoldsItems(a, arr)

\* The m cells at q have nothing in common with the table and the pages of the
\* first k items.
Off(a, arr, k, q, m) ==
  /\ arr.pages_capacity > 0 => Apart(q, m, arr.pages, arr.pages_capacity)
  /\ \A i \in 0 .. (k - 1) : Apart(q, m, PageFrom(a, arr, i), ItemsPerPage)

\* Between a, where arr has k pages, and b, where it is new and has l, no cell
\* has changed that has nothing to do with it.
Undisturbed(a, arr, k, b, new, l) ==
  \A q : \A m \in Nat :
    InUse(a, q, m) /\ Off(a, arr, k, q, m) =>
      InUse(b, q, m) /\ Read(b, q, m) = Read(a, q, m) /\ Off(b, new, l, q, m)

SamePages(a, arr, b, new, k) ==
  \A i \in 0 .. (k - 1) : PageFrom(b, new, i) = PageFrom(a, arr, i)

\* A part of a block in use is in use.
LEMMA PartInUse ==
  ASSUME NEW a, ArenaOK(a), NEW ptr, NEW n \in Nat, InUse(a, ptr, n),
         NEW i \in Nat, NEW k \in Nat, i + k <= n
  PROVE  /\ InUse(a, <<ptr[1], ptr[2] + i>>, k)
         /\ ptr \in Addresses /\ <<ptr[1], ptr[2] + i>> \in Addresses
<1> DEFINE p == ptr[1]
           o == ptr[2]
           size == Len(a.pages[p])
           point == a.point
<1>1. /\ ptr \in Addresses /\ p \in Nat /\ o \in Nat /\ p \in 1 .. Len(a.pages)
      /\ o + n <= size /\ (p = Len(a.pages) => o + n <= point)
  BY DEF InUse, OnPage, Addresses
<1>2. size \in Nat /\ point \in Nat
  BY <1>1, ArenaFacts
<1>3. (o + i) + k <= size /\ (p = Len(a.pages) => (o + i) + k <= point) /\ o + i \in Nat
  <2> HIDE DEF p, o, size, point
  <2> QED BY <1>1, <1>2
<1> QED
  BY <1>1, <1>3 DEF InUse, OnPage, Addresses

EntryOf(arr, n) == <<arr.pages[1], arr.pages[2] + n>>

\* The entries of the page table are in use.
LEMMA EntryInUse ==
  ASSUME NEW a, ArenaOK(a), NEW arr, arr.pages_capacity \in Nat,
         InUse(a, arr.pages, arr.pages_capacity), NEW n \in Nat, n < arr.pages_capacity
  PROVE  /\ InUse(a, EntryOf(arr, n), 1) /\ EntryOf(arr, n) \in Addresses
         /\ arr.pages \in Addresses
         /\ PageOf(a, arr, n) = Read(a, EntryOf(arr, n), 1)[1]
<1>1. n + 1 <= arr.pages_capacity
  OBVIOUS
<1> QED
  BY <1>1, PartInUse DEF EntryOf, PageOf

\* An entry of the table is apart from what the table is apart from.
LEMMA EntryIsApart ==
  ASSUME NEW arr, arr.pages_capacity \in Nat, arr.pages \in Addresses,
         NEW n \in Nat, n < arr.pages_capacity,
         NEW q \in Addresses, NEW m \in Nat, Apart(q, m, arr.pages, arr.pages_capacity)
  PROVE  Apart(q, m, EntryOf(arr, n), 1)
<1>1. n + 1 <= arr.pages_capacity
  OBVIOUS
<1> QED
  BY <1>1, PartIsApart DEF EntryOf

\* The place of an item is a part of its page.
LEMMA PlaceInUse ==
  ASSUME NEW a, ArenaOK(a), NEW arr, NEW i \in Nat,
         InUse(a, PageFrom(a, arr, i), ItemsPerPage)
  PROVE  /\ AddressOf(a, arr, i) = <<PageFrom(a, arr, i)[1], PageFrom(a, arr, i)[2] + Slot(i)>>
         /\ InUse(a, AddressOf(a, arr, i), 1) /\ AddressOf(a, arr, i) \in Addresses
         /\ PageFrom(a, arr, i) \in Addresses
         /\ ItemAt(a, arr, i) = Read(a, AddressOf(a, arr, i), 1)[1]
<1>1. Slot(i) \in Nat /\ Slot(i) + 1 <= ItemsPerPage /\ ItemsPerPage \in Nat
  BY Division, Sizes
<1>2. AddressOf(a, arr, i) = <<PageFrom(a, arr, i)[1], PageFrom(a, arr, i)[2] + Slot(i)>>
  BY DEF AddressOf, PageFrom, PageNo, Slot
<1> QED
  BY <1>1, <1>2, PartInUse DEF ItemAt

\* What is apart from a page is apart from the place of each of its items.
LEMMA PlaceIsApart ==
  ASSUME NEW a, ArenaOK(a), NEW arr, NEW i \in Nat,
         InUse(a, PageFrom(a, arr, i), ItemsPerPage),
         NEW q \in Addresses, NEW m \in Nat,
         Apart(q, m, PageFrom(a, arr, i), ItemsPerPage)
  PROVE  Apart(q, m, AddressOf(a, arr, i), 1)
<1>1. Slot(i) \in Nat /\ Slot(i) + 1 <= ItemsPerPage /\ ItemsPerPage \in Nat
  BY Division, Sizes
<1> QED
  BY <1>1, PlaceInUse, PartIsApart

\* Where the pages are the same, everything else about the array is, too.
LEMMA SamePagesSame ==
  ASSUME NEW a, NEW b, NEW arr, NEW new, NEW k, SamePages(a, arr, b, new, k)
  PROVE  \A i \in 0 .. (k - 1) : AddressOf(b, new, i) = AddressOf(a, arr, i)
  BY DEF SamePages, AddressOf, PageFrom, PageNo

\* The types of a counted array.
LEMMA CountedFacts ==
  ASSUME NEW arr, Counted(arr)
  PROVE  /\ arr.item_count \in Nat /\ arr.pages_capacity \in Nat
         /\ arr.items \in Seq(Items) /\ arr.item_count = Len(arr.items)
         /\ arr.pages \in Addresses \cup {NULL}
  BY DEF Counted, Arrays

\* The places of two different items are different.
LEMMA PlacesAreApart ==
  ASSUME NEW a, ArenaOK(a), NEW arr, NEW k \in Nat, TableOK(a, arr, k),
         NEW i \in 0 .. (k - 1), NEW j \in 0 .. (k - 1), i # j
  PROVE  Apart(AddressOf(a, arr, i), 1, AddressOf(a, arr, j), 1)
<1>1. i \in Nat /\ j \in Nat /\ ItemsPerPage \in Nat
  BY Sizes
<1>2. /\ InUse(a, PageFrom(a, arr, i), ItemsPerPage)
      /\ InUse(a, PageFrom(a, arr, j), ItemsPerPage)
      /\ PageNo(i) # PageNo(j) =>
           Apart(PageFrom(a, arr, i), ItemsPerPage, PageFrom(a, arr, j), ItemsPerPage)
  BY DEF TableOK
<1>3. /\ AddressOf(a, arr, i) \in Addresses /\ PageFrom(a, arr, i) \in Addresses
      /\ AddressOf(a, arr, j) \in Addresses /\ PageFrom(a, arr, j) \in Addresses
      /\ AddressOf(a, arr, i) = <<PageFrom(a, arr, i)[1], PageFrom(a, arr, i)[2] + Slot(i)>>
      /\ AddressOf(a, arr, j) = <<PageFrom(a, arr, j)[1], PageFrom(a, arr, j)[2] + Slot(j)>>
  BY <1>1, <1>2, PlaceInUse
<1>4. CASE PageNo(i) = PageNo(j)
  <2>1. Slot(i) # Slot(j) /\ Slot(i) \in Nat /\ Slot(j) \in Nat
    BY <1>1, <1>4, Division, OneSlotEach
  <2>2. PageFrom(a, arr, i) = PageFrom(a, arr, j) /\ PageFrom(a, arr, j)[2] \in Nat
    BY <1>3, <1>4 DEF PageFrom, Addresses
  <2> DEFINE o == PageFrom(a, arr, j)[2]
  <2>3. AddressOf(a, arr, i)[2] = o + Slot(i) /\ AddressOf(a, arr, j)[2] = o + Slot(j)
    BY <1>3, <2>2
  <2>4. o + Slot(i) + 1 <= o + Slot(j) \/ o + Slot(j) + 1 <= o + Slot(i)
    BY <2>1, <2>2
  <2> QED BY <2>3, <2>4 DEF Apart
<1>5. CASE PageNo(i) # PageNo(j)
  <2>1. Apart(PageFrom(a, arr, i), ItemsPerPage, AddressOf(a, arr, j), 1)
    BY <1>1, <1>2, <1>3, <1>5, PlaceIsApart
  <2>2. Apart(AddressOf(a, arr, j), 1, PageFrom(a, arr, i), ItemsPerPage)
    BY <2>1, ApartIsSymmetric
  <2>3. Apart(AddressOf(a, arr, j), 1, AddressOf(a, arr, i), 1)
    BY <1>1, <1>2, <1>3, <2>2, PlaceIsApart
  <2> QED BY <2>3, ApartIsSymmetric
<1> QED
  BY <1>4, <1>5

\* y has no cell in common with the table and the first k pages of x.
Separate(a, x, k, y) ==
  /\ y.pages_capacity > 0 => Off(a, x, k, y.pages, y.pages_capacity)
  /\ \A i \in 0 .. (y.item_count - 1) : Off(a, x, k, PageFrom(a, y, i), ItemsPerPage)

\* A part of a block is off the array when the block is.
LEMMA PartIsOff ==
  ASSUME NEW a, NEW x, x.pages_capacity \in Nat, NEW k \in Nat, TableOK(a, x, k),
         NEW q \in Addresses, NEW m \in Nat, Off(a, x, k, q, m),
         NEW i \in Nat, NEW n \in Nat, i + n <= m
  PROVE  Off(a, x, k, <<q[1], q[2] + i>>, n)
<1> DEFINE part == <<q[1], q[2] + i>>
<1>1. part \in Addresses /\ ItemsPerPage \in Nat
  BY Sizes DEF Addresses
<1>2. \A ptr \in Addresses : \A l \in Nat : Apart(q, m, ptr, l) => Apart(part, n, ptr, l)
  <2> SUFFICES ASSUME NEW ptr \in Addresses, NEW l \in Nat, Apart(q, m, ptr, l)
               PROVE  Apart(part, n, ptr, l)
    OBVIOUS
  <2>1. Apart(ptr, l, q, m)
    BY ApartIsSymmetric
  <2>2. Apart(ptr, l, part, n)
    BY <2>1, PartIsApart
  <2> QED BY <2>2, ApartIsSymmetric
<1> HIDE DEF part
<1>3. x.pages_capacity > 0 => Apart(part, n, x.pages, x.pages_capacity)
  BY <1>2 DEF Off, TableOK, InUse, OnPage
<1>4. \A j \in 0 .. (k - 1) : Apart(part, n, PageFrom(a, x, j), ItemsPerPage)
  BY <1>1, <1>2 DEF Off, TableOK, InUse, OnPage
<1> QED
  BY <1>3, <1>4 DEF Off, part

\* An array is as it was after a step that leaves its cells alone.
LEMMA OtherArray ==
  ASSUME NEW a, ArenaOK(a), NEW b, ArenaOK(b),
         NEW x, x.pages_capacity \in Nat, NEW k \in Nat, TableOK(a, x, k),
         NEW x2, NEW l \in Nat, Undisturbed(a, x, k, b, x2, l),
         NEW y, ArrayOK(a, y), Separate(a, x, k, y)
  PROVE  /\ ArrayOK(b, y) /\ SamePages(a, y, b, y, y.item_count) /\ Separate(b, x2, l, y)
<1> DEFINE cap == y.pages_capacity
           c == y.item_count
<1>1. /\ Counted(y) /\ TableOK(a, y, c) /\ HoldsItems(a, y)
      /\ cap \in Nat /\ c \in Nat /\ ItemsPerPage \in Nat /\ 1 \in Nat
  BY CountedFacts, Sizes DEF ArrayOK
<1>2. cap > 0 => /\ InUse(a, y.pages, cap) /\ InUse(b, y.pages, cap)
                 /\ Off(b, x2, l, y.pages, cap)
  BY <1>1 DEF TableOK, Separate, Undisturbed
<1>3. \A n \in Nat : n < cap => PageOf(b, y, n) = PageOf(a, y, n)
  <2> SUFFICES ASSUME NEW n \in Nat, n < cap PROVE PageOf(b, y, n) = PageOf(a, y, n)
    OBVIOUS
  <2>1. cap > 0 /\ n + 1 <= cap
    BY <1>1
  <2>2. /\ InUse(a, EntryOf(y, n), 1) /\ y.pages \in Addresses
        /\ PageOf(a, y, n) = Read(a, EntryOf(y, n), 1)[1]
        /\ PageOf(b, y, n) = Read(b, EntryOf(y, n), 1)[1]
    BY <1>1, <1>2, <2>1, EntryInUse
  <2>3. Off(a, x, k, EntryOf(y, n), 1)
    BY <1>1, <2>1, <2>2, PartIsOff DEF EntryOf, Separate
  <2>4. Read(b, EntryOf(y, n), 1) = Read(a, EntryOf(y, n), 1)
    <3> DEFINE entry == EntryOf(y, n)
    <3>1. InUse(a, entry, 1) /\ Off(a, x, k, entry, 1) /\ 1 \in Nat
      BY <2>2, <2>3
    <3> HIDE DEF entry
    <3>2. Read(b, entry, 1) = Read(a, entry, 1)
      BY <3>1 DEF Undisturbed
    <3> QED BY <3>2 DEF entry
  <2> QED BY <2>2, <2>4
<1>4. \A i \in 0 .. (c - 1) : i \in Nat /\ PageNo(i) \in Nat /\ PageNo(i) < cap
  BY <1>1, Division DEF TableOK
<1>5. \A i \in 0 .. (c - 1) : PageFrom(b, y, i) = PageFrom(a, y, i)
  BY <1>3, <1>4 DEF PageFrom
<1>6. \A i \in 0 .. (c - 1) :
        /\ InUse(a, PageFrom(a, y, i), ItemsPerPage) /\ InUse(b, PageFrom(b, y, i), ItemsPerPage)
        /\ Off(b, x2, l, PageFrom(b, y, i), ItemsPerPage)
  BY <1>1, <1>5 DEF TableOK, Separate, Undisturbed
<1>7. TableOK(b, y, c)
  BY <1>1, <1>2, <1>5, <1>6 DEF TableOK
<1>8. HoldsItems(b, y)
  <2> SUFFICES ASSUME NEW i \in 0 .. (c - 1) PROVE ItemAt(b, y, i) = ItemAt(a, y, i)
    BY <1>1 DEF HoldsItems
  <2> DEFINE ptr == AddressOf(a, y, i)
  <2>1. AddressOf(b, y, i) = ptr
    BY <1>5 DEF AddressOf, PageFrom, PageNo
  <2>2. /\ InUse(a, ptr, 1) /\ PageFrom(a, y, i) \in Addresses
        /\ ptr = <<PageFrom(a, y, i)[1], PageFrom(a, y, i)[2] + Slot(i)>>
        /\ ItemAt(a, y, i) = Read(a, ptr, 1)[1]
        /\ ItemAt(b, y, i) = Read(b, ptr, 1)[1]
    BY <1>4, <1>6, <2>1, PlaceInUse
  <2>3. Slot(i) \in Nat /\ Slot(i) + 1 <= ItemsPerPage
    <3>1. i \in Nat /\ ItemsPerPage \in Nat
      BY <1>4, Sizes
    <3>2. Slot(i) \in 0 .. (ItemsPerPage - 1)
      BY <3>1, Division
    <3> QED BY <3>1, <3>2
  <2>4. Off(a, x, k, ptr, 1)
    BY <1>1, <2>2, <2>3, PartIsOff DEF Separate
  <2>5. Read(b, ptr, 1) = Read(a, ptr, 1)
    BY <1>1, <2>2, <2>4 DEF Undisturbed
  <2> QED BY <2>2, <2>5
<1> QED
  BY <1>1, <1>2, <1>5, <1>6, <1>7, <1>8 DEF ArrayOK, SamePages, Separate

\* What is kept is kept for an array.
LEMMA KeptArray ==
  ASSUME NEW a, ArenaOK(a), NEW b, ArenaOK(b), Keeps(a, b), NEW y, ArrayOK(a, y)
  PROVE  ArrayOK(b, y) /\ SamePages(a, y, b, y, y.item_count)
<1> DEFINE x == EmptyArray
<1>1. x.pages_capacity = 0 /\ 0 .. (0 - 1) = {}
  BY DEF EmptyArray
<1>2. TableOK(a, x, 0) /\ \A q, m : Off(a, x, 0, q, m) /\ Off(b, x, 0, q, m)
  BY <1>1 DEF TableOK, Off
<1>3. Undisturbed(a, x, 0, b, x, 0)
  BY <1>2, KeptReads DEF Undisturbed
<1>4. Separate(a, x, 0, y)
  BY <1>2 DEF Separate
<1> HIDE DEF x
<1> QED
  BY <1>1, <1>2, <1>3, <1>4, OtherArray

\* What is off an array stays so while its pages are the same.
LEMMA StaysOff ==
  ASSUME NEW a, NEW b, NEW arr, NEW k, SamePages(a, arr, b, arr, k), NEW q, NEW m
  PROVE  Off(a, arr, k, q, m) <=> Off(b, arr, k, q, m)
  BY DEF SamePages, Off

\* A step that keeps all memory and leaves the array alone disturbs nothing.
LEMMA KeptUndisturbed ==
  ASSUME NEW a, ArenaOK(a), NEW b, ArenaOK(b), Keeps(a, b), NEW arr, NEW k,
         SamePages(a, arr, b, arr, k)
  PROVE  Undisturbed(a, arr, k, b, arr, k)
  BY KeptReads, StaysOff DEF Undisturbed

\* Two steps that disturb nothing disturb nothing.
LEMMA UndisturbedTwice ==
  ASSUME NEW a, NEW x, NEW k, NEW b, NEW y, NEW l, NEW c, NEW z, NEW n,
         Undisturbed(a, x, k, b, y, l), Undisturbed(b, y, l, c, z, n)
  PROVE  Undisturbed(a, x, k, c, z, n)
  BY DEF Undisturbed

-----------------------------------------------------------------------------
(* A push                                                                    *)

\* Unless it is the first on its page, there is a page for the next item.
LEMMA PageIsThere ==
  ASSUME NEW a, NEW arr, Counted(arr), TableOK(a, arr, arr.item_count),
         Slot(arr.item_count) # 0
  PROVE  /\ TableOK(a, arr, arr.item_count + 1)
         /\ \A q, m : Off(a, arr, arr.item_count, q, m) <=> Off(a, arr, arr.item_count + 1, q, m)
<1> DEFINE c == arr.item_count
<1>1. c \in Nat
  BY CountedFacts
<1>2. c - 1 \in Nat /\ PageNo(c - 1) = PageNo(c)
  BY <1>1, NotFirstOfPage
<1>3. /\ c - 1 \in 0 .. (c - 1) /\ PageFrom(a, arr, c - 1) = PageFrom(a, arr, c)
      /\ 0 .. (c - 1) \subseteq 0 .. ((c + 1) - 1)
      /\ \A i \in 0 .. ((c + 1) - 1) : i \in 0 .. (c - 1) \/ i = c
  BY <1>1, <1>2 DEF PageFrom
<1> DEFINE before(i) == IF i = c THEN c - 1 ELSE i
<1>4. \A i \in 0 .. ((c + 1) - 1) :
        /\ before(i) \in 0 .. (c - 1) /\ PageNo(before(i)) = PageNo(i)
        /\ PageFrom(a, arr, before(i)) = PageFrom(a, arr, i)
  BY <1>2, <1>3
<1> HIDE DEF before
<1>5. TableOK(a, arr, c + 1)
  <2>1. arr.pages_capacity > 0 => InUse(a, arr.pages, arr.pages_capacity)
    BY DEF TableOK
  <2>2. \A i \in 0 .. ((c + 1) - 1) :
          /\ PageNo(i) < arr.pages_capacity
          /\ InUse(a, PageFrom(a, arr, i), ItemsPerPage)
          /\ Apart(PageFrom(a, arr, i), ItemsPerPage, arr.pages, arr.pages_capacity)
    <3> SUFFICES ASSUME NEW i \in 0 .. ((c + 1) - 1)
                 PROVE  /\ PageNo(i) < arr.pages_capacity
                        /\ InUse(a, PageFrom(a, arr, i), ItemsPerPage)
                        /\ Apart(PageFrom(a, arr, i), ItemsPerPage, arr.pages, arr.pages_capacity)
      OBVIOUS
    <3> DEFINE j == before(i)
    <3>1. j \in 0 .. (c - 1) /\ PageNo(j) = PageNo(i) /\ PageFrom(a, arr, j) = PageFrom(a, arr, i)
      BY <1>4
    <3> HIDE DEF j
    <3> QED BY <3>1 DEF TableOK
  <2>3. ASSUME NEW i \in 0 .. ((c + 1) - 1), NEW j \in 0 .. ((c + 1) - 1),
               PageNo(i) # PageNo(j)
        PROVE  Apart(PageFrom(a, arr, i), ItemsPerPage, PageFrom(a, arr, j), ItemsPerPage)
    <3> DEFINE i1 == before(i)
               j1 == before(j)
    <3>1. /\ i1 \in 0 .. (c - 1) /\ j1 \in 0 .. (c - 1) /\ PageNo(i1) # PageNo(j1)
          /\ PageFrom(a, arr, i1) = PageFrom(a, arr, i)
          /\ PageFrom(a, arr, j1) = PageFrom(a, arr, j)
      BY <1>4, <2>3
    <3> HIDE DEF i1, j1
    <3> QED BY <3>1 DEF TableOK
  <2> QED BY <2>1, <2>2, <2>3 DEF TableOK
<1>6. \A q, m : Off(a, arr, c, q, m) <=> Off(a, arr, c + 1, q, m)
  <2> SUFFICES ASSUME NEW q, NEW m PROVE Off(a, arr, c, q, m) <=> Off(a, arr, c + 1, q, m)
    OBVIOUS
  <2>1. ASSUME Off(a, arr, c, q, m) PROVE Off(a, arr, c + 1, q, m)
    BY <1>4, <2>1 DEF Off
  <2>2. ASSUME Off(a, arr, c + 1, q, m) PROVE Off(a, arr, c, q, m)
    BY <1>3, <2>2 DEF Off
  <2> QED BY <2>1, <2>2
<1> QED
  BY <1>5, <1>6

\* The item is stored where there is a page for it.
LEMMA StoreItemIs ==
  ASSUME NEW a, ArenaOK(a), NEW arr, Counted(arr), HoldsItems(a, arr),
         TableOK(a, arr, arr.item_count + 1), NEW item \in Items,
         NEW s, s = StoreItem([ok |-> TRUE, arena |-> a, arr |-> arr], item)
  PROVE  /\ ArenaOK(s.arena) /\ ArrayOK(s.arena, s.arr)
         /\ s.arr.item_count = arr.item_count + 1
         /\ Undisturbed(a, arr, arr.item_count + 1, s.arena, s.arr, arr.item_count + 1)
         /\ SamePages(a, arr, s.arena, s.arr, arr.item_count + 1)
<1> DEFINE c == arr.item_count
           cap == arr.pages_capacity
           ptr == AddressOf(a, arr, c)
           b == Write(a, ptr, <<item>>)
           new == [arr EXCEPT !.item_count = c + 1, !.items = Append(arr.items, item)]
<1>1. /\ c \in Nat /\ cap \in Nat /\ arr.items \in Seq(Items) /\ c = Len(arr.items)
      /\ ItemsPerPage \in Nat /\ arr \in Arrays
  BY CountedFacts, Sizes DEF Counted
<1>2. s.arena = b /\ s.arr = new
  BY DEF StoreItem
<1>3. /\ new \in Arrays /\ new.item_count = c + 1 /\ new.items = Append(arr.items, item)
      /\ new.pages = arr.pages /\ new.pages_capacity = cap
  <2>1. Append(arr.items, item) \in Seq(Items) /\ c + 1 \in Nat
    BY <1>1
  <2> DEFINE more == Append(arr.items, item)
             c1 == c + 1
  <2> HIDE DEF more, c1
  <2>2. /\ new \in Arrays /\ new.item_count = c1 /\ new.items = more
        /\ new.pages = arr.pages /\ new.pages_capacity = cap
    <3>1. more \in Seq(Items) /\ c1 \in Nat /\ new = [arr EXCEPT !.item_count = c1, !.items = more]
      BY <2>1 DEF more, c1
    <3> HIDE DEF new
    <3> QED BY <1>1, <3>1 DEF Arrays
  <2> QED BY <2>2 DEF more, c1
<1>4. Counted(new)
  BY <1>1, <1>3 DEF Counted
<1>5. c \in 0 .. ((c + 1) - 1) /\ \A i \in 0 .. ((c + 1) - 1) : i \in Nat /\ (i = c \/ i \in 0 .. (c - 1))
  BY <1>1
<1>6. /\ cap > 0 => InUse(a, arr.pages, cap)
      /\ \A i \in 0 .. ((c + 1) - 1) :
           /\ PageNo(i) < cap /\ InUse(a, PageFrom(a, arr, i), ItemsPerPage)
           /\ Apart(PageFrom(a, arr, i), ItemsPerPage, arr.pages, cap)
  BY DEF TableOK
<1>7. cap > 0
  <2>1. PageNo(c) < cap /\ PageNo(c) \in Nat
    BY <1>1, <1>5, <1>6, Division
  <2> QED BY <1>1, <2>1
<1>8. /\ InUse(a, ptr, 1) /\ ptr \in Addresses /\ <<item>> \in Seq(Memory) /\ Len(<<item>>) = 1
  <2>1. item \in Memory
    BY ContentAssumption DEF Memory
  <2> QED BY <1>1, <1>5, <1>6, <2>1, PlaceInUse
<1> HIDE DEF c, cap, ptr, b, new
<1>9. /\ ArenaOK(b) /\ KeepsBut(a, b, ptr, 1) /\ Read(b, ptr, 1) = <<item>>
      /\ \A q, m : InUse(a, q, m) => InUse(b, q, m)
  <2> DEFINE cells == <<item>>
  <2>1. OnPage(a, ptr, 1) /\ cells \in Seq(Memory) /\ Len(cells) = 1 /\ b = Write(a, ptr, cells)
    BY <1>8 DEF InUse, b
  <2> HIDE DEF cells
  <2>2. /\ ArenaOK(b) /\ KeepsBut(a, b, ptr, 1) /\ Read(b, ptr, 1) = cells
        /\ \A q, m : InUse(a, q, m) => InUse(b, q, m)
    <3>1. OnPage(a, ptr, Len(cells))
      BY <2>1
    <3>2. /\ ArenaOK(b) /\ KeepsBut(a, b, ptr, Len(cells)) /\ Read(b, ptr, Len(cells)) = cells
      BY <2>1, <3>1, WriteKeeps
    <3>3. ASSUME NEW q, NEW m, InUse(a, q, m) PROVE InUse(b, q, m)
      BY <2>1, <3>1, <3>3, WriteKeeps
    <3> QED BY <2>1, <3>2, <3>3
  <2> QED BY <2>2 DEF cells
<1>10. \A q : \A m \in Nat : InUse(a, q, m) /\ Apart(q, m, ptr, 1) => Read(b, q, m) = Read(a, q, m)
  BY <1>8, <1>9, KeptButReads
<1>11. \A q, m : InUse(a, q, m) => q \in Addresses
  BY DEF InUse, OnPage
<1>12. \A n \in Nat : n < cap => PageOf(b, new, n) = PageOf(a, arr, n)
  <2> SUFFICES ASSUME NEW n \in Nat, n < cap PROVE PageOf(b, new, n) = PageOf(a, arr, n)
    OBVIOUS
  <2>1. /\ InUse(a, EntryOf(arr, n), 1) /\ EntryOf(arr, n) \in Addresses
        /\ arr.pages \in Addresses
        /\ PageOf(a, arr, n) = Read(a, EntryOf(arr, n), 1)[1]
        /\ PageOf(b, new, n) = Read(b, EntryOf(arr, n), 1)[1]
    <3>1. /\ InUse(a, EntryOf(arr, n), 1) /\ EntryOf(arr, n) \in Addresses
          /\ arr.pages \in Addresses
          /\ PageOf(a, arr, n) = Read(a, EntryOf(arr, n), 1)[1]
      BY <1>1, <1>6, <1>7, EntryInUse DEF cap
    <3>2. PageOf(b, new, n) = Read(b, EntryOf(arr, n), 1)[1]
      BY <1>3 DEF PageOf, EntryOf
    <3> QED BY <3>1, <3>2
  <2>2. Apart(ptr, 1, arr.pages, cap)
    <3>1. Apart(arr.pages, cap, PageFrom(a, arr, c), ItemsPerPage)
      BY <1>5, <1>6, ApartIsSymmetric
    <3>2. Apart(arr.pages, cap, ptr, 1)
      BY <1>1, <1>5, <1>6, <2>1, <3>1, PlaceIsApart DEF ptr
    <3> QED BY <3>2, ApartIsSymmetric
  <2>3. Apart(EntryOf(arr, n), 1, ptr, 1)
    <3>1. Apart(ptr, 1, EntryOf(arr, n), 1)
      BY <1>1, <1>8, <2>1, <2>2, EntryIsApart DEF cap
    <3> QED BY <3>1, ApartIsSymmetric
  <2> QED BY <1>10, <2>1, <2>3
<1>13. \A i \in 0 .. ((c + 1) - 1) : PageFrom(b, new, i) = PageFrom(a, arr, i)
  BY <1>5, <1>6, <1>12, Division DEF PageFrom
<1>14. SamePages(a, arr, b, new, c + 1)
  BY <1>13 DEF SamePages
<1>15. \A q, m : Off(a, arr, c + 1, q, m) <=> Off(b, new, c + 1, q, m)
  BY <1>3, <1>13 DEF Off, cap
<1>16. TableOK(b, new, c + 1)
  BY <1>3, <1>6, <1>9, <1>13 DEF TableOK, cap, c
<1>17. \A i \in 0 .. ((c + 1) - 1) : AddressOf(b, new, i) = AddressOf(a, arr, i)
  BY <1>14, SamePagesSame
<1>18. HoldsItems(b, new)
  <2> SUFFICES ASSUME NEW i \in 0 .. ((c + 1) - 1)
               PROVE  ItemAt(b, new, i) = Append(arr.items, item)[i + 1]
    BY <1>3 DEF HoldsItems
  <2>1. ItemAt(b, new, i) = Read(b, AddressOf(a, arr, i), 1)[1]
    BY <1>17 DEF ItemAt
  <2>2. CASE i = c
    <3>1. Append(arr.items, item)[i + 1] = item
      BY <1>1, <2>2
    <3> QED BY <1>9, <2>1, <2>2, <3>1 DEF ptr
  <2>3. CASE i # c
    <3>1. i \in 0 .. (c - 1)
      BY <1>5, <2>3
    <3>2. Append(arr.items, item)[i + 1] = arr.items[i + 1]
      BY <1>1, <3>1
    <3>3. Apart(AddressOf(a, arr, i), 1, ptr, 1)
      <4>1. c + 1 \in Nat
        BY <1>1
      <4> QED BY <1>5, <2>3, <4>1, PlacesAreApart DEF ptr, c
    <3>4. InUse(a, AddressOf(a, arr, i), 1) /\ ItemAt(a, arr, i) = Read(a, AddressOf(a, arr, i), 1)[1]
      BY <1>5, <1>6, PlaceInUse
    <3>5. Read(b, AddressOf(a, arr, i), 1) = Read(a, AddressOf(a, arr, i), 1)
      BY <1>10, <3>3, <3>4
    <3>6. ItemAt(a, arr, i) = arr.items[i + 1]
      BY <3>1 DEF HoldsItems, c
    <3> QED BY <2>1, <3>2, <3>4, <3>5, <3>6
  <2> QED BY <2>2, <2>3
<1>19. Undisturbed(a, arr, c + 1, b, new, c + 1)
  <2> SUFFICES ASSUME NEW q, NEW m \in Nat, InUse(a, q, m), Off(a, arr, c + 1, q, m)
               PROVE  InUse(b, q, m) /\ Read(b, q, m) = Read(a, q, m) /\ Off(b, new, c + 1, q, m)
    BY DEF Undisturbed
  <2>1. q \in Addresses /\ Apart(q, m, PageFrom(a, arr, c), ItemsPerPage)
    BY <1>5, <1>11 DEF Off
  <2>2. Apart(q, m, ptr, 1)
    BY <1>1, <1>5, <1>6, <2>1, PlaceIsApart DEF ptr
  <2> QED BY <1>9, <1>10, <1>15, <2>2
<1>20. ArrayOK(b, new)
  BY <1>3, <1>4, <1>16, <1>18 DEF ArrayOK
<1> QED
  BY <1>2, <1>3, <1>9, <1>14, <1>19, <1>20 DEF c

\* What holds after an operation on arr, whatever it has done.
ArrayStep(a, arr, b, new) ==
  /\ ArenaOK(b) /\ ArrayOK(b, new)
  /\ Undisturbed(a, arr, arr.item_count, b, new, new.item_count)
  /\ SamePages(a, arr, b, new, arr.item_count)

\* A step that keeps all memory and leaves the array alone is a step of the array.
LEMMA KeptIsArrayStep ==
  ASSUME NEW a, ArenaOK(a), NEW b, ArenaOK(b), Keeps(a, b), NEW arr, ArrayOK(a, arr)
  PROVE  ArrayStep(a, arr, b, arr)
<1>1. ArrayOK(b, arr) /\ SamePages(a, arr, b, arr, arr.item_count)
  BY KeptArray
<1> QED
  BY <1>1, KeptUndisturbed DEF ArrayStep

\* No step keeps all.
LEMMA KeepsItself ==
  ASSUME NEW a, ArenaOK(a)
  PROVE  Keeps(a, a)
  BY ArenaFacts DEF Keeps, Grown

\* The page of the next item is at most the one behind the pages in the table.
LEMMA NextPage ==
  ASSUME NEW a, NEW arr, Counted(arr), TableOK(a, arr, arr.item_count)
  PROVE  PageNo(arr.item_count) \in Nat /\ PageNo(arr.item_count) <= arr.pages_capacity
<1> DEFINE c == arr.item_count
           b == ItemsPerPage
<1>1. c \in Nat /\ arr.pages_capacity \in Nat /\ b \in Nat /\ b > 0
  BY CountedFacts, Sizes
<1>2. CASE c = 0
  <2>1. 0 = 0 * ItemsPerPage + 0 /\ 0 \in Nat /\ 0 \in 0 .. (ItemsPerPage - 1)
    BY Sizes
  <2>2. PageNo(0) = 0
    BY <2>1, DivisionIsUnique
  <2> QED BY <1>1, <1>2, <2>2
<1>3. CASE c # 0
  <2> DEFINE p == PageNo(c)
             q == PageNo(c - 1)
  <2>1. c - 1 \in Nat /\ c - 1 \in 0 .. (c - 1)
    BY <1>1, <1>3
  <2>2. q < arr.pages_capacity
    BY <2>1 DEF TableOK
  <2>3. /\ p \in Nat /\ Slot(c) \in 0 .. (b - 1) /\ c = p * b + Slot(c)
        /\ q \in Nat /\ Slot(c - 1) \in 0 .. (b - 1) /\ c - 1 = q * b + Slot(c - 1)
    BY <1>1, <2>1, Division
  <2> HIDE DEF p, q
  <2>4. ASSUME q + 1 < p PROVE FALSE
    <3>1. (q + 1) * b + b <= p * b
      BY <2>3, <2>4, PagesInOrder
    <3>2. (q + 1) * b = q * b + b /\ p * b \in Nat /\ q * b \in Nat
      BY <1>1, <2>3
    <3> DEFINE pb == p * b
               qb == q * b
    <3>3. pb \in Nat /\ qb \in Nat /\ (qb + b) + b <= pb
          /\ c = pb + Slot(c) /\ c - 1 = qb + Slot(c - 1)
      BY <2>3, <3>1, <3>2
    <3> HIDE DEF pb, qb
    <3> QED BY <1>1, <2>3, <3>3
  <2> QED BY <1>1, <2>2, <2>3, <2>4 DEF p
<1> QED
  BY <1>2, <1>3

\* A table that is made anew is larger than the old one, from an empty one too.
LEMMA CapacityGrows ==
  ASSUME NEW arr, arr.pages_capacity \in Nat
  PROVE  Capacity(arr) \in Nat /\ arr.pages_capacity < Capacity(arr)
  BY Sizes DEF Capacity

\* The entries of a table as they are read one by one and at once.
LEMMA EntryIsRead ==
  ASSUME NEW a, ArenaOK(a), NEW arr, NEW k \in Nat, OnPage(a, arr.pages, k),
         NEW n \in Nat, n < k
  PROVE  PageOf(a, arr, n) = Read(a, arr.pages, k)[n + 1]
<1> DEFINE ptr == arr.pages
           o == ptr[2]
           entry == <<ptr[1], o + n>>
           size == Len(a.pages[ptr[1]])
<1>1. ptr \in Addresses /\ ptr[1] \in 1 .. Len(a.pages) /\ ptr[1] \in Nat /\ o \in Nat
      /\ o + k <= size
  BY DEF OnPage, Addresses
<1>2. size \in Nat
  BY <1>1, ArenaFacts
<1>3. (o + n) + 1 <= size /\ o + n \in Nat /\ n + 1 \in 1 .. k /\ (o + n) + 1 = o + (n + 1)
  <2> HIDE DEF o, size
  <2> QED BY <1>1, <1>2
<1>4. OnPage(a, entry, 1)
  BY <1>1, <1>3 DEF OnPage, Addresses
<1>5. /\ Read(a, ptr, k) = [i \in 1 .. k |-> a.pages[ptr[1]][o + i]]
      /\ Read(a, entry, 1) = [i \in 1 .. 1 |-> a.pages[ptr[1]][(o + n) + i]]
  <2>1. Read(a, ptr, k) = CellsAt(a, ptr, k)
    BY ReadIs
  <2>2. Read(a, entry, 1) = CellsAt(a, entry, 1)
    <3> HIDE DEF entry
    <3> QED BY <1>4, ReadIs
  <2> QED BY <2>1, <2>2 DEF CellsAt
<1>6. PageOf(a, arr, n) = Read(a, entry, 1)[1]
  BY DEF PageOf
<1> HIDE DEF entry, o
<1>7. Read(a, entry, 1)[1] = a.pages[ptr[1]][(o + n) + 1]
  BY <1>5
<1>8. Read(a, ptr, k)[n + 1] = a.pages[ptr[1]][o + (n + 1)]
  BY <1>3, <1>5
<1> QED
  BY <1>3, <1>6, <1>7, <1>8

\* A table that is full is copied to a larger one; the pages stay where they are.
LEMMA GrowIs ==
  ASSUME NEW a, ArenaOK(a), NEW arr, ArrayOK(a, arr), NEW oom \in BOOLEAN,
         NEW g, g = Grow(a, arr, oom)
  PROVE  /\ ArrayStep(a, arr, g.arena, g.arr) /\ g.arr.item_count = arr.item_count
         /\ g.ok => PageNo(arr.item_count) < g.arr.pages_capacity
         /\ g.ok \in BOOLEAN /\ g = [ok |-> g.ok, arena |-> g.arena, arr |-> g.arr]
<1> DEFINE c == arr.item_count
           cap == arr.pages_capacity
           larger == Capacity(arr)
           made == Alloc(a, larger, oom)
           old_table == IF cap = 0 THEN <<>> ELSE Read(a, arr.pages, cap)
           b == Write(made.arena, made.ptr, old_table)
           new == [arr EXCEPT !.pages = made.ptr, !.pages_capacity = larger]
<1>1. /\ Counted(arr) /\ TableOK(a, arr, c) /\ HoldsItems(a, arr)
      /\ c \in Nat /\ cap \in Nat /\ arr \in Arrays /\ ItemsPerPage \in Nat
  BY CountedFacts, Sizes DEF ArrayOK, Counted
<1>2. larger \in Nat /\ cap < larger
  BY <1>1, CapacityGrows
<1>3. Allocated(a, made, larger)
  BY <1>2, AllocIs
<1>4. PageNo(c) \in Nat /\ PageNo(c) <= cap /\ (TableFull(arr) <=> PageNo(c) >= cap)
  BY <1>1, NextPage DEF TableFull, PageNo
<1>5. \/ ~TableFull(arr) /\ g = [ok |-> TRUE, arena |-> a, arr |-> arr]
      \/ made.ptr = NULL /\ g = [ok |-> FALSE, arena |-> made.arena, arr |-> arr]
      \/ made.ptr # NULL /\ g = [ok |-> TRUE, arena |-> b, arr |-> new]
  BY DEF Grow
<1>6. CASE ~TableFull(arr) /\ g = [ok |-> TRUE, arena |-> a, arr |-> arr]
  <2>1. ArrayStep(a, arr, a, arr)
    BY KeepsItself, KeptIsArrayStep
  <2> QED BY <1>1, <1>4, <1>6, <2>1
<1>7. CASE made.ptr = NULL /\ g = [ok |-> FALSE, arena |-> made.arena, arr |-> arr]
  <2>1. ArrayStep(a, arr, made.arena, arr)
    BY <1>3, KeptIsArrayStep DEF Allocated
  <2> QED BY <1>7, <2>1
<1>8. CASE made.ptr # NULL /\ g = [ok |-> TRUE, arena |-> b, arr |-> new]
  <2>1. cap > 0 => InUse(a, arr.pages, cap)
    BY <1>1 DEF TableOK
  <2>2. old_table \in Seq(Memory) /\ Len(old_table) = cap
    <3>1. CASE cap = 0
      BY <3>1
    <3>2. CASE cap # 0
      <4>1. InUse(a, arr.pages, cap)
        BY <1>1, <2>1, <3>2
      <4> QED BY <1>1, <3>2, <4>1, ReadIs DEF InUse
    <3> QED BY <3>1, <3>2
  <2>3. InUse(made.arena, made.ptr, larger) /\ Unused(a, made.ptr) /\ made.ptr \in Addresses
    BY <1>3, <1>8 DEF Allocated, Unused
  <2>4. /\ new \in Arrays /\ new.item_count = c /\ new.items = arr.items
        /\ new.pages = made.ptr /\ new.pages_capacity = larger
    <3> HIDE DEF made, larger
    <3> QED BY <1>1, <1>2, <2>3 DEF Arrays
  <2> HIDE DEF made, old_table, b, new, larger
  <2>5. /\ ArenaOK(b) /\ Keeps(a, b) /\ InUse(b, made.ptr, larger)
        /\ Read(b, made.ptr, Len(old_table)) = old_table
    <3>1. Len(old_table) <= larger
      BY <1>1, <1>2, <2>2
    <3> QED BY <1>2, <1>3, <1>8, <2>2, <3>1, WriteToNew DEF b
  <2>6. Read(b, made.ptr, cap) = old_table
    BY <2>2, <2>5
  <2>7. \A n \in Nat : n < cap => PageOf(b, new, n) = PageOf(a, arr, n)
    <3> SUFFICES ASSUME NEW n \in Nat, n < cap PROVE PageOf(b, new, n) = PageOf(a, arr, n)
      OBVIOUS
    <3>1. InUse(a, arr.pages, cap) /\ old_table = Read(a, arr.pages, cap)
      BY <1>1, <2>1 DEF old_table
    <3>2. PageOf(a, arr, n) = old_table[n + 1]
      BY <1>1, <3>1, EntryIsRead DEF InUse
    <3>3. OnPage(b, new.pages, cap)
      <4> DEFINE o == made.ptr[2]
                 size == Len(b.pages[made.ptr[1]])
      <4>1. /\ made.ptr \in Addresses /\ made.ptr[1] \in 1 .. Len(b.pages)
            /\ o + larger <= size /\ o \in Nat
        BY <2>5 DEF InUse, OnPage, Addresses
      <4>2. size \in Nat
        BY <2>5, <4>1, ArenaFacts
      <4>3. o + cap <= size
        <5> HIDE DEF o, size
        <5> QED BY <1>1, <1>2, <4>1, <4>2
      <4> QED BY <2>4, <4>1, <4>3 DEF OnPage
    <3>4. PageOf(b, new, n) = Read(b, new.pages, cap)[n + 1]
      BY <1>1, <2>5, <3>3, EntryIsRead
    <3> QED BY <2>4, <2>6, <3>2, <3>4
  <2>8. \A i \in 0 .. (c - 1) :
          /\ i \in Nat /\ PageNo(i) \in Nat /\ PageNo(i) < cap
          /\ InUse(a, PageFrom(a, arr, i), ItemsPerPage)
    BY <1>1, Division DEF TableOK
  <2>9. \A i \in 0 .. (c - 1) : PageFrom(b, new, i) = PageFrom(a, arr, i)
    BY <2>7, <2>8 DEF PageFrom
  <2>10. SamePages(a, arr, b, new, c)
    BY <2>9 DEF SamePages
  <2>11. \A i \in 0 .. (c - 1) :
           /\ PageNo(i) < larger
           /\ InUse(b, PageFrom(b, new, i), ItemsPerPage)
           /\ Apart(PageFrom(b, new, i), ItemsPerPage, made.ptr, larger)
    <3> SUFFICES ASSUME NEW i \in 0 .. (c - 1)
                 PROVE  /\ PageNo(i) < larger
                        /\ InUse(b, PageFrom(a, arr, i), ItemsPerPage)
                        /\ Apart(PageFrom(a, arr, i), ItemsPerPage, made.ptr, larger)
      BY <2>9
    <3>1. PageNo(i) < larger
      BY <1>1, <1>2, <2>8
    <3>2. InUse(b, PageFrom(a, arr, i), ItemsPerPage)
      BY <1>1, <2>5, <2>8, KeptReads
    <3>3. Apart(PageFrom(a, arr, i), ItemsPerPage, made.ptr, larger)
      BY <1>1, <1>2, <2>3, <2>8, UnusedIsApart
    <3> QED BY <3>1, <3>2, <3>3
  <2>12. TableOK(b, new, c)
    BY <1>1, <2>4, <2>5, <2>9, <2>11 DEF TableOK
  <2>13. HoldsItems(b, new)
    <3> SUFFICES ASSUME NEW i \in 0 .. (c - 1) PROVE ItemAt(b, new, i) = ItemAt(a, arr, i)
      BY <1>1, <2>4 DEF HoldsItems
    <3>1. AddressOf(b, new, i) = AddressOf(a, arr, i)
      BY <2>10, SamePagesSame
    <3>2. InUse(a, AddressOf(a, arr, i), 1)
      BY <2>8, PlaceInUse
    <3>3. Read(b, AddressOf(a, arr, i), 1) = Read(a, AddressOf(a, arr, i), 1)
      BY <2>5, <3>2, KeptReads
    <3> QED BY <3>1, <3>3 DEF ItemAt
  <2>14. Undisturbed(a, arr, c, b, new, c)
    <3> SUFFICES ASSUME NEW q, NEW m \in Nat, InUse(a, q, m), Off(a, arr, c, q, m)
                 PROVE  InUse(b, q, m) /\ Read(b, q, m) = Read(a, q, m) /\ Off(b, new, c, q, m)
      BY DEF Undisturbed
    <3>1. InUse(b, q, m) /\ Read(b, q, m) = Read(a, q, m)
      BY <2>5, KeptReads
    <3>2. Apart(q, m, made.ptr, larger)
      BY <1>2, <2>3, UnusedIsApart
    <3> QED BY <2>4, <2>9, <3>1, <3>2 DEF Off
  <2>15. ArrayOK(b, new)
    BY <1>1, <2>4, <2>12, <2>13 DEF ArrayOK, Counted
  <2>16. ArrayStep(a, arr, b, new)
    BY <2>4, <2>5, <2>10, <2>14, <2>15 DEF ArrayStep
  <2> QED BY <1>1, <1>2, <1>4, <1>8, <2>4, <2>16
<1> QED
  BY <1>5, <1>6, <1>7, <1>8

\* A page for the next item, and its entry in the table.
LEMMA AddPageIs ==
  ASSUME NEW a, ArenaOK(a), NEW arr, ArrayOK(a, arr), NEW oom \in BOOLEAN,
         Slot(arr.item_count) = 0, PageNo(arr.item_count) < arr.pages_capacity,
         NEW g, g = AddPage([ok |-> TRUE, arena |-> a, arr |-> arr], oom)
  PROVE  /\ ArenaOK(g.arena) /\ g = [ok |-> g.ok, arena |-> g.arena, arr |-> arr]
         /\ g.ok \in BOOLEAN
         /\ ~g.ok => ArrayStep(a, arr, g.arena, arr)
         /\ g.ok => /\ TableOK(g.arena, arr, arr.item_count + 1) /\ HoldsItems(g.arena, arr)
                    /\ Undisturbed(a, arr, arr.item_count, g.arena, arr, arr.item_count + 1)
                    /\ SamePages(a, arr, g.arena, arr, arr.item_count)
<1> DEFINE c == arr.item_count
           cap == arr.pages_capacity
           made == Alloc(a, ItemsPerPage, oom)
           page == made.ptr
           entry == EntryOf(arr, PageNo(c))
           b == Write(made.arena, entry, <<page>>)
<1>1. /\ Counted(arr) /\ TableOK(a, arr, c) /\ HoldsItems(a, arr)
      /\ c \in Nat /\ cap \in Nat /\ ItemsPerPage \in Nat /\ PageNo(c) \in Nat
  BY CountedFacts, Sizes, Division DEF ArrayOK
<1>2. Allocated(a, made, ItemsPerPage)
  BY <1>1, AllocIs
<1>3. \/ page = NULL /\ g = [ok |-> FALSE, arena |-> made.arena, arr |-> arr]
      \/ page # NULL /\ g = [ok |-> TRUE, arena |-> b, arr |-> arr]
  BY DEF AddPage, Entry, EntryOf, PageNo
<1>4. CASE page = NULL /\ g = [ok |-> FALSE, arena |-> made.arena, arr |-> arr]
  <2>1. ArrayStep(a, arr, made.arena, arr) /\ ArenaOK(made.arena)
    BY <1>2, KeptIsArrayStep DEF Allocated
  <2> HIDE DEF made
  <2>2. g.ok = FALSE /\ g.arena = made.arena
    BY <1>4
  <2>3. g = [ok |-> g.ok, arena |-> g.arena, arr |-> arr]
    BY <1>4, <2>2
  <2> QED BY <2>1, <2>2, <2>3
<1>5. CASE page # NULL /\ g = [ok |-> TRUE, arena |-> b, arr |-> arr]
  <2>1. /\ ArenaOK(made.arena) /\ Keeps(a, made.arena)
        /\ InUse(made.arena, page, ItemsPerPage) /\ Unused(a, page) /\ page \in Addresses
    BY <1>2, <1>5 DEF Allocated, Unused
  <2>2. InUse(a, arr.pages, cap) /\ cap > 0
    BY <1>1 DEF TableOK
  <2>3. InUse(a, entry, 1) /\ entry \in Addresses /\ arr.pages \in Addresses
    BY <1>1, <2>2, EntryInUse
  <2> DEFINE cells == <<page>>
  <2>4. cells \in Seq(Memory) /\ Len(cells) = 1 /\ b = Write(made.arena, entry, cells)
    BY <2>1 DEF Memory
  <2> DEFINE a1 == made.arena
  <2> HIDE DEF made, page, entry, b, cells, a1
  <2>5. ArenaOK(a1) /\ OnPage(a1, entry, Len(cells)) /\ b = Write(a1, entry, cells)
    BY <2>1, <2>3, <2>4, KeptReads DEF InUse, a1
  <2>6. /\ ArenaOK(b) /\ KeepsBut(made.arena, b, entry, Len(cells))
        /\ Read(b, entry, Len(cells)) = cells
    <3>1. ArenaOK(b) /\ KeepsBut(a1, b, entry, Len(cells)) /\ Read(b, entry, Len(cells)) = cells
      <4>1. cells \in Seq(Memory)
        BY <2>4
      <4>2. ArenaOK(b) /\ KeepsBut(a1, b, entry, Len(cells))
        BY <2>5, <4>1, WriteKeeps
      <4>3. Read(b, entry, Len(cells)) = cells
        BY <2>5, <4>1, WriteKeeps
      <4> QED BY <4>2, <4>3
    <3> QED BY <3>1 DEF a1
  <2>7. \A q, m : InUse(made.arena, q, m) => InUse(b, q, m)
    <3> SUFFICES ASSUME NEW q, NEW m, InUse(a1, q, m) PROVE InUse(b, q, m)
      BY DEF a1
    <3> QED BY <2>4, <2>5, WriteKeeps
  <2>8. /\ ArenaOK(b) /\ KeepsBut(a, b, entry, 1) /\ Read(b, entry, 1) = cells
        /\ InUse(b, page, ItemsPerPage)
    BY <2>1, <2>4, <2>6, <2>7, KeepsThenKeepsBut
  <2>9. ASSUME NEW q, NEW m \in Nat, InUse(a, q, m), Apart(q, m, entry, 1)
        PROVE  InUse(b, q, m) /\ Read(b, q, m) = Read(a, q, m)
    BY <2>3, <2>8, <2>9, KeptButReads
  <2>10. ASSUME NEW q, NEW m \in Nat, InUse(a, q, m) PROVE InUse(b, q, m)
    BY <2>1, <2>7, <2>10, KeptReads
  <2>11. \A i \in 0 .. (c - 1) :
           /\ i \in Nat /\ PageNo(i) \in Nat /\ PageNo(i) < PageNo(c) /\ PageNo(i) < cap
           /\ InUse(a, PageFrom(a, arr, i), ItemsPerPage)
           /\ Apart(PageFrom(a, arr, i), ItemsPerPage, arr.pages, cap)
           /\ Apart(PageFrom(a, arr, i), ItemsPerPage, page, ItemsPerPage)
    <3> SUFFICES ASSUME NEW i \in 0 .. (c - 1)
                 PROVE  /\ i \in Nat /\ PageNo(i) \in Nat /\ PageNo(i) < PageNo(c)
                        /\ PageNo(i) < cap
                        /\ InUse(a, PageFrom(a, arr, i), ItemsPerPage)
                        /\ Apart(PageFrom(a, arr, i), ItemsPerPage, arr.pages, cap)
                        /\ Apart(PageFrom(a, arr, i), ItemsPerPage, page, ItemsPerPage)
      OBVIOUS
    <3>1. i \in Nat /\ i < c
      BY <1>1
    <3>2. PageNo(i) \in Nat /\ PageNo(i) < PageNo(c)
      BY <1>1, <3>1, Division, FirstOfPage
    <3>3. /\ PageNo(i) < cap /\ InUse(a, PageFrom(a, arr, i), ItemsPerPage)
          /\ Apart(PageFrom(a, arr, i), ItemsPerPage, arr.pages, cap)
      BY <1>1 DEF TableOK
    <3>4. Apart(PageFrom(a, arr, i), ItemsPerPage, page, ItemsPerPage)
      BY <1>1, <2>1, <3>3, UnusedIsApart
    <3> QED BY <3>1, <3>2, <3>3, <3>4
  <2>12. \A i \in 0 .. (c - 1) : PageFrom(b, arr, i) = PageFrom(a, arr, i)
    <3> SUFFICES ASSUME NEW i \in 0 .. (c - 1) PROVE PageFrom(b, arr, i) = PageFrom(a, arr, i)
      OBVIOUS
    <3> DEFINE mine == EntryOf(arr, PageNo(i))
    <3>1. /\ InUse(a, mine, 1) /\ PageOf(a, arr, PageNo(i)) = Read(a, mine, 1)[1]
      BY <1>1, <2>2, <2>11, EntryInUse
    <3>2. Apart(mine, 1, entry, 1)
      <4>1. PageNo(i) + 1 <= PageNo(c) /\ arr.pages[2] \in Nat
        BY <1>1, <2>3, <2>11 DEF Addresses
      <4>2. mine[2] + 1 <= entry[2]
        BY <1>1, <2>11, <4>1 DEF entry, EntryOf
      <4> QED BY <4>2 DEF Apart
    <3>3. Read(b, mine, 1) = Read(a, mine, 1)
      BY <2>9, <3>1, <3>2
    <3> QED BY <3>1, <3>3 DEF PageFrom, PageOf, EntryOf
  <2>13. PageFrom(b, arr, c) = page
    <3>1. PageOf(b, arr, PageNo(c)) = Read(b, entry, 1)[1]
      BY DEF PageOf, entry, EntryOf
    <3> QED BY <2>8, <3>1 DEF PageFrom, cells
  <2>14. \A i \in 0 .. ((c + 1) - 1) : i = c \/ i \in 0 .. (c - 1)
    BY <1>1
  <2>15. SamePages(a, arr, b, arr, c)
    BY <2>12 DEF SamePages
  <2>16. Apart(page, ItemsPerPage, arr.pages, cap)
    BY <1>1, <2>1, <2>2, UnusedIsApart, ApartIsSymmetric
  <2>17. TableOK(b, arr, c + 1)
    <3>1. InUse(b, arr.pages, cap)
      BY <1>1, <2>2, <2>10
    <3>2. \A i \in 0 .. ((c + 1) - 1) :
            /\ PageNo(i) < cap
            /\ InUse(b, PageFrom(b, arr, i), ItemsPerPage)
            /\ Apart(PageFrom(b, arr, i), ItemsPerPage, arr.pages, cap)
      <4> SUFFICES ASSUME NEW i \in 0 .. ((c + 1) - 1)
                   PROVE  /\ PageNo(i) < cap
                          /\ InUse(b, PageFrom(b, arr, i), ItemsPerPage)
                          /\ Apart(PageFrom(b, arr, i), ItemsPerPage, arr.pages, cap)
        OBVIOUS
      <4>1. CASE i = c
        BY <2>8, <2>13, <2>16, <4>1
      <4>2. CASE i \in 0 .. (c - 1)
        BY <1>1, <2>10, <2>11, <2>12, <4>2
      <4> QED BY <2>14, <4>1, <4>2
    <3>3. ASSUME NEW i \in 0 .. ((c + 1) - 1), NEW j \in 0 .. ((c + 1) - 1),
                 PageNo(i) # PageNo(j)
          PROVE  Apart(PageFrom(b, arr, i), ItemsPerPage, PageFrom(b, arr, j), ItemsPerPage)
      <4>1. CASE i = c /\ j \in 0 .. (c - 1)
        BY <2>11, <2>12, <2>13, <4>1, ApartIsSymmetric
      <4>2. CASE i \in 0 .. (c - 1) /\ j = c
        BY <2>11, <2>12, <2>13, <4>2
      <4>3. CASE i \in 0 .. (c - 1) /\ j \in 0 .. (c - 1)
        BY <1>1, <2>12, <3>3, <4>3 DEF TableOK
      <4> QED BY <2>14, <3>3, <4>1, <4>2, <4>3
    <3> QED BY <3>1, <3>2, <3>3 DEF TableOK
  <2>18. HoldsItems(b, arr)
    <3> SUFFICES ASSUME NEW i \in 0 .. (c - 1) PROVE ItemAt(b, arr, i) = ItemAt(a, arr, i)
      BY <1>1 DEF HoldsItems
    <3>1. AddressOf(b, arr, i) = AddressOf(a, arr, i)
      BY <2>15, SamePagesSame
    <3>2. InUse(a, AddressOf(a, arr, i), 1) /\ AddressOf(a, arr, i) \in Addresses
          /\ PageFrom(a, arr, i) \in Addresses
      BY <2>11, PlaceInUse
    <3>3. Apart(PageFrom(a, arr, i), ItemsPerPage, entry, 1)
      BY <1>1, <2>3, <2>11, <3>2, EntryIsApart DEF entry
    <3>4. Apart(entry, 1, AddressOf(a, arr, i), 1)
      BY <2>3, <2>11, <3>3, ApartIsSymmetric, PlaceIsApart
    <3>5. Read(b, AddressOf(a, arr, i), 1) = Read(a, AddressOf(a, arr, i), 1)
      BY <2>9, <3>2, <3>4, ApartIsSymmetric
    <3> QED BY <3>1, <3>5 DEF ItemAt
  <2>19. Undisturbed(a, arr, c, b, arr, c + 1)
    <3> SUFFICES ASSUME NEW q, NEW m \in Nat, InUse(a, q, m), Off(a, arr, c, q, m)
                 PROVE  /\ InUse(b, q, m) /\ Read(b, q, m) = Read(a, q, m)
                        /\ Off(b, arr, c + 1, q, m)
      BY DEF Undisturbed
    <3>1. q \in Addresses /\ Apart(q, m, arr.pages, cap)
      BY <2>2 DEF Off, InUse, OnPage
    <3>2. Apart(q, m, entry, 1)
      BY <1>1, <2>3, <3>1, EntryIsApart DEF entry
    <3>3. InUse(b, q, m) /\ Read(b, q, m) = Read(a, q, m)
      BY <2>9, <3>2
    <3>4. Apart(q, m, page, ItemsPerPage)
      BY <1>1, <2>1, UnusedIsApart
    <3>5. \A i \in 0 .. ((c + 1) - 1) : Apart(q, m, PageFrom(b, arr, i), ItemsPerPage)
      BY <2>12, <2>13, <2>14, <3>4 DEF Off
    <3> QED BY <3>1, <3>3, <3>5 DEF Off
  <2>20. g.ok = TRUE /\ g.arena = b
    BY <1>5
  <2>21. g = [ok |-> g.ok, arena |-> g.arena, arr |-> arr]
    BY <1>5, <2>20
  <2> HIDE DEF c
  <2> QED BY <2>8, <2>15, <2>17, <2>18, <2>19, <2>20, <2>21 DEF c
<1> QED
  BY <1>3, <1>4, <1>5

\* A push, whichever malloc fails, moves no item and leaves the rest of the
\* memory alone.
LEMMA PushedIs ==
  ASSUME NEW a, ArenaOK(a), NEW arr, ArrayOK(a, arr), NEW item \in Items,
         NEW no_table \in BOOLEAN, NEW no_page \in BOOLEAN,
         NEW p, p = Pushed(a, arr, item, no_table, no_page)
  PROVE  ArrayStep(a, arr, p.arena, p.arr)
<1> DEFINE c == arr.item_count
           grown == Grow(a, arr, no_table)
           paged == AddPage(grown, no_page)
           start == [ok |-> TRUE, arena |-> a, arr |-> arr]
<1>1. Counted(arr) /\ TableOK(a, arr, c) /\ HoldsItems(a, arr) /\ c \in Nat
  BY CountedFacts DEF ArrayOK
<1>2. \/ Slot(c) # 0 /\ p = StoreItem(start, item)
      \/ Slot(c) = 0 /\ ~grown.ok /\ p = grown
      \/ Slot(c) = 0 /\ grown.ok /\ ~paged.ok /\ p = paged
      \/ Slot(c) = 0 /\ grown.ok /\ paged.ok /\ p = StoreItem(paged, item)
  BY DEF Pushed, Slot
<1>3. CASE Slot(c) # 0 /\ p = StoreItem(start, item)
  <2>1. /\ TableOK(a, arr, c + 1)
        /\ \A q, m : Off(a, arr, c, q, m) <=> Off(a, arr, c + 1, q, m)
    BY <1>1, <1>3, PageIsThere
  <2>2. /\ ArenaOK(p.arena) /\ ArrayOK(p.arena, p.arr) /\ p.arr.item_count = c + 1
        /\ Undisturbed(a, arr, c + 1, p.arena, p.arr, c + 1)
        /\ SamePages(a, arr, p.arena, p.arr, c + 1)
    BY <1>1, <1>3, <2>1, StoreItemIs
  <2>3. Undisturbed(a, arr, c, p.arena, p.arr, c + 1)
    BY <2>1, <2>2 DEF Undisturbed
  <2>4. SamePages(a, arr, p.arena, p.arr, c)
    BY <1>1, <2>2 DEF SamePages
  <2> QED BY <2>2, <2>3, <2>4 DEF ArrayStep
<1>4. /\ ArrayStep(a, arr, grown.arena, grown.arr) /\ grown.arr.item_count = c
      /\ grown.ok => PageNo(c) < grown.arr.pages_capacity
      /\ grown.ok \in BOOLEAN
      /\ grown = [ok |-> grown.ok, arena |-> grown.arena, arr |-> grown.arr]
  BY GrowIs
<1>5. CASE Slot(c) = 0 /\ ~grown.ok /\ p = grown
  BY <1>4, <1>5
<1>6. CASE Slot(c) = 0 /\ grown.ok
  <2> DEFINE a1 == grown.arena
             arr1 == grown.arr
             b == paged.arena
  <2>1. grown = [ok |-> TRUE, arena |-> a1, arr |-> arr1]
    BY <1>4, <1>6
  <2>2. /\ ArenaOK(a1) /\ ArrayOK(a1, arr1) /\ arr1.item_count = c
        /\ Undisturbed(a, arr, c, a1, arr1, c) /\ SamePages(a, arr, a1, arr1, c)
    BY <1>4 DEF ArrayStep
  <2> HIDE DEF grown, c
  <2>3. /\ ArenaOK(b) /\ paged = [ok |-> paged.ok, arena |-> b, arr |-> arr1]
        /\ paged.ok \in BOOLEAN
        /\ ~paged.ok => ArrayStep(a1, arr1, b, arr1)
        /\ paged.ok => /\ TableOK(b, arr1, c + 1) /\ HoldsItems(b, arr1)
                       /\ Undisturbed(a1, arr1, c, b, arr1, c + 1)
                       /\ SamePages(a1, arr1, b, arr1, c)
    <3>1. paged = AddPage([ok |-> TRUE, arena |-> a1, arr |-> arr1], no_page)
      BY <2>1
    <3>2. Slot(arr1.item_count) = 0 /\ PageNo(arr1.item_count) < arr1.pages_capacity
      BY <1>4, <1>6, <2>2
    <3> HIDE DEF paged, a1, arr1, b
    <3> QED BY <2>2, <3>1, <3>2, AddPageIs DEF b
  <2> HIDE DEF paged, a1, arr1
  <2>4. CASE ~paged.ok /\ p = paged
    <3>1. p.arena = b /\ p.arr = arr1
      BY <2>3, <2>4
    <3>2. /\ ArrayOK(b, arr1) /\ Undisturbed(a1, arr1, c, b, arr1, c)
          /\ SamePages(a1, arr1, b, arr1, c)
      BY <2>2, <2>3, <2>4 DEF ArrayStep
    <3>3. Undisturbed(a, arr, c, b, arr1, c)
      BY <2>2, <3>2, UndisturbedTwice
    <3>4. SamePages(a, arr, b, arr1, c)
      BY <2>2, <3>2 DEF SamePages
    <3> QED BY <2>2, <2>3, <3>1, <3>2, <3>3, <3>4 DEF ArrayStep, c
  <2>5. CASE paged.ok /\ p = StoreItem(paged, item)
    <3>1. p = StoreItem([ok |-> TRUE, arena |-> b, arr |-> arr1], item)
      BY <2>3, <2>5
    <3>2. /\ TableOK(b, arr1, c + 1) /\ HoldsItems(b, arr1) /\ Counted(arr1)
          /\ Undisturbed(a1, arr1, c, b, arr1, c + 1) /\ SamePages(a1, arr1, b, arr1, c)
      BY <2>2, <2>3, <2>5 DEF ArrayOK
    <3>3. /\ ArenaOK(p.arena) /\ ArrayOK(p.arena, p.arr) /\ p.arr.item_count = c + 1
          /\ Undisturbed(b, arr1, c + 1, p.arena, p.arr, c + 1)
          /\ SamePages(b, arr1, p.arena, p.arr, c + 1)
      BY <2>2, <2>3, <3>1, <3>2, StoreItemIs
    <3>4. Undisturbed(a, arr, c, p.arena, p.arr, c + 1)
      <4>1. Undisturbed(a, arr, c, b, arr1, c + 1)
        BY <2>2, <3>2, UndisturbedTwice
      <4> QED BY <3>3, <4>1, UndisturbedTwice
    <3>5. SamePages(a, arr, p.arena, p.arr, c)
      <4>1. \A i \in 0 .. (c - 1) : i \in 0 .. ((c + 1) - 1)
        BY <1>1 DEF c
      <4> QED BY <2>2, <3>2, <3>3, <4>1 DEF SamePages
    <3> QED BY <3>3, <3>4, <3>5 DEF ArrayStep, c
  <2> QED BY <1>2, <1>6, <2>4, <2>5
<1> QED
  BY <1>2, <1>3, <1>4, <1>5, <1>6

-----------------------------------------------------------------------------
(* The inductive invariant                                                   *)

Texts == [str : Addresses \cup {NULL}, len : Nat, text : Seq(Memory)]

\* A text reads as what was put there.
TextOK(a, t) ==
  /\ t \in Texts /\ t.len = Len(t.text)
  /\ t.str # NULL => Readable(a, t.str, t.len) /\ Read(a, t.str, t.len) = t.text

\* A text has nothing in common with an array.
TextOff(a, arr, t) == InUse(a, t.str, t.len) => Off(a, arr, arr.item_count, t.str, t.len)

Good(a, ts, x, y) ==
  /\ ArenaOK(a) /\ ts \in Seq(Texts)
  /\ \A i \in 1 .. Len(ts) :
       TextOK(a, ts[i]) /\ TextOff(a, x, ts[i]) /\ TextOff(a, y, ts[i])
  /\ ArrayOK(a, x) /\ ArrayOK(a, y)
  /\ Separate(a, x, x.item_count, y) /\ Separate(a, y, y.item_count, x)

Inv == Good(arena, texts, array, old)

\* That two arrays have no cell in common is mutual.
LEMMA SeparateIsSymmetric ==
  ASSUME NEW a, NEW x, NEW y, Separate(a, x, x.item_count, y)
  PROVE  Separate(a, y, y.item_count, x)
<1>1. x.pages_capacity > 0 => Off(a, y, y.item_count, x.pages, x.pages_capacity)
  BY ApartIsSymmetric DEF Separate, Off
<1>2. \A i \in 0 .. (x.item_count - 1) :
        Off(a, y, y.item_count, PageFrom(a, x, i), ItemsPerPage)
  BY ApartIsSymmetric DEF Separate, Off
<1> QED
  BY <1>1, <1>2 DEF Separate

\* The two arrays play the same part in the invariant.
LEMMA GoodEitherWay ==
  ASSUME NEW a, NEW ts, NEW x, NEW y, Good(a, ts, x, y)
  PROVE  Good(a, ts, y, x)
  BY DEF Good

\* Nothing else is disturbed by an operation on an array.
LEMMA GoodArrayStep ==
  ASSUME NEW a, NEW ts, NEW x, NEW y, Good(a, ts, x, y),
         NEW b, NEW x2, ArrayStep(a, x, b, x2)
  PROVE  /\ Good(b, ts, x2, y)
         /\ SamePages(a, x, b, x2, x.item_count) /\ SamePages(a, y, b, y, y.item_count)
<1>1. /\ ArenaOK(a) /\ ArrayOK(a, x) /\ ArrayOK(a, y) /\ Separate(a, x, x.item_count, y)
      /\ ts \in Seq(Texts)
  BY DEF Good
<1>2. /\ ArenaOK(b) /\ ArrayOK(b, x2) /\ SamePages(a, x, b, x2, x.item_count)
      /\ Undisturbed(a, x, x.item_count, b, x2, x2.item_count)
  BY DEF ArrayStep
<1>3. /\ x.item_count \in Nat /\ x2.item_count \in Nat /\ x.pages_capacity \in Nat
      /\ TableOK(a, x, x.item_count)
  BY <1>1, <1>2, CountedFacts DEF ArrayOK
<1>4. /\ ArrayOK(b, y) /\ SamePages(a, y, b, y, y.item_count)
      /\ Separate(b, x2, x2.item_count, y)
  BY <1>1, <1>2, <1>3, OtherArray
<1>5. Separate(b, y, y.item_count, x2)
  BY <1>4, SeparateIsSymmetric
<1>6. ASSUME NEW i \in 1 .. Len(ts)
      PROVE  TextOK(b, ts[i]) /\ TextOff(b, x2, ts[i]) /\ TextOff(b, y, ts[i])
  <2> DEFINE t == ts[i]
  <2>1. /\ TextOK(a, t) /\ TextOff(a, x, t) /\ TextOff(a, y, t)
        /\ t.len \in Nat /\ t \in Texts /\ t.len = Len(t.text)
    BY DEF Good, TextOK, Texts
  <2> HIDE DEF t
  <2>2. CASE t.str = NULL
    <3>1. ~InUse(b, t.str, t.len)
      BY <2>2, NullIsNoAddress DEF InUse, OnPage
    <3> QED BY <2>1, <2>2, <3>1 DEF TextOK, TextOff, t
  <2>3. CASE t.str # NULL /\ InUse(a, t.str, t.len)
    <3>1. InUse(b, t.str, t.len) /\ Read(b, t.str, t.len) = Read(a, t.str, t.len)
          /\ Off(b, x2, x2.item_count, t.str, t.len)
      BY <1>2, <2>1, <2>3 DEF TextOff, Undisturbed
    <3>2. Off(b, y, y.item_count, t.str, t.len)
      BY <1>4, <2>1, <2>3, StaysOff DEF TextOff
    <3> QED BY <2>1, <2>3, <3>1, <3>2 DEF TextOK, TextOff, Readable, t
  <2>4. CASE t.str # NULL /\ ~InUse(a, t.str, t.len)
    <3>1. t.str \in {0} \X Nat /\ t.str[2] + t.len <= Len(Sql) /\ t.str[1] = 0
      BY <2>1, <2>4 DEF TextOK, Readable
    <3>2. ~InUse(b, t.str, t.len)
      BY <3>1 DEF InUse, OnPage
    <3>3. Read(b, t.str, t.len) = Read(a, t.str, t.len)
      BY <3>1 DEF Read
    <3> QED BY <2>1, <2>4, <3>1, <3>2, <3>3 DEF TextOK, TextOff, Readable, t
  <2> QED BY <2>2, <2>3, <2>4
<1> QED
  BY <1>1, <1>2, <1>4, <1>5, <1>6 DEF Good

\* A step that keeps all memory preserves the invariant and moves no item.
LEMMA GoodKept ==
  ASSUME NEW a, NEW ts, NEW x, NEW y, Good(a, ts, x, y), NEW b, ArenaOK(b), Keeps(a, b)
  PROVE  /\ Good(b, ts, x, y)
         /\ SamePages(a, x, b, x, x.item_count) /\ SamePages(a, y, b, y, y.item_count)
<1>1. ArrayStep(a, x, b, x)
  BY KeptIsArrayStep DEF Good
<1> QED
  BY <1>1, GoodArrayStep

\* One more text that is off both arrays preserves the invariant.
LEMMA GoodText ==
  ASSUME NEW a, NEW ts, NEW x, NEW y, Good(a, ts, x, y),
         NEW t, TextOK(a, t), TextOff(a, x, t), TextOff(a, y, t)
  PROVE  Good(a, Append(ts, t), x, y)
<1> DEFINE more == Append(ts, t)
<1>1. ts \in Seq(Texts) /\ t \in Texts
  BY DEF Good, TextOK
<1>2. /\ more \in Seq(Texts) /\ Len(more) = Len(ts) + 1 /\ Len(ts) \in Nat
      /\ more[Len(ts) + 1] = t /\ \A i \in 1 .. Len(ts) : more[i] = ts[i]
  BY <1>1
<1> HIDE DEF more
<1>3. \A i \in 1 .. Len(more) : i = Len(ts) + 1 \/ i \in 1 .. Len(ts)
  BY <1>2
<1>4. \A i \in 1 .. Len(more) :
        TextOK(a, more[i]) /\ TextOff(a, x, more[i]) /\ TextOff(a, y, more[i])
  BY <1>2, <1>3 DEF Good
<1> QED
  BY <1>2, <1>4 DEF Good, more

\* New memory has nothing in common with an array.
LEMMA UnusedIsOff ==
  ASSUME NEW a, ArenaOK(a), NEW arr, ArrayOK(a, arr), NEW ptr, Unused(a, ptr), NEW n \in Nat
  PROVE  Off(a, arr, arr.item_count, ptr, n)
<1>1. TableOK(a, arr, arr.item_count) /\ arr.pages_capacity \in Nat /\ ItemsPerPage \in Nat
  BY CountedFacts, Sizes DEF ArrayOK
<1>2. \A q : \A m \in Nat : InUse(a, q, m) => Apart(ptr, n, q, m)
  BY UnusedIsApart, ApartIsSymmetric
<1> QED
  BY <1>1, <1>2 DEF Off, TableOK

\* Nor has a string that is extended, if it had not before.
LEMMA ExtendedIsOff ==
  ASSUME NEW a, ArenaOK(a), NEW arr, ArrayOK(a, arr), NEW ptr, NEW n \in Nat,
         Extended(a, ptr, n, ptr), Off(a, arr, arr.item_count, ptr, n), NEW size \in Nat
  PROVE  Off(a, arr, arr.item_count, ptr, size)
<1>1. TableOK(a, arr, arr.item_count) /\ arr.pages_capacity \in Nat
      /\ ItemsPerPage \in Nat /\ ItemsPerPage > 0
  BY CountedFacts, Sizes DEF ArrayOK
<1>2. ASSUME NEW q, NEW m \in Nat, m > 0, InUse(a, q, m), Apart(ptr, n, q, m)
      PROVE  Apart(ptr, size, q, m)
  <2>1. /\ q[2] \in Nat /\ ptr[2] \in Nat /\ a.point \in Nat
        /\ q[1] = Len(a.pages) => q[2] + m <= a.point
        /\ ptr[1] = Len(a.pages) /\ ptr[2] + n = a.point
    BY <1>2, ArenaFacts DEF InUse, OnPage, Addresses, Extended
  <2>2. ptr[1] # q[1] \/ ptr[2] + n <= q[2] \/ q[2] + m <= ptr[2]
    BY <1>2 DEF Apart
  <2>3. ptr[1] # q[1] \/ q[2] + m <= ptr[2]
    BY <1>2, <2>1, <2>2
  <2> QED BY <2>3 DEF Apart
<1> QED
  BY <1>1, <1>2 DEF Off, TableOK

-----------------------------------------------------------------------------
(* Every operation preserves it                                              *)

\* The items of both arrays are where they were.
ItemsStay == SamePlaces(old, old') /\ SamePlaces(array, array')

\* Items stay where they are when their pages do.
LEMMA KeptItemsStay ==
  ASSUME SamePages(arena, array, arena', array', array.item_count),
         SamePages(arena, old, arena', old', old.item_count)
  PROVE  ItemsStay
<1>1. \A a, b, x, y : SamePages(a, x, b, y, x.item_count) =>
        \A i \in 0 .. (x.item_count - 1) : AddressOf(b, y, i) = AddressOf(a, x, i)
  BY SamePagesSame
<1> QED
  BY <1>1 DEF ItemsStay, SamePlaces

\* The invariant holds at the start, when there is neither text nor item.
LEMMA InitInv == Init => Inv
<1> SUFFICES ASSUME Init PROVE Inv
  OBVIOUS
<1>1. ArenaOK(NewArena)
  <2> DEFINE page == Fresh(InitialPageSize)
  <2>1. page \in Seq(Memory) /\ Len(page) \in Nat
    BY Sizes, FreshCells
  <2> DEFINE pages == <<page>>
  <2> HIDE DEF page
  <2>2. pages \in Seq(Seq(Memory)) /\ Len(pages) = 1 /\ pages[1] = page
    BY <2>1
  <2>3. NewArena.pages = pages /\ NewArena.point = 0 /\ NewArena \in Arenas
    BY <2>2, Sizes DEF NewArena, Arenas, page
  <2> HIDE DEF pages
  <2>4. Len(NewArena.pages) = 1 /\ NewArena.pages[1] = page /\ 0 <= Len(page)
    BY <2>1, <2>2, <2>3
  <2>5. NewArena.point <= Len(NewArena.pages[Len(NewArena.pages)])
    BY <2>3, <2>4
  <2> QED BY <2>3, <2>4, <2>5 DEF ArenaOK
<1>2. /\ EmptyArray.item_count = 0 /\ EmptyArray.pages_capacity = 0
      /\ EmptyArray.items = <<>> /\ EmptyArray \in Arrays /\ 0 .. (0 - 1) = {}
  BY DEF EmptyArray, Arrays
<1>3. \A a : ArrayOK(a, EmptyArray) /\ Separate(a, EmptyArray, 0, EmptyArray)
  BY <1>2 DEF ArrayOK, Counted, TableOK, HoldsItems, Separate
<1>4. NullString \in Texts /\ NullString.str = NULL /\ NullString.len = 0
      /\ NullString.text = <<>>
  BY DEF NullString, Text, Texts
<1>5. \A a : TextOK(a, NullString) /\ \A arr : TextOff(a, arr, NullString)
  BY <1>4, NullIsNoAddress DEF TextOK, TextOff, InUse, OnPage
<1>6. texts \in Seq(Texts) /\ Len(texts) = 1 /\ texts[1] = NullString
  BY <1>4 DEF Init
<1>7. \A i \in 1 .. Len(texts) : texts[i] = NullString
  BY <1>6
<1> QED
  BY <1>1, <1>2, <1>3, <1>5, <1>6, <1>7 DEF Init, Inv, Good

\* A token is a part of the statement: it preserves the invariant.
LEMMA TokenInv ==
  ASSUME Inv, NEW offset \in 0 .. (Len(Sql) - 1), NEW len \in 1 .. (Len(Sql) - offset),
         Token(offset, len)
  PROVE  Inv' /\ ItemsStay
<1> DEFINE cells == SubSeq(Sql, offset + 1, offset + len)
           t == Text(<<0, offset>>, len, cells)
<1>1. offset \in Nat /\ len \in Nat /\ offset + len <= Len(Sql)
  BY SqlIsMemory
<1>2. cells \in Seq(Memory) /\ Len(cells) = len
  BY <1>1, SqlIsMemory
<1>3. arena' = arena /\ array' = array /\ old' = old /\ texts' = Append(texts, t)
  BY DEF Token
<1>4. Read(arena, <<0, offset>>, len) = cells
  BY DEF Read
<1> HIDE DEF cells
<1>5. t.str = <<0, offset>> /\ t.len = len /\ t.text = cells /\ t \in Texts
  BY <1>1, <1>2 DEF Text, Texts, Addresses
<1> HIDE DEF t
<1>6. TextOK(arena, t)
  <2>1. Readable(arena, <<0, offset>>, len)
    BY <1>1 DEF Readable
  <2> QED BY <1>2, <1>4, <1>5, <2>1 DEF TextOK
<1>7. \A arr : TextOff(arena, arr, t)
  BY <1>5 DEF TextOff, InUse, OnPage
<1>8. Good(arena, texts, array, old)
  BY DEF Inv
<1>9. ItemsStay
  BY <1>3, KeptItemsStay DEF SamePages
<1> QED
  BY <1>3, <1>6, <1>7, <1>8, <1>9, GoodText DEF Inv

\* The string or node at ptr in b is new.
LEMMA NewText ==
  ASSUME NEW a, NEW ts, NEW x, NEW y, Good(a, ts, x, y),
         NEW b, ArenaOK(b), Keeps(a, b),
         NEW t, t \in Texts, t.len = Len(t.text),
         InUse(b, t.str, t.len), Read(b, t.str, t.len) = t.text,
         Off(a, x, x.item_count, t.str, t.len), Off(a, y, y.item_count, t.str, t.len)
  PROVE  /\ Good(b, Append(ts, t), x, y)
         /\ SamePages(a, x, b, x, x.item_count) /\ SamePages(a, y, b, y, y.item_count)
<1>1. /\ Good(b, ts, x, y)
      /\ SamePages(a, x, b, x, x.item_count) /\ SamePages(a, y, b, y, y.item_count)
  BY GoodKept
<1>2. TextOff(b, x, t) /\ TextOff(b, y, t)
  BY <1>1, StaysOff DEF TextOff
<1>3. TextOK(b, t)
  BY DEF TextOK, Readable
<1> QED
  BY <1>1, <1>2, <1>3, GoodText

\* A node of the parser takes a new block: it preserves the invariant.
LEMMA NewNodeInv ==
  ASSUME Inv, NEW cells \in Nodes, NEW oom \in BOOLEAN, NewNode(cells, oom)
  PROVE  Inv' /\ ItemsStay
<1> DEFINE new == Alloc(arena, Len(cells), oom)
           b == Write(new.arena, new.ptr, cells)
           t == Text(new.ptr, Len(cells), cells)
<1>1. cells \in Seq(Memory) /\ Len(cells) \in Nat
  <2>1. cells \in Seq(Cells) /\ Cells \subseteq Memory
    BY ContentAssumption DEF Memory
  <2> QED BY <2>1, SeqMonotonic
<1>2. Good(arena, texts, array, old) /\ ArenaOK(arena) /\ ArrayOK(arena, array)
      /\ ArrayOK(arena, old)
  BY DEF Inv, Good
<1>3. Allocated(arena, new, Len(cells))
  BY <1>1, <1>2, AllocIs
<1>4. array' = array /\ old' = old
  BY DEF NewNode
<1>5. CASE new.ptr = NULL
  <2>1. arena' = new.arena /\ texts' = texts
    BY <1>5 DEF NewNode, Finish
  <2>2. /\ Good(new.arena, texts, array, old)
        /\ SamePages(arena, array, new.arena, array, array.item_count)
        /\ SamePages(arena, old, new.arena, old, old.item_count)
    BY <1>2, <1>3, GoodKept DEF Allocated
  <2> QED BY <1>4, <2>1, <2>2, KeptItemsStay DEF Inv
<1>6. CASE new.ptr # NULL
  <2>1. arena' = b /\ texts' = Append(texts, t)
    BY <1>6 DEF NewNode, Finish
  <2> HIDE DEF new
  <2>2. ArenaOK(b) /\ Keeps(arena, b) /\ InUse(b, new.ptr, Len(cells))
        /\ Read(b, new.ptr, Len(cells)) = cells
    <3>1. Len(cells) <= Len(cells)
      BY <1>1
    <3> QED BY <1>1, <1>2, <1>3, <1>6, <3>1, WriteToNew
  <2>3. Unused(arena, new.ptr) /\ new.ptr \in Addresses
    BY <1>3, <1>6 DEF Allocated, Unused
  <2>4. t.str = new.ptr /\ t.len = Len(cells) /\ t.text = cells /\ t \in Texts
    BY <1>1, <2>3 DEF Text, Texts
  <2> HIDE DEF b, t
  <2>5. /\ Off(arena, array, array.item_count, new.ptr, Len(cells))
        /\ Off(arena, old, old.item_count, new.ptr, Len(cells))
    BY <1>1, <1>2, <2>3, UnusedIsOff
  <2>6. /\ Good(b, Append(texts, t), array, old)
        /\ SamePages(arena, array, b, array, array.item_count)
        /\ SamePages(arena, old, b, old, old.item_count)
    BY <1>2, <2>2, <2>4, <2>5, NewText
  <2> QED BY <1>4, <2>1, <2>6, KeptItemsStay DEF Inv
<1> QED
  BY <1>5, <1>6

\* concat takes a new block for the joined text: it preserves the invariant.
LEMMA ConcatInv ==
  ASSUME Inv, NEW i \in 1 .. Len(texts), NEW j \in 1 .. Len(texts), NEW oom \in BOOLEAN,
         Concat(texts[i], texts[j], oom)
  PROVE  Inv' /\ ItemsStay
<1> DEFINE s == texts[i]
           other == texts[j]
           size == s.len + other.len
           new == Realloc(arena, s.str, size, s.len, oom)
           b == Concatenated(new.arena, new.ptr, s, other)
           t == Text(new.ptr, size, s.text \o other.text)
<1>1. /\ Good(arena, texts, array, old) /\ ArenaOK(arena) /\ texts \in Seq(Texts)
      /\ ArrayOK(arena, array) /\ ArrayOK(arena, old)
  BY DEF Inv, Good
<1>2. /\ TextOK(arena, s) /\ TextOff(arena, array, s) /\ TextOff(arena, old, s)
      /\ TextOK(arena, other) /\ TextOff(arena, array, other) /\ TextOff(arena, old, other)
  BY <1>1 DEF Good
<1>3. other.str # NULL /\ array' = array /\ old' = old
  BY DEF Concat
<1> HIDE DEF s, other
<1>4. /\ s \in Texts /\ other \in Texts /\ s.len \in Nat /\ other.len \in Nat
      /\ s.text \in Seq(Memory) /\ other.text \in Seq(Memory)
      /\ s.len = Len(s.text) /\ other.len = Len(other.text) /\ size \in Nat /\ s.len <= size
  BY <1>2 DEF TextOK, Texts
<1>5. CASE s.str = NULL
  <2>1. texts' = Append(texts, other) /\ arena' = arena
    BY <1>5 DEF Concat, s, other
  <2>2. Good(arena, Append(texts, other), array, old)
    BY <1>1, <1>2, GoodText
  <2>3. ItemsStay
    BY <1>3, <2>1, KeptItemsStay DEF SamePages
  <2> QED BY <1>3, <2>1, <2>2, <2>3 DEF Inv
<1>6. CASE s.str # NULL
  <2>1. /\ arena' = IF new.ptr = NULL THEN new.arena ELSE b
        /\ texts' = IF new.ptr = NULL THEN texts ELSE Append(texts, t)
    BY <1>6 DEF Concat, Finish, s, other
  <2>2. /\ Readable(arena, s.str, s.len) /\ Read(arena, s.str, s.len) = s.text
        /\ Readable(arena, other.str, other.len)
        /\ Read(arena, other.str, other.len) = other.text
    BY <1>2, <1>3, <1>6 DEF TextOK
  <2> HIDE DEF size
  <2>3. Reallocated(arena, s.str, s.len, new, size)
    BY <1>1, <1>4, <2>2, ReallocIs
  <2> HIDE DEF new, b, t
  <2>4. CASE new.ptr = NULL
    <3>1. /\ Good(new.arena, texts, array, old)
          /\ SamePages(arena, array, new.arena, array, array.item_count)
          /\ SamePages(arena, old, new.arena, old, old.item_count)
      BY <1>1, <2>3, GoodKept DEF Reallocated
    <3> QED BY <1>3, <2>1, <2>4, <3>1, KeptItemsStay DEF Inv
  <2>5. CASE new.ptr # NULL
    <3>1. Joined(arena, b, new.ptr, s, other)
      BY <1>1, <1>4, <2>2, <2>3, <2>5, ConcatenatedIs DEF size, b
    <3> DEFINE both == s.text \o other.text
    <3>2. both \in Seq(Memory) /\ Len(both) = size
      BY <1>4 DEF size
    <3>3. /\ ArenaOK(b) /\ Keeps(arena, b) /\ InUse(b, new.ptr, size)
          /\ Read(b, new.ptr, size) = both
      BY <2>2, <3>1 DEF Joined, size
    <3> HIDE DEF both
    <3>4. new.ptr \in Addresses
      BY <3>3 DEF InUse, OnPage
    <3>5. t.str = new.ptr /\ t.len = size /\ t.text = both /\ t \in Texts
      BY <1>4, <3>2, <3>4 DEF t, Text, Texts, both
    <3>6. /\ Off(arena, array, array.item_count, new.ptr, size)
          /\ Off(arena, old, old.item_count, new.ptr, size)
      <4>1. CASE Unused(arena, new.ptr)
        BY <1>1, <1>4, <4>1, UnusedIsOff
      <4>2. CASE Extended(arena, s.str, s.len, new.ptr)
        <5>1. new.ptr = s.str /\ InUse(arena, s.str, s.len)
              /\ Extended(arena, s.str, s.len, s.str)
          BY <4>2 DEF Extended
        <5>2. /\ Off(arena, array, array.item_count, s.str, s.len)
              /\ Off(arena, old, old.item_count, s.str, s.len)
          BY <1>2, <5>1 DEF TextOff
        <5> QED BY <1>1, <1>4, <5>1, <5>2, ExtendedIsOff
      <4> QED BY <2>3, <2>5, <4>1, <4>2 DEF Reallocated
    <3>7. /\ Good(b, Append(texts, t), array, old)
          /\ SamePages(arena, array, b, array, array.item_count)
          /\ SamePages(arena, old, b, old, old.item_count)
      BY <1>1, <3>2, <3>3, <3>5, <3>6, NewText
    <3> QED BY <1>3, <2>1, <2>5, <3>7, KeptItemsStay DEF Inv
  <2> QED BY <2>4, <2>5
<1> QED
  BY <1>5, <1>6

\* A push to either array also leaves every item of both where it was.
LEMMA PushInv ==
  ASSUME Inv, NEW item \in Items, NEW no_table \in BOOLEAN, NEW no_page \in BOOLEAN,
         Push(item, no_table, no_page)
  PROVE  Inv' /\ ItemsStay
<1> DEFINE p == Pushed(arena, array, item, no_table, no_page)
<1>1. arena' = p.arena /\ array' = p.arr /\ texts' = texts /\ old' = old
  BY DEF Push
<1>2. Good(arena, texts, array, old) /\ ArenaOK(arena) /\ ArrayOK(arena, array)
  BY DEF Inv, Good
<1>3. ArrayStep(arena, array, p.arena, p.arr)
  BY <1>2, PushedIs
<1> HIDE DEF p
<1>4. /\ Good(p.arena, texts, p.arr, old)
      /\ SamePages(arena, array, p.arena, p.arr, array.item_count)
      /\ SamePages(arena, old, p.arena, old, old.item_count)
  BY <1>2, <1>3, GoodArrayStep
<1> QED
  BY <1>1, <1>4, KeptItemsStay DEF Inv

\* A push to the array that was copied preserves the invariant and moves no item.
LEMMA PushOldInv ==
  ASSUME Inv, NEW item \in Items, NEW no_table \in BOOLEAN, NEW no_page \in BOOLEAN,
         PushOld(item, no_table, no_page)
  PROVE  Inv' /\ ItemsStay
<1> DEFINE p == Pushed(arena, old, item, no_table, no_page)
<1>1. arena' = p.arena /\ old' = p.arr /\ texts' = texts /\ array' = array
  BY DEF PushOld
<1>2. Good(arena, texts, old, array) /\ ArenaOK(arena) /\ ArrayOK(arena, old)
  BY GoodEitherWay DEF Inv, Good
<1>3. ArrayStep(arena, old, p.arena, p.arr)
  BY <1>2, PushedIs
<1> HIDE DEF p
<1>4. /\ Good(p.arena, texts, array, p.arr)
      /\ SamePages(arena, old, p.arena, p.arr, old.item_count)
      /\ SamePages(arena, array, p.arena, array, array.item_count)
  BY <1>2, <1>3, GoodArrayStep, GoodEitherWay
<1> QED
  BY <1>1, <1>4, KeptItemsStay DEF Inv

\* The copy takes over the items where they are and the array starts anew with
\* none: the invariant is kept.
LEMMA CopyAndTruncateInv ==
  ASSUME Inv, CopyAndTruncate
  PROVE  Inv' /\ SamePlaces(old, old') /\ SamePlaces(array, old')
<1> DEFINE empty == Truncated(array)
<1>1. arena' = arena /\ texts' = texts /\ old' = array /\ array' = empty /\ old.items = <<>>
  BY DEF CopyAndTruncate
<1>2. /\ ArenaOK(arena) /\ texts \in Seq(Texts) /\ ArrayOK(arena, array) /\ ArrayOK(arena, old)
      /\ \A i \in 1 .. Len(texts) : TextOK(arena, texts[i]) /\ TextOff(arena, array, texts[i])
  BY DEF Inv, Good
<1>3. array \in Arrays /\ old.item_count = 0
  BY <1>1, <1>2 DEF ArrayOK, Counted
<1>4. /\ empty.item_count = 0 /\ empty.pages_capacity = 0 /\ empty.items = <<>>
      /\ empty \in Arrays /\ 0 .. (0 - 1) = {}
  <2>1. <<>> \in Seq(Items) /\ 0 \in Nat /\ NULL \in Addresses \cup {NULL} /\ 0 .. (0 - 1) = {}
    OBVIOUS
  <2> DEFINE none == <<>>
  <2>2. none \in Seq(Items) /\ empty = [array EXCEPT !.item_count = 0, !.pages_capacity = 0,
                                                    !.pages = NULL, !.items = none]
    BY <2>1 DEF Truncated
  <2> HIDE DEF empty, none
  <2>3. /\ empty \in Arrays /\ empty.item_count = 0 /\ empty.pages_capacity = 0
        /\ empty.items = none
    BY <1>3, <2>1, <2>2 DEF Arrays
  <2> QED BY <2>1, <2>3 DEF none
<1> HIDE DEF empty
<1>5. ArrayOK(arena, empty)
  BY <1>4 DEF ArrayOK, Counted, TableOK, HoldsItems
<1>6. \A q, m : Off(arena, empty, empty.item_count, q, m)
  BY <1>4 DEF Off
<1>7. Separate(arena, empty, empty.item_count, array)
  BY <1>6 DEF Separate
<1>8. Separate(arena, array, array.item_count, empty)
  BY <1>7, SeparateIsSymmetric
<1>9. \A i \in 1 .. Len(texts) : TextOff(arena, empty, texts[i])
  BY <1>6 DEF TextOff
<1>10. Good(arena, texts, empty, array)
  BY <1>2, <1>5, <1>7, <1>8, <1>9 DEF Good
<1>11. SamePlaces(array, old')
  BY <1>1 DEF SamePlaces, AddressOf, PageOf
<1>12. SamePlaces(old, old')
  BY <1>3, <1>4 DEF SamePlaces
<1> QED
  BY <1>1, <1>10, <1>11, <1>12 DEF Inv

\* Every step preserves the invariant.
LEMMA NextInv == Inv /\ [Next]_vars => Inv'
<1> SUFFICES ASSUME Inv, [Next]_vars PROVE Inv'
  OBVIOUS
<1>1. CASE \E offset \in 0 .. (Len(Sql) - 1) : \E len \in 1 .. (Len(Sql) - offset) :
             Token(offset, len)
  BY <1>1, TokenInv
<1>2. CASE \E cells \in Nodes, oom \in BOOLEAN : NewNode(cells, oom)
  BY <1>2, NewNodeInv
<1>3. CASE \E i, j \in 1 .. Len(texts), oom \in BOOLEAN : Concat(texts[i], texts[j], oom)
  BY <1>3, ConcatInv
<1>4. CASE \E item \in Items, no_table, no_page \in BOOLEAN : Push(item, no_table, no_page)
  BY <1>4, PushInv
<1>5. CASE \E item \in Items, no_table, no_page \in BOOLEAN :
             PushOld(item, no_table, no_page)
  BY <1>5, PushOldInv
<1>6. CASE CopyAndTruncate
  BY <1>6, CopyAndTruncateInv
<1>7. CASE UNCHANGED vars
  BY <1>7 DEF vars, Inv
<1> QED
  BY <1>1, <1>2, <1>3, <1>4, <1>5, <1>6, <1>7 DEF Next

\* The invariant always holds.
LEMMA SpecInv == Spec => []Inv
<1> QED
  BY InitInv, NextInv, PTL DEF Spec

-----------------------------------------------------------------------------
(* The theorems                                                              *)

\* No string and no node is ever overwritten, moved under its pointer or cut
\* off, whatever is concatenated, pushed and truncated and whichever
\* allocation fails.
THEOREM TextsAlwaysSurvive == Spec => []TextsSurvive
<1>1. Inv => TextsSurvive
  <2> SUFFICES ASSUME Inv PROVE TextsSurvive
    OBVIOUS
  <2>1. ArenaOK(arena) /\ \A i \in 1 .. Len(texts) : TextOK(arena, texts[i])
    BY DEF Inv, Good
  <2>2. arena.point \in 0 .. Stop(arena)
    BY <2>1, ArenaFacts DEF Stop, Current
  <2>3. ASSUME NEW i \in 1 .. Len(texts)
        PROVE  LET t == texts[i]
               IN  /\ t.len = Len(t.text)
                   /\ t.str # NULL =>
                        /\ t.str[1] > 0 => t.str[2] + t.len <= Len(arena.pages[t.str[1]])
                        /\ Read(arena, t.str, t.len) = t.text
    <3> DEFINE t == texts[i]
    <3>1. TextOK(arena, t)
      BY <2>1
    <3> HIDE DEF t
    <3>2. t.str # NULL /\ t.str[1] > 0 => t.str[2] + t.len <= Len(arena.pages[t.str[1]])
      BY <3>1 DEF TextOK, Readable, InUse, OnPage
    <3> QED BY <3>1, <3>2 DEF TextOK, t
  <2> QED BY <2>2, <2>3 DEF TextsSurvive
<1> QED
  BY <1>1, SpecInv, PTL

\* The array and its copy hold what was pushed to each of them.
THEOREM ArraysAlwaysSurvive == Spec => []ArraysSurvive
<1>1. Inv => ArraysSurvive
  BY DEF Inv, Good, ArrayOK, HoldsItems, ArraysSurvive
<1> QED
  BY <1>1, SpecInv, PTL

\* The page numbers of an array's items are all numbers up to the last one.
LEMMA PagesOfItems ==
  ASSUME NEW c \in Nat \ {0}, NEW n \in 0 .. ((c - 1) \div ItemsPerPage)
  PROVE  /\ n * ItemsPerPage \in 0 .. (c - 1) /\ PageNo(n * ItemsPerPage) = n
         /\ n \in Nat
<1> DEFINE last == PageNo(c - 1)
           nb == n * ItemsPerPage
           lb == last * ItemsPerPage
<1>1. /\ c - 1 \in Nat /\ last \in Nat /\ Slot(c - 1) \in Nat
      /\ c - 1 = lb + Slot(c - 1)
  <2>1. c - 1 \in Nat
    OBVIOUS
  <2> QED BY <2>1, Division
<1>2. n \in Nat /\ n <= last
  BY <1>1 DEF PageNo
<1>3. nb \in Nat /\ lb \in Nat
  BY <1>1, <1>2, Sizes
<1> HIDE DEF last
<1>4. nb <= lb
  <2>1. CASE n = last
    BY <1>3, <2>1
  <2>2. CASE n < last
    <3>1. nb + ItemsPerPage <= lb
      BY <1>1, <1>2, <2>2, PagesInOrder
    <3> HIDE DEF nb, lb
    <3> QED BY <1>3, <3>1, Sizes
  <2> QED BY <1>1, <1>2, <2>1, <2>2
<1>5. PageNo(nb) = n
  <2>1. 0 \in 0 .. (ItemsPerPage - 1) /\ nb + 0 = nb
    BY <1>3, Sizes
  <2>2. PageNo(nb + 0) = n
    BY <1>2, <2>1, DivisionIsUnique
  <2> QED BY <2>1, <2>2
<1> HIDE DEF nb, lb
<1>6. nb <= c - 1
  BY <1>1, <1>3, <1>4
<1> QED
  BY <1>1, <1>2, <1>3, <1>5, <1>6 DEF nb

\* An address is on a page if it is that of one of its slots.
LEMMA InPageIs ==
  ASSUME NEW page \in Addresses, NEW ptr \in Addresses
  PROVE  InPage(page, ptr) <=>
           /\ ptr[1] = page[1] /\ ptr[2] - page[2] \in 0 .. (ItemsPerPage - 1)
           /\ ptr = <<page[1], page[2] + (ptr[2] - page[2])>>
<1>1. page[2] \in Nat /\ ptr[2] \in Nat /\ ptr = <<ptr[1], ptr[2]>> /\ ItemsPerPage \in Nat
  BY Sizes DEF Addresses
<1>2. ptr[2] = page[2] + (ptr[2] - page[2])
  BY <1>1
<1> QED
  BY <1>1, <1>2 DEF InPage

\* has_item answers TRUE for the addresses of the items and for no other.
THEOREM HasItemAlwaysExact == Spec => []HasItemIsExact
<1>1. ASSUME Inv, NEW arr, ArrayOK(arena, arr), arr.item_count > 0, NEW ptr \in Addresses
      PROVE  HasItem(arena, arr, ptr) <=>
               \E i \in 0 .. (arr.item_count - 1) : ptr = AddressOf(arena, arr, i)
  <2> DEFINE c == arr.item_count
             b == ItemsPerPage
             last == (c - 1) \div b
             page(n) == PageOf(arena, arr, n)
             d(n) == ptr[2] - page(n)[2]
  <2>1. /\ ArenaOK(arena) /\ TableOK(arena, arr, c) /\ c \in Nat \ {0}
        /\ b \in Nat /\ b > 0
    BY <1>1, CountedFacts, Sizes DEF Inv, Good, ArrayOK
  <2>2. \A n \in 0 .. last : /\ n \in Nat /\ n * b \in 0 .. (c - 1) /\ PageNo(n * b) = n
                             /\ PageFrom(arena, arr, n * b) = page(n)
    BY <2>1, PagesOfItems DEF PageFrom
  <2>3. \A n \in 0 .. last : /\ InUse(arena, page(n), b) /\ page(n) \in Addresses
    <3> SUFFICES ASSUME NEW n \in 0 .. last PROVE InUse(arena, page(n), b) /\ page(n) \in Addresses
      OBVIOUS
    <3> DEFINE i == n * b
    <3>1. i \in 0 .. (c - 1) /\ PageFrom(arena, arr, i) = page(n)
      BY <2>2
    <3> HIDE DEF i, page
    <3>2. InUse(arena, page(n), b)
      BY <2>1, <3>1 DEF TableOK
    <3> QED BY <3>2 DEF InUse, OnPage
  <2>4. \A n, m \in 0 .. last : n # m => Apart(page(n), b, page(m), b)
    <3> SUFFICES ASSUME NEW n \in 0 .. last, NEW m \in 0 .. last, n # m
                 PROVE  Apart(page(n), b, page(m), b)
      OBVIOUS
    <3> DEFINE i == n * b
               j == m * b
    <3>1. /\ i \in 0 .. (c - 1) /\ PageFrom(arena, arr, i) = page(n) /\ PageNo(i) = n
          /\ j \in 0 .. (c - 1) /\ PageFrom(arena, arr, j) = page(m) /\ PageNo(j) = m
      BY <2>2
    <3> HIDE DEF i, j, page
    <3> QED BY <2>1, <3>1 DEF TableOK
  <2>5. \A n \in 0 .. last :
          InPage(page(n), ptr) <=>
            /\ ptr[1] = page(n)[1] /\ d(n) \in 0 .. (b - 1)
            /\ ptr = <<page(n)[1], page(n)[2] + d(n)>>
    BY <1>1, <2>3, InPageIs
  <2>6. \A i \in 0 .. (c - 1) :
          /\ i \in Nat /\ PageNo(i) \in 0 .. last /\ Slot(i) \in 0 .. (b - 1)
          /\ i = PageNo(i) * b + Slot(i)
          /\ AddressOf(arena, arr, i) = <<page(PageNo(i))[1], page(PageNo(i))[2] + Slot(i)>>
    <3> SUFFICES ASSUME NEW i \in 0 .. (c - 1)
                 PROVE  /\ i \in Nat /\ PageNo(i) \in 0 .. last /\ Slot(i) \in 0 .. (b - 1)
                        /\ i = PageNo(i) * b + Slot(i)
                        /\ AddressOf(arena, arr, i)
                             = <<page(PageNo(i))[1], page(PageNo(i))[2] + Slot(i)>>
      OBVIOUS
    <3>1. i \in Nat /\ c - 1 \in Nat /\ i <= c - 1
      BY <2>1
    <3>2. PageNo(i) \in Nat /\ PageNo(c - 1) \in Nat /\ PageNo(i) <= PageNo(c - 1)
          /\ Slot(i) \in 0 .. (b - 1) /\ i = PageNo(i) * b + Slot(i)
      BY <3>1, Division, LaterPage
    <3>3. InUse(arena, PageFrom(arena, arr, i), b)
      BY <2>1 DEF TableOK
    <3>4. AddressOf(arena, arr, i) = <<page(PageNo(i))[1], page(PageNo(i))[2] + Slot(i)>>
      BY <2>1, <3>1, <3>3, PlaceInUse DEF PageFrom
    <3>5. last = PageNo(c - 1)
      BY DEF PageNo
    <3> HIDE DEF last, page
    <3>6. PageNo(i) \in 0 .. last
      BY <3>2, <3>5
    <3> QED BY <3>1, <3>2, <3>4, <3>6
  <2>7. ASSUME NEW n \in 0 .. last, InPage(page(n), ptr), n * b + d(n) < c
        PROVE  \E i \in 0 .. (c - 1) : ptr = AddressOf(arena, arr, i)
    <3> DEFINE i == n * b + d(n)
    <3>1. n \in Nat /\ d(n) \in 0 .. (b - 1) /\ ptr = <<page(n)[1], page(n)[2] + d(n)>>
          /\ n * b \in Nat
      BY <2>1, <2>2, <2>5, <2>7
    <3>2. i \in 0 .. (c - 1)
      <4> DEFINE nb == n * b
                 e == d(n)
      <4>1. nb \in Nat /\ e \in Nat /\ nb + e < c
        BY <2>1, <2>7, <3>1
      <4> HIDE DEF nb, e
      <4>2. nb + e \in 0 .. (c - 1)
        BY <2>1, <4>1
      <4> QED BY <4>2 DEF nb, e
    <3>3. PageNo(i) = n /\ Slot(i) = d(n)
      BY <3>1, DivisionIsUnique
    <3> HIDE DEF i, d, page, last, c
    <3>4. AddressOf(arena, arr, i) = <<page(n)[1], page(n)[2] + d(n)>>
      BY <2>6, <3>2, <3>3
    <3> QED BY <3>1, <3>2, <3>4
  <2>8. ASSUME NEW i \in 0 .. (c - 1), ptr = AddressOf(arena, arr, i)
        PROVE  /\ PageNo(i) \in 0 .. last /\ InPage(page(PageNo(i)), ptr)
               /\ \A m \in 0 .. (PageNo(i) - 1) : ~InPage(page(m), ptr)
               /\ PageNo(i) * b + d(PageNo(i)) < c
    <3> DEFINE n == PageNo(i)
               o == page(n)[2]
    <3>1. /\ i \in Nat /\ n \in 0 .. last /\ Slot(i) \in 0 .. (b - 1) /\ i = n * b + Slot(i)
          /\ ptr = <<page(n)[1], o + Slot(i)>> /\ n \in Nat
      BY <2>6, <2>8, <2>2
    <3> HIDE DEF n
    <3>2. page(n) \in Addresses /\ o \in Nat
      BY <2>3, <3>1 DEF Addresses
    <3>3. d(n) = Slot(i) /\ ptr[1] = page(n)[1]
      <4>1. ptr[2] = o + Slot(i) /\ ptr[1] = page(n)[1]
        BY <3>1
      <4> HIDE DEF page
      <4>2. (o + Slot(i)) - o = Slot(i)
        BY <3>1, <3>2
      <4> QED BY <4>1, <4>2
    <3>4. InPage(page(n), ptr)
      BY <2>5, <3>1, <3>3
    <3>5. ASSUME NEW m \in 0 .. (n - 1) PROVE ~InPage(page(m), ptr)
      <4>1. m \in 0 .. last /\ m # n
        <5> HIDE DEF last
        <5>1. \A k \in 0 .. last : \A l \in 0 .. (k - 1) : l \in 0 .. last /\ l # k
          <6>1. last \in Int
            <7>1. c - 1 \in Nat /\ last = PageNo(c - 1)
              BY <2>1 DEF last, PageNo
            <7> QED BY <7>1, Division
          <6> QED BY <6>1
        <5> QED BY <3>1, <5>1
      <4>2. Apart(page(m), b, page(n), b)
        BY <2>4, <3>1, <4>1
      <4>3. page(m) \in Addresses /\ page(m)[2] \in Nat
        BY <2>3, <4>1 DEF Addresses
      <4> HIDE DEF page
      <4>4. ~(/\ page(m)[1] = page(n)[1]
              /\ ptr[2] - page(m)[2] \in 0 .. (b - 1) /\ ptr[2] - page(n)[2] \in 0 .. (b - 1))
        <5>1. ptr[2] \in Nat
          BY <1>1 DEF Addresses
        <5> QED BY <2>1, <3>2, <4>2, <4>3, <5>1 DEF Apart
      <4> QED BY <2>5, <3>1, <3>4, <4>1, <4>4
    <3>6. n * b + d(n) < c
      <4>1. n * b + d(n) = i /\ i < c
        BY <2>1, <3>1, <3>3
      <4> QED BY <4>1
    <3> QED BY <3>1, <3>4, <3>5, <3>6 DEF n
  <2>9. HasItem(arena, arr, ptr) <=>
          \E n \in 0 .. last : /\ InPage(page(n), ptr)
                               /\ \A m \in 0 .. (n - 1) : ~InPage(page(m), ptr)
                               /\ n * b + d(n) < c
    BY DEF HasItem
  <2> HIDE DEF page, d, last, c, b
  <2>10. HasItem(arena, arr, ptr) => \E i \in 0 .. (c - 1) : ptr = AddressOf(arena, arr, i)
    BY <2>7, <2>9
  <2>11. (\E i \in 0 .. (c - 1) : ptr = AddressOf(arena, arr, i)) => HasItem(arena, arr, ptr)
    BY <2>8, <2>9
  <2> QED BY <2>10, <2>11 DEF c
<1>2. Inv => HasItemIsExact
  <2> SUFFICES ASSUME Inv, NEW arr \in {array, old}, arr.item_count > 0, NEW ptr \in Pointers
               PROVE  HasItem(arena, arr, ptr) <=>
                        \E i \in 0 .. (arr.item_count - 1) : ptr = AddressOf(arena, arr, i)
    BY DEF HasItemIsExact
  <2>1. ArenaOK(arena) /\ ArrayOK(arena, arr)
    BY DEF Inv, Good
  <2>2. ptr \in Addresses
    <3>1. PICK p \in 1 .. Len(arena.pages) :
                 \E o \in 0 .. Len(arena.pages[p]) : ptr = <<p, o>>
      BY DEF Pointers
    <3>2. PICK o \in 0 .. Len(arena.pages[p]) : ptr = <<p, o>>
      BY <3>1
    <3>3. p \in Nat /\ o \in Nat
      BY <2>1, ArenaFacts
    <3> QED BY <3>2, <3>3 DEF Addresses
  <2> QED BY <1>1, <2>1, <2>2
<1> QED
  BY <1>2, SpecInv, PTL

\* The items themselves are never moved.
THEOREM ItemsAreNeverMoved == Spec => ItemsNeverMove
<1> DEFINE Stay == /\ SamePlaces(old, old')
                   /\ IF CopyAndTruncate THEN SamePlaces(array, old')
                                         ELSE SamePlaces(array, array')
<1>1. Inv /\ [Next]_vars => [Stay]_vars
  <2> SUFFICES ASSUME Inv, Next PROVE Stay
    OBVIOUS
  <2>1. CASE CopyAndTruncate
    BY <2>1, CopyAndTruncateInv
  <2>2. CASE \E item \in Items, no_table, no_page \in BOOLEAN :
               Push(item, no_table, no_page)
    BY <2>1, <2>2, PushInv DEF ItemsStay
  <2>3. CASE \E item \in Items, no_table, no_page \in BOOLEAN :
               PushOld(item, no_table, no_page)
    BY <2>1, <2>3, PushOldInv DEF ItemsStay
  <2>4. CASE \E offset \in 0 .. (Len(Sql) - 1) : \E len \in 1 .. (Len(Sql) - offset) :
               Token(offset, len)
    BY <2>1, <2>4, TokenInv DEF ItemsStay
  <2>5. CASE \E cells \in Nodes, oom \in BOOLEAN : NewNode(cells, oom)
    BY <2>1, <2>5, NewNodeInv DEF ItemsStay
  <2>6. CASE \E i, j \in 1 .. Len(texts), oom \in BOOLEAN : Concat(texts[i], texts[j], oom)
    BY <2>1, <2>6, ConcatInv DEF ItemsStay
  <2> QED BY <2>1, <2>2, <2>3, <2>4, <2>5, <2>6 DEF Next
<1> QED
  BY <1>1, SpecInv, PTL DEF Spec, ItemsNeverMove, Stay
=============================================================================
