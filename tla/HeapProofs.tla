----------------------------- MODULE HeapProofs -----------------------------
(***************************************************************************)
(* Proofs about Heap, for heaps, pages, page tables, device regions and    *)
(* sizes of any size.                                                      *)
(***************************************************************************)
EXTENDS Heap, Facts

(***************************************************************************)
(* Sizes and orders.                                                       *)
(***************************************************************************)

CellBytes == 2^BaseOrder        \* bytes of a cell
CellsPerPage == 2^PageOrder
NumPages == 2^(MaxOrder - PageOrder)

\* The sizes in terms of each other.
LEMMA HeapSizes ==
  /\ CellBytes \in Nat \ {0} /\ CellsPerPage \in Nat \ {0} /\ NumPages \in Nat \ {0}
  /\ PageBytes = CellBytes * CellsPerPage /\ PageBytes \in Nat \ {0}
  /\ 2^MaxOrder = CellsPerPage * NumPages
  /\ HeapBytes = PageBytes * NumPages
  /\ Pages = 0..(NumPages - 1)
  /\ Cells = 0..(CellsPerPage * NumPages - 1)
<1> USE OrdersAssumption
<1>1. BaseOrder \in Nat /\ PageOrder \in Nat /\ MaxOrder - PageOrder \in Nat
  OBVIOUS
<1>2. CellBytes \in Nat \ {0} /\ CellsPerPage \in Nat \ {0} /\ NumPages \in Nat \ {0}
  BY <1>1, Power DEF CellBytes, CellsPerPage, NumPages
<1>3. PageBytes = CellBytes * CellsPerPage
  BY <1>1, PowerSum DEF PageBytes, CellBytes, CellsPerPage
<1>4. PageBytes \in Nat \ {0}
  BY <1>2, <1>3
<1>5. 2^MaxOrder = CellsPerPage * NumPages
  <2>1. MaxOrder = PageOrder + (MaxOrder - PageOrder)
    OBVIOUS
  <2>2. 2^(PageOrder + (MaxOrder - PageOrder)) = 2^PageOrder * 2^(MaxOrder - PageOrder)
    BY <1>1, PowerSum
  <2> QED BY <2>1, <2>2 DEF CellsPerPage, NumPages
<1>6. HeapBytes = PageBytes * NumPages
  <2>1. 2^(BaseOrder + MaxOrder) = CellBytes * 2^MaxOrder
    BY <1>1, PowerSum DEF CellBytes
  <2>2. CellBytes * (CellsPerPage * NumPages) = (CellBytes * CellsPerPage) * NumPages
    BY <1>2
  <2> QED BY <1>3, <1>5, <2>1, <2>2 DEF HeapBytes
<1>7. HeapBytes \div PageBytes = NumPages
  <2>1. (PageBytes * NumPages + 0) \div PageBytes = NumPages
    BY <1>2, <1>4, QuotientIs
  <2> QED BY <1>2, <1>4, <1>6, <2>1
<1> QED BY <1>2, <1>3, <1>4, <1>5, <1>6, <1>7 DEF Pages, Cells

\* Which sizes are asked for.
AllSizes == Sizes \union {PageBytes} \union {RegionBytes(r) : r \in DeviceRegions}

\* log2_ceil rounds up to the next power of two.
LEMMA CeilRoundsUp ==
  ASSUME NEW size \in Nat \ {0}, IsUsize(size)
  PROVE  /\ Log2Ceil(size) \in Nat
         /\ size <= 2^Log2Ceil(size) /\ 2^Log2Ceil(size) < 2 * size
<1> DEFINE m == Log2Floor(size)
<1>1. m \in 0..63 /\ 2^m <= size /\ size < 2^(m + 1)
  BY DEF Log2Floor, IsUsize
<1> HIDE DEF m
<1>2. m \in Nat /\ 2^m \in Nat \ {0}
  BY <1>1, Power
<1>3. 2^(m + 1) = 2 * 2^m
  BY <1>2, PowerNext
<1>4. Log2Ceil(size) = IF size # 2^m THEN m + 1 ELSE m
  BY DEF Log2Ceil, m
<1>5. CASE size # 2^m
  BY <1>1, <1>2, <1>3, <1>4, <1>5
<1>6. CASE size = 2^m
  BY <1>1, <1>2, <1>4, <1>6
<1> QED BY <1>5, <1>6

\* The order that alloc computes is that of a block at least twice the size asked for.
LEMMA OrderFits ==
  ASSUME NEW size \in Nat, IsUsize(size)
  PROVE  /\ OrderOf(size) \in Nat /\ OrderOf(size) + BaseOrder - 1 \in Nat
         /\ size <= 2^(OrderOf(size) + BaseOrder - 1)
<1> DEFINE k == OrderOf(size)
<1>0. BaseOrder \in Nat \ {0}
  BY OrdersAssumption
<1>1. CASE size = 0
  <2>1. k = 0
    BY <1>1 DEF OrderOf
  <2>2. 2^(BaseOrder - 1) \in Nat
    BY <1>0, Power
  <2> QED BY <1>0, <1>1, <2>1, <2>2
<1>2. CASE size # 0
  <2>1. /\ Log2Ceil(size) \in Nat /\ 2^Log2Ceil(size) \in Nat
        /\ size <= 2^Log2Ceil(size)
    BY <1>2, CeilRoundsUp, Power
  <2>2. k = IF Log2Ceil(size) + 1 <= BaseOrder THEN 0 ELSE Log2Ceil(size) + 1 - BaseOrder
    BY <1>2 DEF OrderOf
  <2>3. k \in Nat /\ k + BaseOrder - 1 \in Nat /\ Log2Ceil(size) <= k + BaseOrder - 1
    BY <1>0, <2>1, <2>2
  <2>4. 2^Log2Ceil(size) <= 2^(k + BaseOrder - 1) /\ 2^(k + BaseOrder - 1) \in Nat
    BY <2>1, <2>3, PowerMonotone, Power
  <2> QED BY <2>1, <2>3, <2>4
<1> QED BY <1>1, <1>2

\* A block of a page or more is at most four times as large as what was asked for.
LEMMA OrderTight ==
  ASSUME NEW size \in Nat, IsUsize(size), PageBytes <= size
  PROVE  /\ OrderOf(size) > PageOrder
         /\ 2^(OrderOf(size) + BaseOrder) < 4 * size
<1> DEFINE n == Log2Ceil(size)
<1>0. BaseOrder \in Nat \ {0} /\ PageOrder \in Nat \ {0} /\ PageBytes \in Nat \ {0}
  BY OrdersAssumption, HeapSizes
<1>1. n \in Nat /\ size <= 2^n /\ 2^n < 2 * size /\ 2^n \in Nat
  BY <1>0, CeilRoundsUp, Power
<1>2. n >= BaseOrder + PageOrder
  <2> SUFFICES ASSUME n < BaseOrder + PageOrder PROVE FALSE
    BY <1>0, <1>1
  <2>1. 2^(n + 1) <= 2^(BaseOrder + PageOrder)
    BY <1>0, <1>1, PowerMonotone
  <2>2. 2^(n + 1) = 2 * 2^n
    BY <1>1, PowerNext
  <2> QED BY <1>0, <1>1, <2>1, <2>2 DEF PageBytes
<1>3. OrderOf(size) = n + 1 - BaseOrder
  BY <1>0, <1>1, <1>2 DEF OrderOf
<1>4. 2^(n + 1) = 2 * 2^n
  BY <1>1, PowerNext
<1> HIDE DEF n
<1>5. OrderOf(size) + BaseOrder = n + 1
  BY <1>0, <1>1, <1>3
<1> QED BY <1>0, <1>1, <1>2, <1>3, <1>4, <1>5

(***************************************************************************)
(* Blocks, cells and pages.                                                *)
(***************************************************************************)

\* A block of an order, as friendly gives it: aligned, and inside the heap.
IsBlock(ptr, k) ==
  \E s \in Cells : ptr = s * CellBytes /\ s % 2^k = 0 /\ s..(s + 2^k - 1) \subseteq Cells

\* The page of a cell.
LEMMA CellInPage ==
  ASSUME NEW p \in Nat, NEW cell \in Nat
  PROVE  cell \in PageCells(p) <=> cell \div CellsPerPage = p
<1> DEFINE C == CellsPerPage
           q == cell \div C
<1>1. C \in Nat \ {0}
  BY HeapSizes
<1>2. PageCells(p) = (p * C)..((p + 1) * C - 1)
  BY DEF PageCells, CellsPerPage
<1>3. p * C = C * p /\ (p + 1) * C = C * (p + 1) /\ C * p \in Nat /\ C * (p + 1) \in Nat
  BY <1>1
<1>4. q < p + 1 <=> cell < C * (p + 1)
  BY <1>1, QuotientBelow
<1>5. q < p <=> cell < C * p
  BY <1>1, QuotientBelow
<1>6. q \in Nat
  BY <1>1, Quotient
<1> HIDE DEF C, q
<1>7. cell \in PageCells(p) <=> q = p
  BY <1>2, <1>3, <1>4, <1>5, <1>6
<1> QED BY <1>7 DEF C, q

\* The cells of the heap are those of its pages.
LEMMA PagesOfCells ==
  /\ \A p \in Pages : PageCells(p) \subseteq Cells /\ PageCells(p) # {}
  /\ \A cell \in Cells : cell \div CellsPerPage \in Pages
<1> DEFINE C == CellsPerPage
           N == NumPages
<1>1. C \in Nat \ {0} /\ N \in Nat \ {0} /\ Pages = 0..(N - 1) /\ Cells = 0..(C * N - 1)
  BY HeapSizes
<1>2. ASSUME NEW p \in Pages PROVE PageCells(p) \subseteq Cells /\ PageCells(p) # {}
  <2>1. p \in Nat /\ p + 1 <= N /\ PageCells(p) = (p * C)..((p + 1) * C - 1)
    BY <1>1 DEF PageCells, CellsPerPage
  <2>2. C * (p + 1) <= C * N /\ C * (p + 1) = C * p + C /\ (p + 1) * C = C * (p + 1) /\ p * C = C * p
    BY <1>1, <2>1, ProductMonotone
  <2>3. C * p \in Nat /\ C * N \in Nat
    BY <1>1, <2>1
  <2>4. p * C = C * p /\ (p + 1) * C - 1 = C * p + C - 1
    BY <1>1, <2>1
  <2> HIDE DEF C, N
  <2>5. PageCells(p) = (C * p)..(C * p + C - 1)
    BY <2>1, <2>4, Zenon
  <2> QED BY <1>1, <2>2, <2>3, <2>5
<1>3. ASSUME NEW cell \in Cells PROVE cell \div C \in Pages
  <2>1. cell \in Nat /\ cell < C * N
    BY <1>1
  <2>2. cell \div C < N /\ cell \div C \in Nat
    BY <1>1, <2>1, QuotientBelow, Quotient
  <2> QED BY <1>1, <2>2
<1> QED BY <1>2, <1>3

\* The page of an address is the page of its cell.
LEMMA PageOfCell ==
  ASSUME NEW a \in Nat
  PROVE  PageOf(a) = (a \div CellBytes) \div CellsPerPage
  BY HeapSizes, QuotientTwice DEF PageOf

\* What a block is made of.
LEMMA BlockAt ==
  ASSUME NEW k \in Nat, NEW ptr, NEW s \in Cells, ptr = s * CellBytes
  PROVE  /\ ptr \in Nat /\ s \in Nat /\ ptr = CellBytes * s
         /\ ptr \div CellBytes = s /\ PageOf(ptr) = s \div CellsPerPage
         /\ BlockCells(ptr, k) = s..(s + 2^k - 1)
<1>1. s \in Nat /\ CellBytes \in Nat \ {0}
  BY HeapSizes DEF Cells
<1>2. ptr = CellBytes * s /\ ptr \in Nat
  BY <1>1
<1>3. (CellBytes * s + 0) \div CellBytes = s
  BY <1>1, QuotientIs
<1>4. ptr \div CellBytes = s
  BY <1>2, <1>3
<1>5. PageOf(ptr) = s \div CellsPerPage
  BY <1>2, <1>4, PageOfCell
<1> QED BY <1>1, <1>2, <1>4, <1>5 DEF BlockCells, CellBytes

\* A block of up to a page lies in one page.
LEMMA SmallBlock ==
  ASSUME NEW k \in Nat, k <= PageOrder, NEW s \in Nat, s % 2^k = 0,
         NEW cell \in s..(s + 2^k - 1)
  PROVE  cell \div CellsPerPage = s \div CellsPerPage
<1> DEFINE S == 2^k
           D == 2^(PageOrder - k)
           C == CellsPerPage
           q == s \div S
           p == s \div C
           j == q - D * p
<1>1. S \in Nat \ {0} /\ D \in Nat \ {0} /\ C \in Nat \ {0}
  BY OrdersAssumption, Power, HeapSizes
<1>2. C = S * D
  <2>1. PageOrder = k + (PageOrder - k) /\ PageOrder - k \in Nat
    BY OrdersAssumption
  <2>2. 2^(k + (PageOrder - k)) = S * D
    BY <2>1, PowerSum
  <2> QED BY <2>1, <2>2 DEF CellsPerPage
<1>3. q \in Nat /\ s = S * q
  BY <1>1, Multiple
<1>4. p \in Nat /\ C * p <= s /\ s < C * p + C
  BY <1>1, Quotient
<1> HIDE DEF S, D, C, q, p
<1>5. D * p \in Nat /\ C * p = S * (D * p) /\ C * p + C = S * (D * p + D)
  BY <1>1, <1>2, <1>4
<1>6. D * p <= q
  <2> SUFFICES ASSUME q + 1 <= D * p PROVE FALSE
    BY <1>3, <1>5
  <2>1. S * (q + 1) <= S * (D * p) /\ S * (q + 1) = S * q + S
    BY <1>1, <1>3, <1>5, ProductMonotone
  <2> QED BY <1>1, <1>3, <1>4, <1>5, <2>1
<1>7. q + 1 <= D * p + D
  <2> SUFFICES ASSUME D * p + D <= q PROVE FALSE
    BY <1>1, <1>3, <1>5
  <2>1. S * (D * p + D) <= S * q
    BY <1>1, <1>3, <1>5, ProductMonotone
  <2> QED BY <1>1, <1>3, <1>4, <1>5, <2>1
<1>8. S * (q + 1) <= C * p + C /\ S * (q + 1) = s + S
  <2>1. S * (q + 1) <= S * (D * p + D)
    BY <1>1, <1>3, <1>5, <1>7, ProductMonotone
  <2>2. S * (q + 1) = S * q + S
    BY <1>1, <1>3
  <2> QED BY <1>3, <1>5, <2>1, <2>2
<1>9. cell \in Nat /\ C * p <= cell /\ cell < C * p + C
  <2>1. cell \in s..(s + S - 1)
    BY DEF S
  <2>2. C * p \in Nat
    BY <1>1, <1>4
  <2> QED BY <1>1, <1>4, <1>8, <2>1, <2>2
<1>10. (C * p + (cell - C * p)) \div C = p /\ C * p + (cell - C * p) = cell
  <2>1. C * p \in Nat
    BY <1>1, <1>4
  <2>2. cell - C * p \in 0..(C - 1) /\ C * p + (cell - C * p) = cell
    BY <1>1, <1>9, <2>1
  <2> QED BY <1>1, <1>4, <2>2, QuotientIs
<1>11. cell \div C = p
  BY <1>10
<1> QED BY <1>11 DEF C, p

\* A block of a page or more is made of whole pages.
LEMMA LargeBlock ==
  ASSUME NEW k \in Nat, PageOrder <= k, NEW s \in Nat, s % 2^k = 0,
         NEW h \in Nat \ {0}, NEW cell \in Nat
  PROVE  cell \in s..(s + CellsPerPage * h - 1) <=>
           cell \div CellsPerPage \in (s \div CellsPerPage)..(s \div CellsPerPage + h - 1)
<1> DEFINE C == CellsPerPage
           D == 2^(k - PageOrder)
           p == s \div C
           q == s \div 2^k
           x == cell \div C
<1>1. C \in Nat \ {0} /\ D \in Nat \ {0} /\ 2^k = C * D
  <2>1. k = PageOrder + (k - PageOrder) /\ k - PageOrder \in Nat /\ PageOrder \in Nat
    BY OrdersAssumption
  <2>2. 2^(PageOrder + (k - PageOrder)) = C * D
    BY <2>1, PowerSum DEF CellsPerPage
  <2>3. D \in Nat \ {0} /\ C \in Nat \ {0}
    BY <2>1, Power, HeapSizes
  <2> QED BY <2>1, <2>2, <2>3
<1>2. q \in Nat /\ s = 2^k * q
  BY Power, Multiple
<1> HIDE DEF D, q
<1>3. s = C * (D * q) /\ D * q \in Nat
  BY <1>1, <1>2
<1>4. p = D * q
  <2>1. (C * (D * q) + 0) \div C = D * q
    BY <1>1, <1>3, QuotientIs
  <2> QED BY <1>3, <2>1
<1>5. p \in Nat /\ s = C * p
  BY <1>3, <1>4
<1>6. C * (p + h) = s + C * h /\ C * h \in Nat
  BY <1>1, <1>5
<1>7. x \in Nat /\ (x < p <=> cell < C * p) /\ (x < p + h <=> cell < C * (p + h))
  BY <1>1, <1>5, Quotient, QuotientBelow
<1> HIDE DEF C, p, x
<1>8. cell \in s..(s + C * h - 1) <=> x \in p..(p + h - 1)
  BY <1>5, <1>6, <1>7
<1> QED BY <1>8 DEF C, p, x

\* How many pages alloc and alloc_specific map: half of the block, or one page; and all of it.
LEMMA PageCounts ==
  ASSUME NEW k \in Nat
  PROVE  /\ k <= PageOrder => PageCount(k) = 1
         /\ k > PageOrder => /\ k - 1 - PageOrder \in Nat
                             /\ PageCount(k) = 2^(k - 1 - PageOrder)
                             /\ 2^(k - 1) = CellsPerPage * PageCount(k)
         /\ k >= PageOrder => /\ k - PageOrder \in Nat
                              /\ PageCountSpecific(k) = 2^(k - PageOrder)
                              /\ 2^k = CellsPerPage * PageCountSpecific(k)
                              /\ 2^(k + BaseOrder) = PageBytes * PageCountSpecific(k)
<1> DEFINE P == PageBytes
<1>0. /\ BaseOrder \in Nat \ {0} /\ PageOrder \in Nat \ {0}
      /\ P \in Nat \ {0} /\ P = 2^(BaseOrder + PageOrder)
  BY OrdersAssumption, HeapSizes DEF PageBytes
<1>1. ASSUME k <= PageOrder PROVE PageCount(k) = 1
  <2> DEFINE a == 2^(k + BaseOrder - 1)
  <2>1. k + BaseOrder - 1 \in Nat /\ k + BaseOrder - 1 <= BaseOrder + PageOrder
    BY <1>0, <1>1
  <2>2. a \in Nat \ {0} /\ a <= P
    BY <1>0, <2>1, Power, PowerMonotone
  <2>3. PageCount(k) = (a + P - 1) \div P
    BY DEF PageCount, RoundUpDivide
  <2> HIDE DEF a, P
  <2>4. a - 1 \in 0..(P - 1) /\ P * 1 + (a - 1) = a + P - 1
    BY <1>0, <2>2
  <2>5. (P * 1 + (a - 1)) \div P = 1
    BY <1>0, <2>4, QuotientIs
  <2> QED BY <2>3, <2>4, <2>5
<1>2. ASSUME NEW h \in Nat PROVE (P * h + P - 1) \div P = h
  <2> HIDE DEF P
  <2>1. P - 1 \in 0..(P - 1) /\ P * h + (P - 1) = P * h + P - 1
    BY <1>0
  <2>2. (P * h + (P - 1)) \div P = h
    BY <1>0, <2>1, QuotientIs
  <2> QED BY <2>1, <2>2
<1>3. ASSUME k > PageOrder
      PROVE  /\ k - 1 - PageOrder \in Nat /\ PageCount(k) = 2^(k - 1 - PageOrder)
             /\ 2^(k - 1) = CellsPerPage * PageCount(k)
  <2> DEFINE h == 2^(k - 1 - PageOrder)
  <2>1. /\ k - 1 - PageOrder \in Nat /\ k - 1 \in Nat
        /\ k + BaseOrder - 1 = (BaseOrder + PageOrder) + (k - 1 - PageOrder)
        /\ k - 1 = PageOrder + (k - 1 - PageOrder)
        /\ BaseOrder + PageOrder \in Nat
    BY <1>0, <1>3
  <2>2. h \in Nat
    BY <2>1, Power
  <2>3. 2^((BaseOrder + PageOrder) + (k - 1 - PageOrder)) = P * h
    BY <1>0, <2>1, PowerSum
  <2>4. 2^(PageOrder + (k - 1 - PageOrder)) = CellsPerPage * h
    BY <1>0, <2>1, PowerSum DEF CellsPerPage
  <2>5. PageCount(k) = (P * h + P - 1) \div P
    BY <2>1, <2>3 DEF PageCount, RoundUpDivide
  <2>6. PageCount(k) = h
    BY <1>2, <2>2, <2>5
  <2> QED BY <2>1, <2>4, <2>6
<1>4. ASSUME k >= PageOrder
      PROVE  /\ k - PageOrder \in Nat /\ PageCountSpecific(k) = 2^(k - PageOrder)
             /\ 2^k = CellsPerPage * PageCountSpecific(k)
             /\ 2^(k + BaseOrder) = PageBytes * PageCountSpecific(k)
  <2> DEFINE h == 2^(k - PageOrder)
  <2>1. /\ k - PageOrder \in Nat /\ BaseOrder + PageOrder \in Nat
        /\ k + BaseOrder = (BaseOrder + PageOrder) + (k - PageOrder)
        /\ k = PageOrder + (k - PageOrder)
    BY <1>0, <1>4
  <2>2. h \in Nat
    BY <2>1, Power
  <2>3. 2^((BaseOrder + PageOrder) + (k - PageOrder)) = P * h
    BY <1>0, <2>1, PowerSum
  <2>4. 2^(PageOrder + (k - PageOrder)) = CellsPerPage * h
    BY <1>0, <2>1, PowerSum DEF CellsPerPage
  <2>5. PageCountSpecific(k) = (P * h + P - 1) \div P
    BY <2>1, <2>3 DEF PageCountSpecific, RoundUpDivide
  <2>6. PageCountSpecific(k) = h
    BY <1>2, <2>2, <2>5
  <2> QED BY <2>1, <2>3, <2>4, <2>6
<1> QED BY <1>1, <1>3, <1>4

\* The pages that alloc maps for a block, and those that alloc_specific maps.
FirstPages(ptr, k) == PageOf(ptr)..(PageOf(ptr) + PageCount(k) - 1)
AllPages(ptr, k) == PageOf(ptr)..(PageOf(ptr) + PageCountSpecific(k) - 1)

\* How blocks lie on pages.  This is all that the proofs below need of the arithmetic.
LEMMA Geometry ==
  ASSUME NEW ptr, NEW k \in 0..MaxOrder, IsBlock(ptr, k)
  PROVE  /\ ptr \in 0..HeapBytes /\ PageOf(ptr) \in Pages
         /\ BlockCells(ptr, k) \subseteq Cells /\ BlockCells(ptr, k) # {}
         /\ PageCount(k) \in Nat \ {0} /\ FirstPages(ptr, k) \subseteq Pages
         /\ k < PageOrder => /\ PageCount(k) = 1 /\ FirstPages(ptr, k) = {PageOf(ptr)}
                             /\ BlockCells(ptr, k) \subseteq PageCells(PageOf(ptr))
         /\ k >= PageOrder =>
              /\ PageCountSpecific(k) \in Nat \ {0}
              /\ FirstPages(ptr, k) \subseteq AllPages(ptr, k) /\ AllPages(ptr, k) \subseteq Pages
              /\ \A p \in AllPages(ptr, k) : PageCells(p) \subseteq BlockCells(ptr, k)
              /\ \A p \in Pages : PageCells(p) \intersect BlockCells(ptr, k) # {} =>
                                    PageCells(p) \subseteq BlockCells(ptr, k)
<1> DEFINE C == CellsPerPage
<1>0. C \in Nat \ {0} /\ PageOrder \in Nat \ {0} /\ k \in Nat /\ 2^k \in Nat \ {0} /\ MaxOrder \in Nat
  BY HeapSizes, OrdersAssumption, Power
<1>1. PICK s \in Cells : ptr = s * CellBytes /\ s % 2^k = 0 /\ s..(s + 2^k - 1) \subseteq Cells
  BY DEF IsBlock
<1>2. /\ ptr \in Nat /\ s \in Nat /\ ptr = CellBytes * s
      /\ PageOf(ptr) = s \div C /\ BlockCells(ptr, k) = s..(s + 2^k - 1)
  BY <1>0, <1>1, BlockAt
<1>3. PageOf(ptr) \in Pages /\ PageOf(ptr) \in Nat /\ Pages \subseteq Nat
  <2>1. PageOf(ptr) \in Pages /\ Pages \subseteq Nat
    BY <1>1, <1>2, PagesOfCells DEF Pages
  <2> QED BY <2>1
<1>4. ptr <= HeapBytes
  <2>1. HeapBytes = CellBytes * (C * NumPages) /\ CellBytes \in Nat /\ C * NumPages \in Nat
    BY HeapSizes
  <2>2. s <= C * NumPages
    BY <1>1, <1>2, <2>1, HeapSizes
  <2> QED BY <1>2, <2>1, <2>2, ProductMonotone
<1>5. BlockCells(ptr, k) \subseteq Cells /\ s \in BlockCells(ptr, k) /\ Cells \subseteq Nat
  <2>1. s \in s..(s + 2^k - 1)
    BY <1>0, <1>2
  <2> QED BY <1>1, <1>2, <2>1 DEF Cells
<1>6. \A cell \in BlockCells(ptr, k) : cell \in Nat /\ cell \div C \in Pages
  BY <1>5, PagesOfCells
<1>7. ASSUME k <= PageOrder
      PROVE  /\ PageCount(k) = 1 /\ FirstPages(ptr, k) = {PageOf(ptr)}
             /\ BlockCells(ptr, k) \subseteq PageCells(PageOf(ptr))
  <2>1. PageCount(k) = 1
    BY <1>0, <1>7, PageCounts
  <2>2. FirstPages(ptr, k) = {PageOf(ptr)}
    BY <1>3, <2>1 DEF FirstPages
  <2>3. \A cell \in BlockCells(ptr, k) : cell \div C = PageOf(ptr)
    BY <1>0, <1>1, <1>2, <1>7, SmallBlock
  <2> QED BY <1>3, <1>6, <2>1, <2>2, <2>3, CellInPage
<1>8. ASSUME k >= PageOrder
      PROVE  /\ PageCountSpecific(k) \in Nat \ {0}
             /\ \A cell \in Nat : cell \in BlockCells(ptr, k) <=> cell \div C \in AllPages(ptr, k)
  <2>1. PageCountSpecific(k) \in Nat \ {0} /\ 2^k = C * PageCountSpecific(k)
    BY <1>0, <1>8, PageCounts, Power
  <2> QED BY <1>0, <1>1, <1>2, <1>8, <2>1, LargeBlock DEF AllPages
<1>9. ASSUME k >= PageOrder, NEW p \in AllPages(ptr, k)
      PROVE  p \in Pages /\ PageCells(p) \subseteq BlockCells(ptr, k)
  <2>1. p \in Nat
    BY <1>3, <1>8, <1>9 DEF AllPages
  <2>2. C * p \in Nat /\ (C * p + 0) \div C = p
    BY <1>0, <2>1, QuotientIs
  <2>3. C * p \in PageCells(p)
    BY <2>1, <2>2, CellInPage
  <2>4. C * p \in BlockCells(ptr, k)
    BY <1>8, <1>9, <2>2
  <2>5. p \in Pages
    BY <1>6, <2>2, <2>4
  <2>6. \A cell \in PageCells(p) : cell \in Nat /\ cell \div C = p
    BY <1>5, <2>5, <2>1, PagesOfCells, CellInPage
  <2> QED BY <1>8, <1>9, <2>5, <2>6
<1>10. ASSUME k >= PageOrder, NEW p \in Pages, NEW cell \in PageCells(p) \intersect BlockCells(ptr, k)
       PROVE  PageCells(p) \subseteq BlockCells(ptr, k)
  <2>1. cell \in Nat /\ p \in Nat /\ cell \div C = p
    BY <1>3, <1>6, CellInPage
  <2> QED BY <1>8, <1>9, <1>10, <2>1
<1>11. PageCount(k) \in Nat \ {0} /\ (k >= PageOrder => PageCount(k) <= PageCountSpecific(k))
  <2>1. CASE k <= PageOrder
    BY <1>0, <1>7, <1>8, <2>1
  <2>2. CASE k > PageOrder
    <3>1. /\ k - 1 - PageOrder \in Nat /\ PageCount(k) = 2^(k - 1 - PageOrder)
          /\ k - PageOrder \in Nat /\ PageCountSpecific(k) = 2^(k - PageOrder)
          /\ k - 1 - PageOrder <= k - PageOrder
      BY <1>0, <2>2, PageCounts
    <3>2. PageCount(k) \in Nat \ {0} /\ PageCount(k) <= PageCountSpecific(k)
      BY <3>1, Power, PowerMonotone
    <3> QED BY <3>2
  <2> QED BY <1>0, <2>1, <2>2
<1>12. k >= PageOrder => FirstPages(ptr, k) \subseteq AllPages(ptr, k)
  BY <1>3, <1>8, <1>11 DEF FirstPages, AllPages
<1>13. FirstPages(ptr, k) \subseteq Pages
  BY <1>0, <1>3, <1>7, <1>9, <1>12
<1>14. ptr \in 0..HeapBytes
  <2>1. HeapBytes \in Nat
    BY HeapSizes
  <2> QED BY <1>2, <1>4, <2>1
<1>15. k < PageOrder => /\ PageCount(k) = 1 /\ FirstPages(ptr, k) = {PageOf(ptr)}
                        /\ BlockCells(ptr, k) \subseteq PageCells(PageOf(ptr))
  BY <1>0, <1>7
<1>16. ASSUME k >= PageOrder
       PROVE  /\ PageCountSpecific(k) \in Nat \ {0}
              /\ AllPages(ptr, k) \subseteq Pages
              /\ \A p \in AllPages(ptr, k) : PageCells(p) \subseteq BlockCells(ptr, k)
              /\ \A p \in Pages : PageCells(p) \intersect BlockCells(ptr, k) # {} =>
                                    PageCells(p) \subseteq BlockCells(ptr, k)
  <2>1. PageCountSpecific(k) \in Nat \ {0}
    BY <1>8, <1>16
  <2>2. AllPages(ptr, k) \subseteq Pages
    BY <1>9, <1>16
  <2>3. \A p \in AllPages(ptr, k) : PageCells(p) \subseteq BlockCells(ptr, k)
    BY <1>9, <1>16
  <2> QED BY <1>10, <1>16, <2>1, <2>2, <2>3
<1> QED BY <1>3, <1>5, <1>11, <1>12, <1>13, <1>14, <1>15, <1>16

\* Every byte that was asked for lies in a cell of the block and on a page that alloc maps:
\* half of the block is enough.
LEMMA BytesInBlock ==
  ASSUME NEW size \in Nat, IsUsize(size), OrderOf(size) \in 0..MaxOrder,
         NEW ptr, IsBlock(ptr, OrderOf(size)), NEW b \in ptr..(ptr + size - 1)
  PROVE  /\ b \in Nat /\ b \div CellBytes \in BlockCells(ptr, OrderOf(size))
         /\ PageOf(b) \in FirstPages(ptr, OrderOf(size))
<1> DEFINE k == OrderOf(size)
           C == CellBytes
           H == 2^(k + BaseOrder - 1)
<1>0. /\ C \in Nat \ {0} /\ CellsPerPage \in Nat \ {0} /\ k \in Nat /\ 2^k \in Nat \ {0}
      /\ BaseOrder \in Nat \ {0} /\ PageOrder \in Nat
  BY HeapSizes, OrdersAssumption, Power
<1>1. PICK s \in Cells : ptr = s * CellBytes /\ s % 2^k = 0 /\ s..(s + 2^k - 1) \subseteq Cells
  BY DEF IsBlock
<1>2. /\ ptr \in Nat /\ s \in Nat /\ ptr = C * s
      /\ ptr \div C = s /\ PageOf(ptr) = s \div CellsPerPage
      /\ BlockCells(ptr, k) = s..(s + 2^k - 1)
  BY <1>0, <1>1, BlockAt
<1>3. b \in Nat /\ ptr <= b /\ b < ptr + size
  BY <1>2
<1>4. size <= H /\ H \in Nat
  <2>1. k + BaseOrder - 1 \in Nat /\ size <= H
    BY OrderFits
  <2> QED BY <2>1, Power
<1>5. s <= b \div C /\ b \div C \in Nat
  BY <1>0, <1>2, <1>3, QuotientMonotone, Quotient
<1>6. ASSUME NEW n \in Nat, H <= C * n PROVE b \div C < s + n
  <2>1. C * (s + n) = ptr + C * n /\ C * n \in Nat
    BY <1>0, <1>2
  <2>2. b < C * (s + n)
    BY <1>2, <1>3, <1>4, <1>6, <2>1
  <2>3. s + n \in Nat
    BY <1>2
  <2> QED BY <1>0, <1>3, <2>2, <2>3, QuotientBelow
<1>7. H <= C * 2^k
  <2>1. 2^(BaseOrder + k) = C * 2^k
    BY <1>0, PowerSum DEF CellBytes
  <2>2. k + BaseOrder - 1 \in Nat /\ k + BaseOrder - 1 <= BaseOrder + k
    BY <1>0
  <2> QED BY <1>0, <2>1, <2>2, PowerMonotone
<1>8. b \div C \in BlockCells(ptr, k)
  <2>1. b \div C < s + 2^k
    BY <1>0, <1>6, <1>7
  <2> QED BY <1>0, <1>2, <1>5, <2>1
<1>9. PageOf(b) = (b \div C) \div CellsPerPage
  BY <1>3, PageOfCell
<1>10. CASE k <= PageOrder
  <2>1. PageCount(k) = 1
    BY <1>0, <1>10, PageCounts
  <2>2. (b \div C) \div CellsPerPage = s \div CellsPerPage
    BY <1>0, <1>1, <1>2, <1>8, <1>10, SmallBlock
  <2>3. PageOf(ptr) \in Nat /\ PageOf(b) = PageOf(ptr)
    BY <1>0, <1>2, <1>9, <2>2, Quotient
  <2> QED BY <1>3, <1>8, <2>1, <2>3 DEF FirstPages
<1>11. CASE k > PageOrder
  <2>1. PageCount(k) \in Nat \ {0} /\ 2^(k - 1) = CellsPerPage * PageCount(k) /\ k - 1 \in Nat
    BY <1>0, <1>11, PageCounts, Power
  <2>2. H = C * 2^(k - 1)
    <3>1. k + BaseOrder - 1 = BaseOrder + (k - 1)
      BY <1>0
    <3>2. 2^(BaseOrder + (k - 1)) = C * 2^(k - 1)
      BY <1>0, <2>1, PowerSum DEF CellBytes
    <3> QED BY <3>1, <3>2
  <2>3. 2^(k - 1) \in Nat /\ H <= C * 2^(k - 1)
    BY <1>4, <2>1, <2>2, Power
  <2>4. b \div C < s + 2^(k - 1)
    BY <1>6, <2>3
  <2>5. b \div C \in s..(s + CellsPerPage * PageCount(k) - 1)
    BY <1>2, <1>5, <2>1, <2>3, <2>4
  <2>6. PageOrder <= k
    BY <1>0, <1>11
  <2>7. (b \div C) \div CellsPerPage
          \in (s \div CellsPerPage)..(s \div CellsPerPage + PageCount(k) - 1)
    BY <1>0, <1>1, <1>2, <1>5, <2>1, <2>5, <2>6, LargeBlock
  <2> QED BY <1>2, <1>3, <1>8, <1>9, <2>7 DEF FirstPages
<1> QED BY <1>0, <1>10, <1>11

\* The sizes asked for are usize values.
LEMMA SizesFit ==
  ASSUME NEW size \in AllSizes
  PROVE  size \in Nat /\ IsUsize(size) /\ OrderOf(size) \in Nat
<1>1. size \in Nat /\ IsUsize(size)
  <2>1. CASE size \in Sizes
    BY <2>1, SizesAssumption
  <2>2. CASE size = PageBytes
    BY <2>2, SizesAssumption, HeapSizes
  <2>3. ASSUME NEW r \in DeviceRegions, size = RegionBytes(r) PROVE size \in Nat /\ IsUsize(size)
    <3>1. r.frames \in Nat /\ IsUsize(RegionBytes(r))
      BY SizesAssumption
    <3> QED BY <2>3, <3>1, HeapSizes DEF RegionBytes
  <2> QED BY <2>1, <2>2, <2>3 DEF AllSizes
<1> QED BY <1>1, OrderFits

\* A TemporaryPage and a device region have blocks of more than a page, and a device region's
\* block has at most four times its pages.
LEMMA LargeKinds ==
  /\ OrderOf(PageBytes) > PageOrder
  /\ \A r \in DeviceRegions : LET k == OrderOf(RegionBytes(r))
                              IN  /\ k > PageOrder
                                  /\ PageCountSpecific(k) \in Nat /\ PageCountSpecific(k) <= 4 * r.frames
<1>0. PageBytes \in Nat \ {0}
  BY HeapSizes
<1>1. OrderOf(PageBytes) > PageOrder
  <2>1. PageBytes \in AllSizes
    BY DEF AllSizes
  <2>2. PageBytes \in Nat /\ IsUsize(PageBytes) /\ PageBytes <= PageBytes
    BY <1>0, <2>1, SizesFit
  <2> QED BY <2>2, OrderTight
<1>2. ASSUME NEW r \in DeviceRegions
      PROVE  /\ OrderOf(RegionBytes(r)) > PageOrder
             /\ PageCountSpecific(OrderOf(RegionBytes(r))) \in Nat
             /\ PageCountSpecific(OrderOf(RegionBytes(r))) <= 4 * r.frames
  <2> DEFINE k == OrderOf(RegionBytes(r))
             n == PageCountSpecific(k)
             F == r.frames
             B == PageBytes
  <2>1. RegionBytes(r) \in AllSizes
    BY DEF AllSizes
  <2>2. RegionBytes(r) \in Nat /\ IsUsize(RegionBytes(r)) /\ k \in Nat
    BY <2>1, SizesFit
  <2>3. F \in Nat \ {0} /\ RegionBytes(r) = F * B
    BY SizesAssumption DEF RegionBytes
  <2>4. B <= RegionBytes(r)
    <3>1. B * 1 <= B * F
      BY <1>0, <2>3, ProductMonotone
    <3>2. B * 1 = B /\ B * F = F * B
      BY <1>0, <2>3
    <3> QED BY <2>3, <3>1, <3>2
  <2>5. k > PageOrder /\ 2^(k + BaseOrder) < 4 * RegionBytes(r)
    BY <2>2, <2>4, OrderTight
  <2>6. k >= PageOrder
    BY <2>2, <2>5, OrdersAssumption
  <2>7. n \in Nat /\ 2^(k + BaseOrder) = B * n
    BY <2>2, <2>6, PageCounts, Power
  <2> HIDE DEF n, F, B, k
  <2>8. n <= 4 * F
    <3> SUFFICES ASSUME 4 * F <= n PROVE FALSE
      BY <2>3, <2>7
    <3>1. B * (4 * F) <= B * n /\ B * (4 * F) = 4 * (F * B)
      BY <1>0, <2>3, <2>7, ProductMonotone DEF B
    <3>2. F * B \in Nat /\ B * n \in Nat
      BY <1>0, <2>3, <2>7 DEF B
    <3> QED BY <2>3, <2>5, <2>7, <3>1, <3>2
  <2> QED BY <2>5, <2>7, <2>8 DEF n, F, k
<1> QED BY <1>1, <1>2

(***************************************************************************)
(* What holds for any number of contexts: types, and blocks that are       *)
(* apart.                                                                  *)
(***************************************************************************)

CallType ==
  [ptr : 0..HeapBytes, size : Nat, kind : Kinds, page : Nat, frame : AnyFrame, region : Nat]

\* With several contexts dealloc may unmap, and free, what another context has mapped, so
\* that frames are only known to be frames of some kind.
TypeInv ==
  /\ free \subseteq Cells
  /\ treeLock \in Contexts \union {NoContext}
  /\ map \in [Pages -> AnyFrame]
  /\ tables \subseteq {TableOf(p) : p \in Pages}
  /\ freeFrames \subseteq AnyFrame
  /\ tlb \in [Pages -> AnyFrame]
  /\ clean \subseteq AnyFrame
  /\ objects \subseteq CallType
  /\ pc \in [Contexts -> PC]
  /\ work \in [Contexts -> CallType]
  /\ panic \in {"no", "unmapped", "no_memory"}

CellsOf(w) == BlockCells(w.ptr, OrderOf(w.size))

\* The block of an allocation was made for what was asked for.
Sound(w) ==
  /\ w.size \in AllSizes /\ OrderOf(w.size) \in 0..MaxOrder
  /\ IsBlock(w.ptr, OrderOf(w.size))
  /\ w.kind = "temp" => w.size = PageBytes
  /\ w.kind = "specific" => \E r \in DeviceRegions : w.size = RegionBytes(r) /\ w.region = r.start

SoundInv ==
  /\ \A o \in objects : Sound(o)
  /\ \A c \in Contexts : pc[c] # "idle" => Sound(work[c])

\* Which kinds of allocation a call may be about.
KindInv ==
  \A c \in Contexts :
    /\ pc[c] = "dealloc_specific" => work[c].kind = "specific"
    /\ pc[c] \in {"alloc_pages", "dealloc_check", "dealloc_pages"} => work[c].kind # "specific"
    /\ pc[c] = "temp_new" => work[c].kind = "temp"

\* The block of the call is not in the tree.
HasBlock == {"alloc_pages", "temp_new", "dealloc_tree"}
Out(c) == pc[c] \in HasBlock

\* The blocks that are out of the tree are apart from each other and from what is free.
ApartInv ==
  /\ \A o \in objects : CellsOf(o) \intersect free = {}
  /\ \A o, q \in objects : o # q => CellsOf(o) \intersect CellsOf(q) = {}
  /\ \A c \in Contexts : Out(c) => CellsOf(work[c]) \intersect free = {}
  /\ \A c \in Contexts, o \in objects : Out(c) => CellsOf(work[c]) \intersect CellsOf(o) = {}
  /\ \A c, d \in Contexts : Out(c) /\ Out(d) /\ c # d =>
       CellsOf(work[c]) \intersect CellsOf(work[d]) = {}

BlockInv == TypeInv /\ SoundInv /\ KindInv /\ ApartInv

\* Which actions a step may be.
LEMMA StepCases ==
  ASSUME Next
  PROVE  \/ \E c \in Contexts :
              \/ \E size \in Sizes : AllocTree(c, size, "object")
              \/ AllocTree(c, PageBytes, "temp") /\ NoTemporaryPage
              \/ AllocSkipPage(c) \/ AllocMapPage(c) \/ AllocOutOfMemory(c) \/ AllocReturn(c)
              \/ \E r \in DeviceRegions : AllocSpecific(c, r)
              \/ \E r \in DeviceRegions : AllocSpecificOutOfMemory(c, r)
              \/ \E o \in objects : DeallocSpecificCall(c, o)
              \/ DeallocSpecificPage(c) \/ DeallocSpecificReturn(c)
              \/ \E o \in objects : DeallocCall(c, o)
              \/ DeallocTree(c) \/ DeallocCheck(c) \/ DeallocUnmapPage(c) \/ DeallocReturn(c)
              \/ TempNewNull(c, PageBytes) \/ TempNew(c)
              \/ \E o \in objects : TempMap(c, o) \/ TempUnmap(c, o) \/ TempDrop(c, o)
         \/ \E p \in Pages : TlbFill(p) \/ TlbEvict(p)
  BY DEF Next, Alloc, Specific, Dealloc, Temporary

\* What the tree gives is a block.
LEMMA FittingIsBlock ==
  ASSUME TypeInv, NEW k \in Nat, NEW ptr \in Fitting(k)
  PROVE  IsBlock(ptr, k) /\ BlockCells(ptr, k) \subseteq free
<1>1. PICK s \in Cells : ptr = s * CellBytes /\ s % 2^k = 0 /\ s..(s + 2^k - 1) \subseteq free
  BY DEF Fitting, CellBytes
<1>2. BlockCells(ptr, k) = s..(s + 2^k - 1)
  BY <1>1, BlockAt
<1> QED BY <1>1, <1>2 DEF TypeInv, IsBlock

\* The geometry of a sound allocation.
LEMMA SoundGeometry ==
  ASSUME NEW w, Sound(w)
  PROVE  /\ w.size \in Nat /\ IsUsize(w.size) /\ OrderOf(w.size) \in 0..MaxOrder
         /\ w.ptr \in 0..HeapBytes /\ PageOf(w.ptr) \in Pages
         /\ CellsOf(w) \subseteq Cells /\ CellsOf(w) # {}
         /\ PageCount(OrderOf(w.size)) \in Nat \ {0}
         /\ FirstPages(w.ptr, OrderOf(w.size)) \subseteq Pages
         /\ w.kind \in {"temp", "specific"} => OrderOf(w.size) > PageOrder
<1>1. w.size \in Nat /\ IsUsize(w.size)
  BY SizesFit DEF Sound
<1>2. w.kind \in {"temp", "specific"} => OrderOf(w.size) > PageOrder
  BY LargeKinds DEF Sound
<1> QED BY <1>1, <1>2, Geometry DEF Sound, CellsOf

\* The page that a loop is at is a page of the heap.
LEMMA LoopPageInHeap ==
  ASSUME TypeInv, SoundInv, NEW c \in Contexts, pc[c] # "idle"
  PROVE  /\ work[c].page < PageCount(OrderOf(work[c].size)) =>
              LoopPage(c) \in FirstPages(work[c].ptr, OrderOf(work[c].size)) /\ LoopPage(c) \in Pages
         /\ work[c].kind = "specific" /\ work[c].page < PageCountSpecific(OrderOf(work[c].size)) =>
              LoopPage(c) \in AllPages(work[c].ptr, OrderOf(work[c].size)) /\ LoopPage(c) \in Pages
<1> DEFINE w == work[c]
           k == OrderOf(w.size)
           q == PageOf(w.ptr)
<1>1. Sound(w) /\ w.page \in Nat
  BY DEF SoundInv, TypeInv, CallType
<1>2. /\ k \in 0..MaxOrder /\ q \in Nat /\ PageCount(k) \in Nat /\ FirstPages(w.ptr, k) \subseteq Pages
      /\ w.kind \in {"temp", "specific"} => k > PageOrder
  BY <1>1, SoundGeometry DEF Pages
<1>3. k >= PageOrder => PageCountSpecific(k) \in Nat /\ AllPages(w.ptr, k) \subseteq Pages
  BY <1>1, Geometry DEF Sound
<1>4. LoopPage(c) = q + w.page
  BY DEF LoopPage
<1>5. PageOrder \in Nat /\ MaxOrder \in Nat
  BY OrdersAssumption
<1> HIDE DEF q, k, w
<1>6. w.page < PageCount(k) => LoopPage(c) \in q..(q + PageCount(k) - 1)
  BY <1>1, <1>2, <1>4
<1>7. w.kind = "specific" /\ w.page < PageCountSpecific(k) =>
        LoopPage(c) \in q..(q + PageCountSpecific(k) - 1) /\ k >= PageOrder
  BY <1>1, <1>2, <1>3, <1>4, <1>5
<1> QED BY <1>2, <1>3, <1>6, <1>7 DEF FirstPages, AllPages, q, k, w

\* After init nothing is out of the tree.
LEMMA BlockInit == Init => BlockInv
<1> SUFFICES ASSUME Init PROVE BlockInv
  OBVIOUS
<1> USE DEF Init
<1>1. NoWork \in CallType
  <2>1. 0 \in 0..HeapBytes
    BY HeapSizes
  <2> QED BY <2>1 DEF NoWork, CallType, Kinds, AnyFrame
<1>2. TypeInv
  BY <1>1 DEF TypeInv, PC, AnyFrame
<1>3. SoundInv /\ KindInv /\ ApartInv
  BY DEF SoundInv, KindInv, ApartInv, Out, HasBlock
<1> QED BY <1>2, <1>3 DEF BlockInv

\* Numbers of frames of a device region.
LEMMA DeviceFrame ==
  ASSUME NEW r \in DeviceRegions, NEW ptr, NEW p \in SpecificPages(ptr, RegionBytes(r)),
         PageOf(ptr) \in Nat
  PROVE  r.start + (p - PageOf(ptr)) \in DeviceFrames
<1> DEFINE n == PageCountSpecific(OrderOf(RegionBytes(r)))
           q == PageOf(ptr)
<1>1. n \in Nat /\ n <= 4 * r.frames /\ r.start \in Nat /\ r.frames \in Nat
  BY LargeKinds, SizesAssumption
<1>2. p \in q..(q + n - 1)
  BY DEF SpecificPages
<1> HIDE DEF n, q
<1>3. r.start + (p - q) \in r.start..(r.start + 4 * r.frames)
  BY <1>1, <1>2 DEF q
<1> QED BY <1>3 DEF DeviceFrames, q

\* Mapping a page keeps the types.
LEMMA MapZeroedType ==
  ASSUME TypeInv, NEW p \in Pages, MapZeroed(p)
  PROVE  /\ map' \in [Pages -> AnyFrame] /\ tables' \subseteq {TableOf(q) : q \in Pages}
         /\ freeFrames' \subseteq AnyFrame /\ tlb' \in [Pages -> AnyFrame]
         /\ clean' \subseteq AnyFrame
<1>1. PICK f \in freeFrames, t \in freeFrames :
        /\ map' = [map EXCEPT ![p] = f]
        /\ tables' = tables \union {TableOf(p)}
        /\ freeFrames' = freeFrames \ {f, t}
        /\ clean' = clean \union {IF tlb[p] # NoFrame THEN tlb[p] ELSE f}
        /\ tlb' = [tlb EXCEPT ![p] = IF tlb[p] # NoFrame THEN tlb[p] ELSE f]
  BY DEF MapZeroed
<1>2. f \in AnyFrame /\ tlb[p] \in AnyFrame
  BY DEF TypeInv
<1> QED BY <1>1, <1>2 DEF TypeInv

\* The types of the heap's state are kept, whatever the interleaving.
LEMMA TypeStep == BlockInv /\ [Next]_vars => TypeInv'
<1> SUFFICES ASSUME TypeInv, SoundInv, KindInv, [Next]_vars PROVE TypeInv'
  BY DEF BlockInv
<1>0. CASE UNCHANGED vars
  BY <1>0 DEF vars, TypeInv
<1>t. NoWork \in CallType /\ NoFrame \in AnyFrame /\ P4Frame \in AnyFrame
  <2>1. 0 \in 0..HeapBytes
    BY HeapSizes
  <2> QED BY <2>1 DEF NoWork, CallType, Kinds, AnyFrame
<1>1. ASSUME NEW c \in Contexts, NEW size \in AllSizes, NEW kind \in Kinds, AllocTree(c, size, kind)
      PROVE  TypeInv'
  <2>1. size \in Nat /\ OrderOf(size) \in Nat /\ OrderOf(size) <= MaxOrder
    BY <1>1, SizesFit DEF AllocTree
  <2>2. PICK ptr \in Fitting(OrderOf(size)) :
          /\ free' = free \ BlockCells(ptr, OrderOf(size))
          /\ work' = [work EXCEPT ![c] = [NoWork EXCEPT !.ptr = ptr, !.size = size, !.kind = kind]]
    BY <1>1 DEF AllocTree
  <2>3. ptr \in 0..HeapBytes
    BY <2>1, <2>2, FittingIsBlock, Geometry, OrdersAssumption
  <2>4. [NoWork EXCEPT !.ptr = ptr, !.size = size, !.kind = kind] \in CallType
    BY <1>t, <2>1, <2>3 DEF CallType
  <2> QED BY <1>1, <2>2, <2>4 DEF AllocTree, TypeInv, Goto, PC
<1>2. ASSUME NEW c \in Contexts, AllocSkipPage(c) PROVE TypeInv'
  BY <1>2 DEF AllocSkipPage, NextPage, TypeInv, CallType
<1>3. ASSUME NEW c \in Contexts, AllocMapPage(c) PROVE TypeInv'
  <2>1. LoopPage(c) \in Pages
    BY <1>3, LoopPageInHeap DEF AllocMapPage, At
  <2>2. work' \in [Contexts -> CallType]
    BY <1>3 DEF AllocMapPage, NextPage, TypeInv, CallType
  <2>3. MapZeroed(LoopPage(c)) /\ UNCHANGED <<free, treeLock, objects, pc, panic>>
    BY <1>3 DEF AllocMapPage
  <2> QED BY <2>1, <2>2, <2>3, MapZeroedType DEF TypeInv
<1>4. ASSUME NEW c \in Contexts, AllocOutOfMemory(c) PROVE TypeInv'
  <2> DEFINE done == {PageOf(work[c].ptr) + n : n \in 0..(work[c].page - 1)}
  <2>1. done \subseteq Pages
    <3>1. pc[c] # "idle" /\ work[c].page < PageCount(OrderOf(work[c].size))
      BY <1>4 DEF AllocOutOfMemory, At
    <3>2. /\ Sound(work[c]) /\ work[c].page \in Nat
      BY <3>1 DEF SoundInv, TypeInv, CallType
    <3>3. /\ PageOf(work[c].ptr) \in Nat /\ PageCount(OrderOf(work[c].size)) \in Nat
          /\ FirstPages(work[c].ptr, OrderOf(work[c].size)) \subseteq Pages
      BY <3>2, SoundGeometry DEF Pages
    <3>4. \A n \in 0..(work[c].page - 1) :
            PageOf(work[c].ptr) + n \in FirstPages(work[c].ptr, OrderOf(work[c].size))
      BY <3>1, <3>2, <3>3 DEF FirstPages
    <3> QED BY <3>3, <3>4
  <2>2. {map[p] : p \in done} \subseteq AnyFrame
    BY <2>1 DEF TypeInv
  <2>3. /\ map' = [p \in Pages |-> IF p \in done THEN NoFrame ELSE map[p]]
        /\ freeFrames' = {map[p] : p \in done}
        /\ clean' = clean \ {map[p] : p \in done}
        /\ tlb' = [p \in Pages |-> IF p \in done THEN NoFrame ELSE tlb[p]]
        /\ panic' = "unmapped"
        /\ UNCHANGED <<free, treeLock, tables, objects, pc, work>>
    BY <1>4 DEF AllocOutOfMemory
  <2> HIDE DEF done
  <2> QED BY <1>t, <2>2, <2>3 DEF TypeInv
<1>5. ASSUME NEW c \in Contexts, AllocReturn(c) PROVE TypeInv'
  <2>1. [work[c] EXCEPT !.page = 0] \in CallType
    BY DEF TypeInv, CallType
  <2> QED BY <1>5, <1>t, <2>1 DEF AllocReturn, TypeInv, Return, Goto, PC
<1>6. ASSUME NEW c \in Contexts, NEW r \in DeviceRegions, AllocSpecific(c, r) PROVE TypeInv'
  <2> DEFINE order == OrderOf(RegionBytes(r))
  <2>1. RegionBytes(r) \in Nat /\ order \in Nat /\ order <= MaxOrder /\ r.start \in Nat
    <3>1. RegionBytes(r) \in AllSizes
      BY DEF AllSizes
    <3> QED BY <1>6, <3>1, SizesFit, SizesAssumption DEF AllocSpecific
  <2> HIDE DEF order
  <2>2. PICK ptr \in Fitting(order) :
          LET ps == SpecificPages(ptr, RegionBytes(r))
          IN  /\ free' = free \ BlockCells(ptr, order)
              /\ \E ts \in SUBSET freeFrames : freeFrames' = freeFrames \ ts
              /\ tables' = tables \union MissingTables(ps)
              /\ map' = [p \in Pages |-> IF p \in ps THEN r.start + (p - PageOf(ptr)) ELSE map[p]]
              /\ tlb' = [p \in Pages |-> IF p \in ps THEN NoFrame ELSE tlb[p]]
              /\ objects' = objects \union
                   {[NoWork EXCEPT !.ptr = ptr, !.size = RegionBytes(r),
                                   !.kind = "specific", !.region = r.start]}
    BY <1>6 DEF AllocSpecific, order
  <2> DEFINE ps == SpecificPages(ptr, RegionBytes(r))
  <2>3. order \in 0..MaxOrder /\ IsBlock(ptr, order)
    BY <2>1, <2>2, FittingIsBlock, OrdersAssumption
  <2>4. ptr \in 0..HeapBytes /\ PageOf(ptr) \in Nat /\ ps \subseteq Pages
    <3>1. order >= PageOrder
      BY LargeKinds, <2>1, OrdersAssumption DEF order
    <3>2. ptr \in 0..HeapBytes /\ PageOf(ptr) \in Pages /\ AllPages(ptr, order) \subseteq Pages
      BY <2>3, <3>1, Geometry
    <3> QED BY <3>2 DEF AllPages, SpecificPages, Pages, order
  <2>5. \A p \in ps : r.start + (p - PageOf(ptr)) \in AnyFrame
    BY <2>4, DeviceFrame DEF AnyFrame
  <2>6. [NoWork EXCEPT !.ptr = ptr, !.size = RegionBytes(r), !.kind = "specific",
                       !.region = r.start] \in CallType
    BY <1>t, <2>1, <2>4 DEF CallType, Kinds
  <2>7. MissingTables(ps) \subseteq {TableOf(p) : p \in Pages}
    BY <2>4 DEF MissingTables
  <2>8. map' \in [Pages -> AnyFrame] /\ tlb' \in [Pages -> AnyFrame]
    BY <1>t, <2>2, <2>5 DEF TypeInv
  <2>9. UNCHANGED <<treeLock, clean, pc, work, panic>>
    BY <1>6 DEF AllocSpecific
  <2> HIDE DEF ps
  <2>10. tables' = tables \union MissingTables(ps)
    BY <2>2 DEF ps
  <2> QED BY <2>2, <2>6, <2>7, <2>8, <2>9, <2>10 DEF TypeInv
<1>7. ASSUME NEW c \in Contexts, NEW r \in DeviceRegions, AllocSpecificOutOfMemory(c, r) PROVE TypeInv'
  BY <1>7 DEF AllocSpecificOutOfMemory, TypeInv
<1>8. ASSUME NEW c \in Contexts, NEW o \in objects, DeallocSpecificCall(c, o) \/ DeallocCall(c, o)
      PROVE  TypeInv'
  BY <1>8 DEF DeallocSpecificCall, DeallocCall, Goto, TypeInv, PC
<1>9. ASSUME NEW c \in Contexts, DeallocSpecificPage(c) PROVE TypeInv'
  <2>1. work' = work \/ work' \in [Contexts -> CallType]
    BY <1>9 DEF DeallocSpecificPage, UnmapPanics, NextPage, TypeInv, CallType
  <2>2. map' = map \/ map' = [map EXCEPT ![LoopPage(c)] = NoFrame]
    BY <1>9 DEF DeallocSpecificPage, UnmapPanics
  <2>3. panic' \in {panic, "unmapped"} /\ UNCHANGED <<free, treeLock, tables, freeFrames, tlb, clean, objects, pc>>
    BY <1>9 DEF DeallocSpecificPage, UnmapPanics
  <2> QED BY <1>t, <2>1, <2>2, <2>3 DEF TypeInv
<1>10. ASSUME NEW c \in Contexts, DeallocSpecificReturn(c) \/ DeallocReturn(c) PROVE TypeInv'
  BY <1>10, <1>t DEF DeallocSpecificReturn, DeallocReturn, Return, Goto, TypeInv, PC
<1>11. ASSUME NEW c \in Contexts, DeallocTree(c) PROVE TypeInv'
  <2>1. Sound(work[c])
    BY <1>11 DEF SoundInv, DeallocTree, At
  <2>2. CellsOf(work[c]) \subseteq Cells
    BY <2>1, SoundGeometry
  <2>3. pc' \in [Contexts -> PC]
    BY <1>11 DEF DeallocTree, Goto, TypeInv, PC
  <2> QED BY <1>11, <2>2, <2>3 DEF DeallocTree, TypeInv, CellsOf
<1>12. ASSUME NEW c \in Contexts, DeallocCheck(c) PROVE TypeInv'
  BY <1>12, <1>t DEF DeallocCheck, Return, Goto, TypeInv, PC
<1>13. ASSUME NEW c \in Contexts, DeallocUnmapPage(c) PROVE TypeInv'
  <2>1. LoopPage(c) \in Pages
    BY <1>13, LoopPageInHeap DEF DeallocUnmapPage, At
  <2>2. CASE UnmapPanics
    BY <2>2 DEF UnmapPanics, TypeInv
  <2>3. CASE UnmapFree(LoopPage(c)) /\ NextPage(c) /\ UNCHANGED <<free, treeLock, objects, pc, panic>>
    <3>1. work' \in [Contexts -> CallType]
      BY <2>3 DEF NextPage, TypeInv, CallType
    <3> QED BY <1>t, <2>1, <2>3, <3>1 DEF UnmapFree, TypeInv
  <2> QED BY <1>13, <2>2, <2>3 DEF DeallocUnmapPage
<1>14. ASSUME NEW c \in Contexts, TempNewNull(c, PageBytes) PROVE TypeInv'
  BY <1>14 DEF TempNewNull, TypeInv
<1>15. ASSUME NEW c \in Contexts, TempNew(c) PROVE TypeInv'
  <2> DEFINE p == PageOf(work[c].ptr)
  <2>1. p \in Pages /\ map[p] \in AnyFrame
    <3>1. Sound(work[c])
      BY <1>15 DEF SoundInv, TempNew, At
    <3> QED BY <3>1, SoundGeometry DEF TypeInv
  <2>2. [work[c] EXCEPT !.page = 0, !.frame = map[p]] \in CallType
    BY <2>1 DEF TypeInv, CallType
  <2> HIDE DEF p
  <2> QED BY <1>15, <1>t, <2>1, <2>2 DEF TempNew, Return, Goto, TypeInv, PC, p
<1>16. ASSUME NEW c \in Contexts, NEW o \in objects, TempMap(c, o) \/ TempUnmap(c, o) PROVE TypeInv'
  BY <1>16, <1>t DEF TempMap, TempUnmap, TypeInv
<1>17. ASSUME NEW c \in Contexts, NEW o \in objects, TempDrop(c, o) PROVE TypeInv'
  <2>1. o \in CallType /\ o.frame \in AnyFrame /\ [o EXCEPT !.frame = NoFrame] \in CallType
    BY <1>t DEF TypeInv, CallType
  <2> QED BY <1>17, <1>t, <2>1 DEF TempDrop, TypeInv, Goto, PC
<1>18. ASSUME NEW p \in Pages, TlbFill(p) \/ TlbEvict(p) PROVE TypeInv'
  BY <1>18, <1>t DEF TlbFill, TlbEvict, TypeInv
<1>n. CASE Next
  <2>1. \A size \in Sizes \union {PageBytes} : size \in AllSizes
    BY DEF AllSizes
  <2> QED
    BY <1>n, <2>1, StepCases, <1>1, <1>2, <1>3, <1>4, <1>5, <1>6, <1>7, <1>8, <1>9, <1>10, <1>11,
       <1>12, <1>13, <1>14, <1>15, <1>16, <1>17, <1>18 DEF Kinds
<1> QED BY <1>0, <1>n

(***************************************************************************)
(* Blocks change hands in five ways.                                       *)
(***************************************************************************)

\* w and v are the same allocation.
Same(w, v) == w.ptr = v.ptr /\ w.size = v.size /\ w.kind = v.kind /\ w.region = v.region

\* The other contexts stay where they are.
OthersStay(c) == \A d \in Contexts \ {c} : pc'[d] = pc[d] /\ work'[d] = work[d]

\* No block changes hands.
Keeps ==
  /\ free' = free /\ objects' = objects
  /\ \A d \in Contexts : pc'[d] # "idle" =>
       /\ pc[d] # "idle" /\ Same(work'[d], work[d])
       /\ \/ pc'[d] = pc[d]
          \/ pc[d] = "alloc_pages" /\ pc'[d] = "temp_new" /\ work[d].kind = "temp"
          \/ pc[d] = "dealloc_check" /\ pc'[d] = "dealloc_pages"

\* A call takes a block from the tree.
Takes(c) ==
  \E size \in AllSizes : \E ptr \in Fitting(OrderOf(size)) :
    /\ OrderOf(size) \in 0..MaxOrder
    /\ free' = free \ BlockCells(ptr, OrderOf(size)) /\ objects' = objects
    /\ pc[c] = "idle" /\ pc'[c] = "alloc_pages" /\ OthersStay(c)
    /\ work'[c].ptr = ptr /\ work'[c].size = size /\ work'[c].page = 0
    /\ \/ work'[c].kind = "object"
       \/ work'[c].kind = "temp" /\ size = PageBytes

\* alloc_specific takes a block and returns it at once.
TakesObject ==
  \E r \in DeviceRegions, o \in CallType : \E ptr \in Fitting(OrderOf(RegionBytes(r))) :
    /\ OrderOf(RegionBytes(r)) \in 0..MaxOrder
    /\ free' = free \ BlockCells(ptr, OrderOf(RegionBytes(r))) /\ objects' = objects \union {o}
    /\ o.ptr = ptr /\ o.size = RegionBytes(r) /\ o.kind = "specific" /\ o.region = r.start
    /\ pc' = pc /\ work' = work

\* A call returns its block to the caller.
HandsOver(c) ==
  \E o \in CallType :
    /\ free' = free /\ objects' = objects \union {o} /\ Same(o, work[c])
    /\ pc[c] \in {"alloc_pages", "temp_new"} /\ pc'[c] = "idle" /\ OthersStay(c)

\* A caller gives its block to dealloc.
GetsBack(c) ==
  \E o \in objects :
    /\ free' = free /\ objects' = objects \ {o} /\ Same(work'[c], o)
    /\ pc[c] = "idle" /\ pc'[c] = "dealloc_tree" /\ OthersStay(c)

\* dealloc returns the block to the tree.
GivesBack(c) ==
  /\ free' = free \union CellsOf(work[c]) /\ objects' = objects
  /\ pc[c] = "dealloc_tree" /\ work' = work /\ OthersStay(c)
  /\ \/ pc'[c] = "dealloc_specific" /\ work[c].kind = "specific"
     \/ pc'[c] \in {"dealloc_check", "dealloc_pages"} /\ work[c].kind # "specific"

\* Every step is one of these.
LEMMA Effects ==
  ASSUME TypeInv, TypeInv', Next
  PROVE  Keeps \/ TakesObject \/ \E c \in Contexts : Takes(c) \/ HandsOver(c) \/ GetsBack(c) \/ GivesBack(c)
<1> DEFINE Goal == Keeps \/ TakesObject
                     \/ \E c \in Contexts : Takes(c) \/ HandsOver(c) \/ GetsBack(c) \/ GivesBack(c)
<1> SUFFICES Goal
  OBVIOUS
<1> HIDE DEF Goal
<1>t. /\ \A d \in Contexts : work[d] \in CallType /\ work'[d] \in CallType
      /\ \A o \in objects : o \in CallType
      /\ NoWork = [NoWork EXCEPT !.page = 0] /\ NoWork.page = 0
  BY DEF TypeInv, NoWork
<1>1. ASSUME NEW c \in Contexts, NEW size \in AllSizes, NEW kind, AllocTree(c, size, kind),
             (kind = "object") \/ (kind = "temp" /\ size = PageBytes)
      PROVE  Goal
  <2>1. OrderOf(size) \in 0..MaxOrder
    BY <1>1, SizesFit, OrdersAssumption DEF AllocTree
  <2>2. PICK ptr \in Fitting(OrderOf(size)) :
          /\ free' = free \ BlockCells(ptr, OrderOf(size))
          /\ work' = [work EXCEPT ![c] = [NoWork EXCEPT !.ptr = ptr, !.size = size, !.kind = kind]]
    BY <1>1 DEF AllocTree
  <2>3. /\ pc[c] = "idle" /\ pc'[c] = "alloc_pages" /\ OthersStay(c) /\ objects' = objects
    BY <1>1, <2>2 DEF AllocTree, At, Goto, OthersStay, TypeInv
  <2>4. work'[c] = [NoWork EXCEPT !.ptr = ptr, !.size = size, !.kind = kind]
    BY <2>2 DEF TypeInv
  <2>5. work'[c].ptr = ptr /\ work'[c].size = size /\ work'[c].kind = kind /\ work'[c].page = 0
    BY <2>4 DEF NoWork
  <2>6. Takes(c)
    BY <1>1, <2>1, <2>2, <2>3, <2>5 DEF Takes
  <2> QED BY <2>6 DEF Goal
<1>2. ASSUME NEW c \in Contexts, NextPage(c), UNCHANGED <<free, objects, pc>> PROVE Goal
  <2>1. \A d \in Contexts : Same(work'[d], work[d])
    BY <1>2, <1>t DEF NextPage, Same, CallType, TypeInv
  <2> QED BY <1>2, <2>1 DEF Goal, Keeps
<1>3. ASSUME NEW c \in Contexts, Return(c), UNCHANGED <<free, objects>> PROVE Goal
  <2>1. \A d \in Contexts : pc'[d] # "idle" => pc'[d] = pc[d] /\ work'[d] = work[d]
    BY <1>3 DEF Return, Goto, TypeInv
  <2> QED BY <1>3, <2>1 DEF Goal, Keeps, Same
<1>4. ASSUME UNCHANGED <<free, objects, pc, work>> PROVE Goal
  BY <1>4 DEF Goal, Keeps, Same
<1>5. ASSUME NEW c \in Contexts, AllocReturn(c) PROVE Goal
  <2>1. CASE work[c].kind = "object" /\ objects' = objects \union {[work[c] EXCEPT !.page = 0]} /\ Return(c)
    <3>1. /\ [work[c] EXCEPT !.page = 0] \in CallType /\ Same([work[c] EXCEPT !.page = 0], work[c])
      BY <1>t DEF CallType, Same
    <3>2. pc[c] = "alloc_pages" /\ pc'[c] = "idle" /\ OthersStay(c) /\ free' = free
      BY <1>5, <2>1 DEF AllocReturn, At, Return, Goto, OthersStay, TypeInv
    <3>3. HandsOver(c)
      BY <2>1, <3>1, <3>2 DEF HandsOver
    <3> QED BY <3>3 DEF Goal
  <2>2. CASE work[c].kind = "temp" /\ Goto(c, "temp_new") /\ UNCHANGED <<objects, work>>
    BY <1>5, <2>2 DEF AllocReturn, At, Goto, Goal, Keeps, Same, HasBlock, TypeInv
  <2> QED BY <1>5, <2>1, <2>2 DEF AllocReturn
<1>6. ASSUME NEW c \in Contexts, NEW r \in DeviceRegions, AllocSpecific(c, r) PROVE Goal
  <2> DEFINE order == OrderOf(RegionBytes(r))
  <2>1. order \in 0..MaxOrder
    <3>1. RegionBytes(r) \in AllSizes
      BY DEF AllSizes
    <3> QED BY <1>6, <3>1, SizesFit, OrdersAssumption DEF AllocSpecific
  <2>2. PICK ptr \in Fitting(order) :
          /\ free' = free \ BlockCells(ptr, order)
          /\ objects' = objects \union
               {[NoWork EXCEPT !.ptr = ptr, !.size = RegionBytes(r),
                               !.kind = "specific", !.region = r.start]}
    BY <1>6 DEF AllocSpecific
  <2> DEFINE o == [NoWork EXCEPT !.ptr = ptr, !.size = RegionBytes(r),
                                 !.kind = "specific", !.region = r.start]
  <2>3. o.ptr = ptr /\ o.size = RegionBytes(r) /\ o.kind = "specific" /\ o.region = r.start
    BY DEF NoWork
  <2>4. o \in CallType
    <3>1. o \in objects'
      BY <2>2
    <3> QED BY <3>1 DEF TypeInv
  <2>5. objects' = objects \union {o}
    BY <2>2
  <2> HIDE DEF o
  <2>6. TakesObject
    BY <1>6, <2>1, <2>2, <2>3, <2>4, <2>5 DEF TakesObject, AllocSpecific
  <2> QED BY <2>6 DEF Goal
<1>7. ASSUME NEW c \in Contexts, NEW o \in objects, NEW w, Same(w, o), pc[c] = "idle",
             objects' = objects \ {o}, work' = [work EXCEPT ![c] = w], Goto(c, "dealloc_tree"),
             free' = free
      PROVE  Goal
  <2>1. GetsBack(c)
    BY <1>7 DEF GetsBack, Goto, OthersStay, TypeInv
  <2> QED BY <2>1 DEF Goal
<1>8. ASSUME NEW c \in Contexts, DeallocTree(c) PROVE Goal
  <2>1. /\ pc[c] = "dealloc_tree"
        /\ \/ pc'[c] = "dealloc_specific" /\ work[c].kind = "specific"
           \/ pc'[c] \in {"dealloc_check", "dealloc_pages"} /\ work[c].kind # "specific"
    BY <1>8 DEF DeallocTree, At, Goto, TypeInv
  <2>2. GivesBack(c)
    BY <1>8, <2>1 DEF GivesBack, DeallocTree, Goto, OthersStay, TypeInv, CellsOf
  <2> QED BY <2>2 DEF Goal
<1>9. ASSUME NEW c \in Contexts, DeallocCheck(c) PROVE Goal
  <2>1. CASE Goto(c, "dealloc_pages") /\ UNCHANGED work
    BY <1>9, <2>1 DEF DeallocCheck, At, Goto, Goal, Keeps, Same, HasBlock, TypeInv
  <2>2. CASE Return(c)
    BY <1>9, <2>2, <1>3 DEF DeallocCheck
  <2> QED BY <1>9, <2>1, <2>2 DEF DeallocCheck
<1>10. ASSUME NEW c \in Contexts, TempNew(c) PROVE Goal
  <2> DEFINE p == PageOf(work[c].ptr)
             o == [work[c] EXCEPT !.page = 0, !.frame = map[p]]
  <2>1. CASE Mapped(p)
    <3>1. objects' = objects \union {o} /\ Return(c) /\ free' = free /\ pc[c] = "temp_new"
      BY <1>10, <2>1 DEF TempNew, At
    <3>2. o \in CallType
      <4>1. o \in objects'
        BY <3>1
      <4> QED BY <4>1 DEF TypeInv
    <3>3. Same(o, work[c])
      BY <1>t DEF Same, CallType
    <3> HIDE DEF o
    <3>4. HandsOver(c)
      BY <3>1, <3>2, <3>3 DEF HandsOver, Return, Goto, OthersStay, TypeInv
    <3> QED BY <3>4 DEF Goal
  <2>2. CASE ~Mapped(p)
    BY <1>10, <2>2, <1>4 DEF TempNew
  <2> QED BY <2>1, <2>2
<1>11. ASSUME NEW c \in Contexts, NEW o \in objects,
              DeallocCall(c, o) \/ DeallocSpecificCall(c, o) \/ TempDrop(c, o)
       PROVE  Goal
  <2>1. Same(o, o) /\ Same([o EXCEPT !.frame = NoFrame], o)
    BY <1>t DEF Same, CallType
  <2>2. CASE DeallocCall(c, o) \/ DeallocSpecificCall(c, o)
    BY <2>1, <2>2, <1>7 DEF DeallocCall, DeallocSpecificCall, At
  <2>3. CASE TempDrop(c, o)
    BY <2>1, <2>3, <1>7 DEF TempDrop, At
  <2> QED BY <1>11, <2>2, <2>3
<1>12. ASSUME NEW c \in Contexts,
              AllocSkipPage(c) \/ AllocMapPage(c) \/ DeallocSpecificPage(c) \/ DeallocUnmapPage(c)
       PROVE  Goal
  <2>1. \/ NextPage(c) /\ UNCHANGED <<free, objects, pc>>
        \/ UNCHANGED <<free, objects, pc, work>>
    BY <1>12 DEF AllocSkipPage, AllocMapPage, DeallocSpecificPage, DeallocUnmapPage, UnmapPanics
  <2> QED BY <2>1, <1>2, <1>4
<1>13. ASSUME NEW c \in Contexts, DeallocReturn(c) \/ DeallocSpecificReturn(c) PROVE Goal
  BY <1>13, <1>3 DEF DeallocReturn, DeallocSpecificReturn
<1>14. ASSUME NEW c \in Contexts,
              \/ AllocOutOfMemory(c) \/ TempNewNull(c, PageBytes)
              \/ \E r \in DeviceRegions : AllocSpecificOutOfMemory(c, r)
              \/ \E o \in objects : TempMap(c, o) \/ TempUnmap(c, o)
       PROVE  Goal
  BY <1>14, <1>4 DEF AllocOutOfMemory, TempNewNull, AllocSpecificOutOfMemory, TempMap, TempUnmap
<1>15. ASSUME NEW p \in Pages, TlbFill(p) \/ TlbEvict(p) PROVE Goal
  BY <1>15, <1>4 DEF TlbFill, TlbEvict
<1>16. ASSUME NEW c \in Contexts, NEW n \in Sizes, AllocTree(c, n, "object") PROVE Goal
  <2>1. n \in AllSizes
    BY DEF AllSizes
  <2>2. ASSUME NEW kind, kind = "object", AllocTree(c, n, kind) PROVE Goal
    BY <2>1, <2>2, <1>1
  <2> QED BY <1>16, <2>2
<1>17. ASSUME NEW c \in Contexts, AllocTree(c, PageBytes, "temp") PROVE Goal
  <2>1. PageBytes \in AllSizes
    BY DEF AllSizes
  <2> QED BY <1>17, <2>1, <1>1
<1> QED
  BY StepCases, <1>5, <1>6, <1>8, <1>9, <1>10, <1>11, <1>12, <1>13, <1>14, <1>15, <1>16, <1>17

\* The same allocation has the same block.
LEMMA SameBlock ==
  ASSUME NEW w, NEW v, Same(w, v)
  PROVE  CellsOf(w) = CellsOf(v) /\ (Sound(v) => Sound(w))
  BY DEF Same, CellsOf, Sound

\* Every allocation keeps a sound block.
LEMMA SoundStep == BlockInv /\ TypeInv' /\ [Next]_vars => SoundInv'
<1> SUFFICES ASSUME BlockInv, TypeInv', [Next]_vars PROVE SoundInv'
  OBVIOUS
<1>0. TypeInv /\ SoundInv
  BY DEF BlockInv
<1>u. CASE UNCHANGED vars
  BY <1>0, <1>u DEF SoundInv, Sound, vars
<1>1. CASE Keeps
  <2>1. \A o \in objects' : Sound(o)
    BY <1>0, <1>1 DEF Keeps, SoundInv
  <2>2. \A d \in Contexts : pc'[d] # "idle" => Sound(work'[d])
    BY <1>0, <1>1, SameBlock DEF Keeps, SoundInv
  <2> QED BY <2>1, <2>2 DEF SoundInv, Sound
<1>2. CASE TakesObject
  <2>1. PICK r \in DeviceRegions, o \in CallType : \E ptr \in Fitting(OrderOf(RegionBytes(r))) :
          /\ OrderOf(RegionBytes(r)) \in 0..MaxOrder
          /\ objects' = objects \union {o}
          /\ o.ptr = ptr /\ o.size = RegionBytes(r) /\ o.kind = "specific" /\ o.region = r.start
          /\ pc' = pc /\ work' = work
    BY <1>2 DEF TakesObject
  <2>2. RegionBytes(r) \in AllSizes
    BY DEF AllSizes
  <2>3. IsBlock(o.ptr, OrderOf(o.size))
    BY <1>0, <2>1, <2>2, SizesFit, FittingIsBlock
  <2>4. Sound(o)
    BY <2>1, <2>2, <2>3 DEF Sound
  <2>5. \A q \in objects' : Sound(q)
    BY <1>0, <2>1, <2>4 DEF SoundInv
  <2>6. \A d \in Contexts : pc'[d] # "idle" => Sound(work'[d])
    BY <1>0, <2>1 DEF SoundInv
  <2> QED BY <2>5, <2>6 DEF SoundInv, Sound
<1>3. ASSUME NEW c \in Contexts, Takes(c) PROVE SoundInv'
  <2>1. PICK size \in AllSizes : \E ptr \in Fitting(OrderOf(size)) :
          /\ OrderOf(size) \in 0..MaxOrder /\ objects' = objects /\ OthersStay(c)
          /\ work'[c].ptr = ptr /\ work'[c].size = size
          /\ \/ work'[c].kind = "object"
             \/ work'[c].kind = "temp" /\ size = PageBytes
    BY <1>3 DEF Takes
  <2>2. IsBlock(work'[c].ptr, OrderOf(size))
    BY <1>0, <2>1, SizesFit, FittingIsBlock
  <2>3. Sound(work'[c])
    BY <2>1, <2>2 DEF Sound
  <2>4. \A q \in objects' : Sound(q)
    BY <1>0, <2>1 DEF SoundInv
  <2>5. \A d \in Contexts : pc'[d] # "idle" => Sound(work'[d])
    BY <1>0, <2>1, <2>3 DEF SoundInv, OthersStay
  <2> QED BY <2>4, <2>5 DEF SoundInv, Sound
<1>4. ASSUME NEW c \in Contexts, HandsOver(c) PROVE SoundInv'
  <2>1. PICK o \in CallType : /\ objects' = objects \union {o} /\ Same(o, work[c])
                              /\ pc[c] # "idle" /\ pc'[c] = "idle" /\ OthersStay(c)
    BY <1>4 DEF HandsOver
  <2>2. Sound(o)
    BY <1>0, <2>1, SameBlock DEF SoundInv
  <2>3. \A q \in objects' : Sound(q)
    BY <1>0, <2>1, <2>2 DEF SoundInv
  <2>4. \A d \in Contexts : pc'[d] # "idle" => Sound(work'[d])
    BY <1>0, <2>1 DEF SoundInv, OthersStay
  <2> QED BY <2>3, <2>4 DEF SoundInv, Sound
<1>5. ASSUME NEW c \in Contexts, GetsBack(c) PROVE SoundInv'
  <2>1. PICK o \in objects : objects' = objects \ {o} /\ Same(work'[c], o) /\ OthersStay(c)
    BY <1>5 DEF GetsBack
  <2>2. Sound(work'[c])
    BY <1>0, <2>1, SameBlock DEF SoundInv
  <2>3. \A q \in objects' : Sound(q)
    BY <1>0, <2>1 DEF SoundInv
  <2>4. \A d \in Contexts : pc'[d] # "idle" => Sound(work'[d])
    BY <1>0, <2>1, <2>2 DEF SoundInv, OthersStay
  <2> QED BY <2>3, <2>4 DEF SoundInv, Sound
<1>6. ASSUME NEW c \in Contexts, GivesBack(c) PROVE SoundInv'
  <2>1. objects' = objects /\ work' = work /\ \A d \in Contexts : pc'[d] # "idle" => pc[d] # "idle"
    BY <1>6 DEF GivesBack, OthersStay
  <2>3. \A q \in objects' : Sound(q)
    BY <1>0, <2>1 DEF SoundInv
  <2>4. \A d \in Contexts : pc'[d] # "idle" => Sound(work'[d])
    BY <1>0, <2>1 DEF SoundInv
  <2> QED BY <2>3, <2>4 DEF SoundInv, Sound
<1> QED BY <1>0, <1>u, <1>1, <1>2, <1>3, <1>4, <1>5, <1>6, Effects

\* A call stays about the kind of allocation it was made for.
LEMMA KindStep == BlockInv /\ TypeInv' /\ [Next]_vars => KindInv'
<1> SUFFICES ASSUME BlockInv, TypeInv', [Next]_vars PROVE KindInv'
  OBVIOUS
<1>0. TypeInv /\ KindInv
  BY DEF BlockInv
<1>u. CASE UNCHANGED vars
  BY <1>0, <1>u DEF KindInv, vars
<1>1. CASE Keeps
  BY <1>0, <1>1 DEF Keeps, KindInv, Same
<1>2. CASE TakesObject
  BY <1>0, <1>2 DEF TakesObject, KindInv
<1>3. ASSUME NEW c \in Contexts, Takes(c) PROVE KindInv'
  BY <1>0, <1>3 DEF Takes, KindInv, OthersStay
<1>4. ASSUME NEW c \in Contexts, HandsOver(c) PROVE KindInv'
  BY <1>0, <1>4 DEF HandsOver, KindInv, OthersStay
<1>5. ASSUME NEW c \in Contexts, GetsBack(c) PROVE KindInv'
  BY <1>0, <1>5 DEF GetsBack, KindInv, OthersStay
<1>6. ASSUME NEW c \in Contexts, GivesBack(c) PROVE KindInv'
  BY <1>0, <1>6 DEF GivesBack, KindInv, OthersStay
<1> QED BY <1>0, <1>u, <1>1, <1>2, <1>3, <1>4, <1>5, <1>6, Effects

\* Blocks stay apart from each other and from what is free.
LEMMA ApartStep == BlockInv /\ TypeInv' /\ [Next]_vars => ApartInv'
<1> SUFFICES ASSUME BlockInv, TypeInv', [Next]_vars PROVE ApartInv'
  OBVIOUS
<1>0. TypeInv /\ SoundInv /\ ApartInv
  BY DEF BlockInv
<1> DEFINE Apart ==
      /\ \A o \in objects' : CellsOf(o) \intersect free' = {}
      /\ \A o, q \in objects' : o # q => CellsOf(o) \intersect CellsOf(q) = {}
      /\ \A d \in Contexts : pc'[d] \in HasBlock => CellsOf(work'[d]) \intersect free' = {}
      /\ \A d \in Contexts, o \in objects' : pc'[d] \in HasBlock =>
           CellsOf(work'[d]) \intersect CellsOf(o) = {}
      /\ \A d, e \in Contexts : pc'[d] \in HasBlock /\ pc'[e] \in HasBlock /\ d # e =>
           CellsOf(work'[d]) \intersect CellsOf(work'[e]) = {}
<1>a. SUFFICES Apart
  BY DEF ApartInv, Out, CellsOf
<1>v. CASE UNCHANGED vars
  BY <1>0, <1>v DEF ApartInv, Out, vars
<1>1. CASE Keeps
  <2>1. \A d \in Contexts : pc'[d] \in HasBlock => Out(d) /\ CellsOf(work'[d]) = CellsOf(work[d])
    BY <1>1, SameBlock DEF Keeps, HasBlock, Out
  <2> QED BY <1>0, <1>1, <2>1 DEF ApartInv, Keeps
<1>2. CASE TakesObject
  <2>1. PICK r \in DeviceRegions, o \in CallType : \E ptr \in Fitting(OrderOf(RegionBytes(r))) :
          /\ free' = free \ BlockCells(ptr, OrderOf(RegionBytes(r)))
          /\ objects' = objects \union {o} /\ o.ptr = ptr /\ o.size = RegionBytes(r)
          /\ pc' = pc /\ work' = work
    BY <1>2 DEF TakesObject
  <2>2. RegionBytes(r) \in AllSizes
    BY DEF AllSizes
  <2>3. CellsOf(o) \subseteq free /\ free' = free \ CellsOf(o)
    BY <1>0, <2>1, <2>2, SizesFit, FittingIsBlock DEF CellsOf
  <2> QED BY <1>0, <2>1, <2>3 DEF ApartInv, Out
<1>3. ASSUME NEW c \in Contexts, Takes(c) PROVE Apart
  <2>1. PICK size \in AllSizes : \E ptr \in Fitting(OrderOf(size)) :
          /\ free' = free \ BlockCells(ptr, OrderOf(size)) /\ objects' = objects
          /\ OthersStay(c) /\ work'[c].ptr = ptr /\ work'[c].size = size
    BY <1>3 DEF Takes
  <2>2. CellsOf(work'[c]) \subseteq free /\ free' = free \ CellsOf(work'[c])
    BY <1>0, <2>1, SizesFit, FittingIsBlock DEF CellsOf
  <2>3. \A d \in Contexts : pc'[d] \in HasBlock =>
          d = c \/ (Out(d) /\ CellsOf(work'[d]) = CellsOf(work[d]))
    BY <2>1 DEF OthersStay, Out
  <2> QED BY <1>0, <2>1, <2>2, <2>3 DEF ApartInv
<1>4. ASSUME NEW c \in Contexts, HandsOver(c) PROVE Apart
  <2>1. PICK o \in CallType : /\ free' = free /\ objects' = objects \union {o} /\ Same(o, work[c])
                              /\ Out(c) /\ pc'[c] = "idle" /\ OthersStay(c)
    BY <1>4 DEF HandsOver, Out, HasBlock
  <2>2. CellsOf(o) = CellsOf(work[c])
    BY <2>1, SameBlock
  <2>3. \A d \in Contexts : pc'[d] \in HasBlock =>
          d # c /\ Out(d) /\ CellsOf(work'[d]) = CellsOf(work[d])
    BY <2>1 DEF OthersStay, Out, HasBlock
  <2> QED BY <1>0, <2>1, <2>2, <2>3 DEF ApartInv
<1>5. ASSUME NEW c \in Contexts, GetsBack(c) PROVE Apart
  <2>1. PICK o \in objects : /\ free' = free /\ objects' = objects \ {o} /\ Same(work'[c], o)
                             /\ OthersStay(c)
    BY <1>5 DEF GetsBack
  <2>2. CellsOf(work'[c]) = CellsOf(o)
    BY <2>1, SameBlock
  <2>3. \A d \in Contexts : pc'[d] \in HasBlock =>
          d = c \/ (Out(d) /\ CellsOf(work'[d]) = CellsOf(work[d]))
    BY <2>1 DEF OthersStay, Out
  <2> QED BY <1>0, <2>1, <2>2, <2>3 DEF ApartInv
<1>6. ASSUME NEW c \in Contexts, GivesBack(c) PROVE Apart
  <2>1. /\ free' = free \union CellsOf(work[c]) /\ objects' = objects /\ work' = work
        /\ pc[c] = "dealloc_tree" /\ pc'[c] \notin HasBlock /\ OthersStay(c)
    BY <1>6 DEF GivesBack, HasBlock
  <2>2. Out(c)
    BY <2>1 DEF Out, HasBlock
  <2>3. \A d \in Contexts : pc'[d] \in HasBlock =>
          d # c /\ Out(d) /\ CellsOf(work'[d]) = CellsOf(work[d])
    BY <2>1 DEF OthersStay, Out
  <2> QED BY <1>0, <2>1, <2>2, <2>3 DEF ApartInv
<1> HIDE DEF Apart
<1> QED BY <1>0, <1>1, <1>2, <1>3, <1>4, <1>5, <1>6, <1>v, Effects

\* The blocks stay apart, whatever the number of contexts.
LEMMA BlockStep == BlockInv /\ [Next]_vars => BlockInv'
<1> SUFFICES ASSUME BlockInv, [Next]_vars PROVE BlockInv'
  OBVIOUS
<1>1. TypeInv'
  BY TypeStep
<1> QED BY <1>1, SoundStep, KindStep, ApartStep DEF BlockInv

(***************************************************************************)
(* What holds when one context at a time uses the heap, as the kernel      *)
(* does: no interrupt handler allocates.  With more contexts, dealloc may  *)
(* unmap a page after another context has been given a block on it.        *)
(***************************************************************************)

OneContext == \A c, d \in Contexts : c = d

\* The pages that an allocation keeps mapped while it is live.
UsedPages(w) == IF w.kind = "specific" THEN AllPages(w.ptr, OrderOf(w.size))
                ELSE FirstPages(w.ptr, OrderOf(w.size))

\* What a page of an allocation is mapped to, by the page tables m.
RightFrame(m, w, p) == IF w.kind = "specific" THEN m[p] = w.region + (p - PageOf(w.ptr))
                       ELSE m[p] \in Frames

\* The pages that a call keeps mapped: alloc has come up to the page it is at, and dealloc
\* has the pages from there on left to unmap.
AtPage(w) == PageOf(w.ptr) + w.page
CallPages(label, w) ==
  CASE label = "idle" -> {}
    [] label = "alloc_pages" -> {p \in UsedPages(w) : p < AtPage(w)}
    [] label \in {"dealloc_pages", "dealloc_specific"} -> {p \in UsedPages(w) : p >= AtPage(w)}
    [] OTHER -> UsedPages(w)

\* The pages of a live allocation are mapped to what is its own.
ObjectOk(m, o) ==
  IF o.kind = "temp" THEN o.frame \in Frames /\ m[PageOf(o.ptr)] \in {NoFrame, P4Frame}
  ELSE o.frame = NoFrame /\ \A p \in UsedPages(o) : RightFrame(m, o, p)

ObjectInv == \A o \in objects : ObjectOk(map, o)

\* So are the pages of a call.
CallInv ==
  Running => \A c \in Contexts : \A p \in CallPages(pc[c], work[c]) : RightFrame(map, work[c], p)

\* The loops of dealloc start at the first page.
CountInv ==
  /\ \A o \in objects : o.page = 0
  /\ \A c \in Contexts : /\ pc[c] \in {"dealloc_tree", "dealloc_check"} => work[c].page = 0
                         /\ work[c].frame = NoFrame

\* A page that is about to be unmapped has nothing on it.
FreeAt(f, label, w) ==
  /\ label \in {"dealloc_pages", "dealloc_specific"} => \A p \in UsedPages(w) : PageCells(p) \subseteq f
  /\ label = "dealloc_check" => CellsOf(w) \subseteq f /\ OrderOf(w.size) < PageOrder

FreeInv == \A c \in Contexts : FreeAt(free, pc[c], work[c])

\* A page that is mapped has an owner.
OwnerInv ==
  \A p \in Pages : Mapped(p) =>
    (\E o \in objects : p \in UsedPages(o)) \/ (\E c \in Contexts : p \in CallPages(pc[c], work[c]))

\* So does a cell that is not free.
CellInv ==
  \A cell \in Cells \ free :
    \/ \E o \in objects : cell \in CellsOf(o)
    \/ \E c \in Contexts : Out(c) /\ cell \in CellsOf(work[c])

\* There is one TemporaryPage at a time.
TempInv ==
  /\ \A o, q \in objects : o.kind = "temp" /\ q.kind = "temp" => o = q
  /\ \A c \in Contexts, o \in objects : ~(work[c].kind = "temp" /\ o.kind = "temp")

PageInv == /\ ObjectInv /\ CallInv /\ CountInv /\ FreeInv
           /\ OwnerInv /\ CellInv /\ TempInv

\* A frame of the allocator is free, behind one page, or put aside.
Temps == {o \in objects : o.kind = "temp"}
FrameInv ==
  /\ freeFrames \subseteq Frames
  /\ \A p, q \in Pages : map[p] \in Frames /\ p # q => map[p] # map[q]
  /\ \A p \in Pages : map[p] \notin freeFrames
  /\ \A o \in Temps : /\ o.frame \in Frames /\ o.frame \notin freeFrames
                       /\ \A p \in Pages : map[p] # o.frame

\* A cached translation to a frame of the allocator is not stale.
TlbInv == \A p \in Pages : tlb[p] \in Frames => tlb[p] = map[p]

\* The frames add up.
Behind == {p \in Pages : map[p] \in Frames}
CountFramesInv ==
  panic = "no" => Cardinality(Frames) = Cardinality(freeFrames) + Cardinality(Behind)
                                        + Cardinality(FramesAside) + Cardinality(tables)

OneInv == PageInv /\ FrameInv /\ TlbInv /\ CountFramesInv

\* The inductive invariant.
IInv == BlockInv /\ (OneContext => OneInv)

\* A page that an allocation uses, and the cells on it.
LEMMA UsedPage ==
  ASSUME NEW w, Sound(w), w.kind \in Kinds, NEW p \in UsedPages(w)
  PROVE  /\ p \in Pages /\ PageCells(p) \intersect CellsOf(w) # {}
         /\ OrderOf(w.size) >= PageOrder => PageCells(p) \subseteq CellsOf(w)
         /\ OrderOf(w.size) < PageOrder => /\ CellsOf(w) \subseteq PageCells(p)
                                           /\ w.kind = "object" /\ p = PageOf(w.ptr)
<1> DEFINE k == OrderOf(w.size)
<1>1. k \in 0..MaxOrder /\ IsBlock(w.ptr, k) /\ (w.kind \in {"temp", "specific"} => k > PageOrder)
  BY SoundGeometry DEF Sound
<1>2. PageOrder \in Nat /\ k \in Nat
  BY <1>1, OrdersAssumption
<1>3. CASE k < PageOrder
  <2>1. w.kind = "object"
    BY <1>1, <1>2, <1>3 DEF Kinds
  <2>2. p \in Pages /\ p = PageOf(w.ptr) /\ CellsOf(w) \subseteq PageCells(p) /\ CellsOf(w) # {}
    BY <1>1, <1>3, <2>1, Geometry DEF UsedPages, CellsOf
  <2>3. ~(k >= PageOrder)
    BY <1>2, <1>3
  <2> QED BY <2>1, <2>2, <2>3
<1>4. CASE k >= PageOrder
  <2>1. p \in AllPages(w.ptr, k) /\ p \in Pages /\ PageCells(p) \subseteq CellsOf(w)
    BY <1>1, <1>4, Geometry DEF UsedPages, CellsOf
  <2>2. PageCells(p) # {} /\ ~(k < PageOrder)
    BY <2>1, <1>2, <1>4, PagesOfCells
  <2> QED BY <2>1, <2>2
<1> QED BY <1>2, <1>3, <1>4

\* Allocations whose blocks are apart share a page only if both are smaller than a page.
LEMMA PagesApart ==
  ASSUME NEW w, NEW v, Sound(w), Sound(v), w.kind \in Kinds, v.kind \in Kinds,
         CellsOf(w) \intersect CellsOf(v) = {},
         NEW p \in UsedPages(w), p \in UsedPages(v)
  PROVE  /\ OrderOf(w.size) < PageOrder /\ w.kind = "object"
         /\ OrderOf(v.size) < PageOrder /\ v.kind = "object"
<1>1. OrderOf(w.size) \in Int /\ OrderOf(v.size) \in Int /\ PageOrder \in Int
  BY SoundGeometry, OrdersAssumption
<1>2. OrderOf(w.size) < PageOrder
  <2> SUFFICES ASSUME OrderOf(w.size) >= PageOrder PROVE FALSE
    BY <1>1
  <2>1. PageCells(p) \subseteq CellsOf(w) /\ PageCells(p) \intersect CellsOf(v) # {}
    BY UsedPage
  <2> QED BY <2>1
<1>3. OrderOf(v.size) < PageOrder
  <2> SUFFICES ASSUME OrderOf(v.size) >= PageOrder PROVE FALSE
    BY <1>1
  <2>1. PageCells(p) \subseteq CellsOf(v) /\ PageCells(p) \intersect CellsOf(w) # {}
    BY UsedPage
  <2> QED BY <2>1
<1> QED BY <1>2, <1>3, UsedPage

\* A TemporaryPage uses one page.
LEMMA TempPages ==
  ASSUME NEW w, Sound(w), w.kind = "temp"
  PROVE  UsedPages(w) = {PageOf(w.ptr)} /\ PageOf(w.ptr) \in Pages /\ PageCount(OrderOf(w.size)) = 1
<1> DEFINE k == OrderOf(w.size)
           B == BaseOrder + PageOrder
<1>1. w.size = PageBytes /\ PageOf(w.ptr) \in Pages /\ k \in Nat
  BY SoundGeometry DEF Sound
<1>2. PageBytes \in Nat /\ IsUsize(PageBytes) /\ PageBytes <= PageBytes
  BY HeapSizes, SizesAssumption
<1>3. k > PageOrder /\ 2^(k + BaseOrder) < 4 * PageBytes
  BY <1>1, <1>2, OrderTight
<1>4. B \in Nat /\ B + 1 \in Nat /\ B + 2 \in Nat /\ k + BaseOrder \in Nat
  BY <1>1, OrdersAssumption
<1>5. 4 * PageBytes = 2^(B + 2)
  <2>1. 2^(B + 1) = 2 * 2^B /\ 2^((B + 1) + 1) = 2 * 2^(B + 1)
    BY <1>4, PowerNext
  <2>2. (B + 1) + 1 = B + 2 /\ PageBytes = 2^B
    BY <1>4 DEF PageBytes
  <2>3. 2^B \in Nat
    BY <1>4, Power
  <2> QED BY <2>1, <2>2, <2>3
<1>6. k = PageOrder + 1
  <2> SUFFICES ASSUME k >= PageOrder + 2 PROVE FALSE
    BY <1>1, <1>3, OrdersAssumption
  <2>1. B + 2 <= k + BaseOrder
    BY <1>1, OrdersAssumption
  <2>2. 2^(B + 2) <= 2^(k + BaseOrder)
    BY <1>4, <2>1, PowerMonotone
  <2>3. 2^(B + 2) \in Nat /\ 2^(k + BaseOrder) \in Nat
    BY <1>4, Power
  <2> QED BY <1>3, <1>5, <2>2, <2>3
<1>7. PageCount(k) = 1
  <2>1. PageCount(k) = 2^(k - 1 - PageOrder)
    BY <1>1, <1>3, PageCounts
  <2>2. k - 1 - PageOrder = 0
    BY <1>6, OrdersAssumption
  <2> QED BY <2>1, <2>2, FirstPowers
<1>8. FirstPages(w.ptr, k) = {PageOf(w.ptr)}
  <2>1. PageOf(w.ptr) \in Int
    BY <1>1 DEF Pages
  <2> QED BY <1>7, <2>1 DEF FirstPages
<1> QED BY <1>1, <1>7, <1>8 DEF UsedPages

\* What is behind device memory is no frame of the allocator, and not nothing.
LEMMA RightFrameIs ==
  ASSUME NEW w, Sound(w), w.kind \in Kinds, NEW p \in UsedPages(w), NEW m, RightFrame(m, w, p)
  PROVE  /\ m[p] # NoFrame /\ m[p] # P4Frame
         /\ w.kind = "specific" => m[p] \notin Frames
         /\ w.kind # "specific" => m[p] \in Frames
<1>1. CASE w.kind = "specific"
  <2>1. PICK r \in DeviceRegions : w.size = RegionBytes(r) /\ w.region = r.start
    BY <1>1 DEF Sound
  <2>2. p \in SpecificPages(w.ptr, RegionBytes(r)) /\ PageOf(w.ptr) \in Nat
    BY <1>1, <2>1, SoundGeometry DEF UsedPages, AllPages, SpecificPages, Pages
  <2>3. m[p] \in DeviceFrames
    BY <1>1, <2>1, <2>2, DeviceFrame DEF RightFrame
  <2> QED BY <1>1, <2>3, FramesAssumption
<1>2. CASE w.kind # "specific"
  BY <1>2, FramesAssumption DEF RightFrame
<1> QED BY <1>1, <1>2

\* The invariant after a step, for the one context there is.
LEMMA PageInvAt ==
  ASSUME OneContext, NEW c \in Contexts,
         \A o \in objects' : ObjectOk(map', o) /\ o.page = 0,
         panic' = "no" => \A p \in CallPages(pc'[c], work'[c]) : RightFrame(map', work'[c], p),
         pc'[c] \in {"dealloc_tree", "dealloc_check"} => work'[c].page = 0,
         work'[c].frame = NoFrame, FreeAt(free', pc'[c], work'[c]),
         \A p \in Pages : map'[p] # NoFrame =>
           (\E o \in objects' : p \in UsedPages(o)) \/ p \in CallPages(pc'[c], work'[c]),
         \A cell \in Cells \ free' :
           (\E o \in objects' : cell \in CellsOf(o)) \/ (pc'[c] \in HasBlock /\ cell \in CellsOf(work'[c])),
         \A o, q \in objects' : o.kind = "temp" /\ q.kind = "temp" => o = q,
         \A o \in objects' : ~(work'[c].kind = "temp" /\ o.kind = "temp")
  PROVE  PageInv'
<1>0. \A d \in Contexts : d = c
  BY DEF OneContext
<1>1. ObjectInv' /\ CallInv'
  BY <1>0 DEF ObjectInv, CallInv, Running
<1>2. CountInv' /\ FreeInv' /\ TempInv'
  BY <1>0 DEF CountInv, FreeInv, TempInv
<1>3. OwnerInv'
  BY <1>0 DEF OwnerInv, Mapped
<1>4. CellInv'
  BY <1>0 DEF CellInv, Out
<1> QED BY <1>1, <1>2, <1>3, <1>4 DEF PageInv

\* The invariant before a step, for the one context there is.
LEMMA PageInvBefore ==
  ASSUME OneContext, PageInv, NEW c \in Contexts
  PROVE  /\ \A o \in objects : ObjectOk(map, o) /\ o.page = 0
         /\ panic = "no" => \A p \in CallPages(pc[c], work[c]) : RightFrame(map, work[c], p)
         /\ pc[c] \in {"dealloc_tree", "dealloc_check"} => work[c].page = 0
         /\ work[c].frame = NoFrame /\ FreeAt(free, pc[c], work[c])
         /\ \A p \in Pages : map[p] # NoFrame =>
              (\E o \in objects : p \in UsedPages(o)) \/ p \in CallPages(pc[c], work[c])
         /\ \A cell \in Cells \ free :
              (\E o \in objects : cell \in CellsOf(o)) \/ (pc[c] \in HasBlock /\ cell \in CellsOf(work[c]))
         /\ \A o, q \in objects : o.kind = "temp" /\ q.kind = "temp" => o = q
         /\ \A o \in objects : ~(work[c].kind = "temp" /\ o.kind = "temp")
<1>0. \A d \in Contexts : d = c
  BY DEF OneContext
<1>1. ObjectInv /\ CallInv /\ CountInv /\ FreeInv /\ OwnerInv /\ CellInv /\ TempInv
  BY DEF PageInv
<1>2. \A p \in Pages : map[p] # NoFrame =>
              (\E o \in objects : p \in UsedPages(o)) \/ p \in CallPages(pc[c], work[c])
  BY <1>0, <1>1 DEF OwnerInv, Mapped
<1>3. \A cell \in Cells \ free :
              (\E o \in objects : cell \in CellsOf(o)) \/ (pc[c] \in HasBlock /\ cell \in CellsOf(work[c]))
  BY <1>0, <1>1 DEF CellInv, Out
<1> QED BY <1>1, <1>2, <1>3 DEF ObjectInv, CallInv, Running, CountInv, FreeInv, TempInv

\* The call that the context is in, and what it is apart from.
LEMMA CallFacts ==
  ASSUME BlockInv, NEW c \in Contexts
  PROVE  /\ work[c] \in CallType /\ work[c].kind \in Kinds /\ work[c].page \in Nat
         /\ pc[c] # "idle" => Sound(work[c]) /\ PageOf(work[c].ptr) \in Nat
         /\ \A o \in objects : o \in CallType /\ Sound(o) /\ o.kind \in Kinds
         /\ \A o, q \in objects : o # q => CellsOf(o) \intersect CellsOf(q) = {}
         /\ \A o \in objects : CellsOf(o) \intersect free = {}
         /\ pc[c] \in HasBlock => /\ CellsOf(work[c]) \intersect free = {}
                                  /\ \A o \in objects : CellsOf(work[c]) \intersect CellsOf(o) = {}
<1>1. TypeInv /\ SoundInv /\ ApartInv
  BY DEF BlockInv
<1>2. pc[c] # "idle" => Sound(work[c]) /\ PageOf(work[c].ptr) \in Nat
  BY <1>1, SoundGeometry DEF SoundInv, Pages
<1> QED BY <1>1, <1>2 DEF TypeInv, SoundInv, ApartInv, CallType, Out

\* The pages of a call, by where it is.
LEMMA CallPagesAt ==
  ASSUME NEW w
  PROVE  /\ CallPages("idle", w) = {}
         /\ CallPages("alloc_pages", w) = {p \in UsedPages(w) : p < AtPage(w)}
         /\ CallPages("dealloc_pages", w) = {p \in UsedPages(w) : p >= AtPage(w)}
         /\ CallPages("dealloc_specific", w) = {p \in UsedPages(w) : p >= AtPage(w)}
         /\ CallPages("temp_new", w) = UsedPages(w)
         /\ CallPages("dealloc_tree", w) = UsedPages(w)
         /\ CallPages("dealloc_check", w) = UsedPages(w)
  BY DEF CallPages

\* What depends on the allocation only.
LEMMA SamePages ==
  ASSUME NEW w, NEW v, Same(w, v)
  PROVE  /\ UsedPages(w) = UsedPages(v) /\ CellsOf(w) = CellsOf(v)
         /\ w.kind = v.kind /\ w.size = v.size /\ PageOf(w.ptr) = PageOf(v.ptr)
         /\ \A m, p : RightFrame(m, w, p) <=> RightFrame(m, v, p)
  BY DEF Same, UsedPages, CellsOf, RightFrame

\* The first page of a call is the first that its allocation uses.
LEMMA FirstPage ==
  ASSUME NEW w, Sound(w)
  PROVE  /\ PageOf(w.ptr) \in Nat
         /\ w.kind # "specific" => /\ PageCount(OrderOf(w.size)) \in Nat
                                   /\ UsedPages(w) = PageOf(w.ptr)..(PageOf(w.ptr) + PageCount(OrderOf(w.size)) - 1)
         /\ w.kind = "specific" => /\ PageCountSpecific(OrderOf(w.size)) \in Nat
                                   /\ UsedPages(w) = PageOf(w.ptr)..(PageOf(w.ptr) + PageCountSpecific(OrderOf(w.size)) - 1)
<1> DEFINE k == OrderOf(w.size)
<1>1. /\ k \in 0..MaxOrder /\ IsBlock(w.ptr, k) /\ PageOf(w.ptr) \in Nat /\ PageCount(k) \in Nat
      /\ w.kind = "specific" => k > PageOrder
  BY SoundGeometry DEF Sound, Pages
<1>2. w.kind = "specific" => k >= PageOrder
  BY <1>1, OrdersAssumption
<1>3. w.kind = "specific" => PageCountSpecific(k) \in Nat
  BY <1>1, <1>2, Geometry
<1> QED BY <1>1, <1>3 DEF UsedPages, FirstPages, AllPages

(***************************************************************************)
(* Each action keeps the pages in order.                                   *)
(***************************************************************************)

\* Going on to the next page changes nothing but the page.
LEMMA NextPageFacts ==
  ASSUME BlockInv, NEW c \in Contexts, pc[c] # "idle", NextPage(c)
  PROVE  /\ Same(work'[c], work[c]) /\ work'[c].page = work[c].page + 1
         /\ work'[c].frame = work[c].frame /\ AtPage(work'[c]) = AtPage(work[c]) + 1
         /\ AtPage(work[c]) \in Nat /\ AtPage(work[c]) = LoopPage(c)
<1>1. work[c] \in CallType /\ work[c].page \in Nat /\ PageOf(work[c].ptr) \in Nat
  BY CallFacts
<1>2. work' = [work EXCEPT ![c].page = work[c].page + 1] /\ work \in [Contexts -> CallType]
  BY DEF NextPage, BlockInv, TypeInv
<1>3. work'[c] = [work[c] EXCEPT !.page = work[c].page + 1]
  BY <1>2
<1>4. /\ Same(work'[c], work[c]) /\ work'[c].page = work[c].page + 1
      /\ work'[c].frame = work[c].frame
  BY <1>1, <1>3 DEF Same, CallType
<1>5. PageOf(work'[c].ptr) = PageOf(work[c].ptr)
  BY <1>4 DEF Same
<1> QED BY <1>1, <1>4, <1>5 DEF AtPage, LoopPage

\* alloc takes its block: no page is done yet.
LEMMA PageAllocTree ==
  ASSUME OneContext, BlockInv, PageInv, NEW c \in Contexts, NEW size \in AllSizes, NEW kind,
         AllocTree(c, size, kind), (kind = "object") \/ (kind = "temp" /\ NoTemporaryPage)
  PROVE  PageInv'
<1> DEFINE k == OrderOf(size)
<1>b. TypeInv
  BY DEF BlockInv
<1>1. PICK ptr \in Fitting(k) :
        /\ free' = free \ BlockCells(ptr, k)
        /\ work' = [work EXCEPT ![c] = [NoWork EXCEPT !.ptr = ptr, !.size = size, !.kind = kind]]
  BY DEF AllocTree
<1>2. /\ pc[c] = "idle" /\ pc'[c] = "alloc_pages" /\ objects' = objects /\ map' = map
      /\ panic' = panic
  BY <1>b DEF AllocTree, At, Goto, TypeInv
<1>3. work'[c] = [NoWork EXCEPT !.ptr = ptr, !.size = size, !.kind = kind]
  BY <1>b, <1>1 DEF TypeInv
<1>4. /\ work'[c].ptr = ptr /\ work'[c].size = size /\ work'[c].kind = kind
      /\ work'[c].page = 0 /\ work'[c].frame = NoFrame
  BY <1>3 DEF NoWork
<1>5. k \in 0..MaxOrder /\ IsBlock(ptr, k)
  BY <1>b, SizesFit, OrdersAssumption, FittingIsBlock DEF AllocTree
<1>6. PageOf(ptr) \in Nat /\ PageCount(k) \in Nat
  BY <1>5, Geometry DEF Pages
<1>7. CallPages(pc'[c], work'[c]) = {}
  <2>1. kind # "specific"
    OBVIOUS
  <2>2. UsedPages(work'[c]) = PageOf(ptr)..(PageOf(ptr) + PageCount(k) - 1)
    BY <1>4, <2>1 DEF UsedPages, FirstPages
  <2>3. AtPage(work'[c]) = PageOf(ptr)
    BY <1>4, <1>6 DEF AtPage
  <2> HIDE DEF k
  <2>4. \A p \in UsedPages(work'[c]) : ~(p < AtPage(work'[c]))
    BY <1>6, <2>2, <2>3
  <2> QED BY <1>2, <2>4, CallPagesAt
<1>8. CellsOf(work'[c]) = BlockCells(ptr, k)
  BY <1>4 DEF CellsOf
<1>9. CallPages(pc[c], work[c]) = {}
  BY <1>2, CallPagesAt
<1>10. \A p \in Pages : map'[p] # NoFrame =>
         (\E o \in objects' : p \in UsedPages(o)) \/ p \in CallPages(pc'[c], work'[c])
  BY <1>2, <1>9, PageInvBefore
<1>11. \A cell \in Cells \ free' :
         (\E o \in objects' : cell \in CellsOf(o)) \/ (pc'[c] \in HasBlock /\ cell \in CellsOf(work'[c]))
  <2>1. pc[c] \notin HasBlock /\ pc'[c] \in HasBlock
    BY <1>2 DEF HasBlock
  <2> QED BY <1>1, <1>2, <1>8, <2>1, PageInvBefore
<1>12. /\ \A o \in objects' : ObjectOk(map', o) /\ o.page = 0
       /\ \A o, q \in objects' : o.kind = "temp" /\ q.kind = "temp" => o = q
  BY <1>2, PageInvBefore
<1>13. \A o \in objects' : ~(work'[c].kind = "temp" /\ o.kind = "temp")
  BY <1>2, <1>4 DEF NoTemporaryPage
<1>14. FreeAt(free', pc'[c], work'[c])
  BY <1>2 DEF FreeAt
<1> QED BY <1>2, <1>4, <1>7, <1>10, <1>11, <1>12, <1>13, <1>14, PageInvAt

\* The page that alloc is at is one its block uses, and the pages it has done are those before.
LEMMA AllocLoop ==
  ASSUME BlockInv, NEW c \in Contexts, pc[c] = "alloc_pages",
         work[c].page < PageCount(OrderOf(work[c].size))
  PROVE  /\ AtPage(work[c]) \in UsedPages(work[c]) /\ work[c].kind # "specific"
         /\ CallPages(pc[c], work[c]) = {p \in UsedPages(work[c]) : p < AtPage(work[c])}
         /\ CallPages(pc[c], work[c]) = {PageOf(work[c].ptr) + n : n \in 0..(work[c].page - 1)}
         /\ AtPage(work[c]) \notin CallPages(pc[c], work[c])
<1> DEFINE w == work[c]
           q == PageOf(w.ptr)
           n == PageCount(OrderOf(w.size))
<1>1. Sound(w) /\ w.page \in Nat /\ w.kind # "specific"
  BY CallFacts DEF BlockInv, KindInv
<1>2. q \in Nat /\ n \in Nat /\ UsedPages(w) = q..(q + n - 1) /\ AtPage(w) = q + w.page
  BY <1>1, FirstPage DEF AtPage
<1>3. CallPages(pc[c], w) = {p \in UsedPages(w) : p < AtPage(w)}
  BY CallPagesAt
<1> HIDE DEF q, n
<1>4. AtPage(w) \in UsedPages(w)
  BY <1>1, <1>2 DEF n
<1>5. {p \in UsedPages(w) : p < AtPage(w)} = {q + i : i \in 0..(w.page - 1)}
  <2>1. ASSUME NEW p \in UsedPages(w), p < AtPage(w) PROVE \E i \in 0..(w.page - 1) : p = q + i
    <3>1. p - q \in 0..(w.page - 1) /\ p = q + (p - q)
      BY <1>1, <1>2, <2>1
    <3> QED BY <3>1
  <2>2. ASSUME NEW i \in 0..(w.page - 1) PROVE q + i \in UsedPages(w) /\ q + i < AtPage(w)
    BY <1>1, <1>2, <2>2 DEF n
  <2> QED BY <2>1, <2>2
<1>6. AtPage(w) \in Nat
  BY <1>1, <1>2
<1>7. AtPage(w) \notin CallPages(pc[c], w)
  BY <1>3, <1>6
<1> QED BY <1>1, <1>3, <1>4, <1>5, <1>7 DEF q

\* After NextPage in alloc the call has one page more.
LEMMA AllocLoopNext ==
  ASSUME BlockInv, NEW c \in Contexts, pc[c] = "alloc_pages", pc' = pc,
         work[c].page < PageCount(OrderOf(work[c].size)), NextPage(c)
  PROVE  CallPages(pc'[c], work'[c]) = CallPages(pc[c], work[c]) \union {AtPage(work[c])}
<1>1. /\ UsedPages(work'[c]) = UsedPages(work[c]) /\ AtPage(work'[c]) = AtPage(work[c]) + 1
      /\ AtPage(work[c]) \in Nat
  BY NextPageFacts, SamePages
<1>2. /\ AtPage(work[c]) \in UsedPages(work[c])
      /\ CallPages(pc[c], work[c]) = {p \in UsedPages(work[c]) : p < AtPage(work[c])}
  BY AllocLoop
<1>3. CallPages(pc'[c], work'[c]) = {p \in UsedPages(work[c]) : p < AtPage(work[c]) + 1}
  BY <1>1, CallPagesAt
<1>4. \A p \in UsedPages(work[c]) : p \in Nat
  BY CallFacts, UsedPage DEF Pages
<1>5. \A p \in UsedPages(work[c]) : p < AtPage(work[c]) + 1 <=> p < AtPage(work[c]) \/ p = AtPage(work[c])
  BY <1>1, <1>4
<1> QED BY <1>2, <1>3, <1>5

\* What is left to show of a step that goes on to the next page.
LEMMA PageNextPage ==
  ASSUME OneContext, BlockInv, PageInv, NEW c \in Contexts, NextPage(c), pc' = pc, free' = free,
         objects' = objects, pc[c] \in {"alloc_pages", "dealloc_pages", "dealloc_specific"},
         \A o \in objects : ObjectOk(map', o),
         \A p \in CallPages(pc'[c], work'[c]) : RightFrame(map', work[c], p),
         \A p \in Pages : map'[p] # NoFrame =>
           (\E o \in objects : p \in UsedPages(o)) \/ p \in CallPages(pc'[c], work'[c])
  PROVE  PageInv'
<1>1. Same(work'[c], work[c]) /\ work'[c].frame = work[c].frame
  BY NextPageFacts
<1>2. /\ UsedPages(work'[c]) = UsedPages(work[c]) /\ CellsOf(work'[c]) = CellsOf(work[c])
      /\ work'[c].kind = work[c].kind /\ work'[c].size = work[c].size
      /\ \A p : RightFrame(map', work'[c], p) <=> RightFrame(map', work[c], p)
  BY <1>1, SamePages
<1>3. /\ \A o \in objects' : ObjectOk(map', o) /\ o.page = 0
      /\ \A o, q \in objects' : o.kind = "temp" /\ q.kind = "temp" => o = q
      /\ \A o \in objects' : ~(work'[c].kind = "temp" /\ o.kind = "temp")
      /\ work'[c].frame = NoFrame
  BY <1>1, <1>2, PageInvBefore
<1>4. FreeAt(free', pc'[c], work'[c])
  <2>1. FreeAt(free, pc[c], work[c])
    BY PageInvBefore
  <2> QED BY <1>2, <2>1 DEF FreeAt
<1>5. \A cell \in Cells \ free' :
        (\E o \in objects' : cell \in CellsOf(o)) \/ (pc'[c] \in HasBlock /\ cell \in CellsOf(work'[c]))
  BY <1>2, PageInvBefore
<1>6. \A p \in CallPages(pc'[c], work'[c]) : RightFrame(map', work'[c], p)
  BY <1>2
<1>7. pc'[c] \notin {"dealloc_tree", "dealloc_check"}
  OBVIOUS
<1> QED BY <1>3, <1>4, <1>5, <1>6, <1>7, PageInvAt

\* alloc finds the page mapped: it is shared with small allocations.
LEMMA PageAllocSkip ==
  ASSUME OneContext, BlockInv, PageInv, NEW c \in Contexts, AllocSkipPage(c)
  PROVE  PageInv'
<1> DEFINE w == work[c]
           a == AtPage(w)
<1>1. /\ pc[c] = "alloc_pages" /\ w.page < PageCount(OrderOf(w.size)) /\ map[a] # NoFrame
      /\ NextPage(c) /\ panic = "no" /\ pc' = pc /\ free' = free /\ objects' = objects /\ map' = map
  BY DEF AllocSkipPage, At, Running, Mapped, LoopPage, AtPage
<1>2. a \in UsedPages(w) /\ w.kind # "specific" /\ a \notin CallPages(pc[c], w)
  BY <1>1, AllocLoop
<1>3. Sound(w) /\ w.kind \in Kinds
  BY <1>1, CallFacts
<1>4. a \in Pages
  BY <1>2, <1>3, UsedPage
<1>5. PICK o \in objects : a \in UsedPages(o)
  BY <1>1, <1>2, <1>4, PageInvBefore
<1>6. Sound(o) /\ o.kind \in Kinds /\ CellsOf(w) \intersect CellsOf(o) = {}
  BY <1>1, CallFacts DEF HasBlock
<1>7. o.kind = "object"
  BY <1>2, <1>3, <1>5, <1>6, PagesApart
<1>8. map[a] \in Frames
  <2>1. ObjectOk(map, o)
    BY PageInvBefore
  <2> QED BY <1>5, <1>7, <2>1 DEF ObjectOk, RightFrame
<1>9. RightFrame(map, w, a)
  BY <1>2, <1>8 DEF RightFrame
<1> HIDE DEF a
<1>10. CallPages(pc'[c], work'[c]) = CallPages(pc[c], w) \union {a}
  BY <1>1, AllocLoopNext DEF a
<1>11. \A p \in CallPages(pc'[c], work'[c]) : RightFrame(map', w, p)
  BY <1>1, <1>9, <1>10, PageInvBefore
<1>12. /\ \A q \in objects : ObjectOk(map', q)
       /\ \A p \in Pages : map'[p] # NoFrame =>
            (\E q \in objects : p \in UsedPages(q)) \/ p \in CallPages(pc'[c], work'[c])
  BY <1>1, <1>10, PageInvBefore
<1> QED BY <1>1, <1>11, <1>12, PageNextPage

\* A live allocation whose pages keep their mappings is all right.
LEMMA ObjectKeeps ==
  ASSUME NEW m, NEW n, NEW o, Sound(o), ObjectOk(m, o), \A p \in UsedPages(o) : n[p] = m[p]
  PROVE  ObjectOk(n, o)
<1>1. CASE o.kind = "temp"
  BY <1>1, TempPages DEF ObjectOk
<1>2. CASE o.kind # "temp"
  BY <1>2 DEF ObjectOk, RightFrame
<1> QED BY <1>1, <1>2

\* A page that is not mapped belongs to no live allocation, but for a TemporaryPage.
LEMMA UnmappedPage ==
  ASSUME NEW m, NEW o, Sound(o), o.kind \in Kinds, ObjectOk(m, o), NEW p \in UsedPages(o), m[p] = NoFrame
  PROVE  o.kind = "temp"
<1> SUFFICES ASSUME o.kind # "temp" PROVE FALSE
  OBVIOUS
<1>1. RightFrame(m, o, p)
  BY DEF ObjectOk
<1> QED BY <1>1, RightFrameIs

\* alloc maps the page: nobody else has it.
LEMMA PageAllocMap ==
  ASSUME OneContext, BlockInv, PageInv, FrameInv, NEW c \in Contexts, AllocMapPage(c)
  PROVE  PageInv'
<1> DEFINE w == work[c]
           a == AtPage(w)
<1>1. /\ pc[c] = "alloc_pages" /\ w.page < PageCount(OrderOf(w.size)) /\ map[a] = NoFrame
      /\ NextPage(c) /\ panic = "no" /\ pc' = pc /\ free' = free /\ objects' = objects
      /\ MapZeroed(a)
  BY DEF AllocMapPage, At, Running, Mapped, LoopPage, AtPage
<1>2. a \in UsedPages(w) /\ w.kind # "specific" /\ a \notin CallPages(pc[c], w)
  BY <1>1, AllocLoop
<1>3. Sound(w) /\ w.kind \in Kinds
  BY <1>1, CallFacts
<1>4. a \in Pages
  BY <1>2, <1>3, UsedPage
<1>5. PICK f \in freeFrames : map' = [map EXCEPT ![a] = f]
  BY <1>1 DEF MapZeroed
<1>6. f \in Frames /\ map \in [Pages -> AnyFrame]
  BY DEF FrameInv, BlockInv, TypeInv
<1>7. map'[a] \in Frames /\ \A p \in Pages : p # a => map'[p] = map[p]
  BY <1>4, <1>5, <1>6
<1>8. \A o \in objects : a \notin UsedPages(o)
  <2> SUFFICES ASSUME NEW o \in objects, a \in UsedPages(o) PROVE FALSE
    OBVIOUS
  <2>1. Sound(o) /\ o.kind \in Kinds /\ CellsOf(w) \intersect CellsOf(o) = {}
    BY <1>1, CallFacts DEF HasBlock
  <2>2. o.kind = "object"
    BY <1>2, <1>3, <2>1, PagesApart
  <2>3. ObjectOk(map, o)
    BY PageInvBefore
  <2> QED BY <1>1, <2>1, <2>2, <2>3, UnmappedPage
<1>9. \A o \in objects : ObjectOk(map', o)
  <2> SUFFICES ASSUME NEW o \in objects PROVE ObjectOk(map', o)
    OBVIOUS
  <2>1. Sound(o) /\ o.kind \in Kinds /\ ObjectOk(map, o)
    BY CallFacts, PageInvBefore
  <2>2. \A p \in UsedPages(o) : map'[p] = map[p]
    BY <1>7, <1>8, <2>1, UsedPage
  <2> QED BY <2>1, <2>2, ObjectKeeps
<1> HIDE DEF a
<1>10. CallPages(pc'[c], work'[c]) = CallPages(pc[c], w) \union {a}
  BY <1>1, AllocLoopNext DEF a
<1>11. \A p \in CallPages(pc[c], w) : p \in Pages /\ p # a
  <2>1. \A p \in CallPages(pc[c], w) : p \in UsedPages(w)
    BY <1>1, CallPagesAt
  <2> QED BY <1>2, <1>3, <2>1, UsedPage DEF a
<1>12. \A p \in CallPages(pc'[c], work'[c]) : RightFrame(map', w, p)
  <2>1. RightFrame(map', w, a)
    BY <1>2, <1>7 DEF RightFrame
  <2>2. ASSUME NEW p \in CallPages(pc[c], w) PROVE RightFrame(map', w, p)
    <3>1. RightFrame(map, w, p) /\ map'[p] = map[p]
      BY <1>1, <1>7, <1>11, PageInvBefore
    <3> QED BY <3>1 DEF RightFrame
  <2> QED BY <1>10, <2>1, <2>2
<1>13. \A p \in Pages : map'[p] # NoFrame =>
            (\E q \in objects : p \in UsedPages(q)) \/ p \in CallPages(pc'[c], work'[c])
  BY <1>7, <1>10, PageInvBefore
<1> QED BY <1>1, <1>9, <1>12, <1>13, PageNextPage

\* What is left to show of a step that changes mappings only.
LEMMA PageSteady ==
  ASSUME OneContext, PageInv, NEW c \in Contexts, UNCHANGED <<pc, work, free, objects>>,
         \A o \in objects : ObjectOk(map', o),
         panic' = "no" => \A p \in CallPages(pc[c], work[c]) : RightFrame(map', work[c], p),
         \A p \in Pages : map'[p] # NoFrame =>
           (\E o \in objects : p \in UsedPages(o)) \/ p \in CallPages(pc[c], work[c])
  PROVE  PageInv'
<1>1. pc' = pc /\ work' = work /\ free' = free /\ objects' = objects
  OBVIOUS
<1> QED BY <1>1, PageInvBefore, PageInvAt

\* alloc unmaps what it has mapped, which nobody shares, and panics.
LEMMA PageAllocOutOfMemory ==
  ASSUME OneContext, BlockInv, PageInv, NEW c \in Contexts, AllocOutOfMemory(c)
  PROVE  PageInv'
<1> DEFINE w == work[c]
           done == CallPages(pc[c], w)
<1>1. /\ pc[c] = "alloc_pages" /\ w.page < PageCount(OrderOf(w.size))
      /\ map' = [p \in Pages |-> IF p \in {PageOf(w.ptr) + n : n \in 0..(w.page - 1)} THEN NoFrame ELSE map[p]]
      /\ panic' = "unmapped" /\ UNCHANGED <<pc, work, free, objects>>
  BY DEF AllocOutOfMemory, At
<1>2. /\ done = {PageOf(w.ptr) + n : n \in 0..(w.page - 1)}
      /\ \A p \in done : p \in UsedPages(w)
  <2>1. done = {p \in UsedPages(w) : p < AtPage(w)}
    BY <1>1, AllocLoop
  <2> QED BY <1>1, <2>1, AllocLoop
<1>3. Sound(w) /\ w.kind \in Kinds /\ w.page \in Nat
  BY <1>1, CallFacts
<1>4. map' = [p \in Pages |-> IF p \in done THEN NoFrame ELSE map[p]]
  BY <1>1, <1>2
<1>5. \A o \in objects : ObjectOk(map', o)
  <2> SUFFICES ASSUME NEW o \in objects PROVE ObjectOk(map', o)
    OBVIOUS
  <2>1. Sound(o) /\ o.kind \in Kinds /\ ObjectOk(map, o) /\ CellsOf(w) \intersect CellsOf(o) = {}
    BY <1>1, CallFacts, PageInvBefore DEF HasBlock
  <2>2. ASSUME NEW p \in UsedPages(o), p \in done PROVE FALSE
    <3>1. OrderOf(w.size) < PageOrder
      BY <1>2, <1>3, <2>1, <2>2, PagesApart
    <3>2. PageCount(OrderOf(w.size)) = 1
      BY <1>3, <3>1, Geometry DEF Sound
    <3>3. w.page = 0
      BY <1>1, <1>3, <3>2
    <3>4. 0..(w.page - 1) = {}
      BY <3>3
    <3> QED BY <1>2, <2>2, <3>4
  <2>3. \A p \in UsedPages(o) : map'[p] = map[p]
    BY <1>4, <2>1, <2>2, UsedPage
  <2> HIDE DEF done
  <2> QED BY <2>1, <2>3, ObjectKeeps
<1> HIDE DEF done
<1>6. \A p \in Pages : map'[p] # NoFrame => map[p] # NoFrame /\ p \notin done
  BY <1>4
<1>7. \A p \in Pages : map'[p] # NoFrame =>
        (\E o \in objects : p \in UsedPages(o)) \/ p \in CallPages(pc[c], w)
  BY <1>6, PageInvBefore
<1>8. panic' # "no"
  BY <1>1
<1> QED BY <1>1, <1>5, <1>7, <1>8, PageSteady

\* alloc returns with all its pages mapped.
LEMMA PageAllocReturn ==
  ASSUME OneContext, BlockInv, PageInv, NEW c \in Contexts, AllocReturn(c)
  PROVE  PageInv'
<1> DEFINE w == work[c]
<1>1. /\ pc[c] = "alloc_pages" /\ w.page >= PageCount(OrderOf(w.size)) /\ panic = "no" /\ panic' = panic
      /\ map' = map /\ free' = free
  BY DEF AllocReturn, At, Running
<1>2. Sound(w) /\ w.kind # "specific" /\ w \in CallType
  BY <1>1, CallFacts DEF BlockInv, KindInv
<1>3. CallPages(pc[c], w) = UsedPages(w)
  <2> DEFINE q == PageOf(w.ptr)
             n == PageCount(OrderOf(w.size))
  <2>1. q \in Nat /\ n \in Nat /\ UsedPages(w) = q..(q + n - 1) /\ w.page \in Nat
    BY <1>1, <1>2, FirstPage, CallFacts
  <2>2. AtPage(w) = q + w.page
    BY DEF AtPage
  <2> HIDE DEF q
  <2>3. \A p \in UsedPages(w) : p < AtPage(w)
    BY <1>1, <2>1, <2>2
  <2> QED BY <1>1, <2>3, CallPagesAt
<1>4. CASE w.kind = "object" /\ objects' = objects \union {[w EXCEPT !.page = 0]} /\ Return(c)
  <2> DEFINE o == [w EXCEPT !.page = 0]
  <2>1. pc'[c] = "idle" /\ work'[c] = NoWork
    BY <1>4 DEF Return, Goto, BlockInv, TypeInv
  <2>2. Same(o, w) /\ o.page = 0 /\ o.frame = w.frame
    BY <1>2 DEF Same, CallType
  <2>3. objects' = objects \union {o}
    BY <1>4
  <2> HIDE DEF o
  <2>4. /\ UsedPages(o) = UsedPages(w) /\ CellsOf(o) = CellsOf(w) /\ o.kind = "object"
        /\ \A p : RightFrame(map, o, p) <=> RightFrame(map, w, p)
    BY <1>4, <2>2, SamePages
  <2>5. ObjectOk(map, o)
    BY <1>1, <1>3, <2>2, <2>4, PageInvBefore DEF ObjectOk
  <2>6. \A x \in objects' : ObjectOk(map', x) /\ x.page = 0
    BY <1>1, <2>2, <2>3, <2>5, PageInvBefore
  <2>7. CallPages(pc'[c], work'[c]) = {} /\ FreeAt(free', pc'[c], work'[c])
    BY <2>1, CallPagesAt DEF FreeAt
  <2>8. \A p \in Pages : map'[p] # NoFrame => \E x \in objects' : p \in UsedPages(x)
    BY <1>1, <1>3, <2>3, <2>4, PageInvBefore
  <2>9. \A cell \in Cells \ free' : \E x \in objects' : cell \in CellsOf(x)
    BY <1>1, <2>3, <2>4, PageInvBefore
  <2>10. \A x, y \in objects' : x.kind = "temp" /\ y.kind = "temp" => x = y
    BY <2>3, <2>4, PageInvBefore
  <2>11. work'[c].frame = NoFrame /\ work'[c].kind = "object"
    BY <2>1 DEF NoWork
  <2> QED BY <2>1, <2>6, <2>7, <2>8, <2>9, <2>10, <2>11, PageInvAt
<1>5. CASE w.kind = "temp" /\ Goto(c, "temp_new") /\ UNCHANGED <<objects, work>>
  <2>1. pc'[c] = "temp_new" /\ work' = work /\ objects' = objects
    BY <1>5 DEF Goto, BlockInv, TypeInv
  <2>2. CallPages(pc'[c], work'[c]) = CallPages(pc[c], w) /\ FreeAt(free', pc'[c], work'[c])
    BY <1>3, <2>1, CallPagesAt DEF FreeAt
  <2>3. pc'[c] \in HasBlock
    BY <2>1 DEF HasBlock
  <2> QED BY <1>1, <2>1, <2>2, <2>3, PageInvBefore, PageInvAt
<1> QED BY <1>4, <1>5 DEF AllocReturn

\* What alloc_specific does: the new allocation, and the pages it maps, which nothing used.
LEMMA SpecificFacts ==
  ASSUME OneContext, BlockInv, PageInv, NEW c \in Contexts, NEW r \in DeviceRegions, AllocSpecific(c, r)
  PROVE  \E o \in CallType :
           /\ Sound(o) /\ o.kind = "specific" /\ o.page = 0 /\ o.frame = NoFrame
           /\ o.size = RegionBytes(r) /\ o.region = r.start
           /\ CellsOf(o) \subseteq free /\ free' = free \ CellsOf(o) /\ objects' = objects \union {o}
           /\ map' = [p \in Pages |-> IF p \in UsedPages(o) THEN r.start + (p - PageOf(o.ptr)) ELSE map[p]]
           /\ tlb' = [p \in Pages |-> IF p \in UsedPages(o) THEN NoFrame ELSE tlb[p]]
           /\ tables' = tables \union MissingTables(UsedPages(o))
           /\ \E ts \in SUBSET freeFrames : /\ Cardinality(ts) = Cardinality(MissingTables(UsedPages(o)))
                                            /\ freeFrames' = freeFrames \ ts
           /\ \A p \in UsedPages(o) : p \in Pages /\ map[p] = NoFrame /\ \A q \in objects : p \notin UsedPages(q)
<1> DEFINE k == OrderOf(RegionBytes(r))
<1>0. TypeInv /\ pc[c] = "idle"
  BY DEF BlockInv, AllocSpecific, At
<1>1. PICK ptr \in Fitting(k) :
        LET ps == SpecificPages(ptr, RegionBytes(r))
        IN  /\ free' = free \ BlockCells(ptr, k)
            /\ \E ts \in SUBSET freeFrames : /\ Cardinality(ts) = Cardinality(MissingTables(ps))
                                             /\ freeFrames' = freeFrames \ ts
            /\ tables' = tables \union MissingTables(ps)
            /\ map' = [p \in Pages |-> IF p \in ps THEN r.start + (p - PageOf(ptr)) ELSE map[p]]
            /\ tlb' = [p \in Pages |-> IF p \in ps THEN NoFrame ELSE tlb[p]]
            /\ objects' = objects \union
                 {[NoWork EXCEPT !.ptr = ptr, !.size = RegionBytes(r), !.kind = "specific", !.region = r.start]}
  BY DEF AllocSpecific
<1> DEFINE o == [NoWork EXCEPT !.ptr = ptr, !.size = RegionBytes(r), !.kind = "specific", !.region = r.start]
<1>2. /\ o.ptr = ptr /\ o.size = RegionBytes(r) /\ o.kind = "specific" /\ o.region = r.start
      /\ o.page = 0 /\ o.frame = NoFrame
  BY DEF NoWork
<1>3. RegionBytes(r) \in AllSizes
  BY DEF AllSizes
<1>4. k \in 0..MaxOrder /\ IsBlock(ptr, k) /\ BlockCells(ptr, k) \subseteq free
  BY <1>0, <1>3, SizesFit, OrdersAssumption, FittingIsBlock DEF AllocSpecific
<1>5. Sound(o)
  <2> HIDE DEF o
  <2> QED BY <1>2, <1>3, <1>4 DEF Sound
<1>6. SpecificPages(ptr, RegionBytes(r)) = UsedPages(o) /\ CellsOf(o) = BlockCells(ptr, k)
  <2> HIDE DEF o
  <2> QED BY <1>2 DEF SpecificPages, UsedPages, AllPages, CellsOf
<1>7. o \in CallType
  <2>1. ptr \in 0..HeapBytes
    BY <1>4, Geometry
  <2>2. RegionBytes(r) \in Nat /\ r.start \in Nat
    BY <1>3, SizesFit, SizesAssumption
  <2>3. NoFrame \in AnyFrame
    BY DEF AnyFrame
  <2> QED BY <2>1, <2>2, <2>3 DEF CallType, Kinds, NoWork
<1>8. /\ free' = free \ CellsOf(o) /\ objects' = objects \union {o} /\ CellsOf(o) \subseteq free
      /\ map' = [p \in Pages |-> IF p \in UsedPages(o) THEN r.start + (p - PageOf(o.ptr)) ELSE map[p]]
      /\ tlb' = [p \in Pages |-> IF p \in UsedPages(o) THEN NoFrame ELSE tlb[p]]
      /\ tables' = tables \union MissingTables(UsedPages(o))
      /\ \E ts \in SUBSET freeFrames : /\ Cardinality(ts) = Cardinality(MissingTables(UsedPages(o)))
                                       /\ freeFrames' = freeFrames \ ts
  BY <1>1, <1>2, <1>4, <1>6
<1> HIDE DEF o
<1>9. ASSUME NEW p \in UsedPages(o)
      PROVE  p \in Pages /\ map[p] = NoFrame /\ \A q \in objects : p \notin UsedPages(q)
  <2>1. \A q \in objects : p \notin UsedPages(q)
    <3> SUFFICES ASSUME NEW q \in objects, p \in UsedPages(q) PROVE FALSE
      OBVIOUS
    <3>1. Sound(q) /\ q.kind \in Kinds /\ CellsOf(q) \intersect free = {}
      BY CallFacts
    <3>2. CellsOf(o) \intersect CellsOf(q) = {} /\ o.kind \in Kinds
      BY <1>2, <1>8, <3>1 DEF Kinds
    <3>3. o.kind = "object"
      BY <1>5, <1>9, <3>1, <3>2, PagesApart
    <3> QED BY <1>2, <3>3
  <2>2. p \in Pages
    BY <1>2, <1>5, <1>9, UsedPage DEF Kinds
  <2>3. CallPages(pc[c], work[c]) = {}
    BY <1>0, CallPagesAt
  <2> QED BY <2>1, <2>2, <2>3, PageInvBefore
<1> QED BY <1>2, <1>5, <1>7, <1>8, <1>9

\* alloc_specific maps pages that nobody has.
LEMMA PageAllocSpecific ==
  ASSUME OneContext, BlockInv, PageInv, NEW c \in Contexts, NEW r \in DeviceRegions, AllocSpecific(c, r)
  PROVE  PageInv'
<1>0. pc' = pc /\ work' = work /\ panic' = panic /\ pc[c] = "idle"
  BY DEF AllocSpecific, At
<1>1. PICK o \in CallType :
           /\ Sound(o) /\ o.kind = "specific" /\ o.page = 0 /\ o.frame = NoFrame
           /\ o.region = r.start
           /\ CellsOf(o) \subseteq free /\ free' = free \ CellsOf(o) /\ objects' = objects \union {o}
           /\ map' = [p \in Pages |-> IF p \in UsedPages(o) THEN r.start + (p - PageOf(o.ptr)) ELSE map[p]]
           /\ \A p \in UsedPages(o) : p \in Pages /\ map[p] = NoFrame /\ \A q \in objects : p \notin UsedPages(q)
  BY SpecificFacts
<1>2. ObjectOk(map', o)
  BY <1>1 DEF ObjectOk, RightFrame
<1>3. ASSUME NEW q \in objects PROVE ObjectOk(map', q)
  <2>1. Sound(q) /\ q.kind \in Kinds /\ ObjectOk(map, q)
    BY CallFacts, PageInvBefore
  <2>2. \A p \in UsedPages(q) : map'[p] = map[p]
    BY <1>1, <2>1, UsedPage
  <2> QED BY <2>1, <2>2, ObjectKeeps
<1>4. \A q \in objects' : ObjectOk(map', q) /\ q.page = 0
  BY <1>1, <1>2, <1>3, PageInvBefore
<1>5. CallPages(pc'[c], work'[c]) = {} /\ CallPages(pc[c], work[c]) = {} /\ FreeAt(free', pc'[c], work'[c])
  BY <1>0, CallPagesAt DEF FreeAt
<1>6. \A p \in Pages : map'[p] # NoFrame => \E q \in objects' : p \in UsedPages(q)
  BY <1>1, <1>5, PageInvBefore
<1>7. \A cell \in Cells \ free' : \E q \in objects' : cell \in CellsOf(q)
  <2>1. pc[c] \notin HasBlock
    BY <1>0 DEF HasBlock
  <2> QED BY <1>1, <2>1, PageInvBefore
<1>8. /\ \A x, y \in objects' : x.kind = "temp" /\ y.kind = "temp" => x = y
      /\ \A x \in objects' : ~(work'[c].kind = "temp" /\ x.kind = "temp")
      /\ work'[c].frame = NoFrame
  BY <1>0, <1>1, PageInvBefore
<1>9. pc'[c] \notin {"dealloc_tree", "dealloc_check"}
  BY <1>0
<1> QED BY <1>4, <1>5, <1>6, <1>7, <1>8, <1>9, PageInvAt

\* dealloc takes over an allocation, and a TemporaryPage puts its frame back before that.
LEMMA PageCall ==
  ASSUME OneContext, BlockInv, PageInv, NEW c \in Contexts, NEW o \in objects, NEW w,
         pc[c] = "idle", Same(w, o), w.page = 0, w.frame = NoFrame,
         work' = [work EXCEPT ![c] = w], Goto(c, "dealloc_tree"), objects' = objects \ {o}, free' = free,
         \A p \in Pages : p \notin UsedPages(o) => map'[p] = map[p],
         \A p \in UsedPages(o) : RightFrame(map', o, p) /\ (o.kind # "temp" => map'[p] = map[p])
  PROVE  PageInv'
<1>1. pc'[c] = "dealloc_tree" /\ work'[c] = w
  BY DEF Goto, BlockInv, TypeInv
<1>2. /\ UsedPages(w) = UsedPages(o) /\ CellsOf(w) = CellsOf(o) /\ w.kind = o.kind
      /\ \A p : RightFrame(map', w, p) <=> RightFrame(map', o, p)
  BY SamePages
<1>3. CallPages(pc'[c], work'[c]) = UsedPages(o) /\ CallPages(pc[c], work[c]) = {}
  BY <1>1, <1>2, CallPagesAt
<1>4. Sound(o) /\ o.kind \in Kinds
  BY CallFacts
<1>5. ASSUME NEW q \in objects, q # o PROVE ObjectOk(map', q)
  <2>1. Sound(q) /\ q.kind \in Kinds /\ ObjectOk(map, q) /\ CellsOf(o) \intersect CellsOf(q) = {}
    BY <1>5, CallFacts, PageInvBefore
  <2>2. \A p \in UsedPages(q) : map'[p] = map[p]
    <3> SUFFICES ASSUME NEW p \in UsedPages(q) PROVE map'[p] = map[p]
      OBVIOUS
    <3>1. p \in Pages
      BY <2>1, UsedPage
    <3>2. CASE p \in UsedPages(o)
      BY <1>4, <2>1, <3>2, PagesApart
    <3> QED BY <3>1, <3>2
  <2> QED BY <2>1, <2>2, ObjectKeeps
<1>6. \A q \in objects' : ObjectOk(map', q) /\ q.page = 0
  BY <1>5, PageInvBefore
<1>7. \A p \in CallPages(pc'[c], work'[c]) : RightFrame(map', work'[c], p)
  BY <1>1, <1>2, <1>3
<1>8. \A p \in Pages : map'[p] # NoFrame =>
           (\E q \in objects' : p \in UsedPages(q)) \/ p \in CallPages(pc'[c], work'[c])
  <2> SUFFICES ASSUME NEW p \in Pages, map'[p] # NoFrame, p \notin UsedPages(o)
               PROVE  \E q \in objects' : p \in UsedPages(q)
    BY <1>3
  <2>1. map[p] # NoFrame
    OBVIOUS
  <2> QED BY <1>3, <2>1, PageInvBefore
<1>9. \A cell \in Cells \ free' :
           (\E q \in objects' : cell \in CellsOf(q)) \/ (pc'[c] \in HasBlock /\ cell \in CellsOf(work'[c]))
  <2>1. pc[c] \notin HasBlock /\ pc'[c] \in HasBlock
    BY <1>1 DEF HasBlock
  <2> QED BY <1>1, <1>2, <2>1, PageInvBefore
<1>10. /\ \A x, y \in objects' : x.kind = "temp" /\ y.kind = "temp" => x = y
       /\ \A x \in objects' : ~(work'[c].kind = "temp" /\ x.kind = "temp")
  BY <1>1, <1>2, PageInvBefore
<1>11. FreeAt(free', pc'[c], work'[c])
  BY <1>1 DEF FreeAt
<1> QED BY <1>1, <1>6, <1>7, <1>8, <1>9, <1>10, <1>11, PageInvAt

\* dealloc gives the block back and keeps the pages for now.
LEMMA PageDeallocTree ==
  ASSUME OneContext, BlockInv, PageInv, NEW c \in Contexts, DeallocTree(c)
  PROVE  PageInv'
<1> DEFINE w == work[c]
           k == OrderOf(w.size)
<1>1. /\ pc[c] = "dealloc_tree" /\ panic' = panic /\ map' = map /\ objects' = objects /\ work' = work
      /\ free' = free \union CellsOf(w)
  BY DEF DeallocTree, At, CellsOf
<1>2. \/ pc'[c] = "dealloc_specific" /\ w.kind = "specific"
      \/ pc'[c] = "dealloc_check" /\ k < PageOrder
      \/ pc'[c] = "dealloc_pages" /\ ~(k < PageOrder)
  BY DEF DeallocTree, Goto, BlockInv, TypeInv
<1>3. Sound(w) /\ w.kind \in Kinds /\ w.page = 0
  BY <1>1, CallFacts, PageInvBefore
<1>4. k \in Int /\ PageOrder \in Int /\ (w.kind = "specific" => k > PageOrder)
  BY <1>3, SoundGeometry, OrdersAssumption
<1>5. CallPages(pc'[c], work'[c]) = UsedPages(w) /\ CallPages(pc[c], w) = UsedPages(w)
  <2>1. PageOf(w.ptr) \in Nat /\ AtPage(w) = PageOf(w.ptr)
    BY <1>3, FirstPage DEF AtPage
  <2>2. \A p \in UsedPages(w) : p \in Int /\ p >= PageOf(w.ptr)
    BY <1>3, <2>1, FirstPage
  <2>3. {p \in UsedPages(w) : p >= AtPage(w)} = UsedPages(w)
    BY <2>1, <2>2
  <2> QED BY <1>1, <1>2, <2>3, CallPagesAt
<1>6. FreeAt(free', pc'[c], work'[c])
  <2>1. k >= PageOrder => \A p \in UsedPages(w) : PageCells(p) \subseteq CellsOf(w)
    BY <1>3, UsedPage
  <2>2. CASE pc'[c] = "dealloc_check"
    BY <1>1, <1>2, <2>2 DEF FreeAt
  <2>3. CASE pc'[c] # "dealloc_check"
    <3>1. k >= PageOrder
      BY <1>2, <1>4, <2>3
    <3> QED BY <1>1, <2>1, <2>3, <3>1 DEF FreeAt
  <2> QED BY <2>2, <2>3
<1> HIDE DEF w
<1>7. \A cell \in Cells \ free' : \E q \in objects' : cell \in CellsOf(q)
  BY <1>1, PageInvBefore DEF w
<1>8. pc'[c] \in {"dealloc_tree", "dealloc_check"} => work'[c].page = 0
  BY <1>1, <1>3 DEF w
<1>9. /\ \A q \in objects' : ObjectOk(map', q) /\ q.page = 0
      /\ panic' = "no" => \A p \in CallPages(pc'[c], work'[c]) : RightFrame(map', work'[c], p)
      /\ work'[c].frame = NoFrame
  BY <1>1, <1>5, PageInvBefore DEF w
<1>10. \A p \in Pages : map'[p] # NoFrame =>
         (\E q \in objects' : p \in UsedPages(q)) \/ p \in CallPages(pc'[c], work'[c])
  BY <1>1, <1>5, PageInvBefore DEF w
<1>11. /\ \A x, y \in objects' : x.kind = "temp" /\ y.kind = "temp" => x = y
       /\ \A x \in objects' : ~(work'[c].kind = "temp" /\ x.kind = "temp")
  BY <1>1, PageInvBefore DEF w
<1> QED BY <1>6, <1>7, <1>8, <1>9, <1>10, <1>11, PageInvAt

\* What is left to show of a call that returns.
LEMMA PageReturn ==
  ASSUME OneContext, BlockInv, PageInv, NEW c \in Contexts, Return(c), pc[c] \notin HasBlock,
         UNCHANGED <<free, map, objects, panic>>,
         \A p \in CallPages(pc[c], work[c]) : \E o \in objects : p \in UsedPages(o)
  PROVE  PageInv'
<1>1. free' = free /\ map' = map /\ objects' = objects /\ panic' = panic
  OBVIOUS
<1>2. pc'[c] = "idle" /\ work'[c] = NoWork
  BY DEF Return, Goto, BlockInv, TypeInv
<1>3. work'[c].frame = NoFrame /\ work'[c].kind = "object" /\ work'[c].page = 0
  BY <1>2 DEF NoWork
<1>4. CallPages(pc'[c], work'[c]) = {} /\ FreeAt(free', pc'[c], work'[c])
  BY <1>2, CallPagesAt DEF FreeAt
<1> QED BY <1>1, <1>3, <1>4, PageInvBefore, PageInvAt

\* The page of a small block stays when something is left on it, which then owns it.
LEMMA PageDeallocCheck ==
  ASSUME OneContext, BlockInv, PageInv, NEW c \in Contexts, DeallocCheck(c)
  PROVE  PageInv'
<1> DEFINE w == work[c]
<1>1. /\ pc[c] = "dealloc_check" /\ panic' = panic /\ map' = map /\ objects' = objects /\ free' = free
  BY DEF DeallocCheck, At
<1>2. Sound(w) /\ w.kind \in Kinds /\ w.page = 0 /\ CellsOf(w) \subseteq free /\ OrderOf(w.size) < PageOrder
  BY <1>1, CallFacts, PageInvBefore DEF FreeAt
<1>3. CallPages(pc[c], w) = UsedPages(w)
  BY <1>1, CallPagesAt
<1>4. \A p \in UsedPages(w) : p \in Pages /\ p = PageOf(w.ptr) /\ CellsOf(w) \subseteq PageCells(p)
  BY <1>2, UsedPage
<1>5. CASE PageCells(PageOf(w.ptr)) \subseteq free /\ Goto(c, "dealloc_pages") /\ UNCHANGED work
  <2>1. pc'[c] = "dealloc_pages" /\ work' = work
    BY <1>5 DEF Goto, BlockInv, TypeInv
  <2>2. FreeAt(free', pc'[c], work'[c])
    BY <1>1, <1>4, <1>5, <2>1 DEF FreeAt
  <2>3. CallPages(pc'[c], work'[c]) = CallPages(pc[c], w)
    <3>1. PageOf(w.ptr) \in Nat
      BY <1>2, FirstPage
    <3>2. AtPage(w) = PageOf(w.ptr)
      BY <1>2, <3>1 DEF AtPage
    <3>3. {p \in UsedPages(w) : p >= AtPage(w)} = UsedPages(w)
      BY <1>4, <3>1, <3>2
    <3> QED BY <1>3, <2>1, <3>3, CallPagesAt
  <2>4. pc[c] \notin HasBlock
    BY <1>1 DEF HasBlock
  <2>5. pc'[c] \notin {"dealloc_tree", "dealloc_check"}
    BY <2>1
  <2> QED BY <1>1, <2>1, <2>2, <2>3, <2>4, <2>5, PageInvBefore, PageInvAt
<1>6. CASE ~(PageCells(PageOf(w.ptr)) \subseteq free) /\ Return(c)
  <2>1. pc[c] \notin HasBlock
    BY <1>1 DEF HasBlock
  <2>2. ASSUME NEW p \in CallPages(pc[c], w) PROVE \E o \in objects : p \in UsedPages(o)
    <3>1. p \in Pages /\ p = PageOf(w.ptr) /\ CellsOf(w) \subseteq PageCells(p)
      BY <1>3, <1>4, <2>2
    <3>2. PICK cell \in PageCells(p) : cell \notin free
      BY <1>6, <3>1
    <3>3. cell \in Cells
      BY <3>1, <3>2, PagesOfCells
    <3>4. PICK o \in objects : cell \in CellsOf(o)
      BY <2>1, <3>2, <3>3, PageInvBefore
    <3>5. Sound(o) /\ o.kind \in Kinds /\ CellsOf(o) \intersect free = {}
      BY CallFacts
    <3>6. CellsOf(w) # {}
      BY <1>2, SoundGeometry
    <3>7. ~(PageCells(p) \subseteq CellsOf(o))
      BY <1>2, <3>1, <3>5, <3>6
    <3> DEFINE k == OrderOf(o.size)
    <3>8. k \in 0..MaxOrder /\ IsBlock(o.ptr, k) /\ PageOrder \in Int
      BY <3>5, OrdersAssumption DEF Sound
    <3>9. PageCells(p) \intersect BlockCells(o.ptr, k) # {} /\ ~(PageCells(p) \subseteq BlockCells(o.ptr, k))
      BY <3>2, <3>4, <3>7 DEF CellsOf
    <3>10. ~(k >= PageOrder)
      BY <3>1, <3>8, <3>9, Geometry
    <3>11. k < PageOrder
      BY <3>8, <3>10
    <3>12. /\ FirstPages(o.ptr, k) = {PageOf(o.ptr)} /\ CellsOf(o) \subseteq PageCells(PageOf(o.ptr))
           /\ PageOf(o.ptr) \in Pages
      BY <3>8, <3>11, Geometry DEF CellsOf
    <3>13. PageOf(o.ptr) = p
      <4>1. cell \in Nat /\ p \in Nat /\ PageOf(o.ptr) \in Nat
        BY <3>1, <3>3, <3>12 DEF Cells, Pages
      <4> QED BY <3>2, <3>4, <3>12, <4>1, CellInPage
    <3>14. o.kind = "object"
      <4>1. o.kind \in {"temp", "specific"} => k > PageOrder
        BY <3>5, SoundGeometry
      <4> QED BY <3>5, <3>8, <3>11, <4>1 DEF Kinds
    <3> QED BY <3>12, <3>13, <3>14 DEF UsedPages
  <2> QED BY <1>1, <1>6, <2>1, <2>2, PageReturn
<1> QED BY <1>5, <1>6 DEF DeallocCheck

\* How many pages the loop of a dealloc goes over.
LoopCount(w) == IF w.kind = "specific" THEN PageCountSpecific(OrderOf(w.size)) ELSE PageCount(OrderOf(w.size))

\* A dealloc has the pages left from the one it is at.
LEMMA DeallocLoop ==
  ASSUME BlockInv, NEW c \in Contexts, pc[c] \in {"dealloc_pages", "dealloc_specific"}
  PROVE  /\ CallPages(pc[c], work[c]) = {p \in UsedPages(work[c]) : p >= AtPage(work[c])}
         /\ work[c].page < LoopCount(work[c]) => AtPage(work[c]) \in CallPages(pc[c], work[c])
         /\ work[c].page >= LoopCount(work[c]) => CallPages(pc[c], work[c]) = {}
<1> DEFINE w == work[c]
           q == PageOf(w.ptr)
           n == LoopCount(w)
<1>1. Sound(w) /\ w.page \in Nat
  BY CallFacts
<1>2. q \in Nat /\ n \in Nat /\ UsedPages(w) = q..(q + n - 1) /\ AtPage(w) = q + w.page
  BY <1>1, FirstPage DEF AtPage, LoopCount
<1>3. CallPages(pc[c], w) = {p \in UsedPages(w) : p >= AtPage(w)}
  BY CallPagesAt
<1> HIDE DEF q, n
<1>4. w.page < n => AtPage(w) \in UsedPages(w) /\ AtPage(w) >= AtPage(w)
  BY <1>1, <1>2
<1>5. w.page >= n => \A p \in UsedPages(w) : ~(p >= AtPage(w))
  BY <1>1, <1>2
<1> QED BY <1>3, <1>4, <1>5 DEF n

\* What unmapping the page that dealloc is at leaves as it was.
LEMMA PageUnmap ==
  ASSUME OneContext, BlockInv, PageInv, NEW c \in Contexts, pc[c] \in {"dealloc_pages", "dealloc_specific"},
         work[c].page < LoopCount(work[c]), panic = "no",
         map' = [map EXCEPT ![LoopPage(c)] = NoFrame], NextPage(c), UNCHANGED <<free, objects, pc>>
  PROVE  PageInv'
<1> DEFINE w == work[c]
           a == AtPage(w)
<1>0. pc' = pc /\ free' = free /\ objects' = objects /\ a = LoopPage(c) /\ map \in [Pages -> AnyFrame]
  BY DEF AtPage, LoopPage, BlockInv, TypeInv
<1>1. CallPages(pc[c], w) = {p \in UsedPages(w) : p >= a} /\ a \in CallPages(pc[c], w)
  BY DeallocLoop
<1>2. Sound(w) /\ w.kind \in Kinds
  BY CallFacts
<1>3. \A p \in UsedPages(w) : p \in Pages /\ PageCells(p) \subseteq free
  BY <1>2, UsedPage, PageInvBefore DEF FreeAt
<1>4. a \in UsedPages(w) /\ a \in Pages /\ PageCells(a) \subseteq free
  BY <1>1, <1>3
<1>5. map'[a] = NoFrame /\ \A p \in Pages : p # a => map'[p] = map[p]
  BY <1>0, <1>4
<1>6. \A o \in objects : ObjectOk(map', o)
  <2> SUFFICES ASSUME NEW o \in objects PROVE ObjectOk(map', o)
    OBVIOUS
  <2>1. Sound(o) /\ o.kind \in Kinds /\ ObjectOk(map, o) /\ CellsOf(o) \intersect free = {}
    BY CallFacts, PageInvBefore
  <2>2. \A p \in UsedPages(o) : p \in Pages /\ PageCells(p) \intersect CellsOf(o) # {}
    BY <2>1, UsedPage
  <2>3. a \notin UsedPages(o)
    BY <1>4, <2>1, <2>2
  <2>4. \A p \in UsedPages(o) : map'[p] = map[p]
    BY <1>5, <2>2, <2>3
  <2> QED BY <2>1, <2>4, ObjectKeeps
<1>7. CallPages(pc'[c], work'[c]) = CallPages(pc[c], w) \ {a}
  <2>1. UsedPages(work'[c]) = UsedPages(w) /\ AtPage(work'[c]) = a + 1 /\ a \in Nat
    BY NextPageFacts, SamePages
  <2>2. CallPages(pc'[c], work'[c]) = {p \in UsedPages(w) : p >= a + 1}
    BY <1>0, <2>1, CallPagesAt
  <2> HIDE DEF a
  <2>3. \A p \in UsedPages(w) : p >= a + 1 <=> p >= a /\ p # a
    BY <1>3, <2>1 DEF Pages
  <2> QED BY <1>1, <2>2, <2>3
<1> HIDE DEF a
<1>8. \A p \in CallPages(pc'[c], work'[c]) : RightFrame(map', w, p)
  <2> SUFFICES ASSUME NEW p \in CallPages(pc'[c], work'[c]) PROVE RightFrame(map', w, p)
    OBVIOUS
  <2>1. p \in CallPages(pc[c], w) /\ p # a /\ p \in Pages
    BY <1>1, <1>3, <1>7
  <2>2. RightFrame(map, w, p) /\ map'[p] = map[p]
    BY <1>5, <2>1, PageInvBefore
  <2> QED BY <2>2 DEF RightFrame
<1>9. \A p \in Pages : map'[p] # NoFrame =>
           (\E o \in objects : p \in UsedPages(o)) \/ p \in CallPages(pc'[c], work'[c])
  BY <1>5, <1>7, PageInvBefore
<1> QED BY <1>0, <1>6, <1>8, <1>9, PageNextPage

\* What dealloc finds at the page it is at.
LEMMA DeallocFinds ==
  ASSUME OneContext, BlockInv, PageInv, NEW c \in Contexts, panic = "no",
         pc[c] \in {"dealloc_pages", "dealloc_specific"}, work[c].page < LoopCount(work[c])
  PROVE  /\ LoopPage(c) \in Pages /\ map[LoopPage(c)] # NoFrame
         /\ work[c].kind # "specific" => map[LoopPage(c)] \in Frames
         /\ work[c].kind = "specific" => map[LoopPage(c)] \notin Frames
<1> DEFINE w == work[c]
           a == AtPage(w)
<1>0. a = LoopPage(c)
  BY DEF AtPage, LoopPage
<1>1. CallPages(pc[c], w) = {p \in UsedPages(w) : p >= a} /\ a \in CallPages(pc[c], w)
  BY DeallocLoop
<1>2. Sound(w) /\ w.kind \in Kinds
  BY CallFacts
<1>3. a \in UsedPages(w) /\ RightFrame(map, w, a)
  BY <1>1, PageInvBefore
<1> HIDE DEF a
<1> QED BY <1>0, <1>2, <1>3, UsedPage, RightFrameIs

\* dealloc and dealloc_specific never find a page unmapped, and unmap only pages that nobody has.
LEMMA PageDeallocUnmap ==
  ASSUME OneContext, BlockInv, PageInv, NEW c \in Contexts, DeallocUnmapPage(c) \/ DeallocSpecificPage(c)
  PROVE  /\ PageInv'
         /\ panic' = panic /\ panic = "no" /\ LoopPage(c) \in Pages /\ objects' = objects
         /\ map' = [map EXCEPT ![LoopPage(c)] = NoFrame]
         /\ pc[c] = "dealloc_pages" => map[LoopPage(c)] \in Frames /\ UnmapFree(LoopPage(c))
         /\ pc[c] # "dealloc_pages" => /\ map[LoopPage(c)] \notin Frames /\ map[LoopPage(c)] # NoFrame
                                       /\ UNCHANGED <<tables, freeFrames, tlb, clean>>
<1>1. /\ pc[c] \in {"dealloc_pages", "dealloc_specific"} /\ panic = "no" /\ work[c].page < LoopCount(work[c])
      /\ DeallocUnmapPage(c) => pc[c] = "dealloc_pages" /\ work[c].kind # "specific"
      /\ DeallocSpecificPage(c) => pc[c] = "dealloc_specific" /\ work[c].kind = "specific"
  <2>1. KindInv
    BY DEF BlockInv
  <2>2. CASE DeallocUnmapPage(c)
    <3>1. pc[c] = "dealloc_pages" /\ panic = "no" /\ work[c].page < PageCount(OrderOf(work[c].size))
      BY <2>2 DEF DeallocUnmapPage, At, Running
    <3>2. ~DeallocSpecificPage(c)
      BY <3>1 DEF DeallocSpecificPage, At
    <3> QED BY <2>1, <3>1, <3>2 DEF KindInv, LoopCount
  <2>3. CASE DeallocSpecificPage(c)
    <3>1. pc[c] = "dealloc_specific" /\ panic = "no" /\ work[c].page < PageCountSpecific(OrderOf(work[c].size))
      BY <2>3 DEF DeallocSpecificPage, At, Running
    <3>2. ~DeallocUnmapPage(c)
      BY <3>1 DEF DeallocUnmapPage, At
    <3> QED BY <2>1, <3>1, <3>2 DEF KindInv, LoopCount
  <2> QED BY <2>2, <2>3
<1>2. /\ LoopPage(c) \in Pages /\ map[LoopPage(c)] # NoFrame
      /\ work[c].kind # "specific" => map[LoopPage(c)] \in Frames
      /\ work[c].kind = "specific" => map[LoopPage(c)] \notin Frames
  BY <1>1, DeallocFinds
<1>3. /\ map' = [map EXCEPT ![LoopPage(c)] = NoFrame] /\ NextPage(c) /\ UNCHANGED <<free, objects, pc, panic>>
      /\ pc[c] = "dealloc_pages" => UnmapFree(LoopPage(c))
      /\ pc[c] # "dealloc_pages" => UNCHANGED <<tables, freeFrames, tlb, clean>>
  BY <1>1, <1>2 DEF DeallocUnmapPage, DeallocSpecificPage, Mapped, UnmapFree
<1>4. PageInv'
  BY <1>1, <1>3, PageUnmap
<1> QED BY <1>1, <1>2, <1>3, <1>4

\* dealloc and dealloc_specific return with no page left.
LEMMA PageDeallocReturn ==
  ASSUME OneContext, BlockInv, PageInv, NEW c \in Contexts, DeallocReturn(c) \/ DeallocSpecificReturn(c)
  PROVE  PageInv'
<1>1. KindInv
  BY DEF BlockInv
<1>2. /\ pc[c] \in {"dealloc_pages", "dealloc_specific"} /\ work[c].page >= LoopCount(work[c])
      /\ Return(c) /\ UNCHANGED <<free, map, objects, panic>>
  BY <1>1 DEF DeallocReturn, DeallocSpecificReturn, At, KindInv, LoopCount
<1>3. CallPages(pc[c], work[c]) = {} /\ pc[c] \notin HasBlock
  BY <1>2, DeallocLoop DEF HasBlock
<1> QED BY <1>2, <1>3, PageReturn

\* What TemporaryPage::new does: it finds the page mapped.
LEMMA TempNewFacts ==
  ASSUME OneContext, BlockInv, PageInv, NEW c \in Contexts, TempNew(c)
  PROVE  /\ PageOf(work[c].ptr) \in Pages /\ map[PageOf(work[c].ptr)] \in Frames
         /\ panic = "no" /\ panic' = "no" /\ free' = free /\ tables' = tables /\ freeFrames' = freeFrames
         /\ pc[c] = "temp_new" /\ work[c].kind = "temp" /\ Sound(work[c]) /\ work[c] \in CallType
         /\ objects' = objects \union {[work[c] EXCEPT !.page = 0, !.frame = map[PageOf(work[c].ptr)]]}
         /\ map' = [map EXCEPT ![PageOf(work[c].ptr)] = NoFrame]
         /\ tlb' = [tlb EXCEPT ![PageOf(work[c].ptr)] = NoFrame]
         /\ Return(c) /\ UNCHANGED clean
<1> DEFINE w == work[c]
<1>1. pc[c] = "temp_new" /\ panic = "no"
  BY DEF TempNew, At, Running
<1>2. Sound(w) /\ w.kind = "temp" /\ w \in CallType
  BY <1>1, CallFacts DEF BlockInv, KindInv
<1>3. UsedPages(w) = {PageOf(w.ptr)} /\ PageOf(w.ptr) \in Pages
  BY <1>2, TempPages
<1>4. map[PageOf(w.ptr)] \in Frames
  <2>1. CallPages(pc[c], w) = UsedPages(w)
    BY <1>1, CallPagesAt
  <2>2. RightFrame(map, w, PageOf(w.ptr))
    BY <1>1, <1>3, <2>1, PageInvBefore
  <2> QED BY <1>2, <2>2 DEF RightFrame
<1>5. Mapped(PageOf(w.ptr))
  BY <1>4, FramesAssumption DEF Mapped
<1> QED BY <1>1, <1>2, <1>3, <1>4, <1>5 DEF TempNew

\* TemporaryPage::new takes the mapping of its page away.
LEMMA PageTempNew ==
  ASSUME OneContext, BlockInv, PageInv, NEW c \in Contexts, TempNew(c)
  PROVE  PageInv'
<1> DEFINE w == work[c]
           a == PageOf(w.ptr)
           o == [w EXCEPT !.page = 0, !.frame = map[a]]
<1>1. /\ a \in Pages /\ map[a] \in Frames /\ free' = free /\ pc[c] = "temp_new" /\ w.kind = "temp"
      /\ Sound(w) /\ w \in CallType
      /\ objects' = objects \union {o} /\ map' = [map EXCEPT ![a] = NoFrame] /\ Return(c)
  BY TempNewFacts
<1>2. pc'[c] = "idle" /\ work'[c] = NoWork /\ map \in [Pages -> AnyFrame]
  BY <1>1 DEF Return, Goto, BlockInv, TypeInv
<1>3. Same(o, w) /\ o.page = 0 /\ o.frame = map[a]
  BY <1>1 DEF Same, CallType
<1>4. UsedPages(w) = {a} /\ w.kind \in Kinds
  BY <1>1, TempPages DEF Kinds
<1> HIDE DEF o
<1>5. UsedPages(o) = {a} /\ CellsOf(o) = CellsOf(w) /\ o.kind = "temp" /\ PageOf(o.ptr) = a
  BY <1>1, <1>3, <1>4, SamePages
<1> HIDE DEF a
<1>6. map'[a] = NoFrame /\ \A p \in Pages : p # a => map'[p] = map[p]
  BY <1>1, <1>2
<1>7. ObjectOk(map', o)
  BY <1>1, <1>3, <1>5, <1>6 DEF ObjectOk
<1>8. ASSUME NEW q \in objects PROVE ObjectOk(map', q)
  <2>1. Sound(q) /\ q.kind \in Kinds /\ ObjectOk(map, q) /\ CellsOf(w) \intersect CellsOf(q) = {}
    BY <1>1, CallFacts, PageInvBefore DEF HasBlock
  <2>2. a \notin UsedPages(q)
    BY <1>1, <1>4, <2>1, PagesApart
  <2>3. \A p \in UsedPages(q) : map'[p] = map[p]
    BY <1>6, <2>1, <2>2, UsedPage
  <2> QED BY <2>1, <2>3, ObjectKeeps
<1>9. \A q \in objects' : ObjectOk(map', q) /\ q.page = 0
  BY <1>1, <1>3, <1>7, <1>8, PageInvBefore
<1>10. CallPages(pc'[c], work'[c]) = {} /\ FreeAt(free', pc'[c], work'[c]) /\ CallPages(pc[c], w) = {a}
  BY <1>1, <1>2, <1>4, CallPagesAt DEF FreeAt
<1>11. \A p \in Pages : map'[p] # NoFrame => \E q \in objects' : p \in UsedPages(q)
  BY <1>1, <1>6, <1>10, PageInvBefore
<1>12. \A cell \in Cells \ free' : \E q \in objects' : cell \in CellsOf(q)
  BY <1>1, <1>5, PageInvBefore
<1>13. work'[c].frame = NoFrame /\ work'[c].kind = "object"
  BY <1>2 DEF NoWork
<1>14. \A x, y \in objects' : x.kind = "temp" /\ y.kind = "temp" => x = y
  <2>1. \A x \in objects : x.kind # "temp"
    BY <1>1, PageInvBefore
  <2> QED BY <1>1, <2>1
<1> QED BY <1>2, <1>9, <1>10, <1>11, <1>12, <1>13, <1>14, PageInvAt

\* The page of a TemporaryPage is nobody else's.
LEMMA TempApart ==
  ASSUME OneContext, BlockInv, PageInv, NEW c \in Contexts, NEW o \in objects, o.kind = "temp"
  PROVE  /\ Sound(o) /\ o \in CallType /\ UsedPages(o) = {PageOf(o.ptr)} /\ PageOf(o.ptr) \in Pages
         /\ o.frame \in Frames /\ map[PageOf(o.ptr)] \in {NoFrame, P4Frame} /\ o.page = 0
         /\ \A q \in objects : q # o => PageOf(o.ptr) \notin UsedPages(q)
<1>1. Sound(o) /\ o \in CallType /\ ObjectOk(map, o) /\ o.page = 0 /\ o.kind \in Kinds
  BY CallFacts, PageInvBefore
<1>2. UsedPages(o) = {PageOf(o.ptr)} /\ PageOf(o.ptr) \in Pages
  BY <1>1, TempPages
<1>3. ASSUME NEW q \in objects, q # o, PageOf(o.ptr) \in UsedPages(q) PROVE FALSE
  <2>1. Sound(q) /\ q.kind \in Kinds /\ CellsOf(o) \intersect CellsOf(q) = {}
    BY <1>3, CallFacts
  <2>2. o.kind = "object"
    BY <1>1, <1>2, <1>3, <2>1, PagesApart
  <2> QED BY <2>2
<1> QED BY <1>1, <1>2, <1>3 DEF ObjectOk

\* TemporaryPage::map and unmap touch their page only.
LEMMA PageTempMap ==
  ASSUME OneContext, BlockInv, PageInv, NEW c \in Contexts, NEW o \in objects,
         TempMap(c, o) \/ TempUnmap(c, o)
  PROVE  PageInv'
<1> DEFINE a == PageOf(o.ptr)
<1>1. /\ o.kind = "temp" /\ pc[c] = "idle" /\ UNCHANGED <<pc, work, free, objects>>
      /\ map' = [map EXCEPT ![a] = P4Frame] \/ map' = [map EXCEPT ![a] = NoFrame]
  BY DEF TempMap, TempUnmap, At
<1>2. /\ UsedPages(o) = {a} /\ a \in Pages /\ o.frame \in Frames
      /\ \A q \in objects : q # o => a \notin UsedPages(q)
  BY <1>1, TempApart
<1>3. map \in [Pages -> AnyFrame]
  BY DEF BlockInv, TypeInv
<1>4. map'[a] \in {NoFrame, P4Frame} /\ \A p \in Pages : p # a => map'[p] = map[p]
  BY <1>1, <1>2, <1>3
<1>5. ASSUME NEW q \in objects PROVE ObjectOk(map', q)
  <2>1. CASE q = o
    BY <1>1, <1>2, <1>4, <2>1 DEF ObjectOk
  <2>2. CASE q # o
    <3>1. Sound(q) /\ q.kind \in Kinds /\ ObjectOk(map, q)
      BY CallFacts, PageInvBefore
    <3>2. \A p \in UsedPages(q) : map'[p] = map[p]
      BY <1>2, <1>4, <2>2, <3>1, UsedPage
    <3> QED BY <3>1, <3>2, ObjectKeeps
  <2> QED BY <2>1, <2>2
<1>6. CallPages(pc[c], work[c]) = {}
  BY <1>1, CallPagesAt
<1> HIDE DEF a
<1>7. \A p \in Pages : map'[p] # NoFrame => \E q \in objects : p \in UsedPages(q)
  BY <1>2, <1>4, <1>6, PageInvBefore
<1> QED BY <1>1, <1>5, <1>6, <1>7, PageSteady

\* The three ways into dealloc.
LEMMA PageCalls ==
  ASSUME OneContext, BlockInv, PageInv, NEW c \in Contexts, NEW o \in objects,
         DeallocCall(c, o) \/ DeallocSpecificCall(c, o) \/ TempDrop(c, o)
  PROVE  PageInv'
<1>1. CASE TempDrop(c, o)
  <2> DEFINE a == PageOf(o.ptr)
             w == [o EXCEPT !.frame = NoFrame]
  <2>1. /\ pc[c] = "idle" /\ o.kind = "temp" /\ map' = [map EXCEPT ![a] = o.frame]
        /\ work' = [work EXCEPT ![c] = w] /\ Goto(c, "dealloc_tree") /\ objects' = objects \ {o} /\ free' = free
    BY <1>1 DEF TempDrop, At
  <2>2. o \in CallType /\ UsedPages(o) = {a} /\ a \in Pages /\ o.frame \in Frames /\ o.page = 0
    BY <2>1, TempApart
  <2>3. map \in [Pages -> AnyFrame]
    BY DEF BlockInv, TypeInv
  <2>4. map'[a] \in Frames /\ \A p \in Pages : p # a => map'[p] = map[p]
    BY <2>1, <2>2, <2>3
  <2>5. Same(w, o) /\ w.page = 0 /\ w.frame = NoFrame
    BY <2>2 DEF Same, CallType
  <2> HIDE DEF w
  <2>6. \A p \in UsedPages(o) : RightFrame(map', o, p) /\ (o.kind # "temp" => map'[p] = map[p])
    BY <2>1, <2>2, <2>4 DEF RightFrame
  <2>7. \A p \in Pages : p \notin UsedPages(o) => map'[p] = map[p]
    BY <2>2, <2>4
  <2> QED BY <2>1, <2>5, <2>6, <2>7, PageCall
<1>2. CASE DeallocCall(c, o) \/ DeallocSpecificCall(c, o)
  <2>1. /\ pc[c] = "idle" /\ o.kind # "temp" /\ map' = map
        /\ work' = [work EXCEPT ![c] = o] /\ Goto(c, "dealloc_tree") /\ objects' = objects \ {o} /\ free' = free
    BY <1>2 DEF DeallocCall, DeallocSpecificCall, At
  <2>2. ObjectOk(map, o) /\ o.page = 0
    BY PageInvBefore
  <2>3. o.frame = NoFrame /\ \A p \in UsedPages(o) : RightFrame(map', o, p)
    BY <2>1, <2>2 DEF ObjectOk
  <2>4. Same(o, o)
    BY DEF Same
  <2> QED BY <2>1, <2>2, <2>3, <2>4, PageCall
<1> QED BY <1>1, <1>2

\* Steps that touch neither blocks nor mappings keep the pages in order.
LEMMA PageKept ==
  ASSUME PageInv, UNCHANGED <<free, map, objects, pc, work>>, panic' = "no" => panic = "no"
  PROVE  PageInv'
<1>1. free' = free /\ map' = map /\ objects' = objects /\ pc' = pc /\ work' = work
  OBVIOUS
<1>2. ObjectInv' /\ CallInv' /\ CountInv'
  BY <1>1 DEF PageInv, ObjectInv, CallInv, Running, CountInv
<1>3. FreeInv' /\ OwnerInv' /\ CellInv' /\ TempInv'
  BY <1>1 DEF PageInv, FreeInv, OwnerInv, CellInv, TempInv, Mapped, Out
<1> QED BY <1>2, <1>3 DEF PageInv

\* After init nothing is mapped.
LEMMA PageInit == Init => PageInv
<1> SUFFICES ASSUME Init PROVE PageInv
  OBVIOUS
<1>1. /\ objects = {} /\ free = Cells /\ pc = [c \in Contexts |-> "idle"] /\ work = [c \in Contexts |-> NoWork]
      /\ map = [p \in Pages |-> NoFrame]
  BY DEF Init
<1>2. \A c \in Contexts : pc[c] = "idle" /\ work[c] = NoWork /\ CallPages(pc[c], work[c]) = {}
  BY <1>1, CallPagesAt
<1>3. NoWork.frame = NoFrame
  BY DEF NoWork
<1>4. ObjectInv /\ CallInv /\ CountInv
  BY <1>1, <1>2, <1>3 DEF ObjectInv, CallInv, CountInv
<1>5. FreeInv /\ OwnerInv /\ CellInv /\ TempInv
  BY <1>1, <1>2 DEF FreeInv, FreeAt, OwnerInv, CellInv, TempInv, Mapped
<1> QED BY <1>4, <1>5 DEF PageInv

\* The pages stay in order.
LEMMA PageStep ==
  ASSUME OneContext, BlockInv, PageInv, FrameInv, [Next]_vars
  PROVE  PageInv'
<1>u. CASE UNCHANGED vars
  BY <1>u, PageKept DEF vars
<1>1. ASSUME NEW c \in Contexts, NEW n \in Sizes, AllocTree(c, n, "object") PROVE PageInv'
  <2>1. n \in AllSizes
    BY DEF AllSizes
  <2> QED BY <1>1, <2>1, PageAllocTree
<1>2. ASSUME NEW c \in Contexts, AllocTree(c, PageBytes, "temp") /\ NoTemporaryPage PROVE PageInv'
  <2>1. PageBytes \in AllSizes
    BY DEF AllSizes
  <2> QED BY <1>2, <2>1, PageAllocTree
<1>3. ASSUME NEW c \in Contexts,
              \/ TempNewNull(c, PageBytes)
              \/ \E r \in DeviceRegions : AllocSpecificOutOfMemory(c, r)
      PROVE  PageInv'
  <2>1. UNCHANGED <<free, map, objects, pc, work>> /\ panic' # "no"
    BY <1>3 DEF TempNewNull, AllocSpecificOutOfMemory
  <2> QED BY <2>1, PageKept
<1>4. ASSUME NEW p \in Pages, TlbFill(p) \/ TlbEvict(p) PROVE PageInv'
  <2>1. UNCHANGED <<free, map, objects, pc, work>> /\ panic' = panic
    BY <1>4 DEF TlbFill, TlbEvict
  <2> QED BY <2>1, PageKept
<1>5. ASSUME NEW c \in Contexts, NEW r \in DeviceRegions, AllocSpecific(c, r) PROVE PageInv'
  BY <1>5, PageAllocSpecific
<1>6. ASSUME NEW c \in Contexts, NEW o \in objects,
             \/ DeallocCall(c, o) \/ DeallocSpecificCall(c, o) \/ TempDrop(c, o)
             \/ TempMap(c, o) \/ TempUnmap(c, o)
      PROVE  PageInv'
  BY <1>6, PageCalls, PageTempMap
<1>7. ASSUME NEW c \in Contexts,
             \/ AllocSkipPage(c) \/ AllocMapPage(c) \/ AllocOutOfMemory(c) \/ AllocReturn(c)
             \/ DeallocTree(c) \/ DeallocCheck(c) \/ DeallocUnmapPage(c) \/ DeallocSpecificPage(c)
             \/ DeallocReturn(c) \/ DeallocSpecificReturn(c) \/ TempNew(c)
      PROVE  PageInv'
  BY <1>7, PageAllocSkip, PageAllocMap, PageAllocOutOfMemory, PageAllocReturn, PageDeallocTree,
     PageDeallocCheck, PageDeallocUnmap, PageDeallocReturn, PageTempNew
<1> QED BY <1>u, <1>1, <1>2, <1>3, <1>4, <1>5, <1>6, <1>7, StepCases

(***************************************************************************)
(* Frames change hands in eight ways.                                      *)
(***************************************************************************)

FramesKept ==
  /\ UNCHANGED <<map, freeFrames, tables, Temps>>
  /\ \A p \in Pages : tlb'[p] \in {tlb[p], NoFrame, map[p]}

\* map takes a frame for a page, and one for its table.
FrameTaken(a) == a \in Pages /\ map[a] = NoFrame /\ MapZeroed(a) /\ UNCHANGED Temps

\* alloc runs out of frames and gives those of its pages back.
FramesLost ==
  \E done \in SUBSET Pages :
    /\ \A p \in done : map[p] \in Frames
    /\ map' = [p \in Pages |-> IF p \in done THEN NoFrame ELSE map[p]]
    /\ freeFrames' = {map[p] : p \in done}
    /\ tlb' = [p \in Pages |-> IF p \in done THEN NoFrame ELSE tlb[p]]
    /\ panic' # "no" /\ UNCHANGED Temps

\* alloc_specific maps device memory, and takes frames for tables.
DeviceMapped ==
  \E ps \in SUBSET Pages, m \in [Pages -> Int] : \E ts \in SUBSET freeFrames :
    /\ \A p \in ps : map[p] = NoFrame /\ m[p] \in DeviceFrames
    /\ map' = [p \in Pages |-> IF p \in ps THEN m[p] ELSE map[p]]
    /\ tlb' = [p \in Pages |-> IF p \in ps THEN NoFrame ELSE tlb[p]]
    /\ tables' = tables \union MissingTables(ps)
    /\ Cardinality(ts) = Cardinality(MissingTables(ps)) /\ freeFrames' = freeFrames \ ts
    /\ UNCHANGED Temps

\* dealloc gives a frame back.
FrameFreed(a) == a \in Pages /\ map[a] \in Frames /\ UnmapFree(a) /\ UNCHANGED Temps

\* A page that has no frame of the allocator gets another mapping that is none.
Remapped(a) ==
  /\ a \in Pages /\ map[a] \notin Frames
  /\ \E x \in {NoFrame, P4Frame} : map' = [map EXCEPT ![a] = x]
  /\ \/ tlb' = tlb
     \/ tlb' = [tlb EXCEPT ![a] = NoFrame]
  /\ UNCHANGED <<freeFrames, tables, Temps>>

\* TemporaryPage::new puts a frame aside, and its drop puts it back.
SetAside(a) ==
  /\ a \in Pages /\ map[a] \in Frames
  /\ map' = [map EXCEPT ![a] = NoFrame] /\ tlb' = [tlb EXCEPT ![a] = NoFrame]
  /\ Temps = {} /\ \E o : o.frame = map[a] /\ Temps' = {o}
  /\ UNCHANGED <<freeFrames, tables>>

PutBack(a) ==
  /\ a \in Pages /\ map[a] \notin Frames
  /\ \E o \in objects : /\ o.kind = "temp" /\ o.frame \in Frames /\ Temps = {o} /\ Temps' = {}
                        /\ map' = [map EXCEPT ![a] = o.frame]
  /\ tlb' = [tlb EXCEPT ![a] = NoFrame]
  /\ UNCHANGED <<freeFrames, tables>>

FrameChanges ==
  \/ FramesKept \/ FramesLost \/ DeviceMapped
  \/ \E a \in Pages : FrameTaken(a) \/ FrameFreed(a) \/ Remapped(a) \/ SetAside(a) \/ PutBack(a)

\* Every step is one of these.
LEMMA FrameEffects ==
  ASSUME OneContext, BlockInv, PageInv, Next
  PROVE  panic = "no" /\ FrameChanges
<1> DEFINE Goal == panic = "no" /\ FrameChanges
<1> SUFFICES Goal
  OBVIOUS
<1> HIDE DEF Goal
<1>t. map \in [Pages -> AnyFrame] /\ tlb \in [Pages -> AnyFrame]
  BY DEF BlockInv, TypeInv
<1>1. ASSUME panic = "no", UNCHANGED <<map, freeFrames, tables, tlb, Temps>> PROVE Goal
  BY <1>1 DEF Goal, FrameChanges, FramesKept
<1>2. ASSUME NEW c \in Contexts,
             \/ \E size \in Sizes : AllocTree(c, size, "object")
             \/ AllocTree(c, PageBytes, "temp")
             \/ AllocSkipPage(c) \/ DeallocTree(c) \/ DeallocCheck(c) \/ DeallocReturn(c)
             \/ DeallocSpecificReturn(c) \/ TempNewNull(c, PageBytes)
             \/ \E r \in DeviceRegions : AllocSpecificOutOfMemory(c, r)
      PROVE  Goal
  <2>1. panic = "no" /\ UNCHANGED <<map, freeFrames, tables, tlb, objects>>
    BY <1>2 DEF AllocTree, AllocSkipPage, DeallocTree, DeallocCheck, DeallocReturn, DeallocSpecificReturn,
                TempNewNull, AllocSpecificOutOfMemory, At, Running
  <2>2. UNCHANGED Temps
    BY <2>1 DEF Temps
  <2> QED BY <1>1, <2>1, <2>2
<1>3. ASSUME NEW p \in Pages, TlbFill(p) \/ TlbEvict(p) PROVE Goal
  <2>1. /\ panic = "no" /\ UNCHANGED <<map, freeFrames, tables, objects>>
        /\ tlb' = [tlb EXCEPT ![p] = map[p]] \/ tlb' = [tlb EXCEPT ![p] = NoFrame]
    BY <1>3 DEF TlbFill, TlbEvict, Running
  <2>2. \A q \in Pages : tlb'[q] \in {tlb[q], NoFrame, map[q]}
    BY <1>t, <2>1
  <2>3. UNCHANGED Temps
    BY <2>1 DEF Temps
  <2> QED BY <2>1, <2>2, <2>3 DEF Goal, FrameChanges, FramesKept
<1>4. ASSUME NEW c \in Contexts, AllocReturn(c) PROVE Goal
  <2>1. panic = "no" /\ UNCHANGED <<map, freeFrames, tables, tlb>>
    BY <1>4 DEF AllocReturn, At, Running
  <2>2. CASE work[c].kind = "object" /\ objects' = objects \union {[work[c] EXCEPT !.page = 0]}
    <3>1. [work[c] EXCEPT !.page = 0].kind = "object"
      BY <2>2, CallFacts DEF CallType
    <3>2. UNCHANGED Temps
      BY <2>2, <3>1 DEF Temps
    <3> QED BY <1>1, <2>1, <3>2
  <2>3. CASE UNCHANGED objects
    <3>1. UNCHANGED Temps
      BY <2>3 DEF Temps
    <3> QED BY <1>1, <2>1, <3>1
  <2> QED BY <1>4, <2>2, <2>3 DEF AllocReturn
<1>5. ASSUME NEW c \in Contexts, NEW o \in objects, DeallocCall(c, o) \/ DeallocSpecificCall(c, o)
      PROVE  Goal
  <2>1. panic = "no" /\ UNCHANGED <<map, freeFrames, tables, tlb>> /\ o.kind # "temp" /\ objects' = objects \ {o}
    BY <1>5 DEF DeallocCall, DeallocSpecificCall, At, Running
  <2>2. UNCHANGED Temps
    BY <2>1 DEF Temps
  <2> QED BY <1>1, <2>1, <2>2
<1>6. ASSUME NEW c \in Contexts, AllocMapPage(c) PROVE Goal
  <2> DEFINE a == AtPage(work[c])
  <2>1. /\ pc[c] = "alloc_pages" /\ work[c].page < PageCount(OrderOf(work[c].size)) /\ map[a] = NoFrame
        /\ MapZeroed(a) /\ panic = "no" /\ objects' = objects
    BY <1>6 DEF AllocMapPage, At, Running, Mapped, LoopPage, AtPage
  <2>2. a \in UsedPages(work[c]) /\ Sound(work[c]) /\ work[c].kind \in Kinds
    BY <2>1, AllocLoop, CallFacts
  <2>3. a \in Pages
    BY <2>2, UsedPage
  <2>4. UNCHANGED Temps
    BY <2>1 DEF Temps
  <2>5. FrameTaken(a)
    BY <2>1, <2>3, <2>4 DEF FrameTaken
  <2> QED BY <2>1, <2>3, <2>5 DEF Goal, FrameChanges
<1>7. ASSUME NEW c \in Contexts, AllocOutOfMemory(c) PROVE Goal
  <2> DEFINE w == work[c]
             done == {PageOf(w.ptr) + n : n \in 0..(w.page - 1)}
  <2>1. /\ pc[c] = "alloc_pages" /\ w.page < PageCount(OrderOf(w.size)) /\ panic = "no"
        /\ map' = [p \in Pages |-> IF p \in done THEN NoFrame ELSE map[p]]
        /\ freeFrames' = {map[p] : p \in done}
        /\ tlb' = [p \in Pages |-> IF p \in done THEN NoFrame ELSE tlb[p]]
        /\ panic' = "unmapped" /\ objects' = objects
    BY <1>7 DEF AllocOutOfMemory, At, Running
  <2>2. done = CallPages(pc[c], w) /\ w.kind # "specific"
    BY <2>1, AllocLoop
  <2>3. CallPages(pc[c], w) = {p \in UsedPages(w) : p < AtPage(w)} /\ Sound(w) /\ w.kind \in Kinds
    BY <2>1, AllocLoop, CallFacts
  <2> HIDE DEF done
  <2>4. \A p \in done : p \in Pages
    BY <2>2, <2>3, UsedPage
  <2>5. \A p \in done : map[p] \in Frames
    BY <2>1, <2>2, PageInvBefore DEF RightFrame
  <2>6. UNCHANGED Temps
    BY <2>1 DEF Temps
  <2>7. done \in SUBSET Pages /\ panic' # "no"
    BY <2>1, <2>4
  <2>8. FramesLost
    BY <2>1, <2>5, <2>6, <2>7 DEF FramesLost
  <2> QED BY <2>1, <2>8 DEF Goal, FrameChanges
<1>8. ASSUME NEW c \in Contexts, NEW r \in DeviceRegions, AllocSpecific(c, r) PROVE Goal
  <2>0. panic = "no"
    BY <1>8 DEF AllocSpecific, At, Running
  <2>1. PICK o \in CallType :
           /\ Sound(o) /\ o.kind = "specific" /\ o.size = RegionBytes(r)
           /\ objects' = objects \union {o}
           /\ map' = [p \in Pages |-> IF p \in UsedPages(o) THEN r.start + (p - PageOf(o.ptr)) ELSE map[p]]
           /\ tlb' = [p \in Pages |-> IF p \in UsedPages(o) THEN NoFrame ELSE tlb[p]]
           /\ tables' = tables \union MissingTables(UsedPages(o))
           /\ \E ts \in SUBSET freeFrames : /\ Cardinality(ts) = Cardinality(MissingTables(UsedPages(o)))
                                            /\ freeFrames' = freeFrames \ ts
           /\ \A p \in UsedPages(o) : p \in Pages /\ map[p] = NoFrame
    BY <1>8, SpecificFacts
  <2> DEFINE m == [p \in Pages |-> r.start + (p - PageOf(o.ptr))]
  <2>2. PageOf(o.ptr) \in Nat /\ UsedPages(o) = SpecificPages(o.ptr, RegionBytes(r))
    BY <2>1, FirstPage DEF UsedPages, AllPages, SpecificPages
  <2>3. \A p \in UsedPages(o) : m[p] \in DeviceFrames /\ m[p] = r.start + (p - PageOf(o.ptr))
    BY <2>1, <2>2, DeviceFrame
  <2>m. m \in [Pages -> Int]
    BY <2>2, SizesAssumption DEF Pages
  <2> HIDE DEF m
  <2>4. map' = [p \in Pages |-> IF p \in UsedPages(o) THEN m[p] ELSE map[p]]
    BY <2>1, <2>3
  <2>5. UNCHANGED Temps
    BY <2>1 DEF Temps
  <2>6. UsedPages(o) \in SUBSET Pages
    BY <2>1
  <2>7. DeviceMapped
    BY <2>1, <2>3, <2>4, <2>5, <2>6, <2>m DEF DeviceMapped
  <2> QED BY <2>0, <2>7 DEF Goal, FrameChanges
<1>9. ASSUME NEW c \in Contexts, DeallocUnmapPage(c) \/ DeallocSpecificPage(c) PROVE Goal
  <2> DEFINE a == LoopPage(c)
  <2>1. /\ panic = "no" /\ a \in Pages /\ objects' = objects
        /\ map' = [map EXCEPT ![a] = NoFrame]
        /\ pc[c] = "dealloc_pages" => map[a] \in Frames /\ UnmapFree(a)
        /\ pc[c] # "dealloc_pages" => map[a] \notin Frames /\ UNCHANGED <<tables, freeFrames, tlb, clean>>
    BY <1>9, PageDeallocUnmap
  <2>2. UNCHANGED Temps
    BY <2>1 DEF Temps
  <2> HIDE DEF a
  <2>3. FrameFreed(a) \/ Remapped(a)
    BY <2>1, <2>2 DEF FrameFreed, Remapped
  <2> QED BY <2>1, <2>3 DEF Goal, FrameChanges
<1>10. ASSUME NEW c \in Contexts, TempNew(c) PROVE Goal
  <2> DEFINE w == work[c]
             a == PageOf(w.ptr)
             o == [w EXCEPT !.page = 0, !.frame = map[a]]
  <2>1. /\ a \in Pages /\ map[a] \in Frames /\ panic = "no" /\ tables' = tables /\ freeFrames' = freeFrames
        /\ w.kind = "temp" /\ w \in CallType /\ objects' = objects \union {o}
        /\ map' = [map EXCEPT ![a] = NoFrame] /\ tlb' = [tlb EXCEPT ![a] = NoFrame]
    BY <1>10, TempNewFacts
  <2>2. o.kind = "temp" /\ o.frame = map[a]
    BY <2>1 DEF CallType
  <2>3. \A q \in objects : q.kind # "temp"
    BY <2>1, PageInvBefore
  <2> HIDE DEF o, a
  <2>4. Temps = {} /\ Temps' = {o}
    BY <2>1, <2>2, <2>3 DEF Temps
  <2>5. SetAside(a)
    BY <2>1, <2>2, <2>4 DEF SetAside
  <2> QED BY <2>1, <2>5 DEF Goal, FrameChanges
<1>11. ASSUME NEW c \in Contexts, NEW o \in objects, TempMap(c, o) \/ TempUnmap(c, o) PROVE Goal
  <2> DEFINE a == PageOf(o.ptr)
  <2>1. /\ panic = "no" /\ o.kind = "temp" /\ UNCHANGED <<tables, freeFrames, objects>>
        /\ \E x \in {NoFrame, P4Frame} : map' = [map EXCEPT ![a] = x]
        /\ tlb' = [tlb EXCEPT ![a] = NoFrame]
    BY <1>11 DEF TempMap, TempUnmap, At, Running
  <2>2. a \in Pages /\ map[a] \in {NoFrame, P4Frame}
    BY <2>1, TempApart
  <2>3. UNCHANGED Temps
    BY <2>1 DEF Temps
  <2> HIDE DEF a
  <2>4. Remapped(a)
    BY <2>1, <2>2, <2>3, FramesAssumption DEF Remapped
  <2> QED BY <2>1, <2>2, <2>4 DEF Goal, FrameChanges
<1>12. ASSUME NEW c \in Contexts, NEW o \in objects, TempDrop(c, o) PROVE Goal
  <2> DEFINE a == PageOf(o.ptr)
  <2>1. /\ panic = "no" /\ o.kind = "temp" /\ UNCHANGED <<tables, freeFrames>> /\ objects' = objects \ {o}
        /\ map' = [map EXCEPT ![a] = o.frame] /\ tlb' = [tlb EXCEPT ![a] = NoFrame]
    BY <1>12 DEF TempDrop, At, Running
  <2>2. a \in Pages /\ map[a] \in {NoFrame, P4Frame} /\ o.frame \in Frames
    BY <2>1, TempApart
  <2>3. Temps = {o} /\ Temps' = {}
    BY <2>1, PageInvBefore DEF Temps
  <2> HIDE DEF a
  <2>4. PutBack(a)
    BY <2>1, <2>2, <2>3, FramesAssumption DEF PutBack
  <2> QED BY <2>1, <2>2, <2>4 DEF Goal, FrameChanges
<1> QED BY <1>2, <1>3, <1>4, <1>5, <1>6, <1>7, <1>8, <1>9, <1>10, <1>11, <1>12, StepCases

\* The frames stay apart.
LEMMA FrameStep ==
  ASSUME TypeInv, FrameInv, FrameChanges
  PROVE  FrameInv'
<1>t. map \in [Pages -> AnyFrame] /\ NoFrame \notin Frames /\ P4Frame \notin Frames
      /\ DeviceFrames \intersect Frames = {}
  BY FramesAssumption DEF TypeInv
<1>1. CASE FramesKept
  BY <1>1 DEF FramesKept, FrameInv
<1>2. CASE FramesLost
  <2>1. PICK done \in SUBSET Pages :
          /\ \A p \in done : map[p] \in Frames
          /\ map' = [p \in Pages |-> IF p \in done THEN NoFrame ELSE map[p]]
          /\ freeFrames' = {map[p] : p \in done} /\ Temps' = Temps
    BY <1>2 DEF FramesLost
  <2>2. \A p \in Pages : (p \in done => map'[p] = NoFrame) /\ (p \notin done => map'[p] = map[p])
    BY <2>1
  <2>3. freeFrames' \subseteq Frames /\ \A p \in Pages : map'[p] \notin freeFrames'
    BY <1>t, <2>1, <2>2 DEF FrameInv
  <2>4. \A p, q \in Pages : map'[p] \in Frames /\ p # q => map'[p] # map'[q]
    BY <1>t, <2>2 DEF FrameInv
  <2>5. \A o \in Temps' : /\ o.frame \in Frames /\ o.frame \notin freeFrames'
                          /\ \A p \in Pages : map'[p] # o.frame
    BY <1>t, <2>1, <2>2 DEF FrameInv
  <2> QED BY <2>3, <2>4, <2>5 DEF FrameInv
<1>3. CASE DeviceMapped
  <2>1. PICK ps \in SUBSET Pages, m \in [Pages -> Int] : 
          /\ \A p \in ps : m[p] \in DeviceFrames
          /\ map' = [p \in Pages |-> IF p \in ps THEN m[p] ELSE map[p]]
          /\ freeFrames' \subseteq freeFrames /\ Temps' = Temps
    BY <1>3 DEF DeviceMapped
  <2>2. \A p \in Pages : (p \in ps => map'[p] \in DeviceFrames) /\ (p \notin ps => map'[p] = map[p])
    BY <2>1
  <2>3. freeFrames' \subseteq Frames /\ \A p \in Pages : map'[p] \notin freeFrames'
    BY <1>t, <2>1, <2>2 DEF FrameInv
  <2>4. \A p, q \in Pages : map'[p] \in Frames /\ p # q => map'[p] # map'[q]
    BY <1>t, <2>2 DEF FrameInv
  <2>5. \A o \in Temps' : /\ o.frame \in Frames /\ o.frame \notin freeFrames'
                          /\ \A p \in Pages : map'[p] # o.frame
    BY <1>t, <2>1, <2>2 DEF FrameInv
  <2> QED BY <2>3, <2>4, <2>5 DEF FrameInv
<1>4. ASSUME NEW a \in Pages, FrameTaken(a) PROVE FrameInv'
  <2>1. PICK f \in freeFrames : /\ map' = [map EXCEPT ![a] = f] /\ f \notin freeFrames'
                                /\ freeFrames' \subseteq freeFrames /\ Temps' = Temps
    BY <1>4 DEF FrameTaken, MapZeroed
  <2>2. map'[a] = f /\ \A p \in Pages : p # a => map'[p] = map[p]
    BY <1>t, <2>1
  <2> QED BY <1>t, <2>1, <2>2 DEF FrameInv
<1>5. ASSUME NEW a \in Pages, FrameFreed(a) PROVE FrameInv'
  <2>1. /\ map[a] \in Frames /\ map' = [map EXCEPT ![a] = NoFrame]
        /\ freeFrames' = freeFrames \union {map[a]} /\ Temps' = Temps
    BY <1>5 DEF FrameFreed, UnmapFree
  <2>2. map'[a] = NoFrame /\ \A p \in Pages : p # a => map'[p] = map[p]
    BY <1>t, <2>1
  <2> QED BY <1>t, <2>1, <2>2 DEF FrameInv
<1>6. ASSUME NEW a \in Pages, Remapped(a) PROVE FrameInv'
  <2>1. /\ \E x \in {NoFrame, P4Frame} : map' = [map EXCEPT ![a] = x]
        /\ freeFrames' = freeFrames /\ Temps' = Temps
    BY <1>6 DEF Remapped
  <2>2. map'[a] \in {NoFrame, P4Frame} /\ \A p \in Pages : p # a => map'[p] = map[p]
    BY <1>t, <2>1
  <2> QED BY <1>t, <2>1, <2>2 DEF FrameInv
<1>7. ASSUME NEW a \in Pages, SetAside(a) PROVE FrameInv'
  <2>1. /\ map[a] \in Frames /\ map' = [map EXCEPT ![a] = NoFrame] /\ freeFrames' = freeFrames
        /\ \E o : o.frame = map[a] /\ Temps' = {o}
    BY <1>7 DEF SetAside
  <2>2. map'[a] = NoFrame /\ \A p \in Pages : p # a => map'[p] = map[p]
    BY <1>t, <2>1
  <2>3. \A p \in Pages : map'[p] # map[a]
    BY <1>t, <2>1, <2>2 DEF FrameInv
  <2> QED BY <1>t, <2>1, <2>2, <2>3 DEF FrameInv
<1>8. ASSUME NEW a \in Pages, PutBack(a) PROVE FrameInv'
  <2>1. PICK o \in Temps : map' = [map EXCEPT ![a] = o.frame] /\ freeFrames' = freeFrames /\ Temps' = {}
    BY <1>8 DEF PutBack
  <2>2. map'[a] = o.frame /\ \A p \in Pages : p # a => map'[p] = map[p]
    BY <1>t, <2>1
  <2> QED BY <1>t, <2>1, <2>2 DEF FrameInv
<1> QED BY <1>1, <1>2, <1>3, <1>4, <1>5, <1>6, <1>7, <1>8 DEF FrameChanges

\* No translation to a frame of the allocator goes stale.
LEMMA TlbStep ==
  ASSUME TypeInv, TlbInv, FrameChanges
  PROVE  TlbInv'
<1>t. /\ map \in [Pages -> AnyFrame] /\ tlb \in [Pages -> AnyFrame] /\ NoFrame \notin Frames
  BY FramesAssumption DEF TypeInv
<1>1. CASE FramesKept
  BY <1>1, <1>t DEF FramesKept, TlbInv
<1>2. CASE FramesLost
  <2>1. PICK done \in SUBSET Pages :
          /\ map' = [p \in Pages |-> IF p \in done THEN NoFrame ELSE map[p]]
          /\ tlb' = [p \in Pages |-> IF p \in done THEN NoFrame ELSE tlb[p]]
    BY <1>2 DEF FramesLost
  <2> QED BY <1>t, <2>1 DEF TlbInv
<1>3. CASE DeviceMapped
  <2>1. PICK ps \in SUBSET Pages, m \in [Pages -> Int] :
          /\ map' = [p \in Pages |-> IF p \in ps THEN m[p] ELSE map[p]]
          /\ tlb' = [p \in Pages |-> IF p \in ps THEN NoFrame ELSE tlb[p]]
    BY <1>3 DEF DeviceMapped
  <2> QED BY <1>t, <2>1 DEF TlbInv
<1>4. ASSUME NEW a \in Pages, FrameTaken(a) PROVE TlbInv'
  <2>1. PICK f \in freeFrames : /\ map' = [map EXCEPT ![a] = f]
                                /\ tlb' = [tlb EXCEPT ![a] = IF tlb[a] # NoFrame THEN tlb[a] ELSE f]
    BY <1>4 DEF FrameTaken, MapZeroed
  <2>2. map'[a] = f /\ tlb'[a] = (IF tlb[a] # NoFrame THEN tlb[a] ELSE f)
    BY <1>t, <2>1
  <2>3. \A p \in Pages : p # a => map'[p] = map[p] /\ tlb'[p] = tlb[p]
    BY <1>t, <2>1
  <2>4. tlb[a] \notin Frames
    BY <1>4, <1>t DEF FrameTaken, TlbInv
  <2> QED BY <2>2, <2>3, <2>4 DEF TlbInv
<1>5. ASSUME NEW a \in Pages, NEW x, map' = [map EXCEPT ![a] = x], tlb' = [tlb EXCEPT ![a] = NoFrame]
      PROVE  TlbInv'
  BY <1>5, <1>t DEF TlbInv
<1>6. ASSUME NEW a \in Pages, Remapped(a) PROVE TlbInv'
  <2>1. CASE tlb' = [tlb EXCEPT ![a] = NoFrame]
    BY <1>5, <1>6, <2>1 DEF Remapped
  <2>2. CASE tlb' = tlb
    <3>1. map[a] \notin Frames /\ \A p \in Pages : p # a => map'[p] = map[p]
      BY <1>6, <1>t DEF Remapped
    <3> QED BY <2>2, <3>1 DEF TlbInv
  <2> QED BY <1>6, <2>1, <2>2 DEF Remapped
<1>7. ASSUME NEW a \in Pages, FrameFreed(a) \/ SetAside(a) \/ PutBack(a) PROVE TlbInv'
  <2>1. tlb' = [tlb EXCEPT ![a] = NoFrame] /\ \E x : map' = [map EXCEPT ![a] = x]
    BY <1>7 DEF FrameFreed, UnmapFree, SetAside, PutBack
  <2> QED BY <2>1, <1>5
<1> QED BY <1>1, <1>2, <1>3, <1>4, <1>6, <1>7 DEF FrameChanges

\* The tables of the heap's pages are finitely many.
LEMMA AllTablesFinite == IsFiniteSet({TableOf(p) : p \in Pages})
<1>1. NumPages \in Nat \ {0} /\ Pages = 0..(NumPages - 1) /\ PagesPerTable \in Nat \ {0}
  BY HeapSizes, OrdersAssumption
<1>2. ASSUME NEW p \in Pages PROVE TableOf(p) \in 0..(NumPages - 1)
  <2>1. p \in Nat /\ p \div PagesPerTable \in Nat
    BY <1>1, <1>2, Quotient
  <2>2. p < NumPages /\ NumPages \in Nat
    BY <1>1, <1>2
  <2>3. p < PagesPerTable * NumPages
    <3>1. NumPages * 1 <= NumPages * PagesPerTable
      BY <1>1, ProductMonotone
    <3>2. NumPages * 1 = NumPages /\ NumPages * PagesPerTable = PagesPerTable * NumPages
          /\ PagesPerTable * NumPages \in Nat
      BY <1>1
    <3> QED BY <2>1, <2>2, <3>1, <3>2
  <2>4. p \div PagesPerTable < NumPages
    BY <1>1, <2>1, <2>2, <2>3, QuotientBelow
  <2> QED BY <2>1, <2>2, <2>4 DEF TableOf
<1>3. {TableOf(p) : p \in Pages} \subseteq 0..(NumPages - 1)
  BY <1>2
<1>4. IsFiniteSet(0..(NumPages - 1))
  BY <1>1, FS_Interval
<1> QED BY <1>3, <1>4, FS_Subset

\* All that is counted is finite.
LEMMA CountsFinite ==
  ASSUME TypeInv, FrameInv
  PROVE  /\ IsFiniteSet(freeFrames) /\ IsFiniteSet(Behind) /\ IsFiniteSet(FramesAside) /\ IsFiniteSet(tables)
         /\ Cardinality(freeFrames) \in Nat /\ Cardinality(Behind) \in Nat
         /\ Cardinality(FramesAside) \in Nat /\ Cardinality(tables) \in Nat
         /\ FramesAside = {o.frame : o \in Temps}
<1>1. IsFiniteSet(Pages)
  BY HeapSizes, FS_Interval
<1>2. FramesAside = {o.frame : o \in Temps}
  BY DEF FramesAside, Temps
<1>3. FramesAside \subseteq Frames /\ freeFrames \subseteq Frames /\ Behind \subseteq Pages
  BY <1>2 DEF FrameInv, Behind
<1>4. IsFiniteSet(freeFrames) /\ IsFiniteSet(Behind) /\ IsFiniteSet(FramesAside) /\ IsFiniteSet(tables)
  BY <1>1, <1>3, FramesAssumption, FS_Subset, AllTablesFinite DEF TypeInv
<1> QED BY <1>2, <1>4, FS_CardinalityType

\* A set with one element more.
LEMMA OneMore ==
  ASSUME NEW S, IsFiniteSet(S), NEW x, x \notin S
  PROVE  Cardinality(S \union {x}) = Cardinality(S) + 1
  BY FS_AddElement

\* A set with one element less.
LEMMA OneLess ==
  ASSUME NEW S, IsFiniteSet(S), NEW x \in S
  PROVE  Cardinality(S \ {x}) = Cardinality(S) - 1 /\ IsFiniteSet(S \ {x})
  BY FS_RemoveElement

\* The frames still add up.
LEMMA CountStep ==
  ASSUME TypeInv, FrameInv, CountFramesInv, FrameChanges, panic = "no"
  PROVE  CountFramesInv'
<1> DEFINE F == Cardinality(freeFrames)
           B == Cardinality(Behind)
           A == Cardinality(FramesAside)
           T == Cardinality(tables)
           Aside(S) == {o.frame : o \in S}
<1>0. /\ IsFiniteSet(freeFrames) /\ IsFiniteSet(Behind) /\ IsFiniteSet(FramesAside) /\ IsFiniteSet(tables)
      /\ F \in Nat /\ B \in Nat /\ A \in Nat /\ T \in Nat
      /\ FramesAside = Aside(Temps) /\ FramesAside' = Aside(Temps')
      /\ Cardinality(Frames) = F + B + A + T
  <2>1. FramesAside' = Aside(Temps')
    BY DEF FramesAside, Temps
  <2> QED BY <2>1, CountsFinite DEF CountFramesInv
<1>t. map \in [Pages -> AnyFrame] /\ NoFrame \notin Frames /\ P4Frame \notin Frames
      /\ DeviceFrames \intersect Frames = {}
  BY FramesAssumption DEF TypeInv
<1>a. Temps' = Temps => FramesAside' = FramesAside
  BY <1>0
<1>g. SUFFICES panic' = "no" =>
        F + B + A + T = Cardinality(freeFrames') + Cardinality(Behind') + Cardinality(FramesAside') + Cardinality(tables')
  BY <1>0 DEF CountFramesInv
<1>b. \A a \in Pages : \A x : map' = [map EXCEPT ![a] = x] =>
        Behind' = (IF x \in Frames THEN Behind \union {a} ELSE Behind \ {a})
  <2> SUFFICES ASSUME NEW a \in Pages, NEW x, map' = [map EXCEPT ![a] = x]
               PROVE  Behind' = (IF x \in Frames THEN Behind \union {a} ELSE Behind \ {a})
    OBVIOUS
  <2>1. map'[a] = x /\ \A p \in Pages : p # a => map'[p] = map[p]
    BY <1>t
  <2>2. Behind' = {p \in Pages : map'[p] \in Frames}
    BY DEF Behind
  <2> QED BY <2>1, <2>2 DEF Behind
<1> HIDE DEF Aside
<1>1. CASE FramesKept
  <2>1. /\ freeFrames' = freeFrames /\ tables' = tables /\ Behind' = Behind /\ FramesAside' = FramesAside
    BY <1>1, <1>a DEF FramesKept, Behind
  <2> QED BY <2>1
<1>2. CASE FramesLost
  BY <1>2 DEF FramesLost
<1>3. CASE DeviceMapped
  <2>1. PICK ps \in SUBSET Pages, m \in [Pages -> Int] : \E ts \in SUBSET freeFrames :
    /\ \A p \in ps : map[p] = NoFrame /\ m[p] \in DeviceFrames
    /\ map' = [p \in Pages |-> IF p \in ps THEN m[p] ELSE map[p]]
    /\ tables' = tables \union MissingTables(ps)
    /\ Cardinality(ts) = Cardinality(MissingTables(ps)) /\ freeFrames' = freeFrames \ ts
    /\ Temps' = Temps
    BY <1>3 DEF DeviceMapped
  <2>2. PICK ts \in SUBSET freeFrames :
          Cardinality(ts) = Cardinality(MissingTables(ps)) /\ freeFrames' = freeFrames \ ts
    BY <2>1
  <2>3. Behind' = Behind
    <3>1. \A p \in Pages : map'[p] \in Frames <=> map[p] \in Frames
      BY <1>t, <2>1
    <3>2. Behind' = {p \in Pages : map'[p] \in Frames}
      BY DEF Behind
    <3> QED BY <3>1, <3>2 DEF Behind
  <2>4. IsFiniteSet(ts) /\ Cardinality(ts) \in Nat
    BY <1>0, FS_Subset, FS_CardinalityType
  <2>5. Cardinality(freeFrames') = F - Cardinality(ts)
    <3>1. freeFrames \cap ts = ts
      OBVIOUS
    <3>2. Cardinality(freeFrames \ ts) = F - Cardinality(freeFrames \cap ts)
      BY <1>0, FS_Difference
    <3> QED BY <2>2, <3>1, <3>2
  <2>6. Cardinality(tables') = T + Cardinality(ts)
    <3>1. IsFiniteSet(MissingTables(ps))
      <4>1. IsFiniteSet(tables')
        <5>1. tables' \subseteq {TableOf(p) : p \in Pages}
          BY <2>1 DEF TypeInv, MissingTables
        <5> QED BY <5>1, AllTablesFinite, FS_Subset
      <4>2. MissingTables(ps) \subseteq tables'
        BY <2>1
      <4> QED BY <4>1, <4>2, FS_Subset
    <3>2. tables \cap MissingTables(ps) = {}
      BY DEF MissingTables
    <3>3. Cardinality(tables') = T + Cardinality(MissingTables(ps)) - Cardinality({})
      BY <1>0, <2>1, <3>1, <3>2, FS_Union
    <3>4. Cardinality({}) = 0 /\ Cardinality(MissingTables(ps)) \in Nat
      BY <3>1, FS_EmptySet, FS_CardinalityType
    <3> QED BY <1>0, <2>2, <3>3, <3>4
  <2>7. FramesAside' = FramesAside
    BY <1>a, <2>1
  <2> HIDE DEF F, B, A, T
  <2> QED BY <1>0, <2>3, <2>4, <2>5, <2>6, <2>7 DEF B, A
<1>4. ASSUME NEW a \in Pages, FrameTaken(a)
      PROVE  F + B + A + T = Cardinality(freeFrames') + Cardinality(Behind') + Cardinality(FramesAside') + Cardinality(tables')
  <2>1. PICK f \in freeFrames, t \in freeFrames :
          /\ TableOf(a) \notin tables => t # f
          /\ TableOf(a) \in tables => t = f
          /\ map' = [map EXCEPT ![a] = f]
          /\ tables' = tables \union {TableOf(a)}
          /\ freeFrames' = freeFrames \ {f, t}
    BY <1>4 DEF FrameTaken, MapZeroed
  <2>2. f \in Frames /\ a \notin Behind
    BY <1>4, <1>t DEF FrameInv, Behind, FrameTaken
  <2>3. Cardinality(Behind') = B + 1
    <3>1. Behind' = Behind \union {a}
      BY <1>b, <2>1, <2>2
    <3> QED BY <1>0, <2>2, <3>1, OneMore
  <2>4. FramesAside' = FramesAside
    BY <1>4, <1>a DEF FrameTaken
  <2>5. CASE TableOf(a) \in tables
    <3>1. tables' = tables /\ freeFrames' = freeFrames \ {f}
      BY <2>1, <2>5
    <3>2. Cardinality(freeFrames') = F - 1
      BY <1>0, <3>1, OneLess
    <3> QED BY <1>0, <2>3, <2>4, <3>1, <3>2
  <2>6. CASE TableOf(a) \notin tables
    <3>1. freeFrames' = (freeFrames \ {f}) \ {t} /\ t \in freeFrames \ {f}
      BY <2>1, <2>6
    <3>2. Cardinality(freeFrames \ {f}) = F - 1 /\ IsFiniteSet(freeFrames \ {f})
      BY <1>0, OneLess
    <3>3. Cardinality(freeFrames') = F - 1 - 1
      BY <3>1, <3>2, OneLess
    <3>4. Cardinality(tables') = T + 1
      BY <1>0, <2>1, <2>6, OneMore
    <3>5. Cardinality(FramesAside') = A
      BY <2>4
    <3>6. F \in Nat /\ B \in Nat /\ A \in Nat /\ T \in Nat
      BY <1>0
    <3> HIDE DEF F, B, A, T
    <3> QED BY <2>3, <3>3, <3>4, <3>5, <3>6
  <2> QED BY <2>5, <2>6
<1>5. ASSUME NEW a \in Pages, FrameFreed(a)
      PROVE  F + B + A + T = Cardinality(freeFrames') + Cardinality(Behind') + Cardinality(FramesAside') + Cardinality(tables')
  <2>1. /\ map[a] \in Frames /\ map' = [map EXCEPT ![a] = NoFrame] /\ freeFrames' = freeFrames \union {map[a]}
        /\ tables' = tables /\ Temps' = Temps
    BY <1>5 DEF FrameFreed, UnmapFree
  <2>2. Cardinality(freeFrames') = F + 1
    <3>1. map[a] \notin freeFrames
      BY DEF FrameInv
    <3> QED BY <1>0, <2>1, <3>1, OneMore
  <2>3. Cardinality(Behind') = B - 1
    <3>1. a \in Behind /\ Behind' = Behind \ {a}
      BY <1>b, <1>t, <2>1 DEF Behind
    <3> QED BY <1>0, <3>1, OneLess
  <2> QED BY <1>0, <1>a, <2>1, <2>2, <2>3
<1>6. ASSUME NEW a \in Pages, Remapped(a)
      PROVE  F + B + A + T = Cardinality(freeFrames') + Cardinality(Behind') + Cardinality(FramesAside') + Cardinality(tables')
  <2>1. /\ map[a] \notin Frames /\ \E x \in {NoFrame, P4Frame} : map' = [map EXCEPT ![a] = x]
        /\ freeFrames' = freeFrames /\ tables' = tables /\ Temps' = Temps
    BY <1>6 DEF Remapped
  <2>2. Behind' = Behind \ {a} /\ a \notin Behind
    BY <1>b, <1>t, <2>1 DEF Behind
  <2>3. Behind' = Behind
    BY <2>2
  <2> QED BY <1>a, <2>1, <2>3
<1>7. ASSUME NEW a \in Pages, SetAside(a)
      PROVE  F + B + A + T = Cardinality(freeFrames') + Cardinality(Behind') + Cardinality(FramesAside') + Cardinality(tables')
  <2>1. /\ map[a] \in Frames /\ map' = [map EXCEPT ![a] = NoFrame] /\ freeFrames' = freeFrames
        /\ tables' = tables /\ Temps = {} /\ \E o : Temps' = {o}
    BY <1>7 DEF SetAside
  <2>2. Cardinality(Behind') = B - 1
    <3>1. a \in Behind /\ Behind' = Behind \ {a}
      BY <1>b, <1>t, <2>1 DEF Behind
    <3> QED BY <1>0, <3>1, OneLess
  <2>3. A = 0
    <3>1. FramesAside = {}
      BY <1>0, <2>1 DEF Aside
    <3> QED BY <3>1, FS_EmptySet
  <2>4. Cardinality(FramesAside') = 1
    <3>1. PICK o : Temps' = {o}
      BY <2>1
    <3>2. FramesAside' = {o.frame}
      BY <1>0, <3>1 DEF Aside
    <3> QED BY <3>2, FS_Singleton
  <2> QED BY <1>0, <2>1, <2>2, <2>3, <2>4
<1>8. ASSUME NEW a \in Pages, PutBack(a)
      PROVE  F + B + A + T = Cardinality(freeFrames') + Cardinality(Behind') + Cardinality(FramesAside') + Cardinality(tables')
  <2>1. PICK o \in objects : /\ o.frame \in Frames /\ Temps = {o} /\ Temps' = {} /\ map' = [map EXCEPT ![a] = o.frame]
                             /\ freeFrames' = freeFrames /\ tables' = tables /\ map[a] \notin Frames
    BY <1>8 DEF PutBack
  <2>2. Cardinality(Behind') = B + 1
    <3>1. a \notin Behind /\ Behind' = Behind \union {a}
      BY <1>b, <2>1 DEF Behind
    <3> QED BY <1>0, <3>1, OneMore
  <2>3. Cardinality(FramesAside') = 0
    <3>1. FramesAside' = {}
      BY <1>0, <2>1 DEF Aside
    <3> QED BY <3>1, FS_EmptySet
  <2>4. A = 1
    <3>1. FramesAside = {o.frame}
      BY <1>0, <2>1 DEF Aside
    <3> QED BY <3>1, FS_Singleton
  <2> QED BY <1>0, <2>1, <2>2, <2>3, <2>4
<1> QED BY <1>1, <1>2, <1>3, <1>4, <1>5, <1>6, <1>7, <1>8 DEF FrameChanges

(***************************************************************************)
(* The theorems.                                                           *)
(***************************************************************************)

\* After init all frames are free.
LEMMA OneInit == Init => OneInv
<1> SUFFICES ASSUME Init PROVE OneInv
  OBVIOUS
<1>1. /\ objects = {} /\ map = [p \in Pages |-> NoFrame] /\ tlb = [p \in Pages |-> NoFrame]
      /\ freeFrames = Frames /\ tables = {} /\ NoFrame \notin Frames /\ IsFiniteSet(Frames)
  BY FramesAssumption DEF Init
<1>2. \A p \in Pages : map[p] = NoFrame /\ tlb[p] = NoFrame
  BY <1>1
<1>3. FrameInv /\ TlbInv
  BY <1>1, <1>2 DEF FrameInv, Temps, TlbInv
<1>4. Behind = {} /\ FramesAside = {}
  BY <1>1, <1>2 DEF Behind, FramesAside
<1>5. Cardinality({}) = 0 /\ Cardinality(Frames) \in Nat
  BY <1>1, FS_EmptySet, FS_CardinalityType
<1>6. CountFramesInv
  BY <1>1, <1>4, <1>5 DEF CountFramesInv
<1> QED BY <1>3, <1>6, PageInit DEF OneInv

\* Pages, frames and translations stay in order.
LEMMA OneStep ==
  ASSUME BlockInv, OneContext, OneInv, [Next]_vars
  PROVE  OneInv'
<1>1. TypeInv /\ PageInv /\ FrameInv /\ TlbInv /\ CountFramesInv
  BY DEF OneInv, BlockInv
<1>2. PageInv'
  BY <1>1, PageStep
<1>3. CASE UNCHANGED vars
  BY <1>1, <1>2, <1>3 DEF OneInv, vars, FrameInv, Temps, TlbInv, CountFramesInv, Behind, FramesAside
<1>4. CASE Next
  <2>1. panic = "no" /\ FrameChanges
    BY <1>1, <1>4, FrameEffects
  <2> QED BY <1>1, <1>2, <2>1, FrameStep, TlbStep, CountStep DEF OneInv
<1> QED BY <1>3, <1>4

\* The inductive invariant holds: the part about blocks for any number of contexts, the part
\* about pages and frames when one context at a time uses the heap.
THEOREM Invariance == Spec => []IInv
<1>1. Init => IInv
  BY BlockInit, OneInit DEF IInv
<1>2. IInv /\ [Next]_vars => IInv'
  <2> SUFFICES ASSUME IInv, [Next]_vars PROVE IInv'
    OBVIOUS
  <2>1. BlockInv'
    BY BlockStep DEF IInv
  <2>2. OneContext => OneInv'
    BY OneStep DEF IInv
  <2> QED BY <2>1, <2>2 DEF IInv, OneContext
<1> QED BY <1>1, <1>2, PTL DEF Spec

\* Two live allocations never share a byte, and none of their cells is free in the tree,
\* whatever the heap's size, the sizes asked for and the number of contexts.
THEOREM AllocationsApart == Spec => []NoOverlap
<1>1. IInv => NoOverlap
  <2> SUFFICES ASSUME IInv, NEW o \in objects
               PROVE  /\ BlockCells(o.ptr, OrderOf(o.size)) \intersect free = {}
                      /\ \A q \in objects \ {o} : BytesOf(o) \intersect BytesOf(q) = {}
    BY DEF NoOverlap
  <2>1. SoundInv /\ ApartInv
    BY DEF IInv, BlockInv
  <2>2. ASSUME NEW q \in objects, NEW b \in BytesOf(q) PROVE b \div CellBytes \in CellsOf(q)
    <3>1. Sound(q)
      BY <2>1 DEF SoundInv
    <3>2. q.size \in Nat /\ IsUsize(q.size) /\ OrderOf(q.size) \in 0..MaxOrder
      BY <3>1, SoundGeometry
    <3>3. IsBlock(q.ptr, OrderOf(q.size))
      BY <3>1 DEF Sound
    <3> QED BY <2>2, <3>2, <3>3, BytesInBlock DEF BytesOf, CellsOf
  <2>3. ASSUME NEW q \in objects \ {o}, NEW b \in BytesOf(o), b \in BytesOf(q) PROVE FALSE
    <3>1. b \div CellBytes \in CellsOf(o) \intersect CellsOf(q)
      BY <2>2, <2>3
    <3> QED BY <2>1, <3>1 DEF ApartInv
  <2>4. BlockCells(o.ptr, OrderOf(o.size)) \intersect free = {}
    BY <2>1 DEF ApartInv, CellsOf
  <2> QED BY <2>3, <2>4
<1> QED BY <1>1, Invariance, PTL

\* Every byte of a live allocation is on a mapped page with memory of the right kind behind
\* it: half of the block is enough, and dealloc never unmaps a page that is still shared.
THEOREM LiveIsMapped ==
  ASSUME OneContext
  PROVE  Spec => []AllocatedIsMapped
<1>1. IInv => AllocatedIsMapped
  <2> SUFFICES ASSUME IInv, NEW o \in objects, NEW b \in BytesOf(o) PROVE Backed(o, PageOf(b))
    BY DEF AllocatedIsMapped
  <2>1. Sound(o) /\ o.kind \in Kinds /\ ObjectOk(map, o)
    BY DEF IInv, OneInv, PageInv, ObjectInv, BlockInv, SoundInv, TypeInv, CallType
  <2>2. o.size \in Nat /\ IsUsize(o.size) /\ OrderOf(o.size) \in 0..MaxOrder /\ IsBlock(o.ptr, OrderOf(o.size))
    BY <2>1, SoundGeometry DEF Sound
  <2>3. PageOf(b) \in FirstPages(o.ptr, OrderOf(o.size))
    BY <2>2, BytesInBlock DEF BytesOf
  <2>4. PageOf(b) \in UsedPages(o)
    <3>1. CASE o.kind = "specific"
      <4>1. OrderOf(o.size) > PageOrder
        BY <2>1, <3>1, SoundGeometry
      <4>2. OrderOf(o.size) >= PageOrder
        BY <2>2, <4>1, OrdersAssumption
      <4> QED BY <2>2, <2>3, <3>1, <4>2, Geometry DEF UsedPages
    <3>2. CASE o.kind # "specific"
      BY <2>3, <3>2 DEF UsedPages
    <3> QED BY <3>1, <3>2
  <2>5. CASE o.kind = "temp"
    BY <2>1, <2>4, <2>5, TempPages DEF ObjectOk, Backed
  <2>6. CASE o.kind # "temp"
    BY <2>1, <2>4, <2>6 DEF ObjectOk, RightFrame, Backed, Kinds
  <2> QED BY <2>5, <2>6
<1> QED BY <1>1, Invariance, PTL

\* When no call is running, every mapped page holds a part of a live allocation.
THEOREM NothingIdleMapped ==
  ASSUME OneContext
  PROVE  Spec => []NoIdleMapping
<1>1. IInv => NoIdleMapping
  <2> SUFFICES ASSUME IInv, \A c \in Contexts : pc[c] = "idle", NEW p \in Pages, Mapped(p)
               PROVE  \E o \in objects : PageCells(p) \intersect BlockCells(o.ptr, OrderOf(o.size)) # {}
    BY DEF NoIdleMapping
  <2>1. \A c \in Contexts : CallPages(pc[c], work[c]) = {}
    BY CallPagesAt
  <2>2. PICK o \in objects : p \in UsedPages(o)
    BY <2>1 DEF IInv, OneInv, PageInv, OwnerInv
  <2>3. Sound(o) /\ o.kind \in Kinds
    BY DEF IInv, BlockInv, SoundInv, TypeInv, CallType
  <2> QED BY <2>2, <2>3, UsedPage DEF CellsOf
<1> QED BY <1>1, Invariance, PTL

\* No frame of the allocator is lost or used twice.
THEOREM NoFrameLost ==
  ASSUME OneContext
  PROVE  Spec => []FramesAccounted
<1>1. IInv => FramesAccounted
  <2> SUFFICES ASSUME IInv PROVE FramesAccounted
    OBVIOUS
  <2>1. TypeInv /\ FrameInv /\ CountFramesInv
    BY DEF IInv, OneInv, BlockInv
  <2>2. FramesAside = {o.frame : o \in Temps}
    BY <2>1, CountsFinite
  <2>3. /\ \A p, q \in Behind : p # q => map[p] # map[q]
        /\ \A p \in Behind : map[p] \notin freeFrames \union FramesAside
        /\ FramesAside \intersect freeFrames = {}
    BY <2>1, <2>2 DEF FrameInv, Behind
  <2> QED BY <2>1, <2>3 DEF FramesAccounted, CountFramesInv, Behind
<1> QED BY <1>1, Invariance, PTL

\* Every block, page, frame and half-done call stays within its range.
THEOREM TypeCorrect ==
  ASSUME OneContext
  PROVE  Spec => []TypeOK
<1>1. IInv => TypeOK
  <2> SUFFICES ASSUME IInv PROVE TypeOK
    OBVIOUS
  <2>1. TypeInv /\ freeFrames \subseteq Frames
    BY DEF IInv, OneInv, BlockInv, FrameInv
  <2>2. ASSUME NEW o \in CallType, o.frame \in Frames \union {NoFrame} PROVE o \in WorkType
    BY <2>2 DEF CallType, WorkType
  <2>3. \A o \in objects : o \in CallType /\ o.frame \in Frames \union {NoFrame}
    BY <2>1 DEF IInv, OneInv, PageInv, ObjectInv, ObjectOk, TypeInv
  <2>4. \A c \in Contexts : work[c] \in CallType /\ work[c].frame \in Frames \union {NoFrame}
    BY <2>1 DEF IInv, OneInv, PageInv, CountInv, TypeInv
  <2>5. objects \subseteq WorkType /\ work \in [Contexts -> WorkType]
    BY <2>1, <2>2, <2>3, <2>4 DEF TypeInv
  <2> QED BY <2>1, <2>5 DEF TypeInv, TypeOK
<1> QED BY <1>1, Invariance, PTL

\* While alloc is in its loop, only its own mapping of a page gives an unmapped page a frame.
LEMMA OnlyAllocMaps ==
  ASSUME OneContext, TypeInv, NEW c \in Contexts, pc[c] = "alloc_pages", [Next]_vars, NEW p \in Pages,
         map[p] = NoFrame, map'[p] # NoFrame
  PROVE  AllocMapPage(c)
<1>1. \A d \in Contexts : d = c
  BY DEF OneContext
<1>2. Next
  BY DEF vars
<1>3. ASSUME map' = map PROVE FALSE
  BY <1>3
<1>4. \/ AllocMapPage(c) \/ AllocOutOfMemory(c)
      \/ map' = map
  BY <1>1, <1>2, StepCases
     DEF AllocTree, AllocSkipPage, AllocReturn, AllocSpecific, AllocSpecificOutOfMemory, DeallocSpecificCall,
         DeallocSpecificPage, DeallocSpecificReturn, DeallocCall, DeallocTree, DeallocCheck, DeallocUnmapPage,
         DeallocReturn, TempNewNull, TempNew, TempMap, TempUnmap, TempDrop, TlbFill, TlbEvict, At
<1>5. ASSUME AllocOutOfMemory(c) PROVE FALSE
  <2>1. map' = [q \in Pages |-> IF q \in {PageOf(work[c].ptr) + n : n \in 0..(work[c].page - 1)} THEN NoFrame ELSE map[q]]
    BY <1>5 DEF AllocOutOfMemory
  <2> QED BY <2>1
<1> QED BY <1>3, <1>4, <1>5

\* A page that alloc maps afresh holds zeroes after the step, whatever translation of the page
\* was cached, but for one to device memory.
THEOREM FreshIsZeroed ==
  ASSUME OneContext
  PROVE  Spec => FreshPageIsZeroedAfterDealloc
<1> DEFINE Zeroed == \A c \in Contexts, p \in Pages :
       (/\ pc[c] = "alloc_pages" /\ p = LoopPage(c) /\ map[p] = NoFrame /\ map'[p] # NoFrame
        /\ tlb[p] \in Frames \union {NoFrame})
         => map'[p] \in clean'
<1>1. IInv /\ [Next]_vars => [Zeroed]_vars
  <2> SUFFICES ASSUME IInv, [Next]_vars, NEW c \in Contexts, NEW p \in Pages,
                      pc[c] = "alloc_pages", p = LoopPage(c), map[p] = NoFrame, map'[p] # NoFrame,
                      tlb[p] \in Frames \union {NoFrame}
               PROVE  map'[p] \in clean'
    OBVIOUS
  <2>1. TypeInv /\ TlbInv
    BY DEF IInv, OneInv, BlockInv
  <2>2. AllocMapPage(c)
    BY <2>1, OnlyAllocMaps
  <2>3. tlb[p] = NoFrame
    BY <2>1, FramesAssumption DEF TlbInv
  <2>4. PICK f \in freeFrames : /\ map' = [map EXCEPT ![p] = f]
                                /\ clean' = clean \union {IF tlb[p] # NoFrame THEN tlb[p] ELSE f}
    BY <2>2 DEF AllocMapPage, MapZeroed
  <2> QED BY <2>1, <2>3, <2>4 DEF TypeInv
<1> QED BY <1>1, Invariance, PTL DEF Spec, FreshPageIsZeroedAfterDealloc

=============================================================================
