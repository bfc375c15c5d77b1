-------------------------- MODULE MemoryInitProofs --------------------------
(***************************************************************************)
(* init_memory keeps its parts apart, in virtual and in physical memory,   *)
(* proved for every memory map, every kernel and every size.               *)
(***************************************************************************)
EXTENDS MemoryInit, Facts

----------------------------------------------------------------------------
(* Arithmetic of pages.                                                     *)

LEMMA Sizes ==
  /\ PageBytes \in Nat \ {0} /\ WindowPages \in Nat \ {0} /\ SlotBytes \in Nat \ {0}
  /\ HeapTreeBytes \in Nat \ {0} /\ TreeBytes \in Nat \ {0} /\ IstStackPages \in Nat \ {0}
  /\ IstStacks \in Nat \ {0} /\ U8Values \in Nat \ {0} /\ Slots \in Nat \ {0}
  /\ RemapTables \in Nat /\ PrelimTrees \in 0 .. U8Values /\ NoFrame \notin Nat
  /\ BootstrapBytes \in Nat \ {0} /\ VgaPage \in Nat
<1>1. BootstrapBytes \in Nat \ {0}
  BY SizesAssumption DEF BootstrapBytes
<1> QED BY <1>1, SizesAssumption, MachinesAssumption

LEMMA PageType == ASSUME NEW a \in Nat PROVE PageOf(a) \in Nat
  BY Sizes, Quotient DEF PageOf

\* The page of an address is below page n if the address is.
LEMMA PageBelow ==
  ASSUME NEW a \in Nat, NEW n \in Nat
  PROVE  PageOf(a) < n <=> a < n * PageBytes
<1>1. a \div PageBytes < n <=> a < PageBytes * n
  BY Sizes, QuotientBelow
<1>2. PageBytes * n = n * PageBytes
  BY Sizes
<1> QED BY <1>1, <1>2 DEF PageOf

LEMMA PageMonotone ==
  ASSUME NEW a \in Nat, NEW b \in Nat, a <= b PROVE PageOf(a) <= PageOf(b)
  BY Sizes, QuotientMonotone DEF PageOf

\* Whole pages come out of the division.
LEMMA PageAdd ==
  ASSUME NEW q \in Nat, NEW x \in Nat PROVE PageOf(q * PageBytes + x) = q + PageOf(x)
<1> DEFINE d == x \div PageBytes
           r == x - PageBytes * d
<1>1. PageBytes \in Nat \ {0}
  BY Sizes
<1>2. d \in Nat /\ PageBytes * d <= x /\ x < PageBytes * d + PageBytes
  BY <1>1, Quotient
<1> HIDE DEF d
<1>3. r \in 0 .. PageBytes - 1 /\ x = PageBytes * d + r
  BY <1>1, <1>2
<1> HIDE DEF r
<1>4. q * PageBytes + x = PageBytes * (q + d) + r
  BY <1>1, <1>2, <1>3
<1>5. (PageBytes * (q + d) + r) \div PageBytes = q + d
  BY <1>1, <1>2, <1>3, QuotientIs
<1> QED BY <1>4, <1>5 DEF PageOf, d

\* Rounding up goes to the page after the last byte.
LEMMA RoundUpIs ==
  ASSUME NEW x \in Nat, x > 0 PROVE RoundUpDivide(x, PageBytes) = PageOf(x - 1) + 1
<1>1. PageBytes \in Nat \ {0}
  BY Sizes
<1>2. x + PageBytes - 1 = 1 * PageBytes + (x - 1) /\ x - 1 \in Nat
  BY <1>1
<1>3. PageOf(1 * PageBytes + (x - 1)) = 1 + PageOf(x - 1)
  BY <1>2, PageAdd
<1>4. RoundUpDivide(x, PageBytes) = PageOf(1 * PageBytes + (x - 1))
  BY <1>2 DEF RoundUpDivide, PageOf
<1>5. PageOf(x - 1) \in Nat
  BY <1>2, PageType
<1> QED BY <1>3, <1>4, <1>5

\* The end of something that begins with page q, rounded up.
LEMMA RoundUpAt ==
  ASSUME NEW q \in Nat, NEW x \in Nat, x > 0
  PROVE  RoundUpDivide(q * PageBytes + x, PageBytes) = q + PageOf(x - 1) + 1
<1> DEFINE y == q * PageBytes + x
           z == x - 1
<1>1. PageBytes \in Nat \ {0} /\ z \in Nat
  BY Sizes
<1>2. y \in Nat /\ y > 0 /\ y - 1 = q * PageBytes + z
  BY <1>1
<1> HIDE DEF y, z
<1>3. RoundUpDivide(y, PageBytes) = PageOf(y - 1) + 1
  BY <1>2, RoundUpIs
<1>4. PageOf(q * PageBytes + z) = q + PageOf(z)
  BY <1>1, PageAdd
<1>5. RoundUpDivide(y, PageBytes) = q + PageOf(z) + 1
  BY <1>2, <1>3, <1>4
<1> QED BY <1>5 DEF y, z

\* The image of a finite set: the ends of ranges.
LEMMA EndsFinite ==
  ASSUME NEW S, IsFiniteSet(S) PROVE IsFiniteSet({r.end : r \in S})
<1> DEFINE T == {r.end : r \in S}
           f == [r \in S |-> r.end]
<1>1. f \in Surjection(S, T)
  BY DEF Surjection
<1> QED BY <1>1, FS_Surjection, Zenon

----------------------------------------------------------------------------
(* Where everything is: each start is computed from the one before.         *)

FirstPage == PageOf(KernelEnd + 1) + 1
FirstFrame == PageOf(machine.mbInfo.end + 1) + 1
TreePage == FirstPage + PageOf(BootstrapBytes + 1) + 1
StackPage == TreePage + RoundUpDivide(HeapTreeBytes, PageBytes)

\* The kernel's end, and what the loader guarantees.
LEMMA Kernel ==
  ASSUME machine \in Machines
  PROVE  /\ KernelEnd \in Nat /\ KernelEnd > 0
         /\ \A t \in machine.sections : t.start \in Nat /\ t.end \in Nat /\ t.end <= KernelEnd
         /\ machine.mbInfo.start \in Nat /\ machine.mbInfo.end \in Nat
         /\ KernelEnd < machine.mbInfo.start /\ machine.mbInfo.start <= machine.mbInfo.end
         /\ machine.guardPage \in Nat /\ (machine.guardPage + 1) * PageBytes <= KernelEnd
         /\ VgaPage < FirstPage
         /\ PageOf(KernelEnd + 1) + PageOf(BootstrapBytes + 1) + 2
              + RoundUpDivide(HeapTreeBytes, PageBytes) + IstStackPages * IstStacks <= WindowPages
<1> DEFINE m == machine
           ends == {s.end : s \in m.sections}
<1>1. /\ m.sections # {} /\ IsFiniteSet(m.sections)
      /\ \A s \in m.sections : s.start \in Nat /\ s.end \in Nat /\ s.start <= s.end /\ s.end < m.mbInfo.start
      /\ m.mbInfo.start \in Nat /\ m.mbInfo.end \in Nat /\ m.mbInfo.start <= m.mbInfo.end
      /\ \A s \in m.sections : VgaPage < PageOf(s.start)
  BY MachinesAssumption DEF WellFormed
<1>2. m.guardPage \in Nat /\ \E s \in m.sections : (m.guardPage + 1) * PageBytes <= s.end
  BY MachinesAssumption
<1>3. ends # {} /\ ends \in SUBSET Int /\ IsFiniteSet(ends)
  BY <1>1, EndsFinite
<1>4. Max(ends) \in ends /\ \A l \in ends : l <= Max(ends)
  BY <1>3, HighestNumber, Zenon
<1>5. /\ \E s \in m.sections : KernelEnd = s.end
      /\ \A s \in m.sections : s.end <= KernelEnd
  BY <1>4, Zenon DEF KernelEnd
<1>6. PICK s \in m.sections : KernelEnd = s.end
  BY <1>5
<1>7. KernelEnd \in Nat /\ KernelEnd < m.mbInfo.start
  BY <1>1, <1>6
<1>8. (m.guardPage + 1) * PageBytes <= KernelEnd
  <2>1. PICK t \in m.sections : (m.guardPage + 1) * PageBytes <= t.end
    BY <1>2
  <2>2. (m.guardPage + 1) * PageBytes \in Nat /\ t.end \in Nat /\ t.end <= KernelEnd
    BY <1>1, <1>2, <1>5, Sizes
  <2> QED BY <1>7, <2>1, <2>2
<1>9. KernelEnd > 0
  <2>1. (m.guardPage + 1) * PageBytes \in Nat \ {0}
    BY <1>2, Sizes
  <2> QED BY <1>7, <1>8, <2>1
<1>10. VgaPage < FirstPage
  <2>1. s.start <= KernelEnd + 1 /\ s.start \in Nat /\ KernelEnd + 1 \in Nat
    BY <1>1, <1>6, <1>7
  <2>2. PageOf(s.start) <= PageOf(KernelEnd + 1)
    BY <2>1, PageMonotone
  <2>3. VgaPage < PageOf(s.start) /\ PageOf(s.start) \in Nat /\ PageOf(KernelEnd + 1) \in Nat
    BY <1>1, <2>1, PageType
  <2> QED BY <2>2, <2>3, Sizes DEF FirstPage
<1>11. PageOf(KernelEnd + 1) + PageOf(BootstrapBytes + 1) + 2
         + RoundUpDivide(HeapTreeBytes, PageBytes) + IstStackPages * IstStacks <= WindowPages
  BY <1>6, WindowAssumption
<1> QED BY <1>1, <1>2, <1>5, <1>7, <1>8, <1>9, <1>10, <1>11

\* The numbers that the steps of init_memory compute.
LEMMA Layout ==
  ASSUME machine \in Machines
  PROVE  /\ FirstPage \in Nat /\ FirstFrame \in Nat /\ TreePage \in Nat /\ StackPage \in Nat
         /\ PageOf(KernelEnd - 1) < FirstPage /\ PageOf(KernelEnd - 1) < FirstFrame
         /\ PageOf(KernelEnd - 1) \in Nat
         /\ PageOf(BootstrapBytes - 1) \in Nat /\ PageOf(BootstrapBytes) \in Nat
         /\ PageOf(BootstrapBytes - 1) <= PageOf(BootstrapBytes)
         /\ FirstPage + PageOf(BootstrapBytes) < TreePage
         /\ PageOf(HeapTreeBytes - 1) \in Nat /\ PageOf(HeapTreeBytes) \in Nat
         /\ PageOf(HeapTreeBytes) <= PageOf(HeapTreeBytes - 1) + 1
         /\ StackPage = TreePage + PageOf(HeapTreeBytes - 1) + 1
         /\ IstStackPages * IstStacks \in Nat \ {0}
         /\ StackPage + IstStackPages * IstStacks <= WindowPages
         /\ FirstFrame + PageOf(BootstrapBytes) < WindowPages
         /\ machine.guardPage < FirstPage /\ machine.mbInfo.end + 1 < FirstFrame * PageBytes
<1> DEFINE K == KernelEnd
           B == BootstrapBytes
           T == HeapTreeBytes
           e == machine.mbInfo.end
<1>1. /\ K \in Nat /\ K > 0 /\ e \in Nat /\ K < e /\ B \in Nat /\ B > 0 /\ T \in Nat /\ T > 0
      /\ machine.guardPage \in Nat /\ (machine.guardPage + 1) * PageBytes <= K
  BY Kernel, Sizes
<1>2. /\ K + 1 \in Nat /\ K - 1 \in Nat /\ e + 1 \in Nat /\ B - 1 \in Nat /\ B + 1 \in Nat /\ T - 1 \in Nat
  BY <1>1
<1> HIDE DEF K, B, T, e
<1>3. /\ PageOf(K + 1) \in Nat /\ PageOf(K - 1) \in Nat /\ PageOf(e + 1) \in Nat /\ PageOf(B - 1) \in Nat
      /\ PageOf(B) \in Nat /\ PageOf(B + 1) \in Nat /\ PageOf(T - 1) \in Nat /\ PageOf(T) \in Nat
  BY <1>1, <1>2, PageType
<1>4. PageOf(K - 1) <= PageOf(K + 1) /\ PageOf(K - 1) <= PageOf(e + 1)
  BY <1>1, <1>2, PageMonotone
<1>5. PageOf(B - 1) <= PageOf(B) /\ PageOf(B) <= PageOf(B + 1)
  BY <1>1, <1>2, PageMonotone
<1>6. PageOf(T) <= PageOf(T - 1) + 1
  <2>1. 1 * PageBytes + (T - 1) \in Nat /\ T <= 1 * PageBytes + (T - 1)
    BY <1>1, Sizes
  <2>2. PageOf(T) <= PageOf(1 * PageBytes + (T - 1))
    BY <1>1, <2>1, PageMonotone
  <2>3. PageOf(1 * PageBytes + (T - 1)) = 1 + PageOf(T - 1)
    BY <1>2, PageAdd
  <2> QED BY <1>3, <2>2, <2>3
<1>7. RoundUpDivide(T, PageBytes) = PageOf(T - 1) + 1
  BY <1>1, RoundUpIs
<1>8. IstStackPages * IstStacks \in Nat \ {0}
  BY Sizes
<1>9. /\ FirstPage = PageOf(K + 1) + 1 /\ FirstFrame = PageOf(e + 1) + 1
      /\ TreePage = FirstPage + PageOf(B + 1) + 1
      /\ StackPage = TreePage + (PageOf(T - 1) + 1)
  BY <1>7 DEF FirstPage, FirstFrame, TreePage, StackPage, K, B, T, e
<1>10. StackPage + IstStackPages * IstStacks <= WindowPages
  <2> DEFINE w == IstStackPages * IstStacks
  <2>1. PageOf(K + 1) + PageOf(B + 1) + 2 + (PageOf(T - 1) + 1) + w <= WindowPages
    BY <1>7, Kernel DEF K, B, T
  <2>2. w \in Nat
    BY <1>8
  <2> HIDE DEF w
  <2>3. StackPage + w <= WindowPages
    BY <1>3, <1>9, <2>1, <2>2, Sizes
  <2> QED BY <2>3 DEF w
<1>11. FirstFrame + PageOf(B) < WindowPages
  BY <1>9, WindowAssumption DEF B, e
<1>12. machine.guardPage < FirstPage
  <2> DEFINE g == machine.guardPage
  <2>1. g + 1 \in Nat /\ g \in Nat
    BY <1>1
  <2>2. ~(K - 1 < g * PageBytes)
    <3>1. g * PageBytes \in Nat /\ (g + 1) * PageBytes = g * PageBytes + PageBytes /\ PageBytes >= 1
      BY <2>1, Sizes
    <3> QED BY <1>1, <3>1, Sizes
  <2>3. ~(PageOf(K - 1) < g)
    BY <1>2, <2>1, <2>2, PageBelow
  <2> QED BY <1>3, <1>4, <1>9, <2>1, <2>3
<1>13. e + 1 < FirstFrame * PageBytes
  <2>1. FirstFrame \in Nat /\ PageOf(e + 1) < FirstFrame
    BY <1>3, <1>9
  <2> QED BY <1>2, <2>1, PageBelow
<1> QED BY <1>3, <1>4, <1>5, <1>6, <1>8, <1>9, <1>10, <1>11, <1>12, <1>13 DEF K, B, T, e

----------------------------------------------------------------------------
(* What the helpers of the steps return.                                    *)

\* The frames are numbers, and those of the window are among them.
LEMMA FrameNumbers == Frames \subseteq Nat /\ 0 .. WindowPages \subseteq Frames
<1> DEFINE A == UNION {m.areas : m \in Machines}
           E == {r.end : r \in A}
           Z == {0} \union E
           N == Max(Z) \div PageBytes
<1>1. IsFiniteSet(A) /\ \A r \in A : r.end \in Nat
  BY MachinesAssumption DEF WellFormed
<1>2. IsFiniteSet(E)
  BY <1>1, EndsFinite
<1>3. IsFiniteSet({0})
  BY FS_Singleton
<1>4. IsFiniteSet(Z)
  BY <1>2, <1>3, FS_Union, Zenon
<1>5. Z \in SUBSET Nat /\ Z \in SUBSET Int /\ Z # {}
  BY <1>1
<1>6. Max(Z) \in Z
  BY <1>4, <1>5, HighestNumber, Zenon
<1>7. Max(Z) \in Nat
  BY <1>5, <1>6
<1>8. N \in Nat
  BY <1>7, Sizes, Quotient
<1>9. Frames = 0 .. (N + WindowPages)
  BY DEF Frames
<1> HIDE DEF N
<1> QED BY <1>8, <1>9, Sizes

\* What PhysicalAllocator::allocate hands out was free.
LEMMA HandoutsFree ==
  ASSUME NEW n, NEW fs \in Handouts(n) PROVE fs \subseteq free /\ Cardinality(fs) = n
<1>1. Cardinality(fs) = n /\ fs \in {{pick[i] : i \in 1 .. n} : pick \in [1 .. n -> free]}
  BY Zenon DEF Handouts
<1>2. PICK pick \in [1 .. n -> free] : fs = {pick[i] : i \in 1 .. n}
  BY <1>1, Zenon
<1>3. fs \subseteq free
  BY <1>2
<1> QED BY <1>1, <1>3

\* MapFresh gives every page of the set a free frame, each its own, and these are free no more.
LEMMA FreshFrames ==
  ASSUME NEW ps, IsFiniteSet(ps), MapFresh(ps)
  PROVE  \E f \in [ps -> free] :
           /\ \A p \in ps, q \in ps : f[p] = f[q] => p = q
           /\ map' = [p \in Window |-> IF p \in ps THEN f[p] ELSE map[p]]
           /\ free' \subseteq free /\ \A p \in ps : f[p] \notin free'
<1> DEFINE n == Cardinality(ps)
<1>1. PICK fs \in Handouts(n) :
        \E f \in [ps -> fs] :
          /\ {f[p] : p \in ps} = fs
          /\ map' = [p \in Window |-> IF p \in ps THEN f[p] ELSE map[p]]
          /\ free' = free \ fs
  BY DEF MapFresh
<1>2. PICK f \in [ps -> fs] :
          /\ {f[p] : p \in ps} = fs
          /\ map' = [p \in Window |-> IF p \in ps THEN f[p] ELSE map[p]]
          /\ free' = free \ fs
  BY <1>1
<1>3. fs \subseteq free /\ Cardinality(fs) = n
  BY HandoutsFree
<1>4. f \in Surjection(ps, fs)
  BY <1>2, Zenon DEF Surjection
<1>5. f \in Injection(ps, fs)
  BY <1>3, <1>4, FS_SurjSameCardinalityImpliesInj, Zenon
<1>6. \A p \in ps, q \in ps : f[p] = f[q] => p = q
  BY <1>5 DEF Injection, IsInjective
<1>7. f \in [ps -> free] /\ \A p \in ps : f[p] \in fs
  BY <1>3
<1> QED BY <1>2, <1>3, <1>6, <1>7

\* What range_sub leaves begins where the range begins or where the hole ends.
LEMMA RangeSubLeaves ==
  ASSUME NEW main, NEW sub, WellFormed(main), WellFormed(sub), NEW r \in RangeSub(main, sub)
  PROVE  /\ WellFormed(r)
         /\ \/ r.start = sub.end
            \/ r.start = main.start /\ r.end <= main.end /\ r.end <= sub.start /\ main.start < sub.start
<1>1. /\ main.start \in Nat /\ main.end \in Nat /\ main.start <= main.end
      /\ sub.start \in Nat /\ sub.end \in Nat /\ sub.start <= sub.end
  BY DEF WellFormed
<1>2. CASE r = [start |-> sub.end, end |-> main.end] /\ sub.end < main.end
  BY <1>1, <1>2 DEF WellFormed
<1>3. CASE r = [start |-> main.start, end |-> sub.start] /\ main.start < sub.start /\ sub.start < main.end
  BY <1>1, <1>3 DEF WellFormed
<1>4. CASE r = main /\ main.start < sub.start /\ main.end <= sub.start
  BY <1>1, <1>4 DEF WellFormed
<1>5. CASE sub.start <= main.start
  BY <1>1, <1>2, <1>5 DEF RangeSub
<1>6. CASE main.start < sub.start /\ sub.start < main.end
  BY <1>1, <1>2, <1>3, <1>6 DEF RangeSub
<1>7. CASE main.start < sub.start /\ main.end <= sub.start
  BY <1>1, <1>4, <1>7 DEF RangeSub
<1> QED BY <1>1, <1>5, <1>6, <1>7

LEMMA WithoutLeaves ==
  ASSUME NEW areas, \A a \in areas : WellFormed(a), NEW s \in Nat, NEW l \in Nat, s <= l + 1,
         NEW r \in Without(areas, s, l)
  PROVE  /\ WellFormed(r)
         /\ \/ r.start = l + 1
            \/ r.end <= s /\ \E a \in areas : r.start = a.start /\ r.end <= a.end /\ a.start < s
<1> DEFINE sub == [start |-> s, end |-> l + 1]
<1>1. PICK a \in areas : r \in RangeSub(a, sub)
  BY DEF Without
<1>2. WellFormed(sub) /\ WellFormed(a) /\ sub.start = s /\ sub.end = l + 1
  BY DEF WellFormed
<1> HIDE DEF sub
<1> QED BY <1>1, <1>2, RangeSubLeaves

\* The three holes: the ranges of a memory map that setup_physical_allocator_prelim returns.
LEMMA UsableRanges ==
  ASSUME machine \in Machines,
         NEW r \in Without(Without(Without(machine.areas, 0, KernelEnd),
                                   machine.mbInfo.start, machine.mbInfo.end),
                           FirstFrame * PageBytes, FirstFrame * PageBytes + BootstrapBytes)
  PROVE  /\ WellFormed(r)
         /\ \/ KernelEnd < r.start /\ r.end <= machine.mbInfo.start
            \/ machine.mbInfo.end < r.start /\ r.end <= FirstFrame * PageBytes
            \/ FirstFrame * PageBytes + BootstrapBytes < r.start
<1> DEFINE K == KernelEnd
           ms == machine.mbInfo.start
           me == machine.mbInfo.end
           F == FirstFrame * PageBytes
           B == BootstrapBytes
           A1 == Without(machine.areas, 0, K)
           A2 == Without(A1, ms, me)
<1>1. /\ K \in Nat /\ ms \in Nat /\ me \in Nat /\ K < ms /\ ms <= me
      /\ F \in Nat /\ me + 1 < F /\ B \in Nat
  BY Kernel, Layout, Sizes
<1>2. F + B \in Nat /\ F <= F + B + 1 /\ ms <= me + 1 /\ 0 <= K + 1 /\ 0 \in Nat
  BY <1>1
<1>3. \A a \in machine.areas : WellFormed(a)
  BY MachinesAssumption
<1>4. r \in Without(A2, F, F + B)
  OBVIOUS
<1> HIDE DEF K, ms, me, F, B
<1>5. ASSUME NEW a \in A1 PROVE WellFormed(a) /\ a.start = K + 1
  <2>1. /\ WellFormed(a)
        /\ \/ a.start = K + 1
           \/ a.end <= 0 /\ \E b \in machine.areas : a.start = b.start /\ a.end <= b.end /\ b.start < 0
    BY <1>1, <1>2, <1>3, WithoutLeaves
  <2>2. \A b \in machine.areas : ~(b.start < 0)
    BY <1>3 DEF WellFormed
  <2> QED BY <2>1, <2>2
<1> HIDE DEF A1
<1>6. ASSUME NEW a \in A2 PROVE WellFormed(a) /\ (a.start = me + 1 \/ (a.start = K + 1 /\ a.end <= ms))
  <2>1. /\ WellFormed(a)
        /\ \/ a.start = me + 1
           \/ a.end <= ms /\ \E b \in A1 : a.start = b.start /\ a.end <= b.end /\ b.start < ms
    BY <1>1, <1>2, <1>5, WithoutLeaves
  <2> QED BY <2>1, <1>5
<1> HIDE DEF A2
<1>7. /\ WellFormed(r)
      /\ \/ r.start = F + B + 1
         \/ r.end <= F /\ \E b \in A2 : r.start = b.start /\ r.end <= b.end /\ b.start < F
  BY <1>1, <1>2, <1>4, <1>6, WithoutLeaves
<1>8. CASE r.start = F + B + 1
  BY <1>1, <1>7, <1>8 DEF K, ms, me, F, B
<1>9. CASE r.end <= F /\ \E b \in A2 : r.start = b.start /\ r.end <= b.end /\ b.start < F
  <2>1. PICK b \in A2 : r.start = b.start /\ r.end <= b.end
    BY <1>9
  <2>2. b.end \in Nat /\ r.end \in Nat /\ (b.start = me + 1 \/ (b.start = K + 1 /\ b.end <= ms))
    BY <1>6, <1>7 DEF WellFormed
  <2>3. \/ K < r.start /\ r.end <= ms
        \/ me < r.start /\ r.end <= F
    BY <1>1, <1>9, <2>1, <2>2
  <2> QED BY <1>7, <2>3 DEF K, ms, me, F, B
<1> QED BY <1>7, <1>8, <1>9

----------------------------------------------------------------------------
(* The inductive invariant.                                                 *)

BootSpan == FirstPage .. (FirstPage + PageOf(BootstrapBytes - 1))
TreeSpan == TreePage .. (TreePage + PageOf(HeapTreeBytes - 1))
HasTree == phase \in {"rest", "remap", "guard_page", "ist", "done"}

\* Each part is where its step computed it to be.
PlaceInv ==
  /\ phase # "bootstrap_heap" => bootHeap = [page |-> FirstPage, frame |-> FirstFrame]
  /\ HasTree => heapTree = TreePage
  /\ stacks = IF phase = "done"
              THEN {(StackBase(n) + IstStackPages) * PageBytes : n \in 0 .. (IstStacks - 1)} ELSE {}

\* The ranges that are left begin where a hole ends, and end at the next hole.
UsableInv ==
  IF phase \in {"bootstrap_heap", "prelim"} THEN usable = {} /\ exists = {}
  ELSE \A r \in usable :
         /\ WellFormed(r)
         /\ \/ KernelEnd < r.start /\ r.end <= machine.mbInfo.start
            \/ machine.mbInfo.end < r.start /\ r.end <= FirstFrame * PageBytes
            \/ FirstFrame * PageBytes + BootstrapBytes < r.start

\* The trees are set up from the first one on.
TreesInv == \E n \in 0 .. U8Values : exists = 0 .. (n - 1)

\* A frame that the physical allocator has had: of a tree that exists, inside a usable range.
Owned(f) ==
  /\ f \in Frames /\ TreeOf(f) \in exists
  /\ \E r \in usable : r.start <= f * PageBytes /\ (f + 1) * PageBytes <= r.end
FreeInv == \A f \in free : Owned(f)

\* The pages whose frames came from the physical allocator.
FreshPages ==
  (IF HasTree THEN TreeSpan ELSE {}) \union (IF phase = "done" THEN StackPages ELSE {})

\* The kernel and the bootstrap heap stay on the frames they were put on, the other
\* pages have frames that the physical allocator gave away, each its own; and nothing
\* is mapped where the stacks and their guard pages will be.
MapInv ==
  /\ \A p \in KernelPages : map[p] = p
  /\ phase # "bootstrap_heap" => \A p \in BootSpan : map[p] = FirstFrame + (p - FirstPage)
  /\ \A p \in FreshPages : Owned(map[p]) /\ map[p] \notin free
  /\ \A p \in FreshPages, q \in FreshPages : map[p] = map[q] => p = q
  /\ phase \in {"guard_page", "ist"} => \A p \in Window : p > StackPage => map[p] = NoFrame
  /\ phase \in {"ist", "done"} => map[machine.guardPage] = NoFrame
  /\ phase = "done" => \A p \in GuardPages : p # StackPage => map[p] = NoFrame

MemoryInv == TypeOK /\ PlaceInv /\ UsableInv /\ TreesInv /\ FreeInv /\ MapInv

----------------------------------------------------------------------------
(* What the invariant says of frames and pages.                             *)

\* A frame that the physical allocator has had holds nothing that was there before it.
LEMMA OwnedOutside ==
  ASSUME machine \in Machines, UsableInv, NEW f, Owned(f)
  PROVE  /\ f \in Nat /\ PageOf(KernelEnd - 1) < f
         /\ f \notin PageOf(machine.mbInfo.start) .. PageOf(machine.mbInfo.end - 1)
         /\ f \notin FirstFrame .. (FirstFrame + PageOf(BootstrapBytes - 1))
<1> DEFINE K == KernelEnd
           ms == machine.mbInfo.start
           me == machine.mbInfo.end
           F == FirstFrame * PageBytes
           B == BootstrapBytes
           x == f * PageBytes
<1>1. f \in Nat /\ f + 1 \in Nat
  BY FrameNumbers DEF Owned
<1>2. /\ K \in Nat \ {0} /\ ms \in Nat /\ me \in Nat /\ K < ms /\ ms <= me
      /\ FirstFrame \in Nat /\ F \in Nat /\ me + 1 < F /\ B \in Nat \ {0} /\ PageBytes \in Nat \ {0}
  BY Kernel, Layout, Sizes
<1>3. x \in Nat /\ (f + 1) * PageBytes = x + PageBytes /\ PageOf(x) = f
  <2>1. x = x + 0 /\ PageOf(x + 0) = f + PageOf(0)
    BY <1>1, <1>2, PageAdd
  <2>2. PageOf(0) = 0
    BY <1>2 DEF PageOf
  <2> QED BY <1>1, <1>2, <2>1, <2>2
<1>4. PICK r \in usable : r.start <= x /\ x + PageBytes <= r.end
  BY <1>3 DEF Owned
<1>5. /\ r.start \in Nat /\ r.end \in Nat
      /\ \/ K < r.start /\ r.end <= ms
         \/ me < r.start /\ r.end <= F
         \/ F + B < r.start
  BY <1>4 DEF UsableInv, WellFormed
<1>6. /\ K - 1 \in Nat /\ me - 1 \in Nat /\ B - 1 \in Nat /\ F + (B - 1) \in Nat
      /\ PageOf(K - 1) \in Nat /\ PageOf(me - 1) \in Nat /\ PageOf(B - 1) \in Nat /\ PageOf(ms) \in Nat
  <2>1. K - 1 \in Nat /\ me - 1 \in Nat /\ B - 1 \in Nat /\ F + (B - 1) \in Nat
    BY <1>2
  <2> QED BY <1>2, <2>1, PageType
<1>7. PageOf(F + (B - 1)) = FirstFrame + PageOf(B - 1)
  BY <1>2, <1>6, PageAdd
<1> HIDE DEF x, F, K, ms, me, B
<1>8. K < r.start
  BY <1>2, <1>5
<1>9. PageOf(K - 1) < f
  <2>1. K - 1 < x
    BY <1>2, <1>3, <1>4, <1>5, <1>8
  <2> QED BY <1>1, <1>6, <2>1, PageBelow DEF x
<1>10. f < PageOf(ms) \/ PageOf(me - 1) < f
  <2>1. CASE r.end <= ms
    <3>1. ~(ms < x + PageBytes)
      BY <1>2, <1>3, <1>4, <1>5, <2>1
    <3>2. ~(PageOf(ms) < f + 1)
      BY <1>1, <1>2, <1>3, <3>1, PageBelow
    <3> QED BY <1>1, <1>6, <3>2
  <2>2. CASE me < r.start
    <3>1. me - 1 < x
      BY <1>2, <1>3, <1>4, <1>5, <2>2
    <3> QED BY <1>1, <1>6, <3>1, PageBelow DEF x
  <2> QED BY <1>2, <1>5, <2>1, <2>2
<1>11. f < FirstFrame \/ FirstFrame + PageOf(B - 1) < f
  <2>1. CASE r.end <= F
    <3>1. x < F
      BY <1>2, <1>3, <1>4, <1>5, <2>1
    <3>2. PageOf(x) < FirstFrame
      BY <1>2, <1>3, <3>1, PageBelow DEF F
    <3> QED BY <1>3, <3>2
  <2>2. CASE F + B < r.start
    <3>1. F + (B - 1) < x
      BY <1>2, <1>3, <1>4, <1>5, <2>2
    <3>2. PageOf(F + (B - 1)) < f
      BY <1>1, <1>6, <3>1, PageBelow DEF x
    <3> QED BY <1>7, <3>2
  <2>3. r.end <= F \/ F + B < r.start
    BY <1>2, <1>5
  <2> QED BY <2>1, <2>2, <2>3
<1>12. f \notin PageOf(ms) .. PageOf(me - 1) /\ f \notin FirstFrame .. (FirstFrame + PageOf(B - 1))
  BY <1>1, <1>2, <1>6, <1>10, <1>11
<1> QED BY <1>1, <1>9, <1>12 DEF K, ms, me, B

\* The stacks begin where the heap's tree ends, rounded up.
LEMMA StacksBegin ==
  ASSUME machine \in Machines, heapTree = TreePage
  PROVE  IstBase = StackPage
<1>1. /\ TreePage \in Nat /\ HeapTreeBytes \in Nat \ {0} /\ PageBytes \in Nat \ {0}
      /\ StackPage = TreePage + PageOf(HeapTreeBytes - 1) + 1 /\ PageOf(HeapTreeBytes - 1) \in Nat
  BY Layout, Sizes
<1>2. RoundUpDivide(TreePage * PageBytes + HeapTreeBytes, PageBytes) = TreePage + PageOf(HeapTreeBytes - 1) + 1
  BY <1>1, RoundUpAt
<1> QED BY <1>1, <1>2 DEF IstBase, HeapTreeEnd

\* The pages from one stack's guard page to the next.
LEMMA StackAt ==
  ASSUME machine \in Machines, heapTree = TreePage, NEW n \in 0 .. (IstStacks - 1)
  PROVE  /\ StackBase(n) \in Nat /\ StackPage <= StackBase(n)
         /\ StackBase(n) + IstStackPages <= StackPage + IstStackPages * IstStacks
         /\ \A k \in 0 .. (IstStacks - 1) :
              \/ StackBase(k) <= StackBase(n)
              \/ StackBase(n) + IstStackPages <= StackBase(k)
<1> DEFINE S == IstStackPages
<1>1. S \in Nat \ {0} /\ IstStacks \in Nat \ {0} /\ StackPage \in Nat /\ IstBase = StackPage
  BY Sizes, Layout, StacksBegin
<1>2. \A k \in 0 .. (IstStacks - 1) : StackBase(k) = StackPage + S * k /\ S * k \in Nat
  BY <1>1 DEF StackBase
<1> HIDE DEF S
<1>3. ASSUME NEW a \in Nat, NEW b \in Nat, a < b PROVE S * a + S <= S * b
  <2>1. S * (a + 1) <= S * b
    BY <1>1, <1>3, ProductMonotone
  <2>2. S * (a + 1) = S * a + S
    BY <1>1
  <2> QED BY <2>1, <2>2
<1>4. n \in Nat /\ n < IstStacks
  BY <1>1
<1>5. S * n + S <= S * IstStacks /\ S * IstStacks \in Nat
  BY <1>1, <1>3, <1>4
<1>6. StackBase(n) \in Nat /\ StackPage <= StackBase(n) /\ StackBase(n) + S <= StackPage + S * IstStacks
  BY <1>1, <1>2, <1>5
<1>7. ASSUME NEW k \in 0 .. (IstStacks - 1)
      PROVE  StackBase(k) <= StackBase(n) \/ StackBase(n) + S <= StackBase(k)
  <2>1. CASE n < k
    <3>1. k \in Nat /\ S * n + S <= S * k
      BY <1>1, <1>3, <1>4, <2>1
    <3> QED BY <1>1, <1>2, <3>1
  <2>2. CASE k < n
    <3>1. k \in Nat /\ S * k + S <= S * n
      BY <1>1, <1>3, <1>4, <2>2
    <3> QED BY <1>1, <1>2, <3>1
  <2>3. CASE k = n
    BY <1>6, <2>3
  <2> QED BY <1>1, <1>4, <2>1, <2>2, <2>3
<1> QED BY <1>6, <1>7 DEF S

\* The stacks' pages are above the tree's, and inside the window.
LEMMA StacksPlaced ==
  ASSUME machine \in Machines, heapTree = TreePage
  PROVE  /\ StackPages \subseteq (StackPage + 1) .. (WindowPages - 1)
         /\ GuardPages \subseteq StackPage .. (WindowPages - 1)
         /\ StackPages \intersect GuardPages = {} /\ IsFiniteSet(StackPages)
<1> DEFINE w == IstStackPages * IstStacks
<1>1. StackPage \in Nat /\ w \in Nat \ {0} /\ StackPage + w <= WindowPages /\ IstBase = StackPage
  BY Layout, StacksBegin
<1>2. WindowPages \in Nat /\ IstStackPages \in Nat \ {0} /\ IstStacks \in Nat \ {0}
  BY Sizes
<1>3. StackPages = (StackPage .. (StackPage + w - 1)) \ GuardPages
  BY <1>1 DEF StackPages
<1>4. \A n \in 0 .. (IstStacks - 1) : StackBase(n) \in Nat /\ StackPage <= StackBase(n)
                                        /\ StackBase(n) + IstStackPages <= StackPage + w
  BY StackAt
<1>5. StackBase(0) = StackPage /\ 0 \in 0 .. (IstStacks - 1)
  BY <1>1, <1>2 DEF StackBase
<1> HIDE DEF w
<1>6. GuardPages \subseteq StackPage .. (WindowPages - 1)
  <2>1. ASSUME NEW n \in 0 .. (IstStacks - 1) PROVE StackBase(n) \in StackPage .. (WindowPages - 1)
    BY <1>1, <1>2, <1>4
  <2> QED BY <2>1 DEF GuardPages
<1>7. StackPage \in GuardPages
  BY <1>5, Zenon DEF GuardPages
<1>8. StackPages \subseteq (StackPage + 1) .. (WindowPages - 1)
  BY <1>1, <1>2, <1>3, <1>7
<1>9. IsFiniteSet((StackPage + 1) .. (WindowPages - 1))
  <2>1. StackPage + 1 \in Int /\ WindowPages - 1 \in Int
    BY <1>1, <1>2
  <2> QED BY <2>1, FS_Interval
<1>10. IsFiniteSet(StackPages)
  BY <1>8, <1>9, FS_Subset
<1> QED BY <1>3, <1>6, <1>8, <1>10

\* The kernel's pages are below the bootstrap heap's.
LEMMA KernelBelow ==
  ASSUME machine \in Machines
  PROVE  /\ KernelPages \subseteq Window /\ machine.guardPage \notin KernelPages
         /\ \A p \in KernelPages : p \in Nat /\ p <= PageOf(KernelEnd - 1)
<1>1. ASSUME NEW p \in KernelPages PROVE p \in Nat /\ p <= PageOf(KernelEnd - 1)
  <2>1. p \in Nat
    BY Sizes DEF KernelPages, Window
  <2>2. PICK s \in machine.sections : p * PageBytes < s.end
    BY DEF KernelPages
  <2>3. KernelEnd - 1 \in Nat /\ KernelEnd \in Nat /\ s.end \in Nat /\ s.end <= KernelEnd /\ p * PageBytes \in Nat
    BY <2>1, Kernel, Sizes
  <2>4. ~(KernelEnd - 1 < p * PageBytes)
    BY <2>2, <2>3
  <2>5. ~(PageOf(KernelEnd - 1) < p)
    BY <2>1, <2>3, <2>4, PageBelow
  <2> QED BY <2>1, <2>3, <2>5, PageType
<1> QED BY <1>1 DEF KernelPages

\* The pages that the steps of init_memory use for the bootstrap heap and the heap's tree.
LEMMA SpansUsed ==
  ASSUME machine \in Machines, PlaceInv
  PROVE  /\ BootstrapPages = IF phase # "bootstrap_heap" THEN BootSpan ELSE {}
         /\ TreePages = IF HasTree THEN TreeSpan ELSE {}
<1>1. /\ FirstPage \in Nat /\ TreePage \in Nat /\ PageBytes \in Nat \ {0}
      /\ BootstrapBytes - 1 \in Nat /\ HeapTreeBytes - 1 \in Nat
      /\ BootstrapBytes \in Nat /\ HeapTreeBytes \in Nat
  BY Layout, Sizes
<1>2. ASSUME NEW q \in Nat, NEW x \in Nat, x - 1 \in Nat
      PROVE  BytePages(q * PageBytes, x) = q .. (q + PageOf(x - 1))
  <2> DEFINE z == x - 1
             b == q * PageBytes
  <2>1. b \in Nat /\ z \in Nat /\ b + x - 1 = b + z /\ b = b + 0 /\ 0 \in Nat
    BY <1>1, <1>2
  <2>2. PageOf(b + z) = q + PageOf(z) /\ PageOf(b + 0) = q + PageOf(0)
    BY <1>2, <2>1, PageAdd
  <2>3. PageOf(0) = 0
    BY <1>1 DEF PageOf
  <2>4. BytePages(b, x) = PageOf(b) .. PageOf(b + x - 1)
    BY DEF BytePages
  <2> HIDE DEF b, z
  <2>5. BytePages(b, x) = q .. (q + PageOf(z))
    BY <1>2, <2>1, <2>2, <2>3, <2>4
  <2> QED BY <2>5 DEF b, z
<1>3. /\ BytePages(FirstPage * PageBytes, BootstrapBytes) = BootSpan
      /\ BytePages(TreePage * PageBytes, HeapTreeBytes) = TreeSpan
  BY <1>1, <1>2 DEF BootSpan, TreeSpan
<1>4. After("bootstrap") <=> phase # "bootstrap_heap"
  BY DEF After
<1>5. After("tree") <=> HasTree
  BY DEF After, HasTree
<1>6. phase # "bootstrap_heap" => bootHeap.page = FirstPage
  BY DEF PlaceInv
<1>7. HasTree => heapTree = TreePage
  BY DEF PlaceInv
<1> QED BY <1>3, <1>4, <1>5, <1>6, <1>7 DEF BootstrapPages, TreePages

\* The spans follow each other.
LEMMA SpansApart ==
  ASSUME machine \in Machines
  PROVE  /\ BootSpan \subseteq Window /\ TreeSpan \subseteq Window
         /\ \A p \in BootSpan : p \in Nat /\ PageOf(KernelEnd - 1) < p /\ FirstPage <= p /\ p < TreePage
         /\ \A p \in TreeSpan : p \in Nat /\ TreePage <= p /\ p < StackPage
<1> DEFINE w == IstStackPages * IstStacks
<1>1. /\ FirstPage \in Nat /\ TreePage \in Nat /\ StackPage \in Nat
      /\ PageOf(KernelEnd - 1) \in Nat /\ PageOf(KernelEnd - 1) < FirstPage
      /\ PageOf(BootstrapBytes - 1) \in Nat /\ PageOf(BootstrapBytes) \in Nat
      /\ PageOf(BootstrapBytes - 1) <= PageOf(BootstrapBytes)
      /\ FirstPage + PageOf(BootstrapBytes) < TreePage
      /\ PageOf(HeapTreeBytes - 1) \in Nat
      /\ StackPage = TreePage + PageOf(HeapTreeBytes - 1) + 1
      /\ w \in Nat \ {0} /\ StackPage + w <= WindowPages /\ WindowPages \in Nat
  BY Layout, Sizes
<1> HIDE DEF w
<1> QED BY <1>1 DEF BootSpan, TreeSpan, Window

\* The bytes below a stack's top lie above its guard page, on the stack's own pages.
LEMMA IstUsed ==
  ASSUME machine \in Machines, PlaceInv
  PROVE  IstPages \subseteq IF phase = "done" THEN StackPages ELSE {}
<1>1. CASE phase # "done"
  BY <1>1 DEF PlaceInv, IstPages
<1>2. CASE phase = "done"
  <2> DEFINE S == IstStackPages
             P == PageBytes
             w == IstStackPages * IstStacks
  <2>1. heapTree = TreePage
    BY <1>2 DEF PlaceInv, HasTree
  <2>2. IstBase = StackPage /\ StackPage \in Nat /\ S \in Nat \ {0} /\ P \in Nat \ {0} /\ w \in Nat
    BY <2>1, StacksBegin, Layout, Sizes
  <2>3. stacks = {(StackBase(n) + S) * P : n \in 0 .. (IstStacks - 1)}
    BY <1>2 DEF PlaceInv
  <2> SUFFICES ASSUME NEW top \in stacks,
                      NEW p \in PageOf(top - 1 - (S - 2) * P) .. PageOf(top - 1)
               PROVE  p \in StackPages
    BY <1>2 DEF IstPages
  <2>4. PICK n \in 0 .. (IstStacks - 1) : top = (StackBase(n) + S) * P
    BY <2>3
  <2> DEFINE b == StackBase(n)
             lo == b + 1
             hi == b + S - 1
             rest == P - 1
  <2>5. /\ b \in Nat /\ StackPage <= b /\ b + S <= StackPage + w
        /\ \A k \in 0 .. (IstStacks - 1) : StackBase(k) <= b \/ b + S <= StackBase(k)
    BY <2>1, StackAt
  <2> HIDE DEF S, P, w, b
  <2>6. lo \in Nat /\ hi \in Nat /\ rest \in Nat /\ rest < P
    BY <2>2, <2>5
  <2>7. top - 1 = hi * P + rest
    BY <2>2, <2>4, <2>5 DEF b
  <2>8. top - 1 - (S - 2) * P = lo * P + rest
    BY <2>2, <2>4, <2>5 DEF b
  <2> HIDE DEF lo, hi, rest
  <2>9. PageOf(hi * P + rest) = hi + PageOf(rest) /\ PageOf(lo * P + rest) = lo + PageOf(rest)
    BY <2>6, PageAdd DEF P
  <2>10. PageOf(rest) = 0
    <3>1. rest < 1 * P /\ 1 \in Nat
      BY <2>2, <2>6
    <3>2. PageOf(rest) < 1
      BY <2>6, <3>1, PageBelow DEF P
    <3> QED BY <2>6, <3>2, PageType
  <2>11. p \in lo .. hi
    BY <2>6, <2>7, <2>8, <2>9, <2>10
  <2>12. p \in Nat /\ b < p /\ p < b + S
    BY <2>2, <2>5, <2>11 DEF lo, hi
  <2>13. p \in StackPage .. (StackPage + w - 1)
    BY <2>2, <2>5, <2>12
  <2>14. p \notin GuardPages
    <3> SUFFICES ASSUME NEW k \in 0 .. (IstStacks - 1), p = StackBase(k) PROVE FALSE
      BY DEF GuardPages
    <3>1. StackBase(k) <= b \/ b + S <= StackBase(k)
      BY <2>5
    <3> QED BY <2>2, <2>5, <2>12, <3>1
  <2> QED BY <2>2, <2>13, <2>14 DEF StackPages, w
<1> QED BY <1>1, <1>2

\* The pages that Heap::init maps.
LEMMA TreePlaced ==
  ASSUME machine \in Machines, bootHeap = [page |-> FirstPage, frame |-> FirstFrame]
  PROVE  /\ HeapTreePages = TreePage .. (TreePage + PageOf(HeapTreeBytes))
         /\ Min(HeapTreePages) = TreePage /\ IsFiniteSet(HeapTreePages)
         /\ HeapTreePages \subseteq Window /\ TreeSpan \subseteq HeapTreePages
<1> DEFINE B == BootstrapBytes + 1
           w == IstStackPages * IstStacks
           q == PageOf(HeapTreeBytes)
           z == PageOf(HeapTreeBytes - 1)
<1>1. /\ FirstPage \in Nat /\ TreePage \in Nat /\ B \in Nat /\ PageBytes \in Nat \ {0}
      /\ z \in Nat /\ q \in Nat /\ q <= z + 1 /\ StackPage = TreePage + z + 1
      /\ w \in Nat \ {0} /\ StackPage + w <= WindowPages /\ WindowPages \in Nat
  BY Layout, Sizes
<1>2. z <= q
  <2>1. HeapTreeBytes - 1 \in Nat /\ HeapTreeBytes \in Nat /\ HeapTreeBytes - 1 <= HeapTreeBytes
    BY Sizes
  <2> QED BY <2>1, PageMonotone
<1>3. HeapTreePage = TreePage
  <2>1. bootHeap.page * PageBytes + BootstrapBytes + 1 = FirstPage * PageBytes + B
    BY <1>1, Sizes
  <2>2. PageOf(FirstPage * PageBytes + B) = FirstPage + PageOf(B)
    BY <1>1, PageAdd
  <2>3. HeapTreePage = PageOf(FirstPage * PageBytes + B) + 1
    BY <2>1 DEF HeapTreePage
  <2> QED BY <2>2, <2>3 DEF TreePage
<1>4. HeapTreePages = TreePage .. (TreePage + q)
  BY <1>3 DEF HeapTreePages, PageOf
<1>5. TreeSpan = TreePage .. (TreePage + z)
  BY DEF TreeSpan
<1> HIDE DEF B, w, q, z
<1>6. HeapTreePages \subseteq Window /\ TreeSpan \subseteq HeapTreePages
  BY <1>1, <1>2, <1>4, <1>5 DEF Window
<1>7. IsFiniteSet(HeapTreePages)
  BY <1>1, <1>4, FS_Interval
<1>8. HeapTreePages \in SUBSET Nat /\ TreePage \in HeapTreePages
  BY <1>1, <1>4
<1>9. Min(HeapTreePages) \in HeapTreePages /\ Min(HeapTreePages) <= TreePage
  BY <1>8, LowestNumber
<1>10. Min(HeapTreePages) = TreePage
  BY <1>1, <1>4, <1>9
<1> QED BY <1>4, <1>6, <1>7, <1>10 DEF q

\* The pages that remap_kernel carries over, and those it maps to the frames of their number.
LEMMA RemapPlaced ==
  ASSUME machine \in Machines, bootHeap = [page |-> FirstPage, frame |-> FirstFrame],
         heapTree = TreePage
  PROVE  /\ BootSpan \subseteq RemappedPages /\ TreeSpan \subseteq RemappedPages
         /\ \A p \in RemappedPages : p \in Nat /\ FirstPage <= p /\ p <= StackPage
         /\ KernelPages \subseteq SectionPages
         /\ \A p \in SectionPages \union {VgaPage} : p \in Nat /\ p <= FirstPage
<1> DEFINE b == PageOf(BootstrapBytes - 1)
           t == PageOf(HeapTreeBytes - 1)
<1>1. /\ FirstPage \in Nat /\ TreePage \in Nat /\ StackPage \in Nat /\ b \in Nat /\ t \in Nat
      /\ FirstPage + b + 1 <= TreePage /\ StackPage = TreePage + t + 1
      /\ BootstrapBytes \in Nat /\ BootstrapBytes > 0
  BY Layout, Sizes
<1>2. RoundUpDivide(FirstPage * PageBytes + BootstrapBytes, PageBytes) = FirstPage + b + 1
  BY <1>1, RoundUpAt
<1>3. RoundUpDivide(HeapTreeEnd, PageBytes) = StackPage
  BY StacksBegin DEF IstBase
<1>4. RemappedPages = (FirstPage .. (FirstPage + b + 1)) \union (TreePage .. StackPage)
  BY <1>2, <1>3 DEF RemappedPages
<1>5. BootSpan = FirstPage .. (FirstPage + b) /\ TreeSpan = TreePage .. (TreePage + t)
  BY DEF BootSpan, TreeSpan
<1> HIDE DEF b, t
<1>6. BootSpan \subseteq RemappedPages /\ TreeSpan \subseteq RemappedPages
  BY <1>1, <1>4, <1>5
<1>7. \A p \in RemappedPages : p \in Nat /\ FirstPage <= p /\ p <= StackPage
  BY <1>1, <1>4
<1>8. VgaPage \in Nat /\ VgaPage <= FirstPage
  BY <1>1, Kernel, Sizes
<1>9. ASSUME NEW s \in machine.sections
      PROVE  /\ s.start \in Nat /\ s.end \in Nat /\ PageOf(s.start) \in Nat
             /\ RoundUpDivide(s.end, PageBytes) \in Nat /\ RoundUpDivide(s.end, PageBytes) <= FirstPage
             /\ \A p \in Nat : p * PageBytes < s.end => p < RoundUpDivide(s.end, PageBytes)
  <2> DEFINE e == s.end - 1
  <2>1. s.start \in Nat /\ s.end \in Nat /\ s.end <= KernelEnd /\ KernelEnd \in Nat /\ PageBytes \in Nat \ {0}
    BY Kernel, Sizes
  <2>2. PageOf(s.start) \in Nat
    BY <2>1, PageType
  <2>3. CASE s.end = 0
    <3>1. PageBytes - 1 \in Nat /\ PageBytes - 1 < 1 * PageBytes /\ 1 \in Nat
      BY <2>1
    <3>2. PageOf(PageBytes - 1) < 1 /\ PageOf(PageBytes - 1) \in Nat
      BY <3>1, PageBelow, PageType
    <3>3. RoundUpDivide(s.end, PageBytes) = PageOf(PageBytes - 1)
      BY <2>1, <2>3 DEF RoundUpDivide, PageOf
    <3>4. \A p \in Nat : ~(p * PageBytes < s.end)
      BY <2>1, <2>3
    <3>5. RoundUpDivide(s.end, PageBytes) = 0
      BY <3>2, <3>3
    <3> QED BY <1>1, <2>1, <2>2, <3>4, <3>5
  <2>4. CASE s.end > 0
    <3>1. e \in Nat /\ e <= KernelEnd + 1 /\ KernelEnd + 1 \in Nat
      BY <2>1, <2>4
    <3>2. RoundUpDivide(s.end, PageBytes) = PageOf(e) + 1
      BY <2>1, <2>4, RoundUpIs
    <3>3. PageOf(e) <= PageOf(KernelEnd + 1) /\ PageOf(e) \in Nat /\ PageOf(KernelEnd + 1) \in Nat
      BY <3>1, PageMonotone, PageType
    <3>4. PageOf(e) + 1 <= FirstPage
      BY <3>3 DEF FirstPage
    <3>5. ASSUME NEW p \in Nat, p * PageBytes < s.end PROVE p < PageOf(e) + 1
      <4>1. ~(e < p * PageBytes)
        <5>1. p * PageBytes \in Nat
          BY <2>1
        <5> QED BY <2>1, <3>5, <5>1
      <4>2. ~(PageOf(e) < p)
        BY <3>1, <4>1, PageBelow
      <4> QED BY <3>3, <4>2
    <3> QED BY <2>1, <2>2, <3>2, <3>3, <3>4, <3>5
  <2> QED BY <2>1, <2>3, <2>4
<1>10. \A p \in SectionPages : p \in Nat /\ p <= FirstPage
  <2> SUFFICES ASSUME NEW s \in machine.sections,
                      NEW p \in PageOf(s.start) .. RoundUpDivide(s.end, PageBytes)
               PROVE  p \in Nat /\ p <= FirstPage
    BY DEF SectionPages
  <2> QED BY <1>1, <1>9
<1>11. ASSUME NEW p \in KernelPages PROVE p \in SectionPages
  <2>1. p \in Nat
    BY KernelBelow
  <2>2. PICK s \in machine.sections : p * PageBytes < s.end /\ s.start < (p + 1) * PageBytes
    BY DEF KernelPages
  <2>3. p + 1 \in Nat /\ s.start \in Nat
    BY <1>9, <2>1
  <2>4. PageOf(s.start) < p + 1
    BY <2>2, <2>3, PageBelow
  <2>5. p < RoundUpDivide(s.end, PageBytes)
    BY <1>9, <2>1, <2>2
  <2>6. p \in PageOf(s.start) .. RoundUpDivide(s.end, PageBytes)
    BY <1>9, <2>1, <2>4, <2>5
  <2> QED BY <2>6 DEF SectionPages
<1> QED BY <1>6, <1>7, <1>8, <1>10, <1>11

----------------------------------------------------------------------------
(* The invariant implies the properties.                                    *)

LEMMA InvReserved == ASSUME MemoryInv PROVE ReservedNeverFree
<1>1. machine \in Machines /\ PlaceInv /\ UsableInv /\ \A f \in free : Owned(f)
  BY DEF MemoryInv, TypeOK, FreeInv
<1> SUFFICES ASSUME NEW f \in free, f \in ReservedFrames PROVE FALSE
  BY DEF ReservedNeverFree
<1>2. /\ f \in Nat /\ PageOf(KernelEnd - 1) < f
      /\ f \notin PageOf(machine.mbInfo.start) .. PageOf(machine.mbInfo.end - 1)
      /\ f \notin FirstFrame .. (FirstFrame + PageOf(BootstrapBytes - 1))
  BY <1>1, OwnedOutside
<1>3. PageOf(KernelEnd - 1) \in Nat /\ FirstFrame \in Nat /\ BootstrapBytes - 1 \in Nat /\ PageBytes \in Nat
  BY <1>1, Layout, Sizes
<1>4. f \notin 0 .. PageOf(KernelEnd - 1)
  BY <1>2, <1>3
<1>5. After("bootstrap") /\ f \in BytePages(bootHeap.frame * PageBytes, BootstrapBytes)
  BY <1>2, <1>4 DEF ReservedFrames
<1>6. bootHeap.frame = FirstFrame
  BY <1>1, <1>5 DEF After, PlaceInv
<1> DEFINE z == BootstrapBytes - 1
           b == FirstFrame * PageBytes
<1>7. b \in Nat /\ b + BootstrapBytes - 1 = b + z /\ b = b + 0
  BY <1>3, Sizes
<1>8. PageOf(b + z) = FirstFrame + PageOf(z) /\ PageOf(b + 0) = FirstFrame + PageOf(0) /\ PageOf(0) = 0
  <2>1. PageOf(b + z) = FirstFrame + PageOf(z) /\ PageOf(b + 0) = FirstFrame + PageOf(0)
    BY <1>3, PageAdd
  <2>2. PageOf(0) = 0
    BY Sizes DEF PageOf
  <2> QED BY <2>1, <2>2
<1>9. f \in PageOf(b) .. PageOf(b + BootstrapBytes - 1)
  BY <1>5, <1>6 DEF BytePages
<1> HIDE DEF b, z
<1>10. f \in FirstFrame .. (FirstFrame + PageOf(z))
  BY <1>3, <1>7, <1>8, <1>9
<1> QED BY <1>2, <1>10 DEF z

\* In which part a page in use is.
LEMMA UsedWhere ==
  ASSUME machine \in Machines, PlaceInv, NEW p \in UsedPages
  PROVE  \/ p \in KernelPages
         \/ phase # "bootstrap_heap" /\ p \in BootSpan
         \/ p \in FreshPages
  BY SpansUsed, IstUsed DEF UsedPages, FreshPages

\* The pages with frames of the physical allocator are in the window, above the others.
LEMMA FreshPlaced ==
  ASSUME machine \in Machines, PlaceInv
  PROVE  FreshPages \subseteq Window /\ \A p \in FreshPages : p \in Nat /\ TreePage <= p
<1>1. CASE HasTree
  <2>1. heapTree = TreePage /\ TreePage \in Nat /\ StackPage \in Nat /\ WindowPages \in Nat
    BY <1>1, Layout, Sizes DEF PlaceInv
  <2>2. StackPages \subseteq (StackPage + 1) .. (WindowPages - 1)
    BY <2>1, StacksPlaced
  <2>3. TreeSpan \subseteq Window /\ \A p \in TreeSpan : p \in Nat /\ TreePage <= p
    BY SpansApart
  <2>4. TreePage <= StackPage
    <3>1. StackPage = TreePage + PageOf(HeapTreeBytes - 1) + 1 /\ PageOf(HeapTreeBytes - 1) \in Nat
      BY Layout
    <3> QED BY <2>1, <3>1
  <2>5. StackPages \subseteq Window /\ \A p \in StackPages : p \in Nat /\ TreePage <= p
    BY <2>1, <2>2, <2>4 DEF Window
  <2> QED BY <2>3, <2>5 DEF FreshPages
<1>2. CASE ~HasTree
  BY <1>2 DEF FreshPages, HasTree
<1> QED BY <1>1, <1>2

LEMMA InvLayout == ASSUME MemoryInv PROVE LayoutApart
<1>1. machine \in Machines /\ PlaceInv
  BY DEF MemoryInv, TypeOK
<1>2. /\ FirstPage \in Nat /\ TreePage \in Nat /\ StackPage \in Nat /\ PageOf(KernelEnd - 1) \in Nat
      /\ PageOf(KernelEnd - 1) < FirstPage /\ FirstPage < TreePage
  <2>1. /\ FirstPage \in Nat /\ TreePage \in Nat /\ StackPage \in Nat /\ PageOf(KernelEnd - 1) \in Nat
        /\ PageOf(KernelEnd - 1) < FirstPage
        /\ FirstPage + PageOf(BootstrapBytes) < TreePage /\ PageOf(BootstrapBytes) \in Nat
    BY <1>1, Layout
  <2> QED BY <2>1
<1>3. /\ KernelPages \subseteq Window
      /\ \A p \in KernelPages : p \in Nat /\ p <= PageOf(KernelEnd - 1)
  BY <1>1, KernelBelow
<1>4. /\ BootstrapPages \subseteq BootSpan /\ TreePages \subseteq FreshPages
      /\ TreePages \subseteq TreeSpan /\ IstPages \subseteq FreshPages
      /\ IstPages \subseteq IF phase = "done" THEN StackPages ELSE {}
  BY <1>1, SpansUsed, IstUsed DEF FreshPages
<1>5. /\ BootSpan \subseteq Window
      /\ \A p \in BootSpan : p \in Nat /\ PageOf(KernelEnd - 1) < p /\ p < TreePage
      /\ \A p \in TreeSpan : p \in Nat /\ p < StackPage
  BY <1>1, SpansApart
<1>6. FreshPages \subseteq Window /\ \A p \in FreshPages : p \in Nat /\ TreePage <= p
  BY <1>1, FreshPlaced
<1>7. \A p \in IstPages : p \in Nat /\ StackPage < p
  <2>1. CASE phase = "done"
    <3>1. heapTree = TreePage
      BY <1>1, <2>1 DEF PlaceInv, HasTree
    <3>2. StackPages \subseteq (StackPage + 1) .. (WindowPages - 1)
      BY <1>1, <3>1, StacksPlaced
    <3> QED BY <1>2, <1>4, <2>1, <3>2, Sizes
  <2>2. CASE phase # "done"
    BY <1>4, <2>2
  <2> QED BY <2>1, <2>2
<1>8. UsedPages \subseteq Window
  BY <1>3, <1>4, <1>5, <1>6 DEF UsedPages
<1>9. KernelPages \intersect (BootstrapPages \union TreePages \union IstPages) = {}
  <2> SUFFICES ASSUME NEW p \in KernelPages, p \in BootSpan \union FreshPages PROVE FALSE
    BY <1>4
  <2> QED BY <1>2, <1>3, <1>5, <1>6
<1>10. BootstrapPages \intersect (TreePages \union IstPages) = {}
  <2> SUFFICES ASSUME NEW p \in BootSpan, p \in FreshPages PROVE FALSE
    BY <1>4
  <2> QED BY <1>2, <1>5, <1>6
<1>11. TreePages \intersect IstPages = {}
  <2> SUFFICES ASSUME NEW p \in TreeSpan, p \in IstPages PROVE FALSE
    BY <1>4
  <2> QED BY <1>2, <1>5, <1>7
<1> QED BY <1>8, <1>9, <1>10, <1>11 DEF LayoutApart

LEMMA InvPrivate == ASSUME MemoryInv PROVE FramesPrivate
<1> DEFINE K == PageOf(KernelEnd - 1)
           b == PageOf(BootstrapBytes - 1)
<1>1. machine \in Machines /\ PlaceInv /\ UsableInv /\ FreeInv /\ MapInv /\ NoFrame \notin Nat
  BY Sizes DEF MemoryInv, TypeOK
<1>2. FirstPage \in Nat /\ FirstFrame \in Nat /\ K \in Nat /\ K < FirstFrame /\ b \in Nat
  BY <1>1, Layout
<1>3. ASSUME NEW f, Owned(f) PROVE f \in Nat /\ K < f /\ f \notin FirstFrame .. (FirstFrame + b)
  BY <1>1, <1>3, OwnedOutside
<1>4. \A f \in free : Owned(f)
  BY <1>1 DEF FreeInv
<1> DEFINE Lent(p) == p \in FreshPages
           Boot(p) == phase # "bootstrap_heap" /\ p \in BootSpan
<1>5. ASSUME NEW p \in KernelPages PROVE map[p] = p /\ map[p] \in 0 .. K
  <2>1. map[p] = p
    BY <1>1 DEF MapInv
  <2>2. p \in Nat /\ p <= K
    BY <1>1, KernelBelow
  <2> QED BY <1>2, <2>1, <2>2
<1>6. ASSUME NEW p, Boot(p)
      PROVE  p \in Nat /\ map[p] = FirstFrame + (p - FirstPage) /\ map[p] \in FirstFrame .. (FirstFrame + b)
  <2>1. p \in FirstPage .. (FirstPage + b)
    BY <1>6 DEF BootSpan
  <2>2. map[p] = FirstFrame + (p - FirstPage)
    BY <1>1, <1>6 DEF MapInv
  <2> HIDE DEF b
  <2> QED BY <1>2, <2>1, <2>2
<1>7. ASSUME NEW p, Lent(p)
      PROVE  map[p] \in Nat /\ K < map[p] /\ map[p] \notin FirstFrame .. (FirstFrame + b) /\ map[p] \notin free
  <2>1. Owned(map[p]) /\ map[p] \notin free
    BY <1>1, <1>7 DEF MapInv
  <2> QED BY <1>3, <2>1
<1>8. \A p \in FreshPages, q \in FreshPages : map[p] = map[q] => p = q
  BY <1>1 DEF MapInv
<1>9. \A p \in UsedPages : p \in KernelPages \/ Boot(p) \/ Lent(p)
  BY <1>1, UsedWhere
<1> HIDE DEF K, b
<1>10. \A f \in free : f \in Nat /\ K < f /\ f \notin FirstFrame .. (FirstFrame + b)
  BY <1>3, <1>4
<1> SUFFICES ASSUME NEW p \in UsedPages
             PROVE  /\ map[p] # NoFrame /\ map[p] \notin free
                    /\ \A q \in UsedPages \ {p} : map[q] # map[p]
  BY DEF FramesPrivate
<1>11. map[p] # NoFrame /\ map[p] \notin free
  <2>1. CASE p \in KernelPages
    <3>1. map[p] \in 0 .. K
      BY <1>5, <2>1
    <3> QED BY <1>1, <1>2, <1>10, <3>1
  <2>2. CASE Boot(p)
    <3>1. map[p] \in FirstFrame .. (FirstFrame + b)
      BY <1>6, <2>2
    <3> QED BY <1>1, <1>2, <1>10, <3>1
  <2>3. CASE Lent(p)
    BY <1>1, <1>7, <2>3
  <2> QED BY <1>9, <2>1, <2>2, <2>3
<1>12. ASSUME NEW q \in UsedPages \ {p}, map[q] = map[p] PROVE FALSE
  <2>1. CASE p \in KernelPages
    <3>1. map[p] = p /\ map[p] \in 0 .. K
      BY <1>5, <2>1
    <3>2. CASE q \in KernelPages
      BY <1>5, <1>12, <3>1, <3>2
    <3>3. CASE Boot(q)
      BY <1>2, <1>6, <1>12, <3>1, <3>3
    <3>4. CASE Lent(q)
      BY <1>2, <1>7, <1>12, <3>1, <3>4
    <3> QED BY <1>9, <3>2, <3>3, <3>4
  <2>2. CASE Boot(p)
    <3>1. p \in Nat /\ map[p] = FirstFrame + (p - FirstPage) /\ map[p] \in FirstFrame .. (FirstFrame + b)
      BY <1>6, <2>2
    <3>2. CASE q \in KernelPages
      <4>1. map[q] \in 0 .. K
        BY <1>5, <3>2
      <4> QED BY <1>2, <1>12, <3>1, <4>1
    <3>3. CASE Boot(q)
      <4>1. q \in Nat /\ map[q] = FirstFrame + (q - FirstPage)
        BY <1>6, <3>3
      <4> QED BY <1>2, <1>12, <3>1, <4>1
    <3>4. CASE Lent(q)
      BY <1>7, <1>12, <3>1, <3>4
    <3> QED BY <1>9, <3>2, <3>3, <3>4
  <2>3. CASE Lent(p)
    <3>1. map[p] \in Nat /\ K < map[p] /\ map[p] \notin FirstFrame .. (FirstFrame + b)
      BY <1>7, <2>3
    <3>2. CASE q \in KernelPages
      <4>1. map[q] \in 0 .. K
        BY <1>5, <3>2
      <4> QED BY <1>2, <1>12, <3>1, <4>1
    <3>3. CASE Boot(q)
      <4>1. map[q] \in FirstFrame .. (FirstFrame + b)
        BY <1>6, <3>3
      <4> QED BY <1>12, <3>1, <4>1
    <3>4. CASE Lent(q)
      BY <1>8, <1>12, <2>3, <3>4
    <3> QED BY <1>9, <3>2, <3>3, <3>4
  <2> QED BY <1>9, <2>1, <2>2, <2>3
<1> QED BY <1>11, <1>12

LEMMA InvGuarded == ASSUME MemoryInv PROVE StacksGuarded
<1> SUFFICES ASSUME phase = "done"
             PROVE  /\ map[machine.guardPage] = NoFrame
                    /\ \A top \in stacks : LET guard == PageOf(top) - IstStackPages
                                           IN  guard # IstBase => map[guard] = NoFrame
  BY DEF StacksGuarded
<1>1. machine \in Machines /\ PlaceInv /\ MapInv
  BY DEF MemoryInv, TypeOK
<1>2. map[machine.guardPage] = NoFrame /\ \A p \in GuardPages : p # StackPage => map[p] = NoFrame
  BY <1>1 DEF MapInv
<1>3. heapTree = TreePage
  BY <1>1 DEF PlaceInv, HasTree
<1>4. IstBase = StackPage /\ IstStackPages \in Nat /\ PageBytes \in Nat \ {0}
  BY <1>1, <1>3, StacksBegin, Sizes
<1>5. ASSUME NEW top \in stacks PROVE PageOf(top) - IstStackPages \in GuardPages
  <2>1. PICK n \in 0 .. (IstStacks - 1) : top = (StackBase(n) + IstStackPages) * PageBytes
    BY <1>1 DEF PlaceInv
  <2> DEFINE q == StackBase(n) + IstStackPages
  <2>2. StackBase(n) \in Nat /\ q \in Nat
    BY <1>1, <1>3, <1>4, StackAt
  <2> HIDE DEF q
  <2>3. PageOf(q * PageBytes + 0) = q + PageOf(0) /\ q * PageBytes + 0 = q * PageBytes
    BY <1>4, <2>2, PageAdd
  <2>4. PageOf(0) = 0
    BY <1>4 DEF PageOf
  <2>5. PageOf(top) = q
    BY <2>1, <2>2, <2>3, <2>4 DEF q
  <2>6. PageOf(top) - IstStackPages = StackBase(n)
    BY <1>4, <2>2, <2>5 DEF q
  <2> QED BY <2>6, Zenon DEF GuardPages
<1> QED BY <1>2, <1>4, <1>5

----------------------------------------------------------------------------
(* What a step leaves alone.                                                *)

\* The machine does not change, and so neither does what is computed from it.
LEMMA SameMachine ==
  ASSUME machine' = machine
  PROVE  /\ KernelEnd' = KernelEnd /\ FirstPage' = FirstPage /\ FirstFrame' = FirstFrame
         /\ TreePage' = TreePage /\ StackPage' = StackPage /\ KernelPages' = KernelPages
         /\ BootSpan' = BootSpan /\ TreeSpan' = TreeSpan
  BY DEF KernelEnd, FirstPage, FirstFrame, TreePage, StackPage, KernelPages, BootSpan, TreeSpan

LEMMA SameStacks ==
  ASSUME heapTree' = heapTree
  PROVE  /\ StackPages' = StackPages /\ GuardPages' = GuardPages
         /\ \A n : StackBase(n)' = StackBase(n)
  BY DEF StackPages, GuardPages, StackBase, IstBase, HeapTreeEnd

LEMMA OwnedKept ==
  ASSUME usable' = usable, exists \subseteq exists', NEW f, Owned(f) PROVE Owned(f)'
  BY DEF Owned

\* A step that maps nothing: frames that pages have do not become free.
LEMMA MapKept ==
  ASSUME MapInv, machine' = machine, map' = map, usable' = usable, exists \subseteq exists',
         phase # "bootstrap_heap", phase' \notin {"guard_page", "ist", "done"},
         HasTree' => HasTree, \A p \in FreshPages : map[p] \notin free'
  PROVE  MapInv'
<1>1. KernelPages' = KernelPages /\ FirstPage' = FirstPage /\ FirstFrame' = FirstFrame /\ BootSpan' = BootSpan
  BY SameMachine
<1>2. FreshPages' \subseteq FreshPages
  <2>1. TreeSpan' = TreeSpan /\ phase' # "done"
    BY SameMachine
  <2>2. FreshPages' = IF HasTree' THEN TreeSpan' ELSE {}
    BY <2>1 DEF FreshPages
  <2> QED BY <2>1, <2>2 DEF FreshPages
<1>3. (\A p \in KernelPages : map[p] = p)'
  BY <1>1 DEF MapInv
<1>4. (phase # "bootstrap_heap" => \A p \in BootSpan : map[p] = FirstFrame + (p - FirstPage))'
  BY <1>1 DEF MapInv
<1>5. (\A p \in FreshPages : Owned(map[p]) /\ map[p] \notin free)'
  <2> SUFFICES ASSUME NEW p \in FreshPages' PROVE Owned(map[p])' /\ map[p] \notin free'
    OBVIOUS
  <2>1. p \in FreshPages /\ Owned(map[p])
    BY <1>2 DEF MapInv
  <2>2. Owned(map[p])'
    BY <2>1 DEF Owned
  <2> QED BY <2>1, <2>2
<1>6. (\A p \in FreshPages, q \in FreshPages : map[p] = map[q] => p = q)'
  BY <1>2 DEF MapInv
<1> QED BY <1>3, <1>4, <1>5, <1>6 DEF MapInv

\* The next tree of the physical allocator is none of those that exist.
LEMMA TreeAdded ==
  ASSUME TreesInv, NextTree \in TreeIndex, exists' = exists \union {NextTree}
  PROVE  TreesInv' /\ NextTree \notin exists
<1>1. PICK n \in 0 .. U8Values : exists = 0 .. (n - 1)
  BY DEF TreesInv
<1>2. U8Values \in Nat /\ n \in Nat /\ n - 1 \in Int
  BY Sizes
<1>3. Cardinality(0 .. (n - 1)) = IF 0 > n - 1 THEN 0 ELSE (n - 1) - 0 + 1
  BY <1>2, FS_Interval
<1>4. NextTree = n
  BY <1>1, <1>2, <1>3 DEF NextTree
<1>5. n + 1 \in 0 .. U8Values /\ exists' = 0 .. ((n + 1) - 1) /\ NextTree \notin exists
  BY <1>1, <1>2, <1>4 DEF TreeIndex
<1> QED BY <1>5 DEF TreesInv

\* How many trees there are.
LEMMA TreeCount == ASSUME TreesInv PROVE NextTree \in Nat
<1>1. PICK n \in 0 .. U8Values : exists = 0 .. (n - 1)
  BY DEF TreesInv
<1>2. 0 \in Int /\ n - 1 \in Int
  BY Sizes
<1>3. IsFiniteSet(0 .. (n - 1))
  BY <1>2, FS_Interval
<1> QED BY <1>1, <1>3, FS_CardinalityType DEF NextTree

\* The frames of the new tree are free; nobody had them.
LEMMA NewTree ==
  ASSUME TypeOK, PlaceInv, UsableInv, TreesInv, FreeInv, MapInv, NextTree \in TreeIndex,
         exists' = exists \union {NextTree}, usable' = usable, map' = map, machine' = machine,
         bootHeap' = bootHeap, heapTree' = heapTree, stacks' = stacks, phase' = phase,
         phase \in {"prelim_trees", "rest"},
         NEW fs \in SUBSET free, free' = (free \ fs) \union TreeFrames(NextTree)
  PROVE  /\ PlaceInv' /\ UsableInv' /\ TreesInv' /\ FreeInv' /\ MapInv'
         /\ exists' \subseteq TreeIndex /\ free' \subseteq Frames
<1>1. TreesInv' /\ NextTree \notin exists /\ exists \subseteq exists'
  BY TreeAdded
<1>2. PlaceInv'
  <2>1. FirstPage' = FirstPage /\ FirstFrame' = FirstFrame /\ TreePage' = TreePage
    BY SameMachine
  <2> QED BY <2>1 DEF PlaceInv, HasTree
<1>3. UsableInv'
  <2>1. KernelEnd' = KernelEnd /\ FirstFrame' = FirstFrame
    BY SameMachine
  <2> QED BY <2>1 DEF UsableInv
<1>4. \A f \in TreeFrames(NextTree) :
        /\ f \in Frames /\ TreeOf(f) = NextTree
        /\ \E r \in usable : r.start <= f * PageBytes /\ (f + 1) * PageBytes <= r.end
  BY DEF TreeFrames
<1>5. FreeInv'
  <2> SUFFICES ASSUME NEW f \in free' PROVE Owned(f)'
    BY DEF FreeInv
  <2>1. CASE f \in free
    BY <1>1, <2>1, OwnedKept DEF FreeInv
  <2>2. CASE f \in TreeFrames(NextTree)
    BY <1>4, <2>2 DEF Owned
  <2> QED BY <2>1, <2>2
<1>6. \A p \in FreshPages : map[p] \notin free'
  <2> SUFFICES ASSUME NEW p \in FreshPages PROVE map[p] \notin free'
    OBVIOUS
  <2>1. Owned(map[p]) /\ map[p] \notin free
    BY DEF MapInv
  <2>2. TreeOf(map[p]) \in exists
    BY <2>1 DEF Owned
  <2>3. map[p] \notin TreeFrames(NextTree)
    BY <1>1, <1>4, <2>2
  <2> QED BY <2>1, <2>3
<1>7. MapInv'
  <2>1. HasTree' => HasTree
    BY DEF HasTree
  <2> QED BY <1>1, <1>6, <2>1, MapKept
<1>8. exists' \subseteq TreeIndex /\ free' \subseteq Frames
  BY <1>4 DEF TypeOK
<1> QED BY <1>1, <1>2, <1>3, <1>5, <1>7, <1>8

----------------------------------------------------------------------------
(* The invariant is inductive: the steps before there are new page tables.  *)

LEMMA MemoryStart == ASSUME Init PROVE MemoryInv
<1>1. /\ machine \in Machines /\ phase = "bootstrap_heap" /\ map = [p \in Window |-> p] /\ bitmap = {}
      /\ bootHeap = [page |-> 0, frame |-> 0] /\ heapTree = 0 /\ trees = 0 /\ usable = {} /\ exists = {}
      /\ free = {} /\ storage = [i \in TreeIndex |-> NotStored] /\ heapMapped = {} /\ stacks = {}
  BY DEF Init
<1>2. 0 \in Window /\ 0 \in Frames /\ Window \subseteq Frames /\ 0 \in TreeIndex
  BY FrameNumbers, Sizes DEF Window, TreeIndex
<1>3. TypeOK
  BY <1>1, <1>2 DEF TypeOK, Phases
<1>4. PlaceInv /\ UsableInv /\ FreeInv
  BY <1>1 DEF PlaceInv, HasTree, UsableInv, FreeInv
<1>5. TreesInv
  <2>1. 0 .. (0 - 1) = {} /\ 0 \in 0 .. U8Values
    BY Sizes
  <2> QED BY <1>1, <2>1 DEF TreesInv
<1>6. MapInv
  <2>1. KernelPages \subseteq Window
    BY DEF KernelPages
  <2>2. FreshPages = {}
    BY <1>1 DEF FreshPages, HasTree
  <2> QED BY <1>1, <2>1, <2>2 DEF MapInv
<1> QED BY <1>3, <1>4, <1>5, <1>6 DEF MemoryInv

LEMMA SetupBootstrapHeapStep == ASSUME MemoryInv, SetupBootstrapHeap PROVE MemoryInv'
<1> DEFINE q == PageOf(BootstrapBytes)
           pages == FirstPage .. (FirstPage + q)
<1>1. TypeOK /\ PlaceInv /\ UsableInv /\ TreesInv /\ FreeInv /\ MapInv /\ machine \in Machines
  BY DEF MemoryInv, TypeOK
<1>2. /\ phase = "bootstrap_heap" /\ phase' = "prelim"
      /\ map' = [p \in Window |-> IF p \in pages THEN FirstFrame + (p - FirstPage) ELSE map[p]]
      /\ bootHeap' = [page |-> FirstPage, frame |-> FirstFrame]
  BY DEF SetupBootstrapHeap, FirstPage, FirstFrame, PageOf
<1>3. UNCHANGED <<machine, bitmap, heapTree, trees, usable, exists, free, storage, heapMapped, stacks>>
  BY DEF SetupBootstrapHeap
<1>4. /\ FirstPage \in Nat /\ FirstFrame \in Nat /\ q \in Nat /\ TreePage \in Nat /\ FirstPage + q < TreePage
      /\ FirstFrame + q < WindowPages /\ WindowPages \in Nat /\ StackPage \in Nat /\ TreePage <= StackPage
      /\ PageOf(KernelEnd - 1) \in Nat /\ PageOf(KernelEnd - 1) < FirstPage /\ StackPage <= WindowPages
      /\ PageOf(BootstrapBytes - 1) \in Nat /\ PageOf(BootstrapBytes - 1) <= q
  <2>1. IstStackPages * IstStacks \in Nat /\ StackPage + IstStackPages * IstStacks <= WindowPages
    BY <1>1, Layout
  <2>2. StackPage \in Nat /\ WindowPages \in Nat
    BY <1>1, Layout, Sizes
  <2>3. StackPage <= WindowPages
    <3> DEFINE w == IstStackPages * IstStacks
    <3> HIDE DEF w
    <3> QED BY <2>1, <2>2 DEF w
  <2> QED BY <1>1, <2>3, Layout, Sizes
<1>5. /\ KernelEnd' = KernelEnd /\ FirstPage' = FirstPage /\ FirstFrame' = FirstFrame
      /\ KernelPages' = KernelPages /\ BootSpan' = BootSpan
  BY <1>3, SameMachine
<1> HIDE DEF q
<1>6. FirstPage \in Window /\ FirstFrame \in Frames /\ \A p \in pages : FirstFrame + (p - FirstPage) \in Frames
  <2>1. FirstPage \in Window /\ FirstFrame \in 0 .. WindowPages
    BY <1>4 DEF Window
  <2>2. \A p \in pages : FirstFrame + (p - FirstPage) \in 0 .. WindowPages
    BY <1>4
  <2> QED BY <2>1, <2>2, FrameNumbers
<1>7. TypeOK'
  <2>1. map' \in [Window -> Frames \union {NoFrame}]
    BY <1>1, <1>2, <1>6 DEF TypeOK
  <2>2. bootHeap' \in [page : Window, frame : Frames] /\ phase' \in Phases
    BY <1>2, <1>6 DEF Phases
  <2> QED BY <1>1, <1>3, <2>1, <2>2 DEF TypeOK
<1>8. PlaceInv' /\ UsableInv'
  BY <1>1, <1>2, <1>3, <1>5 DEF PlaceInv, HasTree, UsableInv
<1>9. TreesInv' /\ FreeInv'
  BY <1>1, <1>3 DEF TreesInv, FreeInv, Owned
<1>10. MapInv'
  <2>1. FreshPages' = {}
    BY <1>2 DEF FreshPages, HasTree
  <2>2. ASSUME NEW p \in KernelPages PROVE map'[p] = p
    <3>1. p \in Window /\ p \in Nat /\ p <= PageOf(KernelEnd - 1)
      BY <1>1, KernelBelow
    <3>2. p \notin pages /\ map[p] = p
      BY <1>1, <1>4, <3>1 DEF MapInv
    <3> QED BY <1>2, <3>1, <3>2
  <2>3. ASSUME NEW p \in BootSpan PROVE map'[p] = FirstFrame + (p - FirstPage)
    <3>1. p \in Window
      BY <1>1, SpansApart
    <3>2. p \in pages
      BY <1>4 DEF BootSpan
    <3> QED BY <1>2, <3>1, <3>2
  <2> QED BY <1>2, <1>5, <2>1, <2>2, <2>3 DEF MapInv
<1> QED BY <1>7, <1>8, <1>9, <1>10 DEF MemoryInv

LEMMA SetupPrelimStep == ASSUME MemoryInv, SetupPhysicalAllocatorPrelim PROVE MemoryInv'
<1>1. TypeOK /\ PlaceInv /\ UsableInv /\ TreesInv /\ FreeInv /\ MapInv /\ machine \in Machines
  BY DEF MemoryInv, TypeOK
<1>2. /\ phase = "prelim" /\ phase' = "prelim_trees"
      /\ trees' = RoundUpDivide(HighestAddress, TreeBytes) % U8Values
  BY DEF SetupPhysicalAllocatorPrelim
<1>3. UNCHANGED <<machine, map, bitmap, bootHeap, heapTree, exists, free, storage, heapMapped, stacks>>
  BY DEF SetupPhysicalAllocatorPrelim
<1>4. bootHeap.frame = FirstFrame
  BY <1>1, <1>2 DEF PlaceInv
<1>5. usable' = Without(Without(Without(machine.areas, 0, KernelEnd),
                                machine.mbInfo.start, machine.mbInfo.end),
                        FirstFrame * PageBytes, FirstFrame * PageBytes + BootstrapBytes)
  BY <1>4 DEF SetupPhysicalAllocatorPrelim
<1>6. ASSUME NEW r \in usable'
      PROVE  /\ WellFormed(r)
             /\ \/ KernelEnd < r.start /\ r.end <= machine.mbInfo.start
                \/ machine.mbInfo.end < r.start /\ r.end <= FirstFrame * PageBytes
                \/ FirstFrame * PageBytes + BootstrapBytes < r.start
  BY <1>1, <1>5, UsableRanges
<1>7. KernelEnd' = KernelEnd /\ FirstPage' = FirstPage /\ FirstFrame' = FirstFrame /\ TreePage' = TreePage
      /\ KernelPages' = KernelPages /\ BootSpan' = BootSpan
  BY <1>3, SameMachine
<1>8. trees' \in TreeIndex
  <2> DEFINE E == {a.end - 1 : a \in machine.areas}
             f == [a \in machine.areas |-> a.end - 1]
             x == RoundUpDivide(HighestAddress, TreeBytes)
  <2>1. machine.areas # {} /\ machine.areas \in SUBSET (UNION {m.areas : m \in Machines})
    BY <1>1, MachinesAssumption
  <2>2. IsFiniteSet(machine.areas)
    BY <2>1, MachinesAssumption, FS_Subset
  <2>3. f \in Surjection(machine.areas, E)
    BY DEF Surjection
  <2>4. IsFiniteSet(E)
    BY <2>2, <2>3, FS_Surjection, Zenon
  <2>5. \A a \in machine.areas : a.end - 1 \in Int
    BY <1>1, MachinesAssumption DEF WellFormed
  <2>6. E \in SUBSET Int /\ E # {}
    BY <2>1, <2>5
  <2>7. Max(E) \in E
    BY <2>4, <2>6, HighestNumber, Zenon
  <2>8. HighestAddress \in Int
    BY <2>6, <2>7 DEF HighestAddress
  <2>9. x \in Int
    BY <2>8, Sizes DEF RoundUpDivide
  <2> HIDE DEF x
  <2>10. x % U8Values \in 0 .. (U8Values - 1)
    BY <2>9, Sizes
  <2> QED BY <1>2, <2>10 DEF TreeIndex, x
<1>9. TypeOK'
  <2>1. \A r \in usable' : WellFormed(r)
    BY <1>6
  <2>2. phase' \in Phases
    BY <1>2 DEF Phases
  <2> QED BY <1>1, <1>3, <1>8, <2>1, <2>2 DEF TypeOK
<1>10. UsableInv'
  BY <1>2, <1>3, <1>6, <1>7 DEF UsableInv
<1>11. PlaceInv'
  BY <1>1, <1>2, <1>3, <1>7 DEF PlaceInv, HasTree
<1>12. free' = {} /\ exists' = {}
  <2>1. exists = {}
    BY <1>1, <1>2 DEF UsableInv
  <2>2. free = {}
    BY <1>1, <2>1 DEF FreeInv, Owned
  <2> QED BY <1>3, <2>1, <2>2
<1>13. FreeInv' /\ TreesInv'
  BY <1>1, <1>3, <1>12 DEF FreeInv, TreesInv
<1>14. MapInv'
  <2>1. FreshPages' = {}
    BY <1>2 DEF FreshPages, HasTree
  <2> QED BY <1>1, <1>2, <1>3, <1>7, <2>1 DEF MapInv
<1> QED BY <1>9, <1>10, <1>11, <1>13, <1>14 DEF MemoryInv

LEMMA InitPrelimTreeStep == ASSUME MemoryInv, InitPrelimTree PROVE MemoryInv'
<1> DEFINE unused == (0 .. (Slots - 1)) \ bitmap
<1>1. TypeOK /\ PlaceInv /\ UsableInv /\ TreesInv /\ FreeInv /\ MapInv
  BY DEF MemoryInv
<1>2. /\ phase = "prelim_trees" /\ NextTree < PrelimTrees /\ unused # {}
      /\ bitmap' = bitmap \union {Min(unused)}
      /\ storage' = [storage EXCEPT ![NextTree] = Min(unused)]
      /\ exists' = exists \union {NextTree}
      /\ free' = free \union TreeFrames(NextTree)
  BY DEF InitPrelimTree
<1>3. UNCHANGED <<machine, phase, map, bootHeap, heapTree, trees, usable, heapMapped, stacks>>
  BY DEF InitPrelimTree
<1>4. NextTree \in TreeIndex
  BY <1>1, <1>2, TreeCount, Sizes DEF TreeIndex
<1>5. free' = (free \ {}) \union TreeFrames(NextTree) /\ {} \in SUBSET free
  BY <1>2
<1>6. /\ PlaceInv' /\ UsableInv' /\ TreesInv' /\ FreeInv' /\ MapInv'
      /\ exists' \subseteq TreeIndex /\ free' \subseteq Frames
  BY <1>1, <1>2, <1>3, <1>4, <1>5, NewTree
<1>7. TypeOK'
  <2>1. unused \in SUBSET Nat
    BY Sizes
  <2>2. Min(unused) \in unused
    BY <1>2, <2>1, LowestNumber
  <2>3. Min(unused) \in 0 .. (Slots - 1) /\ Min(unused) \in 0 .. OnHeap
    BY <2>2, Sizes DEF OnHeap
  <2>4. bitmap' \subseteq 0 .. (Slots - 1)
    BY <1>1, <1>2, <2>3 DEF TypeOK
  <2>5. storage' \in [TreeIndex -> {NotStored} \union 0 .. OnHeap]
    <3> HIDE DEF unused
    <3> QED BY <1>1, <1>2, <2>3 DEF TypeOK
  <2> QED BY <1>1, <1>3, <1>6, <2>4, <2>5 DEF TypeOK
<1> QED BY <1>6, <1>7 DEF MemoryInv

LEMMA InitRestTreeStep == ASSUME MemoryInv, InitRestTree PROVE MemoryInv'
<1>1. TypeOK /\ PlaceInv /\ UsableInv /\ TreesInv /\ FreeInv /\ MapInv
  BY DEF MemoryInv
<1>2. /\ phase = "rest" /\ NextTree <= trees
      /\ exists' = exists \union {NextTree}
      /\ storage' = [storage EXCEPT ![NextTree] = OnHeap]
      /\ heapMapped' = heapMapped \union {NextTree}
  BY DEF InitRestTree
<1>3. UNCHANGED <<machine, phase, map, bitmap, bootHeap, heapTree, trees, usable, stacks>>
  BY DEF InitRestTree
<1>4. PICK fs \in Handouts(1) : free' = (free \ fs) \union TreeFrames(NextTree)
  BY DEF InitRestTree
<1>5. fs \in SUBSET free
  BY HandoutsFree
<1>6. NextTree \in TreeIndex
  <2>1. trees \in 0 .. (U8Values - 1) /\ NextTree \in Nat
    BY <1>1, TreeCount DEF TypeOK, TreeIndex
  <2> QED BY <1>2, <2>1, Sizes DEF TreeIndex
<1>7. /\ PlaceInv' /\ UsableInv' /\ TreesInv' /\ FreeInv' /\ MapInv'
      /\ exists' \subseteq TreeIndex /\ free' \subseteq Frames
  BY <1>1, <1>2, <1>3, <1>4, <1>5, <1>6, NewTree
<1>8. TypeOK'
  <2>1. OnHeap \in 0 .. OnHeap
    BY Sizes DEF OnHeap
  <2>2. storage' \in [TreeIndex -> {NotStored} \union 0 .. OnHeap]
    BY <1>1, <1>2, <2>1 DEF TypeOK
  <2>3. heapMapped' \subseteq TreeIndex
    BY <1>1, <1>2, <1>6 DEF TypeOK
  <2> QED BY <1>1, <1>3, <1>7, <2>2, <2>3 DEF TypeOK
<1> QED BY <1>7, <1>8 DEF MemoryInv

\* A step that only goes on to the next phase: the end of a loop, or a panic.
LEMMA PhaseStep ==
  ASSUME MemoryInv,
         UNCHANGED <<machine, map, bitmap, bootHeap, heapTree, trees, usable, exists, free, storage,
                     heapMapped, stacks>>,
         phase \notin {"bootstrap_heap", "prelim", "done"}, phase' \in {"heap", "remap", "panic"},
         HasTree' => HasTree
  PROVE  MemoryInv'
<1>1. TypeOK /\ PlaceInv /\ UsableInv /\ TreesInv /\ FreeInv /\ MapInv
  BY DEF MemoryInv
<1>2. TypeOK'
  BY <1>1 DEF TypeOK, Phases
<1>3. PlaceInv'
  <2>1. FirstPage' = FirstPage /\ FirstFrame' = FirstFrame /\ TreePage' = TreePage
    BY SameMachine
  <2>2. stacks = {}
    BY <1>1 DEF PlaceInv
  <2> QED BY <1>1, <2>1, <2>2 DEF PlaceInv
<1>4. UsableInv'
  <2>1. KernelEnd' = KernelEnd /\ FirstFrame' = FirstFrame
    BY SameMachine
  <2> QED BY <1>1, <2>1 DEF UsableInv
<1>5. TreesInv' /\ FreeInv'
  BY <1>1 DEF TreesInv, FreeInv, Owned
<1>6. MapInv'
  <2>1. \A p \in FreshPages : map[p] \notin free'
    BY <1>1 DEF MapInv
  <2> QED BY <1>1, <2>1, MapKept
<1> QED BY <1>2, <1>3, <1>4, <1>5, <1>6 DEF MemoryInv

LEMMA PanicStep ==
  ASSUME MemoryInv, Panic, phase \notin {"bootstrap_heap", "prelim", "done"} PROVE MemoryInv'
  BY PhaseStep DEF Panic, HasTree

LEMMA LoopsEnd == ASSUME MemoryInv, InitPrelimDone \/ InitRestDone PROVE MemoryInv'
<1>1. CASE InitPrelimDone
  BY <1>1, PhaseStep DEF InitPrelimDone, HasTree
<1>2. CASE InitRestDone
  BY <1>2, PhaseStep DEF InitRestDone, HasTree
<1> QED BY <1>1, <1>2

LEMMA HeapInitStep == ASSUME MemoryInv, HeapInit PROVE MemoryInv'
<1>0. PICK ps : ps = HeapTreePages
  OBVIOUS
<1>1. TypeOK /\ PlaceInv /\ UsableInv /\ TreesInv /\ FreeInv /\ MapInv /\ machine \in Machines
  BY DEF MemoryInv, TypeOK
<1>2. phase = "heap" /\ phase' = "rest" /\ heapTree' = Min(ps) /\ MapFresh(ps)
  BY <1>0 DEF HeapInit, MapFresh
<1>3. UNCHANGED <<machine, bitmap, bootHeap, trees, usable, exists, storage, heapMapped, stacks>>
  BY DEF HeapInit
<1>4. bootHeap = [page |-> FirstPage, frame |-> FirstFrame]
  BY <1>1, <1>2 DEF PlaceInv
<1>5. /\ ps = TreePage .. (TreePage + PageOf(HeapTreeBytes)) /\ Min(ps) = TreePage
      /\ IsFiniteSet(ps) /\ ps \subseteq Window /\ TreeSpan \subseteq ps
  BY <1>0, <1>1, <1>4, TreePlaced
<1>6. PICK f \in [ps -> free] :
        /\ \A p \in ps, q \in ps : f[p] = f[q] => p = q
        /\ map' = [p \in Window |-> IF p \in ps THEN f[p] ELSE map[p]]
        /\ free' \subseteq free /\ \A p \in ps : f[p] \notin free'
  <2>1. IsFiniteSet(ps) /\ MapFresh(ps)
    BY <1>2, <1>5
  <2> QED BY <2>1, FreshFrames, Zenon
<1>7. /\ KernelEnd' = KernelEnd /\ FirstPage' = FirstPage /\ FirstFrame' = FirstFrame /\ TreePage' = TreePage
      /\ KernelPages' = KernelPages /\ BootSpan' = BootSpan /\ TreeSpan' = TreeSpan
  BY <1>3, SameMachine
<1>8. /\ TreePage \in Nat /\ \A p \in ps : p \in Nat /\ TreePage <= p
      /\ PageOf(KernelEnd - 1) < TreePage /\ PageOf(KernelEnd - 1) \in Nat
  <2>1. /\ TreePage \in Nat /\ PageOf(HeapTreeBytes) \in Nat /\ FirstPage \in Nat /\ PageOf(KernelEnd - 1) \in Nat
        /\ PageOf(KernelEnd - 1) < FirstPage /\ PageOf(BootstrapBytes) \in Nat
        /\ FirstPage + PageOf(BootstrapBytes) < TreePage
    BY <1>1, Layout
  <2> QED BY <1>5, <2>1
<1>9. TypeOK'
  <2>1. free \subseteq Frames /\ map \in [Window -> Frames \union {NoFrame}]
    BY <1>1 DEF TypeOK
  <2>2. map' \in [Window -> Frames \union {NoFrame}] /\ free' \subseteq Frames
    BY <1>6, <2>1
  <2>3. heapTree' \in Window /\ phase' \in Phases
    <3>1. TreePage \in ps
      <4>1. TreePage \in Nat /\ PageOf(HeapTreeBytes) \in Nat
        BY <1>1, Layout
      <4> QED BY <1>5, <4>1
    <3> QED BY <1>2, <1>5, <3>1 DEF Phases
  <2> QED BY <1>1, <1>3, <2>2, <2>3 DEF TypeOK
<1>10. PlaceInv'
  <2>1. stacks' = {}
    BY <1>1, <1>2, <1>3 DEF PlaceInv
  <2> QED BY <1>2, <1>3, <1>4, <1>5, <1>7, <2>1 DEF PlaceInv
<1>11. UsableInv' /\ TreesInv'
  BY <1>1, <1>2, <1>3, <1>7 DEF UsableInv, TreesInv
<1>12. ASSUME NEW g \in free PROVE Owned(g)'
  BY <1>1, <1>3 DEF FreeInv, Owned
<1>13. FreeInv'
  BY <1>6, <1>12 DEF FreeInv
<1>14. MapInv'
  <2>1. FreshPages' = TreeSpan
    BY <1>2, <1>7 DEF FreshPages, HasTree
  <2>2. ASSUME NEW p \in KernelPages PROVE map'[p] = p
    <3>1. p \in Window /\ p \in Nat /\ p <= PageOf(KernelEnd - 1) /\ map[p] = p
      BY <1>1, KernelBelow DEF MapInv
    <3>2. p \notin ps
      BY <1>8, <3>1
    <3> QED BY <1>6, <3>1, <3>2
  <2>3. ASSUME NEW p \in BootSpan PROVE map'[p] = FirstFrame + (p - FirstPage)
    <3>1. p \in Window /\ p \in Nat /\ p < TreePage
      BY <1>1, SpansApart
    <3>2. p \notin ps /\ map[p] = FirstFrame + (p - FirstPage)
      BY <1>1, <1>2, <1>8, <3>1 DEF MapInv
    <3> QED BY <1>6, <3>1, <3>2
  <2>4. ASSUME NEW p \in TreeSpan PROVE map'[p] = f[p] /\ f[p] \in free /\ p \in ps
    BY <1>5, <1>6
  <2>5. \A p \in TreeSpan : Owned(map[p])' /\ map'[p] \notin free'
    <3> SUFFICES ASSUME NEW p \in TreeSpan PROVE Owned(map[p])' /\ map'[p] \notin free'
      OBVIOUS
    <3>1. map'[p] \in free /\ map'[p] \notin free'
      BY <1>6, <2>4
    <3>2. \A g \in free : Owned(g)'
      BY <1>12
    <3>3. Owned(map[p])'
      BY <3>1, <3>2 DEF Owned
    <3> QED BY <3>1, <3>3
  <2>6. \A p \in TreeSpan, q \in TreeSpan : map'[p] = map'[q] => p = q
    BY <1>6, <2>4
  <2> QED BY <1>2, <1>7, <2>1, <2>2, <2>3, <2>5, <2>6 DEF MapInv
<1> QED BY <1>9, <1>10, <1>11, <1>13, <1>14 DEF MemoryInv

----------------------------------------------------------------------------
(* The new page tables, the guard page and the stacks.                      *)

\* What the new page tables hold.
LEMMA RemapMaps ==
  ASSUME RemapKernel
  PROVE  /\ DOMAIN map' = Window /\ map' = [p \in Window |-> map'[p]]
         /\ \A p \in Window :
              /\ p \in RemappedPages => map'[p] = map[p]
              /\ p \notin RemappedPages /\ p \in SectionPages \union {VgaPage} => map'[p] = p
              /\ p \notin RemappedPages /\ p \notin SectionPages \union {VgaPage} => map'[p] = NoFrame
<1> DEFINE R == RemappedPages
           S == SectionPages \union {VgaPage}
<1>1. map' = [p \in Window |-> CASE p \in R     -> map[p]
                                 [] p \in S \ R -> p
                                 [] OTHER       -> NoFrame]
  BY DEF RemapKernel
<1> HIDE DEF R, S
<1>2. ASSUME NEW p \in Window
      PROVE  /\ p \in R => map'[p] = map[p]
             /\ p \notin R /\ p \in S => map'[p] = p
             /\ p \notin R /\ p \notin S => map'[p] = NoFrame
  BY <1>1
<1>3. DOMAIN map' = Window /\ map' = [p \in Window |-> map'[p]]
  BY <1>1
<1> QED BY <1>2, <1>3 DEF R, S

LEMMA RemapKernelStep == ASSUME MemoryInv, RemapKernel PROVE MemoryInv'
<1>1. TypeOK /\ PlaceInv /\ UsableInv /\ TreesInv /\ FreeInv /\ MapInv /\ machine \in Machines
  BY DEF MemoryInv, TypeOK
<1>2. phase = "remap" /\ phase' = "guard_page" /\ heapMapped' = {}
  BY DEF RemapKernel
<1>3. UNCHANGED <<machine, bitmap, bootHeap, heapTree, trees, usable, exists, storage, stacks>>
  BY DEF RemapKernel
<1>4. free' \subseteq free
  <2>1. PICK fs \in Handouts(RemapTables) : free' = free \ fs
    BY DEF RemapKernel
  <2> QED BY <2>1
<1>5. bootHeap = [page |-> FirstPage, frame |-> FirstFrame] /\ heapTree = TreePage
  BY <1>1, <1>2 DEF PlaceInv, HasTree
<1>6. /\ BootSpan \subseteq RemappedPages /\ TreeSpan \subseteq RemappedPages
      /\ \A p \in RemappedPages : p \in Nat /\ FirstPage <= p /\ p <= StackPage
      /\ KernelPages \subseteq SectionPages
      /\ \A p \in SectionPages \union {VgaPage} : p \in Nat /\ p <= FirstPage
  BY <1>1, <1>5, RemapPlaced
<1>7. /\ DOMAIN map' = Window /\ map' = [p \in Window |-> map'[p]]
      /\ \A p \in Window :
           /\ p \in RemappedPages => map'[p] = map[p]
           /\ p \notin RemappedPages /\ p \in SectionPages \union {VgaPage} => map'[p] = p
           /\ p \notin RemappedPages /\ p \notin SectionPages \union {VgaPage} => map'[p] = NoFrame
  BY RemapMaps
<1>8. /\ KernelEnd' = KernelEnd /\ FirstPage' = FirstPage /\ FirstFrame' = FirstFrame /\ TreePage' = TreePage
      /\ StackPage' = StackPage /\ KernelPages' = KernelPages /\ BootSpan' = BootSpan /\ TreeSpan' = TreeSpan
  BY <1>3, SameMachine
<1>9. /\ FirstPage \in Nat /\ StackPage \in Nat /\ FirstPage < StackPage
      /\ PageOf(KernelEnd - 1) \in Nat /\ PageOf(KernelEnd - 1) < FirstPage
  <2>1. /\ FirstPage \in Nat /\ TreePage \in Nat /\ StackPage \in Nat /\ PageOf(KernelEnd - 1) \in Nat
        /\ PageOf(KernelEnd - 1) < FirstPage
        /\ FirstPage + PageOf(BootstrapBytes) < TreePage /\ PageOf(BootstrapBytes) \in Nat
        /\ StackPage = TreePage + PageOf(HeapTreeBytes - 1) + 1 /\ PageOf(HeapTreeBytes - 1) \in Nat
    BY <1>1, Layout
  <2> QED BY <2>1
<1>10. TypeOK'
  <2>1. Window \subseteq Frames
    BY FrameNumbers, Sizes DEF Window
  <2>2. map \in [Window -> Frames \union {NoFrame}] /\ free \subseteq Frames
    BY <1>1 DEF TypeOK
  <2>3. \A p \in Window : map'[p] \in Frames \union {NoFrame}
    BY <1>7, <2>1, <2>2
  <2>4. map' \in [Window -> Frames \union {NoFrame}] /\ free' \subseteq Frames
    BY <1>4, <1>7, <2>2, <2>3
  <2>5. heapMapped' \subseteq TreeIndex /\ phase' \in Phases
    BY <1>2 DEF Phases
  <2> QED BY <1>1, <1>3, <2>4, <2>5 DEF TypeOK
<1>11. PlaceInv'
  <2>1. stacks' = {}
    BY <1>1, <1>2, <1>3 DEF PlaceInv
  <2> QED BY <1>2, <1>3, <1>5, <1>8, <2>1 DEF PlaceInv
<1>12. UsableInv' /\ TreesInv'
  BY <1>1, <1>2, <1>3, <1>8 DEF UsableInv, TreesInv
<1>13. FreeInv'
  BY <1>1, <1>3, <1>4 DEF FreeInv, Owned
<1>14. MapInv'
  <2>1. FreshPages = TreeSpan /\ FreshPages' = TreeSpan
    BY <1>2, <1>8 DEF FreshPages, HasTree
  <2>2. ASSUME NEW p \in KernelPages PROVE map'[p] = p
    <3>1. p \in Window /\ p \in Nat /\ p <= PageOf(KernelEnd - 1)
      BY <1>1, KernelBelow
    <3>2. p \notin RemappedPages /\ p \in SectionPages \union {VgaPage}
      BY <1>6, <1>9, <3>1
    <3> QED BY <1>7, <3>1, <3>2
  <2>3. \A p \in BootSpan \union TreeSpan : map'[p] = map[p]
    <3>1. BootSpan \subseteq Window /\ TreeSpan \subseteq Window
      BY <1>1, SpansApart
    <3> QED BY <1>6, <1>7, <3>1
  <2>4. \A p \in BootSpan : map'[p] = FirstFrame + (p - FirstPage)
    BY <1>1, <1>2, <2>3 DEF MapInv
  <2>5. \A p \in TreeSpan : Owned(map[p])' /\ map'[p] \notin free'
    <3> SUFFICES ASSUME NEW p \in TreeSpan PROVE Owned(map[p])' /\ map'[p] \notin free'
      OBVIOUS
    <3>1. Owned(map[p]) /\ map[p] \notin free /\ map'[p] = map[p]
      BY <1>1, <2>1, <2>3 DEF MapInv
    <3>2. Owned(map[p])'
      BY <1>3, <3>1 DEF Owned
    <3> QED BY <1>4, <3>1, <3>2
  <2>6. \A p \in TreeSpan, q \in TreeSpan : map'[p] = map'[q] => p = q
    BY <1>1, <2>1, <2>3 DEF MapInv
  <2>7. ASSUME NEW p \in Window, p > StackPage PROVE map'[p] = NoFrame
    <3>1. p \in Nat
      BY Sizes DEF Window
    <3>2. p \notin RemappedPages /\ p \notin SectionPages \union {VgaPage}
      BY <1>6, <1>9, <2>7, <3>1
    <3> QED BY <1>7, <3>2
  <2> QED BY <1>2, <1>8, <2>1, <2>2, <2>4, <2>5, <2>6, <2>7 DEF MapInv
<1> QED BY <1>10, <1>11, <1>12, <1>13, <1>14 DEF MemoryInv

LEMMA SetupGuardPageStep == ASSUME MemoryInv, SetupGuardPage PROVE MemoryInv'
<1> DEFINE g == machine.guardPage
<1>1. TypeOK /\ PlaceInv /\ UsableInv /\ TreesInv /\ FreeInv /\ MapInv /\ machine \in Machines
  BY DEF MemoryInv, TypeOK
<1>2. phase = "guard_page" /\ phase' = "ist" /\ map' = [map EXCEPT ![g] = NoFrame]
  BY DEF SetupGuardPage
<1>3. UNCHANGED <<machine, bitmap, bootHeap, heapTree, trees, usable, exists, free, storage, heapMapped, stacks>>
  BY DEF SetupGuardPage
<1>4. g \in Nat /\ g < FirstPage /\ FirstPage \in Nat /\ TreePage \in Nat /\ FirstPage < TreePage
  <2>1. /\ g \in Nat /\ g < FirstPage /\ FirstPage \in Nat /\ TreePage \in Nat
        /\ FirstPage + PageOf(BootstrapBytes) < TreePage /\ PageOf(BootstrapBytes) \in Nat
    BY <1>1, Kernel, Layout
  <2> QED BY <2>1
<1>5. g \in Window
  <2>1. FirstPage \in BootSpan
    <3>1. PageOf(BootstrapBytes - 1) \in Nat
      BY <1>1, Layout
    <3> QED BY <1>4, <3>1 DEF BootSpan
  <2>2. FirstPage \in Window
    BY <1>1, <2>1, SpansApart
  <2> QED BY <1>4, <2>2, Sizes DEF Window
<1>6. map \in [Window -> Frames \union {NoFrame}]
  BY <1>1 DEF TypeOK
<1> HIDE DEF g
<1>7. map'[g] = NoFrame /\ \A p \in Window : p # g => map'[p] = map[p]
  BY <1>2, <1>5, <1>6
<1>8. /\ KernelEnd' = KernelEnd /\ FirstPage' = FirstPage /\ FirstFrame' = FirstFrame /\ TreePage' = TreePage
      /\ StackPage' = StackPage /\ KernelPages' = KernelPages /\ BootSpan' = BootSpan /\ TreeSpan' = TreeSpan
  BY <1>3, SameMachine
<1>9. TypeOK'
  <2>1. map' \in [Window -> Frames \union {NoFrame}]
    BY <1>2, <1>6
  <2> QED BY <1>1, <1>2, <1>3, <2>1 DEF TypeOK, Phases
<1>10. PlaceInv'
  <2>1. stacks' = {} /\ bootHeap = [page |-> FirstPage, frame |-> FirstFrame] /\ heapTree = TreePage
    BY <1>1, <1>2, <1>3 DEF PlaceInv, HasTree
  <2> QED BY <1>2, <1>3, <1>8, <2>1 DEF PlaceInv
<1>11. UsableInv' /\ TreesInv'
  BY <1>1, <1>2, <1>3, <1>8 DEF UsableInv, TreesInv
<1>12. FreeInv'
  BY <1>1, <1>3 DEF FreeInv, Owned
<1>13. MapInv'
  <2>1. FreshPages = TreeSpan /\ FreshPages' = TreeSpan
    BY <1>2, <1>8 DEF FreshPages, HasTree
  <2>2. \A p \in KernelPages : map'[p] = p
    <3>1. KernelPages \subseteq Window /\ g \notin KernelPages
      BY <1>1, KernelBelow DEF g
    <3> QED BY <1>1, <1>7, <3>1 DEF MapInv
  <2>3. \A p \in BootSpan \union TreeSpan : map'[p] = map[p]
    <3>1. /\ BootSpan \subseteq Window /\ TreeSpan \subseteq Window
          /\ \A p \in BootSpan : p \in Nat /\ FirstPage <= p
          /\ \A p \in TreeSpan : p \in Nat /\ TreePage <= p
      BY <1>1, SpansApart
    <3>2. g \notin BootSpan /\ g \notin TreeSpan
      BY <1>4, <3>1
    <3> QED BY <1>7, <3>1, <3>2
  <2>4. \A p \in BootSpan : map'[p] = FirstFrame + (p - FirstPage)
    BY <1>1, <1>2, <2>3 DEF MapInv
  <2>5. \A p \in TreeSpan : Owned(map[p])' /\ map'[p] \notin free'
    <3> SUFFICES ASSUME NEW p \in TreeSpan PROVE Owned(map[p])' /\ map'[p] \notin free'
      OBVIOUS
    <3>1. Owned(map[p]) /\ map[p] \notin free /\ map'[p] = map[p]
      BY <1>1, <2>1, <2>3 DEF MapInv
    <3>2. Owned(map[p])'
      BY <1>3, <3>1 DEF Owned
    <3> QED BY <1>3, <3>1, <3>2
  <2>6. \A p \in TreeSpan, q \in TreeSpan : map'[p] = map'[q] => p = q
    BY <1>1, <2>1, <2>3 DEF MapInv
  <2>7. \A p \in Window : p > StackPage => map'[p] = NoFrame
    BY <1>1, <1>2, <1>7 DEF MapInv
  <2>8. map'[machine'.guardPage] = NoFrame
    BY <1>3, <1>7 DEF g
  <2> QED BY <1>2, <1>8, <2>1, <2>2, <2>4, <2>5, <2>6, <2>7, <2>8 DEF MapInv
<1> QED BY <1>9, <1>10, <1>11, <1>12, <1>13 DEF MemoryInv

LEMMA SetupIstStep == ASSUME MemoryInv, SetupIst PROVE MemoryInv'
<1>0. PICK ps : ps = StackPages
  OBVIOUS
<1>1. TypeOK /\ PlaceInv /\ UsableInv /\ TreesInv /\ FreeInv /\ MapInv /\ machine \in Machines
  BY DEF MemoryInv, TypeOK
<1>2. /\ phase = "ist" /\ phase' = "done" /\ MapFresh(ps)
      /\ stacks' = {(StackBase(n) + IstStackPages) * PageBytes : n \in 0 .. (IstStacks - 1)}
  BY <1>0 DEF SetupIst, MapFresh
<1>3. UNCHANGED <<machine, bitmap, bootHeap, heapTree, trees, usable, exists, storage, heapMapped>>
  BY DEF SetupIst
<1>4. bootHeap = [page |-> FirstPage, frame |-> FirstFrame] /\ heapTree = TreePage
  BY <1>1, <1>2 DEF PlaceInv, HasTree
<1>5. /\ ps \subseteq (StackPage + 1) .. (WindowPages - 1) /\ IsFiniteSet(ps)
      /\ GuardPages \subseteq StackPage .. (WindowPages - 1) /\ ps \intersect GuardPages = {}
  BY <1>0, <1>1, <1>4, StacksPlaced
<1>6. PICK f \in [ps -> free] :
        /\ \A p \in ps, q \in ps : f[p] = f[q] => p = q
        /\ map' = [p \in Window |-> IF p \in ps THEN f[p] ELSE map[p]]
        /\ free' \subseteq free /\ \A p \in ps : f[p] \notin free'
  <2>1. IsFiniteSet(ps) /\ MapFresh(ps)
    BY <1>2, <1>5
  <2> QED BY <2>1, FreshFrames, Zenon
<1>7. /\ KernelEnd' = KernelEnd /\ FirstPage' = FirstPage /\ FirstFrame' = FirstFrame /\ TreePage' = TreePage
      /\ StackPage' = StackPage /\ KernelPages' = KernelPages /\ BootSpan' = BootSpan /\ TreeSpan' = TreeSpan
  BY <1>3, SameMachine
<1>8. StackPages' = ps /\ GuardPages' = GuardPages /\ \A n : StackBase(n)' = StackBase(n)
  BY <1>0, <1>3, SameStacks
<1>9. /\ FirstPage \in Nat /\ TreePage \in Nat /\ StackPage \in Nat /\ FirstPage < TreePage /\ TreePage < StackPage
      /\ PageOf(KernelEnd - 1) \in Nat /\ PageOf(KernelEnd - 1) < FirstPage /\ WindowPages \in Nat
  <2>1. /\ FirstPage \in Nat /\ TreePage \in Nat /\ StackPage \in Nat /\ PageOf(KernelEnd - 1) \in Nat
        /\ PageOf(KernelEnd - 1) < FirstPage
        /\ FirstPage + PageOf(BootstrapBytes) < TreePage /\ PageOf(BootstrapBytes) \in Nat
        /\ StackPage = TreePage + PageOf(HeapTreeBytes - 1) + 1 /\ PageOf(HeapTreeBytes - 1) \in Nat
    BY <1>1, Layout
  <2> QED BY <2>1, Sizes
<1>10. ps \subseteq Window /\ \A p \in ps : p \in Nat /\ StackPage < p
  BY <1>5, <1>9 DEF Window
<1>11. \A p \in Window : p \notin ps => map'[p] = map[p]
  BY <1>6
<1>12. \A p \in ps : map'[p] = f[p] /\ map'[p] \in free
  BY <1>6, <1>10
<1>13. TypeOK'
  <2>1. free \subseteq Frames /\ map \in [Window -> Frames \union {NoFrame}]
    BY <1>1 DEF TypeOK
  <2>2. map' \in [Window -> Frames \union {NoFrame}] /\ free' \subseteq Frames
    BY <1>6, <2>1
  <2>3. stacks' \subseteq 0 .. (WindowPages * PageBytes)
    <3> SUFFICES ASSUME NEW n \in 0 .. (IstStacks - 1)
                 PROVE  (StackBase(n) + IstStackPages) * PageBytes \in 0 .. (WindowPages * PageBytes)
      BY <1>2
    <3> DEFINE top == StackBase(n) + IstStackPages
               w == IstStackPages * IstStacks
    <3>1. StackBase(n) \in Nat /\ top <= StackPage + w /\ w \in Nat /\ StackPage + w <= WindowPages
      BY <1>1, <1>4, StackAt, Layout
    <3>2. top \in Nat /\ PageBytes \in Nat
      BY <3>1, Sizes
    <3> HIDE DEF top, w
    <3>3. top <= WindowPages
      BY <1>9, <3>1, <3>2
    <3>4. PageBytes * top <= PageBytes * WindowPages
      BY <1>9, <3>2, <3>3, ProductMonotone
    <3>5. top * PageBytes \in 0 .. (WindowPages * PageBytes)
      BY <1>9, <3>2, <3>4
    <3> QED BY <3>5 DEF top
  <2> QED BY <1>1, <1>2, <1>3, <2>2, <2>3 DEF TypeOK, Phases
<1>14. PlaceInv'
  <2>1. stacks' = {(StackBase(n)' + IstStackPages) * PageBytes : n \in 0 .. (IstStacks - 1)}
    BY <1>2, <1>8
  <2>2. bootHeap' = [page |-> FirstPage', frame |-> FirstFrame'] /\ heapTree' = TreePage'
    BY <1>3, <1>4, <1>7
  <2> QED BY <1>2, <2>1, <2>2 DEF PlaceInv
<1>15. UsableInv' /\ TreesInv'
  BY <1>1, <1>2, <1>3, <1>7 DEF UsableInv, TreesInv
<1>16. \A g \in free : Owned(g)'
  BY <1>1, <1>3 DEF FreeInv, Owned
<1>17. FreeInv'
  BY <1>6, <1>16 DEF FreeInv
<1>18. MapInv'
  <2>1. FreshPages = TreeSpan /\ FreshPages' = TreeSpan \union ps
    BY <1>2, <1>7, <1>8 DEF FreshPages, HasTree
  <2>2. ASSUME NEW p \in KernelPages PROVE map'[p] = p
    <3>1. p \in Window /\ p \in Nat /\ p <= PageOf(KernelEnd - 1) /\ map[p] = p
      BY <1>1, KernelBelow DEF MapInv
    <3>2. p \notin ps
      BY <1>9, <1>10, <3>1
    <3> QED BY <1>11, <3>1, <3>2
  <2>3. \A p \in BootSpan \union TreeSpan : map'[p] = map[p]
    <3>1. /\ BootSpan \subseteq Window /\ TreeSpan \subseteq Window
          /\ \A p \in BootSpan : p \in Nat /\ p < TreePage
          /\ \A p \in TreeSpan : p \in Nat /\ p < StackPage
      BY <1>1, SpansApart
    <3>2. \A p \in BootSpan \union TreeSpan : p \notin ps
      BY <1>9, <1>10, <3>1
    <3> QED BY <1>11, <3>1, <3>2
  <2>4. \A p \in BootSpan : map'[p] = FirstFrame + (p - FirstPage)
    BY <1>1, <1>2, <2>3 DEF MapInv
  <2>5. \A p \in TreeSpan : Owned(map[p]) /\ map[p] \notin free /\ map'[p] = map[p]
    BY <1>1, <2>1, <2>3 DEF MapInv
  <2>6. \A p \in TreeSpan \union ps : Owned(map[p])' /\ map'[p] \notin free'
    <3> SUFFICES ASSUME NEW p \in TreeSpan \union ps PROVE Owned(map[p])' /\ map'[p] \notin free'
      OBVIOUS
    <3>1. CASE p \in TreeSpan
      <4>1. Owned(map[p])'
        BY <1>3, <2>5, <3>1 DEF Owned
      <4> QED BY <1>6, <2>5, <3>1, <4>1
    <3>2. CASE p \in ps
      <4>1. map'[p] \in free /\ map'[p] \notin free'
        BY <1>6, <1>12, <3>2
      <4>2. Owned(map[p])'
        BY <1>16, <4>1 DEF Owned
      <4> QED BY <4>1, <4>2
    <3> QED BY <3>1, <3>2
  <2>7. ASSUME NEW p \in TreeSpan \union ps, NEW q \in TreeSpan \union ps, map'[p] = map'[q] PROVE p = q
    <3>1. CASE p \in TreeSpan /\ q \in TreeSpan
      BY <1>1, <2>1, <2>5, <2>7, <3>1 DEF MapInv
    <3>2. CASE p \in ps /\ q \in ps
      BY <1>6, <1>12, <2>7, <3>2
    <3>3. CASE (p \in TreeSpan /\ q \in ps) \/ (p \in ps /\ q \in TreeSpan)
      BY <1>12, <2>5, <2>7, <3>3
    <3> QED BY <3>1, <3>2, <3>3
  <2>8. map'[machine'.guardPage] = NoFrame
    <3> DEFINE g == machine.guardPage
    <3>1. g \in Nat /\ g < FirstPage /\ map[g] = NoFrame
      BY <1>1, <1>2, Kernel, Layout DEF MapInv
    <3> HIDE DEF g
    <3>2. FirstPage < WindowPages
      <4>1. FirstPage \in BootSpan
        <5>1. PageOf(BootstrapBytes - 1) \in Nat
          BY <1>1, Layout
        <5> QED BY <1>9, <5>1 DEF BootSpan
      <4>2. FirstPage \in Window
        BY <1>1, <4>1, SpansApart
      <4> QED BY <1>9, <4>2 DEF Window
    <3>3. g \in Window /\ g \notin ps
      BY <1>9, <1>10, <3>1, <3>2 DEF Window
    <3>4. map'[g] = NoFrame
      BY <1>11, <3>1, <3>3
    <3> QED BY <1>3, <3>4 DEF g
  <2>9. ASSUME NEW p \in GuardPages, p # StackPage PROVE map'[p] = NoFrame
    <3>1. p \in Window /\ p \in Nat /\ p > StackPage /\ p \notin ps
      BY <1>5, <1>9, <2>9 DEF Window
    <3>2. map[p] = NoFrame
      BY <1>1, <1>2, <3>1 DEF MapInv
    <3> QED BY <1>11, <3>1, <3>2
  <2> QED BY <1>2, <1>7, <1>8, <2>1, <2>2, <2>4, <2>6, <2>7, <2>8, <2>9 DEF MapInv
<1> QED BY <1>13, <1>14, <1>15, <1>17, <1>18 DEF MemoryInv

LEMMA MemoryStutter == ASSUME MemoryInv, UNCHANGED vars PROVE MemoryInv'
<1>1. /\ machine' = machine /\ phase' = phase /\ map' = map /\ bitmap' = bitmap /\ bootHeap' = bootHeap
      /\ heapTree' = heapTree /\ trees' = trees /\ usable' = usable /\ exists' = exists /\ free' = free
      /\ storage' = storage /\ heapMapped' = heapMapped /\ stacks' = stacks
  BY DEF vars
<1>2. TypeOK'
  BY <1>1 DEF MemoryInv, TypeOK
<1>3. /\ KernelEnd' = KernelEnd /\ FirstPage' = FirstPage /\ FirstFrame' = FirstFrame /\ TreePage' = TreePage
      /\ StackPage' = StackPage /\ KernelPages' = KernelPages /\ BootSpan' = BootSpan /\ TreeSpan' = TreeSpan
  BY <1>1, SameMachine
<1>4. StackPages' = StackPages /\ GuardPages' = GuardPages /\ \A n : StackBase(n)' = StackBase(n)
  BY <1>1, SameStacks
<1>5. PlaceInv'
  BY <1>1, <1>3, <1>4 DEF MemoryInv, PlaceInv, HasTree
<1>6. UsableInv' /\ TreesInv' /\ FreeInv'
  BY <1>1, <1>3 DEF MemoryInv, UsableInv, TreesInv, FreeInv, Owned
<1>7. FreshPages' = FreshPages
  BY <1>1, <1>3, <1>4 DEF FreshPages, HasTree
<1>8. \A p : Owned(map[p])' <=> Owned(map[p])
  BY <1>1 DEF Owned
<1>9. MapInv'
  BY <1>1, <1>3, <1>4, <1>7, <1>8 DEF MemoryInv, MapInv
<1> QED BY <1>2, <1>5, <1>6, <1>9 DEF MemoryInv

LEMMA MemoryNext == ASSUME MemoryInv, [Next]_vars PROVE MemoryInv'
<1>1. ASSUME HeapInitOutOfMemory \/ RemapPanics \/ SetupIstOutOfMemory PROVE MemoryInv'
  <2>1. Panic /\ phase \notin {"bootstrap_heap", "prelim", "done"}
    BY <1>1 DEF HeapInitOutOfMemory, RemapPanics, SetupIstOutOfMemory
  <2> QED BY <2>1, PanicStep
<1>2. CASE SetupBootstrapHeap \/ SetupPhysicalAllocatorPrelim \/ InitPrelimTree
  BY <1>2, SetupBootstrapHeapStep, SetupPrelimStep, InitPrelimTreeStep
<1>3. CASE InitPrelimDone \/ InitRestDone \/ InitRestTree \/ HeapInit
  BY <1>3, LoopsEnd, InitRestTreeStep, HeapInitStep
<1>4. CASE RemapKernel \/ SetupGuardPage \/ SetupIst
  BY <1>4, RemapKernelStep, SetupGuardPageStep, SetupIstStep
<1>5. CASE UNCHANGED vars
  BY <1>5, MemoryStutter
<1> QED BY <1>1, <1>2, <1>3, <1>4, <1>5 DEF Next

----------------------------------------------------------------------------
(* The theorems.                                                            *)

\* For every machine and every size, init_memory keeps its inductive invariant: the parts
\* are where their steps computed them, the allocator has only memory outside the holes,
\* and each mapped page has a frame of its own.
THEOREM MemoryInvariant == Spec => []MemoryInv
<1>1. Init => MemoryInv
  BY MemoryStart
<1>2. MemoryInv /\ [Next]_vars => MemoryInv'
  BY MemoryNext
<1> QED BY <1>1, <1>2, PTL DEF Spec

\* init_memory computes only pages of the window, frames of the machine and well-formed ranges.
THEOREM MemoryTypes == Spec => []TypeOK
<1>1. MemoryInv => TypeOK
  BY DEF MemoryInv
<1> QED BY <1>1, MemoryInvariant, PTL

\* The physical allocator never owns the memory of the kernel, of the boot information or
\* of the bootstrap heap, wherever these begin and end inside frames.
THEOREM ReservedKept == Spec => []ReservedNeverFree
<1>1. MemoryInv => ReservedNeverFree
  BY InvReserved
<1> QED BY <1>1, MemoryInvariant, PTL

\* The kernel, the bootstrap heap, the heap's tree and the stacks share no page.
THEOREM PartsApart == Spec => []LayoutApart
<1>1. MemoryInv => LayoutApart
  BY InvLayout
<1> QED BY <1>1, MemoryInvariant, PTL

\* The frame behind a page in use is behind no other page in use, and not free.
THEOREM FramesOwn == Spec => []FramesPrivate
<1>1. MemoryInv => FramesPrivate
  BY InvPrivate
<1> QED BY <1>1, MemoryInvariant, PTL

\* When init_memory is done, every stack but the lowest of the TSS ends in an unmapped page.
THEOREM StacksHaveGuards == Spec => []StacksGuarded
<1>1. MemoryInv => StacksGuarded
  BY InvGuarded
<1> QED BY <1>1, MemoryInvariant, PTL

\* Only the switch and a panic can follow when the new page tables are ready, and the
\* pages in use are among those that the switch carries over or maps to their own number.
LEMMA RemapKeeps ==
  ASSUME MemoryInv, phase = "remap", [Next]_vars
  PROVE  \A p \in UsedPages : map'[p] = map[p]
<1>1. machine \in Machines /\ PlaceInv /\ MapInv /\ map \in [Window -> Frames \union {NoFrame}]
  BY DEF MemoryInv, TypeOK
<1>2. CASE map' = map
  BY <1>2
<1>3. CASE RemapKernel
  <2>1. MemoryInv' /\ machine' = machine /\ phase' = "guard_page"
    BY <1>3, RemapKernelStep DEF RemapKernel
  <2>2. bootHeap = [page |-> FirstPage, frame |-> FirstFrame] /\ heapTree = TreePage
    BY <1>1 DEF PlaceInv, HasTree
  <2>3. BootSpan \subseteq RemappedPages /\ TreeSpan \subseteq RemappedPages
    BY <1>1, <2>2, RemapPlaced
  <2>4. BootSpan \subseteq Window /\ TreeSpan \subseteq Window
    BY <1>1, SpansApart
  <2>5. \A p \in BootSpan \union TreeSpan : map'[p] = map[p]
    BY <1>3, <2>3, <2>4, RemapMaps
  <2>6. KernelPages' = KernelPages
    BY <2>1, SameMachine
  <2>7. \A p \in KernelPages : map'[p] = map[p]
    BY <1>1, <2>1, <2>6 DEF MemoryInv, MapInv
  <2>8. FreshPages = TreeSpan
    BY DEF FreshPages, HasTree
  <2> QED BY <1>1, <2>5, <2>7, <2>8, UsedWhere
<1>4. map' = map \/ RemapKernel
  BY DEF Next, vars, SetupBootstrapHeap, SetupPhysicalAllocatorPrelim, InitPrelimTree, InitPrelimDone,
         HeapInit, HeapInitOutOfMemory, InitRestTree, InitRestDone, RemapPanics, SetupGuardPage,
         SetupIst, SetupIstOutOfMemory, Panic
<1> QED BY <1>2, <1>3, <1>4

\* The switch to the new page tables leaves every page in use on its frame.
THEOREM RemapMovesNothing == Spec => RemapKeepsPages
<1>1. MemoryInv /\ [Next]_vars => [phase = "remap" => \A p \in UsedPages : map'[p] = map[p]]_vars
  BY RemapKeeps
<1> QED BY <1>1, MemoryInvariant, PTL DEF Spec, RemapKeepsPages
=============================================================================
