------------------------------- MODULE Heap --------------------------------
(***************************************************************************)
(* The kernel heap, kernel/src/memory/heap.rs, with the parts of the page  *)
(* tables it drives (kernel/src/memory/paging/page_map.rs: map, map_to,    *)
(* unmap, TemporaryPage) and the mappings of device memory made through it *)
(* (kernel/src/memory/physical_mapping.rs).                                *)
(*                                                                         *)
(* The heap is one buddy tree behind one spin lock.  `alloc' keeps the     *)
(* lock while it maps the pages of the block that are not mapped yet;      *)
(* `dealloc' gives up the lock before it unmaps them.  Each access to the  *)
(* page tables happens under the lock ACTIVE_PAGE_TABLES and is one step.  *)
(*                                                                         *)
(* Addresses are byte offsets from HEAP_START.  Page numbers, frames and   *)
(* table numbers are small; a translation cached by the processor (TLB)    *)
(* is kept beside the page tables because some operations do not           *)
(* invalidate it.                                                          *)
(***************************************************************************)
EXTENDS Integers, FiniteSets

CONSTANTS
  Contexts,       \* execution contexts that use the heap
  NoContext,      \* the holder of a lock that is not held
  Frames,         \* frames owned by the physical allocator
  NoFrame,        \* the absence of a frame
  DeviceRegions,  \* device memory: [start, frames] records, in frame numbers
  P4Frame,        \* a frame that a TemporaryPage gives access to
  BaseOrder,      \* BASE_ORDER: log2 of the smallest block (6 in the code)
  PageOrder,      \* order of a block of one page (12 - BASE_ORDER)
  MaxOrder,       \* HeapTree::max_order() (24 in the code)
  PagesPerTable,  \* pages mapped by one page table (512 in the code)
  Sizes,          \* the sizes that callers ask for, in bytes
  MaxObjects      \* bound: live allocations

ASSUME OrdersAssumption ==
  /\ BaseOrder \in Nat \ {0}
  /\ PageOrder \in Nat \ {0}
  /\ MaxOrder \in Nat /\ MaxOrder >= PageOrder
  /\ PagesPerTable \in Nat \ {0}
ASSUME ContextsAssumption == NoContext \notin Contexts
PageBytes == 2^(BaseOrder + PageOrder)
HeapBytes == 2^(BaseOrder + MaxOrder)
Pages == 0..(HeapBytes \div PageBytes - 1)
Cells == 0..(2^MaxOrder - 1)               \* blocks of order 0
TableOf(p) == p \div PagesPerTable
RegionBytes(r) == r.frames * PageBytes

\* A block has up to four times the size that was asked for, and alloc_specific maps all of it.
DeviceFrames == UNION {r.start..(r.start + 4 * r.frames) : r \in DeviceRegions}
AnyFrame == Frames \union {NoFrame, P4Frame} \union DeviceFrames

\* A size is a usize: between two powers of two below 2^64, or 0.
IsUsize(size) == size = 0 \/ \E n \in 0..63 : 2^n <= size /\ size < 2^(n + 1)

ASSUME SizesAssumption ==
  /\ MaxObjects \in Nat
  /\ Sizes \subseteq Nat
  /\ DeviceRegions \subseteq [start : Nat, frames : Nat \ {0}]
  /\ \A size \in Sizes \union {PageBytes} : IsUsize(size)
  /\ \A r \in DeviceRegions : IsUsize(RegionBytes(r))

\* What lies at and after device memory is not given out by the physical allocator, as far
\* as the blocks made for it reach.
ASSUME FramesAssumption ==
  /\ IsFiniteSet(Frames)
  /\ NoFrame \notin Frames /\ P4Frame \notin Frames /\ P4Frame # NoFrame
  /\ DeviceFrames \intersect (Frames \union {NoFrame, P4Frame}) = {}

-----------------------------------------------------------------------------
(* order, log2_ceil and log2_floor.                                        *)

\* The loop of log2_floor counts the shifts that bring val down to 1.
Log2Floor(val) == CHOOSE n \in 0..63 : 2^n <= val /\ val < 2^(n + 1)
Log2Ceil(val) == IF val # 2^Log2Floor(val) THEN Log2Floor(val) + 1 ELSE Log2Floor(val)

OrderOf(val) ==
  IF val = 0 \/ Log2Ceil(val) + 1 <= BaseOrder THEN 0 ELSE Log2Ceil(val) + 1 - BaseOrder

RoundUpDivide(a, b) == (a + b - 1) \div b

\* The pages that alloc maps: half of the block, at least one page.
PageCount(order) == RoundUpDivide(2^(order + BaseOrder - 1), PageBytes)

\* The pages that alloc_specific maps: the whole block.
PageCountSpecific(order) == RoundUpDivide(2^(order + BaseOrder), PageBytes)

PageOf(ptr) == ptr \div PageBytes
BlockCells(ptr, order) ==
  (ptr \div 2^BaseOrder)..(ptr \div 2^BaseOrder + 2^order - 1)

-----------------------------------------------------------------------------

VARIABLES
  free,        \* the free cells of the buddy tree
  treeLock,    \* the context that holds the lock of the tree
  map,         \* the active page tables: page -> frame
  tables,      \* the page tables (p1) that exist for the heap
  freeFrames,  \* the frames the physical allocator can give
  tlb,         \* translations cached by the processor
  clean,       \* frames that hold zeroes
  objects,     \* what the callers hold: live allocations
  pc,          \* where each context is
  work,        \* the locals of the call each context is in
  panic        \* why the kernel panicked, or "no"

vars == <<free, treeLock, map, tables, freeFrames, tlb, clean, objects, pc, work, panic>>

Kinds == {"object", "specific", "temp"}

\* ptr, size and kind of the allocation, the order of its block, the next page
\* of the loop, and for a TemporaryPage the frame of its heap page.
NoWork == [ptr |-> 0, size |-> 0, kind |-> "object", page |-> 0, frame |-> NoFrame,
           region |-> 0]

PC == {"idle", "alloc_pages", "dealloc_tree", "dealloc_check",
       "dealloc_pages", "dealloc_specific", "temp_new"}

WorkType ==
  [ptr : 0..HeapBytes, size : Nat, kind : Kinds, page : Nat,
   frame : Frames \union {NoFrame}, region : Nat]

\* Every block of the tree, page, frame and half-done call of alloc, dealloc and
\* TemporaryPage stays within its range: no call leaves the heap.
TypeOK ==
  /\ free \subseteq Cells
  /\ treeLock \in Contexts \union {NoContext}
  /\ map \in [Pages -> AnyFrame]
  /\ tables \subseteq {TableOf(p) : p \in Pages}
  /\ freeFrames \subseteq Frames
  /\ tlb \in [Pages -> AnyFrame]
  /\ clean \subseteq AnyFrame
  /\ objects \subseteq WorkType
  /\ pc \in [Contexts -> PC]
  /\ work \in [Contexts -> WorkType]
  /\ panic \in {"no", "unmapped", "no_memory"}

\* The heap after init: the whole tree is free and nothing is mapped.
Init ==
  /\ free = Cells
  /\ treeLock = NoContext
  /\ map = [p \in Pages |-> NoFrame]
  /\ tables = {}
  /\ freeFrames = Frames
  /\ tlb = [p \in Pages |-> NoFrame]
  /\ clean = {}
  /\ objects = {}
  /\ pc = [c \in Contexts |-> "idle"]
  /\ work = [c \in Contexts |-> NoWork]
  /\ panic = "no"

\* friendly's allocate: the starts, in bytes, of the free blocks of an order.
Fitting(order) ==
  {s * 2^BaseOrder : s \in {t \in Cells : t % 2^order = 0
                                          /\ t..(t + 2^order - 1) \subseteq free}}

\* A panic stops the kernel.
Running == panic = "no"
At(c, label) == Running /\ pc[c] = label
Goto(c, label) == pc' = [pc EXCEPT ![c] = label]
Return(c) == Goto(c, "idle") /\ work' = [work EXCEPT ![c] = NoWork]

-----------------------------------------------------------------------------
(* Page tables                                                             *)

Mapped(p) == map[p] # NoFrame

\* What an access to page p reaches: the cached translation, if there is one.
Reaches(p) == IF tlb[p] # NoFrame THEN tlb[p] ELSE map[p]

\* map needs a frame for the page and one for the page table if it is missing.
FramesToMap(p) == IF TableOf(p) \in tables THEN 1 ELSE 2

\* map with ZeroPage::Zero and InvalidateTlb::NoInvalidate.
MapZeroed(p) ==
  \E f \in freeFrames, t \in freeFrames :
    /\ TableOf(p) \notin tables => t # f
    /\ TableOf(p) \in tables => t = f
    /\ map' = [map EXCEPT ![p] = f]
    /\ tables' = tables \union {TableOf(p)}
    /\ freeFrames' = freeFrames \ {f, t}
    /\ LET reached == IF tlb[p] # NoFrame THEN tlb[p] ELSE f
       IN  /\ clean' = clean \union {reached}
           /\ tlb' = [tlb EXCEPT ![p] = reached]

\* unmap with FreeMemory::Free and InvalidateTlb::Invalidate.
UnmapFree(p) ==
  /\ map' = [map EXCEPT ![p] = NoFrame]
  /\ freeFrames' = freeFrames \union {map[p]}
  /\ clean' = clean \ {map[p]}
  /\ tlb' = [tlb EXCEPT ![p] = NoFrame]
  /\ UNCHANGED tables

\* The processor may cache the translation of a page that the holder of an
\* allocation touches, and may drop a cached translation at any time.
TlbFill(p) ==
  /\ Running /\ Mapped(p) /\ tlb[p] = NoFrame
  /\ \E o \in objects : p \in PageOf(o.ptr)..PageOf(o.ptr + o.size - 1)
  /\ tlb' = [tlb EXCEPT ![p] = map[p]]
  /\ UNCHANGED <<free, treeLock, map, tables, freeFrames, clean, objects, pc, work, panic>>

TlbEvict(p) ==
  /\ Running /\ tlb[p] # NoFrame
  /\ tlb' = [tlb EXCEPT ![p] = NoFrame]
  /\ UNCHANGED <<free, treeLock, map, tables, freeFrames, clean, objects, pc, work, panic>>

-----------------------------------------------------------------------------
(* alloc                                                                   *)

\* alloc takes the lock and a block of the tree.  With no block it returns
\* null, which changes nothing here.
AllocTree(c, size, kind) ==
  /\ At(c, "idle")
  /\ treeLock = NoContext
  /\ Cardinality(objects) < MaxObjects
  /\ OrderOf(size) <= MaxOrder
  /\ \E ptr \in Fitting(OrderOf(size)) :
       /\ free' = free \ BlockCells(ptr, OrderOf(size))
       /\ work' = [work EXCEPT ![c] = [NoWork EXCEPT !.ptr = ptr, !.size = size,
                                                     !.kind = kind]]
  /\ treeLock' = c
  /\ Goto(c, "alloc_pages")
  /\ UNCHANGED <<map, tables, freeFrames, tlb, clean, objects, panic>>

\* The page that the loop of context c is at.
LoopPage(c) == PageOf(work[c].ptr) + work[c].page
NextPage(c) == work' = [work EXCEPT ![c].page = @ + 1]

\* The page is mapped already: a smaller allocation shares it.
AllocSkipPage(c) ==
  /\ At(c, "alloc_pages")
  /\ work[c].page < PageCount(OrderOf(work[c].size))
  /\ Mapped(LoopPage(c))
  /\ NextPage(c)
  /\ UNCHANGED <<free, treeLock, map, tables, freeFrames, tlb, clean, objects, pc, panic>>

AllocMapPage(c) ==
  /\ At(c, "alloc_pages")
  /\ work[c].page < PageCount(OrderOf(work[c].size))
  /\ ~Mapped(LoopPage(c))
  /\ Cardinality(freeFrames) >= FramesToMap(LoopPage(c))
  /\ MapZeroed(LoopPage(c))
  /\ NextPage(c)
  /\ UNCHANGED <<free, treeLock, objects, pc, panic>>

\* map fails: unmap_range(begin_page..=page) unmaps and frees the pages before
\* this one, and then asserts that this one is mapped, which it is not.  The
\* frame that map had already taken when only the table was missing is lost.
AllocOutOfMemory(c) ==
  LET done == {PageOf(work[c].ptr) + n : n \in 0..(work[c].page - 1)}
  IN  /\ At(c, "alloc_pages")
      /\ work[c].page < PageCount(OrderOf(work[c].size))
      /\ ~Mapped(LoopPage(c))
      /\ Cardinality(freeFrames) < FramesToMap(LoopPage(c))
      /\ map' = [p \in Pages |-> IF p \in done THEN NoFrame ELSE map[p]]
      /\ freeFrames' = {map[p] : p \in done}
      /\ clean' = clean \ {map[p] : p \in done}
      /\ tlb' = [p \in Pages |-> IF p \in done THEN NoFrame ELSE tlb[p]]
      /\ panic' = "unmapped"
      /\ UNCHANGED <<free, treeLock, tables, objects, pc, work>>

\* The loop is done: the lock is dropped and the pointer returned.
AllocReturn(c) ==
  /\ At(c, "alloc_pages")
  /\ work[c].page >= PageCount(OrderOf(work[c].size))
  /\ treeLock' = NoContext
  /\ \/ /\ work[c].kind = "object"
        /\ objects' = objects \union {[work[c] EXCEPT !.page = 0]}
        /\ Return(c)
     \/ /\ work[c].kind = "temp"
        /\ Goto(c, "temp_new")
        /\ UNCHANGED <<objects, work>>
  /\ UNCHANGED <<free, map, tables, freeFrames, tlb, clean, panic>>

-----------------------------------------------------------------------------
(* alloc_specific, called by map_physical_region.  It holds the lock of    *)
(* the tree and of the page tables until it returns: one step.             *)

SpecificPages(ptr, size) ==
  PageOf(ptr)..(PageOf(ptr) + PageCountSpecific(OrderOf(size)) - 1)

MissingTables(ps) == {TableOf(p) : p \in ps} \ tables

AllocSpecific(c, r) ==
  LET order == OrderOf(RegionBytes(r))
  IN  /\ At(c, "idle")
      /\ treeLock = NoContext
      /\ Cardinality(objects) < MaxObjects
      /\ order <= MaxOrder
      /\ \E ptr \in Fitting(order) :
           LET ps == SpecificPages(ptr, RegionBytes(r))
           IN  /\ free' = free \ BlockCells(ptr, order)
               /\ \E ts \in SUBSET freeFrames :
                    /\ Cardinality(ts) = Cardinality(MissingTables(ps))
                    /\ freeFrames' = freeFrames \ ts
               /\ tables' = tables \union MissingTables(ps)
               /\ map' = [p \in Pages |-> IF p \in ps THEN r.start + (p - PageOf(ptr))
                                          ELSE map[p]]
               /\ tlb' = [p \in Pages |-> IF p \in ps THEN NoFrame ELSE tlb[p]]
               /\ objects' = objects \union
                    {[NoWork EXCEPT !.ptr = ptr, !.size = RegionBytes(r),
                                    !.kind = "specific", !.region = r.start]}
      /\ UNCHANGED <<treeLock, clean, pc, work, panic>>

\* map_to fails for want of a page table; unmap_range asserts as in alloc.
AllocSpecificOutOfMemory(c, r) ==
  /\ At(c, "idle")
  /\ treeLock = NoContext
  /\ Cardinality(objects) < MaxObjects
  /\ \E ptr \in Fitting(OrderOf(RegionBytes(r))) :
       Cardinality(MissingTables(SpecificPages(ptr, RegionBytes(r)))) > Cardinality(freeFrames)
  /\ panic' = "unmapped"
  /\ UNCHANGED <<free, treeLock, map, tables, freeFrames, tlb, clean, objects, pc, work>>

-----------------------------------------------------------------------------
(* dealloc                                                                 *)

DeallocCall(c, o) ==
  /\ At(c, "idle")
  /\ o.kind = "object"
  /\ objects' = objects \ {o}
  /\ work' = [work EXCEPT ![c] = o]
  /\ Goto(c, "dealloc_tree")
  /\ UNCHANGED <<free, treeLock, map, tables, freeFrames, tlb, clean, panic>>

\* A mutant of DeallocTree that rounds a small block up to its page.
DeallocTreeWholePage(c) ==
  /\ At(c, "dealloc_tree")
  /\ treeLock = NoContext
  /\ free' = free \union BlockCells(work[c].ptr, IF OrderOf(work[c].size) < PageOrder
                                                THEN PageOrder ELSE OrderOf(work[c].size))
  /\ Goto(c, IF work[c].kind = "specific" THEN "dealloc_specific" ELSE "dealloc_pages")
  /\ UNCHANGED <<treeLock, map, tables, freeFrames, tlb, clean, objects, work, panic>>

\* lock().deallocate(ptr, order): the lock is dropped at the end of the statement.
DeallocTree(c) ==
  /\ At(c, "dealloc_tree")
  /\ treeLock = NoContext
  /\ free' = free \union BlockCells(work[c].ptr, OrderOf(work[c].size))
  /\ Goto(c, CASE work[c].kind = "specific"              -> "dealloc_specific"
               [] work[c].kind # "specific"
                  /\ OrderOf(work[c].size) < PageOrder   -> "dealloc_check"
               [] OTHER                                  -> "dealloc_pages")
  /\ UNCHANGED <<treeLock, map, tables, freeFrames, tlb, clean, objects, work, panic>>

PageCells(p) == (p * 2^PageOrder)..((p + 1) * 2^PageOrder - 1)

\* A mutant of DeallocCheck that unmaps the page whatever else is on it.
DeallocCheckNothing(c) ==
  /\ At(c, "dealloc_check")
  /\ treeLock = NoContext
  /\ Goto(c, "dealloc_pages")
  /\ UNCHANGED <<free, treeLock, map, tables, freeFrames, tlb, clean, objects, work, panic>>

\* The block is smaller than a page: look, under the lock, whether the whole
\* page is free now.
DeallocCheck(c) ==
  /\ At(c, "dealloc_check")
  /\ treeLock = NoContext
  /\ \/ /\ PageCells(PageOf(work[c].ptr)) \subseteq free
        /\ Goto(c, "dealloc_pages")
        /\ UNCHANGED work
     \/ /\ ~(PageCells(PageOf(work[c].ptr)) \subseteq free)
        /\ Return(c)
  /\ UNCHANGED <<free, treeLock, map, tables, freeFrames, tlb, clean, objects, panic>>

\* A mutant of DeallocUnmapPage that does not invalidate the translation.
DeallocUnmapNoInvalidate(c) ==
  /\ At(c, "dealloc_pages")
  /\ work[c].page < PageCount(OrderOf(work[c].size))
  /\ Mapped(LoopPage(c))
  /\ map' = [map EXCEPT ![LoopPage(c)] = NoFrame]
  /\ freeFrames' = freeFrames \union {map[LoopPage(c)]}
  /\ clean' = clean \ {map[LoopPage(c)]}
  /\ NextPage(c)
  /\ UNCHANGED <<free, treeLock, tables, tlb, objects, pc, panic>>

\* unmap asserts that the page is mapped.
UnmapPanics ==
  /\ panic' = "unmapped"
  /\ UNCHANGED <<free, treeLock, map, tables, freeFrames, tlb, clean, objects, pc, work>>

DeallocUnmapPage(c) ==
  /\ At(c, "dealloc_pages")
  /\ work[c].page < PageCount(OrderOf(work[c].size))
  /\ IF Mapped(LoopPage(c))
     THEN /\ UnmapFree(LoopPage(c))
          /\ NextPage(c)
          /\ UNCHANGED <<free, treeLock, objects, pc, panic>>
     ELSE UnmapPanics

\* A mutant of DeallocReturn that leaves the last page of a large block mapped.
DeallocReturnEarly(c) ==
  /\ At(c, "dealloc_pages")
  /\ work[c].page + 1 >= PageCount(OrderOf(work[c].size))
  /\ Return(c)
  /\ UNCHANGED <<free, treeLock, map, tables, freeFrames, tlb, clean, objects, panic>>

DeallocReturn(c) ==
  /\ At(c, "dealloc_pages")
  /\ work[c].page >= PageCount(OrderOf(work[c].size))
  /\ Return(c)
  /\ UNCHANGED <<free, treeLock, map, tables, freeFrames, tlb, clean, objects, panic>>

-----------------------------------------------------------------------------
(* dealloc_specific: NoFree and NoInvalidate.                              *)

DeallocSpecificCall(c, o) ==
  /\ At(c, "idle")
  /\ o.kind = "specific"
  /\ objects' = objects \ {o}
  /\ work' = [work EXCEPT ![c] = o]
  /\ Goto(c, "dealloc_tree")
  /\ UNCHANGED <<free, treeLock, map, tables, freeFrames, tlb, clean, panic>>

DeallocSpecificPage(c) ==
  /\ At(c, "dealloc_specific")
  /\ work[c].page < PageCountSpecific(OrderOf(work[c].size))
  /\ IF Mapped(LoopPage(c))
     THEN /\ map' = [map EXCEPT ![LoopPage(c)] = NoFrame]
          /\ NextPage(c)
          /\ UNCHANGED <<free, treeLock, tables, freeFrames, tlb, clean, objects, pc, panic>>
     ELSE UnmapPanics

DeallocSpecificReturn(c) ==
  /\ At(c, "dealloc_specific")
  /\ work[c].page >= PageCountSpecific(OrderOf(work[c].size))
  /\ Return(c)
  /\ UNCHANGED <<free, treeLock, map, tables, freeFrames, tlb, clean, objects, panic>>

-----------------------------------------------------------------------------
(* TemporaryPage: a heap page whose mapping is taken away and lent out.    *)

\* TemporaryPage::new, after HEAP.alloc: remember the frame and unmap the page, or
\* panic (unwrap) if it was unmapped behind the back of its holder.
TempNew(c) ==
  LET p == PageOf(work[c].ptr)
  IN  /\ At(c, "temp_new")
      /\ IF Mapped(p)
         THEN /\ objects' = objects \union {[work[c] EXCEPT !.page = 0, !.frame = map[p]]}
              /\ map' = [map EXCEPT ![p] = NoFrame]
              /\ tlb' = [tlb EXCEPT ![p] = NoFrame]
              /\ Return(c)
              /\ UNCHANGED <<free, treeLock, tables, freeFrames, clean, panic>>
         ELSE /\ panic' = "no_memory"
              /\ UNCHANGED <<free, treeLock, map, tables, freeFrames, tlb, clean, objects,
                             pc, work>>

\* HEAP.alloc returned null: walk_page_table(page 0).unwrap() panics.
TempNewNull(c, size) ==
  /\ At(c, "idle")
  /\ treeLock = NoContext
  /\ OrderOf(size) > MaxOrder \/ Fitting(OrderOf(size)) = {}
  /\ panic' = "no_memory"
  /\ UNCHANGED <<free, treeLock, map, tables, freeFrames, tlb, clean, objects, pc, work>>

TempMap(c, o) ==
  /\ At(c, "idle")
  /\ o.kind = "temp"
  /\ ~Mapped(PageOf(o.ptr))
  /\ map' = [map EXCEPT ![PageOf(o.ptr)] = P4Frame]
  /\ tlb' = [tlb EXCEPT ![PageOf(o.ptr)] = NoFrame]
  /\ UNCHANGED <<free, treeLock, tables, freeFrames, clean, objects, pc, work, panic>>

TempUnmap(c, o) ==
  /\ At(c, "idle")
  /\ o.kind = "temp"
  /\ Mapped(PageOf(o.ptr))
  /\ map' = [map EXCEPT ![PageOf(o.ptr)] = NoFrame]
  /\ tlb' = [tlb EXCEPT ![PageOf(o.ptr)] = NoFrame]
  /\ UNCHANGED <<free, treeLock, tables, freeFrames, clean, objects, pc, work, panic>>

\* A mutant of TempDrop that does not put the heap frame back.
TempDropLosesFrame(c, o) ==
  /\ At(c, "idle")
  /\ o.kind = "temp"
  /\ ~Mapped(PageOf(o.ptr))
  /\ objects' = objects \ {o}
  /\ work' = [work EXCEPT ![c] = o]
  /\ Goto(c, "dealloc_tree")
  /\ UNCHANGED <<free, treeLock, map, tables, freeFrames, tlb, clean, panic>>

\* Drop: map the frame of the heap page again, then HEAP.dealloc.
TempDrop(c, o) ==
  /\ At(c, "idle")
  /\ o.kind = "temp"
  /\ ~Mapped(PageOf(o.ptr))
  /\ map' = [map EXCEPT ![PageOf(o.ptr)] = o.frame]
  /\ tlb' = [tlb EXCEPT ![PageOf(o.ptr)] = NoFrame]
  /\ objects' = objects \ {o}
  /\ work' = [work EXCEPT ![c] = [o EXCEPT !.frame = NoFrame]]
  /\ Goto(c, "dealloc_tree")
  /\ UNCHANGED <<free, treeLock, tables, freeFrames, clean, panic>>

-----------------------------------------------------------------------------

Alloc(c) ==
  \/ \E size \in Sizes : AllocTree(c, size, "object")
  \/ AllocSkipPage(c) \/ AllocMapPage(c) \/ AllocOutOfMemory(c) \/ AllocReturn(c)

Specific(c) ==
  \/ \E r \in DeviceRegions : AllocSpecific(c, r) \/ AllocSpecificOutOfMemory(c, r)
  \/ \E o \in objects : DeallocSpecificCall(c, o)
  \/ DeallocSpecificPage(c) \/ DeallocSpecificReturn(c)

Dealloc(c) ==
  \/ \E o \in objects : DeallocCall(c, o)
  \/ DeallocTree(c) \/ DeallocCheck(c) \/ DeallocUnmapPage(c)
  \/ DeallocReturn(c)

\* One TemporaryPage at a time: remap_kernel and new_process_page_tables each
\* hold one and never run at the same time.
NoTemporaryPage ==
  /\ \A o \in objects : o.kind # "temp"
  /\ \A d \in Contexts : work[d].kind # "temp"

Temporary(c) ==
  \/ NoTemporaryPage /\ AllocTree(c, PageBytes, "temp")
  \/ NoTemporaryPage /\ TempNewNull(c, PageBytes)
  \/ TempNew(c)
  \/ \E o \in objects : TempMap(c, o) \/ TempUnmap(c, o) \/ TempDrop(c, o)

Next ==
  \/ \E c \in Contexts : Alloc(c) \/ Specific(c) \/ Dealloc(c) \/ Temporary(c)
  \/ \E p \in Pages : TlbFill(p) \/ TlbEvict(p)

Spec == Init /\ [][Next]_vars

-----------------------------------------------------------------------------
(* Properties                                                              *)

BytesOf(o) == o.ptr..(o.ptr + o.size - 1)

\* Live allocations never share a byte, and no cell of a live allocation is
\* free in the tree.
NoOverlap ==
  \A o \in objects :
    /\ BlockCells(o.ptr, OrderOf(o.size)) \intersect free = {}
    /\ \A q \in objects \ {o} : BytesOf(o) \intersect BytesOf(q) = {}

\* The frame a live allocation must find at its n-th page.
Backed(o, p) ==
  CASE o.kind = "object"   -> map[p] \in Frames
    [] o.kind = "specific" -> map[p] = o.region + (p - PageOf(o.ptr))
    [] o.kind = "temp"     -> map[p] \in {NoFrame, P4Frame}

\* Every byte of a live allocation is on a mapped page, with memory of the
\* right kind behind it: although alloc maps only half of the block, and
\* although dealloc unmaps pages that smaller allocations share.
AllocatedIsMapped ==
  \A o \in objects : \A b \in BytesOf(o) : Backed(o, PageOf(b))

\* Frames of the allocator in use by the heap: behind pages, as page tables,
\* or put aside by a TemporaryPage.
FramesAside == {o.frame : o \in {q \in objects : q.kind = "temp"}}

\* No frame is used twice or lost: a frame is behind at most one page, a frame
\* behind a page is not free, and together they are all the frames.
FramesAccounted ==
  LET behind == {p \in Pages : map[p] \in Frames}
  IN  /\ \A p, q \in behind : p # q => map[p] # map[q]
      /\ \A p \in behind : map[p] \notin freeFrames \union FramesAside
      /\ FramesAside \intersect freeFrames = {}
      /\ panic = "no" =>
           Cardinality(Frames) = Cardinality(freeFrames) + Cardinality(behind)
                                 + Cardinality(FramesAside) + Cardinality(tables)

\* Nothing stays mapped for nobody: when no call is running, every mapped page
\* holds a part of a live allocation's block.
NoIdleMapping ==
  (\A c \in Contexts : pc[c] = "idle") =>
    \A p \in Pages : Mapped(p) =>
      \E o \in objects : PageCells(p) \intersect BlockCells(o.ptr, OrderOf(o.size)) # {}

\* A page that alloc maps afresh is zeroed, as ZeroPage::Zero asks: the frame behind it
\* holds zeroes after the step, whatever translation of the page was cached. Excepted is a
\* translation to a device: dealloc_specific leaves it in the TLB, and the zeroes go there.
FreshPageIsZeroedAfterDealloc ==
  [][\A c \in Contexts, p \in Pages :
       (/\ pc[c] = "alloc_pages" /\ p = LoopPage(c) /\ map[p] = NoFrame /\ map'[p] # NoFrame
        /\ tlb[p] \in Frames \union {NoFrame})
         => map'[p] \in clean']_vars
=============================================================================
