---------------------------- MODULE MemoryInit -----------------------------
(***************************************************************************)
(* How the kernel takes possession of memory at boot: init_memory in       *)
(* kernel/src/memory.rs, with the bootstrap heap, the first maps of the    *)
(* physical allocator and of the heap's tree, the switch to new page       *)
(* tables (kernel/src/memory/paging/remap.rs), and the interrupt stacks.   *)
(*                                                                         *)
(* It runs once, with interrupts off, as one sequence of steps; what can   *)
(* go wrong is the arithmetic of ranges (inclusive or not, rounded up or   *)
(* down) and memory that two parts believe to be theirs.                   *)
(*                                                                         *)
(* Physical addresses are bytes.  Virtual addresses are bytes counted from *)
(* KERNEL_MAPPING_BEGIN; the window is the part of the higher half that    *)
(* boot.asm maps.  The physical allocator is the set of its free frames.   *)
(***************************************************************************)
EXTENDS Integers, FiniteSets, FiniteSetsExt

CONSTANTS
  PageBytes,       \* 4096 in the code
  WindowPages,     \* pages that boot.asm maps (512 * 512)
  NoFrame,         \* the absence of a frame
  Machines,        \* what the boot loader may report, see Machine
  Slots,           \* objects that the bootstrap heap holds (8)
  SlotBytes,       \* size of one: PhysicalTree::total_blocks()
  HeapTreeBytes,   \* Heap::tree_size()
  IstStackPages,   \* IST_STACK_SIZE_PAGES
  IstStacks,       \* stacks of the TSS: seven for the IST, one for system calls (8)
  TreeBytes,       \* memory of one tree of the physical allocator (1 << 30)
  PrelimTrees,     \* trees that init_prelim sets up (8)
  U8Values,        \* values of the type of `trees' (256)
  VgaPage,         \* the page of VIRTUAL_VGA_PTR
  RemapTables      \* frames that the new page tables take

RoundUpDivide(x, y) == (x + y - 1) \div y
PageOf(addr) == addr \div PageBytes
TreeOf(frame) == (frame * PageBytes) \div TreeBytes
Window == 0..(WindowPages - 1)
BootstrapBytes == Slots * SlotBytes      \* BootstrapHeap::space_taken()
NotStored == -1
OnHeap == Slots

ASSUME SizesAssumption ==
  /\ {PageBytes, WindowPages, SlotBytes, HeapTreeBytes, TreeBytes} \subseteq Nat \ {0}
  /\ {IstStackPages, IstStacks, U8Values, Slots} \subseteq Nat \ {0}
  /\ RemapTables \in Nat /\ PrelimTrees \in 0..U8Values
  /\ NoFrame \notin Nat

\* A machine: the usable areas of the memory map (end excluded), the allocated
\* sections of the kernel (window addresses, end excluded), the boot information
\* and the page under the boot stack, a page of the kernel.  The loader puts
\* the boot information above the kernel, and the kernel above the VGA buffer.
WellFormed(r) == r.start \in Nat /\ r.end \in Nat /\ r.start <= r.end
ASSUME MachinesAssumption ==
  /\ IsFiniteSet(UNION {m.areas : m \in Machines})
  /\ VgaPage \in Nat
  /\ \A m \in Machines :
       /\ m.areas # {} /\ m.sections # {} /\ IsFiniteSet(m.sections)
       /\ \A r \in m.areas \union m.sections \union {m.mbInfo} : WellFormed(r)
       /\ \A s \in m.sections : s.start % PageBytes = 0 /\ s.end < m.mbInfo.start
       /\ \A s \in m.sections : VgaPage < PageOf(s.start)
       /\ m.guardPage \in Nat /\ \E s \in m.sections : (m.guardPage + 1) * PageBytes <= s.end

\* The kernel, the bootstrap heap, the heap's tree and the stacks take a few MiB: they fit
\* in the GiB that boot.asm maps, and so do the boot information and the frames after it.
ASSUME WindowAssumption ==
  \A m \in Machines :
    /\ \A s \in m.sections :
         PageOf(s.end + 1) + PageOf(BootstrapBytes + 1) + 2
           + RoundUpDivide(HeapTreeBytes, PageBytes) + IstStackPages * IstStacks <= WindowPages
    /\ PageOf(m.mbInfo.end + 1) + 1 + PageOf(BootstrapBytes) < WindowPages

VARIABLES
  machine,    \* what the boot loader reported
  phase,      \* the next step of init_memory, or "panic"
  map,        \* the active page tables, for the window
  bitmap,     \* the used slots of the bootstrap heap
  bootHeap,   \* first page and first frame of the bootstrap heap
  heapTree,   \* the first page of the heap's tree
  trees,      \* the number that setup_physical_allocator_prelim returns
  usable,     \* the usable ranges it returns
  exists,     \* the trees of the physical allocator that are set up
  free,       \* the free frames of the physical allocator
  storage,    \* where the blocks of a tree are: in a slot of the bootstrap heap, or OnHeap
  heapMapped, \* the trees whose blocks are on the heap and mapped
  stacks      \* the tops of the stacks that the TSS holds

vars == <<machine, phase, map, bitmap, bootHeap, heapTree, trees, usable, exists,
          free, storage, heapMapped, stacks>>

Phases == {"bootstrap_heap", "prelim", "prelim_trees", "heap", "rest", "remap",
           "guard_page", "ist", "done", "panic"}
TreeIndex == 0..(U8Values - 1)
Frames == 0..(Max({0} \union {r.end : r \in UNION {m.areas : m \in Machines}}) \div PageBytes
              + WindowPages)

\* init_memory computes only well-formed ranges, pages and frames: every usable range
\* that range_sub leaves has start <= end.
TypeOK ==
  /\ machine \in Machines
  /\ phase \in Phases
  /\ map \in [Window -> Frames \union {NoFrame}]
  /\ bitmap \subseteq 0..(Slots - 1)
  /\ bootHeap \in [page : Window, frame : Frames]
  /\ heapTree \in Window
  /\ trees \in TreeIndex
  /\ \A r \in usable : WellFormed(r)
  /\ exists \subseteq TreeIndex
  /\ free \subseteq Frames
  /\ storage \in [TreeIndex -> {NotStored} \union 0..OnHeap]
  /\ heapMapped \subseteq TreeIndex
  /\ stacks \subseteq 0..(WindowPages * PageBytes)

\* boot.asm has mapped the window to the first frames (setup_higher_half).
Init ==
  /\ machine \in Machines
  /\ phase = "bootstrap_heap"
  /\ map = [p \in Window |-> p]
  /\ bitmap = {}
  /\ bootHeap = [page |-> 0, frame |-> 0]
  /\ heapTree = 0
  /\ trees = 0
  /\ usable = {}
  /\ exists = {}
  /\ free = {}
  /\ storage = [i \in TreeIndex |-> NotStored]
  /\ heapMapped = {}
  /\ stacks = {}

\* expect, unwrap: the kernel stops.
Panic ==
  /\ phase' = "panic"
  /\ UNCHANGED <<machine, map, bitmap, bootHeap, heapTree, trees, usable, exists,
                 free, storage, heapMapped, stacks>>

\* The sets of n frames that PhysicalAllocator::allocate may hand out: it asks the
\* trees in their order, and nothing else runs.
Handouts(n) ==
  {fs \in {{pick[i] : i \in 1..n} : pick \in [1..n -> free]} :
     /\ Cardinality(fs) = n
     /\ \A f \in fs, g \in free \ fs : f < g \/ TreeOf(f) = TreeOf(g)}

\* Mapper::map for each page of a set: every page gets a frame of its own.
MapFresh(ps) ==
  \E fs \in Handouts(Cardinality(ps)) :
    \E f \in [ps -> fs] :
      /\ {f[p] : p \in ps} = fs
      /\ map' = [p \in Window |-> IF p \in ps THEN f[p] ELSE map[p]]
      /\ free' = free \ fs

-----------------------------------------------------------------------------
(* kernel_area and setup_bootstrap_heap                                    *)

\* The end of kernel_area.  Modules are chained in too, but by their physical
\* addresses, which lie below every section's.
KernelEnd == Max({s.end : s \in machine.sections})

\* Virtual memory from the page after the kernel's, physical memory from the frame
\* after the boot information's.
SetupBootstrapHeap ==
  LET page == PageOf(KernelEnd + 1) + 1
      frame == PageOf(machine.mbInfo.end + 1) + 1
      pages == page..(page + BootstrapBytes \div PageBytes)      \* PageRangeMapping::new
  IN  /\ phase = "bootstrap_heap"
      /\ map' = [p \in Window |-> IF p \in pages THEN frame + (p - page) ELSE map[p]]
      /\ bootHeap' = [page |-> page, frame |-> frame]
      /\ phase' = "prelim"
      /\ UNCHANGED <<machine, bitmap, heapTree, trees, usable, exists, free, storage,
                     heapMapped, stacks>>

-----------------------------------------------------------------------------
(* setup_physical_allocator_prelim and init_prelim                         *)

\* A mutant of RangeSub that forgets the hole when it is inside the range.
RangeSubKeepsHole(main, sub) ==
  IF sub.start <= main.start
  THEN IF sub.end < main.end THEN {[start |-> sub.end, end |-> main.end]} ELSE {}
  ELSE IF sub.start < main.end
       THEN {[start |-> main.start, end |-> sub.start]} \union
            (IF sub.end >= main.end THEN {} ELSE {[start |-> sub.start, end |-> main.end]})
       ELSE {main}

\* A mutant of RangeSub that does not look whether the hole covers the end.
RangeSubAlwaysSplits(main, sub) ==
  IF sub.start <= main.start
  THEN IF sub.end < main.end THEN {[start |-> sub.end, end |-> main.end]} ELSE {}
  ELSE IF sub.start < main.end
       THEN {[start |-> main.start, end |-> sub.start], [start |-> sub.end, end |-> main.end]}
       ELSE {main}

\* range_sub: what is left of range main without range sub.
RangeSub(main, sub) ==
  IF sub.start <= main.start
  THEN IF sub.end < main.end THEN {[start |-> sub.end, end |-> main.end]} ELSE {}
  ELSE IF sub.start < main.end
       THEN {[start |-> main.start, end |-> sub.start]} \union
            (IF sub.end >= main.end THEN {} ELSE {[start |-> sub.end, end |-> main.end]})
       ELSE {main}

\* The used areas are inclusive ranges: one is added to their ends.
Without(areas, start, last) ==
  UNION {RangeSub(a, [start |-> start, end |-> last + 1]) : a \in areas}

HighestAddress == Max({a.end - 1 : a \in machine.areas})

SetupPhysicalAllocatorPrelim ==
  LET bootStart == bootHeap.frame * PageBytes
  IN  /\ phase = "prelim"
      /\ trees' = RoundUpDivide(HighestAddress, TreeBytes) % U8Values       \* as u8
      /\ usable' = Without(Without(Without(machine.areas,
                             0, KernelEnd),
                             machine.mbInfo.start, machine.mbInfo.end),
                             bootStart, bootStart + BootstrapBytes)
      /\ phase' = "prelim_trees"
      /\ UNCHANGED <<machine, map, bitmap, bootHeap, heapTree, exists, free, storage,
                     heapMapped, stacks>>

\* The frames of tree i that one usable range covers (localize, Tree::new).
TreeFrames(i) ==
  {f \in Frames :
     /\ TreeOf(f) = i
     /\ \E r \in usable : r.start <= f * PageBytes /\ (f + 1) * PageBytes <= r.end}

\* The trees are set up in order.
NextTree == Cardinality(exists)

\* One turn of init_prelim: BootstrapHeap::allocate takes the first unused bit.
InitPrelimTree ==
  LET unused == (0..(Slots - 1)) \ bitmap
  IN  /\ phase = "prelim_trees"
      /\ NextTree < PrelimTrees
      /\ unused # {}
      /\ bitmap' = bitmap \union {Min(unused)}
      /\ storage' = [storage EXCEPT ![NextTree] = Min(unused)]
      /\ exists' = exists \union {NextTree}
      /\ free' = free \union TreeFrames(NextTree)
      /\ UNCHANGED <<machine, phase, map, bootHeap, heapTree, trees, usable,
                     heapMapped, stacks>>

InitPrelimDone ==
  /\ phase = "prelim_trees"
  /\ NextTree >= PrelimTrees
  /\ phase' = "heap"
  /\ UNCHANGED <<machine, map, bitmap, bootHeap, heapTree, trees, usable, exists,
                 free, storage, heapMapped, stacks>>

-----------------------------------------------------------------------------
(* Heap::init                                                              *)

\* bootstrap_heap_virtual.end() + 1, taken to the next page.
HeapTreePage == PageOf(bootHeap.page * PageBytes + BootstrapBytes + 1) + 1

\* A mutant of HeapTreePages that starts in the page where the bootstrap heap ends.
HeapTreePagesSharing == (HeapTreePage - 1)..(HeapTreePage - 1 + HeapTreeBytes \div PageBytes)

HeapTreePages == HeapTreePage..(HeapTreePage + HeapTreeBytes \div PageBytes)

HeapInit ==
  /\ phase = "heap"
  /\ Cardinality(free) >= Cardinality(HeapTreePages)
  /\ MapFresh(HeapTreePages)
  /\ heapTree' = Min(HeapTreePages)
  /\ phase' = "rest"
  /\ UNCHANGED <<machine, bitmap, bootHeap, trees, usable, exists, storage, heapMapped,
                 stacks>>

HeapInitOutOfMemory ==
  /\ phase = "heap"
  /\ Cardinality(free) < Cardinality(HeapTreePages)
  /\ Panic

HeapTreeEnd == heapTree * PageBytes + HeapTreeBytes

-----------------------------------------------------------------------------
(* init_rest: the blocks of the further trees are allocated on the heap.   *)
(* A machine whose memory map reaches beyond the first trees has frames    *)
(* left for them.                                                          *)

InitRestTree ==
  /\ phase = "rest"
  /\ NextTree <= trees
  /\ \E fs \in Handouts(1) : free' = (free \ fs) \union TreeFrames(NextTree)
  /\ exists' = exists \union {NextTree}
  /\ storage' = [storage EXCEPT ![NextTree] = OnHeap]
  /\ heapMapped' = heapMapped \union {NextTree}
  /\ UNCHANGED <<machine, phase, map, bitmap, bootHeap, heapTree, trees, usable, stacks>>

InitRestDone ==
  /\ phase = "rest"
  /\ NextTree > trees
  /\ phase' = "remap"
  /\ UNCHANGED <<machine, map, bitmap, bootHeap, heapTree, trees, usable, exists,
                 free, storage, heapMapped, stacks>>

-----------------------------------------------------------------------------
(* remap_kernel                                                            *)

\* higher_half_map_range maps the page after the section, too.
SectionPages ==
  UNION {PageOf(s.start)..RoundUpDivide(s.end, PageBytes) : s \in machine.sections}

\* A mutant of RemappedPages that takes the tree's size for its end.
RemappedPagesShort ==
  (bootHeap.page..RoundUpDivide(bootHeap.page * PageBytes + BootstrapBytes, PageBytes))
    \union (heapTree..RoundUpDivide(HeapTreeBytes, PageBytes))

\* remap_range, for the bootstrap heap and the heap's tree: the pages from the first
\* one to the one where the end is rounded up to, included.
RemappedPages ==
  (bootHeap.page..RoundUpDivide(bootHeap.page * PageBytes + BootstrapBytes, PageBytes))
    \union (heapTree..RoundUpDivide(HeapTreeEnd, PageBytes))

\* walk_page_table(page).unwrap(), and frames for the tables and the temporary page.
CanRemap ==
  /\ \A p \in RemappedPages : p \in Window /\ map[p] # NoFrame
  /\ Cardinality(free) >= RemapTables + 1

\* The new page tables hold these pages and nothing else; whatever else was mapped
\* on the heap is gone after the switch.  The temporary page that remap_kernel
\* borrows from the heap is given back.
RemapKernel ==
  /\ phase = "remap"
  /\ CanRemap
  /\ \E fs \in Handouts(RemapTables) : free' = free \ fs
  /\ map' = [p \in Window |-> CASE p \in RemappedPages                    -> map[p]
                                [] p \in (SectionPages \union {VgaPage}) \ RemappedPages -> p
                                [] OTHER                                  -> NoFrame]
  /\ heapMapped' = {}
  /\ phase' = "guard_page"
  /\ UNCHANGED <<machine, bitmap, bootHeap, heapTree, trees, usable, exists, storage, stacks>>

RemapPanics ==
  /\ phase = "remap"
  /\ ~CanRemap
  /\ Panic

-----------------------------------------------------------------------------
(* setup_guard_page, setup_ist                                             *)

\* A mutant of SetupGuardPage that unmaps the page above, the bottom of the stack.
SetupGuardPageAbove ==
  /\ phase = "guard_page"
  /\ map[machine.guardPage] # NoFrame
  /\ map' = [map EXCEPT ![machine.guardPage + 1] = NoFrame]
  /\ phase' = "ist"
  /\ UNCHANGED <<machine, bitmap, bootHeap, heapTree, trees, usable, exists, free,
                 storage, heapMapped, stacks>>

SetupGuardPage ==
  /\ phase = "guard_page"
  /\ map[machine.guardPage] # NoFrame        \* walk_page_table(page).expect
  /\ map' = [map EXCEPT ![machine.guardPage] = NoFrame]
  /\ phase' = "ist"
  /\ UNCHANGED <<machine, bitmap, bootHeap, heapTree, trees, usable, exists, free,
                 storage, heapMapped, stacks>>

IstBase == RoundUpDivide(HeapTreeEnd, PageBytes)

\* StackAllocator::alloc: the n-th stack starts at this page.
StackBase(n) == IstBase + n * IstStackPages
GuardPages == {StackBase(n) : n \in 0..(IstStacks - 1)}
StackPages == (IstBase..(IstBase + IstStackPages * IstStacks - 1)) \ GuardPages

SetupIst ==
  /\ phase = "ist"
  /\ Cardinality(free) >= Cardinality(StackPages)
  /\ MapFresh(StackPages)
  /\ stacks' = {(StackBase(n) + IstStackPages) * PageBytes : n \in 0..(IstStacks - 1)}
  /\ phase' = "done"
  /\ UNCHANGED <<machine, bitmap, bootHeap, heapTree, trees, usable, exists, storage,
                 heapMapped>>

SetupIstOutOfMemory ==
  /\ phase = "ist"
  /\ Cardinality(free) < Cardinality(StackPages)
  /\ Panic

-----------------------------------------------------------------------------

Next ==
  \/ SetupBootstrapHeap
  \/ SetupPhysicalAllocatorPrelim \/ InitPrelimTree \/ InitPrelimDone
  \/ HeapInit \/ HeapInitOutOfMemory
  \/ InitRestTree \/ InitRestDone
  \/ RemapKernel \/ RemapPanics
  \/ SetupGuardPage \/ SetupIst \/ SetupIstOutOfMemory

Spec == Init /\ [][Next]_vars

-----------------------------------------------------------------------------
(* Properties                                                              *)

\* The pages each part of the kernel uses, from the moment it has them.
KernelPages == {p \in Window : \E s \in machine.sections :
                  p * PageBytes < s.end /\ s.start < (p + 1) * PageBytes}
               \ {machine.guardPage}

After(p) ==
  CASE p = "bootstrap" -> phase # "bootstrap_heap"
    [] p = "tree"      -> phase \in {"rest", "remap", "guard_page", "ist", "done"}
    [] p = "stacks"    -> phase = "done"

BytePages(start, bytes) == PageOf(start)..PageOf(start + bytes - 1)
BootstrapPages == IF After("bootstrap")
                  THEN BytePages(bootHeap.page * PageBytes, BootstrapBytes) ELSE {}
TreePages == IF After("tree") THEN BytePages(heapTree * PageBytes, HeapTreeBytes) ELSE {}

\* What the processor pushes on: the bytes below each top, down to the guard page.
IstPages == UNION {PageOf(top - 1 - (IstStackPages - 2) * PageBytes)..PageOf(top - 1) : top \in stacks}
UsedPages == KernelPages \union BootstrapPages \union TreePages \union IstPages

\* The frames that hold the kernel, the boot information and the bootstrap heap.
ReservedFrames ==
  (0..PageOf(KernelEnd - 1))
    \union (PageOf(machine.mbInfo.start)..PageOf(machine.mbInfo.end - 1))
    \union IF After("bootstrap")
           THEN BytePages(bootHeap.frame * PageBytes, BootstrapBytes) ELSE {}

\* The physical allocator never owns memory that is in use since before it existed:
\* no frame that holds a byte of the kernel, of the boot information or of the
\* bootstrap heap is free, although none of these ends on a frame's border.
ReservedNeverFree == ReservedFrames \intersect free = {}

\* The physical allocator owns only memory that the memory map reports as usable.
OnlyReportedMemory ==
  \A f \in free : \E a \in machine.areas :
    a.start <= f * PageBytes /\ (f + 1) * PageBytes <= a.end

\* The kernel, the bootstrap heap, the heap's tree and the stacks have pages of
\* their own, inside the window: each start is computed from the one before.
LayoutApart ==
  /\ UsedPages \subseteq Window
  /\ KernelPages \intersect (BootstrapPages \union TreePages \union IstPages) = {}
  /\ BootstrapPages \intersect (TreePages \union IstPages) = {}
  /\ TreePages \intersect IstPages = {}

\* What a page of the kernel holds is its own: it is mapped, its frame is behind no
\* other page in use, and the physical allocator will not hand the frame out.
FramesPrivate ==
  \A p \in UsedPages :
    /\ map[p] # NoFrame
    /\ map[p] \notin free
    /\ \A q \in UsedPages \ {p} : map[q] # map[p]

\* The switch to the new page tables moves nothing: each page in use has the same
\* frame behind it before and after.
RemapKeepsPages ==
  [][phase = "remap" => \A p \in UsedPages : map'[p] = map[p]]_vars

\* Each stack ends in a page that is not mapped, so that running over it faults: the
\* boot stack, and those of the TSS but the lowest, whose guard page remap_kernel maps.
StacksGuarded ==
  phase = "done" =>
    /\ map[machine.guardPage] = NoFrame
    /\ \A top \in stacks : LET guard == PageOf(top) - IstStackPages
                           IN  guard # IstBase => map[guard] = NoFrame

\* The blocks of every tree that the physical allocator may walk to are mapped.
TreesReachable ==
  \A i \in exists :
    IF storage[i] = OnHeap THEN i \in heapMapped
    ELSE \A p \in BytePages(bootHeap.page * PageBytes + storage[i] * SlotBytes, SlotBytes) :
           map[p] # NoFrame
=============================================================================
