----------------------------- MODULE PageTables ------------------------------
(***************************************************************************)
(* The page tables as the kernel edits them: through virtual addresses, by *)
(* way of the recursive entry of the top table, on a CPU that caches       *)
(* translations (kernel/src/memory/paging.rs and paging/page_map.rs).      *)
(*                                                                         *)
(* The program is the kernel's own use of them, in order: remap_kernel     *)
(* builds tables with with_inactive_p4 while the boot tables are active,   *)
(* then new_process_page_tables makes tables that share the kernel's half, *)
(* spawn_from_elf fills them with with_inactive, and run_by_pid switches   *)
(* to them.  The heap maps and unmaps pages in between, and so does the    *)
(* ACPI handler, for a device.                                             *)
(*                                                                         *)
(* A page is the sequence of its indices, the top table's first.  Huge     *)
(* pages are left out: they exist only in the identity map of boot.asm,    *)
(* which remap_kernel drops and no code walks.  Access rights are left out *)
(* too; modules Process and MemoryInit have them.                          *)
(***************************************************************************)
EXTENDS Integers, Sequences, FiniteSets, FiniteSetsExt, SequencesExt

CONSTANTS
    Levels,       \* levels of page tables (4)
    Index,        \* indices of a table (0..511)
    Rec,          \* the recursive entry of a top table (510)
    Kern,         \* the kernel's entry of a top table (511)
    FrameCount,   \* frames of the machine
    BootP4,       \* the top table that boot.asm loads into CR3
    BootMemory,   \* what the frames hold then, as tables
    BootFree,     \* the frames that the physical allocator has
    Temp,         \* the heap page that TemporaryPage::new gets
    Sections,     \* what remap_kernel maps: a sequence of [page, entry]
    Remapped,     \* the ranges it takes over from the boot tables, as sequences of pages
    HeapPages,    \* pages that the heap maps and unmaps
    Device,       \* the frame of a device's memory
    UserPages,    \* pages that the process is given
    TlbSize       \* translations that the CPU keeps at a time

Frames == 1 .. FrameCount
AllPages == [1 .. Levels -> Index]
KernelPages == {p \in AllPages : p[1] = Kern}
\* Pages that map data: not the recursive window, not the temporary page.
DataPages == {p \in AllPages : p[1] # Rec} \ {Temp}

ASSUME PageTablesAssumption ==
    /\ Levels \in Nat /\ Levels >= 2 /\ TlbSize \in Nat /\ FrameCount \in Nat
    /\ {Rec, Kern} \subseteq Index /\ Rec # Kern
    /\ BootP4 \in Frames /\ BootFree \subseteq Frames /\ Device \in Frames \ BootFree
    /\ BootMemory[BootP4][Rec].frame = BootP4
    /\ Temp \in KernelPages /\ HeapPages \subseteq KernelPages \ {Temp}
    /\ UserPages \subseteq DataPages \ KernelPages

VARIABLES
    mem,     \* frame -> the table in it: index -> entry
    tlb,     \* the cached translations: page -> the entry that maps it
    cr3,     \* the frame of the active top table
    free,    \* the frames that the physical allocator has
    failed,  \* "no"; "oom" when an allocation failed; "fault" after a page fault or an assert
    pc,      \* what the kernel does next
    tables,  \* the top tables made so far
    new,     \* the top table being built: `new_table' or `page_tables' in the code
    old,     \* the top table to go back to: `backup' or `old' in the code
    heapFrame, \* TemporaryPage::frame_addr, 0 for no temporary page
    ranges,  \* ranges left to remap
    todo,    \* pages left to map: a sequence of [page, entry]
    then     \* what follows the closure of with_inactive_p4, or the temporary page's drop

vars == <<mem, tlb, cr3, free, failed, pc, tables, new, old, heapFrame, ranges, todo, then>>
thread == <<tables, new, old, heapFrame, ranges, todo, then>>

----------------------------------------------------------------------------
(* The CPU and memory (external). A machine is a record s of mem, tlb, cr3,   *)
(* free and failed; an operation takes one and gives the next.                *)

Unused == [frame |-> 0, global |-> FALSE]
To(frame) == [frame |-> frame, global |-> FALSE]
ToGlobal(frame) == [frame |-> frame, global |-> TRUE]

\* The entry that maps a page under a top table, Unused when there is none.
Walk(m, root, page) ==
    FoldLeft(LAMBDA e, i : IF e.frame = 0 THEN Unused ELSE m[e.frame][i], To(root), page)

\* Where an access to a page goes.
Translate(s, page) ==
    IF page \in DOMAIN s.tlb THEN s.tlb[page].frame ELSE Walk(s.mem, s.cr3, page).frame

Fail(s, why) == [s EXCEPT !.failed = why]
Read(s, page, i) == LET f == Translate(s, page) IN IF f = 0 THEN Unused ELSE s.mem[f][i]
Store(s, page, table) ==
    LET f == Translate(s, page) IN IF f = 0 THEN Fail(s, "fault") ELSE [s EXCEPT !.mem[f] = table]
Write(s, page, i, entry) ==
    LET f == Translate(s, page) IN IF f = 0 THEN Fail(s, "fault") ELSE [s EXCEPT !.mem[f][i] = entry]

Forget(s, pages) == [s EXCEPT !.tlb = [p \in DOMAIN s.tlb \ pages |-> s.tlb[p]]]
flush(s, page) == Forget(s, {page})

\* Mutant: the reload of CR3 with global pages enabled in CR4.
flush_all_keeps_global(s) == Forget(s, {p \in DOMAIN s.tlb : ~s.tlb[p].global})

\* CR4.PGE is never set, so a write to CR3 forgets entries marked GLOBAL too.
flush_all(s) == Forget(s, DOMAIN s.tlb)

allocate(s) == IF s.free = {} THEN Fail(s, "oom") ELSE [s EXCEPT !.free = @ \ {Min(@)}]

----------------------------------------------------------------------------
(* PageTable and Mapper                                                     *)

P4 == [k \in 1 .. Levels |-> Rec]
EmptyTable == [i \in Index |-> Unused]

\* next_table_addr: the table's address shifted left by one index, with the entry's index
\* as the last one.
next_table_addr(page, i) == Append(Tail(page), i)

\* The entry is set first; then the new table is cleared through its own address.
next_table_create(s, page, i) ==
    IF Read(s, page, i).frame # 0 THEN s
    ELSE IF s.free = {} THEN Fail(s, "oom")
    ELSE Store(Write(allocate(s), page, i, To(Min(s.free))), next_table_addr(page, i), EmptyTable)

\* The page of the window where the table with a page's last index is.
LeafTable(page) == FoldLeft(next_table_addr, P4, Front(page))

walk_page_table(s, page) ==
    FoldLeft(LAMBDA w, i : [at |-> next_table_addr(w.at, i),
                            entry |-> IF w.entry = Unused THEN Unused ELSE Read(s, w.at, i)],
             [at |-> P4, entry |-> To(1)], page).entry
Mapped(s, page) == walk_page_table(s, page).frame # 0

\* The tables on the way down, made where they are missing; none is undone on failure.
CreateTables(s, page) ==
    FoldLeft(LAMBDA w, i : IF w.s.failed # "no" THEN w
                           ELSE [s |-> next_table_create(w.s, w.at, i),
                                 at |-> next_table_addr(w.at, i)],
             [s |-> s, at |-> P4], Front(page)).s

map_to(s, page, entry, invalidate) ==
    LET made == CreateTables(s, page)
        set == Write(made, LeafTable(page), Last(page), entry)
    IN  IF made.failed # "no" THEN made ELSE IF invalidate THEN flush(set, page) ELSE set

\* Mapper::map: the frame is taken first and lost when a table cannot be made.
map(s, page, invalidate, zero) ==
    LET frame == Min(s.free)
        set == map_to(allocate(s), page, To(frame), invalidate)
    IN  IF s.free = {} THEN Fail(s, "oom")
        ELSE IF zero /\ set.failed = "no" THEN Store(set, page, EmptyTable) ELSE set

\* Mutant: the frame is given back whatever free_physmem says.
unmap_frees(s, page, freeMemory, invalidate) ==
    LET entry == walk_page_table(s, page)
        cut == Write(s, LeafTable(page), Last(page), Unused)
    IN  IF entry.frame = 0 THEN Fail(s, "fault")
        ELSE flush([cut EXCEPT !.free = @ \cup {entry.frame}], page)

\* Tables are not freed.
unmap(s, page, freeMemory, invalidate) ==
    LET entry == walk_page_table(s, page)
        cut == Write(s, LeafTable(page), Last(page), Unused)
        given == [cut EXCEPT !.free = IF freeMemory THEN @ \cup {entry.frame} ELSE @]
    IN  IF entry.frame = 0 THEN Fail(s, "fault")
        ELSE IF invalidate THEN flush(given, page) ELSE given

----------------------------------------------------------------------------
(* TemporaryPage, InactivePageMap and ActivePageMap                          *)

\* HEAP.alloc maps the page with NoInvalidate and clears it; it is then unmapped, and its
\* frame kept.
temporary_page_new(s) == unmap(map(s, Temp, FALSE, TRUE), Temp, FALSE, TRUE)

map_table_frame(s, frame) ==
    IF Mapped(s, Temp) THEN Fail(s, "fault") ELSE map_to(s, Temp, To(frame), TRUE)

\* Drop: the frame is mapped again and HEAP.dealloc unmaps and frees it.
temporary_page_drop(s, frame) ==
    LET back == map_to(s, Temp, To(frame), TRUE)
    IN  IF back.failed # "no" THEN back ELSE unmap(back, Temp, TRUE, TRUE)

\* InactivePageMap::new
inactive_new(s, frame) ==
    LET t == map_table_frame(s, frame)
        recursive == [EmptyTable EXCEPT ![Rec] = ToGlobal(frame)]
    IN  IF t.failed # "no" THEN t ELSE unmap(Store(t, Temp, recursive), Temp, FALSE, TRUE)

\* Mutant: the first flush_all is missing.
enter_no_flush(s, frame) ==
    LET t == map_table_frame(s, s.cr3)
    IN  IF t.failed # "no" THEN t ELSE Write(t, P4, Rec, ToGlobal(frame))

\* with_inactive_p4 up to the call of f ...
enter(s, frame) ==
    LET t == map_table_frame(s, s.cr3)
    IN  IF t.failed # "no" THEN t ELSE flush_all(Write(t, P4, Rec, ToGlobal(frame)))

\* ... and after it: the entry is restored through the temporary page.
leave(s, backup) == unmap(flush_all(Write(s, Temp, Rec, ToGlobal(backup))), Temp, FALSE, TRUE)

switch(s, frame) == flush_all([s EXCEPT !.cr3 = frame])

\* new_process_page_tables, the part after InactivePageMap::new.
copy_kernel_entry(s, frame) ==
    LET entry == Read(s, P4, Kern)
        t == map_table_frame(s, frame)
    IN  IF t.failed # "no" THEN t ELSE unmap(Write(t, Temp, Kern, entry), Temp, FALSE, TRUE)

----------------------------------------------------------------------------
(* The kernel's use of them                                                 *)

Machine == [mem |-> mem, tlb |-> tlb, cr3 |-> cr3, free |-> free, failed |-> failed]

\* The machine becomes s. A page fault, a failed assert and, where the caller unwraps, an
\* allocation that failed are panics.
Become(s, next) ==
    /\ mem' = s.mem /\ tlb' = s.tlb /\ cr3' = s.cr3 /\ free' = s.free /\ failed' = s.failed
    /\ pc' = IF s.failed = "no" THEN next ELSE "panicked"

Init ==
    /\ mem = BootMemory /\ tlb = <<>> /\ cr3 = BootP4 /\ free = BootFree /\ failed = "no"
    /\ pc = "temporary" /\ tables = {BootP4}
    /\ new = 0 /\ old = 0 /\ heapFrame = 0
    /\ ranges = Remapped /\ todo = <<>> /\ then = "sections"

\* The CPU caches a translation of the active tables, or forgets one, at any moment between
\* two operations.
TlbFill(page) ==
    /\ pc # "panicked" /\ Cardinality(DOMAIN tlb) < TlbSize
    /\ page \notin DOMAIN tlb
    /\ LET entry == Walk(mem, cr3, page)
       IN  /\ entry.frame # 0
           /\ tlb' = [p \in DOMAIN tlb \cup {page} |-> IF p = page THEN entry ELSE tlb[p]]
    /\ UNCHANGED <<mem, cr3, free, failed, pc, thread>>

TlbEvict(page) ==
    /\ pc # "panicked" /\ page \in DOMAIN tlb
    /\ tlb' = [p \in DOMAIN tlb \ {page} |-> tlb[p]]
    /\ UNCHANGED <<mem, cr3, free, failed, pc, thread>>

\* remap_kernel and new_process_page_tables begin alike.
TemporaryPageNew ==
    /\ pc = "temporary"
    /\ Become(temporary_page_new(Machine), "new")
    /\ heapFrame' = Min(free \cup {FrameCount})
    /\ UNCHANGED <<tables, new, old, ranges, todo, then>>

InactivePageMapNew ==
    /\ pc = "new"
    /\ new' = Min(free \cup {FrameCount})
    /\ IF free = {} THEN Become(Fail(Machine, "oom"), "panicked") /\ UNCHANGED tables
       ELSE /\ Become(inactive_new(allocate(Machine), new'), then)
            /\ tables' = IF failed' = "no" THEN tables \cup {new'} ELSE tables
    /\ UNCHANGED <<old, heapFrame, ranges, todo, then>>

\* remap_kernel's own with_inactive_p4. The GLOBAL bit that it sets in the empty entry 511 is
\* gone when next_table_create sets the entry.
EnterSections ==
    /\ pc = "sections"
    /\ Become(enter(Machine, new), "inside")
    /\ old' = cr3 /\ todo' = Sections /\ then' = "remap"
    /\ UNCHANGED <<tables, new, heapFrame, ranges>>

\* remap_range: the vector of frames is on the heap ...
RemapRangeVec(page) ==
    /\ pc = "remap" /\ ranges # <<>>
    /\ Become(map(Machine, page, FALSE, TRUE), "look up")
    /\ UNCHANGED thread

\* ... it is filled from the active tables, then the new tables are edited ...
EnterRemapRange ==
    LET pages == Head(ranges)
    IN  /\ pc = "look up"
        /\ IF \A i \in DOMAIN pages : Mapped(Machine, pages[i])
           THEN Become(enter(Machine, new), "inside")
           ELSE Become(Fail(Machine, "fault"), "panicked")
        /\ old' = cr3 /\ then' = "free" /\ ranges' = Tail(ranges)
        /\ todo' = [i \in DOMAIN pages |->
                      [page |-> pages[i],
                       entry |-> ToGlobal(walk_page_table(Machine, pages[i]).frame)]]
        /\ UNCHANGED <<tables, new, heapFrame>>

\* ... and it is freed.
RemapRangeDone(page) ==
    /\ pc = "free" /\ Mapped(Machine, page)
    /\ Become(unmap(Machine, page, TRUE, TRUE), "remap")
    /\ UNCHANGED thread

MapInside ==
    /\ pc = "inside" /\ todo # <<>>
    /\ Become(map_to(Machine, Head(todo).page, Head(todo).entry, FALSE), "inside")
    /\ todo' = Tail(todo)
    /\ UNCHANGED <<tables, new, old, heapFrame, ranges, then>>

LeaveInactive ==
    /\ pc = "inside" /\ todo = <<>>
    /\ Become(leave(Machine, old), then)
    /\ UNCHANGED thread

\* remap_kernel's last step; the temporary page is dropped under the new tables.
SwitchToKernel ==
    /\ pc = "remap" /\ ranges = <<>>
    /\ Become(switch(Machine, new), "drop")
    /\ then' = "kernel"
    /\ UNCHANGED <<tables, new, old, heapFrame, ranges, todo>>

TemporaryPageDrop ==
    /\ pc = "drop"
    /\ Become(temporary_page_drop(Machine, heapFrame), then)
    /\ heapFrame' = 0
    /\ UNCHANGED <<tables, new, old, ranges, todo, then>>

MapsDevice(page) == walk_page_table(Machine, page).frame = Device

\* alloc and dealloc of the heap, one page. A map that fails ends in a panic: alloc unmaps the
\* page that it could not map, and unmap asserts that it is mapped.
HeapMap(page) ==
    /\ pc \in {"kernel", "user"} /\ ~Mapped(Machine, page)
    /\ Become(map(Machine, page, FALSE, TRUE), pc)
    /\ UNCHANGED thread

HeapUnmap(page) ==
    /\ pc \in {"kernel", "user"} /\ Mapped(Machine, page) /\ ~MapsDevice(page)
    /\ Become(unmap(Machine, page, TRUE, TRUE), pc)
    /\ UNCHANGED thread

\* acpi_init maps and unmaps devices before the process is made: alloc_specific on any page
\* of the heap that is not in use, the one that will be the temporary page included, ...
AllocSpecific(page) ==
    /\ pc = "kernel" /\ ~Mapped(Machine, page)
    /\ Become(map_to(Machine, page, ToGlobal(Device), TRUE), pc)
    /\ UNCHANGED thread

\* ... and dealloc_specific, which passes NoInvalidate: the translation may stay.
DeallocSpecific(page) ==
    /\ pc = "kernel" /\ MapsDevice(page)
    /\ Become(unmap(Machine, page, FALSE, FALSE), pc)
    /\ UNCHANGED thread

SpawnProcess ==
    /\ pc = "kernel" /\ ~Mapped(Machine, Temp)
    /\ pc' = "temporary" /\ then' = "copy"
    /\ UNCHANGED <<mem, tlb, cr3, free, failed, tables, new, old, heapFrame, ranges, todo>>

CopyKernelEntry ==
    /\ pc = "copy"
    /\ Become(copy_kernel_entry(Machine, new), "drop")
    /\ then' = "spawn"
    /\ UNCHANGED <<tables, new, old, heapFrame, ranges, todo>>

\* with_inactive: spawn_from_elf's closure maps pages in the process's tables, and the old
\* tables are switched in again.
WithInactive ==
    /\ pc = "spawn"
    /\ Become(switch(Machine, new), "loading") /\ old' = cr3
    /\ UNCHANGED <<tables, new, heapFrame, ranges, todo, then>>

\* With ignore_already_mapped and NoInvalidate: a page that two program headers share is mapped
\* over, its first frame is lost, and the translation to it may stay.
LoadPage(page) ==
    /\ pc = "loading"
    /\ Become(map(Machine, page, FALSE, FALSE), "loading")
    /\ UNCHANGED thread

WithInactiveDone ==
    /\ pc = "loading"
    /\ Become(switch(Machine, old), "run")
    /\ UNCHANGED thread

RunByPid ==
    /\ pc = "run"
    /\ Become(switch(Machine, new), "user")
    /\ UNCHANGED thread

\* The Map system call: when memory runs out the process is told so.
SyscallMap(page) ==
    /\ pc = "user" /\ ~Mapped(Machine, page)
    /\ LET s == map(Machine, page, TRUE, TRUE)
       IN  Become(IF s.failed = "oom" THEN [s EXCEPT !.failed = "no"] ELSE s, "user")
    /\ UNCHANGED thread

Next ==
    \/ TemporaryPageNew \/ InactivePageMapNew \/ TemporaryPageDrop
    \/ EnterSections \/ EnterRemapRange \/ MapInside \/ LeaveInactive \/ SwitchToKernel
    \/ SpawnProcess \/ CopyKernelEntry \/ WithInactive \/ WithInactiveDone \/ RunByPid
    \/ \E p \in HeapPages :
          HeapMap(p) \/ HeapUnmap(p) \/ RemapRangeVec(p) \/ RemapRangeDone(p)
    \/ \E p \in HeapPages \cup {Temp} : AllocSpecific(p) \/ DeallocSpecific(p)
    \/ \E p \in UserPages : LoadPage(p) \/ SyscallMap(p)
    \/ \E p \in AllPages : TlbFill(p) \/ TlbEvict(p)

Spec == Init /\ [][Next]_vars

----------------------------------------------------------------------------
\* Where the frames of the page tables are: under which top table, by which path of indices.
Paths == UNION {[1 .. k -> Index] : k \in 0 .. Levels - 1}
TableUses ==
    {u \in {[space |-> t, path |-> path, frame |-> Walk(mem, t, path).frame] :
              t \in tables, path \in {q \in Paths : q = <<>> \/ q[1] # Rec}} : u.frame # 0}
DataFrames == {Walk(mem, t, p).frame : t \in tables, p \in DataPages} \ {0}

\* A frame is a page table in one place at most (under the kernel's entry, in the same place
\* of every space that shares it), and it is neither free nor mapped as a page of data
\* (next_table_create, InactivePageMap::new, unmap with NoFree for the temporary page).
TablesExclusive ==
    LET uses == TableUses
    IN  /\ \A u, v \in uses :
              u.frame = v.frame => /\ u.path = v.path
                                   /\ u = v \/ (u.path # <<>> /\ u.path[1] = Kern)
        /\ {u.frame : u \in uses} \cap (free \cup DataFrames) = {}

\* Translations that the active tables no longer give.
Stale == {p \in DOMAIN tlb : tlb[p] # Walk(mem, cr3, p)}

\* A stale translation harms no one else's memory. dealloc_specific and the loader leave some
\* behind, the flushes of map_to, unmap, with_inactive_p4 and switch (as long as CR4.PGE is
\* off) no others: each is of a page of data and leads to the device, or to a frame that
\* nobody has any more, neither free, nor a table, nor behind a page of any space. None is of
\* the recursive window, and none of the temporary page while there is a TemporaryPage: its
\* heap page may have been a device's, and tables are written through it.
StaleIsHarmless ==
    LET owned == free \cup DataFrames \cup {u.frame : u \in TableUses}
    IN  \A p \in Stale :
           /\ p[1] # Rec /\ (p = Temp => heapFrame = 0)
           /\ tlb[p].frame = Device \/ tlb[p].frame \notin owned

\* Refinement of AddressSpace: edits through the recursive window change the address space
\* they are meant for, one page at a time, new tables are empty, and a space is shared only
\* in the kernel's half. `inside' with_inactive_p4 it is the inactive space that is edited.
AS == INSTANCE AddressSpace WITH
    Pages <- DataPages,
    KernelPages <- KernelPages \ {Temp},
    NoFrame <- 0,
    spaces <- [t \in tables |-> [p \in DataPages |-> Walk(mem, t, p).frame]],
    active <- cr3,
    current <- IF pc = "inside" THEN new ELSE cr3,
    shared <- {u \in tables \X tables :
                 u[1] # u[2] /\ mem[u[1]][Kern].frame # 0
                 /\ mem[u[1]][Kern].frame = mem[u[2]][Kern].frame}
ImplementsAddressSpace == AS!Spec

=============================================================================
