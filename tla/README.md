# Wolffia in TLA+

Wolffia is a small x86_64 kernel in Rust (`src/kernel/src`) with one user process
(`src/userspace`). This directory models it (physical frames, the kernel heap, page tables,
interrupts, the start of the memory system, the loader, the system calls down to their
instructions, the console and the panic path), checks the models with TLC on small
instances, and proves with TLAPS, for every instance, the safety properties of the physical
frame allocator (and that it implements its abstract specification), of the heap, of the
interrupts, of the memory initialisation, of the loader, of the system calls down to their
instructions, of the console, and one of address spaces. `PROJECT.json` maps each definition to the
lines it stands for and lists runs, mutants, hazards, findings and theorems.

## 1. Inventory

| component | state | operations | what makes it correct |
|---|---|---|---|
| physical allocator (`memory/physical_allocator.rs`) | up to 256 buddy trees, each behind a spin mutex, each for 1 GiB | `init_prelim`, `init_rest`, `allocate` (try-lock search), `deallocate` | no frame twice, none lost, None only for a reason, calls return |
| kernel heap (`memory/heap.rs`, `memory/physical_mapping.rs`) | one buddy tree of virtual space; page tables | `alloc`, `dealloc`, `alloc_specific`, `dealloc_specific`, drop of a device mapping | objects apart, every byte backed, frames balance, empty pages unmapped, fresh pages zeroed |
| temporary pages (`paging/page_map.rs`) | a heap page whose frame is put aside | `new`, `map`, `unmap`, drop | the frame comes back |
| page tables (`paging.rs`, `paging/page_map.rs`) | tables in frames, reached through a recursive entry; CR3; TLB | `map_to`, `map`, `unmap`, `try_map_user_range`, `set_flags`, `with_inactive_p4`, `remap_range`, `with_inactive`, `switch` | an edit changes one page of the space it is meant for; a translation left behind by an edit without `invlpg` does no harm; no frame is a table twice |
| memory start-up (`memory.rs`, `paging/remap.rs`, `bootstrap_heap.rs`, `stack_allocator.rs`) | layout of the kernel's window, usable ranges, trees and where they are stored | the steps of `init_memory` | used memory is never allocatable, parts are apart, the switch of tables moves nothing, stacks are guarded |
| interrupts (`interrupts.rs`, `interrupts/pic.rs`) | PIC registers, `CHAINED_PICS`, `LISTENERS` | `init`, `enable`, `listen`, IRQ handlers | handlers return, nothing stays in service, spurious IRQs are dropped |
| timer (`pit.rs`) | `COUNTER` | `initialize`, `tick`, `sleep` | each pulse counted once, sleep returns |
| loader (`process.rs`) | process table, new page tables | `spawn_from_elf`, `run_by_pid`, `setup`, `jump_usermode` | the address space is what the executable says |
| system calls (`syscall.rs`, `memory/buffer.rs`) | the process's address space | `Halt`, `Map`, `Unmap`, `Print` | Map delivers or refuses and disturbs nothing; Print reads user memory only |
| user mode (`syscall.rs`, `gdt.rs`, `tss.rs`, `interrupts/exceptions.rs`, `libwolffia`) | registers, the process's and the kernel's stack, segments, port bitmap | `syscall`, `syscall_callback`, `sysretq`, IRQs and exceptions in between, the library's `print!`, `halt` and panic handler | a call returns to where it came from with what it must preserve; ports are as granted; the process ends |
| console (`vga.rs`, `log.rs`, `lang.rs`) | screen, cursor, `VGA_WRITER`, `SERIAL_WRITER` | `write_coloured`, `info!`, `panic_fmt` | the screen shows the end of the text; a panic is always reported |
| start-up (`asm/boot.asm`, `lib.rs`) | initial page tables, order of the initialisations | `kmain` | |
| ACPI handler (`acpi_handler.rs`) | | maps and unmaps device memory | as the heap's device mappings |

How they meet: `kmain` runs on one CPU, first with interrupts off (`init_memory`, `gdt`,
`interrupts::init`), then with interrupts on (timer, ACPI, loader), and ends in user mode;
system calls run with interrupts on. The heap and `try_map_user_range` call the page tables
under the lock `ACTIVE_PAGE_TABLES`, and these call the physical allocator. The IRQ
handlers share `CHAINED_PICS`, `LISTENERS` and `COUNTER` with the thread they interrupt;
their one listener, `tick`, touches neither heap nor page tables.

What is hard: the try-lock search over trees that others hold; locks shared with interrupt
handlers; translations that stay in the TLB after an unmap without `invlpg`; running out
of frames halfway through an operation; inclusive ranges and rounded ends in the memory
layout; trees placed in memory that a later step unmaps; arguments of system calls at the
edges of the address space; page tables edited through an entry that is itself overwritten;
interrupts at every instruction of the entry and exit of a system call; a panic in the
middle of a line of output.

## 2. Modules

| module | models | checked by |
|---|---|---|
| `FrameAllocator` | abstract: what the physical allocator promises | refined by `PhysicalAllocator` |
| `PhysicalAllocator` | `physical_allocator.rs` | `MCPhysicalAllocator`; proofs in `PhysicalAllocatorProofs` |
| `Heap` | `heap.rs`, `physical_mapping.rs`, `TemporaryPage` and the page-table operations they use | `MCHeap`; proofs in `HeapProofs` |
| `Interrupts` | `interrupts.rs`, `pic.rs`, `pit.rs`, and two 8259A controllers | `MCInterrupts`; proofs in `InterruptsProofs` |
| `Process` | `process.rs`, `syscall.rs`, `buffer.rs`, `try_map_user_range`, `set_flags` | `MCProcess`; proofs in `ProcessProofs` |
| `MemoryInit` | `memory.rs`, `remap.rs`, `bootstrap_heap.rs`, `stack_allocator.rs` | `MCMemoryInit`; proofs in `MemoryInitProofs` |
| `AddressSpace` | abstract: what the paging code promises | refined by `PageTables`; proofs in `AddressSpaceProofs` |
| `PageTables` | `paging.rs`, `page_map.rs`, `remap.rs` and the process's tables, with the tables in memory | `MCPageTables` |
| `Console` | `vga.rs`, `log.rs`, `lang.rs`, the serial port | extended by `UserMode`; proofs in `UserModeProofs` |
| `UserMode` | `syscall.rs` (entry and exit), `gdt.rs`, `tss.rs`, exceptions, `jump_usermode`, `libwolffia` | `MCUserMode`; proofs in `UserModeProofs` |
| `Facts` | lemmas on numbers, powers of two and finite sets that the proofs share | |

**PhysicalAllocator.** `free[i]` is the set of free frames of tree *i*, `lock[i]` its mutex,
`exists` the trees that are `Some`. A context is at a program point `pc[c]` with the local
variables of its call (`tried`, `index`, `order`, `freeing`). One action per step between
two lock operations: `AllocateCall`, `AllocateLock` (try_lock succeeded), `AllocateBusy`
(it failed), `AllocateTake`, `AllocateEmpty` (no block, or the tree is `None`),
`AllocateNone` (the `?`); `DeallocateCall`, `DeallocateLock`, `DeallocateTree`;
`InitRestLock`, `InitRestStore`. The crate `friendly` is external: a tree hands out any
aligned block of free frames and takes blocks back. `allocated` and `lacked` are history:
the blocks callers hold, and the trees that lacked a fitting block at some moment of the
running call.

**Heap.** `free` are the cells of the tree, `map` the page tables of the heap's pages,
`tables` the page tables allocated so far, `tlb` the cached translations, `clean` the
zeroed frames, `objects` the live allocations. `alloc` and `dealloc` are split at every
page (the code takes `ACTIVE_PAGE_TABLES` once per page) and after the tree is unlocked;
`alloc_specific` holds both locks throughout and is one action. The TLB may cache or drop
any translation at any time, and every access goes through it. A panic (`unmap` of an
unmapped page, `unwrap` in `TemporaryPage::new`) ends the behaviour.

**Interrupts.** `irr`, `isr`, `imr` are the registers of the controllers; the hardware
(pulses, requests, withdrawn requests, acknowledge cycles in fully nested priority) is
external. `main` is the interrupted thread (start-up, then sleep or halt), `handler` the
running IRQ handler; `pics`, `lazy` and `rwlock` are `CHAINED_PICS` and the two locks inside
`LISTENERS`. `build` tells the dev build, in which a shift overflow panics, from the
release build.

**Process.** `entries` is the lower half of the page tables, `content` what each frame holds,
`todo` the running mapping loop, one page per step, shared by the loader, the stack set-up
and Map. Addresses are bytes of a small address space with a non-canonical gap and an upper
half, and sums wrap as `u64` does.

**MemoryInit.** The steps of `init_memory` in order, on a memory map chosen at the start.
Virtual addresses are offsets into the kernel's window; `map` is the window's page table.
Addresses are bytes, and each range keeps the code's inclusive or exclusive end.

**PageTables.** `mem` is what the frames hold, as tables of entries; `tlb` caches
translations of any page, the recursive window's included; `cr3`, `free`. A machine is a
record of these, and the operations of `paging.rs` and `page_map.rs` are functions from
machines to machines under their own names: each reads and writes through virtual addresses,
so that a wrong recursive entry or a stale translation sends it to the wrong frame. The
actions are the kernel's uses in program order (`pc`): `remap_kernel` with its temporary page,
the closures under `with_inactive_p4`, `remap_range` with its vector on the heap, the switch
and the drop of the temporary page; the heap's mappings, and device mappings made by
`alloc_specific` and dropped by `dealloc_specific` without an `invlpg`, also on the page that becomes
the temporary page; `new_process_page_tables`, `spawn_from_elf` under `with_inactive`, which may map
over a page it has mapped, again without an `invlpg`; `run_by_pid` and Map calls. The TLB is
filled and emptied between any two of them, so it does hold stale translations: the property is
`StaleIsHarmless`, that these lead to the device or to a frame that nobody owns, and are never of the
recursive window or of a temporary page in use. `AddressSpace` forgets tables and TLB: its state is a map
from pages to frames for each space, the space in CR3, the space being edited, and who shares
the kernel's half.

**Console and UserMode.** `UserMode` extends `Console`. The CPU is at `pc`, inside
`syscall_callback` at instruction `ip`; `regs` are the registers, `mem` the words of the two stacks,
`iomap` the port bitmap as bytes of eight bits, which the CPU reads two bytes at a time. The process
runs one of `Programs` against the library: an operation is a call or an access to ports. `Irq` may
come at any instruction with the interrupt flag set, during a panic of the system-call handler too,
and writes to the stack that the CPU would use; `Exception` may come anywhere and panics, with
interrupts off. Output goes character by character from the queue `out`, under the console's locks,
so that a panic can find either lock held. What an IRQ handler does is in `Interrupts`, what Map
does in `Process`.

## 3. Runs

| run | shows |
|---|---|
| `PhysicalAllocator` (198,396 states) | `NoDoubleAllocation`, `NoFrameLost`, `NoneOnlyIfEveryTreeLacked`, the inductive invariant `IInv`, refinement of `FrameAllocator`, and `EveryCallReturns` |
| `Heap` (25,254) | `NoOverlap`, `AllocatedIsMapped`, `FramesAccounted`, `NoIdleMapping`, `FreshPageIsZeroedAfterDealloc` |
| `Interrupts` (150,314) | `EveryPulseCountedOnce`, `OnlyCascadeLeftInService`, `OnlyRaisedIrqsDispatched`; `HandlerReturns`, `UrgentIrqServed`, `SleepReturns` |
| `InterruptsBooting` | violation of `HandlerReturns` while `listen` runs |
| `InterruptsSlave` | violation of `EveryIrqServed` |
| `Process` (139,218) | `FramesExclusive`, `LoadedAsLinked`, `NoFrameLeaked`, `MapDelivers`, `FreshPagesZeroed`, `PrintReadsExactlyUserMemory`, `MapKeepsWhatIsMapped` |
| `MemoryInit` (14,451) | `ReservedNeverFree`, `LayoutApart`, `FramesPrivate`, `StacksGuarded`, `RemapKeepsPages` |
| `MemoryInitTrees` | violation of `TreesReachable` |
| `MemoryInitHoles` | violation of `OnlyReportedMemory` |
| `PageTables` (36,134) | `StaleIsHarmless`, `TablesExclusive`, and `ImplementsAddressSpace`: the refinement of `AddressSpace` |
| `UserMode` (71,286) | `SyscallPreserves`, `PortsAsGranted`, `ScreenShowsTail`; `PanicReported`, `ProgramHalts` |
| `UserModeAbi` | violation of `SyscallNoStack` |

The runs of `Interrupts`, `Process` and `MemoryInit` also check the module's type invariant, that
of `PhysicalAllocator` has it in `IInv`. Three definitions are not invariants of a run but
theorems: `Heap.TypeOK` (`TypeCorrect` of `HeapProofs`), `MutualExclusion`, which `IInv`
implies, and `PanicLegible` (`PanicIsLegible` of `UserModeProofs`), of which `PanicReported` is the
liveness form.

Some properties have an exception that the code forces on them, each stated in its comment:
`StacksGuarded` leaves out the lowest IST stack, `OnlyCascadeLeftInService` the cascade line,
`MapDelivers` lengths that wrap and requests without WRITABLE, `NoFrameLeaked` the last frame
and pages mapped twice, `LoadedAsLinked` pages mapped twice, `FreshPageIsZeroedAfterDealloc` pages
of dropped device mappings. The code behind each exception is a finding: section 7.

A run has `CHECK_DEADLOCK FALSE` because the system may stop: the machine may panic or halt,
all contexts may be done, and `init_memory` ends.

## 4. Bounds

- `PhysicalAllocator`: two contexts, three trees (one from `init_prelim`), two orders, six
  calls in all; the ranges cross a tree's border, leave a hole and end inside a frame. Two
  contexts make a tree busy and free again during a search; three trees let a search skip
  one and find the next one missing, then present.
- `Heap`: four pages of two cells, sizes from less than a cell to one whose block is the whole heap, three
  objects, three frames (so that frames run out in each operation), two pages per page
  table, one device region. One context: see the finding on `dealloc` in section 7.
- `Interrupts`: controllers of four lines, so that there is a line above, at and below the
  cascade; three pulses, three device requests, sleeps of one and two ticks, both builds. A
  glitching line on each controller.
- `Process`: pages of four bytes, six usable pages, two pages under a page table, eight frames (so
  that the last one may go to a page or be wanted for a table); twelve executables (one and several
  segments, none, segments that share a page, reach into the stack, contain address 0, are
  non-canonical, have a zero-filled tail, a bad entry point) and nine Map requests.
- `MemoryInit`: pages of 8 bytes; twenty-one memory maps, some too small for one of the
  steps, some beyond the trees of `init_prelim`, one with exactly as many trees as a `u8` has values
  and one with more. As in the code, the bootstrap heap and the heap's tree end shortly before a page's end. `RemapTables`
  stands for the page tables that `remap_kernel` needs.
- `PageTables`: three levels of three entries (one of them recursive, one the kernel's): the
  recursive window then has windows on top tables, middle tables and lowest tables, as with four.
  Twenty-one frames, one of them a device's: enough to get to the end, few enough that they run out
  in every later operation. Two cached translations at a time, out of 27 pages. Two ranges for
  `remap_range`, one under a table of its own.
- `UserMode`: a screen of 3 by 2, so that a line break, a full line and a scroll happen within four
  characters; five programs (output with a character above 255, an empty print, ports at both ends
  of the granted range 6 to 15, which begins inside a byte and ends with one, good and bad Map and
  Unmap calls, an unknown call); a kernel stack with room for the five saved registers and one
  interrupt, one interrupt at a time.

## 5. Fairness

- `PhysicalAllocator`: a context inside a call keeps running (weak fairness of each
  context's steps). `EveryCallReturns` is checked with finitely many calls: spin mutexes
  are not fair, and a context that calls again and again may win every race.
- `Interrupts`: the CPU executes the handler and the interrupted thread, takes pending
  interrupts when it may, and a loaded timer keeps pulsing. Devices need not raise
  anything, and nobody is obliged to sleep or halt.
- `UserMode`: weak fairness of the CPU's own steps: the processor goes on executing, in the
  process, in the kernel and in the panic handler. No interrupt and no exception is obliged to
  come, and endlessly many interrupts do not keep the CPU's step disabled, so weak fairness
  is enough.

## 6. Proofs

The assumptions of a proof are the named `ASSUME`s of the module it is about, which TLC
evaluates in that module's runs. Each inductive invariant is a conjunction of named parts; the
step lemmas have one case per action, or go through a lemma that sums up what the actions do
to the part of the state in question.

### PhysicalAllocatorProofs

For any non-empty set of contexts, any number of trees and orders, and any memory map:

- `Invariance`: `Spec => []IInv`;
- `TypeCorrect`, `MutuallyExclusive`, `NeverTwice`, `NothingLost`: the type invariant,
  `MutualExclusion`, `NoDoubleAllocation` and `NoFrameLost`;
- `NoneJustified`: the action property `NoneOnlyIfEveryTreeLacked`;
- `Refinement`: `Spec => ImplementsFrameAllocator`, the refinement of `FrameAllocator`.

None of these is inductive alone. `NoDoubleAllocation` needs that a block out of a tree lies
within an existing tree and that its frames are not free there (`BlocksInv`); adding a free
block back keeps this only if blocks are apart from each other (`DisjointInv`);
`NoFrameLost` needs the accounting tree by tree (`ConservedInv`); all need that whoever
changes a tree has its lock (`LockInv`, `PhaseInv`), and that `init_rest` adds the trees in
order (`TreesInv`); `NoneJustified` needs that a tree noted as `Tried` did lack a block
(`TriedInv`). `IInv` is their conjunction, stated per tree with local frame numbers, so that
arithmetic is confined to a few lemmas about `addr \div TreeSize` and `addr % TreeSize`;
two lemmas lift it to global frames.

For the refinement every action is mapped to a step of `FrameAllocator` or to a stutter: the
block is granted at `AllocateTake`, taken back at `DeallocateTree`, refused at `AllocateNone`,
and `InitRestStore` adds a region. Two facts carry it: a tree has a fitting block
exactly if the abstract allocator has room in that region, and the history `lacked` is never
behind (`LackedInv`), so that a step on the way from lock to lock leaves it as it is and is a
stutter.

### HeapProofs

For any sizes of cell, page, table and heap, any sizes asked for, and any device regions.
`OrdersAssumption` and `SizesAssumption` say that orders are positive, that the heap holds a page,
and that sizes are `usize` (which `log2_ceil` needs). `FramesAssumption` says that the
physical allocator has finitely many frames and that none of them lies at a device region or
behind it as far as the block made for it reaches (up to four times its size, because `order`
rounds up, adds one and `alloc_specific` maps the whole block). Where an allocator's frame did lie
there, a device mapping would map it a second time.

- `AllocationsApart`: `NoOverlap`, for any number of contexts;
- under `OneContext`: `LiveIsMapped` (`AllocatedIsMapped`), `NothingIdleMapped` (`NoIdleMapping`),
  `NoFrameLost` (`FramesAccounted`), `TypeCorrect` (`TypeOK`), `FreshIsZeroed`
  (`FreshPageIsZeroedAfterDealloc`).

`OneContext` says that one context at a time is in a call: the kernel has one CPU and no
interrupt handler allocates. It is a hypothesis of these theorems and not an assumption of
the module, because with two contexts `AllocatedIsMapped` is false (section 7).

The inductive invariant is `BlockInv /\ (OneContext => OneInv)`. `BlockInv` is about the tree: every
block of an object or a call is an aligned block of the order its size gives (`SoundInv`,
`KindInv`), and blocks outside the tree are apart from each other and from what is free
(`ApartInv`). All actions change blocks in one of six ways (`Effects`). `OneInv` is about pages
and frames. `ObjectInv` and `CallInv` say which pages an object, or a call that is half done,
keeps mapped and to what; `FreeInv` that a page about to be unmapped has nothing on it;
`OwnerInv` and `CellInv` that a mapped page and a taken cell have an owner; `FrameInv` that a
frame is free, behind one page or put aside; `TlbInv` that a cached translation to a frame of
the allocator is never stale; `CountFramesInv` that the frames add up. Frames change hands in
one of eight ways (`FrameChanges`). What connects blocks and pages is geometry: `alloc` maps only the
first half of a block, which is enough for the size asked for (`Geometry`, `BytesInBlock`,
`TempPages`), and two blocks that are apart share a page only if both are smaller than a page
(`PagesApart`), which is the one case in which `dealloc` looks whether the page is free.

### InterruptsProofs

For any number of lines per controller, any cascade line between the first and the last, any
devices, masks and both builds (`LinesAssumption`):

- `TypeCorrect` (`TypeOK`), `NothingElseInService` (`OnlyCascadeLeftInService`), `NoneMadeUp`
  (`OnlyRaisedIrqsDispatched`);
- `PulsesCounted` (`EveryPulseCountedOnce`) under `~DevicesWhileBooting`, as in the run: with a device
  interrupting during `listen` the machine hangs (section 7).

The core of the inductive invariant is `ServiceInv`: which lines each handler finds in service,
with the master's cascade line that may have been left behind, and that only a spurious
interrupt finds its own missing and is then not dispatched. `FlagInv` adds that handlers do not
nest, `RequestInv` where requests come from, `TimerInv` how far `kmain` has come with the
timer and its listener, and `QuietInv` that nothing is counted before.

### ProcessProofs

For any executables, requests and sizes of the address space that meet `ProcessAssumption` and
`InputAssumption` (the usable pages end below the non-canonical gap, the stack's number of pages, which the
code subtracts from an address, is less than a page's bytes, an end of a segment does not wrap to 0):

- `TypeCorrect` (`TypeOK`), `NeverShared` (`FramesExclusive`), `NothingLeaked` (`NoFrameLeaked`),
  `StartsAsLinked` (`LoadedAsLinked`), `MapKeepsItsPromise` (`MapDelivers`), `NothingOldIsSeen`
  (`FreshPagesZeroed`), `PrintReadsOwnMemory` (`PrintReadsExactlyUserMemory`);
- `MapOnlyAdds`: the action property `MapKeepsWhatIsMapped`.

Loader, stack and Map share one mapping loop, and the invariant follows it: `LoopInv` says that
the pages behind the loop are mapped with the loop's rights, `PhaseInv` whose loop it is, and
`MappedInv` that before the process runs only segments and the stack are mapped. `LoadInv` says that
the segments loaded so far are in place under their final rights, and `ZeroInv` that what was
zeroed still is. The last needs `TlbInv`: a stale translation exists only for a page mapped
over, and even that leads to no frame that anything else has.

### UserModeProofs

For every program, text and screen size, any kernel stack that has room for the five saved
registers and one interrupt, and any range of granted ports (`UserModeAssumption`: the ports fill whole bytes,
and the last one granted is below them, as `set_port_range_usable` asserts; `ConsoleAssumption`: the
panic message has no more lines than the screen):

- `CallsPreserve` (`SyscallPreserves`), `PortsGranted` (`PortsAsGranted`);
- `ScreenShows` (`ScreenShowsTail`), `PanicIsLegible` (`PanicLegible`, the safety half of
  `PanicReported`).

There are two inductive invariants. `CallInv` follows `syscall_callback` instruction by
instruction: `StackInv` says how many words are on the kernel stack at `ip` and which of the
process's registers each of them is, `RegisterInv` which registers still, or again, have the
process's values and that interrupts are off until the stack pointer has been set, `ProcessInv` that
nothing writes to the process's stack above its pointer. An interrupt inside a call writes below
what was pushed, one in ring 3 writes where nothing is saved, and both keep it; `PanicInv` says where
the stack pointer is while a panic runs with interrupts on, so that an interrupt then stays on the
kernel's stack. For the ports, `PortsInv` has the bitmap as the loop over the range leaves it, and the
lemma `BitOfPort` says that no two ports have the same bit of the same byte; the CPU's two bytes are
then the bits of the ports from the first one on, the byte behind the map included.

`ConsoleInv` is about the text as a whole: the code keeps a cursor and a screen, the property breaks
the text into lines. `ScreenInv` says that the cursor is at the row and column where the text so far
ends and that the screen shows its last lines and is blank elsewhere; that one more character
keeps this, in each of its three ways (a line break, the last column, any other), rests on lemmas
about how `Line`, `Column` and `LineStart` of a text grow when it is longer by one character.
`ReportInv` says the same of the panic message on top of whatever was on the screen, and how
much of it the serial port has; the interrupted write never goes on, so nothing comes between.

### MemoryInitProofs

For every memory map, kernel, boot information and size that meets `SizesAssumption`,
`MachinesAssumption` and `WindowAssumption`. The second says what the boot loader guarantees:
finitely many areas, each with its start before its end; sections that begin on a page's border, above
the VGA buffer and below the boot information; the boot stack's guard page inside the kernel. The
third says that everything fits in the GiB that `boot.asm` maps.

- `MemoryTypes` (`TypeOK`), `ReservedKept` (`ReservedNeverFree`), `PartsApart` (`LayoutApart`),
  `FramesOwn` (`FramesPrivate`), `StacksHaveGuards` (`StacksGuarded`);
- `RemapMovesNothing`: the action property `RemapKeepsPages`.

The inductive invariant `MemoryInv` has a part per kind of state. `PlaceInv`: each part is at the
page that its step computed from the end of the one before (`FirstPage`, `TreePage`, `StackPage`);
the lemma `Layout` has the arithmetic of these numbers, and all later steps use only its inequalities.
`UsableInv`: a usable range lies between two of the three holes, or above all; this is what is left
of the areas after three uses of `range_sub`, although `range_sub` may widen an area (section 7),
because it widens it only up to the hole. `TreesInv` and `FreeInv`: a free frame is of a tree that
exists and inside a usable range, and stays so after it was given away (`Owned`), so that a tree
set up later brings no frame that a page has. `MapInv`: kernel and bootstrap heap are on the
frames they were put on, the pages of the heap's tree and of the stacks are on frames that the
allocator gave away, each its own, and from the switch on nothing is mapped above the tree's
last page until the stacks are. The rounded-up ends of the remapped ranges meet the guard page
of the lowest stack, which is why the invariant, like `StacksGuarded`, leaves that page out.

### AddressSpaceProofs

`KernelHalfAgrees`: in `AddressSpace`, spaces that share the kernel's
half have the same frames behind its pages (`SharersAgree`), for any sets of pages and frames
and any number of spaces, with no assumption on the constants. It is not inductive alone: an
edit of a kernel page shows in the spaces that share with the *edited* one, and that these are
all sharers of each of them needs sharing to be symmetric and transitive (`SharedInv`).
Together with the refinement that TLC checks, this is why the kernel finds its heap and its
stacks after a switch to a process's tables.

### Only model-checked

Liveness (`EveryCallReturns`, `HandlerReturns`, `UrgentIrqServed`, `SleepReturns`, `PanicReported`,
`ProgramHalts`), because fairness and ENABLED are out of the prover's reach. `StaleIsHarmless` and
`TablesExclusive` of `PageTables`, and its refinement of `AddressSpace`: a walk, the creation of tables
and the address of a table in the recursive window are folds over the indices of a page with any
number of levels, and what a fold computes for every number of levels needs induction over
data, which the installed provers cannot do.

## 7. Findings

`PROJECT.json` has each with its lines. Five have a violation run: an IRQ during `listen` hangs
the machine (`InterruptsBooting`); the master controller gets no end of interrupt for slave
IRQs (`InterruptsSlave`); trees above 8 GiB are stored in memory that the remap unmaps
(`MemoryInitTrees`); `range_sub` widens usable areas below their start (`MemoryInitHoles`); an
interrupt at the end of `syscall_callback` writes to the process's stack, which the library
declares untouched (`UserModeAbi`).

Six more are exceptions of checked properties, which fail without them:

- a device's stale translation is used to zero a heap page (`FreshPageIsZeroedAfterDealloc`);
- Map without WRITABLE ends in a kernel page fault (`MapDelivers`);
- a length that wraps makes Map return 0 with nothing mapped, or panic in a dev build (`MapDelivers`);
- the lowest IST stack's guard page is mapped, to the frame that `boot.asm` put behind it, because the
  remapped range of the heap's tree has one page too many (`StacksGuarded`);
- the last frame is lost when `map` has taken it and no page table can be made (`NoFrameLeaked`, which
  also says that it is the only one);
- a page that two segments share is mapped over, which loses the first frame and may send the second
  segment there (`NoFrameLeaked`, `LoadedAsLinked`).

For the last two nothing in the repository promises the contrary.

Without a property: `dealloc` unmaps after it let go of the tree (harmless with one CPU and
today's listeners: set `Contexts = {c1, c2}` in `Heap.cfg` to see `AllocatedIsMapped` fail);
running out of frames in `alloc` panics instead of returning null; the library's error codes
are off by one against the kernel's; the process's stack is two pages, one below its top, not 64 KiB; the
number of trees is cut to a `u8`, so that a machine whose memory ends in the 256th GiB, or beyond it,
loses trees; the bootstrap heap does not zero; the system call ABI names
two clobbered registers where there are more; a comment calls the recursive entry 511, it is 510.

## 8. Not modelled

The switch to long mode in `boot.asm` and the build files: straight-line code with no state that
the later code depends on but the tables it builds. Huge pages, which the code refuses with a
panic. The ACPI crate, of which only the device mappings matter here. Colours. `Logger`, which
writes what `info!` writes. `enable_irq`, `disable_irq`, `id_map_range`, `set_port_usable`,
`set_ports_usable`, `is_port_usable` and the drop of bootstrap boxes, which nothing calls. A
second exception during a panic. Page walk caches: a walk between the two halves of
`next_table_create`, which enters a new table before it clears it, is not modelled; the TLB of
`PageTables` changes only between operations.

## 9. Plan

What is left: `TablesExclusive` and `StaleIsHarmless` of `PageTables`, which would need the walk written
out for the four levels of the x86_64; and a composition of `Heap` with `FrameAllocator` in place of
its set of free frames.
