------------------------------- MODULE Process -------------------------------
(***************************************************************************)
(* The user address space of the first process: how spawn_from_elf loads   *)
(* the segments of an executable into fresh page tables, how run_by_pid    *)
(* sets up the stack, and what the system calls of the running process do  *)
(* to the address space (Map) or read from it (Print).                     *)
(*                                                                         *)
(* One thread runs at a time: kmain until it jumps to user mode, then the  *)
(* process, and on its behalf the system-call handler. Memory accesses go  *)
(* through a TLB that may keep any translation until it is flushed.        *)
(***************************************************************************)
EXTENDS Integers, Sequences, FiniteSets, FiniteSetsExt

CONSTANTS
    PageBytes,        \* bytes of a page (4096)
    PageSpace,        \* pages of the whole 64-bit address space (2^52)
    PagesPerTable,    \* pages under one page table (512)
    LastUsablePage,   \* LAST_USABLE_PAGE, two below the first noncanonical page
    FirstHigherPage,  \* first page of the upper half
    InitialStackSizePages, \* INITIAL_STACK_SIZE_PAGES
    FrameCount,       \* frames the physical allocator holds when kmain starts
    Images,           \* the executables kmain may be given
    MapRequests,      \* arguments of the Map and Unmap system calls
    PrintRequests,    \* arguments of the Print system call
    WrittenPages      \* the pages the process writes to

UserPages == 0 .. LastUsablePage
Frames == 1 .. FrameCount
NumberSpace == PageSpace * PageBytes   \* values of a u64 or usize

STACK_TOP == LastUsablePage * PageBytes
\* The number of pages is subtracted from an address, so the bottom is that many bytes
\* below the top.
STACK_BOTTOM == STACK_TOP - InitialStackSizePages

containing_address(addr) == addr \div PageBytes
StackPages == containing_address(STACK_BOTTOM) .. containing_address(STACK_TOP)

Canonical(page) == page <= LastUsablePage + 1 \/ page >= FirstHigherPage

ASSUME ProcessAssumption ==
    /\ {PageBytes, LastUsablePage, FirstHigherPage, PageSpace, InitialStackSizePages,
        FrameCount, PagesPerTable} \subseteq Nat \ {0}
    /\ InitialStackSizePages < PageBytes
    /\ WrittenPages \subseteq UserPages
    /\ LastUsablePage + 2 < FirstHigherPage /\ FirstHigherPage < PageSpace
    /\ 2 * (LastUsablePage + 1) <= PageSpace

\* What a page may allow beyond reading.
Rights == {"writable", "executable"}

\* vm_range ends at the start plus the size: 0 only for an empty segment at 0. A program
\* header whose sum wraps is outside the model.
ASSUME InputAssumption ==
    /\ \A i \in Images :
          /\ i.segments \in Seq([load : BOOLEAN, start : Nat, end : Nat, fileLen : Nat,
                                access : SUBSET Rights])
          /\ \A s \in DOMAIN i.segments : i.segments[s].start # 0 => i.segments[s].end # 0
    /\ MapRequests \subseteq [addr : Nat, len : Nat, flags : SUBSET Rights]
    /\ PrintRequests \subseteq [ptr : Nat, len : Nat]

VARIABLES
    pc,         \* where the one running thread is
    image,      \* the executable kmain loads
    segment,    \* index of the program header being loaded
    todo,       \* the running mapping loop: pages still to map and its arguments
    entries,    \* user half of the page tables: page -> None or an entry
    tables,     \* frames of the page tables: the p4 table, then the tables below it
    free,       \* frames the physical allocator has
    content,    \* frame -> whose data is in it (a segment's index, OldData or UserData);
                \* {} is a zeroed frame
    tlb,        \* page -> the cached frame, 0 for none
    call,       \* the system call being handled, or the last one
    ret,        \* the value the last system call returned
    outOfMemory \* history: an allocation failed

vars == <<pc, image, segment, todo, entries, tables, free, content, tlb, call, ret,
          outOfMemory>>
memory == <<entries, tables, free, content, tlb>>
loading == <<image, segment>>
calling == <<call, ret>>

OldData == 0     \* what an earlier owner left in the frame
UserData == -1   \* what the running process wrote
None == [frame |-> 0, flags |-> {}]
Present(page) == entries[page] # None
NoLoop == [pages |-> <<>>, flags |-> {}, ignore |-> FALSE, zero |-> FALSE,
           invalidate |-> FALSE, then |-> "user"]
NoCall == [name |-> "none", first |-> 0, last |-> 0, flags |-> {}]
NoTlb == [p \in UserPages |-> 0]

Init ==
    /\ pc = "spawn"
    /\ image \in Images /\ segment = 1
    /\ todo = NoLoop
    /\ entries = [p \in UserPages |-> None] /\ tables = {}
    /\ free = Frames
    /\ content = [f \in Frames |-> {OldData}]
    /\ tlb = NoTlb
    /\ call = NoCall /\ ret = 0
    /\ outOfMemory = FALSE

----------------------------------------------------------------------------
(* The CPU (external): a translation is cached or forgotten at any time, and  *)
(* an access goes to the cached frame.                                        *)

TlbFill(page) ==
    /\ pc # "panicked" /\ Present(page) /\ tlb[page] = 0
    /\ tlb' = [tlb EXCEPT ![page] = entries[page].frame]
    /\ UNCHANGED <<pc, loading, todo, entries, tables, free, content, calling, outOfMemory>>

TlbEvict(page) ==
    /\ pc # "panicked" /\ tlb[page] # 0
    /\ tlb' = [tlb EXCEPT ![page] = 0]
    /\ UNCHANGED <<pc, loading, todo, entries, tables, free, content, calling, outOfMemory>>

\* The frame an access to a page reaches, given what is cached and what is mapped.
Translate(cached, mapped) == IF cached # 0 THEN cached ELSE mapped

----------------------------------------------------------------------------
(* try_map_user_range, map_range and the map they call for each page.         *)

\* Mutant: the range is accepted whatever lies above the first page.
InvalidRangeFirstOnly(first, last) == ~Canonical(first) \/ first >= FirstHigherPage

\* The checks on the range, before anything is mapped. The last page's number may be
\* larger than any address has; start_address then wraps, the first check does not.
InvalidRange(first, last) ==
    \/ last > LastUsablePage
    \/ ~Canonical(last % PageSpace) \/ ~Canonical(first)
    \/ last % PageSpace >= FirstHigherPage \/ first >= FirstHigherPage
    \/ last > containing_address(STACK_BOTTOM)

\* Mutant: the range does not include its end.
PagesBefore(first, last) == [i \in 1 .. (IF first > last THEN 0 ELSE last - first) |-> first + i - 1]

\* for no in first..=last: no turn when first is above last
PagesFrom(first, last) ==
    [i \in 1 .. (IF first > last THEN 0 ELSE last - first + 1) |-> first + i - 1]

\* An error ends a system call, which returns InvalidPage whatever the error was; in kmain
\* it ends in a panic.
LoopFails ==
    /\ pc' = IF todo.then = "user" THEN "user" ELSE "panicked"
    /\ ret' = IF todo.then = "user" THEN -3 ELSE ret
    /\ todo' = NoLoop /\ call' = call

MayMap ==
    /\ pc = "map" /\ todo.pages # <<>>
    /\ todo.ignore \/ ~Present(Head(todo.pages))

\* One level of tables stands for the three below the p4 table. No page is ever unmapped, so
\* the page's table exists exactly if it has an entry.
FramesNeeded ==
    LET TableOf(page) == page \div PagesPerTable
    IN  IF \E p \in UserPages : Present(p) /\ TableOf(p) = TableOf(Head(todo.pages)) THEN 1 ELSE 2

\* Mutant: the frame is taken before the page is found mapped.
MapAlreadyMappedLate ==
    /\ pc = "map" /\ todo.pages # <<>>
    /\ ~todo.ignore /\ Present(Head(todo.pages))
    /\ LoopFails
    /\ free' = IF free = {} THEN {} ELSE free \ {Min(free)}
    /\ UNCHANGED <<loading, entries, tables, content, tlb, outOfMemory>>

\* The pages that earlier turns mapped stay mapped.
MapAlreadyMapped ==
    /\ pc = "map" /\ todo.pages # <<>>
    /\ ~todo.ignore /\ Present(Head(todo.pages))
    /\ LoopFails
    /\ UNCHANGED <<loading, memory, outOfMemory>>

\* The frame for the page is taken before next_table_create asks for one: when there is
\* none for the table, the first is not given back.
MapOutOfMemory ==
    /\ MayMap /\ Cardinality(free) < FramesNeeded
    /\ free' = {}
    /\ outOfMemory' = TRUE
    /\ LoopFails
    /\ UNCHANGED <<loading, entries, tables, content, tlb>>

\* Frames are not given back in this component, so it does not matter which free one the
\* allocator returns. The kernel runs with CR0.WP set: zeroing through a mapping that is
\* not writable faults, and the page fault handler panics.
MapPage ==
    LET page == Head(todo.pages)
        frame == Min(free)
        newTable == IF FramesNeeded = 2 THEN {Min(free \ {frame})} ELSE {}
        cached == IF todo.invalidate THEN 0 ELSE tlb[page]
        target == Translate(cached, frame)
        faults == todo.zero /\ "writable" \notin todo.flags
    IN  /\ MayMap /\ Cardinality(free) >= FramesNeeded
        /\ free' = free \ ({frame} \cup newTable)
        /\ tables' = tables \cup newTable
        /\ entries' = [entries EXCEPT ![page] = [frame |-> frame, flags |-> todo.flags]]
        /\ content' = IF todo.zero /\ ~faults THEN [content EXCEPT ![target] = {}] ELSE content
        /\ tlb' = [tlb EXCEPT ![page] = IF todo.zero THEN target ELSE cached]
        /\ pc' = IF faults THEN "panicked" ELSE "map"
        /\ todo' = [todo EXCEPT !.pages = Tail(@)]
        /\ UNCHANGED <<loading, calling, outOfMemory>>

\* The loop is over; a system call returns 0.
MapDone ==
    /\ pc = "map" /\ todo.pages = <<>>
    /\ pc' = todo.then
    /\ ret' = IF todo.then = "user" THEN 0 ELSE ret
    /\ todo' = NoLoop /\ call' = call
    /\ UNCHANGED <<loading, memory, outOfMemory>>

----------------------------------------------------------------------------
(* spawn_from_elf and run_by_pid, called by kmain: any error is a panic.       *)

Header == image.segments[segment]
HeaderPages(s) == containing_address(s.start) .. containing_address(s.end - 1)
HeaderFlags(s) == {"user"} \cup s.access

SpawnReject ==
    /\ pc = "spawn" /\ (image.kind # "executable" \/ free = {})
    /\ pc' = "panicked"
    /\ UNCHANGED <<loading, todo, memory, calling, outOfMemory>>

\* new_process_page_tables, and the switch to the new tables, which empties the TLB.
SpawnTables ==
    /\ pc = "spawn" /\ image.kind = "executable" /\ free # {}
    /\ tables' = {Min(free)} /\ free' = free \ {Min(free)}
    /\ tlb' = NoTlb
    /\ pc' = "header"
    /\ UNCHANGED <<loading, todo, entries, content, calling, outOfMemory>>

SkipHeader ==
    /\ pc = "header" /\ segment <= Len(image.segments) /\ ~Header.load
    /\ segment' = segment + 1
    /\ UNCHANGED <<pc, image, todo, memory, calling, outOfMemory>>

\* Page 0 is refused when address 0 itself is in the segment.
RejectHeader ==
    /\ pc = "header" /\ segment <= Len(image.segments) /\ Header.load
    /\ \/ Header.start = 0
       \/ InvalidRange(containing_address(Header.start), containing_address(Header.end - 1))
    /\ pc' = "panicked"
    /\ UNCHANGED <<loading, todo, memory, calling, outOfMemory>>

\* Every page of the segment gets a new frame, also one that an earlier segment has
\* mapped (ignore_already_mapped), without an invlpg.
MapHeader ==
    /\ pc = "header" /\ segment <= Len(image.segments) /\ Header.load
    /\ Header.start # 0
    /\ ~InvalidRange(containing_address(Header.start), containing_address(Header.end - 1))
    /\ todo' = [pages |-> PagesFrom(containing_address(Header.start),
                                    containing_address(Header.end - 1)),
                flags |-> {"writable"}, ignore |-> TRUE, zero |-> FALSE,
                invalidate |-> FALSE, then |-> "copy"]
    /\ pc' = "map"
    /\ UNCHANGED <<loading, memory, calling, outOfMemory>>

\* The file must hold the whole segment: one with a zero-filled tail is refused.
RejectCopy ==
    /\ pc = "copy" /\ Header.fileLen # Header.end - Header.start
    /\ pc' = "panicked"
    /\ UNCHANGED <<loading, todo, memory, calling, outOfMemory>>

\* copy_from_slice writes through the TLB; then set_flags gives each page its frame again,
\* with the segment's flags.
CopyAndSet(newEntries) ==
    /\ pc = "copy" /\ Header.fileLen = Header.end - Header.start
    /\ LET target == [p \in HeaderPages(Header) |-> Translate(tlb[p], entries[p].frame)]
       IN  /\ content' = [f \in Frames |-> IF \E p \in HeaderPages(Header) : target[p] = f
                                           THEN content[f] \cup {segment} ELSE content[f]]
           /\ tlb' = [p \in UserPages |-> IF p \in HeaderPages(Header) THEN target[p] ELSE tlb[p]]
    /\ entries' = [p \in UserPages |->
                     IF p \in HeaderPages(Header) THEN newEntries[p] ELSE entries[p]]
    /\ segment' = segment + 1
    /\ pc' = "header"
    /\ UNCHANGED <<image, todo, tables, free, calling, outOfMemory>>

\* Mutants: set_flags looks up the first page for every page, or is not called.
CopySegmentFirstFrame ==
    CopyAndSet([p \in HeaderPages(Header) |->
                  [frame |-> entries[containing_address(Header.start)].frame,
                   flags |-> HeaderFlags(Header)]])
CopySegmentKeepsFlags == CopyAndSet(entries)

CopySegment ==
    CopyAndSet([p \in HeaderPages(Header) |->
                  [entries[p] EXCEPT !.flags = HeaderFlags(Header)]])

\* The entry point must be canonical and in the lower half; the kernel's tables are
\* switched back in, and the process is entered in PROCESSES.
SpawnDone ==
    /\ pc = "header" /\ segment > Len(image.segments)
    /\ LET entry == containing_address(image.entry)
       IN  pc' = IF entry >= FirstHigherPage \/ ~Canonical(entry) THEN "panicked" ELSE "run"
    /\ tlb' = NoTlb
    /\ UNCHANGED <<loading, todo, entries, tables, free, content, calling, outOfMemory>>

\* Process::setup maps the stack, whatever is mapped there; then jump_usermode.
RunByPid ==
    /\ pc = "run"
    /\ tlb' = NoTlb
    /\ todo' = [pages |-> PagesFrom(containing_address(STACK_BOTTOM), containing_address(STACK_TOP)),
                flags |-> {"writable", "user"}, ignore |-> TRUE, zero |-> TRUE,
                invalidate |-> FALSE, then |-> "jump"]
    /\ pc' = "map"
    /\ UNCHANGED <<loading, entries, tables, free, content, calling, outOfMemory>>

JumpUsermode ==
    /\ pc = "jump"
    /\ pc' = "user"
    /\ UNCHANGED <<loading, todo, memory, calling, outOfMemory>>

----------------------------------------------------------------------------
(* The running process, and syscall_handler.                                 *)

UserWrite(page) ==
    /\ pc = "user" /\ Present(page) /\ {"user", "writable"} \subseteq entries[page].flags
    /\ LET frame == Translate(tlb[page], entries[page].frame)
       IN  /\ content' = [content EXCEPT ![frame] = {UserData}]
           /\ tlb' = [tlb EXCEPT ![page] = frame]
    /\ UNCHANGED <<pc, loading, todo, entries, tables, free, calling, outOfMemory>>

Called(name, first, last, flags) ==
    call' = [name |-> name, first |-> first, last |-> last, flags |-> {"user"} \cup flags]

Return(value) ==
    /\ ret' = value
    /\ UNCHANGED <<pc, loading, todo, memory, outOfMemory>>

KernelPanics ==
    /\ pc' = "panicked"
    /\ UNCHANGED <<loading, todo, memory, ret, outOfMemory>>

LastOf(r) == containing_address(r.addr) + r.len - 1
\* page_begin + (len - 1), or the start address of its page, does not fit in 64 bits.
Overflows(r) == LastOf(r) >= PageSpace

\* Misaligned or empty
BadArguments(r) == r.addr % PageBytes # 0 \/ r.len = 0
BadArgumentsCode(r) == IF r.addr % PageBytes # 0 THEN -3 ELSE -4

CalledWith(name, r) == Called(name, containing_address(r.addr), LastOf(r), r.flags)

SyscallMapRefused(r) ==
    /\ pc = "user"
    /\ CalledWith("map", r)
    /\ \/ BadArguments(r) /\ Return(BadArgumentsCode(r))
       \/ /\ ~BadArguments(r)
          /\ InvalidRange(containing_address(r.addr), LastOf(r) % NumberSpace)
          /\ Return(-3)

\* A dev build checks the additions and multiplications of the range.
SyscallMapOverflow(r) ==
    /\ pc = "user" /\ ~BadArguments(r) /\ Overflows(r)
    /\ CalledWith("map", r)
    /\ KernelPanics

\* UserPageFlags::from_bits_truncate(flags).into(): present and user accessible, writable
\* and executable as asked.
StartMap(r, ignore, zero) ==
    /\ pc = "user" /\ ~BadArguments(r)
    /\ ~InvalidRange(containing_address(r.addr), LastOf(r) % NumberSpace)
    /\ todo' = [pages |-> PagesFrom(containing_address(r.addr), LastOf(r) % NumberSpace),
                flags |-> {"user"} \cup r.flags, ignore |-> ignore, zero |-> zero,
                invalidate |-> TRUE, then |-> "user"]
    /\ CalledWith("map", r)
    /\ pc' = "map"
    /\ UNCHANGED <<loading, memory, ret, outOfMemory>>

\* Mutants: the arguments of spawn_from_elf's call.
SyscallMapOverwrites(r) == StartMap(r, TRUE, TRUE)
SyscallMapNoZero(r) == StartMap(r, FALSE, FALSE)

SyscallMap(r) == StartMap(r, FALSE, TRUE)

\* Unmap checks its arguments and is otherwise todo!().
SyscallUnmap(r) ==
    /\ pc = "user"
    /\ CalledWith("unmap", r)
    /\ \/ BadArguments(r) /\ Return(BadArgumentsCode(r))
       \/ ~BadArguments(r) /\ KernelPanics

\* BorrowedKernelBuffer::try_from_user: the last byte, and the pages from the first byte's
\* to the last byte's.
BufferOkFirstPage(ptr, len) ==
    LET end == ptr + len - 1
    IN  /\ ptr # 0 /\ len # 0 /\ len < NumberSpace \div 2 /\ end < NumberSpace
        /\ end < (LastUsablePage + 1) * PageBytes
        /\ Present(containing_address(ptr))
        /\ "user" \in entries[containing_address(ptr)].flags

BufferOk(ptr, len) ==
    LET end == ptr + len - 1
    IN  /\ ptr # 0 /\ len # 0 /\ len < NumberSpace \div 2 /\ end < NumberSpace
        /\ end < (LastUsablePage + 1) * PageBytes
        /\ \A p \in containing_address(ptr) .. containing_address(end) :
              Present(p) /\ "user" \in entries[p].flags

\* Whether the bytes are UTF-8 is up to the process.
SyscallPrint(r) ==
    /\ pc = "user"
    /\ Called("print", r.ptr, r.ptr + r.len - 1, {})
    /\ \/ BufferOk(r.ptr, r.len) /\ \E code \in {0, -2} : Return(code)
       \/ ~BufferOk(r.ptr, r.len) /\ Return(-1)

SyscallHalt ==
    /\ pc = "user"
    /\ pc' = "halted"
    /\ UNCHANGED <<loading, todo, memory, calling, outOfMemory>>

\* Syscall::from_u64(id).unwrap()
SyscallUnknown ==
    /\ pc = "user"
    /\ Called("unknown", 0, 0, {})
    /\ KernelPanics

Spawn == SpawnReject \/ SpawnTables \/ SkipHeader \/ RejectHeader \/ MapHeader
         \/ RejectCopy \/ CopySegment \/ SpawnDone \/ RunByPid \/ JumpUsermode
MapLoop == MapAlreadyMapped \/ MapOutOfMemory \/ MapPage \/ MapDone
Syscall ==
    \/ \E r \in MapRequests :
          SyscallMapRefused(r) \/ SyscallMapOverflow(r) \/ SyscallMap(r) \/ SyscallUnmap(r)
    \/ \E r \in PrintRequests : SyscallPrint(r)
    \/ SyscallHalt \/ SyscallUnknown

Next ==
    \/ Spawn \/ MapLoop \/ Syscall
    \/ \E p \in UserPages : TlbFill(p) \/ TlbEvict(p)
    \/ \E p \in WrittenPages : UserWrite(p)

Spec == Init /\ [][Next]_vars

----------------------------------------------------------------------------
\* The loader, Map and the stack set-up stay in the lower half: only usable pages are ever
\* mapped or queued for mapping, and the return codes are those of syscall.rs.
TypeOK ==
    /\ pc \in {"spawn", "header", "map", "copy", "run", "jump", "user", "halted", "panicked"}
    /\ image \in Images /\ segment \in 1 .. Len(image.segments) + 1
    /\ \A i \in DOMAIN todo.pages : todo.pages[i] \in UserPages
    /\ DOMAIN entries = UserPages
    /\ \A p \in UserPages :
          Present(p) => /\ entries[p].frame \in Frames
                        /\ entries[p].flags \subseteq {"user", "writable", "executable"}
    /\ tables \subseteq Frames /\ free \subseteq Frames
    /\ DOMAIN content = Frames
    /\ tlb \in [UserPages -> Frames \cup {0}]
    /\ ret \in {0, -1, -2, -3, -4}

Mapped == {p \in UserPages : Present(p)}
FrameOf(p) == entries[p].frame

\* No frame backs two pages of the address space, and none is at once mapped and a page
\* table, or mapped and free (spawn_from_elf, setup and Map take frames from the physical
\* allocator; set_flags maps again the frames it finds).
FramesExclusive ==
    /\ \A p, q \in Mapped : FrameOf(p) = FrameOf(q) => p = q
    /\ \A p \in Mapped : FrameOf(p) \notin free \cup tables
    /\ free \cap tables = {}

Segments == DOMAIN image.segments
Covers(s, p) == image.segments[s].load /\ p \in HeaderPages(image.segments[s])
\* Two segments in one page, or a segment in the lowest page of the stack: the later mapping
\* replaces the earlier one, and what was copied is lost.
Replaced(p) ==
    \/ \E s, t \in Segments : s # t /\ Covers(s, p) /\ Covers(t, p)
    \/ p \in StackPages /\ \E s \in Segments : Covers(s, p)

\* When the process starts, each page of a segment that has the page to itself holds the
\* segment's bytes under exactly the segment's access rights, and the stack is zeroed,
\* writable and not executable (process.rs spawn_from_elf and setup).
LoadedAsLinked ==
    pc = "jump" =>
        /\ \A s \in Segments, p \in UserPages :
              Covers(s, p) /\ ~Replaced(p) =>
                 /\ s \in content[FrameOf(p)]
                 /\ entries[p].flags = HeaderFlags(image.segments[s])
        /\ \A p \in StackPages :
              /\ entries[p].flags = {"user", "writable"}
              /\ ~Replaced(p) => content[FrameOf(p)] = {}

\* Every frame is free, a page table, or reachable through the address space: the error paths
\* of Map and of the loader lose none (page_map.rs map and try_map_user_range). Excepted are
\* pages mapped over, and the last frame: when map has taken it and there is none for a page
\* table, it is lost, once, however often Map is called again.
Lost == Frames \ (free \cup tables \cup {FrameOf(p) : p \in Mapped})
NoFrameLeaked ==
    (~\E p \in UserPages : Replaced(p)) =>
        (Lost # {} => outOfMemory /\ free = {} /\ \E f \in Frames : Lost = {f})

Wraps == call.last >= NumberSpace

\* When Map has returned 0, every page of the request is mapped with the rights asked for.
\* A length that carries the last page's number past 2^64 is the exception: the release
\* build then maps nothing and returns 0 (syscall.rs Map). Map ends in a panic only for a last
\* page beyond the address space, which the dev build's checks catch, and for a read-only page,
\* which map clears through its own mapping.
MapDelivers ==
    /\ (pc = "user" /\ call.name = "map" /\ ret = 0 /\ ~Wraps) =>
          \A p \in call.first .. call.last : Present(p) /\ entries[p].flags = call.flags
    /\ (pc = "panicked" /\ call.name = "map") =>
          (call.last >= PageSpace \/ "writable" \notin call.flags)

\* The pages a Map call has mapped so far are zeroed in the frames they are mapped to, not
\* in a frame a stale translation leads to (page_map.rs map, ZeroPage::Zero).
FreshPagesZeroed ==
    (pc = "map" /\ call.name = "map" /\ ~Wraps) =>
        \A p \in call.first .. call.last :
            (\A i \in DOMAIN todo.pages : todo.pages[i] # p) => content[FrameOf(p)] = {}

\* While a Map call is handled, no page that was mapped loses its mapping, its rights or its
\* bytes, whether the call succeeds or not (page_map.rs try_map_user_range with
\* ignore_already_mapped false).
MapKeepsWhatIsMapped ==
    [][(pc = "map" /\ call.name = "map") =>
          \A p \in Mapped : /\ entries'[p] = entries[p]
                            /\ content'[FrameOf(p)] = content[FrameOf(p)]]_vars

\* Print accepts a buffer exactly when every byte of it lies in a page the process can read
\* (buffer.rs try_from_user, which looks at pages, not at bytes).
PrintReadsExactlyUserMemory ==
    (pc = "user" /\ call.name = "print") =>
        ((ret # -1) <=>
            /\ 0 < call.first /\ call.first <= call.last
            /\ \A b \in call.first .. call.last :
                  /\ containing_address(b) \in Mapped
                  /\ "user" \in entries[containing_address(b)].flags)

=============================================================================
