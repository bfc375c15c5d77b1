------------------------------ MODULE MCProcess ------------------------------
(* Pages of four bytes. Pages 0 to 5 are usable: the stack takes 4 and 5, pages 7  *)
(* to 11 are not canonical, 12 to 15 are the upper half. A page table has two pages *)
(* under it, so that the last frame may be taken when a table is needed, too.       *)
EXTENDS Process

Load(start, end, access) ==
    [load |-> TRUE, start |-> start, end |-> end, fileLen |-> end - start, access |-> access]
Elf(segments, entry) == [kind |-> "executable", segments |-> segments, entry |-> entry]

Text == Load(4, 7, {"executable"})
Data == Load(12, 14, {"writable"})
Note == [Data EXCEPT !.load = FALSE]
Bss == [Data EXCEPT !.fileLen = 1]

MCImages ==
    { Elf(<<Text, Note, Data>>, 4),
      Elf(<<Text>>, 4),
      Elf(<<Note>>, 4),                                \* nothing to load
      Elf(<<Load(4, 10, {"executable"})>>, 4),         \* two pages
      Elf(<<Text, Load(7, 8, {"writable"})>>, 4),      \* two segments share page 1
      Elf(<<Load(16, 18, {"writable"})>>, 16),         \* lowest page of the stack
      Elf(<<Text, Load(20, 22, {})>>, 4),              \* above it
      Elf(<<Load(0, 6, {})>>, 4),                      \* address 0
      Elf(<<Load(32, 34, {})>>, 4),                    \* not canonical
      Elf(<<Text, Bss>>, 4),
      Elf(<<Text>>, 48),                               \* entry point in the kernel
      [Elf(<<Text>>, 4) EXCEPT !.kind = "library"] }

Request(addr, len, flags) == [addr |-> addr, len |-> len, flags |-> flags]
WX == {"writable", "executable"}

MCMapRequests ==
    { Request(0, 1, WX), Request(0, 2, {"writable"}), Request(12, 2, {"writable"}),
      Request(2, 1, WX), Request(8, 0, WX), Request(0, 1, {}),
      Request(20, 1, WX), Request(12, 63, WX), Request(0, 20, WX) }

MCPrintRequests ==
    { [ptr |-> 0, len |-> 1], [ptr |-> 4, len |-> 0], [ptr |-> 7, len |-> 2],
      [ptr |-> 3, len |-> 2], [ptr |-> 23, len |-> 2], [ptr |-> 20, len |-> 4],
      [ptr |-> 62, len |-> 4], [ptr |-> 4, len |-> 40] }
=============================================================================
