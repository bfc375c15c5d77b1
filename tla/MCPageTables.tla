---------------------------- MODULE MCPageTables ----------------------------
(* Three levels of tables with three entries each: entry 0 for the process, *)
(* 1 recursive, 2 the kernel's.  boot.asm's tables are frames 1 to 4, the   *)
(* second of the lowest tables being the one that the temporary page uses,  *)
(* and 8; frames 5, 6 and 9 hold the kernel, 7 is the VGA buffer, and 10 is *)
(* memory of a device.                                                      *)
EXTENDS PageTables

Entries(f) == [i \in Index |-> f[i + 1]]
None3 == <<Unused, Unused, Unused>>
MCBootMemory ==
    [f \in Frames |->
       CASE f = 1 -> Entries(<<Unused, To(1), To(2)>>)
         [] f = 2 -> Entries(<<To(3), To(8), To(4)>>)
         [] f = 3 -> Entries(<<To(5), To(6), To(7)>>)
         [] f = 4 -> Entries(None3)
         [] f = 8 -> Entries(<<To(9), Unused, Unused>>)
         [] OTHER -> Entries(<<To(5), To(5), To(5)>>)]
MCBootFree == 11 .. FrameCount
MCSections == <<[page |-> <<2, 0, 0>>, entry |-> ToGlobal(5)], [page |-> <<2, 0, 2>>, entry |-> To(7)]>>
MCRemapped == << << <<2, 0, 1>> >>, << <<2, 1, 0>> >> >>
MCTemp == <<2, 2, 0>>
MCHeapPages == {<<2, 2, 1>>}
MCUserPages == {<<0, 0, 0>>, <<0, 2, 1>>}
MCIndex == 0 .. 2

=============================================================================
