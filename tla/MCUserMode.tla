----------------------------- MODULE MCUserMode ------------------------------
(* A screen of 3 x 2 characters, programs that print, one character of which *)
(* has a code point above 255, print nothing, use ports at the borders of    *)
(* the range, call Map, Unmap and a number that is no system call.           *)
EXTENDS UserMode

MCLabel == <<91>>
MCNewline == <<10>>
MCPanicMessage == <<80, 10, 110, 105>>
MCTexts == <<<<72, 105, 10>>, <<266, 33, 33, 33>>, <<69>>>>
MCHaltMessage == <<104>>
MCUserStack == 1 .. 5
MCKernelStack == 11 .. 17
PrintText(i) == Call(SYS_PRINT, i, Len(MCTexts[i]))
PortAccess(port, size) == [op |-> "ports", port |-> port, size |-> size]
MCPrograms ==
    {<<PrintText(1), PrintText(2)>>,
     <<PrintText(2), Call(SYS_PRINT, 2, 0), PrintText(1)>>,
     <<PortAccess(12, 4), Call(SYS_MAP, 4096, 1), PortAccess(14, 4)>>,
     <<Call(SYS_MAP, 4096, 0), Call(SYS_UNMAP, 1, 1), Call(SYS_UNMAP, 4096, 1)>>,
     <<Call(4, 0, 0)>>}

=============================================================================
