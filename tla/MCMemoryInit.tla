--------------------------- MODULE MCMemoryInit ----------------------------
(* Small machines for MemoryInit: pages of 8 bytes, trees of 14 frames.  As *)
(* in the code, the bootstrap heap ends a few bytes, and the heap's tree   *)
(* one byte, before the end of a page.                                     *)
EXTENDS MemoryInit

Area(s, e) == [start |-> s, end |-> e]

\* A text section of one page, then data: the guard page and a page of stack.
Machine(areas, mbStart, mbEnd) ==
  [areas |-> areas, sections |-> {Area(8, 16), Area(16, 32)},
   mbInfo |-> Area(mbStart, mbEnd), guardPage |-> 2]

\* The boot information starts and ends inside frames and on their borders; the
\* memory map has holes; there is enough memory, or too little at different steps.
MCMachines ==
  {Machine({Area(0, 7), Area(8, top)}, 40, e) : top \in {80, 88, 96, 100, 112}, e \in {43, 47, 48}}
    \union {Machine({Area(0, 60), Area(80, 104)}, 33, 40)}

\* As much memory as the trees of init_prelim hold, more, exactly as many trees as a u8
\* counts, and more.
MCLargeMachines ==
  {Machine({Area(0, 60), Area(top - 1, top)}, 40, 44) : top \in {225, 337, 450}}
    \union {Machine({Area(0, 80), Area(250, 256)}, 40, 43), Machine({Area(0, 80), Area(440, 448)}, 40, 43)}
MCAllMachines == MCMachines \union MCLargeMachines
=============================================================================
