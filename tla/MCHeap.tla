------------------------------- MODULE MCHeap ------------------------------
(* Small instances of Heap: pages of 4 bytes and 2 cells.                  *)
EXTENDS Heap, TLC

MCDevices == {[start |-> 100, frames |-> 1]}
MCSymmetry == Permutations(Frames)
=============================================================================
