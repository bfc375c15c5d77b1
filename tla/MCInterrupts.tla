---------------------------- MODULE MCInterrupts ----------------------------
(* Two controllers of four lines: the timer on line 0, the keyboard on line 1, *)
(* the slave on line 2; line 3 is also the number of a spurious interrupt.     *)
EXTENDS Interrupts

Mask == [master |-> {3}, slave |-> {2}]
MCDevices == {1, 3, 5, 6}
MCGlitches == {1, 5}
=============================================================================
