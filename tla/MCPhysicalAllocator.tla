------------------------ MODULE MCPhysicalAllocator ------------------------
(* Small instances of PhysicalAllocator: trees of 2^(LevelCount - 1)       *)
(* frames of two bytes.  The memory map has a hole, a range that ends      *)
(* inside a frame, and a range that crosses the border of two trees.       *)
(* The contexts make finitely many calls: one that calls allocate again    *)
(* and again may win every race for a lock, and then the others starve.    *)
EXTENDS PhysicalAllocator

CONSTANT MaxCalls   \* bound on the calls that all contexts make together

VARIABLE calls

MCUsable == {[start |-> 0, end |-> 5], [start |-> 6, end |-> 11]}

Started == Cardinality({c \in Contexts : pc[c] = "idle" /\ pc'[c] # "idle"})

MCVars == <<vars, calls>>
MCInit == Init /\ calls = 0
MCNext == Next /\ calls' = calls + Started /\ calls' <= MaxCalls
MCSpec ==
  /\ MCInit
  /\ [][MCNext]_MCVars
  /\ \A c \in Contexts : WF_MCVars(Continue(c) /\ Observe /\ UNCHANGED calls)

\* Every call of allocate, deallocate and init_rest returns, although allocate
\* spins over the trees that are in use.
EveryCallReturns == \A c \in Contexts : pc[c] # "idle" ~> pc[c] = "idle"
=============================================================================
