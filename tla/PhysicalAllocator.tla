------------------------- MODULE PhysicalAllocator -------------------------
(***************************************************************************)
(* The physical frame allocator, kernel/src/memory/physical_allocator.rs.  *)
(*                                                                         *)
(* Physical memory is split into trees of 1 GiB.  Each tree is a buddy     *)
(* allocator (the external crate `friendly') behind a spin lock of its     *)
(* own; a slot of the array of trees may also be empty (None).             *)
(* `allocate' walks over the trees with try_lock, remembering for each     *)
(* whether it was tried or was in use; `deallocate' computes the tree from *)
(* the address and takes its lock with a blocking lock.                    *)
(*                                                                         *)
(* Addresses are counted in frames (order 0 blocks), except in the memory  *)
(* map given at boot, which counts bytes.  A context is a thread of        *)
(* execution that may call the allocator.                                  *)
(***************************************************************************)
EXTENDS Integers, FiniteSets

CONSTANTS
  Contexts,       \* execution contexts that call the allocator
  NoContext,      \* the holder of a lock that is not held
  BootContext,    \* the context that runs kmain, and so init_rest
  NumTrees,       \* length of the array of trees (256 in the code)
  PrelimTrees,    \* number of trees set up by init_prelim (8 in the code)
  LevelCount,     \* LEVEL_COUNT: number of orders of a tree (19 in the code)
  FrameBytes,     \* 2^BASE_ORDER: bytes of an order 0 block (4096)
  Gibibytes,      \* the argument `gibbibytes' of init_rest
  Usable          \* the usable ranges of the memory map, in bytes

ASSUME ContextsAssumption == BootContext \in Contexts /\ NoContext \notin Contexts
ASSUME TreesAssumption ==
  /\ NumTrees \in Nat \ {0}
  /\ PrelimTrees \in 0..NumTrees
  /\ Gibibytes \in 0..(NumTrees - 1)
ASSUME OrdersAssumption == LevelCount \in Nat \ {0} /\ FrameBytes \in Nat \ {0}
ASSUME UsableAssumption ==
  \A r \in Usable : r.start \in Nat /\ r.end \in Nat /\ r.start <= r.end

TreeIndex == 0..(NumTrees - 1)
MaxOrder == LevelCount - 1
Order == 0..MaxOrder
TreeSize == 2^MaxOrder               \* frames in one tree
Local == 0..(TreeSize - 1)           \* frame offsets local to a tree

-----------------------------------------------------------------------------
(* The memory map, cut into the trees.                                     *)

GibStart(gib) == gib * TreeSize * FrameBytes

\* The end of the range is one byte past the GiB, as in the code.
GibEnd(gib) == GibStart(gib + 1) + 1

\* A mutant of Localize that does not make ranges local to the GiB.
LocalizeForgetsBase(gib, usable) ==
  {u \in usable : u.start <= GibEnd(gib) /\ u.end >= GibStart(gib)}

Localize(gib, usable) ==
  { [start |-> IF r.start >= GibStart(gib) THEN r.start - GibStart(gib) ELSE 0,
     end   |-> r.end - GibStart(gib)] :
       r \in {u \in usable : u.start <= GibEnd(gib) /\ u.end >= GibStart(gib)} }

\* friendly's Tree::new: a frame is free when one usable range covers it.
NewTree(ranges) ==
  {f \in Local : \E r \in ranges : r.start <= f * FrameBytes
                                   /\ (f + 1) * FrameBytes <= r.end}

-----------------------------------------------------------------------------
(* Blocks: what `allocate' hands out.  The address is global.              *)

Block == [addr : Nat, order : Order]
TreeOf(b) == b.addr \div TreeSize
LocalPtr(b) == b.addr % TreeSize
LocalFrames(start, order) == start..(start + 2^order - 1)
NoBlock == [addr |-> -1, order |-> 0]

TryState == {"Untried", "WasInUse", "Tried"}

\* The array `tried' at the start of a call; it is put back when a call returns.
AllUntried == [i \in TreeIndex |-> "Untried"]

VARIABLES
  exists,   \* the slots of the array of trees that hold Some(tree)
  free,     \* free[i]: the free frames of tree i, local to it
  lock,     \* lock[i]: the context that holds the mutex of tree i
  pc,       \* where each context is in allocate / deallocate / init_rest
  tried,    \* the local array `tried' of allocate
  index,    \* the local variable `index' of allocate
  order,    \* the argument `order' of allocate
  freeing,  \* the block given to deallocate and not yet returned to its tree
  allocated,\* the blocks the callers hold
  nextTree, \* the loop variable of init_rest
  lacked    \* history: trees that had no fitting block at some moment of the call

vars == <<exists, free, lock, pc, tried, index, order, freeing, allocated,
          nextTree, lacked>>

Allocating == {"pick", "locked"}
PC == Allocating \union {"idle", "dealloc_lock", "dealloc", "init_store"}

\* The starts of the blocks of order k that tree i can give.
Fitting(i, k) ==
  IF i \in exists
  THEN {s \in Local : s % 2^k = 0 /\ LocalFrames(s, k) \subseteq free[i]}
  ELSE {}

\* Trees, locks, the search state of allocate and the blocks handed out by allocate and
\* taken back by deallocate keep their types.
TypeOK ==
  /\ exists \subseteq TreeIndex
  /\ free \in [TreeIndex -> SUBSET Local]
  /\ lock \in [TreeIndex -> Contexts \union {NoContext}]
  /\ pc \in [Contexts -> PC]
  /\ tried \in [Contexts -> [TreeIndex -> TryState]]
  /\ index \in [Contexts -> TreeIndex]
  /\ order \in [Contexts -> Order]
  /\ freeing \in [Contexts -> Block \union {NoBlock}]
  /\ allocated \subseteq Block
  /\ nextTree \in Nat
  /\ lacked \in [Contexts -> SUBSET TreeIndex]

(* init_prelim has run: the first trees exist, the other slots are None.   *)
Init ==
  /\ exists = 0..(PrelimTrees - 1)
  /\ free = [i \in TreeIndex |-> IF i < PrelimTrees
                                 THEN NewTree(Localize(i, Usable)) ELSE {}]
  /\ lock = [i \in TreeIndex |-> NoContext]
  /\ pc = [c \in Contexts |-> "idle"]
  /\ tried = [c \in Contexts |-> AllUntried]
  /\ index = [c \in Contexts |-> 0]
  /\ order = [c \in Contexts |-> 0]
  /\ freeing = [c \in Contexts |-> NoBlock]
  /\ allocated = {}
  /\ nextTree = PrelimTrees
  /\ lacked = [c \in Contexts |-> {}]

-----------------------------------------------------------------------------
(* allocate                                                                *)

InState(c, state) == {i \in TreeIndex : tried[c][i] = state}

AllocateCall(c, k) ==
  /\ pc[c] = "idle"
  /\ pc' = [pc EXCEPT ![c] = "pick"]
  /\ order' = [order EXCEPT ![c] = k]
  /\ UNCHANGED <<exists, free, lock, tried, index, freeing, allocated, nextTree>>

\* A mutant of Candidates that never comes back to a tree that was in use.
CandidatesNoRetry(c) == InState(c, "Untried")

\* The trees that are still to be tried: untried ones before busy ones.
Candidates(c) ==
  IF InState(c, "Untried") # {} THEN InState(c, "Untried")
  ELSE InState(c, "WasInUse")

\* position: the first of them.
FirstCandidate(c, i) == i \in Candidates(c) /\ \A j \in Candidates(c) : i <= j

\* try_lock succeeds.
AllocateLock(c) ==
  /\ pc[c] = "pick"
  /\ \E i \in TreeIndex :
       /\ FirstCandidate(c, i)
       /\ lock[i] = NoContext
       /\ lock' = [lock EXCEPT ![i] = c]
       /\ index' = [index EXCEPT ![c] = i]
  /\ pc' = [pc EXCEPT ![c] = "locked"]
  /\ UNCHANGED <<exists, free, tried, order, freeing, allocated, nextTree>>

\* try_lock fails: another context holds the lock.
AllocateBusy(c) ==
  /\ pc[c] = "pick"
  /\ \E i \in TreeIndex :
       /\ FirstCandidate(c, i)
       /\ lock[i] # NoContext
       /\ tried' = [tried EXCEPT ![c] = [@ EXCEPT ![i] = "WasInUse"]]
  /\ UNCHANGED <<exists, free, lock, pc, index, order, freeing, allocated, nextTree>>

\* `?' in the loop: every tree was tried.
AllocateNone(c) ==
  /\ pc[c] = "pick"
  /\ Candidates(c) = {}
  /\ pc' = [pc EXCEPT ![c] = "idle"]
  /\ tried' = [tried EXCEPT ![c] = AllUntried]
  /\ UNCHANGED <<exists, free, lock, index, order, freeing, allocated,
                 nextTree>>

\* A mutant of AllocateTake that leaves the frames in the tree.
AllocateTakeKeepsFree(c) ==
  /\ pc[c] = "locked"
  /\ \E start \in Fitting(index[c], order[c]) :
       allocated' = allocated \union
                      {[addr |-> start + index[c] * TreeSize, order |-> order[c]]}
  /\ lock' = [lock EXCEPT ![index[c]] = NoContext]
  /\ pc' = [pc EXCEPT ![c] = "idle"]
  /\ tried' = [tried EXCEPT ![c] = AllUntried]
  /\ UNCHANGED <<exists, free, index, order, freeing, nextTree>>

\* tree.allocate(order) gave a block: return it, which drops the lock.
AllocateTake(c) ==
  /\ pc[c] = "locked"
  /\ \E start \in Fitting(index[c], order[c]) :
       /\ free' = [free EXCEPT ![index[c]] = @ \ LocalFrames(start, order[c])]
       /\ allocated' = allocated \union
                         {[addr |-> start + index[c] * TreeSize, order |-> order[c]]}
  /\ lock' = [lock EXCEPT ![index[c]] = NoContext]
  /\ pc' = [pc EXCEPT ![c] = "idle"]
  /\ tried' = [tried EXCEPT ![c] = AllUntried]
  /\ UNCHANGED <<exists, index, order, freeing, nextTree>>

\* A mutant of AllocateEmpty that leaves the tree locked.
AllocateEmptyKeepsLock(c) ==
  /\ pc[c] = "locked"
  /\ Fitting(index[c], order[c]) = {}
  /\ tried' = [tried EXCEPT ![c] = [@ EXCEPT ![index[c]] = "Tried"]]
  /\ pc' = [pc EXCEPT ![c] = "pick"]
  /\ UNCHANGED <<exists, free, lock, index, order, freeing, allocated, nextTree>>

\* The tree has no such block, or the slot is None.
AllocateEmpty(c) ==
  /\ pc[c] = "locked"
  /\ Fitting(index[c], order[c]) = {}
  /\ tried' = [tried EXCEPT ![c] = [@ EXCEPT ![index[c]] = "Tried"]]
  /\ lock' = [lock EXCEPT ![index[c]] = NoContext]
  /\ pc' = [pc EXCEPT ![c] = "pick"]
  /\ UNCHANGED <<exists, free, index, order, freeing, allocated, nextTree>>

-----------------------------------------------------------------------------
(* deallocate: the caller gives back a block that it holds.                *)

DeallocateCall(c, b) ==
  /\ pc[c] = "idle"
  /\ b \in allocated
  /\ allocated' = allocated \ {b}
  /\ freeing' = [freeing EXCEPT ![c] = b]
  /\ pc' = [pc EXCEPT ![c] = "dealloc_lock"]
  /\ UNCHANGED <<exists, free, lock, tried, index, order, nextTree>>

DeallocateLock(c) ==
  /\ pc[c] = "dealloc_lock"
  /\ lock[TreeOf(freeing[c])] = NoContext
  /\ lock' = [lock EXCEPT ![TreeOf(freeing[c])] = c]
  /\ pc' = [pc EXCEPT ![c] = "dealloc"]
  /\ UNCHANGED <<exists, free, tried, index, order, freeing, allocated, nextTree>>

\* A mutant of DeallocateTree that returns only the first frame of the block.
DeallocateTreeOneFrame(c) ==
  LET i == TreeOf(freeing[c])
  IN  /\ pc[c] = "dealloc"
      /\ free' = [free EXCEPT ![i] = @ \union {LocalPtr(freeing[c])}]
      /\ lock' = [lock EXCEPT ![i] = NoContext]
      /\ freeing' = [freeing EXCEPT ![c] = NoBlock]
      /\ pc' = [pc EXCEPT ![c] = "idle"]
      /\ UNCHANGED <<exists, tried, index, order, allocated, nextTree>>

DeallocateTree(c) ==
  LET i == TreeOf(freeing[c])
  IN  /\ pc[c] = "dealloc"
      /\ i \in exists                          \* as_mut().unwrap()
      /\ free' = [free EXCEPT ![i] =
                    @ \union LocalFrames(LocalPtr(freeing[c]), freeing[c].order)]
      /\ lock' = [lock EXCEPT ![i] = NoContext]
      /\ freeing' = [freeing EXCEPT ![c] = NoBlock]
      /\ pc' = [pc EXCEPT ![c] = "idle"]
      /\ UNCHANGED <<exists, tried, index, order, allocated, nextTree>>

-----------------------------------------------------------------------------
(* init_rest: one turn of the loop `for i in 8..=gibbibytes' per tree.     *)
(* Between two turns the context allocates the tree's boxed slice, which   *)
(* may call `allocate' in turn.                                            *)

InitRestLock(c) ==
  /\ c = BootContext
  /\ pc[c] = "idle"
  /\ nextTree <= Gibibytes
  /\ lock[nextTree] = NoContext
  /\ lock' = [lock EXCEPT ![nextTree] = c]
  /\ pc' = [pc EXCEPT ![c] = "init_store"]
  /\ UNCHANGED <<exists, free, tried, index, order, freeing, allocated, nextTree>>

InitRestStore(c) ==
  /\ pc[c] = "init_store"
  /\ exists' = exists \union {nextTree}
  /\ free' = [free EXCEPT ![nextTree] = NewTree(Localize(nextTree, Usable))]
  /\ lock' = [lock EXCEPT ![nextTree] = NoContext]
  /\ pc' = [pc EXCEPT ![c] = "idle"]
  /\ nextTree' = nextTree + 1
  /\ UNCHANGED <<tried, index, order, freeing, allocated>>

-----------------------------------------------------------------------------

\* The history variable: which trees lacked a fitting block during the call.
Lacking(c) == {i \in TreeIndex : Fitting(i, order[c]) = {}}

Observe ==
  lacked' = [c \in Contexts |->
               IF pc'[c] \in Allocating
               THEN (IF pc[c] \in Allocating THEN lacked[c] ELSE {}) \union Lacking(c)'
               ELSE {}]

Allocate(c) ==
  \/ \E k \in Order : AllocateCall(c, k)
  \/ AllocateLock(c)
  \/ AllocateBusy(c)
  \/ AllocateNone(c)
  \/ AllocateTake(c)
  \/ AllocateEmpty(c)

Deallocate(c) ==
  \/ \E b \in allocated : DeallocateCall(c, b)
  \/ DeallocateLock(c)
  \/ DeallocateTree(c)

InitRest(c) == InitRestLock(c) \/ InitRestStore(c)

Next == (\E c \in Contexts : Allocate(c) \/ Deallocate(c) \/ InitRest(c)) /\ Observe

Spec == Init /\ [][Next]_vars

\* A context that is inside a call keeps running.
Continue(c) ==
  AllocateLock(c) \/ AllocateBusy(c) \/ AllocateNone(c) \/ AllocateTake(c) \/ AllocateEmpty(c)
  \/ DeallocateLock(c) \/ DeallocateTree(c) \/ InitRestStore(c)

-----------------------------------------------------------------------------
(* Properties                                                              *)

\* The global frames of a block.
Frames(b) == b.addr..(b.addr + 2^b.order - 1)

\* The blocks that are out of the trees: held by a caller, or on their way back.
Live == allocated \union {freeing[c] : c \in {d \in Contexts : freeing[d] # NoBlock}}

FreeFrames == {f \in 0..(NumTrees * TreeSize - 1) :
                 f \div TreeSize \in exists /\ f % TreeSize \in free[f \div TreeSize]}

\* What the memory map says is usable, of the trees that exist.
UsableFrames ==
  {f \in 0..(NumTrees * TreeSize - 1) :
     /\ f \div TreeSize \in exists
     /\ \E r \in Usable : r.start <= f * FrameBytes /\ (f + 1) * FrameBytes <= r.end}

\* No frame is handed out twice: the blocks that callers hold, and the blocks
\* on their way back through deallocate, are pairwise disjoint, and none of
\* their frames is free in a tree, however the calls interleave.
NoDoubleAllocation ==
  /\ \A a, b \in allocated : a # b => Frames(a) \intersect Frames(b) = {}
  /\ \A c \in Contexts : freeing[c] # NoBlock =>
       /\ \A b \in allocated : Frames(freeing[c]) \intersect Frames(b) = {}
       /\ \A d \in Contexts \ {c} : freeing[d] # NoBlock =>
            Frames(freeing[c]) \intersect Frames(freeing[d]) = {}
  /\ \A b \in Live : Frames(b) \intersect FreeFrames = {}

\* No frame is lost or invented: the frames that are free or live are exactly
\* the frames the memory map gives to the trees that exist.  This covers the
\* arithmetic of localize and of the addresses that allocate returns and
\* deallocate takes apart.
NoFrameLost ==
  FreeFrames \union UNION {Frames(b) : b \in Live} = UsableFrames

\* Context c is working on the data of tree i.
WorksOn(c, i) ==
  \/ pc[c] = "locked" /\ i = index[c]
  \/ pc[c] = "dealloc" /\ i = TreeOf(freeing[c])
  \/ pc[c] = "init_store" /\ i = nextTree

\* No two contexts work on the same tree at the same time, whether they came
\* through try_lock (allocate) or through lock (deallocate, init_rest).
MutualExclusion ==
  \A c, d \in Contexts, i \in TreeIndex : WorksOn(c, i) /\ WorksOn(d, i) => c = d

\* allocate gives up only if every tree had no fitting block at some moment of
\* this call: a tree that was merely busy is never the reason for None.
NoneOnlyIfEveryTreeLacked ==
  [][\A c \in Contexts :
       pc[c] = "pick" /\ pc'[c] = "idle" => lacked[c] = TreeIndex]_vars

-----------------------------------------------------------------------------
(* The inductive invariant behind NoDoubleAllocation, NoFrameLost,         *)
(* MutualExclusion and NoneOnlyIfEveryTreeLacked, stated tree by tree.     *)

Cover(b) == LocalFrames(LocalPtr(b), b.order)
InFlight == {c \in Contexts : freeing[c] # NoBlock}
Apart(a, b) == TreeOf(a) = TreeOf(b) => Cover(a) \intersect Cover(b) = {}

\* A block out of the trees lies inside an existing tree, its frames are usable
\* and none of them is free.
OutOfTree(b) ==
  /\ TreeOf(b) \in exists
  /\ Cover(b) \subseteq NewTree(Localize(TreeOf(b), Usable))
  /\ Cover(b) \intersect free[TreeOf(b)] = {}

LockInv == \A i \in TreeIndex, c \in Contexts : lock[i] = c <=> WorksOn(c, i)

PhaseInv ==
  \A c \in Contexts :
    /\ freeing[c] # NoBlock <=> pc[c] \in {"dealloc_lock", "dealloc"}
    /\ pc[c] = "init_store" => c = BootContext /\ nextTree <= Gibibytes
    /\ pc[c] \notin Allocating => tried[c] = AllUntried

TreesInv ==
  /\ nextTree \in PrelimTrees..NumTrees
  /\ exists = 0..(nextTree - 1)

BlocksInv ==
  /\ \A b \in allocated : OutOfTree(b)
  /\ \A c \in InFlight : OutOfTree(freeing[c])

DisjointInv ==
  /\ \A a, b \in allocated : a # b => Apart(a, b)
  /\ \A c \in InFlight, b \in allocated : Apart(freeing[c], b)
  /\ \A c, d \in InFlight : c # d => Apart(freeing[c], freeing[d])

ConservedInv ==
  \A i \in exists :
    /\ free[i] \subseteq NewTree(Localize(i, Usable))
    /\ \A f \in NewTree(Localize(i, Usable)) \ free[i] :
         \/ \E b \in allocated : TreeOf(b) = i /\ f \in Cover(b)
         \/ \E c \in InFlight : TreeOf(freeing[c]) = i /\ f \in Cover(freeing[c])

TriedInv ==
  \A c \in Contexts, i \in TreeIndex :
    pc[c] \in Allocating /\ tried[c][i] = "Tried" => i \in lacked[c]

\* The history is up to date: it holds what the call in progress lacks now.
LackedInv ==
  \A c \in Contexts : IF pc[c] \in Allocating THEN Lacking(c) \subseteq lacked[c]
                                             ELSE lacked[c] = {}

IInv == /\ TypeOK /\ LockInv /\ PhaseInv /\ TreesInv
        /\ BlocksInv /\ DisjointInv /\ ConservedInv /\ TriedInv /\ LackedInv

-----------------------------------------------------------------------------
(* The allocator implements FrameAllocator.                                *)

RequestOf(c) ==
  CASE pc[c] \in Allocating                  -> [op |-> "allocate", order |-> order[c]]
    [] pc[c] \in {"dealloc_lock", "dealloc"} -> [op |-> "deallocate", block |-> freeing[c]]
    [] OTHER                                 -> [op |-> "none"]

TreeFrames(i) == {i * TreeSize + f : f \in NewTree(Localize(i, Usable))}

Abstract == INSTANCE FrameAllocator WITH
  Regions <- TreeIndex, RegionSize <- TreeSize, Orders <- Order,
  RegionFrames <- TreeFrames, InitialRegions <- 0..(PrelimTrees - 1),
  regions <- exists, free <- FreeFrames, held <- allocated,
  request <- [c \in Contexts |-> RequestOf(c)], lacked <- lacked

\* Every behaviour of the allocator is one of the atomic allocator: the search
\* with try_lock, the locks and the split into trees cannot be observed by
\* callers, except that a request may fail when the trees lacked room at
\* different moments.
ImplementsFrameAllocator == Abstract!ASpec
=============================================================================
