---------------------- MODULE PhysicalAllocatorProofs ----------------------
(***************************************************************************)
(* Proofs about PhysicalAllocator, for every number of contexts and trees, *)
(* every number of orders and every memory map.                            *)
(***************************************************************************)
EXTENDS PhysicalAllocator, FiniteSetTheorems, TLAPS

(***************************************************************************)
(* Arithmetic of sizes and addresses.                                      *)
(***************************************************************************)

\* A block has at least one frame: its size, `1 << order', is a positive
\* natural number.
LEMMA PowerOfTwo == ASSUME NEW n \in Nat PROVE 2^n \in Nat \ {0}
<1>1. IsFiniteSet(1..n) /\ Cardinality(1..n) = n
  BY FS_Interval
<1>2. IsFiniteSet(SUBSET (1..n)) /\ Cardinality(SUBSET (1..n)) = 2^n
  BY <1>1, FS_SUBSET
<1>3. SUBSET (1..n) # {}
  OBVIOUS
<1> QED
  BY <1>2, <1>3, FS_CardinalityType, FS_EmptySet

\* The size of a tree is a positive natural number.
LEMMA TreeSizePositive == TreeSize \in Nat \ {0}
  BY PowerOfTwo, OrdersAssumption DEF TreeSize, MaxOrder

\* Dividing an address by the size of a tree, as deallocate does, undoes the
\* sum that allocate computes.
LEMMA Decode ==
  ASSUME NEW S \in Nat \ {0}, NEW i \in Nat, NEW l \in 0..(S - 1)
  PROVE  (l + i * S) \div S = i /\ (l + i * S) % S = l
  OBVIOUS

\* Every address splits into a tree and an offset in that tree.
LEMMA Split ==
  ASSUME NEW S \in Nat \ {0}, NEW a \in Nat
  PROVE  /\ a \div S \in Nat
         /\ a % S \in 0..(S - 1)
         /\ a = (a \div S) * S + (a % S)
<1>1. a \div S \in Nat
  OBVIOUS
<1>2. a % S \in 0..(S - 1)
  OBVIOUS
<1>3. a = (a \div S) * S + (a % S)
  OBVIOUS
<1> QED
  BY <1>1, <1>2, <1>3

\* The block that allocate builds lies in the tree it was taken from, at the
\* offset the tree returned.
LEMMA BuiltBlock ==
  ASSUME NEW i \in TreeIndex, NEW s \in Local, NEW k \in Order,
         NEW b, b = [addr |-> s + i * TreeSize, order |-> k]
  PROVE  b \in Block /\ TreeOf(b) = i /\ Cover(b) = LocalFrames(s, k)
<1>1. i \in Nat /\ s \in 0..(TreeSize - 1)
  BY TreesAssumption DEF TreeIndex, Local
<1>2. b.addr = s + i * TreeSize /\ b.order = k
  OBVIOUS
<1>3. TreeOf(b) = i /\ LocalPtr(b) = s
  BY <1>1, <1>2, TreeSizePositive, Decode DEF TreeOf, LocalPtr
<1>4. s + i * TreeSize \in Nat
  BY <1>1, TreeSizePositive
<1>5. b \in Block
  BY <1>4 DEF Block
<1> QED
  BY <1>2, <1>3, <1>5 DEF Cover

\* The value that stands for the absence of a block is not a block.
LEMMA NoBlockIsNoBlock == NoBlock \notin Block
  BY DEF NoBlock, Block

\* A tree made from a memory map holds only local frames.
LEMMA NewTreeLocal == ASSUME NEW i PROVE NewTree(Localize(i, Usable)) \subseteq Local
  BY DEF NewTree

(***************************************************************************)
(* Initial states.                                                         *)
(***************************************************************************)

\* After init_prelim the inductive invariant holds.
LEMMA InitInv == Init => IInv
<1> SUFFICES ASSUME Init PROVE IInv
  OBVIOUS
<1> USE DEF Init
<1>1. TypeOK
  <2>1. free \in [TreeIndex -> SUBSET Local]
    BY NewTreeLocal
  <2>2. 0 \in TreeIndex /\ 0 \in Order
    BY TreesAssumption, OrdersAssumption DEF TreeIndex, Order, MaxOrder
  <2>3. exists \subseteq TreeIndex
    BY TreesAssumption DEF TreeIndex
  <2>4. AllUntried \in [TreeIndex -> TryState]
    BY DEF AllUntried, TryState
  <2>5. nextTree \in Nat
    BY TreesAssumption
  <2> QED
    BY <2>1, <2>2, <2>3, <2>4, <2>5 DEF TypeOK, PC
<1>2. LockInv
  BY ContextsAssumption DEF LockInv, WorksOn
<1>3. PhaseInv
  BY DEF PhaseInv, Allocating
<1>4. TreesInv
  BY TreesAssumption DEF TreesInv
<1>5. InFlight = {}
  BY DEF InFlight
<1>6. BlocksInv
  BY <1>5 DEF BlocksInv
<1>7. DisjointInv
  BY <1>5 DEF DisjointInv
<1>8. ConservedInv
  <2> SUFFICES ASSUME NEW i \in exists PROVE free[i] = NewTree(Localize(i, Usable))
    BY DEF ConservedInv
  <2>1. i \in TreeIndex /\ i < PrelimTrees
    BY TreesAssumption DEF TreeIndex
  <2> QED
    BY <2>1
<1>9. TriedInv
  BY DEF TriedInv, Allocating
<1>10. LackedInv
  BY DEF LackedInv, Allocating
<1> QED
  BY <1>1, <1>2, <1>3, <1>4, <1>6, <1>7, <1>8, <1>9, <1>10 DEF IInv

(***************************************************************************)
(* Steps: one lemma per conjunct of the invariant, one step per action.    *)
(***************************************************************************)

\* Which disjuncts a step of the allocator may be.
LEMMA StepCases ==
  ASSUME Next
  PROVE  \E c \in Contexts :
           \/ \E k \in Order : AllocateCall(c, k)
           \/ AllocateLock(c)
           \/ AllocateBusy(c)
           \/ AllocateNone(c)
           \/ AllocateTake(c)
           \/ AllocateEmpty(c)
           \/ \E b \in allocated : DeallocateCall(c, b)
           \/ DeallocateLock(c)
           \/ DeallocateTree(c)
           \/ InitRestLock(c)
           \/ InitRestStore(c)
  BY DEF Next, Allocate, Deallocate, InitRest

\* The type invariant is preserved.
LEMMA TypeStep == IInv /\ [Next]_vars => TypeOK'
<1> SUFFICES ASSUME IInv, [Next]_vars PROVE TypeOK'
  OBVIOUS
<1> USE DEF TypeOK
<1>0. CASE UNCHANGED vars
  BY <1>0 DEF IInv, vars
<1>a. CASE Next
  <2>1. lacked' \in [Contexts -> SUBSET TreeIndex]
    BY <1>a DEF Next, Observe, Lacking, IInv
  <2>2. PICK c \in Contexts :
           \/ \E k \in Order : AllocateCall(c, k)
           \/ AllocateLock(c)
           \/ AllocateBusy(c)
           \/ AllocateNone(c)
           \/ AllocateTake(c)
           \/ AllocateEmpty(c)
           \/ \E b \in allocated : DeallocateCall(c, b)
           \/ DeallocateLock(c)
           \/ DeallocateTree(c)
           \/ InitRestLock(c)
           \/ InitRestStore(c)
    BY <1>a, StepCases
  <2> USE DEF IInv, PC, Allocating
  <2>3. ASSUME NEW k \in Order, AllocateCall(c, k) PROVE TypeOK'
    BY <2>1, <2>3 DEF AllocateCall
  <2>4. CASE AllocateLock(c)
    BY <2>1, <2>4 DEF AllocateLock
  <2>4b. CASE AllocateBusy(c)
    BY <2>1, <2>4b DEF AllocateBusy, TryState
  <2>5. CASE AllocateNone(c)
    BY <2>1, <2>5 DEF AllocateNone, AllUntried, TryState
  <2>6. CASE AllocateTake(c)
    <3>1. PICK s \in Fitting(index[c], order[c]) :
            /\ free' = [free EXCEPT ![index[c]] = @ \ LocalFrames(s, order[c])]
            /\ allocated' = allocated \union
                 {[addr |-> s + index[c] * TreeSize, order |-> order[c]]}
      BY <2>6 DEF AllocateTake
    <3>2. s \in Local
      BY DEF Fitting
    <3>3. allocated' \subseteq Block
      BY <3>1, <3>2, BuiltBlock
    <3>4. free' \in [TreeIndex -> SUBSET Local]
      BY <3>1
    <3> QED
      BY <2>1, <2>6, <3>3, <3>4 DEF AllocateTake, AllUntried, TryState
  <2>7. CASE AllocateEmpty(c)
    BY <2>1, <2>7 DEF AllocateEmpty, TryState
  <2>8. ASSUME NEW b \in allocated, DeallocateCall(c, b) PROVE TypeOK'
    BY <2>1, <2>8 DEF DeallocateCall
  <2>9. CASE DeallocateLock(c)
    BY <2>1, <2>9 DEF DeallocateLock
  <2>10. CASE DeallocateTree(c)
    <3>1. OutOfTree(freeing[c])
      BY <2>10 DEF DeallocateTree, PhaseInv, BlocksInv, InFlight
    <3>2. Cover(freeing[c]) \subseteq Local
      BY <3>1, NewTreeLocal DEF OutOfTree
    <3>3. free' \in [TreeIndex -> SUBSET Local]
      BY <2>10, <3>2 DEF DeallocateTree, Cover
    <3> QED
      BY <2>1, <2>10, <3>3 DEF DeallocateTree
  <2>11. CASE InitRestLock(c)
    BY <2>1, <2>11 DEF InitRestLock
  <2>12. CASE InitRestStore(c)
    <3>1. nextTree \in TreeIndex /\ nextTree + 1 \in Nat
      BY <2>12, TreesAssumption DEF InitRestStore, PhaseInv, TreeIndex
    <3>2. free' \in [TreeIndex -> SUBSET Local]
      BY <2>12, NewTreeLocal DEF InitRestStore
    <3> QED
      BY <2>1, <2>12, <3>1, <3>2 DEF InitRestStore
  <2> QED
    BY <2>2, <2>3, <2>4, <2>4b, <2>5, <2>6, <2>7, <2>8, <2>9, <2>10, <2>11, <2>12
<1> QED
  BY <1>0, <1>a

\* Only the context that works on a tree holds its lock.
LEMMA LockStep == IInv /\ [Next]_vars => LockInv'
<1> SUFFICES ASSUME IInv, [Next]_vars PROVE LockInv'
  OBVIOUS
<1> USE DEF IInv
<1>0. CASE UNCHANGED vars
  BY <1>0 DEF vars, TypeOK, PhaseInv, LockInv, WorksOn, PC, Allocating
<1>n. CASE Next
  <2>0. PICK c \in Contexts : Allocate(c) \/ Deallocate(c) \/ InitRest(c)
    BY <1>n DEF Next
  <2>1. ASSUME NEW k \in Order, AllocateCall(c, k) PROVE LockInv'
    BY <2>1, ContextsAssumption, NoBlockIsNoBlock DEF AllocateCall, TypeOK, PhaseInv, LockInv, WorksOn, PC, Allocating
  <2>2. CASE AllocateLock(c)
    BY <2>2, ContextsAssumption, NoBlockIsNoBlock DEF AllocateLock, TypeOK, PhaseInv, LockInv, WorksOn, PC, Allocating
  <2>3. CASE AllocateBusy(c)
    BY <2>3, ContextsAssumption, NoBlockIsNoBlock DEF AllocateBusy, TypeOK, PhaseInv, LockInv, WorksOn, PC, Allocating
  <2>4. CASE AllocateNone(c)
    BY <2>4, ContextsAssumption, NoBlockIsNoBlock DEF AllocateNone, TypeOK, PhaseInv, LockInv, WorksOn, PC, Allocating
  <2>5. CASE AllocateTake(c)
    BY <2>5, ContextsAssumption, NoBlockIsNoBlock DEF AllocateTake, TypeOK, PhaseInv, LockInv, WorksOn, PC, Allocating
  <2>6. CASE AllocateEmpty(c)
    BY <2>6, ContextsAssumption, NoBlockIsNoBlock DEF AllocateEmpty, TypeOK, PhaseInv, LockInv, WorksOn, PC, Allocating
  <2>7. ASSUME NEW b \in allocated, DeallocateCall(c, b) PROVE LockInv'
    BY <2>7, ContextsAssumption, NoBlockIsNoBlock DEF DeallocateCall, TypeOK, PhaseInv, LockInv, WorksOn, PC, Allocating
  <2>8. CASE DeallocateLock(c)
    BY <2>8, ContextsAssumption, NoBlockIsNoBlock DEF DeallocateLock, TypeOK, PhaseInv, LockInv, WorksOn, PC, Allocating
  <2>9. CASE DeallocateTree(c)
    BY <2>9, ContextsAssumption, NoBlockIsNoBlock DEF DeallocateTree, TypeOK, PhaseInv, LockInv, WorksOn, PC, Allocating
  <2>10. CASE InitRestLock(c)
    BY <2>10, ContextsAssumption, NoBlockIsNoBlock DEF InitRestLock, TypeOK, PhaseInv, LockInv, WorksOn, PC, Allocating
  <2>11. CASE InitRestStore(c)
    BY <2>11, ContextsAssumption, NoBlockIsNoBlock DEF InitRestStore, TypeOK, PhaseInv, LockInv, WorksOn, PC, Allocating
  <2> QED
    BY <2>0, <2>1, <2>2, <2>3, <2>4, <2>5, <2>6, <2>7, <2>8, <2>9, <2>10, <2>11 DEF Allocate, Deallocate, InitRest
<1> QED
  BY <1>0, <1>n

\* A context's locals agree with its program counter.
LEMMA PhaseStep == IInv /\ [Next]_vars => PhaseInv'
<1> SUFFICES ASSUME IInv, [Next]_vars PROVE PhaseInv'
  OBVIOUS
<1> USE DEF IInv
<1>0. CASE UNCHANGED vars
  BY <1>0 DEF vars, TypeOK, PhaseInv, PC, Allocating
<1>n. CASE Next
  <2>0. PICK c \in Contexts : Allocate(c) \/ Deallocate(c) \/ InitRest(c)
    BY <1>n DEF Next
  <2>1. ASSUME NEW k \in Order, AllocateCall(c, k) PROVE PhaseInv'
    BY <2>1, NoBlockIsNoBlock DEF AllocateCall, TypeOK, PhaseInv, PC, Allocating
  <2>2. CASE AllocateLock(c)
    BY <2>2, NoBlockIsNoBlock DEF AllocateLock, TypeOK, PhaseInv, PC, Allocating
  <2>3. CASE AllocateBusy(c)
    BY <2>3, NoBlockIsNoBlock DEF AllocateBusy, TypeOK, PhaseInv, PC, Allocating
  <2>4. CASE AllocateNone(c)
    BY <2>4, NoBlockIsNoBlock DEF AllocateNone, TypeOK, PhaseInv, PC, Allocating
  <2>5. CASE AllocateTake(c)
    BY <2>5, NoBlockIsNoBlock DEF AllocateTake, TypeOK, PhaseInv, PC, Allocating
  <2>6. CASE AllocateEmpty(c)
    BY <2>6, NoBlockIsNoBlock DEF AllocateEmpty, TypeOK, PhaseInv, PC, Allocating
  <2>7. ASSUME NEW b \in allocated, DeallocateCall(c, b) PROVE PhaseInv'
    BY <2>7, NoBlockIsNoBlock DEF DeallocateCall, TypeOK, PhaseInv, PC, Allocating
  <2>8. CASE DeallocateLock(c)
    BY <2>8, NoBlockIsNoBlock DEF DeallocateLock, TypeOK, PhaseInv, PC, Allocating
  <2>9. CASE DeallocateTree(c)
    BY <2>9, NoBlockIsNoBlock DEF DeallocateTree, TypeOK, PhaseInv, PC, Allocating
  <2>10. CASE InitRestLock(c)
    BY <2>10, NoBlockIsNoBlock DEF InitRestLock, TypeOK, PhaseInv, PC, Allocating
  <2>11. CASE InitRestStore(c)
    BY <2>11, NoBlockIsNoBlock DEF InitRestStore, TypeOK, PhaseInv, PC, Allocating
  <2> QED
    BY <2>0, <2>1, <2>2, <2>3, <2>4, <2>5, <2>6, <2>7, <2>8, <2>9, <2>10, <2>11 DEF Allocate, Deallocate, InitRest
<1> QED
  BY <1>0, <1>n

\* init_rest fills the slots of the array one after the other.
LEMMA TreesStep == IInv /\ [Next]_vars => TreesInv'
<1> SUFFICES ASSUME IInv, [Next]_vars PROVE TreesInv'
  OBVIOUS
<1> USE DEF IInv
<1>0. CASE UNCHANGED vars
  BY <1>0 DEF vars, TypeOK, TreesInv, PhaseInv
<1>n. CASE Next
  <2>0. PICK c \in Contexts : Allocate(c) \/ Deallocate(c) \/ InitRest(c)
    BY <1>n DEF Next
  <2>1. ASSUME NEW k \in Order, AllocateCall(c, k) PROVE TreesInv'
    BY <2>1, TreesAssumption DEF AllocateCall, TypeOK, TreesInv, PhaseInv
  <2>2. CASE AllocateLock(c)
    BY <2>2, TreesAssumption DEF AllocateLock, TypeOK, TreesInv, PhaseInv
  <2>3. CASE AllocateBusy(c)
    BY <2>3, TreesAssumption DEF AllocateBusy, TypeOK, TreesInv, PhaseInv
  <2>4. CASE AllocateNone(c)
    BY <2>4, TreesAssumption DEF AllocateNone, TypeOK, TreesInv, PhaseInv
  <2>5. CASE AllocateTake(c)
    BY <2>5, TreesAssumption DEF AllocateTake, TypeOK, TreesInv, PhaseInv
  <2>6. CASE AllocateEmpty(c)
    BY <2>6, TreesAssumption DEF AllocateEmpty, TypeOK, TreesInv, PhaseInv
  <2>7. ASSUME NEW b \in allocated, DeallocateCall(c, b) PROVE TreesInv'
    BY <2>7, TreesAssumption DEF DeallocateCall, TypeOK, TreesInv, PhaseInv
  <2>8. CASE DeallocateLock(c)
    BY <2>8, TreesAssumption DEF DeallocateLock, TypeOK, TreesInv, PhaseInv
  <2>9. CASE DeallocateTree(c)
    BY <2>9, TreesAssumption DEF DeallocateTree, TypeOK, TreesInv, PhaseInv
  <2>10. CASE InitRestLock(c)
    BY <2>10, TreesAssumption DEF InitRestLock, TypeOK, TreesInv, PhaseInv
  <2>11. CASE InitRestStore(c)
    BY <2>11, TreesAssumption DEF InitRestStore, TypeOK, TreesInv, PhaseInv
  <2> QED
    BY <2>0, <2>1, <2>2, <2>3, <2>4, <2>5, <2>6, <2>7, <2>8, <2>9, <2>10, <2>11 DEF Allocate, Deallocate, InitRest
<1> QED
  BY <1>0, <1>n

\* The blocks out of the trees stay inside the trees and are not free.
LEMMA BlocksStep == IInv /\ [Next]_vars => BlocksInv'
<1> SUFFICES ASSUME IInv, [Next]_vars PROVE BlocksInv'
  OBVIOUS
<1> USE DEF IInv
<1>0. CASE UNCHANGED vars
  BY <1>0 DEF vars, TypeOK, BlocksInv, OutOfTree, InFlight
<1>n. CASE Next
  <2>0. PICK c \in Contexts : Allocate(c) \/ Deallocate(c) \/ InitRest(c)
    BY <1>n DEF Next
  <2>1. ASSUME NEW k \in Order, AllocateCall(c, k) PROVE BlocksInv'
    BY <2>1 DEF AllocateCall, TypeOK, BlocksInv, OutOfTree, InFlight
  <2>2. CASE AllocateLock(c)
    BY <2>2 DEF AllocateLock, TypeOK, BlocksInv, OutOfTree, InFlight
  <2>3. CASE AllocateBusy(c)
    BY <2>3 DEF AllocateBusy, TypeOK, BlocksInv, OutOfTree, InFlight
  <2>4. CASE AllocateNone(c)
    BY <2>4 DEF AllocateNone, TypeOK, BlocksInv, OutOfTree, InFlight
  <2>5. CASE AllocateTake(c)
    <3>1. PICK s \in Fitting(index[c], order[c]) :
            /\ free' = [free EXCEPT ![index[c]] = free[index[c]] \ LocalFrames(s, order[c])]
            /\ allocated' = allocated \union
                 {[addr |-> s + index[c] * TreeSize, order |-> order[c]]}
      BY <2>5 DEF AllocateTake
    <3>n. PICK n : n = [addr |-> s + index[c] * TreeSize, order |-> order[c]]
      OBVIOUS
    <3>2. index[c] \in exists /\ s \in Local /\ LocalFrames(s, order[c]) \subseteq free[index[c]]
      BY DEF Fitting
    <3>3. n \in Block /\ TreeOf(n) = index[c] /\ Cover(n) = LocalFrames(s, order[c])
      BY <3>2, <3>n, BuiltBlock DEF TypeOK
    <3>4. exists' = exists /\ InFlight' = InFlight /\ freeing' = freeing
      BY <2>5 DEF AllocateTake, InFlight
    <3>5. free' \in [TreeIndex -> SUBSET Local] /\ \A i \in TreeIndex : free'[i] \subseteq free[i]
      BY <3>1 DEF TypeOK
    <3>6. \A b \in Block : OutOfTree(b) => OutOfTree(b)'
      BY <3>4, <3>5 DEF OutOfTree, TypeOK
    <3>7. OutOfTree(n)'
      BY <3>1, <3>2, <3>3, <3>4 DEF OutOfTree, TypeOK, ConservedInv
    <3>8. allocated' = allocated \union {n}
      BY <3>1, <3>n
    <3> QED
      BY <3>4, <3>6, <3>7, <3>8 DEF BlocksInv, TypeOK, InFlight
  <2>6. CASE AllocateEmpty(c)
    BY <2>6 DEF AllocateEmpty, TypeOK, BlocksInv, OutOfTree, InFlight
  <2>7. ASSUME NEW b \in allocated, DeallocateCall(c, b) PROVE BlocksInv'
    <3>1. \A x : OutOfTree(x)' <=> OutOfTree(x)
      BY <2>7 DEF DeallocateCall, OutOfTree
    <3>2. InFlight' = InFlight \union {c} /\ freeing'[c] = b
          /\ \A d \in InFlight' \ {c} : freeing'[d] = freeing[d] /\ d \in InFlight
      BY <2>7, NoBlockIsNoBlock DEF DeallocateCall, InFlight, TypeOK
    <3> QED
      BY <2>7, <3>1, <3>2 DEF DeallocateCall, BlocksInv
  <2>8. CASE DeallocateLock(c)
    BY <2>8 DEF DeallocateLock, TypeOK, BlocksInv, OutOfTree, InFlight
  <2>9. CASE DeallocateTree(c)
    <3>1. c \in InFlight /\ freeing[c] \in Block
      BY <2>9 DEF DeallocateTree, InFlight, PhaseInv, TypeOK
    <3>2. InFlight' = InFlight \ {c} /\ \A d \in InFlight' : freeing'[d] = freeing[d]
      BY <2>9 DEF DeallocateTree, InFlight, TypeOK
    <3>3. \A x : OutOfTree(x) /\ Apart(freeing[c], x) => OutOfTree(x)'
      BY <2>9 DEF DeallocateTree, OutOfTree, Apart, Cover, TypeOK
    <3>4. \A b \in allocated : Apart(freeing[c], b)
      BY <3>1 DEF DisjointInv
    <3>5. \A d \in InFlight' : Apart(freeing[c], freeing[d])
      BY <3>1, <3>2 DEF DisjointInv
    <3> QED
      BY <2>9, <3>2, <3>3, <3>4, <3>5 DEF DeallocateTree, BlocksInv
  <2>10. CASE InitRestLock(c)
    BY <2>10 DEF InitRestLock, TypeOK, BlocksInv, OutOfTree, InFlight
  <2>11. CASE InitRestStore(c)
    <3>1. nextTree \notin exists /\ exists' = exists \union {nextTree}
          /\ InFlight' = InFlight /\ freeing' = freeing /\ allocated' = allocated
      BY <2>11 DEF InitRestStore, TreesInv, InFlight
    <3>2. \A i \in exists : free'[i] = free[i]
      BY <2>11, <3>1 DEF InitRestStore, TypeOK
    <3>3. \A x : OutOfTree(x) => OutOfTree(x)'
      BY <3>1, <3>2 DEF OutOfTree
    <3> QED
      BY <3>1, <3>3 DEF BlocksInv
  <2> QED
    BY <2>0, <2>1, <2>2, <2>3, <2>4, <2>5, <2>6, <2>7, <2>8, <2>9, <2>10, <2>11 DEF Allocate, Deallocate, InitRest
<1> QED
  BY <1>0, <1>n

\* No two blocks out of the trees share a frame.
LEMMA DisjointStep == IInv /\ [Next]_vars => DisjointInv'
<1> SUFFICES ASSUME IInv, [Next]_vars PROVE DisjointInv'
  OBVIOUS
<1> USE DEF IInv
<1>0. CASE UNCHANGED vars
  BY <1>0 DEF vars, DisjointInv, InFlight, Apart
<1>n. CASE Next
  <2>0. PICK c \in Contexts : Allocate(c) \/ Deallocate(c) \/ InitRest(c)
    BY <1>n DEF Next
  <2>1. ASSUME NEW k \in Order, AllocateCall(c, k) PROVE DisjointInv'
    BY <2>1 DEF AllocateCall, DisjointInv, InFlight, Apart
  <2>2. CASE AllocateLock(c)
    BY <2>2 DEF AllocateLock, DisjointInv, InFlight, Apart
  <2>3. CASE AllocateBusy(c)
    BY <2>3 DEF AllocateBusy, DisjointInv, InFlight, Apart
  <2>4. CASE AllocateNone(c)
    BY <2>4 DEF AllocateNone, DisjointInv, InFlight, Apart
  <2>5. CASE AllocateTake(c)
    <3>1. PICK s \in Fitting(index[c], order[c]) :
            /\ free' = [free EXCEPT ![index[c]] = free[index[c]] \ LocalFrames(s, order[c])]
            /\ allocated' = allocated \union
                 {[addr |-> s + index[c] * TreeSize, order |-> order[c]]}
      BY <2>5 DEF AllocateTake
    <3>n. PICK n : n = [addr |-> s + index[c] * TreeSize, order |-> order[c]]
      OBVIOUS
    <3>2. index[c] \in exists /\ s \in Local /\ LocalFrames(s, order[c]) \subseteq free[index[c]]
      BY DEF Fitting
    <3>3. n \in Block /\ TreeOf(n) = index[c] /\ Cover(n) = LocalFrames(s, order[c])
      BY <3>2, <3>n, BuiltBlock DEF TypeOK
    <3>4. freeing' = freeing /\ InFlight' = InFlight /\ allocated' = allocated \union {n}
      BY <2>5, <3>1, <3>n DEF AllocateTake, InFlight
    <3>5. \A x : OutOfTree(x) => Apart(x, n) /\ Apart(n, x)
      BY <3>2, <3>3 DEF OutOfTree, Apart
    <3>6. /\ \A x \in allocated : Apart(x, n) /\ Apart(n, x)
          /\ \A d \in InFlight : Apart(freeing[d], n)
      BY <3>5 DEF BlocksInv
    <3> QED
      BY <3>4, <3>6 DEF DisjointInv
  <2>6. CASE AllocateEmpty(c)
    BY <2>6 DEF AllocateEmpty, DisjointInv, InFlight, Apart
  <2>7. ASSUME NEW b \in allocated, DeallocateCall(c, b) PROVE DisjointInv'
    <3>1. c \notin InFlight
      BY <2>7 DEF DeallocateCall, InFlight, PhaseInv
    <3>2. InFlight' = InFlight \union {c} /\ freeing'[c] = b /\ allocated' = allocated \ {b}
          /\ \A d \in InFlight : freeing'[d] = freeing[d]
      BY <2>7, <3>1, NoBlockIsNoBlock DEF DeallocateCall, InFlight, TypeOK
    <3>3. \A x, y : Apart(x, y) => Apart(y, x)
      BY DEF Apart
    <3> QED
      BY <3>1, <3>2, <3>3 DEF DisjointInv
  <2>8. CASE DeallocateLock(c)
    BY <2>8 DEF DeallocateLock, DisjointInv, InFlight, Apart
  <2>9. CASE DeallocateTree(c)
    <3>1. InFlight' \subseteq InFlight /\ \A d \in InFlight' : freeing'[d] = freeing[d]
      BY <2>9 DEF DeallocateTree, InFlight, TypeOK
    <3> QED
      BY <2>9, <3>1 DEF DeallocateTree, DisjointInv
  <2>10. CASE InitRestLock(c)
    BY <2>10 DEF InitRestLock, DisjointInv, InFlight, Apart
  <2>11. CASE InitRestStore(c)
    BY <2>11 DEF InitRestStore, DisjointInv, InFlight, Apart
  <2> QED
    BY <2>0, <2>1, <2>2, <2>3, <2>4, <2>5, <2>6, <2>7, <2>8, <2>9, <2>10, <2>11 DEF Allocate, Deallocate, InitRest
<1> QED
  BY <1>0, <1>n

\* No usable frame is lost, and none appears from nowhere.
LEMMA ConservedStep == IInv /\ [Next]_vars => ConservedInv'
<1> SUFFICES ASSUME IInv, [Next]_vars PROVE ConservedInv'
  OBVIOUS
<1> USE DEF IInv
<1>0. CASE UNCHANGED vars
  BY <1>0 DEF vars, ConservedInv, InFlight
<1>n. CASE Next
  <2>0. PICK c \in Contexts : Allocate(c) \/ Deallocate(c) \/ InitRest(c)
    BY <1>n DEF Next
  <2>1. ASSUME NEW k \in Order, AllocateCall(c, k) PROVE ConservedInv'
    BY <2>1 DEF AllocateCall, ConservedInv, InFlight
  <2>2. CASE AllocateLock(c)
    BY <2>2 DEF AllocateLock, ConservedInv, InFlight
  <2>3. CASE AllocateBusy(c)
    BY <2>3 DEF AllocateBusy, ConservedInv, InFlight
  <2>4. CASE AllocateNone(c)
    BY <2>4 DEF AllocateNone, ConservedInv, InFlight
  <2>5. CASE AllocateTake(c)
    <3>1. PICK s \in Fitting(index[c], order[c]) :
            /\ free' = [free EXCEPT ![index[c]] = free[index[c]] \ LocalFrames(s, order[c])]
            /\ allocated' = allocated \union
                 {[addr |-> s + index[c] * TreeSize, order |-> order[c]]}
      BY <2>5 DEF AllocateTake
    <3>n. PICK n : n = [addr |-> s + index[c] * TreeSize, order |-> order[c]]
      OBVIOUS
    <3>2. index[c] \in exists /\ s \in Local /\ LocalFrames(s, order[c]) \subseteq free[index[c]]
      BY DEF Fitting
    <3>3. n \in Block /\ TreeOf(n) = index[c] /\ Cover(n) = LocalFrames(s, order[c])
      BY <3>2, <3>n, BuiltBlock DEF TypeOK
    <3>4. exists' = exists /\ freeing' = freeing /\ InFlight' = InFlight
          /\ allocated' = allocated \union {n}
      BY <2>5, <3>1, <3>n DEF AllocateTake, InFlight
    <3> SUFFICES ASSUME NEW i \in exists
                 PROVE  /\ free'[i] \subseteq NewTree(Localize(i, Usable))
                        /\ \A f \in NewTree(Localize(i, Usable)) \ free'[i] :
                             \/ \E b \in allocated \union {n} : TreeOf(b) = i /\ f \in Cover(b)
                             \/ \E d \in InFlight : TreeOf(freeing[d]) = i
                                                    /\ f \in Cover(freeing[d])
      BY <3>4 DEF ConservedInv
    <3>5. i \in TreeIndex
      BY DEF TypeOK
    <3>6. free'[i] \subseteq free[i] /\ (free[i] # free'[i] => i = index[c])
          /\ \A f \in free[i] \ free'[i] : f \in Cover(n)
      BY <3>1, <3>3, <3>5 DEF TypeOK
    <3>7. free'[i] \subseteq NewTree(Localize(i, Usable))
      BY <3>6 DEF ConservedInv
    <3> QED
      BY <3>3, <3>6, <3>7 DEF ConservedInv
  <2>6. CASE AllocateEmpty(c)
    BY <2>6 DEF AllocateEmpty, ConservedInv, InFlight
  <2>7. ASSUME NEW b \in allocated, DeallocateCall(c, b) PROVE ConservedInv'
    <3>1. c \notin InFlight
      BY <2>7 DEF DeallocateCall, InFlight, PhaseInv
    <3>2. InFlight' = InFlight \union {c} /\ freeing'[c] = b /\ allocated' = allocated \ {b}
          /\ \A d \in InFlight : freeing'[d] = freeing[d]
      BY <2>7, <3>1, NoBlockIsNoBlock DEF DeallocateCall, InFlight, TypeOK
    <3>3. exists' = exists /\ free' = free
      BY <2>7 DEF DeallocateCall
    <3> QED
      BY <3>2, <3>3 DEF ConservedInv
  <2>8. CASE DeallocateLock(c)
    BY <2>8 DEF DeallocateLock, ConservedInv, InFlight
  <2>9. CASE DeallocateTree(c)
    <3>1. c \in InFlight /\ OutOfTree(freeing[c])
      BY <2>9 DEF DeallocateTree, InFlight, PhaseInv, BlocksInv
    <3>2. InFlight' = InFlight \ {c} /\ allocated' = allocated /\ exists' = exists
          /\ \A d \in InFlight' : freeing'[d] = freeing[d]
      BY <2>9 DEF DeallocateTree, InFlight, TypeOK
    <3>3. \A i \in exists : free'[i] = free[i] \union
                               (IF i = TreeOf(freeing[c]) THEN Cover(freeing[c]) ELSE {})
      BY <2>9 DEF DeallocateTree, Cover, TypeOK
    <3> QED
      BY <3>1, <3>2, <3>3 DEF ConservedInv, OutOfTree
  <2>10. CASE InitRestLock(c)
    BY <2>10 DEF InitRestLock, ConservedInv, InFlight
  <2>11. CASE InitRestStore(c)
    <3>1. nextTree \in TreeIndex
      BY <2>11, TreesAssumption DEF InitRestStore, PhaseInv, TypeOK, TreeIndex
    <3>2. nextTree \notin exists /\ exists' = exists \union {nextTree}
          /\ InFlight' = InFlight /\ freeing' = freeing /\ allocated' = allocated
      BY <2>11 DEF InitRestStore, TreesInv, InFlight
    <3>3. \A i \in exists : free'[i] = free[i]
      BY <2>11, <3>2 DEF InitRestStore, TypeOK
    <3>4. free'[nextTree] = NewTree(Localize(nextTree, Usable))
      BY <2>11, <3>1 DEF InitRestStore, TypeOK
    <3> QED
      BY <3>2, <3>3, <3>4 DEF ConservedInv
  <2> QED
    BY <2>0, <2>1, <2>2, <2>3, <2>4, <2>5, <2>6, <2>7, <2>8, <2>9, <2>10, <2>11 DEF Allocate, Deallocate, InitRest
<1> QED
  BY <1>0, <1>n

\* A tree is marked Tried only if it lacked a fitting block during the call.
LEMMA TriedStep == IInv /\ [Next]_vars => TriedInv'
<1> SUFFICES ASSUME IInv, [Next]_vars PROVE TriedInv'
  OBVIOUS
<1> USE DEF IInv
<1>0. CASE UNCHANGED vars
  BY <1>0 DEF vars, TriedInv, TypeOK, PhaseInv, AllUntried, Allocating
<1>n. CASE Next
  <2>0. PICK c \in Contexts : Allocate(c) \/ Deallocate(c) \/ InitRest(c)
    BY <1>n DEF Next
  <2>w. \A d \in Contexts : pc[d] \in Allocating /\ pc'[d] \in Allocating => lacked[d] \subseteq lacked'[d]
    BY <1>n DEF Next, Observe
  <2>1. ASSUME NEW k \in Order, AllocateCall(c, k) PROVE TriedInv'
    BY <2>1, <2>w DEF AllocateCall, TriedInv, TypeOK, PhaseInv, AllUntried, Allocating
  <2>2. CASE AllocateLock(c)
    BY <2>2, <2>w DEF AllocateLock, TriedInv, TypeOK, PhaseInv, AllUntried, Allocating
  <2>3. CASE AllocateBusy(c)
    BY <2>3, <2>w DEF AllocateBusy, TriedInv, TypeOK, PhaseInv, AllUntried, Allocating
  <2>4. CASE AllocateNone(c)
    BY <2>4, <2>w DEF AllocateNone, TriedInv, TypeOK, PhaseInv, AllUntried, Allocating
  <2>5. CASE AllocateTake(c)
    BY <2>5, <2>w DEF AllocateTake, TriedInv, TypeOK, AllUntried, PhaseInv
  <2>6. CASE AllocateEmpty(c)
    <3>1. index[c] \in lacked'[c]
      <4>1. Fitting(index[c], order[c])' = {} /\ pc'[c] \in Allocating
        BY <2>6 DEF AllocateEmpty, Fitting, TypeOK, Allocating
      <4>2. index'[c] = index[c] /\ index[c] \in TreeIndex
        BY <2>6 DEF AllocateEmpty, TypeOK
      <4> QED
        BY <4>1, <4>2, <1>n DEF Next, Observe, Lacking
    <3> QED
      BY <2>6, <2>w, <3>1 DEF AllocateEmpty, TriedInv, TypeOK, Allocating
  <2>7. ASSUME NEW b \in allocated, DeallocateCall(c, b) PROVE TriedInv'
    BY <2>7, <2>w DEF DeallocateCall, TriedInv, TypeOK, PhaseInv, AllUntried, Allocating
  <2>8. CASE DeallocateLock(c)
    BY <2>8, <2>w DEF DeallocateLock, TriedInv, TypeOK, PhaseInv, AllUntried, Allocating
  <2>9. CASE DeallocateTree(c)
    BY <2>9, <2>w DEF DeallocateTree, TriedInv, TypeOK, PhaseInv, AllUntried, Allocating
  <2>10. CASE InitRestLock(c)
    BY <2>10, <2>w DEF InitRestLock, TriedInv, TypeOK, PhaseInv, AllUntried, Allocating
  <2>11. CASE InitRestStore(c)
    BY <2>11, <2>w DEF InitRestStore, TriedInv, TypeOK, PhaseInv, AllUntried, Allocating
  <2> QED
    BY <2>0, <2>1, <2>2, <2>3, <2>4, <2>5, <2>6, <2>7, <2>8, <2>9, <2>10, <2>11 DEF Allocate, Deallocate, InitRest
<1> QED
  BY <1>0, <1>n

\* The history of a call always holds what the call lacks now.
LEMMA LackedStep == IInv /\ [Next]_vars => LackedInv'
<1> SUFFICES ASSUME IInv, [Next]_vars PROVE LackedInv'
  OBVIOUS
<1>0. CASE UNCHANGED vars
  BY <1>0 DEF IInv, vars, LackedInv, Lacking, Fitting
<1>n. CASE Next
  BY <1>n DEF Next, Observe, LackedInv
<1> QED
  BY <1>0, <1>n

(***************************************************************************)
(* From trees and offsets to global frames.                                *)
(***************************************************************************)

\* The frames of a block, taken apart into tree and offset, are the frames it
\* covers in its tree.
LEMMA FramesOfBlock ==
  ASSUME NEW b \in Block, Cover(b) \subseteq Local
  PROVE  /\ \A g \in Frames(b) : g \in Nat /\ g \div TreeSize = TreeOf(b)
                                 /\ g % TreeSize \in Cover(b)
         /\ \A f \in Cover(b) : f + TreeOf(b) * TreeSize \in Frames(b)
<1> DEFINE S == TreeSize
           t == TreeOf(b)
           l == LocalPtr(b)
           n == 2^b.order
<1>1. S \in Nat \ {0}
  BY TreeSizePositive
<1>2. b.addr \in Nat /\ b.order \in Nat
  BY OrdersAssumption DEF Block, Order, MaxOrder
<1>3. n \in Nat \ {0}
  BY <1>2, PowerOfTwo
<1>4. t \in Nat /\ l \in 0..(S - 1) /\ b.addr = t * S + l
  BY <1>1, <1>2, Split DEF TreeOf, LocalPtr
<1>5. Cover(b) = l..(l + n - 1) /\ Frames(b) = b.addr..(b.addr + n - 1)
  BY DEF Cover, LocalFrames, Frames
<1> HIDE DEF S, t, l, n
<1>6. t * S \in Nat
  BY <1>1, <1>4
<1>7. ASSUME NEW g \in Frames(b)
      PROVE  g \in Nat /\ g \div S = t /\ g % S \in Cover(b)
  <2>1. PICK f \in Cover(b) : g = f + t * S
    <3>1. g - t * S \in l..(l + n - 1) /\ g = (g - t * S) + t * S
      BY <1>2, <1>3, <1>4, <1>5, <1>6, <1>7
    <3> QED
      BY <3>1, <1>5
  <2>2. f \in 0..(S - 1)
    BY DEF Local, S
  <2>3. g \div S = t /\ g % S = f
    BY <1>1, <1>4, <2>1, <2>2, Decode
  <2>4. g \in Nat
    BY <1>6, <2>1, <2>2
  <2> QED
    BY <2>1, <2>3, <2>4
<1>8. ASSUME NEW f \in Cover(b)
      PROVE  f + t * S \in Frames(b)
  BY <1>2, <1>3, <1>4, <1>5, <1>6, <1>8
<1> QED
  BY <1>7, <1>8 DEF S, t

\* localize is right: a frame of a tree is usable by the ranges made local to
\* the tree exactly when one range of the memory map covers it.
LEMMA LocalizeCorrect ==
  ASSUME NEW i \in Nat, NEW f \in Local
  PROVE  f \in NewTree(Localize(i, Usable)) <=>
           \E r \in Usable : /\ r.start <= (f + i * TreeSize) * FrameBytes
                             /\ (f + i * TreeSize + 1) * FrameBytes <= r.end
<1> DEFINE B == GibStart(i)
           p == f * FrameBytes
<1>1. TreeSize \in Nat \ {0} /\ FrameBytes \in Nat \ {0} /\ f \in Nat /\ f <= TreeSize - 1
  BY TreeSizePositive, OrdersAssumption DEF Local
<1>2. B \in Nat /\ p \in Nat
  <2>1. i * TreeSize \in Nat
    BY <1>1
  <2>2. i * TreeSize * FrameBytes \in Nat
    BY <1>1, <2>1
  <2> QED
    BY <1>1, <2>2 DEF GibStart
<1>3. (f + i * TreeSize) * FrameBytes = B + p
  BY <1>1 DEF GibStart
<1>4. (f + i * TreeSize + 1) * FrameBytes = B + p + FrameBytes
  BY <1>1 DEF GibStart
<1>5. (f + 1) * FrameBytes = p + FrameBytes
  BY <1>1
<1>6. p <= TreeSize * FrameBytes
  BY <1>1
<1>7. GibEnd(i) = B + TreeSize * FrameBytes + 1 /\ TreeSize * FrameBytes \in Nat
  BY <1>1 DEF GibStart, GibEnd
<1> HIDE DEF B, p
<1> DEFINE T == TreeSize * FrameBytes
<1>8. T \in Nat /\ p <= T /\ GibEnd(i) = B + T + 1
  BY <1>6, <1>7
<1> HIDE DEF T
<1>9. ASSUME NEW r \in Usable, r.start <= B + p, B + p + FrameBytes <= r.end
      PROVE  f \in NewTree(Localize(i, Usable))
  <2> DEFINE q == [start |-> IF r.start >= GibStart(i) THEN r.start - GibStart(i) ELSE 0,
                   end   |-> r.end - GibStart(i)]
  <2>0. r.start \in Nat /\ r.end \in Nat
    BY UsableAssumption
  <2>1. r.start <= GibEnd(i) /\ r.end >= GibStart(i)
    BY <1>1, <1>2, <1>8, <1>9, <2>0 DEF B
  <2>2. q \in Localize(i, Usable)
    BY <2>1 DEF Localize
  <2>3. q.start <= p /\ p + FrameBytes <= q.end
    BY <1>1, <1>2, <1>9, <2>0 DEF B
  <2> QED
    BY <1>5, <2>2, <2>3 DEF NewTree, p
<1>10. ASSUME f \in NewTree(Localize(i, Usable))
       PROVE  \E r \in Usable : r.start <= B + p /\ B + p + FrameBytes <= r.end
  <2>1. PICK q \in Localize(i, Usable) : q.start <= p /\ p + FrameBytes <= q.end
    BY <1>5, <1>10 DEF NewTree, p
  <2>2. PICK r \in Usable :
          q = [start |-> IF r.start >= GibStart(i) THEN r.start - GibStart(i) ELSE 0,
               end   |-> r.end - GibStart(i)]
    BY DEF Localize
  <2>3. r.start \in Nat /\ r.end \in Nat
    BY UsableAssumption
  <2>4. r.start <= B + p /\ B + p + FrameBytes <= r.end
    BY <1>1, <1>2, <2>1, <2>2, <2>3 DEF B
  <2> QED
    BY <2>4
<1> QED
  BY <1>3, <1>4, <1>9, <1>10

\* A global frame, taken apart and put together again.
LEMMA Global ==
  ASSUME NEW g \in Nat
  PROVE  /\ g \div TreeSize \in Nat /\ g % TreeSize \in Local
         /\ g = (g % TreeSize) + (g \div TreeSize) * TreeSize
<1> DEFINE S == TreeSize
<1>1. S \in Nat \ {0}
  BY TreeSizePositive
<1>2. g \div S \in Nat /\ g % S \in 0..(S - 1) /\ g = (g \div S) * S + (g % S)
  BY <1>1, Split
<1>3. (g \div S) * S \in Nat
  BY <1>1, <1>2
<1> QED
  BY <1>2, <1>3 DEF Local

\* The frames of the existing trees lie in the memory the array of trees covers.
LEMMA InMemory ==
  ASSUME TypeOK, NEW g \in Nat, g \div TreeSize \in exists
  PROVE  g \in 0..(NumTrees * TreeSize - 1)
<1> DEFINE S == TreeSize
           i == g \div S
<1>1. S \in Nat \ {0}
  BY TreeSizePositive
<1>2. i \in 0..(NumTrees - 1) /\ NumTrees \in Nat
  BY TreesAssumption DEF TypeOK, TreeIndex
<1>3. g % S \in 0..(S - 1) /\ g = (g % S) + i * S
  BY Global DEF Local
<1> HIDE DEF S, i
<1>4. i * S \in Nat /\ NumTrees * S \in Nat /\ i * S + S <= NumTrees * S
  BY <1>1, <1>2
<1>5. g <= NumTrees * S - 1
  BY <1>1, <1>3, <1>4
<1> QED
  BY <1>4, <1>5 DEF S

\* The inductive invariant rules out that a frame is handed out twice.
LEMMA DisjointGlobally == IInv => NoDoubleAllocation
<1> SUFFICES ASSUME IInv PROVE NoDoubleAllocation
  OBVIOUS
<1> USE DEF IInv
<1>1. \A b \in Live : b \in Block /\ OutOfTree(b)
  BY DEF Live, BlocksInv, InFlight, TypeOK
<1>2. \A b \in Live : b \in Block /\ Cover(b) \subseteq Local
  BY <1>1, NewTreeLocal DEF OutOfTree
<1>3. \A a, b \in Live : Apart(a, b) => Frames(a) \intersect Frames(b) = {}
  BY <1>2, FramesOfBlock DEF Apart
<1>4. \A b \in Live : Frames(b) \intersect FreeFrames = {}
  BY <1>1, <1>2, FramesOfBlock DEF OutOfTree, FreeFrames
<1>5. /\ allocated \subseteq Live
      /\ \A c \in Contexts : freeing[c] # NoBlock => c \in InFlight /\ freeing[c] \in Live
  BY DEF Live, InFlight
<1> QED
  BY <1>3, <1>4, <1>5 DEF NoDoubleAllocation, DisjointInv

\* The inductive invariant accounts for every usable frame.
LEMMA ConservedGlobally == IInv => NoFrameLost
<1> SUFFICES ASSUME IInv PROVE NoFrameLost
  OBVIOUS
<1> USE DEF IInv
<1> DEFINE S == TreeSize
<1>2. \A b \in Live : b \in Block /\ OutOfTree(b)
  BY DEF Live, BlocksInv, InFlight, TypeOK
<1>3. \A b \in Live : b \in Block /\ Cover(b) \subseteq Local
  BY <1>2, NewTreeLocal DEF OutOfTree
<1>4. \A g \in Nat : /\ g \div S \in Nat /\ g % S \in Local
                     /\ g = (g % S) + (g \div S) * S
  BY Global
<1>5. \A g \in Nat : g \div S \in exists => g \in 0..(NumTrees * S - 1)
  BY InMemory
<1>6. \A g \in Nat : g \in UsableFrames <=>
        g \div S \in exists /\ g % S \in NewTree(Localize(g \div S, Usable))
  BY <1>4, <1>5, LocalizeCorrect DEF UsableFrames
<1>7. \A g \in Nat : g \in FreeFrames <=> g \div S \in exists /\ g % S \in free[g \div S]
  BY <1>5 DEF FreeFrames
<1>8. FreeFrames \subseteq Nat /\ UsableFrames \subseteq Nat
  BY DEF FreeFrames, UsableFrames
<1>9. FreeFrames \subseteq UsableFrames
  BY <1>6, <1>7, <1>8 DEF ConservedInv
<1>10. ASSUME NEW b \in Live, NEW g \in Frames(b) PROVE g \in UsableFrames
  <2>1. g \in Nat /\ g \div S = TreeOf(b) /\ g % S \in Cover(b)
    BY <1>3, <1>10, FramesOfBlock
  <2> QED
    BY <1>2, <1>6, <2>1 DEF OutOfTree
<1>11. ASSUME NEW g \in UsableFrames, g \notin FreeFrames
       PROVE  \E b \in Live : g \in Frames(b)
  <2> DEFINE i == g \div S
             f == g % S
  <2>1. g \in Nat /\ i \in exists /\ f \in NewTree(Localize(i, Usable)) \ free[i]
    BY <1>6, <1>7, <1>8, <1>11
  <2>2. PICK b \in Live : TreeOf(b) = i /\ f \in Cover(b)
    BY <2>1 DEF ConservedInv, Live, InFlight
  <2>3. f + i * S \in Frames(b)
    BY <1>3, <2>2, FramesOfBlock
  <2> QED
    BY <1>4, <2>1, <2>3
<1> QED
  BY <1>9, <1>10, <1>11 DEF NoFrameLost

(***************************************************************************)
(* The theorems.                                                           *)
(***************************************************************************)

\* The inductive invariant holds in every reachable state.
THEOREM Invariance == Spec => []IInv
<1>1. IInv /\ [Next]_vars => IInv'
  BY TypeStep, LockStep, PhaseStep, TreesStep, BlocksStep, DisjointStep,
     ConservedStep, TriedStep, LackedStep DEF IInv
<1> QED
  BY InitInv, <1>1, PTL DEF Spec

\* Type correctness of allocate, deallocate and init_rest: in particular every
\* block that allocate returns has a natural address and a legal order.
THEOREM TypeCorrect == Spec => []TypeOK
<1>1. IInv => TypeOK
  BY DEF IInv
<1> QED
  BY <1>1, Invariance, PTL

\* At most one context works on a tree at a time.
THEOREM MutuallyExclusive == Spec => []MutualExclusion
<1>1. IInv => MutualExclusion
  BY DEF IInv, LockInv, MutualExclusion
<1> QED
  BY <1>1, Invariance, PTL

\* allocate never hands out a frame that somebody holds.
THEOREM NeverTwice == Spec => []NoDoubleAllocation
  BY DisjointGlobally, Invariance, PTL

\* The allocator neither loses nor invents frames.
THEOREM NothingLost == Spec => []NoFrameLost
  BY ConservedGlobally, Invariance, PTL

\* None is returned only after every tree lacked a fitting block.
THEOREM NoneJustified == Spec => NoneOnlyIfEveryTreeLacked
<1>1. IInv /\ [Next]_vars =>
        [\A c \in Contexts : pc[c] = "pick" /\ pc'[c] = "idle" => lacked[c] = TreeIndex]_vars
  <2> SUFFICES ASSUME IInv, Next, NEW c \in Contexts, pc[c] = "pick", pc'[c] = "idle"
               PROVE  lacked[c] = TreeIndex
    OBVIOUS
  <2> USE DEF IInv
  <2>1. PICK d \in Contexts : Allocate(d) \/ Deallocate(d) \/ InitRest(d)
    BY DEF Next
  <2>2. AllocateNone(c)
    BY <2>1 DEF TypeOK, Allocate, Deallocate, InitRest, AllocateCall, AllocateLock,
        AllocateBusy, AllocateNone, AllocateTake, AllocateEmpty, DeallocateCall,
        DeallocateLock, DeallocateTree, InitRestLock, InitRestStore
  <2>3. \A i \in TreeIndex : tried[c][i] = "Tried"
    BY <2>2 DEF AllocateNone, Candidates, InState, TypeOK, TryState
  <2>4. TreeIndex \subseteq lacked[c]
    BY <2>3 DEF TriedInv, Allocating
  <2> QED
    BY <2>4 DEF TypeOK
<1> QED
  BY <1>1, Invariance, PTL DEF Spec, NoneOnlyIfEveryTreeLacked

(***************************************************************************)
(* The allocator implements the atomic one.                                *)
(***************************************************************************)

\* The frame at an offset of a tree is in that tree, at that offset.
LEMMA InTree ==
  ASSUME NEW i \in TreeIndex, NEW f \in Local
  PROVE  /\ f + i * TreeSize \in Nat
         /\ (f + i * TreeSize) \div TreeSize = i
         /\ (f + i * TreeSize) % TreeSize = f
<1>1. i \in Nat /\ f \in 0..(TreeSize - 1)
  BY TreesAssumption DEF TreeIndex, Local
<1>2. i * TreeSize \in Nat
  BY <1>1, TreeSizePositive
<1> QED
  BY <1>1, <1>2, TreeSizePositive, Decode

\* The free frames, by tree and offset.
FreeSplit ==
  /\ FreeFrames \subseteq Nat
  /\ \A g \in Nat : g \in FreeFrames <=>
       g \div TreeSize \in exists /\ g % TreeSize \in free[g \div TreeSize]

\* The array of trees determines which global frames are free.
LEMMA FreeFramesSplit == TypeOK => FreeSplit
  BY InMemory DEF FreeSplit, FreeFrames

\* The frames of a block that lies in one tree, by tree and offset.
LEMMA BlockSplit ==
  ASSUME NEW b \in Block, Cover(b) \subseteq Local
  PROVE  /\ Frames(b) \subseteq Nat
         /\ \A g \in Nat : g \in Frames(b) <=>
              g \div TreeSize = TreeOf(b) /\ g % TreeSize \in Cover(b)
<1>1. \A g \in Frames(b) : g \in Nat /\ g \div TreeSize = TreeOf(b) /\ g % TreeSize \in Cover(b)
  BY FramesOfBlock
<1>2. ASSUME NEW g \in Nat, g \div TreeSize = TreeOf(b), g % TreeSize \in Cover(b)
      PROVE  g \in Frames(b)
  <2>1. (g % TreeSize) + TreeOf(b) * TreeSize \in Frames(b)
    BY <1>2, FramesOfBlock
  <2> QED
    BY <1>2, <2>1, Global
<1> QED
  BY <1>1, <1>2

\* The block that allocate makes of an offset in a tree.
Made(s, i, k) == [addr |-> s + i * TreeSize, order |-> k]

\* The room of a region is what its tree can give.
RoomIsFitting ==
  \A i \in TreeIndex, k \in Order :
    Abstract!Room(i, k) = {Made(s, i, k) : s \in Fitting(i, k)}

\* A tree has a fitting block exactly when its region has room for one: the buddy
\* tree's view, local to the tree, and the caller's view, in global frames, agree.
LEMMA RoomOfTree == TypeOK => RoomIsFitting
<1> SUFFICES ASSUME TypeOK, NEW i \in TreeIndex, NEW k \in Order
             PROVE  Abstract!Room(i, k) = {Made(s, i, k) : s \in Fitting(i, k)}
  BY DEF RoomIsFitting
<1> DEFINE S == TreeSize
           Region == (i * S)..((i + 1) * S - 1)
<1>1. S \in Nat \ {0} /\ i \in Nat /\ i * S \in Nat /\ (i + 1) * S = i * S + S
  <2>1. S \in Nat \ {0} /\ i \in Nat
    BY TreeSizePositive, TreesAssumption DEF TreeIndex
  <2> QED
    BY <2>1
<1>2. k \in Nat /\ 2^k \in Nat \ {0}
  BY PowerOfTwo, OrdersAssumption DEF Order, MaxOrder
<1>3. FreeSplit /\ free[i] \subseteq Local
  BY FreeFramesSplit DEF TypeOK
<1>4. ASSUME NEW s \in Local
      PROVE  /\ Made(s, i, k) \in Block /\ TreeOf(Made(s, i, k)) = i
             /\ Cover(Made(s, i, k)) = LocalFrames(s, k)
  BY BuiltBlock DEF Made
<1>5. ASSUME NEW s \in Fitting(i, k) PROVE Made(s, i, k) \in Abstract!Room(i, k)
  <2> DEFINE b == Made(s, i, k)
  <2>1. i \in exists /\ s \in Local /\ s % 2^k = 0 /\ LocalFrames(s, k) \subseteq free[i]
    BY <1>5 DEF Fitting
  <2>2. b \in Block /\ TreeOf(b) = i /\ Cover(b) \subseteq free[i] /\ Cover(b) \subseteq Local
    BY <1>3, <1>4, <2>1
  <2>3. \A g \in Frames(b) : g \in Nat /\ g \div S = i /\ g % S \in free[i]
    BY <2>2, BlockSplit
  <2>4. Frames(b) \subseteq FreeFrames
    BY <1>3, <2>1, <2>3 DEF FreeSplit
  <2>5. \A g \in Nat : g \div S = i => g \in Region
    <3> SUFFICES ASSUME NEW g \in Nat, g \div S = i PROVE g \in Region
      OBVIOUS
    <3>1. g % S \in 0..(S - 1) /\ g = (g % S) + i * S
      BY Global DEF Local
    <3> HIDE DEF S
    <3> QED
      BY <1>1, <3>1
  <2>6. b.addr = s + i * S /\ b.order = k /\ b \in [addr : Region, order : {k}]
    <3>1. s + i * S \in Nat /\ (s + i * S) \div S = i
      BY <2>1, InTree
    <3> QED
      BY <2>5, <3>1 DEF Made
  <2>7. b.addr - i * S = s
    <3>1. s \in Int
      BY <1>1, <2>1 DEF Local
    <3> HIDE DEF S, b
    <3> QED
      BY <1>1, <2>6, <3>1
  <2>8. Abstract!BlockFrames(b) = Frames(b)
    BY DEF Abstract!BlockFrames, Frames
  <2> HIDE DEF b
  <2>9. (b.addr - i * S) % 2^k = 0
    BY <2>1, <2>7
  <2>10. Frames(b) \subseteq FreeFrames \intersect Region
    BY <2>3, <2>4, <2>5
  <2>11. b \in Abstract!Room(i, k)
    BY <2>6, <2>8, <2>9, <2>10 DEF Abstract!Room
  <2> QED
    BY <2>11 DEF b
<1>6. ASSUME NEW b \in Abstract!Room(i, k)
      PROVE  \E s \in Fitting(i, k) : b = Made(s, i, k)
  <2> DEFINE s == b.addr - i * S
  <2>1. /\ b \in [addr : Region, order : {k}]
        /\ s % 2^k = 0
        /\ Frames(b) \subseteq FreeFrames
    BY <1>6 DEF Abstract!Room, Abstract!BlockFrames, Frames
  <2>2. b.addr \in Region /\ b.order = k
    BY <2>1
  <2>3. s \in Local /\ b.addr = s + i * S /\ b.addr \in Nat
    <3> HIDE DEF S
    <3> QED
      BY <1>1, <2>2 DEF Local, S
  <2>4. b = Made(s, i, k)
    BY <2>1, <2>2, <2>3 DEF Made
  <2> HIDE DEF s
  <2>5. TreeOf(b) = i /\ Cover(b) = LocalFrames(s, k) /\ LocalPtr(b) = s
    <3>1. b.addr \div S = i /\ b.addr % S = s
      BY <2>3, InTree
    <3> QED
      BY <1>4, <2>3, <2>4, <3>1 DEF LocalPtr
  <2>6. i \in exists
    <3>1. b.addr \in Frames(b)
      BY <1>2, <2>2, <2>3 DEF Frames
    <3> QED
      BY <1>3, <2>1, <2>3, <2>5, <3>1 DEF FreeSplit, TreeOf
  <2>7. ASSUME NEW f \in LocalFrames(s, k) PROVE f \in free[i]
    <3> DEFINE g == f + i * S
    <3>1. s \in Nat /\ f \in Nat /\ g \in Frames(b)
      <4>1. s \in Nat
        BY <1>1, <2>3 DEF Local
      <4>2. f \in s..(s + 2^k - 1)
        BY <2>7 DEF LocalFrames
      <4> HIDE DEF S
      <4> QED
        BY <1>1, <1>2, <2>2, <2>3, <4>1, <4>2 DEF Frames
    <3>2. g \in Nat /\ g \in Region
      BY <1>1, <1>6, <3>1 DEF Abstract!Room, Abstract!BlockFrames, Frames
    <3>3. f \in Local
      <4> HIDE DEF S
      <4> QED
        BY <1>1, <3>1, <3>2 DEF Local, S
    <3>4. g \div S = i /\ g % S = f
      BY <3>3, InTree
    <3> QED
      BY <1>3, <2>1, <3>1, <3>2, <3>4 DEF FreeSplit
  <2>8. s \in Fitting(i, k)
    BY <2>1, <2>3, <2>6, <2>7 DEF Fitting, s
  <2> QED
    BY <2>4, <2>8
<1> QED
  BY <1>5, <1>6

\* The same, in the state after a step.
LEMMA NextState == TypeOK' => FreeSplit' /\ RoomIsFitting'
  BY FreeFramesSplit, RoomOfTree, PTL

\* What each context asks for, by where it is.
RequestShape ==
  \A c \in Contexts :
    /\ pc[c] \in Allocating => RequestOf(c) = Abstract!AllocRequest(order[c])
    /\ pc[c] \in {"dealloc_lock", "dealloc"} => RequestOf(c) = Abstract!FreeRequest(freeing[c])
    /\ pc[c] \in {"idle", "init_store"} => RequestOf(c) = Abstract!NoRequest

\* The three kinds of request are told apart by where the context is.
LEMMA Requests == RequestShape
  BY DEF RequestShape, RequestOf, Allocating, Abstract!AllocRequest, Abstract!FreeRequest,
      Abstract!NoRequest

\* The same, in the state after a step.
LEMMA RequestsNext == RequestShape'
  BY Requests, PTL

\* Whether a context is allocating can be read from its request.
Asking ==
  \A c \in Contexts :
    /\ RequestOf(c).op = "allocate" <=> pc[c] \in Allocating
    /\ pc[c] \in Allocating => RequestOf(c).order = order[c]

LEMMA RequestOp == TypeOK => Asking
<1> SUFFICES ASSUME TypeOK, NEW c \in Contexts
             PROVE  /\ RequestOf(c).op = "allocate" <=> pc[c] \in Allocating
                    /\ pc[c] \in Allocating => RequestOf(c).order = order[c]
  BY DEF Asking
<1>1. \/ pc[c] \in Allocating
      \/ pc[c] \in {"dealloc_lock", "dealloc"} /\ pc[c] \notin Allocating
      \/ pc[c] \in {"idle", "init_store"} /\ pc[c] \notin Allocating
  BY DEF TypeOK, PC, Allocating
<1>2. CASE pc[c] \in Allocating
  BY <1>2, Requests DEF RequestShape, Abstract!AllocRequest
<1>3. CASE pc[c] \in {"dealloc_lock", "dealloc"} /\ pc[c] \notin Allocating
  BY <1>3, Requests DEF RequestShape, Abstract!FreeRequest
<1>4. CASE pc[c] \in {"idle", "init_store"} /\ pc[c] \notin Allocating
  BY <1>4, Requests DEF RequestShape, Abstract!NoRequest
<1> QED
  BY <1>1, <1>2, <1>3, <1>4

LEMMA RequestOpNext == TypeOK' => Asking'
  BY RequestOp, PTL

\* The history of the trees that lacked a block is the history of the regions that
\* lacked room.
LEMMA WatchFollows ==
  ASSUME TypeOK, TypeOK', Observe
  PROVE  Abstract!Watch
<1>1. Asking /\ Asking' /\ RoomIsFitting'
  BY RequestOp, RequestOpNext, NextState
<1>2. ASSUME NEW c \in Contexts, pc'[c] \in Allocating
      PROVE  Abstract!LackingRoom(c)' = Lacking(c)'
  <2>1. RequestOf(c)'.order = order'[c] /\ order'[c] \in Order
    BY <1>1, <1>2 DEF Asking, TypeOK
  <2>2. ASSUME NEW i \in TreeIndex
        PROVE  Abstract!Room(i, order[c])' = {} <=> Fitting(i, order[c])' = {}
    BY <1>1, <2>1 DEF RoomIsFitting
  <2> QED
    BY <2>1, <2>2 DEF Abstract!LackingRoom, Lacking
<1>3. ASSUME NEW c \in Contexts
      PROVE  /\ RequestOf(c).op = "allocate" <=> pc[c] \in Allocating
             /\ RequestOf(c)'.op = "allocate" <=> pc'[c] \in Allocating
  BY <1>1 DEF Asking
<1> QED
  BY <1>2, <1>3 DEF Abstract!Watch, Observe

\* The requests of all contexts.
Request == [c \in Contexts |-> RequestOf(c)]

\* A step of one context changes the request of no other.
LEMMA OneRequest ==
  ASSUME NEW c \in Contexts, NEW r, RequestOf(c)' = r,
         \A d \in Contexts \ {c} : /\ pc'[d] = pc[d] /\ order'[d] = order[d]
                                   /\ freeing'[d] = freeing[d]
  PROVE  Request' = [Request EXCEPT ![c] = r]
<1>1. \A d \in Contexts \ {c} : RequestOf(d)' = RequestOf(d)
  BY DEF RequestOf
<1> QED
  BY <1>1 DEF Request

\* The trees that init_prelim sets up are the initial regions.
LEMMA InitImplements == Init => Abstract!AInit
<1> SUFFICES ASSUME Init PROVE Abstract!AInit
  OBVIOUS
<1>1. IInv /\ FreeSplit
  BY InitInv, FreeFramesSplit DEF IInv
<1>2. exists = 0..(PrelimTrees - 1) /\ exists \subseteq TreeIndex
  BY <1>1 DEF Init, IInv, TypeOK
<1>3. \A i \in exists : free[i] = NewTree(Localize(i, Usable)) /\ free[i] \subseteq Local
  <2>1. \A i \in exists : i < PrelimTrees
    BY <1>2, TreesAssumption
  <2> QED
    BY <1>2, <2>1, NewTreeLocal DEF Init
<1>4. FreeFrames = UNION {TreeFrames(i) : i \in exists}
  <2>1. ASSUME NEW g \in FreeFrames PROVE \E i \in exists : g \in TreeFrames(i)
    <3>1. g \in Nat /\ g \div TreeSize \in exists /\ g % TreeSize \in free[g \div TreeSize]
      BY <1>1, <2>1 DEF FreeSplit
    <3>2. g = (g \div TreeSize) * TreeSize + (g % TreeSize)
      BY <3>1, TreeSizePositive, Split
    <3> QED
      BY <1>3, <3>1, <3>2 DEF TreeFrames
  <2>2. ASSUME NEW i \in exists, NEW g \in TreeFrames(i) PROVE g \in FreeFrames
    <3>1. PICK f \in NewTree(Localize(i, Usable)) : g = i * TreeSize + f
      BY <2>2 DEF TreeFrames
    <3>2. i \in TreeIndex /\ f \in Local /\ f \in free[i]
      BY <1>2, <1>3
    <3>3. g = f + i * TreeSize
      <4>1. i \in Nat /\ f \in Nat /\ TreeSize \in Nat
        BY <3>2, TreesAssumption, TreeSizePositive DEF TreeIndex, Local
      <4>2. i * TreeSize \in Nat
        BY <4>1
      <4> QED
        BY <3>1, <4>1, <4>2
    <3>4. g \in Nat /\ g \div TreeSize = i /\ g % TreeSize = f
      BY <3>2, <3>3, InTree
    <3> QED
      BY <1>1, <3>2, <3>4 DEF FreeSplit
  <2> QED
    BY <2>1, <2>2
<1>5. [c \in Contexts |-> RequestOf(c)] = [c \in Contexts |-> Abstract!NoRequest]
  BY Requests DEF Init, RequestShape
<1> QED
  BY <1>2, <1>4, <1>5 DEF Init, Abstract!AInit

\* A step that changes neither trees, requests nor blocks cannot be observed.
LEMMA Unobserved ==
  ASSUME IInv, Observe, UNCHANGED <<exists, free, allocated, order, freeing>>,
         \A c \in Contexts : \/ pc'[c] = pc[c]
                             \/ pc[c] \in Allocating /\ pc'[c] \in Allocating
                             \/ pc[c] = "dealloc_lock" /\ pc'[c] = "dealloc"
                             \/ pc[c] = "idle" /\ pc'[c] = "init_store"
  PROVE  UNCHANGED Abstract!avars
<1>1. FreeFrames' = FreeFrames
  BY DEF FreeFrames
<1>2. \A c \in Contexts : RequestOf(c)' = RequestOf(c)
  BY DEF RequestOf, Allocating
<1>3. \A c \in Contexts : pc'[c] \in Allocating <=> pc[c] \in Allocating
  BY DEF Allocating
<1>4. \A c \in Contexts : Lacking(c)' = Lacking(c)
  BY DEF Lacking, Fitting
<1>5. lacked' = lacked
  BY <1>3, <1>4 DEF Observe, IInv, TypeOK, LackedInv
<1> QED
  BY <1>1, <1>2, <1>5 DEF Abstract!avars

\* Taking a block out of its tree is granting it: the frames of the block, and no
\* others, stop being free.
LEMMA TakeGrants ==
  ASSUME IInv, IInv', NEW c \in Contexts, AllocateTake(c)
  PROVE  Abstract!Grant(c)
<1> DEFINE i == index[c]
           k == order[c]
<1>1. i \in TreeIndex /\ k \in Order /\ RequestOf(c).op = "allocate" /\ RequestOf(c).order = k
  BY RequestOp DEF IInv, TypeOK, Asking, AllocateTake, Allocating
<1>2. PICK s \in Fitting(i, k) :
        /\ free' = [free EXCEPT ![i] = @ \ LocalFrames(s, k)]
        /\ allocated' = allocated \union {Made(s, i, k)}
  BY DEF AllocateTake, Made
<1> DEFINE b == Made(s, i, k)
<1>3. FreeSplit /\ FreeSplit' /\ RoomIsFitting /\ exists' = exists
  BY FreeFramesSplit, NextState, RoomOfTree DEF IInv, AllocateTake
<1>4. b \in Abstract!Room(i, k)
  BY <1>1, <1>2, <1>3 DEF RoomIsFitting
<1>5. b \in Block /\ TreeOf(b) = i /\ Cover(b) = LocalFrames(s, k) /\ Cover(b) \subseteq Local
  <2>1. s \in Local /\ LocalFrames(s, k) \subseteq free[i] /\ free[i] \subseteq Local
    BY <1>1, <1>2 DEF Fitting, IInv, TypeOK
  <2> QED
    BY <1>1, <2>1, BuiltBlock DEF Made
<1>6. \A j \in exists : free'[j] = IF j = i THEN free[j] \ Cover(b) ELSE free[j]
  BY <1>1, <1>2, <1>5 DEF IInv, TypeOK
<1> HIDE DEF b, i, k
<1>7. FreeFrames' = FreeFrames \ Frames(b)
  <2>1. \A g \in Nat : g \in Frames(b) <=> g \div TreeSize = i /\ g % TreeSize \in Cover(b)
    BY <1>5, BlockSplit
  <2>2. \A g \in Nat : g \in FreeFrames' <=> g \in FreeFrames /\ g \notin Frames(b)
    BY <1>3, <1>6, <2>1 DEF FreeSplit
  <2> QED
    BY <1>3, <2>2 DEF FreeSplit
<1>8. Request' = [Request EXCEPT ![c] = Abstract!NoRequest]
  <2>1. RequestOf(c)' = Abstract!NoRequest
    <3>1. pc'[c] = "idle"
      BY DEF AllocateTake, IInv, TypeOK
    <3> QED
      BY <3>1, RequestsNext DEF RequestShape
  <2> QED
    BY <2>1, OneRequest DEF AllocateTake, IInv, TypeOK
<1>9. Abstract!BlockFrames(b) = Frames(b)
  BY DEF Abstract!BlockFrames, Frames
<1>10. Request[c].op = "allocate" /\ b \in Abstract!Room(i, Request[c].order)
  BY <1>1, <1>4 DEF Request
<1>11. allocated' = allocated \union {b}
  BY <1>2 DEF b
<1> QED
  BY <1>1, <1>3, <1>7, <1>8, <1>9, <1>10, <1>11 DEF Abstract!Grant, Request

\* Returning a block to its tree frees exactly the frames of the block.
LEMMA TreeTakesBack ==
  ASSUME IInv, IInv', NEW c \in Contexts, DeallocateTree(c)
  PROVE  Abstract!TakeBack(c)
<1> DEFINE b == freeing[c]
           i == TreeOf(b)
<1>1. b \in Block /\ i \in exists /\ Cover(b) \subseteq Local /\ i \in TreeIndex
  <2>1. freeing[c] # NoBlock /\ c \in InFlight
    BY DEF IInv, PhaseInv, DeallocateTree, InFlight
  <2>2. b \in Block /\ OutOfTree(b)
    BY <2>1 DEF IInv, TypeOK, BlocksInv
  <2> QED
    BY <2>2, NewTreeLocal DEF OutOfTree, IInv, TypeOK
<1>2. FreeSplit /\ FreeSplit' /\ exists' = exists /\ allocated' = allocated
  BY FreeFramesSplit, NextState DEF IInv, DeallocateTree
<1>3. \A j \in exists : free'[j] = IF j = i THEN free[j] \union Cover(b) ELSE free[j]
  BY <1>1 DEF DeallocateTree, Cover, IInv, TypeOK
<1> HIDE DEF b, i
<1>4. FreeFrames' = FreeFrames \union Frames(b)
  <2>1. /\ Frames(b) \subseteq Nat
        /\ \A g \in Nat : g \in Frames(b) <=> g \div TreeSize = i /\ g % TreeSize \in Cover(b)
    BY <1>1, BlockSplit DEF i
  <2>2. \A g \in Nat : g \in FreeFrames' <=> g \in FreeFrames \/ g \in Frames(b)
    BY <1>1, <1>2, <1>3, <2>1 DEF FreeSplit
  <2> QED
    BY <1>2, <2>1, <2>2 DEF FreeSplit
<1>5. Request[c] = Abstract!FreeRequest(b)
  BY Requests DEF RequestShape, DeallocateTree, Request, b
<1>6. Request' = [Request EXCEPT ![c] = Abstract!NoRequest]
  <2>1. RequestOf(c)' = Abstract!NoRequest
    <3>1. pc'[c] = "idle"
      BY DEF DeallocateTree, IInv, TypeOK
    <3> QED
      BY <3>1, RequestsNext DEF RequestShape
  <2> QED
    BY <2>1, OneRequest DEF DeallocateTree, IInv, TypeOK
<1>7. Request[c].op = "deallocate" /\ Request[c].block = b
  BY <1>5 DEF Abstract!FreeRequest
<1>8. Abstract!BlockFrames(b) = Frames(b)
  BY DEF Abstract!BlockFrames, Frames
<1> QED
  BY <1>2, <1>4, <1>6, <1>7, <1>8 DEF Abstract!TakeBack, Request

\* Storing a tree in its slot adds the frames of its region, and no others.
LEMMA StoreAdds ==
  ASSUME IInv, IInv', NEW c \in Contexts, InitRestStore(c)
  PROVE  Abstract!AddRegion
<1> DEFINE i == nextTree
           N == NewTree(Localize(i, Usable))
<1>1. i \in TreeIndex \ exists /\ exists' = exists \union {i} /\ exists \subseteq TreeIndex
  <2>1. i \in Nat /\ i <= Gibibytes /\ exists = 0..(i - 1)
    BY TreesAssumption DEF IInv, PhaseInv, TreesInv, InitRestStore
  <2> QED
    BY <2>1, TreesAssumption DEF TreeIndex, InitRestStore, IInv, TypeOK
<1>2. FreeSplit /\ FreeSplit' /\ allocated' = allocated /\ N \subseteq Local
  BY FreeFramesSplit, NextState, NewTreeLocal DEF IInv, InitRestStore
<1>3. \A j \in exists' : free'[j] = IF j = i THEN N ELSE free[j]
  BY <1>1 DEF InitRestStore, IInv, TypeOK
<1> HIDE DEF i, N
<1>4. /\ TreeFrames(i) \subseteq Nat
      /\ \A g \in Nat : g \in TreeFrames(i) <=> g \div TreeSize = i /\ g % TreeSize \in N
  <2>1. ASSUME NEW f \in N
        PROVE  /\ i * TreeSize + f \in Nat
               /\ (i * TreeSize + f) \div TreeSize = i
               /\ (i * TreeSize + f) % TreeSize = f
    <3>1. i \in Nat /\ f \in Nat /\ f \in Local /\ TreeSize \in Nat
      BY <1>1, <1>2, TreesAssumption, TreeSizePositive DEF TreeIndex, Local
    <3>2. i * TreeSize \in Nat
      BY <3>1
    <3>3. i * TreeSize + f = f + i * TreeSize
      BY <3>1, <3>2
    <3> QED
      BY <1>1, <3>1, <3>3, InTree
  <2>2. ASSUME NEW g \in Nat, g \div TreeSize = i, g % TreeSize \in N
        PROVE  g \in TreeFrames(i)
    <3>1. g = i * TreeSize + (g % TreeSize)
      BY <2>2, TreeSizePositive, Split
    <3> QED
      BY <2>2, <3>1 DEF TreeFrames, N
  <2> QED
    BY <2>1, <2>2 DEF TreeFrames, N
<1>5. FreeFrames' = FreeFrames \union TreeFrames(i)
  <2>1. \A g \in Nat : g \in FreeFrames' <=> g \in FreeFrames \/ g \in TreeFrames(i)
    BY <1>1, <1>2, <1>3, <1>4 DEF FreeSplit
  <2> QED
    BY <1>2, <1>4, <2>1 DEF FreeSplit
<1>6. Request' = Request
  <2>1. \A d \in Contexts : RequestOf(d)' = RequestOf(d)
    BY DEF RequestOf, InitRestStore, IInv, TypeOK, Allocating
  <2> QED
    BY <2>1 DEF Request
<1> QED
  BY <1>1, <1>2, <1>5, <1>6 DEF Abstract!AddRegion, Request

\* Every step of the allocator is a step of the atomic one, or cannot be observed.
LEMMA StepImplements ==
  IInv /\ IInv' /\ [Next]_vars => [Abstract!ANext]_(Abstract!avars)
<1> SUFFICES ASSUME IInv, IInv', [Next]_vars
             PROVE  Abstract!ANext \/ UNCHANGED Abstract!avars
  OBVIOUS
<1>0. CASE UNCHANGED vars
  <2>1. FreeFrames' = FreeFrames /\ \A c \in Contexts : RequestOf(c)' = RequestOf(c)
    BY <1>0 DEF vars, FreeFrames, RequestOf
  <2> QED
    BY <1>0, <2>1 DEF vars, Abstract!avars
<1>n. CASE Next
  <2>o. Observe /\ Abstract!Watch
    BY <1>n, WatchFollows DEF Next, IInv
  <2>c. PICK c \in Contexts :
           \/ \E k \in Order : AllocateCall(c, k)
           \/ AllocateLock(c)
           \/ AllocateBusy(c)
           \/ AllocateNone(c)
           \/ AllocateTake(c)
           \/ AllocateEmpty(c)
           \/ \E b \in allocated : DeallocateCall(c, b)
           \/ DeallocateLock(c)
           \/ DeallocateTree(c)
           \/ InitRestLock(c)
           \/ InitRestStore(c)
    BY <1>n, StepCases
  <2>1. ASSUME NEW k \in Order, AllocateCall(c, k) PROVE Abstract!RequestBlock(c)
    <3>1. pc[c] = "idle" /\ pc'[c] = "pick" /\ order'[c] = k
      BY <2>1 DEF AllocateCall, IInv, TypeOK
    <3>2. Request[c] = Abstract!NoRequest /\ RequestOf(c)' = Abstract!AllocRequest(k)
      BY <3>1, Requests, RequestsNext DEF RequestShape, Request, Allocating
    <3>3. Request' = [Request EXCEPT ![c] = Abstract!AllocRequest(k)]
      BY <2>1, <3>2, OneRequest DEF AllocateCall, IInv, TypeOK
    <3>4. FreeFrames' = FreeFrames /\ exists' = exists /\ allocated' = allocated
      BY <2>1 DEF AllocateCall, FreeFrames
    <3> QED
      BY <3>2, <3>3, <3>4 DEF Abstract!RequestBlock, Request
  <2>2. CASE AllocateLock(c)
    BY <2>2, <2>o, Unobserved DEF AllocateLock, IInv, TypeOK, Allocating
  <2>3. CASE AllocateBusy(c)
    BY <2>3, <2>o, Unobserved DEF AllocateBusy
  <2>4. CASE AllocateNone(c)
    <3>1. pc[c] = "pick" /\ pc'[c] = "idle"
      BY <2>4 DEF AllocateNone, IInv, TypeOK
    <3>2. lacked[c] = TreeIndex
      <4>1. \A i \in TreeIndex : tried[c][i] = "Tried"
        BY <2>4 DEF AllocateNone, Candidates, InState, IInv, TypeOK, TryState
      <4> QED
        BY <3>1, <4>1 DEF IInv, TriedInv, TypeOK, Allocating
    <3>3. Request[c].op = "allocate" /\ RequestOf(c)' = Abstract!NoRequest
      BY <3>1, RequestOp, RequestsNext DEF RequestShape, Request, Asking, Allocating, IInv
    <3>4. Request' = [Request EXCEPT ![c] = Abstract!NoRequest]
      BY <2>4, <3>3, OneRequest DEF AllocateNone, IInv, TypeOK
    <3>5. FreeFrames' = FreeFrames /\ exists' = exists /\ allocated' = allocated
      BY <2>4 DEF AllocateNone, FreeFrames
    <3>6. Abstract!Fail(c)
      BY <3>2, <3>3, <3>4, <3>5 DEF Abstract!Fail, Request
    <3> QED
      BY <2>o, <3>6 DEF Abstract!ANext
  <2>5. CASE AllocateTake(c)
    BY <2>5, <2>o, TakeGrants DEF Abstract!ANext
  <2>6. CASE AllocateEmpty(c)
    BY <2>6, <2>o, Unobserved DEF AllocateEmpty, IInv, TypeOK, Allocating
  <2>7. ASSUME NEW b \in allocated, DeallocateCall(c, b) PROVE Abstract!RequestFree(c)
    <3>1. pc[c] = "idle" /\ pc'[c] = "dealloc_lock" /\ freeing'[c] = b
      BY <2>7 DEF DeallocateCall, IInv, TypeOK
    <3>2. Request[c] = Abstract!NoRequest /\ RequestOf(c)' = Abstract!FreeRequest(b)
      BY <3>1, Requests, RequestsNext DEF RequestShape, Request
    <3>3. Request' = [Request EXCEPT ![c] = Abstract!FreeRequest(b)]
      BY <2>7, <3>2, OneRequest DEF DeallocateCall, IInv, TypeOK
    <3>4. FreeFrames' = FreeFrames /\ exists' = exists /\ allocated' = allocated \ {b}
      BY <2>7 DEF DeallocateCall, FreeFrames
    <3> QED
      BY <3>2, <3>3, <3>4 DEF Abstract!RequestFree, Request
  <2>8. CASE DeallocateLock(c)
    BY <2>8, <2>o, Unobserved DEF DeallocateLock, IInv, TypeOK
  <2>9. CASE DeallocateTree(c)
    BY <2>9, <2>o, TreeTakesBack DEF Abstract!ANext
  <2>10. CASE InitRestLock(c)
    BY <2>10, <2>o, Unobserved DEF InitRestLock, IInv, TypeOK
  <2>11. CASE InitRestStore(c)
    BY <2>11, <2>o, StoreAdds DEF Abstract!ANext
  <2> QED
    BY <2>c, <2>o, <2>1, <2>2, <2>3, <2>4, <2>5, <2>6, <2>7, <2>8, <2>9, <2>10, <2>11
    DEF Abstract!ANext
<1> QED
  BY <1>0, <1>n

\* The trees, their locks and the search over them with try_lock implement an
\* allocator that grants and takes back each block at one moment of the call.
THEOREM Refinement == Spec => ImplementsFrameAllocator
  BY InitImplements, StepImplements, Invariance, PTL
  DEF Spec, ImplementsFrameAllocator, Abstract!ASpec

=============================================================================
