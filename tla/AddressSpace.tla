---------------------------- MODULE AddressSpace -----------------------------
(***************************************************************************)
(* What the paging code promises to the rest of the kernel: an address     *)
(* space is a map from pages to frames, and an edit through the mapper     *)
(* changes one page of the address space that is being edited, which is    *)
(* the active one unless with_inactive_p4 runs.  Spaces that share the     *)
(* kernel's half see each other's edits there, and nowhere else.           *)
(***************************************************************************)
EXTENDS Naturals

CONSTANTS
    Pages,        \* the pages that hold data: not the recursive window, not the temporary page
    KernelPages,  \* the pages of the kernel's half
    Frames,       \* what a page may be mapped to
    NoFrame       \* or not

VARIABLES
    spaces,   \* address space -> the map of its pages
    active,   \* the address space in CR3
    current,  \* the address space that the mapper edits
    shared    \* pairs of spaces that have the kernel's half in common

vars == <<spaces, active, current, shared>>

Empty == [p \in Pages |-> NoFrame]

Init ==
    /\ spaces \in [{active} -> [Pages -> Frames \cup {NoFrame}]]
    /\ current = active
    /\ shared = {}

\* InactivePageMap::new: a new, empty space.
Create ==
    /\ \E s \in DOMAIN spaces' \ DOMAIN spaces :
          spaces' = [t \in DOMAIN spaces \cup {s} |-> IF t = s THEN Empty ELSE spaces[t]]
    /\ UNCHANGED <<active, current, shared>>

Sees(t, p) == t = current \/ (p \in KernelPages /\ <<t, current>> \in shared)

\* map_to and unmap, one page.
Edit ==
    /\ \E p \in Pages :
          \E f \in {spaces'[current][p]} \cap (Frames \cup {NoFrame}) :
             spaces' = [t \in DOMAIN spaces |->
                          IF Sees(t, p) THEN [spaces[t] EXCEPT ![p] = f] ELSE spaces[t]]
    /\ UNCHANGED <<active, current, shared>>

\* new_process_page_tables: a space without a kernel's half is given the active one's.
Share ==
    /\ current = active
    /\ \E t \in DOMAIN spaces :
          /\ t # active /\ \A p \in KernelPages : spaces[t][p] = NoFrame
          /\ \A u \in DOMAIN spaces : <<t, u>> \notin shared
          /\ spaces' = [spaces EXCEPT ![t] =
                          [p \in Pages |-> IF p \in KernelPages THEN spaces[active][p]
                                           ELSE spaces[t][p]]]
          /\ LET with == {active} \cup {u \in DOMAIN spaces : <<u, active>> \in shared}
             IN  shared' = shared \cup (with \X {t}) \cup ({t} \X with)
    /\ UNCHANGED <<active, current>>

\* with_inactive_p4, on the way in and on the way out.
Select ==
    /\ \E t \in DOMAIN spaces : current' = t
    /\ UNCHANGED <<spaces, active, shared>>

\* ActivePageMap::switch
Switch ==
    /\ current = active
    /\ \E t \in DOMAIN spaces : active' = t /\ current' = t
    /\ UNCHANGED <<spaces, shared>>

Next == Create \/ Edit \/ Share \/ Select \/ Switch

Spec == Init /\ [][Next]_vars

\* Spaces that share the kernel's half have the same frames behind its pages, whichever of
\* them the kernel edits through: the kernel finds its heap and its stacks after every switch.
SharersAgree ==
    \A t, u \in DOMAIN spaces :
       <<t, u>> \in shared => \A p \in KernelPages \cap Pages : spaces[t][p] = spaces[u][p]

=============================================================================
