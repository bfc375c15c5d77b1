------------------------- MODULE AddressSpaceProofs --------------------------
(* SharersAgree of AddressSpace, for any pages, frames and number of spaces.  *)
(* An edit reaches all sharers or none of them only because sharing is        *)
(* symmetric and transitive, which the invariant adds.                        *)
EXTENDS AddressSpace, TLAPS

SpacesInv ==
    /\ spaces \in [DOMAIN spaces -> [Pages -> Frames \cup {NoFrame}]]
    /\ active \in DOMAIN spaces /\ current \in DOMAIN spaces

SharedInv ==
    /\ \A t, u : <<t, u>> \in shared => t \in DOMAIN spaces /\ u \in DOMAIN spaces
    /\ \A t, u \in DOMAIN spaces : <<t, u>> \in shared => <<u, t>> \in shared
    /\ \A t, u, v \in DOMAIN spaces :
          <<t, u>> \in shared /\ <<u, v>> \in shared /\ t # v => <<t, v>> \in shared

IInv == SpacesInv /\ SharedInv /\ SharersAgree

\* Every space is a map of all pages, and active and current are spaces: InactivePageMap::new,
\* map_to and unmap, new_process_page_tables and switch keep it so.
LEMMA SpacesStep == IInv /\ [Next]_vars => SpacesInv'
<1> SUFFICES ASSUME IInv, [Next]_vars PROVE SpacesInv'
  OBVIOUS
<1> USE DEF IInv, SpacesInv
<1>1. CASE Create
  BY <1>1 DEF Create, Empty
<1>2. CASE Edit
  <2>1. PICK p \in Pages, f \in Frames \cup {NoFrame} :
          spaces' = [t \in DOMAIN spaces |->
                       IF Sees(t, p) THEN [spaces[t] EXCEPT ![p] = f] ELSE spaces[t]]
    BY <1>2 DEF Edit
  <2> QED BY <2>1, <1>2 DEF Edit
<1>3. CASE Share
  BY <1>3 DEF Share
<1>4. CASE Select
  BY <1>4 DEF Select
<1>5. CASE Switch
  BY <1>5 DEF Switch
<1>6. CASE UNCHANGED vars
  BY <1>6 DEF vars
<1> QED BY <1>1, <1>2, <1>3, <1>4, <1>5, <1>6 DEF Next

\* Sharing stays symmetric and transitive when new_process_page_tables adds a space to those
\* that share with the active one.
LEMMA ShareStep == IInv /\ Share => SharedInv'
<1> SUFFICES ASSUME IInv, Share PROVE SharedInv'
  OBVIOUS
<1> DEFINE with == {active} \cup {u \in DOMAIN spaces : <<u, active>> \in shared}
<1>1. PICK t \in DOMAIN spaces :
        /\ t # active
        /\ \A u \in DOMAIN spaces : <<t, u>> \notin shared
        /\ DOMAIN spaces' = DOMAIN spaces
        /\ shared' = shared \cup (with \X {t}) \cup ({t} \X with)
  BY DEF Share
<1>2. /\ with \subseteq DOMAIN spaces
      /\ t \notin with
      /\ \A u \in DOMAIN spaces : <<u, t>> \notin shared
  BY <1>1 DEF IInv, SpacesInv, SharedInv
<1>3. \A u, v \in with : u # v => <<u, v>> \in shared
  BY DEF IInv, SpacesInv, SharedInv
<1>4. \A u, v \in DOMAIN spaces : u \in with /\ <<u, v>> \in shared => v \in with
  BY DEF IInv, SpacesInv, SharedInv
<1>5. \A u, v \in DOMAIN spaces :
        <<u, v>> \in shared' <=> <<u, v>> \in shared \/ (u \in with /\ v = t) \/ (u = t /\ v \in with)
  BY <1>1
<1> HIDE DEF with
<1>6. \A u, v : <<u, v>> \in shared' => u \in DOMAIN spaces /\ v \in DOMAIN spaces
  BY <1>1, <1>2 DEF IInv, SharedInv
<1>7. \A u, v \in DOMAIN spaces : <<u, v>> \in shared' => <<v, u>> \in shared'
  BY <1>5 DEF IInv, SharedInv
<1>8. ASSUME NEW a \in DOMAIN spaces, NEW b \in DOMAIN spaces, NEW c \in DOMAIN spaces,
             <<a, b>> \in shared', <<b, c>> \in shared', a # c
      PROVE  <<a, c>> \in shared'
  <2>1. CASE b = t
    BY <2>1, <1>2, <1>3, <1>5, <1>8, <1>1
  <2>2. CASE a = t
    BY <2>2, <1>1, <1>2, <1>4, <1>5, <1>8
  <2>3. CASE c = t
    <3>1. <<c, b>> \in shared' /\ <<b, a>> \in shared'
      BY <1>7, <1>8
    <3>2. <<c, a>> \in shared'
      BY <2>3, <3>1, <1>1, <1>2, <1>4, <1>5, <1>8
    <3> QED BY <3>2, <1>7
  <2>4. CASE a # t /\ b # t /\ c # t
    BY <2>4, <1>5, <1>8 DEF IInv, SharedInv
  <2> QED BY <2>1, <2>2, <2>3, <2>4
<1> QED BY <1>1, <1>6, <1>7, <1>8 DEF SharedInv

\* The other steps share nothing new: InactivePageMap::new makes a space that nobody shares.
LEMMA SharedStep == IInv /\ [Next]_vars => SharedInv'
<1> SUFFICES ASSUME IInv, [Next]_vars PROVE SharedInv'
  OBVIOUS
<1>1. CASE Create
  <2>1. PICK s : s \notin DOMAIN spaces /\ DOMAIN spaces' = DOMAIN spaces \cup {s}
    BY <1>1 DEF Create
  <2>2. shared' = shared
    BY <1>1 DEF Create
  <2> QED BY <2>1, <2>2 DEF IInv, SharedInv
<1>2. CASE Edit
  <2>1. DOMAIN spaces' = DOMAIN spaces /\ shared' = shared
    BY <1>2 DEF Edit
  <2> QED BY <2>1 DEF IInv, SharedInv
<1>3. CASE Share
  BY <1>3, ShareStep
<1>4. CASE Select
  BY <1>4 DEF Select, IInv, SharedInv
<1>5. CASE Switch
  BY <1>5 DEF Switch, IInv, SharedInv
<1>6. CASE UNCHANGED vars
  BY <1>6 DEF vars, IInv, SharedInv
<1> QED BY <1>1, <1>2, <1>3, <1>4, <1>5, <1>6 DEF Next

\* Sharers go on agreeing: an edit of a kernel page by map_to or unmap shows in all of them, and
\* a space that joins has the entry of the active one.
LEMMA AgreeStep == IInv /\ [Next]_vars => SharersAgree'
<1> SUFFICES ASSUME IInv, [Next]_vars PROVE SharersAgree'
  OBVIOUS
<1>1. CASE Create
  <2>1. PICK s : /\ s \notin DOMAIN spaces
                 /\ spaces' = [t \in DOMAIN spaces \cup {s} |-> IF t = s THEN Empty ELSE spaces[t]]
    BY <1>1 DEF Create
  <2>2. shared' = shared
    BY <1>1 DEF Create
  <2>3. \A t \in DOMAIN spaces : spaces'[t] = spaces[t]
    BY <2>1
  <2>4. \A t, u : <<t, u>> \in shared' => t \in DOMAIN spaces /\ u \in DOMAIN spaces
    BY <2>2 DEF IInv, SharedInv
  <2> QED BY <2>2, <2>3, <2>4 DEF IInv, SharersAgree
<1>2. CASE Edit
  <2>1. PICK p \in Pages, f \in Frames \cup {NoFrame} :
          spaces' = [t \in DOMAIN spaces |->
                       IF Sees(t, p) THEN [spaces[t] EXCEPT ![p] = f] ELSE spaces[t]]
    BY <1>2 DEF Edit
  <2>2. shared' = shared /\ DOMAIN spaces' = DOMAIN spaces
    BY <1>2, <2>1 DEF Edit
  <2>3. ASSUME NEW t \in DOMAIN spaces, NEW q \in Pages
        PROVE  spaces'[t][q] = IF q = p /\ Sees(t, p) THEN f ELSE spaces[t][q]
    BY <2>1, <2>3 DEF IInv, SpacesInv
  <2>4. ASSUME NEW t \in DOMAIN spaces, NEW u \in DOMAIN spaces, <<t, u>> \in shared, p \in KernelPages
        PROVE  Sees(t, p) <=> Sees(u, p)
    BY <2>4 DEF Sees, IInv, SpacesInv, SharedInv
  <2> QED BY <2>2, <2>3, <2>4 DEF IInv, SharersAgree
<1>3. CASE Share
  <2> DEFINE with == {active} \cup {u \in DOMAIN spaces : <<u, active>> \in shared}
  <2>1. PICK t \in DOMAIN spaces :
          /\ t # active
          /\ \A u \in DOMAIN spaces : <<t, u>> \notin shared
          /\ spaces' = [spaces EXCEPT ![t] =
                          [p \in Pages |-> IF p \in KernelPages THEN spaces[active][p]
                                           ELSE spaces[t][p]]]
          /\ shared' = shared \cup (with \X {t}) \cup ({t} \X with)
    BY <1>3 DEF Share
  <2>2. /\ with \subseteq DOMAIN spaces /\ t \notin with
        /\ \A u \in DOMAIN spaces : <<u, t>> \notin shared
    BY <2>1 DEF IInv, SpacesInv, SharedInv
  <2>3. \A u \in with, p \in KernelPages \cap Pages : spaces[u][p] = spaces[active][p]
    BY DEF IInv, SpacesInv, SharersAgree
  <2>4. DOMAIN spaces' = DOMAIN spaces
    BY <2>1
  <2>5. /\ \A p \in KernelPages \cap Pages : spaces'[t][p] = spaces[active][p]
        /\ \A u \in DOMAIN spaces \ {t} : spaces'[u] = spaces[u]
    BY <2>1
  <2>6. \A u, v \in DOMAIN spaces :
          <<u, v>> \in shared' <=> <<u, v>> \in shared \/ (u \in with /\ v = t) \/ (u = t /\ v \in with)
    BY <2>1
  <2> HIDE DEF with
  <2>7. ASSUME NEW u \in DOMAIN spaces, NEW v \in DOMAIN spaces, <<u, v>> \in shared',
               NEW p \in KernelPages \cap Pages
        PROVE  spaces'[u][p] = spaces'[v][p]
    <3>1. CASE <<u, v>> \in shared
      BY <3>1, <2>1, <2>2, <2>5 DEF IInv, SharersAgree
    <3>2. CASE u \in with /\ v = t
      BY <3>2, <2>2, <2>3, <2>5
    <3>3. CASE u = t /\ v \in with
      BY <3>3, <2>2, <2>3, <2>5
    <3> QED BY <2>6, <2>7, <3>1, <3>2, <3>3
  <2> QED BY <2>4, <2>7 DEF SharersAgree
<1>4. CASE Select
  BY <1>4 DEF Select, IInv, SharersAgree
<1>5. CASE Switch
  BY <1>5 DEF Switch, IInv, SharersAgree
<1>6. CASE UNCHANGED vars
  BY <1>6 DEF vars, IInv, SharersAgree
<1> QED BY <1>1, <1>2, <1>3, <1>4, <1>5, <1>6 DEF Next

\* Spaces that share the kernel's half agree on it at all times, whatever sequence of edits,
\* new processes and switches the kernel makes (with_inactive_p4, new_process_page_tables,
\* switch).
THEOREM KernelHalfAgrees == Spec => []SharersAgree
<1>1. Init => IInv
  BY DEF Init, IInv, SpacesInv, SharedInv, SharersAgree
<1>2. IInv /\ [Next]_vars => IInv'
  BY SpacesStep, SharedStep, AgreeStep DEF IInv
<1>3. IInv => SharersAgree
  BY DEF IInv
<1> QED BY <1>1, <1>2, <1>3, PTL DEF Spec

=============================================================================
