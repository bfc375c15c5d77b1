---------------------------- MODULE ProcessProofs ----------------------------
(***************************************************************************)
(* Proofs about Process, for address spaces, executables and system calls  *)
(* of any size, and every behaviour of the TLB.                            *)
(***************************************************************************)
EXTENDS Process, Facts

(***************************************************************************)
(* The inductive invariant.                                                *)
(***************************************************************************)

Flags == {"user", "writable", "executable"}
Codes == {0, -1, -2, -3, -4}
Loop == [pages : Seq(UserPages), flags : SUBSET Flags, ignore : BOOLEAN, zero : BOOLEAN,
         invalidate : BOOLEAN, then : {"copy", "jump", "user"}]
Calls == [name : {"none", "map", "unmap", "print", "unknown"}, first : Int, last : Int,
          flags : SUBSET Flags]

TypeInv ==
    /\ TypeOK
    /\ todo \in Loop /\ call \in Calls
    /\ entries \in [UserPages -> [frame : Frames \cup {0}, flags : SUBSET Flags]]
    /\ \A p \in UserPages : entries[p].frame = 0 => entries[p] = None
    /\ content \in [Frames -> SUBSET Int]
    /\ outOfMemory \in BOOLEAN

\* The loop that is running: the one of spawn_from_elf for a header, the one of setup for the
\* stack, or the one of a Map call; its range, and the page it comes to next.
Mapping(then) == pc = "map" /\ todo.then = then
LoopFirst == CASE todo.then = "copy" -> containing_address(Header.start)
               [] todo.then = "jump" -> containing_address(STACK_BOTTOM)
               [] OTHER -> call.first
LoopLast == CASE todo.then = "copy" -> containing_address(Header.end - 1)
              [] todo.then = "jump" -> containing_address(STACK_TOP)
              [] OTHER -> call.last % NumberSpace
NextPage == IF todo.pages = <<>> THEN LoopLast + 1 ELSE Head(todo.pages)
LoopDone == LoopFirst .. NextPage - 1

\* The loop's arguments, and the header that is being loaded.
LoadingHeader ==
    /\ segment <= Len(image.segments) /\ Header.load /\ Header.start # 0
    /\ ~InvalidRange(containing_address(Header.start), containing_address(Header.end - 1))
PhaseInv ==
    /\ pc \in {"spawn", "header", "copy", "run", "jump"} => call = NoCall
    /\ pc \in {"run", "jump", "user", "halted"} => segment = Len(image.segments) + 1
    /\ pc = "spawn" => segment = 1 /\ entries = [p \in UserPages |-> None] /\ tlb = NoTlb
                       /\ tables = {} /\ free = Frames
    /\ pc = "copy" => LoadingHeader
    /\ Mapping("copy") =>
         /\ call = NoCall /\ LoadingHeader
         /\ todo.flags = {"writable"} /\ todo.ignore /\ ~todo.zero /\ ~todo.invalidate
    /\ Mapping("jump") =>
         /\ call = NoCall /\ segment = Len(image.segments) + 1
         /\ todo.flags = {"user", "writable"} /\ todo.ignore /\ todo.zero /\ ~todo.invalidate
    /\ Mapping("user") =>
         /\ call.name = "map" /\ segment = Len(image.segments) + 1
         /\ call.first \in Nat /\ call.last \in Nat
         /\ ~InvalidRange(call.first, call.last % NumberSpace)
         /\ todo.flags = call.flags /\ ~todo.ignore /\ todo.zero /\ todo.invalidate

\* The loop goes through its range from below, and has mapped what lies behind it.
LoopInv ==
    /\ pc = "map" =>
         /\ todo.pages = PagesFrom(NextPage, LoopLast)
         /\ todo.pages # <<>> => LoopFirst <= NextPage
         /\ \A p \in LoopDone : Present(p) /\ entries[p].flags = todo.flags
    /\ pc = "copy" => \A p \in HeaderPages(Header) : Present(p)

\* What is mapped before the process runs was mapped for a segment or for the stack.
LoadedPages == {p \in UserPages : \E s \in Segments : s < segment /\ Covers(s, p)}
MappedInv ==
    /\ pc \in {"spawn", "header", "run"} => Mapped \subseteq LoadedPages
    /\ pc = "copy" => Mapped \subseteq LoadedPages \cup HeaderPages(Header)
    /\ Mapping("copy") \/ Mapping("jump") => Mapped \subseteq LoadedPages \cup LoopDone

\* A cached translation may be stale, but only that of a page that was mapped over, and even
\* then it leads to no frame that something else has.
TlbInv ==
    \A q \in UserPages :
       tlb[q] # 0 =>
          /\ tlb[q] \notin free \cup tables
          /\ \A p \in Mapped : FrameOf(p) = tlb[q] => p = q
          /\ Replaced(q) \/ FrameOf(q) = tlb[q]

\* What has been loaded so far is there, under its final rights.
Loading == pc \in {"header", "copy", "run", "jump"} \/ Mapping("copy") \/ Mapping("jump")
LoadInv ==
    /\ Loading => \A s \in Segments, p \in UserPages :
                     s < segment /\ Covers(s, p) /\ ~Replaced(p) =>
                        /\ Present(p) /\ s \in content[FrameOf(p)]
                        /\ entries[p].flags = HeaderFlags(image.segments[s])
    /\ pc = "jump" => \A p \in StackPages :
                         /\ Present(p) /\ entries[p].flags = {"user", "writable"}
                         /\ ~Replaced(p) => content[FrameOf(p)] = {}

\* What the stack's loop or that of a Map call has mapped is zeroed.
ZeroInv ==
    /\ Mapping("jump") => \A p \in LoopDone : ~Replaced(p) => content[FrameOf(p)] = {}
    /\ Mapping("user") => \A p \in LoopDone : content[FrameOf(p)] = {}

IInv ==
    /\ TypeInv /\ PhaseInv /\ LoopInv /\ MappedInv /\ FramesExclusive /\ TlbInv
    /\ NoFrameLeaked /\ LoadInv /\ ZeroInv /\ MapDelivers /\ PrintReadsExactlyUserMemory

(***************************************************************************)
(* Pages and ranges of pages.                                              *)
(***************************************************************************)

\* Numbers of pages, and the two pages of the stack: the bottom is less than a page below the
\* top, as process.rs subtracts a number of pages from an address.
LEMMA Constants ==
  /\ PageBytes \in Nat \ {0} /\ LastUsablePage \in Nat \ {0} /\ FirstHigherPage \in Nat
  /\ PageSpace \in Nat \ {0} /\ FrameCount \in Nat
  /\ UserPages \subseteq Nat /\ Frames \subseteq Nat /\ 0 \notin Frames
  /\ NumberSpace \in Nat \ {0} /\ \A a \in Nat : a % NumberSpace \in Nat
  /\ \A a \in Nat : containing_address(a) \in Nat
  /\ containing_address(STACK_TOP) = LastUsablePage
  /\ containing_address(STACK_BOTTOM) = LastUsablePage - 1
  /\ StackPages \subseteq UserPages
<1>1. /\ PageBytes \in Nat \ {0} /\ LastUsablePage \in Nat \ {0} /\ FirstHigherPage \in Nat
      /\ PageSpace \in Nat \ {0} /\ FrameCount \in Nat /\ InitialStackSizePages \in Nat \ {0}
      /\ InitialStackSizePages < PageBytes
  BY ProcessAssumption
<1>2. UserPages \subseteq Nat /\ Frames \subseteq Nat /\ 0 \notin Frames
  BY <1>1 DEF UserPages, Frames
<1>3. NumberSpace \in Nat \ {0} /\ \A a \in Nat : a % NumberSpace \in Nat
  <2>1. NumberSpace \in Nat \ {0}
    BY <1>1 DEF NumberSpace
  <2> QED BY <2>1
<1>4. \A a \in Nat : containing_address(a) \in Nat
  BY <1>1, Quotient DEF containing_address
<1>5. containing_address(STACK_TOP) = LastUsablePage
  <2>1. STACK_TOP = PageBytes * LastUsablePage + 0
    BY <1>1 DEF STACK_TOP
  <2> QED BY <2>1, <1>1, QuotientIs DEF containing_address
<1>6. containing_address(STACK_BOTTOM) = LastUsablePage - 1
  <2> DEFINE r == PageBytes - InitialStackSizePages
             q == LastUsablePage - 1
  <2>1. r \in 0 .. PageBytes - 1 /\ q \in Nat
    BY <1>1
  <2>2. STACK_BOTTOM = PageBytes * q + r
    BY <1>1 DEF STACK_BOTTOM, STACK_TOP
  <2> HIDE DEF q, r
  <2>3. containing_address(STACK_BOTTOM) = q
    BY <2>1, <2>2, <1>1, QuotientIs DEF containing_address
  <2> QED BY <2>3 DEF q
<1>7. StackPages \subseteq UserPages
  BY <1>1, <1>5, <1>6 DEF StackPages, UserPages
<1> QED BY <1>1, <1>2, <1>3, <1>4, <1>5, <1>6, <1>7

\* The checks of try_map_user_range leave usable pages only.
LEMMA ValidRange ==
  ASSUME NEW first \in Nat, NEW last \in Int, ~InvalidRange(first, last)
  PROVE  first .. last \subseteq UserPages
  BY Constants DEF InvalidRange, UserPages

\* The pages of a loop, one after the other.
LEMMA PagesInOrder ==
  ASSUME NEW first \in Nat, NEW last \in Int, first .. last \subseteq UserPages
  PROVE  /\ PagesFrom(first, last) \in Seq(UserPages)
         /\ PagesFrom(first, last) # <<>> <=> first <= last
         /\ first <= last => /\ Head(PagesFrom(first, last)) = first
                             /\ Tail(PagesFrom(first, last)) = PagesFrom(first + 1, last)
         /\ \A p \in first .. last : \E i \in DOMAIN PagesFrom(first, last) :
               PagesFrom(first, last)[i] = p
<1> DEFINE n == IF first > last THEN 0 ELSE last - first + 1
           s == PagesFrom(first, last)
<1>1. n \in Nat /\ s = [i \in 1 .. n |-> first + i - 1]
  BY DEF PagesFrom
<1>2. \A i \in 1 .. n : first + i - 1 \in UserPages
  OBVIOUS
<1>3. s \in Seq(UserPages) /\ Len(s) = n
  <2> HIDE DEF n, s
  <2> QED BY <1>1, <1>2
<1>4. s # <<>> <=> first <= last
  <2>1. s # <<>> <=> n # 0
    <3> HIDE DEF n, s
    <3> QED BY <1>1, <1>3
  <2> QED BY <2>1
<1>5. ASSUME first <= last
      PROVE  Head(s) = first /\ Tail(s) = PagesFrom(first + 1, last)
  <2>1. Head(s) = first
    BY <1>1, <1>3, <1>5
  <2> DEFINE m == IF first + 1 > last THEN 0 ELSE last - (first + 1) + 1
             t == PagesFrom(first + 1, last)
  <2>2. m = n - 1 /\ t = [i \in 1 .. m |-> first + 1 + i - 1]
    BY <1>5 DEF PagesFrom
  <2>3. Tail(s) = [i \in 1 .. n - 1 |-> s[i + 1]]
    <3> HIDE DEF n, s
    <3> QED BY <1>1, <1>3
  <2>4. \A i \in 1 .. n - 1 : s[i + 1] = first + 1 + i - 1
    <3> HIDE DEF n, s
    <3> QED BY <1>1
  <2>5. Tail(s) = t
    <3> HIDE DEF n, s, m, t
    <3> QED BY <2>2, <2>3, <2>4
  <2> QED BY <2>1, <2>5
<1>6. \A p \in first .. last : \E i \in DOMAIN s : s[i] = p
  <2> SUFFICES ASSUME NEW p \in first .. last PROVE \E i \in DOMAIN s : s[i] = p
    OBVIOUS
  <2>1. p - first + 1 \in 1 .. n
    OBVIOUS
  <2> HIDE DEF n, s
  <2>2. p - first + 1 \in DOMAIN s /\ s[p - first + 1] = p
    BY <1>1, <2>1
  <2> QED BY <2>2
<1> QED BY <1>3, <1>4, <1>5, <1>6

\* A program header of the image, and the pages of one that is being loaded.
LEMMA HeaderType ==
  ASSUME TypeInv, segment <= Len(image.segments)
  PROVE  /\ segment \in Segments
         /\ Header \in [load : BOOLEAN, start : Nat, end : Nat, fileLen : Nat,
                        access : SUBSET Rights]
         /\ Header.start # 0 => Header.end # 0
<1>1. image \in Images /\ segment \in 1 .. Len(image.segments) + 1
  BY DEF TypeInv, TypeOK
<1>2. image.segments \in Seq([load : BOOLEAN, start : Nat, end : Nat, fileLen : Nat,
                              access : SUBSET Rights])
  BY <1>1, InputAssumption
<1>3. Len(image.segments) \in Nat /\ segment \in DOMAIN image.segments
  BY <1>1, <1>2
<1>4. Header = image.segments[segment]
  BY DEF Header
<1>5. Header.start # 0 => Header.end # 0
  BY <1>1, <1>3, <1>4, InputAssumption
<1> DEFINE R == [load : BOOLEAN, start : Nat, end : Nat, fileLen : Nat, access : SUBSET Rights]
<1>6. Header \in R
  <2> HIDE DEF R
  <2>1. image.segments \in Seq(R)
    BY <1>2 DEF R
  <2> QED BY <2>1, <1>3, <1>4
<1> QED BY <1>3, <1>5, <1>6 DEF Segments

\* The range of the loop that is running.
LEMMA LoopRange ==
  ASSUME TypeInv, PhaseInv, pc = "map"
  PROVE  /\ LoopFirst \in Nat /\ LoopLast \in Nat
         /\ LoopFirst .. LoopLast \subseteq UserPages
<1>1. CASE todo.then = "copy"
  <2>1. LoadingHeader
    BY <1>1 DEF PhaseInv, Mapping
  <2>2. Header.start \in Nat /\ Header.end - 1 \in Nat
    BY <2>1, HeaderType DEF LoadingHeader
  <2>3. LoopFirst = containing_address(Header.start) /\ LoopLast = containing_address(Header.end - 1)
    BY <1>1 DEF LoopFirst, LoopLast
  <2>4. LoopFirst \in Nat /\ LoopLast \in Nat
    BY <2>2, <2>3, Constants
  <2>5. ~InvalidRange(LoopFirst, LoopLast)
    BY <2>1, <2>3 DEF LoadingHeader
  <2> QED BY <2>4, <2>5, ValidRange
<1>2. CASE todo.then = "jump"
  BY <1>2, Constants DEF LoopFirst, LoopLast, StackPages
<1>3. CASE todo.then = "user"
  <2>1. call.first \in Nat /\ call.last \in Nat /\ ~InvalidRange(call.first, call.last % NumberSpace)
    BY <1>3 DEF PhaseInv, Mapping
  <2>2. call.last % NumberSpace \in Nat
    BY <2>1, Constants
  <2>3. LoopFirst = call.first /\ LoopLast = call.last % NumberSpace
    BY <1>3 DEF LoopFirst, LoopLast
  <2> QED BY <2>1, <2>2, <2>3, ValidRange
<1> QED BY <1>1, <1>2, <1>3 DEF TypeInv, Loop

\* Where the loop is.
LEMMA LoopPosition ==
  ASSUME TypeInv, PhaseInv, LoopInv, pc = "map"
  PROVE  /\ NextPage \in Nat
         /\ NextPage .. LoopLast \subseteq UserPages /\ LoopDone \subseteq UserPages
         /\ todo.pages # <<>> <=> NextPage <= LoopLast
         /\ todo.pages # <<>> => /\ NextPage = Head(todo.pages) /\ NextPage \in LoopFirst .. LoopLast
                                 /\ Tail(todo.pages) = PagesFrom(NextPage + 1, LoopLast)
         /\ todo.pages = <<>> => NextPage = LoopLast + 1 /\ LoopDone = LoopFirst .. LoopLast
<1>1. LoopFirst \in Nat /\ LoopLast \in Nat /\ LoopFirst .. LoopLast \subseteq UserPages
  BY LoopRange
<1>2. CASE todo.pages = <<>>
  <2>1. NextPage = LoopLast + 1
    BY <1>2 DEF NextPage
  <2> QED BY <1>1, <1>2, <2>1 DEF LoopDone
<1>3. CASE todo.pages # <<>>
  <2>1. NextPage = Head(todo.pages) /\ NextPage \in UserPages
    BY <1>3 DEF NextPage, TypeInv, Loop
  <2>2. NextPage \in Nat /\ LoopFirst <= NextPage /\ todo.pages = PagesFrom(NextPage, LoopLast)
    BY <1>3, <2>1, Constants DEF LoopInv
  <2>3. NextPage .. LoopLast \subseteq UserPages
    BY <1>1, <2>2
  <2>4. NextPage <= LoopLast /\ Tail(todo.pages) = PagesFrom(NextPage + 1, LoopLast)
    BY <1>1, <1>3, <2>2, <2>3, PagesInOrder
  <2> QED BY <1>1, <1>3, <2>1, <2>2, <2>3, <2>4 DEF LoopDone
<1> QED BY <1>2, <1>3

(***************************************************************************)
(* Steps.                                                                  *)
(***************************************************************************)

\* What one turn of a mapping loop takes and touches.
NewFrame == Min(free)
NewTables == IF FramesNeeded = 2 THEN {Min(free \ {NewFrame})} ELSE {}
Cached == IF todo.invalidate THEN 0 ELSE tlb[NextPage]
Target == Translate(Cached, NewFrame)
Faults == todo.zero /\ "writable" \notin todo.flags

\* The image does not change, and so neither do the pages with more than one owner.
LEMMA SameImage ==
  ASSUME UNCHANGED image
  PROVE  /\ Segments' = Segments
         /\ \A a, p : (Covers(a, p)' <=> Covers(a, p))
         /\ \A p : (Replaced(p)' <=> Replaced(p))
  BY DEF Segments, Covers, Replaced, HeaderPages

\* Nor does a loop whose description does not change.
LEMMA SameLoop ==
  ASSUME UNCHANGED <<image, segment, todo, call>>
  PROVE  UNCHANGED <<LoopFirst, LoopLast, NextPage, LoopDone, Header, LoadedPages>>
<1>1. UNCHANGED <<LoopFirst, LoopLast, Header>>
  BY DEF LoopFirst, LoopLast, Header
<1>2. UNCHANGED NextPage
  BY <1>1 DEF NextPage
<1>3. UNCHANGED LoadedPages
  BY SameImage DEF LoadedPages
<1> QED BY <1>1, <1>2, <1>3 DEF LoopDone

\* A page that a loop maps over had an owner before: an earlier segment.
LEMMA MappedOver ==
  ASSUME IInv, MayMap, Present(NextPage)
  PROVE  Replaced(NextPage)
<1>1. pc = "map" /\ todo.pages # <<>>
  BY DEF MayMap
<1>2. /\ NextPage \in Nat /\ NextPage = Head(todo.pages) /\ NextPage \in UserPages
      /\ NextPage \in LoopFirst .. LoopLast /\ LoopFirst \in Nat
  BY <1>1, LoopPosition, LoopRange DEF IInv
<1>3. NextPage \in Mapped /\ NextPage \notin LoopDone
  BY <1>2 DEF Mapped, LoopDone
<1>4. Mapping("copy") \/ Mapping("jump")
  BY <1>1, <1>2 DEF IInv, TypeInv, Loop, PhaseInv, Mapping, MayMap
<1>5. PICK a \in Segments : a < segment /\ Covers(a, NextPage)
  BY <1>3, <1>4 DEF IInv, MappedInv, LoadedPages
<1>6. CASE Mapping("copy")
  <2>1. LoadingHeader
    BY <1>6 DEF IInv, PhaseInv
  <2>2. segment \in Segments /\ segment # a /\ segment \in Nat
    BY <2>1, <1>5, HeaderType DEF IInv, TypeInv, TypeOK, LoadingHeader
  <2>3. LoopFirst = containing_address(Header.start) /\ LoopLast = containing_address(Header.end - 1)
    BY <1>6 DEF LoopFirst, LoopLast, Mapping
  <2>4. Covers(segment, NextPage)
    BY <1>2, <2>1, <2>3 DEF Covers, HeaderPages, LoadingHeader, Header
  <2> QED BY <1>5, <2>2, <2>4 DEF Replaced
<1>7. CASE Mapping("jump")
  <2>1. NextPage \in StackPages
    BY <1>2, <1>7 DEF LoopFirst, LoopLast, Mapping, StackPages
  <2> QED BY <1>5, <2>1 DEF Replaced
<1> QED BY <1>4, <1>6, <1>7

\* One turn of a loop: `map' takes free frames, and clears the frame it has just mapped unless
\* a stale translation of a page it maps over gets in the way.
LEMMA MapPageStep ==
  ASSUME IInv, MapPage
  PROVE  /\ pc = "map" /\ NextPage \in UserPages /\ NextPage \in LoopFirst .. LoopLast
         /\ NewFrame \in free /\ NewFrame \in Frames /\ NewTables \subseteq free \ {NewFrame}
         /\ free' = free \ ({NewFrame} \cup NewTables) /\ tables' = tables \cup NewTables
         /\ entries' = [entries EXCEPT ![NextPage] = [frame |-> NewFrame, flags |-> todo.flags]]
         /\ content' = IF todo.zero /\ ~Faults THEN [content EXCEPT ![Target] = {}] ELSE content
         /\ tlb' = [tlb EXCEPT ![NextPage] = IF todo.zero THEN Target ELSE Cached]
         /\ pc' = IF Faults THEN "panicked" ELSE "map"
         /\ todo' = [todo EXCEPT !.pages = PagesFrom(NextPage + 1, LoopLast)]
         /\ UNCHANGED <<image, segment, call, ret, outOfMemory>>
         /\ Present(NextPage) => Replaced(NextPage) /\ todo.ignore
         /\ Cached \in Frames \cup {0}
         /\ Cached # 0 => Cached = tlb[NextPage] /\ Replaced(NextPage) /\ ~todo.invalidate
         /\ Target = IF Cached # 0 THEN Cached ELSE NewFrame
<1>1. MayMap /\ pc = "map" /\ todo.pages # <<>> /\ Cardinality(free) >= FramesNeeded
  BY DEF MapPage, MayMap
<1>2. /\ NextPage = Head(todo.pages) /\ NextPage \in LoopFirst .. LoopLast /\ NextPage \in UserPages
      /\ Tail(todo.pages) = PagesFrom(NextPage + 1, LoopLast)
  BY <1>1, LoopPosition, LoopRange DEF IInv
<1>3. free \subseteq Frames /\ free \subseteq Nat
  BY Constants DEF IInv, TypeInv, TypeOK
<1>4. FramesNeeded \in {1, 2}
  BY DEF FramesNeeded
<1>5. free # {}
  BY <1>1, <1>4, FS_EmptySet
<1>6. NewFrame \in free
  BY <1>3, <1>5, LowestNumber DEF NewFrame
<1>7. NewTables \subseteq free \ {NewFrame}
  <2>1. CASE FramesNeeded = 1
    BY <2>1 DEF NewTables
  <2>2. CASE FramesNeeded = 2
    <3>1. free # {NewFrame}
      <4>1. Cardinality({NewFrame}) = 1
        BY FS_Singleton
      <4>2. Cardinality(free) >= 2
        BY <1>1, <2>2
      <4> HIDE DEF NewFrame
      <4> QED BY <4>1, <4>2
    <3>2. free \ {NewFrame} # {} /\ free \ {NewFrame} \in SUBSET Nat
      BY <3>1, <1>3, <1>6
    <3>3. Min(free \ {NewFrame}) \in free \ {NewFrame}
      BY <3>2, LowestNumber
    <3> QED BY <2>2, <3>3 DEF NewTables
  <2> QED BY <1>4, <2>1, <2>2
<1>8. Present(NextPage) => Replaced(NextPage) /\ todo.ignore
  BY <1>1, <1>2, MappedOver DEF MayMap
<1>9. Cached \in Frames \cup {0}
  BY <1>2 DEF Cached, IInv, TypeInv, TypeOK
<1>10. Cached # 0 => Cached = tlb[NextPage] /\ Replaced(NextPage) /\ ~todo.invalidate
  <2> SUFFICES ASSUME Cached # 0
               PROVE  Cached = tlb[NextPage] /\ Replaced(NextPage) /\ ~todo.invalidate
    OBVIOUS
  <2>1. Cached = tlb[NextPage] /\ ~todo.invalidate
    BY DEF Cached
  <2>2. Replaced(NextPage) \/ FrameOf(NextPage) # 0
    BY <1>2, <2>1 DEF IInv, TlbInv
  <2>3. FrameOf(NextPage) # 0 => Present(NextPage)
    BY DEF FrameOf, Present, None
  <2> QED BY <1>8, <2>1, <2>2, <2>3
<1>11. Target = IF Cached # 0 THEN Cached ELSE NewFrame
  BY DEF Target, Translate
<1>12. /\ free' = free \ ({NewFrame} \cup NewTables) /\ tables' = tables \cup NewTables
       /\ entries' = [entries EXCEPT ![NextPage] = [frame |-> NewFrame, flags |-> todo.flags]]
       /\ content' = IF todo.zero /\ ~Faults THEN [content EXCEPT ![Target] = {}] ELSE content
       /\ tlb' = [tlb EXCEPT ![NextPage] = IF todo.zero THEN Target ELSE Cached]
  BY <1>2, Zenon DEF MapPage, NewFrame, NewTables, Target, Cached, Faults
<1>13. /\ pc' = IF Faults THEN "panicked" ELSE "map"
       /\ todo' = [todo EXCEPT !.pages = PagesFrom(NextPage + 1, LoopLast)]
       /\ UNCHANGED <<image, segment, call, ret, outOfMemory>>
  BY <1>2 DEF MapPage, Faults, loading, calling
<1> QED BY <1>1, <1>2, <1>3, <1>6, <1>7, <1>8, <1>9, <1>10, <1>11, <1>12, <1>13

\* The loop comes to the next page.
LEMMA LoopAdvances ==
  ASSUME IInv, MapPage
  PROVE  /\ LoopFirst' = LoopFirst /\ LoopLast' = LoopLast /\ NextPage' = NextPage + 1
         /\ todo'.pages = PagesFrom(NextPage + 1, LoopLast) /\ todo'.pages \in Seq(UserPages)
         /\ todo'.then = todo.then /\ todo' \in Loop
         /\ LoopDone' = LoopDone \cup {NextPage}
<1>1. /\ pc = "map" /\ todo' = [todo EXCEPT !.pages = PagesFrom(NextPage + 1, LoopLast)]
      /\ UNCHANGED <<image, segment, call>> /\ NextPage \in LoopFirst .. LoopLast
  BY MapPageStep
<1>2. LoopFirst \in Nat /\ LoopLast \in Nat /\ LoopFirst .. LoopLast \subseteq UserPages
      /\ NextPage \in Nat
  BY <1>1, LoopRange, LoopPosition DEF IInv
<1>3. todo'.then = todo.then /\ todo'.pages = PagesFrom(NextPage + 1, LoopLast)
  BY <1>1 DEF IInv, TypeInv, Loop
<1>4. LoopFirst' = LoopFirst /\ LoopLast' = LoopLast
  BY <1>1, <1>3 DEF LoopFirst, LoopLast, Header
<1>5. (NextPage + 1) .. LoopLast \subseteq UserPages /\ NextPage + 1 \in Nat
  BY <1>1, <1>2
<1>6. /\ todo'.pages \in Seq(UserPages) /\ (todo'.pages # <<>> <=> NextPage + 1 <= LoopLast)
      /\ NextPage + 1 <= LoopLast => Head(todo'.pages) = NextPage + 1
  BY <1>2, <1>3, <1>5, PagesInOrder
<1>7. NextPage' = NextPage + 1
  BY <1>1, <1>2, <1>4, <1>6 DEF NextPage
<1>8. LoopDone' = LoopDone \cup {NextPage}
  BY <1>1, <1>2, <1>4, <1>7 DEF LoopDone
<1>9. todo' \in Loop
  BY <1>1, <1>3, <1>6 DEF IInv, TypeInv, Loop
<1> QED BY <1>3, <1>4, <1>6, <1>7, <1>8, <1>9

\* What a step leaves alone, by the part of the memory it may change.
LEMMA MemorySteps ==
  ASSUME [Next]_vars
  PROVE  /\ image' = image
         /\ UNCHANGED <<entries, tables, free>> \/ SpawnTables \/ MapOutOfMemory \/ MapPage
            \/ CopySegment
         /\ UNCHANGED content \/ MapPage \/ CopySegment \/ \E p \in WrittenPages : UserWrite(p)
  BY DEF Next, vars, Spawn, MapLoop, Syscall, loading, memory, calling,
     SpawnReject, SpawnTables, SkipHeader, RejectHeader, MapHeader, RejectCopy, CopySegment,
     CopyAndSet, SpawnDone, RunByPid, JumpUsermode, MapAlreadyMapped, MapOutOfMemory, MapPage,
     MapDone, LoopFails, SyscallMapRefused, SyscallMapOverflow, SyscallMap, StartMap,
     SyscallUnmap, SyscallPrint, SyscallHalt, SyscallUnknown, Return, KernelPanics, TlbFill,
     TlbEvict, UserWrite

\* A loop that begins has its whole range before it.
LEMMA LoopBegins ==
  ASSUME NEW first \in Nat, NEW last \in Nat, first .. last \subseteq UserPages,
         todo'.pages = PagesFrom(first, last), LoopFirst' = first, LoopLast' = last
  PROVE  /\ (todo.pages)' \in Seq(UserPages) /\ (todo.pages = PagesFrom(NextPage, LoopLast))'
         /\ (todo.pages # <<>> => LoopFirst <= NextPage)' /\ LoopDone' = {}
<1>1. CASE first <= last
  <2>1. todo'.pages # <<>> /\ Head(todo'.pages) = first /\ todo'.pages \in Seq(UserPages)
    BY <1>1, PagesInOrder
  <2>2. NextPage' = first
    BY <2>1 DEF NextPage
  <2> QED BY <2>1, <2>2 DEF LoopDone
<1>2. CASE first > last
  <2>1. todo'.pages = <<>> /\ NextPage' = last + 1 /\ todo'.pages \in Seq(UserPages)
    BY <1>2, PagesInOrder DEF NextPage
  <2>2. PagesFrom(last + 1, last) = <<>>
    BY <1>2, <2>1 DEF PagesFrom
  <2> QED BY <1>2, <2>1, <2>2 DEF LoopDone
<1> QED BY <1>1, <1>2

\* A loaded header's pages are usable, and in order.
LEMMA HeadersUsable ==
  ASSUME TypeInv, LoadingHeader
  PROVE  /\ containing_address(Header.start) \in Nat /\ containing_address(Header.end - 1) \in Nat
         /\ HeaderPages(Header) \subseteq UserPages
<1>1. Header.start \in Nat /\ Header.end - 1 \in Nat
  BY HeaderType DEF LoadingHeader
<1>2. containing_address(Header.start) \in Nat /\ containing_address(Header.end - 1) \in Nat
  BY <1>1, Constants
<1> QED BY <1>2, ValidRange DEF LoadingHeader, HeaderPages

\* A loop that is over has no pages left.
LEMMA LoopOver == NoLoop \in Loop /\ NoLoop.pages = <<>>
  BY DEF NoLoop, Loop

\* The arguments of a Map or Unmap call, as the handler records them.
LEMMA TypeCall ==
  ASSUME NEW r \in MapRequests, NEW name \in {"map", "unmap"}, CalledWith(name, r)
  PROVE  call' \in Calls /\ call'.name = name
<1>1. r \in [addr : Nat, len : Nat, flags : SUBSET Rights]
  BY InputAssumption
<1>2. containing_address(r.addr) \in Nat /\ LastOf(r) \in Int
  BY <1>1, Constants DEF LastOf
<1> QED BY <1>1, <1>2 DEF CalledWith, Called, Calls, Flags, Rights

\* Every step keeps the page tables, the loop, the TLB and the codes in their ranges.
LEMMA TypeStep == IInv /\ [Next]_vars => TypeInv'
<1> SUFFICES ASSUME IInv, [Next]_vars PROVE TypeInv'
  OBVIOUS
<1>0. CASE UNCHANGED vars
  BY <1>0 DEF vars, IInv, TypeInv, TypeOK, Present
<1> USE DEF IInv, TypeInv, TypeOK, Present, Flags, Codes, None, NoLoop, NoTlb, loading,
        memory, calling
<1>1. CASE SpawnReject
  BY <1>1 DEF SpawnReject
<1>2. CASE SpawnTables
  <2>1. Min(free) \in free
    BY <1>2, Constants, LowestNumber DEF SpawnTables
  <2> QED BY <1>2, <2>1 DEF SpawnTables
<1>3. CASE SkipHeader
  <2>1. Len(image.segments) \in Nat
    BY InputAssumption
  <2> QED BY <1>3, <2>1 DEF SkipHeader
<1>4. CASE RejectHeader
  BY <1>4 DEF RejectHeader
<1>5. CASE MapHeader
  <2>1. LoadingHeader
    BY <1>5 DEF MapHeader, LoadingHeader
  <2> DEFINE first == containing_address(Header.start)
             last == containing_address(Header.end - 1)
  <2>2. Header.start \in Nat /\ Header.end - 1 \in Nat
    BY <2>1, HeaderType DEF LoadingHeader
  <2>3. first \in Nat /\ last \in Nat /\ ~InvalidRange(first, last)
    BY <2>1, <2>2, Constants DEF LoadingHeader
  <2> HIDE DEF first, last
  <2>4. PagesFrom(first, last) \in Seq(UserPages)
    BY <2>3, ValidRange, PagesInOrder
  <2>5. todo' \in Loop
    BY <1>5, <2>4 DEF MapHeader, Loop, first, last
  <2>6. \A i \in DOMAIN todo'.pages : todo'.pages[i] \in UserPages
    BY <2>5 DEF Loop
  <2> QED BY <1>5, <2>5, <2>6 DEF MapHeader
<1>6. CASE RejectCopy
  BY <1>6 DEF RejectCopy
<1>7. CASE CopySegment
  <2>1. HeaderPages(Header) \subseteq UserPages /\ \A p \in HeaderPages(Header) : Present(p)
    BY <1>7, HeadersUsable DEF CopySegment, CopyAndSet, LoopInv, PhaseInv
  <2>2. segment <= Len(image.segments) /\ Len(image.segments) \in Nat
    BY <1>7, InputAssumption DEF CopySegment, CopyAndSet, PhaseInv, LoadingHeader
  <2>3. HeaderFlags(Header) \subseteq Flags
    BY <2>2, HeaderType DEF HeaderFlags, Rights
  <2>4. \A p \in UserPages : /\ entries'[p].frame = entries[p].frame
                             /\ entries'[p] = entries[p] \/ Present(p)
                             /\ entries'[p] \in [frame : Frames \cup {0}, flags : SUBSET Flags]
    <3> SUFFICES ASSUME NEW p \in UserPages
                 PROVE  /\ entries'[p].frame = entries[p].frame
                        /\ entries'[p] = entries[p] \/ Present(p)
                        /\ entries'[p] \in [frame : Frames \cup {0}, flags : SUBSET Flags]
      OBVIOUS
    <3>1. entries[p] \in [frame : Frames \cup {0}, flags : SUBSET Flags]
      OBVIOUS
    <3>2. entries'[p] = IF p \in HeaderPages(Header)
                        THEN [entries[p] EXCEPT !.flags = HeaderFlags(Header)] ELSE entries[p]
      BY <1>7 DEF CopySegment, CopyAndSet
    <3> HIDE DEF Flags, Present
    <3>3. CASE p \in HeaderPages(Header)
      BY <2>1, <2>3, <3>1, <3>2, <3>3
    <3>4. CASE p \notin HeaderPages(Header)
      BY <3>1, <3>2, <3>4
    <3> QED BY <3>3, <3>4
  <2>5. DOMAIN entries' = UserPages
    BY <1>7 DEF CopySegment, CopyAndSet
  <2>6. entries' \in [UserPages -> [frame : Frames \cup {0}, flags : SUBSET Flags]]
    <3>1. entries' = [p \in UserPages |-> entries'[p]]
      BY <1>7 DEF CopySegment, CopyAndSet
    <3> QED BY <2>4, <3>1
  <2>7. content' \in [Frames -> SUBSET Int] /\ segment' \in 1 .. Len(image.segments) + 1
    BY <1>7, <2>2 DEF CopySegment, CopyAndSet
  <2>8. tlb' \in [UserPages -> Frames \cup {0}]
    BY <1>7, <2>1 DEF CopySegment, CopyAndSet, Translate
  <2>9. \A p \in UserPages : entries'[p].frame = 0 => entries'[p] = None
    BY <2>4
  <2>10. UNCHANGED <<image, todo, call, ret, outOfMemory, tables, free>> /\ pc' = "header"
    BY <1>7 DEF CopySegment, CopyAndSet
  <2>11. \A p \in UserPages : Present(p)' => entries'[p].frame \in Frames
    BY <2>4
  <2> QED BY <2>4, <2>5, <2>6, <2>7, <2>8, <2>9, <2>10, <2>11
<1>8. CASE SpawnDone
  BY <1>8 DEF SpawnDone
<1>9. CASE RunByPid
  <2> DEFINE first == containing_address(STACK_BOTTOM)
             last == containing_address(STACK_TOP)
  <2>1. first \in Nat /\ last \in Nat /\ first .. last \subseteq UserPages
    BY Constants DEF StackPages
  <2> HIDE DEF first, last
  <2>2. PagesFrom(first, last) \in Seq(UserPages)
    BY <2>1, PagesInOrder
  <2>3. todo' \in Loop
    BY <1>9, <2>2 DEF RunByPid, Loop, first, last
  <2>4. \A i \in DOMAIN todo'.pages : todo'.pages[i] \in UserPages
    BY <2>3 DEF Loop
  <2> QED BY <1>9, <2>3, <2>4 DEF RunByPid
<1>10. CASE JumpUsermode
  BY <1>10 DEF JumpUsermode
<1>11. CASE MapAlreadyMapped
  BY <1>11, LoopOver DEF MapAlreadyMapped, LoopFails
<1>12. CASE MapOutOfMemory
  BY <1>12, LoopOver DEF MapOutOfMemory, MayMap, LoopFails
<1>13. CASE MapPage
  <2>1. todo' \in Loop /\ \A i \in DOMAIN todo'.pages : todo'.pages[i] \in UserPages
    BY <1>13, LoopAdvances DEF Loop
  <2>2. entries' = [entries EXCEPT ![NextPage] = [frame |-> NewFrame, flags |-> todo.flags]]
        /\ NextPage \in UserPages /\ NewFrame \in Frames
    BY <1>13, MapPageStep
  <2>3. todo.flags \in SUBSET Flags /\ NewFrame # 0
    BY <2>2, Constants DEF Loop
  <2>4. entries' \in [UserPages -> [frame : Frames \cup {0}, flags : SUBSET Flags]]
        /\ \A p \in UserPages : entries'[p].frame = 0 => entries'[p] = None
    BY <2>2, <2>3
  <2>5. Target \in Frames /\ Cached \in Frames \cup {0} /\ NewTables \subseteq Frames
    BY <1>13, MapPageStep
  <2>6. tlb' \in [UserPages -> Frames \cup {0}] /\ content' \in [Frames -> SUBSET Int]
    BY <1>13, <2>2, <2>5, MapPageStep
  <2>7. /\ tables' \subseteq Frames /\ free' \subseteq Frames /\ pc' \in {"panicked", "map"}
        /\ UNCHANGED <<image, segment, call, ret, outOfMemory>>
    BY <1>13, <2>5, MapPageStep
  <2> QED BY <2>1, <2>4, <2>6, <2>7
<1>14. CASE MapDone
  BY <1>14 DEF MapDone, Loop
<1>15. ASSUME NEW r \in MapRequests, SyscallMapRefused(r) PROVE TypeInv'
  <2>1. call' \in Calls
    BY <1>15, TypeCall DEF SyscallMapRefused
  <2> QED BY <1>15, <2>1 DEF SyscallMapRefused, Return, KernelPanics, BadArgumentsCode
<1>16. ASSUME NEW r \in MapRequests, SyscallMapOverflow(r) PROVE TypeInv'
  <2>1. call' \in Calls
    BY <1>16, TypeCall DEF SyscallMapOverflow
  <2> QED BY <1>16, <2>1 DEF SyscallMapOverflow, Return, KernelPanics, BadArgumentsCode
<1>17. ASSUME NEW r \in MapRequests, SyscallMap(r) PROVE TypeInv'
  <2> DEFINE first == containing_address(r.addr)
             last == LastOf(r) % NumberSpace
  <2>1. r \in [addr : Nat, len : Nat, flags : SUBSET Rights] /\ r.len # 0
    BY <1>17, InputAssumption DEF SyscallMap, StartMap, BadArguments
  <2>2. first \in Nat /\ LastOf(r) \in Nat /\ last \in Nat
    <3>1. first \in Nat
      BY <2>1, Constants
    <3>2. LastOf(r) \in Nat
      BY <2>1, <3>1 DEF LastOf
    <3>3. last \in Nat
      BY <3>2, Constants
    <3> QED BY <3>1, <3>2, <3>3
  <2>3. ~InvalidRange(first, last)
    BY <1>17 DEF SyscallMap, StartMap
  <2> HIDE DEF first, last
  <2>4. PagesFrom(first, last) \in Seq(UserPages)
    <3>1. first \in Nat /\ last \in Int
      BY <2>2
    <3>2. first .. last \subseteq UserPages
      BY <2>3, <3>1, ValidRange, Zenon
    <3> QED BY <3>1, <3>2, PagesInOrder, Zenon
  <2>5. todo' \in Loop
    BY <1>17, <2>1, <2>4 DEF SyscallMap, StartMap, Loop, first, last, Rights
  <2>6. \A i \in DOMAIN todo'.pages : todo'.pages[i] \in UserPages
    BY <2>5 DEF Loop
  <2>7. call' \in Calls
    BY <1>17, <2>1, <2>2 DEF SyscallMap, StartMap, CalledWith, Called, Calls, Rights, first
  <2> QED BY <1>17, <2>5, <2>6, <2>7 DEF SyscallMap, StartMap
<1>18. ASSUME NEW r \in MapRequests, SyscallUnmap(r) PROVE TypeInv'
  <2>1. call' \in Calls
    BY <1>18, TypeCall DEF SyscallUnmap
  <2> QED BY <1>18, <2>1 DEF SyscallUnmap, Return, KernelPanics, BadArgumentsCode
<1>19. ASSUME NEW r \in PrintRequests, SyscallPrint(r) PROVE TypeInv'
  <2>1. r \in [ptr : Nat, len : Nat]
    BY InputAssumption
  <2>2. call' \in Calls
    BY <1>19, <2>1 DEF SyscallPrint, Called, Calls
  <2> QED BY <1>19, <2>2 DEF SyscallPrint, Return
<1>20. CASE SyscallHalt
  BY <1>20 DEF SyscallHalt
<1>21. CASE SyscallUnknown
  BY <1>21 DEF SyscallUnknown, Called, KernelPanics, Calls
<1>22. ASSUME NEW p \in UserPages, TlbFill(p) PROVE TypeInv'
  BY <1>22 DEF TlbFill
<1>23. ASSUME NEW p \in UserPages, TlbEvict(p) PROVE TypeInv'
  BY <1>23 DEF TlbEvict
<1>24. ASSUME NEW p \in WrittenPages, UserWrite(p) PROVE TypeInv'
  <2>1. p \in UserPages
    BY ProcessAssumption
  <2>2. Translate(tlb[p], entries[p].frame) \in Frames
    BY <1>24, <2>1 DEF UserWrite, Translate
  <2> HIDE DEF Translate
  <2> QED BY <1>24, <2>1, <2>2 DEF UserWrite, UserData
<1> QED
  BY <1>0, <1>1, <1>2, <1>3, <1>4, <1>5, <1>6, <1>7, <1>8, <1>9, <1>10, <1>11, <1>12, <1>13,
     <1>14, <1>15, <1>16, <1>17, <1>18, <1>19, <1>20, <1>21, <1>22, <1>23, <1>24
     DEF Next, Spawn, MapLoop, Syscall

\* The thread is always inside the loop it started, with the arguments of its caller.
LEMMA PhaseStep == IInv /\ [Next]_vars => PhaseInv'
<1> SUFFICES ASSUME IInv, [Next]_vars PROVE PhaseInv'
  OBVIOUS
<1>0. CASE UNCHANGED vars
  BY <1>0 DEF vars, IInv, PhaseInv, Mapping, LoadingHeader, Header
<1> USE DEF IInv, PhaseInv, Mapping, NoLoop, LoadingHeader, Header, loading, memory, calling
<1>1. CASE SpawnReject
  BY <1>1 DEF SpawnReject
<1>2. CASE SpawnTables
  BY <1>2 DEF SpawnTables
<1>3. CASE SkipHeader
  BY <1>3 DEF SkipHeader, TypeInv, TypeOK
<1>4. CASE RejectHeader
  BY <1>4 DEF RejectHeader
<1>5. CASE MapHeader
  BY <1>5 DEF MapHeader
<1>6. CASE RejectCopy
  BY <1>6 DEF RejectCopy
<1>7. CASE CopySegment
  BY <1>7 DEF CopySegment, CopyAndSet
<1>8. CASE SpawnDone
  <2>1. segment = Len(image.segments) + 1
    BY <1>8, InputAssumption DEF SpawnDone, TypeInv, TypeOK
  <2> QED BY <1>8, <2>1 DEF SpawnDone
<1>9. CASE RunByPid
  BY <1>9 DEF RunByPid
<1>10. CASE JumpUsermode
  BY <1>10 DEF JumpUsermode
<1>11. CASE MapAlreadyMapped
  BY <1>11 DEF MapAlreadyMapped, LoopFails
<1>12. CASE MapOutOfMemory
  BY <1>12 DEF MapOutOfMemory, MayMap, LoopFails
<1>13. CASE MapPage
  <2>1. pc = "map" /\ pc' \in {"map", "panicked"} /\ UNCHANGED <<image, segment, call>>
    BY <1>13, MapPageStep
  <2>2. todo'.then = todo.then /\ todo'.flags = todo.flags /\ todo'.ignore = todo.ignore
        /\ todo'.zero = todo.zero /\ todo'.invalidate = todo.invalidate
    BY <1>13 DEF MapPage, TypeInv, Loop
  <2> QED BY <2>1, <2>2
<1>14. CASE MapDone
  BY <1>14 DEF MapDone, TypeInv, Loop
<1>15. ASSUME NEW r \in MapRequests, SyscallMapRefused(r) PROVE PhaseInv'
  BY <1>15 DEF SyscallMapRefused, CalledWith, Called, Return
<1>16. ASSUME NEW r \in MapRequests, SyscallMapOverflow(r) PROVE PhaseInv'
  BY <1>16 DEF SyscallMapOverflow, CalledWith, Called, KernelPanics
<1>17. ASSUME NEW r \in MapRequests, SyscallMap(r) PROVE PhaseInv'
  <2>1. r \in [addr : Nat, len : Nat, flags : SUBSET Rights] /\ r.len # 0
    BY <1>17, InputAssumption DEF SyscallMap, StartMap, BadArguments
  <2>2. containing_address(r.addr) \in Nat
    BY <2>1, Constants
  <2>3. LastOf(r) \in Nat
    BY <2>1, <2>2 DEF LastOf
  <2> QED BY <1>17, <2>2, <2>3 DEF SyscallMap, StartMap, CalledWith, Called
<1>18. ASSUME NEW r \in MapRequests, SyscallUnmap(r) PROVE PhaseInv'
  BY <1>18 DEF SyscallUnmap, CalledWith, Called, Return, KernelPanics
<1>19. ASSUME NEW r \in PrintRequests, SyscallPrint(r) PROVE PhaseInv'
  BY <1>19 DEF SyscallPrint, Called, Return
<1>20. CASE SyscallHalt
  BY <1>20 DEF SyscallHalt
<1>21. CASE SyscallUnknown
  BY <1>21 DEF SyscallUnknown, Called, KernelPanics
<1>22. ASSUME NEW p \in UserPages, TlbFill(p) PROVE PhaseInv'
  <2>1. pc # "spawn"
    BY <1>22 DEF TlbFill, Present
  <2> QED BY <1>22, <2>1 DEF TlbFill
<1>23. ASSUME NEW p \in UserPages, TlbEvict(p) PROVE PhaseInv'
  <2>1. pc # "spawn"
    BY <1>23 DEF TlbEvict, NoTlb
  <2> QED BY <1>23, <2>1 DEF TlbEvict
<1>24. ASSUME NEW p \in WrittenPages, UserWrite(p) PROVE PhaseInv'
  BY <1>24 DEF UserWrite
<1> QED
  BY <1>0, <1>1, <1>2, <1>3, <1>4, <1>5, <1>6, <1>7, <1>8, <1>9, <1>10, <1>11, <1>12, <1>13,
     <1>14, <1>15, <1>16, <1>17, <1>18, <1>19, <1>20, <1>21, <1>22, <1>23, <1>24
     DEF Next, Spawn, MapLoop, Syscall

\* Each of the three loops begins with all its pages before it.
LEMMA LoopStarts ==
  ASSUME IInv, MapHeader \/ RunByPid \/ \E r \in MapRequests : SyscallMap(r)
  PROVE  /\ (todo.pages = PagesFrom(NextPage, LoopLast))'
         /\ (todo.pages # <<>> => LoopFirst <= NextPage)' /\ LoopDone' = {}
<1> USE DEF IInv
<1>1. CASE MapHeader
  <2>1. LoadingHeader
    BY <1>1 DEF MapHeader, LoadingHeader
  <2> DEFINE first == containing_address(Header.start)
             last == containing_address(Header.end - 1)
  <2>3. first \in Nat /\ last \in Nat /\ ~InvalidRange(first, last)
    BY <2>1, HeadersUsable DEF LoadingHeader
  <2> HIDE DEF first, last
  <2>5. todo'.pages = PagesFrom(first, last) /\ LoopFirst' = first /\ LoopLast' = last
    BY <1>1 DEF MapHeader, loading, LoopFirst, LoopLast, first, last, Header
  <2>6. first .. last \subseteq UserPages
    BY <2>3, ValidRange
  <2> QED BY <2>3, <2>5, <2>6, LoopBegins
<1>2. CASE RunByPid
  <2> DEFINE first == containing_address(STACK_BOTTOM)
             last == containing_address(STACK_TOP)
  <2>3. first \in Nat /\ last \in Nat /\ first .. last \subseteq UserPages
    BY Constants DEF StackPages
  <2> HIDE DEF first, last
  <2>5. todo'.pages = PagesFrom(first, last) /\ LoopFirst' = first /\ LoopLast' = last
    BY <1>2 DEF RunByPid, LoopFirst, LoopLast, first, last, Header
  <2>6. first .. last \subseteq UserPages
    BY <2>3
  <2> QED BY <2>3, <2>5, <2>6, LoopBegins
<1>3. ASSUME NEW r \in MapRequests, SyscallMap(r)
      PROVE  /\ (todo.pages = PagesFrom(NextPage, LoopLast))'
             /\ (todo.pages # <<>> => LoopFirst <= NextPage)' /\ LoopDone' = {}
  <2> DEFINE first == call'.first
             last == call'.last % NumberSpace
  <2>1. PhaseInv' /\ pc' = "map" /\ todo'.then = "user"
    <3>1. Next
      BY <1>3 DEF Next, Syscall
    <3> QED BY <1>3, <3>1, PhaseStep DEF SyscallMap, StartMap
  <2>2. call'.first = containing_address(r.addr) /\ call'.last = LastOf(r)
    BY <1>3 DEF SyscallMap, StartMap, CalledWith, Called
  <2>3. first \in Nat /\ call'.last \in Nat /\ ~InvalidRange(first, last)
    BY <2>1 DEF PhaseInv, Mapping
  <2>4. last \in Nat
    BY <2>3, Constants
  <2>5. todo'.pages = PagesFrom(first, last) /\ LoopFirst' = first /\ LoopLast' = last
    BY <1>3, <2>1, <2>2 DEF SyscallMap, StartMap, LoopFirst, LoopLast
  <2> HIDE DEF first, last
  <2>6. first .. last \subseteq UserPages
    BY <2>3, <2>4, ValidRange
  <2> QED BY <2>3, <2>4, <2>5, <2>6, LoopBegins
<1> QED BY <1>1, <1>2, <1>3

\* A loop maps its pages one after the other and leaves none out.
LEMMA LoopStep == IInv /\ [Next]_vars => LoopInv'
<1> SUFFICES ASSUME IInv, [Next]_vars PROVE LoopInv'
  OBVIOUS
<1>0. CASE UNCHANGED vars
  BY <1>0 DEF vars, IInv, LoopInv, Present, LoopDone, LoopFirst, LoopLast, NextPage, Header
<1> USE DEF IInv, LoopInv, loading, memory, calling
<1>1. CASE SpawnReject
  BY <1>1 DEF SpawnReject
<1>2. CASE SpawnTables
  BY <1>2 DEF SpawnTables
<1>3. CASE SkipHeader
  BY <1>3 DEF SkipHeader
<1>4. CASE RejectHeader
  BY <1>4 DEF RejectHeader
<1>5. CASE MapHeader
  BY <1>5, LoopStarts DEF MapHeader
<1>6. CASE RejectCopy
  BY <1>6 DEF RejectCopy
<1>7. CASE CopySegment
  BY <1>7 DEF CopySegment, CopyAndSet
<1>8. CASE SpawnDone
  BY <1>8 DEF SpawnDone
<1>9. CASE RunByPid
  BY <1>9, LoopStarts DEF RunByPid
<1>10. CASE JumpUsermode
  BY <1>10 DEF JumpUsermode
<1>11. CASE MapAlreadyMapped
  BY <1>11 DEF MapAlreadyMapped, LoopFails
<1>12. CASE MapOutOfMemory
  BY <1>12 DEF MapOutOfMemory, MayMap, LoopFails
<1>13. CASE MapPage
  <2>1. /\ LoopFirst' = LoopFirst /\ LoopLast' = LoopLast /\ NextPage' = NextPage + 1
        /\ todo'.pages = PagesFrom(NextPage + 1, LoopLast) /\ LoopDone' = LoopDone \cup {NextPage}
    BY <1>13, LoopAdvances
  <2>2. /\ pc = "map" /\ pc' # "copy" /\ NextPage \in LoopFirst .. LoopLast /\ NextPage \in UserPages
        /\ entries' = [entries EXCEPT ![NextPage] = [frame |-> NewFrame, flags |-> todo.flags]]
        /\ todo' = [todo EXCEPT !.pages = PagesFrom(NextPage + 1, LoopLast)]
        /\ NewFrame \in Frames
    BY <1>13, MapPageStep
  <2>3. todo'.flags = todo.flags /\ NewFrame # 0 /\ DOMAIN entries = UserPages
    BY <2>2, Constants DEF TypeInv, TypeOK, Loop
  <2>4. LoopDone \subseteq UserPages /\ LoopFirst \in Nat /\ NextPage \in Nat
    BY <2>2, LoopPosition, LoopRange
  <2>5. \A p \in LoopDone' : Present(p)' /\ entries'[p].flags = todo'.flags
    BY <2>1, <2>2, <2>3, <2>4 DEF Present, None
  <2>6. LoopFirst' <= NextPage'
    BY <2>1, <2>2, <2>4
  <2> QED BY <2>1, <2>2, <2>5, <2>6
<1>14. CASE MapDone
  <2>1. pc = "map" /\ todo.pages = <<>> /\ pc' = todo.then /\ UNCHANGED <<image, segment, entries>>
    BY <1>14 DEF MapDone
  <2>2. CASE todo.then = "copy"
    <3>1. LoopDone = HeaderPages(Header)
      BY <2>1, <2>2, LoopPosition DEF LoopFirst, LoopLast, HeaderPages
    <3>2. \A p \in HeaderPages(Header) : Present(p)
      BY <2>1, <3>1
    <3> QED BY <2>1, <2>2, <3>2 DEF Present, Header, HeaderPages
  <2>3. CASE todo.then # "copy"
    BY <2>1, <2>3 DEF TypeInv, Loop
  <2> QED BY <2>2, <2>3
<1>15. ASSUME NEW r \in MapRequests, SyscallMapRefused(r) PROVE LoopInv'
  BY <1>15 DEF SyscallMapRefused, CalledWith, Called, Return
<1>16. ASSUME NEW r \in MapRequests, SyscallMapOverflow(r) PROVE LoopInv'
  BY <1>16 DEF SyscallMapOverflow, CalledWith, Called, KernelPanics
<1>17. ASSUME NEW r \in MapRequests, SyscallMap(r) PROVE LoopInv'
  BY <1>17, LoopStarts DEF SyscallMap, StartMap, CalledWith, Called
<1>18. ASSUME NEW r \in MapRequests, SyscallUnmap(r) PROVE LoopInv'
  BY <1>18 DEF SyscallUnmap, CalledWith, Called, Return, KernelPanics
<1>19. ASSUME NEW r \in PrintRequests, SyscallPrint(r) PROVE LoopInv'
  BY <1>19 DEF SyscallPrint, Called, Return
<1>20. CASE SyscallHalt
  BY <1>20 DEF SyscallHalt
<1>21. CASE SyscallUnknown
  BY <1>21 DEF SyscallUnknown, Called, KernelPanics
<1>22. ASSUME NEW p \in UserPages, TlbFill(p) PROVE LoopInv'
  <2>1. UNCHANGED <<pc, image, segment, todo, call, entries, tables, free, content>>
    BY <1>22 DEF TlbFill
  <2>2. UNCHANGED <<LoopFirst, LoopLast, NextPage, LoopDone, Header, LoadedPages>>
    BY <2>1, SameLoop
  <2> QED BY <2>1, <2>2 DEF Present, HeaderPages
<1>23. ASSUME NEW p \in UserPages, TlbEvict(p) PROVE LoopInv'
  <2>1. UNCHANGED <<pc, image, segment, todo, call, entries, tables, free, content>>
    BY <1>23 DEF TlbEvict
  <2>2. UNCHANGED <<LoopFirst, LoopLast, NextPage, LoopDone, Header, LoadedPages>>
    BY <2>1, SameLoop
  <2> QED BY <2>1, <2>2 DEF Present, HeaderPages
<1>24. ASSUME NEW p \in WrittenPages, UserWrite(p) PROVE LoopInv'
  BY <1>24 DEF UserWrite
<1> QED
  BY <1>0, <1>1, <1>2, <1>3, <1>4, <1>5, <1>6, <1>7, <1>8, <1>9, <1>10, <1>11, <1>12, <1>13,
     <1>14, <1>15, <1>16, <1>17, <1>18, <1>19, <1>20, <1>21, <1>22, <1>23, <1>24
     DEF Next, Spawn, MapLoop, Syscall

\* The mapped pages after a step that maps none or one.
LEMMA MappedAfter ==
  /\ UNCHANGED entries => Mapped' = Mapped
  /\ IInv /\ MapPage => Mapped' = Mapped \cup {NextPage}
<1>1. ASSUME UNCHANGED entries PROVE Mapped' = Mapped
  BY <1>1 DEF Mapped, Present
<1>2. ASSUME IInv, MapPage PROVE Mapped' = Mapped \cup {NextPage}
  <2>1. /\ entries' = [entries EXCEPT ![NextPage] = [frame |-> NewFrame, flags |-> todo.flags]]
        /\ NextPage \in UserPages /\ NewFrame \in Frames /\ DOMAIN entries = UserPages
    BY <1>2, MapPageStep DEF IInv, TypeInv, TypeOK
  <2>2. NewFrame # 0
    BY <2>1, Constants
  <2> QED BY <2>1, <2>2 DEF Mapped, Present, None
<1> QED BY <1>1, <1>2

\* The frames behind the pages after one turn of a loop.
LEMMA FramesAfter ==
  ASSUME IInv, MapPage
  PROVE  /\ entries'[NextPage] = [frame |-> NewFrame, flags |-> todo.flags]
         /\ \A p \in UserPages \ {NextPage} : entries'[p] = entries[p]
         /\ \A p \in UserPages : FrameOf(p)' = IF p = NextPage THEN NewFrame ELSE FrameOf(p)
         /\ Mapped' = Mapped \cup {NextPage} /\ Mapped \subseteq UserPages /\ NextPage \in UserPages
<1>1. /\ entries' = [entries EXCEPT ![NextPage] = [frame |-> NewFrame, flags |-> todo.flags]]
      /\ NextPage \in UserPages
  BY MapPageStep
<1>2. DOMAIN entries = UserPages
  BY DEF IInv, TypeInv, TypeOK
<1>3. \A p \in UserPages \ {NextPage} : entries'[p] = entries[p]
  BY <1>1, <1>2
<1>4. entries'[NextPage] = [frame |-> NewFrame, flags |-> todo.flags]
  BY <1>1, <1>2
<1>5. \A p \in UserPages : FrameOf(p)' = IF p = NextPage THEN NewFrame ELSE FrameOf(p)
  BY <1>3, <1>4 DEF FrameOf
<1> QED BY <1>1, <1>3, <1>4, <1>5, MappedAfter DEF FrameOf, Mapped

\* set_flags maps the frames that the pages of the segment had.
LEMMA CopyStep ==
  ASSUME IInv, CopySegment
  PROVE  /\ pc = "copy" /\ pc' = "header" /\ LoadingHeader /\ segment \in Segments
         /\ HeaderPages(Header) \subseteq Mapped /\ Mapped' = Mapped
         /\ \A p \in UserPages :
               /\ FrameOf(p)' = FrameOf(p)
               /\ entries'[p].flags = IF p \in HeaderPages(Header) THEN HeaderFlags(Header)
                                      ELSE entries[p].flags
         /\ \A p \in UserPages :
               tlb'[p] = IF p \in HeaderPages(Header) THEN Translate(tlb[p], FrameOf(p)) ELSE tlb[p]
         /\ \A f \in Frames :
               content'[f] = IF \E p \in HeaderPages(Header) : Translate(tlb[p], FrameOf(p)) = f
                             THEN content[f] \cup {segment} ELSE content[f]
         /\ segment' = segment + 1 /\ UNCHANGED <<image, todo, tables, free, call, ret, outOfMemory>>
<1>1. pc = "copy" /\ LoadingHeader /\ segment \in Segments
  BY HeaderType DEF CopySegment, CopyAndSet, IInv, PhaseInv, LoadingHeader
<1>2. HeaderPages(Header) \subseteq UserPages /\ HeaderPages(Header) \subseteq Mapped
  BY <1>1, HeadersUsable DEF IInv, LoopInv, Mapped
<1>3. \A p \in UserPages : entries'[p] = IF p \in HeaderPages(Header)
                                        THEN [entries[p] EXCEPT !.flags = HeaderFlags(Header)]
                                        ELSE entries[p]
  BY DEF CopySegment, CopyAndSet
<1>4. \A p \in UserPages : entries[p] \in [frame : Frames \cup {0}, flags : SUBSET Flags]
  BY DEF IInv, TypeInv
<1>5. \A p \in UserPages :
         /\ FrameOf(p)' = FrameOf(p)
         /\ entries'[p].flags = IF p \in HeaderPages(Header) THEN HeaderFlags(Header)
                                ELSE entries[p].flags
  BY <1>3, <1>4 DEF FrameOf
<1>6. Mapped' = Mapped
  <2>1. \A p \in UserPages : p \in Mapped <=> FrameOf(p) # 0
    BY DEF IInv, TypeInv, TypeOK, Mapped, FrameOf, Present, None
  <2>2. TypeInv'
    BY TypeStep DEF Next, Spawn
  <2>3. \A p \in UserPages : p \in Mapped' <=> FrameOf(p)' # 0
    BY <2>2 DEF TypeInv, TypeOK, Mapped, FrameOf, Present, None
  <2> QED BY <1>5, <2>1, <2>3 DEF Mapped
<1>7. /\ \A p \in UserPages :
            tlb'[p] = IF p \in HeaderPages(Header) THEN Translate(tlb[p], FrameOf(p)) ELSE tlb[p]
      /\ \A f \in Frames :
            content'[f] = IF \E p \in HeaderPages(Header) : Translate(tlb[p], FrameOf(p)) = f
                          THEN content[f] \cup {segment} ELSE content[f]
  BY <1>2 DEF CopySegment, CopyAndSet, FrameOf
<1> QED BY <1>1, <1>2, <1>5, <1>6, <1>7 DEF CopySegment, CopyAndSet, calling

\* The next header has one more segment loaded before it.
LEMMA NextSegment ==
  ASSUME IInv, image' = image, segment' = segment + 1, segment \in Segments
  PROVE  LoadedPages' = LoadedPages \cup {p \in UserPages : Covers(segment, p)}
<1>1. segment \in Nat /\ Segments \subseteq Nat
  <2>1. image \in Images
    BY DEF IInv, TypeInv, TypeOK
  <2>2. image.segments \in Seq([load : BOOLEAN, start : Nat, end : Nat, fileLen : Nat,
                                access : SUBSET Rights])
    BY <2>1, InputAssumption
  <2> QED BY <2>2 DEF Segments
<1>2. \A a \in Segments : a < segment + 1 <=> a < segment \/ a = segment
  BY <1>1
<1> QED BY <1>2, SameImage DEF LoadedPages

\* Before the process runs, nothing is mapped but for a segment or for the stack.
LEMMA MappedStep == IInv /\ [Next]_vars => MappedInv'
<1> SUFFICES ASSUME IInv, [Next]_vars PROVE MappedInv'
  OBVIOUS
<1>0. CASE UNCHANGED vars
  BY <1>0 DEF vars, IInv, MappedInv, Mapping, Mapped, Present, LoadedPages, LoopDone,
     LoopFirst, LoopLast, NextPage, Header, Segments, Covers
<1> USE DEF IInv, MappedInv, Mapping, loading, memory, calling
<1>1. CASE SpawnReject
  BY <1>1 DEF SpawnReject
<1>2. CASE SpawnTables
  <2>1. Mapped' = {} /\ pc' = "header"
    BY <1>2 DEF SpawnTables, PhaseInv, Mapped, Present
  <2> QED BY <2>1
<1>3. CASE SkipHeader
  <2>1. segment \in Segments /\ image' = image /\ segment' = segment + 1 /\ Mapped' = Mapped
    BY <1>3, HeaderType, MappedAfter DEF SkipHeader
  <2>2. LoadedPages \subseteq LoadedPages'
    BY <2>1, NextSegment
  <2> QED BY <1>3, <2>1, <2>2 DEF SkipHeader
<1>4. CASE RejectHeader
  BY <1>4 DEF RejectHeader
<1>5. CASE MapHeader
  <2>1. pc = "header" /\ Mapped' = Mapped /\ LoadedPages' = LoadedPages /\ pc' = "map"
    BY <1>5, MappedAfter, SameImage DEF MapHeader, LoadedPages
  <2> QED BY <2>1
<1>6. CASE RejectCopy
  BY <1>6 DEF RejectCopy
<1>7. CASE CopySegment
  <2>1. /\ pc = "copy" /\ pc' = "header" /\ Mapped' = Mapped /\ LoadingHeader /\ segment \in Segments
        /\ HeaderPages(Header) \subseteq Mapped /\ segment' = segment + 1 /\ image' = image
    BY <1>7, CopyStep
  <2>2. HeaderPages(Header) \subseteq LoadedPages' /\ LoadedPages \subseteq LoadedPages'
    BY <2>1, NextSegment DEF Covers, LoadingHeader, Header, Mapped
  <2> QED BY <2>1, <2>2
<1>8. CASE SpawnDone
  <2>1. pc = "header" /\ Mapped' = Mapped /\ LoadedPages' = LoadedPages /\ pc' \in {"run", "panicked"}
    BY <1>8, MappedAfter, SameImage DEF SpawnDone, LoadedPages
  <2> QED BY <2>1
<1>9. CASE RunByPid
  <2>1. pc = "run" /\ Mapped' = Mapped /\ LoadedPages' = LoadedPages /\ pc' = "map"
    BY <1>9, MappedAfter, SameImage DEF RunByPid, LoadedPages
  <2> QED BY <2>1
<1>10. CASE JumpUsermode
  BY <1>10 DEF JumpUsermode
<1>11. CASE MapAlreadyMapped
  BY <1>11 DEF MapAlreadyMapped, LoopFails
<1>12. CASE MapOutOfMemory
  BY <1>12 DEF MapOutOfMemory, MayMap, LoopFails
<1>13. CASE MapPage
  <2>1. LoopDone' = LoopDone \cup {NextPage} /\ Mapped' = Mapped \cup {NextPage}
    BY <1>13, LoopAdvances, MappedAfter
  <2>2. pc = "map" /\ pc' \in {"map", "panicked"} /\ todo'.then = todo.then
    BY <1>13, LoopAdvances, MapPageStep
  <2>3. LoadedPages' = LoadedPages
    BY <1>13, MapPageStep, SameImage DEF LoadedPages
  <2> QED BY <2>1, <2>2, <2>3
<1>14. CASE MapDone
  <2>1. pc = "map" /\ todo.pages = <<>> /\ pc' = todo.then /\ UNCHANGED <<image, segment, entries>>
    BY <1>14 DEF MapDone
  <2>2. CASE todo.then = "copy"
    <3>1. LoopDone = HeaderPages(Header) /\ Header' = Header
      BY <2>1, <2>2, LoopPosition DEF LoopFirst, LoopLast, HeaderPages, Header
    <3>2. Mapped' = Mapped /\ LoadedPages' = LoadedPages
      BY <2>1, MappedAfter, SameImage DEF LoadedPages
    <3> QED BY <2>1, <2>2, <3>1, <3>2 DEF HeaderPages
  <2>3. CASE todo.then # "copy"
    BY <2>1, <2>3 DEF TypeInv, Loop
  <2> QED BY <2>2, <2>3
<1>15. ASSUME NEW r \in MapRequests, SyscallMapRefused(r) PROVE MappedInv'
  BY <1>15 DEF SyscallMapRefused, CalledWith, Called, Return
<1>16. ASSUME NEW r \in MapRequests, SyscallMapOverflow(r) PROVE MappedInv'
  BY <1>16 DEF SyscallMapOverflow, CalledWith, Called, KernelPanics
<1>17. ASSUME NEW r \in MapRequests, SyscallMap(r) PROVE MappedInv'
  BY <1>17 DEF SyscallMap, StartMap, CalledWith, Called
<1>18. ASSUME NEW r \in MapRequests, SyscallUnmap(r) PROVE MappedInv'
  BY <1>18 DEF SyscallUnmap, CalledWith, Called, Return, KernelPanics
<1>19. ASSUME NEW r \in PrintRequests, SyscallPrint(r) PROVE MappedInv'
  BY <1>19 DEF SyscallPrint, Called, Return
<1>20. CASE SyscallHalt
  BY <1>20 DEF SyscallHalt
<1>21. CASE SyscallUnknown
  BY <1>21 DEF SyscallUnknown, Called, KernelPanics
<1>22. ASSUME NEW p \in UserPages, TlbFill(p) PROVE MappedInv'
  <2>1. UNCHANGED <<pc, image, segment, todo, call, entries, tables, free, content>>
    BY <1>22 DEF TlbFill
  <2>2. UNCHANGED <<LoopFirst, LoopLast, NextPage, LoopDone, Header, LoadedPages>>
    BY <2>1, SameLoop
  <2> QED BY <2>1, <2>2, MappedAfter DEF HeaderPages
<1>23. ASSUME NEW p \in UserPages, TlbEvict(p) PROVE MappedInv'
  <2>1. UNCHANGED <<pc, image, segment, todo, call, entries, tables, free, content>>
    BY <1>23 DEF TlbEvict
  <2>2. UNCHANGED <<LoopFirst, LoopLast, NextPage, LoopDone, Header, LoadedPages>>
    BY <2>1, SameLoop
  <2> QED BY <2>1, <2>2, MappedAfter DEF HeaderPages
<1>24. ASSUME NEW p \in WrittenPages, UserWrite(p) PROVE MappedInv'
  BY <1>24 DEF UserWrite
<1> QED
  BY <1>0, <1>1, <1>2, <1>3, <1>4, <1>5, <1>6, <1>7, <1>8, <1>9, <1>10, <1>11, <1>12, <1>13,
     <1>14, <1>15, <1>16, <1>17, <1>18, <1>19, <1>20, <1>21, <1>22, <1>23, <1>24
     DEF Next, Spawn, MapLoop, Syscall

\* No step gives a frame to two owners: a loop takes frames that were free.
LEMMA ExclusiveStep == IInv /\ [Next]_vars => FramesExclusive'
<1> SUFFICES ASSUME IInv, [Next]_vars PROVE FramesExclusive'
  OBVIOUS
<1>1. CASE UNCHANGED <<entries, tables, free>>
  BY <1>1, MappedAfter DEF IInv, FramesExclusive, FrameOf
<1>2. CASE SpawnTables
  <2>1. Mapped' = {}
    BY <1>2 DEF SpawnTables, IInv, PhaseInv, Mapped, Present
  <2> QED BY <1>2, <2>1 DEF SpawnTables, FramesExclusive
<1>3. CASE MapOutOfMemory
  <2>1. Mapped' = Mapped /\ UNCHANGED <<entries, tables>> /\ free' = {}
    BY <1>3, MappedAfter DEF MapOutOfMemory
  <2> QED BY <2>1 DEF IInv, FramesExclusive, FrameOf
<1>4. CASE MapPage
  <2>1. Mapped' = Mapped \cup {NextPage} /\ NextPage \in UserPages /\ Mapped \subseteq UserPages
    BY <1>4, FramesAfter
  <2>2. \A p \in UserPages : FrameOf(p)' = IF p = NextPage THEN NewFrame ELSE FrameOf(p)
    BY <1>4, FramesAfter
  <2>3. /\ NewFrame \in free /\ NewTables \subseteq free \ {NewFrame}
        /\ free' = free \ ({NewFrame} \cup NewTables) /\ tables' = tables \cup NewTables
    BY <1>4, MapPageStep
  <2> QED BY <2>1, <2>2, <2>3 DEF IInv, FramesExclusive
<1>5. CASE CopySegment
  <2>1. /\ Mapped' = Mapped /\ UNCHANGED <<tables, free>> /\ Mapped \subseteq UserPages
        /\ \A p \in UserPages : FrameOf(p)' = FrameOf(p)
    BY <1>5, CopyStep DEF Mapped
  <2> QED BY <2>1 DEF IInv, FramesExclusive
<1> QED BY <1>1, <1>2, <1>3, <1>4, <1>5, MemorySteps

\* Nor does a step lose one, but for the last one when it runs out of them, unless a page is
\* mapped over.
LEMMA LeakStep == IInv /\ [Next]_vars => NoFrameLeaked'
<1> SUFFICES ASSUME IInv, [Next]_vars, ~\E p \in UserPages : Replaced(p)', Lost' # {}
             PROVE  outOfMemory' /\ free' = {} /\ \E f \in Frames : Lost' = {f}
  BY DEF NoFrameLeaked
<1>0. ~\E p \in UserPages : Replaced(p)
  BY MemorySteps, SameImage
<1>6. Lost # {} => outOfMemory /\ free = {} /\ \E f \in Frames : Lost = {f}
  BY <1>0 DEF IInv, NoFrameLeaked
<1>1. CASE UNCHANGED <<entries, tables, free>>
  <2>1. outOfMemory => outOfMemory'
    BY DEF Next, vars, Spawn, MapLoop, Syscall, SpawnReject, SpawnTables, SkipHeader, RejectHeader,
       MapHeader, RejectCopy, CopySegment, CopyAndSet, SpawnDone, RunByPid, JumpUsermode,
       MapAlreadyMapped, MapOutOfMemory, MapPage, MapDone, SyscallMapRefused, SyscallMapOverflow,
       SyscallMap, StartMap, SyscallUnmap, SyscallPrint, SyscallHalt, SyscallUnknown, Return,
       KernelPanics, TlbFill, TlbEvict, UserWrite
  <2>2. Lost' = Lost
    BY <1>1, MappedAfter DEF Lost, FrameOf
  <2> QED BY <1>1, <1>6, <2>1, <2>2
<1>2. CASE SpawnTables
  <2>1. free # {} /\ free \in SUBSET Nat
    BY <1>2, Constants DEF SpawnTables, IInv, TypeInv, TypeOK
  <2>2. Min(free) \in free /\ free = Frames
    BY <1>2, <2>1, LowestNumber DEF SpawnTables, IInv, PhaseInv
  <2>3. Frames = free' \cup tables'
    BY <1>2, <2>2 DEF SpawnTables
  <2> QED BY <2>3 DEF Lost
<1>3. CASE MapOutOfMemory
  <2>1. /\ free' = {} /\ outOfMemory' = TRUE /\ UNCHANGED <<entries, tables>>
        /\ Cardinality(free) < FramesNeeded /\ free \subseteq Frames
    BY <1>3 DEF MapOutOfMemory, IInv, TypeInv, TypeOK
  <2>2. Lost' \subseteq Lost \cup free /\ Lost' \subseteq Frames
    BY <2>1, MappedAfter DEF Lost, FrameOf
  <2>3. free = {} \/ \E f \in Frames : free = {f}
    <3>1. IsFiniteSet(free)
      <4>1. IsFiniteSet(Frames)
        BY ProcessAssumption, FS_Interval DEF Frames
      <4> QED BY <2>1, <4>1, FS_Subset
    <3>2. Cardinality(free) \in Nat /\ FramesNeeded \in {1, 2}
      BY <3>1, FS_CardinalityType DEF FramesNeeded
    <3>3. Cardinality(free) = 0 \/ Cardinality(free) = 1
      BY <2>1, <3>2
    <3> QED BY <2>1, <3>1, <3>3, FS_EmptySet, FS_Singleton
  <2>4. \E f \in Frames : Lost' \subseteq {f}
    <3>1. CASE free = {}
      BY <3>1, <2>2, <1>6
    <3>2. CASE free # {}
      BY <3>2, <2>2, <2>3, <1>6
    <3> QED BY <3>1, <3>2
  <2> QED BY <2>1, <2>4
<1>4. CASE MapPage
  <2>1. Mapped' = Mapped \cup {NextPage} /\ NextPage \in UserPages /\ Mapped \subseteq UserPages
    BY <1>4, FramesAfter
  <2>2. \A p \in UserPages : FrameOf(p)' = IF p = NextPage THEN NewFrame ELSE FrameOf(p)
    BY <1>4, FramesAfter
  <2>3. NextPage \notin Mapped
    BY <1>0, <1>4, <2>1, MapPageStep DEF Mapped
  <2>4. /\ NewFrame \in free /\ NewTables \subseteq free \ {NewFrame}
        /\ free' = free \ ({NewFrame} \cup NewTables) /\ tables' = tables \cup NewTables
    BY <1>4, MapPageStep
  <2>5. Frames \subseteq free \cup tables \cup {FrameOf(p) : p \in Mapped}
    BY <1>6, <2>4 DEF Lost
  <2>6. {FrameOf(p)' : p \in Mapped'} = {FrameOf(p) : p \in Mapped} \cup {NewFrame}
    <3>1. \A p \in Mapped : FrameOf(p)' = FrameOf(p)
      BY <2>1, <2>2, <2>3
    <3>2. \A p \in Mapped' : FrameOf(p)' = IF p = NextPage THEN NewFrame ELSE FrameOf(p)
      BY <2>1, <2>2
    <3> QED BY <2>1, <2>3, <3>1, <3>2
  <2>7. Frames \subseteq free' \cup tables' \cup {FrameOf(p)' : p \in Mapped'}
    BY <2>4, <2>5, <2>6
  <2> QED BY <2>7 DEF Lost
<1>5. CASE CopySegment
  <2>1. /\ Mapped' = Mapped /\ UNCHANGED <<tables, free, outOfMemory>> /\ Mapped \subseteq UserPages
        /\ \A p \in UserPages : FrameOf(p)' = FrameOf(p)
    BY <1>5, CopyStep DEF Mapped
  <2>2. {FrameOf(p)' : p \in Mapped'} = {FrameOf(p) : p \in Mapped}
    BY <2>1
  <2>3. Lost' = Lost
    BY <2>1, <2>2 DEF Lost
  <2> QED BY <1>6, <2>1, <2>3
<1> QED BY <1>1, <1>2, <1>3, <1>4, <1>5, MemorySteps

\* A translation that was cached while a page had another frame is never used for a frame that
\* belongs to another page, a table or nobody.
LEMMA TlbStep == IInv /\ [Next]_vars => TlbInv'
<1> SUFFICES ASSUME IInv, [Next]_vars PROVE TlbInv'
  OBVIOUS
<1>0. /\ image' = image /\ TypeInv /\ TlbInv /\ FramesExclusive
      /\ \A p : (Replaced(p)' <=> Replaced(p))
      /\ Mapped \subseteq UserPages /\ \A p \in UserPages : p \in Mapped <=> FrameOf(p) # 0
  BY MemorySteps, SameImage DEF IInv, TypeInv, TypeOK, Mapped, Present, None, FrameOf
<1>1. \/ UNCHANGED <<tlb, entries, tables, free>>
      \/ tlb' = NoTlb
      \/ MapOutOfMemory \/ MapPage \/ CopySegment
      \/ /\ UNCHANGED <<entries, tables, free>>
         /\ \E p \in UserPages : TlbFill(p) \/ TlbEvict(p) \/ UserWrite(p)
  BY ProcessAssumption DEF Next, vars, Spawn, MapLoop, Syscall, loading, memory, calling,
     SpawnReject, SpawnTables, SkipHeader, RejectHeader, MapHeader, RejectCopy, SpawnDone,
     RunByPid, JumpUsermode, MapAlreadyMapped, MapDone, LoopFails, SyscallMapRefused,
     SyscallMapOverflow, SyscallMap, StartMap, SyscallUnmap, SyscallPrint, SyscallHalt,
     SyscallUnknown, Return, KernelPanics, TlbFill, TlbEvict, UserWrite
<1>2. CASE UNCHANGED <<tlb, entries, tables, free>>
  BY <1>0, <1>2, MappedAfter DEF TlbInv, FrameOf
<1>3. CASE tlb' = NoTlb
  BY <1>3 DEF TlbInv, NoTlb
<1>4. CASE MapOutOfMemory
  <2>1. Mapped' = Mapped /\ UNCHANGED <<tlb, entries, tables>> /\ free' = {}
    BY <1>4, MappedAfter DEF MapOutOfMemory
  <2> QED BY <1>0, <2>1 DEF TlbInv, FrameOf
<1>5. CASE MapPage
  <2>1. /\ Mapped' = Mapped \cup {NextPage} /\ NextPage \in UserPages
        /\ \A p \in UserPages : FrameOf(p)' = IF p = NextPage THEN NewFrame ELSE FrameOf(p)
    BY <1>5, FramesAfter
  <2>2. /\ NewFrame \in free /\ NewTables \subseteq free \ {NewFrame}
        /\ free' = free \ ({NewFrame} \cup NewTables) /\ tables' = tables \cup NewTables
    BY <1>5, MapPageStep
  <2>3. \E f \in {Cached, Target} : tlb' = [tlb EXCEPT ![NextPage] = f]
    BY <1>5, MapPageStep
  <2>4. /\ Cached # 0 => Cached = tlb[NextPage] /\ Replaced(NextPage)
        /\ Target = IF Cached # 0 THEN Cached ELSE NewFrame
    BY <1>5, MapPageStep
  <2>5. PICK f : /\ tlb' = [tlb EXCEPT ![NextPage] = f]
                 /\ f = 0 \/ f = NewFrame \/ (f = tlb[NextPage] /\ Replaced(NextPage))
    BY <2>3, <2>4
  <2>6. DOMAIN tlb = UserPages
    BY <1>0 DEF TypeInv, TypeOK
  <2> SUFFICES ASSUME NEW q \in UserPages, tlb'[q] # 0
               PROVE  /\ tlb'[q] \notin free' \cup tables'
                      /\ \A p \in Mapped' : FrameOf(p)' = tlb'[q] => p = q
                      /\ Replaced(q) \/ FrameOf(q)' = tlb'[q]
    BY <1>0 DEF TlbInv
  <2>7. CASE tlb'[q] = tlb[q] /\ (q = NextPage => Replaced(q))
    BY <1>0, <2>1, <2>2, <2>7 DEF TlbInv
  <2>8. CASE q = NextPage /\ tlb'[q] = NewFrame
    <3>1. \A p \in Mapped : FrameOf(p) # NewFrame
      BY <1>0, <2>2 DEF FramesExclusive
    <3>2. NewFrame \notin free' \cup tables'
      BY <1>0, <2>2 DEF FramesExclusive
    <3> QED BY <1>0, <2>1, <2>8, <3>1, <3>2
  <2> QED BY <2>1, <2>5, <2>6, <2>7, <2>8
<1>6. CASE CopySegment
  <2>1. /\ Mapped' = Mapped /\ HeaderPages(Header) \subseteq Mapped /\ UNCHANGED <<tables, free>>
        /\ \A p \in UserPages : FrameOf(p)' = FrameOf(p)
        /\ \A p \in UserPages :
              tlb'[p] = IF p \in HeaderPages(Header) THEN Translate(tlb[p], FrameOf(p)) ELSE tlb[p]
    BY <1>6, CopyStep
  <2>2. \A q \in UserPages : tlb'[q] = tlb[q] \/ (q \in Mapped /\ tlb'[q] = FrameOf(q))
    BY <2>1 DEF Translate
  <2> QED BY <1>0, <2>1, <2>2 DEF TlbInv, FramesExclusive
<1>7. ASSUME NEW p \in UserPages, UNCHANGED <<entries, tables, free>>,
             TlbFill(p) \/ TlbEvict(p) \/ UserWrite(p)
      PROVE  TlbInv'
  <2>1. Mapped' = Mapped /\ \A q : FrameOf(q)' = FrameOf(q)
    BY <1>7, MappedAfter DEF FrameOf
  <2>2. \A q \in UserPages :
           tlb'[q] = tlb[q] \/ tlb'[q] = 0 \/ (q \in Mapped /\ tlb'[q] = FrameOf(q))
    <3>1. DOMAIN tlb = UserPages
      BY <1>0 DEF TypeInv, TypeOK
    <3> QED BY <1>7, <3>1 DEF TlbFill, TlbEvict, UserWrite, Translate, Mapped, FrameOf
  <2> QED BY <1>0, <1>7, <2>1, <2>2 DEF TlbInv, FramesExclusive
<1> QED BY <1>1, <1>2, <1>3, <1>4, <1>5, <1>6, <1>7

\* The turn of a loop touches the contents of no frame that backs another page.
LEMMA OthersKept ==
  ASSUME IInv, MapPage, NEW p \in Mapped, p # NextPage
  PROVE  content'[FrameOf(p)] = content[FrameOf(p)]
<1>1. NewFrame \in free /\ NextPage \in UserPages /\ Target \in {NewFrame, tlb[NextPage]}
      /\ (Target # NewFrame => tlb[NextPage] # 0)
  BY MapPageStep
<1>2. FrameOf(p) # NewFrame
  BY <1>1 DEF IInv, FramesExclusive
<1>3. FrameOf(p) # Target
  BY <1>1, <1>2 DEF IInv, TlbInv
<1>4. content' = content \/ content' = [content EXCEPT ![Target] = {}]
  BY MapPageStep
<1>5. FrameOf(p) \in Frames /\ DOMAIN content = Frames
  BY DEF IInv, TypeInv, TypeOK, Mapped, FrameOf
<1> QED BY <1>3, <1>4, <1>5

\* Segments are numbered from 1, in the order of the program headers.
LEMMA Numbered ==
  ASSUME IInv
  PROVE  Segments \subseteq Nat \ {0} /\ segment \in Nat
<1>1. image \in Images /\ segment \in 1 .. Len(image.segments) + 1
  BY DEF IInv, TypeInv, TypeOK
<1>2. image.segments \in Seq([load : BOOLEAN, start : Nat, end : Nat, fileLen : Nat,
                              access : SUBSET Rights])
  BY <1>1, InputAssumption
<1> QED BY <1>1, <1>2 DEF Segments

\* Loading a segment, and then the stack, leaves the bytes and rights of the segments loaded before.
LEMMA LoadStep == IInv /\ [Next]_vars => LoadInv'
<1> SUFFICES ASSUME IInv, [Next]_vars PROVE LoadInv'
  OBVIOUS
<1>0. CASE UNCHANGED vars
  BY <1>0 DEF vars, IInv, LoadInv, Loading, Mapping, Present, FrameOf, Segments, Covers,
     Replaced
<1> USE DEF IInv, LoadInv, Loading, Mapping, loading, memory, calling
<1>1. CASE SpawnReject
  BY <1>1 DEF SpawnReject
<1>2. CASE SpawnTables
  <2>1. segment' = 1 /\ pc' = "header" /\ image' = image
    BY <1>2 DEF SpawnTables, PhaseInv
  <2>2. \A a \in Segments : ~(a < 1)
    BY Numbered
  <2>3. Segments' = Segments
    BY <2>1, SameImage
  <2> QED BY <2>1, <2>2, <2>3
<1>3. CASE SkipHeader
  <2>1. segment \in Segments /\ segment' = segment + 1 /\ UNCHANGED <<image, entries, content>>
        /\ pc = "header" /\ pc' = "header" /\ ~Header.load
    BY <1>3, HeaderType DEF SkipHeader
  <2>2. \A p : ~Covers(segment, p)
    BY <2>1 DEF Covers, Header
  <2>3. \A a \in Segments : a < segment' => a < segment \/ a = segment
    BY <2>1, Numbered
  <2> QED BY <2>1, <2>2, <2>3, SameImage DEF FrameOf, Present
<1>4. CASE RejectHeader
  BY <1>4 DEF RejectHeader
<1>5. CASE MapHeader
  <2>1. UNCHANGED <<image, segment, entries, content>> /\ Loading /\ pc' # "jump"
    BY <1>5 DEF MapHeader
  <2> QED BY <2>1, SameImage DEF FrameOf, Present
<1>6. CASE RejectCopy
  BY <1>6 DEF RejectCopy
<1>7. CASE CopySegment
  <2>1. /\ pc' = "header" /\ LoadingHeader /\ segment \in Segments /\ Mapped' = Mapped
        /\ HeaderPages(Header) \subseteq Mapped /\ segment' = segment + 1 /\ image' = image
        /\ Loading
    BY <1>7, CopyStep
  <2>2. \A p \in UserPages :
           /\ FrameOf(p)' = FrameOf(p)
           /\ entries'[p].flags = IF p \in HeaderPages(Header) THEN HeaderFlags(Header)
                                  ELSE entries[p].flags
    BY <1>7, CopyStep
  <2>3. \A f \in Frames :
           content'[f] = IF \E p \in HeaderPages(Header) : Translate(tlb[p], FrameOf(p)) = f
                         THEN content[f] \cup {segment} ELSE content[f]
    BY <1>7, CopyStep
  <2>4. \A p \in Mapped : FrameOf(p) \in Frames
    BY DEF TypeInv, TypeOK, Mapped, FrameOf
  <2> SUFFICES ASSUME NEW a \in Segments, NEW p \in UserPages, a < segment', Covers(a, p), ~Replaced(p)
               PROVE  /\ Present(p)' /\ a \in content'[FrameOf(p)']
                      /\ entries'[p].flags = HeaderFlags(image.segments[a])
    BY <2>1, SameImage
  <2>5. CASE a = segment
    <3>1. p \in HeaderPages(Header) /\ HeaderFlags(Header) = HeaderFlags(image.segments[a])
      BY <2>5 DEF Covers, Header
    <3>2. p \in Mapped /\ p \in Mapped'
      BY <2>1, <3>1
    <3>3. Translate(tlb[p], FrameOf(p)) = FrameOf(p)
      BY DEF TlbInv, Translate
    <3>4. content'[FrameOf(p)] = content[FrameOf(p)] \cup {segment}
      BY <2>3, <2>4, <3>1, <3>2, <3>3
    <3> QED BY <2>2, <2>5, <3>1, <3>2, <3>4 DEF Mapped
  <2>6. CASE a # segment
    <3>1. a < segment
      BY <2>1, <2>6, Numbered
    <3>2. Present(p) /\ a \in content[FrameOf(p)] /\ entries[p].flags = HeaderFlags(image.segments[a])
      BY <2>1, <3>1
    <3>3. p \notin HeaderPages(Header)
      BY <2>1, <2>6 DEF Replaced, Covers, LoadingHeader, Header
    <3>4. p \in Mapped /\ p \in Mapped'
      BY <2>1, <3>2 DEF Mapped
    <3>5. a \in content'[FrameOf(p)]
      <4>1. \A f \in Frames : content[f] \subseteq content'[f]
        <5> TAKE f \in Frames
        <5>1. content'[f] = content[f] \cup {segment} \/ content'[f] = content[f]
          BY <2>3
        <5> QED BY <5>1
      <4> QED BY <2>4, <3>2, <3>4, <4>1
    <3> QED BY <2>2, <3>2, <3>3, <3>4, <3>5 DEF Mapped
  <2> QED BY <2>5, <2>6
<1>8. CASE SpawnDone
  <2>1. UNCHANGED <<image, segment, entries, content>> /\ Loading /\ pc' # "jump"
    BY <1>8 DEF SpawnDone
  <2> QED BY <2>1, SameImage DEF FrameOf, Present
<1>9. CASE RunByPid
  <2>1. UNCHANGED <<image, segment, entries, content>> /\ Loading /\ pc' # "jump"
    BY <1>9 DEF RunByPid
  <2> QED BY <2>1, SameImage DEF FrameOf, Present
<1>10. CASE JumpUsermode
  BY <1>10 DEF JumpUsermode
<1>11. CASE MapAlreadyMapped
  BY <1>11 DEF MapAlreadyMapped, LoopFails
<1>12. CASE MapOutOfMemory
  BY <1>12 DEF MapOutOfMemory, MayMap, LoopFails
<1>13. CASE MapPage
  <2>1. /\ pc = "map" /\ pc' \in {"map", "panicked"} /\ todo'.then = todo.then
        /\ UNCHANGED <<image, segment>>
    BY <1>13, MapPageStep, LoopAdvances
  <2> SUFFICES ASSUME NEW a \in Segments, NEW p \in UserPages, a < segment, Covers(a, p),
                      ~Replaced(p), Loading
               PROVE  /\ Present(p)' /\ a \in content'[FrameOf(p)']
                      /\ entries'[p].flags = HeaderFlags(image.segments[a])
    BY <2>1, SameImage
  <2>2. Present(p) /\ a \in content[FrameOf(p)] /\ entries[p].flags = HeaderFlags(image.segments[a])
    OBVIOUS
  <2>3. p # NextPage
    BY <1>13, <2>2, MapPageStep
  <2>4. entries'[p] = entries[p] /\ FrameOf(p)' = FrameOf(p)
    BY <1>13, <2>3, FramesAfter
  <2>5. content'[FrameOf(p)] = content[FrameOf(p)]
    BY <1>13, <2>2, <2>3, OthersKept DEF Mapped
  <2> QED BY <2>2, <2>4, <2>5 DEF Present
<1>14. CASE MapDone
  <2>1. pc = "map" /\ todo.pages = <<>> /\ pc' = todo.then
        /\ UNCHANGED <<image, segment, entries, content>>
    BY <1>14 DEF MapDone
  <2>2. todo.then \in {"copy", "jump", "user"}
    BY DEF TypeInv, Loop
  <2>3. CASE todo.then = "jump"
    <3>1. LoopDone = StackPages
      BY <2>1, <2>3, LoopPosition DEF LoopFirst, LoopLast, StackPages
    <3>2. \A p \in StackPages : /\ Present(p) /\ entries[p].flags = {"user", "writable"}
                                /\ ~Replaced(p) => content[FrameOf(p)] = {}
      BY <2>1, <2>3, <3>1 DEF LoopInv, ZeroInv, PhaseInv
    <3> QED BY <2>1, <2>3, <3>2, SameImage DEF FrameOf, Present
  <2>4. CASE todo.then = "copy"
    BY <2>1, <2>4, SameImage DEF FrameOf, Present
  <2>5. CASE todo.then = "user"
    BY <2>1, <2>5
  <2> QED BY <2>2, <2>3, <2>4, <2>5
<1>15. ASSUME NEW r \in MapRequests, SyscallMapRefused(r) PROVE LoadInv'
  BY <1>15 DEF SyscallMapRefused, CalledWith, Called, Return
<1>16. ASSUME NEW r \in MapRequests, SyscallMapOverflow(r) PROVE LoadInv'
  BY <1>16 DEF SyscallMapOverflow, CalledWith, Called, KernelPanics
<1>17. ASSUME NEW r \in MapRequests, SyscallMap(r) PROVE LoadInv'
  BY <1>17 DEF SyscallMap, StartMap, CalledWith, Called
<1>18. ASSUME NEW r \in MapRequests, SyscallUnmap(r) PROVE LoadInv'
  BY <1>18 DEF SyscallUnmap, CalledWith, Called, Return, KernelPanics
<1>19. ASSUME NEW r \in PrintRequests, SyscallPrint(r) PROVE LoadInv'
  BY <1>19 DEF SyscallPrint, Called, Return
<1>20. CASE SyscallHalt
  BY <1>20 DEF SyscallHalt
<1>21. CASE SyscallUnknown
  BY <1>21 DEF SyscallUnknown, Called, KernelPanics
<1>22. ASSUME NEW p \in UserPages, TlbFill(p) PROVE LoadInv'
  <2>1. UNCHANGED <<pc, image, segment, todo, call, entries, tables, free, content>>
    BY <1>22 DEF TlbFill
  <2>2. UNCHANGED <<LoopFirst, LoopLast, NextPage, LoopDone, Header, LoadedPages>>
    BY <2>1, SameLoop
  <2> QED BY <2>1, SameImage DEF FrameOf, Present
<1>23. ASSUME NEW p \in UserPages, TlbEvict(p) PROVE LoadInv'
  <2>1. UNCHANGED <<pc, image, segment, todo, call, entries, tables, free, content>>
    BY <1>23 DEF TlbEvict
  <2>2. UNCHANGED <<LoopFirst, LoopLast, NextPage, LoopDone, Header, LoadedPages>>
    BY <2>1, SameLoop
  <2> QED BY <2>1, SameImage DEF FrameOf, Present
<1>24. ASSUME NEW p \in WrittenPages, UserWrite(p) PROVE LoadInv'
  BY <1>24 DEF UserWrite
<1> QED
  BY <1>0, <1>1, <1>2, <1>3, <1>4, <1>5, <1>6, <1>7, <1>8, <1>9, <1>10, <1>11, <1>12, <1>13,
     <1>14, <1>15, <1>16, <1>17, <1>18, <1>19, <1>20, <1>21, <1>22, <1>23, <1>24
     DEF Next, Spawn, MapLoop, Syscall

\* What setup and Map have mapped so far is zero, in the frame that the page has.
LEMMA ZeroStep == IInv /\ [Next]_vars => ZeroInv'
<1> SUFFICES ASSUME IInv, [Next]_vars PROVE ZeroInv'
  OBVIOUS
<1>0. CASE UNCHANGED vars
  BY <1>0 DEF vars, IInv, ZeroInv, Mapping, FrameOf, Replaced, Segments, Covers, LoopDone,
     LoopFirst, LoopLast, NextPage, Header
<1> USE DEF IInv, ZeroInv, Mapping, loading, memory, calling
<1>1. CASE SpawnReject
  BY <1>1 DEF SpawnReject
<1>2. CASE SpawnTables
  BY <1>2 DEF SpawnTables
<1>3. CASE SkipHeader
  BY <1>3 DEF SkipHeader
<1>4. CASE RejectHeader
  BY <1>4 DEF RejectHeader
<1>5. CASE MapHeader
  BY <1>5, LoopStarts DEF MapHeader
<1>6. CASE RejectCopy
  BY <1>6 DEF RejectCopy
<1>7. CASE CopySegment
  BY <1>7 DEF CopySegment, CopyAndSet
<1>8. CASE SpawnDone
  BY <1>8 DEF SpawnDone
<1>9. CASE RunByPid
  BY <1>9, LoopStarts DEF RunByPid
<1>10. CASE JumpUsermode
  BY <1>10 DEF JumpUsermode
<1>11. CASE MapAlreadyMapped
  BY <1>11 DEF MapAlreadyMapped, LoopFails
<1>12. CASE MapOutOfMemory
  BY <1>12 DEF MapOutOfMemory, MayMap, LoopFails
<1>13. CASE MapPage
  <2>1. /\ pc = "map" /\ todo'.then = todo.then /\ pc' = IF Faults THEN "panicked" ELSE "map"
        /\ LoopDone' = LoopDone \cup {NextPage} /\ image' = image
    BY <1>13, LoopAdvances, MapPageStep
  <2> SUFFICES ASSUME ~Faults, todo.then \in {"jump", "user"},
                      NEW p \in LoopDone', Replaced(p) => todo.then = "user"
               PROVE  content'[FrameOf(p)'] = {}
    BY <2>1, SameImage
  <2>2. todo.zero /\ (todo.then = "user" => todo.invalidate)
    BY <2>1 DEF PhaseInv
  <2>3. content' = [content EXCEPT ![Target] = {}] /\ NewFrame \in Frames /\ NextPage \in UserPages
    BY <1>13, <2>2, MapPageStep
  <2>4. DOMAIN content = Frames
    BY DEF TypeInv, TypeOK
  <2>5. CASE p = NextPage
    <3>1. Target = NewFrame
      BY <1>13, <2>2, <2>5, MapPageStep
    <3>2. FrameOf(p)' = NewFrame
      BY <1>13, <2>3, <2>5, FramesAfter
    <3> QED BY <2>3, <2>4, <3>1, <3>2
  <2>6. CASE p # NextPage
    <3>1. p \in LoopDone /\ p \in UserPages /\ Present(p)
      BY <2>1, <2>6, LoopPosition DEF LoopInv
    <3>2. content[FrameOf(p)] = {}
      BY <2>1, <3>1
    <3>3. FrameOf(p)' = FrameOf(p) /\ content'[FrameOf(p)] = content[FrameOf(p)]
      BY <1>13, <2>6, <3>1, FramesAfter, OthersKept DEF Mapped
    <3> QED BY <3>2, <3>3
  <2> QED BY <2>5, <2>6
<1>14. CASE MapDone
  BY <1>14 DEF MapDone, TypeInv, Loop
<1>15. ASSUME NEW r \in MapRequests, SyscallMapRefused(r) PROVE ZeroInv'
  BY <1>15 DEF SyscallMapRefused, CalledWith, Called, Return
<1>16. ASSUME NEW r \in MapRequests, SyscallMapOverflow(r) PROVE ZeroInv'
  BY <1>16 DEF SyscallMapOverflow, CalledWith, Called, KernelPanics
<1>17. ASSUME NEW r \in MapRequests, SyscallMap(r) PROVE ZeroInv'
  BY <1>17, LoopStarts DEF SyscallMap, StartMap, CalledWith, Called
<1>18. ASSUME NEW r \in MapRequests, SyscallUnmap(r) PROVE ZeroInv'
  BY <1>18 DEF SyscallUnmap, CalledWith, Called, Return, KernelPanics
<1>19. ASSUME NEW r \in PrintRequests, SyscallPrint(r) PROVE ZeroInv'
  BY <1>19 DEF SyscallPrint, Called, Return
<1>20. CASE SyscallHalt
  BY <1>20 DEF SyscallHalt
<1>21. CASE SyscallUnknown
  BY <1>21 DEF SyscallUnknown, Called, KernelPanics
<1>22. ASSUME NEW p \in UserPages, TlbFill(p) PROVE ZeroInv'
  <2>1. UNCHANGED <<pc, image, segment, todo, call, entries, tables, free, content>>
    BY <1>22 DEF TlbFill
  <2>2. UNCHANGED <<LoopFirst, LoopLast, NextPage, LoopDone, Header, LoadedPages>>
    BY <2>1, SameLoop
  <2> QED BY <2>1, <2>2, SameImage DEF FrameOf
<1>23. ASSUME NEW p \in UserPages, TlbEvict(p) PROVE ZeroInv'
  <2>1. UNCHANGED <<pc, image, segment, todo, call, entries, tables, free, content>>
    BY <1>23 DEF TlbEvict
  <2>2. UNCHANGED <<LoopFirst, LoopLast, NextPage, LoopDone, Header, LoadedPages>>
    BY <2>1, SameLoop
  <2> QED BY <2>1, <2>2, SameImage DEF FrameOf
<1>24. ASSUME NEW p \in WrittenPages, UserWrite(p) PROVE ZeroInv'
  BY <1>24 DEF UserWrite
<1> QED
  BY <1>0, <1>1, <1>2, <1>3, <1>4, <1>5, <1>6, <1>7, <1>8, <1>9, <1>10, <1>11, <1>12, <1>13,
     <1>14, <1>15, <1>16, <1>17, <1>18, <1>19, <1>20, <1>21, <1>22, <1>23, <1>24
     DEF Next, Spawn, MapLoop, Syscall

\* What a Map call has mapped when it returns 0 is all that it was asked for.
LEMMA DeliversStep == IInv /\ [Next]_vars => MapDelivers'
<1> SUFFICES ASSUME IInv, [Next]_vars PROVE MapDelivers'
  OBVIOUS
<1>0. CASE UNCHANGED vars
  BY <1>0 DEF vars, IInv, MapDelivers, Present, Wraps
<1> USE DEF IInv, MapDelivers, PhaseInv, Mapping, NoCall, loading, memory, calling
<1>1. CASE SpawnReject
  BY <1>1 DEF SpawnReject
<1>2. CASE SpawnTables
  BY <1>2 DEF SpawnTables
<1>3. CASE SkipHeader
  BY <1>3 DEF SkipHeader
<1>4. CASE RejectHeader
  BY <1>4 DEF RejectHeader
<1>5. CASE MapHeader
  BY <1>5 DEF MapHeader
<1>6. CASE RejectCopy
  BY <1>6 DEF RejectCopy
<1>7. CASE CopySegment
  BY <1>7 DEF CopySegment, CopyAndSet
<1>8. CASE SpawnDone
  BY <1>8 DEF SpawnDone
<1>9. CASE RunByPid
  BY <1>9 DEF RunByPid
<1>10. CASE JumpUsermode
  BY <1>10 DEF JumpUsermode
<1>11. CASE MapAlreadyMapped
  BY <1>11 DEF MapAlreadyMapped, LoopFails, TypeInv, Loop
<1>12. CASE MapOutOfMemory
  BY <1>12 DEF MapOutOfMemory, MayMap, LoopFails, TypeInv, Loop
<1>13. CASE MapPage
  <2>1. pc = "map" /\ UNCHANGED call /\ (pc' = "map" \/ (pc' = "panicked" /\ Faults))
    BY <1>13, MapPageStep
  <2>2. call.name = "map" => todo.flags = call.flags
    BY <2>1 DEF TypeInv, Loop
  <2> QED BY <2>1, <2>2 DEF Faults
<1>14. CASE MapDone
  <2>1. pc = "map" /\ todo.pages = <<>> /\ pc' = todo.then /\ UNCHANGED <<call, entries>>
    BY <1>14 DEF MapDone
  <2>2. todo.then \in {"copy", "jump", "user"}
    BY DEF TypeInv, Loop
  <2>3. CASE todo.then = "user"
    <3>1. LoopDone = call.first .. (call.last % NumberSpace) /\ call.last \in Nat /\ call.first \in Nat
      BY <2>1, <2>3, LoopPosition DEF LoopFirst, LoopLast
    <3>2. ~Wraps => call.last % NumberSpace = call.last
      <4>0. NumberSpace \in Nat
        BY Constants
      <4>1. ~Wraps => call.last < NumberSpace
        <5> HIDE DEF IInv, MapDelivers, PhaseInv
        <5> QED BY <3>1, <4>0 DEF Wraps
      <4>2. call.last < NumberSpace => call.last % NumberSpace = call.last
        BY <3>1, Constants, SmallRemainder
      <4> QED BY <4>1, <4>2
    <3>3. ~Wraps => \A p \in call.first .. call.last : Present(p) /\ entries[p].flags = call.flags
      BY <2>1, <2>3, <3>1, <3>2 DEF LoopInv
    <3> QED BY <2>1, <2>3, <3>3 DEF Present, Wraps
  <2>4. CASE todo.then # "user"
    BY <2>1, <2>2, <2>4
  <2> QED BY <2>3, <2>4
<1>15. ASSUME NEW r \in MapRequests, SyscallMapRefused(r) PROVE MapDelivers'
  <2>1. pc' = "user" /\ ret' \in {-3, -4}
    BY <1>15 DEF SyscallMapRefused, Return, BadArgumentsCode
  <2> QED BY <2>1
<1>16. ASSUME NEW r \in MapRequests, SyscallMapOverflow(r) PROVE MapDelivers'
  <2>1. pc' = "panicked" /\ call'.last >= PageSpace
    BY <1>16 DEF SyscallMapOverflow, KernelPanics, CalledWith, Called, Overflows
  <2> QED BY <2>1
<1>17. ASSUME NEW r \in MapRequests, SyscallMap(r) PROVE MapDelivers'
  BY <1>17 DEF SyscallMap, StartMap, CalledWith, Called
<1>18. ASSUME NEW r \in MapRequests, SyscallUnmap(r) PROVE MapDelivers'
  BY <1>18 DEF SyscallUnmap, CalledWith, Called, Return, KernelPanics
<1>19. ASSUME NEW r \in PrintRequests, SyscallPrint(r) PROVE MapDelivers'
  BY <1>19 DEF SyscallPrint, Called, Return
<1>20. CASE SyscallHalt
  BY <1>20 DEF SyscallHalt
<1>21. CASE SyscallUnknown
  BY <1>21 DEF SyscallUnknown, Called, KernelPanics
<1>22. ASSUME NEW p \in UserPages, TlbFill(p) PROVE MapDelivers'
  BY <1>22 DEF TlbFill, Present, Wraps
<1>23. ASSUME NEW p \in UserPages, TlbEvict(p) PROVE MapDelivers'
  BY <1>23 DEF TlbEvict, Present, Wraps
<1>24. ASSUME NEW p \in WrittenPages, UserWrite(p) PROVE MapDelivers'
  BY <1>24 DEF UserWrite, Present, Wraps
<1> QED
  BY <1>0, <1>1, <1>2, <1>3, <1>4, <1>5, <1>6, <1>7, <1>8, <1>9, <1>10, <1>11, <1>12, <1>13,
     <1>14, <1>15, <1>16, <1>17, <1>18, <1>19, <1>20, <1>21, <1>22, <1>23, <1>24
     DEF Next, Spawn, MapLoop, Syscall

\* Pages and the addresses in them.
LEMMA PageOf ==
  /\ \A a, b \in Nat : a <= b => containing_address(a) <= containing_address(b)
  /\ \A a, m \in Nat : containing_address(a) < m <=> a < PageBytes * m
  /\ \A m \in Nat : containing_address(PageBytes * m) = m
<1>1. PageBytes \in Nat \ {0}
  BY Constants
<1>2. \A a, b \in Nat : a <= b => containing_address(a) <= containing_address(b)
  BY <1>1, QuotientMonotone DEF containing_address
<1>3. \A a, m \in Nat : containing_address(a) < m <=> a < PageBytes * m
  BY <1>1, QuotientBelow DEF containing_address
<1>4. ASSUME NEW m \in Nat PROVE containing_address(PageBytes * m) = m
  <2>1. (PageBytes * m + 0) \div PageBytes = m /\ PageBytes * m + 0 = PageBytes * m
    BY <1>1, QuotientIs
  <2> QED BY <2>1 DEF containing_address
<1> QED BY <1>2, <1>3, <1>4

\* The checks of try_from_user, which look at pages, say the same as looking at every byte.
LEMMA BufferBytes ==
  ASSUME IInv, NEW ptr \in Nat, NEW len \in Nat
  PROVE  BufferOk(ptr, len) <=>
            /\ 0 < ptr /\ ptr <= ptr + len - 1
            /\ \A b \in ptr .. ptr + len - 1 :
                  /\ containing_address(b) \in Mapped
                  /\ "user" \in entries[containing_address(b)].flags
<1> DEFINE end == ptr + len - 1
           Byte(b) == containing_address(b) \in Mapped
                      /\ "user" \in entries[containing_address(b)].flags
<1>0. /\ PageBytes \in Nat \ {0} /\ LastUsablePage \in Nat /\ UserPages = 0 .. LastUsablePage
      /\ \A a \in Nat : containing_address(a) \in Nat
  BY Constants DEF UserPages
<1>1. ASSUME BufferOk(ptr, len) PROVE 0 < ptr /\ ptr <= end /\ \A b \in ptr .. end : Byte(b)
  <2>1. ptr # 0 /\ len # 0 /\ end < (LastUsablePage + 1) * PageBytes
    BY <1>1 DEF BufferOk
  <2>2. \A p \in containing_address(ptr) .. containing_address(end) :
           Present(p) /\ "user" \in entries[p].flags
    BY <1>1 DEF BufferOk
  <2>3. end \in Nat /\ ptr <= end
    BY <2>1
  <2> HIDE DEF end
  <2> SUFFICES ASSUME NEW b \in ptr .. end PROVE Byte(b)
    BY <2>1, <2>3
  <2>4. b \in Nat /\ ptr <= b /\ b <= end
    BY <2>3
  <2>5. containing_address(b) \in containing_address(ptr) .. containing_address(end)
    <3>1. containing_address(ptr) <= containing_address(b)
      BY <2>4, PageOf
    <3>2. containing_address(b) <= containing_address(end)
      BY <2>3, <2>4, PageOf
    <3>3. containing_address(ptr) \in Nat /\ containing_address(b) \in Nat
          /\ containing_address(end) \in Nat
      BY <1>0, <2>3, <2>4
    <3> QED BY <3>1, <3>2, <3>3
  <2>6. end < PageBytes * (LastUsablePage + 1)
    BY <1>0, <2>1
  <2>7. containing_address(end) < LastUsablePage + 1
    BY <1>0, <2>3, <2>6, PageOf
  <2>8. containing_address(b) \in UserPages
    BY <1>0, <2>3, <2>4, <2>5, <2>7
  <2> QED BY <2>2, <2>5, <2>8 DEF Mapped
<1>2. ASSUME 0 < ptr, ptr <= end, \A b \in ptr .. end : Byte(b) PROVE BufferOk(ptr, len)
  <2>1. end \in Nat /\ ptr \in ptr .. end /\ end \in ptr .. end /\ len <= end
    BY <1>2
  <2>2. containing_address(end) \in UserPages
    BY <1>2, <2>1 DEF Mapped
  <2>3. end < PageBytes * (LastUsablePage + 1)
    <3> HIDE DEF end
    <3>1. containing_address(end) < LastUsablePage + 1
      BY <1>0, <2>2
    <3> QED BY <1>0, <2>1, <3>1, PageOf
  <2>4. end < (LastUsablePage + 1) * PageBytes
    <3> HIDE DEF end
    <3> QED BY <1>0, <2>3
  <2>5. len < NumberSpace \div 2 /\ end < NumberSpace
    <3>1. 2 * (LastUsablePage + 1) <= PageSpace /\ PageSpace \in Nat
      BY ProcessAssumption
    <3>2. PageBytes * (2 * (LastUsablePage + 1)) <= PageBytes * PageSpace
      BY <1>0, <3>1, ProductMonotone
    <3> DEFINE half == PageBytes * (LastUsablePage + 1)
    <3>3. PageBytes * (2 * (LastUsablePage + 1)) = 2 * half /\ half \in Nat
      BY <1>0
    <3>4. NumberSpace = PageBytes * PageSpace /\ NumberSpace \in Nat
      BY <1>0, <3>1 DEF NumberSpace
    <3> HIDE DEF half, end
    <3>5. 2 * half <= NumberSpace
      BY <3>2, <3>3, <3>4
    <3> QED BY <2>1, <2>3, <3>3, <3>4, <3>5 DEF half
  <2>6. ASSUME NEW p \in containing_address(ptr) .. containing_address(end)
        PROVE  Present(p) /\ "user" \in entries[p].flags
    <3>1. p \in Nat /\ containing_address(ptr) <= p /\ p <= containing_address(end)
      BY <1>0, <2>1, <2>6
    <3>2. CASE p = containing_address(ptr)
      BY <1>2, <2>1, <3>2 DEF Mapped
    <3>3. CASE containing_address(ptr) < p
      <4> DEFINE b == PageBytes * p
      <4>1. b \in Nat /\ containing_address(b) = p
        BY <1>0, <3>1, PageOf
      <4>2. ptr < PageBytes * p
        BY <1>0, <3>1, <3>3, PageOf
      <4>3. ~(end < PageBytes * p)
        <5> HIDE DEF end
        <5> QED BY <1>0, <2>1, <3>1, PageOf
      <4>4. b \in ptr .. end
        <5> HIDE DEF end
        <5> QED BY <1>0, <2>1, <3>1, <4>2, <4>3
      <4> HIDE DEF b
      <4> QED BY <1>2, <4>1, <4>4 DEF Mapped
    <3> QED BY <1>0, <2>1, <3>1, <3>2, <3>3
  <2>7. ptr # 0 /\ len # 0
    BY <1>2
  <2> QED BY <2>4, <2>5, <2>6, <2>7 DEF BufferOk
<1> QED BY <1>1, <1>2

\* Print's answer stays right while the process runs, as only system calls change what is mapped.
LEMMA PrintStep == IInv /\ [Next]_vars => PrintReadsExactlyUserMemory'
<1> SUFFICES ASSUME IInv, [Next]_vars PROVE PrintReadsExactlyUserMemory'
  OBVIOUS
<1>0. CASE UNCHANGED vars
  BY <1>0 DEF vars, IInv, PrintReadsExactlyUserMemory, Mapped, Present
<1> USE DEF IInv, PrintReadsExactlyUserMemory, PhaseInv, Mapping, NoCall, loading, memory,
        calling
<1>1. CASE SpawnReject
  BY <1>1 DEF SpawnReject
<1>2. CASE SpawnTables
  BY <1>2 DEF SpawnTables
<1>3. CASE SkipHeader
  BY <1>3 DEF SkipHeader
<1>4. CASE RejectHeader
  BY <1>4 DEF RejectHeader
<1>5. CASE MapHeader
  BY <1>5 DEF MapHeader
<1>6. CASE RejectCopy
  BY <1>6 DEF RejectCopy
<1>7. CASE CopySegment
  BY <1>7 DEF CopySegment, CopyAndSet
<1>8. CASE SpawnDone
  BY <1>8 DEF SpawnDone
<1>9. CASE RunByPid
  BY <1>9 DEF RunByPid
<1>10. CASE JumpUsermode
  BY <1>10 DEF JumpUsermode
<1>11. CASE MapAlreadyMapped
  BY <1>11 DEF MapAlreadyMapped, LoopFails, TypeInv, Loop
<1>12. CASE MapOutOfMemory
  BY <1>12 DEF MapOutOfMemory, MayMap, LoopFails, TypeInv, Loop
<1>13. CASE MapPage
  <2>1. pc' # "user"
    BY <1>13, MapPageStep
  <2> QED BY <2>1
<1>14. CASE MapDone
  BY <1>14 DEF MapDone, TypeInv, Loop
<1>15. ASSUME NEW r \in MapRequests, SyscallMapRefused(r) PROVE PrintReadsExactlyUserMemory'
  BY <1>15 DEF SyscallMapRefused, CalledWith, Called, Return, CalledWith, Called, Return
<1>16. ASSUME NEW r \in MapRequests, SyscallMapOverflow(r) PROVE PrintReadsExactlyUserMemory'
  BY <1>16 DEF SyscallMapOverflow, CalledWith, Called, KernelPanics
<1>17. ASSUME NEW r \in MapRequests, SyscallMap(r) PROVE PrintReadsExactlyUserMemory'
  BY <1>17 DEF SyscallMap, StartMap, CalledWith, Called
<1>18. ASSUME NEW r \in MapRequests, SyscallUnmap(r) PROVE PrintReadsExactlyUserMemory'
  BY <1>18 DEF SyscallUnmap, CalledWith, Called, Return, KernelPanics
<1>19. ASSUME NEW r \in PrintRequests, SyscallPrint(r) PROVE PrintReadsExactlyUserMemory'
  <2>1. r \in [ptr : Nat, len : Nat]
    BY InputAssumption
  <2>2. call'.first = r.ptr /\ call'.last = r.ptr + r.len - 1 /\ UNCHANGED entries
    BY <1>19 DEF SyscallPrint, Called, Return
  <2>3. ret' # -1 <=> BufferOk(r.ptr, r.len)
    BY <1>19 DEF SyscallPrint, Return
  <2>4. Mapped' = Mapped
    BY <2>2, MappedAfter
  <2>5. r.ptr \in Nat /\ r.len \in Nat
    BY <2>1
  <2>6. BufferOk(r.ptr, r.len) <=>
           /\ 0 < r.ptr /\ r.ptr <= r.ptr + r.len - 1
           /\ \A b \in r.ptr .. r.ptr + r.len - 1 :
                 /\ containing_address(b) \in Mapped
                 /\ "user" \in entries[containing_address(b)].flags
    BY <2>5, BufferBytes
  <2> QED BY <2>2, <2>3, <2>4, <2>6
<1>20. CASE SyscallHalt
  BY <1>20 DEF SyscallHalt
<1>21. CASE SyscallUnknown
  BY <1>21 DEF SyscallUnknown, Called, KernelPanics
<1>22. ASSUME NEW p \in UserPages, TlbFill(p) PROVE PrintReadsExactlyUserMemory'
  BY <1>22, MappedAfter DEF TlbFill
<1>23. ASSUME NEW p \in UserPages, TlbEvict(p) PROVE PrintReadsExactlyUserMemory'
  BY <1>23, MappedAfter DEF TlbEvict
<1>24. ASSUME NEW p \in WrittenPages, UserWrite(p) PROVE PrintReadsExactlyUserMemory'
  BY <1>24, MappedAfter DEF UserWrite
<1> QED
  BY <1>0, <1>1, <1>2, <1>3, <1>4, <1>5, <1>6, <1>7, <1>8, <1>9, <1>10, <1>11, <1>12, <1>13,
     <1>14, <1>15, <1>16, <1>17, <1>18, <1>19, <1>20, <1>21, <1>22, <1>23, <1>24
     DEF Next, Spawn, MapLoop, Syscall

\* kmain starts with nothing mapped and every frame free.
LEMMA InitInv == Init => IInv
<1> SUFFICES ASSUME Init PROVE IInv
  OBVIOUS
<1> USE DEF Init
<1>1. \A p \in UserPages : ~Present(p) /\ entries[p] = None
  BY DEF Present
<1>2. Mapped = {}
  BY <1>1 DEF Mapped
<1>3. TypeInv
  <2>1. Len(image.segments) \in Nat
    BY InputAssumption
  <2>2. todo \in Loop /\ todo.pages = <<>>
    BY LoopOver
  <2>3. call \in Calls
    BY DEF NoCall, Calls
  <2>4. tlb \in [UserPages -> Frames \cup {0}] /\ content \in [Frames -> SUBSET Int]
    BY DEF NoTlb, OldData
  <2>5. entries \in [UserPages -> [frame : Frames \cup {0}, flags : SUBSET Flags]]
    BY DEF None
  <2>6. TypeOK
    BY <1>1, <2>1, <2>2, <2>4 DEF TypeOK
  <2> QED BY <1>1, <2>2, <2>3, <2>4, <2>5, <2>6 DEF TypeInv
<1>4. PhaseInv /\ LoopInv /\ MappedInv
  BY <1>2 DEF PhaseInv, LoopInv, MappedInv, Mapping
<1>5. FramesExclusive /\ TlbInv /\ NoFrameLeaked
  BY <1>2 DEF FramesExclusive, TlbInv, NoFrameLeaked, Lost, NoTlb
<1>6. LoadInv /\ ZeroInv /\ MapDelivers /\ PrintReadsExactlyUserMemory
  BY DEF LoadInv, Loading, ZeroInv, Mapping, MapDelivers, PrintReadsExactlyUserMemory
<1> QED BY <1>3, <1>4, <1>5, <1>6 DEF IInv

(***************************************************************************)
(* Theorems.                                                               *)
(***************************************************************************)

\* The inductive invariant holds in every reachable state.
THEOREM Invariance == Spec => []IInv
<1>1. IInv /\ [Next]_vars => IInv'
  BY TypeStep, PhaseStep, LoopStep, MappedStep, ExclusiveStep, TlbStep, LeakStep, LoadStep,
     ZeroStep, DeliversStep, PrintStep DEF IInv
<1> QED BY <1>1, InitInv, PTL DEF Spec

\* The loader, Map and the stack set-up map usable pages of the lower half only, and the
\* system calls return the codes of syscall.rs.
THEOREM TypeCorrect == Spec => []TypeOK
<1>1. IInv => TypeOK
  BY DEF IInv, TypeInv
<1> QED BY <1>1, Invariance, PTL

\* No frame ever backs two pages, or a page and a page table, or is mapped and free.
THEOREM NeverShared == Spec => []FramesExclusive
<1>1. IInv => FramesExclusive
  BY DEF IInv
<1> QED BY <1>1, Invariance, PTL

\* The error paths of the loader and of Map (page_map.rs map) lose no frame but the last one, once.
THEOREM NothingLeaked == Spec => []NoFrameLeaked
<1>1. IInv => NoFrameLeaked
  BY DEF IInv
<1> QED BY <1>1, Invariance, PTL

\* The process starts with its segments as they were linked, and with a clear stack.
THEOREM StartsAsLinked == Spec => []LoadedAsLinked
<1>1. IInv => LoadedAsLinked
  <2> SUFFICES ASSUME IInv, pc = "jump"
               PROVE  /\ \A a \in Segments, p \in UserPages :
                            Covers(a, p) /\ ~Replaced(p) =>
                               /\ a \in content[FrameOf(p)]
                               /\ entries[p].flags = HeaderFlags(image.segments[a])
                      /\ \A p \in StackPages :
                            /\ entries[p].flags = {"user", "writable"}
                            /\ ~Replaced(p) => content[FrameOf(p)] = {}
    BY DEF LoadedAsLinked
  <2>1. image \in Images /\ segment = Len(image.segments) + 1
    BY DEF IInv, TypeInv, TypeOK, PhaseInv
  <2>2. image.segments \in Seq([load : BOOLEAN, start : Nat, end : Nat, fileLen : Nat,
                                access : SUBSET Rights])
    BY <2>1, InputAssumption
  <2>3. \A a \in Segments : a < segment
    BY <2>1, <2>2 DEF Segments
  <2> QED BY <2>3 DEF IInv, LoadInv, Loading
<1> QED BY <1>1, Invariance, PTL

\* A Map call that returns 0 has mapped all of its range, with the rights it was asked for.
THEOREM MapKeepsItsPromise == Spec => []MapDelivers
<1>1. IInv => MapDelivers
  BY DEF IInv
<1> QED BY <1>1, Invariance, PTL

\* The process never sees what an earlier owner left in a frame that Map gives it.
THEOREM NothingOldIsSeen == Spec => []FreshPagesZeroed
<1>1. IInv => FreshPagesZeroed
  <2> SUFFICES ASSUME IInv, pc = "map", call.name = "map", ~Wraps,
                      NEW p \in call.first .. call.last,
                      \A i \in DOMAIN todo.pages : todo.pages[i] # p
               PROVE  content[FrameOf(p)] = {}
    BY DEF FreshPagesZeroed
  <2>1. Mapping("user")
    BY DEF IInv, TypeInv, Loop, PhaseInv, Mapping, NoCall
  <2>2. call.first \in Nat /\ call.last \in Nat /\ call.last < NumberSpace
    <3>1. call.first \in Nat /\ call.last \in Nat
      BY <2>1 DEF IInv, PhaseInv
    <3> QED BY <3>1, Constants DEF Wraps
  <2>3. LoopFirst = call.first /\ LoopLast = call.last
    <3>1. call.last % NumberSpace = call.last
      BY <2>2, Constants, SmallRemainder
    <3> QED BY <2>1, <3>1 DEF LoopFirst, LoopLast, Mapping
  <2>4. NextPage \in Nat /\ NextPage .. LoopLast \subseteq UserPages
    BY LoopPosition DEF IInv
  <2>5. todo.pages = PagesFrom(NextPage, LoopLast)
    BY DEF IInv, LoopInv
  <2>6. p \notin NextPage .. LoopLast
    <3>1. LoopLast \in Int
      BY <2>2, <2>3
    <3>2. \A q \in NextPage .. LoopLast : \E i \in DOMAIN todo.pages : todo.pages[i] = q
      <4>1. \A q \in NextPage .. LoopLast : \E i \in DOMAIN PagesFrom(NextPage, LoopLast) :
               PagesFrom(NextPage, LoopLast)[i] = q
        BY <2>4, <3>1, PagesInOrder
      <4> QED BY <2>5, <4>1, Zenon
    <3> QED BY <3>2
  <2>7. p \in LoopDone
    BY <2>2, <2>3, <2>4, <2>6 DEF LoopDone
  <2> QED BY <2>1, <2>7 DEF IInv, ZeroInv
<1> QED BY <1>1, Invariance, PTL

\* Print reads the process's own memory, to the last byte, and nothing else.
THEOREM PrintReadsOwnMemory == Spec => []PrintReadsExactlyUserMemory
<1>1. IInv => PrintReadsExactlyUserMemory
  BY DEF IInv
<1> QED BY <1>1, Invariance, PTL

\* While Map runs, whatever was mapped stays mapped, with its rights and its bytes.
THEOREM MapOnlyAdds == Spec => MapKeepsWhatIsMapped
<1> DEFINE Keeps == (pc = "map" /\ call.name = "map") =>
                       \A p \in Mapped : /\ entries'[p] = entries[p]
                                         /\ content'[FrameOf(p)] = content[FrameOf(p)]
<1>1. IInv /\ [Next]_vars => [Keeps]_vars
  <2> SUFFICES ASSUME IInv, [Next]_vars, pc = "map", call.name = "map", NEW p \in Mapped
               PROVE  entries'[p] = entries[p] /\ content'[FrameOf(p)] = content[FrameOf(p)]
    OBVIOUS
  <2>1. Mapping("user") /\ ~todo.ignore
    BY DEF IInv, TypeInv, Loop, PhaseInv, Mapping, NoCall
  <2>2. CASE MapPage
    <3>1. p # NextPage
      BY <2>1, <2>2, MapPageStep DEF Mapped
    <3> QED BY <2>2, <3>1, FramesAfter, OthersKept DEF Mapped
  <2>3. CASE ~MapPage
    <3>1. ~SpawnTables /\ ~CopySegment /\ ~\E q \in WrittenPages : UserWrite(q)
      BY DEF SpawnTables, CopySegment, CopyAndSet, UserWrite
    <3>2. MapOutOfMemory => UNCHANGED entries
      BY DEF MapOutOfMemory
    <3> QED BY <2>3, <3>1, <3>2, MemorySteps
  <2> QED BY <2>2, <2>3
<1> QED BY <1>1, Invariance, PTL DEF Spec, MapKeepsWhatIsMapped

==============================================================================
