-------------------------- MODULE FrameAllocator ---------------------------
(***************************************************************************)
(* What the physical allocator promises to its callers, with no trees, no  *)
(* locks and no search: blocks of free frames are handed out and taken     *)
(* back atomically, at one moment inside the call.                         *)
(*                                                                         *)
(* The promise about failure is deliberately weak, because the code's is:  *)
(* a request may fail although, at every single moment of the call, some   *)
(* region had room.  It fails only if each region lacked room at some      *)
(* moment of the call, not necessarily the same one for all.               *)
(***************************************************************************)
EXTENDS Integers

CONSTANTS
  Contexts,         \* the callers
  Regions,          \* the regions of physical memory, numbered from 0
  RegionSize,       \* frames per region; region i starts at i * RegionSize
  InitialRegions,   \* the regions present from the start
  Orders,           \* the block orders that can be requested
  RegionFrames(_)   \* the frames a region contributes when it is added

VARIABLES
  regions,   \* the regions added so far
  free,      \* the free frames
  held,      \* the blocks that callers hold
  request,   \* what each caller is asking for
  lacked     \* the regions that lacked room at some moment of the request

avars == <<regions, free, held, request, lacked>>

NoRequest == [op |-> "none"]
AllocRequest(k) == [op |-> "allocate", order |-> k]
FreeRequest(b) == [op |-> "deallocate", block |-> b]

BlockFrames(b) == b.addr..(b.addr + 2^b.order - 1)

\* The blocks of order k that region i has room for.
Room(i, k) ==
  {b \in [addr : (i * RegionSize)..((i + 1) * RegionSize - 1), order : {k}] :
     /\ (b.addr - i * RegionSize) % 2^k = 0
     /\ BlockFrames(b) \subseteq free \intersect (i * RegionSize)..((i + 1) * RegionSize - 1)}

AInit ==
  /\ regions = InitialRegions
  /\ free = UNION {RegionFrames(i) : i \in regions}
  /\ held = {}
  /\ request = [c \in Contexts |-> NoRequest]
  /\ lacked = [c \in Contexts |-> {}]

RequestBlock(c) ==
  /\ request[c] = NoRequest
  /\ \E k \in Orders : request' = [request EXCEPT ![c] = AllocRequest(k)]
  /\ UNCHANGED <<regions, free, held>>

Grant(c) ==
  /\ request[c].op = "allocate"
  /\ \E i \in Regions : \E b \in Room(i, request[c].order) :
       /\ free' = free \ BlockFrames(b)
       /\ held' = held \union {b}
  /\ request' = [request EXCEPT ![c] = NoRequest]
  /\ UNCHANGED regions

Fail(c) ==
  /\ request[c].op = "allocate"
  /\ lacked[c] = Regions
  /\ request' = [request EXCEPT ![c] = NoRequest]
  /\ UNCHANGED <<regions, free, held>>

RequestFree(c) ==
  /\ request[c] = NoRequest
  /\ \E b \in held : /\ held' = held \ {b}
                     /\ request' = [request EXCEPT ![c] = FreeRequest(b)]
  /\ UNCHANGED <<regions, free>>

TakeBack(c) ==
  /\ request[c].op = "deallocate"
  /\ free' = free \union BlockFrames(request[c].block)
  /\ request' = [request EXCEPT ![c] = NoRequest]
  /\ UNCHANGED <<regions, held>>

AddRegion ==
  /\ \E i \in Regions \ regions : /\ regions' = regions \union {i}
                                  /\ free' = free \union RegionFrames(i)
  /\ UNCHANGED <<held, request>>

LackingRoom(c) == {i \in Regions : Room(i, request[c].order) = {}}

Watch ==
  lacked' = [c \in Contexts |->
               IF request'[c].op = "allocate"
               THEN (IF request[c].op = "allocate" THEN lacked[c] ELSE {})
                      \union LackingRoom(c)'
               ELSE {}]

ANext ==
  /\ \/ \E c \in Contexts : RequestBlock(c) \/ Grant(c) \/ Fail(c)
                            \/ RequestFree(c) \/ TakeBack(c)
     \/ AddRegion
  /\ Watch

ASpec == AInit /\ [][ANext]_avars
=============================================================================
