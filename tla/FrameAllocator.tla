--------------------------- MODULE FrameAllocator ---------------------------
(***************************************************************************)
(* The physical frame allocator (src/memory/frame.rs) over its bitmap      *)
(* (src/data/bitmap.rs), with the two callers that decide what is handed   *)
(* back: deallocate_frame and dealloc_for_dma (src/drivers/mod.rs).        *)
(*                                                                         *)
(* The bitmap is the set of the indices whose bit is set: the frames the   *)
(* allocator takes for free.  A lease is what a caller got from one call   *)
(* and has not given back; it is tagged with the value of usable_frames at *)
(* the call, which no two calls share.                                     *)
(***************************************************************************)
EXTENDS Integers, Sequences, FiniteSets, BitmapRuns

CONSTANTS
    MemoryMap,    \* the boot loader's map: regions in frames, by address
    DmaCounts     \* the frame counts the DMA drivers ask for

BITS == 8             \* bits of a byte of the bitmap
FRAME_SIZE == 4096    \* bytes of a frame

DivCeil(a, b) == (a + b - 1) \div b

Region == [base : Nat, count : Nat, usable : BOOLEAN]

RegionFrames(r) == r.base .. r.base + r.count - 1

UsableRegions == {i \in DOMAIN MemoryMap : MemoryMap[i].usable}

MemoryFrames == MemoryMap[Len(MemoryMap)].base + MemoryMap[Len(MemoryMap)].count

\* Bitmap::len(): the length of the bitmap in BYTES.
BitmapLen == DivCeil(MemoryFrames, BITS)

\* The indices that Bitmap::get and Bitmap::set accept.
Frame == 0 .. BITS * BitmapLen - 1

\* The bitmap lives in the first usable region that is large enough.
IsBitmapRegion(i) ==
    /\ i \in UsableRegions
    /\ MemoryMap[i].count * FRAME_SIZE >= BitmapLen
    /\ \A j \in UsableRegions :
           MemoryMap[j].count * FRAME_SIZE >= BitmapLen => i <= j

BitmapStart == MemoryMap[CHOOSE i \in UsableRegions : IsBitmapRegion(i)].base

BitmapEnd == BitmapStart + DivCeil(BitmapLen, FRAME_SIZE)

BitmapFrames == BitmapStart .. BitmapEnd - 1

UsableFrames == UNION {RegionFrames(MemoryMap[i]) : i \in UsableRegions} \ BitmapFrames

LowestUsable == CHOOSE b \in {MemoryMap[i].base : i \in UsableRegions} :
                    \A i \in UsableRegions : b <= MemoryMap[i].base

InitNextFrame == IF LowestUsable = BitmapStart THEN BitmapEnd + 1 ELSE LowestUsable

\* The boot loader gives disjoint regions in address order, with at least one
\* usable region that holds the bitmap and a frame behind it.
ASSUME MapAssumption ==
    /\ MemoryMap \in Seq(Region)
    /\ \A i, j \in DOMAIN MemoryMap :
           i < j => MemoryMap[i].base + MemoryMap[i].count <= MemoryMap[j].base
    /\ MemoryFrames \in Nat \ {0}
    /\ \E i \in UsableRegions : IsBitmapRegion(i)
    /\ UsableFrames \subseteq Frame
    /\ InitNextFrame \in Frame

ASSUME DmaAssumption == DmaCounts \subseteq Nat

-----------------------------------------------------------------------------
VARIABLES
    bitmap,           \* the indices whose bit is set
    usable_frames,
    next_frame,
    leases,           \* what the callers hold
    moved,            \* history: allocate_frames moved the cursor
    stale             \* history: a frame whose bit was clear was handed out

vars == <<bitmap, usable_frames, next_frame, leases, moved, stale>>

Lease == [cnt : Nat \ {0}, start : Frame, id : Nat]

LeaseFrames(l) == l.start .. l.start + l.cnt - 1

Leased == UNION {LeaseFrames(l) : l \in leases}

TypeOK ==
    /\ bitmap \subseteq Frame
    /\ usable_frames \in 0 .. Cardinality(UsableFrames)
    /\ next_frame \in Frame
    /\ leases \subseteq Lease
    /\ moved \in BOOLEAN /\ stale \in BOOLEAN

Init ==
    /\ bitmap = UsableFrames
    /\ usable_frames = Cardinality(UsableFrames)
    /\ next_frame = InitNextFrame
    /\ leases = {}
    /\ moved = FALSE /\ stale = FALSE

-----------------------------------------------------------------------------
\* The lowest of the frames ahead, or len() when there is none.
FirstOf(ahead) ==
    IF ahead = {} THEN BitmapLen
    ELSE CHOOSE f \in ahead : \A g \in ahead : f <= g

\* The first set bit behind the cursor and below len().
NextFreeFromHere == FirstOf({f \in bitmap : next_frame <= f /\ f < BitmapLen})
NextFree == FirstOf({f \in bitmap : next_frame < f /\ f < BitmapLen})

ClearCursorBitNot == UNCHANGED bitmap
ClearCursorBit == bitmap' = bitmap \ {next_frame}

\* The cursor's frame is handed out without looking at its bit.
take_frame ==
    /\ usable_frames' = usable_frames - 1
    /\ ClearCursorBit
    /\ next_frame' = NextFree
    /\ leases' = leases \cup {[cnt |-> 1, start |-> next_frame, id |-> usable_frames]}
    /\ stale' = (stale \/ next_frame \notin bitmap)
    /\ UNCHANGED moved

allocate_frame == usable_frames # 0 /\ take_frame

\* The cursor follows only when the run starts at the cursor itself; it then
\* rests behind the run, whatever bit is there.
allocate_frames(cnt) ==
    LET start == FirstRun(bitmap, next_frame, BitmapLen, cnt)
    IN  /\ cnt <= usable_frames
        /\ RunStarts(bitmap, next_frame, BitmapLen, cnt) # {}
        /\ usable_frames' = usable_frames - cnt
        /\ bitmap' = bitmap \ (start .. start + cnt - 1)
        /\ next_frame' = IF start = next_frame THEN start + cnt ELSE next_frame
        /\ leases' = leases \cup {[cnt |-> cnt, start |-> start, id |-> usable_frames]}
        /\ moved' = (moved \/ start = next_frame)
        /\ UNCHANGED stale

\* Both calls answer None when the budget is too small; allocate_frames also
\* when it finds no run, and then gives the budget back.
allocate_none ==
    /\ \/ usable_frames = 0
       \/ \E cnt \in DmaCounts :
              \/ cnt > usable_frames
              \/ RunStarts(bitmap, next_frame, BitmapLen, cnt) = {}
    /\ UNCHANGED vars

\* deallocate_frame sets one bit and restores neither the budget nor the
\* cursor; dealloc_for_dma gives it the first frame of the buffer only.
deallocate_frame(l) ==
    /\ bitmap' = bitmap \cup {l.start}
    /\ leases' = leases \ {l}
    /\ UNCHANGED <<usable_frames, next_frame, moved, stale>>

Next ==
    \/ allocate_frame
    \/ \E cnt \in DmaCounts : allocate_frames(cnt)
    \/ allocate_none
    \/ \E l \in leases : deallocate_frame(l)

Spec == Init /\ [][Next]_vars
-----------------------------------------------------------------------------
\* Until the cursor has handed out a frame whose bit was clear, no two callers
\* hold the same frame: neither allocate_frame nor the two scans of
\* allocate_frames give out a frame that somebody still holds.
NoDoubleHandOut ==
    ~stale => \A l, m \in leases : l # m => LeaseFrames(l) \cap LeaseFrames(m) = {}

\* Until then no caller holds a reserved frame or one of the bitmap's own
\* frames, and no held frame is marked free.
OnlyUsableHandedOut ==
    ~stale => /\ Leased \cup bitmap \subseteq UsableFrames
              /\ Leased \cap bitmap = {}

\* A lease was paid for when the budget was higher than it is now.
LeasesInThePast == \A l \in leases : usable_frames < l.id

\* The inductive invariant: the three promises, and the distinct tags that
\* keep a new lease from being mistaken for an old one.
IndInv == TypeOK /\ LeasesInThePast /\ NoDoubleHandOut /\ OnlyUsableHandedOut

\* Until allocate_frames moves it, the cursor is on a free frame as long as it
\* is below Bitmap::len(), although allocate_frames takes frames ahead of it:
\* what goes stale is a cursor that reached the end or that allocate_frames moved.
CursorOnFreeFrame ==
    (InitNextFrame \in UsableFrames /\ ~moved /\ next_frame < BitmapLen)
        => next_frame \in bitmap

\* The budget never grows: every frame handed out is paid for once, and
\* neither a failed scan nor deallocate_frame gives anything back.
BudgetPaysForLeases ==
    [][ /\ usable_frames' <= usable_frames
        /\ \A l \in leases' \ leases : usable_frames' + l.cnt = usable_frames ]_vars
=============================================================================
