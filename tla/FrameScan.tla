----------------------------- MODULE FrameScan ------------------------------
(***************************************************************************)
(* The loops of BitmapFrameAllocator::allocate_frames (src/memory/frame.rs)*)
(* as they are written, against what FrameAllocator says they find, on the *)
(* bitmaps and cursors that the allocator comes to.                        *)
(***************************************************************************)
EXTENDS FrameAllocator

\* while next < len && get(next): count a frame, stop at the cnt-th.
RECURSIVE TakeRun(_, _, _, _, _)
TakeRun(b, len, cnt, next, frame_cnt) ==
    IF next >= len \/ next \notin b THEN [next |-> next, found |-> FALSE]
    ELSE IF frame_cnt + 1 = cnt THEN [next |-> next + 1, found |-> TRUE]
    ELSE TakeRun(b, len, cnt, next + 1, frame_cnt + 1)

\* while next < len && !get(next).
RECURSIVE SkipTaken(_, _, _)
SkipTaken(b, len, next) ==
    IF next < len /\ next \notin b THEN SkipTaken(b, len, next + 1) ELSE next

\* The second loop, until a run is found or the end is reached.
RECURSIVE Search(_, _, _, _)
Search(b, len, cnt, next) ==
    IF next >= len THEN [next |-> next, found |-> FALSE]
    ELSE LET run == TakeRun(b, len, cnt, SkipTaken(b, len, next), 0)
         IN  IF run.found THEN run ELSE Search(b, len, cnt, run.next)

ScanMovingCursor(b, len, cursor, cnt) ==
    LET first  == TakeRun(b, len, cnt, cursor, 0)
        second == Search(b, len, cnt, first.next)
    IN  IF first.found
        THEN [found |-> TRUE, cursor |-> first.next, start |-> first.next - cnt]
        ELSE [found |-> second.found, cursor |-> second.next, start |-> second.next - cnt]

\* The start of the frames handed out and the cursor afterwards.
Scan(b, len, cursor, cnt) ==
    LET first  == TakeRun(b, len, cnt, cursor, 0)
        second == Search(b, len, cnt, first.next)
    IN  IF first.found
        THEN [found |-> TRUE, cursor |-> first.next, start |-> first.next - cnt]
        ELSE [found |-> second.found, cursor |-> cursor, start |-> second.next - cnt]
-----------------------------------------------------------------------------
\* On every bitmap and from every cursor the allocator reaches, the two scans
\* together find a run exactly when one begins at or behind the cursor and ends
\* below len(), and then hand out the lowest one; the cursor moves, behind the
\* run, only when the run begins at the cursor.
ScanFindsFirstRun ==
    \A cnt \in DmaCounts :
        LET answer == Scan(bitmap, BitmapLen, next_frame, cnt)
            starts == RunStarts(bitmap, next_frame, BitmapLen, cnt)
            first  == FirstRun(bitmap, next_frame, BitmapLen, cnt)
        IN  /\ answer.found <=> starts # {}
            /\ answer.found =>
                   /\ answer.start = first
                   /\ answer.cursor = IF first = next_frame THEN first + cnt ELSE next_frame
            /\ ~answer.found => answer.cursor = next_frame
=============================================================================
