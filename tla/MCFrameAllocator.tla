-------------------------- MODULE MCFrameAllocator --------------------------
(***************************************************************************)
(* A small memory for FrameAllocator.  The frame numbers are real: a byte  *)
(* of the bitmap covers eight frames, so Bitmap::len() of a memory of 88   *)
(* frames is 11 and the cursor never looks past frame 11.                  *)
(***************************************************************************)
EXTENDS FrameScan

Entry(base, count, usable) == [base |-> base, count |-> count, usable |-> usable]

\* Two usable regions with a hole at frame 7; the bitmap takes frame 1 and frame
\* 11 is at len().
HoleMap ==
    <<Entry(0, 1, FALSE), Entry(1, 6, TRUE), Entry(7, 1, FALSE), Entry(8, 4, TRUE), Entry(12, 76, FALSE)>>
=============================================================================
