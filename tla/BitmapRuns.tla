----------------------------- MODULE BitmapRuns -----------------------------
(***************************************************************************)
(* What the scan of BitmapFrameAllocator::allocate_frames looks for: the   *)
(* first run of cnt set bits at or behind the cursor and below len().      *)
(***************************************************************************)
EXTENDS Integers

\* The starts, from the cursor on, of the runs of cnt set bits below len().
\* A count of zero is never reached by the scan, which counts up from one.
RunStarts(b, from, len, cnt) ==
    {f \in b : /\ cnt > 0
               /\ from <= f
               /\ f + cnt <= len
               /\ f .. f + cnt - 1 \subseteq b}

FirstRun(b, from, len, cnt) ==
    CHOOSE f \in RunStarts(b, from, len, cnt) :
        \A g \in RunStarts(b, from, len, cnt) : f <= g
=============================================================================
