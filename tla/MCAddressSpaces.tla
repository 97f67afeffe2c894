-------------------------- MODULE MCAddressSpaces ---------------------------
(***************************************************************************)
(* Two consoles of one page, two processes, and memory for both of them    *)
(* and a few switches.  The screen lies among the usable frames.           *)
(***************************************************************************)
EXTENDS AddressSpaces

MCUsable == 5 .. 24 \ {20}
MCBounds ==
    {[users |-> {1}, drawn |-> FALSE, switches |-> 1],
     [users |-> {}, drawn |-> TRUE, switches |-> 3]}
MCVram == <<20>>
=============================================================================
