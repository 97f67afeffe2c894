------------------------------- MODULE MCPs2 --------------------------------
(***************************************************************************)
(* An instance of Ps2 for TLC.  Moving left by six puts the byte of an     *)
(* acknowledgement into a report, and every scancode has the bit that      *)
(* marks the first byte of a report.                                       *)
(***************************************************************************)
EXTENDS Ps2

MCReports == {<<8, 9, 3, 1>>, <<24, 250, 4, 0>>, <<104, 2, 3, 255>>}

MCKeys == <<28, 29, 30>>
=============================================================================
