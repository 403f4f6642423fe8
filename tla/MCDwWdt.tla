------------------------------- MODULE MCDwWdt -------------------------------
(***************************************************************************)
(* DwWdt for TLC: eight periods of 4 to 512 cycles at 5 Hz, that is 0, 1,  *)
(* 3, 6, 12, 25, 51 and 102 seconds, the first below a second; requests on,*)
(* between and beyond them.                                                *)
(***************************************************************************)
EXTENDS DwWdt

Seconds == {0, 1, 2, 6, 7, 30, 102, 200}

=============================================================================
