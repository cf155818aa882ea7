------------------------------ MODULE MCFraming -------------------------------
(***************************************************************************)
(* A frame, the raw byte, an empty frame and another frame, with the       *)
(* length of four bytes the code uses.                                     *)
(***************************************************************************)
EXTENDS Framing

FourItems == <<3, 1, 0, 2>>
SecondItem == {2}
===============================================================================
