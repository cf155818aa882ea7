-------------------------------- MODULE MCGui ---------------------------------
(***************************************************************************)
(* Small instances of Gui for TLC: two or three transmissions.             *)
(***************************************************************************)
EXTENDS Gui, TLC

CONSTANTS t1, t2, t3

TextAndFile == (t1 :> "text") @@ (t2 :> "file")
EachKind == (t1 :> "text") @@ (t2 :> "long") @@ (t3 :> "file")
===============================================================================
