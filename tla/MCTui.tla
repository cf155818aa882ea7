--------------------------------- MODULE MCTui ---------------------------------
(***************************************************************************)
(* Small instances of Tui for TLC, with the constants of MCSession.        *)
(***************************************************************************)
EXTENDS Tui, MCSession
===============================================================================
