------------------------------ MODULE MCRename ------------------------------
(***************************************************************************)
(* Rename at sizes TLC can exhaust.                                        *)
(***************************************************************************)
EXTENDS Rename
=============================================================================
