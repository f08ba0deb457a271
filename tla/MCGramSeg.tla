----------------------------- MODULE MCGramSeg -----------------------------
(***************************************************************************)
(* Small instances of GramSeg for TLC.                                     *)
(***************************************************************************)
EXTENDS GramSeg

CONSTANTS j1, j2, j3, j4

=============================================================================
