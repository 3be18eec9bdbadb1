----------------------------- MODULE MCRplMote -----------------------------
(***************************************************************************)
(* The model checker's view of RplMote: which neighbor has which address   *)
(* makes no difference.  No run with this symmetry checks liveness.        *)
(***************************************************************************)
EXTENDS RplMote, TLC

Symmetry == Permutations(Addresses)
=============================================================================
