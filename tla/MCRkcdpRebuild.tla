--------------------------- MODULE MCRkcdpRebuild ---------------------------
(***************************************************************************)
(* Instances of RkcdpRebuild for TLC.                                      *)
(***************************************************************************)
EXTENDS RkcdpRebuild, TLC

Symmetry == Permutations(Procs)
=============================================================================
