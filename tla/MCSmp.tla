--------------------------------- MODULE MCSmp ---------------------------------
(***************************************************************************)
(* Small instances of SmpCritical for TLC.                                     *)
(***************************************************************************)
EXTENDS SmpCritical

\* The cores are alike.
CoreSymmetry == Permutations(Cores)
===============================================================================
