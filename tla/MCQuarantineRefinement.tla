------------------------ MODULE MCQuarantineRefinement ------------------------
(* Instances of QuarantineRefinement for TLC.                              *)
EXTENDS QuarantineRefinement
=============================================================================
