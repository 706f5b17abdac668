------------------------ MODULE MCExactFileQuarantine ------------------------
(* Instances of ExactFileQuarantine for TLC.                               *)
EXTENDS ExactFileQuarantine
=============================================================================
