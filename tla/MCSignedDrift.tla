----------------------------- MODULE MCSignedDrift -----------------------------
(* Instances of SignedDrift for TLC.                                        *)
EXTENDS SignedDrift, TLC

CreatorSymmetry == Permutations(Creators)

\* Two creators side by side; one that is killed and has a call that fails; or one
\* amid both a new capture and an upgrade.
SideBySideOrFailing == {<<2, 0, 0, 1>>, <<1, 1, 1, 1>>, <<1, 0, 0, 2>>}
=============================================================================
