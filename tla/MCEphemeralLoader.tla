--------------------------- MODULE MCEphemeralLoader ---------------------------
(* Instances of EphemeralLoader for TLC.                                    *)
EXTENDS EphemeralLoader, TLC

\* One loader, and one inode, is like another.
LoaderSymmetry == Permutations(Loaders) \cup Permutations(Inodes)

\* A fourth loader is begun beside the others with one fault at most.
FewFaults == Cardinality(Begun) > 3 => kills + terminations + failures <= 1
=============================================================================
