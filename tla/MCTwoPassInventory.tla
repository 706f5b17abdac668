--------------------------- MODULE MCTwoPassInventory ---------------------------
(* Instances of TwoPassInventory for TLC.                                   *)
EXTENDS TwoPassInventory

\* A directory with a file in it, and a file that sorts between the two.
DirectoryAndFiles == <<"", "d", "d-", "d/a">>
InDirectory == [p \in {"d", "d-", "d/a"} |-> IF p = "d/a" THEN "d" ELSE ""]
\* Two changes of the tree, or one beside two calls that fail.
FewChangesOrFailures == {<<2, 0>>, <<1, 2>>}
=============================================================================
