----------------------------- MODULE MCFileLock -----------------------------
(* Two or three commands on one cluster, with a file for each and one more. *)
EXTENDS FileLock, TLC
CONSTANTS p1, p2, p3, i1, i2, i3, i4
MCTwo == {p1, p2}
MCThree == {p1, p2, p3}
MCNone == {}
MCDestroyer == {p2}
MCBreaker == {p2}
MCThreeFiles == {i1, i2, i3}
MCFourFiles == {i1, i2, i3, i4}
MCSymmetry == Permutations({i1, i2, i3, i4})
=============================================================================
