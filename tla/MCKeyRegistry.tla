--------------------------- MODULE MCKeyRegistry ---------------------------
(* Three Age keys of one cluster, an Age key of another, which shares the  *)
(* registry file, and an SSH key.                                          *)
EXTENDS KeyRegistry, TLC
CONSTANTS k1, k2, k3, other, ssh, age1, age2, ssh1
MCKey == {k1, k2, k3, other, ssh}
MCGroup == {age1, age2, ssh1}
MCAgeGroup == {age1, age2}
MCGroupOf ==
  k1 :> age1 @@ k2 :> age1 @@ k3 :> age1 @@ other :> age2 @@ ssh :> ssh1
MCSymmetry == Permutations({k1, k2, k3})
=============================================================================
