--------------------------- MODULE MCKeyLifecycle ---------------------------
(* A cluster with two recipients, k1 and u, and room for two rotations.    *)
(* The registry file also holds the key of another cluster.                *)
EXTENDS KeyLifecycle, TLC
CONSTANTS k1, k2, k3, u, other, mine, theirs, all, some, m1, m2, p1
MCKey == {k1, k2, k3, u, other}
MCGroup == {mine, theirs}
MCGroupOf == [k \in MCKey |-> IF k = other THEN theirs ELSE mine]

(* One rule for both keys, and one for either.                             *)
MCRule == {all, some}
MCManifest == {m1, m2}
MCRuleOf == m1 :> all @@ m2 :> some
MCInitialRules == {all :> {k1, u} @@ some :> S : S \in {{k1}, {u}}}

(* The manifest with both keys: what is passed over there stays behind.    *)
MCFlaky == {m1}

(* A cluster whose keys were never registered.                             *)
MCUnregistered ==
  [k \in MCKey |-> IF k = other THEN "active" ELSE "absent"]
MCNone == {}

(* The operator's own key may be u, kept outside the key file, or the      *)
(* cluster key alone.                                                      *)
MCHeld == {u, other}
MCKeyFile == {k1}

MCOne == {p1}
MCAllCommands == Ops \ {"none"}
MCSymmetry == Permutations({k2, k3})
=============================================================================
