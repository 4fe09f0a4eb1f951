------------------------------ MODULE KeyRing ------------------------------
(***************************************************************************)
(* What the key registry promises the rest of openCenter: keys enter once, *)
(* leave for good, and each group (a cluster and a key type) has at most   *)
(* one primary, which is always a key in use.                              *)
(***************************************************************************)
EXTENDS FiniteSets

CONSTANTS Key, Group, GroupOf, NoKey

VARIABLES
  active,    \* keys in use
  retired,   \* keys archived or revoked
  holder     \* the primary of each group, or NoKey

ringVars == <<active, retired, holder>>

Init ==
  /\ active = {}
  /\ retired = {}
  /\ holder = [g \in Group |-> NoKey]

Fresh(k) == k \notin active \union retired

(* A new key joins its group without a role.                               *)
Admit(k) ==
  /\ Fresh(k)
  /\ active' = active \union {k}
  /\ UNCHANGED <<retired, holder>>

(* A new key joins a group that has no primary and takes the role.         *)
Elect(k) ==
  /\ Fresh(k)
  /\ holder[GroupOf[k]] = NoKey
  /\ active' = active \union {k}
  /\ holder' = [holder EXCEPT ![GroupOf[k]] = k]
  /\ UNCHANGED retired

(* A key in use becomes the primary of its group.                          *)
Promote(k) ==
  /\ k \in active
  /\ holder' = [holder EXCEPT ![GroupOf[k]] = k]
  /\ UNCHANGED <<active, retired>>

(* A new key takes over from the primary old, which stays in use or not.   *)
Succeed(old, k, leaving) ==
  /\ Fresh(k)
  /\ holder[GroupOf[k]] = old
  /\ leaving \subseteq {old}
  /\ active' = (active \union {k}) \ leaving
  /\ retired' = retired \union leaving
  /\ holder' = [holder EXCEPT ![GroupOf[k]] = k]

(* Keys leave; a primary among them leaves its group without one.          *)
Retire(K) ==
  /\ K \subseteq active
  /\ active' = active \ K
  /\ retired' = retired \union K
  /\ holder' = [g \in Group |-> IF holder[g] \in K THEN NoKey ELSE holder[g]]

Next ==
  \/ \E k \in Key : Admit(k) \/ Elect(k) \/ Promote(k)
  \/ \E old, k \in Key : \E leaving \in SUBSET {old} : Succeed(old, k, leaving)
  \/ \E K \in SUBSET Key : Retire(K)

Spec == Init /\ [][Next]_ringVars

=============================================================================
