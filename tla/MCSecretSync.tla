---------------------------- MODULE MCSecretSync ----------------------------
EXTENDS SecretSync
CONSTANTS q1, q2, p1, p2, v1, v2
MCProc == {q1, q2}
MCPath == {p1, p2}
MCValue == {v1, v2}
MCDedicated == {p1}
MCChosen == {Full, [force |-> TRUE, only |-> {p1}]}
MCConfigured ==
  {[p \in MCPath |-> v1], [p \in MCPath |-> NoSecret],
   [p \in MCPath |-> IF p = p1 THEN v2 ELSE NoSecret]}
=============================================================================
