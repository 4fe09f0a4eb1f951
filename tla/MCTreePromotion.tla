--------------------------- MODULE MCTreePromotion ---------------------------
EXTENDS TreePromotion
CONSTANTS a, b, s, v1, v2
MCPath == {a, b, s}
MCSeed == {s}
MCCredential == {b}
MCValue == {v1, v2}
MCRenders ==
  {[p \in MCPath |-> v1],
   [p \in MCPath |-> IF p = a THEN v2 ELSE IF p = b THEN v1 ELSE Absent],
   [p \in MCPath |-> IF p = a THEN Absent ELSE v1]}
MCChosen == {Default, Insistent, [Default EXCEPT !.prune = FALSE]}
=============================================================================
