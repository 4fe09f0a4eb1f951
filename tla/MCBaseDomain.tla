---------------------------- MODULE MCBaseDomain ----------------------------
(* Two commands, the placeholder and two real domains. *)
EXTENDS BaseDomain
CONSTANTS p1, p2, placeholder, a, b
OneProcess == {p1}
TwoProcesses == {p1, p2}
Domains == {placeholder, a, b}
=============================================================================
