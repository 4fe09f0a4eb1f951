---------------------------- MODULE MCBootstrap -----------------------------
(* The OpenStack steps with a part in resuming: opentofu-init, -apply,     *)
(* kubespray-prepare, kubespray-deploy and the network plugin.             *)
EXTENDS Bootstrap
CONSTANTS g1, g2
MCGen == {g1, g2}
MCAlways == {1}
MCProbes == <<{}, {2}, {2, 3}, {}, {}>>
MCLifecycle == {3, 4}
MCCompletion == {5}
MCChosen ==
  {Resume, Restart,
   [restart |-> FALSE, ignore |-> TRUE, first |-> 2, last |-> 2],
   [restart |-> FALSE, ignore |-> TRUE, first |-> 4, last |-> 5]}
=============================================================================
