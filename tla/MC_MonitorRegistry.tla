-------------------------- MODULE MC_MonitorRegistry --------------------------
(* One resource and three monitor objects: enough for a reconcile to start *)
(* a monitor while an earlier one is still running or deregistering.       *)
EXTENDS MonitorRegistry, TLC

CONSTANTS r1, m1, m2, m3

MCResources == {r1}
MCMonitors == {m1, m2, m3}

MCSymmetry == Permutations(MCMonitors)
=============================================================================
