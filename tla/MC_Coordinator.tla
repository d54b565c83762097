------------------------- MODULE MC_Coordinator -------------------------------
(* One namespace with one System and one worker that may reset its client, *)
(* next to one monitored resource with one monitor object: enough for the *)
(* monitor to fire and deregister while a Reset holds m.lock, and for a    *)
(* restart to kill it while it runs.                                       *)
EXTENDS Coordinator, TLC

CONSTANTS n1, s1, w1, c1, r1, m1

MCNamespaces == {n1}
MCSystemObjs == {s1}
MCSystemNs == s1 :> n1
MCWorkers == {w1}
MCClients == {c1}
MCResources == {r1}
MCMonitors == {m1}
=============================================================================
