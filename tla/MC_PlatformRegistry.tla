------------------------- MODULE MC_PlatformRegistry -------------------------
(* Small instance of PlatformRegistry: one namespace holding two System    *)
(* resources, so that the loop of NotifySystemController runs more than    *)
(* once and can fail between its iterations; two reconcile workers calling *)
(* the manager; one client handle.                                         *)
EXTENDS PlatformRegistry, TLC

CONSTANTS n1, s1, s2, w1, w2, c1

MCNamespaces == {n1}
MCSystemObjs == {s1, s2}
MCSystemNs == (s1 :> n1) @@ (s2 :> n1)
MCWorkers == {w1, w2}
MCClients == {c1}

\* The liveness run: one worker holding the lock is what the system
\* controller must get past; a second only multiplies the states.
MCOneWorker == {w1}
=============================================================================
