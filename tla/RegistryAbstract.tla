--------------------------- MODULE RegistryAbstract ---------------------------
(***************************************************************************)
(* What the SystemNamespace registry promises its callers (spec sections 3 *)
(* and 4.1): for every namespace, three independent registers (the        *)
(* platform client, the readiness flag and the system type), each changed  *)
(* only by its own operation, all three forgotten when the process         *)
(* restarts.  Writing one field never disturbs another ("partial updates   *)
(* must be merged, not replace the whole record").                         *)
(***************************************************************************)
CONSTANTS Namespaces, Clients, NoClient, SystemTypes, TypeUnset

VARIABLES client, ready, systemType

avars == <<client, ready, systemType>>

Init ==
    /\ client = [n \in Namespaces |-> NoClient]
    /\ ready = [n \in Namespaces |-> FALSE]
    /\ systemType = [n \in Namespaces |-> TypeUnset]

\* A client built for namespace n replaces whatever was cached.
Build(n, c) ==
    /\ client' = [client EXCEPT ![n] = c]
    /\ UNCHANGED <<ready, systemType>>

\* A cached client is discarded.
Reset(n) ==
    /\ client[n] # NoClient
    /\ client' = [client EXCEPT ![n] = NoClient]
    /\ UNCHANGED <<ready, systemType>>

SetReady(n, v) ==
    /\ ready' = [ready EXCEPT ![n] = v]
    /\ UNCHANGED <<client, systemType>>

SetType(n, t) ==
    /\ systemType' = [systemType EXCEPT ![n] = t]
    /\ UNCHANGED <<client, ready>>

\* The process restarts and every register is back to its default.
Forget == Init'

Next ==
    \/ \E n \in Namespaces, c \in Clients : Build(n, c)
    \/ \E n \in Namespaces : Reset(n)
    \/ \E n \in Namespaces, v \in BOOLEAN : SetReady(n, v)
    \/ \E n \in Namespaces, t \in SystemTypes : SetType(n, t)
    \/ Forget

Spec == Init /\ [][Next]_avars

=============================================================================
