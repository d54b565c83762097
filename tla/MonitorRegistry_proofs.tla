------------------------ MODULE MonitorRegistry_proofs -------------------------
(***************************************************************************)
(* Proofs about the monitor registry model (manager.go 392-424), for every *)
(* set of resources and monitor objects.                                   *)
(***************************************************************************)
EXTENDS MonitorRegistry, TLAPS

USE MonitorAssumption

\* A monitor that has not been started has not been stopped: Stop is only
\* ever called on a monitor found in the registry.
NewNotStopped == \A m \in Monitors : mpc[m] = "new" => ~stopped[m]

\* The inductive strengthening of RegisteredMonitorLive.
IInv == TypeOK /\ RegisteredMonitorLive /\ NewNotStopped

-----------------------------------------------------------------------------
(* Cancelled(r), the effect shared by CancelMonitor and the deregistering  *)
(* task, keeps the registry's shape and only stops the monitor it removes. *)

LEMMA CancelledEffect ==
    ASSUME TypeOK, NEW r \in Resources, Cancelled(r)
    PROVE  /\ DOMAIN monitors' = DOMAIN monitors \ {r}
           /\ \A k \in DOMAIN monitors' : monitors'[k] = monitors[k]
           /\ stopped' \in [Monitors -> BOOLEAN]
           /\ \A m \in Monitors : stopped'[m] =>
                 stopped[m] \/ (r \in DOMAIN monitors /\ m = monitors[r])
  BY DEF Cancelled, TypeOK

-----------------------------------------------------------------------------
(* Type correctness.                                                       *)

LEMMA InitIInv == Init => IInv
  BY DEF Init, IInv, TypeOK, RegisteredMonitorLive, NewNotStopped

LEMMA NextIInv == IInv /\ [Next]_vars => IInv'
<1> SUFFICES ASSUME IInv, [Next]_vars PROVE IInv'
  OBVIOUS
<1>1. ASSUME NEW r \in Resources, NEW m \in Monitors, StartMonitor(r, m)
      PROVE  IInv'
  <2>1. m \notin {monitors[k] : k \in DOMAIN monitors}
    BY <1>1 DEF IInv, RegisteredMonitorLive, StartMonitor
  <2>2. TypeOK'
    BY <1>1 DEF IInv, TypeOK, StartMonitor
  <2>3. RegisteredMonitorLive'
    <3> SUFFICES ASSUME NEW k \in DOMAIN monitors'
                 PROVE  /\ owner'[monitors'[k]] = k
                        /\ ~stopped'[monitors'[k]]
                        /\ mpc'[monitors'[k]] \in {"polling", "deregister"}
      BY DEF RegisteredMonitorLive
    <3>1. CASE k = r
      BY <1>1, <3>1 DEF IInv, TypeOK, NewNotStopped, StartMonitor
    <3>2. CASE k # r
      <4>1. k \in DOMAIN monitors /\ monitors'[k] = monitors[k]
        BY <1>1, <3>2 DEF StartMonitor
      <4>2. monitors[k] # m /\ monitors[k] \in Monitors
        BY <2>1, <4>1 DEF IInv, TypeOK
      <4>3. QED
        BY <1>1, <4>1, <4>2 DEF IInv, TypeOK, RegisteredMonitorLive, StartMonitor
    <3>3. QED
      BY <3>1, <3>2
  <2>4. NewNotStopped'
    BY <1>1 DEF IInv, TypeOK, NewNotStopped, StartMonitor
  <2>5. QED
    BY <2>2, <2>3, <2>4 DEF IInv
<1>2. ASSUME NEW r \in Resources, CancelMonitor(r)
      PROVE  IInv'
  <2>1. Cancelled(r)
    BY <1>2 DEF CancelMonitor
  <2>2. TypeOK'
    BY <1>2, <2>1, CancelledEffect DEF IInv, TypeOK, CancelMonitor
  <2>3. RegisteredMonitorLive'
    <3> SUFFICES ASSUME NEW k \in DOMAIN monitors'
                 PROVE  /\ owner'[monitors'[k]] = k
                        /\ ~stopped'[monitors'[k]]
                        /\ mpc'[monitors'[k]] \in {"polling", "deregister"}
      BY DEF RegisteredMonitorLive
    <3>1. k \in DOMAIN monitors /\ k # r /\ monitors'[k] = monitors[k]
      BY <1>2, <2>1, CancelledEffect DEF IInv
    <3>2. monitors[k] \in Monitors
      BY <3>1 DEF IInv, TypeOK
    <3>3. r \in DOMAIN monitors => monitors[k] # monitors[r]
      BY <3>1 DEF IInv, RegisteredMonitorLive
    <3>4. QED
      BY <1>2, <2>1, <3>1, <3>2, <3>3, CancelledEffect
         DEF IInv, TypeOK, RegisteredMonitorLive, CancelMonitor
  <2>4. NewNotStopped'
    BY <1>2, <2>1, CancelledEffect DEF IInv, TypeOK, RegisteredMonitorLive,
       NewNotStopped, CancelMonitor
  <2>5. QED
    BY <2>2, <2>3, <2>4 DEF IInv
<1>3. ASSUME NEW r \in Resources, ReconcileFails(r)
      PROVE  IInv'
  BY <1>3 DEF IInv, TypeOK, RegisteredMonitorLive, NewNotStopped, ReconcileFails
<1>4. ASSUME NEW m \in Monitors, TaskExit(m)
      PROVE  IInv'
  BY <1>4 DEF IInv, TypeOK, RegisteredMonitorLive, NewNotStopped, TaskExit
<1>5. ASSUME NEW m \in Monitors, TaskFire(m)
      PROVE  IInv'
  BY <1>5 DEF IInv, TypeOK, RegisteredMonitorLive, NewNotStopped, TaskFire
<1>6. ASSUME NEW m \in Monitors, TaskDeregister(m)
      PROVE  IInv'
  <2> DEFINE r == owner[m]
  <2>1. r \in Resources /\ Cancelled(r)
    BY <1>6 DEF IInv, TypeOK, TaskDeregister
  <2>2. \A k \in DOMAIN monitors' : monitors'[k] # m
    \* m, if registered at all, is registered under its owner, now deleted.
    <3> SUFFICES ASSUME NEW k \in DOMAIN monitors' PROVE monitors'[k] # m
      OBVIOUS
    <3>1. k \in DOMAIN monitors /\ k # r /\ monitors'[k] = monitors[k]
      BY <2>1, CancelledEffect DEF IInv
    <3>2. owner[monitors[k]] = k
      BY <3>1 DEF IInv, RegisteredMonitorLive
    <3>3. QED
      BY <3>1, <3>2
  <2>3. TypeOK'
    BY <1>6, <2>1, CancelledEffect DEF IInv, TypeOK, TaskDeregister
  <2>4. RegisteredMonitorLive'
    <3> SUFFICES ASSUME NEW k \in DOMAIN monitors'
                 PROVE  /\ owner'[monitors'[k]] = k
                        /\ ~stopped'[monitors'[k]]
                        /\ mpc'[monitors'[k]] \in {"polling", "deregister"}
      BY DEF RegisteredMonitorLive
    <3>1. k \in DOMAIN monitors /\ k # r /\ monitors'[k] = monitors[k]
      BY <2>1, CancelledEffect DEF IInv
    <3>2. monitors[k] \in Monitors /\ monitors[k] # m
      BY <2>2, <3>1 DEF IInv, TypeOK
    <3>3. r \in DOMAIN monitors => monitors[k] # monitors[r]
      BY <3>1 DEF IInv, RegisteredMonitorLive
    <3>4. owner' = owner /\ mpc'[monitors[k]] = mpc[monitors[k]]
      BY <1>6, <3>2 DEF IInv, TypeOK, TaskDeregister
    <3>5. ~stopped'[monitors[k]]
      BY <2>1, <3>1, <3>2, <3>3, CancelledEffect DEF IInv, RegisteredMonitorLive
    <3>6. QED
      BY <3>1, <3>4, <3>5 DEF IInv, RegisteredMonitorLive
  <2>5. NewNotStopped'
    <3> SUFFICES ASSUME NEW x \in Monitors, mpc'[x] = "new" PROVE ~stopped'[x]
      BY DEF NewNotStopped
    <3>1. mpc[x] = "new" /\ ~stopped[x]
      BY <1>6 DEF IInv, TypeOK, NewNotStopped, TaskDeregister
    <3>2. r \in DOMAIN monitors => monitors[r] # x
      BY <3>1 DEF IInv, RegisteredMonitorLive
    <3>3. QED
      BY <2>1, <3>1, <3>2, CancelledEffect DEF IInv
  <2>6. QED
    BY <2>3, <2>4, <2>5 DEF IInv
<1>7. ASSUME NEW r \in Resources, ConditionMet(r)
      PROVE  IInv'
  BY <1>7 DEF IInv, TypeOK, RegisteredMonitorLive, NewNotStopped, ConditionMet
<1>8. ASSUME NEW r \in Resources, UserEdit(r)
      PROVE  IInv'
  BY <1>8 DEF IInv, TypeOK, RegisteredMonitorLive, NewNotStopped, UserEdit
<1>9. CASE UNCHANGED vars
  BY <1>9 DEF IInv, TypeOK, RegisteredMonitorLive, NewNotStopped, vars
<1>10. QED
  BY <1>1, <1>2, <1>3, <1>4, <1>5, <1>6, <1>7, <1>8, <1>9
     DEF Next, Reconcile, TaskStep

(***************************************************************************)
(* The registry is well-typed in every reachable state.                    *)
(***************************************************************************)
THEOREM MonitorTypeCorrect == Spec => []TypeOK
<1>1. IInv => TypeOK
  BY DEF IInv
<1>2. QED
  BY InitIInv, NextIInv, <1>1, PTL DEF Spec

(***************************************************************************)
(* For every number of resources and monitors: whatever the interleaving   *)
(* of StartMonitor, CancelMonitor and the monitors' own tasks, the monitor *)
(* found under a resource's key was started for that resource, has not    *)
(* been stopped and has not exited.  The strengthening NewNotStopped is    *)
(* needed because StartMonitor registers a monitor that was never in the  *)
(* registry, and only registered monitors are known to be unstopped.       *)
(***************************************************************************)
THEOREM RegisteredMonitorsAreLive == Spec => []RegisteredMonitorLive
<1>1. IInv => RegisteredMonitorLive
  BY DEF IInv
<1>2. QED
  BY InitIInv, NextIInv, <1>1, PTL DEF Spec
=============================================================================
