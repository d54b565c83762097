---------------------------- MODULE MonitorRegistry ----------------------------
(***************************************************************************)
(* The monitor registry of PlatformManager (pkg/manager/manager.go         *)
(* 392-424) and the reconcile-pause protocol built on it.  A reconcile     *)
(* that must wait for an external condition calls StartMonitor, which      *)
(* registers the monitor under the key of its resource, starts its         *)
(* background task and returns WaitForMonitor; the dispatcher treats that  *)
(* as "paused" and does not requeue.  The task polls the condition; when   *)
(* it holds, it notifies the resource (an annotation bump that queues a    *)
(* reconcile) and then deregisters itself, which the spec (4.2) defines as *)
(* CancelMonitor on its own key.  A reconcile may also cancel the monitor  *)
(* of its resource.                                                        *)
(*                                                                         *)
(* The Monitor type (GetKey, Start, Stop, BuildMonitorKey) and the         *)
(* controllers' reconcile functions are not among this repository's        *)
(* sources; their behaviour is taken from the spec: the key is derived     *)
(* from the resource's identity, so a resource is its own key; Stop closes *)
(* a channel the task observes at its next poll.  Every registry operation *)
(* runs entirely under m.lock and does no I/O, so each is one atomic step. *)
(* Reconciles of one resource never overlap (the framework's work queue),  *)
(* and each is one step that ends in one of the three results of the       *)
(* pause protocol.                                                         *)
(***************************************************************************)
CONSTANTS
    Resources,   \* resources whose controllers use monitors
    Monitors     \* monitor objects a reconcile may create

\* A monitor is always started for some resource, so there is one.
ASSUME MonitorAssumption == Resources # {}

VARIABLES
    monitors,    \* m.monitors: resource key -> the monitor registered under it
    mpc,         \* per monitor: "new", "polling", "deregister" or "exited"
    stopped,     \* per monitor: Stop has been called (its stop channel is closed)
    owner,       \* per monitor: the resource it was started for
    queued,      \* per resource: a reconcile request is queued
    paused,      \* per resource: its last reconcile returned WaitForMonitor
    cond         \* per resource: the external condition its monitors wait for holds

vars == <<monitors, mpc, stopped, owner, queued, paused, cond>>

TypeOK ==
    /\ DOMAIN monitors \subseteq Resources
    /\ \A r \in DOMAIN monitors : monitors[r] \in Monitors
    /\ mpc \in [Monitors -> {"new", "polling", "deregister", "exited"}]
    /\ stopped \in [Monitors -> BOOLEAN]
    /\ owner \in [Monitors -> Resources]
    /\ queued \in [Resources -> BOOLEAN]
    /\ paused \in [Resources -> BOOLEAN]
    /\ cond \in [Resources -> BOOLEAN]

Init ==
    /\ monitors = [r \in {} |-> CHOOSE m \in Monitors : TRUE]
    /\ mpc = [m \in Monitors |-> "new"]
    /\ stopped = [m \in Monitors |-> FALSE]
    /\ owner = [m \in Monitors |-> CHOOSE r \in Resources : TRUE]
    /\ queued = [r \in Resources |-> TRUE]
    /\ paused = [r \in Resources |-> FALSE]
    /\ cond \in [Resources -> BOOLEAN]

-----------------------------------------------------------------------------
\* Variant with a bug: the monitor is stopped but the entry is kept.
CancelledNoDelete(r) ==
    IF r \in DOMAIN monitors
      THEN /\ stopped' = [stopped EXCEPT ![monitors[r]] = TRUE]
           /\ UNCHANGED monitors
      ELSE UNCHANGED <<stopped, monitors>>

(***************************************************************************)
(* CancelMonitor(object) (manager.go 414-424) as a change of the registry  *)
(* and of the stop flags: if a monitor is registered under the key, Stop   *)
(* it and delete the entry; otherwise nothing.                             *)
(***************************************************************************)
Cancelled(r) ==
    IF r \in DOMAIN monitors
      THEN /\ stopped' = [stopped EXCEPT ![monitors[r]] = TRUE]
           /\ monitors' = [k \in DOMAIN monitors \ {r} |-> monitors[k]]
      ELSE UNCHANGED <<stopped, monitors>>

(***************************************************************************)
(* A reconcile of r calls StartMonitor(m, message) (manager.go 395-410):   *)
(* m.monitors[key] = monitor overwrites any monitor registered under the   *)
(* key, monitor.Start runs its task, and NewWaitForMonitor (119-129) is    *)
(* returned; the dispatcher recognises the type and does not requeue.      *)
(***************************************************************************)
StartMonitor(r, m) ==
    /\ queued[r]
    /\ mpc[m] = "new"
    /\ monitors' = [k \in DOMAIN monitors \cup {r} |-> IF k = r THEN m ELSE monitors[k]]
    /\ mpc' = [mpc EXCEPT ![m] = "polling"]
    /\ owner' = [owner EXCEPT ![m] = r]
    /\ queued' = [queued EXCEPT ![r] = FALSE]
    /\ paused' = [paused EXCEPT ![r] = TRUE]
    /\ UNCHANGED <<stopped, cond>>

\* A reconcile of r calls CancelMonitor(r) and then succeeds.
CancelMonitor(r) ==
    /\ queued[r]
    /\ Cancelled(r)
    /\ queued' = [queued EXCEPT ![r] = FALSE]
    /\ paused' = [paused EXCEPT ![r] = FALSE]
    /\ UNCHANGED <<mpc, owner, cond>>

\* A reconcile of r returns an ordinary error: the framework requeues it.
ReconcileFails(r) ==
    /\ queued[r]
    /\ paused[r]
    /\ paused' = [paused EXCEPT ![r] = FALSE]
    /\ UNCHANGED <<monitors, mpc, stopped, owner, queued, cond>>

-----------------------------------------------------------------------------
(* The monitor's background task (spec 4.2, 5).                            *)

\* At its next poll the task sees its stop channel closed and exits.
TaskExit(m) ==
    /\ mpc[m] = "polling"
    /\ stopped[m]
    /\ mpc' = [mpc EXCEPT ![m] = "exited"]
    /\ UNCHANGED <<monitors, stopped, owner, queued, paused, cond>>

\* Not stopped, the task finds the condition met and notifies its resource
\* (NotifyResource, an annotation bump the watch turns into a request).
TaskFire(m) ==
    /\ mpc[m] = "polling"
    /\ ~stopped[m]
    /\ cond[owner[m]]
    /\ queued' = [queued EXCEPT ![owner[m]] = TRUE]
    /\ mpc' = [mpc EXCEPT ![m] = "deregister"]
    /\ UNCHANGED <<monitors, stopped, owner, paused, cond>>

\* The task deregisters itself: CancelMonitor on its own key.
TaskDeregister(m) ==
    /\ mpc[m] = "deregister"
    /\ Cancelled(owner[m])
    /\ mpc' = [mpc EXCEPT ![m] = "exited"]
    /\ UNCHANGED <<owner, queued, paused, cond>>

(* The environment.                                                        *)

\* The platform reaches the state the monitors of r wait for, and stays there.
ConditionMet(r) ==
    /\ ~cond[r]
    /\ cond' = [cond EXCEPT ![r] = TRUE]
    /\ UNCHANGED <<monitors, mpc, stopped, owner, queued, paused>>

\* Someone changes the resource, which queues a reconcile.
UserEdit(r) ==
    /\ ~queued[r]
    /\ queued' = [queued EXCEPT ![r] = TRUE]
    /\ UNCHANGED <<monitors, mpc, stopped, owner, paused, cond>>

-----------------------------------------------------------------------------
\* One reconcile of r, ending in one of the three results.
Reconcile(r) ==
    \/ \E m \in Monitors : StartMonitor(r, m)
    \/ CancelMonitor(r)
    \/ ReconcileFails(r)

TaskStep(m) == TaskExit(m) \/ TaskFire(m) \/ TaskDeregister(m)

Next ==
    \/ \E r \in Resources :
         \/ Reconcile(r)
         \/ ConditionMet(r)
         \/ UserEdit(r)
    \/ \E m \in Monitors : TaskStep(m)

(***************************************************************************)
(* Fairness: the framework serves a queued request; a task keeps polling,  *)
(* so it sees a closed stop channel, sees its condition once it holds, and *)
(* finishes deregistering; the platform eventually reaches the state that  *)
(* is waited for (a pause for a state that never comes is not a fault of   *)
(* the manager).                                                           *)
(***************************************************************************)
Fairness ==
    /\ \A r \in Resources : WF_vars(Reconcile(r)) /\ WF_vars(ConditionMet(r))
    /\ \A m \in Monitors : WF_vars(TaskStep(m))

Spec == Init /\ [][Next]_vars /\ Fairness

-----------------------------------------------------------------------------
(* Properties.                                                             *)

(***************************************************************************)
(* The registry only ever holds a live monitor of the right resource:      *)
(* whatever the interleaving of reconciles and tasks, a monitor found      *)
(* under key r was started for r, has not been stopped and has not exited  *)
(* (spec 8: right after StartMonitor the monitor is registered and        *)
(* running; CancelMonitor stops and removes it together).                  *)
(***************************************************************************)
RegisteredMonitorLive ==
    \A r \in DOMAIN monitors :
        LET m == monitors[r]
        IN  owner[m] = r /\ ~stopped[m] /\ mpc[m] \in {"polling", "deregister"}

(***************************************************************************)
(* Spec 5 and 9: a monitor must not leak.  Every task still polling and    *)
(* not stopped is the one registered under its resource's key, so         *)
(* CancelMonitor can still reach it.                                       *)
(***************************************************************************)
NoOrphanedMonitor ==
    \A m \in Monitors :
        mpc[m] = "polling" /\ ~stopped[m]
          => owner[m] \in DOMAIN monitors /\ monitors[owner[m]] = m

(***************************************************************************)
(* Spec 4.3: a paused reconcile is resumed by its monitor.  A resource     *)
(* whose last reconcile returned WaitForMonitor eventually has a           *)
(* reconcile request queued.                                               *)
(***************************************************************************)
PausedResourceResumes == \A r \in Resources : paused[r] ~> queued[r]

=============================================================================
