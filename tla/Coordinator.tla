------------------------------ MODULE Coordinator ------------------------------
(***************************************************************************)
(* The PlatformManager as one object (pkg/manager/manager.go 80-93): the   *)
(* SystemNamespace registry and the monitor registry behind one m.lock,    *)
(* in one process.  The two components share two things.                  *)
(*                                                                         *)
(*   - The lock.  StartMonitor (396-397), CancelMonitor (415-416) and the  *)
(*     deregistration of a monitor's task (CancelMonitor on its own key)   *)
(*     take m.lock, which ResetPlatformClient holds across the cluster     *)
(*     List and Update calls of NotifySystemController (319-320, 336).    *)
(*     A monitor operation is a step enabled only while no Reset is in     *)
(*     progress.                                                           *)
(*   - The process.  A panic in NotifySystemController (163) or any other  *)
(*     restart loses both maps (NewPlatformManager, 87-93) and every       *)
(*     monitor task with them; the informers' initial list then queues a   *)
(*     reconcile of every resource, paused ones included.                  *)
(*                                                                         *)
(* Each component keeps its own actions, taken from PlatformRegistry and   *)
(* MonitorRegistry; here they are combined, the lock guard added to the    *)
(* monitor operations that take it, and the restart extended to monitors. *)
(***************************************************************************)
CONSTANTS
    Namespaces, Workers, SystemObjs, SystemNs, Clients, NoClient, NoOwner,
    ApiMayFail, MaxRestarts, IntWidth,
    Resources, Monitors

VARIABLES
    systems, lock, pc, target, listed, store, sysEvent, sysPc, resetErr, owed,
    restarts,
    monitors, mpc, stopped, owner, queued, paused, cond

Reg == INSTANCE PlatformRegistry
Mon == INSTANCE MonitorRegistry

regVars == <<systems, lock, pc, target, listed, store, sysEvent, sysPc, resetErr,
             owed, restarts>>
monVars == <<monitors, mpc, stopped, owner, queued, paused, cond>>
vars == <<regVars, monVars>>

TypeOK == Reg!TypeOK /\ Mon!TypeOK

Init == Reg!Init /\ Mon!Init

(***************************************************************************)
(* The monitor half of a process restart: m.monitors is a new empty map,   *)
(* every running task died with the process, and every resource has a     *)
(* reconcile queued by the informers' initial list.                       *)
(***************************************************************************)
MonitorsLost ==
    /\ monitors' = [r \in {} |-> CHOOSE m \in Monitors : TRUE]
    /\ mpc' = [m \in Monitors |-> IF mpc[m] = "new" THEN "new" ELSE "exited"]
    /\ queued' = [r \in Resources |-> TRUE]
    /\ paused' = [r \in Resources |-> FALSE]
    /\ UNCHANGED <<stopped, owner, cond>>

-----------------------------------------------------------------------------
(* Steps of the SystemNamespace registry; the monitors are left alone.     *)

\* A worker calls into the registry under m.lock.
RegistryCall ==
    /\ \E w \in Workers :
         \/ \E n \in Namespaces, v \in BOOLEAN : Reg!SetSystemReady(w, n, v)
         \/ \E n \in Namespaces, t \in Reg!SystemTypes : Reg!SetSystemType(w, n, t)
         \/ \E n \in Namespaces : Reg!ResetPlatformClient(w, n)
    /\ UNCHANGED monVars

\* The system controller and users act on the System objects.
RegistryEnv ==
    /\ \E o \in SystemObjs :
         \/ Reg!SysReconcile(o)
         \/ Reg!SysBuildFails(o)
         \/ Reg!SysStatus(o)
         \/ \E a \in Reg!EditValues : Reg!UserEdit(o, a)
    /\ UNCHANGED monVars

\* The system controller's build, strongly fair as in PlatformRegistry.
ClientBuild(o) == (\E c \in Clients : Reg!SysBuild(o, c)) /\ UNCHANGED monVars

\* A step of NotifySystemController; its panic takes the whole process down.
ResetStep(w) ==
    \/ /\ \/ Reg!NotifyList(w)
          \/ Reg!NotifyListFails(w)
          \/ \E o \in SystemObjs : Reg!NotifyUpdate(w, o) \/ Reg!NotifyUpdateFails(w, o)
          \/ Reg!NotifyDone(w)
       /\ UNCHANGED monVars
    \/ (\E o \in SystemObjs : Reg!NotifyPanic(w, o)) /\ MonitorsLost

Restart == Reg!Restart /\ MonitorsLost

-----------------------------------------------------------------------------
(* Steps of the monitor registry; the SystemNamespace registry is left    *)
(* alone.  StartMonitor and CancelMonitor wait for m.lock.                 *)

\* A reconcile of r: StartMonitor or CancelMonitor under the lock, or an error.
Reconcile(r) ==
    /\ \/ lock = NoOwner /\ \E m \in Monitors : Mon!StartMonitor(r, m)
       \/ lock = NoOwner /\ Mon!CancelMonitor(r)
       \/ Mon!ReconcileFails(r)
    /\ UNCHANGED regVars

\* A step of a monitor's task; deregistering is CancelMonitor, under the lock.
TaskStep(m) ==
    /\ \/ Mon!TaskExit(m)
       \/ Mon!TaskFire(m)
       \/ lock = NoOwner /\ Mon!TaskDeregister(m)
    /\ UNCHANGED regVars

MonitorEnv ==
    /\ \E r \in Resources : Mon!ConditionMet(r) \/ Mon!UserEdit(r)
    /\ UNCHANGED regVars

-----------------------------------------------------------------------------
Next ==
    \/ RegistryCall
    \/ RegistryEnv
    \/ \E o \in SystemObjs : ClientBuild(o)
    \/ \E w \in Workers : ResetStep(w)
    \/ Restart
    \/ \E r \in Resources : Reconcile(r)
    \/ \E m \in Monitors : TaskStep(m)
    \/ MonitorEnv

(***************************************************************************)
(* Fairness.  A Reset in progress keeps taking steps: assumed, as in       *)
(* PlatformRegistry, since its calls carry context.TODO() and only the API *)
(* server's request timeout bounds them.  An operation waiting for m.lock  *)
(* gets it: the lock is free only intermittently, but Go's sync.Mutex      *)
(* hands it to a goroutine that has waited over a millisecond before any   *)
(* newcomer (starvation mode), so a waiter is strongly fair.  The          *)
(* framework serves queued requests, tasks keep polling, and the awaited   *)
(* condition comes, as in the components.                                  *)
(***************************************************************************)
Fairness ==
    /\ \A w \in Workers : WF_vars(ResetStep(w))
    /\ \A o \in SystemObjs :
         /\ SF_vars(Reg!SysReconcile(o) /\ UNCHANGED monVars)
         /\ SF_vars(ClientBuild(o))
         /\ WF_vars(Reg!SysStatus(o) /\ UNCHANGED monVars)
    /\ \A r \in Resources : /\ SF_vars(Reconcile(r))
                            /\ WF_vars(Mon!ConditionMet(r) /\ UNCHANGED regVars)
    /\ \A m \in Monitors : SF_vars(TaskStep(m))

Spec == Init /\ [][Next]_vars /\ Fairness

-----------------------------------------------------------------------------
(***************************************************************************)
(* A monitor that has fired finishes deregistering, and every queued       *)
(* reconcile of a monitored resource is served, although the              *)
(* CancelMonitor and StartMonitor calls they make wait for an m.lock that *)
(* ResetPlatformClient holds across cluster calls (manager.go 319-336,     *)
(* 396-397, 415-416): no Reset keeps the monitor registry locked forever.  *)
(***************************************************************************)
MonitorCallsComplete ==
    /\ \A m \in Monitors : mpc[m] = "deregister" ~> mpc[m] = "exited"
    /\ \A r \in Resources : queued[r] ~> ~queued[r]

=============================================================================
