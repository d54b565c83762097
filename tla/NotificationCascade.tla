-------------------------- MODULE NotificationCascade --------------------------
(***************************************************************************)
(* How the manager wakes dependent controllers (pkg/manager/manager.go     *)
(* 177-294).  The system controller calls NotifySystemDependencies, which  *)
(* runs notifyControllers over systemDependencies: for each kind in turn   *)
(* it lists the objects of that kind and bumps the notification annotation *)
(* of each with getNextCount, returning the first error.  A monitor calls  *)
(* NotifyResource (notifyController), which Gets one object and Updates it *)
(* with the bumped annotation.  Both write through the cluster store's     *)
(* optimistic concurrency: an Update of an object written since it was     *)
(* read fails with a conflict.  A dependent controller's watch queues a    *)
(* reconcile of its object when the annotation changes, and its reconcile  *)
(* writes the object (status), invalidating copies others hold.            *)
(*                                                                         *)
(* Data: each object has a kind and an annotation (NotificationCount's     *)
(* abstraction of the text, or NilMap for an object with no annotations).  *)
(* The system controller (not in this repository) requeues itself after    *)
(* an error, per spec 4.4 and 7.                                           *)
(***************************************************************************)
EXTENDS NotificationCount, Sequences, FiniteSets

CONSTANTS
    Objs,        \* the objects of the namespace
    KindOf,      \* the kind of each object
    ApiMayFail   \* whether List, Get and Update may fail for transport reasons

Kinds == {"Host", "HostProfile", "PlatformNetwork", "DataNetwork", "PTPInstance", "PTPInterface"}

ASSUME CascadeAssumption ==
    /\ KindOf \in [Objs -> Kinds]
    /\ ApiMayFail \in BOOLEAN

\* systemDependencies (manager.go 181-196): the kinds notified, in order.
systemDependencies == <<"Host", "PlatformNetwork", "DataNetwork", "PTPInstance", "PTPInterface">>

\* The kinds the switch of notifyControllers bumps (manager.go 216).
NotifiedKinds == Kinds

NilMap == [form |-> "nilmap", num |-> 0]

\* An annotation map with no notification entry reads as "" in Go.
AnnotationValue(a) == IF a = NilMap THEN EmptyText ELSE a

VARIABLES
    store,       \* per object: its notification annotation in the cluster
    event,       \* per object: its controller has a reconcile queued
    sysQueued,   \* the system controller has a reconcile queued
    cpc,         \* notifyControllers: "idle", "list" or "update"
    kidx,        \* notifyControllers: index of the kind being handled
    listed,      \* notifyControllers: object -> [ann, fresh] from the last List
    rpc,         \* notifyController: "idle", "get" or "update"
    robj,        \* notifyController: the object being notified
    rread,       \* notifyController: [ann, fresh] from its Get
    owed,        \* ghost: dependents the running cascade has not yet bumped
    rret         \* history: what the last notifyController returned ("none", "ok", "err")

vars == <<store, event, sysQueued, cpc, kidx, listed, rpc, robj, rread, owed, rret>>

Read == [ann : Text \cup {NilMap}, fresh : BOOLEAN]

TypeOK ==
    /\ store \in [Objs -> Text \cup {NilMap}]
    /\ event \in [Objs -> BOOLEAN]
    /\ sysQueued \in BOOLEAN
    /\ cpc \in {"idle", "list", "update"}
    /\ kidx \in 1 .. Len(systemDependencies) + 1
    /\ DOMAIN listed \subseteq Objs /\ \A o \in DOMAIN listed : listed[o] \in Read
    /\ rpc \in {"idle", "get", "update"}
    /\ rpc # "idle" => robj \in Objs
    /\ rread \in Read
    /\ owed \subseteq Objs
    /\ rret \in {"none", "ok", "err"}

\* The objects notifyControllers is meant to reach.
Dependents == {o \in Objs : KindOf[o] \in {systemDependencies[i] : i \in DOMAIN systemDependencies}}

NoListing == [o \in {} |-> [ann |-> NilMap, fresh |-> FALSE]]

\* Every cached copy of o is now stale: o was written.
Invalidate(o) ==
    /\ listed' = [x \in DOMAIN listed |-> IF x = o THEN [listed[x] EXCEPT !.fresh = FALSE] ELSE listed[x]]
    /\ rread' = IF robj = o THEN [rread EXCEPT !.fresh = FALSE] ELSE rread

\* An Update writes the bumped annotation of o; the watch queues a
\* reconcile only if the value changed.
Bump(o, old) ==
    LET new == getNextCount(AnnotationValue(old))
    IN  /\ store' = [store EXCEPT ![o] = new]
        /\ event' = [event EXCEPT ![o] = event[o] \/ new # store[o]]

Init ==
    /\ store \in [Objs -> {NilMap, EmptyText, JunkText}]
    /\ event = [o \in Objs |-> FALSE]
    /\ sysQueued = TRUE
    /\ cpc = "idle"
    /\ kidx = 1
    /\ listed = NoListing
    /\ rpc = "idle"
    /\ robj = CHOOSE o \in Objs : TRUE
    /\ rread = [ann |-> NilMap, fresh |-> FALSE]
    /\ owed = {}
    /\ rret = "none"

-----------------------------------------------------------------------------
(* notifyControllers (manager.go 202-239), run by a system reconcile.       *)

\* The system controller reconciles and calls NotifySystemDependencies.
CascadeStart ==
    /\ cpc = "idle"
    /\ sysQueued
    /\ cpc' = "list"
    /\ kidx' = 1
    /\ sysQueued' = FALSE
    /\ owed' = Dependents
    /\ UNCHANGED <<store, event, listed, rpc, robj, rread, rret>>

\* List the objects of the next kind (203-208).
CascadeList ==
    /\ cpc = "list"
    /\ kidx <= Len(systemDependencies)
    /\ listed' = [o \in {x \in Objs : KindOf[x] = systemDependencies[kidx]} |->
                    [ann |-> store[o], fresh |-> TRUE]]
    /\ cpc' = "update"
    /\ UNCHANGED <<store, event, sysQueued, kidx, rpc, robj, rread, owed, rret>>

\* All kinds handled: return nil.
CascadeDone ==
    /\ cpc = "list"
    /\ kidx > Len(systemDependencies)
    /\ cpc' = "idle"
    /\ UNCHANGED <<store, event, sysQueued, kidx, listed, rpc, robj, rread, owed, rret>>

\* The List fails (209-212): the error is returned and the system
\* controller requeues.
CascadeListFails ==
    /\ cpc = "list"
    /\ kidx <= Len(systemDependencies)
    /\ ApiMayFail
    /\ cpc' = "idle"
    /\ sysQueued' = TRUE
    /\ UNCHANGED <<store, event, kidx, listed, rpc, robj, rread, owed, rret>>

\* Bump one listed object (214-227, 233): a nil map is replaced by an empty one.
CascadeUpdate(o) ==
    /\ cpc = "update"
    /\ o \in DOMAIN listed
    /\ listed[o].fresh
    /\ KindOf[o] \in NotifiedKinds
    /\ Bump(o, listed[o].ann)
    /\ listed' = [x \in DOMAIN listed \ {o} |-> listed[x]]
    /\ rread' = IF robj = o THEN [rread EXCEPT !.fresh = FALSE] ELSE rread
    /\ owed' = owed \ {o}
    /\ UNCHANGED <<sysQueued, cpc, kidx, rpc, robj, rret>>

\* Variant with a bug: a failed Update is logged and the loop goes on.
CascadeUpdateFailsSkipped(o) ==
    /\ cpc = "update"
    /\ o \in DOMAIN listed
    /\ ~listed[o].fresh \/ ApiMayFail
    /\ listed' = [x \in DOMAIN listed \ {o} |-> listed[x]]
    /\ UNCHANGED <<store, event, sysQueued, cpc, kidx, rpc, robj, rread, owed, rret>>

\* The Update conflicts or fails (227-231): the error is returned at once,
\* the rest of the list and the later kinds are not notified.
CascadeUpdateFails(o) ==
    /\ cpc = "update"
    /\ o \in DOMAIN listed
    /\ ~listed[o].fresh \/ ApiMayFail
    /\ cpc' = "idle"
    /\ listed' = NoListing
    /\ sysQueued' = TRUE
    /\ UNCHANGED <<store, event, kidx, rpc, robj, rread, owed, rret>>

\* Every listed object is bumped: go on with the next kind.
CascadeNextKind ==
    /\ cpc = "update"
    /\ DOMAIN listed = {}
    /\ cpc' = "list"
    /\ kidx' = kidx + 1
    /\ UNCHANGED <<store, event, sysQueued, listed, rpc, robj, rread, owed, rret>>

-----------------------------------------------------------------------------
(* notifyController (manager.go 243-286), called through NotifyResource.    *)

ResourceStart(o) ==
    /\ rpc = "idle"
    /\ rpc' = "get"
    /\ robj' = o
    /\ UNCHANGED <<store, event, sysQueued, cpc, kidx, listed, rread, owed, rret>>

\* Get the object (244-254); a failure is returned.
ResourceGet ==
    /\ rpc = "get"
    /\ \/ /\ rread' = [ann |-> store[robj], fresh |-> TRUE]
          /\ rpc' = "update"
          /\ UNCHANGED rret
       \/ /\ ApiMayFail
          /\ rpc' = "idle"
          /\ rret' = "err"
          /\ UNCHANGED rread
    /\ UNCHANGED <<store, event, sysQueued, cpc, kidx, listed, robj, owed>>

\* Variant with a bug: a failed Update is logged and nil is returned.
ResourceUpdateSwallowed ==
    /\ rpc = "update"
    /\ rpc' = "idle"
    /\ rret' = "ok"
    /\ \/ /\ rread.fresh
          /\ Bump(robj, rread.ann)
          /\ listed' = [x \in DOMAIN listed |->
                          IF x = robj THEN [listed[x] EXCEPT !.fresh = FALSE] ELSE listed[x]]
       \/ /\ ~rread.fresh \/ ApiMayFail
          /\ UNCHANGED <<store, event, listed>>
    /\ UNCHANGED <<sysQueued, cpc, kidx, robj, rread, owed>>

\* Update with the bumped annotation (256-285) and return nil, or return
\* the error: a conflict with a write since the Get, or a failed call.
ResourceUpdate ==
    /\ rpc = "update"
    /\ rpc' = "idle"
    /\ \/ /\ rread.fresh
          /\ Bump(robj, rread.ann)
          /\ listed' = [x \in DOMAIN listed |->
                          IF x = robj THEN [listed[x] EXCEPT !.fresh = FALSE] ELSE listed[x]]
          /\ rret' = "ok"
       \/ /\ ~rread.fresh \/ ApiMayFail
          /\ rret' = "err"
          /\ UNCHANGED <<store, event, listed>>
    /\ UNCHANGED <<sysQueued, cpc, kidx, robj, rread, owed>>

-----------------------------------------------------------------------------
(* The dependent controllers and users.                                    *)

\* The controller of o reconciles and writes the object's status.
DependentReconcile(o) ==
    /\ event[o]
    /\ event' = [event EXCEPT ![o] = FALSE]
    /\ Invalidate(o)
    /\ UNCHANGED <<store, sysQueued, cpc, kidx, rpc, robj, owed, rret>>

\* Someone writes an annotation value of their own.
UserEdit(o, a) ==
    /\ store' = [store EXCEPT ![o] = a]
    /\ event' = [event EXCEPT ![o] = event[o] \/ a # store[o]]
    /\ Invalidate(o)
    /\ UNCHANGED <<sysQueued, cpc, kidx, rpc, robj, owed, rret>>

\* A system event queues another system reconcile.
SystemEvent ==
    /\ ~sysQueued
    /\ sysQueued' = TRUE
    /\ UNCHANGED <<store, event, cpc, kidx, listed, rpc, robj, rread, owed, rret>>

Next ==
    \/ CascadeStart \/ CascadeList \/ CascadeDone \/ CascadeListFails \/ CascadeNextKind
    \/ \E o \in Objs : CascadeUpdate(o) \/ CascadeUpdateFails(o)
    \/ \E o \in Objs : ResourceStart(o)
    \/ ResourceGet \/ ResourceUpdate
    \/ \E o \in Objs : DependentReconcile(o)
    \/ \E o \in Objs, a \in {JunkText, Itoa(MaxInt)} : UserEdit(o, a)
    \/ SystemEvent

Spec == Init /\ [][Next]_vars

-----------------------------------------------------------------------------
(* Properties.                                                             *)

(***************************************************************************)
(* Spec 4.4: a system event reaches every dependent controller.  Whenever  *)
(* the system controller has nothing left to do (no cascade running, no    *)
(* retry queued), every object of a kind in systemDependencies has been    *)
(* bumped by the last cascade, however its Updates raced with controllers, *)
(* users and monitors: a failure anywhere in the loop is returned and      *)
(* retried, never dropped.                                                 *)
(***************************************************************************)
NotifiedUnlessRetrying == cpc = "idle" /\ ~sysQueued => owed = {}

(***************************************************************************)
(* notifyController returns nil only when its Update has queued a          *)
(* reconcile of the object: whatever a concurrent controller, user or      *)
(* cascade wrote between the Get and the Update (manager.go 249-281), a    *)
(* conflict is returned to NotifyResource's caller, never reported as a    *)
(* notification that the watch will not deliver.                          *)
(***************************************************************************)
NotifySuccessWakes ==
    [][rpc = "update" /\ rpc' = "idle" /\ rret' = "ok" => event'[robj]]_vars

=============================================================================
