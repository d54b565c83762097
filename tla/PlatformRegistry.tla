--------------------------- MODULE PlatformRegistry ---------------------------
(***************************************************************************)
(* The SystemNamespace registry of PlatformManager (pkg/manager/manager.go)*)
(* and the path by which a discarded platform client is rebuilt:           *)
(* ResetPlatformClient clears the cached client and, still holding the     *)
(* manager lock, calls NotifySystemController, which lists the System      *)
(* resources of the namespace and bumps their notification annotation;    *)
(* the watch turns each changed annotation into a reconcile request for    *)
(* the system controller, which rebuilds the client.                       *)
(*                                                                         *)
(* Every registry operation other than ResetPlatformClient takes and       *)
(* releases m.lock around a few map operations and no I/O, so it is one    *)
(* atomic step, enabled when the lock is free.  ResetPlatformClient keeps  *)
(* the lock across the cluster List and Update calls of                    *)
(* NotifySystemController, so its steps are separate actions of a worker  *)
(* that owns the lock.                                                     *)
(*                                                                         *)
(* The system controller (not part of this repository's sources) and the  *)
(* cluster store are the environment: their behaviour is taken from the    *)
(* spec (sections 4.1, 6): the controller rebuilds the client when it is   *)
(* absent and writes the System status; the store rejects an Update based  *)
(* on a stale read; a changed annotation makes the watch queue a reconcile.*)
(***************************************************************************)
EXTENDS NotificationCount, FiniteSets

CONSTANTS
    Namespaces,   \* namespaces holding a target system
    Workers,      \* reconcile threads of the controllers calling the manager
    SystemObjs,   \* System resources in the cluster
    SystemNs,     \* the namespace of each System resource
    Clients,      \* platform client handles BuildPlatformClient may return
    NoClient,     \* the nil *gophercloud.ServiceClient
    NoOwner,      \* holder of m.lock when nobody holds it
    ApiMayFail,   \* whether cluster List/Update calls may fail in transport
    MaxRestarts   \* bound on process restarts

ASSUME ConstantsAssumption ==
    /\ SystemNs \in [SystemObjs -> Namespaces]
    /\ NoClient \notin Clients
    /\ NoOwner \notin Workers
    /\ ApiMayFail \in BOOLEAN
    /\ MaxRestarts \in Nat

\* SystemType (manager.go 58-64); the zero value "" means not yet known.
SystemTypes == {"all-in-one", "standard"}
TypeUnset == ""

\* SystemNamespace (manager.go 74-78).
Entry == [client : Clients \cup {NoClient}, ready : BOOLEAN,
          systemType : SystemTypes \cup {TypeUnset}]

\* An object whose annotation map is nil, as decoded from an object with no
\* annotations at all; reading a key of it yields "".
NilMap == [form |-> "nilmap", num |-> 0]
Annotation == Text \cup {NilMap}

\* The notification annotation a user or a tool may write on a System.
EditValues == {NilMap, JunkText, Itoa(MaxInt)}

VARIABLES
    systems,   \* m.systems: namespace -> SystemNamespace, for namespaces with an entry
    lock,      \* the worker holding m.lock across NotifySystemController, or NoOwner
    pc,        \* per worker: "idle", or where it is in ResetPlatformClient
    target,    \* per worker: the namespace its ResetPlatformClient is about
    listed,    \* per worker: System objects still to update -> annotation read, read still current
    store,     \* per System object: its notification annotation in the cluster
    sysEvent,  \* per System object: a reconcile request queued by the watch
    sysPc,     \* per System object: "idle", "build" or "status" in its reconcile
    resetErr,  \* per namespace: a ResetPlatformClient returned an error since the last clear
    owed,      \* per System object: a client was cleared and this object not yet notified
    restarts   \* number of process restarts so far

vars == <<systems, lock, pc, target, listed, store, sysEvent, sysPc,
          resetErr, owed, restarts>>

ListEntry == [ann : Annotation, fresh : BOOLEAN]

TypeOK ==
    /\ DOMAIN systems \subseteq Namespaces
    /\ \A n \in DOMAIN systems : systems[n] \in Entry
    /\ lock \in Workers \cup {NoOwner}
    /\ pc \in [Workers -> {"idle", "list", "update"}]
    /\ target \in [Workers -> Namespaces]
    /\ \A w \in Workers : /\ DOMAIN listed[w] \subseteq SystemObjs
                          /\ \A o \in DOMAIN listed[w] : listed[w][o] \in ListEntry
    /\ DOMAIN listed = Workers
    /\ store \in [SystemObjs -> Annotation]
    /\ sysEvent \in [SystemObjs -> BOOLEAN]
    /\ sysPc \in [SystemObjs -> {"idle", "build", "status"}]
    /\ resetErr \in [Namespaces -> BOOLEAN]
    /\ owed \in [SystemObjs -> BOOLEAN]
    /\ restarts \in 0 .. MaxRestarts

-----------------------------------------------------------------------------
(* Reads of the registry (manager.go 304-314, 353-362, 381-390).           *)

GetPlatformClient(n) == IF n \in DOMAIN systems THEN systems[n].client ELSE NoClient
GetSystemReady(n) == IF n \in DOMAIN systems THEN systems[n].ready ELSE FALSE
GetSystemType(n) == IF n \in DOMAIN systems THEN systems[n].systemType ELSE TypeUnset

HasClient(n) == GetPlatformClient(n) # NoClient

ObjsIn(n) == {o \in SystemObjs : SystemNs[o] = n}

ResetInFlight(n) == \E w \in Workers : pc[w] # "idle" /\ target[w] = n

\* Some System of namespace n has a reconcile queued or is building a client.
RebuildPending(n) == \E o \in ObjsIn(n) : sysEvent[o] \/ sysPc[o] = "build"

\* m.systems[n] = &SystemNamespace{...}: a new entry for a namespace without one.
AddEntry(n, e) == [x \in DOMAIN systems \cup {n} |-> IF x = n THEN e ELSE systems[x]]

\* A write of object o by anyone makes every earlier read of o stale.
Invalidate(o) == [w \in Workers |-> [p \in DOMAIN listed[w] |->
                    IF p = o THEN [listed[w][p] EXCEPT !.fresh = FALSE]
                    ELSE listed[w][p]]]

NoListing == [w \in Workers |-> [o \in {} |-> TRUE]]

-----------------------------------------------------------------------------
(* Process start (NewPlatformManager, manager.go 87-93; GetInstance,       *)
(* 426-436): the registry is empty and the informers' initial list queues  *)
(* a reconcile request for every System.                                   *)

InitRegistry ==
    /\ systems = [n \in {} |-> TRUE]
    /\ lock = NoOwner
    /\ pc = [w \in Workers |-> "idle"]
    /\ listed = NoListing
    /\ sysEvent = [o \in SystemObjs |-> TRUE]
    /\ sysPc = [o \in SystemObjs |-> "idle"]
    /\ resetErr = [n \in Namespaces |-> FALSE]
    /\ owed = [o \in SystemObjs |-> FALSE]

Init ==
    /\ InitRegistry
    /\ target \in [Workers -> Namespaces]
    /\ store \in [SystemObjs -> {NilMap, EmptyText}]
    /\ restarts = 0

\* The process dies and starts again: everything in memory is lost, the
\* cluster store is not.
Crash ==
    /\ systems' = [n \in {} |-> TRUE]
    /\ lock' = NoOwner
    /\ pc' = [w \in Workers |-> "idle"]
    /\ listed' = NoListing
    /\ sysEvent' = [o \in SystemObjs |-> TRUE]
    /\ sysPc' = [o \in SystemObjs |-> "idle"]
    /\ resetErr' = [n \in Namespaces |-> FALSE]
    /\ owed' = [o \in SystemObjs |-> FALSE]
    /\ UNCHANGED <<target, store>>

-----------------------------------------------------------------------------
(* Registry writes: one atomic step each under m.lock.                     *)

\* Variant with a bug: the entry is replaced instead of updated, as in
\* m.systems[namespace] = &SystemNamespace{ready: value} without the lookup.
SetSystemReadyReplace(w, n, v) ==
    /\ pc[w] = "idle"
    /\ lock = NoOwner
    /\ systems' = [x \in DOMAIN systems \cup {n} |->
                    IF x = n THEN [client |-> NoClient, ready |-> v, systemType |-> TypeUnset]
                    ELSE systems[x]]
    /\ UNCHANGED <<lock, pc, target, listed, store, sysEvent, sysPc, resetErr, owed, restarts>>

\* SetSystemReady (manager.go 340-349).
SetSystemReady(w, n, v) ==
    /\ pc[w] = "idle"
    /\ lock = NoOwner
    /\ systems' = IF n \in DOMAIN systems
                    THEN [systems EXCEPT ![n].ready = v]
                    ELSE AddEntry(n, [client |-> NoClient, ready |-> v, systemType |-> TypeUnset])
    /\ UNCHANGED <<lock, pc, target, listed, store, sysEvent, sysPc, resetErr, owed, restarts>>

\* SetSystemType (manager.go 365-377); an equal value leaves the entry as it is.
SetSystemType(w, n, t) ==
    /\ pc[w] = "idle"
    /\ lock = NoOwner
    /\ systems' = IF n \in DOMAIN systems
                    THEN [systems EXCEPT ![n].systemType = t]
                    ELSE AddEntry(n, [client |-> NoClient, ready |-> FALSE, systemType |-> t])
    /\ UNCHANGED <<lock, pc, target, listed, store, sysEvent, sysPc, resetErr, owed, restarts>>

\* Variant with a bug: the "Already reset" early return is dropped, so a
\* Reset of a namespace whose client is nil notifies again.
ResetPlatformClientNoNilCheck(w, n) ==
    /\ pc[w] = "idle"
    /\ lock = NoOwner
    /\ n \in DOMAIN systems
    /\ systems' = [systems EXCEPT ![n].client = NoClient]
    /\ lock' = w
    /\ pc' = [pc EXCEPT ![w] = "list"]
    /\ target' = [target EXCEPT ![w] = n]
    /\ owed' = [o \in SystemObjs |-> owed[o] \/ (o \in ObjsIn(n) /\ systems[n].client # NoClient)]
    /\ resetErr' = [resetErr EXCEPT ![n] = FALSE]
    /\ UNCHANGED <<listed, store, sysEvent, sysPc, restarts>>

(***************************************************************************)
(* ResetPlatformClient (manager.go 318-336).  With no entry, or with the   *)
(* client already nil, it returns nil and changes nothing: a stuttering    *)
(* step.  Otherwise it clears the client and goes on to notify the system  *)
(* controller without releasing the lock.                                  *)
(***************************************************************************)
ResetPlatformClient(w, n) ==
    /\ pc[w] = "idle"
    /\ lock = NoOwner
    /\ n \in DOMAIN systems
    /\ systems[n].client # NoClient
    /\ systems' = [systems EXCEPT ![n].client = NoClient]
    /\ lock' = w
    /\ pc' = [pc EXCEPT ![w] = "list"]
    /\ target' = [target EXCEPT ![w] = n]
    /\ owed' = [o \in SystemObjs |-> owed[o] \/ (o \in ObjsIn(n) /\ systems[n].client # NoClient)]
    /\ resetErr' = [resetErr EXCEPT ![n] = FALSE]
    /\ UNCHANGED <<listed, store, sysEvent, sysPc, restarts>>

\* ResetPlatformClient returns to its caller; the deferred Unlock runs.
ResetReturns(w, failed) ==
    /\ pc' = [pc EXCEPT ![w] = "idle"]
    /\ lock' = NoOwner
    /\ listed' = [listed EXCEPT ![w] = [o \in {} |-> TRUE]]
    /\ resetErr' = IF failed THEN [resetErr EXCEPT ![target[w]] = TRUE] ELSE resetErr

\* NotifySystemController: List of the namespace's Systems (manager.go 150-153).
NotifyList(w) ==
    /\ pc[w] = "list"
    /\ listed' = [listed EXCEPT ![w] =
                    [o \in ObjsIn(target[w]) |-> [ann |-> store[o], fresh |-> TRUE]]]
    /\ pc' = [pc EXCEPT ![w] = "update"]
    /\ UNCHANGED <<systems, lock, target, store, sysEvent, sysPc, resetErr, owed, restarts>>

\* Variant with a bug: the error path returns without unlocking, as an
\* explicit Unlock placed after the List call instead of a defer would.
NotifyListFailsKeepsLock(w) ==
    /\ ApiMayFail
    /\ pc[w] = "list"
    /\ pc' = [pc EXCEPT ![w] = "idle"]
    /\ listed' = [listed EXCEPT ![w] = [o \in {} |-> TRUE]]
    /\ resetErr' = [resetErr EXCEPT ![target[w]] = TRUE]
    /\ UNCHANGED <<systems, lock, target, store, sysEvent, sysPc, owed, restarts>>

\* The List fails; the wrapped error is returned (manager.go 153-157).
NotifyListFails(w) ==
    /\ ApiMayFail
    /\ pc[w] = "list"
    /\ ResetReturns(w, TRUE)
    /\ UNCHANGED <<systems, target, store, sysEvent, sysPc, owed, restarts>>

(***************************************************************************)
(* One iteration of the loop over the listed Systems (manager.go 161-171): *)
(* getNextCount of the annotation read, written into the object's map,     *)
(* and an Update carrying the resourceVersion read.  The store accepts it  *)
(* if nobody wrote the object since; the watch queues a reconcile request  *)
(* if the annotation changed.                                              *)
(***************************************************************************)
NotifyUpdate(w, o) ==
    /\ pc[w] = "update"
    /\ o \in DOMAIN listed[w]
    /\ listed[w][o].ann # NilMap
    /\ listed[w][o].fresh
    /\ LET new == getNextCount(listed[w][o].ann)
       IN  /\ store' = [store EXCEPT ![o] = new]
           /\ sysEvent' = [sysEvent EXCEPT ![o] = sysEvent[o] \/ new # store[o]]
    /\ listed' = [listed EXCEPT ![w] = [p \in DOMAIN listed[w] \ {o} |-> listed[w][p]]]
    /\ owed' = [owed EXCEPT ![o] = FALSE]
    /\ UNCHANGED <<systems, lock, pc, target, sysPc, resetErr, restarts>>

\* Variant with a bug: a failed Update is logged and skipped, and the
\* loop ends with nil, so the caller never learns of it.
NotifyUpdateFailsSwallowed(w, o) ==
    /\ pc[w] = "update"
    /\ o \in DOMAIN listed[w]
    /\ listed[w][o].ann # NilMap
    /\ ~listed[w][o].fresh \/ ApiMayFail
    /\ ResetReturns(w, FALSE)
    /\ UNCHANGED <<systems, target, store, sysEvent, sysPc, owed, restarts>>

\* The Update is rejected (stale resourceVersion) or fails in transport;
\* the wrapped error is returned and the remaining Systems are skipped
\* (manager.go 165-169).
NotifyUpdateFails(w, o) ==
    /\ pc[w] = "update"
    /\ o \in DOMAIN listed[w]
    /\ listed[w][o].ann # NilMap
    /\ ~listed[w][o].fresh \/ ApiMayFail
    /\ ResetReturns(w, TRUE)
    /\ UNCHANGED <<systems, target, store, sysEvent, sysPc, owed, restarts>>

\* obj.Annotations[NotificationCountKey] = count on a nil map panics
\* (manager.go 163); the panic is not recovered and the process restarts.
NotifyPanic(w, o) ==
    /\ pc[w] = "update"
    /\ o \in DOMAIN listed[w]
    /\ listed[w][o].ann = NilMap
    /\ Crash
    /\ UNCHANGED restarts

\* The loop is over: ResetPlatformClient returns nil (manager.go 174, 336).
NotifyDone(w) ==
    /\ pc[w] = "update"
    /\ DOMAIN listed[w] = {}
    /\ ResetReturns(w, FALSE)
    /\ UNCHANGED <<systems, target, store, sysEvent, sysPc, owed, restarts>>

-----------------------------------------------------------------------------
(* The system controller's reconcile of a System (environment).            *)

\* A queued request is served: GetPlatformClient under the lock decides
\* whether the client must be built.
SysReconcile(o) ==
    /\ sysEvent[o]
    /\ sysPc[o] = "idle"
    /\ lock = NoOwner
    /\ sysEvent' = [sysEvent EXCEPT ![o] = FALSE]
    /\ sysPc' = [sysPc EXCEPT ![o] = IF HasClient(SystemNs[o]) THEN "status" ELSE "build"]
    /\ UNCHANGED <<systems, lock, pc, target, listed, store, resetErr, owed, restarts>>

\* BuildPlatformClient succeeds and stores the client under the lock,
\* merged into the namespace's entry.
SysBuild(o, c) ==
    /\ sysPc[o] = "build"
    /\ lock = NoOwner
    /\ LET n == SystemNs[o]
       IN  systems' = IF n \in DOMAIN systems
                        THEN [systems EXCEPT ![n].client = c]
                        ELSE AddEntry(n, [client |-> c, ready |-> FALSE, systemType |-> TypeUnset])
    /\ sysPc' = [sysPc EXCEPT ![o] = "status"]
    /\ UNCHANGED <<lock, pc, target, listed, store, sysEvent, resetErr, owed, restarts>>

\* BuildPlatformClient fails; the reconcile returns the error and the
\* framework requeues the System with backoff.
SysBuildFails(o) ==
    /\ sysPc[o] = "build"
    /\ sysPc' = [sysPc EXCEPT ![o] = "idle"]
    /\ sysEvent' = [sysEvent EXCEPT ![o] = TRUE]
    /\ UNCHANGED <<systems, lock, pc, target, listed, store, resetErr, owed, restarts>>

\* The reconcile ends by writing the System's status: a new resourceVersion,
\* no change of annotations, so no new request.
SysStatus(o) ==
    /\ sysPc[o] = "status"
    /\ sysPc' = [sysPc EXCEPT ![o] = "idle"]
    /\ listed' = Invalidate(o)
    /\ UNCHANGED <<systems, lock, pc, target, store, sysEvent, resetErr, owed, restarts>>

(* Other actors.                                                           *)

\* A user or tool rewrites the System's annotations, which queues a request.
UserEdit(o, a) ==
    /\ a # store[o]
    /\ store' = [store EXCEPT ![o] = a]
    /\ listed' = Invalidate(o)
    /\ sysEvent' = [sysEvent EXCEPT ![o] = TRUE]
    /\ UNCHANGED <<systems, lock, pc, target, sysPc, resetErr, owed, restarts>>

Restart ==
    /\ restarts < MaxRestarts
    /\ Crash
    /\ restarts' = restarts + 1

-----------------------------------------------------------------------------
ResetStep(w) ==
    \/ NotifyList(w)
    \/ NotifyListFails(w)
    \/ \E o \in SystemObjs : NotifyUpdate(w, o) \/ NotifyUpdateFails(w, o) \/ NotifyPanic(w, o)
    \/ NotifyDone(w)

Next ==
    \/ \E w \in Workers :
         \/ \E n \in Namespaces, v \in BOOLEAN : SetSystemReady(w, n, v)
         \/ \E n \in Namespaces, t \in SystemTypes : SetSystemType(w, n, t)
         \/ \E n \in Namespaces : ResetPlatformClient(w, n)
         \/ ResetStep(w)
    \/ \E o \in SystemObjs :
         \/ SysReconcile(o)
         \/ \E c \in Clients : SysBuild(o, c)
         \/ SysBuildFails(o)
         \/ SysStatus(o)
         \/ \E a \in EditValues : UserEdit(o, a)
    \/ Restart

(***************************************************************************)
(* Fairness.  A cluster call returns, so a Reset in progress keeps making  *)
(* steps.  This is an assumption: the calls pass context.TODO()            *)
(* (manager.go 153, 165) and have no deadline of their own; the API        *)
(* server's request timeout ends a call it has received, and a call hung   *)
(* on a dead connection is assumed away.  The framework serves a queued    *)
(* request once the lock is free, which it is only intermittently; a build *)
(* retried with backoff eventually succeeds once the platform is           *)
(* reachable.  Callers, users and restarts are under no obligation.        *)
(***************************************************************************)
Fairness ==
    /\ \A w \in Workers : WF_vars(ResetStep(w))
    /\ \A o \in SystemObjs : /\ SF_vars(SysReconcile(o))
                             /\ SF_vars(\E c \in Clients : SysBuild(o, c))
                             /\ WF_vars(SysStatus(o))

Spec == Init /\ [][Next]_vars /\ Fairness

-----------------------------------------------------------------------------
(* The registry seen as the abstract per-field registers.                  *)

absClient == [n \in Namespaces |-> GetPlatformClient(n)]
absReady == [n \in Namespaces |-> GetSystemReady(n)]
absType == [n \in Namespaces |-> GetSystemType(n)]

Abstract == INSTANCE RegistryAbstract
              WITH client <- absClient, ready <- absReady, systemType <- absType

-----------------------------------------------------------------------------
(* Properties.                                                             *)

(***************************************************************************)
(* Whatever interleaving of Set*, Reset, builds and restarts happens, the  *)
(* registry behaves as three independent registers per namespace: writing *)
(* one field through SetSystemReady, SetSystemType or a build never        *)
(* changes another (the create-on-first-write branches of manager.go      *)
(* 344-348 and 369-375 merge rather than replace).                         *)
(***************************************************************************)
RegistryRefinesAbstract == Abstract!Spec

(***************************************************************************)
(* A cleared client is never forgotten silently: whenever a namespace with *)
(* Systems has no client and no ResetPlatformClient is working on it, one  *)
(* of its Systems has a reconcile request queued or a build in progress,   *)
(* or some ResetPlatformClient of that namespace returned an error to its  *)
(* caller (manager.go 153-157, 165-169), who then knows the rebuild was    *)
(* not requested.                                                          *)
(***************************************************************************)
LostRequestIsReported ==
    \A n \in Namespaces :
        ~HasClient(n) /\ ~ResetInFlight(n) /\ ObjsIn(n) # {}
          => RebuildPending(n) \/ resetErr[n]

(***************************************************************************)
(* ResetPlatformClient notifies a System only once per client it discards: *)
(* every System a Reset is about to list or update is owed a notification *)
(* by a clearing of a live client (spec 4.1 and 8: a second Reset with no *)
(* build in between is a no-op and does not notify again).                *)
(***************************************************************************)
NotifyOnlyOwed ==
    \A w \in Workers :
        /\ pc[w] = "list" => \A o \in ObjsIn(target[w]) : owed[o]
        /\ pc[w] = "update" => \A o \in DOMAIN listed[w] : owed[o]

(***************************************************************************)
(* A reconcile request for a System whose namespace has no client leads to *)
(* a client for that namespace: Reset's hold of the lock across its        *)
(* cluster calls always ends.                                              *)
(***************************************************************************)
RebuildRequestServed ==
    \A o \in SystemObjs :
        (sysEvent[o] /\ ~HasClient(SystemNs[o])) ~> HasClient(SystemNs[o])

(***************************************************************************)
(* Spec 4.1: Reset "clears the client and then notifies the system         *)
(* controller so it rebuilds the client".  Stated as: when a namespace has *)
(* no client and no Reset is working on it, one of its Systems has a       *)
(* request queued or a build in progress.                                  *)
(***************************************************************************)
NoLostRebuildRequest ==
    \A n \in Namespaces :
        ~HasClient(n) /\ ~ResetInFlight(n) /\ ObjsIn(n) # {} => RebuildPending(n)

(***************************************************************************)
(* Spec 7: no internal operation terminates the process.  No step of       *)
(* NotifySystemController panics.                                          *)
(***************************************************************************)
NoPanic == [][\A w \in Workers, o \in SystemObjs : ~NotifyPanic(w, o)]_vars

=============================================================================
