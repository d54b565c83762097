# Formal models of the deployment manager's coordination layer

This directory holds TLA+ models of `src/pkg/manager/manager.go`, the
`PlatformManager` that every controller of the deployment manager shares.
Alongside them are the TLC configurations that check the models on small
instances, and TLAPS proofs of the core model's main properties for every
value of its constants. `PROJECT.json` lists the components, the runs, the
mutants, the map from each definition to the source lines it models, the
findings, the hazards and the theorems.

## The system

`PlatformManager` is one object per process (`GetInstance`, 426-436). Many
controllers' reconcile threads call it in parallel. Its state is two maps,
guarded by one mutex `m.lock`.

- **SystemNamespace registry** (`m.systems`, 74-78, 300-390). It maps each
  namespace to a cached platform client, a readiness flag and a system type.
  - `GetPlatformClient`, `SetSystemReady`, `GetSystemReady`, `SetSystemType`
    and `GetSystemType` each take the lock around a map operation.
  - `ResetPlatformClient` (318-336) clears the client. It then calls
    `NotifySystemController` (149-175) **without releasing the lock**. That
    call lists the namespace's System resources and, for each one, bumps the
    `deployment-manager/notifications` annotation and Updates the object.
  - The system controller's watch turns the changed annotation into a
    reconcile, and that reconcile rebuilds the client. The system controller
    and `BuildPlatformClient` are not in the sources.
- **Notification counter** (`getNextCount`, 134-147). It turns the old
  annotation text into the new one. An empty or unparsable value counts as
  0, and the result is `strconv.Itoa(count + 1)` computed in Go `int`.
- **Notification cascade** (177-294).
  - `NotifySystemDependencies` runs `notifyControllers` over the fixed kind
    list `systemDependencies`. For each kind it Lists the objects and bumps
    and Updates each one. It returns the first error (fail-fast).
  - `NotifyResource` runs `notifyController`, which Gets one object and
    Updates it with a bumped annotation.
  - Every Update goes through the cluster store's optimistic concurrency: an
    Update based on a stale read is rejected.
- **Monitor registry** (`m.monitors`, 392-424).
  - `StartMonitor` registers a monitor under its resource's key, starts its
    background task, and returns the `WaitForMonitor` signal (119-129). The
    reconcile dispatcher treats that signal as "paused, do not requeue".
  - `CancelMonitor` stops and deletes whatever monitor is registered under a
    key.
  - The monitor's task waits for a condition, notifies its resource
    (`NotifyResource`), then deregisters itself. Spec 4.2 defines that
    deregistration as `CancelMonitor` on its own key. The `Monitor` type is
    not in the sources.
- **Error types** (95-129). `ClientError` is the failure of a client build.
  `WaitForMonitor` is the pause signal.

The components interact in two ways.
- **Through `m.lock` and the process.** The SystemNamespace registry and the
  monitor registry sit behind the same lock. `StartMonitor` and
  `CancelMonitor` (which every reconcile and every monitor's deregistration
  call) therefore wait while a `ResetPlatformClient` holds the lock across
  its cluster calls. A restart loses both maps and kills every monitor task.
- **Through the cluster.** Reset, the cascade and monitors all write the same
  annotation. Watches turn an annotation change into a reconcile, and
  reconciles write status, which makes everyone else's reads stale.

What the rest of this repository's `src/` holds and why it is not modelled:
- `ptpinterface_types.go`: API type declarations.
- The PtpInstance CRD YAML: generated.
- `src/unnamed/part_000`: a Makefile and gophercloud URL builders, which are
  string formatting.

## Modules

| Module | Models | State | Actions |
|---|---|---|---|
| `NotificationCount` | `getNextCount` (134-147), `strconv.Atoi`/`Itoa`, Go `int` | none: operators | `Atoi`, `Itoa`, `WrapInt`, `getNextCount` |
| `AnnotationCounter` | one annotation bumped and overwritten | `annotation` | `Bump`, `Edit` |
| `RegistryAbstract` | what the registry promises (spec 3, 4.1) | per-namespace `client`, `ready`, `systemType` | `Build`, `Reset`, `SetReady`, `SetType`, `Forget` |
| `PlatformRegistry` | `m.systems`, `m.lock`, `ResetPlatformClient` with `NotifySystemController` step by step; the system controller and the store as environment | `systems`, `lock`, `pc`/`target`/`listed` per worker, `store`, `sysEvent`, `sysPc`, `resetErr`, ghost `owed`, `restarts` | one per operation and per step of Reset (`NotifyList`, `NotifyListFails`, `NotifyUpdate`, `NotifyUpdateFails`, `NotifyPanic`, `NotifyDone`); `SysReconcile`, `SysBuild`, `SysBuildFails`, `SysStatus`, `UserEdit`, `Restart` |
| `MonitorRegistry` | `m.monitors`, `StartMonitor`, `CancelMonitor`, the pause protocol, the monitor task (from the spec) | `monitors`, `mpc`, `stopped`, `owner`, `queued`, `paused`, `cond` | `StartMonitor`, `CancelMonitor`, `ReconcileFails`, `TaskExit`, `TaskFire`, `TaskDeregister`, `ConditionMet`, `UserEdit` |
| `NotificationCascade` | `notifyControllers`, `notifyController`, dependents and users | `store`, `event`, `sysQueued`, cascade `cpc`/`kidx`/`listed`, notifier `rpc`/`robj`/`rread`, ghost `owed`, history `rret` | `CascadeStart`, `CascadeList`, `CascadeListFails`, `CascadeUpdate`, `CascadeUpdateFails`, `CascadeNextKind`, `CascadeDone`, `ResourceStart`, `ResourceGet`, `ResourceUpdate`, `DependentReconcile`, `UserEdit`, `SystemEvent` |
| `Coordinator` | the `PlatformManager` object (80-93): both registries on one `m.lock`, in one process | the variables of `PlatformRegistry` and `MonitorRegistry` | `RegistryCall` (a worker's call under `m.lock`), `RegistryEnv` (the system controller and users), `ClientBuild`, `ResetStep`, `Restart` (with `MonitorsLost`), `Reconcile`, `TaskStep`, `MonitorEnv` |
| `PlatformRegistry_proofs` | TLAPS: type correctness and refinement of `PlatformRegistry` | | |
| `PlatformRegistrySafety_proofs` | TLAPS: `NotifyOnlyOwed`, `LostRequestIsReported` | | |
| `MonitorRegistry_proofs` | TLAPS: type correctness and `RegisteredMonitorLive` | | |
| `NotificationCount_proofs` | TLAPS lemmas on `getNextCount` and `WrapInt` | | |
| `AnnotationCounter_proofs` | TLAPS: `BumpChangesAnnotation` | | |
| `NotificationCascade_proofs` | TLAPS: `NotifiedUnlessRetrying`, `NotifySuccessWakes` | | |

`MC_PlatformRegistry`, `MC_MonitorRegistry`, `MC_NotificationCascade` and
`MC_Coordinator` fix the constants for TLC.

`Coordinator` instantiates `PlatformRegistry` and `MonitorRegistry` over one
set of variables (`Reg == INSTANCE PlatformRegistry`,
`Mon == INSTANCE MonitorRegistry`). Every action of each component is an
action of the composition, leaving the other component's variables alone.
Three changes make the composition more than a product:
- the monitor operations that take `m.lock` (`StartMonitor`, `CancelMonitor`
  in a reconcile, and a task's deregistration) get the guard
  `lock = NoOwner`;
- a restart, whether `NotifyPanic` or any other, also takes `MonitorsLost`:
  the monitor map is emptied, running tasks die, and the informers queue a
  reconcile of every resource;
- `TaskFire` (`NotifyResource`) takes no lock and needs no guard.

The cascade is left out of the composition. It takes no lock and shares no
map, and its races on annotations are already checked in
`NotificationCascade`.

### How the code becomes actions

- **Atomic registry operations.** Every registry operation other than Reset
  takes the lock around a map operation and does no I/O. Each is one step,
  enabled when the lock is free (`lock = NoOwner`).
- **Reset.** `ResetPlatformClient` keeps the lock across the List and each
  Update of `NotifySystemController`, so each of those calls is a step of the
  worker that owns the lock. The early returns of Reset (no entry, or the
  client already nil) change nothing, so they are stuttering steps. The
  deferred Unlock is part of each returning step (`ResetReturns`).
- **Text.** Annotation text is abstracted to what `Atoi`/`Itoa` tell apart:
  - empty;
  - junk;
  - a canonical numeral (`"7"`);
  - a non-canonical numeral (`"+7"`, `"007"`), each with the integer it
    denotes.

  An object with no annotations has a nil map (`NilMap`). `WrapInt` keeps
  Go's wraparound at `IntWidth` bits.
- **Optimistic concurrency.** Each read of an object a caller holds carries a
  `fresh` flag. Any write of the object clears it, and an Update of a stale
  read fails with a conflict.
- **Watches.** The watch queues a reconcile only when the annotation
  changes, which is the `new # store[o]` in every bump.
- **Restarts.** A restart (`Crash`) loses memory and keeps the store. The
  informers' initial list then queues a reconcile of every System.
- **Ghost variables.** These record history for the properties and never
  affect the modelled behaviour:
  - `owed`: a client was cleared and this object has not been notified since.
  - `rret`: what the last `notifyController` call returned (`"ok"` for nil,
    `"err"` for an error).
  - `resetErr`: a Reset of the namespace has returned an error.

## Runs

| Run | Config | Expect | What it shows |
|---|---|---|---|
| `counter_bump` | `AnnotationCounter.cfg` | pass | With a 6-bit `int`, every value a user may leave is changed by a bump: empty, junk, out of range, non-canonical and MaxInt. So a bump always wakes the watch (`BumpChangesAnnotation`). |
| `counter_monotonic` | `AnnotationCounterMonotonic.cfg` | violation | The counter spec 3 calls monotonic wraps from MaxInt to MinInt (`BumpIncreasesCounter`). |
| `registry_safety` | `MC_PlatformRegistry.cfg` | pass | 245k states. A cleared client is being rebuilt, or being notified, or some Reset returned an error (`LostRequestIsReported`). Reset only notifies Systems owed a notification (`NotifyOnlyOwed`). The registry refines `RegistryAbstract` (`RegistryRefinesAbstract`). |
| `registry_liveness` | `MC_PlatformRegistryLive.cfg` | pass | A rebuild request for a namespace without a client leads to a client (`RebuildRequestServed`), though Reset holds the lock across cluster calls. |
| `registry_lost_request` | `MC_PlatformRegistryLost.cfg` | violation | Even with a reliable API, the rebuild request can be lost (`NoLostRebuildRequest`); see Findings. |
| `registry_panic` | `MC_PlatformRegistryPanic.cfg` | violation | `NotifySystemController` panics on a System with no annotations (`NoPanic`). |
| `monitor_registry` | `MC_MonitorRegistry.cfg` | pass | The registry only ever holds a started, unstopped monitor of its own resource (`RegisteredMonitorLive`). |
| `monitor_orphan` | `MC_MonitorRegistryOrphan.cfg` | violation | `StartMonitor` orphans a running monitor (`NoOrphanedMonitor`). |
| `monitor_resume` | `MC_MonitorRegistryResume.cfg` | violation | A paused resource is never resumed (`PausedResourceResumes`); see Findings. |
| `coordinator_liveness` | `MC_Coordinator.cfg` | pass | 46k states. With both registries behind one `m.lock`, an unreliable API and a restart, a fired monitor always finishes deregistering, and every queued reconcile of a monitored resource is served (`MonitorCallsComplete`). This holds even though Reset holds the lock across cluster calls. |
| `cascade` | `MC_NotificationCascade.cfg` | pass | 2.6M states. Once the system controller has nothing queued, every dependent has been bumped (`NotifiedUnlessRetrying`). `notifyController` returns nil only after an Update that queued a reconcile of its object (`NotifySuccessWakes`, an action property). A write by the cascade, a controller or a user between its Get and its Update makes the Update conflict, and the conflict is returned; the mutant that logs the error and returns nil is caught. |

Every property of a passing run has a mutant in `PROJECT.json`: a variant
of one modelled definition, written as a plausible bug, that TLC finds
violating the property. Examples:
- a swallowed Update error;
- a dropped "already reset" check;
- a replace-instead-of-merge in `SetSystemReady`;
- an error path that keeps the lock;
- a `CancelMonitor` that forgets the delete;
- a cascade that skips a failed object;
- a `getNextCount` that keeps junk.

### Bounds, and why they suffice

- **Registry.**
  - One namespace with two Systems, so the Update loop runs twice and can
    fail between iterations.
  - Two workers for safety, one for liveness: the liveness question is
    whether a lock-holding Reset can starve the system controller.
  - One client, an unreliable API, and one restart.
  - `IntWidth = 1`, so `Itoa(MaxInt)` wraps on the next bump. That wrap is
    checked separately at width 6 by `counter_bump`.
  - The interesting traces are 6-10 steps long. Both violations are found
    at depth 8 or less.
- **Monitors.** One resource and three monitor objects, with symmetry over
  monitors in the safety run. The race needs two monitors and a third to
  show it repeating.
- **Coordinator.** One namespace with one System and one worker, one
  resource and one monitor object, an unreliable API and one restart.
  - The question is whether the Reset's hold of the lock can starve the
    monitor operations, so one Reset and one monitor suffice.
  - Races between monitors are checked by `monitor_registry` with three
    monitor objects.
  - With two monitor objects the liveness run takes 12 minutes, against 31
    seconds with one.
- **Cascade.** Objects of two notified kinds and one HostProfile, so a
  failure on the second kind leaves the first bumped. Two concurrent
  notifiers: the cascade and `notifyController`.

### Fairness, and why the code justifies it

- **Registry.**
  - A Reset in progress keeps taking steps (`WF`). This is an assumption,
    not a guarantee of the code. Its List and Updates pass `context.TODO()`
    (manager.go 153, 165), so they carry no deadline of their own. The API
    server's request timeout ends a call that the server has received. A
    call hung on a dead connection would hold `m.lock` for ever; the
    fairness assumes that case away. So `RebuildRequestServed` and
    `MonitorCallsComplete` catch a path that leaks the lock, never a hang.
  - The system controller's reconcile of a queued System, and its client
    build, are strongly fair. They need the lock, which is free only
    intermittently, and the framework retries with backoff.
  - Status writes are weakly fair.
  - Callers, users and restarts owe nothing.
- **Monitors.** The framework serves a queued request (`WF`). A task keeps
  polling (`WF`). The awaited condition eventually holds and stays
  (`WF ConditionMet`): a pause for a condition that never comes is not the
  manager's fault, and without this assumption `monitor_resume` would only
  show that.

- **Coordinator.** The registry's and the monitors' fairness as above. In
  addition, a reconcile of a monitored resource and a task's step are
  strongly fair (`SF`), because the calls that take `m.lock` are enabled
  only while no Reset holds it. Go's `sync.Mutex` justifies this: a
  goroutine that has waited over a millisecond switches the mutex to
  starvation mode, which hands the lock to the waiters in FIFO order before
  any newcomer.

## Findings

1. **Lost rebuild request** (`manager.go:168`).
   - Interleaving: the system controller's reconcile finds the client
     present and goes on to write status. A Reset then clears the client and
     Lists the Systems. The status write lands, and the Reset's Update
     conflicts.
   - Reset returns the error, but the client stays nil and no reconcile is
     queued. Every later Reset returns at the "already reset" check
     (324-326).
   - Spec 4.1 says Reset notifies the system controller so that it rebuilds
     the client.
   - `LostRequestIsReported` (passing) shows the error does reach the
     caller; `NoLostRebuildRequest` shows the rebuild is lost anyway.
2. **Nil-map panic** (`manager.go:163`). `NotifySystemController` writes into
   `obj.Annotations` with no nil check, unlike lines 218 and 264. It panics
   while holding the lock and restarts the process. This contradicts spec 4.4
   and spec 7.
3. **Counter wraparound** (`manager.go:146`). This contradicts spec 3's
   "monotonically increasing". The wrapped value still differs from the old
   one, so no notification is lost (`counter_bump`).
4. **Orphaned monitor** (`manager.go:400`). `StartMonitor` overwrites a
   registered monitor without stopping it, so its task leaks. Spec 5 and 9
   cover this.
5. **Paused forever** (`manager.go:419`).
   - `CancelMonitor` deletes by key, not by monitor. A monitor notifies its
     resource, and the reconcile its notification queued starts a new
     monitor.
   - The old monitor then deregisters "itself" and stops the new one. The
     resource, paused by `WaitForMonitor`, is never reconciled again.

## Proofs

Six modules hold proofs, and `tlapm` checks each with no obligation left
unproved. Every safety invariant and action property that a passing run
checks is also a theorem.

The assumptions are:
- `ConstantsAssumption`: `SystemNs` maps Systems to namespaces, the
  sentinels are distinct from real values, and `MaxRestarts` is a natural
  number.
- `IntWidthAssumption`: `IntWidth` is a positive natural.
- `ModulusAssumption`: `2^IntWidth` and `2^(IntWidth-1)` are positive
  naturals, and the first is twice the second. These are facts of
  arithmetic that the provers cannot derive without induction on
  `IntWidth`. TLC evaluates them on every run.
- `MonitorAssumption`: there is at least one resource. A monitor is always
  started for some resource.

**`PlatformRegistry_proofs`:**
- **`TypeCorrect`** (`Spec => []TypeOK`) is proved by induction over
  `Next`: one step per action, plus lemmas for `getNextCount`, `WrapInt`,
  `Invalidate` and the crash. `TypeOK` is inductive on its own.
- **`RegistryRefinement`** (`Spec => RegistryRefinesAbstract`):
  - `Init` maps to the abstract `Init`.
  - Each setter, build and clearing Reset maps to the abstract step of the
    namespace it writes. The lemmas are `SetReadyRefines`,
    `SetTypeRefines`, `BuildRefines` and `ResetRefines`, and they rest on
    `RegistersAfterWrite` and `FieldWrite`/`EntryCreate`.
  - A crash or restart maps to `Forget`, and every other step to a stutter.

**`PlatformRegistrySafety_proofs`:**
- **`NotifyOnlyOwedHolds`** (`Spec => []NotifyOnlyOwed`).
- **`LostRequestIsReportedHolds`** (`Spec => []LostRequestIsReported`).

Neither invariant is inductive alone. Both follow from the inductive
invariant `IInv`, the conjunction of `TypeOK`, the two properties and five
facts about the single Reset in progress:
- `OneResetAtATime`: a worker inside Reset owns `m.lock`. Without it, two
  Resets could interleave their notifications.
- `ListingOnlyInLoop`: only a worker in the Update loop holds a listing.
- `ListedInTarget`: a listing holds only Systems of the namespace being
  reset.
- `FreshReadCurrent`: a read still marked current is what the store holds.
  Without it, a conflict-free Update could not be shown to change the
  annotation, and so to wake the watch.
- `NotifiedPending`: once the loop has updated one System, a rebuild is
  pending for its namespace until Reset returns. Every step that could
  consume the request needs the lock.

Two runs of TLC checked `IInv` as an invariant before it was proved: one
with a single namespace (245k states) and one with two namespaces (4.3M
states). The proof cites `NextCountChanges` from
`NotificationCount_proofs`, and adds lemmas describing what `Invalidate`
does to held reads.

**`MonitorRegistry_proofs`:**
- **`MonitorTypeCorrect`** (`Spec => []TypeOK`).
- **`RegisteredMonitorsAreLive`** (`Spec => []RegisteredMonitorLive`).

The inductive invariant adds `NewNotStopped`: a monitor never started has
never been stopped. Without it, `StartMonitor` could register a monitor
that was stopped earlier.

**`NotificationCount_proofs`** holds the lemmas about the counter, for
every int width:
- `NextCountType`: `getNextCount` always yields a text value.
- `WrapIntRange`: wrapping yields a value in `MinInt .. MaxInt`.
- `NextCountChanges`: `getNextCount(t) # t` for every text `t`. The proof
  splits into three cases: a value `Atoi` rejects (the result is
  canonical), an int whose successor does not wrap, and `MaxInt`, which
  wraps to `MinInt`.

The registry proofs and the two modules below cite these lemmas.

**`AnnotationCounter_proofs`:**
- **`BumpChangesAnnotationHolds`** (`Spec => []BumpChangesAnnotation`).
  Every reachable annotation is a text value, because users' edits are, and
  `NextCountChanges` does the rest.
It holds for every `IntWidth`, including Go's 64 bits, which TLC cannot
reach.

**`NotificationCascade_proofs`:**
- **`NotifiedUnlessRetryingHolds`** (`Spec => []NotifiedUnlessRetrying`).
- **`NotifySuccessWakesHolds`** (`Spec => NotifySuccessWakes`). The only
  step from `"update"` to `"idle"` that returns nil is `ResourceUpdate`'s
  success branch. `FreshRead` says its read is what the store holds, so the
  bumped value differs from it (`BumpChanges`), and the watch fires.

Both hold for every set of objects, every assignment of kinds and every int
width. `NotifiedUnlessRetrying`'s inductive invariant `IInv` adds three
facts, and the action property is proved from the same `IInv`:
- `FreshListed`: a listed copy still marked current is what the store
  holds.
- `FreshRead`: the same for `notifyController`'s read while its Update is
  pending.

  Without these two, a successful Update could write back the value the
  store already has, and the watch would not fire. `BumpChanges` combines
  them with `NextCountChanges`. A nil annotation map is the one case where
  the read is not a text; it is handled separately.
- `OwedAhead`: while listing, what the cascade still owes lies in the kinds
  from the current one on; while updating, it lies in the current listing
  or the later kinds. Without it, the return at the end of the kinds (238)
  could not be shown to leave nothing owed.

TLC checked this invariant on the cascade's instance before it
was proved.

Writing this proof corrected `TypeOK` in `NotificationCascade`. `robj`, the
object of `notifyController`, is an object only while a call is running;
with no objects at all, the initial `CHOOSE` has no object to pick.

What stays with TLC:
- the liveness properties (`RebuildRequestServed`, `MonitorCallsComplete`),
  since TLAPS does not reason about fairness or `ENABLED`;
- the violations (`BumpIncreasesCounter`, `NoLostRebuildRequest`,
  `NoPanic`, `NoOrphanedMonitor`, `PausedResourceResumes`). These are
  counterexamples, which TLC finds and a proof cannot;
- the Coordinator, whose only property is liveness.

## Not modelled

- **Error message text and logging.** They do not affect control flow.
- **Accessor errors in `notifyController` (244-247, 258-262, 271-275).** These
  paths cannot fail for the typed objects the manager receives.
- **Objects created or deleted during a cascade.** The set of objects is
  fixed.
- **`GetKubernetesClient`.** It is a pure accessor.
- **`ptpinterface_types.go` and the PtpInstance CRD.** These are Go type
  declarations with kubebuilder validation markers, a scheme registration,
  and generated schema YAML. They hold no state and run no operation. Their
  validation is enforced by the API server from the CRD, not by code in
  these sources.
- **The Monitor type's own code, the controllers' reconcile logic and
  `BuildPlatformClient`.** These are not in the sources. They are modelled
  from the spec and marked `spec_modelled` in the map.
- **`monitor.Start` called under the lock (405).** It would deadlock only
  if `Start` blocked or called back into the manager. `Start` is not in
  these sources, and the spec says it only launches the task. The model
  takes that at its word.

## Plan

1. A property for a stale Reset: a Reset decided on a client that has since
   been rebuilt clears the fresh client.
2. Paused-resource liveness with `StartMonitor` preceded by `CancelMonitor`
   (the careful caller). This would show which part of finding 5 the caller
   can avoid.
3. A monitor's `NotifyResource` racing the cascade on the same object, in a
   composition with `NotificationCascade`. The question is whether a
   conflict there loses the monitor's only wake-up.
4. Proofs that the Coordinator preserves each component's invariants,
   including the monitor half of a restart.
