# krop-controller: a TLA+ verification project

krop publishes blueprints (resource graphs) as kcp APIs and materialises, for
every instance a consumer creates, children in up to three places: the
consumer's workspace, the provider's workspace and a host cluster. This project
models the parts that publish, serve, create and reclaim, checks them with TLC on
small instances, and proves most of their safety properties with TLAPS for all
instances.

## 1. The system and what is modelled

| Part | Source | Modules |
|---|---|---|
| Instance reconciler: finalizer, garbage collection, prune, liveness record, conditions | `internal/controller/reconciler.go` | `Blueprint`, `Requests`, `InstanceGC`, abstractly `Lifecycle` |
| Engine: node loop, routing, apply and read-back, external refs | `internal/engine/engine.go`, `apply.go`, `route.go`, `reader.go` | `Blueprint`, `Requests`, `InstanceGC` |
| Orphan sweeper | `internal/controller/sweeper.go` | `InstanceGC`, `ControlPlane` |
| Supervisor of per-export managers | `internal/supervisor/supervisor.go` | `Supervisor` |
| Served-blueprint registry, `startFn`, `OnPublished`, `OnDeleted` | `cmd/controller/main.go` | `Supervisor`, `Registrar`, `ControlPlane` |
| Blueprint registrar, graph cache, publication | `internal/registrar/registrar.go`, `cache.go`, `publish.go` | `Registrar` |
| Permission claims | `internal/registrar/claims.go` | `Claims`, `Registrar` |
| Names of provider children, labels | `internal/engine/naming.go`, `labels.go` | `InstanceGC`, `Tenancy` |
| Process wiring: one process with registrar, managers and sweeper | rest of `cmd/controller/main.go` | `ControlPlane`, in part |
| API types, endpoint slices | `api/v1alpha1`, `internal/kcp` | in part |
| Status projection, graph source, generated code | `status.go`, `graphsource.go`, `zz_generated*` | no (section 6) |

How the parts interact: the registrar (one worker) turns a blueprint into an
APIResourceSchema and an APIExport with permission claims, stores the compiled
graph in the registry and asks the supervisor for a manager. The manager's
goroutine reads the registry, waits for the endpoint slice and serves instances
with that graph. A pass over an instance runs the engine, writes the liveness
record, prunes and reports its status. The sweeper reclaims what an instance left
behind when its consumer unbound, going by stale liveness records.

## 2. Modules

`Blueprint` is constant-level: the graph (nodes in topological order), routing,
and the pure functions of it (`TargetForNode`, `childGVKs`, what the collector
and the record name, what a spec desires). What kro computes from a spec is data
of a node: the specs that include it, the names it desires under each spec, the
nodes whose status it reads. `when` is closed under dependencies because kro
ignores what depends on an ignored node.

`Requests` holds the variables of an instance and what a pass writes, one action per
write (`AddFinalizer`, `DeleteListed`, `ApplyChild`, `RecordPut`, `UpdateStatus` and
the others). It is a module of its own because a write of a cancelled pass can
arrive late, next to the pass of its successor.

`InstanceGC` extends it and has one action per API call of a pass (`Get`,
`AddFinalizer`, `ListForDelete`, `DeleteListed`, `DeleteLivenessRecord`, `RemoveFinalizer`,
`ReadExternal`, `ApplyChild`, `ReadBack`, `RecordGet`, `RecordPut`,
`ListForPrune`, `UpdateStatus`), local steps of the engine (`SkipIgnored`,
`DataPending`, `StartNode`, `EngineDone`, `PruneDone`), failures (`Reject`: the
call cannot succeed; `Glitch`: the API server fails it) and one action per API
call of a sweep. Between any two of them the consumer may create, edit, delete,
force-delete, unbind and rebind, child controllers write status, kcp collects
owned children, time passes, the process restarts, or the served graph changes.

| Variable | Code |
|---|---|
| `blueprint` | `Reconciler.Graph` and `Routing` of the running manager |
| `inst`, `forced`, `bound` | the instance object, instances removed around their finalizer, the APIBinding |
| `children`, `status` | child objects by final identity with their `instance-uid` label, and those whose status is populated |
| `ext` | the object an external ref reads: absent, found, or found and ready |
| `record` | the liveness ConfigMap of each uid: age of `lastReconciled`, recorded GVKs |
| `uptime`, `waited` | time since `startedAt`; time since the last pass over the instance |
| `pass`, `sweep` | the local state of `Reconcile` and of `Sweep` |

`pass.stale` is the API server's optimistic concurrency: the object was written
after the pass read it. controller-runtime runs one pass at a time per object.

`Lifecycle` is what the reconciler promises, without saying how. An instance goes
through stages (`fresh`, `guarded` by the finalizer, `leaving`, `gone`, or
`forced`) and has a footprint or none; it has one only while guarded or after a
forced removal, and the finalizer lets go only without one. `InstanceGC` maps
onto it at its end (`Stage`, `Footprint`, and an `INSTANCE` of `Lifecycle`).

`Supervisor` has the running map, the goroutines (`gens`), entries between the
two halves of `Stop` (`stopping`) and the registry. An entry can be allocated
again once nothing refers to it, so restarts are unbounded.

`Claims` is constant-level: `ForeignConsumerGRs`, `DeriveClaims`, `mergeClaims`
and `validateClaims` on the graphs of `Blueprint`, and the reference definitions
they are compared with: `Authorises` (every call that the engine and the collector
make for a foreign node is claimed) and `AskNoMore`. The code keeps a sorted list
with one claim per GroupResource, here a function of the GroupResource; an
identity hash is known (the kind is bound in the provider workspace) or not.
`mergeClaims` writes the union of the verbs to a copy, so the model keeps the
verbs of the first claim.

`Registrar` extends `Supervisor` and `Claims` with the blueprint objects, the
schemas, exports and bindings of the provider workspace, the graph cache and the
worker's pass, one action per call. A spec is its hash and `Compiled` its graph.
Group and kind are immutable in the CRD, so the export is a constant of the
blueprint; distinct blueprints are assumed to have distinct exports
(`ExportAssumption`). `Invalid` specs fail before the cache (no hash or no graph,
`BuildFails`), `Rejected` ones after it (a target that does not parse, or no schema,
`BuildRejected`). A call that fails has had no effect (`Undone`), or its effect is
there and only the answer is lost (`AnswerLost`). A graph that needs no claim ends the pass at the claims
step: that is the panic of `mergeClaims`, which controller-runtime recovers.

`ControlPlane` composes `InstanceGC` with an instance of `Supervisor` in one
process, for one blueprint and one instance, against one clock. `OnPublished`
(`caller`) sets the registry, stops the manager and ensures a new one; the pass
belongs to the manager that serves; the sweeper runs beside them. Stop does not
wait for the manager it cancels: the pass ends with its context, but a write that
is on its way (`late`, a write of an instance of `Requests` with the cancelled pass
and its graph) may arrive while the successor serves. History variables record what
the properties speak of: `lost` (the time without a manager), `cut` (instances whose record may lack what their last pass applied)
and `strays` (what a late request wrote). Steps that take no time (`Brief`) have
priority over the rest, and a late request arrives within its tick or never.

`Tenancy` has many instances of several consumers and blueprints and only their
calls to the shared provider workspace: applies under the name that
`ProviderChildName` derives, lists by label, deletes by name.

`MC*` modules hold small blueprints and symmetry sets; `*Proofs` the theorems.
Definitions whose comment begins with "Mutant of" are variants of an action with
a plausible bug, used to see that each property can fail.

## 3. Runs

| Run | Question | Result |
|---|---|---|
| `GCSafety` | deletion, prune, completeness and Ready with every call failing, an external object that comes and goes, and a successor of the instance | holds, 1.1 M states |
| `Orphans` | unbind, rebind, forced deletion, restarts and failing sweeps: nothing is left, orphans are swept, `InstanceGC` implements `Lifecycle` | holds, 169 k |
| `DeletionLive` | deletion and convergence under fairness | hold, 124 k |
| `Handover` | registrar callback, managers, passes and sweeper in one process, with edits, manager crashes, restarts and late requests | holds, 2.0 M |
| `Publish` | publish, claims, withdrawal, change detection, and tracking of managers under failures, lost answers, crashes, restarts, and bindings that come and go | hold, 1.1 M |
| `PublishLive` | withdrawal completes; a kept blueprint is served again, and in the end authorised | hold, 126 k |
| `SweepErroring` | "never sweeping a live instance" | violated |
| `DroppedKind` | "children of dropped blueprint nodes" are pruned | violated |
| `RevertServes` | a settled blueprint is served with its spec | violated |
| `EarlyDelete` | "a delete that races an in-flight publish still runs the manager teardown" | violated |
| `EmptyClaims` | a blueprint with provider children only is served | violated |
| `NameCollision` | "different instances must not collide" | violated |

What the properties of `Handover` say: at most one manager serves and every pass
is its own (`PassHasItsManager`); what an instance has off its consumer's
workspace is named by its record, but for a pass that is at work or was cut short
(`OffsiteIsRecorded`); all that a handover can leave behind is what one late
request wrote (`OnlyLateStrays`); the sweeper takes a live instance for an orphan
only after its manager has been out for longer than `StaleAfter` less one
heartbeat (`SweepNeedsOutage`). That bound is strict: with a staleness test that is
one tick too eager the run fails.

`EngineIsAuthorised` in `Publish` is about the claims of the graph being served. They
are replaced before the manager is, so a manager lacks a claim while its export has
moved on without it (`Superseded`): from `UpsertAPIExport` to `Stop`, and, if the
answer to that apply is lost, until a later pass gets through. `AuthorisedAgain` in
`PublishLive` says that a later pass does, because `fail` leaves the observed hash
alone and the next pass finds the spec changed again.

The disagreements behind the violated runs:

1. **A live instance can be swept.** A bound instance whose passes keep
   returning an engine error never refreshes its record (`SweepErroring`). The
   next successful pass applies the children again.
2. **Children of a dropped kind leak.** Prune and the finalizer's collection
   list the kinds of the served graph only (`DroppedKind`).
3. **Change detection looks at the status.** Edit, publish, revert before the
   status update: the update is refused, and the next pass compares the reverted
   spec with the status, finds no change and keeps the manager of the edit
   (`RevertServes`).
4. **A delete during the first publish leaks** the export and the manager,
   because the withdrawal depends on a status that was never written
   (`EarlyDelete`).
5. **A blueprint that needs no claim is never published.** `mergeClaims` starts
   its output with `all[0]`; with every resource routed to the provider or the
   host the list is empty and every pass panics (`EmptyClaims`).
6. **Provider children of homonymous instances collide.** Their names derive from
   the consumer's cluster, the instance's name and the template's name; two
   instances of one name in two namespaces, or of two blueprints, take the child
   from one another and delete it (`NameCollision`). `TenantsAreIsolated` shows
   that there is no other way.

Windows of the code that the models contain and no run claims to be absent:

* `Sweep` acts on a listed copy and deletes by name without preconditions, so a
  consumer that binds again during a sweep loses its provider children until the
  next pass. `OrphansSwept` therefore ends with a rebind, too.
* The record is written after the engine, so an unbind inside the first pass
  leaves a provider child that the sweeper cannot find; and a record refreshed
  while a sweep has it on its list is deleted by that sweep. `OffsiteIsRecorded`
  says that there are no other ways, and `OrphansSwept` starts where neither a
  pass nor a sweep is at work.
* A request of a cancelled manager can bring back a child that its successor has
  pruned or collected. `OnlyLateStrays` bounds the damage by that one request.
* A manager that crashed comes back with the next resync, which may take as long
  as `StaleAfter`; then the sweeper can find records of live instances stale.
* The claims of an edit are live before its manager is: see `EngineIsAuthorised`
  above.
* `DeletePublishedAPI` deletes the schema before the export, so a failure in
  between leaves an export that references a deleted schema until the retry
  (`ExportKeepsSchema` is about blueprints that are not being deleted), and the
  schemas of earlier specs are never deleted.

### Bounds

`InstanceGC`: two specs, two kinds and two names are enough for a collection
that shrinks, a node that is excluded, a child renamed by an edit, and two
targets that share a kind. `MaxUid` is 2 in `GCSafety`, an instance and its
successor under the same name, and 1 elsewhere: an instance that is created, leaves
and is seen by the sweeper after that. `GCSafety` has the blueprint `Nested`, in
which each kind of dependency occurs once; the host target is in `DeletionLive`. `StaleAfter` is 1 or 2 ticks and ages stop at `StaleAfter + 1`: only
the comparison with the threshold is observed. `Env` and `Failing` switch what may
happen, so that each run combines the events that matter to its question.

`ControlPlane`: one provider child that an edit renames, two generations (one
serving, one on its way out), `Heartbeat` 1 (the 30 s requeue and the timeout of
the endpoint slice), `StaleAfter` 3 and `Resync` 3 (both 5 minutes in the code).
With `StaleAfter = Resync` an outage that a resync ends and one that reaches the
threshold both occur. Unbinding, forced deletion and failing calls are left to
`InstanceGC`.

`Registrar`: one blueprint and five hashes, one of which does not build, one whose
target does not parse, one that needs no claim, one that writes a core kind and reads a foreign one, and
one that writes and reads the foreign one and reads its own type; two generations.
`PublishLive` has the two last. In `Publish`, deletions come after the first
complete publish and edits go forward (`Env` without "early" and "revert"); those
two are `EarlyDelete` and `RevertServes`.

`Tenancy`: two instances and one template are enough for the collision. No
passing run is needed: the theorem covers all instances.

### Fairness

Passes and sweeps keep stepping (the work queue retries, the sweeper's ticker
comes back), time passes, API failures and restarts of the process end, and the
controllers of children and external objects do their work. In `Registrar` the
resync and the FIFO work queue bring every blueprint back (strong fairness of
`Get`), failures end, goroutines proceed, and a manager that waits again and again
finds its endpoint slice. Crashes of managers may go on for ever.

That failures end is stated as "from some point on, a step of a failing call is
also a step of a call that did not fail". The weaker-looking "no step of a failing
call" would be too strong: a status update that changes nothing, or a refused
write, is the same step as a failed one, and forbidding it would forbid the very
resyncs the properties are about.

## 4. Proofs

All theorems hold for arbitrary constants that satisfy the named assumptions.

About the instance reconciler:

* `InstanceGCProofs!TypeCorrect`: `Spec => []TypeOK`. The invariant adds that
  the pass points at an existing node and object when it applies and reads back
  (`CallSite`), which is what makes `CurrentKey` a child identity.
* `DeletionProofs!DeletionIsClean`: `Spec => []GoneMeansClean` when all served
  revisions have the same kinds per target (`SameKinds`; `DroppedKind` shows that
  it is needed). `GCInv` says that every labelled child and every record belongs
  to an instance that still has its finalizer or was forced away, that every
  child is of a kind the collector lists, and that, while the collector runs,
  what remains of the instance is in the kinds and objects still to be handled.
* `DeletionProofs!LifecycleImplemented`: `Spec => ImplementsLifecycle` under
  `SameKinds`. From `GCInv`, every action of a pass, a sweep or the environment
  is a step of `Lifecycle` or a stutter; `Release` is where `GCInv` is needed.
* `InstanceGCProofs!PruneIsSafe`: `Spec => []PruneSparesDesired`, for every
  blueprint. `EngineInv` says that the applied set covers the desired keys of all
  nodes before the current one; a complete pass has therefore applied everything.
* `DeletionProofs!CompletePassExact`: `Spec => []CompletePassIsExact` under
  `SameKinds`, from `ExactInv`: while pruning, what is not desired is in the kinds
  and objects still to be handled.
* `DeletionProofs!ReadyHonest`: `Spec => ReadyIsHonest`, for every blueprint.
  `ReadyInv` says that what a pass counts as ready had a status when it was read
  back, that a pass that leaves the engine ready has applied all of its spec, and
  that a pass whose object nobody has written since works on the current spec.

About claims, supervisor and registrar:

* `RegistrarProofs!DerivedClaimsAuthorise`, `DerivedClaimsAskNoMore`: claims that
  pass `validateClaims` authorise every call for a foreign node, and they ask for
  nothing else, for every graph, routing and set of bindings.
* `RegistrarProofs!ManagersAreTracked`, `EntriesAreCurrent`: the two promises of
  the supervisor with callers in any number and order (`SupSpec`). They are
  inductive together with the types and the fact that a generation in use belongs
  to an export (`SupInv`).
* `RegistrarProofs!RegistrarTracksManagers`, `RegistrarEntriesCurrent`,
  `RegistrarTypeCorrect`: the same for the specification that `Publish` runs. The
  lemma behind them, `RegistrarDrivesSupervisor`, says that a step of the
  registrar leaves the supervisor alone, is one of its operations, or restarts it
  from scratch; `RegInv` adds that a pass under way has a blueprint and a hash.
* `RegistrarProofs!SchemaStaysWithExport`: `Spec => []ExportKeepsSchema`.
  `Held` says that a blueprint has its finalizer from before the first publishing
  call until after the last withdrawing one; `SchemaHeld` that the schema of an
  export is missing only during a withdrawal that will come back.
* `RegistrarProofs!StartsFindBlueprints`: `Spec => []StartFindsBlueprint`.
  `EntryServes` says that an export with a running entry is in the registry.
* `ServingProofs!WithdrawalIsClean`: `Spec => []WithdrawnMeansClean` when
  deletions wait for the first complete publish (`"early" \notin Env`;
  `EarlyDelete` shows that it is needed). `CleanedUp` says that an object without
  the finalizer has left nothing, and that a withdrawal forgets one thing after
  the other.
* `ServingProofs!SettledIsServed`: `Spec => []SettledServesSpec` when no spec
  returns to an earlier one (`"revert" \notin Env`; `RevertServes` shows that it
  is needed). Specs then only grow. `SpecInv` says that the status and the pass
  run behind the spec (`Ordered`, `Tracks`), that registry and managers of a
  settled blueprint have its spec (`Fresh`), and what `OnPublished` has achieved at
  each of its points: no manager of an older graph is left when it ensures the new
  one (`Handing`).

* `ClaimsProofs!CallsAreAuthorised`: `Spec => []EngineIsAuthorised` when no spec
  returns to an earlier one. The claims of an export are applied with the reference
  to its schema, so they always cover the graph of that schema (`Fits`); the entry of
  an export runs the graph of the registry unless it is about to be stopped
  (`Follows`). A manager lacks a claim only while export and registry differ.
* `ClaimsProofs!ClaimsAreNarrow`, `ResyncRestartsNothing`: `ClaimsFollowGraph` and
  `ResyncKeepsManager` under the same condition. `ClaimsKnown` says what a pass has
  derived and applied at each point; `Steady` that a pass over an unchanged spec
  finds it registered and served.

About the processes together:

* `ControlPlaneProofs!PassesHaveManagers`: `CPSpec => []PassHasItsManager`.
  `OneManager` says that the only live manager is the entry of the export or the one
  that the caller is about to cancel; `ServesBlueprint` that the one that serves runs
  the graph of the passes.
* `HandoverProofs!RecordsName`: `CPSpec => []OffsiteIsRecorded` under `SameKinds`.
  `KindsInv` says that records and sweeps name every kind there is, `OffInv` that a
  child off the consumer's workspace has a record, or a pass before its record, or is
  still to be handled by the collector or the sweep that deletes the record after it.
* `HandoverProofs!HandoverIsClean`: `CPSpec => []OnlyLateStrays` under `SameKinds`.
  `StrayInv` is the invariant of the collector and of prune with the strays taken out;
  `OrderInv` says that while a late request of the deletion path is on its way no
  other pass works on the same instance as a live one.

About tenants:

* `TenancyProofs!TenantsAreIsolated`: `Spec => KeepsOwnChildren` if cluster and
  name tell the instances apart (`NoHomonyms`; `NameCollision` shows that it is
  needed). `TenantInv` says that what carries the label of an instance, and what
  a pass of it has listed, is under its own names.

The assumptions on the constants say that sets are not empty, that bounds are
positive, that exports tell blueprints apart and that `None` is none of the values it
stands beside (`NoneAssumption`, and `AbsentAssumption` for `ControlPlane`, which has
the supervisor as an instance).

Model-checked only: all liveness properties (fairness is out of the prover's reach)
and `SweepNeedsOutage`, which compares accumulated ages of several clocks.

## 5. Abstractions

* Child deletion is immediate; children's own finalizers are not modelled.
* kcp keeps the instance object when its consumer unbinds.
* The order of kinds in a collection is arbitrary (the code ranges over a map).
* A child is ready when its status is populated, and that is also when dependents
  resolve; an external object is found first and ready later.
* `lastReconciled` is not truncated to seconds; records are always parseable.
* In `InstanceGC`, `Redeploy` replaces the graph and abandons the pass in one
  step; `ControlPlane` has the steps in between and the late request.
* The hash in a child's name is injective on its input.

## 6. Not modelled

* A registrar's apply that reaches the server after the process has restarted. An
  apply whose answer is lost takes effect before the pass ends.
* Status projection (`status.go`): evaluates CEL in kro and copies the result into
  the status; it has no control of its own.
* Graph source and example loader (`graphsource.go`, `blueprint.go`): a call into
  kro's builder, which the registrar sees succeed or fail.
* Generated deep copies, scheme registration, flags, clients, health probes.
* Leader election: one process at a time is assumed, and `RestartProcess` is what
  a change of the leader looks like to the cluster.
* Endpoint slices beyond "found or timed out", and the check of the kubeconfig.
* The readable prefix of a child's name and its truncation, and the annotation
  with the template's name: data without control.
* The values of identity hashes: they are known or not.
