----------------------------- MODULE InstanceGC -----------------------------
(***************************************************************************)
(* One blueprint instance, from its creation in a consumer workspace to    *)
(* the last of its children: the reconcile passes, one action per API      *)
(* call, of which Requests has those that write, and the orphan sweeper,   *)
(* interleaved with the consumer, kcp and the child controllers.           *)
(*                                                                         *)
(* controller-runtime runs one pass at a time for one object, so there is  *)
(* one `pass`.  The API server's optimistic concurrency is the field       *)
(* `stale`: the instance was written after the pass read it.  Time is      *)
(* counted in ticks: the age of a record and the uptime of the process.    *)
(***************************************************************************)
EXTENDS Requests, FiniteSets

CONSTANTS
  Blueprints,  \* the revisions of the blueprint that may be served
  MaxUid,      \* bound: instances ever created under the one name
  StaleAfter,  \* age, in ticks, past which a record is stale
  Heartbeat,   \* ticks within which the next pass over an instance begins
  Failing,     \* program points of a pass whose API call may fail by itself
  Env          \* what the environment may do besides creating instances

ASSUME MaxUidAssumption == MaxUid \in Nat \ {0}
ASSUME StaleAssumption == StaleAfter \in Nat \ {0}
ASSUME HeartbeatAssumption == Heartbeat \in Nat \ {0}
ASSUME BlueprintsAssumption == Blueprints \subseteq Served /\ Blueprints # {}

vars == <<blueprint, inst, nextUid, forced, bound, children, status, ext,
          record, uptime, waited, pass, sweep>>

Uids == 1..MaxUid

PassPoints == {"idle", "addfin", "gc", "remfin", "node", "apply", "readback",
               "recget", "recput", "prune", "status"}

NoSweep == [pc |-> "idle", todo |-> {}, uid |-> 0, kinds |-> {}, dels |-> {}]

InstType ==
  [uid: 0..MaxUid, spec: Specs, fin: BOOLEAN, deleting: BOOLEAN,
   readyFor: SUBSET Specs]

ExtType == {"absent", "found", "ready"}

RecordType == [age: -1..(StaleAfter + 1), kinds: SUBSET Kind]

PassType ==
  [pc: PassPoints, uid: 0..MaxUid, spec: Specs, stale: BOOLEAN,
   idx: Nat \ {0}, jdx: Nat \ {0}, lag: BOOLEAN, seen: SUBSET Ids,
   applied: SUBSET Key, ready: BOOLEAN, complete: BOOLEAN, had: BOOLEAN,
   kinds: SUBSET Kind, dels: SUBSET Key]

SweepType ==
  [pc: {"idle", "pick", "sweep"}, todo: SUBSET [uid: Uids, kinds: SUBSET Kind],
   uid: 0..MaxUid, kinds: SUBSET Kind, dels: SUBSET Key]

\* The type invariant: in particular, only child identities are ever recorded
\* as applied or listed for deletion, and only (target, GVK) pairs are named by
\* a record.
TypeOK ==
  /\ blueprint \in Blueprints
  /\ inst \in InstType
  /\ nextUid \in 1..(MaxUid + 1)
  /\ forced \subseteq Uids
  /\ bound \in BOOLEAN
  /\ children \in [Key -> 0..MaxUid]
  /\ status \subseteq Key
  /\ ext \in [Ids -> ExtType]
  /\ record \in [Uids -> RecordType]
  /\ uptime \in 0..StaleAfter
  /\ waited \in 0..Heartbeat
  /\ pass \in PassType
  /\ sweep \in SweepType

Init ==
  /\ blueprint \in Blueprints
  /\ inst = NoInst
  /\ nextUid = 1
  /\ forced = {}
  /\ bound = TRUE
  /\ children = [k \in Key |-> 0]
  /\ status = {}
  /\ ext = [i \in Ids |-> "absent"]
  /\ record = [u \in Uids |-> NoRecord]
  /\ uptime = 0
  /\ waited = 0
  /\ pass = NoPass
  /\ sweep = NoSweep

Labelled(u) == {k \in Key : children[k] = u}

-----------------------------------------------------------------------------
(* Reconciler.Reconcile: reading the instance, finalizer, deletion *)

\* Mutant of Get: children may be applied before the finalizer is there.
GetWithoutFinalizer ==
  /\ pass.pc = "idle"
  /\ bound
  /\ inst.uid # 0
  /\ \/ /\ inst.deleting
        /\ inst.fin
        /\ pass' = [NoPass EXCEPT !.pc = "gc", !.uid = inst.uid,
                      !.spec = inst.spec, !.kinds = GCKinds(blueprint)]
     \/ /\ ~inst.deleting
        /\ pass' = [NoPass EXCEPT !.pc = "node", !.uid = inst.uid,
                      !.spec = inst.spec]
  /\ waited' = 0
  /\ UNCHANGED <<blueprint, uptime, consumerVars, childVars, ext, record, sweep>>

\* Read the instance and branch on its deletion timestamp and finalizer.
Get ==
  /\ pass.pc = "idle"
  /\ bound
  /\ inst.uid # 0
  /\ \/ /\ inst.deleting
        /\ inst.fin
        /\ pass' = [NoPass EXCEPT !.pc = "gc", !.uid = inst.uid,
                      !.spec = inst.spec, !.kinds = GCKinds(blueprint)]
     \/ /\ ~inst.deleting
        /\ pass' = [NoPass EXCEPT !.pc = IF inst.fin THEN "node" ELSE "addfin",
                      !.uid = inst.uid, !.spec = inst.spec]
  /\ waited' = 0
  /\ UNCHANGED <<blueprint, uptime, consumerVars, childVars, ext, record, sweep>>

\* deleteChildren: list the children of one target and GVK by the uid label.
ListForDelete ==
  /\ pass.pc = "gc"
  /\ pass.dels = {}
  /\ \E kd \in pass.kinds :
       /\ Reachable(kd[1])
       /\ pass' = [pass EXCEPT !.kinds = @ \ {kd},
                     !.dels = {k \in Labelled(pass.uid) : KindOf(k) = kd}]
  /\ UNCHANGED <<serverVars, consumerVars, childVars, ext, record, sweep>>

\* pruneChildren: the same, keeping what this pass applied.
ListForPrune ==
  /\ pass.pc = "prune"
  /\ pass.dels = {}
  /\ \E kd \in pass.kinds :
       /\ Reachable(kd[1])
       /\ pass' = [pass EXCEPT !.kinds = @ \ {kd},
                     !.dels = {k \in Labelled(pass.uid) : KindOf(k) = kd}
                                \ pass.applied]
  /\ UNCHANGED <<serverVars, consumerVars, childVars, ext, record, sweep>>

-----------------------------------------------------------------------------
(* Engine.Reconcile: the nodes in topological order *)

AtNode == pass.pc = "node" /\ pass.idx <= Len(blueprint.nodes)

\* The pass goes on to the next node, with node ids `s` observed.
Advance(s, ok) ==
  [pass EXCEPT !.pc = "node", !.idx = @ + 1, !.jdx = 1, !.lag = FALSE,
     !.seen = @ \cup s, !.ready = @ /\ ok]

\* Mutant of Suspend: Ready keeps its initial value on the early return.
SuspendReady == [pass EXCEPT !.pc = "recget"]

\* A pending dependency: the engine returns, not ready and not complete.
Suspend == [pass EXCEPT !.pc = "recget", !.ready = FALSE]

\* Mutant of SkipIgnored: an excluded node counts as one that is not ready.
SkipUnready ==
  /\ AtNode
  /\ IsIgnored(CurrentNode, pass.spec)
  /\ pass' = Advance({}, FALSE)
  /\ UNCHANGED <<serverVars, consumerVars, childVars, ext, record, sweep>>

SkipIgnored ==
  /\ AtNode
  /\ IsIgnored(CurrentNode, pass.spec)
  /\ pass' = Advance({}, TRUE)
  /\ UNCHANGED <<serverVars, consumerVars, childVars, ext, record, sweep>>

\* node.GetDesired cannot resolve a status it reads (ErrDataPending).
DataPending ==
  /\ AtNode
  /\ ~IsIgnored(CurrentNode, pass.spec)
  /\ ~(CurrentNode.deps \subseteq pass.seen)
  /\ pass' = Suspend
  /\ UNCHANGED <<serverVars, consumerVars, childVars, ext, record, sweep>>

Resolved ==
  /\ AtNode
  /\ ~IsIgnored(CurrentNode, pass.spec)
  /\ CurrentNode.deps \subseteq pass.seen

NothingDesired == CurrentNode.items[pass.spec] = <<>>

\* A Get of an object that is missing is NotFound, a List never is.
Found(n) == n.type = "externalCollection" \/ ext[n.id] # "absent"

\* What was read is observed, and ready unless an object of it is not.
Observe(n) ==
  LET ok == ext[n.id] # "found" IN Advance(IF ok THEN {n.id} ELSE {}, ok)

\* An external ref is read: NotFound suspends the pass, an answer is observed.
\* With nothing to read the node is passed over, unobserved.
ReadExternal ==
  /\ Resolved
  /\ IsExternal(CurrentNode)
  /\ Configured(NodeTarget)
  /\ NothingDesired \/ Reachable(NodeTarget)
  /\ pass' = IF NothingDesired THEN Advance({}, TRUE)
             ELSE IF Found(CurrentNode) THEN Observe(CurrentNode) ELSE Suspend
  /\ UNCHANGED <<serverVars, consumerVars, childVars, ext, record, sweep>>

\* A template node has an applier for its target; with nothing desired (an
\* empty collection) it is done at once.
StartNode ==
  /\ Resolved
  /\ ~IsExternal(CurrentNode)
  /\ Configured(NodeTarget)
  /\ pass' = IF NothingDesired
             THEN Advance({CurrentNode.id}, TRUE)
             ELSE [pass EXCEPT !.pc = "apply"]
  /\ UNCHANGED <<serverVars, consumerVars, childVars, ext, record, sweep>>

\* The read-back: the child is recorded as applied and its status observed.
\* After the last object of the node readiness is checked.
ReadBack ==
  /\ pass.pc = "readback"
  /\ Reachable(NodeTarget)
  /\ children[CurrentKey] # 0
  /\ LET lag == pass.lag \/ CurrentKey \notin status
         p == [pass EXCEPT !.applied = @ \cup {CurrentKey}]
     IN pass' =
          IF pass.jdx < Len(CurrentNode.items[pass.spec])
          THEN [p EXCEPT !.pc = "apply", !.jdx = @ + 1, !.lag = lag]
          ELSE [Advance(IF lag THEN {} ELSE {CurrentNode.id}, ~lag)
                  EXCEPT !.applied = p.applied]
  /\ UNCHANGED <<serverVars, consumerVars, childVars, ext, record, sweep>>

EngineDone ==
  /\ pass.pc = "node"
  /\ pass.idx > Len(blueprint.nodes)
  /\ pass' = [pass EXCEPT !.pc = "recget", !.complete = TRUE]
  /\ UNCHANGED <<serverVars, consumerVars, childVars, ext, record, sweep>>

-----------------------------------------------------------------------------
(* Reconciler.Reconcile after the engine: record, prune, status *)

\* writeLivenessRecord reads the record, then creates or updates it.
RecordGet ==
  /\ pass.pc = "recget"
  /\ pass' = [pass EXCEPT !.pc = "recput",
                !.had = (record[pass.uid] # NoRecord)]
  /\ UNCHANGED <<serverVars, consumerVars, childVars, ext, record, sweep>>

\* Mutant of PruneDone: the first failed delete of a prune is ignored.
PruneGivesUp ==
  /\ pass.pc = "prune"
  /\ pass.kinds = {}
  /\ pass' = [pass EXCEPT !.pc = "status"]
  /\ UNCHANGED <<serverVars, consumerVars, childVars, ext, record, sweep>>

PruneDone ==
  /\ pass.pc = "prune"
  /\ Listed
  /\ pass' = [pass EXCEPT !.pc = "status"]
  /\ UNCHANGED <<serverVars, consumerVars, childVars, ext, record, sweep>>

\* The call at hand cannot succeed: a conflict, an unreachable workspace, a
\* target without a client, an object that is gone.
Doomed ==
  \/ pass.pc \in {"addfin", "remfin"} /\ ~Fresh
  \/ pass.pc \in {"gc", "prune"}
       /\ \/ pass.dels = {} /\ \E kd \in pass.kinds : ~Reachable(kd[1])
          \/ \E k \in pass.dels : ~Reachable(k.target)
  \/ Resolved /\ IsExternal(CurrentNode) /\ ~NothingDesired /\ ~Reachable(NodeTarget)
  \/ Resolved /\ ~Configured(NodeTarget)
  \/ pass.pc \in {"apply", "readback"} /\ ~Reachable(NodeTarget)
  \/ pass.pc = "readback" /\ children[CurrentKey] = 0
  \/ pass.pc = "recput" /\ (pass.had <=> record[pass.uid] = NoRecord)

\* Reconcile returns an error (or, for the status, ignores it) and the work
\* queue retries it later, because the call at hand cannot succeed.
Reject ==
  /\ Doomed
  /\ pass' = NoPass
  /\ UNCHANGED <<serverVars, consumerVars, childVars, ext, record, sweep>>

PassStep ==
  \/ Get \/ AddFinalizer
  \/ ListForDelete \/ DeleteListed \/ DeleteLivenessRecord \/ RemoveFinalizer
  \/ SkipIgnored \/ DataPending \/ ReadExternal \/ StartNode
  \/ ApplyChild \/ ReadBack \/ EngineDone
  \/ RecordGet \/ RecordPut \/ ListForPrune \/ PruneDone \/ UpdateStatus
  \/ Reject

\* The API server fails the call at hand, and the pass ends.
Glitch ==
  /\ pass.pc \in Failing \ {"idle"}
  /\ pass' = NoPass
  /\ UNCHANGED <<serverVars, consumerVars, childVars, ext, record, sweep>>

-----------------------------------------------------------------------------
(* Sweeper *)

SweepableKinds(r) == {kd \in r.kinds : Configured(kd[1])}

\* Mutant of IsStale: a record of just that age is stale already.
IsStaleAt(u) == record[u] # NoRecord /\ record[u].age >= StaleAfter

IsStale(u) == record[u] # NoRecord /\ record[u].age > StaleAfter

\* After the startup grace period, list the records and keep the stale ones.
SweepList ==
  /\ sweep.pc = "idle"
  /\ uptime >= StaleAfter
  /\ \E u \in Uids : IsStale(u)
  /\ sweep' = [NoSweep EXCEPT !.pc = "pick",
                 !.todo = {[uid |-> u, kinds |-> SweepableKinds(record[u])] :
                             u \in {v \in Uids : IsStale(v)}}]
  /\ UNCHANGED <<serverVars, consumerVars, childVars, ext, record, pass>>

SweepPick ==
  /\ sweep.pc = "pick"
  /\ \E r \in sweep.todo :
       sweep' = [sweep EXCEPT !.pc = "sweep", !.todo = @ \ {r},
                   !.uid = r.uid, !.kinds = r.kinds]
  /\ UNCHANGED <<serverVars, consumerVars, childVars, ext, record, pass>>

\* The next record of the list, or the end of the pass.
NextRecord ==
  IF sweep.todo = {} THEN NoSweep
  ELSE [NoSweep EXCEPT !.pc = "pick", !.todo = sweep.todo]

SweepListChildren ==
  /\ sweep.pc = "sweep"
  /\ sweep.dels = {}
  /\ \E kd \in sweep.kinds :
       sweep' = [sweep EXCEPT !.kinds = @ \ {kd},
                   !.dels = {k \in Labelled(sweep.uid) : KindOf(k) = kd}]
  /\ UNCHANGED <<serverVars, consumerVars, childVars, ext, record, pass>>

SweepDelete ==
  /\ sweep.pc = "sweep"
  /\ \E k \in sweep.dels :
       /\ Delete(k)
       /\ sweep' = [sweep EXCEPT !.dels = @ \ {k}]
  /\ UNCHANGED <<serverVars, consumerVars, ext, record, pass>>

\* Mutant of SweepRecord: the record goes before the children.
SweepRecordFirst ==
  /\ sweep.pc = "sweep"
  /\ sweep.kinds = {} \/ record[sweep.uid] # NoRecord
  /\ sweep.dels = {}
  /\ record' = [record EXCEPT ![sweep.uid] = NoRecord]
  /\ sweep' = IF sweep.kinds = {} THEN NextRecord ELSE sweep
  /\ UNCHANGED <<serverVars, consumerVars, childVars, ext, pass>>

\* The record goes last, by name and whatever it holds by now.
SweepRecord ==
  /\ sweep.pc = "sweep"
  /\ sweep.kinds = {}
  /\ sweep.dels = {}
  /\ record' = [record EXCEPT ![sweep.uid] = NoRecord]
  /\ sweep' = NextRecord
  /\ UNCHANGED <<serverVars, consumerVars, childVars, ext, pass>>

\* Mutant of SweepGlitch: the record goes even if its children could not.
SweepGlitchDropsRecord ==
  /\ sweep.pc = "sweep"
  /\ "sweepFail" \in Env
  /\ record' = [record EXCEPT ![sweep.uid] = NoRecord]
  /\ sweep' = IF sweep.kinds = {} /\ sweep.dels = {} THEN NoSweep ELSE NextRecord
  /\ UNCHANGED <<serverVars, consumerVars, childVars, ext, pass>>

\* A failed call while sweeping children leaves the record and goes on with
\* the next one; a failed delete of the record ends the pass.
SweepGlitch ==
  /\ sweep.pc = "sweep"
  /\ "sweepFail" \in Env
  /\ sweep' = IF sweep.kinds = {} /\ sweep.dels = {} THEN NoSweep ELSE NextRecord
  /\ UNCHANGED <<serverVars, consumerVars, childVars, ext, record, pass>>

SweepStep ==
  \/ SweepList \/ SweepPick \/ SweepListChildren \/ SweepDelete \/ SweepRecord

-----------------------------------------------------------------------------
(* The environment: consumer, kcp, child controllers, time, the process *)

\* Every write of the instance makes the copy held by a pass stale.
Touch == pass' = [pass EXCEPT !.stale = (pass.pc # "idle")]

Create ==
  /\ inst.uid = 0
  /\ bound
  /\ nextUid <= MaxUid
  /\ \E s \in Specs : inst' = [NoInst EXCEPT !.uid = nextUid, !.spec = s]
  /\ nextUid' = nextUid + 1
  /\ Touch
  /\ UNCHANGED <<serverVars, forced, bound, childVars, ext, record, sweep>>

Edit ==
  /\ "edit" \in Env
  /\ inst.uid # 0
  /\ bound
  /\ \E s \in Specs \ {inst.spec} : inst' = [inst EXCEPT !.spec = s]
  /\ Touch
  /\ UNCHANGED <<serverVars, nextUid, forced, bound, childVars, ext, record,
                 sweep>>

\* Without a finalizer the object goes at once, with one it is only marked.
DeleteInst ==
  /\ "delete" \in Env
  /\ inst.uid # 0
  /\ bound
  /\ ~inst.deleting
  /\ inst' = IF inst.fin THEN [inst EXCEPT !.deleting = TRUE] ELSE NoInst
  /\ Touch
  /\ UNCHANGED <<serverVars, nextUid, forced, bound, childVars, ext, record,
                 sweep>>

\* The finalizer path is bypassed.
ForceDelete ==
  /\ "force" \in Env
  /\ inst.uid # 0
  /\ inst.fin
  /\ forced' = forced \cup {inst.uid}
  /\ inst' = NoInst
  /\ Touch
  /\ UNCHANGED <<serverVars, nextUid, bound, childVars, ext, record, sweep>>

Unbind ==
  /\ "unbind" \in Env
  /\ bound
  /\ bound' = FALSE
  /\ UNCHANGED <<serverVars, inst, nextUid, forced, childVars, ext, record,
                 pass, sweep>>

Rebind ==
  /\ "rebind" \in Env
  /\ ~bound
  /\ bound' = TRUE
  /\ UNCHANGED <<serverVars, inst, nextUid, forced, childVars, ext, record,
                 pass, sweep>>

\* kcp's collector removes a consumer child whose owner is gone.
CollectOwned ==
  /\ \E k \in Key :
       /\ k.target = "consumer"
       /\ children[k] \notin {0, inst.uid}
       /\ Delete(k)
  /\ UNCHANGED <<serverVars, consumerVars, ext, record, pass, sweep>>

SetStatus ==
  /\ \E k \in Key :
       /\ children[k] # 0
       /\ k \notin status
       /\ status' = status \cup {k}
  /\ UNCHANGED <<serverVars, consumerVars, children, ext, record, pass, sweep>>

\* An external object is created, or its status becomes ready.
ExternalAppears ==
  /\ \E i \in DOMAIN blueprint.nodes :
       /\ IsExternal(blueprint.nodes[i])
       /\ ext[blueprint.nodes[i].id] = "absent"
       /\ ext' = [ext EXCEPT ![blueprint.nodes[i].id] = "found"]
  /\ UNCHANGED <<serverVars, consumerVars, childVars, record, pass, sweep>>

ExternalReadies ==
  /\ \E i \in Ids : ext[i] = "found" /\ ext' = [ext EXCEPT ![i] = "ready"]
  /\ UNCHANGED <<serverVars, consumerVars, childVars, record, pass, sweep>>

ExternalVanishes ==
  /\ "extLoss" \in Env
  /\ \E i \in Ids : ext[i] # "absent" /\ ext' = [ext EXCEPT ![i] = "absent"]
  /\ UNCHANGED <<serverVars, consumerVars, childVars, record, pass, sweep>>

\* The record n ticks later; ages are not told apart beyond StaleAfter + 1.
Aged(r, n) ==
  IF r = NoRecord THEN r
  ELSE [r EXCEPT !.age = IF @ + n > StaleAfter THEN StaleAfter + 1 ELSE @ + n]

IsServed == inst.uid # 0 /\ bound

\* Time passes.  The requeue of the last pass (or the event, or the restart)
\* starts the next one within Heartbeat ticks, unless passes may be late, and
\* a pass takes less than a tick, unless slow ones are allowed.
Tick ==
  /\ pass.pc = "idle" \/ "slow" \in Env
  /\ IsServed => waited < Heartbeat
  /\ record' = [u \in Uids |-> Aged(record[u], 1)]
  /\ uptime' = IF uptime < StaleAfter THEN uptime + 1 ELSE uptime
  /\ waited' = IF IsServed /\ "late" \notin Env THEN waited + 1 ELSE 0
  /\ UNCHANGED <<blueprint, consumerVars, childVars, ext, pass, sweep>>

\* The process dies and comes back n ticks later: both passes are lost.
Restart ==
  /\ "restart" \in Env
  /\ \E n \in {0, StaleAfter + 1} :
       record' = [u \in Uids |-> Aged(record[u], n)]
  /\ uptime' = 0
  /\ waited' = 0
  /\ pass' = NoPass
  /\ sweep' = NoSweep
  /\ UNCHANGED <<blueprint, consumerVars, childVars, ext>>

\* The supervisor replaces the manager by one that serves another revision.
Redeploy ==
  /\ \E b \in Blueprints \ {blueprint} : blueprint' = b
  /\ pass' = NoPass
  /\ UNCHANGED <<uptime, waited, consumerVars, childVars, ext, record, sweep>>

Environment ==
  \/ Create \/ Edit \/ DeleteInst \/ ForceDelete \/ Unbind \/ Rebind
  \/ CollectOwned \/ SetStatus \/ ExternalAppears \/ ExternalReadies
  \/ ExternalVanishes
  \/ Tick \/ Restart \/ Redeploy

Next == PassStep \/ SweepStep \/ Glitch \/ SweepGlitch \/ Environment

Spec == Init /\ [][Next]_vars

-----------------------------------------------------------------------------
(* Fairness *)

\* The work queue retries a failed pass and the sweeper comes back on every
\* tick, so both keep stepping; API failures are transient, so from some point
\* on no call fails by itself (a step that a rejected or an idempotent call
\* explains as well is no failure), and the process stays up.  Time passes, and
\* the controllers of the children and of the external objects and kcp's collector
\* do their work.
Fairness ==
  /\ WF_vars(PassStep)
  /\ WF_vars(SweepStep)
  /\ <>[][(Glitch \/ SweepGlitch) => (PassStep \/ SweepStep)]_vars
  /\ <>[][~Restart]_vars
  /\ SF_vars(Tick)
  /\ WF_vars(SetStatus) /\ WF_vars(CollectOwned)
  /\ WF_vars(ExternalAppears) /\ WF_vars(ExternalReadies)

FairSpec == Spec /\ Fairness

-----------------------------------------------------------------------------
(* Properties *)

\* Once an instance is gone through its finalizer, none of its children is left
\* in any workspace, and no liveness record: whatever failed, conflicted or
\* crashed between the first apply and the last delete, and however the
\* sweeper interleaved with the passes (Reconcile, deletion path).
GoneMeansClean ==
  \A u \in Uids \ forced :
    u # inst.uid => Labelled(u) = {} /\ record[u] = NoRecord

\* Prune never deletes a child that the pass's spec desires: it runs only
\* after a complete pass, and by then every desired child is in the applied
\* set (pruneChildren and the res.Complete guard at its call site).
PruneSparesDesired ==
  pass.pc = "prune" =>
    pass.dels \cap DesiredKeys(blueprint, pass.spec) = {}

\* After a complete pass nothing carries the instance's label but what its
\* spec desires: shrunk collections, excluded nodes and dropped nodes are
\* reclaimed ("children of dropped blueprint nodes", pruneChildren).
CompletePassIsExact ==
  pass.pc = "status" /\ pass.complete =>
    Labelled(pass.uid) \subseteq DesiredKeys(blueprint, pass.spec)

\* Ready=True is only reported for the spec the instance has at that moment,
\* by a pass that applied all of it, and with no desired child whose status is
\* still empty (applyResultConditions and the status update).
ReadyIsHonest ==
  [][inst'.readyFor \notin {inst.readyFor, {}} =>
       /\ inst'.readyFor = {inst.spec}
       /\ DesiredKeys(blueprint, inst.spec) \subseteq pass.applied
       /\ \A k \in DesiredKeys(blueprint, inst.spec) :
            children[k] = 0 \/ k \in status]_vars

Offsite(u) == {k \in Labelled(u) : k.target # "consumer"}

\* The sweeper never works on an instance that is bound and not being deleted:
\* as long as passes come within Heartbeat < StaleAfter and succeed, its record
\* is not found stale, not even after an outage that outlasted StaleAfter,
\* because of the startup grace period (Sweep).
SweepSparesLive ==
  sweep.pc = "sweep" /\ sweep.uid = inst.uid => inst.deleting \/ ~bound

\* A deleted instance goes away while its consumer stays bound.
DeletionCompletes ==
  \A u \in Uids : (inst.uid = u /\ inst.deleting) ~> (inst.uid # u)

Converged ==
  /\ inst.readyFor = {inst.spec}
  /\ Labelled(inst.uid) = DesiredKeys(blueprint, inst.spec)

\* A live instance converges: all that its spec desires exists, nothing else
\* does, and Ready is reported, in spite of failed calls and of the sweeper.
InstanceConverges ==
  \A u \in Uids :
    (inst.uid = u /\ ~inst.deleting)
      ~> (inst.uid # u \/ inst.deleting \/ Converged)

\* The sweeper has the record of u on its list and will delete it in this pass.
InSweep(u) == sweep.uid = u \/ \E r \in sweep.todo : r.uid = u

\* What an unbound or force-deleted instance leaves behind off the consumer's
\* workspace is reclaimed with its record, once neither a pass nor a sweep is at
\* work on it any more, and unless the consumer binds again (Sweep).
OrphansSwept ==
  \A u \in Uids :
    (record[u] # NoRecord /\ pass.uid # u /\ ~InSweep(u) /\ (~bound \/ u \in forced))
      ~> \/ record[u] = NoRecord /\ Offsite(u) = {}
         \/ bound /\ u \notin forced

-----------------------------------------------------------------------------
(* The lifecycle that this module implements *)

\* The stage of an instance, by its object and its finalizer.
Stage(u) ==
  IF u \in forced THEN "forced"
  ELSE IF u # inst.uid THEN IF u < nextUid THEN "gone" ELSE "none"
  ELSE IF inst.deleting THEN "leaving"
  ELSE IF inst.fin THEN "guarded" ELSE "fresh"

Life == [u \in Uids |-> Stage(u)]

Footprint == [u \in Uids |-> Labelled(u) # {} \/ record[u] # NoRecord]

Contract == INSTANCE Lifecycle WITH life <- Life, footprint <- Footprint

\* The reconciler, the engine and the sweeper keep the promise of Lifecycle: no
\* step gives an instance a child or a record before its finalizer is stored or
\* after it left through the finalizer, and none removes the finalizer while
\* either is left (Reconcile, writeLivenessRecord, Sweep).
ImplementsLifecycle == Contract!Spec
=============================================================================
