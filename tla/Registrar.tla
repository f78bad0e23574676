------------------------------ MODULE Registrar ------------------------------
(***************************************************************************)
(* The blueprint registrar: one worker that publishes, republishes and     *)
(* withdraws blueprints, driving the supervisor through OnPublished and    *)
(* OnDeleted.  One action per API call or per callback step.               *)
(*                                                                         *)
(* A blueprint's spec is its spec hash, which names the compiled graph too; *)
(* Compiled gives the nodes and the routing that the claims depend on.      *)
(* Its export is <plural>.<group> of the instance type; group and kind are *)
(* immutable in the CRD, so the export is a constant of the blueprint.     *)
(* The API server is external: an Update with an old resourceVersion is    *)
(* refused, which `stale` records, and a call point in Failing may fail,   *)
(* before the server acts on the call or with its answer.                  *)
(***************************************************************************)
EXTENDS Supervisor, Claims

CONSTANTS
  Blueprints,  \* names of blueprint objects
  ExportOf,    \* the export each blueprint publishes
  Compiled,    \* the graph and the routing of each spec hash
  InstanceOf,  \* the instance type each blueprint defines
  Invalid,     \* specs that do not hash, or whose graph does not build
  Rejected,    \* specs whose graph builds, with a target or a schema refused
  Failing,     \* call points of a pass at which a call may fail
  Env          \* what the environment may do

ASSUME GraphsAssumption ==
  Graphs \in SUBSET Nat /\ Invalid \in SUBSET Graphs /\ Rejected \in SUBSET Graphs
ASSUME ExportAssumption ==
  /\ ExportOf \in [Blueprints -> Exports]
  /\ \A a, b \in Blueprints : ExportOf[a] = ExportOf[b] => a = b
ASSUME CompiledAssumption ==
  Compiled \in [Graphs -> Served] /\ InstanceOf \in [Blueprints -> GVKs]

VARIABLES
  bp,       \* the blueprint objects
  arss,     \* APIResourceSchemas in the provider workspace: <<export, hash>>
  exports,  \* APIExports: the hash of the schema each references, or None
  claims,   \* the permission claims of each APIExport
  bindings, \* the kinds whose identity the provider's APIBindings resolve
  cache,    \* GraphCache: the hash of each blueprint's compiled graph, or None
  reg       \* the pass of the worker

exportVars == <<exports, claims>>
serverVars == <<bp, arss, exportVars, bindings>>
vars == <<supVars, serverVars, cache, reg>>

Hash == Graphs \cup {None}

Object == [exists: BOOLEAN, fin: BOOLEAN, deleting: BOOLEAN, spec: Hash,
           exported: BOOLEAN, observed: Hash, ready: BOOLEAN]

Absent == [exists |-> FALSE, fin |-> FALSE, deleting |-> FALSE, spec |-> None,
           exported |-> FALSE, observed |-> None, ready |-> FALSE]

PublishPoints == {"addfin", "build", "ars", "claims", "export", "set", "stop", "cancel",
                  "ensure", "status"}

WithdrawPoints == {"delars", "delexport", "purge", "withdraw", "abort",
                   "unregister", "remfin"}

Pass == [pc: {"idle"} \cup PublishPoints \cup WithdrawPoints, b: Blueprints \cup {None},
         hash: Hash, exported: BOOLEAN, changed: BOOLEAN, stale: BOOLEAN, claims: ClaimList]

Idle == [pc |-> "idle", b |-> None, hash |-> None, exported |-> FALSE,
         changed |-> FALSE, stale |-> FALSE, claims |-> NoClaims]

\* The kinds that come from other exports: neither core nor published here.
Bindable == GVKs \ (CoreGVKs \cup {InstanceOf[b] : b \in Blueprints})

Init ==
  /\ SupInit
  /\ bp = [b \in Blueprints |-> Absent]
  /\ arss = {}
  /\ exports = [e \in Exports |-> None]
  /\ claims = [e \in Exports |-> NoClaims]
  /\ bindings \in SUBSET Bindable
  /\ cache = [b \in Blueprints |-> None]
  /\ reg = Idle

Goto(p) == reg' = [reg EXCEPT !.pc = p]

End == reg' = Idle

Export == ExportOf[reg.b]

\* A write to blueprint b makes what the pass has read of it out of date.
Outdate(b) == reg' = [reg EXCEPT !.stale = reg.stale \/ reg.b = b]

-----------------------------------------------------------------------------
(* The provider who writes blueprints, and the process.                    *)

CreateBlueprint(b, h) ==
  /\ ~bp[b].exists
  /\ bp' = [bp EXCEPT ![b] = [Absent EXCEPT !.exists = TRUE, !.spec = h]]
  /\ UNCHANGED <<supVars, arss, exportVars, bindings, cache, reg>>

EditBlueprint(b, h) ==
  /\ "edit" \in Env /\ bp[b].exists /\ bp[b].spec # h
  /\ "revert" \in Env \/ h > bp[b].spec
  /\ bp' = [bp EXCEPT ![b].spec = h]
  /\ Outdate(b)
  /\ UNCHANGED <<supVars, arss, exportVars, bindings, cache>>

\* A write that leaves the spec alone: labels, annotations.
TouchBlueprint(b) ==
  /\ "touch" \in Env /\ bp[b].exists /\ reg.b = b /\ ~reg.stale
  /\ Outdate(b)
  /\ UNCHANGED <<supVars, serverVars, cache>>

\* A deletion removes the object at once unless it carries the finalizer.
DeleteBlueprint(b) ==
  /\ "delete" \in Env /\ bp[b].exists /\ ~bp[b].deleting
  /\ "early" \in Env \/ bp[b].exported
  /\ bp' = [bp EXCEPT ![b] = IF bp[b].fin THEN [bp[b] EXCEPT !.deleting = TRUE]
                             ELSE Absent]
  /\ Outdate(b)
  /\ UNCHANGED <<supVars, arss, exportVars, bindings, cache>>

\* An APIBinding appears in the provider workspace, or goes.
Rebind(gr) ==
  /\ "bind" \in Env
  /\ bindings' = IF gr \in bindings THEN bindings \ {gr} ELSE bindings \cup {gr}
  /\ UNCHANGED <<supVars, bp, arss, exportVars, cache, reg>>

\* The controller process dies and starts again: its memory is lost.
Restart ==
  /\ "restart" \in Env
  /\ running' = [e \in Exports |-> None]
  /\ gens' = [g \in Gens |-> FreeGen]
  /\ stopping' = {}
  /\ registry' = [e \in Exports |-> None]
  /\ cache' = [b \in Blueprints |-> None]
  /\ End
  /\ UNCHANGED serverVars

-----------------------------------------------------------------------------
(* A pass that publishes.                                                  *)

\* Mutant of Get: every pass takes the blueprint for changed.
GetAlwaysChanged(b) ==
  /\ reg.pc = "idle" /\ bp[b].exists
  /\ reg' = [pc |-> CASE bp[b].deleting /\ bp[b].exported -> "delars"
                      [] bp[b].deleting /\ ~bp[b].exported -> "purge"
                      [] ~bp[b].deleting /\ bp[b].fin -> "build"
                      [] ~bp[b].deleting /\ ~bp[b].fin -> "addfin",
             b |-> b, hash |-> bp[b].spec, exported |-> bp[b].exported,
             changed |-> TRUE, stale |-> FALSE, claims |-> NoClaims]
  /\ UNCHANGED <<supVars, serverVars, cache>>

\* Get: the pass publishes a blueprint, or withdraws one that is being deleted.
Get(b) ==
  /\ reg.pc = "idle" /\ bp[b].exists
  /\ reg' = [pc |-> CASE bp[b].deleting /\ bp[b].exported -> "delars"
                      [] bp[b].deleting /\ ~bp[b].exported -> "purge"
                      [] ~bp[b].deleting /\ bp[b].fin -> "build"
                      [] ~bp[b].deleting /\ ~bp[b].fin -> "addfin",
             b |-> b, hash |-> bp[b].spec, exported |-> bp[b].exported,
             changed |-> bp[b].observed # bp[b].spec, stale |-> FALSE,
             claims |-> NoClaims]
  /\ UNCHANGED <<supVars, serverVars, cache>>

StoreFinalizer ==
  /\ reg.pc = "addfin" /\ ~reg.stale
  /\ bp' = [bp EXCEPT ![reg.b].fin = TRUE]

AddFinalizer ==
  /\ StoreFinalizer
  /\ Goto("build")
  /\ UNCHANGED <<supVars, arss, exportVars, bindings, cache>>

\* GraphCache.Get: the cache has the graph of this very spec.
Cached == cache[reg.b] = reg.hash

\* The compiled graph comes from the cache or is built and cached.
Compile ==
  /\ reg.pc = "build" /\ reg.hash \notin Invalid
  /\ cache' = [cache EXCEPT ![reg.b] = reg.hash]

\* The routing targets are parsed and the schema is converted.
Build ==
  /\ Compile /\ reg.hash \notin Rejected
  /\ Goto("ars")
  /\ UNCHANGED <<supVars, serverVars>>

\* Mutant of ApplyARS: the schemas of earlier specs go before the export moves.
ApplyARSReplaces ==
  /\ reg.pc = "ars"
  /\ arss' = {a \in arss : a[1] # Export} \cup {<<Export, reg.hash>>}
  /\ Goto("claims")
  /\ UNCHANGED <<supVars, bp, exportVars, bindings, cache>>

\* Create if absent.
StoreARS ==
  /\ reg.pc = "ars"
  /\ arss' = arss \cup {<<Export, reg.hash>>}

ApplyARS ==
  /\ StoreARS
  /\ Goto("claims")
  /\ UNCHANGED <<supVars, bp, exportVars, bindings, cache>>

DerivedClaims == ClaimsFor(Compiled[reg.hash], InstanceOf[reg.b], bindings)

\* The bindings of the provider workspace are listed, the claims are derived
\* with the identities they give, and validated.
ResolveClaims ==
  /\ reg.pc = "claims" /\ DOMAIN DerivedClaims # {} /\ validateClaims(DerivedClaims)
  /\ reg' = [reg EXCEPT !.pc = "export", !.claims = DerivedClaims]
  /\ UNCHANGED <<supVars, serverVars, cache>>

\* Mutant of UpsertAPIExport: the claims are added to those of earlier specs.
UpsertAPIExportAdds ==
  /\ reg.pc = "export"
  /\ exports' = [exports EXCEPT ![Export] = reg.hash]
  /\ claims' = [claims EXCEPT ![Export] = mergeClaims(reg.claims, claims[Export])]
  /\ reg' = [reg EXCEPT !.pc = "set", !.claims = NoClaims]
  /\ UNCHANGED <<supVars, bp, arss, bindings, cache>>

\* The schema and the claims of the export are applied together.
StoreExport ==
  /\ reg.pc = "export"
  /\ exports' = [exports EXCEPT ![Export] = reg.hash]
  /\ claims' = [claims EXCEPT ![Export] = reg.claims]

UpsertAPIExport ==
  /\ StoreExport
  /\ reg' = [reg EXCEPT !.pc = "set", !.claims = NoClaims]
  /\ UNCHANGED <<supVars, bp, arss, bindings, cache>>

\* Mutant of PublishSet: a changed graph does not stop the running manager.
PublishSetKeeps ==
  /\ reg.pc = "set"
  /\ Set(Export, reg.hash)
  /\ Goto("ensure")
  /\ UNCHANGED <<serverVars, cache>>

\* OnPublished: registry.Set, then Stop if the graph changed, then Ensure.
PublishSet ==
  /\ reg.pc = "set"
  /\ Set(Export, reg.hash)
  /\ Goto(IF reg.changed THEN "stop" ELSE "ensure")
  /\ UNCHANGED <<serverVars, cache>>

PublishStop ==
  /\ reg.pc = "stop"
  /\ StopDelete(Export)
  /\ Goto(IF running[Export] = None THEN "ensure" ELSE "cancel")
  /\ UNCHANGED <<serverVars, cache>>

PublishCancel ==
  /\ reg.pc = "cancel"
  /\ \E g \in Gens : StopCancel(g)
  /\ Goto("ensure")
  /\ UNCHANGED <<serverVars, cache>>

PublishEnsure ==
  /\ reg.pc = "ensure"
  /\ Ensure(Export)
  /\ Goto("status")
  /\ UNCHANGED <<serverVars, cache>>

UpdateStatus ==
  /\ reg.pc = "status" /\ ~reg.stale
  /\ bp' = [bp EXCEPT ![reg.b].exported = TRUE, ![reg.b].observed = reg.hash,
                      ![reg.b].ready = TRUE]
  /\ End
  /\ UNCHANGED <<supVars, arss, exportVars, bindings, cache>>

\* Mutant of Report: the status that fail writes already holds the new hash.
ReportObserves ==
  /\ \/ ~reg.stale /\ bp' = [bp EXCEPT ![reg.b].ready = FALSE,
                                        ![reg.b].observed = reg.hash]
     \/ UNCHANGED bp
  /\ End

\* fail: Ready becomes False, unless that best-effort update fails too.
Report ==
  /\ \/ ~reg.stale /\ bp' = [bp EXCEPT ![reg.b].ready = FALSE]
     \/ UNCHANGED bp
  /\ End

Fail ==
  /\ Report
  /\ UNCHANGED <<supVars, arss, exportVars, bindings, cache>>

\* HashFailed or BuildFailed: a spec without a hash or without a graph, never cached.
BuildFails ==
  /\ reg.pc = "build" /\ ~Cached /\ reg.hash \in Invalid
  /\ Fail

\* InvalidTarget, or BuildARS fails: the graph stays in the cache.
BuildRejected ==
  /\ Compile /\ reg.hash \in Rejected
  /\ Report
  /\ UNCHANGED <<supVars, arss, exportVars, bindings>>

\* A kind outside the core group is not bound in the provider workspace.
ClaimsUnresolved ==
  /\ reg.pc = "claims" /\ DOMAIN DerivedClaims # {} /\ ~validateClaims(DerivedClaims)
  /\ Fail

-----------------------------------------------------------------------------
(* A pass that withdraws.                                                  *)

\* Mutant of DeleteARS: an export that is already gone is an error.
DeleteARSExisting ==
  /\ reg.pc = "delars"
  /\ arss' = arss \ {<<Export, exports[Export]>>}
  /\ IF exports[Export] = None THEN End ELSE Goto("delexport")
  /\ UNCHANGED <<supVars, bp, exportVars, bindings, cache>>

\* DeletePublishedAPI: nothing to do without an export; else the schema it
\* references goes first ...
RemoveARS ==
  /\ reg.pc = "delars"
  /\ arss' = arss \ {<<Export, exports[Export]>>}

DeleteARS ==
  /\ RemoveARS
  /\ Goto(IF exports[Export] = None THEN "purge" ELSE "delexport")
  /\ UNCHANGED <<supVars, bp, exportVars, bindings, cache>>

\* ... and then the export.
RemoveExport ==
  /\ reg.pc = "delexport"
  /\ exports' = [exports EXCEPT ![Export] = None]
  /\ claims' = [claims EXCEPT ![Export] = NoClaims]

DeleteExport ==
  /\ RemoveExport
  /\ Goto("purge")
  /\ UNCHANGED <<supVars, bp, arss, bindings, cache>>

\* Mutant of Purge: the finalizer goes as soon as the export does.
PurgeOnly ==
  /\ reg.pc = "purge"
  /\ cache' = [cache EXCEPT ![reg.b] = None]
  /\ Goto("remfin")
  /\ UNCHANGED <<supVars, serverVars>>

\* Mutant of Purge: the registry entry goes and the manager stays.
PurgeUnregisters ==
  /\ reg.pc = "purge"
  /\ cache' = [cache EXCEPT ![reg.b] = None]
  /\ Goto("unregister")
  /\ UNCHANGED <<supVars, serverVars>>

\* Cache.Delete; OnDeleted follows if an export was recorded.
Purge ==
  /\ reg.pc = "purge"
  /\ cache' = [cache EXCEPT ![reg.b] = None]
  /\ Goto(IF reg.exported THEN "withdraw" ELSE "remfin")
  /\ UNCHANGED <<supVars, serverVars>>

\* OnDeleted: Stop, then registry.Delete.
WithdrawStop ==
  /\ reg.pc = "withdraw"
  /\ StopDelete(Export)
  /\ Goto(IF running[Export] = None THEN "unregister" ELSE "abort")
  /\ UNCHANGED <<serverVars, cache>>

WithdrawCancel ==
  /\ reg.pc = "abort"
  /\ \E g \in Gens : StopCancel(g)
  /\ Goto("unregister")
  /\ UNCHANGED <<serverVars, cache>>

Unregister ==
  /\ reg.pc = "unregister"
  /\ Delete(Export)
  /\ Goto("remfin")
  /\ UNCHANGED <<serverVars, cache>>

RemoveFinalizer ==
  /\ reg.pc = "remfin" /\ ~reg.stale
  /\ bp' = [bp EXCEPT ![reg.b] = Absent]
  /\ End
  /\ UNCHANGED <<supVars, arss, exportVars, bindings, cache>>

\* A pass returns its error and ends: a write is refused ...
Abandon ==
  /\ End
  /\ UNCHANGED <<supVars, serverVars, cache>>

\* ... mergeClaims indexes an empty list, which controller-runtime recovers from
\* and returns as the error of the pass ...
ClaimsPanic ==
  /\ reg.pc = "claims" /\ DOMAIN DerivedClaims = {}
  /\ Abandon

Conflict ==
  /\ reg.pc \in {"addfin", "status", "remfin"} /\ reg.stale
  /\ Abandon

\* ... or a call fails; the publishing calls report it in the status.
Undone ==
  \/ reg.pc \in {"addfin", "status", "delars", "delexport", "remfin"} /\ Abandon
  \/ reg.pc \in {"ars", "claims", "export"} /\ Fail
  \/ reg.pc = "build" /\ ~Cached /\ Fail

\* The server has acted on the call, and the answer that says so is lost.  (After
\* the last write of a pass that makes no difference.)
AnswerLost ==
  /\ \/ StoreFinalizer /\ End /\ UNCHANGED <<arss, exportVars>>
     \/ StoreARS /\ Report /\ UNCHANGED exportVars
     \/ StoreExport /\ Report /\ UNCHANGED arss
     \/ RemoveARS /\ End /\ UNCHANGED <<bp, exportVars>>
     \/ RemoveExport /\ End /\ UNCHANGED <<bp, arss>>
  /\ UNCHANGED <<supVars, bindings, cache>>

CallFails == reg.pc \in Failing /\ (Undone \/ AnswerLost)

-----------------------------------------------------------------------------

Publish ==
  \/ AddFinalizer \/ Build \/ ApplyARS \/ ResolveClaims \/ UpsertAPIExport
  \/ PublishSet \/ PublishStop \/ PublishCancel \/ PublishEnsure \/ UpdateStatus
  \/ BuildFails \/ BuildRejected \/ ClaimsUnresolved \/ ClaimsPanic

Withdraw ==
  \/ DeleteARS \/ DeleteExport \/ Purge \/ WithdrawStop \/ WithdrawCancel
  \/ Unregister \/ RemoveFinalizer

Managers ==
  /\ \E g \in Gens : StartFn(g) \/ Serve(g) \/ ExitCancelled(g) \/ Forget(g)
                     \/ ("crash" \in Env /\ Crash(g))
  /\ UNCHANGED <<serverVars, cache, reg>>

Next ==
  \/ \E b \in Blueprints : Get(b) \/ TouchBlueprint(b) \/ DeleteBlueprint(b)
  \/ \E b \in Blueprints, h \in Graphs : CreateBlueprint(b, h) \/ EditBlueprint(b, h)
  \/ \E gr \in Bindable : Rebind(gr)
  \/ Publish \/ Withdraw \/ Conflict \/ CallFails \/ Managers \/ Restart

Spec == Init /\ [][Next]_vars

\* The resync and the work queue bring every blueprint back to the worker; an
\* outage of the API server ends (a step that a refused or a repeated write
\* explains as well is no failure); a goroutine runs on when it can, and a manager
\* that waits again and again finds its endpoint slice.
Fairness ==
  /\ \A b \in Blueprints : SF_vars(Get(b))
  /\ WF_vars(Publish \/ Withdraw \/ Conflict)
  /\ <>[][CallFails => (Publish \/ Withdraw \/ Conflict)]_vars
  /\ \A g \in Gens :
       /\ WF_vars(/\ StartFn(g) \/ ExitCancelled(g) \/ Forget(g)
                  /\ UNCHANGED <<serverVars, cache, reg>>)
       /\ SF_vars(Serve(g) /\ UNCHANGED <<serverVars, cache, reg>>)

FairSpec == Spec /\ Fairness

-----------------------------------------------------------------------------
(* Properties.                                                             *)

\* The state of the registrar and of what it drives is well formed.
TypeOK ==
  /\ SupTypeOK
  /\ bp \in [Blueprints -> Object]
  /\ arss \in SUBSET (Exports \X Graphs)
  /\ exports \in [Exports -> Hash]
  /\ claims \in [Exports -> ClaimList]
  /\ bindings \in SUBSET GVKs
  /\ cache \in [Blueprints -> Hash]
  /\ reg \in Pass

\* The blueprint is neither changed since its last complete pass nor deleted.
Settled(b) == bp[b].exists /\ ~bp[b].deleting /\ bp[b].observed = bp[b].spec

\* Once a blueprint is gone, so are its export, its manager, its registry entry
\* and its cached graph: whatever failed, crashed or was retried on the way, the
\* finalizer is released last (Reconcile's deletion path and OnDeleted).
WithdrawnMeansClean ==
  \A b \in Blueprints : ~bp[b].exists =>
    /\ exports[ExportOf[b]] = None /\ cache[b] = None
    /\ running[ExportOf[b]] = None /\ registry[ExportOf[b]] = None

\* A blueprint whose status says that its current spec was published is served
\* with that spec: every live manager of its export runs the graph of that spec
\* or has yet to read it (change detection in Reconcile and OnPublished).
SettledServesSpec ==
  \A b \in Blueprints, g \in Gens :
    Settled(b) /\ Live(g) /\ gens[g].export = ExportOf[b] =>
      \/ gens[g].graph = bp[b].spec
      \/ gens[g].pc = "start" /\ registry[ExportOf[b]] = bp[b].spec

\* A manager that starts and is not being stopped finds its blueprint in the
\* registry: startFn's hard error is met only by a start already called off.
StartFindsBlueprint ==
  \A g \in Gens : gens[g].pc = "start" /\ Live(g) /\ g \notin stopping =>
    registry[gens[g].export] # None

\* While a blueprint is not being deleted, the export it published references a
\* schema that exists, across every edit, failure and restart (applyARS runs
\* before UpsertAPIExport and never removes a schema).
ExportKeepsSchema ==
  \A b \in Blueprints : bp[b].exists /\ ~bp[b].deleting /\ bp[b].exported =>
    <<ExportOf[b], exports[ExportOf[b]]>> \in arss

\* The claims on its export cover every call that manager g makes for blueprint b
\* in a consumer's workspace, with their identities resolved.
IsAuthorised(b, g) ==
  Live(g) /\ g \notin stopping /\ gens[g].export = ExportOf[b] /\ gens[g].graph # None
    => Authorises(claims[ExportOf[b]], Compiled[gens[g].graph], InstanceOf[b])

\* The export has moved on from the graph that OnPublished last recorded, or has
\* been withdrawn, or the Stop that makes room for that graph is still to come.
Superseded(e) == exports[e] # registry[e] \/ (reg.pc = "stop" /\ Export = e)

\* A manager lacks a claim only while its export has moved on without it: from the
\* apply of the new claims to Stop, and after an apply whose answer was lost until
\* a later pass gets through.  Otherwise, through edits, failed publishes, crashes
\* and restarts, every call of the graph being served is authorised
\* (UpsertAPIExport before OnPublished; the claim derivation of Reconcile).
EngineIsAuthorised ==
  \A b \in Blueprints, g \in Gens : Superseded(ExportOf[b]) \/ IsAuthorised(b, g)

\* Once a blueprint's status says that its spec was published, consumers are
\* asked for no more than that spec's graph needs: no claim outlives its node,
\* and what is only read is claimed read-only (ForeignConsumerGRs, mergeClaims).
ClaimsFollowGraph ==
  \A b \in Blueprints : Settled(b) =>
    AskNoMore(claims[ExportOf[b]], Compiled[bp[b].spec], InstanceOf[b])

\* A resync of a settled blueprint restarts nothing: no step cancels the manager
\* of a blueprint that is settled before and after it.
ResyncKeepsManager ==
  [][\A b \in Blueprints, g \in Gens :
       /\ Settled(b) /\ Settled(b)' /\ Live(g) /\ gens[g].export = ExportOf[b]
       => ~gens'[g].cancelled]_vars

\* Deleting a blueprint eventually removes it, over refused writes and failures.
WithdrawalCompletes ==
  \A b \in Blueprints : bp[b].deleting ~> ~bp[b].exists

\* The identities that the claims of spec h need are known.
Resolvable(b, h) == validateClaims(ClaimsFor(Compiled[h], InstanceOf[b], bindings))

\* From some point on the blueprint keeps spec h, which is valid and whose foreign
\* kinds are bound.
Keeps(b, h) ==
  /\ h \notin Invalid \cup Rejected
  /\ <>[](bp[b].exists /\ ~bp[b].deleting /\ bp[b].spec = h /\ Resolvable(b, h))

\* A blueprint that keeps a valid spec whose foreign kinds are bound is served with
\* that spec again and again, however often its manager falls over: the resync
\* publishes it and restarts the manager.
ServedAgain ==
  \A b \in Blueprints, h \in Graphs : Keeps(b, h) =>
    []<>(\E g \in Gens : /\ gens[g].pc = "serving" /\ Live(g)
                         /\ gens[g].export = ExportOf[b] /\ gens[g].graph = h)

\* The window in which a manager lacks a claim closes for such a blueprint: even if
\* the claims moved on with an apply whose answer was lost, a later pass finds the
\* spec changed and replaces the manager (Reconcile's change detection, fail, which
\* leaves the observed hash alone, and OnPublished).
AuthorisedAgain ==
  \A b \in Blueprints, h \in Graphs : Keeps(b, h) =>
    <>[](\A g \in Gens : IsAuthorised(b, g))
=============================================================================
