--------------------------- MODULE ServingProofs ----------------------------
(***************************************************************************)
(* A settled blueprint is served with its spec (SpecInv), if no spec is    *)
(* reverted; without that it is false: the run RevertServes.  A blueprint  *)
(* that is gone has left nothing behind (CleanedUp), if deletions wait for *)
(* the first complete publish; without that it is false: the run           *)
(* EarlyDelete.                                                            *)
(***************************************************************************)
EXTENDS RegistrarProofs

USE Zenon, SMT
DEF StoreFinalizer, Compile, StoreARS, StoreExport, RemoveARS, RemoveExport, Report

(* A settled blueprint is served with its spec, if no spec is reverted.    *)

\* g serves graph h of export e, or will once it has read the registry.
ServedBy(g, h, e) == gens[g].graph = h \/ (gens[g].pc = "start" /\ registry[e] = h)

LiveFor(g, e) == Live(g) /\ gens[g].export = e

\* The pass over b may still write b's status.
Engaged(b) == At(b, Publishing) \/ (At(b, {"addfin"}) /\ ~reg.stale)

\* Specs only grow, and the status and the pass run behind the spec.
Ordered(b) ==
  bp[b].observed # None => bp[b].exists /\ bp[b].observed <= bp[b].spec

Tracks(b) ==
  Engaged(b) =>
    /\ reg.changed => bp[b].observed = None \/ bp[b].observed < reg.hash
    /\ ~reg.changed => bp[b].observed = reg.hash
    /\ reg.hash <= bp[b].spec
    /\ ~reg.stale => reg.hash = bp[b].spec /\ ~bp[b].deleting

\* The registry and the managers of a settled blueprint have its spec.
Fresh(b) ==
  Settled(b) =>
    /\ registry[ExportOf[b]] \in {None, bp[b].spec}
    /\ \A g \in Gens : LiveFor(g, ExportOf[b]) => ServedBy(g, bp[b].spec, ExportOf[b])

\* What OnPublished has done so far for a changed graph.
Handing(b) ==
  /\ At(b, {"stop", "cancel", "ensure", "status"}) => registry[ExportOf[b]] = reg.hash
  /\ At(b, {"cancel"}) => running[ExportOf[b]] = None
  /\ At(b, {"ensure"}) /\ reg.changed => \A g \in Gens : ~LiveFor(g, ExportOf[b])
  /\ At(b, {"status"}) /\ reg.changed =>
       \A g \in Gens : LiveFor(g, ExportOf[b]) => ServedBy(g, reg.hash, ExportOf[b])

\* Only the worker stops managers, one at a time.
OneStop ==
  /\ stopping # {} => reg.pc \in {"cancel", "abort"}
  /\ \A g, h \in stopping : g = h

\* Steps between Stop's two halves, and outside them.
LEMMA OneStopStep == RegInv /\ OneStop /\ [Next]_vars => OneStop'
<1> SUFFICES ASSUME RegInv, OneStop, [Next]_vars PROVE OneStop'
  OBVIOUS
<1>1. reg \in Pass
  BY DEF RegInv, PassInv
<1>2. ASSUME stopping' = stopping, reg.pc \notin {"cancel", "abort"} PROVE OneStop'
  BY <1>2 DEF OneStop
<1>3. ASSUME stopping' = stopping, reg'.pc = reg.pc PROVE OneStop'
  BY <1>3 DEF OneStop
<1>4. CASE PublishStop \/ WithdrawStop
  <2>1. stopping = {} /\ stopping' = {running[Export]} \ {None}
    BY <1>4 DEF PublishStop, WithdrawStop, StopDelete, OneStop
  <2>2. running[Export] # None => reg'.pc \in {"cancel", "abort"}
    BY <1>1, <1>4, GotoMoves DEF PublishStop, WithdrawStop, Moved
  <2>3. QED
    BY <2>1, <2>2 DEF OneStop
<1>5. CASE PublishCancel \/ WithdrawCancel
  <2>1. PICK g \in stopping : stopping' = stopping \ {g}
    BY <1>5 DEF PublishCancel, WithdrawCancel, StopCancel
  <2>2. stopping' = {}
    BY <2>1 DEF OneStop
  <2>3. QED
    BY <2>2 DEF OneStop
<1>6. CASE Restart
  BY <1>6 DEF Restart, OneStop
<1>7. CASE Publish /\ ~PublishStop /\ ~PublishCancel
  BY <1>2, <1>7
  DEF Publish, AddFinalizer, Build, ApplyARS, ResolveClaims, UpsertAPIExport, PublishSet,
      PublishEnsure, UpdateStatus, BuildFails, BuildRejected, ClaimsUnresolved, ClaimsPanic,
      Abandon, Fail, Set, Ensure, supVars
<1>8. CASE Withdraw /\ ~WithdrawStop /\ ~WithdrawCancel
  BY <1>2, <1>8
  DEF Withdraw, DeleteARS, DeleteExport, Purge, Unregister, RemoveFinalizer, Delete, Set,
      supVars
<1>9. CASE Conflict \/ CallFails
  BY <1>2, <1>9 DEF Conflict, CallFails, Undone, AnswerLost, Abandon, Fail, supVars
<1>a. CASE Managers \/ UNCHANGED vars \/ (\E gr \in Bindable : Rebind(gr))
  <2>1. Managers => stopping' = stopping /\ reg' = reg
    BY DEF Managers, StartFn, Serve, ExitCancelled, Forget, Crash
  <2>2. UNCHANGED vars \/ (\E gr \in Bindable : Rebind(gr)) =>
          stopping' = stopping /\ reg' = reg
    BY DEF vars, supVars, Rebind
  <2>3. QED
    BY <1>3, <1>a, <2>1, <2>2
<1>b. ASSUME NEW a \in Blueprints, Get(a) PROVE OneStop'
  BY <1>2, <1>b DEF Get, supVars
<1>c. ASSUME NEW a \in Blueprints, TouchBlueprint(a) \/ DeleteBlueprint(a) PROVE OneStop'
  <2>1. reg'.pc = reg.pc
    BY <1>1, <1>c DEF TouchBlueprint, DeleteBlueprint, Outdate, Pass
  <2>2. QED
    BY <1>3, <1>c, <2>1 DEF TouchBlueprint, DeleteBlueprint, supVars
<1>d. ASSUME NEW a \in Blueprints, NEW h \in Graphs, CreateBlueprint(a, h) \/ EditBlueprint(a, h)
      PROVE  OneStop'
  <2>1. reg'.pc = reg.pc
    BY <1>1, <1>d DEF CreateBlueprint, EditBlueprint, Outdate, Pass
  <2>2. QED
    BY <1>3, <1>d, <2>1 DEF CreateBlueprint, EditBlueprint, supVars
<1>e. QED
  BY <1>4, <1>5, <1>6, <1>7, <1>8, <1>9, <1>a, <1>b, <1>c, <1>d DEF Next

\* What a step that does not concern b leaves of it.
SameManagers(e) ==
  /\ registry'[e] = registry[e]
  /\ running'[e] \in {running[e], None}
  /\ \A g \in Gens : LiveFor(g, e)' =>
       /\ LiveFor(g, e)
       /\ \/ gens'[g].graph = gens[g].graph /\ gens'[g].pc = gens[g].pc
          \/ gens'[g].graph = gens[g].graph /\ gens[g].pc # "start"
          \/ gens'[g].graph = registry[e] /\ registry[e] # None

SamePass(b) ==
  \/ reg'.pc = "idle" \/ reg'.b # b
  \/ /\ reg'.pc = reg.pc /\ reg'.b = reg.b /\ reg'.hash = reg.hash
     /\ reg'.changed = reg.changed /\ (reg.stale => reg'.stale)

SameObject(b) ==
  /\ bp'[b].exists = bp[b].exists /\ bp'[b].deleting = bp[b].deleting
  /\ bp'[b].spec = bp[b].spec /\ bp'[b].observed = bp[b].observed

\* Managers that stay still serve the graph they served or were about to read.
LEMMA SameKeepsServedBy ==
  ASSUME NEW e, NEW h, registry[e] \in {None, h}, SameManagers(e),
         \A g \in Gens : LiveFor(g, e) => ServedBy(g, h, e)
  PROVE  \A g \in Gens : LiveFor(g, e)' => ServedBy(g, h, e)'
<1> SUFFICES ASSUME NEW g \in Gens, LiveFor(g, e)' PROVE ServedBy(g, h, e)'
  OBVIOUS
<1>1. /\ LiveFor(g, e) /\ registry'[e] = registry[e]
      /\ \/ gens'[g].graph = gens[g].graph /\ gens'[g].pc = gens[g].pc
         \/ gens'[g].graph = gens[g].graph /\ gens[g].pc # "start"
         \/ gens'[g].graph = registry[e] /\ registry[e] # None
  BY DEF SameManagers
<1>2. ServedBy(g, h, e)
  BY <1>1
<1>3. QED
  BY <1>1, <1>2 DEF ServedBy

\* A settled blueprint stays served by managers that stay.
LEMMA SameKeepsFresh ==
  ASSUME NEW b, Fresh(b), SameManagers(ExportOf[b]), SameObject(b)
  PROVE  Fresh(b)'
<1> SUFFICES ASSUME Settled(b)'
             PROVE  /\ registry'[ExportOf[b]] \in {None, bp'[b].spec}
                    /\ \A g \in Gens : LiveFor(g, ExportOf[b])' =>
                                         ServedBy(g, bp[b].spec, ExportOf[b])'
  BY DEF Fresh
<1>1. Settled(b) /\ bp'[b].spec = bp[b].spec
  BY DEF SameObject, Settled
<1>2. /\ registry[ExportOf[b]] \in {None, bp[b].spec}
      /\ \A g \in Gens : LiveFor(g, ExportOf[b]) => ServedBy(g, bp[b].spec, ExportOf[b])
  BY <1>1 DEF Fresh
<1>3. \A g \in Gens : LiveFor(g, ExportOf[b])' => ServedBy(g, bp[b].spec, ExportOf[b])'
  BY <1>1, <1>2, SameKeepsServedBy, SMT
<1>4. QED
  BY <1>1, <1>2, <1>3 DEF SameManagers

\* All that is known of the spec of b, its status and its managers.
SpecInv(b) == Ordered(b) /\ Tracks(b) /\ Fresh(b) /\ Handing(b)

\* A step that does not concern b keeps what is known of b.
LEMMA SameKeepsSpecInv ==
  ASSUME NEW b, SpecInv(b), SameManagers(ExportOf[b]), SamePass(b), SameObject(b)
  PROVE  SpecInv(b)'
<1>1. Ordered(b)'
  BY DEF SpecInv, Ordered, SameObject
<1>2. Fresh(b)'
  BY SameKeepsFresh DEF SpecInv
<1>3. CASE reg'.pc = "idle" \/ reg'.b # b
  <2>1. ~Engaged(b)' /\ ~At(b, {"stop", "cancel", "ensure", "status"})'
        /\ ~At(b, {"cancel"})' /\ ~At(b, {"ensure"})' /\ ~At(b, {"status"})'
    BY <1>3 DEF Engaged, At, Publishing, PublishPoints
  <2>2. QED
    BY <1>1, <1>2, <2>1 DEF SpecInv, Tracks, Handing
<1>4. CASE /\ reg'.pc = reg.pc /\ reg'.b = reg.b /\ reg'.hash = reg.hash
           /\ reg'.changed = reg.changed /\ (reg.stale => reg'.stale)
  <2>1. Tracks(b)'
    <3>1. Engaged(b)' => Engaged(b)
      BY <1>4 DEF Engaged, At
    <3>2. QED
      BY <1>4, <3>1 DEF SpecInv, Tracks, SameObject
  <2>2. (At(b, {"stop", "cancel", "ensure", "status"})' =>
           At(b, {"stop", "cancel", "ensure", "status"}))
        /\ (At(b, {"cancel"})' => At(b, {"cancel"}))
        /\ (At(b, {"ensure"})' => At(b, {"ensure"}))
        /\ (At(b, {"status"})' =>
              At(b, {"status"}) /\ At(b, {"stop", "cancel", "ensure", "status"}))
    BY <1>4 DEF At
  <2>3. At(b, {"status"})' /\ reg'.changed =>
          \A g \in Gens : LiveFor(g, ExportOf[b])' => ServedBy(g, reg.hash, ExportOf[b])'
    <3> SUFFICES ASSUME At(b, {"status"})', reg'.changed
                 PROVE  \A g \in Gens : LiveFor(g, ExportOf[b])' =>
                                          ServedBy(g, reg.hash, ExportOf[b])'
      OBVIOUS
    <3>1. /\ registry[ExportOf[b]] = reg.hash
          /\ \A g \in Gens : LiveFor(g, ExportOf[b]) => ServedBy(g, reg.hash, ExportOf[b])
      BY <1>4, <2>2 DEF SpecInv, Handing
    <3>2. QED
      BY <1>4, <3>1, SameKeepsServedBy, SMT
  <2>4. At(b, {"ensure"})' /\ reg'.changed => \A g \in Gens : ~LiveFor(g, ExportOf[b])'
    BY <1>4, <2>2 DEF SpecInv, Handing, SameManagers
  <2>5. Handing(b)'
    BY <1>4, <2>2, <2>3, <2>4 DEF SpecInv, Handing, SameManagers, ServedBy
  <2>6. QED
    BY <1>1, <1>2, <2>1, <2>5 DEF SpecInv
<1>5. QED
  BY <1>3, <1>4 DEF SamePass

\* A step that leaves the supervisor alone.
LEMMA SameSupervisor == ASSUME NEW e, UNCHANGED supVars PROVE SameManagers(e)
BY DEF supVars, SameManagers, LiveFor, Live

\* The manager steps change no graph but that of a start, which takes the registry's.
LEMMA ManagersSame ==
  ASSUME RegInv, NEW e \in Exports, Managers PROVE SameManagers(e)
<1>1. gens \in [Gens -> Gen]
  BY DEF RegInv, SupInv, SupTypeOK
<1>2. registry'[e] = registry[e] /\ running'[e] \in {running[e], None}
  BY ManagersForget DEF EntryQuiet
<1>3. ASSUME NEW g \in Gens, LiveFor(g, e)'
      PROVE  /\ LiveFor(g, e)
             /\ \/ gens'[g].graph = gens[g].graph /\ gens'[g].pc = gens[g].pc
                \/ gens'[g].graph = gens[g].graph /\ gens[g].pc # "start"
                \/ gens'[g].graph = registry[e] /\ registry[e] # None
  <2>1. PICK k \in Gens : StartFn(k) \/ Serve(k) \/ ExitCancelled(k) \/ Forget(k) \/ Crash(k)
    BY DEF Managers
  <2>2. CASE g # k
    <3>1. gens'[g] = gens[g]
      BY <1>1, <2>1, <2>2 DEF StartFn, Serve, ExitCancelled, Forget, Crash
    <3>2. QED
      BY <1>3, <3>1 DEF LiveFor, Live
  <2>3. CASE g = k /\ StartFn(k)
    <3>1. /\ gens[g].pc = "start"
          /\ gens'[g] = [gens[g] EXCEPT
                !.pc = IF registry[gens[g].export] = None THEN "returned" ELSE "wait",
                !.graph = registry[gens[g].export]]
      BY <1>1, <2>3 DEF StartFn
    <3>2. /\ gens'[g].export = gens[g].export /\ gens'[g].cancelled = gens[g].cancelled
          /\ gens'[g].graph = registry[gens[g].export]
          /\ registry[gens[g].export] = None => gens'[g].pc = "returned"
      BY <1>1, <3>1 DEF Gen
    <3>3. QED
      BY <1>3, <3>1, <3>2 DEF LiveFor, Live
  <2>4. CASE g = k /\ Serve(k)
    <3>1. gens[g].pc = "wait" /\ gens'[g] = [gens[g] EXCEPT !.pc = "serving"]
      BY <1>1, <2>4 DEF Serve
    <3>2. /\ gens'[g].export = gens[g].export /\ gens'[g].cancelled = gens[g].cancelled
          /\ gens'[g].graph = gens[g].graph
      BY <1>1, <3>1 DEF Gen
    <3>3. QED
      BY <1>3, <3>1, <3>2 DEF LiveFor, Live
  <2>5. CASE g = k /\ (ExitCancelled(k) \/ Crash(k) \/ Forget(k))
    <3>1. gens'[g].pc \in {"returned", "free"}
      BY <1>1, <2>5, SMT DEF ExitCancelled, Crash, Forget, FreeGen, Gen
    <3>2. QED
      BY <1>3, <3>1 DEF LiveFor, Live
  <2>6. QED
    BY <2>1, <2>2, <2>3, <2>4, <2>5
<1>4. QED
  BY <1>2, <1>3 DEF SameManagers

\* Stop, in both halves, takes managers away and changes none that stays.
LEMMA StopSame ==
  ASSUME RegInv, NEW e \in Exports, NEW f \in Exports,
         StopDelete(f) \/ (\E k \in Gens : StopCancel(k))
  PROVE  SameManagers(e)
<1>1. gens \in [Gens -> Gen] /\ running \in [Exports -> Gens \cup {None}]
  BY DEF RegInv, SupInv, SupTypeOK
<1>2. CASE StopDelete(f)
  BY <1>1, <1>2 DEF StopDelete, SameManagers, LiveFor, Live
<1>3. ASSUME NEW k \in Gens, StopCancel(k) PROVE SameManagers(e)
  <2>1. running' = running /\ registry' = registry
    BY <1>3 DEF StopCancel
  <2>2. ASSUME NEW g \in Gens, LiveFor(g, e)' PROVE gens'[g] = gens[g]
    <3>1. CASE g = k
      <4>1. gens'[g].cancelled
        BY <1>1, <1>3, <3>1, SMT DEF StopCancel, Gen
      <4>2. QED
        BY <2>2, <4>1 DEF LiveFor, Live
    <3>2. CASE g # k
      BY <1>1, <1>3, <3>2 DEF StopCancel
    <3>3. QED
      BY <3>1, <3>2
  <2>3. ASSUME NEW g \in Gens, LiveFor(g, e)' PROVE LiveFor(g, e)
    BY <2>2, <2>3 DEF LiveFor, Live
  <2>4. QED
    BY <2>1, <2>2, <2>3 DEF SameManagers
<1>4. QED
  BY <1>2, <1>3

\* What the worker does for another export leaves e alone.
LEMMA OtherExportSame ==
  ASSUME RegInv, NEW e \in Exports, NEW f \in Exports, e # f, NEW h,
         Set(f, h) \/ Ensure(f)
  PROVE  SameManagers(e)
<1>1. /\ gens \in [Gens -> Gen] /\ running \in [Exports -> Gens \cup {None}]
      /\ registry \in [Exports -> Graphs \cup {None}]
  BY DEF RegInv, SupInv, SupTypeOK
<1>2. CASE Set(f, h)
  BY <1>1, <1>2 DEF Set, SameManagers, LiveFor, Live
<1>3. CASE Ensure(f) /\ UNCHANGED supVars
  BY <1>3, SameSupervisor
<1>4. ASSUME NEW k \in Gens, running' = [running EXCEPT ![f] = k], registry' = registry,
             gens' = [gens EXCEPT ![k] = [FreeGen EXCEPT !.pc = "start", !.export = f]]
      PROVE  SameManagers(e)
  <2>1. running'[e] = running[e] /\ registry'[e] = registry[e]
    BY <1>1, <1>4
  <2>2. ASSUME NEW g \in Gens, LiveFor(g, e)' PROVE gens'[g] = gens[g]
    <3>1. CASE g = k
      <4>1. gens'[g].export = f
        BY <1>1, <1>4, <3>1 DEF FreeGen
      <4>2. QED
        BY <2>2, <4>1 DEF LiveFor
    <3>2. QED
      BY <1>1, <1>4, <3>1
  <2>3. ASSUME NEW g \in Gens, LiveFor(g, e)' PROVE LiveFor(g, e)
    BY <2>2, <2>3 DEF LiveFor, Live
  <2>4. QED
    BY <2>1, <2>2, <2>3 DEF SameManagers
<1>5. QED
  BY <1>2, <1>3, <1>4 DEF Ensure

\* Steps that end a pass or have nothing to do with one.
LEMMA QuietKeepsSpecInv ==
  ASSUME RegInv, NEW b \in Blueprints, SpecInv(b),
         \/ Conflict \/ Undone \/ BuildFails \/ BuildRejected \/ ClaimsUnresolved
         \/ ClaimsPanic \/ Managers \/ Restart \/ UNCHANGED vars
         \/ \E gr \in Bindable : Rebind(gr)
  PROVE  SpecInv(b)'
<1>1. Quiet(b)
  BY QuietSteps
<1>2. bp[b] \in Object /\ ExportOf[b] \in Exports
  BY OwnExport
<1>3. SameObject(b)
  BY <1>1, <1>2 DEF Quiet, Object, SameObject
<1>4. SamePass(b)
  BY <1>1, SMT DEF Quiet, SamePass, Idle
<1>5. CASE Restart
  <2>1. reg'.pc = "idle" /\ registry'[ExportOf[b]] = None
        /\ \A g \in Gens : ~LiveFor(g, ExportOf[b])'
    BY <1>2, <1>5 DEF Restart, End, Idle, LiveFor, Live, FreeGen
  <2>2. ~Engaged(b)' /\ ~At(b, {"stop", "cancel", "ensure", "status"})'
        /\ ~At(b, {"cancel"})' /\ ~At(b, {"ensure"})' /\ ~At(b, {"status"})'
    BY <2>1 DEF Engaged, At, Publishing, PublishPoints
  <2>3. Ordered(b)'
    BY <1>3 DEF SpecInv, Ordered, SameObject
  <2>4. QED
    BY <2>1, <2>2, <2>3 DEF SpecInv, Tracks, Fresh, Handing
<1>6. CASE ~Restart
  <2>1. SameManagers(ExportOf[b])
    <3>1. CASE UNCHANGED supVars
      BY <3>1, SameSupervisor
    <3>2. CASE Managers
      BY <1>2, <3>2, ManagersSame
    <3>3. QED
      BY <1>6, <3>1, <3>2
      DEF Conflict, Undone, BuildFails, BuildRejected, ClaimsUnresolved, ClaimsPanic,
          Abandon, Fail, vars, Rebind
  <2>2. QED
    BY <1>3, <1>4, <2>1, SameKeepsSpecInv
<1>7. QED
  BY <1>5, <1>6

\* A call takes effect and its answer is lost: the pass ends, and no spec, status or
\* manager has changed.
LEMMA LostKeepsSpecInv ==
  ASSUME RegInv, NEW b \in Blueprints, SpecInv(b), AnswerLost
  PROVE  SpecInv(b)'
<1>1. bp[b] \in Object /\ bp \in [Blueprints -> Object]
  BY OwnExport
<1>2. /\ bp'[b] = bp[b] \/ bp'[b] = [bp[b] EXCEPT !.ready = FALSE]
         \/ bp'[b] = [bp[b] EXCEPT !.fin = TRUE]
  BY <1>1 DEF AnswerLost
<1>3. SameObject(b)
  BY <1>1, <1>2 DEF SameObject, Object
<1>4. SamePass(b)
  BY DEF AnswerLost, SamePass, End, Idle
<1>5. SameManagers(ExportOf[b])
  BY SameSupervisor DEF AnswerLost
<1>6. QED
  BY <1>3, <1>4, <1>5, SameKeepsSpecInv

\* A pass over another blueprint.
LEMMA OthersKeepSpecInv ==
  ASSUME RegInv, NEW b \in Blueprints, SpecInv(b), reg.b # b,
         \/ AddFinalizer \/ Build \/ ApplyARS \/ ResolveClaims \/ UpsertAPIExport
         \/ PublishSet \/ PublishStop \/ PublishCancel \/ PublishEnsure \/ UpdateStatus
         \/ Withdraw
  PROVE  SpecInv(b)'
<1>1. Aside(b)
  BY OthersStepAside
<1>2. SameObject(b) /\ SamePass(b)
  BY <1>1 DEF Aside, SameObject, SamePass
<1>3. Export # ExportOf[b] /\ Export \in Exports /\ ExportOf[b] \in Exports
  <2>1. reg.pc # "idle"
    BY DEF AddFinalizer, Build, ApplyARS, ResolveClaims, UpsertAPIExport, PublishSet,
           PublishStop, PublishCancel, PublishEnsure, UpdateStatus, Withdraw, DeleteARS,
           DeleteExport, Purge, WithdrawStop, WithdrawCancel, Unregister, RemoveFinalizer
  <2>2. QED
    BY <2>1, OwnExport
<1>4. SameManagers(ExportOf[b])
  <2>1. CASE UNCHANGED supVars
    BY <2>1, SameSupervisor
  <2>2. CASE PublishSet \/ Unregister \/ PublishEnsure
    BY <1>3, <2>2, OtherExportSame DEF PublishSet, Unregister, Delete, PublishEnsure
  <2>3. CASE PublishStop \/ WithdrawStop \/ PublishCancel \/ WithdrawCancel
    BY <1>3, <2>3, StopSame DEF PublishStop, WithdrawStop, PublishCancel, WithdrawCancel
  <2>4. QED
    BY <2>1, <2>2, <2>3
    DEF AddFinalizer, Build, ApplyARS, ResolveClaims, UpsertAPIExport, UpdateStatus,
        Withdraw, DeleteARS, DeleteExport, Purge, RemoveFinalizer
<1>5. QED
  BY <1>2, <1>4, SameKeepsSpecInv

\* Spec hashes can be compared.
LEMMA GraphsAreNumbers == \A h \in Graphs : h \in Nat
BY GraphsAssumption

\* The provider's writes; a spec is only replaced by a newer one.
LEMMA ProviderKeepsSpecInv ==
  ASSUME RegInv, NEW b \in Blueprints, Held(b), SpecInv(b), "revert" \notin Env,
         NEW a \in Blueprints, NEW h \in Graphs,
         CreateBlueprint(a, h) \/ EditBlueprint(a, h) \/ TouchBlueprint(a)
         \/ DeleteBlueprint(a)
  PROVE  SpecInv(b)'
<1>1. bp[b] \in Object /\ bp \in [Blueprints -> Object] /\ reg \in Pass
  BY OwnExport
<1>2. SameManagers(ExportOf[b])
  BY SameSupervisor DEF CreateBlueprint, EditBlueprint, TouchBlueprint, DeleteBlueprint
<1>3. /\ reg'.pc = reg.pc /\ reg'.b = reg.b /\ reg'.hash = reg.hash
      /\ reg'.changed = reg.changed /\ (reg.stale => reg'.stale)
      /\ ~CreateBlueprint(a, h) /\ reg.b = a => reg'.stale
  <2>1. CASE UNCHANGED reg /\ CreateBlueprint(a, h)
    BY <2>1
  <2>2. CASE Outdate(a)
    <3>1. /\ reg'.pc = reg.pc /\ reg'.b = reg.b /\ reg'.hash = reg.hash
          /\ reg'.changed = reg.changed
      BY <1>1, <2>2 DEF Outdate, Pass
    <3>2. reg'.stale = (reg.stale \/ reg.b = a)
      BY <1>1, <2>2 DEF Outdate, Pass
    <3>3. (reg.stale => reg'.stale) /\ (reg.b = a => reg'.stale)
      BY <3>2
    <3>4. QED
      BY <3>1, <3>3
  <2>3. QED
    BY <2>1, <2>2 DEF CreateBlueprint, EditBlueprint, TouchBlueprint, DeleteBlueprint
<1>4. SamePass(b)
  BY <1>3 DEF SamePass
<1>5. CASE bp'[b] = bp[b]
  BY <1>2, <1>4, <1>5, SameKeepsSpecInv DEF SameObject
<1>6. CASE a = b /\ CreateBlueprint(a, h)
  <2>1. bp'[b] = [Absent EXCEPT !.exists = TRUE, !.spec = h] /\ ~bp[b].exists
    BY <1>1, <1>6 DEF CreateBlueprint
  <2>2. bp'[b].observed = None /\ bp'[b].spec = h /\ h # None
    BY <2>1, NoneAssumption DEF Absent
  <2>3. ~Engaged(b) /\ ~At(b, Publishing)
    BY <2>1 DEF Held, Engaged
  <2>4. ~Engaged(b)' /\ ~At(b, {"stop", "cancel", "ensure", "status"})'
        /\ ~At(b, {"cancel"})' /\ ~At(b, {"ensure"})' /\ ~At(b, {"status"})'
    BY <1>3, <2>3 DEF Engaged, At, Publishing, PublishPoints
  <2>5. QED
    BY <2>2, <2>4 DEF SpecInv, Ordered, Tracks, Fresh, Settled, Handing
<1>7. CASE a = b /\ EditBlueprint(a, h)
  <2>1. bp'[b] = [bp[b] EXCEPT !.spec = h] /\ h > bp[b].spec /\ bp[b].exists
    BY <1>1, <1>7 DEF EditBlueprint
  <2>2. /\ bp'[b].observed = bp[b].observed /\ bp'[b].deleting = bp[b].deleting
        /\ bp'[b].spec = h /\ bp'[b].exists = bp[b].exists
    <3>1. bp'[b] = [bp[b] EXCEPT !.spec = h]
      BY <2>1
    <3>2. QED
      BY <1>1, <3>1 DEF Object
  <2>3. /\ bp[b].spec \in Nat /\ h \in Nat /\ bp[b].observed \in Nat \cup {None}
        /\ h # None
    BY <1>1, <2>1, GraphsAssumption, NoneAssumption DEF RegInv, BpInv, Object, Hash
  <2>4. Ordered(b)' /\ bp'[b].observed # bp'[b].spec
    BY <2>1, <2>2, <2>3, SMT DEF SpecInv, Ordered
  <2>5. Fresh(b)'
    BY <2>4 DEF Fresh, Settled
  <2>6. Tracks(b)'
    <3> SUFFICES ASSUME Engaged(b)'
                 PROVE  /\ reg.changed => bp[b].observed = None \/ bp[b].observed < reg.hash
                        /\ ~reg.changed => bp[b].observed = reg.hash
                        /\ reg.hash <= h /\ reg'.stale
      BY <1>3, <2>2 DEF Tracks
    <3>1. Engaged(b) /\ reg.b = b /\ reg.pc # "idle"
      BY <1>3 DEF Engaged, At, Publishing, PublishPoints
    <3>2. reg.hash \in Nat
      <4>1. reg.hash \in Graphs
        BY <3>1 DEF RegInv, PassInv
      <4>2. QED
        BY <4>1, GraphsAreNumbers
    <3>3. reg'.stale
      BY <1>3, <1>7, <3>1, <2>1 DEF CreateBlueprint
    <3>4. reg.hash <= bp[b].spec
      BY <3>1 DEF SpecInv, Tracks
    <3>5. reg.hash <= h
      BY <2>1, <2>3, <3>2, <3>4, SMT
    <3>6. QED
      BY <3>1, <3>3, <3>5 DEF SpecInv, Tracks
  <2>7. Handing(b)'
    BY <1>3, <1>7 DEF SpecInv, Handing, At, LiveFor, Live, ServedBy, EditBlueprint, supVars
  <2>8. QED
    BY <2>4, <2>5, <2>6, <2>7 DEF SpecInv
<1>8. CASE a = b /\ DeleteBlueprint(a)
  <2>1. UNCHANGED supVars
    BY <1>8 DEF DeleteBlueprint
  <2>2. Handing(b)'
    BY <1>3, <2>1 DEF SpecInv, Handing, At, LiveFor, Live, ServedBy, supVars
  <2>3. CASE bp[b].fin
    <3>1. bp'[b] = [bp[b] EXCEPT !.deleting = TRUE]
      BY <1>1, <1>8, <2>3 DEF DeleteBlueprint
    <3>2. /\ bp'[b].observed = bp[b].observed /\ bp'[b].deleting
          /\ bp'[b].spec = bp[b].spec /\ bp'[b].exists = bp[b].exists
      BY <1>1, <3>1 DEF Object
    <3>3. Ordered(b)' /\ Fresh(b)'
      BY <3>2 DEF SpecInv, Ordered, Fresh, Settled
    <3>4. Tracks(b)'
      <4> SUFFICES ASSUME Engaged(b)'
                   PROVE  /\ reg.changed => bp[b].observed = None \/ bp[b].observed < reg.hash
                          /\ ~reg.changed => bp[b].observed = reg.hash
                          /\ reg.hash <= bp[b].spec /\ reg'.stale
        BY <1>3, <3>2 DEF Tracks
      <4>1. Engaged(b) /\ reg.b = b
        BY <1>3 DEF Engaged, At
      <4>2. reg'.stale
        BY <1>3, <1>8, <4>1 DEF DeleteBlueprint, CreateBlueprint
      <4>3. QED
        BY <4>1, <4>2 DEF SpecInv, Tracks
    <3>5. QED
      BY <2>2, <3>3, <3>4 DEF SpecInv
  <2>4. CASE ~bp[b].fin
    <3>1. bp'[b] = Absent
      BY <1>1, <1>8, <2>4 DEF DeleteBlueprint
    <3>2. bp'[b].observed = None /\ ~bp'[b].exists
      BY <3>1, SMT DEF Absent
    <3>3. ~Engaged(b)'
      <4>1. ~At(b, Publishing)
        BY <2>4 DEF Held
      <4>2. ~At(b, Publishing)'
        BY <1>3, <4>1 DEF At
      <4>3. reg.b = b => reg'.stale
        BY <1>3, <1>8 DEF DeleteBlueprint, CreateBlueprint
      <4>4. QED
        BY <1>3, <4>2, <4>3 DEF Engaged, At
    <3>4. QED
      BY <2>2, <3>2, <3>3 DEF SpecInv, Ordered, Tracks, Fresh, Settled
  <2>5. QED
    BY <2>3, <2>4
<1>9. QED
  BY <1>1, <1>5, <1>6, <1>7, <1>8
  DEF CreateBlueprint, EditBlueprint, TouchBlueprint, DeleteBlueprint, serverVars, exportVars

\* Get compares the status with the spec it has read.
LEMMA GetKeepsSpecInv ==
  ASSUME RegInv, NEW b \in Blueprints, Held(b), SpecInv(b), NEW a \in Blueprints, Get(a)
  PROVE  SpecInv(b)'
<1>1. /\ reg'.b = a /\ reg'.hash = bp[a].spec /\ ~reg'.stale
      /\ reg'.changed = (bp[a].observed # bp[a].spec)
      /\ bp[a].exists /\ bp' = bp /\ UNCHANGED supVars
  BY DEF Get, serverVars
<1>2. SameManagers(ExportOf[b]) /\ SameObject(b)
  BY <1>1, SameSupervisor DEF SameObject
<1>3. CASE a # b
  <2>1. SamePass(b)
    BY <1>1, <1>3 DEF SamePass
  <2>2. QED
    BY <1>2, <2>1, SameKeepsSpecInv
<1>4. CASE a = b
  <2>1. reg'.pc = CASE bp[b].deleting /\ bp[b].exported -> "delars"
                    [] bp[b].deleting /\ ~bp[b].exported -> "purge"
                    [] ~bp[b].deleting /\ bp[b].fin -> "build"
                    [] ~bp[b].deleting /\ ~bp[b].fin -> "addfin"
    BY <1>4 DEF Get
  <2>2. /\ reg'.pc \in {"delars", "purge", "build", "addfin"}
        /\ reg'.pc \in {"build", "addfin"} => ~bp[b].deleting
    <3>1. CASE bp[b].deleting /\ bp[b].exported
      BY <2>1, <3>1
    <3>2. CASE bp[b].deleting /\ ~bp[b].exported
      BY <2>1, <3>2
    <3>3. CASE ~bp[b].deleting /\ bp[b].fin
      BY <2>1, <3>3
    <3>4. CASE ~bp[b].deleting /\ ~bp[b].fin
      BY <2>1, <3>4
    <3>5. QED
      BY <3>1, <3>2, <3>3, <3>4
  <2>3. Handing(b)'
    BY <2>2 DEF Handing, At
  <2>4. Ordered(b)' /\ Fresh(b)'
    BY <1>1 DEF SpecInv, Ordered, Fresh, Settled, LiveFor, Live, ServedBy, supVars
  <2>5. Tracks(b)'
    <3> SUFFICES ASSUME Engaged(b)'
                 PROVE  /\ reg'.changed => bp[b].observed = None \/ bp[b].observed < reg'.hash
                        /\ ~reg'.changed => bp[b].observed = reg'.hash
                        /\ reg'.hash <= bp[b].spec
                        /\ reg'.hash = bp[b].spec /\ ~bp[b].deleting
      BY <1>1 DEF Tracks
    <3>1. ~bp[b].deleting
      BY <2>2 DEF Engaged, At, Publishing, PublishPoints
    <3>2. bp[b].spec \in Nat /\ bp[b].observed \in Nat \cup {None}
      <4>1. bp[b].spec \in Graphs /\ bp[b].observed \in Graphs \cup {None}
        BY <1>1, <1>4, OwnExport DEF RegInv, BpInv, Object, Hash
      <4>2. QED
        BY <4>1, GraphsAreNumbers
    <3>3. reg'.changed => bp[b].observed # bp[b].spec
      BY <1>1, <1>4
    <3>4. ~reg'.changed => bp[b].observed = bp[b].spec
      BY <1>1, <1>4
    <3>5. bp[b].observed # None => bp[b].observed <= bp[b].spec
      BY DEF SpecInv, Ordered
    <3>6. bp[b].observed # bp[b].spec => bp[b].observed = None \/ bp[b].observed < bp[b].spec
      BY <3>2, <3>5, SMT
    <3>7. reg'.hash = bp[b].spec /\ reg'.hash <= bp[b].spec
      BY <1>1, <1>4, <3>2, SMT
    <3>8. QED
      BY <3>1, <3>3, <3>4, <3>6, <3>7
  <2>6. QED
    BY <2>3, <2>4, <2>5 DEF SpecInv
<1>5. QED
  BY <1>3, <1>4

\* A pass that withdraws b: the blueprint is being deleted, then gone.
LEMMA WithdrawKeepsSpecInv ==
  ASSUME RegInv, NEW b \in Blueprints, Held(b), SpecInv(b), reg.b = b, Withdraw
  PROVE  SpecInv(b)'
<1>1. bp \in [Blueprints -> Object] /\ reg \in Pass
  BY OwnExport
<1>2. At(b, WithdrawPoints)
  BY DEF Withdraw, DeleteARS, DeleteExport, Purge, WithdrawStop, WithdrawCancel,
         Unregister, RemoveFinalizer, At, WithdrawPoints
<1>3. ~Engaged(b)' /\ ~At(b, {"stop", "cancel", "ensure", "status"})'
      /\ ~At(b, {"cancel"})' /\ ~At(b, {"ensure"})' /\ ~At(b, {"status"})'
  <2>1. CASE \E q \in WithdrawPoints : Goto(q)
    <3>1. PICK q \in WithdrawPoints : Goto(q)
      BY <2>1
    <3>2. reg'.pc = q
      BY <1>1, <3>1, GotoMoves DEF Moved
    <3>3. QED
      BY <3>2 DEF Engaged, At, Publishing, PublishPoints, WithdrawPoints
  <2>2. CASE End
    BY <2>2 DEF End, Idle, Engaged, At, Publishing, PublishPoints
  <2>3. QED
    BY <2>1, <2>2
    DEF Withdraw, DeleteARS, DeleteExport, Purge, WithdrawStop, WithdrawCancel,
        Unregister, RemoveFinalizer, WithdrawPoints
<1>4. Tracks(b)' /\ Handing(b)'
  BY <1>3 DEF Tracks, Handing
<1>5. CASE RemoveFinalizer
  <2>1. bp'[b] = Absent
    BY <1>1, <1>5 DEF RemoveFinalizer
  <2>2. ~bp'[b].exists /\ bp'[b].observed = None
    BY <2>1, SMT DEF Absent
  <2>3. QED
    BY <1>4, <2>2 DEF SpecInv, Ordered, Fresh, Settled
<1>6. CASE ~RemoveFinalizer
  <2>1. bp' = bp
    BY <1>6 DEF Withdraw, DeleteARS, DeleteExport, Purge, WithdrawStop, WithdrawCancel,
                Unregister, serverVars
  <2>2. bp'[b].deleting
    BY <1>2, <2>1 DEF Held
  <2>3. QED
    BY <1>4, <2>1, <2>2 DEF SpecInv, Ordered, Fresh, Settled
<1>7. QED
  BY <1>5, <1>6

\* All fields of a pass but the point and the claims stay.
Carries ==
  /\ reg'.b = reg.b /\ reg'.hash = reg.hash /\ reg'.changed = reg.changed
  /\ reg'.stale = reg.stale

\* Every step within a publishing pass carries them on.
LEMMA PassCarries ==
  ASSUME reg \in Pass, (\E q : Goto(q)) \/ ResolveClaims \/ UpsertAPIExport
  PROVE  Carries
<1>1. ASSUME NEW q, Goto(q) PROVE Carries
  BY <1>1 DEF Goto, Carries, Pass
<1>2. CASE ResolveClaims
  BY <1>2 DEF ResolveClaims, Carries, Pass
<1>3. CASE UpsertAPIExport
  BY <1>3 DEF UpsertAPIExport, Carries, Pass
<1>4. QED
  BY <1>1, <1>2, <1>3

\* A settled blueprint is published again with the hash its status has.
LEMMA SettledPass ==
  ASSUME RegInv, NEW b \in Blueprints, Tracks(b), Engaged(b), Settled(b)
  PROVE  reg.hash = bp[b].spec
<1>1. reg.b = b /\ reg.pc # "idle"
  BY DEF Engaged, At, Publishing, PublishPoints
<1>2. reg.hash \in Nat /\ bp[b].spec \in Nat /\ bp[b].spec # None
  <2>1. reg.hash \in Graphs /\ bp[b].spec \in Graphs
    BY <1>1 DEF RegInv, PassInv, BpInv, Settled
  <2>2. QED
    BY <2>1, GraphsAreNumbers, NoneAssumption
<1>3. bp[b].observed = bp[b].spec
  BY DEF Settled
<1>4. CASE reg.changed
  <2>1. bp[b].spec < reg.hash /\ reg.hash <= bp[b].spec
    BY <1>2, <1>3, <1>4 DEF Tracks
  <2>2. QED
    BY <1>2, <2>1, SMT
<1>5. CASE ~reg.changed
  BY <1>3, <1>5 DEF Tracks
<1>6. QED
  BY <1>4, <1>5

\* A step within a pass that publishes b keeps track of the spec.
LEMMA CarriesKeepsTracks ==
  ASSUME NEW b, Tracks(b), Engaged(b), Carries, SameObject(b)
  PROVE  Tracks(b)'
BY DEF Tracks, Carries, SameObject

\* Before OnPublished.
LEMMA PrepareKeepsSpecInv ==
  ASSUME RegInv, NEW b \in Blueprints, Held(b), SpecInv(b), reg.b = b,
         AddFinalizer \/ Build \/ ApplyARS \/ ResolveClaims \/ UpsertAPIExport
  PROVE  SpecInv(b)'
<1>1. bp[b] \in Object /\ bp \in [Blueprints -> Object] /\ reg \in Pass
  BY OwnExport
<1>2. UNCHANGED supVars /\ Engaged(b)
  BY DEF AddFinalizer, Build, ApplyARS, ResolveClaims, UpsertAPIExport, Engaged, At,
         Publishing, PublishPoints
<1>3. SameObject(b)
  <2>1. CASE AddFinalizer
    <3>1. bp'[b] = [bp[b] EXCEPT !.fin = TRUE]
      BY <1>1, <2>1 DEF AddFinalizer
    <3>2. QED
      BY <1>1, <3>1 DEF SameObject, Object
  <2>2. CASE bp' = bp
    BY <2>2 DEF SameObject
  <2>3. QED
    BY <2>1, <2>2 DEF Build, ApplyARS, ResolveClaims, UpsertAPIExport, serverVars
<1>4. Carries
  BY <1>1, PassCarries DEF AddFinalizer, Build, ApplyARS
<1>5. reg'.pc \in {"build", "ars", "claims", "export", "set"}
  <2>1. CASE ResolveClaims
    BY <1>1, <2>1 DEF ResolveClaims, Pass
  <2>2. CASE UpsertAPIExport
    BY <1>1, <2>2 DEF UpsertAPIExport, Pass
  <2>3. CASE AddFinalizer \/ Build \/ ApplyARS
    BY <1>1, <2>3, GotoMoves DEF AddFinalizer, Build, ApplyARS, Moved
  <2>4. QED
    BY <2>1, <2>2, <2>3
<1>6. Tracks(b)'
  BY <1>2, <1>3, <1>4, CarriesKeepsTracks DEF SpecInv
<1>7. Fresh(b)'
  BY <1>2, <1>3, SameSupervisor, SameKeepsFresh DEF SpecInv
<1>8. Ordered(b)'
  BY <1>3 DEF SpecInv, Ordered, SameObject
<1>9. Handing(b)'
  BY <1>5 DEF Handing, At
<1>a. QED
  BY <1>6, <1>7, <1>8, <1>9 DEF SpecInv

\* OnPublished: Set.
LEMMA SetKeepsSpecInv ==
  ASSUME RegInv, NEW b \in Blueprints, SpecInv(b), reg.b = b, PublishSet
  PROVE  SpecInv(b)'
<1> DEFINE e == ExportOf[b]
<1>1. reg \in Pass /\ e \in Exports /\ Export = e
  BY OwnExport DEF Export
<1>2. /\ registry'[e] = reg.hash /\ UNCHANGED <<running, gens, bp>> /\ reg.pc = "set"
  BY <1>1, StoresTyped DEF PublishSet, Set, serverVars
<1>3. Carries
  BY <1>1, PassCarries DEF PublishSet
<1>4. SameObject(b) /\ Engaged(b)
  BY <1>2 DEF SameObject, Engaged, At, Publishing, PublishPoints
<1>5. Tracks(b)' /\ Ordered(b)'
  BY <1>3, <1>4, CarriesKeepsTracks DEF SpecInv, Ordered, SameObject
<1>6. reg'.pc = "stop" \/ (reg'.pc = "ensure" /\ ~reg'.changed)
  <2>1. CASE reg.changed
    <3>1. Goto("stop")
      BY <2>1 DEF PublishSet
    <3>2. QED
      BY <1>1, <3>1, GotoMoves DEF Moved
  <2>2. CASE ~reg.changed
    <3>1. Goto("ensure")
      BY <2>2 DEF PublishSet
    <3>2. reg'.pc = "ensure"
      BY <1>1, <3>1, GotoMoves DEF Moved
    <3>3. ~reg'.changed
      BY <1>3, <2>2 DEF Carries
    <3>4. QED
      BY <3>2, <3>3
  <2>3. QED
    BY <2>1, <2>2
<1>7. Handing(b)'
  <2>1. registry'[e] = reg'.hash
    BY <1>2, <1>3 DEF Carries
  <2>2. QED
    BY <1>6, <2>1 DEF Handing, At
<1>8. Fresh(b)'
  <2> SUFFICES ASSUME Settled(b)'
               PROVE  /\ registry'[e] \in {None, bp'[b].spec}
                      /\ \A g \in Gens : LiveFor(g, e)' => ServedBy(g, bp[b].spec, e)'
    BY DEF Fresh
  <2>1. Settled(b) /\ bp' = bp
    BY <1>2 DEF Settled
  <2>2. reg.hash = bp[b].spec
    BY <1>4, <2>1, SettledPass DEF SpecInv
  <2>3. ASSUME NEW g \in Gens, LiveFor(g, e)' PROVE ServedBy(g, bp[b].spec, e)'
    <3>1. LiveFor(g, e)
      BY <1>2, <2>3 DEF LiveFor, Live
    <3>2. ServedBy(g, bp[b].spec, e)
      BY <2>1, <3>1 DEF SpecInv, Fresh
    <3>3. QED
      BY <1>2, <2>1, <2>2, <3>2 DEF ServedBy
  <2>4. QED
    BY <1>2, <2>1, <2>2, <2>3
<1>9. QED
  BY <1>5, <1>7, <1>8 DEF SpecInv

\* OnPublished: the two halves of Stop, after which no manager of b is live.
LEMMA StopKeepsSpecInv ==
  ASSUME RegInv, OneStop, NEW b \in Blueprints, SpecInv(b), reg.b = b,
         PublishStop \/ PublishCancel
  PROVE  SpecInv(b)'
<1> DEFINE e == ExportOf[b]
<1>1. reg \in Pass /\ e \in Exports /\ Export = e /\ gens \in [Gens -> Gen]
  BY OwnExport DEF Export, RegInv, SupInv, SupTypeOK
<1>2. bp' = bp /\ registry' = registry /\ reg.pc \in {"stop", "cancel"}
  BY DEF PublishStop, PublishCancel, StopDelete, StopCancel, serverVars
<1>3. Carries
  BY <1>1, PassCarries DEF PublishStop, PublishCancel
<1>4. SameObject(b) /\ Engaged(b)
  BY <1>2 DEF SameObject, Engaged, At, Publishing, PublishPoints
<1>5. Tracks(b)' /\ Ordered(b)'
  BY <1>3, <1>4, CarriesKeepsTracks DEF SpecInv, Ordered, SameObject
<1>6. Fresh(b)'
  <2>1. SameManagers(e)
    BY <1>1, StopSame DEF PublishStop, PublishCancel
  <2>2. QED
    BY <1>4, <2>1, SameKeepsFresh DEF SpecInv
<1>7. registry'[e] = reg'.hash
  BY <1>2, <1>3 DEF SpecInv, Handing, At, Carries
<1>8. \A g \in Gens : LiveFor(g, e) => running[e] = g \/ g \in stopping
  BY DEF RegInv, SupInv, NoLostManager, LiveFor
<1>9. CASE PublishStop
  <2>1. running'[e] = None /\ gens' = gens
    BY <1>1, <1>9, StoresTyped DEF PublishStop, StopDelete
  <2>2. CASE running[e] # None
    <3>1. Goto("cancel")
      BY <1>1, <1>9, <2>2 DEF PublishStop
    <3>2. reg'.pc = "cancel"
      BY <1>1, <3>1, GotoMoves DEF Moved
    <3>3. Handing(b)'
      BY <1>7, <2>1, <3>2 DEF Handing, At
    <3>4. QED
      BY <1>5, <1>6, <3>3 DEF SpecInv
  <2>3. CASE running[e] = None
    <3>1. Goto("ensure")
      BY <1>1, <1>9, <2>3 DEF PublishStop
    <3>2. reg'.pc = "ensure"
      BY <1>1, <3>1, GotoMoves DEF Moved
    <3>3. stopping = {}
      BY <1>9 DEF OneStop, PublishStop
    <3>4. \A g \in Gens : ~LiveFor(g, e)
      BY <1>8, <2>3, <3>3, NoneAssumption
    <3>5. \A g \in Gens : ~LiveFor(g, e)'
      BY <2>1, <3>4 DEF LiveFor, Live
    <3>6. Handing(b)'
      BY <1>7, <3>2, <3>5 DEF Handing, At
    <3>7. QED
      BY <1>5, <1>6, <3>6 DEF SpecInv
  <2>4. QED
    BY <2>2, <2>3
<1>a. CASE PublishCancel
  <2>1. reg'.pc = "ensure" /\ running[e] = None
    BY <1>1, <1>a, GotoMoves DEF PublishCancel, Moved, SpecInv, Handing, At
  <2>2. PICK k \in Gens : StopCancel(k)
    BY <1>a DEF PublishCancel
  <2>3. ASSUME NEW g \in Gens, LiveFor(g, e)' PROVE FALSE
    <3>1. CASE g = k
      <4>1. gens'[g].cancelled
        BY <1>1, <2>2, <3>1 DEF StopCancel, Gen
      <4>2. QED
        BY <2>3, <4>1 DEF LiveFor, Live
    <3>2. CASE g # k
      <4>1. gens'[g] = gens[g]
        BY <1>1, <2>2, <3>2 DEF StopCancel
      <4>2. LiveFor(g, e)
        BY <2>3, <4>1 DEF LiveFor, Live
      <4>3. g \in stopping
        BY <1>8, <2>1, <4>2, NoneAssumption
      <4>4. QED
        BY <2>2, <3>2, <4>3 DEF OneStop, StopCancel
    <3>3. QED
      BY <3>1, <3>2
  <2>4. Handing(b)'
    BY <1>7, <2>1, <2>3 DEF Handing, At
  <2>5. QED
    BY <1>5, <1>6, <2>4 DEF SpecInv
<1>b. QED
  BY <1>9, <1>a

\* OnPublished: Ensure, whose manager will read the graph that Set has registered.
LEMMA EnsureKeepsSpecInv ==
  ASSUME RegInv, NEW b \in Blueprints, SpecInv(b), reg.b = b, PublishEnsure
  PROVE  SpecInv(b)'
<1> DEFINE e == ExportOf[b]
<1>1. reg \in Pass /\ e \in Exports /\ Export = e /\ gens \in [Gens -> Gen]
  BY OwnExport DEF Export, RegInv, SupInv, SupTypeOK
<1>2. bp' = bp /\ registry' = registry /\ reg.pc = "ensure"
  BY DEF PublishEnsure, Ensure, supVars, serverVars
<1>3. Carries
  BY <1>1, PassCarries DEF PublishEnsure
<1>4. SameObject(b) /\ Engaged(b)
  BY <1>2 DEF SameObject, Engaged, At, Publishing, PublishPoints
<1>5. Tracks(b)' /\ Ordered(b)'
  BY <1>3, <1>4, CarriesKeepsTracks DEF SpecInv, Ordered, SameObject
<1>6. reg'.pc = "status"
  BY <1>1, GotoMoves DEF PublishEnsure, Moved
<1>7. registry[e] = reg.hash
  BY <1>2 DEF SpecInv, Handing, At
<1>8. ASSUME NEW g \in Gens, LiveFor(g, e)'
      PROVE  gens'[g] = gens[g] \/ gens'[g].pc = "start"
  <2>1. CASE UNCHANGED supVars
    BY <2>1 DEF supVars
  <2>2. ASSUME NEW k \in Gens,
               gens' = [gens EXCEPT ![k] = [FreeGen EXCEPT !.pc = "start", !.export = e]]
        PROVE  gens'[g] = gens[g] \/ gens'[g].pc = "start"
    <3>1. CASE g = k
      BY <1>1, <2>2, <3>1 DEF FreeGen
    <3>2. CASE g # k
      BY <1>1, <2>2, <3>2
    <3>3. QED
      BY <3>1, <3>2
  <2>3. QED
    BY <1>1, <2>1, <2>2 DEF PublishEnsure, Ensure
<1>9. Fresh(b)'
  <2> SUFFICES ASSUME Settled(b)'
               PROVE  /\ registry'[e] \in {None, bp'[b].spec}
                      /\ \A g \in Gens : LiveFor(g, e)' => ServedBy(g, bp[b].spec, e)'
    BY DEF Fresh
  <2>1. Settled(b) /\ bp' = bp
    BY <1>2 DEF Settled
  <2>2. reg.hash = bp[b].spec
    BY <1>4, <2>1, SettledPass DEF SpecInv
  <2>3. ASSUME NEW g \in Gens, LiveFor(g, e)' PROVE ServedBy(g, bp[b].spec, e)'
    <3>1. CASE gens'[g].pc = "start"
      BY <1>2, <1>7, <2>1, <2>2, <3>1 DEF ServedBy
    <3>2. CASE gens'[g] = gens[g]
      <4>1. LiveFor(g, e)
        BY <2>3, <3>2 DEF LiveFor, Live
      <4>2. ServedBy(g, bp[b].spec, e)
        BY <2>1, <4>1 DEF SpecInv, Fresh
      <4>3. QED
        BY <1>2, <2>1, <3>2, <4>2 DEF ServedBy
    <3>3. QED
      BY <1>8, <2>3, <3>1, <3>2
  <2>4. QED
    BY <1>2, <1>7, <2>1, <2>2, <2>3
<1>a. ASSUME reg'.changed, NEW g \in Gens, LiveFor(g, e)' PROVE ServedBy(g, reg.hash, e)'
  <2>1. CASE gens'[g].pc = "start"
    BY <1>2, <1>3, <1>7, <2>1 DEF ServedBy, Carries
  <2>2. CASE gens'[g] = gens[g]
    <3>1. LiveFor(g, e)
      BY <1>a, <2>2 DEF LiveFor, Live
    <3>2. reg.changed
      BY <1>3, <1>a DEF Carries
    <3>3. QED
      BY <1>2, <3>1, <3>2 DEF SpecInv, Handing, At
  <2>3. QED
    BY <1>8, <1>a, <2>1, <2>2
<1>b. Handing(b)'
  <2>1. registry'[e] = reg'.hash
    BY <1>2, <1>3, <1>7 DEF Carries
  <2>2. QED
    BY <1>6, <1>a, <2>1 DEF Handing, At
<1>c. QED
  BY <1>5, <1>9, <1>b DEF SpecInv

\* The status is written only for the spec that the whole pass was about.
LEMMA StatusKeepsSpecInv ==
  ASSUME RegInv, NEW b \in Blueprints, Held(b), SpecInv(b), reg.b = b, UpdateStatus
  PROVE  SpecInv(b)'
<1> DEFINE e == ExportOf[b]
<1>1. bp[b] \in Object /\ bp \in [Blueprints -> Object]
  BY OwnExport
<1>2. UNCHANGED supVars /\ reg'.pc = "idle" /\ reg.pc = "status" /\ ~reg.stale
  BY DEF UpdateStatus, End, Idle
<1>3. Engaged(b) /\ At(b, Publishing) /\ At(b, {"status"})
      /\ At(b, {"stop", "cancel", "ensure", "status"})
  BY <1>2 DEF Engaged, At, Publishing, PublishPoints
<1>4. bp'[b] = [bp[b] EXCEPT !.exported = TRUE, !.observed = reg.hash, !.ready = TRUE]
  BY <1>1 DEF UpdateStatus
<1>5. /\ bp'[b].observed = reg.hash /\ bp'[b].deleting = bp[b].deleting
      /\ bp'[b].spec = bp[b].spec /\ bp'[b].exists = bp[b].exists
  BY <1>1, <1>4 DEF Object
<1>6. reg.hash = bp[b].spec /\ reg.hash <= bp[b].spec /\ ~bp[b].deleting
  BY <1>2, <1>3 DEF SpecInv, Tracks
<1>7. bp[b].exists
  BY <1>3 DEF Held
<1>8. Ordered(b)'
  BY <1>5, <1>6, <1>7 DEF Ordered
<1>9. Tracks(b)' /\ Handing(b)'
  <2>1. ~Engaged(b)' /\ ~At(b, {"stop", "cancel", "ensure", "status"})'
        /\ ~At(b, {"cancel"})' /\ ~At(b, {"ensure"})' /\ ~At(b, {"status"})'
    BY <1>2 DEF Engaged, At, Publishing, PublishPoints
  <2>2. QED
    BY <2>1 DEF Tracks, Handing
<1>a. registry[e] = bp[b].spec
  BY <1>3, <1>6 DEF SpecInv, Handing
<1>b. \A g \in Gens : LiveFor(g, e) => ServedBy(g, bp[b].spec, e)
  <2>1. CASE reg.changed
    BY <1>3, <1>6, <2>1 DEF SpecInv, Handing
  <2>2. CASE ~reg.changed
    <3>1. Settled(b)
      BY <1>3, <1>6, <1>7, <2>2 DEF SpecInv, Tracks, Settled
    <3>2. QED
      BY <3>1 DEF SpecInv, Fresh
  <2>3. QED
    BY <2>1, <2>2
<1>c. \A g \in Gens : LiveFor(g, e)' => ServedBy(g, bp[b].spec, e)'
  BY <1>2, <1>5, <1>b DEF supVars, LiveFor, Live, ServedBy
<1>d. Fresh(b)'
  BY <1>2, <1>5, <1>a, <1>c DEF Fresh, supVars
<1>e. QED
  BY <1>8, <1>9, <1>d DEF SpecInv

\* Every blueprint is served with the spec its status names.
SpecsInv == OneStop /\ \A b \in Blueprints : SpecInv(b)

\* At first no blueprint is settled and nothing is being stopped.
LEMMA SpecsInvInit == Init => SpecsInv
<1> SUFFICES ASSUME Init PROVE SpecsInv
  OBVIOUS
<1>1. OneStop
  BY DEF Init, SupInit, OneStop
<1>2. ASSUME NEW b \in Blueprints PROVE SpecInv(b)
  <2>1. ~bp[b].exists /\ bp[b].observed = None /\ reg.pc = "idle"
    BY DEF Init, Absent, Idle
  <2>2. QED
    BY <2>1 DEF SpecInv, Ordered, Tracks, Engaged, Fresh, Settled, Handing, At, Publishing,
                PublishPoints
<1>3. QED
  BY <1>1, <1>2 DEF SpecsInv

\* Every step keeps SpecInv, if no spec is reverted.
LEMMA SpecsInvStep ==
  ASSUME "revert" \notin Env
  PROVE  RegInv /\ HeldInv /\ SpecsInv /\ [Next]_vars => SpecsInv'
<1> SUFFICES ASSUME RegInv, HeldInv, SpecsInv, [Next]_vars PROVE SpecsInv'
  OBVIOUS
<1>1. OneStop'
  BY OneStopStep DEF SpecsInv
<1>2. ASSUME NEW b \in Blueprints PROVE SpecInv(b)'
  <2>1. Held(b) /\ SpecInv(b) /\ OneStop
    BY DEF HeldInv, SpecsInv
  <2>2. CASE \/ AddFinalizer \/ Build \/ ApplyARS \/ ResolveClaims \/ UpsertAPIExport
             \/ PublishSet \/ PublishStop \/ PublishCancel \/ PublishEnsure \/ UpdateStatus
             \/ Withdraw
    BY <2>1, <2>2, OthersKeepSpecInv, PrepareKeepsSpecInv, SetKeepsSpecInv,
       StopKeepsSpecInv, EnsureKeepsSpecInv, StatusKeepsSpecInv, WithdrawKeepsSpecInv
  <2>3. CASE \/ Conflict \/ Undone \/ BuildFails \/ BuildRejected \/ ClaimsUnresolved
             \/ ClaimsPanic \/ Managers \/ Restart \/ UNCHANGED vars
             \/ \E gr \in Bindable : Rebind(gr)
    BY <2>1, <2>3, QuietKeepsSpecInv
  <2>8. CASE AnswerLost
    BY <2>1, <2>8, LostKeepsSpecInv
  <2>4. ASSUME NEW a \in Blueprints, Get(a) PROVE SpecInv(b)'
    BY <2>1, <2>4, GetKeepsSpecInv
  <2>5. ASSUME NEW a \in Blueprints, NEW h \in Graphs,
               CreateBlueprint(a, h) \/ EditBlueprint(a, h)
        PROVE  SpecInv(b)'
    BY <2>1, <2>5, ProviderKeepsSpecInv
  <2>6. ASSUME NEW a \in Blueprints, TouchBlueprint(a) \/ DeleteBlueprint(a)
        PROVE  SpecInv(b)'
    <3>1. PICK h : h \in Graphs
      BY <2>6 DEF TouchBlueprint, DeleteBlueprint, RegInv, BpInv
    <3>2. QED
      BY <2>1, <2>6, <3>1, ProviderKeepsSpecInv
  <2>7. QED
    BY <2>2, <2>3, <2>4, <2>5, <2>6, <2>8 DEF Next, Publish, CallFails
<1>3. QED
  BY <1>1, <1>2 DEF SpecsInv

\* If no spec is reverted, every live manager of a settled blueprint serves the spec
\* in its status or has yet to read it, whatever failed, was edited or restarted.
THEOREM SettledIsServed ==
  ASSUME "revert" \notin Env
  PROVE  Spec => []SettledServesSpec
<1>1. SpecsInv => SettledServesSpec
  BY DEF SpecsInv, SpecInv, Fresh, LiveFor, ServedBy, SettledServesSpec
<1>2. RegInv /\ HeldInv /\ SpecsInv /\ [Next]_vars => SpecsInv'
  BY SpecsInvStep
<1>3. QED
  BY RegInvInit, RegInvStep, HeldInvInit, HeldInvStep, SpecsInvInit, <1>1, <1>2, PTL DEF Spec

(* Withdrawal, with deletions only after the first complete publish.       *)

\* With deletions only after the first complete publish, an object without the
\* finalizer has left nothing, and a withdrawal forgets one thing after the other.
Clean(b) ==
  /\ exports[ExportOf[b]] = None /\ cache[b] = None
  /\ running[ExportOf[b]] = None /\ registry[ExportOf[b]] = None

CleanedUp(b) ==
  /\ bp[b].deleting => bp[b].exported
  /\ ~bp[b].fin => Clean(b)
  /\ At(b, WithdrawPoints) => reg.exported
  /\ At(b, Withdrawn) => exports[ExportOf[b]] = None
  /\ At(b, Withdrawn \ {"purge"}) => cache[b] = None
  /\ At(b, {"abort", "unregister", "remfin"}) => running[ExportOf[b]] = None
  /\ At(b, {"remfin"}) => registry[ExportOf[b]] = None

\* What is left of b in the export, the cache, the supervisor and the registry stays
\* as it is or goes.
Shrinks(b) ==
  /\ exports'[ExportOf[b]] \in {exports[ExportOf[b]], None}
  /\ cache'[b] \in {cache[b], None}
  /\ running'[ExportOf[b]] \in {running[ExportOf[b]], None}
  /\ registry'[ExportOf[b]] \in {registry[ExportOf[b]], None}

\* The fields of b's object that matter stay, and a pass over b stays where it is
\* or ends.
Rests(b) ==
  /\ bp'[b].fin = bp[b].fin /\ bp'[b].deleting = bp[b].deleting
  /\ bp'[b].exported = bp[b].exported
  /\ \/ reg'.pc = "idle" \/ reg'.b # b
     \/ reg'.pc = reg.pc /\ reg'.b = reg.b /\ reg'.exported = reg.exported

\* A step that only takes away and does not move the pass over b keeps CleanedUp.
LEMMA ShrinkKeepsCleanedUp ==
  ASSUME NEW b, CleanedUp(b), Shrinks(b), Rests(b) PROVE CleanedUp(b)'
<1>1. Clean(b) => Clean(b)'
  BY DEF Clean, Shrinks
<1>2. CASE reg'.pc = "idle" \/ reg'.b # b
  <2>1. ~At(b, WithdrawPoints)' /\ ~At(b, Withdrawn)' /\ ~At(b, Withdrawn \ {"purge"})'
        /\ ~At(b, {"abort", "unregister", "remfin"})' /\ ~At(b, {"remfin"})'
    BY <1>2 DEF At, WithdrawPoints, Withdrawn
  <2>2. QED
    BY <1>1, <2>1 DEF CleanedUp, Rests
<1>3. CASE reg'.pc = reg.pc /\ reg'.b = reg.b /\ reg'.exported = reg.exported
  <2>1. (At(b, WithdrawPoints)' <=> At(b, WithdrawPoints))
        /\ (At(b, Withdrawn)' <=> At(b, Withdrawn))
        /\ (At(b, Withdrawn \ {"purge"})' <=> At(b, Withdrawn \ {"purge"}))
        /\ (At(b, {"abort", "unregister", "remfin"})' <=> At(b, {"abort", "unregister", "remfin"}))
        /\ (At(b, {"remfin"})' <=> At(b, {"remfin"}))
    BY <1>3 DEF At
  <2>2. QED
    BY <1>1, <1>3, <2>1 DEF CleanedUp, Rests, Shrinks
<1>4. QED
  BY <1>2, <1>3 DEF Rests

\* A pass over b that publishes: b holds the finalizer and is not being withdrawn.
LEMMA PublishKeepsCleanedUp ==
  ASSUME NEW b, CleanedUp(b), reg'.b = b, reg'.pc \in PublishPoints,
         bp'[b].fin, bp'[b].deleting => bp'[b].exported
  PROVE  CleanedUp(b)'
<1>1. ~At(b, WithdrawPoints)' /\ ~At(b, Withdrawn)' /\ ~At(b, Withdrawn \ {"purge"})'
      /\ ~At(b, {"abort", "unregister", "remfin"})' /\ ~At(b, {"remfin"})'
  BY DEF At, WithdrawPoints, Withdrawn, PublishPoints
<1>2. QED
  BY <1>1 DEF CleanedUp

\* Steps that end a pass or have nothing to do with one.
LEMMA QuietCleans ==
  ASSUME RegInv, NEW b \in Blueprints, CleanedUp(b),
         \/ Conflict \/ Undone \/ BuildFails \/ ClaimsUnresolved \/ ClaimsPanic
         \/ Managers \/ Restart \/ UNCHANGED vars
         \/ \E gr \in Bindable : Rebind(gr)
  PROVE  CleanedUp(b)'
<1>1. Quiet(b)
  BY QuietSteps
<1>2. bp[b] \in Object /\ ExportOf[b] \in Exports
  BY OwnExport
<1>3. Rests(b)
  <2>1. bp'[b].fin = bp[b].fin /\ bp'[b].deleting = bp[b].deleting
        /\ bp'[b].exported = bp[b].exported
    BY <1>1, <1>2 DEF Quiet, Object
  <2>2. QED
    BY <1>1, <2>1, SMT DEF Quiet, Rests, Idle
<1>4. Shrinks(b)
  <2>1. CASE UNCHANGED <<supVars, cache, exports>>
    BY <2>1 DEF supVars, Shrinks
  <2>2. CASE Restart
    BY <1>1, <1>2, <2>2 DEF Restart, Quiet, Shrinks
  <2>3. CASE Managers
    BY <1>1, <1>2, <2>3, ManagersForget DEF Managers, EntryQuiet, Quiet, Shrinks
  <2>4. QED
    BY <2>1, <2>2, <2>3
    DEF Conflict, Undone, BuildFails, ClaimsUnresolved, ClaimsPanic, Abandon, Fail, vars,
        Rebind, serverVars, exportVars
<1>5. QED
  BY <1>3, <1>4, ShrinkKeepsCleanedUp

\* A pass that ends while b holds the finalizer.
LEMMA EndKeepsCleanedUp ==
  ASSUME NEW b, CleanedUp(b), reg'.pc = "idle", bp'[b].fin,
         bp'[b].deleting = bp[b].deleting, bp'[b].exported = bp[b].exported
  PROVE  CleanedUp(b)'
<1>1. ~At(b, WithdrawPoints)' /\ ~At(b, Withdrawn)' /\ ~At(b, Withdrawn \ {"purge"})'
      /\ ~At(b, {"abort", "unregister", "remfin"})' /\ ~At(b, {"remfin"})'
  BY DEF At, WithdrawPoints, Withdrawn
<1>2. QED
  BY <1>1 DEF CleanedUp

\* A target or a schema of b is refused, or the answer to a call for b is lost.
LEMMA LostCleans ==
  ASSUME RegInv, NEW b \in Blueprints, Held(b), CleanedUp(b), reg.b = b,
         BuildRejected \/ AnswerLost
  PROVE  CleanedUp(b)'
<1>1. bp[b] \in Object /\ bp \in [Blueprints -> Object]
  BY OwnExport
<1>2. reg'.pc = "idle"
  BY DEF BuildRejected, AnswerLost, End, Idle
<1>3. CASE StoreFinalizer
  <2>1. bp'[b] = [bp[b] EXCEPT !.fin = TRUE]
    BY <1>1, <1>3
  <2>2. /\ bp'[b].fin /\ bp'[b].deleting = bp[b].deleting
        /\ bp'[b].exported = bp[b].exported
    BY <1>1, <2>1 DEF Object
  <2>3. QED
    BY <1>2, <2>2, EndKeepsCleanedUp
<1>4. CASE Report /\ reg.pc \in {"build", "ars", "export"}
  <2>1. bp[b].fin
    BY <1>4 DEF Held, At, Publishing, PublishPoints
  <2>2. bp'[b] = bp[b] \/ bp'[b] = [bp[b] EXCEPT !.ready = FALSE]
    BY <1>1, <1>4
  <2>3. /\ bp'[b].fin = bp[b].fin /\ bp'[b].deleting = bp[b].deleting
        /\ bp'[b].exported = bp[b].exported
    BY <1>1, <2>2 DEF Object
  <2>4. bp'[b].fin
    BY <2>1, <2>3
  <2>5. QED
    BY <1>2, <2>3, <2>4, EndKeepsCleanedUp
<1>5. CASE (RemoveARS \/ RemoveExport) /\ UNCHANGED bp
  <2>1. bp[b].fin
    BY <1>5 DEF Held, At, WithdrawPoints
  <2>2. QED
    BY <1>2, <1>5, <2>1, EndKeepsCleanedUp
<1>6. QED
  BY <1>3, <1>4, <1>5 DEF BuildRejected, AnswerLost

\* A pass over another blueprint.
LEMMA OthersClean ==
  ASSUME RegInv, NEW b \in Blueprints, CleanedUp(b), reg.b # b,
         \/ AddFinalizer \/ Build \/ ApplyARS \/ ResolveClaims \/ UpsertAPIExport
         \/ PublishSet \/ PublishStop \/ PublishCancel \/ PublishEnsure \/ UpdateStatus
         \/ Withdraw \/ BuildRejected \/ AnswerLost
  PROVE  CleanedUp(b)'
<1>1. Aside(b)
  BY OthersStepAside
<1>2. Rests(b)
  BY <1>1 DEF Aside, Rests
<1>3. Export # ExportOf[b] /\ Export \in Exports /\ ExportOf[b] \in Exports
  <2>1. reg.pc # "idle"
    BY DEF AddFinalizer, Build, ApplyARS, ResolveClaims, UpsertAPIExport, PublishSet,
           PublishStop, PublishCancel, PublishEnsure, UpdateStatus, Withdraw, DeleteARS,
           DeleteExport, Purge, WithdrawStop, WithdrawCancel, Unregister, RemoveFinalizer,
           BuildRejected, AnswerLost
  <2>2. QED
    BY <2>1, OwnExport
<1>4. cache'[b] = cache[b]
  BY StoresTyped
  DEF AddFinalizer, Build, ApplyARS, ResolveClaims, UpsertAPIExport, PublishSet,
      PublishStop, PublishCancel, PublishEnsure, UpdateStatus, Withdraw, DeleteARS,
      DeleteExport, Purge, WithdrawStop, WithdrawCancel, Unregister, RemoveFinalizer,
      BuildRejected, AnswerLost
<1>5. /\ running'[ExportOf[b]] = running[ExportOf[b]]
      /\ registry'[ExportOf[b]] = registry[ExportOf[b]]
  <2>1. CASE UNCHANGED supVars
    BY <2>1 DEF supVars
  <2>2. CASE PublishSet \/ Unregister
    BY <1>3, <2>2, StoresTyped DEF PublishSet, Unregister, Delete, Set
  <2>3. CASE PublishStop \/ WithdrawStop
    BY <1>3, <2>3, StoresTyped DEF PublishStop, WithdrawStop, StopDelete
  <2>4. CASE PublishCancel \/ WithdrawCancel
    BY <2>4 DEF PublishCancel, WithdrawCancel, StopCancel
  <2>5. CASE PublishEnsure
    BY <1>3, <2>5, StoresTyped DEF PublishEnsure, Ensure, supVars
  <2>6. QED
    BY <2>1, <2>2, <2>3, <2>4, <2>5
    DEF AddFinalizer, Build, ApplyARS, ResolveClaims, UpsertAPIExport, UpdateStatus,
        Withdraw, DeleteARS, DeleteExport, Purge, RemoveFinalizer, BuildRejected, AnswerLost
<1>6. Shrinks(b)
  BY <1>1, <1>4, <1>5 DEF Aside, Shrinks
<1>7. QED
  BY <1>2, <1>6, ShrinkKeepsCleanedUp

\* The provider's writes; a deletion waits for the first complete publish.
LEMMA ProviderCleans ==
  ASSUME RegInv, NEW b \in Blueprints, Held(b), CleanedUp(b), "early" \notin Env,
         NEW a \in Blueprints, NEW h \in Graphs,
         CreateBlueprint(a, h) \/ EditBlueprint(a, h) \/ TouchBlueprint(a)
         \/ DeleteBlueprint(a)
  PROVE  CleanedUp(b)'
<1>1. bp[b] \in Object /\ bp \in [Blueprints -> Object] /\ reg \in Pass
  BY OwnExport
<1>2. UNCHANGED <<supVars, cache, exports>>
  BY DEF CreateBlueprint, EditBlueprint, TouchBlueprint, DeleteBlueprint, exportVars,
         serverVars
<1>3. Shrinks(b)
  BY <1>2 DEF supVars, Shrinks
<1>4. reg'.pc = reg.pc /\ reg'.b = reg.b /\ reg'.exported = reg.exported
  <2>1. CASE Outdate(a)
    BY <1>1, <2>1 DEF Outdate, Pass
  <2>2. QED
    BY <2>1 DEF CreateBlueprint, EditBlueprint, TouchBlueprint, DeleteBlueprint
<1>5. CASE bp'[b] = bp[b]
  BY <1>3, <1>4, <1>5, ShrinkKeepsCleanedUp DEF Rests
<1>6. CASE a = b /\ CreateBlueprint(a, h)
  <2>1. bp'[b] = [Absent EXCEPT !.exists = TRUE, !.spec = h] /\ ~bp[b].exists
    BY <1>1, <1>6 DEF CreateBlueprint
  <2>2. ~bp'[b].fin /\ ~bp'[b].deleting /\ ~bp'[b].exported
    BY <2>1 DEF Absent
  <2>3. ~bp[b].fin /\ ~bp[b].deleting /\ ~bp[b].exported
    BY <2>1 DEF Held
  <2>4. Clean(b)' /\ ~At(b, WithdrawPoints)
    BY <1>2, <2>3 DEF CleanedUp, Clean, Held, supVars
  <2>5. ~At(b, WithdrawPoints)' /\ ~At(b, Withdrawn)' /\ ~At(b, Withdrawn \ {"purge"})'
        /\ ~At(b, {"abort", "unregister", "remfin"})' /\ ~At(b, {"remfin"})'
    BY <1>4, <2>4 DEF At, WithdrawPoints, Withdrawn
  <2>6. QED
    BY <2>2, <2>4, <2>5 DEF CleanedUp
<1>7. CASE a = b /\ EditBlueprint(a, h)
  <2>1. bp'[b] = [bp[b] EXCEPT !.spec = h]
    BY <1>1, <1>7 DEF EditBlueprint
  <2>2. /\ bp'[b].exported = bp[b].exported /\ bp'[b].deleting = bp[b].deleting
        /\ bp'[b].fin = bp[b].fin
    BY <1>1, <2>1 DEF Object
  <2>3. QED
    BY <1>3, <1>4, <2>2, ShrinkKeepsCleanedUp DEF Rests
<1>8. CASE a = b /\ DeleteBlueprint(a)
  <2>1. bp[b].exported /\ bp[b].fin
    BY <1>8 DEF DeleteBlueprint, Held
  <2>2. bp'[b] = [bp[b] EXCEPT !.deleting = TRUE]
    BY <1>1, <1>8, <2>1 DEF DeleteBlueprint
  <2>3. bp'[b].exported /\ bp'[b].fin
    BY <1>1, <2>1, <2>2 DEF Object
  <2>4. (At(b, WithdrawPoints)' <=> At(b, WithdrawPoints))
        /\ (At(b, Withdrawn)' <=> At(b, Withdrawn))
        /\ (At(b, Withdrawn \ {"purge"})' <=> At(b, Withdrawn \ {"purge"}))
        /\ (At(b, {"abort", "unregister", "remfin"})' <=> At(b, {"abort", "unregister", "remfin"}))
        /\ (At(b, {"remfin"})' <=> At(b, {"remfin"}))
    BY <1>4 DEF At
  <2>5. QED
    BY <1>2, <1>4, <2>3, <2>4 DEF CleanedUp, supVars
<1>9. QED
  BY <1>1, <1>5, <1>6, <1>7, <1>8
  DEF CreateBlueprint, EditBlueprint, TouchBlueprint, DeleteBlueprint, serverVars, exportVars

\* A pass begins.
LEMMA GetCleans ==
  ASSUME RegInv, NEW b \in Blueprints, Held(b), CleanedUp(b), NEW a \in Blueprints, Get(a)
  PROVE  CleanedUp(b)'
<1>1. reg'.b = a /\ reg'.exported = bp[a].exported /\ bp' = bp
      /\ UNCHANGED <<supVars, cache, exports>>
  BY DEF Get, serverVars, exportVars
<1>2. bp[b] \in Object
  BY OwnExport
<1>3. CASE a # b
  <2>1. Shrinks(b) /\ Rests(b)
    BY <1>1, <1>3 DEF supVars, Shrinks, Rests
  <2>2. QED
    BY <2>1, ShrinkKeepsCleanedUp
<1>4. CASE a = b
  <2>1. reg'.pc = CASE bp[b].deleting /\ bp[b].exported -> "delars"
                    [] bp[b].deleting /\ ~bp[b].exported -> "purge"
                    [] ~bp[b].deleting /\ bp[b].fin -> "build"
                    [] ~bp[b].deleting /\ ~bp[b].fin -> "addfin"
    BY <1>4 DEF Get
  <2>2. reg'.pc \in {"delars", "build", "addfin"}
        /\ (reg'.pc = "delars" => bp[b].exported)
    <3>1. CASE bp[b].deleting
      <4>1. bp[b].exported
        BY <3>1 DEF CleanedUp
      <4>2. QED
        BY <2>1, <3>1, <4>1
    <3>2. CASE ~bp[b].deleting /\ bp[b].fin
      BY <2>1, <3>2
    <3>3. CASE ~bp[b].deleting /\ ~bp[b].fin
      BY <2>1, <3>3
    <3>4. QED
      BY <3>1, <3>2, <3>3
  <2>3. ~At(b, Withdrawn)' /\ ~At(b, Withdrawn \ {"purge"})'
        /\ ~At(b, {"abort", "unregister", "remfin"})' /\ ~At(b, {"remfin"})'
    BY <2>2 DEF At, Withdrawn
  <2>4. At(b, WithdrawPoints)' => reg'.exported
    BY <1>1, <1>4, <2>2 DEF At, WithdrawPoints
  <2>5. QED
    BY <1>1, <2>3, <2>4 DEF CleanedUp, Clean, supVars
<1>5. QED
  BY <1>3, <1>4

\* The successful steps of a pass that publishes b.
LEMMA PublishCleans ==
  ASSUME RegInv, NEW b \in Blueprints, Held(b), CleanedUp(b), reg.b = b,
         \/ AddFinalizer \/ Build \/ ApplyARS \/ ResolveClaims \/ UpsertAPIExport
         \/ PublishSet \/ PublishStop \/ PublishCancel \/ PublishEnsure \/ UpdateStatus
  PROVE  CleanedUp(b)'
<1>1. bp[b] \in Object /\ bp \in [Blueprints -> Object] /\ reg \in Pass
  BY OwnExport
<1>2. CASE AddFinalizer
  <2>1. reg'.pc = "build" /\ reg'.b = b
    BY <1>1, <1>2, GotoMoves DEF AddFinalizer, Moved
  <2>2. bp'[b] = [bp[b] EXCEPT !.fin = TRUE]
    BY <1>1, <1>2 DEF AddFinalizer
  <2>3. /\ bp'[b].fin /\ bp'[b].deleting = bp[b].deleting
        /\ bp'[b].exported = bp[b].exported
    BY <1>1, <2>2 DEF Object
  <2>4. bp'[b].deleting => bp'[b].exported
    BY <2>3 DEF CleanedUp
  <2>5. QED
    BY <2>1, <2>3, <2>4, PublishKeepsCleanedUp DEF PublishPoints
<1>3. CASE UpdateStatus
  <2>1. reg'.pc = "idle" /\ At(b, Publishing)
    BY <1>3 DEF UpdateStatus, End, Idle, At, Publishing, PublishPoints
  <2>2. bp'[b] = [bp[b] EXCEPT !.exported = TRUE, !.observed = reg.hash, !.ready = TRUE]
    BY <1>1, <1>3 DEF UpdateStatus
  <2>3. bp'[b].exported /\ bp'[b].fin
    BY <1>1, <2>1, <2>2 DEF Object, Held
  <2>4. ~At(b, WithdrawPoints)' /\ ~At(b, Withdrawn)' /\ ~At(b, Withdrawn \ {"purge"})'
        /\ ~At(b, {"abort", "unregister", "remfin"})' /\ ~At(b, {"remfin"})'
    BY <2>1 DEF At, WithdrawPoints, Withdrawn
  <2>5. QED
    BY <2>3, <2>4 DEF CleanedUp
<1>4. CASE ~AddFinalizer /\ ~UpdateStatus
  <2>1. bp' = bp /\ At(b, Publishing)
    BY <1>4 DEF Build, ApplyARS, ResolveClaims, UpsertAPIExport, PublishSet, PublishStop,
                PublishCancel, PublishEnsure, serverVars, At, Publishing, PublishPoints
  <2>2. bp'[b].fin /\ (bp'[b].deleting => bp'[b].exported)
    BY <2>1 DEF Held, CleanedUp
  <2>3. reg'.pc \in PublishPoints /\ reg'.b = b
    <3>1. CASE ResolveClaims
      BY <1>1, <3>1 DEF ResolveClaims, Pass, PublishPoints
    <3>2. CASE UpsertAPIExport
      BY <1>1, <3>2 DEF UpsertAPIExport, Pass, PublishPoints
    <3>3. CASE ~ResolveClaims /\ ~UpsertAPIExport
      BY <1>1, <1>4, <3>3, GotoMoves
      DEF Build, ApplyARS, PublishSet, PublishStop, PublishCancel, PublishEnsure, Moved,
          PublishPoints
    <3>4. QED
      BY <3>1, <3>2, <3>3
  <2>4. QED
    BY <2>2, <2>3, PublishKeepsCleanedUp
<1>5. QED
  BY <1>2, <1>3, <1>4

\* The steps of a pass that withdraws b, each of which forgets one thing.
LEMMA WithdrawCleans ==
  ASSUME RegInv, NEW b \in Blueprints, Held(b), CleanedUp(b), reg.b = b, Withdraw
  PROVE  CleanedUp(b)'
<1>1. /\ bp[b] \in Object /\ bp \in [Blueprints -> Object] /\ reg \in Pass
      /\ Export = ExportOf[b] /\ ExportOf[b] \in Exports
  BY OwnExport DEF Export
<1>2. CASE RemoveFinalizer
  <2>1. /\ reg'.pc = "idle" /\ UNCHANGED <<supVars, cache, exports>>
        /\ At(b, {"remfin"}) /\ At(b, {"abort", "unregister", "remfin"})
        /\ At(b, Withdrawn) /\ At(b, Withdrawn \ {"purge"})
    BY <1>2 DEF RemoveFinalizer, End, Idle, exportVars, At, Withdrawn
  <2>2. Clean(b)'
    BY <2>1 DEF CleanedUp, Clean, supVars
  <2>3. bp'[b] = Absent
    BY <1>1, <1>2 DEF RemoveFinalizer
  <2>4. ~bp'[b].deleting
    BY <2>3, SMT DEF Absent
  <2>5. ~At(b, WithdrawPoints)' /\ ~At(b, Withdrawn)' /\ ~At(b, Withdrawn \ {"purge"})'
        /\ ~At(b, {"abort", "unregister", "remfin"})' /\ ~At(b, {"remfin"})'
    BY <2>1 DEF At, WithdrawPoints, Withdrawn
  <2>6. QED
    BY <2>2, <2>4, <2>5 DEF CleanedUp
<1>3. ASSUME ~RemoveFinalizer PROVE CleanedUp(b)'
  <2>1. bp' = bp /\ At(b, WithdrawPoints)
    BY <1>3 DEF Withdraw, DeleteARS, DeleteExport, Purge, WithdrawStop, WithdrawCancel,
                Unregister, serverVars, At, WithdrawPoints
  <2>2. bp'[b].fin /\ (bp'[b].deleting => bp'[b].exported) /\ reg.exported
    BY <2>1 DEF Held, CleanedUp
  <2>3. ASSUME NEW q, Goto(q) PROVE reg'.pc = q /\ reg'.b = b /\ reg'.exported
    <3>1. Moved(reg.pc, q)
      BY <1>1, <2>3, GotoMoves
    <3>2. reg'.pc = q /\ reg'.b = b /\ reg'.exported = reg.exported
      BY <3>1 DEF Moved
    <3>3. QED
      BY <2>2, <3>2
  <2>4. CASE DeleteARS
    <3>1. exports' = exports
      BY <2>4 DEF DeleteARS, exportVars
    <3>2. /\ reg'.pc = "delexport" \/ (reg'.pc = "purge" /\ exports[ExportOf[b]] = None)
          /\ reg'.b = b /\ reg'.exported
      <4>1. CASE exports[Export] = None
        <5>1. Goto("purge")
          BY <2>4, <4>1 DEF DeleteARS
        <5>2. QED
          BY <1>1, <2>3, <4>1, <5>1
      <4>2. CASE exports[Export] # None
        <5>1. Goto("delexport")
          BY <2>4, <4>2 DEF DeleteARS
        <5>2. reg'.pc = "delexport" /\ reg'.b = b /\ reg'.exported
          BY <2>3, <5>1
        <5>3. QED
          BY <5>2
      <4>3. QED
        BY <4>1, <4>2
    <3>3. ~At(b, Withdrawn \ {"purge"})'
          /\ ~At(b, {"abort", "unregister", "remfin"})' /\ ~At(b, {"remfin"})'
          /\ (At(b, Withdrawn)' => exports'[ExportOf[b]] = None)
      BY <3>1, <3>2 DEF At, Withdrawn
    <3>4. QED
      BY <2>2, <3>2, <3>3 DEF CleanedUp
  <2>5. CASE DeleteExport
    <3>1. exports'[ExportOf[b]] = None
      BY <1>1, <2>5, StoresTyped DEF DeleteExport
    <3>2. reg'.pc = "purge" /\ reg'.b = b /\ reg'.exported
      BY <2>3, <2>5 DEF DeleteExport
    <3>3. ~At(b, Withdrawn \ {"purge"})'
          /\ ~At(b, {"abort", "unregister", "remfin"})' /\ ~At(b, {"remfin"})'
      BY <3>2 DEF At, Withdrawn
    <3>4. QED
      BY <2>2, <3>1, <3>2, <3>3 DEF CleanedUp
  <2>6. CASE Purge
    <3>1. exports' = exports /\ cache'[b] = None /\ At(b, Withdrawn)
      BY <2>6, StoresTyped DEF Purge, serverVars, exportVars, At, Withdrawn
    <3>2. reg'.pc = "withdraw" /\ reg'.b = b /\ reg'.exported
      BY <2>2, <2>3, <2>6 DEF Purge
    <3>3. ~At(b, {"abort", "unregister", "remfin"})' /\ ~At(b, {"remfin"})'
      BY <3>2 DEF At
    <3>4. QED
      BY <2>2, <3>1, <3>2, <3>3 DEF CleanedUp
  <2>7. CASE WithdrawStop
    <3>1. /\ exports' = exports /\ cache' = cache /\ running'[ExportOf[b]] = None
          /\ At(b, Withdrawn) /\ At(b, Withdrawn \ {"purge"})
      BY <1>1, <2>7, StoresTyped
      DEF WithdrawStop, StopDelete, serverVars, exportVars, At, Withdrawn
    <3>2. reg'.pc \in {"unregister", "abort"} /\ reg'.b = b /\ reg'.exported
      BY <2>3, <2>7 DEF WithdrawStop
    <3>3. ~At(b, {"remfin"})'
      BY <3>2 DEF At
    <3>4. QED
      BY <2>2, <3>1, <3>2, <3>3 DEF CleanedUp
  <2>8. CASE WithdrawCancel
    <3>1. /\ exports' = exports /\ cache' = cache /\ running' = running
          /\ At(b, Withdrawn) /\ At(b, Withdrawn \ {"purge"})
          /\ At(b, {"abort", "unregister", "remfin"})
      BY <2>8 DEF WithdrawCancel, StopCancel, serverVars, exportVars, At, Withdrawn
    <3>2. reg'.pc = "unregister" /\ reg'.b = b /\ reg'.exported
      BY <2>3, <2>8 DEF WithdrawCancel
    <3>3. ~At(b, {"remfin"})'
      BY <3>2 DEF At
    <3>4. QED
      BY <2>2, <3>1, <3>2, <3>3 DEF CleanedUp
  <2>9. CASE Unregister
    <3>1. /\ exports' = exports /\ cache' = cache /\ running' = running
          /\ At(b, Withdrawn) /\ At(b, Withdrawn \ {"purge"})
          /\ At(b, {"abort", "unregister", "remfin"})
      BY <2>9 DEF Unregister, Delete, Set, serverVars, exportVars, At, Withdrawn
    <3>2. registry'[ExportOf[b]] = None
      BY <1>1, <2>9, StoresTyped DEF Unregister, Delete, Set
    <3>3. reg'.exported
      BY <2>3, <2>9 DEF Unregister
    <3>4. QED
      BY <2>2, <3>1, <3>2, <3>3 DEF CleanedUp
  <2>a. QED
    BY <1>3, <2>4, <2>5, <2>6, <2>7, <2>8, <2>9 DEF Withdraw
<1>4. QED
  BY <1>2, <1>3

\* Every blueprint cleans up.
CleanInv == \A b \in Blueprints : CleanedUp(b)

\* At first there is nothing to clean up.
LEMMA CleanInvInit == Init => CleanInv
<1> SUFFICES ASSUME Init, NEW b \in Blueprints PROVE CleanedUp(b)
  BY DEF CleanInv
<1>1. ~bp[b].deleting /\ reg.pc = "idle"
  BY DEF Init, Absent, Idle
<1>2. Clean(b)
  BY ExportAssumption DEF Init, SupInit, Clean
<1>3. QED
  BY <1>1, <1>2 DEF CleanedUp, At, WithdrawPoints, Withdrawn

\* Every step keeps CleanedUp, if deletions wait for the first complete publish.
LEMMA CleanInvStep ==
  ASSUME "early" \notin Env
  PROVE  RegInv /\ HeldInv /\ CleanInv /\ [Next]_vars => CleanInv'
<1> SUFFICES ASSUME RegInv, HeldInv, CleanInv, [Next]_vars, NEW b \in Blueprints
             PROVE  CleanedUp(b)'
  BY DEF CleanInv
<1>1. Held(b) /\ CleanedUp(b)
  BY DEF HeldInv, CleanInv
<1>2. CASE \/ AddFinalizer \/ Build \/ ApplyARS \/ ResolveClaims \/ UpsertAPIExport
           \/ PublishSet \/ PublishStop \/ PublishCancel \/ PublishEnsure \/ UpdateStatus
           \/ Withdraw \/ BuildRejected \/ AnswerLost
  BY <1>1, <1>2, OthersClean, PublishCleans, WithdrawCleans, LostCleans
<1>3. CASE \/ Conflict \/ Undone \/ BuildFails \/ ClaimsUnresolved \/ ClaimsPanic
           \/ Managers \/ Restart \/ UNCHANGED vars
           \/ \E gr \in Bindable : Rebind(gr)
  BY <1>1, <1>3, QuietCleans
<1>4. ASSUME NEW a \in Blueprints, Get(a) PROVE CleanedUp(b)'
  BY <1>1, <1>4, GetCleans
<1>5. ASSUME NEW a \in Blueprints, NEW h \in Graphs, CreateBlueprint(a, h) \/ EditBlueprint(a, h)
      PROVE  CleanedUp(b)'
  BY <1>1, <1>5, ProviderCleans
<1>6. ASSUME NEW a \in Blueprints, TouchBlueprint(a) \/ DeleteBlueprint(a)
      PROVE  CleanedUp(b)'
  <2>1. PICK h : h \in Graphs
    BY <1>6 DEF TouchBlueprint, DeleteBlueprint, RegInv, BpInv
  <2>2. QED
    BY <1>1, <1>6, <2>1, ProviderCleans
<1>7. QED
  BY <1>2, <1>3, <1>4, <1>5, <1>6 DEF Next, Publish, CallFails

\* If no blueprint is deleted before its first complete publish, a blueprint that is
\* gone has left neither an export nor a manager, a registry entry or a cached graph,
\* whatever failed, crashed or was retried on the way.
THEOREM WithdrawalIsClean ==
  ASSUME "early" \notin Env
  PROVE  Spec => []WithdrawnMeansClean
<1>1. HeldInv /\ CleanInv => WithdrawnMeansClean
  BY DEF HeldInv, CleanInv, Held, CleanedUp, Clean, WithdrawnMeansClean
<1>2. RegInv /\ HeldInv /\ CleanInv /\ [Next]_vars => CleanInv'
  BY CleanInvStep
<1>3. QED
  BY RegInvInit, RegInvStep, HeldInvInit, HeldInvStep, CleanInvInit, <1>1, <1>2, PTL DEF Spec
=============================================================================
