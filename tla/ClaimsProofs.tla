---------------------------- MODULE ClaimsProofs ----------------------------
(***************************************************************************)
(* The claims of an export cover what its manager runs and no more, and a  *)
(* resync restarts nothing, if no spec is reverted.                        *)
(*                                                                         *)
(* The claims of an export are always those of the schema it references,   *)
(* for they are applied together (Fits), and its manager runs the graph of *)
(* the registry but for the moment before Stop (Follows).  So a manager    *)
(* lacks a claim only while export and registry differ.                    *)
(***************************************************************************)
EXTENDS ServingProofs

USE Zenon, SMT
DEF StoreFinalizer, Compile, StoreARS, StoreExport, RemoveARS, RemoveExport, Report

Authorised(b, h) == Authorises(claims[ExportOf[b]], Compiled[h], InstanceOf[b])

Narrow(b, h) == AskNoMore(claims[ExportOf[b]], Compiled[h], InstanceOf[b])

\* What a pass knows of the claims it derives and of those it has applied.
ClaimsKnown(b) ==
  /\ At(b, {"export"}) =>
       /\ Authorises(reg.claims, Compiled[reg.hash], InstanceOf[b])
       /\ AskNoMore(reg.claims, Compiled[reg.hash], InstanceOf[b])
  /\ At(b, {"set", "stop", "cancel", "ensure", "status"}) => Narrow(b, reg.hash)
  /\ At(b, {"stop", "cancel"}) => reg.changed

\* A pass over an unchanged spec finds that spec registered and served.
Steady(b) ==
  Engaged(b) /\ ~reg.changed =>
    /\ registry[ExportOf[b]] \in {None, reg.hash}
    /\ \A g \in Gens : LiveFor(g, ExportOf[b]) => ServedBy(g, reg.hash, ExportOf[b])

\* The claims of the export cover the graph of the schema it references.
Fits(b) == exports[ExportOf[b]] # None => Authorised(b, exports[ExportOf[b]])

\* The entry of the export runs the graph of the registry, or is about to be stopped.
Follows(b) ==
  At(b, {"stop"}) \/
    \A g \in Gens : /\ running[ExportOf[b]] = g /\ LiveFor(g, ExportOf[b])
                    /\ gens[g].graph # None
      => gens[g].graph = registry[ExportOf[b]]

SettledNarrow(b) == Settled(b) => Narrow(b, bp[b].spec)

\* A manager that starts has no graph yet, and what a Stop holds is of its export.
StartsBlank == \A g \in Gens : gens[g].pc = "start" => gens[g].graph = None

StopsOwn == \A g \in stopping : gens[g].pc = "free" \/ gens[g].export = Export

ClaimInv(b) ==
  ClaimsKnown(b) /\ Steady(b) /\ Fits(b) /\ Follows(b) /\ SettledNarrow(b)

ClaimsInv ==
  /\ StartsBlank /\ StopsOwn
  /\ \A b \in Blueprints : ClaimInv(b)

\* A manager reads its graph when it starts, and not before.
LEMMA StartsBlankStep == RegInv /\ StartsBlank /\ [Next]_vars => StartsBlank'
<1> SUFFICES ASSUME RegInv, StartsBlank, [Next]_vars PROVE StartsBlank'
  OBVIOUS
<1>1. gens \in [Gens -> Gen]
  BY DEF RegInv, SupInv, SupTypeOK
<1>2. ASSUME NEW k \in Gens, NEW s, gens' = [gens EXCEPT ![k] = s],
             s.pc = "start" => s.graph = None
      PROVE  StartsBlank'
  BY <1>1, <1>2 DEF StartsBlank
<1>3. CASE gens' = gens
  BY <1>3 DEF StartsBlank
<1>4. ASSUME NEW e, Ensure(e) PROVE StartsBlank'
  <2>1. CASE UNCHANGED supVars
    BY <1>3, <2>1 DEF supVars
  <2>2. ASSUME NEW k \in Gens,
               gens' = [gens EXCEPT ![k] = [FreeGen EXCEPT !.pc = "start", !.export = e]]
        PROVE  StartsBlank'
    <3>1. [FreeGen EXCEPT !.pc = "start", !.export = e].graph = None
      BY DEF FreeGen
    <3>2. QED
      BY <1>2, <2>2, <3>1
  <2>3. QED
    BY <1>4, <2>1, <2>2 DEF Ensure
<1>5. ASSUME NEW k \in Gens,
             StartFn(k) \/ Serve(k) \/ ExitCancelled(k) \/ Forget(k) \/ Crash(k)
      PROVE  StartsBlank'
  <2>1. gens[k] \in Gen
    BY <1>1
  <2>2. CASE StartFn(k)
    <3> DEFINE sb == registry[gens[k].export]
               s == [gens[k] EXCEPT !.pc = IF sb = None THEN "returned" ELSE "wait",
                                    !.graph = sb]
    <3>1. gens' = [gens EXCEPT ![k] = s] /\ s.pc # "start"
      BY <1>1, <2>1, <2>2 DEF StartFn, Gen
    <3> HIDE DEF s
    <3>2. QED
      BY <1>2, <3>1
  <2>3. CASE Serve(k)
    <3>1. [gens[k] EXCEPT !.pc = "serving"].pc # "start"
      BY <2>1 DEF Gen
    <3>2. QED
      BY <1>1, <1>2, <2>3, <3>1 DEF Serve
  <2>4. CASE ExitCancelled(k) \/ Crash(k)
    <3>1. [gens[k] EXCEPT !.pc = "returned"].pc # "start"
      BY <2>1 DEF Gen
    <3>2. QED
      BY <1>1, <1>2, <2>4, <3>1 DEF ExitCancelled, Crash
  <2>5. CASE Forget(k)
    BY <1>2, <2>5 DEF Forget, FreeGen
  <2>6. QED
    BY <1>5, <2>2, <2>3, <2>4, <2>5
<1>6. ASSUME NEW k \in Gens, StopCancel(k) PROVE StartsBlank'
  <2>1. gens[k] \in Gen
    BY <1>1
  <2>2. [gens[k] EXCEPT !.cancelled = TRUE].pc = gens[k].pc
        /\ [gens[k] EXCEPT !.cancelled = TRUE].graph = gens[k].graph
    BY <2>1 DEF Gen
  <2>3. gens' = [gens EXCEPT ![k] = [gens[k] EXCEPT !.cancelled = TRUE]]
    BY <1>1, <1>6 DEF StopCancel
  <2>4. QED
    BY <1>2, <2>2, <2>3 DEF StartsBlank
<1>7. CASE Restart
  BY <1>7 DEF Restart, FreeGen, StartsBlank
<1>8. CASE Publish
  BY <1>3, <1>4, <1>6, <1>8
  DEF Publish, AddFinalizer, Build, ApplyARS, ResolveClaims, UpsertAPIExport, PublishSet,
      PublishStop, PublishCancel, PublishEnsure, UpdateStatus, BuildFails, BuildRejected,
      ClaimsUnresolved, ClaimsPanic, Abandon, Fail, Set, StopDelete, supVars
<1>9. CASE Withdraw
  BY <1>3, <1>6, <1>9
  DEF Withdraw, DeleteARS, DeleteExport, Purge, WithdrawStop, WithdrawCancel, Unregister,
      RemoveFinalizer, Delete, Set, StopDelete, supVars
<1>a. CASE Managers
  BY <1>5, <1>a DEF Managers
<1>b. CASE UNCHANGED supVars
  BY <1>3, <1>b DEF supVars
<1>c. QED
  BY <1>7, <1>8, <1>9, <1>a, <1>b
  DEF Next, Get, TouchBlueprint, DeleteBlueprint, CreateBlueprint, EditBlueprint, Rebind,
      Conflict, CallFails, Undone, AnswerLost, Abandon, Fail, vars

\* What Stop holds is the entry of the pass's own export.
LEMMA StopsOwnStep == RegInv /\ OneStop /\ StopsOwn /\ [Next]_vars => StopsOwn'
<1> SUFFICES ASSUME RegInv, OneStop, StopsOwn, [Next]_vars PROVE StopsOwn'
  OBVIOUS
<1>1. reg \in Pass /\ gens \in [Gens -> Gen] /\ stopping \in SUBSET Gens
  BY DEF RegInv, PassInv, SupInv, SupTypeOK
<1>2. ASSUME stopping' = {} PROVE StopsOwn'
  BY <1>2 DEF StopsOwn
<1>3. ASSUME stopping' = stopping, gens' = gens, reg'.b = reg.b PROVE StopsOwn'
  BY <1>3 DEF StopsOwn, Export
<1>4. ASSUME stopping' = stopping, reg.pc \notin {"cancel", "abort"} PROVE StopsOwn'
  BY <1>2, <1>4 DEF OneStop
<1>5. CASE PublishStop \/ WithdrawStop
  <2>1. stopping = {} /\ stopping' = {running[Export]} \ {None} /\ gens' = gens
        /\ reg.pc # "idle"
    BY <1>5 DEF PublishStop, WithdrawStop, StopDelete, OneStop
  <2>2. reg'.b = reg.b
    BY <1>1, <1>5, GotoMoves DEF PublishStop, WithdrawStop, Moved
  <2>3. Export \in Exports /\ Export' = Export
    BY <2>1, <2>2, ExportAssumption DEF RegInv, PassInv, Export
  <2>4. running[Export] # None => gens[running[Export]].export = Export
    BY <2>3 DEF RegInv, SupInv, EntryIsCurrent
  <2>5. QED
    BY <2>1, <2>3, <2>4 DEF StopsOwn
<1>6. CASE PublishCancel \/ WithdrawCancel
  <2>1. PICK g \in stopping : stopping' = stopping \ {g}
    BY <1>6 DEF PublishCancel, WithdrawCancel, StopCancel
  <2>2. stopping' = {}
    BY <2>1 DEF OneStop
  <2>3. QED
    BY <1>2, <2>2
<1>7. CASE Restart
  BY <1>2, <1>7 DEF Restart
<1>8. CASE Publish /\ ~PublishStop /\ ~PublishCancel
  BY <1>4, <1>8
  DEF Publish, AddFinalizer, Build, ApplyARS, ResolveClaims, UpsertAPIExport, PublishSet,
      PublishEnsure, UpdateStatus, BuildFails, BuildRejected, ClaimsUnresolved, ClaimsPanic,
      Abandon, Fail, Set, Ensure, supVars
<1>9. CASE Withdraw /\ ~WithdrawStop /\ ~WithdrawCancel
  BY <1>4, <1>9
  DEF Withdraw, DeleteARS, DeleteExport, Purge, Unregister, RemoveFinalizer, Delete, Set,
      supVars
<1>a. CASE Conflict \/ CallFails
  BY <1>4, <1>a DEF Conflict, CallFails, Undone, AnswerLost, Abandon, Fail, supVars
<1>b. CASE UNCHANGED vars \/ (\E gr \in Bindable : Rebind(gr))
  BY <1>3, <1>b DEF vars, supVars, Rebind
<1>c. ASSUME NEW a \in Blueprints, Get(a) PROVE StopsOwn'
  BY <1>4, <1>c DEF Get, supVars
<1>d. ASSUME NEW a \in Blueprints, TouchBlueprint(a) \/ DeleteBlueprint(a) PROVE StopsOwn'
  <2>1. reg'.b = reg.b
    BY <1>1, <1>d DEF TouchBlueprint, DeleteBlueprint, Outdate, Pass
  <2>2. QED
    BY <1>3, <1>d, <2>1 DEF TouchBlueprint, DeleteBlueprint, supVars
<1>e. ASSUME NEW a \in Blueprints, NEW h \in Graphs, CreateBlueprint(a, h) \/ EditBlueprint(a, h)
      PROVE  StopsOwn'
  <2>1. reg'.b = reg.b
    BY <1>1, <1>e DEF CreateBlueprint, EditBlueprint, Outdate, Pass
  <2>2. QED
    BY <1>3, <1>e, <2>1 DEF CreateBlueprint, EditBlueprint, supVars
<1>f. CASE Managers
  <2>1. stopping' = stopping /\ reg' = reg
    BY <1>f DEF Managers, StartFn, Serve, ExitCancelled, Forget, Crash
  <2>2. ASSUME NEW g \in Gens
        PROVE  gens'[g].pc = "free" \/ gens'[g] = gens[g]
               \/ (gens[g].pc # "free" /\ gens'[g].export = gens[g].export)
    <3>1. PICK k \in Gens : StartFn(k) \/ Serve(k) \/ ExitCancelled(k) \/ Forget(k) \/ Crash(k)
      BY <1>f DEF Managers
    <3>2. CASE g # k
      BY <1>1, <3>1, <3>2 DEF StartFn, Serve, ExitCancelled, Forget, Crash
    <3>3. CASE g = k /\ Forget(k)
      BY <1>1, <3>3 DEF Forget, FreeGen
    <3>4. CASE g = k /\ StartFn(k)
      BY <1>1, <3>4 DEF StartFn, Gen
    <3>5. CASE g = k /\ (Serve(k) \/ ExitCancelled(k) \/ Crash(k))
      BY <1>1, <3>5 DEF Serve, ExitCancelled, Crash, Gen
    <3>6. QED
      BY <3>1, <3>2, <3>3, <3>4, <3>5
  <2>3. QED
    BY <1>1, <2>1, <2>2 DEF StopsOwn, Export
<1>g. QED
  BY <1>5, <1>6, <1>7, <1>8, <1>9, <1>a, <1>b, <1>c, <1>d, <1>e, <1>f DEF Next

\* A step that leaves b's export alone, and the pass over b where it is, or ends a
\* pass that is not about to stop the manager.
Kept(b) ==
  /\ exports'[ExportOf[b]] = exports[ExportOf[b]]
  /\ claims'[ExportOf[b]] = claims[ExportOf[b]]
  /\ \/ (reg'.pc = "idle" \/ reg'.b # b) /\ ~At(b, {"stop"})
     \/ /\ reg'.pc = reg.pc /\ reg'.b = reg.b /\ reg'.hash = reg.hash
        /\ reg'.claims = reg.claims /\ (reg.stale => reg'.stale)
        /\ (reg'.changed <=> reg.changed)

\* Whatever is settled after the step was settled before it, with the same spec.
SettledBefore(b) == Settled(b)' => Settled(b) /\ bp'[b].spec = bp[b].spec

\* A manager that stays goes on following the registry.
LEMMA SameKeepsFollows ==
  ASSUME NEW b, ~At(b, {"stop"}), Follows(b), SameManagers(ExportOf[b])
  PROVE  Follows(b)'
<1> DEFINE e == ExportOf[b]
<1>1. ASSUME NEW g \in Gens, running'[e] = g, LiveFor(g, e)', gens'[g].graph # None
      PROVE  gens'[g].graph = registry'[e]
  <2>1. /\ LiveFor(g, e) /\ running[e] = g /\ registry'[e] = registry[e]
        /\ gens'[g].graph = gens[g].graph \/ gens'[g].graph = registry[e]
    BY <1>1, NoneAssumption DEF SameManagers
  <2>2. QED
    BY <1>1, <2>1 DEF Follows
<1>2. QED
  BY <1>1 DEF Follows

\* An export without an entry has nothing to follow.
LEMMA NoEntryFollows ==
  ASSUME NEW b, running'[ExportOf[b]] = None PROVE Follows(b)'
BY NoneAssumption DEF Follows

\* Claims that stay fit a schema that stays.
LEMMA SameKeepsFits ==
  ASSUME NEW b, Fits(b), exports'[ExportOf[b]] = exports[ExportOf[b]],
         claims'[ExportOf[b]] = claims[ExportOf[b]]
  PROVE  Fits(b)'
BY DEF Fits, Authorised

\* A pass that carries on for a graph that is served still does.
LEMMA SameKeepsSteady ==
  ASSUME NEW b, Steady(b), SameManagers(ExportOf[b]),
         Engaged(b)' => Engaged(b) /\ reg'.hash = reg.hash /\ (reg.changed => reg'.changed)
  PROVE  Steady(b)'
<1> DEFINE e == ExportOf[b]
<1> SUFFICES ASSUME Engaged(b)', ~reg'.changed
             PROVE  /\ registry'[e] \in {None, reg'.hash}
                    /\ \A g \in Gens : LiveFor(g, e)' => ServedBy(g, reg.hash, e)'
  BY DEF Steady
<1>1. Engaged(b) /\ reg'.hash = reg.hash /\ ~reg.changed
  OBVIOUS
<1>2. /\ registry[e] \in {None, reg.hash}
      /\ \A g \in Gens : LiveFor(g, e) => ServedBy(g, reg.hash, e)
  BY <1>1 DEF Steady
<1>3. \A g \in Gens : LiveFor(g, e)' => ServedBy(g, reg.hash, e)'
  BY <1>2, SameKeepsServedBy, SMT
<1>4. QED
  BY <1>1, <1>2, <1>3 DEF SameManagers

\* A step that does not concern b keeps what is known of its claims.
LEMMA SameKeepsClaimInv ==
  ASSUME NEW b, ClaimInv(b), SameManagers(ExportOf[b]), Kept(b), SettledBefore(b)
  PROVE  ClaimInv(b)'
<1> DEFINE e == ExportOf[b]
<1>0. ClaimsKnown(b) /\ Steady(b) /\ Fits(b) /\ Follows(b) /\ SettledNarrow(b)
  BY DEF ClaimInv
<1>1. exports'[e] = exports[e] /\ claims'[e] = claims[e]
  BY DEF Kept
<1>2. SettledNarrow(b)' /\ Fits(b)'
  BY <1>0, <1>1, SameKeepsFits DEF SettledNarrow, SettledBefore, Narrow
<1>3. CASE (reg'.pc = "idle" \/ reg'.b # b) /\ ~At(b, {"stop"})
  <2>1. /\ ~Engaged(b)' /\ ~At(b, {"export"})'
        /\ ~At(b, {"set", "stop", "cancel", "ensure", "status"})'
        /\ ~At(b, {"stop", "cancel"})'
    BY <1>3 DEF Engaged, At, Publishing, PublishPoints
  <2>2. ClaimsKnown(b)' /\ Steady(b)'
    BY <2>1 DEF ClaimsKnown, Steady
  <2>3. Follows(b)'
    BY <1>0, <1>3, SameKeepsFollows
  <2>4. QED
    BY <1>2, <2>2, <2>3 DEF ClaimInv
<1>4. CASE /\ reg'.pc = reg.pc /\ reg'.b = reg.b /\ reg'.hash = reg.hash
           /\ reg'.claims = reg.claims /\ (reg.stale => reg'.stale)
           /\ (reg'.changed <=> reg.changed)
  <2>1. /\ At(b, {"export"})' => At(b, {"export"})
        /\ At(b, {"set", "stop", "cancel", "ensure", "status"})' =>
             At(b, {"set", "stop", "cancel", "ensure", "status"})
        /\ At(b, {"stop", "cancel"})' => At(b, {"stop", "cancel"})
        /\ At(b, {"stop"}) => At(b, {"stop"})'
    BY <1>4 DEF At
  <2>2. Narrow(b, reg.hash) => Narrow(b, reg.hash)'
    BY <1>1, <1>4 DEF Narrow
  <2>3. ClaimsKnown(b)'
    BY <1>0, <1>4, <2>1, <2>2 DEF ClaimsKnown
  <2>4. Engaged(b)' => Engaged(b)
    BY <1>4 DEF Engaged, At
  <2>5. Steady(b)'
    BY <1>0, <1>4, <2>4, SameKeepsSteady
  <2>6. Follows(b)'
    <3>1. CASE At(b, {"stop"})
      BY <2>1, <3>1 DEF Follows
    <3>2. CASE ~At(b, {"stop"})
      BY <1>0, <3>2, SameKeepsFollows
    <3>3. QED
      BY <3>1, <3>2
  <2>7. QED
    BY <1>2, <2>3, <2>5, <2>6 DEF ClaimInv
<1>5. QED
  BY <1>3, <1>4 DEF Kept

\* Steps that end a pass or have nothing to do with one; OnPublished does not fail.
LEMMA QuietKeepsClaimInv ==
  ASSUME RegInv, NEW b \in Blueprints, ClaimInv(b),
         \/ Conflict \/ Undone \/ BuildFails \/ BuildRejected \/ ClaimsUnresolved
         \/ ClaimsPanic \/ Managers \/ Restart \/ UNCHANGED vars
         \/ \E gr \in Bindable : Rebind(gr)
  PROVE  ClaimInv(b)'
<1> DEFINE e == ExportOf[b]
<1>1. Quiet(b)
  BY QuietSteps
<1>2. bp[b] \in Object /\ e \in Exports
  BY OwnExport
<1>3. claims' = claims /\ exports' = exports
  BY DEF Conflict, Undone, BuildFails, BuildRejected, ClaimsUnresolved, ClaimsPanic, Managers,
         Restart, Rebind, vars, Abandon, Fail, serverVars, exportVars
<1>4. SettledBefore(b)
  <2>1. SameObject(b)
    BY <1>1, <1>2 DEF Quiet, Object, SameObject
  <2>2. QED
    BY <2>1 DEF SameObject, SettledBefore, Settled
<1>5. CASE Restart
  <2>1. reg'.pc = "idle" /\ running'[e] = None
    BY <1>2, <1>5 DEF Restart, End, Idle
  <2>2. /\ ~Engaged(b)' /\ ~At(b, {"export"})'
        /\ ~At(b, {"set", "stop", "cancel", "ensure", "status"})'
        /\ ~At(b, {"stop", "cancel"})'
    BY <2>1 DEF Engaged, At, Publishing, PublishPoints
  <2>3. ClaimsKnown(b)' /\ Steady(b)' /\ Follows(b)'
    BY <2>1, <2>2, NoEntryFollows DEF ClaimsKnown, Steady
  <2>4. SettledNarrow(b)' /\ Fits(b)'
    BY <1>3, <1>4, SameKeepsFits DEF ClaimInv, SettledNarrow, SettledBefore, Narrow
  <2>5. QED
    BY <2>3, <2>4 DEF ClaimInv
<1>6. CASE ~Restart
  <2>1. SameManagers(e)
    <3>1. CASE UNCHANGED supVars
      BY <3>1, SameSupervisor
    <3>2. CASE Managers
      BY <1>2, <3>2, ManagersSame
    <3>3. QED
      BY <1>6, <3>1, <3>2
      DEF Conflict, Undone, BuildFails, BuildRejected, ClaimsUnresolved, ClaimsPanic,
          Abandon, Fail, vars, Rebind
  <2>2. CASE reg' = reg
    BY <1>3, <1>4, <2>1, <2>2, SameKeepsClaimInv DEF Kept
  <2>3. CASE reg' = Idle
    <3>1. CASE reg' = reg
      BY <2>2, <3>1
    <3>2. CASE \/ Conflict \/ Undone \/ BuildFails \/ BuildRejected \/ ClaimsUnresolved
               \/ ClaimsPanic
      <4>1. ~At(b, {"stop"})
        BY <3>2 DEF Conflict, Undone, BuildFails, BuildRejected, ClaimsUnresolved,
                    ClaimsPanic, At
      <4>2. reg'.pc = "idle"
        BY <2>3 DEF Idle
      <4>3. QED
        BY <1>3, <1>4, <2>1, <4>1, <4>2, SameKeepsClaimInv DEF Kept
    <3>3. QED
      BY <1>6, <3>1, <3>2 DEF Managers, vars, Rebind
  <2>4. QED
    BY <1>1, <2>2, <2>3 DEF Quiet
<1>7. QED
  BY <1>5, <1>6

\* A pass over another blueprint.
LEMMA OthersKeepClaimInv ==
  ASSUME RegInv, NEW b \in Blueprints, ClaimInv(b), reg.b # b,
         \/ AddFinalizer \/ Build \/ ApplyARS \/ ResolveClaims \/ UpsertAPIExport
         \/ PublishSet \/ PublishStop \/ PublishCancel \/ PublishEnsure \/ UpdateStatus
         \/ Withdraw \/ AnswerLost
  PROVE  ClaimInv(b)'
<1> DEFINE e == ExportOf[b]
<1>1. Aside(b)
  BY OthersStepAside
<1>2. SettledBefore(b)
  BY <1>1 DEF Aside, SettledBefore, Settled
<1>3. Export # e /\ Export \in Exports /\ e \in Exports
  <2>1. reg.pc # "idle"
    BY DEF AddFinalizer, Build, ApplyARS, ResolveClaims, UpsertAPIExport, PublishSet,
           PublishStop, PublishCancel, PublishEnsure, UpdateStatus, Withdraw, DeleteARS,
           DeleteExport, Purge, WithdrawStop, WithdrawCancel, Unregister, RemoveFinalizer,
           AnswerLost
  <2>2. QED
    BY <2>1, OwnExport
<1>4. SameManagers(e)
  <2>1. CASE UNCHANGED supVars
    BY <2>1, SameSupervisor
  <2>2. CASE PublishSet \/ Unregister \/ PublishEnsure
    BY <1>3, <2>2, OtherExportSame DEF PublishSet, Unregister, Delete, PublishEnsure
  <2>3. CASE PublishStop \/ WithdrawStop \/ PublishCancel \/ WithdrawCancel
    BY <1>3, <2>3, StopSame DEF PublishStop, WithdrawStop, PublishCancel, WithdrawCancel
  <2>4. QED
    BY <2>1, <2>2, <2>3
    DEF AddFinalizer, Build, ApplyARS, ResolveClaims, UpsertAPIExport, UpdateStatus,
        Withdraw, DeleteARS, DeleteExport, Purge, RemoveFinalizer, AnswerLost
<1>5. claims'[e] = claims[e]
  <2>1. claims \in [Exports -> ClaimList]
    BY DEF RegInv, StoreInv
  <2>2. CASE UpsertAPIExport \/ DeleteExport \/ AnswerLost
    BY <1>3, <2>1, <2>2 DEF UpsertAPIExport, DeleteExport, AnswerLost, exportVars
  <2>3. CASE ~UpsertAPIExport /\ ~DeleteExport /\ ~AnswerLost
    BY <2>3 DEF AddFinalizer, Build, ApplyARS, ResolveClaims, PublishSet,
           PublishStop, PublishCancel, PublishEnsure, UpdateStatus, Withdraw, DeleteARS,
           Purge, WithdrawStop, WithdrawCancel, Unregister, RemoveFinalizer, serverVars,
           exportVars
  <2>4. QED
    BY <2>2, <2>3
<1>6. Kept(b)
  <2>1. ~At(b, {"stop"}) /\ (reg'.pc = "idle" \/ reg'.b # b)
    BY <1>1 DEF Aside, At
  <2>2. QED
    BY <1>1, <1>5, <2>1 DEF Kept, Aside
<1>7. QED
  BY <1>2, <1>4, <1>6, SameKeepsClaimInv

\* The provider's writes; a spec is only replaced by a newer one.
LEMMA ProviderKeepsClaimInv ==
  ASSUME RegInv, NEW b \in Blueprints, SpecInv(b), ClaimInv(b), "revert" \notin Env,
         NEW a \in Blueprints, NEW h \in Graphs,
         CreateBlueprint(a, h) \/ EditBlueprint(a, h) \/ TouchBlueprint(a)
         \/ DeleteBlueprint(a)
  PROVE  ClaimInv(b)'
<1>1. bp[b] \in Object /\ bp \in [Blueprints -> Object] /\ reg \in Pass
  BY OwnExport
<1>2. SameManagers(ExportOf[b])
  BY SameSupervisor DEF CreateBlueprint, EditBlueprint, TouchBlueprint, DeleteBlueprint
<1>3. Kept(b)
  <2>1. claims' = claims /\ exports' = exports
    BY DEF CreateBlueprint, EditBlueprint, TouchBlueprint, DeleteBlueprint, serverVars,
           exportVars
  <2>2. CASE UNCHANGED reg
    BY <2>1, <2>2 DEF Kept
  <2>3. CASE Outdate(a)
    <3>1. /\ reg'.pc = reg.pc /\ reg'.b = reg.b /\ reg'.hash = reg.hash
          /\ reg'.claims = reg.claims /\ reg'.changed = reg.changed
      BY <1>1, <2>3 DEF Outdate, Pass
    <3>2. reg'.stale = (reg.stale \/ reg.b = a)
      BY <1>1, <2>3 DEF Outdate, Pass
    <3>3. (reg.stale => reg'.stale) /\ (reg'.changed <=> reg.changed)
      BY <3>1, <3>2
    <3>4. QED
      BY <2>1, <3>1, <3>3 DEF Kept
  <2>4. QED
    BY <2>2, <2>3 DEF CreateBlueprint, EditBlueprint, TouchBlueprint, DeleteBlueprint
<1>4. SettledBefore(b)
  <2>1. CASE bp'[b] = bp[b]
    BY <2>1 DEF SettledBefore, Settled
  <2>2. CASE a = b /\ CreateBlueprint(a, h)
    <3>1. bp'[b] = [Absent EXCEPT !.exists = TRUE, !.spec = h]
      BY <1>1, <2>2 DEF CreateBlueprint
    <3>2. bp'[b].observed = None /\ bp'[b].spec = h /\ h # None
      BY <3>1, NoneAssumption DEF Absent
    <3>3. QED
      BY <3>2 DEF SettledBefore, Settled
  <2>3. CASE a = b /\ EditBlueprint(a, h)
    <3>1. bp'[b] = [bp[b] EXCEPT !.spec = h] /\ h > bp[b].spec /\ bp[b].exists
      BY <1>1, <2>3 DEF EditBlueprint
    <3>2. bp'[b].observed = bp[b].observed /\ bp'[b].spec = h
      <4>1. bp'[b] = [bp[b] EXCEPT !.spec = h]
        BY <3>1
      <4>2. QED
        BY <1>1, <4>1 DEF Object
    <3>3. /\ bp[b].spec \in Nat /\ h \in Nat /\ bp[b].observed \in Nat \cup {None}
          /\ h # None
      BY <1>1, <3>1, GraphsAssumption, NoneAssumption DEF RegInv, BpInv, Object, Hash
    <3>4. bp'[b].observed # bp'[b].spec
      BY <3>1, <3>2, <3>3, SMT DEF SpecInv, Ordered
    <3>5. QED
      BY <3>4 DEF SettledBefore, Settled
  <2>4. CASE a = b /\ DeleteBlueprint(a)
    <3>1. bp'[b] = Absent \/ bp'[b] = [bp[b] EXCEPT !.deleting = TRUE]
      BY <1>1, <2>4 DEF DeleteBlueprint
    <3>2. ~bp'[b].exists \/ bp'[b].deleting
      BY <1>1, <3>1, SMT DEF Absent, Object
    <3>3. QED
      BY <3>2 DEF SettledBefore, Settled
  <2>5. QED
    BY <1>1, <2>1, <2>2, <2>3, <2>4
    DEF CreateBlueprint, EditBlueprint, TouchBlueprint, DeleteBlueprint, serverVars
<1>5. QED
  BY <1>2, <1>3, <1>4, SameKeepsClaimInv

\* Get finds a settled blueprint served, and takes it for unchanged.
LEMMA GetKeepsClaimInv ==
  ASSUME RegInv, NEW b \in Blueprints, SpecInv(b), ClaimInv(b), NEW a \in Blueprints, Get(a)
  PROVE  ClaimInv(b)'
<1> DEFINE e == ExportOf[b]
<1>1. /\ reg'.b = a /\ reg'.hash = bp[a].spec
      /\ reg'.changed = (bp[a].observed # bp[a].spec)
      /\ bp[a].exists /\ bp' = bp /\ claims' = claims /\ exports' = exports
      /\ UNCHANGED supVars
  BY DEF Get, serverVars, exportVars
<1>2. SameManagers(e) /\ SettledBefore(b) /\ ~At(b, {"stop"})
  BY <1>1, SameSupervisor DEF SettledBefore, Settled, At, Get
<1>3. CASE a # b
  <2>1. Kept(b)
    BY <1>1, <1>2, <1>3 DEF Kept
  <2>2. QED
    BY <1>2, <2>1, SameKeepsClaimInv
<1>4. CASE a = b
  <2>1. reg'.pc = CASE bp[b].deleting /\ bp[b].exported -> "delars"
                    [] bp[b].deleting /\ ~bp[b].exported -> "purge"
                    [] ~bp[b].deleting /\ bp[b].fin -> "build"
                    [] ~bp[b].deleting /\ ~bp[b].fin -> "addfin"
    BY <1>4 DEF Get
  <2>2. /\ reg'.pc \in {"delars", "purge", "build", "addfin"}
        /\ reg'.pc \in {"build", "addfin"} => ~bp[b].deleting
    <3>1. CASE bp[b].deleting /\ bp[b].exported
      BY <2>1, <3>1
    <3>2. CASE bp[b].deleting /\ ~bp[b].exported
      BY <2>1, <3>2
    <3>3. CASE ~bp[b].deleting /\ bp[b].fin
      BY <2>1, <3>3
    <3>4. CASE ~bp[b].deleting /\ ~bp[b].fin
      BY <2>1, <3>4
    <3>5. QED
      BY <3>1, <3>2, <3>3, <3>4
  <2>4. ClaimsKnown(b)'
    BY <2>2 DEF ClaimsKnown, At
  <2>5. Fits(b)' /\ Follows(b)' /\ SettledNarrow(b)'
    BY <1>1, <1>2, SameKeepsFits, SameKeepsFollows
    DEF ClaimInv, SettledNarrow, SettledBefore, Narrow
  <2>6. Steady(b)'
    <3> SUFFICES ASSUME Engaged(b)', ~reg'.changed
                 PROVE  /\ registry'[e] \in {None, reg'.hash}
                        /\ \A g \in Gens : LiveFor(g, e)' => ServedBy(g, bp[b].spec, e)'
      BY <1>1, <1>4 DEF Steady
    <3>1. ~bp[b].deleting
      BY <2>2 DEF Engaged, At, Publishing, PublishPoints
    <3>2. bp[b].observed = bp[b].spec
      BY <1>1, <1>4
    <3>3. Settled(b)
      BY <1>1, <1>4, <3>1, <3>2 DEF Settled
    <3>4. /\ registry[e] \in {None, bp[b].spec}
          /\ \A g \in Gens : LiveFor(g, e) => ServedBy(g, bp[b].spec, e)
      BY <3>3 DEF SpecInv, Fresh
    <3>5. \A g \in Gens : LiveFor(g, e)' => ServedBy(g, bp[b].spec, e)'
      BY <1>1, <1>2, <3>4, SameKeepsServedBy, SMT
    <3>6. QED
      BY <1>1, <1>4, <3>4, <3>5 DEF supVars
  <2>7. QED
    BY <2>4, <2>5, <2>6 DEF ClaimInv
<1>5. QED
  BY <1>3, <1>4

\* The schema and the claims that belong to it are applied together.
LEMMA ExportKeepsFits ==
  ASSUME RegInv, NEW b \in Blueprints, SpecInv(b), ClaimInv(b), reg.b = b, StoreExport,
         SettledBefore(b)
  PROVE  Fits(b)' /\ SettledNarrow(b)'
         /\ AskNoMore(claims'[ExportOf[b]], Compiled[reg.hash], InstanceOf[b])
<1> DEFINE e == ExportOf[b]
<1>1. /\ e \in Exports /\ Export = e /\ claims \in [Exports -> ClaimList]
      /\ exports \in [Exports -> Hash]
  BY OwnExport DEF Export, RegInv, StoreInv
<1>2. exports'[e] = reg.hash /\ claims'[e] = reg.claims
  BY <1>1
<1>3. /\ Authorises(reg.claims, Compiled[reg.hash], InstanceOf[b])
      /\ AskNoMore(reg.claims, Compiled[reg.hash], InstanceOf[b])
      /\ Engaged(b)
  BY DEF ClaimInv, ClaimsKnown, At, Engaged, Publishing, PublishPoints
<1>4. Fits(b)'
  BY <1>2, <1>3 DEF Fits, Authorised
<1>5. SettledNarrow(b)'
  <2> SUFFICES ASSUME Settled(b)' PROVE Narrow(b, bp[b].spec)'
    BY DEF SettledNarrow
  <2>1. Settled(b) /\ bp'[b].spec = bp[b].spec
    BY DEF SettledBefore
  <2>2. reg.hash = bp[b].spec
    BY <1>3, <2>1, SettledPass DEF SpecInv
  <2>3. QED
    BY <1>2, <1>3, <2>1, <2>2 DEF Narrow
<1>6. QED
  BY <1>2, <1>3, <1>4, <1>5

\* The claims that a pass derives are those its graph needs, and Update applies them.
LEMMA PrepareKeepsClaimInv ==
  ASSUME RegInv, NEW b \in Blueprints, SpecInv(b), ClaimInv(b), reg.b = b,
         AddFinalizer \/ Build \/ ApplyARS \/ ResolveClaims \/ UpsertAPIExport
  PROVE  ClaimInv(b)'
<1> DEFINE e == ExportOf[b]
<1>1. /\ bp[b] \in Object /\ bp \in [Blueprints -> Object] /\ reg \in Pass
      /\ e \in Exports /\ Export = e /\ claims \in [Exports -> ClaimList]
      /\ exports \in [Exports -> Hash]
  BY OwnExport DEF Export, RegInv, StoreInv
<1>2. UNCHANGED supVars /\ Engaged(b) /\ ~At(b, {"stop"}) /\ reg.pc # "idle"
  BY DEF AddFinalizer, Build, ApplyARS, ResolveClaims, UpsertAPIExport, Engaged, At,
         Publishing, PublishPoints
<1>3. SettledBefore(b)
  <2>1. CASE AddFinalizer
    <3>1. bp'[b] = [bp[b] EXCEPT !.fin = TRUE]
      BY <1>1, <2>1 DEF AddFinalizer
    <3>2. SameObject(b)
      BY <1>1, <3>1 DEF SameObject, Object
    <3>3. QED
      BY <3>2 DEF SettledBefore, Settled, SameObject
  <2>2. CASE bp' = bp
    BY <2>2 DEF SettledBefore, Settled
  <2>3. QED
    BY <2>1, <2>2 DEF Build, ApplyARS, ResolveClaims, UpsertAPIExport, serverVars
<1>4. Carries
  BY <1>1, PassCarries DEF AddFinalizer, Build, ApplyARS
<1>5. reg.changed => reg'.changed
  BY <1>4 DEF Carries
<1>6. SameManagers(e)
  BY <1>2, SameSupervisor
<1>7. Steady(b)'
  BY <1>2, <1>4, <1>5, <1>6, SameKeepsSteady DEF ClaimInv, Carries
<1>c. Follows(b)'
  BY <1>2, <1>6, SameKeepsFollows DEF ClaimInv
<1>8. CASE AddFinalizer \/ Build \/ ApplyARS
  <2>1. reg'.pc \in {"build", "ars", "claims"}
    BY <1>1, <1>8, GotoMoves DEF AddFinalizer, Build, ApplyARS, Moved
  <2>2. ClaimsKnown(b)'
    BY <2>1 DEF ClaimsKnown, At
  <2>3. claims' = claims /\ exports' = exports
    BY <1>8 DEF AddFinalizer, Build, ApplyARS, serverVars, exportVars
  <2>4. Fits(b)' /\ SettledNarrow(b)'
    BY <1>3, <2>3, SameKeepsFits DEF ClaimInv, SettledNarrow, SettledBefore, Narrow
  <2>5. QED
    BY <1>7, <1>c, <2>2, <2>4 DEF ClaimInv
<1>9. CASE ResolveClaims
  <2>1. /\ reg'.pc = "export" /\ reg'.claims = DerivedClaims /\ claims' = claims
        /\ exports' = exports
    BY <1>1, <1>9 DEF ResolveClaims, Pass, serverVars, exportVars
  <2>2. Compiled[reg.hash] \in Served
    BY <1>2, CompiledAssumption DEF RegInv, PassInv
  <2>3. /\ Authorises(DerivedClaims, Compiled[reg.hash], InstanceOf[b])
        /\ AskNoMore(DerivedClaims, Compiled[reg.hash], InstanceOf[b])
    BY <1>9, <2>2, DerivedClaimsAuthorise, DerivedClaimsAskNoMore DEF DerivedClaims, ResolveClaims
  <2>4. /\ Authorises(reg'.claims, Compiled[reg'.hash], InstanceOf[b])
        /\ AskNoMore(reg'.claims, Compiled[reg'.hash], InstanceOf[b])
    BY <1>4, <2>1, <2>3 DEF Carries
  <2>5. ClaimsKnown(b)'
    BY <2>1, <2>4 DEF ClaimsKnown, At
  <2>6. Fits(b)' /\ SettledNarrow(b)'
    BY <1>3, <2>1, SameKeepsFits DEF ClaimInv, SettledNarrow, SettledBefore, Narrow
  <2>7. QED
    BY <1>7, <1>c, <2>5, <2>6 DEF ClaimInv
<1>a. CASE UpsertAPIExport
  <2>1. reg'.pc = "set" /\ StoreExport
    BY <1>1, <1>a DEF UpsertAPIExport, Pass
  <2>2. /\ Fits(b)' /\ SettledNarrow(b)'
        /\ AskNoMore(claims'[e], Compiled[reg.hash], InstanceOf[b])
    BY <1>3, <2>1, ExportKeepsFits
  <2>3. ClaimsKnown(b)'
    BY <1>4, <2>1, <2>2 DEF ClaimsKnown, At, Narrow, Carries
  <2>4. QED
    BY <1>7, <1>c, <2>2, <2>3 DEF ClaimInv
<1>b. QED
  BY <1>8, <1>9, <1>a

\* OnPublished: Set registers the graph whose claims are applied, and goes straight to
\* Ensure only for a graph that was served already.
LEMMA SetKeepsClaimInv ==
  ASSUME RegInv, StartsBlank, NEW b \in Blueprints, ClaimInv(b), reg.b = b, PublishSet
  PROVE  ClaimInv(b)'
<1> DEFINE e == ExportOf[b]
<1>1. reg \in Pass /\ e \in Exports /\ Export = e
  BY OwnExport DEF Export
<1>2. /\ registry'[e] = reg.hash /\ gens' = gens /\ bp' = bp /\ claims' = claims
      /\ exports' = exports /\ reg.pc = "set"
  BY <1>1, StoresTyped DEF PublishSet, Set, serverVars, exportVars
<1>3. Carries
  BY <1>1, PassCarries DEF PublishSet
<1>4. Engaged(b) /\ Narrow(b, reg.hash)
  BY <1>2 DEF ClaimInv, ClaimsKnown, At, Engaged, Publishing, PublishPoints
<1>5. Narrow(b, reg.hash)'
  BY <1>2, <1>3, <1>4 DEF Narrow, Carries
<1>6. SettledNarrow(b)' /\ Fits(b)'
  BY <1>2, SameKeepsFits DEF ClaimInv, SettledNarrow, Settled, Narrow
<1>7. ASSUME ~reg.changed, NEW g \in Gens, LiveFor(g, e)' PROVE ServedBy(g, reg.hash, e)'
  <2>1. LiveFor(g, e)
    BY <1>2, <1>7 DEF LiveFor, Live
  <2>2. ServedBy(g, reg.hash, e)
    BY <1>4, <1>7, <2>1 DEF ClaimInv, Steady
  <2>3. QED
    BY <1>2, <1>3, <2>2 DEF ServedBy, Carries
<1>8. reg'.changed <=> reg.changed
  BY <1>3 DEF Carries
<1>9. Steady(b)'
  BY <1>2, <1>3, <1>7, <1>8 DEF Steady, Carries
<1>a. CASE reg.changed
  <2>1. Goto("stop")
    BY <1>a DEF PublishSet
  <2>2. reg'.pc = "stop" /\ reg'.b = b
    BY <1>1, <2>1, GotoMoves DEF Moved
  <2>3. ClaimsKnown(b)' /\ Follows(b)'
    BY <1>5, <1>8, <1>a, <2>2 DEF ClaimsKnown, Follows, At
  <2>4. QED
    BY <1>6, <1>9, <2>3 DEF ClaimInv
<1>b. CASE ~reg.changed
  <2>1. Goto("ensure")
    BY <1>b DEF PublishSet
  <2>2. reg'.pc = "ensure" /\ reg'.b = b
    BY <1>1, <2>1, GotoMoves DEF Moved
  <2>3. ClaimsKnown(b)'
    BY <1>5, <2>2 DEF ClaimsKnown, At
  <2>4. ASSUME NEW g \in Gens, LiveFor(g, e)', gens'[g].graph # None
        PROVE  gens'[g].graph = reg.hash
    <3>1. ServedBy(g, reg.hash, e)'
      BY <1>7, <1>b, <2>4
    <3>2. gens'[g].pc # "start"
      BY <1>2, <2>4 DEF StartsBlank
    <3>3. QED
      BY <1>3, <3>1, <3>2 DEF ServedBy, Carries
  <2>5. Follows(b)'
    BY <1>2, <2>4 DEF Follows
  <2>6. QED
    BY <1>6, <1>9, <2>3, <2>5 DEF ClaimInv
<1>c. QED
  BY <1>a, <1>b

\* OnPublished: Stop leaves no entry behind.
LEMMA StopKeepsClaimInv ==
  ASSUME RegInv, NEW b \in Blueprints, SpecInv(b), ClaimInv(b), reg.b = b,
         PublishStop \/ PublishCancel
  PROVE  ClaimInv(b)'
<1> DEFINE e == ExportOf[b]
<1>1. reg \in Pass /\ e \in Exports /\ Export = e
  BY OwnExport DEF Export
<1>2. /\ bp' = bp /\ claims' = claims /\ exports' = exports /\ reg.pc \in {"stop", "cancel"}
  BY DEF PublishStop, PublishCancel, serverVars, exportVars
<1>3. Carries
  BY <1>1, PassCarries DEF PublishStop, PublishCancel
<1>4. Narrow(b, reg.hash) /\ reg.changed
  BY <1>2 DEF ClaimInv, ClaimsKnown, At
<1>5. Narrow(b, reg.hash)'
  BY <1>2, <1>3, <1>4 DEF Narrow, Carries
<1>6. SettledNarrow(b)' /\ Fits(b)'
  BY <1>2, SameKeepsFits DEF ClaimInv, SettledNarrow, Settled, Narrow
<1>7. reg'.changed
  BY <1>3, <1>4 DEF Carries
<1>8. reg'.pc \in {"cancel", "ensure"} /\ reg'.b = b
  BY <1>1, GotoMoves DEF PublishStop, PublishCancel, Moved
<1>9. ClaimsKnown(b)' /\ Steady(b)'
  BY <1>5, <1>7, <1>8 DEF ClaimsKnown, Steady, At
<1>a. running'[e] = None
  <2>1. CASE PublishStop
    BY <1>1, <2>1, StoresTyped DEF PublishStop, StopDelete, supVars
  <2>2. CASE PublishCancel
    <3>1. running[e] = None /\ running' = running
      BY <2>2 DEF PublishCancel, StopCancel, SpecInv, Handing, At
    <3>2. QED
      BY <3>1
  <2>3. QED
    BY <2>1, <2>2
<1>b. QED
  BY <1>6, <1>9, <1>a, NoEntryFollows DEF ClaimInv

\* OnPublished: a manager that Ensure starts has no graph yet, and will read the one
\* that Set has registered.
LEMMA EnsureKeepsClaimInv ==
  ASSUME RegInv, StartsBlank', NEW b \in Blueprints, SpecInv(b), ClaimInv(b), reg.b = b,
         PublishEnsure
  PROVE  ClaimInv(b)'
<1> DEFINE e == ExportOf[b]
<1>1. reg \in Pass /\ e \in Exports /\ Export = e /\ gens \in [Gens -> Gen]
  BY OwnExport DEF Export, RegInv, SupInv, SupTypeOK
<1>2. /\ bp' = bp /\ claims' = claims /\ exports' = exports /\ registry' = registry
      /\ reg.pc = "ensure"
  BY DEF PublishEnsure, Ensure, supVars, serverVars, exportVars
<1>3. Carries
  BY <1>1, PassCarries DEF PublishEnsure
<1>4. /\ Engaged(b) /\ Narrow(b, reg.hash) /\ ~At(b, {"stop"}) /\ registry[e] = reg.hash
  BY <1>2 DEF ClaimInv, ClaimsKnown, At, Engaged, Publishing, PublishPoints, SpecInv, Handing
<1>5. Narrow(b, reg.hash)'
  BY <1>2, <1>3, <1>4 DEF Narrow, Carries
<1>6. SettledNarrow(b)' /\ Fits(b)'
  BY <1>2, SameKeepsFits DEF ClaimInv, SettledNarrow, Settled, Narrow
<1>7. reg'.pc = "status" /\ reg'.b = b
  BY <1>1, GotoMoves DEF PublishEnsure, Moved
<1>8. ClaimsKnown(b)'
  BY <1>5, <1>7 DEF ClaimsKnown, At
<1>9. ASSUME NEW g \in Gens, LiveFor(g, e)'
      PROVE  (gens'[g] = gens[g] /\ LiveFor(g, e)) \/ gens'[g].pc = "start"
  <2>1. CASE UNCHANGED supVars
    BY <1>9, <2>1 DEF supVars, LiveFor, Live
  <2>2. ASSUME NEW k \in Gens,
               gens' = [gens EXCEPT ![k] = [FreeGen EXCEPT !.pc = "start", !.export = e]]
        PROVE  (gens'[g] = gens[g] /\ LiveFor(g, e)) \/ gens'[g].pc = "start"
    <3>1. CASE g = k
      BY <1>1, <2>2, <3>1 DEF FreeGen
    <3>2. CASE g # k
      <4>1. gens'[g] = gens[g]
        BY <1>1, <2>2, <3>2
      <4>2. QED
        BY <1>9, <4>1 DEF LiveFor, Live
    <3>3. QED
      BY <3>1, <3>2
  <2>3. QED
    BY <1>1, <2>1, <2>2 DEF PublishEnsure, Ensure
<1>a. Steady(b)'
  <2> SUFFICES ASSUME ~reg'.changed, NEW g \in Gens, LiveFor(g, e)'
               PROVE  ServedBy(g, reg.hash, e)'
    BY <1>2, <1>3, <1>4 DEF Steady, Carries
  <2>1. ~reg.changed
    BY <1>3 DEF Carries
  <2>2. CASE gens'[g].pc = "start"
    BY <1>2, <1>3, <1>4, <2>2 DEF ServedBy, Carries
  <2>3. CASE gens'[g] = gens[g] /\ LiveFor(g, e)
    <3>1. ServedBy(g, reg.hash, e)
      BY <1>4, <2>1, <2>3 DEF ClaimInv, Steady
    <3>2. QED
      BY <1>2, <1>3, <2>3, <3>1 DEF ServedBy, Carries
  <2>4. QED
    BY <1>9, <2>2, <2>3
<1>b. Follows(b)'
  <2>1. ASSUME NEW g \in Gens, running'[e] = g, LiveFor(g, e)', gens'[g].graph # None
        PROVE  gens'[g].graph = registry'[e]
    <3>1. gens'[g] = gens[g] /\ LiveFor(g, e)
      BY <1>9, <2>1 DEF StartsBlank
    <3>2. running[e] = g
      BY <1>1, <2>1, <3>1, StoresTyped, NoneAssumption
      DEF PublishEnsure, Ensure, supVars, LiveFor, Live, FreeGen
    <3>3. QED
      BY <1>2, <1>4, <2>1, <3>1, <3>2 DEF ClaimInv, Follows
  <2>2. QED
    BY <2>1 DEF Follows
<1>c. QED
  BY <1>6, <1>8, <1>a, <1>b DEF ClaimInv

\* The status is written for the spec whose claims are applied.
LEMMA StatusKeepsClaimInv ==
  ASSUME RegInv, NEW b \in Blueprints, SpecInv(b), ClaimInv(b), reg.b = b, UpdateStatus
  PROVE  ClaimInv(b)'
<1> DEFINE e == ExportOf[b]
<1>1. bp[b] \in Object /\ bp \in [Blueprints -> Object]
  BY OwnExport
<1>2. /\ UNCHANGED supVars /\ claims' = claims /\ exports' = exports /\ reg'.pc = "idle"
      /\ reg.pc = "status" /\ ~reg.stale
  BY DEF UpdateStatus, End, Idle, exportVars
<1>3. Engaged(b) /\ Narrow(b, reg.hash) /\ ~At(b, {"stop"})
  BY <1>2 DEF ClaimInv, ClaimsKnown, At, Engaged, Publishing, PublishPoints
<1>4. reg.hash = bp[b].spec
  BY <1>2, <1>3 DEF SpecInv, Tracks
<1>5. bp'[b].spec = bp[b].spec
  BY <1>1 DEF UpdateStatus, Object
<1>6. SettledNarrow(b)'
  BY <1>2, <1>3, <1>4, <1>5 DEF SettledNarrow, Narrow
<1>7. ClaimsKnown(b)' /\ Steady(b)'
  BY <1>2 DEF ClaimsKnown, Steady, Engaged, At, Publishing, PublishPoints
<1>8. Follows(b)' /\ Fits(b)'
  BY <1>2, <1>3, SameSupervisor, SameKeepsFollows, SameKeepsFits DEF ClaimInv
<1>9. QED
  BY <1>6, <1>7, <1>8 DEF ClaimInv

\* A removed export fits anything.
LEMMA RemovalKeepsFits ==
  ASSUME RegInv, NEW b \in Blueprints, reg.b = b, RemoveExport
  PROVE  Fits(b)'
<1>1. ExportOf[b] \in Exports /\ Export = ExportOf[b] /\ exports \in [Exports -> Hash]
  BY OwnExport DEF Export, RegInv, StoreInv
<1>2. QED
  BY <1>1 DEF Fits

\* A pass that withdraws b: once the entry is gone nothing has to follow the registry.
LEMMA WithdrawKeepsClaimInv ==
  ASSUME RegInv, EntryServes, NEW b \in Blueprints, Held(b), ClaimInv(b),
         reg.b = b, Withdraw
  PROVE  ClaimInv(b)'
<1> DEFINE e == ExportOf[b]
<1>1. /\ bp \in [Blueprints -> Object] /\ reg \in Pass /\ e \in Exports /\ Export = e
  BY OwnExport DEF Export
<1>2. At(b, WithdrawPoints) /\ reg.pc # "idle" /\ ~At(b, {"stop"})
  BY DEF Withdraw, DeleteARS, DeleteExport, Purge, WithdrawStop, WithdrawCancel,
         Unregister, RemoveFinalizer, At, WithdrawPoints
<1>3. SettledNarrow(b)'
  <2>1. CASE RemoveFinalizer
    BY <1>1, <2>1 DEF RemoveFinalizer, Absent, SettledNarrow, Settled
  <2>2. CASE ~RemoveFinalizer
    <3>1. bp' = bp
      BY <2>2 DEF Withdraw, DeleteARS, DeleteExport, Purge, WithdrawStop, WithdrawCancel,
                  Unregister, serverVars
    <3>2. QED
      BY <1>2, <3>1 DEF Held, SettledNarrow, Settled
  <2>3. QED
    BY <2>1, <2>2
<1>4. reg'.pc \in WithdrawPoints \cup {"idle"}
  BY <1>1, GotoMoves
  DEF Withdraw, DeleteARS, DeleteExport, Purge, WithdrawStop, WithdrawCancel, Unregister,
      RemoveFinalizer, Moved, WithdrawPoints, End, Idle
<1>5. ClaimsKnown(b)' /\ Steady(b)'
  BY <1>4 DEF ClaimsKnown, Steady, Engaged, At, Publishing, PublishPoints, WithdrawPoints
<1>6. Fits(b)'
  <2>1. CASE DeleteExport
    BY <2>1, RemovalKeepsFits DEF DeleteExport
  <2>2. CASE ~DeleteExport
    <3>1. claims' = claims /\ exports' = exports
      BY <2>2 DEF Withdraw, DeleteARS, Purge, WithdrawStop, WithdrawCancel, Unregister,
                  RemoveFinalizer, serverVars, exportVars
    <3>2. QED
      BY <3>1, SameKeepsFits DEF ClaimInv
  <2>3. QED
    BY <2>1, <2>2
<1>7. Follows(b)'
  <2>1. CASE DeleteARS \/ DeleteExport \/ Purge \/ RemoveFinalizer
    <3>1. UNCHANGED supVars
      BY <2>1 DEF DeleteARS, DeleteExport, Purge, RemoveFinalizer
    <3>2. QED
      BY <1>2, <3>1, SameSupervisor, SameKeepsFollows DEF ClaimInv
  <2>2. CASE WithdrawStop
    <3>1. running'[e] = None
      BY <1>1, <2>2, StoresTyped DEF WithdrawStop, StopDelete, supVars
    <3>2. QED
      BY <3>1, NoEntryFollows
  <2>3. CASE WithdrawCancel \/ Unregister
    <3>1. running[e] = None
      BY <1>1, <2>3 DEF WithdrawCancel, Unregister, EntryServes
    <3>2. running' = running
      BY <2>3 DEF WithdrawCancel, Unregister, StopCancel, Delete, Set
    <3>3. QED
      BY <3>1, <3>2, NoEntryFollows
  <2>4. QED
    BY <2>1, <2>2, <2>3 DEF Withdraw
<1>8. QED
  BY <1>3, <1>5, <1>6, <1>7 DEF ClaimInv

\* A pass that loses the answer to a write ends, with export and claims in step.
LEMMA LostKeepsClaimInv ==
  ASSUME RegInv, NEW b \in Blueprints, Held(b), SpecInv(b), ClaimInv(b), reg.b = b,
         AnswerLost
  PROVE  ClaimInv(b)'
<1> DEFINE e == ExportOf[b]
<1>1. bp \in [Blueprints -> Object] /\ bp[b] \in Object /\ b \in Blueprints
  BY OwnExport
<1>2. reg'.pc = "idle" /\ UNCHANGED supVars /\ ~At(b, {"stop"})
  BY DEF AnswerLost, End, Idle, At
<1>3. SettledBefore(b)
  <2>1. /\ bp'[b].spec = bp[b].spec /\ bp'[b].observed = bp[b].observed
        /\ bp'[b].exists = bp[b].exists /\ bp'[b].deleting = bp[b].deleting
    BY <1>1 DEF AnswerLost, Object
  <2>2. QED
    BY <2>1 DEF SettledBefore, Settled
<1>4. ClaimsKnown(b)' /\ Steady(b)'
  BY <1>2 DEF ClaimsKnown, Steady, Engaged, At, Publishing, PublishPoints
<1>5. Follows(b)'
  BY <1>2, SameSupervisor, SameKeepsFollows DEF ClaimInv
<1>6. Fits(b)' /\ SettledNarrow(b)'
  <2>1. CASE StoreExport
    BY <1>3, <2>1, ExportKeepsFits
  <2>2. CASE RemoveExport
    <3>1. At(b, WithdrawPoints)
      BY <2>2 DEF At, WithdrawPoints
    <3>2. ~Settled(b)
      BY <3>1 DEF Held, Settled
    <3>3. QED
      BY <1>3, <2>2, <3>2, RemovalKeepsFits DEF SettledBefore, SettledNarrow
  <2>3. CASE UNCHANGED exportVars
    BY <1>3, <2>3, SameKeepsFits DEF exportVars, ClaimInv, SettledNarrow, SettledBefore, Narrow
  <2>4. QED
    BY <2>1, <2>2, <2>3 DEF AnswerLost
<1>7. QED
  BY <1>4, <1>5, <1>6 DEF ClaimInv

\* At first nothing is registered, runs or is settled.
LEMMA ClaimsInvInit == Init => ClaimsInv
<1> SUFFICES ASSUME Init PROVE ClaimsInv
  OBVIOUS
<1>1. StartsBlank /\ StopsOwn
  BY DEF Init, SupInit, FreeGen, StartsBlank, StopsOwn
<1>2. ASSUME NEW b \in Blueprints PROVE ClaimInv(b)
  <2>1. ~bp[b].exists /\ reg.pc = "idle"
    BY DEF Init, Absent, Idle
  <2>2. ClaimsKnown(b) /\ Steady(b) /\ SettledNarrow(b)
    BY <2>1 DEF ClaimsKnown, Steady, SettledNarrow, Settled, Engaged, At, Publishing,
                PublishPoints
  <2>3. Fits(b) /\ Follows(b)
    BY ExportAssumption DEF Init, SupInit, FreeGen, Fits, Follows, LiveFor, Live
  <2>4. QED
    BY <2>2, <2>3 DEF ClaimInv
<1>3. QED
  BY <1>1, <1>2 DEF ClaimsInv

\* Every step keeps the claims invariant, if no spec is reverted.
LEMMA ClaimsInvStep ==
  ASSUME "revert" \notin Env
  PROVE  RegInv /\ HeldInv /\ EntryServes /\ SpecsInv /\ ClaimsInv /\ [Next]_vars => ClaimsInv'
<1> SUFFICES ASSUME RegInv, HeldInv, EntryServes, SpecsInv, ClaimsInv, [Next]_vars
             PROVE  ClaimsInv'
  OBVIOUS
<1>1. StartsBlank' /\ StopsOwn' /\ SpecsInv'
  BY StartsBlankStep, StopsOwnStep, SpecsInvStep DEF ClaimsInv, SpecsInv
<1>2. ASSUME NEW b \in Blueprints PROVE ClaimInv(b)'
  <2>1. /\ Held(b) /\ SpecInv(b) /\ ClaimInv(b) /\ StartsBlank /\ StartsBlank'
    BY <1>1 DEF HeldInv, SpecsInv, ClaimsInv
  <2>2. CASE \/ AddFinalizer \/ Build \/ ApplyARS \/ ResolveClaims \/ UpsertAPIExport
             \/ PublishSet \/ PublishStop \/ PublishCancel \/ PublishEnsure \/ UpdateStatus
             \/ Withdraw \/ AnswerLost
    BY <2>1, <2>2, OthersKeepClaimInv, PrepareKeepsClaimInv, SetKeepsClaimInv,
       StopKeepsClaimInv, EnsureKeepsClaimInv, StatusKeepsClaimInv, WithdrawKeepsClaimInv,
       LostKeepsClaimInv
  <2>3. CASE \/ Conflict \/ Undone \/ BuildFails \/ BuildRejected \/ ClaimsUnresolved
             \/ ClaimsPanic \/ Managers \/ Restart \/ UNCHANGED vars
             \/ \E gr \in Bindable : Rebind(gr)
    BY <2>1, <2>3, QuietKeepsClaimInv
  <2>4. ASSUME NEW a \in Blueprints, Get(a) PROVE ClaimInv(b)'
    BY <2>1, <2>4, GetKeepsClaimInv
  <2>5. ASSUME NEW a \in Blueprints, NEW h \in Graphs,
               CreateBlueprint(a, h) \/ EditBlueprint(a, h)
        PROVE  ClaimInv(b)'
    BY <2>1, <2>5, ProviderKeepsClaimInv
  <2>6. ASSUME NEW a \in Blueprints, TouchBlueprint(a) \/ DeleteBlueprint(a)
        PROVE  ClaimInv(b)'
    <3>1. PICK h : h \in Graphs
      BY <2>6 DEF TouchBlueprint, DeleteBlueprint, RegInv, BpInv
    <3>2. QED
      BY <2>1, <2>6, <3>1, ProviderKeepsClaimInv
  <2>7. QED
    BY <2>2, <2>3, <2>4, <2>5, <2>6 DEF Next, Publish, CallFails
<1>3. QED
  BY <1>1, <1>2 DEF ClaimsInv

\* Everything that holds of the registrar in every reachable state, if no spec is reverted.
PublishedInv == RegInv /\ HeldInv /\ EntryServes /\ SpecsInv /\ ClaimsInv

LEMMA PublishedInvariant == ASSUME "revert" \notin Env PROVE Spec => []PublishedInv
<1>1. Init => PublishedInv
  BY RegInvInit, HeldInvInit, EntryServesInit, SpecsInvInit, ClaimsInvInit DEF PublishedInv
<1>2. PublishedInv /\ [Next]_vars => PublishedInv'
  BY RegInvStep, HeldInvStep, EntryServesStep, SpecsInvStep, ClaimsInvStep DEF PublishedInv
<1>3. QED
  BY <1>1, <1>2, PTL DEF Spec

\* A manager's calls are authorised whenever its export has not moved on without it,
\* if no spec is reverted: for every graph, routing, binding, failure and restart.
THEOREM CallsAreAuthorised ==
  ASSUME "revert" \notin Env
  PROVE  Spec => []EngineIsAuthorised
<1>1. PublishedInv => EngineIsAuthorised
  <2> SUFFICES ASSUME PublishedInv, NEW b \in Blueprints, NEW g \in Gens,
                      gens[g].export = ExportOf[b], Live(g), gens[g].graph # None,
                      g \notin stopping, ~Superseded(ExportOf[b])
               PROVE  Authorised(b, gens[g].graph)
    BY DEF EngineIsAuthorised, IsAuthorised, Authorised
  <2>1. running[ExportOf[b]] = g /\ LiveFor(g, ExportOf[b])
    BY NoneAssumption DEF PublishedInv, RegInv, SupInv, NoLostManager, LiveFor
  <2>2. exports[ExportOf[b]] = registry[ExportOf[b]] /\ ~At(b, {"stop"})
    BY DEF Superseded, At, Export
  <2>3. Fits(b) /\ Follows(b)
    BY DEF PublishedInv, ClaimsInv, ClaimInv
  <2>4. gens[g].graph = exports[ExportOf[b]]
    BY <2>1, <2>2, <2>3 DEF Follows
  <2>5. QED
    BY <2>3, <2>4 DEF Fits
<1>2. QED
  BY <1>1, PublishedInvariant, PTL

\* A settled blueprint asks its consumers for no more than its spec's graph needs, if
\* no spec is reverted.
THEOREM ClaimsAreNarrow ==
  ASSUME "revert" \notin Env
  PROVE  Spec => []ClaimsFollowGraph
<1>1. PublishedInv => ClaimsFollowGraph
  BY DEF PublishedInv, ClaimsInv, ClaimInv, SettledNarrow, Narrow, ClaimsFollowGraph
<1>2. QED
  BY <1>1, PublishedInvariant, PTL

\* Only the second half of a Stop cancels a manager.
LEMMA OnlyStopCancels ==
  ASSUME RegInv, Next, NEW g \in Gens, Live(g), gens'[g].cancelled
  PROVE  (PublishCancel \/ WithdrawCancel) /\ StopCancel(g)
<1>1. gens \in [Gens -> Gen] /\ ~gens[g].cancelled /\ gens[g] \in Gen /\ gens[g].pc # "free"
  BY DEF RegInv, SupInv, SupTypeOK, Live
<1>2. gens' # gens
  BY <1>1
<1>3. ~Restart
  BY SMT DEF Restart, FreeGen
<1>4. ASSUME NEW e, Ensure(e) PROVE FALSE
  BY <1>1, <1>2, <1>4 DEF Ensure, supVars, FreeGen
<1>5. ~Managers
  <2> SUFFICES ASSUME NEW k \in Gens,
                      StartFn(k) \/ Serve(k) \/ ExitCancelled(k) \/ Forget(k) \/ Crash(k)
               PROVE  FALSE
    BY DEF Managers
  <2>1. g = k
    BY <1>1 DEF StartFn, Serve, ExitCancelled, Forget, Crash
  <2>2. CASE Forget(k)
    BY <1>1, <2>1, <2>2 DEF Forget, FreeGen
  <2>3. CASE StartFn(k)
    <3>1. gens'[g].cancelled = gens[g].cancelled
      BY <1>1, <2>1, <2>3 DEF StartFn, Gen
    <3>2. QED
      BY <1>1, <3>1
  <2>4. CASE Serve(k) \/ ExitCancelled(k) \/ Crash(k)
    <3>1. gens'[g].cancelled = gens[g].cancelled
      BY <1>1, <2>1, <2>4, SMT DEF Serve, ExitCancelled, Crash, Gen
    <3>2. QED
      BY <1>1, <3>1
  <2>5. QED
    BY <2>2, <2>3, <2>4
<1>6. PublishCancel \/ WithdrawCancel
  <2>1. CASE Publish
    BY <1>2, <1>4, <2>1
    DEF Publish, AddFinalizer, Build, ApplyARS, ResolveClaims, UpsertAPIExport, PublishSet,
        PublishStop, PublishEnsure, UpdateStatus, BuildFails, BuildRejected, ClaimsUnresolved,
        ClaimsPanic, Abandon, Fail, Set, StopDelete, supVars
  <2>2. CASE Withdraw
    BY <1>2, <2>2
    DEF Withdraw, DeleteARS, DeleteExport, Purge, WithdrawStop, Unregister, RemoveFinalizer,
        Delete, Set, StopDelete, supVars
  <2>3. QED
    BY <1>2, <1>3, <1>5, <2>1, <2>2
    DEF Next, Get, TouchBlueprint, DeleteBlueprint, CreateBlueprint, EditBlueprint, Rebind,
        Conflict, CallFails, Undone, AnswerLost, Abandon, Fail, supVars
<1>7. PICK k \in Gens : StopCancel(k)
  BY <1>6 DEF PublishCancel, WithdrawCancel
<1>8. k = g
  BY <1>1, <1>7 DEF StopCancel
<1>9. QED
  BY <1>6, <1>7, <1>8

\* A resync of a settled blueprint cancels no manager of it, if no spec is reverted.
THEOREM ResyncRestartsNothing ==
  ASSUME "revert" \notin Env
  PROVE  Spec => ResyncKeepsManager
<1> DEFINE Stays == \A b \in Blueprints, g \in Gens :
                      /\ Settled(b) /\ Settled(b)' /\ Live(g) /\ gens[g].export = ExportOf[b]
                      => ~gens'[g].cancelled
<1>1. PublishedInv /\ [Next]_vars => [Stays]_vars
  <2> SUFFICES ASSUME PublishedInv, Next, NEW b \in Blueprints, NEW g \in Gens, Settled(b),
                      Live(g), gens[g].export = ExportOf[b], gens'[g].cancelled
               PROVE  FALSE
    OBVIOUS
  <2>1. RegInv /\ Held(b) /\ SpecInv(b) /\ ClaimInv(b) /\ StopsOwn
    BY DEF PublishedInv, HeldInv, SpecsInv, ClaimsInv
  <2>2. (PublishCancel \/ WithdrawCancel) /\ StopCancel(g)
    BY <2>1, OnlyStopCancels
  <2>3. g \in stopping /\ gens[g].pc # "free" /\ reg.pc \in {"cancel", "abort"}
    BY <2>2 DEF StopCancel, Live, PublishCancel, WithdrawCancel
  <2>4. Export = ExportOf[b]
    BY <2>1, <2>3 DEF StopsOwn
  <2>5. reg.b = b
    BY <2>1, <2>3, <2>4, OwnExport
  <2>6. CASE reg.pc = "abort"
    BY <2>1, <2>5, <2>6 DEF Held, At, WithdrawPoints, Settled
  <2>7. CASE reg.pc = "cancel"
    <3>1. Engaged(b) /\ reg.changed
      BY <2>1, <2>5, <2>7 DEF Engaged, At, Publishing, PublishPoints, ClaimInv, ClaimsKnown
    <3>2. reg.hash = bp[b].spec /\ bp[b].observed = bp[b].spec /\ bp[b].spec \in Graphs
      BY <2>1, <3>1, SettledPass DEF SpecInv, Settled, RegInv, BpInv
    <3>3. bp[b].observed = None \/ bp[b].observed < reg.hash
      BY <2>1, <3>1 DEF SpecInv, Tracks
    <3>4. bp[b].spec \in Nat /\ bp[b].spec # None
      BY <3>2, GraphsAreNumbers, NoneAssumption
    <3>5. QED
      BY <3>2, <3>3, <3>4, SMT
  <2>8. QED
    BY <2>3, <2>6, <2>7
<1>2. QED
  BY <1>1, PublishedInvariant, PTL DEF Spec, ResyncKeepsManager
=============================================================================
