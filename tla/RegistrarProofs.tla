-------------------------- MODULE RegistrarProofs ---------------------------
(***************************************************************************)
(* The claims derived for a graph are what its manager needs, and no more. *)
(* The supervisor never loses track of a manager, for callers in any       *)
(* order.  The registrar drives the supervisor only through its            *)
(* operations, so what the supervisor promises on its own it promises      *)
(* under the registrar too, restarts of the process included; and the      *)
(* state of both stays well formed (RegInv).                               *)
(*                                                                         *)
(* On RegInv rests what a blueprint holds while it is published: an export *)
(* keeps its schema (Held, SchemaHeld), and a manager that starts finds    *)
(* its blueprint in the registry (EntryServes).                            *)
(*                                                                         *)
(* For any number of blueprints, exports, graphs and generations, any      *)
(* failures and any environment.                                           *)
(***************************************************************************)
EXTENDS Registrar, TLAPS

USE Zenon, SMT
DEF StoreFinalizer, Compile, StoreARS, StoreExport, RemoveARS, RemoveExport, Report

(* Claims.                                                                 *)

\* A node of a served graph.
LEMMA ServedNode ==
  ASSUME NEW g \in Served, NEW i \in DOMAIN g.nodes
  PROVE  g.nodes[i] \in Node
BY SMT DEF Served

\* The foreign kinds are kinds.
LEMMA ForeignAreKinds ==
  ASSUME NEW g \in Served, NEW own, NEW x \in BOOLEAN
  PROVE  ForeignConsumerGRs(g, own, x) \subseteq GVKs
BY ServedNode, SMT DEF ForeignConsumerGRs, Node

\* The merged claims of templates of the kinds W and externals of the kinds X.
Merged(W, X, identity) ==
  mergeClaims(DeriveClaims(W, claimVerbs, identity),
              DeriveClaims(X, readOnlyVerbs, identity))

LEMMA MergedTyped ==
  ASSUME NEW W, NEW X, NEW identity
  PROVE  Merged(W, X, identity) \in [W \cup X -> Claim]
BY SMT DEF Merged, mergeClaims, DeriveClaims, Claim

\* A kind with a template has the full verbs, any other the read-only ones.
LEMMA MergedVerbs ==
  ASSUME NEW W, NEW X, NEW identity, NEW k \in W \cup X
  PROVE  Merged(W, X, identity)[k].verbs =
           IF k \in W THEN claimVerbs ELSE readOnlyVerbs
BY DEF Merged, mergeClaims, DeriveClaims

\* No claims are a claim list.
LEMMA NoClaimsTyped == NoClaims \in ClaimList
<1>1. NoClaims \in [{} -> Claim]
  BY DEF NoClaims
<1>2. QED
  BY <1>1 DEF ClaimList

\* The derived claims are a claim list.
LEMMA ClaimsTyped ==
  ASSUME NEW g \in Served, NEW own, NEW identity
  PROVE  ClaimsFor(g, own, identity) \in ClaimList
<1> DEFINE W == ForeignConsumerGRs(g, own, FALSE)
           X == ForeignConsumerGRs(g, own, TRUE)
<1>1. W \cup X \in SUBSET GVKs
  BY ForeignAreKinds
<1>2. ClaimsFor(g, own, identity) \in [W \cup X -> Claim]
  BY MergedTyped DEF ClaimsFor, Merged
<1>3. QED
  BY <1>1, <1>2 DEF ClaimList

\* Claims that pass validateClaims authorise every call that the engine and the
\* collector make for the foreign nodes of the graph they were derived from: a kind
\* that is both written and read keeps the full verbs although mergeClaims drops
\* the union, because the claims of the templates come first.
THEOREM DerivedClaimsAuthorise ==
  ASSUME NEW g \in Served, NEW own, NEW identity,
         validateClaims(ClaimsFor(g, own, identity))
  PROVE  Authorises(ClaimsFor(g, own, identity), g, own)
<1> DEFINE W == ForeignConsumerGRs(g, own, FALSE)
           X == ForeignConsumerGRs(g, own, TRUE)
           c == ClaimsFor(g, own, identity)
<1> SUFFICES ASSUME NEW i \in DOMAIN g.nodes, IsForeign(g, g.nodes[i], own)
             PROVE  /\ g.nodes[i].gvk \in DOMAIN c
                    /\ VerbsUsed(g.nodes[i]) \subseteq c[g.nodes[i].gvk].verbs
                    /\ g.nodes[i].gvk \in CoreGVKs \/ c[g.nodes[i].gvk].identity
  BY DEF Authorises
<1> DEFINE n == g.nodes[i]
<1>1. n \in Node
  BY ServedNode
<1>2. /\ IsExternal(n) => n.gvk \in X
      /\ ~IsExternal(n) => n.gvk \in W
  BY SMT DEF ForeignConsumerGRs, IsExternal
<1>a. c = Merged(W, X, identity)
  BY DEF ClaimsFor, Merged
<1> HIDE DEF W, X, c
<1>3. n.gvk \in DOMAIN c
  <2>1. n.gvk \in W \cup X
    BY <1>2
  <2>2. DOMAIN c = W \cup X
    BY <1>a, MergedTyped
  <2>3. QED
    BY <2>1, <2>2
<1>4. n.gvk \in CoreGVKs \/ c[n.gvk].identity
  BY <1>3 DEF validateClaims, c
<1>5. c[n.gvk].verbs = IF n.gvk \in W THEN claimVerbs ELSE readOnlyVerbs
  BY <1>2, <1>a, MergedVerbs, SMT
<1>6. VerbsUsed(n) \subseteq c[n.gvk].verbs
  <2>1. CASE n.type = "resource"
    <3>1. ~IsExternal(n)
      BY <2>1 DEF IsExternal
    <3>2. VerbsUsed(n) = {"create", "patch", "get", "list", "delete"}
      BY <2>1 DEF VerbsUsed
    <3>3. QED
      BY <1>2, <1>5, <3>1, <3>2 DEF claimVerbs
  <2>2. CASE n.type = "external"
    BY <1>5, <2>2 DEF VerbsUsed, claimVerbs, readOnlyVerbs
  <2>3. CASE n.type = "externalCollection"
    BY <1>5, <2>3 DEF VerbsUsed, claimVerbs, readOnlyVerbs
  <2>4. QED
    BY <1>1, <2>1, <2>2, <2>3 DEF Node, NodeTypes
<1>7. QED
  BY <1>3, <1>4, <1>6 DEF c

\* They ask for nothing else: every claim is for a foreign node of the graph, and
\* only a kind with a template is claimed beyond reading.
THEOREM DerivedClaimsAskNoMore ==
  ASSUME NEW g \in Served, NEW own, NEW identity
  PROVE  AskNoMore(ClaimsFor(g, own, identity), g, own)
<1> DEFINE W == ForeignConsumerGRs(g, own, FALSE)
           X == ForeignConsumerGRs(g, own, TRUE)
           c == ClaimsFor(g, own, identity)
<1> SUFFICES ASSUME NEW gr \in DOMAIN c
             PROVE  \E i \in DOMAIN g.nodes :
                      /\ IsForeign(g, g.nodes[i], own) /\ g.nodes[i].gvk = gr
                      /\ c[gr].verbs \subseteq readOnlyVerbs \/ ~IsExternal(g.nodes[i])
  BY DEF AskNoMore
<1>1. CASE gr \in W
  BY <1>1 DEF ForeignConsumerGRs, IsExternal
<1>2. CASE gr \notin W
  <2>1. gr \in X /\ c[gr].verbs = readOnlyVerbs
    <3>1. c = Merged(W, X, identity)
      BY DEF ClaimsFor, Merged
    <3> HIDE DEF W, X, c
    <3>2. gr \in W \cup X
      BY <3>1, MergedTyped
    <3>3. QED
      BY <1>2, <3>1, <3>2, MergedVerbs, SMT
  <2>2. QED
    BY <2>1 DEF ForeignConsumerGRs
<1>3. QED
  BY <1>1, <1>2

-----------------------------------------------------------------------------
(* The supervisor.                                                         *)

\* What the two safety properties need of each other: a live manager is lost
\* exactly when its entry is overwritten or cleared by someone else, and that
\* needs entries to name generations which are in use and not handed to a Stop.
SupInv ==
  /\ SupTypeOK /\ NoLostManager /\ EntryIsCurrent
  /\ \A g \in Gens : gens[g].pc # "free" => gens[g].export \in Exports

\* The empty supervisor satisfies the invariant.
LEMMA SupInvInit == SupInit => SupInv
BY NoneAssumption, SMT
DEF SupInit, SupInv, SupTypeOK, NoLostManager, EntryIsCurrent, Live, FreeGen, Gen

\* Writing the registry disturbs no entry (published.Set and published.Delete).
LEMMA SetKeepsInv ==
  ASSUME NEW e \in Exports, NEW graph \in Graphs \cup {None}, SupInv, Set(e, graph)
  PROVE  SupInv'
BY DEF Set, SupInv, SupTypeOK, NoLostManager, EntryIsCurrent, Live

\* Ensure registers the generation it starts, and only over an absent entry.
LEMMA EnsureKeepsInv ==
  ASSUME NEW e \in Exports, SupInv, Ensure(e)
  PROVE  SupInv'
<1>1. CASE UNCHANGED supVars
  BY <1>1 DEF supVars, SupInv, SupTypeOK, NoLostManager, EntryIsCurrent, Live
<1>2. CASE running[e] = None
  <2>1. PICK g \in Gens \ stopping :
          /\ gens[g].pc = "free"
          /\ running' = [running EXCEPT ![e] = g]
          /\ gens' = [gens EXCEPT ![g] = [FreeGen EXCEPT !.pc = "start", !.export = e]]
    BY <1>2 DEF Ensure, SupInv, SupTypeOK
  <2>2. UNCHANGED <<stopping, registry>>
    BY <1>2 DEF Ensure
  <2> DEFINE new == [FreeGen EXCEPT !.pc = "start", !.export = e]
  <2>3. /\ new \in Gen /\ new.pc = "start" /\ new.export = e
        /\ new.cancelled = FALSE
    BY DEF FreeGen, Gen
  <2>4. gens' = [gens EXCEPT ![g] = new]
    BY <2>1
  <2> HIDE DEF new
  <2>5. SupTypeOK'
    BY <2>1, <2>2, <2>3, <2>4 DEF SupInv, SupTypeOK
  <2>6. NoLostManager'
    <3> SUFFICES ASSUME NEW h \in Gens, Live(h)'
                 PROVE  running'[gens'[h].export] = h \/ h \in stopping'
      BY DEF NoLostManager
    <3>1. CASE h = g
      BY <2>1, <2>3, <2>4, <3>1 DEF SupInv, SupTypeOK
    <3>2. CASE h # g
      <4>1. gens'[h] = gens[h]
        BY <2>4, <3>2 DEF SupInv, SupTypeOK
      <4>2. Live(h) /\ gens[h].export \in Exports
        BY <4>1 DEF Live, SupInv
      <4>3. running[gens[h].export] = h \/ h \in stopping
        BY <4>2 DEF SupInv, NoLostManager
      <4>4. QED
        BY <1>2, <2>1, <2>2, <4>1, <4>2, <4>3, NoneAssumption DEF SupInv, SupTypeOK
    <3>3. QED
      BY <3>1, <3>2
  <2>7. EntryIsCurrent'
    <3> SUFFICES ASSUME NEW f \in Exports, running'[f] # None
                 PROVE  /\ gens'[running'[f]].pc # "free"
                        /\ gens'[running'[f]].export = f
                        /\ ~gens'[running'[f]].cancelled
                        /\ running'[f] \notin stopping'
      BY DEF EntryIsCurrent
    <3>1. CASE f = e
      BY <2>1, <2>2, <2>3, <2>4, <3>1 DEF SupInv, SupTypeOK
    <3>2. CASE f # e
      <4>1. running'[f] = running[f] /\ running[f] \in Gens
        BY <2>1, <3>2 DEF SupInv, SupTypeOK
      <4>2. /\ gens[running[f]].pc # "free" /\ gens[running[f]].export = f
            /\ ~gens[running[f]].cancelled /\ running[f] \notin stopping
        BY <4>1 DEF SupInv, EntryIsCurrent
      <4>3. gens'[running[f]] = gens[running[f]]
        BY <2>1, <2>4, <4>1, <4>2 DEF SupInv, SupTypeOK
      <4>4. QED
        BY <2>2, <4>1, <4>2, <4>3
    <3>3. QED
      BY <3>1, <3>2
  <2>8. QED
    BY <2>3, <2>4, <2>5, <2>6, <2>7 DEF SupInv, SupTypeOK
<1>3. QED
  BY <1>1, <1>2 DEF Ensure

\* Stop takes the entry out of the map before it cancels it.
LEMMA StopDeleteKeepsInv ==
  ASSUME NEW e \in Exports, SupInv, StopDelete(e)
  PROVE  SupInv'
<1>1. SupTypeOK'
  BY DEF StopDelete, SupInv, SupTypeOK
<1>2. NoLostManager'
  BY NoneAssumption DEF StopDelete, SupInv, SupTypeOK, NoLostManager, Live
<1>3. EntryIsCurrent'
  BY NoneAssumption DEF StopDelete, SupInv, SupTypeOK, EntryIsCurrent
<1>4. QED
  BY <1>1, <1>2, <1>3 DEF SupInv, StopDelete

\* The cancelled entry is in no Stop's hands and in no slot of the map any more.
LEMMA StopCancelKeepsInv ==
  ASSUME NEW g \in Gens, SupInv, StopCancel(g)
  PROVE  SupInv'
<1>1. SupTypeOK'
  <2>1. gens' \in [Gens -> Gen]
    BY DEF StopCancel, SupInv, SupTypeOK, Gen
  <2>2. QED
    BY <2>1 DEF StopCancel, SupInv, SupTypeOK
<1>2. NoLostManager'
  BY DEF StopCancel, SupInv, SupTypeOK, NoLostManager, Live, Gen
<1>3. EntryIsCurrent'
  BY SMT DEF StopCancel, SupInv, SupTypeOK, EntryIsCurrent, Gen
<1>4. QED
  BY <1>1, <1>2, <1>3, SMT DEF SupInv, SupTypeOK, StopCancel, Gen

\* A goroutine that moves on keeps its export and its cancellation, so whatever
\* held of its entry still holds.
LEMMA MoveKeepsInv ==
  ASSUME NEW g \in Gens, NEW moved \in Gen, SupInv,
         gens[g].pc # "free", moved.pc # "free",
         moved.pc \in {"start", "wait", "serving"} =>
           gens[g].pc \in {"start", "wait", "serving"},
         moved.export = gens[g].export, moved.cancelled = gens[g].cancelled,
         gens' = [gens EXCEPT ![g] = moved], UNCHANGED <<running, stopping, registry>>
  PROVE  SupInv'
<1>1. SupTypeOK'
  BY DEF SupInv, SupTypeOK
<1>2. \A h \in Gens : /\ Live(h)' => Live(h)
                      /\ gens'[h].export = gens[h].export
                      /\ gens'[h].cancelled = gens[h].cancelled
                      /\ (gens'[h].pc # "free") = (gens[h].pc # "free")
  BY DEF SupInv, SupTypeOK, Live
<1>3. NoLostManager'
  BY <1>2 DEF SupInv, SupTypeOK, NoLostManager
<1>4. EntryIsCurrent'
  BY <1>2, SMT DEF SupInv, SupTypeOK, EntryIsCurrent
<1>5. QED
  BY <1>1, <1>2, <1>3, <1>4 DEF SupInv

\* Every step of a goroutine up to its return is such a move.
LEMMA ManagerMoves ==
  ASSUME NEW g \in Gens, SupInv,
         StartFn(g) \/ Serve(g) \/ ExitCancelled(g) \/ Crash(g)
  PROVE  SupInv'
<1>1. gens[g] \in Gen /\ gens[g].pc # "free" /\ gens[g].export \in Exports
  BY DEF SupInv, SupTypeOK, StartFn, Serve, ExitCancelled, Crash
<1>2. UNCHANGED <<running, stopping, registry>>
  BY DEF StartFn, Serve, ExitCancelled, Crash
<1>3. CASE StartFn(g)
  <2> DEFINE sb == registry[gens[g].export]
             moved == [gens[g] EXCEPT !.pc = IF sb = None THEN "returned" ELSE "wait",
                                      !.graph = sb]
  <2>1. sb \in Graphs \cup {None}
    BY <1>1 DEF SupInv, SupTypeOK
  <2>2. /\ moved \in Gen /\ moved.pc \in {"returned", "wait"}
        /\ moved.export = gens[g].export /\ moved.cancelled = gens[g].cancelled
    BY <1>1, <2>1 DEF Gen
  <2>3. gens' = [gens EXCEPT ![g] = moved] /\ gens[g].pc = "start"
    BY <1>3 DEF StartFn, SupInv, SupTypeOK
  <2>4. QED
    BY <1>1, <1>2, <2>2, <2>3, MoveKeepsInv
<1>4. CASE Serve(g)
  <2> DEFINE moved == [gens[g] EXCEPT !.pc = "serving"]
  <2>1. /\ moved \in Gen /\ moved.pc = "serving"
        /\ moved.export = gens[g].export /\ moved.cancelled = gens[g].cancelled
    BY <1>1 DEF Gen
  <2>2. gens' = [gens EXCEPT ![g] = moved] /\ gens[g].pc = "wait"
    BY <1>4 DEF Serve, SupInv, SupTypeOK
  <2>3. QED
    BY <1>1, <1>2, <2>1, <2>2, MoveKeepsInv
<1>5. CASE ExitCancelled(g) \/ Crash(g)
  <2> DEFINE moved == [gens[g] EXCEPT !.pc = "returned"]
  <2>1. /\ moved \in Gen /\ moved.pc = "returned"
        /\ moved.export = gens[g].export /\ moved.cancelled = gens[g].cancelled
    BY <1>1 DEF Gen
  <2>2. gens' = [gens EXCEPT ![g] = moved]
    BY <1>5 DEF ExitCancelled, Crash, SupInv, SupTypeOK
  <2>3. QED
    BY <1>1, <1>2, <2>1, <2>2, MoveKeepsInv
<1>6. QED
  BY <1>3, <1>4, <1>5

\* forget clears the entry of a generation that has returned and no other.
LEMMA ForgetKeepsInv ==
  ASSUME NEW g \in Gens, SupInv, Forget(g)
  PROVE  SupInv'
<1>1. /\ gens[g].pc = "returned" /\ gens' = [gens EXCEPT ![g] = FreeGen]
      /\ UNCHANGED <<stopping, registry>>
      /\ \A e \in Exports : running'[e] = running[e]
           \/ (running[e] = g /\ running'[e] = None)
      /\ running'[gens[g].export] # g
  <2>1. gens[g].export \in Exports /\ g # None
    BY NoneAssumption DEF Forget, SupInv
  <2>2. running' = [e \in Exports |->
                      IF e = gens[g].export /\ running[e] = g THEN None ELSE running[e]]
    BY DEF Forget
  <2>3. \A e \in Exports : running'[e] = running[e]
          \/ (running[e] = g /\ running'[e] = None)
    BY <2>2
  <2>4. running'[gens[g].export] # g
    BY <2>1, <2>2
  <2>5. QED
    BY <2>3, <2>4 DEF Forget
<1>2. FreeGen \in Gen /\ FreeGen.pc = "free"
  BY DEF FreeGen, Gen
<1>3. SupTypeOK'
  BY <1>1, <1>2 DEF Forget, SupInv, SupTypeOK
<1>4. \A h \in Gens : h # g => gens'[h] = gens[h]
  BY <1>1 DEF SupInv, SupTypeOK
<1>5. gens'[g].pc = "free"
  BY <1>1, <1>2 DEF SupInv, SupTypeOK
<1>6. NoLostManager'
  <2> SUFFICES ASSUME NEW h \in Gens, Live(h)'
               PROVE  running'[gens'[h].export] = h \/ h \in stopping'
    BY DEF NoLostManager
  <2>1. h # g /\ gens'[h] = gens[h] /\ Live(h) /\ gens[h].export \in Exports
    BY <1>4, <1>5 DEF Live, SupInv
  <2>2. running[gens[h].export] = h \/ h \in stopping
    BY <2>1 DEF SupInv, NoLostManager
  <2>3. QED
    BY <1>1, <2>1, <2>2
<1>7. EntryIsCurrent'
  <2> SUFFICES ASSUME NEW e \in Exports, running'[e] # None
               PROVE  /\ gens'[running'[e]].pc # "free"
                      /\ gens'[running'[e]].export = e
                      /\ ~gens'[running'[e]].cancelled /\ running'[e] \notin stopping'
    BY DEF EntryIsCurrent
  <2>1. running'[e] = running[e] /\ running[e] \in Gens
    BY <1>1 DEF SupInv, SupTypeOK
  <2>2. /\ gens[running[e]].pc # "free" /\ gens[running[e]].export = e
        /\ ~gens[running[e]].cancelled /\ running[e] \notin stopping
    BY <2>1 DEF SupInv, EntryIsCurrent
  <2>3. running[e] # g
    BY <1>1, <2>1, <2>2
  <2>4. QED
    BY <1>1, <1>4, <2>1, <2>2, <2>3
<1>8. QED
  BY <1>3, <1>4, <1>5, <1>6, <1>7 DEF SupInv

\* Every step of the supervisor, its callers and its goroutines keeps the
\* invariant.
LEMMA SupInvStep == SupInv /\ [SupNext]_supVars => SupInv'
<1> SUFFICES ASSUME SupInv, [SupNext]_supVars
             PROVE  SupInv'
  OBVIOUS
<1>1. CASE UNCHANGED supVars
  BY <1>1 DEF supVars, SupInv, SupTypeOK, NoLostManager, EntryIsCurrent, Live
<1>2. ASSUME NEW e \in Exports, Ensure(e) \/ StopDelete(e) \/ Delete(e)
      PROVE  SupInv'
  BY <1>2, EnsureKeepsInv, StopDeleteKeepsInv, SetKeepsInv DEF Delete
<1>3. ASSUME NEW e \in Exports, NEW graph \in Graphs, Set(e, graph)
      PROVE  SupInv'
  BY <1>3, SetKeepsInv
<1>4. ASSUME NEW g \in Gens, StopCancel(g) \/ Manager(g)
      PROVE  SupInv'
  BY <1>4, StopCancelKeepsInv, ManagerMoves, ForgetKeepsInv DEF Manager
<1>5. QED
  BY <1>1, <1>2, <1>3, <1>4 DEF SupNext

\* Every live manager is the entry of its export or is about to be cancelled, in
\* any interleaving of Ensure, Stop and the deferred forget.
THEOREM ManagersAreTracked == SupSpec => []NoLostManager
<1>1. SupInv => NoLostManager
  BY DEF SupInv
<1>2. QED
  BY SupInvInit, SupInvStep, <1>1, PTL DEF SupSpec

\* Every entry names an uncancelled generation of its export that will clear it.
THEOREM EntriesAreCurrent == SupSpec => []EntryIsCurrent
<1>1. SupInv => EntryIsCurrent
  BY DEF SupInv
<1>2. QED
  BY SupInvInit, SupInvStep, <1>1, PTL DEF SupSpec

-----------------------------------------------------------------------------
(* The registrar.                                                          *)

\* A blueprint object that exists has a spec.
BpInv ==
  /\ bp \in [Blueprints -> Object]
  /\ \A b \in Blueprints : bp[b].exists => bp[b].spec \in Graphs

\* A pass under way has a blueprint and the hash of a spec, so that Export names
\* an export, and what it publishes, registers and caches is never absent.
PassInv ==
  /\ reg \in Pass
  /\ reg.pc # "idle" => reg.b \in Blueprints /\ reg.hash \in Graphs

StoreInv ==
  /\ arss \in SUBSET (Exports \X Graphs)
  /\ exports \in [Exports -> Hash]
  /\ claims \in [Exports -> ClaimList]
  /\ bindings \in SUBSET GVKs
  /\ cache \in [Blueprints -> Hash]

RegInv == SupInv /\ BpInv /\ PassInv /\ StoreInv

\* What a step of the registrar does to the supervisor's own variables: nothing,
\* one of the supervisor's operations, or a restart from scratch.
LEMMA RegistrarDrivesSupervisor ==
  ASSUME RegInv, [Next]_vars
  PROVE  [SupNext]_supVars \/ SupInit'
<1>1. reg.pc # "idle" => Export \in Exports /\ reg.hash \in Graphs
  BY ExportAssumption DEF RegInv, PassInv, Export
<1>2. CASE Publish
  <2>1. CASE PublishSet
    BY <1>1, <2>1 DEF PublishSet, SupNext
  <2>2. CASE PublishStop
    BY <1>1, <2>2 DEF PublishStop, SupNext
  <2>3. CASE PublishCancel
    BY <2>3 DEF PublishCancel, SupNext
  <2>4. CASE PublishEnsure
    BY <1>1, <2>4 DEF PublishEnsure, SupNext
  <2>5. CASE UNCHANGED supVars
    BY <2>5
  <2>6. QED
    BY <1>2, <2>1, <2>2, <2>3, <2>4, <2>5
    DEF Publish, AddFinalizer, Build, ApplyARS, ResolveClaims, UpsertAPIExport,
        UpdateStatus, BuildFails, BuildRejected, ClaimsUnresolved, ClaimsPanic, Abandon,
        Fail
<1>3. CASE Withdraw
  <2>1. CASE WithdrawStop
    BY <1>1, <2>1 DEF WithdrawStop, SupNext
  <2>2. CASE WithdrawCancel
    BY <2>2 DEF WithdrawCancel, SupNext
  <2>3. CASE Unregister
    BY <1>1, <2>3 DEF Unregister, SupNext
  <2>4. CASE UNCHANGED supVars
    BY <2>4
  <2>5. QED
    BY <1>3, <2>1, <2>2, <2>3, <2>4
    DEF Withdraw, DeleteARS, DeleteExport, Purge, RemoveFinalizer
<1>4. CASE Managers
  BY <1>4 DEF Managers, Manager, SupNext
<1>5. CASE Restart
  BY <1>5 DEF Restart, SupInit
<1>6. CASE UNCHANGED supVars
  BY <1>6
<1>7. QED
  BY <1>2, <1>3, <1>4, <1>5, <1>6
  DEF Next, vars, Get, TouchBlueprint, DeleteBlueprint, CreateBlueprint,
      EditBlueprint, Rebind, Conflict, CallFails, Undone, AnswerLost, Abandon, Fail

\* A restarted supervisor is an empty one.
LEMMA RestartKeepsSupInv == SupInit' => SupInv'
BY NoneAssumption, SMT
DEF SupInit, SupInv, SupTypeOK, NoLostManager, EntryIsCurrent, Live, FreeGen, Gen

\* Moving on within a pass.
LEMMA GotoKeepsPassInv ==
  ASSUME PassInv, reg.pc # "idle", NEW p \in PublishPoints \cup WithdrawPoints, Goto(p)
  PROVE  PassInv'
BY DEF PassInv, Goto, Pass

\* The end of a pass.
LEMMA EndKeepsPassInv == End => PassInv'
BY NoClaimsTyped, SMT DEF End, Idle, PassInv, Pass, Hash

\* A concurrent write to a blueprint.
LEMMA OutdateKeepsPassInv ==
  ASSUME PassInv, NEW b \in Blueprints, Outdate(b)
  PROVE  PassInv'
BY DEF PassInv, Outdate, Pass

\* Writing one blueprint object.
LEMMA WriteKeepsBpInv ==
  ASSUME BpInv, NEW b \in Blueprints, NEW o \in Object, o.exists => o.spec \in Graphs,
         bp' = [bp EXCEPT ![b] = o]
  PROVE  BpInv'
BY DEF BpInv

\* The absent object, and the object updates of the registrar and the provider.
LEMMA AbsentTyped == Absent \in Object /\ ~Absent.exists
BY DEF Object, Absent, Hash

LEMMA Created ==
  ASSUME NEW h \in Graphs
  PROVE  /\ [Absent EXCEPT !.exists = TRUE, !.spec = h] \in Object
         /\ [Absent EXCEPT !.exists = TRUE, !.spec = h].spec = h
BY DEF Object, Absent, Hash

LEMMA Edited ==
  ASSUME NEW o \in Object, NEW h \in Graphs
  PROVE  [o EXCEPT !.spec = h] \in Object /\ [o EXCEPT !.spec = h].spec = h
BY DEF Object, Hash

LEMMA Marked ==
  ASSUME NEW o \in Object
  PROVE  /\ [o EXCEPT !.deleting = TRUE] \in Object
         /\ [o EXCEPT !.deleting = TRUE].exists = o.exists
         /\ [o EXCEPT !.deleting = TRUE].spec = o.spec
         /\ [o EXCEPT !.fin = TRUE] \in Object
         /\ [o EXCEPT !.fin = TRUE].exists = o.exists
         /\ [o EXCEPT !.fin = TRUE].spec = o.spec
         /\ [o EXCEPT !.ready = FALSE] \in Object
         /\ [o EXCEPT !.ready = FALSE].exists = o.exists
         /\ [o EXCEPT !.ready = FALSE].spec = o.spec
BY DEF Object

LEMMA Published ==
  ASSUME NEW o \in Object, NEW h \in Graphs
  PROVE  /\ [o EXCEPT !.exported = TRUE, !.observed = h, !.ready = TRUE] \in Object
         /\ [o EXCEPT !.exported = TRUE, !.observed = h, !.ready = TRUE].exists = o.exists
         /\ [o EXCEPT !.exported = TRUE, !.observed = h, !.ready = TRUE].spec = o.spec
BY DEF Object, Hash

OwnInv == BpInv /\ PassInv /\ StoreInv

\* Ready becomes False or the update is lost; the pass ends.
LEMMA ReportKeepsBpInv ==
  ASSUME OwnInv, reg.pc # "idle", Report
  PROVE  BpInv' /\ PassInv'
<1>1. PassInv'
  BY EndKeepsPassInv
<1>3. CASE bp' = [bp EXCEPT ![reg.b].ready = FALSE]
  <2>1. reg.b \in Blueprints /\ bp[reg.b] \in Object
    BY DEF OwnInv, PassInv, BpInv
  <2> DEFINE o == [bp[reg.b] EXCEPT !.ready = FALSE]
  <2>2. bp' = [bp EXCEPT ![reg.b] = o]
    BY <1>3
  <2>3. o \in Object /\ (o.exists => o.spec \in Graphs)
    BY <2>1, Marked DEF OwnInv, BpInv, PassInv
  <2>4. BpInv'
    BY <2>1, <2>2, <2>3, WriteKeepsBpInv DEF OwnInv
  <2>5. QED
    BY <1>1, <2>4
<1>4. CASE UNCHANGED bp
  BY <1>1, <1>4 DEF OwnInv, BpInv
<1>5. QED
  BY <1>3, <1>4

LEMMA FailKeepsOwnInv ==
  ASSUME OwnInv, reg.pc # "idle", Fail
  PROVE  OwnInv'
<1>1. BpInv' /\ PassInv'
  BY ReportKeepsBpInv DEF Fail
<1>2. StoreInv'
  BY DEF Fail, exportVars, OwnInv, StoreInv
<1>3. QED
  BY <1>1, <1>2 DEF OwnInv

\* The finalizer is stored.
LEMMA FinalizerKeepsBpInv ==
  ASSUME OwnInv, StoreFinalizer
  PROVE  BpInv'
<1>1. reg.b \in Blueprints /\ reg.hash \in Graphs
  BY DEF OwnInv, PassInv
<1>2. bp[reg.b] \in Object /\ (bp[reg.b].exists => bp[reg.b].spec \in Graphs)
  BY <1>1 DEF OwnInv, BpInv
<1> DEFINE o == [bp[reg.b] EXCEPT !.fin = TRUE]
<1>3. o \in Object /\ (o.exists => o.spec \in Graphs)
  BY <1>1, <1>2, Marked
<1>4. bp' = [bp EXCEPT ![reg.b] = o]
  OBVIOUS
<1>5. QED
  BY <1>1, <1>3, <1>4, WriteKeepsBpInv DEF OwnInv

\* A call takes effect and its answer is lost.
LEMMA AnswerLostKeepsOwnInv ==
  ASSUME OwnInv, AnswerLost
  PROVE  OwnInv'
<1>1. reg.pc # "idle"
  BY DEF AnswerLost
<1>2. reg.b \in Blueprints /\ reg.hash \in Graphs /\ Export \in Exports
  BY <1>1, ExportAssumption DEF OwnInv, PassInv, Export
<1>3. BpInv'
  <2>1. CASE StoreFinalizer
    BY <2>1, FinalizerKeepsBpInv
  <2>2. CASE Report
    BY <1>1, <2>2, ReportKeepsBpInv
  <2>3. CASE UNCHANGED bp
    BY <2>3 DEF OwnInv, BpInv
  <2>4. QED
    BY <2>1, <2>2, <2>3 DEF AnswerLost
<1>4. PassInv'
  BY EndKeepsPassInv DEF AnswerLost
<1>5. StoreInv'
  <2>1. arss' \in SUBSET (Exports \X Graphs) /\ exports' \in [Exports -> Hash]
    BY <1>2, SMT DEF AnswerLost, exportVars, OwnInv, StoreInv, Hash
  <2>2. claims' \in [Exports -> ClaimList]
    BY <1>2, NoClaimsTyped DEF AnswerLost, exportVars, OwnInv, PassInv, Pass, StoreInv
  <2>3. QED
    BY <2>1, <2>2 DEF AnswerLost, OwnInv, StoreInv
<1>6. QED
  BY <1>3, <1>4, <1>5 DEF OwnInv

\* The provider's writes keep the objects and the pass well formed.
LEMMA ProviderKeepsOwnInv ==
  ASSUME OwnInv, NEW b \in Blueprints, NEW h \in Graphs,
         \/ CreateBlueprint(b, h) \/ EditBlueprint(b, h)
         \/ TouchBlueprint(b) \/ DeleteBlueprint(b)
  PROVE  OwnInv'
<1>1. StoreInv'
  BY DEF CreateBlueprint, EditBlueprint, TouchBlueprint, DeleteBlueprint, serverVars, exportVars,
         OwnInv, StoreInv
<1>2. PassInv'
  <2>1. CASE Outdate(b)
    BY <2>1, OutdateKeepsPassInv DEF OwnInv
  <2>2. CASE UNCHANGED reg
    BY <2>2 DEF OwnInv, PassInv
  <2>3. QED
    BY <2>1, <2>2 DEF CreateBlueprint, EditBlueprint, TouchBlueprint, DeleteBlueprint
<1>3. BpInv'
  <2>1. bp[b] \in Object /\ (bp[b].exists => bp[b].spec \in Graphs)
    BY DEF OwnInv, BpInv
  <2>2. CASE CreateBlueprint(b, h)
    <3> DEFINE o == [Absent EXCEPT !.exists = TRUE, !.spec = h]
    <3>1. o \in Object /\ o.spec \in Graphs
      BY Created
    <3>2. bp' = [bp EXCEPT ![b] = o]
      BY <2>2 DEF CreateBlueprint
    <3>3. QED
      BY <3>1, <3>2, WriteKeepsBpInv DEF OwnInv
  <2>3. CASE EditBlueprint(b, h)
    <3> DEFINE o == [bp[b] EXCEPT !.spec = h]
    <3>1. o \in Object /\ o.spec \in Graphs
      BY <2>1, Edited
    <3>2. bp' = [bp EXCEPT ![b] = o]
      BY <2>3 DEF EditBlueprint
    <3>3. QED
      BY <3>1, <3>2, WriteKeepsBpInv DEF OwnInv
  <2>4. CASE DeleteBlueprint(b)
    <3> DEFINE o == IF bp[b].fin THEN [bp[b] EXCEPT !.deleting = TRUE] ELSE Absent
    <3>1. o \in Object /\ (o.exists => o.spec \in Graphs)
      BY <2>1, Marked, AbsentTyped
    <3>2. bp' = [bp EXCEPT ![b] = o]
      BY <2>4 DEF DeleteBlueprint
    <3>3. QED
      BY <3>1, <3>2, WriteKeepsBpInv DEF OwnInv
  <2>5. CASE TouchBlueprint(b)
    BY <2>5 DEF TouchBlueprint, serverVars, exportVars, OwnInv, BpInv
  <2>6. QED
    BY <2>2, <2>3, <2>4, <2>5
<1>4. QED
  BY <1>1, <1>2, <1>3 DEF OwnInv

\* A pass begins with the blueprint and the spec it has read.
LEMMA GetKeepsOwnInv ==
  ASSUME OwnInv, NEW b \in Blueprints, Get(b)
  PROVE  OwnInv'
<1>1. BpInv' /\ StoreInv'
  BY DEF Get, serverVars, exportVars, OwnInv, BpInv, StoreInv
<1>2. bp[b] \in Object /\ bp[b].spec \in Graphs
  BY DEF Get, OwnInv, BpInv
<1>3. PICK p \in PublishPoints \cup WithdrawPoints :
        reg' = [pc |-> p, b |-> b, hash |-> bp[b].spec, exported |-> bp[b].exported,
                changed |-> bp[b].observed # bp[b].spec, stale |-> FALSE,
                claims |-> NoClaims]
  <2>1. CASE bp[b].deleting /\ bp[b].exported
    BY <2>1 DEF Get, WithdrawPoints
  <2>2. CASE bp[b].deleting /\ ~bp[b].exported
    BY <2>2 DEF Get, WithdrawPoints
  <2>3. CASE ~bp[b].deleting /\ bp[b].fin
    BY <2>3 DEF Get, PublishPoints
  <2>4. CASE ~bp[b].deleting /\ ~bp[b].fin
    BY <2>4 DEF Get, PublishPoints
  <2>5. QED
    BY <2>1, <2>2, <2>3, <2>4
<1>4. PassInv'
  BY <1>2, <1>3, NoClaimsTyped DEF PassInv, Pass, Object, Hash
<1>5. QED
  BY <1>1, <1>4 DEF OwnInv

\* The steps of a pass that publishes.
LEMMA PublishKeepsOwnInv ==
  ASSUME OwnInv, Publish
  PROVE  OwnInv'
<1>1. reg.pc # "idle"
  BY DEF Publish, AddFinalizer, Build, ApplyARS, ResolveClaims, UpsertAPIExport,
         PublishSet, PublishStop, PublishCancel, PublishEnsure, UpdateStatus, BuildFails,
         BuildRejected, ClaimsUnresolved, ClaimsPanic
<1>2. reg.b \in Blueprints /\ reg.hash \in Graphs /\ Export \in Exports
  BY <1>1, ExportAssumption DEF OwnInv, PassInv, Export
<1>3. bp[reg.b] \in Object /\ (bp[reg.b].exists => bp[reg.b].spec \in Graphs)
  BY <1>2 DEF OwnInv, BpInv
<1>4. CASE AddFinalizer
  <2>3. BpInv'
    BY <1>4, FinalizerKeepsBpInv DEF AddFinalizer
  <2>4. PassInv'
    BY <1>1, <1>4, GotoKeepsPassInv DEF AddFinalizer, OwnInv, PublishPoints
  <2>5. StoreInv'
    BY <1>4 DEF AddFinalizer, exportVars, OwnInv, StoreInv
  <2>6. QED
    BY <2>3, <2>4, <2>5 DEF OwnInv
<1>5. CASE UpdateStatus
  <2> DEFINE o == [bp[reg.b] EXCEPT !.exported = TRUE, !.observed = reg.hash,
                                    !.ready = TRUE]
  <2>1. o \in Object /\ (o.exists => o.spec \in Graphs)
    BY <1>2, <1>3, Published
  <2>2. bp' = [bp EXCEPT ![reg.b] = o]
    BY <1>5, <1>2 DEF UpdateStatus, OwnInv, BpInv
  <2>3. BpInv'
    BY <1>2, <2>1, <2>2, WriteKeepsBpInv DEF OwnInv
  <2>4. PassInv'
    BY <1>5, EndKeepsPassInv DEF UpdateStatus
  <2>5. StoreInv'
    BY <1>5 DEF UpdateStatus, exportVars, OwnInv, StoreInv
  <2>6. QED
    BY <2>3, <2>4, <2>5 DEF OwnInv
<1>6. CASE Build \/ ApplyARS
  <2>1. BpInv'
    BY <1>6 DEF Build, ApplyARS, serverVars, exportVars, OwnInv, BpInv
  <2>2. PassInv'
    BY <1>1, <1>6, GotoKeepsPassInv DEF Build, ApplyARS, OwnInv, PublishPoints
  <2>3. StoreInv'
    BY <1>2, <1>6, SMT
    DEF Build, ApplyARS, serverVars, exportVars, OwnInv, StoreInv, Hash
  <2>4. QED
    BY <2>1, <2>2, <2>3 DEF OwnInv
<1>a. CASE ResolveClaims
  <2>1. BpInv' /\ StoreInv'
    BY <1>a DEF ResolveClaims, serverVars, exportVars, OwnInv, BpInv, StoreInv
  <2>2. DerivedClaims \in ClaimList
    BY <1>2, CompiledAssumption, ClaimsTyped DEF DerivedClaims
  <2>3. PassInv'
    BY <1>1, <1>2, <1>a, <2>2 DEF ResolveClaims, OwnInv, PassInv, Pass, PublishPoints
  <2>4. QED
    BY <2>1, <2>3 DEF OwnInv
<1>b. CASE UpsertAPIExport
  <2>1. BpInv'
    BY <1>b DEF UpsertAPIExport, OwnInv, BpInv
  <2>2. StoreInv'
    BY <1>2, <1>b DEF UpsertAPIExport, OwnInv, PassInv, Pass, StoreInv, Hash
  <2>3. PassInv'
    BY <1>1, <1>2, <1>b, NoClaimsTyped
    DEF UpsertAPIExport, OwnInv, PassInv, Pass, PublishPoints
  <2>4. QED
    BY <2>1, <2>2, <2>3 DEF OwnInv
<1>c. CASE ClaimsPanic
  BY <1>c, EndKeepsPassInv
  DEF ClaimsPanic, Abandon, serverVars, exportVars, OwnInv, BpInv, StoreInv
<1>7. CASE PublishSet \/ PublishStop \/ PublishCancel \/ PublishEnsure
  <2>1. BpInv' /\ StoreInv'
    BY <1>7 DEF PublishSet, PublishStop, PublishCancel, PublishEnsure, serverVars, exportVars,
                OwnInv, BpInv, StoreInv
  <2>2. PICK p \in PublishPoints : Goto(p)
    BY <1>7 DEF PublishSet, PublishStop, PublishCancel, PublishEnsure, PublishPoints
  <2>3. PassInv'
    BY <1>1, <2>2, GotoKeepsPassInv DEF OwnInv
  <2>4. QED
    BY <2>1, <2>3 DEF OwnInv
<1>8. CASE BuildFails \/ ClaimsUnresolved
  BY <1>1, <1>8, FailKeepsOwnInv DEF BuildFails, ClaimsUnresolved
<1>d. CASE BuildRejected
  <2>1. BpInv' /\ PassInv'
    BY <1>1, <1>d, ReportKeepsBpInv DEF BuildRejected
  <2>2. StoreInv'
    BY <1>2, <1>d DEF BuildRejected, exportVars, OwnInv, StoreInv, Hash
  <2>3. QED
    BY <2>1, <2>2 DEF OwnInv
<1>9. QED
  BY <1>4, <1>5, <1>6, <1>7, <1>8, <1>a, <1>b, <1>c, <1>d DEF Publish

\* The steps of a pass that withdraws.
LEMMA WithdrawKeepsOwnInv ==
  ASSUME OwnInv, Withdraw
  PROVE  OwnInv'
<1>1. reg.pc # "idle"
  BY DEF Withdraw, DeleteARS, DeleteExport, Purge, WithdrawStop, WithdrawCancel,
         Unregister, RemoveFinalizer
<1>2. reg.b \in Blueprints /\ Export \in Exports
  BY <1>1, ExportAssumption DEF OwnInv, PassInv, Export
<1>3. CASE RemoveFinalizer
  <2>1. Absent \in Object /\ ~Absent.exists
    BY DEF Absent, Object, Hash
  <2>2. BpInv'
    BY <1>2, <1>3, <2>1, WriteKeepsBpInv DEF RemoveFinalizer, OwnInv
  <2>3. PassInv'
    BY <1>3, EndKeepsPassInv DEF RemoveFinalizer
  <2>4. StoreInv'
    BY <1>3 DEF RemoveFinalizer, exportVars, OwnInv, StoreInv
  <2>5. QED
    BY <2>2, <2>3, <2>4 DEF OwnInv
<1>4. CASE ~RemoveFinalizer
  <2>1. BpInv'
    BY <1>4 DEF Withdraw, DeleteARS, DeleteExport, Purge, WithdrawStop, WithdrawCancel,
                Unregister, serverVars, exportVars, OwnInv, BpInv
  <2>2. PICK p \in WithdrawPoints : Goto(p)
    BY <1>4 DEF Withdraw, DeleteARS, DeleteExport, Purge, WithdrawStop, WithdrawCancel,
                Unregister, WithdrawPoints
  <2>3. PassInv'
    BY <1>1, <2>2, GotoKeepsPassInv DEF OwnInv
  <2>4. StoreInv'
    BY <1>2, <1>4, NoClaimsTyped
    DEF Withdraw, DeleteARS, DeleteExport, Purge, WithdrawStop, WithdrawCancel,
        Unregister, serverVars, exportVars, OwnInv, StoreInv, Hash
  <2>5. QED
    BY <2>1, <2>3, <2>4 DEF OwnInv
<1>5. QED
  BY <1>3, <1>4

\* The registrar starts with nothing and no pass.
LEMMA RegInvInit == Init => RegInv
<1> SUFFICES ASSUME Init PROVE RegInv
  OBVIOUS
<1>1. Absent \in Object /\ ~Absent.exists
  BY DEF Absent, Object, Hash
<1>2. BpInv
  BY <1>1 DEF Init, BpInv
<1>3. PassInv
  BY NoClaimsTyped DEF Init, Idle, PassInv, Pass, Hash
<1>4. StoreInv
  BY NoClaimsTyped DEF Init, Bindable, StoreInv, Hash
<1>5. QED
  BY <1>2, <1>3, <1>4, SupInvInit DEF Init, RegInv

\* Every step of the registrar, the provider, the managers and the process keeps
\* the invariant.
LEMMA RegInvStep == RegInv /\ [Next]_vars => RegInv'
<1> SUFFICES ASSUME RegInv, [Next]_vars
             PROVE  RegInv'
  OBVIOUS
<1>1. SupInv'
  BY RegistrarDrivesSupervisor, SupInvStep, RestartKeepsSupInv DEF RegInv
<1>2. OwnInv
  BY DEF RegInv, OwnInv
<1>3. OwnInv'
  <2>1. CASE Publish \/ Withdraw
    BY <1>2, <2>1, PublishKeepsOwnInv, WithdrawKeepsOwnInv
  <2>2. ASSUME NEW b \in Blueprints, Get(b)
        PROVE  OwnInv'
    BY <1>2, <2>2, GetKeepsOwnInv
  <2>3. ASSUME NEW b \in Blueprints, TouchBlueprint(b) \/ DeleteBlueprint(b)
        PROVE  OwnInv'
    <3>1. PICK h : h \in Graphs
      BY <1>2, <2>3
      DEF TouchBlueprint, DeleteBlueprint, OwnInv, BpInv
    <3>2. QED
      BY <1>2, <2>3, <3>1, ProviderKeepsOwnInv
  <2>4. ASSUME NEW b \in Blueprints, NEW h \in Graphs,
               CreateBlueprint(b, h) \/ EditBlueprint(b, h)
        PROVE  OwnInv'
    BY <1>2, <2>4, ProviderKeepsOwnInv
  <2>5. CASE Conflict \/ (Undone /\ Abandon)
    BY <1>2, <2>5, EndKeepsPassInv
    DEF Conflict, Abandon, serverVars, exportVars, OwnInv, BpInv, StoreInv
  <2>6. CASE Undone /\ ~Abandon
    BY <1>2, <2>6, FailKeepsOwnInv DEF Undone
  <2>b. CASE AnswerLost
    BY <1>2, <2>b, AnswerLostKeepsOwnInv
  <2>7. CASE Managers \/ UNCHANGED vars
    BY <1>2, <2>7 DEF Managers, serverVars, exportVars, vars, OwnInv, BpInv, PassInv, StoreInv
  <2>8. CASE Restart
    BY <1>2, <2>8, EndKeepsPassInv
    DEF Restart, serverVars, exportVars, OwnInv, BpInv, StoreInv, Hash
  <2>a. ASSUME NEW gr \in Bindable, Rebind(gr)
        PROVE  OwnInv'
    BY <1>2, <2>a DEF Rebind, Bindable, exportVars, OwnInv, BpInv, PassInv, StoreInv
  <2>9. QED
    BY <2>1, <2>2, <2>3, <2>4, <2>5, <2>6, <2>7, <2>8, <2>a, <2>b DEF Next, CallFails
<1>4. QED
  BY <1>1, <1>3 DEF RegInv, OwnInv

\* The state of the registrar and of the supervisor it drives stays well formed,
\* whatever fails, restarts or is edited.
THEOREM RegistrarTypeCorrect == Spec => []TypeOK
<1>1. RegInv => TypeOK
  BY DEF RegInv, SupInv, BpInv, PassInv, StoreInv, TypeOK
<1>2. QED
  BY RegInvInit, RegInvStep, <1>1, PTL DEF Spec

\* Under the registrar every live manager is the entry of its export or is about
\* to be cancelled: OnPublished and OnDeleted never leave a manager behind that a
\* later Stop cannot reach, in any interleaving with exiting generations.
THEOREM RegistrarTracksManagers == Spec => []NoLostManager
<1>1. RegInv => NoLostManager
  BY DEF RegInv, SupInv
<1>2. QED
  BY RegInvInit, RegInvStep, <1>1, PTL DEF Spec

\* Under the registrar every entry names an uncancelled generation of its export,
\* so the Ensure of a resync is a no-op only for a manager that will clear its
\* entry when it ends.
THEOREM RegistrarEntriesCurrent == Spec => []EntryIsCurrent
<1>1. RegInv => EntryIsCurrent
  BY DEF RegInv, SupInv
<1>2. QED
  BY RegInvInit, RegInvStep, <1>1, PTL DEF Spec

(* What a pass has done and a blueprint still holds.                       *)

\* The pass is over blueprint b and stands at one of the points P.
At(b, P) == reg.b = b /\ reg.pc \in P

Publishing == PublishPoints \ {"addfin"}

Withdrawn == {"purge", "withdraw", "abort", "unregister", "remfin"}

\* An object holds the finalizer from before the first publishing call until after
\* the last withdrawing one.
Held(b) ==
  /\ bp[b].exported \/ bp[b].deleting => bp[b].fin
  /\ bp[b].fin => bp[b].exists
  /\ At(b, {"addfin"}) /\ ~reg.stale => bp[b].exists
  /\ At(b, Publishing) => bp[b].fin
  /\ At(b, WithdrawPoints) => bp[b].deleting
  /\ At(b, {"delars", "delexport"}) => bp[b].exported

\* The export references a schema that is there, but for a withdrawal under way,
\* which will come back until the export is gone.
Missing(b) ==
  exports[ExportOf[b]] # None /\ <<ExportOf[b], exports[ExportOf[b]]>> \notin arss

SchemaHeld(b) ==
  /\ At(b, {"claims", "export"}) => <<ExportOf[b], reg.hash>> \in arss
  /\ At(b, {"set", "stop", "cancel", "ensure", "status"}) => exports[ExportOf[b]] # None
  /\ bp[b].exported /\ ~bp[b].deleting => exports[ExportOf[b]] # None
  /\ Missing(b) => bp[b].deleting /\ bp[b].exported /\ ~At(b, Withdrawn)

\* What the leaves need to know of the pass and of two blueprints' exports.
LEMMA OwnExport ==
  ASSUME RegInv, NEW b \in Blueprints
  PROVE  /\ ExportOf[b] \in Exports
         /\ bp[b] \in Object /\ bp \in [Blueprints -> Object] /\ reg \in Pass
         /\ reg.pc # "idle" =>
              /\ reg.b \in Blueprints /\ reg.hash \in Graphs /\ reg.hash # None
              /\ Export \in Exports
              /\ Export = ExportOf[b] <=> reg.b = b
BY ExportAssumption, NoneAssumption DEF RegInv, BpInv, PassInv, Export

\* The four stores are functions of b's export and of b.
LEMMA StoresTyped ==
  ASSUME RegInv
  PROVE  /\ running \in [Exports -> Gens \cup {None}]
         /\ registry \in [Exports -> Graphs \cup {None}]
         /\ exports \in [Exports -> Hash] /\ cache \in [Blueprints -> Hash]
BY DEF RegInv, SupInv, SupTypeOK, StoreInv

\* What ends a pass, or leaves it alone, and touches no object but for Ready.
Quiet(b) ==
  /\ bp'[b] = bp[b] \/ bp'[b] = [bp[b] EXCEPT !.ready = FALSE]
  /\ reg' = reg \/ reg' = Idle
  /\ UNCHANGED <<arss, exports>>

\* Failures, manager steps, restarts and rebindings are quiet.
LEMMA QuietSteps ==
  ASSUME RegInv, NEW b \in Blueprints,
         \/ Conflict \/ Undone \/ BuildFails \/ BuildRejected \/ ClaimsUnresolved
         \/ ClaimsPanic \/ Managers \/ Restart \/ UNCHANGED vars
         \/ \E gr \in Bindable : Rebind(gr)
  PROVE  Quiet(b)
<1>1. bp \in [Blueprints -> Object] BY DEF RegInv, BpInv
<1>2. CASE Conflict \/ ClaimsPanic \/ Managers \/ Restart \/ UNCHANGED vars
  BY <1>2 DEF Conflict, ClaimsPanic, Managers, Restart, vars, Abandon, End, serverVars,
              exportVars, Quiet
<1>3. CASE \E gr \in Bindable : Rebind(gr)
  BY <1>3 DEF Rebind, exportVars, Quiet
<1>4. CASE Fail \/ BuildRejected
  <2>1. reg' = Idle /\ UNCHANGED <<arss, exports>>
    BY <1>4 DEF Fail, BuildRejected, End, exportVars
  <2>2. bp' = bp \/ bp' = [bp EXCEPT ![reg.b].ready = FALSE]
    BY <1>4 DEF Fail, BuildRejected
  <2>3. bp'[b] = bp[b] \/ bp'[b] = [bp[b] EXCEPT !.ready = FALSE]
    <3>1. CASE bp' = [bp EXCEPT ![reg.b].ready = FALSE] /\ reg.b = b
      BY <1>1, <3>1
    <3>2. CASE bp' = [bp EXCEPT ![reg.b].ready = FALSE] /\ reg.b # b
      BY <1>1, <3>2
    <3>3. QED
      BY <2>2, <3>1, <3>2
  <2>4. QED
    BY <2>1, <2>3 DEF Quiet
<1>5. CASE Abandon
  BY <1>5 DEF Abandon, End, serverVars, exportVars, Quiet
<1>6. QED
  BY <1>2, <1>3, <1>4, <1>5 DEF Undone, BuildFails, ClaimsUnresolved

\* A quiet step takes nothing that an object or an export holds.
LEMMA QuietKeepsHeld ==
  ASSUME RegInv, NEW b \in Blueprints, Held(b), SchemaHeld(b), Quiet(b)
  PROVE  Held(b)' /\ SchemaHeld(b)'
<1>1. /\ bp'[b].exported = bp[b].exported /\ bp'[b].deleting = bp[b].deleting
      /\ bp'[b].fin = bp[b].fin /\ bp'[b].exists = bp[b].exists
  BY OwnExport DEF Quiet, Object
<1>2. CASE reg' = reg
  BY <1>1, <1>2 DEF Quiet, Held, SchemaHeld, Missing, At
<1>3. CASE reg' = Idle
  <2>1. reg'.pc = "idle"
    BY <1>3 DEF Idle
  <2>2. QED
    BY <1>1, <2>1 DEF Quiet, Held, SchemaHeld, Missing, At, Publishing, PublishPoints,
                      WithdrawPoints, Withdrawn
<1>4. QED
  BY <1>2, <1>3 DEF Quiet

\* A pass over another blueprint leaves b alone.
Aside(b) ==
  /\ reg.b # b /\ (reg'.pc # "idle" => reg'.b # b)
  /\ bp'[b] = bp[b]
  /\ exports'[ExportOf[b]] = exports[ExportOf[b]]
  /\ \A k : <<ExportOf[b], k>> \in arss => <<ExportOf[b], k>> \in arss'

\* Neither does a pass over another blueprint.
LEMMA AsideKeepsHeld ==
  ASSUME RegInv, NEW b \in Blueprints, Held(b), SchemaHeld(b), Aside(b)
  PROVE  Held(b)' /\ SchemaHeld(b)'
<1>1. ~At(b, {"addfin"})' /\ ~At(b, Publishing)' /\ ~At(b, WithdrawPoints)'
      /\ ~At(b, {"delars", "delexport"})' /\ ~At(b, {"claims", "export"})'
      /\ ~At(b, {"set", "stop", "cancel", "ensure", "status"})' /\ ~At(b, Withdrawn)'
  BY DEF Aside, At, Publishing, PublishPoints, WithdrawPoints, Withdrawn
<1>2. Held(b)'
  BY <1>1 DEF Aside, Held, At
<1>3. QED
  BY <1>1, <1>2 DEF Aside, SchemaHeld, Missing, At

\* The provider's steps.
LEMMA ProviderKeepsHeld ==
  ASSUME RegInv, NEW b \in Blueprints, Held(b), SchemaHeld(b), NEW a \in Blueprints,
         NEW h \in Graphs,
         CreateBlueprint(a, h) \/ EditBlueprint(a, h) \/ TouchBlueprint(a)
         \/ DeleteBlueprint(a)
  PROVE  Held(b)' /\ SchemaHeld(b)'
<1>1. bp[b] \in Object /\ bp \in [Blueprints -> Object] /\ reg \in Pass
  BY OwnExport
<1>2. UNCHANGED <<arss, exports>>
  BY DEF CreateBlueprint, EditBlueprint, TouchBlueprint, DeleteBlueprint, exportVars,
         serverVars
<1>3. /\ reg'.pc = reg.pc /\ reg'.b = reg.b /\ reg'.hash = reg.hash
      /\ (reg.stale => reg'.stale)
      /\ (DeleteBlueprint(a) \/ EditBlueprint(a, h)) /\ reg.b = a => reg'.stale
  <2>1. CASE reg' = reg /\ CreateBlueprint(a, h)
    BY <1>1, <2>1 DEF CreateBlueprint, DeleteBlueprint, EditBlueprint
  <2>2. CASE Outdate(a)
    <3>1. reg'.pc = reg.pc /\ reg'.b = reg.b /\ reg'.hash = reg.hash
      BY <1>1, <2>2 DEF Outdate, Pass
    <3>2. reg'.stale = (reg.stale \/ reg.b = a)
      BY <1>1, <2>2 DEF Outdate, Pass
    <3>3. (reg.stale => reg'.stale) /\ (reg.b = a => reg'.stale)
      BY <3>2
    <3>4. QED
      BY <3>1, <3>3
  <2>3. QED
    BY <2>1, <2>2 DEF CreateBlueprint, EditBlueprint, TouchBlueprint, DeleteBlueprint
<1>4. CASE bp'[b] = bp[b]
  BY <1>2, <1>3, <1>4 DEF Held, SchemaHeld, Missing, At
<1>5. CASE a = b /\ CreateBlueprint(a, h)
  <2>1. bp'[b] = [Absent EXCEPT !.exists = TRUE, !.spec = h] /\ ~bp[b].exists
    BY <1>1, <1>5 DEF CreateBlueprint
  <2>2. bp'[b].exists /\ ~bp'[b].fin /\ ~bp'[b].deleting /\ ~bp'[b].exported
    BY <2>1 DEF Absent
  <2>3. QED
    BY <1>1, <1>2, <1>3, <2>1, <2>2 DEF Held, SchemaHeld, Missing, At, Object
<1>6. CASE a = b /\ EditBlueprint(a, h)
  <2>1. bp'[b] = [bp[b] EXCEPT !.spec = h]
    BY <1>1, <1>6 DEF EditBlueprint
  <2>2. /\ bp'[b].exported = bp[b].exported /\ bp'[b].deleting = bp[b].deleting
        /\ bp'[b].fin = bp[b].fin /\ bp'[b].exists = bp[b].exists
    BY <1>1, <2>1 DEF Object
  <2>3. QED
    BY <1>2, <1>3, <2>2 DEF Held, SchemaHeld, Missing, At
<1>7. CASE a = b /\ DeleteBlueprint(a) /\ bp[b].fin
  <2>1. bp'[b] = [bp[b] EXCEPT !.deleting = TRUE] /\ ~bp[b].deleting
    BY <1>1, <1>7 DEF DeleteBlueprint
  <2>2. /\ bp'[b].exported = bp[b].exported /\ bp'[b].deleting
        /\ bp'[b].fin = bp[b].fin /\ bp'[b].exists = bp[b].exists
    BY <1>1, <2>1 DEF Object
  <2>3. QED
    BY <1>2, <1>3, <1>7, <2>1, <2>2 DEF Held, SchemaHeld, Missing, At
<1>8. CASE a = b /\ DeleteBlueprint(a) /\ ~bp[b].fin
  <2>1. bp'[b] = Absent /\ ~bp[b].deleting
    BY <1>1, <1>8 DEF DeleteBlueprint
  <2>2. ~bp'[b].exported /\ ~bp'[b].deleting /\ ~bp'[b].fin /\ ~bp'[b].exists
    BY <2>1, SMT DEF Absent
  <2>3. QED
    BY <1>2, <1>3, <1>8, <2>1, <2>2 DEF Held, SchemaHeld, Missing, At
<1>9. QED
  BY <1>1, <1>4, <1>5, <1>6, <1>7, <1>8
  DEF CreateBlueprint, EditBlueprint, TouchBlueprint, DeleteBlueprint, serverVars, exportVars

\* Get chooses between publishing and withdrawing.
LEMMA GetKeepsHeld ==
  ASSUME RegInv, NEW b \in Blueprints, Held(b), SchemaHeld(b), NEW a \in Blueprints, Get(a)
  PROVE  Held(b)' /\ SchemaHeld(b)'
<1>1. /\ reg.pc = "idle" /\ bp[a].exists /\ reg'.b = a /\ ~reg'.stale
      /\ UNCHANGED <<bp, arss, exports>>
  BY DEF Get, serverVars, exportVars
<1>2. CASE a # b
  <2>1. reg'.pc = "idle" \/ reg'.b # b
    BY <1>1, <1>2
  <2>2. QED
    BY <1>1, <1>2 DEF Held, SchemaHeld, Missing, At
<1>3. CASE a = b
  <2>1. reg'.pc = CASE bp[b].deleting /\ bp[b].exported -> "delars"
                    [] bp[b].deleting /\ ~bp[b].exported -> "purge"
                    [] ~bp[b].deleting /\ bp[b].fin -> "build"
                    [] ~bp[b].deleting /\ ~bp[b].fin -> "addfin"
    BY <1>3 DEF Get
  <2>2. bp[b] \in Object
    BY OwnExport
  <2>3. CASE bp[b].deleting /\ bp[b].exported
    <3>1. reg'.pc = "delars" BY <2>1, <2>3
    <3>2. QED
      BY <1>1, <1>3, <2>3, <3>1
      DEF Held, SchemaHeld, Missing, At, Publishing, PublishPoints, Withdrawn
  <2>4. CASE bp[b].deleting /\ ~bp[b].exported
    <3>1. reg'.pc = "purge" BY <2>1, <2>4
    <3>2. QED
      BY <1>1, <1>3, <2>4, <3>1
      DEF Held, SchemaHeld, Missing, At, Publishing, PublishPoints
  <2>5. CASE ~bp[b].deleting /\ bp[b].fin
    <3>1. reg'.pc = "build" BY <2>1, <2>5
    <3>2. QED
      BY <1>1, <1>3, <2>5, <3>1
      DEF Held, SchemaHeld, Missing, At, WithdrawPoints, Withdrawn
  <2>6. CASE ~bp[b].deleting /\ ~bp[b].fin
    <3>1. reg'.pc = "addfin" BY <2>1, <2>6
    <3>2. QED
      BY <1>1, <1>3, <2>6, <3>1
      DEF Held, SchemaHeld, Missing, At, Publishing, WithdrawPoints, Withdrawn
  <2>7. QED
    BY <2>2, <2>3, <2>4, <2>5, <2>6 DEF Object
<1>4. QED
  BY <1>2, <1>3

\* The pass moves from p to q.
Moved(p, q) ==
  /\ reg.pc = p /\ reg'.pc = q
  /\ reg'.b = reg.b /\ reg'.hash = reg.hash /\ reg'.exported = reg.exported

\* Goto changes the point of the pass and nothing else.
LEMMA GotoMoves ==
  ASSUME reg \in Pass, NEW q, Goto(q) PROVE Moved(reg.pc, q)
BY DEF Goto, Moved, Pass

\* Moving on while publishing keeps the finalizer rules.
LEMMA MovedHeld ==
  ASSUME NEW b, Held(b), reg.b = b, NEW p \in Publishing, NEW q \in Publishing,
         Moved(p, q), bp' = bp
  PROVE  Held(b)'
<1>1. At(b, Publishing) /\ ~At(b, {"addfin"})' /\ ~At(b, WithdrawPoints)'
      /\ ~At(b, {"delars", "delexport"})'
  BY DEF Moved, At, Publishing, PublishPoints, WithdrawPoints
<1>2. QED
  BY <1>1 DEF Held

\* The steps between whose ends the invariant makes no difference.
SameStage(p, q) ==
  /\ q \in {"claims", "export"} => p \in {"claims", "export"}
  /\ q \in {"set", "stop", "cancel", "ensure", "status"} =>
       p \in {"set", "stop", "cancel", "ensure", "status"}

\* Most moves of a publishing pass stay within a stage.
LEMMA MovedPoints ==
  /\ SameStage("build", "ars") /\ SameStage("claims", "export")
  /\ \A p \in {"set", "stop", "cancel", "ensure"},
        q \in {"stop", "cancel", "ensure", "status"} : SameStage(p, q)
BY DEF SameStage

\* Such a move changes nothing that the invariant speaks of.
LEMMA MovesKeepHeld ==
  ASSUME NEW b, Held(b), SchemaHeld(b), reg.b = b, NEW p \in Publishing,
         NEW q \in Publishing, SameStage(p, q), Moved(p, q), UNCHANGED <<bp, arss, exports>>
  PROVE  Held(b)' /\ SchemaHeld(b)'
<1>1. Held(b)'
  BY MovedHeld
<1>2. ~At(b, Withdrawn)'
  BY DEF Moved, At, Publishing, PublishPoints, Withdrawn
<1>3. At(b, {"claims", "export"})' => At(b, {"claims", "export"}) /\ reg'.hash = reg.hash
  BY DEF Moved, At, SameStage
<1>4. At(b, {"set", "stop", "cancel", "ensure", "status"})' =>
        At(b, {"set", "stop", "cancel", "ensure", "status"})
  BY DEF Moved, At, SameStage
<1>5. QED
  BY <1>1, <1>2, <1>3, <1>4 DEF SchemaHeld, Missing

\* The steps of a pass over b that succeed.
LEMMA PublishKeepsHeld ==
  ASSUME RegInv, NEW b \in Blueprints, Held(b), SchemaHeld(b), reg.b = b,
         \/ AddFinalizer \/ Build \/ ApplyARS \/ ResolveClaims \/ UpsertAPIExport
         \/ PublishSet \/ PublishStop \/ PublishCancel \/ PublishEnsure \/ UpdateStatus
  PROVE  Held(b)' /\ SchemaHeld(b)'
<1>1. /\ bp[b] \in Object /\ bp \in [Blueprints -> Object] /\ reg \in Pass
      /\ exports \in [Exports -> Hash] /\ ExportOf[b] \in Exports
  BY OwnExport DEF RegInv, StoreInv
<1>2. Export = ExportOf[b]
  BY DEF Export
<1>3. CASE AddFinalizer
  <2>1. reg'.pc = "build" /\ reg'.b = b /\ UNCHANGED <<arss, exports>>
    BY <1>1, <1>3 DEF AddFinalizer, Goto, exportVars, Pass
  <2>2. bp'[b] = [bp[b] EXCEPT !.fin = TRUE] /\ At(b, {"addfin"}) /\ ~reg.stale
    BY <1>1, <1>3 DEF AddFinalizer, At
  <2>3. /\ bp'[b].exported = bp[b].exported /\ bp'[b].deleting = bp[b].deleting
        /\ bp'[b].fin /\ bp'[b].exists = bp[b].exists
    BY <1>1, <2>2 DEF Object
  <2>4. QED
    BY <2>1, <2>2, <2>3 DEF Held, SchemaHeld, Missing, At, WithdrawPoints, Withdrawn
<1>4. CASE UpdateStatus
  <2>1. reg'.pc = "idle" /\ UNCHANGED <<arss, exports>>
    BY <1>4 DEF UpdateStatus, End, Idle, exportVars
  <2>2. bp'[b] = [bp[b] EXCEPT !.exported = TRUE, !.observed = reg.hash, !.ready = TRUE]
    BY <1>1, <1>4 DEF UpdateStatus
  <2>3. /\ bp'[b].exported /\ bp'[b].deleting = bp[b].deleting
        /\ bp'[b].fin = bp[b].fin /\ bp'[b].exists = bp[b].exists
    BY <1>1, <2>2 DEF Object
  <2>4. At(b, Publishing) /\ At(b, {"set", "stop", "cancel", "ensure", "status"})
    BY <1>4 DEF UpdateStatus, At, Publishing, PublishPoints
  <2>5. QED
    BY <2>1, <2>3, <2>4
    DEF Held, SchemaHeld, Missing, At, Publishing, PublishPoints, WithdrawPoints, Withdrawn
<1>5. CASE ~AddFinalizer /\ ~UpdateStatus
  <2>1. CASE Build
    <3>1. Moved("build", "ars") /\ UNCHANGED <<bp, arss, exports>>
      BY <1>1, <2>1, GotoMoves DEF Build, serverVars, exportVars, Moved
    <3>2. QED
      BY <3>1, MovedPoints, MovesKeepHeld DEF Publishing, PublishPoints
  <2>2. CASE ApplyARS
    <3>1. Moved("ars", "claims") /\ UNCHANGED <<bp, exports>>
      BY <1>1, <2>2, GotoMoves DEF ApplyARS, exportVars, Moved
    <3>2. arss \subseteq arss' /\ <<ExportOf[b], reg.hash>> \in arss'
      BY <1>2, <2>2 DEF ApplyARS
    <3>3. Held(b)'
      BY <3>1, MovedHeld DEF Publishing, PublishPoints
    <3>4. ~Missing(b)' \/ Missing(b)
      BY <3>1, <3>2 DEF Missing
    <3>5. SchemaHeld(b)'
      BY <3>1, <3>2, <3>4 DEF SchemaHeld, Moved, At, Withdrawn
    <3>6. QED
      BY <3>3, <3>5
  <2>3. CASE ResolveClaims
    <3>1. Moved("claims", "export") /\ UNCHANGED <<bp, arss, exports>>
      BY <1>1, <2>3 DEF ResolveClaims, serverVars, exportVars, Moved, Pass
    <3>2. QED
      BY <3>1, MovedPoints, MovesKeepHeld DEF Publishing, PublishPoints
  <2>4. CASE UpsertAPIExport
    <3>1. Moved("export", "set") /\ UNCHANGED <<bp, arss>>
      BY <1>1, <2>4 DEF UpsertAPIExport, Moved, Pass
    <3>2. <<ExportOf[b], reg.hash>> \in arss
      BY <3>1 DEF SchemaHeld, Moved, At
    <3>3. exports'[ExportOf[b]] = reg.hash /\ reg.hash # None
      BY <1>1, <1>2, <2>4, <3>1, OwnExport DEF UpsertAPIExport, Moved
    <3>4. Held(b)'
      BY <3>1, MovedHeld DEF Publishing, PublishPoints
    <3>5. ~Missing(b)'
      BY <3>1, <3>2, <3>3 DEF Missing
    <3>6. SchemaHeld(b)'
      BY <3>1, <3>3, <3>5 DEF SchemaHeld, Moved, At
    <3>7. QED
      BY <3>4, <3>6
  <2>5. CASE PublishSet \/ PublishStop \/ PublishCancel \/ PublishEnsure
    <3>1. UNCHANGED <<bp, arss, exports>>
      BY <2>5 DEF PublishSet, PublishStop, PublishCancel, PublishEnsure, serverVars,
                  exportVars
    <3>2. PICK p \in {"set", "stop", "cancel", "ensure"},
               q \in {"stop", "cancel", "ensure", "status"} : Moved(p, q)
      BY <1>1, <2>5, GotoMoves DEF PublishSet, PublishStop, PublishCancel, PublishEnsure, Moved
    <3>3. QED
      BY <3>1, <3>2, MovedPoints, MovesKeepHeld DEF Publishing, PublishPoints
  <2>9. QED
    BY <1>5, <2>1, <2>2, <2>3, <2>4, <2>5
<1>6. QED
  BY <1>3, <1>4, <1>5

\* The steps of a pass that withdraws b.
LEMMA WithdrawKeepsHeld ==
  ASSUME RegInv, NEW b \in Blueprints, Held(b), SchemaHeld(b), reg.b = b, Withdraw
  PROVE  Held(b)' /\ SchemaHeld(b)'
<1>1. /\ bp[b] \in Object /\ bp \in [Blueprints -> Object] /\ reg \in Pass
      /\ exports \in [Exports -> Hash] /\ ExportOf[b] \in Exports
  BY OwnExport DEF RegInv, StoreInv
<1>2. Export = ExportOf[b]
  BY DEF Export
<1>3. CASE RemoveFinalizer
  <2>1. reg'.pc = "idle" /\ UNCHANGED <<arss, exports>> /\ At(b, Withdrawn)
    BY <1>3 DEF RemoveFinalizer, End, Idle, exportVars, At, Withdrawn
  <2>2. bp'[b] = Absent
    BY <1>1, <1>3 DEF RemoveFinalizer
  <2>3. ~bp'[b].exported /\ ~bp'[b].deleting /\ ~bp'[b].fin
    BY <2>2, SMT DEF Absent
  <2>4. ~Missing(b) /\ (Missing(b)' <=> Missing(b))
    BY <2>1 DEF SchemaHeld, Missing
  <2>5. QED
    BY <2>1, <2>3, <2>4
    DEF Held, SchemaHeld, At, Publishing, PublishPoints, WithdrawPoints
<1>4. CASE ~RemoveFinalizer
  <2>1. bp' = bp
    BY <1>4 DEF Withdraw, DeleteARS, DeleteExport, Purge, WithdrawStop, WithdrawCancel,
                Unregister, serverVars
  <2>2. PICK p \in WithdrawPoints, q \in Withdrawn \cup {"delexport"} :
          /\ Moved(p, q)
          /\ q = "delexport" => p = "delars"
    BY <1>1, <1>4, GotoMoves, SMT
    DEF Withdraw, DeleteARS, DeleteExport, Purge, WithdrawStop, WithdrawCancel,
        Unregister, WithdrawPoints, Withdrawn, Moved
  <2>3. bp[b].deleting
    BY <2>2 DEF Held, Moved, At
  <2>4. q = "delexport" => bp[b].exported
    BY <2>2 DEF Held, Moved, At
  <2>5. Held(b)'
    <3>1. ~At(b, {"addfin"})' /\ ~At(b, Publishing)'
      BY <2>2 DEF Moved, At, Publishing, PublishPoints, Withdrawn
    <3>2. At(b, {"delars", "delexport"})' => bp[b].exported
      BY <2>2, <2>4 DEF Moved, At, Withdrawn
    <3>3. QED
      BY <2>1, <2>3, <3>1, <3>2 DEF Held
  <2>6. Missing(b)' => bp[b].exported /\ q = "delexport"
    <3>1. CASE DeleteARS
      <4>1. exports' = exports /\ Goto(IF exports[Export] = None THEN "purge" ELSE "delexport")
        BY <3>1 DEF DeleteARS, exportVars
      <4>2. Missing(b)' => q = "delexport"
        BY <1>1, <1>2, <2>2, <4>1, GotoMoves DEF Missing, Moved
      <4>3. QED
        BY <2>4, <4>2
    <3>2. CASE DeleteExport
      BY <1>1, <1>2, <3>2 DEF DeleteExport, Missing
    <3>3. CASE Purge \/ WithdrawStop \/ WithdrawCancel \/ Unregister
      <4>1. UNCHANGED <<arss, exports>> /\ At(b, Withdrawn)
        BY <3>3 DEF Purge, WithdrawStop, WithdrawCancel, Unregister, serverVars, exportVars,
                    At, Withdrawn
      <4>2. QED
        BY <4>1 DEF SchemaHeld, Missing
    <3>4. QED
      BY <1>4, <3>1, <3>2, <3>3 DEF Withdraw
  <2>7. ~At(b, {"claims", "export"})'
        /\ ~At(b, {"set", "stop", "cancel", "ensure", "status"})'
        /\ (q = "delexport" => ~At(b, Withdrawn)')
    BY <2>2 DEF Moved, At, Withdrawn
  <2>8. SchemaHeld(b)'
    BY <2>1, <2>3, <2>6, <2>7 DEF SchemaHeld
  <2>9. QED
    BY <2>5, <2>8
<1>5. QED
  BY <1>3, <1>4

\* A call of a pass over b takes effect, and its answer is lost.
LEMMA LostKeepsHeld ==
  ASSUME RegInv, NEW b \in Blueprints, Held(b), SchemaHeld(b), reg.b = b, AnswerLost
  PROVE  Held(b)' /\ SchemaHeld(b)'
<1>1. /\ bp[b] \in Object /\ bp \in [Blueprints -> Object] /\ reg \in Pass
      /\ exports \in [Exports -> Hash] /\ ExportOf[b] \in Exports
  BY OwnExport DEF RegInv, StoreInv
<1>2. Export = ExportOf[b]
  BY DEF Export
<1>3. reg'.pc = "idle"
  BY DEF AnswerLost, End, Idle
<1>4. ASSUME bp'[b].exported \/ bp'[b].deleting => bp'[b].fin, bp'[b].fin => bp'[b].exists,
             bp'[b].exported /\ ~bp'[b].deleting => exports'[ExportOf[b]] # None,
             Missing(b)' => bp'[b].deleting /\ bp'[b].exported
      PROVE  Held(b)' /\ SchemaHeld(b)'
  BY <1>3, <1>4 DEF Held, SchemaHeld, At, Publishing, PublishPoints, WithdrawPoints, Withdrawn
<1>5. CASE StoreFinalizer /\ UNCHANGED <<arss, exportVars>>
  <2>1. bp'[b] = [bp[b] EXCEPT !.fin = TRUE] /\ At(b, {"addfin"}) /\ ~reg.stale
    BY <1>1, <1>5 DEF At
  <2>2. /\ bp'[b].exported = bp[b].exported /\ bp'[b].deleting = bp[b].deleting
        /\ bp'[b].fin /\ bp'[b].exists = bp[b].exists
    BY <1>1, <2>1 DEF Object
  <2>3. Missing(b)' <=> Missing(b)
    BY <1>5 DEF Missing, exportVars
  <2>4. QED
    BY <1>4, <1>5, <2>1, <2>2, <2>3 DEF Held, SchemaHeld, exportVars
<1>6. CASE ((StoreARS /\ UNCHANGED exportVars) \/ (StoreExport /\ UNCHANGED arss)) /\ Report
  <2>1. /\ bp'[b].exported = bp[b].exported /\ bp'[b].deleting = bp[b].deleting
        /\ bp'[b].fin = bp[b].fin /\ bp'[b].exists = bp[b].exists
    <3>1. bp'[b] = bp[b] \/ bp'[b] = [bp[b] EXCEPT !.ready = FALSE]
      BY <1>1, <1>6
    <3>2. QED
      BY <1>1, <3>1 DEF Object
  <2>2. CASE StoreARS /\ UNCHANGED exportVars
    <3>1. arss \subseteq arss' /\ exports' = exports
      BY <2>2 DEF exportVars
    <3>2. Missing(b)' => Missing(b)
      BY <3>1 DEF Missing
    <3>3. QED
      BY <1>4, <2>1, <3>1, <3>2 DEF Held, SchemaHeld
  <2>3. CASE StoreExport /\ UNCHANGED arss
    <3>1. <<ExportOf[b], reg.hash>> \in arss
      BY <2>3 DEF SchemaHeld, At
    <3>2. exports'[ExportOf[b]] = reg.hash /\ reg.hash # None
      BY <1>1, <1>2, <2>3, OwnExport
    <3>3. ~Missing(b)'
      BY <2>3, <3>1, <3>2 DEF Missing
    <3>4. QED
      BY <1>4, <2>1, <3>2, <3>3 DEF Held
  <2>4. QED
    BY <1>6, <2>2, <2>3
<1>7. CASE (RemoveARS \/ RemoveExport) /\ UNCHANGED bp
  <2>1. bp[b].deleting /\ bp[b].exported
    BY <1>7 DEF Held, At, WithdrawPoints
  <2>2. QED
    BY <1>4, <1>7, <2>1 DEF Held
<1>8. QED
  BY <1>5, <1>6, <1>7 DEF AnswerLost

\* The successful steps of a pass over another blueprint, and the lost answers.
LEMMA OthersStepAside ==
  ASSUME RegInv, NEW b \in Blueprints, reg.b # b,
         \/ AddFinalizer \/ Build \/ ApplyARS \/ ResolveClaims \/ UpsertAPIExport
         \/ PublishSet \/ PublishStop \/ PublishCancel \/ PublishEnsure \/ UpdateStatus
         \/ Withdraw \/ BuildRejected \/ AnswerLost
  PROVE  Aside(b)
<1>1. /\ bp \in [Blueprints -> Object] /\ reg \in Pass
      /\ exports \in [Exports -> Hash] /\ ExportOf[b] \in Exports
  BY OwnExport DEF RegInv, StoreInv
<1>2. reg.pc # "idle"
  BY DEF AddFinalizer, Build, ApplyARS, ResolveClaims, UpsertAPIExport, PublishSet,
         PublishStop, PublishCancel, PublishEnsure, UpdateStatus, Withdraw, DeleteARS,
         DeleteExport, Purge, WithdrawStop, WithdrawCancel, Unregister, RemoveFinalizer,
         BuildRejected, AnswerLost
<1>3. Export # ExportOf[b] /\ Export \in Exports
  BY <1>2, OwnExport
<1>4. reg'.pc # "idle" => reg'.b # b
  <2>1. CASE \E q : Goto(q)
    <3>1. PICK q : Goto(q)
      BY <2>1
    <3>2. QED
      BY <1>1, <3>1, GotoMoves DEF Moved
  <2>2. CASE End
    BY <2>2 DEF End, Idle
  <2>3. CASE ResolveClaims \/ UpsertAPIExport
    <3>1. CASE ResolveClaims
      BY <1>1, <3>1 DEF ResolveClaims, Pass
    <3>2. CASE UpsertAPIExport
      BY <1>1, <3>2 DEF UpsertAPIExport, Pass
    <3>3. QED
      BY <2>3, <3>1, <3>2
  <2>4. QED
    BY <2>1, <2>2, <2>3
    DEF AddFinalizer, Build, ApplyARS, PublishSet, PublishStop, PublishCancel,
        PublishEnsure, UpdateStatus, Withdraw, DeleteARS, DeleteExport, Purge,
        WithdrawStop, WithdrawCancel, Unregister, RemoveFinalizer, BuildRejected, AnswerLost
<1>5. bp'[b] = bp[b]
  BY <1>1
  DEF AddFinalizer, Build, ApplyARS, ResolveClaims, UpsertAPIExport, PublishSet,
      PublishStop, PublishCancel, PublishEnsure, UpdateStatus, Withdraw, DeleteARS,
      DeleteExport, Purge, WithdrawStop, WithdrawCancel, Unregister, RemoveFinalizer,
      BuildRejected, AnswerLost, serverVars
<1>6. exports'[ExportOf[b]] = exports[ExportOf[b]]
  BY <1>1, <1>3
  DEF AddFinalizer, Build, ApplyARS, ResolveClaims, UpsertAPIExport, PublishSet,
      PublishStop, PublishCancel, PublishEnsure, UpdateStatus, Withdraw, DeleteARS,
      DeleteExport, Purge, WithdrawStop, WithdrawCancel, Unregister, RemoveFinalizer,
      BuildRejected, AnswerLost, serverVars, exportVars
<1>7. \A k : <<ExportOf[b], k>> \in arss => <<ExportOf[b], k>> \in arss'
  BY <1>3
  DEF AddFinalizer, Build, ApplyARS, ResolveClaims, UpsertAPIExport, PublishSet,
      PublishStop, PublishCancel, PublishEnsure, UpdateStatus, Withdraw, DeleteARS,
      DeleteExport, Purge, WithdrawStop, WithdrawCancel, Unregister, RemoveFinalizer,
      BuildRejected, AnswerLost, serverVars, exportVars
<1>8. QED
  BY <1>4, <1>5, <1>6, <1>7 DEF Aside

\* Every blueprint holds its finalizer and its schema.
HeldInv == \A b \in Blueprints : Held(b) /\ SchemaHeld(b)

\* At first no object exists and no pass runs.
LEMMA HeldInvInit == Init => HeldInv
<1> SUFFICES ASSUME Init, NEW b \in Blueprints PROVE Held(b) /\ SchemaHeld(b)
  BY DEF HeldInv
<1>1. ~bp[b].exported /\ ~bp[b].deleting /\ ~bp[b].fin /\ reg.pc = "idle"
  BY DEF Init, Absent, Idle
<1>2. ~Missing(b)
  BY ExportAssumption DEF Init, Missing
<1>3. QED
  BY <1>1, <1>2
  DEF Held, SchemaHeld, At, Publishing, PublishPoints, WithdrawPoints

\* Every step keeps what objects and exports hold.
LEMMA HeldInvStep == RegInv /\ HeldInv /\ [Next]_vars => HeldInv'
<1> SUFFICES ASSUME RegInv, HeldInv, [Next]_vars, NEW b \in Blueprints
             PROVE  Held(b)' /\ SchemaHeld(b)'
  BY DEF HeldInv
<1>1. Held(b) /\ SchemaHeld(b)
  BY DEF HeldInv
<1>2. CASE \/ AddFinalizer \/ Build \/ ApplyARS \/ ResolveClaims \/ UpsertAPIExport
           \/ PublishSet \/ PublishStop \/ PublishCancel \/ PublishEnsure \/ UpdateStatus
           \/ Withdraw \/ AnswerLost
  BY <1>1, <1>2, OthersStepAside, AsideKeepsHeld, PublishKeepsHeld, WithdrawKeepsHeld,
     LostKeepsHeld
<1>3. CASE \/ Conflict \/ Undone \/ BuildFails \/ BuildRejected \/ ClaimsUnresolved
           \/ ClaimsPanic \/ Managers \/ Restart \/ UNCHANGED vars
           \/ \E gr \in Bindable : Rebind(gr)
  BY <1>1, <1>3, QuietSteps, QuietKeepsHeld
<1>4. ASSUME NEW a \in Blueprints, Get(a) PROVE Held(b)' /\ SchemaHeld(b)'
  BY <1>1, <1>4, GetKeepsHeld
<1>5. ASSUME NEW a \in Blueprints, NEW h \in Graphs, CreateBlueprint(a, h) \/ EditBlueprint(a, h)
      PROVE  Held(b)' /\ SchemaHeld(b)'
  BY <1>1, <1>5, ProviderKeepsHeld
<1>6. ASSUME NEW a \in Blueprints, TouchBlueprint(a) \/ DeleteBlueprint(a)
      PROVE  Held(b)' /\ SchemaHeld(b)'
  <2>1. PICK h : h \in Graphs
    BY <1>6 DEF TouchBlueprint, DeleteBlueprint, RegInv, BpInv
  <2>2. QED
    BY <1>1, <1>6, <2>1, ProviderKeepsHeld
<1>7. QED
  BY <1>2, <1>3, <1>4, <1>5, <1>6 DEF Next, Publish, CallFails

\* A blueprint that is not being deleted keeps a schema behind its export, in every
\* environment: reverted specs, early deletions, failures and restarts included.
THEOREM SchemaStaysWithExport == Spec => []ExportKeepsSchema
<1>1. HeldInv => ExportKeepsSchema
  <2> SUFFICES ASSUME HeldInv, NEW b \in Blueprints,
                      bp[b].exists /\ ~bp[b].deleting /\ bp[b].exported
               PROVE  <<ExportOf[b], exports[ExportOf[b]]>> \in arss
    BY DEF ExportKeepsSchema
  <2>1. SchemaHeld(b)
    BY DEF HeldInv
  <2>2. exports[ExportOf[b]] # None /\ ~Missing(b)
    BY <2>1 DEF SchemaHeld
  <2>3. QED
    BY <2>2 DEF Missing
<1>2. QED
  BY RegInvInit, RegInvStep, HeldInvInit, HeldInvStep, <1>1, PTL DEF Spec

-----------------------------------------------------------------------------
(* Entries of the supervisor and the registry.                             *)

\* An entry of the supervisor has a graph to serve.
EntryServes ==
  /\ \A e \in Exports : running[e] # None => registry[e] # None
  /\ reg.pc \in {"stop", "cancel", "ensure"} => registry[Export] # None
  /\ reg.pc \in {"abort", "unregister"} => running[Export] = None

\* Steps that neither touch the registry nor add an entry, and either leave the pass
\* where it is or take it to a point of which EntryServes says nothing.
EntryQuiet ==
  /\ registry' = registry
  /\ \A e \in Exports : running'[e] \in {running[e], None}
  /\ \/ reg'.pc = reg.pc /\ reg'.b = reg.b
     \/ reg'.pc \notin {"stop", "cancel", "ensure", "abort", "unregister"}

\* A quiet step leaves every entry with a graph to serve.
LEMMA EntryQuietKeeps ==
  ASSUME RegInv, EntryServes, EntryQuiet PROVE EntryServes'
<1>1. \A e \in Exports : running'[e] # None => registry'[e] # None
  BY DEF EntryServes, EntryQuiet
<1>2. CASE reg'.pc \notin {"stop", "cancel", "ensure", "abort", "unregister"}
  BY <1>1, <1>2 DEF EntryServes
<1>3. CASE reg'.pc = reg.pc /\ reg'.b = reg.b
  <2>1. Export' = Export /\ (reg.pc # "idle" => Export \in Exports)
    BY <1>3, ExportAssumption DEF Export, RegInv, PassInv
  <2>2. QED
    BY <1>1, <1>3, <2>1 DEF EntryServes, EntryQuiet
<1>4. QED
  BY <1>2, <1>3 DEF EntryQuiet

\* The steps that leave the supervisor and its registry alone.
LEMMA EntryQuietSteps ==
  ASSUME RegInv, UNCHANGED supVars, [Next]_vars
  PROVE  EntryQuiet \/ PublishEnsure \/ PublishSet \/ PublishStop \/ PublishCancel
         \/ WithdrawStop \/ WithdrawCancel \/ Unregister
<1> SUFFICES ASSUME ~PublishEnsure, ~PublishSet, ~PublishStop, ~PublishCancel,
                    ~WithdrawStop, ~WithdrawCancel, ~Unregister
             PROVE  EntryQuiet
  OBVIOUS
<1>1. registry' = registry /\ \A e \in Exports : running'[e] \in {running[e], None}
  BY DEF supVars
<1> DEFINE Still == reg'.pc = reg.pc /\ reg'.b = reg.b
           Off == reg'.pc \notin {"stop", "cancel", "ensure", "abort", "unregister"}
<1>2. reg \in Pass
  BY DEF RegInv, PassInv
<1>3. CASE End
  BY <1>1, <1>3 DEF End, Idle, EntryQuiet
<1>4. CASE UNCHANGED reg
  BY <1>1, <1>4 DEF EntryQuiet
<1>5. ASSUME NEW a \in Blueprints, Outdate(a) PROVE EntryQuiet
  <2>1. Still
    BY <1>2, <1>5 DEF Outdate, Pass
  <2>2. QED
    BY <1>1, <2>1 DEF EntryQuiet
<1>6. ASSUME NEW a \in Blueprints, Get(a) PROVE EntryQuiet
  <2>1. bp[a] \in Object
    BY <1>6 DEF RegInv, BpInv
  <2>2. reg'.pc = CASE bp[a].deleting /\ bp[a].exported -> "delars"
                    [] bp[a].deleting /\ ~bp[a].exported -> "purge"
                    [] ~bp[a].deleting /\ bp[a].fin -> "build"
                    [] ~bp[a].deleting /\ ~bp[a].fin -> "addfin"
    BY <1>6 DEF Get
  <2>3. Off
    <3>1. CASE bp[a].deleting /\ bp[a].exported
      BY <2>2, <3>1
    <3>2. CASE bp[a].deleting /\ ~bp[a].exported
      BY <2>2, <3>2
    <3>3. CASE ~bp[a].deleting /\ bp[a].fin
      BY <2>2, <3>3
    <3>4. CASE ~bp[a].deleting /\ ~bp[a].fin
      BY <2>2, <3>4
    <3>5. QED
      BY <3>1, <3>2, <3>3, <3>4
  <2>4. QED
    BY <1>1, <2>3 DEF EntryQuiet
<1>7. CASE \E q \in {"build", "ars", "claims", "delexport", "purge", "withdraw", "remfin"} :
             Goto(q)
  <2>1. PICK q \in {"build", "ars", "claims", "delexport", "purge", "withdraw", "remfin"} :
          Goto(q)
    BY <1>7
  <2>2. reg'.pc = q
    BY <1>2, <2>1, GotoMoves DEF Moved
  <2>3. QED
    BY <1>1, <2>1, <2>2 DEF EntryQuiet
<1>8. CASE ResolveClaims
  <2>1. reg'.pc = "export"
    BY <1>2, <1>8 DEF ResolveClaims, Pass
  <2>2. QED
    BY <1>1, <2>1 DEF EntryQuiet
<1>9. CASE UpsertAPIExport
  <2>1. reg'.pc = "set"
    BY <1>2, <1>9 DEF UpsertAPIExport, Pass
  <2>2. QED
    BY <1>1, <2>1 DEF EntryQuiet
<1>a. CASE Publish \/ Withdraw
  BY <1>3, <1>7, <1>8, <1>9, <1>a
  DEF Publish, Withdraw, AddFinalizer, Build, ApplyARS, UpdateStatus, BuildFails,
      BuildRejected, ClaimsUnresolved, ClaimsPanic, Fail, Abandon, DeleteARS, DeleteExport,
      Purge, RemoveFinalizer
<1>b. CASE Conflict \/ CallFails \/ Managers \/ Restart \/ UNCHANGED vars
           \/ \E gr \in Bindable : Rebind(gr)
  BY <1>3, <1>4, <1>b
  DEF Conflict, CallFails, Undone, AnswerLost, Fail, Abandon, Managers, Restart, vars, Rebind
<1>c. ASSUME NEW a \in Blueprints, TouchBlueprint(a) \/ DeleteBlueprint(a)
      PROVE  EntryQuiet
  BY <1>5, <1>c DEF TouchBlueprint, DeleteBlueprint
<1>d. ASSUME NEW a \in Blueprints, NEW h \in Graphs, CreateBlueprint(a, h) \/ EditBlueprint(a, h)
      PROVE  EntryQuiet
  BY <1>4, <1>5, <1>d DEF CreateBlueprint, EditBlueprint
<1>e. QED
  BY <1>6, <1>a, <1>b, <1>c, <1>d DEF Next

\* The manager steps only remove entries.
LEMMA ManagersForget ==
  ASSUME RegInv, Managers PROVE EntryQuiet
<1>1. running \in [Exports -> Gens \cup {None}] /\ reg' = reg /\ registry' = registry
  BY DEF RegInv, SupInv, SupTypeOK, Managers, StartFn, Serve, ExitCancelled, Forget, Crash
<1>2. \A e \in Exports : running'[e] \in {running[e], None}
  BY <1>1 DEF Managers, StartFn, Serve, ExitCancelled, Forget, Crash
<1>3. QED
  BY <1>1, <1>2 DEF EntryQuiet

\* At first there is no entry.
LEMMA EntryServesInit == Init => EntryServes
BY SMT DEF Init, SupInit, Idle, EntryServes

\* Set precedes Ensure and Stop precedes Delete, so every step keeps EntryServes.
LEMMA EntryServesStep == RegInv /\ EntryServes /\ [Next]_vars => EntryServes'
<1> SUFFICES ASSUME RegInv, EntryServes, [Next]_vars PROVE EntryServes'
  OBVIOUS
<1>1. /\ running \in [Exports -> Gens \cup {None}]
      /\ registry \in [Exports -> Graphs \cup {None}] /\ reg \in Pass
  BY DEF RegInv, SupInv, SupTypeOK, PassInv
<1>2. reg.pc # "idle" => Export \in Exports /\ reg.hash # None
  BY ExportAssumption, NoneAssumption DEF RegInv, PassInv, Export
<1>3. ASSUME NEW q, Goto(q) PROVE reg'.pc = q /\ Export' = Export
  BY <1>1, <1>3, GotoMoves DEF Moved, Export
<1>4. CASE PublishSet
  <2>1. /\ registry' = [registry EXCEPT ![Export] = reg.hash] /\ running' = running
        /\ Export \in Exports /\ reg.hash # None
    BY <1>2, <1>4 DEF PublishSet, Set
  <2>2. reg'.pc \in {"stop", "ensure"} /\ Export' = Export
    BY <1>3, <1>4 DEF PublishSet
  <2>3. QED
    BY <1>1, <2>1, <2>2 DEF EntryServes
<1>5. CASE PublishStop \/ WithdrawStop
  <2>1. /\ running' = [running EXCEPT ![Export] = None] /\ registry' = registry
        /\ Export \in Exports
    BY <1>2, <1>5 DEF PublishStop, WithdrawStop, StopDelete
  <2>2. Export' = Export
    BY <1>3, <1>5 DEF PublishStop, WithdrawStop
  <2>3. reg'.pc \in {"cancel", "ensure"} => registry[Export] # None
    BY <1>3, <1>5, SMT DEF PublishStop, WithdrawStop, EntryServes
  <2>4. reg'.pc # "stop"
    BY <1>3, <1>5, SMT DEF PublishStop, WithdrawStop
  <2>5. QED
    BY <1>1, <2>1, <2>2, <2>3, <2>4 DEF EntryServes
<1>6. CASE PublishCancel
  <2>1. running' = running /\ registry' = registry
    BY <1>6 DEF PublishCancel, StopCancel
  <2>2. reg.pc = "cancel" /\ reg'.pc = "ensure" /\ Export' = Export
    BY <1>3, <1>6 DEF PublishCancel
  <2>3. QED
    BY <2>1, <2>2 DEF EntryServes
<1>7. CASE PublishEnsure
  <2>1. /\ registry' = registry
        /\ \A e \in Exports : running'[e] # running[e] => e = Export
    BY <1>1, <1>2, <1>7 DEF PublishEnsure, Ensure, supVars
  <2>2. reg.pc = "ensure" /\ reg'.pc = "status"
    BY <1>3, <1>7 DEF PublishEnsure
  <2>3. QED
    BY <2>1, <2>2 DEF EntryServes
<1>8. CASE WithdrawCancel
  <2>1. running' = running /\ registry' = registry
    BY <1>8 DEF WithdrawCancel, StopCancel
  <2>2. reg.pc = "abort" /\ reg'.pc = "unregister" /\ Export' = Export
    BY <1>3, <1>8 DEF WithdrawCancel
  <2>3. QED
    BY <2>1, <2>2 DEF EntryServes
<1>9. CASE Unregister
  <2>1. running' = running /\ registry' = [registry EXCEPT ![Export] = None]
    BY <1>9 DEF Unregister, Delete, Set
  <2>2. reg.pc = "unregister" /\ reg'.pc = "remfin"
    BY <1>3, <1>9 DEF Unregister
  <2>3. QED
    BY <1>1, <2>1, <2>2 DEF EntryServes
<1>a. CASE Managers
  BY <1>a, ManagersForget, EntryQuietKeeps
<1>b. CASE Restart
  BY <1>b DEF Restart, End, Idle, EntryServes
<1>c. CASE UNCHANGED supVars
  BY <1>4, <1>5, <1>6, <1>7, <1>8, <1>9, <1>c, EntryQuietSteps, EntryQuietKeeps
<1>d. CASE Publish
  BY <1>4, <1>5, <1>6, <1>7, <1>c, <1>d
  DEF Publish, AddFinalizer, Build, ApplyARS, ResolveClaims, UpsertAPIExport, UpdateStatus,
      BuildFails, BuildRejected, ClaimsUnresolved, ClaimsPanic, Abandon, Fail
<1>e. CASE Withdraw
  BY <1>5, <1>8, <1>9, <1>c, <1>e
  DEF Withdraw, DeleteARS, DeleteExport, Purge, RemoveFinalizer
<1>f. CASE \/ Conflict \/ CallFails \/ UNCHANGED vars
           \/ \E a \in Blueprints : Get(a) \/ TouchBlueprint(a) \/ DeleteBlueprint(a)
           \/ \E a \in Blueprints, h \in Graphs : CreateBlueprint(a, h) \/ EditBlueprint(a, h)
           \/ \E gr \in Bindable : Rebind(gr)
  <2>1. Conflict \/ CallFails \/ UNCHANGED vars => UNCHANGED supVars
    BY DEF vars, Conflict, CallFails, Undone, AnswerLost, Abandon, Fail
  <2>2. ASSUME NEW a \in Blueprints, Get(a) \/ TouchBlueprint(a) \/ DeleteBlueprint(a)
        PROVE  UNCHANGED supVars
    BY <2>2 DEF Get, TouchBlueprint, DeleteBlueprint
  <2>3. ASSUME NEW a \in Blueprints, NEW h \in Graphs, CreateBlueprint(a, h) \/ EditBlueprint(a, h)
        PROVE  UNCHANGED supVars
    BY <2>3 DEF CreateBlueprint, EditBlueprint
  <2>4. (\E gr \in Bindable : Rebind(gr)) => UNCHANGED supVars
    BY DEF Rebind
  <2>5. QED
    BY <1>c, <1>f, <2>1, <2>2, <2>3, <2>4
<1>g. QED
  BY <1>a, <1>b, <1>d, <1>e, <1>f DEF Next

\* A manager that starts finds its blueprint in the registry unless a Stop has called
\* it off, in every environment: Set comes before Ensure, and Stop before Delete.
THEOREM StartsFindBlueprints == Spec => []StartFindsBlueprint
<1>1. RegInv /\ EntryServes => StartFindsBlueprint
  <2> SUFFICES ASSUME RegInv, EntryServes, NEW g \in Gens, gens[g].pc = "start", Live(g),
                      g \notin stopping
               PROVE  registry[gens[g].export] # None
    BY DEF StartFindsBlueprint
  <2>1. running[gens[g].export] = g /\ g # None
    BY NoneAssumption DEF RegInv, SupInv, NoLostManager
  <2>2. gens[g].export \in Exports
    BY DEF RegInv, SupInv
  <2>3. QED
    BY <2>1, <2>2 DEF EntryServes
<1>2. QED
  BY RegInvInit, RegInvStep, EntryServesInit, EntryServesStep, <1>1, PTL DEF Spec
=============================================================================
