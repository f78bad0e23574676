------------------------- MODULE ControlPlaneProofs -------------------------
(***************************************************************************)
(* Proofs about ControlPlane, where the managers come and go while one     *)
(* instance is reconciled, swept and deleted.                              *)
(***************************************************************************)
EXTENDS ControlPlane, InstanceGCProofs

USE Zenon, SMT


-----------------------------------------------------------------------------
(* Managers and their passes *)

\* There is at most one live manager, and the caller of Stop knows it.
OneManager ==
  /\ caller = "cancel" => running[Export] = None
  /\ stopping # {} => caller = "cancel"
  /\ \A g, h \in stopping : g = h
  /\ \A g \in Gens : S!Live(g) => running[Export] = g \/ g \in stopping
  /\ \A g \in Gens : gens[g].pc # "free" => gens[g].export = Export
  /\ \A g \in Gens : gens[g].pc = "wait" => gens[g].graph \in Blueprints

\* The one that serves works from the blueprint of the passes.
ServesBlueprint ==
  /\ \A g \in Gens : Serving(g) => gens[g].graph = blueprint
  /\ pass.pc # "idle" => IsUp

HandInv == S!SupTypeOK /\ OneManager /\ ServesBlueprint

\* Between passes there is no instance at hand.
LEMMA IdlePass == NoPass.pc = "idle" /\ NoPass.uid = 0
  BY DEF NoPass

\* Two live managers are one.
LEMMA LiveIsOne ==
  ASSUME HandInv, NEW g \in Gens, NEW h \in Gens, S!Live(g), S!Live(h)
  PROVE  g = h
  <1>1. CASE stopping = {}
    BY <1>1 DEF HandInv, OneManager
  <1>2. CASE stopping # {}
    <2>1. running[Export] = None BY <1>2 DEF HandInv, OneManager
    <2>2. None \notin Gens BY AbsentAssumption
    <2> QED BY <2>1, <2>2 DEF HandInv, OneManager
  <1> QED BY <1>1, <1>2

\* A step that leaves the managers alone keeps the invariant.
LEMMA HandFrame ==
  ASSUME HandInv, UNCHANGED <<supVars, blueprint>>,
         caller' = caller \/ (caller = "idle" /\ caller' = "ensure"),
         pass'.pc # "idle" => pass.pc # "idle" \/ IsUp
  PROVE  HandInv'
  <1>1. UNCHANGED <<running, gens, stopping, registry>> BY DEF supVars
  <1>2. S!SupTypeOK' BY <1>1 DEF HandInv, S!SupTypeOK, S!Gen
  <1>3. OneManager' BY <1>1 DEF HandInv, OneManager, S!Live
  <1>4. ServesBlueprint'
    BY <1>1 DEF HandInv, ServesBlueprint, Serving, IsUp, S!Live
  <1> QED BY <1>2, <1>3, <1>4 DEF HandInv

\* One manager moves on, is cancelled or is forgotten.
LEMMA HandMoves ==
  ASSUME HandInv, NEW g \in Gens, NEW moved \in S!Gen,
         gens' = [gens EXCEPT ![g] = moved], registry' = registry,
         moved.pc # "free" => moved.export = Export,
         moved.pc = "wait" => moved.graph \in Blueprints,
         S!Live(g)' => S!Live(g),
         running' \in [{Export} -> Gens \cup {None}],
         running'[Export] # running[Export] =>
           running'[Export] = None /\ running[Export] = g /\ ~S!Live(g)',
         \/ caller' = caller /\ stopping' = stopping
         \/ /\ caller' = "ensure" /\ stopping' = {} /\ g \in stopping
            /\ ~S!Live(g)'
  PROVE  S!SupTypeOK' /\ OneManager'
  <1>1. \A h \in Gens : gens'[h] = IF h = g THEN moved ELSE gens[h]
    BY DEF HandInv, S!SupTypeOK
  <1>2. gens' \in [Gens -> S!Gen] BY DEF HandInv, S!SupTypeOK
  <1>3. S!SupTypeOK' BY <1>2 DEF HandInv, S!SupTypeOK, S!Gen
  <1>4. \A h \in Gens : S!Live(h)' => S!Live(h) BY <1>1 DEF S!Live
  <1>5. \A h \in Gens : S!Live(h)' => running'[Export] = h \/ h \in stopping'
    BY <1>4 DEF HandInv, OneManager
  <1>6. /\ caller' = "cancel" => running'[Export] = None
        /\ stopping' # {} => caller' = "cancel"
        /\ \A h, i \in stopping' : h = i
    BY DEF HandInv, OneManager
  <1>7. /\ \A h \in Gens : gens'[h].pc # "free" => gens'[h].export = Export
        /\ \A h \in Gens : gens'[h].pc = "wait" => gens'[h].graph \in Blueprints
    BY <1>1 DEF HandInv, OneManager
  <1> QED BY <1>3, <1>5, <1>6, <1>7 DEF OneManager

\* Unless it begins to serve, the passes stay with the manager they have.
LEMMA ServesFrame ==
  ASSUME HandInv, NEW g \in Gens, NEW moved,
         gens' = [gens EXCEPT ![g] = moved], blueprint' = blueprint,
         Serving(g)' => Serving(g) /\ moved.graph = gens[g].graph,
         pass'.pc # "idle" =>
           pass.pc # "idle" /\ (gens[g].pc = "serving" => ~S!Live(g))
  PROVE  ServesBlueprint'
  <1>1. \A h \in Gens : gens'[h] = IF h = g THEN moved ELSE gens[h]
    BY DEF HandInv, S!SupTypeOK
  <1>2. \A h \in Gens \ {g} : Serving(h)' <=> Serving(h)
    BY <1>1 DEF Serving, S!Live
  <1>3. \A h \in Gens : Serving(h)' => gens'[h].graph = blueprint'
    BY <1>1, <1>2 DEF HandInv, ServesBlueprint
  <1>4. pass'.pc # "idle" => IsUp'
    <2> SUFFICES ASSUME pass'.pc # "idle" PROVE IsUp' OBVIOUS
    <2>1. PICK h \in Gens : Serving(h) BY DEF HandInv, ServesBlueprint, IsUp
    <2>2. h # g BY <2>1 DEF Serving
    <2> QED BY <1>2, <2>1, <2>2 DEF IsUp
  <1> QED BY <1>3, <1>4 DEF ServesBlueprint

\* The steps of a manager keep the invariant,
LEMMA HandManager ==
  ASSUME HandInv, NEW g \in Gens,
         Start(g) \/ Leave(g) \/ ServeInstances(g) \/ CrashManager(g)
  PROVE  HandInv'
  <1> USE DEF vars
  <1>0. /\ gens[g] \in S!Gen /\ gens \in [Gens -> S!Gen]
        /\ running \in [{Export} -> Gens \cup {None}]
        /\ registry \in [{Export} -> Blueprints \cup {None}]
    BY DEF HandInv, S!SupTypeOK
  <1>1. ASSUME S!StartFn(g), UNCHANGED <<blueprint, pass, caller>> PROVE HandInv'
    <2>1. gens[g].pc = "start" /\ gens[g].export = Export
      BY <1>1 DEF S!StartFn, HandInv, OneManager
    <2> DEFINE sb == registry[Export]
               moved == [gens[g] EXCEPT !.pc = IF sb = None THEN "returned" ELSE "wait",
                                        !.graph = sb]
    <2>2. sb \in Blueprints \cup {None} BY <1>0
    <2>3. /\ moved \in S!Gen /\ moved.export = Export
          /\ moved.cancelled = gens[g].cancelled /\ moved.graph = sb
          /\ moved.pc = IF sb = None THEN "returned" ELSE "wait"
      BY <1>0, <2>1, <2>2 DEF S!Gen
    <2>4. gens' = [gens EXCEPT ![g] = moved]
      BY <1>0, <1>1, <2>1 DEF S!StartFn
    <2> HIDE DEF moved, sb
    <2>5. gens'[g] = moved BY <1>0, <2>4
    <2>6. UNCHANGED <<running, stopping, registry>> BY <1>1 DEF S!StartFn
    <2>7. S!Live(g)' => S!Live(g) BY <2>1, <2>3, <2>5 DEF S!Live
    <2>8. ~Serving(g) /\ ~Serving(g)' BY <2>1, <2>3, <2>5 DEF Serving
    <2>9. S!SupTypeOK' /\ OneManager'
      BY <1>0, <1>1, <2>2, <2>3, <2>4, <2>6, <2>7, HandMoves
    <2>10. ServesBlueprint' BY <1>1, <2>1, <2>4, <2>8, ServesFrame
    <2> QED BY <2>9, <2>10 DEF HandInv
  <1>2. ASSUME S!ExitCancelled(g) \/ S!Crash(g), UNCHANGED <<blueprint, caller>>,
               pass'.pc # "idle" =>
                 pass.pc # "idle" /\ (gens[g].pc = "serving" => ~S!Live(g))
        PROVE  HandInv'
    <2> DEFINE moved == [gens[g] EXCEPT !.pc = "returned"]
    <2>1. gens[g].export = Export
      BY <1>2 DEF S!ExitCancelled, S!Crash, HandInv, OneManager
    <2>2. moved \in S!Gen /\ moved.export = Export /\ moved.pc = "returned"
      BY <1>0, <2>1 DEF S!Gen
    <2>3. gens' = [gens EXCEPT ![g] = moved]
      BY <1>0, <1>2 DEF S!ExitCancelled, S!Crash
    <2> HIDE DEF moved
    <2>4. gens'[g] = moved BY <1>0, <2>3
    <2>5. UNCHANGED <<running, stopping, registry>>
      BY <1>2 DEF S!ExitCancelled, S!Crash
    <2>6. ~S!Live(g)' /\ ~Serving(g)' BY <2>2, <2>4 DEF S!Live, Serving
    <2>7. S!SupTypeOK' /\ OneManager'
      BY <1>0, <1>2, <2>2, <2>3, <2>5, <2>6, HandMoves
    <2>8. ServesBlueprint' BY <1>2, <2>3, <2>6, ServesFrame
    <2> QED BY <2>7, <2>8 DEF HandInv
  <1>3. ASSUME S!Forget(g), UNCHANGED <<blueprint, caller, pass>> PROVE HandInv'
    <2>1. S!FreeGen \in S!Gen /\ S!FreeGen.pc = "free" BY DEF S!FreeGen, S!Gen
    <2>2. gens' = [gens EXCEPT ![g] = S!FreeGen] BY <1>3 DEF S!Forget
    <2>3. gens'[g] = S!FreeGen BY <1>0, <2>2
    <2>4. /\ running' \in [{Export} -> Gens \cup {None}]
          /\ running'[Export] # running[Export] =>
               running'[Export] = None /\ running[Export] = g
      BY <1>0, <1>3 DEF S!Forget
    <2>5. ~S!Live(g)' /\ ~Serving(g)' BY <2>1, <2>3 DEF S!Live, Serving
    <2>6. stopping' = stopping /\ registry' = registry BY <1>3 DEF S!Forget
    <2>7. S!SupTypeOK' /\ OneManager'
      BY <1>3, <2>1, <2>2, <2>4, <2>5, <2>6, HandMoves
    <2>8. ServesBlueprint'
      BY <1>3, <2>2, <2>5, ServesFrame DEF S!Forget
    <2> QED BY <2>7, <2>8 DEF HandInv
  <1>4. CASE ServeInstances(g)
    <2> DEFINE moved == [gens[g] EXCEPT !.pc = "serving"]
    <2>1. /\ gens[g].pc = "wait" /\ ~gens[g].cancelled
          /\ gens[g].export = Export
      BY <1>4 DEF ServeInstances, S!Serve, HandInv, OneManager
    <2>2. /\ moved \in S!Gen /\ moved.export = Export /\ moved.pc = "serving"
          /\ moved.graph = gens[g].graph
      BY <1>0, <2>1 DEF S!Gen
    <2>3. gens' = [gens EXCEPT ![g] = moved]
      BY <1>0, <1>4 DEF ServeInstances, S!Serve
    <2> HIDE DEF moved
    <2>4. \A h \in Gens : gens'[h] = IF h = g THEN moved ELSE gens[h]
      BY <1>0, <2>3
    <2>5. S!Live(g) BY <2>1 DEF S!Live
    <2>6. \A h \in Gens : ~Serving(h) BY <2>1, <2>5, LiveIsOne DEF Serving
    <2>7. pass.pc = "idle" BY <2>6 DEF HandInv, ServesBlueprint, IsUp
    <2>8. \A h \in Gens : Serving(h)' => h = g
      BY <2>4, <2>6 DEF Serving, S!Live
    <2>9. UNCHANGED <<running, stopping, registry, caller, pass>>
      BY <1>4 DEF ServeInstances, S!Serve
    <2>10. S!SupTypeOK' /\ OneManager'
      BY <1>0, <2>2, <2>3, <2>5, <2>9, HandMoves
    <2>11. blueprint' = gens'[g].graph
      BY <1>4, <2>2, <2>4 DEF ServeInstances
    <2>12. ServesBlueprint' BY <2>7, <2>8, <2>9, <2>11 DEF ServesBlueprint
    <2> QED BY <2>10, <2>12 DEF HandInv
  <1>5. CASE CrashManager(g)
    <2>1. pass'.pc # "idle" => pass.pc # "idle" /\ gens[g].pc # "serving"
      BY <1>5, SMT DEF CrashManager, Detach, LeaveRequest, NoPass
    <2> QED BY <1>2, <1>5, <2>1 DEF CrashManager, serverVars
  <1>6. CASE Start(g) BY <1>1, <1>6 DEF Start
  <1>7. CASE Leave(g)
    <2>1. UNCHANGED <<blueprint, caller, pass>> BY <1>7 DEF Leave
    <2>2. S!ExitCancelled(g) => ~S!Live(g) BY DEF S!ExitCancelled, S!Live
    <2> QED BY <1>1, <1>2, <1>3, <1>7, <2>1, <2>2 DEF Leave
  <1> QED BY <1>4, <1>5, <1>6, <1>7

\* the steps of OnPublished do,
LEMMA HandCaller ==
  ASSUME HandInv,
         \/ \E b \in Blueprints : Publish(b)
         \/ Republish \/ StopManager \/ CancelManager \/ EnsureManager
  PROVE  HandInv'
  <1> USE DEF vars
  <1>0. /\ gens \in [Gens -> S!Gen]
        /\ running \in [{Export} -> Gens \cup {None}]
        /\ registry \in [{Export} -> Blueprints \cup {None}]
    BY DEF HandInv, S!SupTypeOK
  <1>1. CASE \E b \in Blueprints : Publish(b)
    <2>1. PICK b \in Blueprints : Publish(b) BY <1>1
    <2>2. /\ UNCHANGED <<running, gens, stopping, blueprint, pass>>
          /\ caller = "idle" /\ caller' = "stop"
      BY <2>1 DEF Publish, S!Set
    <2>3. S!SupTypeOK'
      BY <1>0, <2>1, <2>2 DEF Publish, S!Set, HandInv, S!SupTypeOK, S!Gen
    <2>4. OneManager' BY <2>2 DEF HandInv, OneManager, S!Live
    <2>5. ServesBlueprint'
      BY <2>2 DEF HandInv, ServesBlueprint, Serving, IsUp, S!Live
    <2> QED BY <2>3, <2>4, <2>5 DEF HandInv
  <1>2. CASE Republish BY <1>2, HandFrame DEF Republish
  <1>3. CASE StopManager
    <2>1. /\ UNCHANGED <<gens, registry, blueprint, pass>>
          /\ caller = "stop"
          /\ caller' = IF running[Export] = None THEN "ensure" ELSE "cancel"
          /\ running' = [running EXCEPT ![Export] = None]
          /\ stopping' = stopping \cup ({running[Export]} \ {None})
      BY <1>3 DEF StopManager, S!StopDelete
    <2>2. stopping = {} BY <2>1 DEF HandInv, OneManager
    <2>3. S!SupTypeOK' BY <1>0, <2>1 DEF HandInv, S!SupTypeOK, S!Gen
    <2>4. OneManager'
      BY <1>0, <2>1, <2>2, AbsentAssumption DEF HandInv, OneManager, S!Live
    <2>5. ServesBlueprint'
      BY <2>1 DEF HandInv, ServesBlueprint, Serving, IsUp, S!Live
    <2> QED BY <2>3, <2>4, <2>5 DEF HandInv
  <1>4. CASE CancelManager
    <2>1. PICK g \in Gens : S!StopCancel(g) /\ Detach(g)
      BY <1>4 DEF CancelManager
    <2> DEFINE moved == [gens[g] EXCEPT !.cancelled = TRUE]
    <2>2. gens[g].pc # "free" => gens[g].export = Export
      BY DEF HandInv, OneManager
    <2>3. /\ moved \in S!Gen /\ moved.export = gens[g].export
          /\ moved.pc = gens[g].pc /\ moved.cancelled
          /\ moved.graph = gens[g].graph
      BY <1>0, <2>2 DEF S!Gen
    <2>4. gens' = [gens EXCEPT ![g] = moved] BY <1>0, <2>1 DEF S!StopCancel
    <2> HIDE DEF moved
    <2>5. gens'[g] = moved BY <1>0, <2>4
    <2>6. ~S!Live(g)' /\ ~Serving(g)' BY <2>3, <2>5 DEF S!Live, Serving
    <2>7. UNCHANGED <<running, registry>> BY <2>1 DEF S!StopCancel
    <2>8. g \in stopping /\ stopping' = stopping \ {g}
      BY <2>1 DEF S!StopCancel
    <2>9. stopping' = {} BY <2>8 DEF HandInv, OneManager
    <2>10. caller' = "ensure" /\ blueprint' = blueprint
      BY <1>4 DEF CancelManager, serverVars
    <2>11. pass'.pc # "idle" => pass.pc # "idle" /\ gens[g].pc # "serving"
      BY <2>1, SMT DEF Detach, LeaveRequest, NoPass
    <2>12. moved.pc = "wait" => moved.graph \in Blueprints
      BY <2>3 DEF HandInv, OneManager
    <2>13. S!SupTypeOK' /\ OneManager'
      BY <1>0, <2>2, <2>3, <2>4, <2>6, <2>7, <2>8, <2>9, <2>10, <2>12, HandMoves
    <2>14. ServesBlueprint' BY <2>4, <2>6, <2>10, <2>11, ServesFrame
    <2> QED BY <2>13, <2>14 DEF HandInv
  <1>5. CASE EnsureManager
    <2>1. caller = "ensure" /\ caller' = "idle" /\ UNCHANGED <<blueprint, pass>>
      BY <1>5 DEF EnsureManager
    <2>2. stopping = {} BY <2>1 DEF HandInv, OneManager
    <2>3. CASE running[Export] # None
      <3>1. UNCHANGED <<running, gens, stopping, registry>>
        BY <1>5, <2>3 DEF EnsureManager, S!Ensure, S!supVars
      <3>2. S!SupTypeOK' BY <3>1 DEF HandInv, S!SupTypeOK, S!Gen
      <3>3. OneManager' BY <2>1, <2>2, <3>1 DEF HandInv, OneManager, S!Live
      <3>4. ServesBlueprint'
        BY <2>1, <3>1 DEF HandInv, ServesBlueprint, Serving, IsUp, S!Live
      <3> QED BY <3>2, <3>3, <3>4 DEF HandInv
    <2>4. CASE running[Export] = None
      <3> DEFINE moved == [S!FreeGen EXCEPT !.pc = "start", !.export = Export]
      <3>1. PICK g \in Gens :
              /\ gens[g].pc = "free"
              /\ running' = [running EXCEPT ![Export] = g]
              /\ gens' = [gens EXCEPT ![g] = moved]
              /\ UNCHANGED <<stopping, registry>>
        BY <1>5, <2>4 DEF EnsureManager, S!Ensure
      <3>2. moved \in S!Gen /\ moved.pc = "start" /\ moved.export = Export
        BY DEF S!Gen, S!FreeGen
      <3> HIDE DEF moved
      <3>3. \A h \in Gens : gens'[h] = IF h = g THEN moved ELSE gens[h]
        BY <1>0, <3>1
      <3>4. \A h \in Gens : ~S!Live(h)
        BY <2>2, <2>4, AbsentAssumption DEF HandInv, OneManager
      <3>5. \A h \in Gens : S!Live(h)' => h = g BY <3>3, <3>4 DEF S!Live
      <3>6. running'[Export] = g BY <1>0, <3>1
      <3>7. S!SupTypeOK' BY <1>0, <3>1, <3>2 DEF HandInv, S!SupTypeOK, S!Gen
      <3>8. OneManager'
        BY <2>1, <2>2, <3>1, <3>2, <3>3, <3>5, <3>6, SMT DEF HandInv, OneManager
      <3>9. ~Serving(g) /\ ~Serving(g)' BY <3>1, <3>2, <3>3 DEF Serving
      <3>10. ServesBlueprint' BY <2>1, <3>1, <3>9, ServesFrame
      <3> QED BY <3>7, <3>8, <3>10 DEF HandInv
    <2> QED BY <2>3, <2>4
  <1> QED BY <1>1, <1>2, <1>3, <1>4, <1>5

\* and so does a process that begins with no manager at all.
LEMMA HandBegins == S!SupInit /\ caller = "idle" /\ pass = NoPass => HandInv
  <1> SUFFICES ASSUME S!SupInit, caller = "idle", pass = NoPass PROVE HandInv
    OBVIOUS
  <1>1. \A g \in Gens : gens[g] = S!FreeGen BY DEF S!SupInit
  <1>2. S!FreeGen \in S!Gen /\ S!FreeGen.pc = "free" BY DEF S!FreeGen, S!Gen
  <1>3. S!SupTypeOK BY <1>2 DEF S!SupInit, S!SupTypeOK
  <1>4. OneManager BY <1>1, <1>2 DEF S!SupInit, OneManager, S!Live
  <1>5. ServesBlueprint BY <1>1, <1>2 DEF NoPass, ServesBlueprint, Serving
  <1> QED BY <1>3, <1>4, <1>5 DEF HandInv

\* A process that is restarted does.
LEMMA HandRestarts == ASSUME RestartProcess PROVE HandInv'
  <1>1. S!SupInit' /\ caller' = "idle" /\ pass' = NoPass
    BY DEF RestartProcess, Restart, S!SupInit, S!FreeGen
  <1>2. (S!SupInit /\ caller = "idle" /\ pass = NoPass)' => HandInv'
    BY HandBegins, PTL
  <1> QED BY <1>1, <1>2

-----------------------------------------------------------------------------
(* Type correctness *)

\* A request that is on its way is a write of a pass over an instance, from
\* the place where its manager was cancelled.
LateSite ==
  /\ late.uid # 0 /\ lateGraph \in Blueprints
  /\ late.pc = "apply" =>
       /\ late.idx \in DOMAIN lateGraph.nodes
       /\ ~IsExternal(L!CurrentNode)
       /\ Configured(L!NodeTarget)
       /\ late.jdx \in DOMAIN L!CurrentNode.items[late.spec]

LateInv == late \in PassType /\ (inFlight => LateSite)

PassNamed == pass.pc # "idle" => pass.uid # 0

CPInv == TypeInv /\ HandInv /\ LateInv /\ PassNamed

\* What a late request may do: write or delete one child, write or delete the
\* record of its instance, set the finalizer of its instance or remove it.
LateChild ==
  \A k \in Key : children'[k] \notin {0, children[k]} =>
    /\ k \in strays' /\ children'[k] = late.uid
    /\ KindOf(k) \in GCKinds(lateGraph)

LateRecord ==
  /\ \A u \in Uids \ {late.uid} : record'[u] = record[u]
  /\ record'[late.uid] \in {record[late.uid], NoRecord,
                            [age |-> 0, kinds |-> RecordKinds(lateGraph)]}

LateInst ==
  \/ /\ inst'.uid = inst.uid /\ inst'.deleting = inst.deleting
     /\ inst.fin => inst'.fin
     /\ inst'.fin => inst.fin \/ inst.uid # 0
  \/ late.pc = "remfin" /\ inst.uid = late.uid /\ inst' = NoInst

\* The pass that was cancelled is one of the same reconciler.
LEMMA LateNames ==
  /\ L!NoPass = NoPass /\ L!NoInst = NoInst /\ L!NoRecord = NoRecord
  /\ \A b : L!RecordKinds(b) = RecordKinds(b) /\ L!GCKinds(b) = GCKinds(b)
  /\ \A k : L!Delete(k) <=> Delete(k)
  /\ L!CurrentNode = lateGraph.nodes[late.idx]
  /\ L!NodeTarget = TargetForNode(L!CurrentNode.id, lateGraph.routing)
  /\ L!CurrentKey = DesiredKey(lateGraph, L!CurrentNode, late.spec, late.jdx)
  <1>1. L!AnySpec = AnySpec BY DEF L!AnySpec, AnySpec
  <1>2. L!NoPass = NoPass /\ L!NoInst = NoInst /\ L!NoRecord = NoRecord
    BY <1>1 DEF L!NoPass, NoPass, L!NoInst, NoInst, L!NoRecord, NoRecord
  <1>3. \A b, t : L!childGVKs(b, t) = childGVKs(b, t)
    BY DEF L!childGVKs, childGVKs, L!IsExternal, IsExternal, L!TargetForNode,
           TargetForNode
  <1>4. \A b : L!RecordKinds(b) = RecordKinds(b) /\ L!GCKinds(b) = GCKinds(b)
    BY <1>3 DEF L!RecordKinds, RecordKinds, L!GCKinds, GCKinds, L!Configured,
                Configured, L!Kind, Kind, L!Targets, Targets
  <1>5. \A k : L!Delete(k) <=> Delete(k) BY DEF L!Delete, Delete
  <1>6. L!CurrentNode = lateGraph.nodes[late.idx] BY DEF L!CurrentNode
  <1>7. \A i, r : L!TargetForNode(i, r) = TargetForNode(i, r)
    BY DEF L!TargetForNode, TargetForNode
  <1>8. L!NodeTarget = TargetForNode(L!CurrentNode.id, lateGraph.routing)
    BY <1>7 DEF L!NodeTarget
  <1>9. L!CurrentKey = DesiredKey(lateGraph, L!CurrentNode, late.spec, late.jdx)
    BY <1>7 DEF L!CurrentKey, L!DesiredKey, DesiredKey
  <1> QED BY <1>2, <1>4, <1>5, <1>6, <1>8, <1>9

LEMMA LateEffect ==
  ASSUME CPInv, LateRequest
  PROVE  /\ inst' \in InstType /\ record' \in [Uids -> RecordType]
         /\ children' \in [Key -> 0..MaxUid] /\ status' \subseteq Key
         /\ late' \in PassType
         /\ UNCHANGED <<blueprint, nextUid, forced, bound, ext, uptime, waited, sweep>>
         /\ LateChild /\ LateRecord /\ LateInst
  <1> USE DEF L!serverVars, L!consumerVars, L!childVars
  <1>0. /\ late \in PassType /\ LateSite /\ late.uid \in Uids
        /\ inst \in InstType /\ record \in [Uids -> RecordType]
        /\ children \in [Key -> 0..MaxUid] /\ status \subseteq Key
        /\ lateGraph \in Served
    BY BlueprintsAssumption, SMT
    DEF CPInv, LateInv, LateSite, LateRequest, TypeInv, TypeOK, PassType, Uids
  <1>1. UNCHANGED <<blueprint, nextUid, forced, bound, ext, uptime, waited, sweep>>
    BY DEF LateRequest, L!AddFinalizer, L!DeleteListed, L!DeleteLivenessRecord,
           L!RemoveFinalizer, L!ApplyChild, L!RecordPut, L!UpdateStatus
  <1>2. CASE L!AddFinalizer
    <2>1. inst' = [inst EXCEPT !.fin = TRUE] /\ inst.uid = late.uid
      BY <1>2 DEF L!AddFinalizer, L!Fresh
    <2>2. /\ inst' \in InstType /\ inst'.uid = inst.uid
          /\ inst'.deleting = inst.deleting /\ inst'.fin
      BY <1>0, <2>1 DEF InstType
    <2>3. LateInst BY <1>0, <2>1, <2>2 DEF LateInst, LateSite
    <2>4. late' = NoPass /\ UNCHANGED <<children, status, record>>
      BY <1>2, LateNames DEF L!AddFinalizer
    <2> QED
      BY <1>0, <1>1, <2>2, <2>3, <2>4, NoTypes DEF LateChild, LateRecord
  <1>3. CASE L!DeleteListed
    <2>1. PICK k \in late.dels :
            Delete(k) /\ late' = [late EXCEPT !.dels = @ \ {k}]
      BY <1>3, LateNames DEF L!DeleteListed
    <2>2. late' \in PassType BY <1>0, <2>1 DEF PassType
    <2>3. children' \in [Key -> 0..MaxUid] /\ status' \subseteq Key /\ LateChild
      <3>1. 0 \in 0..MaxUid BY MaxUidAssumption, SMT
      <3> QED BY <1>0, <2>1, <3>1 DEF Delete, LateChild
    <2>4. UNCHANGED <<inst, record>> BY <1>3 DEF L!DeleteListed
    <2> QED BY <1>0, <1>1, <2>2, <2>3, <2>4 DEF LateRecord, LateInst
  <1>4. CASE L!DeleteLivenessRecord
    <2>1. /\ record' = [record EXCEPT ![late.uid] = NoRecord]
          /\ late' = [late EXCEPT !.pc = "remfin"]
          /\ UNCHANGED <<inst, children, status>>
      BY <1>4, LateNames DEF L!DeleteLivenessRecord
    <2>2. late' \in PassType BY <1>0, <2>1 DEF PassType, PassPoints
    <2>3. record' \in [Uids -> RecordType] /\ LateRecord
      BY <1>0, <2>1, NoTypes DEF LateRecord
    <2> QED BY <1>0, <1>1, <2>1, <2>2, <2>3 DEF LateChild, LateInst
  <1>5. CASE L!RemoveFinalizer
    <2>1. /\ inst' = NoInst /\ late' = NoPass /\ late.pc = "remfin"
          /\ inst.uid = late.uid /\ UNCHANGED <<children, status, record>>
      BY <1>5, LateNames DEF L!RemoveFinalizer, L!Fresh
    <2> QED
      BY <1>0, <1>1, <2>1, NoTypes DEF LateChild, LateRecord, LateInst
  <1>6. CASE L!ApplyChild
    <2>1. /\ children' = [children EXCEPT ![L!CurrentKey] = late.uid]
          /\ late' = [late EXCEPT !.pc = "readback"] /\ late.pc = "apply"
          /\ UNCHANGED <<inst, status, record>>
      BY <1>6 DEF L!ApplyChild
    <2>2. late' \in PassType BY <1>0, <2>1 DEF PassType, PassPoints
    <2>3. late.uid \in 0..MaxUid /\ late.spec \in Specs BY <1>0 DEF PassType
    <2>4. L!CurrentKey \in Key /\ KindOf(L!CurrentKey) \in GCKinds(lateGraph)
      BY <1>0, <2>1, <2>3, LateNames, DesiredKeyType, DesiredKind DEF LateSite
    <2>5. {k \in Key : children'[k] # children[k] /\ children'[k] # 0} \subseteq strays'
      BY DEF LateRequest
    <2>6. LateChild BY <1>0, <2>1, <2>4, <2>5 DEF LateChild
    <2> QED
      BY <1>0, <1>1, <2>1, <2>2, <2>3, <2>6 DEF LateRecord, LateInst
  <1>7. CASE L!RecordPut
    <2>1. /\ record' = [record EXCEPT ![late.uid] =
                          [age |-> 0, kinds |-> RecordKinds(lateGraph)]]
          /\ UNCHANGED <<inst, children, status>>
      BY <1>7, LateNames DEF L!RecordPut
    <2>2. late' \in PassType
      <3>1. /\ [late EXCEPT !.pc = "status"] \in PassType
            /\ \A K \in SUBSET Kind :
                 [late EXCEPT !.pc = "prune", !.kinds = K] \in PassType
        BY <1>0 DEF PassType, PassPoints
      <3>2. L!GCKinds(lateGraph) \in SUBSET Kind BY KindsType, LateNames
      <3> QED BY <1>7, <3>1, <3>2 DEF L!RecordPut
    <2>3. [age |-> 0, kinds |-> RecordKinds(lateGraph)] \in RecordType
      BY KindsType, StaleAssumption, SMT DEF RecordType
    <2>4. record' \in [Uids -> RecordType] /\ LateRecord
      BY <1>0, <2>1, <2>3 DEF LateRecord
    <2> QED BY <1>0, <1>1, <2>1, <2>2, <2>4 DEF LateChild, LateInst
  <1>8. CASE L!UpdateStatus
    <2>1. late' = NoPass /\ UNCHANGED <<children, status, record>>
      BY <1>8, LateNames DEF L!UpdateStatus
    <2>2. /\ inst' \in InstType /\ inst'.uid = inst.uid
          /\ inst'.deleting = inst.deleting /\ inst'.fin = inst.fin
      BY <1>0, <1>8 DEF L!UpdateStatus, InstType, PassType
    <2> QED
      BY <1>0, <1>1, <2>1, <2>2, NoTypes DEF LateChild, LateRecord, LateInst
  <1> QED
    BY <1>2, <1>3, <1>4, <1>5, <1>6, <1>7, <1>8 DEF LateRequest

\* A manager that leaves a request behind leaves it where its pass was.
LEMMA LateLeft ==
  ASSUME CPInv, LeaveRequest PROVE LateInv' /\ PassNamed'
  <1>1. PassNamed' BY DEF LeaveRequest, NoPass, PassNamed
  <1>2. CASE Writing
    <2>1. late' = pass /\ lateGraph' = blueprint /\ pass \in PassType
      BY <1>2 DEF LeaveRequest, CPInv, TypeInv, TypeOK
    <2>2. pass.uid # 0 /\ blueprint \in Blueprints
      BY <1>2 DEF Writing, CPInv, PassNamed, TypeInv, TypeOK
    <2>3. pass.pc = "apply" =>
            /\ pass.idx \in DOMAIN blueprint.nodes
            /\ ~IsExternal(blueprint.nodes[pass.idx])
            /\ Configured(TargetForNode(blueprint.nodes[pass.idx].id,
                                        blueprint.routing))
            /\ pass.jdx \in DOMAIN blueprint.nodes[pass.idx].items[pass.spec]
      BY DEF CPInv, TypeInv, CallSite, CurrentNode, NodeTarget
    <2>4. /\ L!CurrentNode' = blueprint.nodes[pass.idx]
          /\ L!NodeTarget' = TargetForNode(blueprint.nodes[pass.idx].id,
                                           blueprint.routing)
      BY <2>1 DEF L!CurrentNode, L!NodeTarget, L!TargetForNode, TargetForNode
    <2>5. LateSite' BY <2>1, <2>2, <2>3, <2>4 DEF LateSite
    <2> QED BY <1>1, <2>1, <2>5 DEF LateInv
  <1>3. CASE ~Writing
    BY <1>1, <1>3
    DEF LeaveRequest, lateVars, CPInv, LateInv, LateSite, L!CurrentNode,
        L!NodeTarget, L!TargetForNode
  <1> QED BY <1>2, <1>3

\* A request on its way that is at most outdated stays what it is.
LEMMA LateStays ==
  ASSUME CPInv,
         UNCHANGED lateVars \/ OutdateLate \/ (late' = NoPass /\ inFlight' = FALSE)
  PROVE  /\ LateInv'
         /\ inFlight' => /\ inFlight /\ lateGraph' = lateGraph
                         /\ late'.pc = late.pc /\ late'.uid = late.uid
  <1>1. CASE late' = NoPass /\ inFlight' = FALSE
    BY <1>1, NoTypes DEF LateInv
  <1>2. CASE UNCHANGED lateVars \/ OutdateLate
    <2>1. late \in PassType BY DEF CPInv, LateInv
    <2>2. UNCHANGED <<lateGraph, inFlight>> BY <1>2 DEF lateVars, OutdateLate
    <2>3. /\ late' \in PassType
          /\ late'.pc = late.pc /\ late'.uid = late.uid /\ late'.idx = late.idx
          /\ late'.jdx = late.jdx /\ late'.spec = late.spec
      <3>1. CASE UNCHANGED lateVars BY <2>1, <3>1 DEF lateVars
      <3>2. CASE OutdateLate
        <4>1. (inFlight /\ (late.stale \/ inst' # inst)) \in BOOLEAN OBVIOUS
        <4> QED BY <2>1, <3>2, <4>1 DEF OutdateLate, PassType
      <3> QED BY <1>2, <3>1, <3>2
    <2>4. inFlight => LateSite' \/ ~inFlight'
      BY <2>2, <2>3 DEF CPInv, LateInv, LateSite, L!CurrentNode, L!NodeTarget,
                        L!TargetForNode
    <2> QED BY <2>2, <2>3, <2>4 DEF LateInv
  <1> QED BY <1>1, <1>2

\* The steps of the engine and the read of the record write nothing.
Works ==
  \/ SkipIgnored \/ DataPending \/ ReadExternal \/ StartNode \/ ReadBack
  \/ EngineDone \/ RecordGet

LEMMA WorksOn ==
  ASSUME TypeInv, Works
  PROVE  /\ UNCHANGED <<serverVars, consumerVars, childVars, ext, record, sweep>>
         /\ pass'.uid = pass.uid /\ pass.pc \in {"node", "readback", "recget"}
         /\ pass'.pc \in {"node", "apply", "recget", "recput"}
  <1>0. pass \in PassType BY DEF TypeInv, TypeOK
  <1>1. UNCHANGED <<serverVars, consumerVars, childVars, ext, record, sweep>>
    BY DEF Works, SkipIgnored, DataPending, ReadExternal, StartNode, ReadBack,
           EngineDone, RecordGet
  <1>2. CASE SkipIgnored \/ DataPending \/ ReadExternal \/ StartNode
    <2>1. pass.pc = "node"
      BY <1>2 DEF SkipIgnored, DataPending, ReadExternal, StartNode, Resolved, AtNode
    <2>2. \/ pass' = Suspend \/ pass' = [pass EXCEPT !.pc = "apply"]
          \/ \E s, ok : pass' = Advance(s, ok)
      BY <1>2, ReadingMoves DEF SkipIgnored, DataPending, StartNode
    <2>3. pass'.uid = pass.uid /\ pass'.pc \in {"recget", "apply", "node"}
      BY <1>0, <2>2 DEF Suspend, Advance, PassType
    <2> QED BY <1>1, <2>1, <2>3
  <1>4. CASE ReadBack
    <2>1. pass'.uid = pass.uid /\ pass'.pc \in {"apply", "node"}
      BY <1>0, <1>4 DEF ReadBack, Advance, PassType
    <2> QED BY <1>1, <1>4, <2>1 DEF ReadBack
  <1>5. CASE EngineDone \/ RecordGet
    BY <1>0, <1>1, <1>5 DEF EngineDone, RecordGet, PassType
  <1> QED BY <1>2, <1>4, <1>5 DEF Works

Working == {"node", "apply", "readback", "recget", "recput", "prune", "status"}

Leaving == {"gc", "remfin"}

SamePhase ==
  /\ pass'.uid = pass.uid
  /\ \/ pass'.pc = pass.pc
     \/ pass.pc \in Working /\ pass'.pc \in Working
     \/ pass.pc \in Leaving /\ pass'.pc \in Leaving

\* Only Get begins a pass, and a pass stays with its instance and on its path.
LEMMA PassStays ==
  ASSUME TypeInv, PassStep, ~Get
  PROVE  pass.pc # "idle" /\ (pass' = NoPass \/ SamePhase)
  <1> USE DEF SamePhase, Working, Leaving
  <1>0. pass \in PassType BY DEF TypeInv, TypeOK
  <1>1. CASE Works BY <1>1, WorksOn
  <1>2. CASE AddFinalizer \/ RemoveFinalizer \/ UpdateStatus
    BY <1>2 DEF AddFinalizer, RemoveFinalizer, UpdateStatus
  <1>3. CASE ListForDelete BY <1>0, <1>3 DEF ListForDelete, PassType
  <1>7. CASE DeleteListed
    <2>1. PICK d \in pass.dels : pass' = [pass EXCEPT !.dels = @ \ {d}]
      BY <1>7 DEF DeleteListed
    <2>2. pass'.uid = pass.uid /\ pass'.pc = pass.pc BY <1>0, <2>1 DEF PassType
    <2> QED BY <1>7, <2>2 DEF DeleteListed
  <1>6. CASE DeleteLivenessRecord
    BY <1>0, <1>6 DEF DeleteLivenessRecord, PassType
  <1>4. CASE ApplyChild \/ RecordPut \/ ListForPrune \/ PruneDone
    BY <1>0, <1>4 DEF ApplyChild, RecordPut, ListForPrune, PruneDone, PassType
  <1>5. CASE Reject
    BY <1>5 DEF Reject, Doomed, Resolved, AtNode
  <1> QED
    BY <1>1, <1>2, <1>3, <1>4, <1>5, <1>6, <1>7 DEF PassStep, Works

\* The request of the consumer only outdates the pass.
LEMMA PassTouched ==
  ASSUME TypeInv, Touch
  PROVE  /\ pass'.pc = pass.pc /\ pass'.uid = pass.uid /\ pass'.spec = pass.spec
         /\ pass'.idx = pass.idx /\ pass'.jdx = pass.jdx
         /\ pass'.applied = pass.applied /\ pass'.complete = pass.complete
         /\ pass'.kinds = pass.kinds /\ pass'.dels = pass.dels
  BY DEF TypeInv, TypeOK, PassType, Touch

\* A late request only outdates the pass, too.
LEMMA PassOutdated ==
  ASSUME TypeInv, LateRequest
  PROVE  /\ pass' \in PassType
         /\ pass'.pc = pass.pc /\ pass'.uid = pass.uid /\ pass'.spec = pass.spec
         /\ pass'.idx = pass.idx /\ pass'.jdx = pass.jdx
         /\ pass'.applied = pass.applied /\ pass'.complete = pass.complete
         /\ pass'.kinds = pass.kinds /\ pass'.dels = pass.dels
  <1>1. (pass.pc # "idle" /\ (pass.stale \/ inst' # inst)) \in BOOLEAN OBVIOUS
  <1> QED BY <1>1 DEF TypeInv, TypeOK, PassType, LateRequest

\* The instance of a pass, after any step.
LEMMA NamedNext ==
  ASSUME CPInv, PassStep \/ SweepStep \/ Create \/ DeleteInst PROVE PassNamed'
  <1>1. CASE Get BY <1>1 DEF Get, NoPass, PassNamed
  <1>2. CASE PassStep /\ ~Get
    BY <1>2, PassStays, SMT DEF CPInv, PassNamed, NoPass, SamePhase, Working, Leaving
  <1>3. CASE SweepStep
    <2>1. pass' = pass
      BY <1>3 DEF SweepStep, SweepList, SweepPick, SweepListChildren,
                         SweepDelete, SweepRecord
    <2> QED BY <2>1 DEF CPInv, PassNamed
  <1>4. CASE Create \/ DeleteInst
    BY <1>4, PassTouched DEF Create, DeleteInst, CPInv, PassNamed
  <1> QED BY <1>1, <1>2, <1>3, <1>4

\* Time passes and no pass is at work.
LEMMA TypeTime == ASSUME TypeInv, TimePasses PROVE TypeInv'
  <1>1. record' \in [Uids -> RecordType]
    BY AgedType DEF TimePasses, TypeInv, TypeOK
  <1>2. uptime' \in 0..StaleAfter
    BY StaleAssumption, SMT DEF TimePasses, TypeInv, TypeOK
  <1>3. waited' \in 0..Heartbeat
    BY HeartbeatAssumption, SMT DEF TimePasses, TypeInv, TypeOK
  <1>4. UNCHANGED <<blueprint, consumerVars, childVars, ext, pass, sweep>>
    BY DEF TimePasses
  <1>5. CallSite' BY <1>4, SameSite DEF TypeInv
  <1> QED
    BY <1>1, <1>2, <1>3, <1>4, <1>5
    DEF TypeInv, TypeOK, consumerVars, childVars

\* A manager that is detached leaves the types alone.
LEMMA TypeDetach ==
  ASSUME CPInv, NEW g \in Gens, Detach(g),
         UNCHANGED <<serverVars, consumerVars, childVars, ext, record, sweep>>
  PROVE  TypeInv' /\ LateInv' /\ PassNamed'
  <1> USE DEF serverVars, consumerVars, childVars
  <1>1. CASE LeaveRequest
    <2>1. pass' = NoPass BY <1>1 DEF LeaveRequest
    <2>2. CallSite' BY <2>1 DEF NoPass, CallSite
    <2>3. TypeInv' BY <2>1, <2>2, NoTypes DEF CPInv, TypeInv, TypeOK
    <2> QED BY <1>1, <2>3, LateLeft
  <1>2. CASE UNCHANGED <<lateVars, pass, histVars>>
    <2>1. TypeInv' BY <1>2, SameSite DEF CPInv, TypeInv, TypeOK
    <2>2. LateInv' BY <1>2, LateStays
    <2> QED BY <1>2, <2>1, <2>2 DEF CPInv, PassNamed
  <1> QED BY <1>1, <1>2 DEF Detach

\* A manager begins to serve while no pass is at work.
LEMMA ServesIdle ==
  ASSUME CPInv, NEW g \in Gens, ServeInstances(g)
  PROVE  blueprint' \in Blueprints /\ pass.pc = "idle"
  <1>1. blueprint' = gens[g].graph /\ gens[g].pc = "wait" /\ S!Live(g)
    BY DEF ServeInstances, S!Serve, S!Live
  <1>2. blueprint' \in Blueprints BY <1>1 DEF CPInv, HandInv, OneManager
  <1>3. \A h \in Gens : ~Serving(h)
    BY <1>1, LiveIsOne DEF Serving, CPInv
  <1>4. pass.pc = "idle" BY <1>3 DEF CPInv, HandInv, ServesBlueprint, IsUp
  <1> QED BY <1>2, <1>4

\* Every step keeps the invariant.
LEMMA CPStep == CPInv /\ [CPNext]_cpVars => CPInv'
  <1> SUFFICES ASSUME CPInv, [CPNext]_cpVars PROVE CPInv' OBVIOUS
  <1>1. ASSUME UNCHANGED vars PROVE TypeInv' /\ PassNamed'
    BY <1>1, SameSite DEF vars, CPInv, TypeInv, TypeOK, PassNamed
  <1>2. ASSUME UNCHANGED lateVars PROVE LateInv'
    BY <1>2, LateStays
  <1>3. CASE (\E b \in Blueprints : Publish(b)) \/ Republish \/ StopManager
    BY <1>1, <1>2, <1>3, HandCaller DEF Publish, Republish, StopManager, CPInv
  <1>4. CASE \E g \in Gens : Start(g) \/ Leave(g)
    BY <1>1, <1>2, <1>4, HandManager DEF Start, Leave, CPInv
  <1>5. CASE CancelManager
    <2>1. TypeInv' /\ LateInv' /\ PassNamed'
      BY <1>5, TypeDetach DEF CancelManager
    <2> QED BY <1>5, <2>1, HandCaller DEF CPInv
  <1>6. CASE \E g \in Gens : CrashManager(g)
    <2>1. PICK g \in Gens : CrashManager(g) BY <1>6
    <2>2. TypeInv' /\ LateInv' /\ PassNamed'
      BY <2>1, TypeDetach DEF CrashManager
    <2> QED BY <2>1, <2>2, HandManager DEF CPInv
  <1>7. CASE EnsureManager
    <2>1. UNCHANGED <<blueprint, uptime, consumerVars, childVars, ext, record, pass,
                      sweep, lateVars>> /\ waited' \in {0, waited}
      BY <1>7 DEF EnsureManager
    <2>2. TypeInv'
      BY <2>1, SameSite, HeartbeatAssumption, SMT
      DEF CPInv, TypeInv, TypeOK, consumerVars, childVars
    <2> QED BY <1>2, <1>7, <2>1, <2>2, HandCaller DEF CPInv, PassNamed
  <1>8. CASE \E g \in Gens : ServeInstances(g)
    <2>1. PICK g \in Gens : ServeInstances(g) BY <1>8
    <2>2. UNCHANGED <<uptime, consumerVars, childVars, ext, record, pass, sweep,
                      lateVars>> /\ waited' = 0
      BY <2>1 DEF ServeInstances
    <2>3. blueprint' \in Blueprints /\ pass.pc = "idle" BY <2>1, ServesIdle
    <2>4. CallSite' BY <2>2, <2>3 DEF CallSite
    <2>5. TypeInv'
      BY <2>2, <2>3, <2>4, HeartbeatAssumption, SMT
      DEF CPInv, TypeInv, TypeOK, consumerVars, childVars
    <2> QED BY <1>2, <2>1, <2>2, <2>5, HandManager DEF CPInv, PassNamed
  <1>9. CASE Reconciles
    <2>1. TypeInv' BY <1>9, TypePass DEF Reconciles, CPInv
    <2>2. LateInv' BY <1>9, LateStays DEF Reconciles
    <2>3. blueprint' = blueprint
      BY <1>9
      DEF Reconciles, PassStep, Get, AddFinalizer, ListForDelete, DeleteListed,
          DeleteLivenessRecord, RemoveFinalizer, SkipIgnored, DataPending,
          ReadExternal, StartNode, ApplyChild, ReadBack, EngineDone, RecordGet,
          RecordPut, ListForPrune, PruneDone, UpdateStatus, Reject, serverVars
    <2>4. HandInv' BY <1>9, <2>3, HandFrame DEF Reconciles, CPInv
    <2> QED BY <1>9, <2>1, <2>2, <2>4, NamedNext DEF Reconciles, CPInv
  <1>10. CASE Others
    <2>1. TypeInv'
      BY <1>10, TypeSweep, TypeEnvironment DEF Others, Environment, CPInv
    <2>2. LateInv' BY <1>10, LateStays DEF Others
    <2>3. blueprint' = blueprint /\ pass'.pc = pass.pc
      <3>1. CASE Create \/ DeleteInst
        BY <3>1, PassTouched DEF Create, DeleteInst, serverVars, CPInv
      <3>2. CASE SweepStep
        BY <3>2 DEF SweepStep, SweepList, SweepPick, SweepListChildren,
                           SweepDelete, SweepRecord, serverVars
      <3> QED BY <1>10, <3>1, <3>2 DEF Others
    <2>4. HandInv' BY <1>10, <2>3, HandFrame DEF Others, CPInv
    <2> QED BY <1>10, <2>1, <2>2, <2>4, NamedNext DEF Others, CPInv
  <1>11. CASE LateRequest
    <2>1. TypeInv'
      <3>1. TypeOK'
        BY <1>11, LateEffect, PassOutdated DEF CPInv, TypeInv, TypeOK
      <3>2. CallSite'
        BY <1>11, PassOutdated
        DEF LateRequest, CPInv, TypeInv, CallSite, CurrentNode, NodeTarget
      <3> QED BY <3>1, <3>2 DEF TypeInv
    <2>2. LateInv' BY <1>11, LateEffect DEF LateRequest, LateInv
    <2>3. pass'.pc = pass.pc /\ pass'.uid = pass.uid
      BY <1>11, PassOutdated DEF CPInv
    <2>4. HandInv' BY <1>11, <2>3, HandFrame DEF LateRequest, CPInv
    <2> QED BY <2>1, <2>2, <2>3, <2>4 DEF CPInv, PassNamed
  <1>12. CASE LateIsLost
    BY <1>1, <1>12, LateStays, HandFrame DEF LateIsLost, CPInv, vars
  <1>13. CASE TimePasses
    <2>1. HandInv' BY <1>13, HandFrame DEF TimePasses, CPInv
    <2>2. PassNamed' BY <1>13 DEF TimePasses, PassNamed, CPInv
    <2> QED BY <1>2, <1>13, <2>1, <2>2, TypeTime DEF TimePasses, CPInv
  <1>14. CASE RestartProcess
    <2>1. TypeInv'
      BY <1>14, TypeEnvironment DEF RestartProcess, Environment, CPInv
    <2> QED BY <1>14, <2>1, LateLeft, HandRestarts DEF RestartProcess, CPInv
  <1>15. CASE UNCHANGED cpVars
    <2>1. UNCHANGED <<vars, supVars, caller, lateVars>> BY <1>15 DEF cpVars
    <2> QED BY <1>1, <1>2, <2>1, HandFrame DEF CPInv, vars
  <1> QED
    BY <1>3, <1>4, <1>5, <1>6, <1>7, <1>8, <1>9, <1>10, <1>11, <1>12, <1>13,
       <1>14, <1>15 DEF CPNext, Brief

\* The invariant, in every state.
LEMMA CPInvariant == CPSpec => []CPInv
  <1>1. CPInit => CPInv
    <2> SUFFICES ASSUME CPInit PROVE CPInv OBVIOUS
    <2>1. TypeInv BY TypeInit DEF CPInit
    <2>2. HandInv BY HandBegins DEF CPInit, Init
    <2>3. LateInv /\ PassNamed
      BY NoTypes DEF CPInit, Init, LateInv, PassNamed, NoPass
    <2> QED BY <2>1, <2>2, <2>3 DEF CPInv
  <1> QED BY <1>1, CPStep, PTL DEF CPSpec

\* A pass is always that of the one manager that serves, and works from the
\* graph that manager was started with, through any sequence of publications,
\* crashes, restarts and late requests: OnPublished cancels the old manager
\* before Ensure starts the new one, and startFn reads the registry first.
THEOREM PassesHaveManagers == CPSpec => []PassHasItsManager
  <1>1. CPInv => PassHasItsManager
    <2> SUFFICES ASSUME CPInv PROVE PassHasItsManager OBVIOUS
    <2>1. \A g, h \in Gens : Serving(g) /\ Serving(h) => g = h
      BY LiveIsOne DEF CPInv, Serving
    <2>2. pass.pc # "idle" => \E g \in Gens : Serving(g) /\ gens[g].graph = blueprint
      BY DEF CPInv, HandInv, ServesBlueprint, IsUp
    <2> QED BY <2>1, <2>2 DEF PassHasItsManager
  <1> QED BY <1>1, CPInvariant, PTL
=============================================================================
