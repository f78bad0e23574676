-------------------------- MODULE InstanceGCProofs --------------------------
(***************************************************************************)
(* Proofs about InstanceGC for every blueprint, every set of specs, kinds, *)
(* names and uids, every StaleAfter and Heartbeat, and every choice of     *)
(* failing calls and environment steps.                                    *)
(***************************************************************************)
EXTENDS InstanceGC, TLAPS

USE Zenon, SMT

-----------------------------------------------------------------------------
(* Facts about blueprints *)

\* AnySpec is a spec.
LEMMA AnySpecType == AnySpec \in Specs
  BY SpecsAssumption DEF AnySpec

\* A node of a served blueprint is a node, and its target is a target.
LEMMA NodeFacts ==
  ASSUME NEW b \in Served, NEW i \in DOMAIN b.nodes
  PROVE  /\ b.nodes[i] \in Node
         /\ TargetForNode(b.nodes[i].id, b.routing) \in Targets
  <1>1. b.nodes \in Seq(Node) BY DEF Served
  <1>2. b.nodes[i] \in Node BY <1>1, SMT
  <1>3. PICK I \in SUBSET Ids : b.routing \in [I -> Targets] BY DEF Served, Routing
  <1>4. TargetForNode(b.nodes[i].id, b.routing) \in Targets
    BY <1>3 DEF TargetForNode, Targets
  <1> QED BY <1>2, <1>4

\* The desired objects of a node are child identities.
LEMMA DesiredKeyType ==
  ASSUME NEW b \in Served, NEW i \in DOMAIN b.nodes, NEW s \in Specs,
         NEW j \in DOMAIN b.nodes[i].items[s]
  PROVE  DesiredKey(b, b.nodes[i], s, j) \in Key
  <1>1. b.nodes[i] \in Node BY NodeFacts
  <1>2. b.nodes[i].items[s] \in Seq(Names) BY <1>1 DEF Node
  <1>3. b.nodes[i].items[s][j] \in Names BY <1>2, SMT
  <1>4. b.nodes[i].gvk \in GVKs BY <1>1 DEF Node
  <1> QED BY <1>3, <1>4, NodeFacts DEF DesiredKey, Key

\* The kind of a desired object of a configured template node is collected.
LEMMA DesiredKind ==
  ASSUME NEW b \in Served, NEW i \in DOMAIN b.nodes, NEW s \in Specs,
         NEW j \in DOMAIN b.nodes[i].items[s],
         ~IsExternal(b.nodes[i]),
         Configured(TargetForNode(b.nodes[i].id, b.routing))
  PROVE  KindOf(DesiredKey(b, b.nodes[i], s, j)) \in GCKinds(b)
  <1> DEFINE t == TargetForNode(b.nodes[i].id, b.routing)
             g == b.nodes[i].gvk
  <1>1. t \in Targets /\ g \in GVKs BY NodeFacts DEF Node
  <1>2. g \in childGVKs(b, t) BY DEF childGVKs
  <1>3. KindOf(DesiredKey(b, b.nodes[i], s, j)) = <<t, g>>
    BY DEF KindOf, DesiredKey
  <1>4. <<t, g>> \in Kind BY <1>1 DEF Kind
  <1>5. <<t, g>>[1] = t /\ <<t, g>>[2] = g OBVIOUS
  <1> HIDE DEF t, g
  <1>6. Configured(t) BY DEF t
  <1> QED BY <1>2, <1>3, <1>4, <1>5, <1>6 DEF GCKinds

\* What is collected and what is recorded are kinds.
LEMMA KindsType ==
  ASSUME NEW b PROVE GCKinds(b) \subseteq Kind /\ RecordKinds(b) \subseteq Kind
  BY DEF GCKinds, RecordKinds

\* The revisions of the blueprint that are ever served agree on the (target, GVK)
\* pairs of their children.
SameKinds == \A b, c \in Blueprints : GCKinds(b) = GCKinds(c)

-----------------------------------------------------------------------------
(* Type correctness *)

\* Where the engine stands while it applies: at a template node whose target
\* has an applier, at one of the objects desired for it.
CallSite ==
  /\ pass.pc = "node" => pass.jdx = 1
  /\ pass.pc \in {"apply", "readback"} =>
       /\ pass.idx \in DOMAIN blueprint.nodes
       /\ ~IsExternal(CurrentNode)
       /\ Configured(NodeTarget)
       /\ pass.jdx \in DOMAIN CurrentNode.items[pass.spec]

TypeInv == TypeOK /\ CallSite

\* The initial records are well typed.
LEMMA NoTypes ==
  /\ NoPass \in PassType
  /\ NoInst \in InstType
  /\ NoRecord \in RecordType
  /\ NoSweep \in SweepType
  BY AnySpecType, MaxUidAssumption, StaleAssumption, SMT
  DEF NoPass, PassType, PassPoints, NoInst, InstType, NoRecord, RecordType,
      NoSweep, SweepType

\* The initial states are well typed.
LEMMA TypeInit == Init => TypeInv
  <1> SUFFICES ASSUME Init PROVE TypeInv OBVIOUS
  <1>0. ext \in [Ids -> ExtType] BY DEF Init, ExtType
  <1>1. TypeOK
    <2>1. /\ nextUid \in 1..(MaxUid + 1) /\ uptime \in 0..StaleAfter
          /\ waited \in 0..Heartbeat /\ 0 \in 0..MaxUid
      BY MaxUidAssumption, StaleAssumption, HeartbeatAssumption, SMT DEF Init
    <2> QED BY <1>0, <2>1, NoTypes DEF Init, TypeOK
  <1>2. CallSite BY DEF Init, CallSite, NoPass
  <1> QED BY <1>1, <1>2 DEF TypeInv

\* A pass that starts is well typed.
LEMMA StartType ==
  ASSUME NEW c \in PassPoints, NEW u \in 0..MaxUid, NEW s \in Specs,
         NEW K \in SUBSET Kind
  PROVE  /\ [NoPass EXCEPT !.pc = c, !.uid = u, !.spec = s] \in PassType
         /\ [NoPass EXCEPT !.pc = c, !.uid = u, !.spec = s, !.kinds = K]
              \in PassType
  BY NoTypes DEF PassType

\* So is one that lists children for deletion,
LEMMA ListType ==
  ASSUME NEW p \in PassType, NEW K \in SUBSET Kind, NEW D \in SUBSET Key
  PROVE  [p EXCEPT !.kinds = K, !.dels = D] \in PassType
  BY DEF PassType

\* A pass that reads an external ref waits for it, or goes on with or without it.
LEMMA ReadingMoves ==
  ASSUME ReadExternal
  PROVE  \/ pass' = Suspend
         \/ \E S \in {{}, {CurrentNode.id}}, ok \in BOOLEAN : pass' = Advance(S, ok)
  <1>1. CASE NothingDesired BY <1>1 DEF ReadExternal
  <1>2. CASE ~NothingDesired /\ ~Found(CurrentNode) BY <1>2 DEF ReadExternal
  <1>3. CASE ~NothingDesired /\ Found(CurrentNode)
    <2>1. pass' = Observe(CurrentNode) BY <1>3 DEF ReadExternal
    <2>2. CASE ext[CurrentNode.id] # "found" BY <2>1, <2>2 DEF Observe
    <2>3. CASE ext[CurrentNode.id] = "found" BY <2>1, <2>3 DEF Observe
    <2> QED BY <2>2, <2>3
  <1> QED BY <1>1, <1>2, <1>3

\* one that goes on to the next node,
LEMMA AdvanceType ==
  ASSUME pass \in PassType, NEW S \in SUBSET Ids, NEW ok \in BOOLEAN
  PROVE  Advance(S, ok) \in PassType
  <1>1. (pass.ready /\ ok) \in BOOLEAN OBVIOUS
  <1>2. pass.idx + 1 \in Nat \ {0} BY SMT DEF PassType
  <1>3. pass.seen \cup S \in SUBSET Ids BY DEF PassType
  <1>4. ASSUME NEW c \in PassPoints, NEW i \in Nat \ {0}, NEW j \in Nat \ {0},
               NEW l \in BOOLEAN, NEW T \in SUBSET Ids, NEW r \in BOOLEAN
        PROVE  [pass EXCEPT !.pc = c, !.idx = i, !.jdx = j, !.lag = l,
                  !.seen = T, !.ready = r] \in PassType
    BY DEF PassType
  <1>5. "node" \in PassPoints /\ 1 \in Nat \ {0} BY SMT DEF PassPoints
  <1> QED BY <1>1, <1>2, <1>3, <1>4, <1>5 DEF Advance

\* and one that records a child as applied.
LEMMA AppliedType ==
  ASSUME NEW p \in PassType, NEW k \in Key, NEW l \in BOOLEAN
  PROVE  /\ \A A \in SUBSET Key : [p EXCEPT !.applied = A \cup {k}] \in PassType
         /\ [p EXCEPT !.applied = @ \cup {k}, !.pc = "apply", !.jdx = @ + 1,
                      !.lag = l] \in PassType
  <1>1. \A A \in SUBSET Key : A \cup {k} \in SUBSET Key OBVIOUS
  <1>2. p.jdx + 1 \in Nat \ {0} /\ p.applied \in SUBSET Key BY SMT DEF PassType
  <1>3. ASSUME NEW A \in SUBSET Key, NEW j \in Nat \ {0}
        PROVE  /\ [p EXCEPT !.applied = A] \in PassType
               /\ [p EXCEPT !.applied = A, !.pc = "apply", !.jdx = j,
                            !.lag = l] \in PassType
    BY DEF PassType, PassPoints
  <1> QED BY <1>1, <1>2, <1>3

\* Every step of a pass keeps the types.
LEMMA TypePass ==
  ASSUME TypeInv, PassStep PROVE TypeInv'
  <1> USE DEF TypeInv, TypeOK, serverVars, consumerVars, childVars
  <1>0. blueprint \in Served BY BlueprintsAssumption
  <1>1. CASE Get
    <2>1. pass' \in PassType
      <3>1. inst.uid \in 0..MaxUid /\ inst.spec \in Specs BY DEF InstType
      <3>2. GCKinds(blueprint) \in SUBSET Kind BY KindsType
      <3>3. {"gc", "node", "addfin"} \subseteq PassPoints BY DEF PassPoints
      <3>4. PICK c \in {"gc", "node", "addfin"} :
              \/ pass' = [NoPass EXCEPT !.pc = c, !.uid = inst.uid,
                            !.spec = inst.spec]
              \/ pass' = [NoPass EXCEPT !.pc = c, !.uid = inst.uid,
                            !.spec = inst.spec, !.kinds = GCKinds(blueprint)]
        BY <1>1 DEF Get
      <3>5. c \in PassPoints BY <3>3
      <3>6. /\ [NoPass EXCEPT !.pc = c, !.uid = inst.uid, !.spec = inst.spec]
                 \in PassType
            /\ [NoPass EXCEPT !.pc = c, !.uid = inst.uid, !.spec = inst.spec,
                              !.kinds = GCKinds(blueprint)] \in PassType
        BY <3>1, <3>2, <3>5, StartType
      <3> QED BY <3>4, <3>6
    <2>2. CallSite'
      <3>1. pass'.jdx = 1 /\ pass'.pc \in {"gc", "node", "addfin"}
        BY <1>1 DEF Get, NoPass
      <3> QED BY <3>1 DEF CallSite
    <2> QED BY <1>1, <2>1, <2>2, HeartbeatAssumption, SMT DEF Get
  <1>2. CASE AddFinalizer
    <2>1. inst' \in InstType BY <1>2 DEF AddFinalizer, InstType
    <2>2. CallSite' BY <1>2 DEF AddFinalizer, NoPass, CallSite
    <2> QED BY <1>2, <2>1, <2>2, NoTypes DEF AddFinalizer
  <1>3. CASE ListForDelete
    <2>1. pass' \in PassType
      <3>1. PICK kd \in pass.kinds :
              pass' = [pass EXCEPT !.kinds = @ \ {kd},
                         !.dels = {k \in Labelled(pass.uid) : KindOf(k) = kd}]
        BY <1>3 DEF ListForDelete
      <3>2. pass.kinds \ {kd} \in SUBSET Kind BY DEF PassType
      <3>3. {k \in Labelled(pass.uid) : KindOf(k) = kd} \in SUBSET Key
        BY DEF Labelled
      <3> QED BY <3>1, <3>2, <3>3, ListType
    <2>2. CallSite' BY <1>3 DEF ListForDelete, CallSite, PassType
    <2> QED BY <1>3, <2>1, <2>2 DEF ListForDelete
  <1>4. CASE DeleteListed
    <2>1. pass' \in PassType BY <1>4, SMT DEF DeleteListed, PassType
    <2>2. CallSite' BY <1>4 DEF DeleteListed, CallSite, PassType
    <2>3. children' \in [Key -> 0..MaxUid] /\ status' \subseteq Key
      <3>1. PICK k \in pass.dels : Delete(k) BY <1>4 DEF DeleteListed
      <3>2. 0 \in 0..MaxUid BY MaxUidAssumption, SMT
      <3> QED BY <3>1, <3>2 DEF Delete
    <2> QED BY <1>4, <2>1, <2>2, <2>3 DEF DeleteListed
  <1>5. CASE DeleteLivenessRecord
    <2>1. pass' \in PassType
      BY <1>5 DEF DeleteLivenessRecord, PassType, PassPoints
    <2>2. CallSite' BY <1>5 DEF DeleteLivenessRecord, CallSite, PassType
    <2> QED BY <1>5, <2>1, <2>2, NoTypes DEF DeleteLivenessRecord
  <1>6. CASE RemoveFinalizer
    <2>2. CallSite' BY <1>6 DEF RemoveFinalizer, NoPass, CallSite
    <2> QED BY <1>6, <2>2, NoTypes DEF RemoveFinalizer
  <1>7. CASE SkipIgnored
    <2>1. pass' \in PassType
      BY <1>7, AdvanceType DEF SkipIgnored
    <2>2. CallSite' BY <1>7 DEF SkipIgnored, Advance, CallSite, PassType
    <2> QED BY <1>7, <2>1, <2>2 DEF SkipIgnored
  <1>8. CASE DataPending
    <2>1. pass' \in PassType
      BY <1>8 DEF DataPending, Suspend, PassType, PassPoints
    <2>2. CallSite' BY <1>8 DEF DataPending, Suspend, CallSite, PassType
    <2> QED BY <1>8, <2>1, <2>2 DEF DataPending
  <1>9. CASE ReadExternal
    <2>1. pass.idx \in DOMAIN blueprint.nodes
      BY <1>0, <1>9, SMT DEF ReadExternal, Resolved, AtNode, Served, PassType
    <2>2. CurrentNode.id \in Ids
      BY <1>0, <2>1, NodeFacts DEF CurrentNode, Node
    <2>3. pass' \in PassType
      <3>1. Suspend \in PassType BY DEF Suspend, PassType, PassPoints
      <3>2. ASSUME NEW S \in {{}, {CurrentNode.id}}, NEW ok \in BOOLEAN
            PROVE  Advance(S, ok) \in PassType
        BY <2>2, AdvanceType
      <3> QED BY <1>9, <3>1, <3>2, ReadingMoves
    <2>4. CallSite'
      <3>1. pass' = Suspend => CallSite' BY DEF Suspend, CallSite, PassType
      <3>2. ASSUME NEW S, NEW ok, pass' = Advance(S, ok) PROVE CallSite'
        BY <3>2 DEF Advance, CallSite, PassType
      <3> QED BY <1>9, <3>1, <3>2, ReadingMoves
    <2> QED BY <1>9, <2>3, <2>4 DEF ReadExternal
  <1>10. CASE StartNode
    <2>1. pass.idx \in DOMAIN blueprint.nodes
      BY <1>0, <1>10, SMT DEF StartNode, Resolved, AtNode, Served, PassType
    <2>2. CurrentNode.id \in Ids /\ CurrentNode.items[pass.spec] \in Seq(Names)
      BY <1>0, <2>1, NodeFacts, SMT DEF CurrentNode, Node, PassType
    <2>3. pass' \in PassType
      <3>1. [pass EXCEPT !.pc = "apply"] \in PassType
        BY DEF PassType, PassPoints
      <3>2. Advance({CurrentNode.id}, TRUE) \in PassType BY <2>2, AdvanceType
      <3> QED BY <1>10, <3>1, <3>2 DEF StartNode
    <2>4. CASE CurrentNode.items[pass.spec] = <<>>
      <3>1. CallSite'
        BY <1>10, <2>4 DEF StartNode, NothingDesired, Advance, CallSite, PassType
      <3> QED BY <1>10, <2>3, <3>1 DEF StartNode
    <2>5. CASE CurrentNode.items[pass.spec] # <<>>
      <3>1. /\ pass'.pc = "apply" /\ pass'.idx = pass.idx
            /\ pass'.jdx = pass.jdx /\ pass'.spec = pass.spec
            /\ blueprint' = blueprint
        BY <1>10, <2>5 DEF StartNode, NothingDesired, PassType
      <3>2. pass.jdx = 1
        BY <1>10 DEF StartNode, Resolved, AtNode, CallSite
      <3>3. 1 \in DOMAIN CurrentNode.items[pass.spec]
        BY <2>2, <2>5, SMT
      <3>4. CallSite'
        BY <1>10, <2>1, <3>1, <3>2, <3>3
        DEF StartNode, Resolved, CallSite, CurrentNode, NodeTarget
      <3> QED BY <1>10, <2>3, <3>4 DEF StartNode
    <2> QED BY <2>4, <2>5
  <1>11. CASE ApplyChild
    <2>1. pass' \in PassType BY <1>11 DEF ApplyChild, PassType, PassPoints
    <2>2. CallSite'
      BY <1>11 DEF ApplyChild, CallSite, PassType, CurrentNode, NodeTarget
    <2>3. pass.uid \in 0..MaxUid BY DEF PassType
    <2> QED BY <1>11, <2>1, <2>2, <2>3 DEF ApplyChild
  <1>12. CASE ReadBack
    <2>1. /\ pass.idx \in DOMAIN blueprint.nodes
          /\ pass.jdx \in DOMAIN CurrentNode.items[pass.spec]
      BY <1>12 DEF ReadBack, CallSite
    <2>2. CurrentNode.id \in Ids /\ CurrentNode.items[pass.spec] \in Seq(Names)
      BY <1>0, <2>1, NodeFacts, SMT DEF CurrentNode, Node, PassType
    <2>3. CurrentKey \in Key
      BY <1>0, <2>1, DesiredKeyType DEF CurrentKey, CurrentNode, PassType
    <2>4. CASE pass.jdx < Len(CurrentNode.items[pass.spec])
      <3>1. pass' = [pass EXCEPT !.applied = @ \cup {CurrentKey}, !.pc = "apply",
                       !.jdx = @ + 1, !.lag = pass.lag \/ CurrentKey \notin status]
        BY <1>12, <2>4 DEF ReadBack, PassType
      <3>2. pass' \in PassType
        <4>1. (pass.lag \/ CurrentKey \notin status) \in BOOLEAN OBVIOUS
        <4> QED BY <2>3, <3>1, <4>1, AppliedType
      <3>3. pass.jdx + 1 \in DOMAIN CurrentNode.items[pass.spec]
        BY <2>1, <2>2, <2>4, SMT
      <3>4. CallSite'
        BY <1>12, <2>1, <3>1, <3>3
        DEF ReadBack, CallSite, PassType, CurrentNode, NodeTarget
      <3> QED BY <1>12, <3>2, <3>4 DEF ReadBack
    <2>5. CASE ~(pass.jdx < Len(CurrentNode.items[pass.spec]))
      <3>1. PICK s \in SUBSET Ids, ok \in BOOLEAN :
              pass' = [Advance(s, ok) EXCEPT
                         !.applied = pass.applied \cup {CurrentKey}]
        BY <1>12, <2>2, <2>5 DEF ReadBack, PassType
      <3>2. pass' \in PassType
        <4>1. pass.applied \in SUBSET Key BY DEF PassType
        <4> QED BY <2>3, <3>1, <4>1, AdvanceType, AppliedType
      <3>3. CallSite' BY <1>12, <3>1 DEF ReadBack, Advance, CallSite, PassType
      <3> QED BY <1>12, <3>2, <3>3 DEF ReadBack
    <2> QED BY <2>4, <2>5
  <1>13. CASE EngineDone
    <2>1. pass' \in PassType BY <1>13 DEF EngineDone, PassType, PassPoints
    <2>2. CallSite' BY <1>13 DEF EngineDone, CallSite, PassType
    <2> QED BY <1>13, <2>1, <2>2 DEF EngineDone
  <1>14. CASE RecordGet
    <2>1. pass' \in PassType BY <1>14 DEF RecordGet, PassType, PassPoints
    <2>2. CallSite' BY <1>14 DEF RecordGet, CallSite, PassType
    <2> QED BY <1>14, <2>1, <2>2 DEF RecordGet
  <1>15. CASE RecordPut
    <2>1. pass' \in PassType
      BY <1>15, KindsType DEF RecordPut, PassType, PassPoints
    <2>2. CallSite' BY <1>15 DEF RecordPut, CallSite, PassType
    <2>3. [age |-> 0, kinds |-> RecordKinds(blueprint)] \in RecordType
      BY KindsType, StaleAssumption, SMT DEF RecordType
    <2> QED BY <1>15, <2>1, <2>2, <2>3 DEF RecordPut
  <1>16. CASE ListForPrune
    <2>1. pass' \in PassType
      <3>1. PICK kd \in pass.kinds :
              pass' = [pass EXCEPT !.kinds = @ \ {kd},
                         !.dels = {k \in Labelled(pass.uid) : KindOf(k) = kd}
                                    \ pass.applied]
        BY <1>16 DEF ListForPrune
      <3>2. pass.kinds \ {kd} \in SUBSET Kind BY DEF PassType
      <3>3. {k \in Labelled(pass.uid) : KindOf(k) = kd} \ pass.applied
              \in SUBSET Key
        BY DEF Labelled
      <3> QED BY <3>1, <3>2, <3>3, ListType
    <2>2. CallSite' BY <1>16 DEF ListForPrune, CallSite, PassType
    <2> QED BY <1>16, <2>1, <2>2 DEF ListForPrune
  <1>17. CASE PruneDone
    <2>1. pass' \in PassType BY <1>17 DEF PruneDone, PassType, PassPoints
    <2>2. CallSite' BY <1>17 DEF PruneDone, CallSite, PassType
    <2> QED BY <1>17, <2>1, <2>2 DEF PruneDone
  <1>18. CASE UpdateStatus
    <2>1. inst' \in InstType BY <1>18 DEF UpdateStatus, InstType, PassType
    <2>2. CallSite' BY <1>18 DEF UpdateStatus, NoPass, CallSite
    <2> QED BY <1>18, <2>1, <2>2, NoTypes DEF UpdateStatus
  <1>19. CASE Reject
    <2>1. CallSite' BY <1>19 DEF Reject, NoPass, CallSite
    <2> QED BY <1>19, <2>1, NoTypes DEF Reject
  <1> QED
    BY <1>1, <1>2, <1>3, <1>4, <1>5, <1>6, <1>7, <1>8, <1>9, <1>10, <1>11,
       <1>12, <1>13, <1>14, <1>15, <1>16, <1>17, <1>18, <1>19 DEF PassStep

\* Every step of a sweep keeps the types.
LEMMA TypeSweep ==
  ASSUME TypeInv, SweepStep \/ SweepGlitch PROVE TypeInv'
  <1> USE DEF TypeInv, TypeOK, serverVars, consumerVars, childVars
  <1>1. CASE SweepList
    <2>1. \A u \in Uids : SweepableKinds(record[u]) \in SUBSET Kind
      BY DEF SweepableKinds, RecordType
    <2>2. {[uid |-> u, kinds |-> SweepableKinds(record[u])] :
             u \in {v \in Uids : IsStale(v)}}
            \in SUBSET [uid: Uids, kinds: SUBSET Kind]
      BY <2>1, SMT
    <2>3. \A T \in SUBSET [uid: Uids, kinds: SUBSET Kind] :
            [NoSweep EXCEPT !.pc = "pick", !.todo = T] \in SweepType
      BY NoTypes DEF SweepType
    <2>4. sweep' \in SweepType BY <1>1, <2>2, <2>3 DEF SweepList
    <2>5. CallSite' BY <1>1 DEF SweepList, CallSite, CurrentNode, NodeTarget
    <2> QED BY <1>1, <2>4, <2>5 DEF SweepList
  <1>2. CASE SweepPick
    <2>1. PICK r \in sweep.todo :
            sweep' = [sweep EXCEPT !.pc = "sweep", !.todo = @ \ {r},
                        !.uid = r.uid, !.kinds = r.kinds]
      BY <1>2 DEF SweepPick
    <2>2. r.uid \in 0..MaxUid /\ r.kinds \in SUBSET Kind
      BY SMT DEF SweepType, Uids
    <2>3. sweep' \in SweepType BY <2>1, <2>2 DEF SweepType
    <2>4. CallSite' BY <1>2 DEF SweepPick, CallSite, CurrentNode, NodeTarget
    <2> QED BY <1>2, <2>3, <2>4 DEF SweepPick
  <1>3. CASE SweepListChildren
    <2>1. PICK kd \in sweep.kinds :
            sweep' = [sweep EXCEPT !.kinds = @ \ {kd},
                        !.dels = {k \in Labelled(sweep.uid) : KindOf(k) = kd}]
      BY <1>3 DEF SweepListChildren
    <2>2. {k \in Labelled(sweep.uid) : KindOf(k) = kd} \in SUBSET Key
      BY DEF Labelled
    <2>3. sweep' \in SweepType BY <2>1, <2>2 DEF SweepType
    <2>4. CallSite'
      BY <1>3 DEF SweepListChildren, CallSite, CurrentNode, NodeTarget
    <2> QED BY <1>3, <2>3, <2>4 DEF SweepListChildren
  <1>4. CASE SweepDelete
    <2>1. PICK k \in sweep.dels :
            Delete(k) /\ sweep' = [sweep EXCEPT !.dels = @ \ {k}]
      BY <1>4 DEF SweepDelete
    <2>2. 0 \in 0..MaxUid BY MaxUidAssumption, SMT
    <2>3. children' \in [Key -> 0..MaxUid] /\ status' \subseteq Key
      BY <2>1, <2>2 DEF Delete
    <2>4. sweep' \in SweepType BY <2>1 DEF SweepType
    <2>5. CallSite' BY <1>4 DEF SweepDelete, CallSite, CurrentNode, NodeTarget
    <2> QED BY <1>4, <2>3, <2>4, <2>5 DEF SweepDelete
  <1>5. NextRecord \in SweepType
    <2>1. sweep.todo \in SUBSET [uid: Uids, kinds: SUBSET Kind]
      BY DEF SweepType
    <2>2. [NoSweep EXCEPT !.pc = "pick", !.todo = sweep.todo] \in SweepType
      BY <2>1, NoTypes DEF SweepType
    <2> QED BY <2>2, NoTypes DEF NextRecord
  <1>6. CASE SweepRecord
    <2>1. CallSite' BY <1>6 DEF SweepRecord, CallSite, CurrentNode, NodeTarget
    <2> QED BY <1>5, <1>6, <2>1, NoTypes DEF SweepRecord
  <1>7. CASE SweepGlitch
    <2>1. CallSite' BY <1>7 DEF SweepGlitch, CallSite, CurrentNode, NodeTarget
    <2> QED BY <1>5, <1>7, <2>1, NoTypes DEF SweepGlitch
  <1> QED BY <1>1, <1>2, <1>3, <1>4, <1>6, <1>7 DEF SweepStep

\* An event on the instance keeps the pass where it is.
LEMMA TouchType ==
  ASSUME TypeInv, Touch, blueprint' = blueprint
  PROVE  pass' \in PassType /\ CallSite'
  <1>1. (pass.pc # "idle") \in BOOLEAN OBVIOUS
  <1>2. \A b \in BOOLEAN : [pass EXCEPT !.stale = b] \in PassType
    BY DEF TypeInv, TypeOK, PassType
  <1>3. pass' \in PassType BY <1>1, <1>2 DEF Touch
  <1>4. CallSite'
    BY DEF Touch, TypeInv, TypeOK, PassType, CallSite, CurrentNode, NodeTarget
  <1> QED BY <1>3, <1>4

\* A record that has aged is a record.
LEMMA AgedType ==
  ASSUME NEW r \in RecordType, NEW n \in Nat PROVE Aged(r, n) \in RecordType
  <1>1. r.age \in -1..(StaleAfter + 1) BY DEF RecordType
  <1> DEFINE a == IF r.age + n > StaleAfter THEN StaleAfter + 1 ELSE r.age + n
  <1>2. a \in -1..(StaleAfter + 1) BY <1>1, StaleAssumption, SMT
  <1>3. Aged(r, n) = IF r = NoRecord THEN r ELSE [r EXCEPT !.age = a]
    BY DEF Aged
  <1> HIDE DEF a
  <1> QED BY <1>2, <1>3 DEF RecordType

\* A step that leaves the pass and the blueprint alone keeps the call site.
LEMMA SameSite ==
  ASSUME CallSite, pass' = pass, blueprint' = blueprint PROVE CallSite'
  BY DEF CallSite, CurrentNode, NodeTarget

\* Every step of the environment keeps the types, and so does a failed call.
LEMMA TypeEnvironment ==
  ASSUME TypeInv, Environment \/ Glitch PROVE TypeInv'
  <1> USE DEF TypeInv, TypeOK, serverVars, consumerVars, childVars
  <1>1. CASE Create
    <2>1. PICK s \in Specs : inst' = [NoInst EXCEPT !.uid = nextUid, !.spec = s]
      BY <1>1 DEF Create
    <2>2. nextUid \in 0..MaxUid BY <1>1, MaxUidAssumption, SMT DEF Create
    <2>3. inst' \in InstType BY <2>1, <2>2, NoTypes DEF InstType
    <2>4. nextUid' \in 1..(MaxUid + 1) BY <1>1, MaxUidAssumption, SMT DEF Create
    <2> QED BY <1>1, <2>3, <2>4, TouchType DEF Create
  <1>2. CASE Edit
    <2>1. inst' \in InstType BY <1>2 DEF Edit, InstType
    <2> QED BY <1>2, <2>1, TouchType DEF Edit
  <1>3. CASE DeleteInst
    <2>1. inst' \in InstType BY <1>3, NoTypes DEF DeleteInst, InstType
    <2> QED BY <1>3, <2>1, TouchType DEF DeleteInst
  <1>4. CASE ForceDelete
    <2>1. inst.uid \in Uids
      BY <1>4, MaxUidAssumption, SMT DEF ForceDelete, InstType, Uids
    <2> QED BY <1>4, <2>1, NoTypes, TouchType DEF ForceDelete
  <1>5. CASE Unbind
    BY <1>5, SameSite DEF Unbind
  <1>6. CASE Rebind
    BY <1>6, SameSite DEF Rebind
  <1>7. CASE CollectOwned
    <2>1. PICK k \in Key : Delete(k) BY <1>7 DEF CollectOwned
    <2>2. 0 \in 0..MaxUid BY MaxUidAssumption, SMT
    <2>3. children' \in [Key -> 0..MaxUid] /\ status' \subseteq Key
      BY <2>1, <2>2 DEF Delete
    <2> QED BY <1>7, <2>3, SameSite DEF CollectOwned
  <1>8. CASE SetStatus
    BY <1>8, SameSite DEF SetStatus
  <1>9. CASE ExternalAppears
    <2>1. blueprint \in Served BY BlueprintsAssumption
    <2>2. \A i \in DOMAIN blueprint.nodes : blueprint.nodes[i].id \in Ids
      BY <2>1, NodeFacts DEF Node
    <2>3. ext' \in [Ids -> ExtType] BY <1>9, <2>2 DEF ExternalAppears, ExtType
    <2> QED BY <1>9, <2>3, SameSite DEF ExternalAppears
  <1>10. CASE ExternalReadies \/ ExternalVanishes
    <2>1. ext' \in [Ids -> ExtType]
      BY <1>10 DEF ExternalReadies, ExternalVanishes, ExtType
    <2> QED BY <1>10, <2>1, SameSite DEF ExternalReadies, ExternalVanishes
  <1>11. CASE Tick
    <2>1. record' \in [Uids -> RecordType] BY <1>11, AgedType DEF Tick
    <2>2. uptime' \in 0..StaleAfter BY <1>11, StaleAssumption, SMT DEF Tick
    <2>3. waited' \in 0..Heartbeat BY <1>11, HeartbeatAssumption, SMT DEF Tick
    <2> QED BY <1>11, <2>1, <2>2, <2>3, SameSite DEF Tick
  <1>12. CASE Restart
    <2>1. PICK n \in {0, StaleAfter + 1} :
            record' = [u \in Uids |-> Aged(record[u], n)]
      BY <1>12 DEF Restart
    <2>2. n \in Nat BY StaleAssumption, SMT
    <2>3. record' \in [Uids -> RecordType] BY <2>1, <2>2, AgedType
    <2>4. uptime' \in 0..StaleAfter /\ waited' \in 0..Heartbeat
      BY <1>12, StaleAssumption, HeartbeatAssumption, SMT DEF Restart
    <2>5. CallSite' BY <1>12 DEF Restart, NoPass, CallSite
    <2> QED BY <1>12, <2>3, <2>4, <2>5, NoTypes DEF Restart
  <1>13. CASE Redeploy
    <2>1. CallSite' BY <1>13 DEF Redeploy, NoPass, CallSite
    <2> QED BY <1>13, <2>1, NoTypes DEF Redeploy
  <1>14. CASE Glitch
    <2>1. CallSite' BY <1>14 DEF Glitch, NoPass, CallSite
    <2> QED BY <1>14, <2>1, NoTypes DEF Glitch
  <1> QED
    BY <1>1, <1>2, <1>3, <1>4, <1>5, <1>6, <1>7, <1>8, <1>9, <1>10, <1>11,
       <1>12, <1>13, <1>14 DEF Environment

\* Every step keeps the types.
LEMMA TypeNext == TypeInv /\ [Next]_vars => TypeInv'
  <1> SUFFICES ASSUME TypeInv, [Next]_vars PROVE TypeInv' OBVIOUS
  <1>1. CASE PassStep BY <1>1, TypePass
  <1>2. CASE SweepStep \/ SweepGlitch BY <1>2, TypeSweep
  <1>3. CASE Environment \/ Glitch BY <1>3, TypeEnvironment
  <1>4. CASE UNCHANGED vars
    BY <1>4, SameSite DEF TypeInv, TypeOK, vars
  <1> QED BY <1>1, <1>2, <1>3, <1>4 DEF Next

\* The types and the call site, in every state.
LEMMA TypeInvariant == Spec => []TypeInv
  BY TypeInit, TypeNext, PTL DEF Spec

\* The reconciler, the engine and the sweeper only ever handle well-formed
\* state: what a pass has applied and what it lists are child identities, and
\* what a record names are (target, GVK) pairs.  The strengthening CallSite is
\* needed because a key is a child identity only where the engine stands at an
\* object of a node (Engine.Reconcile).
THEOREM TypeCorrect == Spec => []TypeOK
  <1>1. TypeInv => TypeOK BY DEF TypeInv
  <1> QED BY <1>1, TypeInvariant, PTL

-----------------------------------------------------------------------------
(* The engine: prune deletes nothing that is desired *)

\* The template nodes the engine has dealt with before node n.
Handled(n) ==
  {i \in DOMAIN blueprint.nodes :
     /\ i < n
     /\ ~IsExternal(blueprint.nodes[i])
     /\ ~IsIgnored(blueprint.nodes[i], pass.spec)}

NodesApplied ==
  pass.pc \in {"node", "apply", "readback"} =>
    \A i \in Handled(pass.idx) :
      \A j \in DOMAIN blueprint.nodes[i].items[pass.spec] :
        DesiredKey(blueprint, blueprint.nodes[i], pass.spec, j) \in pass.applied

ItemsApplied ==
  pass.pc \in {"apply", "readback"} =>
    /\ ~IsIgnored(CurrentNode, pass.spec)
    /\ \A j \in DOMAIN CurrentNode.items[pass.spec] : j < pass.jdx =>
         DesiredKey(blueprint, CurrentNode, pass.spec, j) \in pass.applied

\* Nothing but desired children is applied, and a complete pass applied all.
AppliedSet ==
  /\ pass.pc # "idle" => pass.applied \subseteq DesiredKeys(blueprint, pass.spec)
  /\ pass.complete =>
       /\ DesiredKeys(blueprint, pass.spec) \subseteq pass.applied
       /\ pass.pc \in {"recget", "recput", "prune", "status"}

PruneList ==
  /\ pass.pc = "prune" => pass.complete /\ pass.dels \cap pass.applied = {}
  /\ pass.pc \notin {"gc", "prune"} => pass.dels = {}

EngineInv == NodesApplied /\ ItemsApplied /\ AppliedSet /\ PruneList

\* Desired keys, one by one.
LEMMA DesiredKeysMember ==
  ASSUME NEW b, NEW s, NEW k
  PROVE  k \in DesiredKeys(b, s) <=>
           \E i \in DOMAIN b.nodes :
             /\ ~IsExternal(b.nodes[i])
             /\ ~IsIgnored(b.nodes[i], s)
             /\ \E j \in DOMAIN b.nodes[i].items[s] :
                  k = DesiredKey(b, b.nodes[i], s, j)
  BY SMT DEF DesiredKeys, NodeKeys

\* The invariant implies the property.
LEMMA EngineInvImplies == EngineInv => PruneSparesDesired
  BY DEF EngineInv, AppliedSet, PruneList, PruneSparesDesired

\* A pass that has ended satisfies it.
LEMMA EngineIdle == ASSUME pass = NoPass PROVE EngineInv
  BY DEF NoPass, EngineInv, NodesApplied, ItemsApplied, AppliedSet, PruneList

\* The same after the step.
LEMMA EngineIdleNext == ASSUME pass' = NoPass PROVE EngineInv'
  BY DEF NoPass, EngineInv, NodesApplied, ItemsApplied, AppliedSet, PruneList

\* A step that keeps what the pass knows keeps it.
LEMMA EngineFrame ==
  ASSUME EngineInv, blueprint' = blueprint,
         pass'.pc = pass.pc, pass'.spec = pass.spec, pass'.idx = pass.idx,
         pass'.jdx = pass.jdx, pass'.applied = pass.applied,
         pass'.complete = pass.complete, pass'.dels \subseteq pass.dels
  PROVE  EngineInv'
  BY DEF EngineInv, NodesApplied, ItemsApplied, AppliedSet, PruneList, Handled,
         CurrentNode

\* A pass that goes on to the next node keeps it, if everything the node
\* desires has been applied.
LEMMA EngineAdvance ==
  ASSUME TypeInv, EngineInv, pass.pc \in {"node", "readback"},
         pass.idx \in DOMAIN blueprint.nodes,
         blueprint' = blueprint, pass'.pc = "node", pass'.spec = pass.spec,
         pass'.idx = pass.idx + 1, pass'.complete = pass.complete,
         pass'.dels = pass.dels, pass.applied \subseteq pass'.applied,
         pass'.applied \subseteq DesiredKeys(blueprint, pass.spec),
         ~IsExternal(CurrentNode) /\ ~IsIgnored(CurrentNode, pass.spec) =>
           \A j \in DOMAIN CurrentNode.items[pass.spec] :
             DesiredKey(blueprint, CurrentNode, pass.spec, j) \in pass'.applied
  PROVE  EngineInv'
  <1>1. pass.idx \in Nat BY DEF TypeInv, TypeOK, PassType
  <1>2. blueprint \in Served BY BlueprintsAssumption DEF TypeInv, TypeOK
  <1>3. DOMAIN blueprint.nodes \subseteq Nat BY <1>2, SMT DEF Served
  <1>4. Handled(pass.idx)' = Handled(pass.idx + 1) BY DEF Handled
  <1>5. \A i \in Handled(pass.idx + 1) : i \in Handled(pass.idx) \/ i = pass.idx
    BY <1>1, <1>3, SMT DEF Handled
  <1>6. NodesApplied'
    BY <1>4, <1>5 DEF EngineInv, NodesApplied, Handled, CurrentNode
  <1>7. ~pass.complete BY DEF EngineInv, AppliedSet
  <1>8. AppliedSet' BY <1>7 DEF AppliedSet
  <1> QED BY <1>6, <1>8 DEF EngineInv, ItemsApplied, PruneList

\* A pass that leaves the engine, complete or not, keeps it.
LEMMA EngineLeave ==
  ASSUME EngineInv, blueprint' = blueprint, pass.pc # "idle",
         pass'.pc \in {"gc", "remfin", "recget", "recput", "status"},
         pass'.spec = pass.spec, pass'.applied = pass.applied,
         pass'.pc # "gc" => pass'.dels = {},
         pass'.complete => /\ pass'.pc \notin {"gc", "remfin"}
                           /\ DesiredKeys(blueprint, pass.spec) \subseteq pass.applied
  PROVE  EngineInv'
  BY DEF EngineInv, NodesApplied, ItemsApplied, AppliedSet, PruneList

\* A pass begins with the first node, with nothing applied or listed.
LEMMA Begun ==
  ASSUME Get
  PROVE  /\ pass'.pc \in {"gc", "node", "addfin"}
         /\ pass'.uid = inst.uid /\ pass'.spec = inst.spec
         /\ pass'.idx = 1 /\ pass'.applied = {} /\ pass'.complete = FALSE
         /\ pass'.lag = FALSE /\ pass'.dels = {} /\ inst' = inst
  <1>1. inst' = inst BY DEF Get, consumerVars
  <1>2. CASE pass' = [NoPass EXCEPT !.pc = "gc", !.uid = inst.uid,
                        !.spec = inst.spec, !.kinds = GCKinds(blueprint)]
    BY <1>1, <1>2 DEF NoPass
  <1>3. ASSUME NEW c \in {"node", "addfin"},
               pass' = [NoPass EXCEPT !.pc = c, !.uid = inst.uid, !.spec = inst.spec]
        PROVE  /\ pass'.pc \in {"gc", "node", "addfin"}
               /\ pass'.uid = inst.uid /\ pass'.spec = inst.spec
               /\ pass'.idx = 1 /\ pass'.applied = {} /\ pass'.complete = FALSE
               /\ pass'.lag = FALSE /\ pass'.dels = {} /\ inst' = inst
    BY <1>1, <1>3 DEF NoPass
  <1>4. CASE pass' = [NoPass EXCEPT !.pc = IF inst.fin THEN "node" ELSE "addfin",
                        !.uid = inst.uid, !.spec = inst.spec]
    <2> DEFINE c == IF inst.fin THEN "node" ELSE "addfin"
    <2>1. c \in {"node", "addfin"} OBVIOUS
    <2> QED BY <1>3, <1>4, <2>1
  <1> QED BY <1>2, <1>4 DEF Get

\* Every step of a pass keeps it.
LEMMA EnginePass ==
  ASSUME TypeInv, EngineInv, PassStep PROVE EngineInv'
  <1> USE DEF serverVars, consumerVars, childVars
  <1>0. pass \in PassType /\ blueprint \in Served
    BY BlueprintsAssumption DEF TypeInv, TypeOK
  <1>1. CASE Get
    <2>1. /\ pass'.pc \in {"gc", "node", "addfin"} /\ pass'.idx = 1
          /\ pass'.applied = {} /\ pass'.complete = FALSE /\ pass'.dels = {}
      BY <1>1, Begun
    <2>2. Handled(pass.idx)' = {}
      BY <1>0, <1>1, <2>1, SMT DEF Handled, Get, Served
    <2> QED
      BY <2>1, <2>2 DEF EngineInv, NodesApplied, ItemsApplied, AppliedSet, PruneList
  <1>2. CASE AddFinalizer \/ RemoveFinalizer \/ UpdateStatus \/ Reject
    BY <1>2, EngineIdleNext DEF AddFinalizer, RemoveFinalizer, UpdateStatus, Reject
  <1>3. CASE ListForDelete
    <2>1. /\ pass'.pc = "gc" /\ pass'.spec = pass.spec /\ pass.pc = "gc"
          /\ pass'.applied = pass.applied /\ pass'.complete = pass.complete
      BY <1>0, <1>3 DEF ListForDelete, PassType
    <2>2. ~pass.complete BY <2>1 DEF EngineInv, AppliedSet
    <2> QED BY <1>3, <2>1, <2>2, EngineLeave DEF ListForDelete
  <1>4. CASE DeleteListed
    <2>1. PICK d \in pass.dels : pass' = [pass EXCEPT !.dels = @ \ {d}]
      BY <1>4 DEF DeleteListed
    <2> QED BY <1>0, <1>4, <2>1, EngineFrame DEF DeleteListed, PassType
  <1>5. CASE DeleteLivenessRecord
    <2>1. /\ pass'.pc = "remfin" /\ pass'.spec = pass.spec /\ pass.pc = "gc"
          /\ pass'.applied = pass.applied /\ pass'.complete = pass.complete
          /\ pass'.dels = {}
      BY <1>0, <1>5 DEF DeleteLivenessRecord, Listed, PassType
    <2>2. ~pass.complete BY <2>1 DEF EngineInv, AppliedSet
    <2> QED BY <1>5, <2>1, <2>2, EngineLeave DEF DeleteLivenessRecord
  <1>6. ASSUME AtNode PROVE pass.idx \in DOMAIN blueprint.nodes /\ pass.pc = "node"
    BY <1>0, <1>6, SMT DEF AtNode, Served, PassType
  <1>7. ASSUME NEW S, NEW ok, pass' = Advance(S, ok)
        PROVE  /\ pass'.pc = "node" /\ pass'.spec = pass.spec
               /\ pass'.idx = pass.idx + 1 /\ pass'.complete = pass.complete
               /\ pass'.applied = pass.applied /\ pass'.dels = pass.dels
    BY <1>0, <1>7 DEF Advance, PassType
  <1>8. pass.pc = "node" =>
          pass.applied \subseteq DesiredKeys(blueprint, pass.spec)
    BY DEF EngineInv, AppliedSet
  <1>9. ASSUME pass' = Suspend, pass.pc = "node", blueprint' = blueprint
        PROVE  EngineInv'
    <2>1. /\ pass'.pc = "recget" /\ pass'.spec = pass.spec
          /\ pass'.applied = pass.applied /\ pass'.complete = pass.complete
          /\ pass'.dels = pass.dels
      BY <1>0, <1>9 DEF Suspend, PassType
    <2>2. ~pass.complete /\ pass.dels = {}
      BY <1>9 DEF EngineInv, AppliedSet, PruneList
    <2> QED BY <1>9, <2>1, <2>2, EngineLeave
  <1>10. CASE SkipIgnored
    BY <1>6, <1>7, <1>8, <1>10, EngineAdvance DEF SkipIgnored
  <1>11. CASE DataPending
    BY <1>6, <1>9, <1>11 DEF DataPending
  <1>12. CASE ReadExternal
    <2>1. CASE pass' = Suspend
      BY <1>6, <1>9, <1>12, <2>1 DEF ReadExternal, Resolved
    <2>2. ASSUME NEW S, NEW ok, pass' = Advance(S, ok) PROVE EngineInv'
      BY <1>6, <1>7, <1>8, <1>12, <2>2, EngineAdvance DEF ReadExternal, Resolved
    <2> QED BY <1>12, <2>1, <2>2, ReadingMoves
  <1>13. CASE StartNode
    <2>1. CASE CurrentNode.items[pass.spec] = <<>>
      <3>1. pass' = Advance({CurrentNode.id}, TRUE)
        BY <1>13, <2>1 DEF StartNode, NothingDesired
      <3>2. DOMAIN CurrentNode.items[pass.spec] = {} BY <2>1, SMT
      <3> QED
        BY <1>6, <1>7, <1>8, <1>13, <3>1, <3>2, EngineAdvance
        DEF StartNode, Resolved
    <2>2. CASE CurrentNode.items[pass.spec] # <<>>
      <3>1. /\ pass'.pc = "apply" /\ pass'.spec = pass.spec
            /\ pass'.idx = pass.idx /\ pass'.jdx = pass.jdx
            /\ pass'.applied = pass.applied /\ pass'.complete = pass.complete
            /\ blueprint' = blueprint /\ pass.pc = "node"
            /\ pass'.dels = pass.dels
        BY <1>0, <1>6, <1>13, <2>2
        DEF StartNode, NothingDesired, Resolved, PassType
      <3>2. pass.jdx = 1 BY <3>1 DEF TypeInv, CallSite
      <3>3. NodesApplied'
        BY <3>1 DEF EngineInv, NodesApplied, Handled
      <3>4. CurrentNode.items[pass.spec] \in Seq(Names)
        BY <1>0, <1>6, <1>13, NodeFacts, SMT
        DEF StartNode, Resolved, CurrentNode, Node, PassType
      <3>5. ItemsApplied'
        <4>1. \A j \in DOMAIN CurrentNode.items[pass.spec] : ~(j < 1) BY <3>4, SMT
        <4>2. ~IsIgnored(CurrentNode, pass.spec) BY <1>13 DEF StartNode, Resolved
        <4>3. CurrentNode' = CurrentNode BY <3>1 DEF CurrentNode
        <4> QED BY <3>1, <3>2, <4>1, <4>2, <4>3 DEF ItemsApplied
      <3> QED BY <3>1, <3>3, <3>5 DEF EngineInv, AppliedSet, PruneList
    <2> QED BY <2>1, <2>2
  <1>14. CASE ApplyChild
    <2>1. /\ pass'.pc = "readback" /\ pass'.spec = pass.spec /\ pass.pc = "apply"
          /\ pass'.idx = pass.idx /\ pass'.jdx = pass.jdx
          /\ pass'.applied = pass.applied /\ pass'.complete = pass.complete
          /\ blueprint' = blueprint /\ pass'.dels = pass.dels
      BY <1>0, <1>14 DEF ApplyChild, PassType
    <2> QED
      BY <2>1 DEF EngineInv, NodesApplied, ItemsApplied, AppliedSet, PruneList,
                  Handled, CurrentNode
  <1>15. CASE ReadBack
    <2>1. /\ pass.idx \in DOMAIN blueprint.nodes
          /\ pass.jdx \in DOMAIN CurrentNode.items[pass.spec]
          /\ ~IsExternal(CurrentNode) /\ ~IsIgnored(CurrentNode, pass.spec)
          /\ pass.pc = "readback" /\ blueprint' = blueprint
      BY <1>15 DEF ReadBack, TypeInv, CallSite, EngineInv, ItemsApplied
    <2>2. CurrentNode.items[pass.spec] \in Seq(Names)
      BY <1>0, <2>1, NodeFacts, SMT DEF CurrentNode, Node, PassType
    <2>3. CurrentKey \in DesiredKeys(blueprint, pass.spec)
      BY <2>1, DesiredKeysMember DEF CurrentKey, CurrentNode
    <2>4. /\ pass'.applied = pass.applied \cup {CurrentKey}
          /\ pass'.spec = pass.spec /\ pass'.complete = pass.complete
          /\ pass'.dels = pass.dels
      BY <1>0, <1>15 DEF ReadBack, Advance, PassType
    <2>5. pass'.applied \subseteq DesiredKeys(blueprint, pass.spec)
      BY <2>1, <2>3, <2>4 DEF EngineInv, AppliedSet
    <2>6. \A j \in DOMAIN CurrentNode.items[pass.spec] : j <= pass.jdx =>
            DesiredKey(blueprint, CurrentNode, pass.spec, j) \in pass'.applied
      BY <2>1, <2>2, <2>4, SMT DEF EngineInv, ItemsApplied, CurrentKey
    <2>7. CASE pass.jdx < Len(CurrentNode.items[pass.spec])
      <3>1. pass'.pc = "apply" /\ pass'.idx = pass.idx /\ pass'.jdx = pass.jdx + 1
        BY <1>0, <1>15, <2>7 DEF ReadBack, PassType
      <3>2. NodesApplied'
        BY <2>1, <2>4, <3>1 DEF EngineInv, NodesApplied, Handled
      <3>3. ItemsApplied'
        BY <2>1, <2>2, <2>4, <2>6, <3>1, SMT DEF ItemsApplied, CurrentNode
      <3>4. ~pass.complete BY <2>1 DEF EngineInv, AppliedSet
      <3> QED
        BY <2>1, <2>4, <2>5, <3>1, <3>2, <3>3, <3>4
        DEF EngineInv, AppliedSet, PruneList
    <2>8. CASE ~(pass.jdx < Len(CurrentNode.items[pass.spec]))
      <3>1. pass'.pc = "node" /\ pass'.idx = pass.idx + 1
        BY <1>0, <1>15, <2>8 DEF ReadBack, Advance, PassType
      <3>2. \A j \in DOMAIN CurrentNode.items[pass.spec] : j <= pass.jdx
        BY <2>1, <2>2, <2>8, SMT
      <3> QED BY <2>1, <2>4, <2>5, <2>6, <3>1, <3>2, EngineAdvance
    <2> QED BY <2>7, <2>8
  <1>16. CASE EngineDone
    <2>1. /\ pass'.pc = "recget" /\ pass'.spec = pass.spec /\ pass.pc = "node"
          /\ pass'.applied = pass.applied /\ blueprint' = blueprint
          /\ pass'.dels = pass.dels
      BY <1>0, <1>16 DEF EngineDone, PassType
    <2>2. \A i \in DOMAIN blueprint.nodes : i < pass.idx
      BY <1>0, <1>16, SMT DEF EngineDone, Served, PassType
    <2>3. DesiredKeys(blueprint, pass.spec) \subseteq pass.applied
      BY <2>1, <2>2, DesiredKeysMember, SMT DEF EngineInv, NodesApplied, Handled
    <2> QED BY <2>1, <2>3, EngineLeave DEF EngineInv, PruneList
  <1>17. CASE RecordGet
    <2>1. /\ pass'.pc = "recput" /\ pass'.spec = pass.spec /\ pass.pc = "recget"
          /\ pass'.applied = pass.applied /\ pass'.complete = pass.complete
          /\ blueprint' = blueprint /\ pass'.dels = pass.dels
      BY <1>0, <1>17 DEF RecordGet, PassType
    <2> QED BY <2>1, EngineLeave DEF EngineInv, AppliedSet, PruneList
  <1>18. CASE RecordPut
    <2>1. /\ pass'.spec = pass.spec /\ pass.pc = "recput"
          /\ pass'.applied = pass.applied /\ pass'.complete = pass.complete
          /\ pass'.dels = pass.dels /\ blueprint' = blueprint
          /\ pass'.pc = IF pass.complete THEN "prune" ELSE "status"
      BY <1>0, <1>18 DEF RecordPut, PassType
    <2>2. pass.dels = {} BY <2>1 DEF EngineInv, PruneList
    <2>3. CASE pass.complete
      BY <2>1, <2>2, <2>3
      DEF EngineInv, NodesApplied, ItemsApplied, AppliedSet, PruneList
    <2>4. CASE ~pass.complete
      BY <2>1, <2>2, <2>4, EngineLeave
    <2> QED BY <2>3, <2>4
  <1>19. CASE ListForPrune
    <2>1. /\ pass'.spec = pass.spec /\ pass'.pc = "prune" /\ pass.pc = "prune"
          /\ pass'.applied = pass.applied /\ pass'.complete = pass.complete
          /\ blueprint' = blueprint /\ pass'.dels \cap pass.applied = {}
      BY <1>0, <1>19 DEF ListForPrune, PassType
    <2> QED
      BY <2>1 DEF EngineInv, NodesApplied, ItemsApplied, AppliedSet, PruneList
  <1>20. CASE PruneDone
    <2>1. /\ pass'.pc = "status" /\ pass'.spec = pass.spec /\ pass.pc = "prune"
          /\ pass'.applied = pass.applied /\ pass'.complete = pass.complete
          /\ blueprint' = blueprint /\ pass'.dels = {}
      BY <1>0, <1>20 DEF PruneDone, Listed, PassType
    <2> QED BY <2>1, EngineLeave DEF EngineInv, AppliedSet
  <1> QED
    BY <1>1, <1>2, <1>3, <1>4, <1>5, <1>10, <1>11, <1>12, <1>13, <1>14, <1>15,
       <1>16, <1>17, <1>18, <1>19, <1>20 DEF PassStep

\* Every other step keeps it: it ends the pass, marks it stale, or does not
\* touch it.
LEMMA EngineOther ==
  ASSUME TypeInv, EngineInv,
         SweepStep \/ SweepGlitch \/ Glitch \/ Environment \/ UNCHANGED vars
  PROVE  EngineInv'
  <1> USE DEF serverVars, consumerVars, childVars
  <1>1. CASE Glitch \/ Restart \/ Redeploy
    BY <1>1, EngineIdleNext DEF Glitch, Restart, Redeploy
  <1>2. CASE Create \/ Edit \/ DeleteInst \/ ForceDelete
    <2>1. Touch /\ blueprint' = blueprint
      BY <1>2 DEF Create, Edit, DeleteInst, ForceDelete
    <2> QED BY <2>1, EngineFrame DEF Touch, TypeInv, TypeOK, PassType
  <1>3. CASE pass' = pass /\ blueprint' = blueprint
    BY <1>3, EngineFrame
  <1>4. CASE SweepStep \/ SweepGlitch
    BY <1>3, <1>4 DEF SweepStep, SweepList, SweepPick, SweepListChildren,
                      SweepDelete, SweepRecord, SweepGlitch
  <1>5. CASE Unbind \/ Rebind \/ CollectOwned \/ SetStatus \/ ExternalAppears
               \/ ExternalReadies \/ ExternalVanishes \/ Tick
    BY <1>3, <1>5 DEF Unbind, Rebind, CollectOwned, SetStatus, ExternalAppears,
                      ExternalReadies, ExternalVanishes, Tick
  <1>6. CASE UNCHANGED vars
    BY <1>3, <1>6 DEF vars
  <1> QED BY <1>1, <1>2, <1>4, <1>5, <1>6 DEF Environment

\* The engine's invariant, in every state.
LEMMA EngineInvariant == Spec => []EngineInv
  <1>1. Init => EngineInv BY EngineIdle DEF Init
  <1>2. TypeInv /\ EngineInv /\ [Next]_vars => EngineInv'
    BY EnginePass, EngineOther DEF Next
  <1> QED BY <1>1, <1>2, TypeInvariant, PTL DEF Spec

\* Prune never has a desired child on its list, for every graph, spec and
\* interleaving: by the time the res.Complete guard lets pruneChildren run, the
\* engine has applied and recorded every object of every included node.
THEOREM PruneIsSafe == Spec => []PruneSparesDesired
  BY EngineInvariant, EngineInvImplies, PTL
=============================================================================
