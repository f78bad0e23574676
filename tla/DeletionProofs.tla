--------------------------- MODULE DeletionProofs ---------------------------
(***************************************************************************)
(* The finalizer leaves nothing behind: GoneMeansClean for every blueprint *)
(* and every environment, provided that the revisions of the blueprint     *)
(* that are ever served agree on the (target, GVK) pairs of their children *)
(* (without that it is false: the run DroppedKind).                        *)
(*                                                                         *)
(* Under the same condition InstanceGC implements Lifecycle.  The argument *)
(* rests on GCInv, the invariant of the first result, and on LifeInv,      *)
(* which orders the uids and ties the deletion path of a pass to the       *)
(* deletion timestamp it has read.                                         *)
(***************************************************************************)
EXTENDS InstanceGCProofs

USE Zenon, SMT

\* Somebody will look after what instance u has: it has its finalizer still,
\* or it was removed by force and is left to the sweeper.
Owned(u) == u \in forced \/ (u = inst.uid /\ inst.fin)

ChildrenOwned ==
  \A k \in Key : children[k] # 0 =>
    Owned(children[k]) /\ KindOf(k) \in GCKinds(blueprint)

RecordsOwned == \A u \in Uids : record[u] # NoRecord => Owned(u)

PassOwned ==
  /\ pass.pc # "idle" => pass.uid # 0
  /\ pass.pc \notin {"idle", "addfin"} => Owned(pass.uid)

\* What the deletion pass has not listed yet, or listed and not deleted yet.
GCProgress ==
  pass.pc = "gc" =>
    \A k \in Key : children[k] = pass.uid =>
      KindOf(k) \in pass.kinds \/ k \in pass.dels

GCFinished ==
  pass.pc = "remfin" =>
    /\ \A k \in Key : children[k] # pass.uid
    /\ record[pass.uid] = NoRecord

GCInv == ChildrenOwned /\ RecordsOwned /\ PassOwned /\ GCProgress /\ GCFinished

\* The inductive invariant implies the property.
LEMMA GCInvImplies == TypeInv /\ GCInv => GoneMeansClean
  BY SMT DEF TypeInv, TypeOK, GCInv, ChildrenOwned, RecordsOwned, Owned, GoneMeansClean,
         Labelled, Uids

\* It holds initially.
LEMMA GCInit == Init => GCInv
  BY SMT DEF Init, GCInv, ChildrenOwned, RecordsOwned, PassOwned, GCProgress,
         GCFinished, NoPass

\* A pass that ends without touching the instance keeps it.
LEMMA GCEnd ==
  ASSUME GCInv, pass' = NoPass,
         UNCHANGED <<blueprint, inst, forced, children, record>>
  PROVE  GCInv'
  BY DEF GCInv, ChildrenOwned, RecordsOwned, PassOwned, GCProgress, GCFinished,
         Owned, NoPass

\* A pass that goes on outside the deletion path keeps it.
LEMMA GCGoesOn ==
  ASSUME GCInv, pass.pc \notin {"idle", "addfin"}, pass'.uid = pass.uid,
         pass'.pc \notin {"gc", "remfin"},
         UNCHANGED <<blueprint, inst, forced, children, record>>
  PROVE  GCInv'
  BY DEF GCInv, ChildrenOwned, RecordsOwned, PassOwned, GCProgress, GCFinished,
         Owned

\* Removing children keeps it, if the pass is left alone.
LEMMA GCShrinks ==
  ASSUME TypeInv, GCInv, NEW K \in Key,
         children' = [children EXCEPT ![K] = 0],
         UNCHANGED <<blueprint, inst, forced, record, pass>>
  PROVE  GCInv'
  <1>1. \A k \in Key : children'[k] # 0 => children'[k] = children[k]
    BY DEF TypeInv, TypeOK
  <1>2. pass.pc # "idle" => \A k \in Key : children'[k] = pass.uid =>
          children[k] = pass.uid
    BY <1>1 DEF GCInv, PassOwned
  <1>3. ChildrenOwned' BY <1>1, SMT DEF GCInv, ChildrenOwned, Owned
  <1>4. RecordsOwned' /\ PassOwned'
    BY DEF GCInv, RecordsOwned, PassOwned, Owned
  <1>5. GCProgress' BY <1>2 DEF GCInv, GCProgress
  <1>6. GCFinished' BY <1>2 DEF GCInv, GCFinished
  <1> QED BY <1>3, <1>4, <1>5, <1>6 DEF GCInv

\* Every step of a pass keeps it.
LEMMA GCPass ==
  ASSUME TypeInv, GCInv, PassStep PROVE GCInv'
  <1> USE DEF serverVars, consumerVars, childVars
  <1>0. pass \in PassType /\ blueprint \in Served
    BY BlueprintsAssumption DEF TypeInv, TypeOK
  <1>1. CASE Get
    <2>1. /\ pass'.uid = inst.uid /\ inst.uid # 0
          /\ pass'.pc \in {"gc", "node", "addfin"}
          /\ pass'.pc \in {"gc", "node"} => inst.fin
          /\ pass'.pc = "gc" => pass'.kinds = GCKinds(blueprint)
      BY <1>1 DEF Get, NoPass
    <2>2. UNCHANGED <<blueprint, inst, forced, children, record>>
      BY <1>1 DEF Get
    <2>3. ChildrenOwned' /\ RecordsOwned'
      BY <2>2 DEF GCInv, ChildrenOwned, RecordsOwned, Owned
    <2>4. PassOwned' BY <2>1, <2>2 DEF PassOwned, Owned
    <2>5. GCProgress' BY <2>1, <2>2 DEF GCProgress, GCInv, ChildrenOwned
    <2>6. GCFinished' BY <2>1 DEF GCFinished
    <2> QED BY <2>3, <2>4, <2>5, <2>6 DEF GCInv
  <1>2. CASE AddFinalizer
    <2>1. inst'.uid = inst.uid /\ inst'.fin
      BY <1>2 DEF AddFinalizer, TypeInv, TypeOK, InstType
    <2>2. ChildrenOwned' /\ RecordsOwned'
      BY <1>2, <2>1 DEF AddFinalizer, GCInv, ChildrenOwned, RecordsOwned, Owned
    <2> QED
      BY <1>2, <2>2
      DEF AddFinalizer, NoPass, GCInv, PassOwned, GCProgress, GCFinished
  <1>3. CASE ListForDelete
    <2>1. PICK kd \in pass.kinds :
            pass' = [pass EXCEPT !.kinds = @ \ {kd},
                       !.dels = {k \in Labelled(pass.uid) : KindOf(k) = kd}]
      BY <1>3 DEF ListForDelete
    <2>2. /\ pass'.pc = "gc" /\ pass'.uid = pass.uid
          /\ pass'.kinds = pass.kinds \ {kd}
          /\ pass'.dels = {k \in Labelled(pass.uid) : KindOf(k) = kd}
      BY <1>0, <1>3, <2>1 DEF ListForDelete, PassType
    <2>3. UNCHANGED <<blueprint, inst, forced, children, record>>
      BY <1>3 DEF ListForDelete
    <2>4. GCProgress'
      BY <1>3, <2>2, <2>3 DEF ListForDelete, GCInv, GCProgress, Labelled
    <2> QED
      BY <1>3, <2>2, <2>3, <2>4
      DEF ListForDelete, GCInv, ChildrenOwned, RecordsOwned, PassOwned, Owned,
          GCFinished
  <1>4. CASE DeleteListed
    <2>1. PICK d \in pass.dels :
            Delete(d) /\ pass' = [pass EXCEPT !.dels = @ \ {d}]
      BY <1>4 DEF DeleteListed
    <2>2. /\ pass'.pc = pass.pc /\ pass'.uid = pass.uid
          /\ pass'.kinds = pass.kinds /\ pass'.dels = pass.dels \ {d}
      BY <1>0, <2>1 DEF PassType
    <2>3. d \in Key BY <1>0 DEF PassType
    <2>4. /\ children' = [children EXCEPT ![d] = 0]
          /\ UNCHANGED <<blueprint, inst, forced, record>>
      BY <1>4, <2>1 DEF DeleteListed, Delete
    <2>5. \A k \in Key : children'[k] = IF k = d THEN 0 ELSE children[k]
      BY <2>4 DEF TypeInv, TypeOK
    <2>6. pass.uid # 0 BY <1>4 DEF DeleteListed, GCInv, PassOwned
    <2>7. ChildrenOwned' BY <2>4, <2>5, SMT DEF GCInv, ChildrenOwned, Owned
    <2>8. GCProgress' BY <2>2, <2>5, <2>6 DEF GCInv, GCProgress
    <2> QED
      BY <1>4, <2>2, <2>4, <2>7, <2>8
      DEF DeleteListed, GCInv, RecordsOwned, PassOwned, Owned, GCFinished
  <1>5. CASE DeleteLivenessRecord
    <2>1. pass'.pc = "remfin" /\ pass'.uid = pass.uid
      BY <1>0, <1>5 DEF DeleteLivenessRecord, PassType
    <2>2. \A u \in Uids : record'[u] = IF u = pass.uid THEN NoRecord ELSE record[u]
      BY <1>5 DEF DeleteLivenessRecord, TypeInv, TypeOK
    <2>3. pass.uid \in Uids
      BY <1>0, <1>5, SMT DEF DeleteLivenessRecord, GCInv, PassOwned, PassType, Uids
    <2>4. UNCHANGED <<blueprint, inst, forced, children>>
      BY <1>5 DEF DeleteLivenessRecord
    <2>5. GCFinished'
      BY <1>5, <2>1, <2>2, <2>3, <2>4
      DEF DeleteLivenessRecord, Listed, GCInv, GCProgress, GCFinished
    <2>6. RecordsOwned' BY <2>2, <2>4 DEF GCInv, RecordsOwned, Owned
    <2> QED
      BY <1>5, <2>1, <2>4, <2>5, <2>6
      DEF DeleteLivenessRecord, GCInv, ChildrenOwned, PassOwned, Owned, GCProgress
  <1>6. CASE RemoveFinalizer
    <2>1. inst.uid = pass.uid BY <1>6 DEF RemoveFinalizer, Fresh
    <2>2. /\ \A k \in Key : children[k] # pass.uid
          /\ record[pass.uid] = NoRecord
      BY <1>6 DEF RemoveFinalizer, GCInv, GCFinished
    <2>3. UNCHANGED <<blueprint, forced, children, record>>
      BY <1>6 DEF RemoveFinalizer
    <2>4. ChildrenOwned' /\ RecordsOwned'
      BY <2>1, <2>2, <2>3 DEF GCInv, ChildrenOwned, RecordsOwned, Owned
    <2> QED
      BY <1>6, <2>4
      DEF RemoveFinalizer, NoPass, GCInv, PassOwned, GCProgress, GCFinished
  <1>7. CASE SkipIgnored
    BY <1>0, <1>7, GCGoesOn DEF SkipIgnored, AtNode, Advance, PassType
  <1>8. CASE DataPending
    BY <1>0, <1>8, GCGoesOn DEF DataPending, AtNode, Suspend, PassType
  <1>9. CASE ReadExternal
    BY <1>0, <1>9, GCGoesOn, ReadingMoves
    DEF ReadExternal, Resolved, AtNode, Suspend, Advance, PassType
  <1>10. CASE StartNode
    BY <1>0, <1>10, GCGoesOn DEF StartNode, Resolved, AtNode, Advance, PassType
  <1>11. CASE ApplyChild
    <2>1. pass'.pc = "readback" /\ pass'.uid = pass.uid
      BY <1>0, <1>11 DEF ApplyChild, PassType
    <2>2. KindOf(CurrentKey) \in GCKinds(blueprint)
      BY <1>0, <1>11, DesiredKind
      DEF ApplyChild, TypeInv, CallSite, CurrentKey, CurrentNode, NodeTarget,
          PassType
    <2>3. Owned(pass.uid) BY <1>11 DEF ApplyChild, GCInv, PassOwned
    <2>4. \A k \in Key :
            children'[k] = IF k = CurrentKey THEN pass.uid ELSE children[k]
      BY <1>11 DEF ApplyChild, TypeInv, TypeOK
    <2>5. UNCHANGED <<blueprint, inst, forced, record>> BY <1>11 DEF ApplyChild
    <2>6. ChildrenOwned'
      BY <2>2, <2>3, <2>4, <2>5 DEF GCInv, ChildrenOwned, Owned
    <2> QED
      BY <1>11, <2>1, <2>5, <2>6
      DEF ApplyChild, GCInv, RecordsOwned, PassOwned, Owned, GCProgress,
          GCFinished
  <1>12. CASE ReadBack
    <2>1. pass'.uid = pass.uid /\ pass'.pc \in {"apply", "node"}
      BY <1>0, <1>12 DEF ReadBack, Advance, PassType
    <2> QED BY <1>12, <2>1, GCGoesOn DEF ReadBack
  <1>13. CASE EngineDone
    BY <1>0, <1>13, GCGoesOn DEF EngineDone, PassType
  <1>14. CASE RecordGet
    BY <1>0, <1>14, GCGoesOn DEF RecordGet, PassType
  <1>15. CASE RecordPut
    <2>1. pass'.uid = pass.uid /\ pass'.pc \in {"prune", "status"}
      BY <1>0, <1>15 DEF RecordPut, PassType
    <2>2. \A u \in Uids : u # pass.uid => record'[u] = record[u]
      BY <1>15 DEF RecordPut, TypeInv, TypeOK
    <2>3. Owned(pass.uid) BY <1>15 DEF RecordPut, GCInv, PassOwned
    <2>4. UNCHANGED <<blueprint, inst, forced, children>> BY <1>15 DEF RecordPut
    <2>5. RecordsOwned' BY <2>2, <2>3, <2>4 DEF GCInv, RecordsOwned, Owned
    <2> QED
      BY <1>15, <2>1, <2>4, <2>5
      DEF RecordPut, GCInv, ChildrenOwned, PassOwned, Owned, GCProgress,
          GCFinished
  <1>16. CASE ListForPrune
    BY <1>0, <1>16, GCGoesOn DEF ListForPrune, PassType
  <1>17. CASE PruneDone
    BY <1>0, <1>17, GCGoesOn DEF PruneDone, PassType
  <1>18. CASE UpdateStatus
    <2>1. inst'.uid = inst.uid /\ inst'.fin = inst.fin
      BY <1>18 DEF UpdateStatus, TypeInv, TypeOK, InstType
    <2> QED
      BY <1>18, <2>1
      DEF UpdateStatus, NoPass, GCInv, ChildrenOwned, RecordsOwned, PassOwned,
          Owned, GCProgress, GCFinished
  <1>19. CASE Reject
    BY <1>19, GCEnd DEF Reject
  <1> QED
    BY <1>1, <1>2, <1>3, <1>4, <1>5, <1>6, <1>7, <1>8, <1>9, <1>10, <1>11,
       <1>12, <1>13, <1>14, <1>15, <1>16, <1>17, <1>18, <1>19 DEF PassStep

\* Forgetting a record keeps it, if the pass is left alone.
LEMMA GCForgets ==
  ASSUME TypeInv, GCInv, NEW v,
         record' = [record EXCEPT ![v] = NoRecord],
         UNCHANGED <<blueprint, inst, forced, children, pass>>
  PROVE  GCInv'
  <1>1. \A u \in Uids : record'[u] # NoRecord => record'[u] = record[u]
    BY DEF TypeInv, TypeOK
  <1>2. pass.pc = "remfin" => record'[pass.uid] = NoRecord
    <2>1. pass.pc = "remfin" => pass.uid \in Uids
      BY SMT DEF TypeInv, TypeOK, PassType, GCInv, PassOwned, Uids
    <2> QED BY <2>1 DEF TypeInv, TypeOK, GCInv, GCFinished
  <1> QED
    BY <1>1, <1>2 DEF GCInv, ChildrenOwned, RecordsOwned, PassOwned, Owned,
                      GCProgress, GCFinished

\* Every step of a sweep keeps it.
LEMMA GCSweep ==
  ASSUME TypeInv, GCInv, SweepStep \/ SweepGlitch PROVE GCInv'
  <1> USE DEF serverVars, consumerVars, childVars
  <1>1. CASE SweepDelete
    <2>1. PICK k \in sweep.dels : Delete(k) BY <1>1 DEF SweepDelete
    <2>2. k \in Key BY DEF TypeInv, TypeOK, SweepType
    <2> QED BY <1>1, <2>1, <2>2, GCShrinks DEF SweepDelete, Delete
  <1>2. CASE SweepRecord
    BY <1>2, GCForgets DEF SweepRecord
  <1>3. CASE SweepList \/ SweepPick \/ SweepListChildren \/ SweepGlitch
    <2>1. UNCHANGED <<blueprint, inst, forced, children, record, pass>>
      BY <1>3 DEF SweepList, SweepPick, SweepListChildren, SweepGlitch
    <2> QED
      BY <2>1 DEF GCInv, ChildrenOwned, RecordsOwned, PassOwned, Owned,
                  GCProgress, GCFinished
  <1> QED BY <1>1, <1>2, <1>3 DEF SweepStep

\* A step that only touches the instance, losing neither its finalizer nor
\* what force removed, keeps it.
LEMMA GCTouch ==
  ASSUME TypeInv, GCInv, Touch, UNCHANGED <<blueprint, children, record>>,
         forced \subseteq forced',
         \A u \in Uids : Owned(u) => Owned(u)'
  PROVE  GCInv'
  <1>1. /\ pass'.pc = pass.pc /\ pass'.uid = pass.uid
        /\ pass'.kinds = pass.kinds /\ pass'.dels = pass.dels
    BY DEF Touch, TypeInv, TypeOK, PassType
  <1>2. \A k \in Key : children[k] # 0 => children[k] \in Uids
    BY MaxUidAssumption, SMT DEF TypeInv, TypeOK, Uids
  <1>3. pass.pc # "idle" => pass.uid \in Uids
    BY SMT DEF TypeInv, TypeOK, PassType, GCInv, PassOwned, Uids
  <1>4. ChildrenOwned' BY <1>2 DEF GCInv, ChildrenOwned
  <1>5. RecordsOwned' BY DEF GCInv, RecordsOwned
  <1>6. PassOwned' BY <1>1, <1>3 DEF GCInv, PassOwned
  <1>7. GCProgress' /\ GCFinished' BY <1>1 DEF GCInv, GCProgress, GCFinished
  <1> QED BY <1>4, <1>5, <1>6, <1>7 DEF GCInv

\* Ageing the records keeps it.
LEMMA GCAged ==
  ASSUME TypeInv, GCInv, NEW n \in Nat,
         record' = [u \in Uids |-> Aged(record[u], n)],
         UNCHANGED <<blueprint, inst, forced, children>>,
         pass' = pass \/ pass' = NoPass
  PROVE  GCInv'
  <1>1. \A u \in Uids : record[u] = NoRecord => record'[u] = NoRecord
    BY DEF Aged
  <1>2. RecordsOwned' BY <1>1 DEF GCInv, RecordsOwned, Owned
  <1>3. GCFinished'
    <2>1. pass.pc = "remfin" => pass.uid \in Uids
      BY SMT DEF TypeInv, TypeOK, PassType, GCInv, PassOwned, Uids
    <2> QED BY <1>1, <2>1, SMT DEF GCInv, GCFinished, NoPass
  <1> QED
    BY <1>2, <1>3, SMT DEF GCInv, ChildrenOwned, PassOwned, Owned, GCProgress, NoPass

\* Every step of the environment keeps it, and so does a failed call.
LEMMA GCEnvironment ==
  ASSUME SameKinds, TypeInv, GCInv, Environment \/ Glitch PROVE GCInv'
  <1> USE DEF serverVars, consumerVars, childVars
  <1>0. inst \in InstType BY DEF TypeInv, TypeOK
  <1>1. CASE Create
    <2>1. \A u \in Uids : Owned(u) => Owned(u)'
      BY <1>1, SMT DEF Create, Owned, Uids
    <2> QED BY <1>1, <2>1, GCTouch DEF Create
  <1>2. CASE Edit
    <2>1. \A u \in Uids : Owned(u) => Owned(u)'
      BY <1>0, <1>2 DEF Edit, Owned, InstType
    <2> QED BY <1>2, <2>1, GCTouch DEF Edit
  <1>3. CASE DeleteInst
    <2>1. \A u \in Uids : Owned(u) => Owned(u)'
      BY <1>0, <1>3 DEF DeleteInst, Owned, InstType
    <2> QED BY <1>3, <2>1, GCTouch DEF DeleteInst
  <1>4. CASE ForceDelete
    <2>1. \A u \in Uids : Owned(u) => Owned(u)'
      BY <1>4 DEF ForceDelete, Owned
    <2> QED BY <1>4, <2>1, GCTouch DEF ForceDelete
  <1>5. CASE CollectOwned
    <2>1. PICK k \in Key : Delete(k) BY <1>5 DEF CollectOwned
    <2> QED BY <1>5, <2>1, GCShrinks DEF CollectOwned, Delete
  <1>6. CASE Tick
    BY <1>6, GCAged DEF Tick
  <1>7. CASE Restart
    <2>1. PICK n \in {0, StaleAfter + 1} :
            record' = [u \in Uids |-> Aged(record[u], n)]
      BY <1>7 DEF Restart
    <2>2. n \in Nat BY StaleAssumption, SMT
    <2> QED BY <1>7, <2>1, <2>2, GCAged DEF Restart
  <1>8. CASE Redeploy
    <2>1. blueprint' \in Blueprints /\ blueprint \in Blueprints
      BY <1>8 DEF Redeploy, TypeInv, TypeOK
    <2>2. GCKinds(blueprint') = GCKinds(blueprint) BY <2>1 DEF SameKinds
    <2> QED
      BY <1>8, <2>2
      DEF Redeploy, NoPass, GCInv, ChildrenOwned, RecordsOwned, PassOwned, Owned,
          GCProgress, GCFinished
  <1>9. CASE Glitch
    BY <1>9, GCEnd DEF Glitch
  <1>10. CASE Unbind \/ Rebind \/ SetStatus \/ ExternalAppears \/ ExternalReadies
               \/ ExternalVanishes
    <2>1. UNCHANGED <<blueprint, inst, forced, children, record, pass>>
      BY <1>10 DEF Unbind, Rebind, SetStatus, ExternalAppears, ExternalReadies, ExternalVanishes
    <2> QED
      BY <2>1 DEF GCInv, ChildrenOwned, RecordsOwned, PassOwned, Owned,
                  GCProgress, GCFinished
  <1> QED
    BY <1>1, <1>2, <1>3, <1>4, <1>5, <1>6, <1>7, <1>8, <1>9, <1>10
    DEF Environment

\* Every step keeps it.
LEMMA GCNext ==
  ASSUME SameKinds PROVE TypeInv /\ GCInv /\ [Next]_vars => GCInv'
  <1> SUFFICES ASSUME TypeInv, GCInv, [Next]_vars PROVE GCInv' OBVIOUS
  <1>1. CASE PassStep BY <1>1, GCPass
  <1>2. CASE SweepStep \/ SweepGlitch BY <1>2, GCSweep
  <1>3. CASE Environment \/ Glitch BY <1>3, GCEnvironment
  <1>4. CASE UNCHANGED vars
    BY <1>4 DEF vars, GCInv, ChildrenOwned, RecordsOwned, PassOwned, Owned,
                GCProgress, GCFinished
  <1> QED BY <1>1, <1>2, <1>3, <1>4 DEF Next

\* An instance that is gone through its finalizer has left neither a child in
\* any workspace nor a liveness record, whatever failed, conflicted, crashed or
\* was swept in between: the deletion path of Reconcile is complete as long as
\* the served revisions agree on the kinds of their children.
THEOREM DeletionIsClean == ASSUME SameKinds PROVE Spec => []GoneMeansClean
  <1>1. Init => GCInv BY GCInit
  <1>2. TypeInv /\ GCInv /\ [Next]_vars => GCInv' BY GCNext
  <1>3. TypeInv /\ GCInv => GoneMeansClean BY GCInvImplies
  <1> QED BY <1>1, <1>2, <1>3, TypeInvariant, PTL DEF Spec

-----------------------------------------------------------------------------
(* The abstract life cycle.                                                *)

LifeInv ==
  /\ inst.uid < nextUid /\ inst.uid \notin forced
  /\ \A u \in forced : u < nextUid
  /\ inst.deleting => inst.fin
  /\ inst.fin => inst.uid # 0
  /\ pass.uid < nextUid
  /\ pass.pc \in {"gc", "remfin"} /\ inst.uid = pass.uid => inst.deleting

\* It holds initially.
LEMMA LifeInit == Init => LifeInv
  BY SMT DEF Init, LifeInv, NoInst, NoPass

\* A pass that does not enter the deletion path.
GoesOn ==
  \/ pass' = NoPass
  \/ /\ pass'.uid = pass.uid
     /\ pass'.pc \in {"gc", "remfin"} => pass.pc \in {"gc", "remfin"}

\* Such a pass keeps it, if the instance keeps its uid, finalizer and deletion
\* timestamp.
LEMMA LifeGoesOn ==
  ASSUME TypeInv, LifeInv, GoesOn, UNCHANGED <<nextUid, forced>>,
         inst'.uid = inst.uid, inst'.fin = inst.fin, inst'.deleting = inst.deleting
  PROVE  LifeInv'
  <1>1. 0 < nextUid BY SMT DEF TypeInv, TypeOK
  <1> QED BY <1>1, SMT DEF LifeInv, GoesOn, NoPass

\* Every step of a pass either goes on like that or is one of three.
LEMMA PassGoesOn ==
  ASSUME TypeInv, PassStep, ~Get, ~AddFinalizer, ~RemoveFinalizer
  PROVE  /\ GoesOn
         /\ UNCHANGED <<nextUid, forced>>
         /\ inst'.uid = inst.uid /\ inst'.fin = inst.fin
         /\ inst'.deleting = inst.deleting
  <1> USE DEF serverVars, consumerVars, childVars, GoesOn
  <1>0. pass \in PassType /\ inst \in InstType BY DEF TypeInv, TypeOK
  <1>1. CASE ListForDelete BY <1>0, <1>1 DEF ListForDelete, PassType
  <1>2. CASE DeleteListed BY <1>0, <1>2 DEF DeleteListed, PassType
  <1>3. CASE DeleteLivenessRecord BY <1>0, <1>3 DEF DeleteLivenessRecord, PassType
  <1>4. CASE SkipIgnored BY <1>0, <1>4 DEF SkipIgnored, Advance, PassType
  <1>5. CASE DataPending BY <1>0, <1>5 DEF DataPending, Suspend, PassType
  <1>6. CASE ReadExternal
    BY <1>0, <1>6, ReadingMoves DEF ReadExternal, Suspend, Advance, PassType
  <1>7. CASE StartNode BY <1>0, <1>7 DEF StartNode, Advance, PassType
  <1>8. CASE ApplyChild BY <1>0, <1>8 DEF ApplyChild, PassType
  <1>9. CASE ReadBack
    <2>1. pass'.uid = pass.uid /\ pass'.pc \in {"apply", "node"}
      BY <1>0, <1>9 DEF ReadBack, Advance, PassType
    <2> QED BY <1>9, <2>1 DEF ReadBack
  <1>10. CASE EngineDone BY <1>0, <1>10 DEF EngineDone, PassType
  <1>11. CASE RecordGet BY <1>0, <1>11 DEF RecordGet, PassType
  <1>12. CASE RecordPut BY <1>0, <1>12 DEF RecordPut, PassType
  <1>13. CASE ListForPrune BY <1>0, <1>13 DEF ListForPrune, PassType
  <1>14. CASE PruneDone BY <1>0, <1>14 DEF PruneDone, PassType
  <1>15. CASE UpdateStatus BY <1>0, <1>15 DEF UpdateStatus, InstType
  <1>16. CASE Reject BY <1>16 DEF Reject
  <1> QED
    BY <1>1, <1>2, <1>3, <1>4, <1>5, <1>6, <1>7, <1>8, <1>9, <1>10, <1>11, <1>12,
       <1>13, <1>14, <1>15, <1>16 DEF PassStep

\* The steps that neither a pass takes nor the consumer.
Elsewhere ==
  \/ SweepStep \/ SweepGlitch \/ Glitch \/ CollectOwned \/ SetStatus
  \/ ExternalAppears \/ ExternalReadies \/ ExternalVanishes
  \/ Tick \/ Restart \/ Redeploy
  \/ Unbind \/ Rebind \/ Edit \/ UNCHANGED vars

LEMMA ElsewhereGoesOn ==
  ASSUME TypeInv, Elsewhere
  PROVE  /\ GoesOn
         /\ UNCHANGED <<nextUid, forced>>
         /\ inst'.uid = inst.uid /\ inst'.fin = inst.fin
         /\ inst'.deleting = inst.deleting
  <1> USE DEF serverVars, consumerVars, childVars, GoesOn
  <1>1. CASE Edit
    <2>1. pass'.uid = pass.uid /\ pass'.pc = pass.pc
      BY <1>1 DEF Edit, Touch, TypeInv, TypeOK, PassType
    <2> QED BY <1>1, <2>1 DEF Edit, TypeInv, TypeOK, InstType
  <1>2. CASE SweepStep \/ SweepGlitch
    BY <1>2 DEF SweepStep, SweepList, SweepPick, SweepListChildren, SweepDelete,
                SweepRecord, SweepGlitch
  <1>3. CASE Glitch \/ Restart \/ Redeploy \/ Tick
    BY <1>3 DEF Glitch, Restart, Redeploy, Tick
  <1>4. CASE CollectOwned \/ SetStatus \/ ExternalAppears \/ ExternalReadies
               \/ ExternalVanishes
    BY <1>4 DEF CollectOwned, SetStatus, ExternalAppears, ExternalReadies, ExternalVanishes
  <1>5. CASE Unbind \/ Rebind \/ UNCHANGED vars
    BY <1>5 DEF Unbind, Rebind, vars
  <1> QED BY <1>1, <1>2, <1>3, <1>4, <1>5 DEF Elsewhere

\* Every step is of one of these kinds.
LEMMA StepKinds ==
  ASSUME [Next]_vars
  PROVE  \/ PassStep /\ ~Get /\ ~AddFinalizer /\ ~RemoveFinalizer
         \/ Get \/ AddFinalizer \/ RemoveFinalizer
         \/ Create \/ DeleteInst \/ ForceDelete \/ Elsewhere
  BY DEF Next, Environment, Elsewhere

\* Every step keeps it.
LEMMA LifeNext ==
  TypeInv /\ GCInv /\ LifeInv /\ [Next]_vars => LifeInv'
  <1> SUFFICES ASSUME TypeInv, GCInv, LifeInv, [Next]_vars PROVE LifeInv' OBVIOUS
  <1> USE DEF serverVars, consumerVars, childVars
  <1>0. /\ pass \in PassType /\ inst \in InstType /\ nextUid \in 1..(MaxUid + 1)
        /\ inst.uid \in Nat /\ pass.uid \in Nat /\ nextUid \in Nat
        /\ forced \subseteq Nat \ {0}
    BY MaxUidAssumption, SMT DEF TypeInv, TypeOK, PassType, InstType, Uids
  <1>1. CASE PassStep /\ ~Get /\ ~AddFinalizer /\ ~RemoveFinalizer
    BY <1>1, PassGoesOn, LifeGoesOn
  <1>2. CASE Get
    <2>1. /\ pass'.uid = inst.uid
          /\ pass'.pc \in {"gc", "remfin"} => inst.deleting
      BY <1>2 DEF Get, NoPass
    <2> QED BY <1>2, <2>1 DEF Get, LifeInv
  <1>3. CASE AddFinalizer
    <2>1. inst'.uid = inst.uid /\ inst'.fin /\ inst'.deleting = inst.deleting
      BY <1>0, <1>3 DEF AddFinalizer, InstType
    <2>2. inst.uid # 0 BY <1>3 DEF AddFinalizer, Fresh, GCInv, PassOwned
    <2> QED BY <1>0, <1>3, <2>1, <2>2, SMT DEF AddFinalizer, LifeInv, NoPass
  <1>4. CASE RemoveFinalizer
    BY <1>0, <1>4, SMT DEF RemoveFinalizer, LifeInv, NoPass, NoInst
  <1>5. CASE Create
    <2>1. /\ inst'.uid = nextUid /\ ~inst'.fin /\ ~inst'.deleting
          /\ nextUid' = nextUid + 1 /\ forced' = forced
      BY <1>5 DEF Create, NoInst
    <2>2. pass'.uid = pass.uid /\ pass'.pc = pass.pc
      BY <1>0, <1>5 DEF Create, Touch, PassType
    <2> QED BY <1>0, <2>1, <2>2, SMT DEF LifeInv
  <1>6. CASE DeleteInst
    <2>1. pass'.uid = pass.uid /\ pass'.pc = pass.pc
      BY <1>0, <1>6 DEF DeleteInst, Touch, PassType
    <2>2. \/ inst' = NoInst
          \/ inst'.uid = inst.uid /\ inst'.fin /\ inst.fin /\ inst'.deleting
      BY <1>0, <1>6 DEF DeleteInst, InstType
    <2>3. pass.pc \in {"gc", "remfin"} => pass.uid # 0 BY DEF GCInv, PassOwned
    <2> QED BY <1>0, <1>6, <2>1, <2>2, <2>3, SMT DEF DeleteInst, LifeInv, NoInst
  <1>7. CASE ForceDelete
    <2>1. pass'.uid = pass.uid /\ pass'.pc = pass.pc
      BY <1>0, <1>7 DEF ForceDelete, Touch, PassType
    <2>2. pass.pc \in {"gc", "remfin"} => pass.uid # 0 BY DEF GCInv, PassOwned
    <2> QED BY <1>0, <1>7, <2>1, <2>2, SMT DEF ForceDelete, LifeInv, NoInst
  <1>8. CASE Elsewhere BY <1>8, ElsewhereGoesOn, LifeGoesOn
  <1> QED
    BY <1>1, <1>2, <1>3, <1>4, <1>5, <1>6, <1>7, <1>8, StepKinds

-----------------------------------------------------------------------------
(* The refinement *)

\* The stages, one by one.
LEMMA LifeStages ==
  ASSUME NEW u \in Uids PROVE Life[u] = Stage(u)
  BY DEF Life

\* Whatever has a footprint is owned.
LEMMA FootprintOwned ==
  ASSUME GCInv, NEW u \in Uids, Footprint[u] PROVE Owned(u)
  <1>1. Labelled(u) # {} \/ record[u] # NoRecord BY DEF Footprint
  <1>2. CASE record[u] # NoRecord BY <1>2 DEF GCInv, RecordsOwned
  <1>3. CASE Labelled(u) # {}
    <2>1. PICK k \in Key : children[k] = u BY <1>3 DEF Labelled
    <2>2. u # 0 BY SMT DEF Uids
    <2> QED BY <2>1, <2>2 DEF GCInv, ChildrenOwned
  <1> QED BY <1>1, <1>2, <1>3

\* The initial states are initial states of Lifecycle.
LEMMA ContractInit == Init => Contract!Init
  <1> SUFFICES ASSUME Init PROVE Contract!Init OBVIOUS
  <1>1. \A u \in Uids : u \notin forced /\ u # inst.uid /\ u >= nextUid
    BY SMT DEF Init, NoInst, Uids
  <1>2. Life = [u \in Uids |-> "none"]
    <2>1. \A u \in Uids : ~(u < nextUid) BY <1>1, SMT DEF Init, Uids
    <2> QED BY <1>1, <2>1 DEF Life, Stage
  <1>3. \A u \in Uids : Labelled(u) = {} /\ record[u] = NoRecord
    BY SMT DEF Init, Labelled, Uids
  <1>4. Footprint = [u \in Uids |-> FALSE] BY <1>3 DEF Footprint
  <1> QED BY <1>2, <1>4 DEF Contract!Init

\* A step that leaves the object, its finalizer and its deletion timestamp alone
\* works on what is owned.
LEMMA WorkStep ==
  ASSUME TypeInv, GCInv, GCInv', UNCHANGED <<nextUid, forced>>,
         inst'.uid = inst.uid, inst'.fin = inst.fin, inst'.deleting = inst.deleting
  PROVE  Contract!Work
  <1>1. Life' = Life BY DEF Life, Stage
  <1>2. \A u \in Uids : Owned(u) => Life[u] \in {"guarded", "leaving", "forced"}
    BY LifeStages DEF Owned, Stage
  <1>3. \A u \in Uids : Owned(u)' => Owned(u) BY DEF Owned
  <1>4. \A u \in Uids : Footprint[u] => Owned(u) BY FootprintOwned
  <1>5. \A u \in Uids : Footprint'[u] => Owned(u)'
    <2> SUFFICES ASSUME NEW u \in Uids, Footprint'[u] PROVE Owned(u)' OBVIOUS
    <2>1. Labelled(u)' # {} \/ record'[u] # NoRecord BY DEF Footprint
    <2>2. CASE record'[u] # NoRecord BY <2>2 DEF GCInv, RecordsOwned
    <2>3. CASE Labelled(u)' # {}
      <3>1. PICK k \in Key : children'[k] = u BY <2>3 DEF Labelled
      <3>2. u # 0 BY SMT DEF Uids
      <3> QED BY <3>1, <3>2 DEF GCInv, ChildrenOwned
    <2> QED BY <2>1, <2>2, <2>3
  <1>6. Footprint' \in [Uids -> BOOLEAN] BY DEF Footprint
  <1>7. \A u \in Uids : Footprint[u] \in BOOLEAN /\ Footprint'[u] \in BOOLEAN
    BY DEF Footprint
  <1>8. \A u \in Uids : Footprint'[u] # Footprint[u] => Footprint[u] \/ Footprint'[u]
    BY <1>7
  <1>9. \A u \in Uids : Footprint'[u] # Footprint[u] =>
          Life[u] \in {"guarded", "leaving", "forced"}
    BY <1>2, <1>3, <1>4, <1>5, <1>8
  <1> QED BY <1>1, <1>6, <1>9 DEF Contract!Work

\* A step that touches neither children nor records keeps the footprint.
LEMMA SameFootprint ==
  ASSUME UNCHANGED <<children, record>> PROVE Footprint' = Footprint
  BY DEF Footprint, Labelled

\* Every step is a step of Lifecycle.
LEMMA ContractNext ==
  TypeInv /\ GCInv /\ GCInv' /\ LifeInv /\ [Next]_vars
    => [Contract!Next]_(Contract!vars)
  <1> SUFFICES ASSUME TypeInv, GCInv, GCInv', LifeInv, [Next]_vars
               PROVE  Contract!Next \/ UNCHANGED <<Life, Footprint>>
    BY DEF Contract!vars
  <1> USE DEF serverVars, consumerVars, childVars
  <1>0. /\ inst \in InstType /\ inst.uid \in 0..MaxUid /\ nextUid \in Nat
        /\ forced \subseteq Uids
    BY MaxUidAssumption, SMT DEF TypeInv, TypeOK, InstType
  <1>1. CASE PassStep /\ ~Get /\ ~AddFinalizer /\ ~RemoveFinalizer
    BY <1>1, PassGoesOn, WorkStep DEF Contract!Next
  <1>2. CASE Get
    BY <1>2, WorkStep DEF Get, Contract!Next
  <1>3. CASE AddFinalizer
    <2>1. /\ inst'.uid = inst.uid /\ inst'.fin /\ inst'.deleting = inst.deleting
          /\ UNCHANGED <<nextUid, forced, children, record>>
      BY <1>0, <1>3 DEF AddFinalizer, InstType
    <2>2. CASE inst.fin
      <3>1. inst'.fin = inst.fin BY <1>0, <1>3, <2>2 DEF AddFinalizer, InstType
      <3> QED BY <2>1, <3>1, WorkStep DEF Contract!Next
    <2>3. CASE ~inst.fin
      <3>1. inst.uid \in Uids
        BY <1>0, <1>3, SMT DEF AddFinalizer, Fresh, GCInv, PassOwned, Uids
      <3>2. Life[inst.uid] = "fresh" BY <2>3, <3>1, LifeStages DEF LifeInv, Stage
      <3>3. Life' = [Life EXCEPT ![inst.uid] = "guarded"]
        <4>1. \A u \in Uids : Stage(u)' = IF u = inst.uid THEN "guarded" ELSE Stage(u)
          BY <2>1, <2>3, <3>1 DEF Stage, LifeInv
        <4> QED BY <4>1 DEF Life
      <3>8. Footprint' = Footprint BY <2>1, SameFootprint
      <3>9. Contract!Guard(inst.uid)
        BY <2>1, <3>1, <3>2, <3>3, <3>8 DEF Contract!Guard, Contract!Become
      <3> QED BY <3>1, <3>9 DEF Contract!Next
    <2> QED BY <2>2, <2>3
  <1>4. CASE RemoveFinalizer
    <2>1. inst.uid = pass.uid /\ inst.deleting /\ inst.fin /\ inst.uid \in Uids
      BY <1>0, <1>4, SMT DEF RemoveFinalizer, Fresh, LifeInv, Uids
    <2>2. Life[inst.uid] = "leaving" BY <2>1, LifeStages DEF LifeInv, Stage
    <2>3. ~Footprint[inst.uid]
      BY <1>4, <2>1 DEF RemoveFinalizer, GCInv, GCFinished, Footprint, Labelled
    <2>4. inst'.uid = 0 /\ UNCHANGED <<nextUid, forced, children, record>>
      BY <1>4 DEF RemoveFinalizer, NoInst
    <2>5. Life' = [Life EXCEPT ![inst.uid] = "gone"]
      <3>1. \A u \in Uids : Stage(u)' = IF u = inst.uid THEN "gone" ELSE Stage(u)
        BY <1>0, <2>1, <2>4, SMT DEF Stage, LifeInv, Uids
      <3> QED BY <3>1 DEF Life
    <2>8. Footprint' = Footprint BY <2>4, SameFootprint
    <2>9. Contract!Release(inst.uid)
      BY <2>1, <2>2, <2>3, <2>4, <2>5, <2>8 DEF Contract!Release, Contract!Become
    <2> QED BY <2>1, <2>9 DEF Contract!Next
  <1>5. CASE Create
    <2>1. /\ inst.uid = 0 /\ inst'.uid = nextUid /\ ~inst'.fin /\ ~inst'.deleting
          /\ nextUid' = nextUid + 1 /\ UNCHANGED <<forced, children, record>>
      BY <1>5 DEF Create, NoInst
    <2>2. nextUid \in Uids BY <1>5, SMT DEF Create, TypeInv, TypeOK, Uids
    <2>3. nextUid \notin forced BY <1>0, SMT DEF LifeInv
    <2>4. Life[nextUid] = "none" BY <1>0, <2>1, <2>2, <2>3, LifeStages, SMT DEF Uids, Stage
    <2>5. \A v \in Uids : Life[v] \notin Contract!Existing
      BY <1>0, <2>1, LifeStages, SMT DEF Contract!Existing, Uids, Stage
    <2>6. Life' = [Life EXCEPT ![nextUid] = "fresh"]
      <3>1. \A u \in Uids : Stage(u)' = IF u = nextUid THEN "fresh" ELSE Stage(u)
        BY <1>0, <2>1, <2>2, <2>3, SMT DEF Stage, Uids
      <3> QED BY <3>1 DEF Life
    <2>8. Footprint' = Footprint BY <2>1, SameFootprint
    <2>9. Contract!Create(nextUid)
      BY <2>1, <2>2, <2>4, <2>5, <2>6, <2>8 DEF Contract!Create, Contract!Become
    <2> QED BY <2>2, <2>9 DEF Contract!Next
  <1>6. CASE DeleteInst
    <2>1. /\ inst.uid \in Uids /\ inst.uid \notin forced /\ ~inst.deleting
          /\ UNCHANGED <<nextUid, forced, children, record>>
      BY <1>0, <1>6, SMT DEF DeleteInst, LifeInv, Uids
    <2>2. CASE inst.fin
      <3>1. inst'.uid = inst.uid /\ inst'.fin /\ inst'.deleting
        BY <1>0, <1>6, <2>2 DEF DeleteInst, InstType
      <3>2. Life[inst.uid] = "guarded" BY <2>1, <2>2, LifeStages DEF Stage
      <3>3. Life' = [Life EXCEPT ![inst.uid] = "leaving"]
        <4>1. \A u \in Uids : Stage(u)' = IF u = inst.uid THEN "leaving" ELSE Stage(u)
          BY <2>1, <2>2, <3>1 DEF Stage
        <4> QED BY <4>1 DEF Life
      <3>8. Footprint' = Footprint BY <2>1, SameFootprint
      <3>9. Contract!Mark(inst.uid)
        BY <2>1, <3>2, <3>3, <3>8 DEF Contract!Mark, Contract!Become
      <3> QED BY <2>1, <3>9 DEF Contract!Next
    <2>3. CASE ~inst.fin
      <3>1. inst'.uid = 0 BY <1>6, <2>3 DEF DeleteInst, NoInst
      <3>2. Life[inst.uid] = "fresh" BY <2>1, <2>3, LifeStages DEF Stage
      <3>3. Life' = [Life EXCEPT ![inst.uid] = "gone"]
        <4>1. \A u \in Uids : Stage(u)' = IF u = inst.uid THEN "gone" ELSE Stage(u)
          BY <1>0, <2>1, <3>1, SMT DEF Stage, LifeInv, Uids
        <4> QED BY <4>1 DEF Life
      <3>8. Footprint' = Footprint BY <2>1, SameFootprint
      <3>9. Contract!Discard(inst.uid)
        BY <2>1, <3>2, <3>3, <3>8 DEF Contract!Discard, Contract!Become
      <3> QED BY <2>1, <3>9 DEF Contract!Next
    <2> QED BY <2>2, <2>3
  <1>7. CASE ForceDelete
    <2>1. /\ inst.uid \in Uids /\ inst.uid \notin forced /\ inst.fin /\ inst'.uid = 0
          /\ forced' = forced \cup {inst.uid} /\ UNCHANGED <<nextUid, children, record>>
      BY <1>0, <1>7, SMT DEF ForceDelete, LifeInv, NoInst, Uids
    <2>2. Life[inst.uid] \in {"guarded", "leaving"} BY <2>1, LifeStages DEF Stage
    <2>3. Life' = [Life EXCEPT ![inst.uid] = "forced"]
      <3>1. \A u \in Uids : Stage(u)' = IF u = inst.uid THEN "forced" ELSE Stage(u)
        BY <1>0, <2>1, SMT DEF Stage, Uids
      <3> QED BY <3>1 DEF Life
    <2>8. Footprint' = Footprint BY <2>1, SameFootprint
    <2>9. Contract!Force(inst.uid)
      BY <2>1, <2>2, <2>3, <2>8 DEF Contract!Force, Contract!Become
    <2> QED BY <2>1, <2>9 DEF Contract!Next
  <1>8. CASE Elsewhere
    BY <1>8, ElsewhereGoesOn, WorkStep DEF Contract!Next
  <1> QED
    BY <1>1, <1>2, <1>3, <1>4, <1>5, <1>6, <1>7, <1>8, StepKinds

\* InstanceGC implements Lifecycle: no child and no record exists before the
\* finalizer is stored or after the instance left through it, and the finalizer
\* goes only with nothing left, for every blueprint, every failure and every
\* interleaving with the sweeper, as long as the served revisions agree on the
\* kinds of their children (Reconcile, writeLivenessRecord, Sweep).
THEOREM LifecycleImplemented == ASSUME SameKinds PROVE Spec => ImplementsLifecycle
  <1>1. Init => Contract!Init BY ContractInit
  <1>2. Init => GCInv /\ LifeInv BY GCInit, LifeInit
  <1>3. TypeInv /\ GCInv /\ [Next]_vars => GCInv' BY GCNext
  <1>4. TypeInv /\ GCInv /\ LifeInv /\ [Next]_vars => LifeInv' BY LifeNext
  <1>5. TypeInv /\ GCInv /\ GCInv' /\ LifeInv /\ [Next]_vars
          => [Contract!Next]_(Contract!vars)
    BY ContractNext
  <1> QED
    BY <1>1, <1>2, <1>3, <1>4, <1>5, TypeInvariant, PTL
    DEF Spec, ImplementsLifecycle, Contract!Spec

-----------------------------------------------------------------------------
(* Nothing undesired is left *)

\* What prune has not listed yet, or listed and not deleted yet, or keeps.
PruneProgress ==
  pass.pc = "prune" =>
    \A k \in Key : children[k] = pass.uid =>
      k \in pass.applied \/ KindOf(k) \in pass.kinds \/ k \in pass.dels

PruneFinished ==
  pass.pc = "status" /\ pass.complete =>
    \A k \in Key : children[k] = pass.uid => k \in pass.applied

ExactInv == PruneProgress /\ PruneFinished

\* The invariants imply the property.
LEMMA ExactInvImplies == EngineInv /\ ExactInv => CompletePassIsExact
  BY DEF EngineInv, AppliedSet, ExactInv, PruneFinished, CompletePassIsExact,
         Labelled

\* Losing children keeps it, if the pass keeps its place and its knowledge.
LEMMA ExactFrame ==
  ASSUME ExactInv,
         pass'.pc = pass.pc, pass'.uid = pass.uid, pass'.applied = pass.applied,
         pass'.complete = pass.complete, pass'.kinds = pass.kinds,
         pass'.dels = pass.dels,
         pass.pc # "idle" => \A k \in Key :
           children'[k] = pass.uid => children[k] = pass.uid
  PROVE  ExactInv'
  BY DEF ExactInv, PruneProgress, PruneFinished

\* A pass that is neither pruning nor past it satisfies it.
LEMMA ExactElsewhere ==
  ASSUME pass'.pc \notin {"prune", "status"} PROVE ExactInv'
  BY DEF ExactInv, PruneProgress, PruneFinished

\* Every step of a pass keeps it.
LEMMA ExactPass ==
  ASSUME TypeInv, GCInv, EngineInv, ExactInv, PassStep PROVE ExactInv'
  <1> USE DEF serverVars, consumerVars, childVars
  <1>0. pass \in PassType BY DEF TypeInv, TypeOK
  <1>1. CASE RecordPut
    <2>1. /\ pass'.uid = pass.uid /\ pass'.complete = pass.complete
          /\ pass'.pc = IF pass.complete THEN "prune" ELSE "status"
          /\ pass.complete => pass'.kinds = GCKinds(blueprint)
          /\ pass.uid # 0 /\ children' = children
      BY <1>0, <1>1 DEF RecordPut, PassType, GCInv, PassOwned
    <2> QED
      BY <2>1 DEF ExactInv, PruneProgress, PruneFinished, GCInv, ChildrenOwned
  <1>2. CASE ListForPrune
    <2>1. PICK kd \in pass.kinds :
            pass' = [pass EXCEPT !.kinds = @ \ {kd},
                       !.dels = {k \in Labelled(pass.uid) : KindOf(k) = kd}
                                  \ pass.applied]
      BY <1>2 DEF ListForPrune
    <2>2. /\ pass'.pc = "prune" /\ pass'.uid = pass.uid
          /\ pass'.applied = pass.applied /\ pass'.kinds = pass.kinds \ {kd}
          /\ pass'.dels = {k \in Labelled(pass.uid) : KindOf(k) = kd}
                            \ pass.applied
          /\ pass.dels = {} /\ pass.pc = "prune" /\ children' = children
      BY <1>0, <1>2, <2>1 DEF ListForPrune, PassType
    <2> QED BY <2>2 DEF ExactInv, PruneProgress, PruneFinished, Labelled
  <1>3. CASE DeleteListed
    <2>1. PICK d \in pass.dels :
            Delete(d) /\ pass' = [pass EXCEPT !.dels = @ \ {d}]
      BY <1>3 DEF DeleteListed
    <2>2. /\ pass'.pc = pass.pc /\ pass'.uid = pass.uid
          /\ pass'.applied = pass.applied /\ pass'.kinds = pass.kinds
          /\ pass'.dels = pass.dels \ {d}
      BY <1>0, <2>1 DEF PassType
    <2>3. \A k \in Key : children'[k] = IF k = d THEN 0 ELSE children[k]
      BY <2>1 DEF Delete, TypeInv, TypeOK
    <2>4. pass.uid # 0 /\ pass.pc # "status"
      BY <1>3 DEF DeleteListed, GCInv, PassOwned
    <2> QED BY <2>2, <2>3, <2>4 DEF ExactInv, PruneProgress, PruneFinished
  <1>4. CASE PruneDone
    <2>1. /\ pass'.pc = "status" /\ pass'.uid = pass.uid /\ pass.pc = "prune"
          /\ pass'.applied = pass.applied /\ children' = children
          /\ pass.kinds = {} /\ pass.dels = {}
      BY <1>0, <1>4 DEF PruneDone, Listed, PassType
    <2> QED BY <2>1 DEF ExactInv, PruneProgress, PruneFinished
  <1>5. CASE Get \/ AddFinalizer \/ RemoveFinalizer \/ UpdateStatus \/ Reject
    <2>1. Get => pass'.pc \in {"gc", "node", "addfin"} BY DEF Get, NoPass
    <2>2. ~Get => pass'.pc = "idle"
      BY <1>5, SMT DEF AddFinalizer, RemoveFinalizer, UpdateStatus, Reject, NoPass
    <2> QED BY <2>1, <2>2, ExactElsewhere
  <1>6. CASE ListForDelete \/ DeleteLivenessRecord \/ EngineDone \/ RecordGet
    BY <1>0, <1>6, ExactElsewhere
    DEF ListForDelete, DeleteLivenessRecord, EngineDone, RecordGet, PassType
  <1>7. CASE SkipIgnored \/ DataPending \/ ReadExternal \/ StartNode
    <2>1. pass.pc = "node"
      BY <1>7 DEF SkipIgnored, DataPending, ReadExternal, StartNode, Resolved, AtNode
    <2>2. \/ pass' = Suspend \/ pass' = [pass EXCEPT !.pc = "apply"]
          \/ \E S, ok : pass' = Advance(S, ok)
      BY <1>7, ReadingMoves DEF SkipIgnored, DataPending, StartNode
    <2>3. pass'.pc \in {"recget", "apply", "node"}
      BY <1>0, <2>2 DEF Suspend, Advance, PassType
    <2> QED BY <2>3, ExactElsewhere
  <1>8. CASE ApplyChild \/ ReadBack
    <2>1. CASE ApplyChild
      BY <1>0, <2>1, ExactElsewhere DEF ApplyChild, PassType
    <2>2. CASE ReadBack
      <3>1. pass'.pc \in {"apply", "node"}
        BY <1>0, <2>2 DEF ReadBack, Advance, PassType
      <3> QED BY <3>1, ExactElsewhere
    <2> QED BY <1>8, <2>1, <2>2
  <1> QED
    BY <1>1, <1>2, <1>3, <1>4, <1>5, <1>6, <1>7, <1>8 DEF PassStep

\* Every other step keeps it.
LEMMA ExactOther ==
  ASSUME TypeInv, GCInv, ExactInv,
         SweepStep \/ SweepGlitch \/ Glitch \/ Environment \/ UNCHANGED vars
  PROVE  ExactInv'
  <1> USE DEF serverVars, consumerVars, childVars
  <1>0. pass.pc # "idle" => pass.uid # 0 BY DEF GCInv, PassOwned
  <1>1. CASE Glitch \/ Restart \/ Redeploy
    BY <1>1, ExactElsewhere, SMT DEF Glitch, Restart, Redeploy, NoPass
  <1>2. CASE Create \/ Edit \/ DeleteInst \/ ForceDelete
    <2>1. Touch /\ children' = children
      BY <1>2 DEF Create, Edit, DeleteInst, ForceDelete
    <2> QED BY <2>1, ExactFrame DEF Touch, TypeInv, TypeOK, PassType
  <1>3. ASSUME NEW d \in Key, Delete(d), pass' = pass PROVE ExactInv'
    <2>1. \A k \in Key : children'[k] = IF k = d THEN 0 ELSE children[k]
      BY <1>3 DEF Delete, TypeInv, TypeOK
    <2> QED BY <1>0, <1>3, <2>1, ExactFrame
  <1>4. CASE SweepDelete
    <2>1. PICK d \in sweep.dels : Delete(d) BY <1>4 DEF SweepDelete
    <2>2. d \in Key BY DEF TypeInv, TypeOK, SweepType
    <2> QED BY <1>3, <1>4, <2>1, <2>2 DEF SweepDelete
  <1>5. CASE CollectOwned
    BY <1>3, <1>5 DEF CollectOwned
  <1>6. CASE pass' = pass /\ children' = children
    BY <1>6, ExactFrame
  <1>7. CASE SweepList \/ SweepPick \/ SweepListChildren \/ SweepRecord
               \/ SweepGlitch
    BY <1>6, <1>7 DEF SweepList, SweepPick, SweepListChildren, SweepRecord,
                      SweepGlitch
  <1>8. CASE Unbind \/ Rebind \/ SetStatus \/ ExternalAppears
               \/ ExternalReadies \/ ExternalVanishes \/ Tick
    BY <1>6, <1>8 DEF Unbind, Rebind, SetStatus, ExternalAppears,
                      ExternalReadies, ExternalVanishes, Tick
  <1>9. CASE UNCHANGED vars
    BY <1>6, <1>9 DEF vars
  <1> QED
    BY <1>1, <1>2, <1>4, <1>5, <1>7, <1>8, <1>9 DEF SweepStep, Environment

\* After a complete pass nothing carries the label of the instance but what
\* its spec desires, as long as the served revisions agree on the kinds of
\* their children: then pruneChildren lists every kind there can be.
THEOREM CompletePassExact == ASSUME SameKinds PROVE Spec => []CompletePassIsExact
  <1>1. Init => GCInv BY GCInit
  <1>2. TypeInv /\ GCInv /\ [Next]_vars => GCInv' BY GCNext
  <1>3. Init => ExactInv
    BY SMT DEF Init, NoPass, ExactInv, PruneProgress, PruneFinished
  <1>4. TypeInv /\ GCInv /\ EngineInv /\ ExactInv /\ [Next]_vars => ExactInv'
    BY ExactPass, ExactOther DEF Next
  <1>5. EngineInv /\ ExactInv => CompletePassIsExact BY ExactInvImplies
  <1> QED
    BY <1>1, <1>2, <1>3, <1>4, <1>5, TypeInvariant, EngineInvariant, PTL DEF Spec

-----------------------------------------------------------------------------
(* Readiness *)

\* What the pass has read back had a status when it did, or has been deleted
\* since; only the object that was just applied has yet to be read back.
StatusSeen ==
  pass.ready /\ ~pass.lag =>
    \A k \in pass.applied :
      \/ children[k] = 0
      \/ k \in status
      \/ pass.pc = "readback" /\ k = CurrentKey

\* A lagging status is accounted for before the pass leaves the node.
LagIsLocal == pass.pc \notin {"apply", "readback"} => ~pass.lag

\* A pass that leaves the engine ready has left it complete.
ReadyIsComplete ==
  pass.pc \in {"recget", "recput", "prune", "status"} /\ pass.ready =>
    pass.complete

\* An instance that has not been written since the pass read it has the spec
\* that the pass works on.
SpecIsFresh ==
  pass.pc # "idle" /\ ~pass.stale /\ inst.uid = pass.uid =>
    inst.spec = pass.spec

ReadyInv == StatusSeen /\ LagIsLocal /\ ReadyIsComplete /\ SpecIsFresh

\* A pass that has ended satisfies it.
LEMMA ReadyIdle == ASSUME pass = NoPass PROVE ReadyInv
  BY DEF NoPass, ReadyInv, StatusSeen, LagIsLocal, ReadyIsComplete, SpecIsFresh

\* The same after the step.
LEMMA ReadyIdleNext == ASSUME pass' = NoPass PROVE ReadyInv'
  BY DEF NoPass, ReadyInv, StatusSeen, LagIsLocal, ReadyIsComplete, SpecIsFresh

\* A step that keeps what the pass knows keeps it, if children only go and
\* statuses only come.
LEMMA ReadyFrame ==
  ASSUME ReadyInv, blueprint' = blueprint,
         pass'.pc = pass.pc, pass'.spec = pass.spec, pass'.idx = pass.idx,
         pass'.jdx = pass.jdx, pass'.applied = pass.applied,
         pass'.complete = pass.complete, pass'.ready = pass.ready,
         pass'.lag = pass.lag,
         \A k \in pass.applied : children'[k] = 0
           \/ (children'[k] = children[k] /\ (k \in status => k \in status')),
         SpecIsFresh'
  PROVE  ReadyInv'
  <1>1. CurrentKey' = CurrentKey BY DEF CurrentKey, CurrentNode
  <1>2. StatusSeen' BY <1>1 DEF ReadyInv, StatusSeen
  <1> QED BY <1>2 DEF ReadyInv, LagIsLocal, ReadyIsComplete

\* A pass that moves on without applying anything keeps it, if it is as ready
\* as before or not at all.
LEMMA ReadyMoves ==
  ASSUME ReadyInv, pass.pc \notin {"idle", "apply", "readback"},
         UNCHANGED <<blueprint, inst, children, status>>,
         pass'.spec = pass.spec, pass'.uid = pass.uid,
         pass'.stale = pass.stale, pass'.applied = pass.applied,
         pass'.lag = FALSE, pass'.ready => pass.ready,
         pass'.pc \notin {"idle", "readback"},
         pass'.pc \in {"recget", "recput", "prune", "status"} /\ pass'.ready =>
           pass'.complete
  PROVE  ReadyInv'
  <1>1. StatusSeen' BY DEF ReadyInv, StatusSeen, LagIsLocal
  <1>2. SpecIsFresh' BY DEF ReadyInv, SpecIsFresh
  <1> QED BY <1>1, <1>2 DEF ReadyInv, LagIsLocal, ReadyIsComplete

\* Every step of a pass keeps it.
LEMMA ReadyPass ==
  ASSUME TypeInv, ReadyInv, PassStep PROVE ReadyInv'
  <1> USE DEF serverVars, consumerVars, childVars
  <1>0. pass \in PassType BY DEF TypeInv, TypeOK
  <1>1. CASE Get
    <2>1. /\ pass'.pc \in {"gc", "node", "addfin"} /\ pass'.uid = inst.uid
          /\ pass'.applied = {} /\ pass'.lag = FALSE /\ pass'.spec = inst.spec
          /\ inst' = inst
      BY <1>1, Begun
    <2> QED
      BY <2>1 DEF ReadyInv, StatusSeen, LagIsLocal, ReadyIsComplete, SpecIsFresh
  <1>2. CASE AddFinalizer \/ RemoveFinalizer \/ UpdateStatus \/ Reject
    BY <1>2, ReadyIdleNext DEF AddFinalizer, RemoveFinalizer, UpdateStatus, Reject
  <1>3. pass.pc \notin {"apply", "readback"} => pass.lag = FALSE
    BY <1>0 DEF ReadyInv, LagIsLocal, PassType
  <1>4. CASE ListForDelete \/ ListForPrune
    <2>1. /\ pass'.pc = pass.pc /\ pass.pc \in {"gc", "prune"}
          /\ pass'.spec = pass.spec /\ pass'.uid = pass.uid
          /\ pass'.stale = pass.stale /\ pass'.applied = pass.applied
          /\ pass'.lag = pass.lag /\ pass'.ready = pass.ready
          /\ pass'.complete = pass.complete
      <3>1. pass.pc \in {"gc", "prune"} BY <1>4 DEF ListForDelete, ListForPrune
      <3>2. PICK K, D : pass' = [pass EXCEPT !.kinds = K, !.dels = D]
        BY <1>4 DEF ListForDelete, ListForPrune
      <3> QED BY <1>0, <3>1, <3>2 DEF PassType
    <2>2. UNCHANGED <<blueprint, inst, children, status>>
      BY <1>4 DEF ListForDelete, ListForPrune
    <2> QED BY <1>3, <2>1, <2>2, ReadyMoves DEF ReadyInv, ReadyIsComplete
  <1>5. CASE DeleteListed
    <2>1. PICK d \in pass.dels :
            Delete(d) /\ pass' = [pass EXCEPT !.dels = @ \ {d}]
      BY <1>5 DEF DeleteListed
    <2>2. \A k \in Key : k # d =>
            children'[k] = children[k] /\ (k \in status => k \in status')
      BY <2>1 DEF Delete, TypeInv, TypeOK
    <2>3. d \in Key => children'[d] = 0 BY <2>1 DEF Delete, TypeInv, TypeOK
    <2>4. pass.applied \subseteq Key /\ pass.dels \subseteq Key
      BY <1>0 DEF PassType
    <2>5. SpecIsFresh'
      BY <1>0, <1>5, <2>1 DEF DeleteListed, ReadyInv, SpecIsFresh, PassType
    <2>6. \A k \in pass.applied : children'[k] = 0
            \/ (children'[k] = children[k] /\ (k \in status => k \in status'))
      BY <2>2, <2>3, <2>4
    <2> QED
      BY <1>0, <1>5, <2>1, <2>5, <2>6, ReadyFrame DEF DeleteListed, PassType
  <1>6. CASE DeleteLivenessRecord \/ RecordGet \/ PruneDone
    <2>1. /\ pass.pc \in {"gc", "recget", "prune"}
          /\ pass.pc = "gc" => pass'.pc = "remfin"
          /\ pass'.pc \in {"remfin", "recput", "status"}
          /\ pass'.spec = pass.spec /\ pass'.uid = pass.uid
          /\ pass'.stale = pass.stale /\ pass'.applied = pass.applied
          /\ pass'.lag = pass.lag /\ pass'.ready = pass.ready
          /\ pass'.complete = pass.complete
      <3>1. CASE DeleteLivenessRecord
        BY <1>0, <3>1 DEF DeleteLivenessRecord, PassType
      <3>2. CASE RecordGet
        BY <1>0, <3>2 DEF RecordGet, PassType
      <3>3. CASE PruneDone
        BY <1>0, <3>3 DEF PruneDone, PassType
      <3> QED BY <1>6, <3>1, <3>2, <3>3
    <2>2. UNCHANGED <<blueprint, inst, children, status>>
      BY <1>6 DEF DeleteLivenessRecord, RecordGet, PruneDone
    <2> QED BY <1>3, <2>1, <2>2, ReadyMoves DEF ReadyInv, ReadyIsComplete
  <1>7. ASSUME AtNode, NEW S, NEW ok \in BOOLEAN, pass' = Advance(S, ok),
               UNCHANGED <<blueprint, inst, children, status>>
        PROVE  ReadyInv'
    <2>1. /\ pass'.pc = "node" /\ pass'.spec = pass.spec /\ pass'.uid = pass.uid
          /\ pass'.stale = pass.stale /\ pass'.applied = pass.applied
          /\ pass'.lag = FALSE /\ pass.pc = "node"
      BY <1>0, <1>7 DEF Advance, PassType, AtNode
    <2>2. pass'.ready = (pass.ready /\ ok)
      BY <1>0, <1>7 DEF Advance, PassType
    <2> QED BY <1>7, <2>1, <2>2, ReadyMoves
  <1>8. ASSUME AtNode, pass' = Suspend,
               UNCHANGED <<blueprint, inst, children, status>>
        PROVE  ReadyInv'
    <2>1. /\ pass'.pc = "recget" /\ pass'.spec = pass.spec /\ pass'.uid = pass.uid
          /\ pass'.stale = pass.stale /\ pass'.applied = pass.applied
          /\ pass'.lag = pass.lag /\ pass.pc = "node" /\ pass'.ready = FALSE
      BY <1>0, <1>8 DEF Suspend, PassType, AtNode
    <2> QED BY <1>3, <1>8, <2>1, ReadyMoves
  <1>9. CASE SkipIgnored
    BY <1>7, <1>9 DEF SkipIgnored
  <1>10. CASE DataPending
    BY <1>8, <1>10 DEF DataPending
  <1>11. CASE ReadExternal
    <2>1. AtNode /\ UNCHANGED <<blueprint, inst, children, status>>
      BY <1>11 DEF ReadExternal, Resolved
    <2> QED BY <1>7, <1>8, <1>11, <2>1, ReadingMoves
  <1>12. CASE StartNode
    <2>1. AtNode /\ UNCHANGED <<blueprint, inst, children, status>>
      BY <1>12 DEF StartNode, Resolved
    <2>2. CASE pass' = Advance({CurrentNode.id}, TRUE)
      BY <1>7, <2>1, <2>2
    <2>3. CASE pass' = [pass EXCEPT !.pc = "apply"]
      <3>1. /\ pass'.pc = "apply" /\ pass'.spec = pass.spec
            /\ pass'.uid = pass.uid /\ pass'.stale = pass.stale
            /\ pass'.applied = pass.applied /\ pass'.lag = pass.lag
            /\ pass.pc = "node" /\ pass'.ready = pass.ready
        BY <1>0, <2>1, <2>3 DEF AtNode, PassType
      <3> QED BY <1>3, <2>1, <3>1, ReadyMoves
    <2> QED BY <1>12, <2>2, <2>3 DEF StartNode
  <1>13. CASE ApplyChild
    <2>1. /\ pass'.pc = "readback" /\ pass'.spec = pass.spec /\ pass.pc = "apply"
          /\ pass'.uid = pass.uid /\ pass'.stale = pass.stale
          /\ pass'.idx = pass.idx /\ pass'.jdx = pass.jdx
          /\ pass'.applied = pass.applied /\ pass'.lag = pass.lag
          /\ pass'.ready = pass.ready
      BY <1>0, <1>13 DEF ApplyChild, PassType
    <2>2. UNCHANGED <<blueprint, inst, status>> BY <1>13 DEF ApplyChild
    <2>3. CurrentKey' = CurrentKey BY <2>1, <2>2 DEF CurrentKey, CurrentNode
    <2>4. \A k \in Key : k # CurrentKey => children'[k] = children[k]
      BY <1>13 DEF ApplyChild, TypeInv, TypeOK
    <2>5. StatusSeen'
      BY <1>0, <2>1, <2>2, <2>3, <2>4 DEF ReadyInv, StatusSeen, PassType
    <2>6. SpecIsFresh' BY <2>1, <2>2 DEF ReadyInv, SpecIsFresh
    <2> QED BY <2>1, <2>5, <2>6 DEF ReadyInv, LagIsLocal, ReadyIsComplete
  <1>14. CASE ReadBack
    <2> DEFINE late == pass.lag \/ CurrentKey \notin status
    <2>1. /\ pass.pc = "readback" /\ pass'.spec = pass.spec
          /\ pass'.uid = pass.uid /\ pass'.stale = pass.stale
          /\ pass'.applied = pass.applied \cup {CurrentKey}
          /\ pass'.pc \in {"apply", "node"}
      BY <1>0, <1>14 DEF ReadBack, Advance, PassType
    <2>2. UNCHANGED <<blueprint, inst, children, status>> BY <1>14 DEF ReadBack
    <2>3. \/ /\ pass'.pc = "apply" /\ pass'.ready = pass.ready
             /\ pass'.lag = late
          \/ /\ pass'.pc = "node" /\ pass'.lag = FALSE
             /\ pass'.ready = (pass.ready /\ ~late)
      BY <1>0, <1>14 DEF ReadBack, Advance, PassType
    <2>4. pass'.ready /\ ~pass'.lag =>
            pass.ready /\ ~pass.lag /\ CurrentKey \in status
      BY <2>3
    <2>5. StatusSeen' BY <2>1, <2>2, <2>4 DEF ReadyInv, StatusSeen
    <2>6. SpecIsFresh' BY <2>1, <2>2 DEF ReadyInv, SpecIsFresh
    <2>7. LagIsLocal' BY <2>3 DEF LagIsLocal
    <2> QED BY <2>1, <2>5, <2>6, <2>7 DEF ReadyInv, ReadyIsComplete
  <1>15. CASE EngineDone
    <2>1. /\ pass'.pc = "recget" /\ pass'.spec = pass.spec /\ pass'.uid = pass.uid
          /\ pass'.stale = pass.stale /\ pass'.applied = pass.applied
          /\ pass'.lag = pass.lag /\ pass.pc = "node"
          /\ pass'.ready = pass.ready /\ pass'.complete = TRUE
      BY <1>0, <1>15 DEF EngineDone, PassType
    <2>2. UNCHANGED <<blueprint, inst, children, status>> BY <1>15 DEF EngineDone
    <2> QED BY <1>3, <2>1, <2>2, ReadyMoves
  <1>16. CASE RecordPut
    <2>1. /\ pass'.pc \in {"prune", "status"} /\ pass'.spec = pass.spec
          /\ pass'.uid = pass.uid /\ pass'.stale = pass.stale
          /\ pass'.applied = pass.applied /\ pass'.lag = pass.lag
          /\ pass.pc = "recput" /\ pass'.ready = pass.ready
          /\ pass'.complete = pass.complete
      BY <1>0, <1>16 DEF RecordPut, PassType
    <2>2. UNCHANGED <<blueprint, inst, children, status>> BY <1>16 DEF RecordPut
    <2> QED BY <1>3, <2>1, <2>2, ReadyMoves DEF ReadyInv, ReadyIsComplete
  <1> QED
    BY <1>1, <1>2, <1>4, <1>5, <1>6, <1>9, <1>10, <1>11, <1>12, <1>13, <1>14,
       <1>15, <1>16 DEF PassStep

\* Every other step keeps it: the other writers of the instance make the pass
\* stale, children lose their status only together with themselves.
LEMMA ReadyOther ==
  ASSUME TypeInv, ReadyInv,
         SweepStep \/ SweepGlitch \/ Glitch \/ Environment \/ UNCHANGED vars
  PROVE  ReadyInv'
  <1> USE DEF serverVars, consumerVars, childVars
  <1>0. pass \in PassType /\ pass.applied \subseteq Key
    BY DEF TypeInv, TypeOK, PassType
  <1>1. CASE Glitch \/ Restart \/ Redeploy
    BY <1>1, ReadyIdleNext DEF Glitch, Restart, Redeploy
  <1>2. CASE Create \/ Edit \/ DeleteInst \/ ForceDelete
    <2>1. Touch /\ UNCHANGED <<blueprint, children, status>>
      BY <1>2 DEF Create, Edit, DeleteInst, ForceDelete
    <2>2. /\ pass'.pc = pass.pc /\ pass'.spec = pass.spec /\ pass'.idx = pass.idx
          /\ pass'.jdx = pass.jdx /\ pass'.applied = pass.applied
          /\ pass'.complete = pass.complete /\ pass'.ready = pass.ready
          /\ pass'.lag = pass.lag
          /\ pass.pc # "idle" => pass'.stale
      BY <1>0, <2>1 DEF Touch, PassType
    <2>3. SpecIsFresh' BY <2>2 DEF SpecIsFresh
    <2> QED BY <2>1, <2>2, <2>3, ReadyFrame
  <1>3. ASSUME UNCHANGED <<blueprint, inst, pass>>,
               \A k \in Key : children'[k] = 0
                 \/ (children'[k] = children[k] /\ (k \in status => k \in status'))
        PROVE  ReadyInv'
    <2>1. SpecIsFresh' BY <1>3 DEF ReadyInv, SpecIsFresh
    <2> QED BY <1>0, <1>3, <2>1, ReadyFrame
  <1>4. ASSUME UNCHANGED <<blueprint, inst, pass>>, NEW d \in Key, Delete(d)
        PROVE  ReadyInv'
    <2>1. \A k \in Key : children'[k] = 0
            \/ (children'[k] = children[k] /\ (k \in status => k \in status'))
      BY <1>4 DEF Delete, TypeInv, TypeOK
    <2> QED BY <1>3, <1>4, <2>1
  <1>5. CASE SweepDelete
    <2>1. PICK d \in sweep.dels : Delete(d) BY <1>5 DEF SweepDelete
    <2>2. d \in Key BY DEF TypeInv, TypeOK, SweepType
    <2> QED BY <1>4, <1>5, <2>1, <2>2 DEF SweepDelete
  <1>6. CASE CollectOwned
    BY <1>4, <1>6 DEF CollectOwned
  <1>7. CASE SetStatus
    BY <1>3, <1>7 DEF SetStatus
  <1>8. CASE SweepList \/ SweepPick \/ SweepListChildren \/ SweepRecord
               \/ SweepGlitch
    BY <1>3, <1>8 DEF SweepList, SweepPick, SweepListChildren, SweepRecord,
                      SweepGlitch
  <1>9. CASE Unbind \/ Rebind \/ ExternalAppears \/ ExternalReadies
               \/ ExternalVanishes \/ Tick
    BY <1>3, <1>9 DEF Unbind, Rebind, ExternalAppears, ExternalReadies, ExternalVanishes, Tick
  <1>10. CASE UNCHANGED vars
    BY <1>3, <1>10 DEF vars
  <1> QED
    BY <1>1, <1>2, <1>5, <1>6, <1>7, <1>8, <1>9, <1>10 DEF SweepStep, Environment

\* Only the status update reports Ready, and then honestly.
LEMMA ReadyStep ==
  ASSUME TypeInv, EngineInv, ReadyInv, [Next]_vars,
         inst'.readyFor \notin {inst.readyFor, {}}
  PROVE  /\ inst'.readyFor = {inst.spec}
         /\ DesiredKeys(blueprint, inst.spec) \subseteq pass.applied
         /\ \A k \in DesiredKeys(blueprint, inst.spec) :
              children[k] = 0 \/ k \in status
  <1> USE DEF serverVars, consumerVars, childVars
  <1>0. inst \in InstType BY DEF TypeInv, TypeOK
  <1>1. UpdateStatus
    <2>1. NoInst.readyFor = {} BY DEF NoInst
    <2>2. CASE AddFinalizer \/ RemoveFinalizer
      BY <1>0, <2>1, <2>2 DEF AddFinalizer, RemoveFinalizer, InstType
    <2>3. CASE Create \/ Edit \/ DeleteInst \/ ForceDelete
      BY <1>0, <2>1, <2>3 DEF Create, Edit, DeleteInst, ForceDelete, InstType, NoInst
    <2>4. inst' # inst OBVIOUS
    <2>5. ~(Get \/ ListForDelete \/ DeleteListed \/ DeleteLivenessRecord
            \/ SkipIgnored \/ DataPending \/ ReadExternal \/ StartNode)
      BY <2>4 DEF Get, ListForDelete, DeleteListed, DeleteLivenessRecord,
                  SkipIgnored, DataPending, ReadExternal, StartNode
    <2>6. ~(ApplyChild \/ ReadBack \/ EngineDone \/ RecordGet \/ RecordPut
            \/ ListForPrune \/ PruneDone \/ Reject \/ Glitch \/ SweepGlitch)
      BY <2>4 DEF ApplyChild, ReadBack, EngineDone, RecordGet, RecordPut,
                  ListForPrune, PruneDone, Reject, Glitch, SweepGlitch
    <2>7. ~SweepStep
      BY <2>4 DEF SweepStep, SweepList, SweepPick, SweepListChildren,
                  SweepDelete, SweepRecord
    <2>8. ~(Unbind \/ Rebind \/ CollectOwned \/ SetStatus \/ ExternalAppears
            \/ ExternalReadies \/ ExternalVanishes \/ Tick \/ Restart \/ Redeploy)
      BY <2>4 DEF Unbind, Rebind, CollectOwned, SetStatus, ExternalAppears,
                  ExternalReadies, ExternalVanishes, Tick, Restart, Redeploy
    <2>9. ~UNCHANGED vars BY <2>4 DEF vars
    <2> QED
      BY <2>2, <2>3, <2>5, <2>6, <2>7, <2>8, <2>9
      DEF Next, PassStep, Environment
  <1>2. /\ Fresh /\ pass.ready /\ pass.pc = "status"
        /\ inst'.readyFor = {pass.spec}
    <2>1. inst' # inst OBVIOUS
    <2>2. Fresh BY <1>1, <2>1 DEF UpdateStatus
    <2>3. inst'.readyFor = IF pass.ready THEN {pass.spec} ELSE {}
      BY <1>0, <1>1, <2>2 DEF UpdateStatus, InstType
    <2> QED BY <1>1, <2>2, <2>3 DEF UpdateStatus
  <1>3. inst.spec = pass.spec
    BY <1>2 DEF Fresh, ReadyInv, SpecIsFresh
  <1>4. pass.complete /\ ~pass.lag
    BY <1>2 DEF ReadyInv, ReadyIsComplete, LagIsLocal
  <1>5. DesiredKeys(blueprint, pass.spec) \subseteq pass.applied
    BY <1>4 DEF EngineInv, AppliedSet
  <1> QED BY <1>2, <1>3, <1>4, <1>5 DEF ReadyInv, StatusSeen

\* Ready=True is only ever reported for the spec the instance has at that
\* moment, by a pass that applied all of it, with no child whose status was
\* still empty, for every graph and every interleaving with the consumer, the
\* sweeper and the child controllers (Engine.Reconcile, applyResultConditions
\* and the status update under optimistic concurrency).
THEOREM ReadyHonest == Spec => ReadyIsHonest
  <1>1. Init => ReadyInv BY ReadyIdle DEF Init
  <1>2. TypeInv /\ ReadyInv /\ [Next]_vars => ReadyInv'
    BY ReadyPass, ReadyOther DEF Next
  <1>3. TypeInv /\ EngineInv /\ ReadyInv /\ [Next]_vars =>
          [inst'.readyFor \notin {inst.readyFor, {}} =>
             /\ inst'.readyFor = {inst.spec}
             /\ DesiredKeys(blueprint, inst.spec) \subseteq pass.applied
             /\ \A k \in DesiredKeys(blueprint, inst.spec) :
                  children[k] = 0 \/ k \in status]_vars
    BY ReadyStep
  <1> QED
    BY <1>1, <1>2, <1>3, TypeInvariant, EngineInvariant, PTL
    DEF Spec, ReadyIsHonest
=============================================================================
