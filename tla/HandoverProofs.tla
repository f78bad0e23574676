--------------------------- MODULE HandoverProofs ---------------------------
(***************************************************************************)
(* What a handover leaves behind, for every set of blueprints that agree   *)
(* on the kinds of their children.                                         *)
(***************************************************************************)
EXTENDS ControlPlaneProofs

USE Zenon, SMT


-----------------------------------------------------------------------------
(* The steps of the control plane, as seen by the children *)

\* What the request on its way is has not changed.
SameLate ==
  inFlight' => inFlight /\ late'.pc = late.pc /\ late'.uid = late.uid

\* The steps of OnPublished and of the managers,
Quiet ==
  /\ UNCHANGED <<inst, nextUid, children, record, pass, sweep, cut, strays>>
  /\ SameLate
  /\ blueprint' = blueprint \/ (blueprint' \in Blueprints /\ pass.pc = "idle")

\* those that cut a pass short, and the restart of the process.
Handover ==
  /\ LeaveRequest
  /\ UNCHANGED <<blueprint, inst, nextUid, children>>
  /\ \/ UNCHANGED <<record, sweep>>
     \/ /\ sweep' = NoSweep
        /\ \E n \in Nat : record' = [u \in Uids |-> Aged(record[u], n)]

LEMMA StepsOfCP ==
  ASSUME CPInv, [CPNext]_cpVars
  PROVE  Quiet \/ Handover \/ Reconciles \/ LateRequest \/ Others \/ TimePasses
  <1> USE DEF vars, serverVars, consumerVars, childVars, histVars
  <1>1. UNCHANGED lateVars => SameLate BY DEF lateVars, SameLate
  <1>2. CASE (\E b \in Blueprints : Publish(b)) \/ Republish \/ StopManager
    BY <1>1, <1>2 DEF Publish, Republish, StopManager, Quiet
  <1>3. CASE \E g \in Gens : Start(g) \/ Leave(g)
    BY <1>1, <1>3 DEF Start, Leave, Quiet
  <1>4. CASE EnsureManager
    BY <1>1, <1>4 DEF EnsureManager, Quiet
  <1>5. CASE \E g \in Gens : ServeInstances(g)
    BY <1>1, <1>5, ServesIdle DEF ServeInstances, Quiet
  <1>6. ASSUME NEW g \in Gens, Detach(g), UNCHANGED <<blueprint, inst, nextUid,
               children, record, sweep>>
        PROVE  Quiet \/ Handover
    BY <1>1, <1>6 DEF Detach, Quiet, Handover
  <1>7. CASE CancelManager \/ \E g \in Gens : CrashManager(g)
    BY <1>6, <1>7 DEF CancelManager, CrashManager
  <1>8. CASE LateIsLost
    BY <1>8 DEF LateIsLost, Quiet, SameLate
  <1>9. CASE RestartProcess
    <2>1. PICK n \in {0, StaleAfter + 1} :
            record' = [u \in Uids |-> Aged(record[u], n)]
      BY <1>9 DEF RestartProcess, Restart
    <2>2. n \in Nat BY StaleAssumption, SMT
    <2> QED BY <1>9, <2>1, <2>2 DEF RestartProcess, Restart, Handover
  <1>10. CASE UNCHANGED cpVars
    BY <1>1, <1>10 DEF cpVars, Quiet
  <1> QED
    BY <1>2, <1>3, <1>4, <1>5, <1>7, <1>8, <1>9, <1>10 DEF CPNext, Brief

\* What a step of the pass does to children and records: it applies a child of
\* the instance, deletes one, writes the record or deletes it.
PassChild ==
  \A k \in Key : children'[k] \notin {0, children[k]} =>
    /\ pass.pc = "apply" /\ children'[k] = pass.uid
    /\ KindOf(k) \in GCKinds(blueprint)

LEMMA PassEffect ==
  ASSUME TypeInv, PassNamed, PassStep
  PROVE  /\ UNCHANGED <<blueprint, nextUid, sweep>> /\ PassChild
         /\ \A u \in Uids \ {pass.uid} : record'[u] = record[u]
         /\ ~(RecordPut \/ DeleteLivenessRecord) => record' = record
  <1> USE DEF serverVars, consumerVars, childVars
  <1>0. /\ pass \in PassType /\ children \in [Key -> 0..MaxUid]
        /\ record \in [Uids -> RecordType] /\ blueprint \in Served
    BY BlueprintsAssumption DEF TypeInv, TypeOK
  <1>1. CASE Works BY <1>1, WorksOn DEF PassChild
  <1>2. CASE Get \/ AddFinalizer \/ RemoveFinalizer \/ UpdateStatus \/ Reject
    BY <1>2
    DEF Get, AddFinalizer, RemoveFinalizer, UpdateStatus, Reject, PassChild
  <1>3. CASE ListForDelete \/ ListForPrune \/ PruneDone
    BY <1>3 DEF ListForDelete, ListForPrune, PruneDone, PassChild
  <1>4. CASE DeleteListed
    <2>1. PICK d \in pass.dels : Delete(d) BY <1>4 DEF DeleteListed
    <2>2. PassChild BY <1>0, <2>1 DEF Delete, PassChild
    <2> QED BY <1>4, <2>2 DEF DeleteListed
  <1>5. CASE ApplyChild
    <2>1. CurrentKey \in Key /\ KindOf(CurrentKey) \in GCKinds(blueprint)
      BY <1>0, <1>5, DesiredKeyType, DesiredKind
      DEF ApplyChild, TypeInv, CallSite, CurrentKey, CurrentNode, NodeTarget, PassType
    <2>2. PassChild BY <1>0, <1>5, <2>1 DEF ApplyChild, PassChild
    <2> QED BY <1>5, <2>2 DEF ApplyChild
  <1>6. CASE RecordPut \/ DeleteLivenessRecord
    BY <1>0, <1>6 DEF RecordPut, DeleteLivenessRecord, PassChild
  <1> QED
    BY <1>1, <1>2, <1>3, <1>4, <1>5, <1>6 DEF PassStep, Works

\* The sweeper only deletes.
LEMMA SweepEffect ==
  ASSUME TypeInv, SweepStep
  PROVE  /\ UNCHANGED <<blueprint, inst, nextUid, pass>>
         /\ \A k \in Key : children'[k] \in {0, children[k]}
         /\ ~SweepRecord => record' = record
  <1> USE DEF serverVars, consumerVars, childVars
  <1>1. CASE SweepDelete
    <2>1. PICK d \in sweep.dels : Delete(d) BY <1>1 DEF SweepDelete
    <2>2. \A k \in Key : children'[k] \in {0, children[k]}
      BY <2>1 DEF Delete, TypeInv, TypeOK
    <2> QED BY <1>1, <2>2 DEF SweepDelete
  <1>2. CASE ~SweepDelete
    BY <1>2 DEF SweepStep, SweepList, SweepPick, SweepListChildren, SweepRecord
  <1> QED BY <1>1, <1>2

\* Records that have aged name what they named.
LEMMA AgedSame ==
  ASSUME NEW r \in RecordType, NEW n \in Nat
  PROVE  /\ Aged(r, n).kinds = r.kinds
         /\ r # NoRecord => Aged(r, n) # NoRecord
  BY StaleAssumption, SMT DEF Aged, NoRecord, RecordType

-----------------------------------------------------------------------------
(* Kinds *)

\* All the kinds that children of the blueprint have off the consumer's workspace.
Covers(K) == \A kd \in GCKinds(blueprint) : kd[1] # "consumer" => kd \in K

KindsInv ==
  /\ \A k \in Key : children[k] # 0 => KindOf(k) \in GCKinds(blueprint)
  /\ \A u \in Uids : record[u] # NoRecord => Covers(record[u].kinds)
  /\ \A r \in sweep.todo : Covers(r.kinds)

\* Records and sweeps cover the kinds of any revision.
LEMMA CoversKinds ==
  ASSUME SameKinds, NEW b \in Blueprints, NEW c \in Blueprints, NEW kd \in GCKinds(c),
         kd[1] # "consumer"
  PROVE  kd \in RecordKinds(b) /\ Configured(kd[1])
  BY DEF SameKinds, GCKinds, RecordKinds, Kind, Targets

LEMMA KindsGo ==
  ASSUME SameKinds, CPInv, KindsInv, blueprint' \in Blueprints,
         \A k \in Key : children'[k] \notin {0, children[k]} =>
           KindOf(k) \in GCKinds(blueprint),
         \A u \in Uids : record'[u] # NoRecord =>
           \/ record[u] # NoRecord /\ record'[u].kinds = record[u].kinds
           \/ \E b \in Blueprints : record'[u].kinds = RecordKinds(b),
         \A r \in sweep'.todo :
           \/ r \in sweep.todo
           \/ \E u \in Uids : record[u] # NoRecord /\ r.kinds = SweepableKinds(record[u])
  PROVE  KindsInv'
  <1>0. blueprint \in Blueprints BY DEF CPInv, TypeInv, TypeOK
  <1>1. GCKinds(blueprint)' = GCKinds(blueprint) BY <1>0 DEF SameKinds
  <1>3. \A k \in Key : children'[k] # 0 => KindOf(k) \in GCKinds(blueprint)'
    BY <1>1 DEF KindsInv
  <1>4. \A u \in Uids : record'[u] # NoRecord =>
          \A kd \in GCKinds(blueprint)' : kd[1] # "consumer" => kd \in record'[u].kinds
    BY <1>0, <1>1, CoversKinds, SMT DEF KindsInv, Covers
  <1>5. \A r \in sweep'.todo :
          \A kd \in GCKinds(blueprint)' : kd[1] # "consumer" => kd \in r.kinds
    BY <1>0, <1>1, CoversKinds DEF KindsInv, Covers, SweepableKinds
  <1> QED BY <1>3, <1>4, <1>5 DEF KindsInv, Covers

\* Every step keeps it.
LEMMA KindsStep ==
  ASSUME SameKinds PROVE CPInv /\ KindsInv /\ [CPNext]_cpVars => KindsInv'
  <1> SUFFICES ASSUME CPInv, KindsInv, [CPNext]_cpVars PROVE KindsInv' OBVIOUS
  <1> USE DEF serverVars, consumerVars, childVars
  <1>0. /\ TypeInv /\ PassNamed /\ blueprint \in Blueprints /\ record \in [Uids -> RecordType]
        /\ pass \in PassType /\ sweep \in SweepType
    BY DEF CPInv, TypeInv, TypeOK
  <1>1. ASSUME NEW n \in Nat, record' = [u \in Uids |-> Aged(record[u], n)]
        PROVE  \A u \in Uids : record'[u] # NoRecord =>
                 record[u] # NoRecord /\ record'[u].kinds = record[u].kinds
    <2> TAKE u \in Uids
    <2>1. record[u] \in RecordType /\ record'[u] = Aged(record[u], n) BY <1>0, <1>1
    <2> QED BY <2>1, AgedSame DEF Aged
  <1>2. CASE Quiet BY <1>0, <1>2, KindsGo DEF Quiet
  <1>3. CASE Handover
    <2>1. \A r \in sweep'.todo : r \in sweep.todo
      BY <1>3, SMT DEF Handover, NoSweep
    <2> QED BY <1>0, <1>1, <1>3, <2>1, KindsGo DEF Handover
  <1>4. CASE Reconciles
    <2>1. PassStep BY <1>4 DEF Reconciles
    <2>2. \A u \in Uids : record'[u] # NoRecord =>
            \/ record[u] # NoRecord /\ record'[u].kinds = record[u].kinds
            \/ \E b \in Blueprints : record'[u].kinds = RecordKinds(b)
      <3>1. CASE RecordPut
        BY <1>0, <3>1 DEF RecordPut
      <3>2. CASE DeleteLivenessRecord
        BY <1>0, <3>2 DEF DeleteLivenessRecord
      <3>3. CASE ~(RecordPut \/ DeleteLivenessRecord)
        BY <1>0, <2>1, <3>3, PassEffect
      <3> QED BY <3>1, <3>2, <3>3
    <2> QED BY <1>0, <2>1, <2>2, PassEffect, KindsGo DEF PassChild
  <1>5. CASE LateRequest
    <2>1. /\ blueprint' = blueprint /\ sweep' = sweep /\ LateChild /\ LateRecord
          /\ lateGraph \in Blueprints
      BY <1>5, LateEffect DEF LateRequest, CPInv, LateInv, LateSite
    <2>2. \A k \in Key : children'[k] \notin {0, children[k]} =>
            KindOf(k) \in GCKinds(blueprint)
      BY <1>0, <2>1 DEF LateChild, SameKinds
    <2>3. \A u \in Uids : record'[u] # NoRecord =>
            \/ record[u] # NoRecord /\ record'[u].kinds = record[u].kinds
            \/ record'[u].kinds = RecordKinds(lateGraph)
      BY <2>1, SMT DEF LateRecord
    <2> QED BY <1>0, <2>1, <2>2, <2>3, KindsGo
  <1>6. CASE Others
    <2>1. CASE SweepStep
      <3>1. \A u \in Uids : record'[u] # NoRecord => record'[u] = record[u]
        BY <1>0, <2>1, SweepEffect DEF SweepRecord
      <3>2. \A r \in sweep'.todo :
              \/ r \in sweep.todo
              \/ \E u \in Uids : record[u] # NoRecord /\ r.kinds = SweepableKinds(record[u])
        <4>1. CASE SweepList BY <4>1, SMT DEF SweepList, IsStale, NoSweep
        <4>2. CASE SweepPick BY <1>0, <4>2 DEF SweepPick, SweepType
        <4>3. CASE SweepListChildren BY <1>0, <4>3 DEF SweepListChildren, SweepType
        <4>4. CASE SweepDelete BY <1>0, <4>4 DEF SweepDelete, SweepType
        <4>5. CASE SweepRecord
          <5>1. sweep' = NextRecord BY <4>5 DEF SweepRecord
          <5>2. sweep'.todo \subseteq sweep.todo BY <5>1 DEF NextRecord, NoSweep
          <5> QED BY <5>2
        <4> QED BY <2>1, <4>1, <4>2, <4>3, <4>4, <4>5 DEF SweepStep
      <3> QED BY <1>0, <2>1, <3>1, <3>2, SweepEffect, KindsGo
    <2>2. CASE Create \/ DeleteInst
      BY <1>0, <2>2, KindsGo DEF Create, DeleteInst
    <2> QED BY <1>6, <2>1, <2>2 DEF Others
  <1>7. CASE TimePasses
    BY <1>0, <1>1, <1>7, KindsGo DEF TimePasses
  <1> QED BY <1>2, <1>3, <1>4, <1>5, <1>6, <1>7, StepsOfCP

-----------------------------------------------------------------------------
(* What is left for a list to find *)

\* The children of u: in X, of a kind yet to be listed, or listed.
Left(ch, X, u, K, D) ==
  \A k \in Key : ch[k] = u => k \in X \/ KindOf(k) \in K \/ k \in D

\* Children that go leave no more.
LEMMA LeftKept ==
  ASSUME NEW X, NEW Y, NEW u, NEW K, NEW D, Left(children, X, u, K, D),
         \A k \in Key : children'[k] = u =>
           k \in Y \/ (children[k] = u /\ (k \in X => k \in Y))
  PROVE  Left(children', Y, u, K, D)
  BY DEF Left

\* deleteChildren goes through what is left: before a pass deletes its record,
\* and while it removes its finalizer, nothing is.
LEMMA LeavingStep ==
  ASSUME TypeInv, PassNamed, PassStep, pass.pc \in Leaving, NEW X, NEW Y,
         \A k \in X : k \in Y \/ children'[k] = 0,
         pass.pc = "gc" => Left(children, X, pass.uid, pass.kinds, pass.dels),
         pass.pc = "remfin" => Left(children, X, pass.uid, {}, {})
  PROVE  /\ pass'.pc = "gc" => Left(children', Y, pass.uid, pass'.kinds, pass'.dels)
         /\ pass'.pc = "remfin" => Left(children', Y, pass.uid, {}, {})
         /\ pass' = NoPass \/ (pass'.uid = pass.uid /\ pass'.pc \in Leaving)
         /\ record'[pass.uid] = record[pass.uid] \/ pass'.pc = "remfin"
         /\ \A k \in Key : children'[k] \in {0, children[k]}
  <1> USE DEF childVars
  <1>0. /\ pass \in PassType /\ pass.uid # 0 /\ children \in [Key -> 0..MaxUid]
        /\ pass.pc \in {"gc", "remfin"}
    BY DEF TypeInv, TypeOK, PassNamed, Leaving
  <1>1. CASE ListForDelete
    <2>1. PICK kd \in pass.kinds :
            pass' = [pass EXCEPT !.kinds = @ \ {kd},
                       !.dels = {k \in Labelled(pass.uid) : KindOf(k) = kd}]
      BY <1>1 DEF ListForDelete
    <2>2. /\ pass'.pc = "gc" /\ pass'.uid = pass.uid
          /\ pass'.kinds = pass.kinds \ {kd}
          /\ pass'.dels = {k \in Labelled(pass.uid) : KindOf(k) = kd}
          /\ pass.dels = {} /\ pass.pc = "gc"
          /\ children' = children /\ record' = record
      BY <1>0, <1>1, <2>1 DEF ListForDelete, PassType
    <2>3. Left(children', Y, pass.uid, pass'.kinds, pass'.dels)
      BY <1>0, <2>2 DEF Left, Labelled
    <2>4. record'[pass.uid] = record[pass.uid] BY <2>2
    <2>5. \A k \in Key : children'[k] \in {0, children[k]} BY <2>2
    <2> QED BY <2>2, <2>3, <2>4, <2>5 DEF Leaving
  <1>2. CASE DeleteListed
    <2>1. PICK d \in pass.dels : Delete(d) /\ pass' = [pass EXCEPT !.dels = @ \ {d}]
      BY <1>2 DEF DeleteListed
    <2>2. /\ pass'.pc = pass.pc /\ pass'.uid = pass.uid
          /\ pass'.kinds = pass.kinds /\ pass'.dels = pass.dels \ {d}
      BY <1>0, <2>1 DEF PassType
    <2>3. \A k \in Key : children'[k] = IF k = d THEN 0 ELSE children[k]
      BY <1>0, <2>1 DEF Delete
    <2>4. pass.pc = "gc" /\ record' = record BY <1>0, <1>2 DEF DeleteListed
    <2>5. Left(children', Y, pass.uid, pass'.kinds, pass'.dels)
      BY <1>0, <2>2, <2>3, <2>4 DEF Left
    <2> QED BY <2>2, <2>3, <2>4, <2>5 DEF Leaving
  <1>3. CASE DeleteLivenessRecord
    <2>1. /\ pass'.pc = "remfin" /\ pass'.uid = pass.uid /\ pass.pc = "gc"
          /\ pass.kinds = {} /\ pass.dels = {} /\ children' = children
      BY <1>0, <1>3 DEF DeleteLivenessRecord, Listed, PassType
    <2>2. Left(children', Y, pass.uid, {}, {}) BY <1>0, <2>1 DEF Left
    <2> QED BY <2>1, <2>2 DEF Leaving
  <1>4. CASE RemoveFinalizer \/ Reject
    <2>1. /\ pass' = NoPass /\ children' = children /\ record' = record
      BY <1>4 DEF RemoveFinalizer, Reject
    <2> QED BY <2>1, IdlePass
  <1>5. ListForDelete \/ DeleteListed \/ DeleteLivenessRecord \/ RemoveFinalizer \/ Reject
    <2>1. ~Works BY <1>0, WorksOn
    <2>2. ~(Get \/ AddFinalizer \/ ApplyChild \/ RecordPut \/ ListForPrune \/ PruneDone
            \/ UpdateStatus)
      BY <1>0 DEF Get, AddFinalizer, ApplyChild, RecordPut, ListForPrune, PruneDone,
                         UpdateStatus
    <2> QED BY <2>1, <2>2 DEF PassStep, Works
  <1> QED BY <1>1, <1>2, <1>3, <1>4, <1>5

-----------------------------------------------------------------------------
(* What is off the consumer's workspace *)

Onsite == {k \in Key : k.target = "consumer"}

\* The pass over u is between its first apply and its record.
Applying(u) ==
  pass.uid = u /\ pass.pc \in {"node", "apply", "readback", "recget", "recput"}

RecordNames(u) ==
  Applying(u) \/ record[u] # NoRecord \/ Left(children, Onsite, u, {}, {})

PassNames(u) ==
  pass.uid = u =>
    /\ pass.pc \in {"prune", "status"} => record[u].age = 0 /\ ~InSweep(u)
    /\ pass.pc = "gc" => Left(children, Onsite, u, pass.kinds, pass.dels)
    /\ pass.pc = "remfin" => Left(children, Onsite, u, {}, {})

SweepNames(u) ==
  sweep.uid = u => Applying(u) \/ Left(children, Onsite, u, sweep.kinds, sweep.dels)

OffOf(u) == RecordNames(u) /\ PassNames(u) /\ SweepNames(u)

OffInv == \A u \in Uids \ cut : OffOf(u)

\* A step that gives u no child, and is not one of a pass or of a sweep over it.
LEMMA OffStays ==
  ASSUME NEW u \in Uids, OffOf(u),
         \A k \in Key : children'[k] = u => children[k] = u,
         record[u] # NoRecord => record'[u] # NoRecord,
         Applying(u) <=> Applying(u)',
         pass'.uid = u /\ pass'.pc \in {"gc", "remfin", "prune", "status"} =>
           /\ pass.uid = u /\ pass'.pc = pass.pc
           /\ pass'.kinds = pass.kinds /\ pass'.dels = pass.dels
           /\ record'[u] = record[u],
         sweep' = sweep \/ sweep' = NoSweep
  PROVE  OffOf(u)'
  <1>1. \A K, D : Left(children, Onsite, u, K, D) => Left(children', Onsite, u, K, D)
    BY DEF Left
  <1>2. RecordNames(u)' BY <1>1 DEF OffOf, RecordNames
  <1>3. u # 0 BY SMT DEF Uids
  <1>4. InSweep(u)' => InSweep(u) BY <1>3, SMT DEF InSweep, NoSweep
  <1>5. PassNames(u)'
    <2>1. CASE pass'.uid = u /\ pass'.pc \in {"gc", "remfin", "prune", "status"}
      <3>1. PassNames(u) BY DEF OffOf
      <3>2. pass.pc = "gc" => Left(children', Onsite, u, pass.kinds, pass.dels)
        BY <1>1, <2>1, <3>1 DEF PassNames
      <3>3. pass.pc = "remfin" => Left(children', Onsite, u, {}, {})
        BY <1>1, <2>1, <3>1 DEF PassNames
      <3> QED BY <1>4, <2>1, <3>1, <3>2, <3>3 DEF PassNames
    <2>2. CASE ~(pass'.uid = u /\ pass'.pc \in {"gc", "remfin", "prune", "status"})
      BY <2>2 DEF PassNames
    <2> QED BY <2>1, <2>2
  <1>6. SweepNames(u)' BY <1>1, <1>3, SMT DEF OffOf, SweepNames, NoSweep
  <1> QED BY <1>2, <1>5, <1>6 DEF OffOf

\* A pass whose steps do not reach the record keeps it.
LEMMA OffApplies ==
  ASSUME NEW u \in Uids, Applying(u)' PROVE OffOf(u)'
  BY DEF OffOf, RecordNames, PassNames, SweepNames, Applying

\* The steps of a pass.
LEMMA OffPass ==
  ASSUME CPInv, KindsInv, OffInv, Reconciles PROVE OffInv'
  <1> SUFFICES ASSUME NEW u \in Uids, u \notin cut' PROVE OffOf(u)' BY DEF OffInv
  <1> USE DEF serverVars, consumerVars, childVars
  <1>0. /\ TypeInv /\ PassNamed /\ PassStep /\ u # 0
        /\ pass \in PassType /\ record \in [Uids -> RecordType]
    BY SMT DEF CPInv, TypeInv, TypeOK, Reconciles, Uids
  <1>1. /\ sweep' = sweep /\ PassChild
        /\ \A v \in Uids \ {pass.uid} : record'[v] = record[v]
        /\ ~(RecordPut \/ DeleteLivenessRecord) => record' = record
    BY <1>0, PassEffect
  <1>2. CASE RecordPut /\ u = pass.uid
    <2>1. /\ pass'.pc \in {"prune", "status"} /\ pass.pc = "recput"
          /\ record'[u].age = 0 /\ record'[u] # NoRecord
      BY <1>0, <1>2, SMT DEF RecordPut, PassType, NoRecord
    <2>2. ~InSweep(u) BY <1>2, <2>1 DEF Reconciles
    <2>3. ~InSweep(u)' /\ sweep'.uid # u BY <1>1, <2>2 DEF InSweep
    <2> QED BY <2>1, <2>3 DEF OffOf, RecordNames, PassNames, SweepNames
  <1>3. CASE ~(RecordPut /\ u = pass.uid)
    <2>1. pass.pc = "recput" => RecordPut \/ Reject
      BY <1>0, WorksOn
      DEF PassStep, Works, Get, AddFinalizer, ListForDelete, DeleteListed,
          DeleteLivenessRecord, RemoveFinalizer, ApplyChild, ListForPrune, PruneDone,
          UpdateStatus
    <2>2. ~(Reject /\ u = pass.uid) /\ OffOf(u)
      <3>1. Reject => pass'.pc = "idle" BY IdlePass DEF Reject
      <3>2. CASE pass.pc = "recput" /\ pass'.pc # "idle"
        <4>1. cut' = cut \cup {pass.uid} \/ cut' = cut \ {pass.uid}
          BY <3>2 DEF Reconciles
        <4>2. ~Reject /\ u # pass.uid BY <1>3, <2>1, <3>1, <3>2
        <4> QED BY <4>1, <4>2 DEF OffInv
      <3>3. CASE ~(pass.pc = "recput" /\ pass'.pc # "idle")
        <4>1. cut' = IF Reject THEN cut \cup {pass.uid} ELSE cut
          BY <3>3 DEF Reconciles
        <4> QED BY <4>1 DEF OffInv
      <3> QED BY <3>2, <3>3
    <2>3. CASE Get
      <3>1. /\ UNCHANGED <<children, record, sweep>> /\ pass.pc = "idle"
            /\ pass'.pc \in {"gc", "node", "addfin"}
            /\ pass'.pc = "gc" => pass'.kinds = GCKinds(blueprint)
        BY <2>3 DEF Get, NoPass
      <3>2. CASE pass'.pc = "node" /\ pass'.uid = u
        BY <3>2, OffApplies DEF Applying
      <3>3. CASE pass'.pc = "gc" /\ pass'.uid = u
        <4>1. Left(children, Onsite, u, pass'.kinds, pass'.dels)
          BY <1>0, <3>1, <3>3 DEF KindsInv, Left
        <4> QED
          BY <2>2, <3>1, <3>3, <4>1
          DEF OffOf, RecordNames, PassNames, SweepNames, Applying
      <3>4. CASE pass'.uid # u \/ pass'.pc = "addfin"
        BY <2>2, <3>1, <3>4, OffStays DEF Applying
      <3> QED BY <3>1, <3>2, <3>3, <3>4
    <2>4. CASE pass.uid # u /\ ~Get
      <3>1. pass'.uid # u
        BY <1>0, <2>4, PassStays, IdlePass DEF SamePhase
      <3>2. \A k \in Key : children'[k] = u => children[k] = u
        BY <1>0, <1>1, <2>4 DEF PassChild
      <3>3. record'[u] = record[u] BY <1>1, <2>4
      <3> QED BY <1>1, <2>2, <2>4, <3>1, <3>2, <3>3, OffStays DEF Applying
    <2>5. CASE pass.uid = u /\ (Works \/ ApplyChild)
      <3>1. Works => Applying(u)' BY <1>0, <2>5, WorksOn DEF Applying
      <3>2. ApplyChild => Applying(u)'
        BY <1>0, <2>5 DEF ApplyChild, Applying, PassType
      <3> QED BY <2>5, <3>1, <3>2, OffApplies
    <2>6. CASE pass.uid = u /\ pass.pc \in Leaving
      <3>1. \A k \in Onsite : k \in Onsite \/ children'[k] = 0 OBVIOUS
      <3>2. /\ pass.pc = "gc" => Left(children, Onsite, pass.uid, pass.kinds, pass.dels)
            /\ pass.pc = "remfin" => Left(children, Onsite, pass.uid, {}, {})
        BY <2>2, <2>6 DEF OffOf, PassNames
      <3>3. /\ pass'.pc = "gc" => Left(children', Onsite, u, pass'.kinds, pass'.dels)
            /\ pass'.pc = "remfin" => Left(children', Onsite, u, {}, {})
            /\ pass' = NoPass \/ (pass'.uid = u /\ pass'.pc \in Leaving)
            /\ record'[u] = record[u] \/ pass'.pc = "remfin"
            /\ \A k \in Key : children'[k] \in {0, children[k]}
        BY <1>0, <2>6, <3>1, <3>2, LeavingStep
      <3>4. \A K, D : Left(children, Onsite, u, K, D) => Left(children', Onsite, u, K, D)
        BY <1>0, <3>3 DEF Left
      <3>5. ~Applying(u) BY <2>6 DEF Applying, Leaving
      <3>6. RecordNames(u)' BY <2>2, <3>3, <3>4, <3>5 DEF OffOf, RecordNames
      <3>7. PassNames(u)'
        BY <3>3, IdlePass DEF PassNames, Leaving
      <3>8. SweepNames(u)' BY <1>1, <2>2, <3>4, <3>5 DEF OffOf, SweepNames
      <3> QED BY <3>6, <3>7, <3>8 DEF OffOf
    <2>7. CASE AddFinalizer \/ UpdateStatus
      <3>1. /\ pass' = NoPass /\ pass.pc \in {"addfin", "status"}
            /\ UNCHANGED <<children, record>>
        BY <2>7 DEF AddFinalizer, UpdateStatus
      <3> QED BY <1>0, <1>1, <2>2, <3>1, OffStays, IdlePass DEF Applying
    <2>8. CASE pass.uid = u /\ pass.pc = "prune" /\ ~Reject
      <3>1. pass'.uid = u /\ pass'.pc \in {"prune", "status"}
        <4>1. CASE ListForPrune \/ PruneDone
          BY <1>0, <2>8, <4>1 DEF ListForPrune, PruneDone, PassType
        <4>2. CASE DeleteListed
          <5>1. PICK d \in pass.dels : pass' = [pass EXCEPT !.dels = @ \ {d}]
            BY <4>2 DEF DeleteListed
          <5> QED BY <1>0, <2>8, <5>1 DEF PassType
        <4>3. ~Works BY <1>0, <2>8, WorksOn
        <4>4. ListForPrune \/ PruneDone \/ DeleteListed
          BY <1>0, <2>8, <4>3
          DEF PassStep, Works, Get, AddFinalizer, ListForDelete, DeleteLivenessRecord,
              RemoveFinalizer, ApplyChild, RecordPut, UpdateStatus
        <4> QED BY <4>1, <4>2, <4>4
      <3>2. record' = record /\ \A k \in Key : children'[k] \in {0, children[k]}
        BY <1>1, <2>8 DEF RecordPut, DeleteLivenessRecord, PassChild
      <3>3. \A K, D : Left(children, Onsite, u, K, D) => Left(children', Onsite, u, K, D)
        BY <1>0, <3>2 DEF Left
      <3>4. InSweep(u)' <=> InSweep(u) BY <1>1 DEF InSweep
      <3> QED
        BY <1>1, <2>2, <2>8, <3>1, <3>2, <3>3, <3>4
        DEF OffOf, RecordNames, PassNames, SweepNames, Applying
    <2>9. ASSUME pass.uid = u
          PROVE  \/ Get \/ Works \/ ApplyChild \/ AddFinalizer \/ UpdateStatus
                 \/ pass.pc \in Leaving \/ (pass.pc = "prune" /\ ~Reject)
      BY <1>0, <1>3, <2>2, <2>9
      DEF PassStep, Works, ListForDelete, DeleteListed, DeleteLivenessRecord,
          RemoveFinalizer, ListForPrune, PruneDone, Leaving
    <2> QED BY <2>3, <2>4, <2>5, <2>6, <2>7, <2>8, <2>9
  <1> QED BY <1>2, <1>3

\* The steps of the sweeper.
LEMMA OffSweep ==
  ASSUME CPInv, KindsInv, OffInv, SweepStep, cut' = cut PROVE OffInv'
  <1> SUFFICES ASSUME NEW u \in Uids, u \notin cut PROVE OffOf(u)' BY DEF OffInv
  <1>0. /\ TypeInv /\ u # 0 /\ sweep \in SweepType /\ OffOf(u)
        /\ record \in [Uids -> RecordType] /\ children \in [Key -> 0..MaxUid]
    BY SMT DEF CPInv, TypeInv, TypeOK, Uids, OffInv
  <1>1. /\ pass' = pass /\ \A k \in Key : children'[k] \in {0, children[k]}
        /\ ~SweepRecord => record' = record
    BY <1>0, SweepEffect
  <1>2. \A K, D : Left(children, Onsite, u, K, D) => Left(children', Onsite, u, K, D)
    BY <1>0, <1>1 DEF Left
  <1>3. Applying(u)' <=> Applying(u) BY <1>1 DEF Applying
  <1>4. ASSUME record'[u] = record[u],
               pass.uid = u /\ pass.pc \in {"prune", "status"} => ~InSweep(u)',
               SweepNames(u)'
        PROVE  OffOf(u)'
    BY <1>0, <1>1, <1>2, <1>3, <1>4 DEF OffOf, RecordNames, PassNames
  <1>5. CASE SweepList
    <2>1. /\ sweep'.uid = 0 /\ record' = record
          /\ \A r \in sweep'.todo : record[r.uid].age > StaleAfter
      BY <1>5, SMT DEF SweepList, NoSweep, IsStale
    <2>2. pass.uid = u /\ pass.pc \in {"prune", "status"} => ~InSweep(u)'
      <3>1. SUFFICES ASSUME pass.uid = u, pass.pc \in {"prune", "status"} PROVE ~InSweep(u)'
        OBVIOUS
      <3>2. record[u].age = 0 BY <1>0, <3>1 DEF OffOf, PassNames
      <3>3. ~(record[u].age > StaleAfter) BY <3>2, StaleAssumption, SMT
      <3> QED BY <1>0, <2>1, <3>3 DEF InSweep
    <2>3. SweepNames(u)' BY <1>0, <2>1 DEF SweepNames
    <2> QED BY <1>4, <2>1, <2>2, <2>3
  <1>6. CASE SweepPick
    <2>1. PICK r \in sweep.todo :
            sweep' = [sweep EXCEPT !.pc = "sweep", !.todo = @ \ {r},
                        !.uid = r.uid, !.kinds = r.kinds]
      BY <1>6 DEF SweepPick
    <2>2. /\ sweep'.uid = r.uid /\ sweep'.kinds = r.kinds
          /\ sweep'.todo = sweep.todo \ {r} /\ record' = record
      BY <1>0, <1>1, <1>6, <2>1 DEF SweepType, SweepPick, SweepRecord
    <2>3. pass.uid = u /\ pass.pc \in {"prune", "status"} => ~InSweep(u)'
      BY <1>0, <2>2 DEF OffOf, PassNames, InSweep
    <2>4. Left(children, Onsite, u, r.kinds, sweep'.dels)
      BY <1>0 DEF KindsInv, Covers, Left, Onsite, KindOf
    <2>5. SweepNames(u)' BY <1>2, <2>2, <2>4 DEF SweepNames
    <2> QED BY <1>4, <2>2, <2>3, <2>5
  <1>7. CASE SweepListChildren \/ SweepDelete
    <2>1. sweep'.uid = sweep.uid /\ sweep'.todo = sweep.todo /\ record' = record
      BY <1>0, <1>7 DEF SweepListChildren, SweepDelete, SweepType
    <2>2. pass.uid = u /\ pass.pc \in {"prune", "status"} => ~InSweep(u)'
      BY <1>0, <2>1 DEF OffOf, PassNames, InSweep
    <2>3. Left(children, Onsite, u, sweep.kinds, sweep.dels) /\ u = sweep.uid =>
            Left(children', Onsite, u, sweep'.kinds, sweep'.dels)
      <3>1. CASE SweepListChildren
        <4>1. PICK kd \in sweep.kinds :
                sweep' = [sweep EXCEPT !.kinds = @ \ {kd},
                            !.dels = {k \in Labelled(sweep.uid) : KindOf(k) = kd}]
          BY <3>1 DEF SweepListChildren
        <4>2. /\ sweep'.kinds = sweep.kinds \ {kd} /\ sweep.dels = {}
              /\ sweep'.dels = {k \in Labelled(sweep.uid) : KindOf(k) = kd}
              /\ children' = children
          BY <1>0, <3>1, <4>1 DEF SweepListChildren, SweepType, childVars
        <4> QED BY <4>2 DEF Left, Labelled
      <3>2. CASE SweepDelete
        <4>1. PICK d \in sweep.dels :
                Delete(d) /\ sweep' = [sweep EXCEPT !.dels = @ \ {d}]
          BY <3>2 DEF SweepDelete
        <4>2. sweep'.kinds = sweep.kinds /\ sweep'.dels = sweep.dels \ {d}
          BY <1>0, <4>1 DEF SweepType
        <4>3. \A k \in Key : children'[k] = IF k = d THEN 0 ELSE children[k]
          BY <1>0, <4>1 DEF Delete
        <4> QED BY <1>0, <4>2, <4>3 DEF Left
      <3> QED BY <1>7, <3>1, <3>2
    <2>4. SweepNames(u)' BY <1>0, <1>3, <2>1, <2>3 DEF OffOf, SweepNames
    <2> QED BY <1>4, <2>1, <2>2, <2>4
  <1>8. CASE SweepRecord
    <2>1. /\ sweep'.uid = 0 /\ sweep'.todo \subseteq sweep.todo
          /\ sweep.kinds = {} /\ sweep.dels = {}
          /\ record'[u] = IF u = sweep.uid THEN NoRecord ELSE record[u]
      <3>1. sweep' = NextRecord BY <1>8 DEF SweepRecord
      <3>2. sweep'.uid = 0 /\ sweep'.todo \subseteq sweep.todo
        BY <3>1 DEF NextRecord, NoSweep
      <3> QED BY <1>0, <1>8, <3>2 DEF SweepRecord
    <2>2. SweepNames(u)' BY <1>0, <2>1 DEF SweepNames
    <2>3. CASE u # sweep.uid
      <3>1. pass.uid = u /\ pass.pc \in {"prune", "status"} => ~InSweep(u)'
        BY <1>0, <2>1 DEF OffOf, PassNames, InSweep
      <3> QED BY <1>4, <2>1, <2>2, <2>3, <3>1
    <2>4. CASE u = sweep.uid
      <3>1. Applying(u) \/ Left(children', Onsite, u, {}, {})
        BY <1>0, <1>2, <2>1, <2>4 DEF OffOf, SweepNames
      <3>2. RecordNames(u)' BY <1>3, <3>1 DEF RecordNames
      <3>3. PassNames(u)'
        BY <1>0, <1>1, <1>2, <2>4 DEF OffOf, PassNames, InSweep
      <3> QED BY <2>2, <3>2, <3>3 DEF OffOf
    <2> QED BY <2>3, <2>4
  <1> QED BY <1>5, <1>6, <1>7, <1>8 DEF SweepStep

\* Every step keeps it.
LEMMA OffStep ==
  ASSUME SameKinds
  PROVE  CPInv /\ KindsInv /\ OffInv /\ [CPNext]_cpVars => OffInv'
  <1> SUFFICES ASSUME CPInv, KindsInv, OffInv, [CPNext]_cpVars PROVE OffInv' OBVIOUS
  <1> USE DEF serverVars, consumerVars, childVars
  <1>0. TypeInv /\ record \in [Uids -> RecordType] /\ 0 \notin Uids
    BY SMT DEF CPInv, TypeInv, TypeOK, Uids
  <1>1. ASSUME NEW n \in Nat, record' = [u \in Uids |-> Aged(record[u], n)]
        PROVE  \A u \in Uids : record[u] # NoRecord => record'[u] # NoRecord
    BY <1>0, <1>1, AgedSame
  <1>2. CASE Quiet
    BY <1>2, OffStays DEF Quiet, OffInv, Applying
  <1>3. CASE Handover
    <2> SUFFICES ASSUME NEW u \in Uids, u \notin cut' PROVE OffOf(u)' BY DEF OffInv
    <2>1. /\ pass' = NoPass /\ u \notin cut /\ u # pass.uid /\ children' = children
          /\ sweep' = sweep \/ sweep' = NoSweep
      BY <1>0, <1>3 DEF Handover, LeaveRequest
    <2>2. record[u] # NoRecord => record'[u] # NoRecord BY <1>1, <1>3 DEF Handover
    <2>3. ~Applying(u) /\ ~Applying(u)' /\ pass'.uid # u
      BY <1>0, <2>1, IdlePass DEF Applying
    <2> QED BY <2>1, <2>2, <2>3, OffStays DEF OffInv
  <1>4. CASE Reconciles BY <1>4, OffPass
  <1>5. CASE LateRequest
    <2> SUFFICES ASSUME NEW u \in Uids, u \notin cut' PROVE OffOf(u)' BY DEF OffInv
    <2>1. u \notin cut /\ u # late.uid BY <1>5 DEF LateRequest
    <2>2. /\ sweep' = sweep /\ record'[u] = record[u]
          /\ \A k \in Key : children'[k] = u => children[k] = u
      BY <1>0, <1>5, <2>1, LateEffect DEF LateChild, LateRecord
    <2>3. /\ pass'.pc = pass.pc /\ pass'.uid = pass.uid
          /\ pass'.kinds = pass.kinds /\ pass'.dels = pass.dels
      BY <1>0, <1>5, PassOutdated
    <2> QED BY <2>1, <2>2, <2>3, OffStays DEF OffInv, Applying
  <1>6. CASE Others
    <2>1. CASE SweepStep BY <1>6, <2>1, OffSweep DEF Others
    <2>2. CASE Create \/ DeleteInst
      <3>1. Touch /\ UNCHANGED <<children, record, sweep, cut>>
        BY <1>6, <2>2 DEF Others, Create, DeleteInst
      <3> QED BY <1>0, <3>1, PassTouched, OffStays DEF OffInv, Applying
    <2> QED BY <1>6, <2>1, <2>2 DEF Others
  <1>7. CASE TimePasses
    <2>1. /\ UNCHANGED <<children, pass, sweep, cut>> /\ pass.pc = "idle"
          /\ \A u \in Uids : record[u] # NoRecord => record'[u] # NoRecord
      BY <1>1, <1>7 DEF TimePasses
    <2> QED BY <2>1, OffStays DEF OffInv, Applying
  <1> QED BY <1>2, <1>3, <1>4, <1>5, <1>6, <1>7, StepsOfCP

\* What an instance has off its consumer's workspace is named by its record, so
\* that the sweeper can find it, through any interleaving of passes, sweeps,
\* handovers, crashes and restarts, as long as the served revisions agree on the
\* kinds of their children: writeLivenessRecord names every kind there can be,
\* deleteChildren and Sweep delete a record only once there is nothing left that
\* it names, and Sweep takes only a stale record on its list.
THEOREM RecordsName ==
  ASSUME SameKinds PROVE CPSpec => []OffsiteIsRecorded
  <1>1. CPInit => KindsInv /\ OffInv
    <2> SUFFICES ASSUME CPInit PROVE KindsInv /\ OffInv OBVIOUS
    <2>1. /\ children = [k \in Key |-> 0] /\ record = [u \in Uids |-> NoRecord]
          /\ sweep = NoSweep /\ pass = NoPass
      BY DEF CPInit, Init
    <2>2. KindsInv BY <2>1 DEF KindsInv, NoSweep
    <2>3. OffInv
      <3> SUFFICES ASSUME NEW u \in Uids PROVE OffOf(u) BY DEF OffInv
      <3>1. u # 0 BY SMT DEF Uids
      <3>2. \A K, D : Left(children, Onsite, u, K, D) BY <2>1, <3>1 DEF Left
      <3>3. pass.uid # u /\ sweep.uid # u BY <2>1, <3>1, IdlePass DEF NoSweep
      <3> QED BY <3>2, <3>3 DEF OffOf, RecordNames, PassNames, SweepNames
    <2> QED BY <2>2, <2>3
  <1>2. CPInv /\ KindsInv /\ [CPNext]_cpVars => KindsInv' BY KindsStep
  <1>3. CPInv /\ KindsInv /\ OffInv /\ [CPNext]_cpVars => OffInv' BY OffStep
  <1>4. KindsInv /\ OffInv => OffsiteIsRecorded
    <2> SUFFICES ASSUME KindsInv, OffInv,
                        NEW u \in Uids \ (cut \cup {pass.uid}), NEW k \in Offsite(u)
                 PROVE  KindOf(k) \in record[u].kinds
      BY DEF OffsiteIsRecorded
    <2>1. k \in Key /\ children[k] = u /\ u # 0 /\ k.target # "consumer"
      BY SMT DEF Offsite, Labelled, Uids
    <2>2. record[u] # NoRecord
      BY <2>1 DEF OffInv, OffOf, RecordNames, Applying, Left, Onsite
    <2>3. KindOf(k) \in GCKinds(blueprint) /\ KindOf(k)[1] # "consumer"
      BY <2>1 DEF KindsInv, KindOf
    <2> QED BY <2>2, <2>3 DEF KindsInv, Covers
  <1> QED BY <1>1, <1>2, <1>3, <1>4, CPInvariant, PTL DEF CPSpec

-----------------------------------------------------------------------------
(* The instance, the pass over it and the late request *)

\* A pass past its finalizer check is over the instance there is, and one on the
\* deletion path has seen the deletion timestamp.  While a request of that path
\* is on its way, no other pass can be anywhere else with the same instance.
OrderInv ==
  /\ inst.uid < nextUid /\ pass.uid < nextUid
  /\ pass.pc \in Working => pass.uid = inst.uid /\ inst.fin
  /\ pass.pc \in Leaving /\ inst.uid = pass.uid => inst.deleting
  /\ inFlight => late.uid < nextUid
  /\ inFlight /\ late.pc \in Leaving =>
       /\ inst.uid = late.uid => inst.deleting
       /\ pass.uid = late.uid => pass.pc \in Leaving

\* A step within a phase of the pass, or one that ends it, keeps the order.
LEMMA OrderGoesOn ==
  ASSUME CPInv, OrderInv, pass' = NoPass \/ SamePhase, SameLate,
         nextUid' = nextUid, inst'.uid = inst.uid,
         inst'.deleting = inst.deleting, inst.fin => inst'.fin
  PROVE  OrderInv'
  <1>1. inFlight => late.uid # 0 BY DEF CPInv, LateInv, LateSite
  <1>2. 0 < nextUid BY SMT DEF CPInv, TypeInv, TypeOK
  <1>3. CASE pass' = NoPass
    <2>1. pass'.uid = 0 /\ pass'.pc = "idle" BY <1>3, IdlePass
    <2> QED BY <1>1, <1>2, <2>1 DEF OrderInv, SameLate, Working, Leaving
  <1>4. CASE SamePhase
    BY <1>4 DEF OrderInv, SamePhase, SameLate, Working, Leaving
  <1> QED BY <1>3, <1>4

\* So does one that leaves a request behind,
LEMMA OrderLeaves ==
  ASSUME CPInv, OrderInv, LeaveRequest, UNCHANGED <<inst, nextUid>>
  PROVE  OrderInv'
  <1>1. pass'.uid = 0 /\ pass'.pc = "idle" /\ pass' = NoPass
    BY IdlePass DEF LeaveRequest
  <1>2. 0 < nextUid BY SMT DEF CPInv, TypeInv, TypeOK
  <1>3. CASE Writing
    <2>1. late' = pass /\ pass.uid # 0
      BY <1>3 DEF LeaveRequest, Writing, CPInv, PassNamed
    <2> QED BY <1>1, <1>2, <2>1 DEF OrderInv, Working, Leaving
  <1>4. CASE ~Writing
    <2>1. SameLate BY <1>4 DEF LeaveRequest, lateVars, SameLate
    <2> QED BY <1>1, <2>1, OrderGoesOn
  <1> QED BY <1>3, <1>4

\* and one after which the instance is gone.
LEMMA OrderEnds ==
  ASSUME CPInv, OrderInv, inst' = NoInst, nextUid' = nextUid, SameLate,
         pass' = NoPass \/ (pass'.uid = pass.uid /\ pass'.pc = pass.pc),
         pass'.pc \notin Working
  PROVE  OrderInv'
  <1>1. inst'.uid = 0 BY DEF NoInst
  <1>2. 0 < nextUid BY SMT DEF CPInv, TypeInv, TypeOK
  <1>3. inFlight => late.uid # 0 BY DEF CPInv, LateInv, LateSite
  <1>4. CASE pass' = NoPass
    <2>1. pass'.uid = 0 /\ pass'.pc = "idle" BY <1>4, IdlePass
    <2> QED BY <1>1, <1>2, <1>3, <2>1 DEF OrderInv, SameLate, Working, Leaving
  <1>5. CASE pass'.uid = pass.uid /\ pass'.pc = pass.pc
    <2>1. pass'.pc \in Leaving => pass'.uid # 0
      BY <1>5 DEF CPInv, PassNamed, Leaving
    <2> QED BY <1>1, <1>2, <1>3, <1>5, <2>1 DEF OrderInv, SameLate
  <1> QED BY <1>4, <1>5

\* Only the removal of the finalizer takes the instance away.
LEMMA PassInst ==
  ASSUME TypeInv, PassStep, ~RemoveFinalizer
  PROVE  /\ inst'.uid = inst.uid /\ inst'.deleting = inst.deleting
         /\ inst.fin => inst'.fin
  <1> USE DEF serverVars, consumerVars, childVars
  <1> inst \in InstType BY DEF TypeInv, TypeOK
  <1>1. CASE AddFinalizer BY <1>1 DEF AddFinalizer, InstType
  <1>2. CASE UpdateStatus BY <1>2 DEF UpdateStatus, InstType
  <1>3. CASE Works BY <1>3, WorksOn
  <1>4. CASE ~AddFinalizer /\ ~UpdateStatus /\ ~Works
    <2>1. inst' = inst
      BY <1>4
      DEF PassStep, Works, Get, ListForDelete, DeleteListed, DeleteLivenessRecord,
          ApplyChild, RecordPut, ListForPrune, PruneDone, Reject
    <2> QED BY <2>1
  <1> QED BY <1>1, <1>2, <1>3, <1>4

\* Every step keeps the order.
LEMMA OrderStep == CPInv /\ OrderInv /\ [CPNext]_cpVars => OrderInv'
  <1> SUFFICES ASSUME CPInv, OrderInv, [CPNext]_cpVars PROVE OrderInv' OBVIOUS
  <1> USE DEF serverVars, consumerVars, childVars
  <1>0. TypeInv /\ PassNamed /\ inst \in InstType /\ nextUid \in Nat /\ inst.uid \in Nat
        /\ pass.uid \in Nat /\ (inFlight => late.uid \in Nat /\ late.uid # 0)
    <2>1. TypeInv /\ PassNamed /\ LateInv /\ TypeOK BY DEF CPInv, TypeInv
    <2>2. pass \in PassType /\ inst \in InstType /\ nextUid \in 1..(MaxUid + 1)
      BY <2>1 DEF TypeInv, TypeOK
    <2>3. pass.uid \in 0..MaxUid /\ inst.uid \in 0..MaxUid
      BY <2>2 DEF PassType, InstType
    <2>4. late.uid \in 0..MaxUid /\ (inFlight => late.uid # 0)
      BY <2>1 DEF LateInv, LateSite, PassType
    <2> QED BY <2>1, <2>2, <2>3, <2>4, MaxUidAssumption, SMT
  <1>1. OutdateLate => SameLate BY LateStays DEF SameLate
  <1>2. CASE Quiet
    BY <1>2, OrderGoesOn DEF Quiet, SamePhase
  <1>3. CASE Handover
    BY <1>3, OrderLeaves DEF Handover
  <1>4. CASE Reconciles
    <2>1. SameLate BY <1>1, <1>4 DEF Reconciles
    <2>2. CASE Get
      <3>1. /\ pass'.uid = inst.uid /\ pass'.pc \in {"gc", "node", "addfin"}
            /\ pass'.pc = "gc" => inst.deleting
            /\ pass'.pc = "node" => inst.fin
            /\ inst.deleting => pass'.pc = "gc"
        BY <2>2 DEF Get, NoPass
      <3>2. UNCHANGED <<inst, nextUid>> BY <2>2 DEF Get
      <3> QED
        BY <2>1, <3>1, <3>2 DEF OrderInv, SameLate, Working, Leaving
    <2>3. CASE RemoveFinalizer
      <3>1. inst' = NoInst /\ pass' = NoPass /\ nextUid' = nextUid
        BY <2>3 DEF RemoveFinalizer
      <3>2. pass'.pc \notin Working BY <3>1, IdlePass DEF Working
      <3> QED BY <2>1, <3>1, <3>2, OrderEnds
    <2>4. CASE AddFinalizer
      <3>1. inst'.uid = inst.uid /\ inst'.fin /\ inst'.deleting = inst.deleting
        BY <1>0, <2>4 DEF AddFinalizer, InstType
      <3> QED BY <2>1, <2>4, <3>1, OrderGoesOn DEF AddFinalizer
    <2>5. CASE ~Get /\ ~RemoveFinalizer /\ ~AddFinalizer
      <3>1. PassStep BY <1>4 DEF Reconciles
      <3> QED
        BY <1>0, <2>1, <2>5, <3>1, PassInst, PassEffect, PassStays, OrderGoesOn
    <2> QED BY <2>2, <2>3, <2>4, <2>5
  <1>5. CASE LateRequest
    <2>1. SameLate /\ SamePhase
      BY <1>0, <1>5, PassOutdated DEF LateRequest, SameLate, SamePhase
    <2>2. nextUid' = nextUid /\ LateInst BY <1>5, LateEffect
    <2>3. CASE late.pc = "remfin" /\ inst.uid = late.uid /\ inst' = NoInst
      <3>1. pass'.uid = pass.uid /\ pass'.pc = pass.pc BY <1>0, <1>5, PassOutdated
      <3>2. pass.pc \notin Working
        BY <1>5, <2>3 DEF LateRequest, OrderInv, Working, Leaving
      <3> QED BY <2>1, <2>2, <2>3, <3>1, <3>2, OrderEnds
    <2>4. CASE ~(late.pc = "remfin" /\ inst.uid = late.uid /\ inst' = NoInst)
      BY <2>1, <2>2, <2>4, OrderGoesOn DEF LateInst
    <2> QED BY <2>3, <2>4
  <1>6. CASE Others
    <2>1. SameLate BY <1>1, <1>6 DEF Others
    <2>2. CASE SweepStep
      <3>1. UNCHANGED <<inst, nextUid, pass>>
        BY <2>2 DEF SweepStep, SweepList, SweepPick, SweepListChildren,
                           SweepDelete, SweepRecord
      <3> QED BY <2>1, <3>1, OrderGoesOn DEF SamePhase
    <2>3. CASE Create
      <3>1. pass'.uid = pass.uid /\ pass'.pc = pass.pc
        BY <1>0, <2>3, PassTouched DEF Create
      <3>2. inst.uid = 0 /\ inst'.uid = nextUid /\ nextUid' = nextUid + 1
        BY <2>3 DEF Create, NoInst
      <3>3. pass.pc \in Working => pass.uid # 0
        BY DEF CPInv, PassNamed, Working
      <3> QED BY <1>0, <2>1, <3>1, <3>2, <3>3, SMT DEF OrderInv, SameLate
    <2>4. CASE DeleteInst
      <3>1. pass'.uid = pass.uid /\ pass'.pc = pass.pc /\ nextUid' = nextUid
        BY <1>0, <2>4, PassTouched DEF DeleteInst
      <3>2. CASE inst.fin
        <4>1. inst'.uid = inst.uid /\ inst'.fin /\ inst'.deleting
          BY <1>0, <2>4, <3>2 DEF DeleteInst, InstType
        <4> QED BY <2>1, <3>1, <4>1 DEF OrderInv, SameLate
      <3>3. CASE ~inst.fin
        BY <2>1, <2>4, <3>1, <3>3, OrderEnds DEF DeleteInst, OrderInv
      <3> QED BY <3>2, <3>3
    <2> QED BY <1>6, <2>2, <2>3, <2>4 DEF Others
  <1>7. CASE TimePasses
    BY <1>7, OrderGoesOn DEF TimePasses, SamePhase, SameLate, lateVars
  <1> QED BY <1>2, <1>3, <1>4, <1>5, <1>6, <1>7, StepsOfCP

-----------------------------------------------------------------------------
(* What the engine has applied, whichever manager it runs in *)

LEMMA EngineStep == CPInv /\ EngineInv /\ [CPNext]_cpVars => EngineInv'
  <1> SUFFICES ASSUME CPInv, EngineInv, [CPNext]_cpVars PROVE EngineInv' OBVIOUS
  <1> TypeInv BY DEF CPInv
  <1>1. ASSUME blueprint' = blueprint, pass' = pass PROVE EngineInv'
    BY <1>1, EngineFrame
  <1>2. CASE Quiet
    <2>1. CASE blueprint' # blueprint
      <3>1. pass' = pass /\ pass.pc = "idle" BY <1>2, <2>1 DEF Quiet
      <3> QED
        BY <3>1 DEF EngineInv, NodesApplied, ItemsApplied, AppliedSet, PruneList
    <2> QED BY <1>1, <1>2, <2>1 DEF Quiet
  <1>3. CASE Handover BY <1>3, EngineIdleNext DEF Handover, LeaveRequest
  <1>4. CASE Reconciles BY <1>4, EnginePass DEF Reconciles
  <1>5. CASE LateRequest BY <1>5, PassOutdated, LateEffect, EngineFrame
  <1>6. CASE Others
    <2>1. CASE SweepStep BY <1>1, <2>1, SweepEffect
    <2>2. CASE Create \/ DeleteInst
      BY <2>2, PassTouched, EngineFrame DEF Create, DeleteInst, serverVars
    <2> QED BY <1>6, <2>1, <2>2 DEF Others
  <1>7. CASE TimePasses BY <1>1, <1>7 DEF TimePasses
  <1> QED BY <1>2, <1>3, <1>4, <1>5, <1>6, <1>7, StepsOfCP

-----------------------------------------------------------------------------
(* Strays *)

\* The children that no late request wrote belong to the instance there is, and
\* only while it has its finalizer.
ChildrenStay ==
  \A k \in Key : children[k] # 0 =>
    k \in strays \/ (children[k] = inst.uid /\ inst.fin)

\* Neither the pass nor the request on its way removes the finalizer before all
\* other children are gone, and a complete pass has pruned all others.
LateStrays ==
  inFlight /\ late.pc = "remfin" => Left(children, strays, late.uid, {}, {})

LeavingStrays ==
  /\ pass.pc = "gc" => Left(children, strays, pass.uid, pass.kinds, pass.dels)
  /\ pass.pc = "remfin" => Left(children, strays, pass.uid, {}, {})

WorkingStrays ==
  /\ pass.pc = "prune" =>
       Left(children, strays, pass.uid, pass.kinds, pass.dels \cup pass.applied)
  /\ pass.pc = "status" /\ pass.complete =>
       Left(children, strays, pass.uid, {}, pass.applied)

StrayInv == ChildrenStay /\ LateStrays /\ LeavingStrays /\ WorkingStrays

\* A child after the step is a stray or was there before.
KeepsChildren ==
  \A k \in Key : children'[k] # 0 =>
    k \in strays' \/ (children'[k] = children[k] /\ (k \in strays => k \in strays'))

\* A step that is not one of the pass keeps it for the pass,
LEMMA PassStrays ==
  ASSUME PassNamed, StrayInv, KeepsChildren,
         pass'.pc = pass.pc, pass'.uid = pass.uid, pass'.kinds = pass.kinds,
         pass'.dels = pass.dels, pass'.applied = pass.applied,
         pass'.complete = pass.complete
  PROVE  LeavingStrays' /\ WorkingStrays'
  <1>1. ASSUME NEW K, NEW D, pass.pc # "idle", Left(children, strays, pass.uid, K, D)
        PROVE  Left(children', strays', pass.uid, K, D)
    BY <1>1, LeftKept DEF KeepsChildren, PassNamed
  <1> QED BY <1>1 DEF StrayInv, LeavingStrays, WorkingStrays

\* one that gives the instance of the late request no child for that one,
LEMMA LateKept ==
  ASSUME StrayInv, SameLate,
         inFlight /\ late.pc = "remfin" => \A k \in Key : children'[k] = late.uid =>
           k \in strays' \/ (children[k] = late.uid /\ (k \in strays => k \in strays'))
  PROVE  LateStrays'
  <1> SUFFICES ASSUME inFlight', late'.pc = "remfin"
               PROVE  Left(children', strays', late.uid, {}, {})
    BY DEF LateStrays, SameLate
  <1>1. inFlight /\ late.pc = "remfin" BY DEF SameLate
  <1>2. Left(children, strays, late.uid, {}, {}) BY <1>1 DEF StrayInv, LateStrays
  <1> QED BY <1>1, <1>2, LeftKept

\* and one that leaves the finalizer where it is for the children.
LEMMA ChildrenKept ==
  ASSUME StrayInv, KeepsChildren, inst.fin => inst'.fin /\ inst'.uid = inst.uid
  PROVE  ChildrenStay'
  BY DEF StrayInv, ChildrenStay, KeepsChildren

\* Prune goes through all children that were not applied.
LEMMA WorkingStep ==
  ASSUME TypeInv, PassNamed, KindsInv, StrayInv, PassStep, pass.pc \in Working,
         strays' = Remaining
  PROVE  WorkingStrays'
  <1> USE DEF childVars
  <1> /\ pass \in PassType /\ pass.uid # 0 /\ children \in [Key -> 0..MaxUid]
      /\ \A k \in strays : k \in strays' \/ children'[k] = 0
    BY DEF TypeInv, TypeOK, PassNamed, Working, Remaining
  <1>1. CASE RecordPut
    <2>1. /\ pass'.complete = pass.complete /\ pass'.uid = pass.uid
          /\ pass'.pc = IF pass.complete THEN "prune" ELSE "status"
          /\ pass.complete => pass'.kinds = GCKinds(blueprint)
          /\ children' = children
      BY <1>1 DEF RecordPut, PassType
    <2> QED BY <2>1 DEF WorkingStrays, KindsInv, Left
  <1>2. CASE ListForPrune
    <2>1. PICK kd \in pass.kinds :
            pass' = [pass EXCEPT !.kinds = @ \ {kd},
                       !.dels = {k \in Labelled(pass.uid) : KindOf(k) = kd}
                                  \ pass.applied]
      BY <1>2 DEF ListForPrune
    <2>2. /\ pass'.pc = "prune" /\ pass'.uid = pass.uid /\ pass.pc = "prune"
          /\ pass'.applied = pass.applied /\ pass'.kinds = pass.kinds \ {kd}
          /\ pass'.dels = {k \in Labelled(pass.uid) : KindOf(k) = kd} \ pass.applied
          /\ pass.dels = {} /\ children' = children
      BY <1>2, <2>1 DEF ListForPrune, PassType
    <2> QED BY <2>2 DEF StrayInv, WorkingStrays, Left, Labelled
  <1>3. CASE DeleteListed
    <2>1. PICK d \in pass.dels : Delete(d) /\ pass' = [pass EXCEPT !.dels = @ \ {d}]
      BY <1>3 DEF DeleteListed
    <2>2. /\ pass'.pc = pass.pc /\ pass'.uid = pass.uid /\ pass.pc = "prune"
          /\ pass'.kinds = pass.kinds /\ pass'.dels = pass.dels \ {d}
          /\ pass'.applied = pass.applied
      BY <1>3, <2>1 DEF PassType, DeleteListed, Working
    <2>3. \A k \in Key : children'[k] = IF k = d THEN 0 ELSE children[k]
      BY <2>1 DEF Delete
    <2> QED BY <2>2, <2>3 DEF StrayInv, WorkingStrays, Left
  <1>4. CASE PruneDone
    <2>1. /\ pass'.pc = "status" /\ pass'.uid = pass.uid /\ pass.pc = "prune"
          /\ pass'.applied = pass.applied /\ children' = children
          /\ pass.kinds = {} /\ pass.dels = {}
      BY <1>4 DEF PruneDone, Listed, PassType
    <2> QED BY <2>1 DEF StrayInv, WorkingStrays, Left
  <1>5. CASE Works BY <1>5, WorksOn DEF WorkingStrays
  <1>6. CASE ~RecordPut /\ ~ListForPrune /\ ~DeleteListed /\ ~PruneDone /\ ~Works
    <2>1. pass' = NoPass \/ ApplyChild
      BY <1>6
      DEF PassStep, Works, Working, Get, AddFinalizer, ListForDelete,
          DeleteLivenessRecord, RemoveFinalizer, UpdateStatus, Reject
    <2> QED BY <2>1, IdlePass DEF ApplyChild, PassType, WorkingStrays
  <1> QED BY <1>1, <1>2, <1>3, <1>4, <1>5, <1>6

\* The steps of a pass.
LEMMA StrayPass ==
  ASSUME CPInv, KindsInv, OrderInv, StrayInv, Reconciles PROVE StrayInv'
  <1> USE DEF serverVars, consumerVars, childVars
  <1> /\ TypeInv /\ PassNamed /\ PassStep /\ strays' = Remaining /\ SameLate
      /\ \A k \in strays : k \in strays' \/ children'[k] = 0
    BY LateStays DEF CPInv, Reconciles, SameLate, Remaining
  <1>1. PassChild BY PassEffect
  <1>2. pass.pc = "apply" => pass.uid = inst.uid /\ inst.fin
    BY DEF OrderInv, Working
  <1>3. ChildrenStay'
    <2>1. CASE RemoveFinalizer
      <3>1. children' = children /\ inst.uid = pass.uid /\ pass.pc = "remfin"
        BY <2>1 DEF RemoveFinalizer, Fresh
      <3> QED BY <3>1 DEF StrayInv, ChildrenStay, LeavingStrays, Left
    <2>2. CASE ~RemoveFinalizer
      <3>1. inst'.uid = inst.uid /\ (inst.fin => inst'.fin) BY <2>2, PassInst
      <3> QED BY <1>1, <1>2, <3>1 DEF StrayInv, ChildrenStay, PassChild
    <2> QED BY <2>1, <2>2
  <1>4. LateStrays'
    <2>1. inFlight /\ late.pc = "remfin" /\ pass.pc = "apply" => pass.uid # late.uid
      BY DEF OrderInv, Leaving
    <2>2. inFlight => late.uid # 0 BY DEF CPInv, LateInv, LateSite
    <2> QED BY <1>1, <2>1, <2>2, LateKept DEF PassChild
  <1>5. CASE Get
    <2>1. /\ pass'.pc \in {"gc", "node", "addfin"} /\ pass'.uid # 0
          /\ pass'.pc = "gc" => pass'.kinds = GCKinds(blueprint)
          /\ children' = children
      BY <1>5 DEF Get, NoPass
    <2>2. pass'.pc = "gc" => Left(children', strays', pass'.uid, pass'.kinds, pass'.dels)
      BY <2>1 DEF KindsInv, Left
    <2>3. LeavingStrays' /\ WorkingStrays'
      BY <2>1, <2>2 DEF LeavingStrays, WorkingStrays
    <2> QED BY <1>3, <1>4, <2>3 DEF StrayInv
  <1>6. CASE pass.pc \in Leaving
    <2>1. /\ pass.pc = "gc" => Left(children, strays, pass.uid, pass.kinds, pass.dels)
          /\ pass.pc = "remfin" => Left(children, strays, pass.uid, {}, {})
      BY DEF StrayInv, LeavingStrays
    <2>2. /\ pass'.pc = "gc" =>
               Left(children', strays', pass.uid, pass'.kinds, pass'.dels)
          /\ pass'.pc = "remfin" => Left(children', strays', pass.uid, {}, {})
          /\ pass' = NoPass \/ (pass'.uid = pass.uid /\ pass'.pc \in Leaving)
      BY <1>6, <2>1, LeavingStep
    <2>3. LeavingStrays' /\ WorkingStrays'
      BY <2>2, IdlePass DEF LeavingStrays, WorkingStrays, Leaving
    <2> QED BY <1>3, <1>4, <2>3 DEF StrayInv
  <1>7. CASE pass.pc \in Working /\ ~Get
    <2>1. WorkingStrays' BY <1>7, WorkingStep
    <2>2. LeavingStrays'
      BY <1>7, PassStays, IdlePass DEF LeavingStrays, SamePhase, Working, Leaving
    <2> QED BY <1>3, <1>4, <2>1, <2>2 DEF StrayInv
  <1>8. CASE ~Get /\ pass.pc \notin Working /\ pass.pc \notin Leaving
    <2>1. pass' = NoPass \/ pass'.pc = pass.pc BY <1>8, PassStays DEF SamePhase
    <2>2. LeavingStrays' /\ WorkingStrays'
      BY <1>8, <2>1, IdlePass DEF LeavingStrays, WorkingStrays, Working, Leaving
    <2> QED BY <1>3, <1>4, <2>2 DEF StrayInv
  <1> QED BY <1>5, <1>6, <1>7, <1>8

\* Every step keeps it.
LEMMA StrayStep ==
  CPInv /\ KindsInv /\ OrderInv /\ StrayInv /\ [CPNext]_cpVars => StrayInv'
  <1> SUFFICES ASSUME CPInv, KindsInv, OrderInv, StrayInv, [CPNext]_cpVars
               PROVE  StrayInv'
    OBVIOUS
  <1> USE DEF serverVars, consumerVars, childVars
  <1> /\ TypeInv /\ PassNamed /\ inst \in InstType
      /\ inFlight => late.uid # 0
    BY DEF CPInv, TypeInv, TypeOK, LateInv, LateSite
  <1>1. ASSUME SameLate, pass' = pass, \A k \in Key : children'[k] \in {0, children[k]},
               strays' = strays \/ strays' = Remaining,
               inst.fin => inst'.fin /\ inst'.uid = inst.uid
        PROVE  StrayInv'
    <2>1. KeepsChildren BY <1>1 DEF KeepsChildren, Remaining
    <2>2. LateStrays' BY <1>1, <2>1, LateKept DEF KeepsChildren
    <2> QED BY <1>1, <2>1, <2>2, PassStrays, ChildrenKept DEF StrayInv
  <1>2. CASE Quiet BY <1>1, <1>2 DEF Quiet
  <1>3. CASE Handover
    <2>1. /\ pass' = NoPass /\ UNCHANGED <<children, inst, strays>>
          /\ (Writing /\ late' = pass) \/ UNCHANGED <<late, inFlight>>
      BY <1>3 DEF Handover, LeaveRequest, lateVars
    <2>2. ChildrenStay' BY <2>1 DEF StrayInv, ChildrenStay
    <2>3. LateStrays' BY <2>1 DEF StrayInv, LateStrays, LeavingStrays
    <2>4. LeavingStrays' /\ WorkingStrays'
      BY <2>1, IdlePass DEF LeavingStrays, WorkingStrays
    <2> QED BY <2>2, <2>3, <2>4 DEF StrayInv
  <1>4. CASE Reconciles BY <1>4, StrayPass
  <1>5. CASE LateRequest
    <2>1. /\ ~inFlight' /\ inFlight /\ LateChild /\ LateInst
          /\ \A k \in strays : k \in strays' \/ children'[k] = 0
      BY <1>5, LateEffect DEF LateRequest, Remaining
    <2>2. KeepsChildren BY <2>1 DEF KeepsChildren, LateChild
    <2>3. LeavingStrays' /\ WorkingStrays' BY <1>5, <2>2, PassOutdated, PassStrays
    <2>4. ChildrenStay'
      <3>1. CASE late.pc = "remfin" /\ inst.uid = late.uid
        <4>1. \A k \in Key : children[k] # 0 => k \in strays
          BY <2>1, <3>1 DEF StrayInv, ChildrenStay, LateStrays, Left
        <4> QED BY <2>2, <4>1 DEF ChildrenStay, KeepsChildren
      <3>2. CASE ~(late.pc = "remfin" /\ inst.uid = late.uid)
        BY <2>1, <2>2, <3>2, ChildrenKept DEF LateInst
      <3> QED BY <3>1, <3>2
    <2>5. LateStrays' BY <2>1 DEF LateStrays
    <2> QED BY <2>3, <2>4, <2>5 DEF StrayInv
  <1>6. CASE Others
    <2>1. SameLate /\ strays' = Remaining BY <1>6, LateStays DEF Others, SameLate
    <2>2. CASE SweepStep BY <1>1, <2>1, <2>2, SweepEffect
    <2>3. CASE Create \/ DeleteInst
      <3>1. Touch /\ children' = children BY <2>3 DEF Create, DeleteInst
      <3>2. KeepsChildren BY <2>1, <3>1 DEF KeepsChildren, Remaining
      <3>3. LateStrays' BY <2>1, <3>2, LateKept DEF KeepsChildren
      <3>4. LeavingStrays' /\ WorkingStrays' BY <3>1, <3>2, PassTouched, PassStrays
      <3>5. ChildrenStay'
        <4>1. CASE inst.fin /\ inst.uid # 0
          <5>1. inst' = [inst EXCEPT !.deleting = TRUE]
            BY <2>3, <4>1 DEF Create, DeleteInst
          <5>2. inst'.fin /\ inst'.uid = inst.uid BY <4>1, <5>1 DEF InstType
          <5> QED BY <3>2, <5>2, ChildrenKept
        <4>2. CASE ~inst.fin \/ inst.uid = 0
          BY <3>2, <4>2 DEF StrayInv, ChildrenStay, KeepsChildren
        <4> QED BY <4>1, <4>2
      <3> QED BY <3>3, <3>4, <3>5 DEF StrayInv
    <2> QED BY <1>6, <2>2, <2>3 DEF Others
  <1>7. CASE TimePasses BY <1>1, <1>7 DEF TimePasses, SameLate, lateVars
  <1> QED BY <1>2, <1>3, <1>4, <1>5, <1>6, <1>7, StepsOfCP

\* All that a handover leaves behind is what one late request wrote, in any
\* interleaving of managers, passes, sweeps and restarts, as long as the served
\* revisions agree on the kinds of their children: deleteChildren lists every
\* kind a child can have before the finalizer goes, though the graph has changed
\* since the child was applied, and the pruneChildren of the successor's first
\* complete pass removes what only its predecessor's graph had.
THEOREM HandoverIsClean ==
  ASSUME SameKinds PROVE CPSpec => []OnlyLateStrays
  <1>1. CPInit => KindsInv /\ OrderInv /\ EngineInv /\ StrayInv
    <2> SUFFICES ASSUME CPInit PROVE KindsInv /\ OrderInv /\ EngineInv /\ StrayInv
      OBVIOUS
    <2>1. /\ children = [k \in Key |-> 0] /\ record = [u \in Uids |-> NoRecord]
          /\ sweep = NoSweep /\ pass = NoPass /\ ~inFlight
          /\ inst = NoInst /\ nextUid = 1
      BY DEF CPInit, Init
    <2>2. KindsInv BY <2>1 DEF KindsInv, NoSweep
    <2>3. OrderInv
      <3>1. pass.pc = "idle" /\ pass.uid = 0 /\ inst.uid = 0 BY <2>1, IdlePass DEF NoInst
      <3> QED BY <2>1, <3>1, SMT DEF OrderInv, Working, Leaving
    <2>4. EngineInv BY <2>1, EngineIdle
    <2>5. StrayInv
      BY <2>1, IdlePass
      DEF StrayInv, ChildrenStay, LateStrays, LeavingStrays, WorkingStrays
    <2> QED BY <2>2, <2>3, <2>4, <2>5
  <1>2. CPInv /\ KindsInv /\ [CPNext]_cpVars => KindsInv' BY KindsStep
  <1>3. CPInv /\ OrderInv /\ [CPNext]_cpVars => OrderInv' BY OrderStep
  <1>4. CPInv /\ EngineInv /\ [CPNext]_cpVars => EngineInv' BY EngineStep
  <1>5. CPInv /\ KindsInv /\ OrderInv /\ StrayInv /\ [CPNext]_cpVars => StrayInv'
    BY StrayStep
  <1>6. EngineInv /\ StrayInv => OnlyLateStrays
    <2> SUFFICES ASSUME EngineInv, StrayInv PROVE OnlyLateStrays OBVIOUS
    <2>1. \A u \in Uids : u # inst.uid => Labelled(u) \subseteq strays
      BY SMT DEF StrayInv, ChildrenStay, Labelled, Uids
    <2>2. pass.pc = "status" /\ pass.complete =>
            Labelled(pass.uid) \subseteq DesiredKeys(blueprint, pass.spec) \cup strays
      BY DEF StrayInv, WorkingStrays, EngineInv, AppliedSet, Left, Labelled
    <2> QED BY <2>1, <2>2 DEF OnlyLateStrays
  <1> QED BY <1>1, <1>2, <1>3, <1>4, <1>5, <1>6, CPInvariant, PTL DEF CPSpec
=============================================================================
