----------------------------- MODULE Requests -----------------------------
(***************************************************************************)
(* What a reconcile pass writes: each write is one request to an API       *)
(* server, against the objects in the workspaces.                          *)
(*                                                                         *)
(* The pass is a parameter of these requests, so that one that is cancelled*)
(* with its request on the way can be told from its successor.             *)
(***************************************************************************)
EXTENDS Blueprint

VARIABLES
  blueprint,   \* the revision the running manager serves
  inst,        \* the instance object in the consumer workspace
  nextUid,     \* the uid of the next instance
  forced,      \* uids of instances removed with their finalizer still set
  bound,       \* the consumer's APIBinding exists
  children,    \* the instance-uid label of each child object, 0: no object
  status,      \* the child objects whose status is populated
  ext,         \* the object that each external-ref node reads
  record,      \* the liveness record of each uid
  uptime,      \* ticks since the process started, up to StaleAfter
  waited,      \* ticks for which the served instance has waited for a pass
  pass,        \* the reconcile pass in flight
  sweep        \* the sweep pass in flight

childVars == <<children, status>>
consumerVars == <<inst, nextUid, forced, bound>>
serverVars == <<blueprint, uptime, waited>>

AnySpec == CHOOSE s \in Specs : TRUE

NoInst == [uid |-> 0, spec |-> AnySpec, fin |-> FALSE, deleting |-> FALSE,
           readyFor |-> {}]

NoRecord == [age |-> -1, kinds |-> {}]

NoPass == [pc |-> "idle", uid |-> 0, spec |-> AnySpec, stale |-> FALSE,
           idx |-> 1, jdx |-> 1, lag |-> FALSE, seen |-> {}, applied |-> {},
           ready |-> TRUE, complete |-> FALSE, had |-> FALSE,
           kinds |-> {}, dels |-> {}]

-----------------------------------------------------------------------------
(* Helpers *)

\* The consumer workspace is reached through the virtual workspace of the
\* APIExport, which drops it on unbind; provider and host are always there.
Reachable(t) == Configured(t) /\ (t = "consumer" => bound)

Delete(k) ==
  /\ children' = [children EXCEPT ![k] = 0]
  /\ status' = status \ {k}

Fresh == bound /\ ~pass.stale /\ inst.uid = pass.uid

CurrentNode == blueprint.nodes[pass.idx]

NodeTarget == TargetForNode(CurrentNode.id, blueprint.routing)

CurrentKey == DesiredKey(blueprint, CurrentNode, pass.spec, pass.jdx)

-----------------------------------------------------------------------------
(* The requests *)

\* The finalizer is written before any child; the pass ends and the write
\* triggers the next one.
AddFinalizer ==
  /\ pass.pc = "addfin"
  /\ Fresh
  /\ inst' = [inst EXCEPT !.fin = TRUE]
  /\ pass' = NoPass
  /\ UNCHANGED <<serverVars, nextUid, forced, bound, childVars, ext, record,
                 sweep>>

\* Both delete what they listed one by one, by name, ignoring NotFound.
DeleteListed ==
  /\ pass.pc \in {"gc", "prune"}
  /\ \E k \in pass.dels :
       /\ Reachable(k.target)
       /\ Delete(k)
       /\ pass' = [pass EXCEPT !.dels = @ \ {k}]
  /\ UNCHANGED <<serverVars, consumerVars, ext, record, sweep>>

Listed == pass.kinds = {} /\ pass.dels = {}

\* Mutant of DeleteLivenessRecord: the record is left to the sweeper.
KeepLivenessRecord ==
  /\ pass.pc = "gc"
  /\ Listed
  /\ pass' = [pass EXCEPT !.pc = "remfin"]
  /\ UNCHANGED <<serverVars, consumerVars, childVars, ext, record, sweep>>

\* Mutant of DeleteLivenessRecord: NotFound is an error, retried for ever.
DeleteExistingRecord ==
  /\ pass.pc = "gc"
  /\ Listed
  /\ record[pass.uid] # NoRecord
  /\ record' = [record EXCEPT ![pass.uid] = NoRecord]
  /\ pass' = [pass EXCEPT !.pc = "remfin"]
  /\ UNCHANGED <<serverVars, consumerVars, childVars, ext, sweep>>

DeleteLivenessRecord ==
  /\ pass.pc = "gc"
  /\ Listed
  /\ record' = [record EXCEPT ![pass.uid] = NoRecord]
  /\ pass' = [pass EXCEPT !.pc = "remfin"]
  /\ UNCHANGED <<serverVars, consumerVars, childVars, ext, sweep>>

\* Ours is the last finalizer: the API server removes the object.
RemoveFinalizer ==
  /\ pass.pc = "remfin"
  /\ Fresh
  /\ inst' = NoInst
  /\ pass' = NoPass
  /\ UNCHANGED <<serverVars, nextUid, forced, bound, childVars, ext, record,
                 sweep>>

\* Server-side apply, labelled with the uid of the instance: it creates the
\* object or takes it over, and leaves its status alone.
ApplyChild ==
  /\ pass.pc = "apply"
  /\ Reachable(NodeTarget)
  /\ children' = [children EXCEPT ![CurrentKey] = pass.uid]
  /\ pass' = [pass EXCEPT !.pc = "readback"]
  /\ UNCHANGED <<serverVars, consumerVars, status, ext, record, sweep>>

\* Mutant of RecordPut: prune is not gated on a complete pass.
RecordPutThenPrune ==
  /\ pass.pc = "recput"
  /\ pass.had <=> record[pass.uid] # NoRecord
  /\ record' = [record EXCEPT ![pass.uid] =
                  [age |-> 0, kinds |-> RecordKinds(blueprint)]]
  /\ pass' = [pass EXCEPT !.pc = "prune", !.kinds = GCKinds(blueprint)]
  /\ UNCHANGED <<serverVars, consumerVars, childVars, ext, sweep>>

\* An update of a record the sweeper deleted meanwhile fails.  Only a complete
\* pass goes on to prune.
RecordPut ==
  /\ pass.pc = "recput"
  /\ pass.had <=> record[pass.uid] # NoRecord
  /\ record' = [record EXCEPT ![pass.uid] =
                  [age |-> 0, kinds |-> RecordKinds(blueprint)]]
  /\ pass' = IF pass.complete
             THEN [pass EXCEPT !.pc = "prune", !.kinds = GCKinds(blueprint)]
             ELSE [pass EXCEPT !.pc = "status"]
  /\ UNCHANGED <<serverVars, consumerVars, childVars, ext, sweep>>

\* The status update carries the resource version the pass read; its error is
\* ignored.  Either way the pass ends and asks for a requeue.
UpdateStatus ==
  /\ pass.pc = "status"
  /\ inst' = IF Fresh
             THEN [inst EXCEPT !.readyFor = IF pass.ready THEN {pass.spec} ELSE {}]
             ELSE inst
  /\ pass' = NoPass
  /\ UNCHANGED <<serverVars, nextUid, forced, bound, childVars, ext, record,
                 sweep>>
=============================================================================
