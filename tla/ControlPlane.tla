---------------------------- MODULE ControlPlane ----------------------------
(***************************************************************************)
(* The parts of one process together, for one blueprint and one instance:  *)
(* the registrar's OnPublished drives the supervisor (Supervisor), whose   *)
(* managers run the reconcile passes (InstanceGC) while the sweeper runs   *)
(* beside them all, against one clock.                                     *)
(*                                                                         *)
(* A pass belongs to the manager that is serving.  Stop cancels a manager  *)
(* and does not wait for it: the pass ends with its context, but a request *)
(* that is on its way may still reach the API server, at any later time,   *)
(* even after the successor has begun to serve.                            *)
(*                                                                         *)
(* Left to InstanceGC and Supervisor alone: unbinding and force-deletion,  *)
(* failing calls, and a goroutine that is slow to leave.                   *)
(***************************************************************************)
EXTENDS InstanceGC

CONSTANTS
  Export,     \* the export of the blueprint
  Gens,       \* manager generations, see Supervisor
  None,       \* the absent value
  Resync      \* ticks within which the registrar comes back to the blueprint

ASSUME ResyncAssumption == Resync \in Nat \ {0}
ASSUME AbsentAssumption == None \notin Gens /\ None \notin Blueprints

VARIABLES
  running, gens, stopping, registry,  \* see Supervisor
  caller,     \* where OnPublished is
  down,       \* ticks for which the export has had no manager
  late,       \* the cancelled pass whose last request may still arrive
  lateGraph,  \* the graph that pass works from
  inFlight,   \* that request is neither arrived nor lost
  lost,       \* ticks that absent managers have cost since the last refresh
  cut,        \* uids whose record may lack what their last pass applied
  strays      \* the children that a late request has written

S == INSTANCE Supervisor WITH Exports <- {Export}, Graphs <- Blueprints
L == INSTANCE Requests WITH pass <- late, blueprint <- lateGraph

supVars == <<running, gens, stopping, registry>>
lateVars == <<late, lateGraph, inFlight>>
histVars == <<lost, cut, strays>>
cpVars == <<vars, supVars, caller, down, lateVars, histVars>>

CPInit ==
  /\ Init
  /\ S!SupInit
  /\ caller = "idle" /\ down = 0
  /\ late = NoPass /\ lateGraph = None /\ inFlight = FALSE
  /\ lost = 0 /\ cut = {} /\ strays = {}

Serving(g) == gens[g].pc = "serving" /\ S!Live(g)

IsUp == \E g \in Gens : Serving(g)

IsStarting == \E g \in Gens : gens[g].pc \in {"start", "wait"} /\ S!Live(g)

Cost(n) == IF lost + n > StaleAfter THEN StaleAfter ELSE lost + n

\* A write to the instance outdates what the cancelled pass has read.
OutdateLate ==
  /\ late' = [late EXCEPT !.stale = (inFlight /\ (late.stale \/ inst' # inst))]
  /\ UNCHANGED <<lateGraph, inFlight>>

Remaining == {k \in strays : children'[k] # 0}

\* The call at hand writes.
Writing ==
  \/ pass.pc \in {"addfin", "remfin", "apply", "recput", "status"}
  \/ pass.pc \in {"gc", "prune"} /\ pass.dels # {}
  \/ pass.pc = "gc" /\ Listed

\* The pass ends with its context, a write perhaps on its way.
LeaveRequest ==
  /\ pass' = NoPass
  /\ IF Writing
     THEN late' = pass /\ lateGraph' = blueprint /\ inFlight' = TRUE
     ELSE UNCHANGED lateVars
  /\ cut' = cut \cup ({pass.uid} \ {0})
  /\ UNCHANGED strays

-----------------------------------------------------------------------------
(* The registrar and the managers.                                         *)

\* OnPublished with a changed graph, and with the one it has recorded, when it
\* only makes a difference if no manager runs.
Publish(b) ==
  /\ caller = "idle"
  /\ b # registry[Export]
  /\ S!Set(Export, b)
  /\ caller' = "stop"
  /\ UNCHANGED <<vars, down, lateVars, histVars>>

Republish ==
  /\ caller = "idle" /\ registry[Export] # None /\ running[Export] = None
  /\ caller' = "ensure"
  /\ UNCHANGED <<vars, supVars, down, lateVars, histVars>>

StopManager ==
  /\ caller = "stop"
  /\ S!StopDelete(Export)
  /\ caller' = IF running[Export] = None THEN "ensure" ELSE "cancel"
  /\ UNCHANGED <<vars, down, lateVars, histVars>>

\* Mutant of Detach: the entry goes and its context lives on.
DetachNothing(g) == UNCHANGED <<lateVars, pass, histVars>>

\* A manager that was serving leaves its pass behind.
Detach(g) ==
  IF gens[g].pc = "serving"
  THEN LeaveRequest /\ lost' = Cost(Heartbeat)
  ELSE UNCHANGED <<lateVars, pass, histVars>>

CancelManager ==
  /\ caller = "cancel"
  /\ \E g \in Gens : S!StopCancel(g) /\ Detach(g)
  /\ caller' = "ensure"
  /\ UNCHANGED <<serverVars, consumerVars, childVars, ext, record, sweep, down>>

EnsureManager ==
  /\ caller = "ensure"
  /\ S!Ensure(Export)
  /\ caller' = "idle"
  /\ waited' = IF running[Export] = None THEN 0 ELSE waited
  /\ down' = 0
  /\ UNCHANGED <<blueprint, uptime, consumerVars, childVars, ext, record, pass, sweep,
                 lateVars, histVars>>

Start(g) ==
  /\ S!StartFn(g)
  /\ UNCHANGED <<vars, caller, down, lateVars, histVars>>

Leave(g) ==
  /\ (gens[g].cancelled /\ S!StartFn(g)) \/ S!ExitCancelled(g) \/ S!Forget(g)
  /\ UNCHANGED <<vars, caller, down, lateVars, histVars>>

\* The reconciler is built from the graph that startFn has read.
ServeInstances(g) ==
  /\ S!Serve(g)
  /\ blueprint' = gens[g].graph
  /\ waited' = 0
  /\ UNCHANGED <<uptime, consumerVars, childVars, ext, record, pass, sweep, caller,
                 down, lateVars, histVars>>

\* The manager falls over: nobody but the next resync starts it again.
CrashManager(g) ==
  /\ "crash" \in Env
  /\ S!Crash(g)
  /\ Detach(g)
  /\ UNCHANGED <<serverVars, consumerVars, childVars, ext, record, sweep, caller, down>>

-----------------------------------------------------------------------------
(* Passes, sweeps and the environment.                                     *)

\* A step of the serving manager's pass.
Reconciles ==
  /\ IsUp
  /\ PassStep
  /\ OutdateLate
  /\ strays' = Remaining
  /\ IF pass.pc = "recput" /\ pass'.pc # "idle"
     THEN /\ lost' = 0
          /\ cut' = IF InSweep(pass.uid) THEN cut \cup {pass.uid} ELSE cut \ {pass.uid}
     ELSE /\ UNCHANGED lost
          /\ cut' = IF Reject THEN cut \cup {pass.uid} ELSE cut
  /\ UNCHANGED <<supVars, caller, down>>

\* The last request of a cancelled pass arrives after all, or is lost.
LateRequest ==
  /\ inFlight /\ inFlight' = FALSE
  /\ \/ L!AddFinalizer \/ L!DeleteListed \/ L!DeleteLivenessRecord
     \/ L!RemoveFinalizer \/ L!ApplyChild \/ L!RecordPut \/ L!UpdateStatus
  /\ pass' = [pass EXCEPT !.stale =
                (pass.pc # "idle" /\ (pass.stale \/ inst' # inst))]
  /\ cut' = cut \cup {late.uid}
  /\ strays' = Remaining \cup {k \in Key : children'[k] # children[k] /\ children'[k] # 0}
  /\ UNCHANGED <<blueprint, supVars, caller, down, lost>>

LateIsLost ==
  /\ late # NoPass
  /\ late' = NoPass /\ lateGraph' = None /\ inFlight' = FALSE
  /\ UNCHANGED <<vars, supVars, caller, down, histVars>>

\* The sweeper and the consumer.
Others ==
  /\ SweepStep \/ Create \/ DeleteInst
  /\ OutdateLate
  /\ strays' = Remaining
  /\ UNCHANGED <<supVars, caller, down, lost, cut>>

\* Time passes: a start takes no longer than a heartbeat (the slice is found or
\* the poll gives up), the registrar comes back within Resync ticks, and a late
\* request arrives within the tick or not at all.
TimePasses ==
  /\ pass.pc = "idle" /\ ~inFlight
  /\ running[Export] = None => down < Resync
  /\ (IsUp /\ IsServed) \/ IsStarting => waited < Heartbeat
  /\ record' = [u \in Uids |-> Aged(record[u], 1)]
  /\ uptime' = IF uptime < StaleAfter THEN uptime + 1 ELSE uptime
  /\ waited' = IF (IsUp /\ IsServed) \/ IsStarting THEN waited + 1 ELSE 0
  /\ down' = IF running[Export] = None THEN down + 1 ELSE 0
  /\ lost' = IF IsUp THEN lost ELSE Cost(1)
  /\ UNCHANGED <<blueprint, consumerVars, childVars, ext, pass, sweep, supVars, caller,
                 lateVars, cut, strays>>

\* The process dies and comes back n ticks later.  What it misses until then does
\* not count, because of the grace period, which ends with its last tick.
RestartProcess ==
  /\ Restart
  /\ running' = [e \in {Export} |-> None]
  /\ gens' = [g \in Gens |-> S!FreeGen]
  /\ stopping' = {}
  /\ registry' = [e \in {Export} |-> None]
  /\ caller' = "idle" /\ down' = 0
  /\ LeaveRequest /\ lost' = 1

\* A cancelled pass of which nothing is under way, OnPublished at work, a manager
\* on its way out.
Passing ==
  \/ late # NoPass /\ ~inFlight
  \/ caller # "idle"
  \/ \E g \in Gens : gens[g].cancelled \/ gens[g].pc = "returned"

\* These take no time, and nothing else happens meanwhile.
Brief ==
  \/ ~inFlight /\ LateIsLost
  \/ StopManager \/ CancelManager \/ EnsureManager
  \/ \E g \in Gens : Leave(g)

CPNext ==
  \/ Brief
  \/ /\ ~Passing
     /\ \/ \E b \in Blueprints : Publish(b)
        \/ Republish
        \/ \E g \in Gens : Start(g) \/ ServeInstances(g) \/ CrashManager(g)
        \/ Reconciles \/ LateRequest \/ LateIsLost \/ Others \/ TimePasses
        \/ RestartProcess

CPSpec == CPInit /\ [][CPNext]_cpVars

-----------------------------------------------------------------------------
(* Properties.                                                             *)

\* A pass is always that of the one manager that serves, and works from its
\* graph: the old manager is cancelled before the new one serves (OnPublished).
PassHasItsManager ==
  /\ \A g, h \in Gens : Serving(g) /\ Serving(h) => g = h
  /\ pass.pc # "idle" => \E g \in Gens : Serving(g) /\ gens[g].graph = blueprint

\* The sweeper takes a live instance for an orphan only if, since its record was
\* last written or the process began, its export was without a serving manager
\* for so long that with one heartbeat it makes more than StaleAfter, where each
\* restart of a manager counts as a heartbeat, and of the process as a tick
\* (orphanStaleAfter against requeueInterval, endpointSliceTimeout and
\* resyncInterval; the strict and the non-strict comparison of Sweep).
SweepNeedsOutage ==
  [][\A r \in sweep'.todo \ sweep.todo :
       r.uid = inst.uid /\ bound /\ ~inst.deleting =>
         lost + Heartbeat > StaleAfter]_cpVars

\* What an instance has off its consumer's workspace is named by its record, so
\* that the sweeper can find it, but for a pass that is at work, a pass that was
\* cut short before it wrote the record, and a record that a pass refreshed while
\* a sweep already had it on its list (Reconcile, writeLivenessRecord, Sweep).
OffsiteIsRecorded ==
  \A u \in Uids \ (cut \cup {pass.uid}) : \A k \in Offsite(u) :
    KindOf(k) \in record[u].kinds

\* All that a handover leaves behind is what one late request wrote: an instance
\* that went through its finalizer has no other child, and a complete pass of the
\* successor removes what its predecessor's graph had (OnPublished, Stop).
OnlyLateStrays ==
  /\ \A u \in Uids \ forced : u # inst.uid => Labelled(u) \subseteq strays
  /\ pass.pc = "status" /\ pass.complete =>
       Labelled(pass.uid) \subseteq DesiredKeys(blueprint, pass.spec) \cup strays
=============================================================================
