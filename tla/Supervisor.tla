----------------------------- MODULE Supervisor -----------------------------
(***************************************************************************)
(* The supervisor of the per-export instance managers, the registry of     *)
(* served blueprints their start function reads, and the life of a manager *)
(* goroutine.                                                              *)
(*                                                                         *)
(* A generation stands for the *entry that Ensure allocates and for the    *)
(* goroutine it starts.  An entry can be allocated again once nothing      *)
(* refers to it, so the number of restarts is unbounded; Gens bounds the   *)
(* managers that exist at the same time, the exiting ones included.        *)
(*                                                                         *)
(* Stop deletes the entry under the mutex and cancels it after the unlock: *)
(* two steps, with the entry in the hands of that Stop in between.         *)
(***************************************************************************)
EXTENDS Integers, FiniteSets

CONSTANTS
  Exports,  \* names of published APIExports
  Gens,     \* manager generations
  Graphs,   \* compiled graphs, one per spec hash
  None      \* the absent value

ASSUME NoneAssumption == None \notin Gens /\ None \notin Graphs /\ None \notin Exports

VARIABLES
  running,   \* s.running: the entry of each export, or None
  gens,      \* the goroutines
  stopping,  \* entries a Stop has deleted and not cancelled yet
  registry   \* published.m: the served blueprint of each export, or None

supVars == <<running, gens, stopping, registry>>

Gen == [pc: {"free", "start", "wait", "serving", "returned"},
        export: Exports \cup {None}, cancelled: BOOLEAN, graph: Graphs \cup {None}]

FreeGen == [pc |-> "free", export |-> None, cancelled |-> FALSE, graph |-> None]

SupInit ==
  /\ running = [e \in Exports |-> None]
  /\ gens = [g \in Gens |-> FreeGen]
  /\ stopping = {}
  /\ registry = [e \in Exports |-> None]

\* published.Set and published.Delete.
Set(e, graph) ==
  /\ registry' = [registry EXCEPT ![e] = graph]
  /\ UNCHANGED <<running, gens, stopping>>

Delete(e) == Set(e, None)

\* Ensure starts a goroutine under a fresh entry; it is a no-op while one runs.
Ensure(e) ==
  \/ running[e] # None /\ UNCHANGED supVars
  \/ /\ running[e] = None
     /\ \E g \in Gens \ stopping :
          /\ gens[g].pc = "free"
          /\ running' = [running EXCEPT ![e] = g]
          /\ gens' = [gens EXCEPT ![g] = [FreeGen EXCEPT !.pc = "start", !.export = e]]
     /\ UNCHANGED <<stopping, registry>>

\* Mutant of StopDelete: an absent entry is handed on as if there were one.
StopUnchecked(e) ==
  /\ stopping' = stopping \cup {running[e]}
  /\ running' = [running EXCEPT ![e] = None]
  /\ UNCHANGED <<gens, registry>>

\* Stop, under the mutex ...
StopDelete(e) ==
  /\ stopping' = stopping \cup ({running[e]} \ {None})
  /\ running' = [running EXCEPT ![e] = None]
  /\ UNCHANGED <<gens, registry>>

\* ... and after it: e.cancel().
StopCancel(g) ==
  /\ g \in stopping
  /\ stopping' = stopping \ {g}
  /\ gens' = [gens EXCEPT ![g].cancelled = TRUE]
  /\ UNCHANGED <<running, registry>>

\* startFn reads the registry first; a miss is a hard error.
StartFn(g) ==
  /\ gens[g].pc = "start"
  /\ LET sb == registry[gens[g].export] IN
     gens' = [gens EXCEPT ![g].pc = IF sb = None THEN "returned" ELSE "wait",
                          ![g].graph = sb]
  /\ UNCHANGED <<running, stopping, registry>>

\* The endpoint slice has appeared and the manager is built: imgr.Start.
Serve(g) ==
  /\ gens[g].pc = "wait" /\ ~gens[g].cancelled
  /\ gens' = [gens EXCEPT ![g].pc = "serving"]
  /\ UNCHANGED <<running, stopping, registry>>

\* startFn returns because its context is cancelled ...
ExitCancelled(g) ==
  /\ gens[g].pc \in {"wait", "serving"} /\ gens[g].cancelled
  /\ gens' = [gens EXCEPT ![g].pc = "returned"]
  /\ UNCHANGED <<running, stopping, registry>>

\* ... or fails: the poll times out, a constructor or the manager fails.
Crash(g) ==
  /\ gens[g].pc \in {"wait", "serving"} /\ ~gens[g].cancelled
  /\ gens' = [gens EXCEPT ![g].pc = "returned"]
  /\ UNCHANGED <<running, stopping, registry>>

\* Mutant of Forget: the entry is matched by name, not by identity.
ForgetByName(g) ==
  /\ gens[g].pc = "returned"
  /\ running' = [running EXCEPT ![gens[g].export] = None]
  /\ gens' = [gens EXCEPT ![g] = FreeGen]
  /\ UNCHANGED <<stopping, registry>>

\* Mutant of Forget: an exited manager keeps its entry.
ForgetNothing(g) ==
  /\ gens[g].pc = "returned"
  /\ gens' = [gens EXCEPT ![g] = FreeGen]
  /\ UNCHANGED <<running, stopping, registry>>

\* The deferred forget: the entry goes only if it is still this generation's.
Forget(g) ==
  /\ gens[g].pc = "returned"
  /\ running' = [e \in Exports |->
                   IF e = gens[g].export /\ running[e] = g THEN None ELSE running[e]]
  /\ gens' = [gens EXCEPT ![g] = FreeGen]
  /\ UNCHANGED <<stopping, registry>>

Manager(g) ==
  StartFn(g) \/ Serve(g) \/ ExitCancelled(g) \/ Crash(g) \/ Forget(g)

-----------------------------------------------------------------------------
(* The supervisor on its own: callers in any number and any order.         *)

SupNext ==
  \/ \E e \in Exports : Ensure(e) \/ StopDelete(e) \/ Delete(e)
  \/ \E e \in Exports, graph \in Graphs : Set(e, graph)
  \/ \E g \in Gens : StopCancel(g) \/ Manager(g)

SupSpec == SupInit /\ [][SupNext]_supVars

-----------------------------------------------------------------------------

\* The state of the supervisor, the registry and the goroutines is well formed.
SupTypeOK ==
  /\ running \in [Exports -> Gens \cup {None}]
  /\ gens \in [Gens -> Gen]
  /\ stopping \in SUBSET Gens
  /\ registry \in [Exports -> Graphs \cup {None}]

\* The goroutine of g has neither returned nor been told to.
Live(g) == gens[g].pc \in {"start", "wait", "serving"} /\ ~gens[g].cancelled

\* Every live manager can still be stopped: it is the entry of its export, or a
\* Stop is about to cancel it.  So a slow exit never makes the supervisor lose
\* track of a newer generation, and an export never has two entries to serve it.
NoLostManager ==
  \A g \in Gens : Live(g) => running[gens[g].export] = g \/ g \in stopping

\* An entry of the supervisor always names a generation of that export which
\* nobody has cancelled, and which will clear the entry itself when it ends: a
\* later Ensure is never a no-op on behalf of a manager that is already gone.
EntryIsCurrent ==
  \A e \in Exports : running[e] # None =>
    /\ gens[running[e]].pc # "free" /\ gens[running[e]].export = e
    /\ ~gens[running[e]].cancelled /\ running[e] \notin stopping
=============================================================================
