----------------------------- MODULE Lifecycle ------------------------------
(***************************************************************************)
(* What the instance reconciler promises its users, without saying how: an *)
(* instance has a footprint (children in some workspace, or a liveness     *)
(* record) only while its finalizer guards it or after it was removed by   *)
(* force, and the finalizer lets it go only without one.                   *)
(*                                                                         *)
(* InstanceGC implements this, with children, records, passes and sweeps   *)
(* in the place of the footprint.                                          *)
(***************************************************************************)
CONSTANT Uids  \* the instances ever created under one name

VARIABLES
  life,      \* the stage each instance is in
  footprint  \* whether anything of it exists outside the instance object

vars == <<life, footprint>>

Stages == {"none", "fresh", "guarded", "leaving", "gone", "forced"}

Existing == {"fresh", "guarded", "leaving"}

TypeOK == life \in [Uids -> Stages] /\ footprint \in [Uids -> BOOLEAN]

Init ==
  /\ life = [u \in Uids |-> "none"]
  /\ footprint = [u \in Uids |-> FALSE]

Become(u, stage) ==
  /\ life' = [life EXCEPT ![u] = stage]
  /\ UNCHANGED footprint

\* The consumer creates an instance under a name that is free.
Create(u) ==
  /\ life[u] = "none" /\ \A v \in Uids : life[v] \notin Existing
  /\ Become(u, "fresh")

\* The finalizer is there from now on.
Guard(u) == life[u] = "fresh" /\ Become(u, "guarded")

\* The consumer deletes it: at once before the finalizer is there ...
Discard(u) == life[u] = "fresh" /\ Become(u, "gone")

\* ... and by marking it after that.
Mark(u) == life[u] = "guarded" /\ Become(u, "leaving")

\* The finalizer goes, and the instance with it: only with nothing left.
Release(u) == life[u] = "leaving" /\ ~footprint[u] /\ Become(u, "gone")

\* Somebody else takes the finalizer off.
Force(u) == life[u] \in {"guarded", "leaving"} /\ Become(u, "forced")

\* Children and records come and go.
Work ==
  /\ footprint' \in [Uids -> BOOLEAN]
  /\ \A u \in Uids : footprint'[u] # footprint[u] =>
       life[u] \in {"guarded", "leaving", "forced"}
  /\ UNCHANGED life

Next ==
  \/ \E u \in Uids : \/ Create(u) \/ Guard(u) \/ Discard(u) \/ Mark(u)
                     \/ Release(u) \/ Force(u)
  \/ Work

Spec == Init /\ [][Next]_vars
=============================================================================
