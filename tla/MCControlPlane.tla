--------------------------- MODULE MCControlPlane ---------------------------
(***************************************************************************)
(* One provider child, renamed by an edit of the blueprint.                *)
(***************************************************************************)
EXTENDS ControlPlane, TLC

MkBlueprint(name) ==
  [nodes |-> <<[id |-> "request", gvk |-> "g", type |-> "resource", deps |-> {},
                when |-> Specs, items |-> [s \in Specs |-> <<name>>]]>>,
   routing |-> [i \in {"request"} |-> "provider"]]

Revisions == {MkBlueprint(n) : n \in Names}

Alike == Permutations(Gens) \cup Permutations(Names)
=============================================================================
