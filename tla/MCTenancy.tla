------------------------------ MODULE MCTenancy -----------------------------
(***************************************************************************)
(* Two instances of one blueprint and one name, in two namespaces of one   *)
(* consumer's workspace.                                                   *)
(***************************************************************************)
EXTENDS Tenancy

MkInstance(uid, namespace) ==
  [uid |-> uid, cluster |-> "c1", blueprint |-> "b1", namespace |-> namespace,
   name |-> "demo"]

Homonyms == {MkInstance("u1", "default"), MkInstance("u2", "team")}
=============================================================================
