----------------------------- MODULE MCRegistrar -----------------------------
(***************************************************************************)
(* Blueprints b1 and b2 publish exports e1 and e2 of instance type "own".  *)
(*                                                                         *)
(* Graph 1 writes core config maps and reads a foreign kind.  Graph 3, its *)
(* edit, also writes that kind and reads its own type.  Graph 2 does not   *)
(* build.  Graph 4 has provider children only.  Graph 5 has a target that  *)
(* does not parse.                                                         *)
(***************************************************************************)
EXTENDS Registrar, TLC

MkNode(id, gvk, type) ==
  [id |-> id, gvk |-> gvk, type |-> type, deps |-> {}, when |-> Specs,
   items |-> [s \in Specs |-> <<"x">>]]

Request == MkNode("request", "foreign", "resource")

Config == MkNode("config", "core", "resource")

Lookup == MkNode("lookup", "foreign", "external")

MkGraph(h) ==
  [nodes |-> CASE h \in {1, 2, 5} -> <<Request, Config, Lookup>>
               [] h = 3 -> <<Request, Lookup, MkNode("write", "foreign", "resource"),
                             MkNode("peers", "own", "externalCollection")>>
               [] h = 4 -> <<Request>>,
   routing |-> [i \in {"request"} |-> "provider"]]

Graph == [h \in Graphs |-> MkGraph(h)]

OwnType == [b \in Blueprints |-> "own"]

CallPoints == {"addfin", "build", "ars", "claims", "export", "status", "delars",
               "delexport", "remfin"}

ExportNamed == [b \in Blueprints |-> IF b = "b1" THEN "e1" ELSE "e2"]

Alike == Permutations(Gens)
=============================================================================
