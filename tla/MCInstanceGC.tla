---------------------------- MODULE MCInstanceGC ----------------------------
(***************************************************************************)
(* Small blueprints for TLC.                                               *)
(*                                                                         *)
(* Full: a provider child whose status a consumer collection waits for,    *)
(* next to an external ref; the collection shrinks from two items under    *)
(* "s1" to one under "s2", and a host child is included under "s1" only.   *)
(* Nested: the same without the host child, the external ref read under    *)
(* "s1" only and the collection waiting for the provider child alone.      *)
(* Plain: a provider child and a consumer child that waits for its status. *)
(* Revised: Plain after an edit that keeps its kinds and renames a child.  *)
(* Moved: Plain after an edit that drops the provider child's kind.        *)
(***************************************************************************)
EXTENDS InstanceGC

MkNode(id, gvk, type, deps, when, i1, i2) ==
  [id |-> id, gvk |-> gvk, type |-> type, deps |-> deps, when |-> when,
   items |-> [s \in Specs |-> IF s = "s1" THEN i1 ELSE i2]]

Request == MkNode("request", "g1", "resource", {}, Specs, <<"x">>, <<"x">>)

Full ==
  [nodes |-> <<Request,
               MkNode("settings", "g2", "external", {}, Specs, <<"x">>, <<"x">>),
               MkNode("config", "g2", "resource", {"request", "settings"},
                      Specs, <<"x", "y">>, <<"x">>),
               MkNode("vm", "g1", "resource", {}, {"s1"}, <<"x">>, <<>>)>>,
   routing |-> [i \in {"request", "vm"} |->
                  IF i = "vm" THEN "host" ELSE "provider"]]

Nested ==
  [nodes |-> <<Request,
               MkNode("settings", "g2", "external", {}, {"s1"}, <<"x">>, <<"x">>),
               MkNode("config", "g2", "resource", {"request"}, Specs,
                      <<"x", "y">>, <<"x">>)>>,
   routing |-> [i \in {"request"} |-> "provider"]]

Plain ==
  [nodes |-> <<Request,
               MkNode("config", "g2", "resource", {"request"}, Specs,
                      <<"x">>, <<"x">>)>>,
   routing |-> [i \in {"request"} |-> "provider"]]

Revised == [Plain EXCEPT !.nodes = <<Request,
               MkNode("config", "g2", "resource", {}, Specs, <<"y">>, <<"x">>)>>]

Moved == [Plain EXCEPT !.nodes = <<MkNode("config", "g2", "resource", {}, Specs,
                                         <<"x">>, <<"x">>)>>]

FullOnly == {Full}
NestedOnly == {Nested}
PlainOnly == {Plain}
PlainAndRevised == {Plain, Revised}
PlainAndMoved == {Plain, Moved}

CallPoints == PassPoints \ {"idle"}
=============================================================================
