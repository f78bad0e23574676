------------------------------ MODULE Blueprint ------------------------------
(***************************************************************************)
(* A served blueprint: the compiled kro graph (nodes in topological order) *)
(* and the routing map of its resources, with the pure functions the       *)
(* engine and the reconciler compute from them.                            *)
(*                                                                         *)
(* A spec of an instance is a model value.  What kro evaluates from it is  *)
(* given by the node: `when` holds the specs under which includeWhen is    *)
(* true, `items[s]` the names of the desired objects under spec s (several *)
(* for a forEach collection), and `deps` the nodes whose observed status   *)
(* the node's expressions read.                                            *)
(***************************************************************************)
EXTENDS Integers, Sequences

CONSTANTS
  Ids,         \* resource ids
  GVKs,        \* kinds of child objects
  Names,       \* names of child objects, as written in the templates
  Specs,       \* values of the instance's spec
  HostEnabled  \* whether a host cluster is configured (HostClient # nil)

ASSUME SpecsAssumption == Specs # {}
ASSUME HostAssumption == HostEnabled \in BOOLEAN

Targets == {"consumer", "provider", "host"}

NodeTypes == {"resource", "external", "externalCollection"}

Node == [id: Ids, gvk: GVKs, type: NodeTypes, deps: SUBSET Ids,
         when: SUBSET Specs, items: [Specs -> Seq(Names)]]

\* The routing map has the resources for which the blueprint gives a target.
Routing == UNION {[I -> Targets] : I \in SUBSET Ids}

Served == [nodes: Seq(Node), routing: Routing]

\* The identity of a child object: the workspace it lives in and its ChildID.
\* ProviderChildName maps the template name injectively for one instance, so
\* within one instance the template name stands for the qualified one.
Key == [target: Targets, gvk: GVKs, name: Names]

\* A (target, GVK) pair: what the garbage collector lists by.
Kind == Targets \X GVKs

KindOf(k) == <<k.target, k.gvk>>

\* The targets for which an applier, a reader and a GC client are wired.
Configured(t) == t # "host" \/ HostEnabled

\* The routing target of a node; a resource without one goes to the consumer.
TargetForNode(id, routing) ==
  IF id \in DOMAIN routing THEN routing[id] ELSE "consumer"

IsExternal(n) == n.type \in {"external", "externalCollection"}

\* The distinct child GVKs of one target; external nodes are never collected.
childGVKs(b, t) ==
  {b.nodes[i].gvk : i \in {j \in DOMAIN b.nodes :
     ~IsExternal(b.nodes[j]) /\ TargetForNode(b.nodes[j].id, b.routing) = t}}

\* What the reconciler lists when it collects or prunes.
GCKinds(b) ==
  {kd \in Kind : Configured(kd[1]) /\ kd[2] \in childGVKs(b, kd[1])}

\* Mutant of RecordKinds: the GVKs are recorded without their plane.
RecordBareKinds(b) == childGVKs(b, "provider") \cup childGVKs(b, "host")

\* What the liveness record names for the sweeper.
RecordKinds(b) ==
  {kd \in Kind : kd[1] \in {"provider", "host"} /\ kd[2] \in childGVKs(b, kd[1])}

\* node.IsIgnored: includeWhen is false.  kro also ignores a node that depends
\* on an ignored one, so `when` is closed under deps.
IsIgnored(n, s) == s \notin n.when

\* The j-th object that node.GetDesired yields, at its final place and name.
DesiredKey(b, n, s, j) ==
  [target |-> TargetForNode(n.id, b.routing), gvk |-> n.gvk,
   name |-> n.items[s][j]]

NodeKeys(b, n, s) == {DesiredKey(b, n, s, j) : j \in DOMAIN n.items[s]}

\* Every child a complete pass over blueprint b applies for spec s.
DesiredKeys(b, s) ==
  UNION {NodeKeys(b, b.nodes[i], s) : i \in {j \in DOMAIN b.nodes :
     ~IsExternal(b.nodes[j]) /\ ~IsIgnored(b.nodes[j], s)}}
=============================================================================
