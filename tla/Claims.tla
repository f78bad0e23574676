------------------------------- MODULE Claims -------------------------------
(***************************************************************************)
(* The permission claims an APIExport asks of its consumers, derived from  *)
(* the graph of the blueprint (internal/registrar/claims.go).              *)
(*                                                                         *)
(* A GroupResource is the kind it serves, a GVK of the graph.  The code    *)
(* keeps claims in a list sorted by GroupResource with one claim each, so  *)
(* a list is a function of the GroupResource.  An identity hash is known   *)
(* or not: `identity` holds the kinds bound in the provider workspace.     *)
(***************************************************************************)
EXTENDS Blueprint

CONSTANT CoreGVKs  \* kinds of the core group, whose claims need no identity

ASSUME CoreAssumption == CoreGVKs \subseteq GVKs

claimVerbs == {"get", "list", "watch", "create", "update", "patch", "delete"}

readOnlyVerbs == {"get", "list", "watch"}

Claim == [verbs: {claimVerbs, readOnlyVerbs}, identity: BOOLEAN]

ClaimList == UNION {[S -> Claim] : S \in SUBSET GVKs}

NoClaims == [gr \in {} |-> {}]

\* The node is routed to the consumer and is not of the instance's own type.
IsForeign(g, n, own) ==
  TargetForNode(n.id, g.routing) = "consumer" /\ n.gvk # own

\* The kinds of the foreign template nodes, or of the foreign external nodes.
ForeignConsumerGRs(g, own, external) ==
  {g.nodes[i].gvk : i \in {j \in DOMAIN g.nodes :
     IsForeign(g, g.nodes[j], own) /\ IsExternal(g.nodes[j]) = external}}

DeriveClaims(foreign, verbs, identity) ==
  [gr \in foreign |-> [verbs |-> verbs, identity |-> gr \in identity]]

\* Mutant of mergeClaims: the claims of the last input win.
mergeClaimsLast(first, second) ==
  [gr \in DOMAIN first \cup DOMAIN second |->
     IF gr \in DOMAIN second THEN second[gr] ELSE first[gr]]

\* The stable sort brings the claims of one kind together in the order of the
\* inputs.  The first of them is kept as it is: the union of the verbs is
\* stored in a copy and lost.
mergeClaims(first, second) ==
  [gr \in DOMAIN first \cup DOMAIN second |->
     IF gr \in DOMAIN first THEN first[gr] ELSE second[gr]]

validateClaims(claims) ==
  \A gr \in DOMAIN claims : gr \in CoreGVKs \/ claims[gr].identity

\* What Reconcile derives for the graph g of an instance type `own`.
ClaimsFor(g, own, identity) ==
  mergeClaims(DeriveClaims(ForeignConsumerGRs(g, own, FALSE), claimVerbs, identity),
              DeriveClaims(ForeignConsumerGRs(g, own, TRUE), readOnlyVerbs, identity))

-----------------------------------------------------------------------------
(* What the claims are for.                                                *)

\* The verbs of the calls that the engine and the collector make for a node.
VerbsUsed(n) ==
  CASE n.type = "external" -> {"get"}
    [] n.type = "externalCollection" -> {"list"}
    [] n.type = "resource" -> {"create", "patch", "get", "list", "delete"}

\* Under these claims every call for a foreign node of g is authorised.
Authorises(claims, g, own) ==
  \A i \in DOMAIN g.nodes : IsForeign(g, g.nodes[i], own) =>
    /\ g.nodes[i].gvk \in DOMAIN claims
    /\ VerbsUsed(g.nodes[i]) \subseteq claims[g.nodes[i].gvk].verbs
    /\ g.nodes[i].gvk \in CoreGVKs \/ claims[g.nodes[i].gvk].identity

\* They ask for nothing else: a claim is for a foreign node, and one that goes
\* beyond reading is for a template.
AskNoMore(claims, g, own) ==
  \A gr \in DOMAIN claims :
    \E i \in DOMAIN g.nodes :
      /\ IsForeign(g, g.nodes[i], own) /\ g.nodes[i].gvk = gr
      /\ claims[gr].verbs \subseteq readOnlyVerbs \/ ~IsExternal(g.nodes[i])
=============================================================================
