------------------------------ MODULE Tenancy -------------------------------
(***************************************************************************)
(* Many instances, one provider workspace.  The children that instances of *)
(* all consumers and all blueprints have there share one name space, each  *)
(* under the name that ProviderChildName derives and with the label of its *)
(* instance.  A host cluster is shared in the same way.                    *)
(*                                                                         *)
(* For one instance at a time InstanceGC has the whole reconciler; here a  *)
(* pass is its calls to the shared workspace: applies in any number, then  *)
(* a list by label and the deletes by name that follow from it.  Children  *)
(* of other kinds and namespaces never meet, so there is one of each.      *)
(***************************************************************************)
CONSTANTS
  Instances,  \* what is ever created: records of uid, cluster, blueprint,
              \* namespace and name
  Templates,  \* names of provider children, as written in the blueprints
  Nobody      \* the label of a name under which there is no object

VARIABLES
  phase,  \* the stage of each instance
  label,  \* the instance whose label the object of each name carries
  dels    \* what a pass over each instance has listed and not deleted yet

vars == <<phase, label, dels>>

\* The name of a provider child: a hash of the tuple tells two of them apart.
ProviderChildName(i, t) == <<i.cluster, i.name, t>>

Named(i) == {ProviderChildName(i, t) : t \in Templates}

ChildNames == UNION {Named(i) : i \in Instances}

\* The API server tells instances apart by workspace, kind, namespace and name.
SameObject(i, j) ==
  /\ i.cluster = j.cluster /\ i.blueprint = j.blueprint
  /\ i.namespace = j.namespace /\ i.name = j.name

Existing(i) == phase[i] \in {"live", "deleting", "listed"}

LabelledBy(i) == {n \in ChildNames : label[n] = i}

Init ==
  /\ phase = [i \in Instances |-> "absent"]
  /\ label = [n \in ChildNames |-> Nobody]
  /\ dels = [i \in Instances |-> {}]

Create(i) ==
  /\ phase[i] = "absent"
  /\ \A j \in Instances : Existing(j) => ~SameObject(i, j)
  /\ phase' = [phase EXCEPT ![i] = "live"]
  /\ UNCHANGED <<label, dels>>

\* The forced server-side apply creates the object or takes it over.
ApplyChild(i, t) ==
  /\ phase[i] = "live" /\ dels[i] = {}
  /\ label' = [label EXCEPT ![ProviderChildName(i, t)] = i]
  /\ UNCHANGED <<phase, dels>>

\* Prune lists by label and spares what its pass has applied.
ListForPrune(i, applied) ==
  /\ phase[i] = "live" /\ dels[i] = {}
  /\ dels' = [dels EXCEPT ![i] = LabelledBy(i) \ applied]
  /\ UNCHANGED <<phase, label>>

MarkDeleted(i) ==
  /\ phase[i] = "live"
  /\ phase' = [phase EXCEPT ![i] = "deleting"]
  /\ UNCHANGED <<label, dels>>

\* The deletion path lists by label, too.
ListForDelete(i) ==
  /\ phase[i] = "deleting" /\ dels[i] = {}
  /\ phase' = [phase EXCEPT ![i] = "listed"]
  /\ dels' = [dels EXCEPT ![i] = LabelledBy(i)]
  /\ UNCHANGED label

\* Both delete by name.
DeleteListed(i) ==
  /\ \E n \in dels[i] :
       /\ label' = [label EXCEPT ![n] = Nobody]
       /\ dels' = [dels EXCEPT ![i] = @ \ {n}]
  /\ UNCHANGED phase

RemoveFinalizer(i) ==
  /\ phase[i] = "listed" /\ dels[i] = {}
  /\ phase' = [phase EXCEPT ![i] = "gone"]
  /\ UNCHANGED <<label, dels>>

Next ==
  \E i \in Instances :
    \/ Create(i) \/ MarkDeleted(i) \/ ListForDelete(i) \/ DeleteListed(i)
    \/ RemoveFinalizer(i)
    \/ \E t \in Templates : ApplyChild(i, t)
    \/ \E applied \in SUBSET Named(i) : ListForPrune(i, applied)

Spec == Init /\ [][Next]_vars

-----------------------------------------------------------------------------

\* Different instances do not collide in the shared workspace: an object that
\* carries the label of an existing instance loses it only to a delete of that
\* instance's own pass, neither to the apply nor to the delete of another one
\* (ProviderChildName, SSAApplier.Apply, deleteChildren, pruneChildren).
KeepsOwnChildren ==
  [][\A i \in Instances : \A n \in LabelledBy(i) :
       Existing(i) /\ label'[n] # i => n \in dels[i] \ dels'[i]]_vars
=============================================================================
