--------------------------- MODULE TenancyProofs ----------------------------
(***************************************************************************)
(* Tenants are isolated for any number of instances and templates, as long *)
(* as the consumer cluster and the name tell the instances that exist      *)
(* apart.  The run NameCollision shows that this cannot be left out.       *)
(***************************************************************************)
EXTENDS Tenancy, TLAPS

\* No two instances differ only in what ProviderChildName leaves out.
NoHomonyms ==
  \A i, j \in Instances : i.cluster = j.cluster /\ i.name = j.name => SameObject(i, j)

TenantInv ==
  /\ phase \in [Instances -> {"absent", "live", "deleting", "listed", "gone"}]
  /\ label \in [ChildNames -> Instances \cup {Nobody}]
  /\ dels \in [Instances -> SUBSET ChildNames]
  /\ \A i, j \in Instances : Existing(i) /\ Existing(j) /\ SameObject(i, j) => i = j
  /\ \A i \in Instances : LabelledBy(i) \subseteq Named(i)
  /\ \A i \in Instances : dels[i] \subseteq Named(i)
  /\ \A i \in Instances : dels[i] # {} => Existing(i)

\* Existing instances have no child name in common.
LEMMA NamesAreOwn ==
  ASSUME NoHomonyms, TenantInv, NEW i \in Instances, NEW j \in Instances,
         Existing(i), Existing(j), NEW n \in Named(i), n \in Named(j)
  PROVE  i = j
  <1>1. PICK s \in Templates : n = ProviderChildName(i, s) BY DEF Named
  <1>2. PICK t \in Templates : n = ProviderChildName(j, t) BY DEF Named
  <1>3. i.cluster = j.cluster /\ i.name = j.name BY <1>1, <1>2 DEF ProviderChildName
  <1> QED BY <1>3 DEF NoHomonyms, TenantInv

LEMMA NamedIsName ==
  ASSUME NEW i \in Instances, NEW t \in Templates
  PROVE  ProviderChildName(i, t) \in Named(i) /\ ProviderChildName(i, t) \in ChildNames
  BY DEF Named, ChildNames

LEMMA TenantInit == ASSUME Nobody \notin Instances PROVE Init => TenantInv
  BY DEF Init, TenantInv, Existing, LabelledBy

\* Every step keeps the invariant, and takes no label off an existing instance.
LEMMA TenantNext ==
  ASSUME Nobody \notin Instances, NoHomonyms, TenantInv, Next
  PROVE  /\ TenantInv'
         /\ \A i \in Instances : \A n \in LabelledBy(i) :
              Existing(i) /\ label'[n] # i => n \in dels[i] \ dels'[i]
  <1> DEFINE Phases == {"absent", "live", "deleting", "listed", "gone"}
             Kept == \A i \in Instances : \A n \in LabelledBy(i) :
                       Existing(i) /\ label'[n] # i => n \in dels[i] \ dels'[i]
  <1>0. PICK a \in Instances :
          \/ Create(a) \/ MarkDeleted(a) \/ ListForDelete(a) \/ DeleteListed(a)
          \/ RemoveFinalizer(a)
          \/ \E t \in Templates : ApplyChild(a, t)
          \/ \E applied \in SUBSET Named(a) : ListForPrune(a, applied)
    BY DEF Next
  <1>1. CASE Create(a)
    <2>1. \A i \in Instances : phase'[i] = IF i = a THEN "live" ELSE phase[i]
      BY <1>1 DEF Create, TenantInv
    <2>2. phase' \in [Instances -> Phases] BY <1>1 DEF Create, TenantInv
    <2>3. \A i, j \in Instances : Existing(i)' /\ Existing(j)' /\ SameObject(i, j) => i = j
      BY <1>1, <2>1 DEF Create, TenantInv, Existing, SameObject
    <2>4. UNCHANGED <<label, dels>> BY <1>1 DEF Create
    <2>5. \A i \in Instances : Existing(i) => Existing(i)' BY <2>1 DEF Existing
    <2>6. TenantInv' BY <2>2, <2>3, <2>4, <2>5 DEF TenantInv, LabelledBy
    <2> QED BY <2>4, <2>6 DEF LabelledBy
  <1>2. CASE MarkDeleted(a) \/ RemoveFinalizer(a)
    <2>1. UNCHANGED <<label, dels>> BY <1>2 DEF MarkDeleted, RemoveFinalizer
    <2>2. phase' \in [Instances -> Phases]
      BY <1>2 DEF MarkDeleted, RemoveFinalizer, TenantInv
    <2>3. \A i \in Instances : Existing(i)' => Existing(i)
      BY <1>2 DEF MarkDeleted, RemoveFinalizer, TenantInv, Existing
    <2>4. \A i \in Instances : dels[i] # {} => Existing(i)'
      BY <1>2 DEF MarkDeleted, RemoveFinalizer, TenantInv, Existing
    <2>5. TenantInv' BY <2>1, <2>2, <2>3, <2>4 DEF TenantInv, LabelledBy
    <2> QED BY <2>1, <2>5 DEF LabelledBy
  <1>3. CASE ListForDelete(a) \/ \E applied \in SUBSET Named(a) : ListForPrune(a, applied)
    <2>1. label' = label BY <1>3 DEF ListForDelete, ListForPrune
    <2>2. PICK D \in SUBSET LabelledBy(a) : dels' = [dels EXCEPT ![a] = D]
      BY <1>3 DEF ListForDelete, ListForPrune
    <2>3. phase' \in [Instances -> Phases]
      BY <1>3 DEF ListForDelete, ListForPrune, TenantInv
    <2>4. Existing(a) /\ \A i \in Instances : Existing(i)' <=> Existing(i)
      BY <1>3 DEF ListForDelete, ListForPrune, TenantInv, Existing
    <2>5. D \subseteq Named(a) /\ D \subseteq ChildNames
      BY <2>2 DEF TenantInv, LabelledBy
    <2>6. TenantInv' BY <2>1, <2>2, <2>3, <2>4, <2>5 DEF TenantInv, LabelledBy
    <2> QED BY <2>1, <2>6 DEF LabelledBy
  <1>4. CASE DeleteListed(a)
    <2>1. PICK n \in dels[a] : /\ label' = [label EXCEPT ![n] = Nobody]
                               /\ dels' = [dels EXCEPT ![a] = dels[a] \ {n}]
      BY <1>4 DEF DeleteListed
    <2>2. n \in ChildNames /\ n \in Named(a) /\ Existing(a) /\ phase' = phase
      BY <1>4 DEF DeleteListed, TenantInv
    <2>3. \A m \in ChildNames : label'[m] = IF m = n THEN Nobody ELSE label[m]
      BY <2>1 DEF TenantInv
    <2>4. \A i \in Instances : LabelledBy(i)' \subseteq LabelledBy(i)
      BY <2>3 DEF LabelledBy
    <2>5. label' \in [ChildNames -> Instances \cup {Nobody}]
          /\ dels' \in [Instances -> SUBSET ChildNames]
      BY <2>1, <2>2 DEF TenantInv
    <2>6. \A i \in Instances : dels'[i] \subseteq dels[i] BY <2>1 DEF TenantInv
    <2>7. TenantInv' BY <2>2, <2>4, <2>5, <2>6 DEF TenantInv, Existing
    <2>8. Kept
      <3> SUFFICES ASSUME NEW i \in Instances, NEW m \in LabelledBy(i), Existing(i),
                          label'[m] # i
                   PROVE  m \in dels[i] \ dels'[i]
        OBVIOUS
      <3>1. m = n BY <2>3 DEF LabelledBy
      <3>2. i = a BY <2>2, <3>1, NamesAreOwn DEF TenantInv
      <3> QED BY <2>1, <3>1, <3>2 DEF TenantInv
    <2> QED BY <2>7, <2>8
  <1>5. CASE \E t \in Templates : ApplyChild(a, t)
    <2>1. PICK t \in Templates : ApplyChild(a, t) BY <1>5
    <2> DEFINE c == ProviderChildName(a, t)
    <2>2. c \in Named(a) /\ c \in ChildNames BY NamedIsName
    <2>3. /\ label' = [label EXCEPT ![c] = a] /\ UNCHANGED <<phase, dels>>
          /\ Existing(a)
      BY <2>1 DEF ApplyChild, Existing
    <2> HIDE DEF c
    <2>4. \A m \in ChildNames : label'[m] = IF m = c THEN a ELSE label[m]
      BY <2>3 DEF TenantInv
    <2>5. label' \in [ChildNames -> Instances \cup {Nobody}]
      BY <2>2, <2>3 DEF TenantInv
    <2>6. \A i \in Instances : LabelledBy(i)' \subseteq Named(i)
      BY <2>2, <2>4 DEF TenantInv, LabelledBy
    <2>7. TenantInv' BY <2>3, <2>5, <2>6 DEF TenantInv, Existing
    <2>8. Kept
      <3> SUFFICES ASSUME NEW i \in Instances, NEW m \in LabelledBy(i), Existing(i),
                          label'[m] # i
                   PROVE  FALSE
        OBVIOUS
      <3>1. m = c BY <2>4 DEF LabelledBy
      <3>2. i = a BY <2>2, <2>3, <3>1, NamesAreOwn DEF TenantInv
      <3> QED BY <2>2, <2>4, <3>1, <3>2
    <2> QED BY <2>7, <2>8
  <1> QED BY <1>0, <1>1, <1>2, <1>3, <1>4, <1>5

\* An existing instance keeps its provider children until its own pass deletes
\* them, whatever the other instances of all consumers and blueprints do, provided
\* that no two instances share the consumer cluster and the name and differ in
\* namespace or kind (ProviderChildName).
THEOREM TenantsAreIsolated ==
  ASSUME Nobody \notin Instances, NoHomonyms PROVE Spec => KeepsOwnChildren
  <1>1. Init => TenantInv BY TenantInit
  <1>2. TenantInv /\ [Next]_vars => TenantInv'
    <2> SUFFICES ASSUME TenantInv, [Next]_vars PROVE TenantInv' OBVIOUS
    <2>1. CASE Next BY <2>1, TenantNext
    <2>2. CASE UNCHANGED vars BY <2>2 DEF vars, TenantInv, Existing, LabelledBy
    <2> QED BY <2>1, <2>2
  <1>3. TenantInv /\ [Next]_vars =>
          [\A i \in Instances : \A n \in LabelledBy(i) :
             Existing(i) /\ label'[n] # i => n \in dels[i] \ dels'[i]]_vars
    BY TenantNext
  <1> QED BY <1>1, <1>2, <1>3, PTL DEF Spec, KeepsOwnChildren
=============================================================================
