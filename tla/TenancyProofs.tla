--------------------------- MODULE TenancyProofs ---------------------------
(***************************************************************************)
(* The proof of LabelFromLineage, through both controllers, and that the   *)
(* project controller keeps its promises beside the other one, whatever    *)
(* the organizations, the bounds and the surroundings.                     *)
(***************************************************************************)
EXTENDS Tenancy, TLAPS

O == INSTANCE OrganizationControllerProofs WITH
    store <- orgStore, cache <- orgCache, watch <- orgWatch, queue <- orgQueue,
    rec <- orgRec, env <- orgEnv, Surroundings <- {s[1] : s \in Surroundings}

P == INSTANCE ProjectProvisionProofs WITH
    store <- projStore, cache <- projCache, watch <- projWatch, queue <- projQueue,
    rec <- projRec, uids <- projUids, env <- projEnv,
    Surroundings <- {s[2] : s \in Surroundings},
    root <- statusRoot, defaults <- defaultIsolation

\* The constants are as the other proofs assume.
LEMMA ConstantsFit ==
    /\ None \notin Org /\ MaxUid \in Nat /\ MaxLag \in Nat
    /\ {s[1] : s \in Surroundings} \subseteq O!Surrounding
    /\ None \notin O!Organization /\ None \notin O!OrganizationProfile /\ None \notin Nat
    /\ p \notin P!Role \cup P!managedNetworkPolicies
    /\ None \notin Org \cup P!Isolation \cup Nat
    /\ {s[2] : s \in Surroundings} \subseteq P!Surrounding
    /\ None \notin P!ProjectObject \cup P!NamespaceObject \cup P!BindingObject \cup P!PolicyObject
  BY TenancyAssumption
     DEF Organizations!Surrounding, O!Surrounding, Organizations!Organization, O!Organization,
         Organizations!OrganizationProfile, O!OrganizationProfile, Organizations!Uid, O!Uid,
         Organizations!Root, O!Root, Organizations!Isolation, O!Isolation, Projects!Role, P!Role, Projects!managedNetworkPolicies,
         P!managedNetworkPolicies, Projects!npDenyIngress, P!npDenyIngress,
         Projects!npAllowOrganization, P!npAllowOrganization, Projects!npAllowSameNS,
         P!npAllowSameNS, Projects!Isolation, P!Isolation, Projects!Surrounding, P!Surrounding,
         Projects!ProjectObject, P!ProjectObject, Projects!NamespaceObject, P!NamespaceObject,
         Projects!BindingObject, P!BindingObject, Projects!PolicyObject, P!PolicyObject,
         Projects!ProjectSpec, P!ProjectSpec, Projects!Uid, P!Uid, Projects!NsUid, P!NsUid,
         Projects!Controller, P!Controller

\* The controllers of Tenancy are the ones that the other proofs are about.
LEMMA SameOrganizations ==
    /\ Organizations!Init => O!Init
    /\ Organizations!Local => O!Local
    /\ Organizations!Restart => O!Restart
  BY Zenon DEF Organizations!Init, O!Init, Organizations!Local, O!Local,
           Organizations!Restart, O!Restart, Organizations!Kind, O!Kind,
           Organizations!Idle, O!Idle, Organizations!Root, O!Root,
           Organizations!CreateOrganization, O!CreateOrganization,
           Organizations!DeleteOrganization, O!DeleteOrganization,
           Organizations!CollectGarbage, O!CollectGarbage, Organizations!PutProfile,
           O!PutProfile, Organizations!DeleteProfile, O!DeleteProfile,
           Organizations!Resync, O!Resync, Organizations!OrganizationEvent,
           O!OrganizationEvent, Organizations!ProfileEvent, O!ProfileEvent,
           Organizations!Work, O!Work, Organizations!CreateProfile, O!CreateProfile,
           Organizations!ActionError, O!ActionError, Organizations!StatusError,
           O!StatusError, Organizations!Fault, O!Fault, Organizations!Orgs, O!Orgs,
           Organizations!Room, O!Room, Organizations!Write, O!Write,
           Organizations!operator, O!operator, Organizations!Profiles, O!Profiles,
           Organizations!Deliver, O!Deliver, Organizations!Owners, O!Owners,
           Organizations!Dequeue, O!Dequeue, Organizations!ComputeRoot, O!ComputeRoot,
           Organizations!GetProfile, O!GetProfile, Organizations!ProfileAlreadyExists,
           O!ProfileAlreadyExists, Organizations!UpdateStatus, O!UpdateStatus,
           Organizations!NoProfileYet, O!NoProfileYet,
           Organizations!restrictiveProfile, O!restrictiveProfile, Organizations!Fail,
           O!Fail, Organizations!WalkExhausted, O!WalkExhausted, Organizations!AtRoot,
           O!AtRoot, Organizations!internal, O!internal, Organizations!Reported,
           O!Reported, Organizations!apiVars, O!apiVars,
           Organizations!maxHierarchyDepth, O!maxHierarchyDepth

\* The controllers of Tenancy are the ones that the other proofs are about.
LEMMA SameProjects ==
    /\ Projects!Init => P!Init
    /\ Projects!Local => P!Local
    /\ Projects!Restart => P!Restart
  BY Zenon DEF Projects!Init, P!Init, Projects!Local, P!Local, Projects!Restart, P!Restart,
           Projects!Kind, P!Kind, Projects!Name, P!Name, Projects!Idle, P!Idle,
           Projects!Environment, P!Environment, Projects!Failures, P!Failures,
           Projects!Deliveries, P!Deliveries, Projects!Work, P!Work, Projects!Project,
           P!Project, Projects!Role, P!Role, Projects!managedNetworkPolicies,
           P!managedNetworkPolicies, Projects!CreateProject, P!CreateProject,
           Projects!UpdateProject, P!UpdateProject, Projects!DeleteProject,
           P!DeleteProject, Projects!CollectNamespace, P!CollectNamespace,
           Projects!CollectContents, P!CollectContents, Projects!Terminate,
           P!Terminate, Projects!Provisioned, P!Provisioned, Projects!OtherCreates,
           P!OtherCreates, Projects!OtherDeletes, P!OtherDeletes,
           Projects!ComputeEffectiveIsolation, P!ComputeEffectiveIsolation,
           Projects!Put, P!Put, Projects!Delete, P!Delete, Projects!ActionError,
           P!ActionError, Projects!StatusError, P!StatusError, Projects!Resync,
           P!Resync, Projects!Informer, P!Informer, Projects!Dequeue, P!Dequeue,
           Projects!CaughtUp, P!CaughtUp, Projects!Calls, P!Calls,
           Projects!npDenyIngress, P!npDenyIngress, Projects!npAllowOrganization,
           P!npAllowOrganization, Projects!npAllowSameNS, P!npAllowSameNS,
           Projects!Room, P!Room, Projects!Write, P!Write, Projects!operator,
           P!operator, Projects!view, P!view, Projects!CountedWrite, P!CountedWrite,
           Projects!MarkNamespace, P!MarkNamespace, Projects!Owned, P!Owned,
           Projects!Namespace, P!Namespace, Projects!Contents, P!Contents,
           Projects!Creatable, P!Creatable, Projects!foreignObjects, P!foreignObjects,
           Projects!effectiveIsolation, P!effectiveIsolation, Projects!ensureNamespace,
           P!ensureNamespace, Projects!ensureRBAC, P!ensureRBAC,
           Projects!ensureNetworkPolicies, P!ensureNetworkPolicies, Projects!Fault,
           P!Fault, Projects!internal, P!internal, Projects!At, P!At,
           Projects!PutSucceeds, P!PutSucceeds, Projects!Mutated, P!Mutated,
           Projects!apiVars, P!apiVars, Projects!kind, P!kind, Projects!name, P!name,
           Projects!Answer, P!Answer, Projects!Ensured, P!Ensured, Projects!Done,
           P!Done, Projects!Fail, P!Fail, Projects!Deliver, P!Deliver,
           Projects!Enqueued, P!Enqueued, Projects!ValidateParentOrganization,
           P!ValidateParentOrganization, Projects!Check, P!Check, Projects!Get, P!Get,
           Projects!PutRefused, P!PutRefused, Projects!Prune, P!Prune,
           Projects!UpdateStatus, P!UpdateStatus, Projects!otherController,
           P!otherController, Projects!CreateOrUpdate, P!CreateOrUpdate,
           Projects!subjectsForRole, P!subjectsForRole, Projects!Revoke, P!Revoke,
           Projects!desiredNetworkPolicies, P!desiredNetworkPolicies,
           Projects!PruneUnwanted, P!PruneUnwanted, Projects!SetControllerReference,
           P!SetControllerReference, Projects!Accepted, P!Accepted,
           Projects!policySpec, P!policySpec, Projects!cached, P!cached,
           Projects!IsControlledBy, P!IsControlledBy, Projects!Retried, P!Retried,
           Projects!stored, P!stored

-----------------------------------------------------------------------------
(* The inductive invariant: those of the two controllers, and that a root on  *)
(* its way from a status to a label has a lineage.                            *)

RootPairs(L) == {x \in Org \X Org : O!RootIn(L, x[1], x[2])}

OnItsWay(L, ns, r) == P!LabelIn(RootPairs(L), ns) /\ P!CarriedIn(RootPairs(L), r)

Inv == /\ O!Typed /\ O!Lineage /\ P!Typed /\ P!Provisioning
       /\ OnItsWay(links, Namespace, projRec)

\* More links are more roots.
LEMMA WayGrows ==
    ASSUME NEW L, NEW M, L \subseteq M, NEW ns, NEW r, OnItsWay(L, ns, r)
    PROVE  OnItsWay(M, ns, r)
  <1>1. RootPairs(L) \subseteq RootPairs(M)
    BY ConstantsFit, O!LineageGrows DEF RootPairs
  <1> QED
    BY <1>1, Zenon DEF OnItsWay, P!LabelIn, P!CarriedIn

\* What the project controller sees of organizations and profiles is well-formed.
LEMMA ViewFits == O!Typed => P!ViewTypes
  <1> SUFFICES ASSUME O!Typed PROVE P!ViewTypes
    BY Zenon
  <1>1. ASSUME NEW o \in Org
        PROVE  /\ orgCache["Organization"][o] \in O!Object["Organization"]
               /\ orgCache["Organization"][o] # None =>
                      orgCache["Organization"][o] \in O!Organization
               /\ orgCache["OrganizationProfile"][o] # None =>
                      orgCache["OrganizationProfile"][o] \in O!OrganizationProfile
    BY ConstantsFit, O!ObjectFacts, Zenon DEF O!Typed, O!ApiTypes, O!ApiTyped
  <1>2. ASSUME NEW o \in Org PROVE statusRoot[o] \in Org \cup {None}
    BY <1>1 DEF statusRoot, O!Organization, O!Root
  <1>3. ASSUME NEW o \in Org PROVE defaultIsolation[o] \in P!Isolation \cup {None}
    BY <1>1 DEF defaultIsolation, O!OrganizationProfile, O!Isolation, P!Isolation
  <1>4. /\ statusRoot = [o \in Org |-> statusRoot[o]]
        /\ defaultIsolation = [o \in Org |-> defaultIsolation[o]]
    BY Zenon DEF statusRoot, defaultIsolation
  <1> QED
    BY <1>2, <1>3, <1>4 DEF P!ViewTypes

\* And the roots it sees have a lineage.
LEMMA SeenRoots ==
    ASSUME O!Typed, O!Lineage
    PROVE  \A o \in Org : statusRoot[o] # None => <<o, statusRoot[o]>> \in RootPairs(links)
  <1> SUFFICES ASSUME NEW o \in Org, statusRoot[o] # None
               PROVE  <<o, statusRoot[o]>> \in RootPairs(links)
    BY Zenon
  <1>1. statusRoot[o] \in Org
    BY ViewFits, Zenon DEF P!ViewTypes
  <1>2. orgCache["Organization"][o] # None /\ statusRoot[o] = orgCache["Organization"][o].root
    BY Zenon DEF statusRoot
  <1>3. O!RootIn(links, o, statusRoot[o])
    BY <1>2 DEF O!Lineage, O!ViewTraced, O!Traced
  <1> QED
    BY <1>1, <1>3, Zenon DEF RootPairs

\* The invariant holds initially.
LEMMA InitInv == Init => Inv
  <1> SUFFICES ASSUME Init PROVE Inv
    OBVIOUS
  <1>1. O!Init /\ P!Init
    BY SameOrganizations, SameProjects DEF Init
  <1>2. O!Typed /\ O!Lineage /\ P!Typed /\ P!Provisioning
    BY <1>1, ConstantsFit, O!InitTypes, O!InitLineage, P!InitTypes, P!InitProvisioning
  <1>3. projRec.pc = "idle"
    BY <1>1, Zenon DEF P!Init, P!Idle
  <1>4. Namespace = None
    BY <1>1, ConstantsFit, P!KindFacts DEF P!Init, Namespace
  <1>5. OnItsWay(links, Namespace, projRec)
    BY <1>3, <1>4 DEF OnItsWay, P!LabelIn, P!CarriedIn
  <1> QED
    BY <1>2, <1>5, Zenon DEF Inv

\* The project controller sees a step of its own, or nothing of its state changes.
LEMMA ProvisioningKept ==
    ASSUME Inv, P!Typed', P!Local \/ P!Restart \/ UNCHANGED projVars
    PROVE  P!Provisioning'
  <1>1. UNCHANGED projVars => UNCHANGED <<P!apiVars, projRec, projUids, projQueue, fresh>>
    BY Zenon DEF projVars, P!apiVars
  <1>2. P!Typed /\ P!Provisioning
    BY Zenon DEF Inv
  <1>3. P!Step
    BY <1>1, <1>2, ConstantsFit, P!StepForms
  <1> QED
    BY <1>2, <1>3, ConstantsFit, P!ProvisioningKept

\* Steps of the organization controller keep it.
LEMMA OrganizationStepInv == ASSUME Inv, OrganizationStep PROVE Inv'
  <1>1. O!Next
    BY SameOrganizations, Zenon DEF OrganizationStep, O!Next
  <1>2. O!Typed' /\ O!Lineage'
    BY <1>1, ConstantsFit, O!TypesKept, O!LineageKept DEF Inv
  <1>3. links \subseteq links'
    BY SameOrganizations, Zenon
       DEF OrganizationStep, O!Local, O!Work, O!CreateOrganization, O!DeleteOrganization,
           O!CollectGarbage, O!PutProfile, O!DeleteProfile, O!Resync, O!OrganizationEvent,
           O!ProfileEvent, O!Dequeue, O!ComputeRoot, O!GetProfile, O!CreateProfile,
           O!ProfileAlreadyExists, O!ActionError, O!UpdateStatus, O!StatusError, O!operator,
           O!internal
  <1>4. UNCHANGED projVars
    BY Zenon DEF OrganizationStep
  <1>5. P!ApiTypes' /\ P!WorkerTyped(projRec') /\ P!EnvTypes'
    BY <1>4, ConstantsFit, P!ApiUnchanged DEF Inv, P!Typed, projVars, P!apiVars, P!EnvTypes
  <1>6. P!ViewTypes'
    BY <1>2, ViewFits, PTL
  <1>7. P!Typed'
    BY <1>5, <1>6, ConstantsFit, P!TypedNext
  <1>8. OnItsWay(links', Namespace', projRec')
    BY <1>3, <1>4, WayGrows DEF Inv, projVars, Namespace
  <1>9. P!Provisioning'
    BY <1>4, <1>7, ProvisioningKept
  <1> QED
    BY <1>2, <1>7, <1>8, <1>9 DEF Inv

\* Steps of the project controller keep it.
LEMMA ProjectStepInv == ASSUME Inv, ProjectStep PROVE Inv'
  <1>1. P!Local /\ UNCHANGED orgVars
    BY SameProjects, Zenon DEF ProjectStep
  <1>2. UNCHANGED O!vars
    BY <1>1, Zenon DEF orgVars, O!vars
  <1>3. O!Typed' /\ O!Lineage'
    BY <1>2, ConstantsFit, O!TypesKept, O!LineageKept DEF Inv
  <1>4. P!Typed'
    BY <1>1, ConstantsFit, P!LocalTypes DEF Inv
  <1>5. P!CarriedIn(RootPairs(links), projRec')
    BY <1>1, SeenRoots, ConstantsFit, P!CarriedKept DEF Inv, OnItsWay
  <1>6. P!LabelIn(RootPairs(links), Namespace')
    BY <1>1, ConstantsFit, P!LabelKept DEF Inv, OnItsWay, Namespace, P!Namespace
  <1>7. OnItsWay(links', Namespace', projRec')
    BY <1>1, <1>5, <1>6 DEF OnItsWay, orgVars
  <1>8. P!Provisioning'
    BY <1>1, <1>4, ProvisioningKept
  <1> QED
    BY <1>3, <1>4, <1>7, <1>8 DEF Inv

\* A restart keeps it.
LEMMA RestartInv == ASSUME Inv, Restart PROVE Inv'
  <1>1. O!Restart /\ P!Restart /\ projEnv' = projEnv
    BY SameOrganizations, SameProjects DEF Restart
  <1>2. O!Typed' /\ O!Lineage' /\ links' = links
    BY <1>1, ConstantsFit, O!TypesKept, O!LineageKept DEF Inv, O!Next, O!Restart
  <1>3. P!ApiTypes' /\ P!WorkerTyped(projRec') /\ fresh' \in BOOLEAN /\ projQueue' \in BOOLEAN
    BY <1>1, ConstantsFit, P!RestartTypes DEF Inv, P!Typed
  <1>4. P!EnvTypes'
    BY <1>1, <1>3 DEF Inv, P!Typed, P!EnvTypes, P!Restart
  <1>5. P!ViewTypes'
    BY <1>2, ViewFits, PTL
  <1>6. P!Typed'
    BY <1>3, <1>4, <1>5, ConstantsFit, P!TypedNext
  <1>7. P!CarriedIn(RootPairs(links), projRec')
    BY <1>1, SeenRoots, ConstantsFit, P!CarriedKept DEF Inv, OnItsWay
  <1>8. P!LabelIn(RootPairs(links), Namespace')
    BY <1>1, ConstantsFit, P!LabelKept DEF Inv, OnItsWay, Namespace, P!Namespace
  <1>9. P!Provisioning'
    BY <1>1, <1>6, ProvisioningKept
  <1> QED
    BY <1>2, <1>6, <1>7, <1>8, <1>9 DEF Inv, OnItsWay

\* The invariant holds in every reachable state.
LEMMA AlwaysInv == Spec => []Inv
  <1>1. Inv /\ [Next]_vars => Inv'
    <2> SUFFICES ASSUME Inv, [Next]_vars PROVE Inv'
      BY Zenon
    <2>1. CASE UNCHANGED vars
      <3>1. UNCHANGED O!vars /\ UNCHANGED P!vars /\ UNCHANGED projVars
        BY <2>1, Zenon DEF vars, orgVars, projVars, O!vars, P!vars, statusRoot, defaultIsolation
      <3>2. O!Typed' /\ O!Lineage' /\ P!Typed'
        BY <3>1, ConstantsFit, O!TypesKept, O!LineageKept, P!TypesKept DEF Inv
      <3>3. OnItsWay(links', Namespace', projRec')
        BY <2>1, Zenon DEF Inv, vars, orgVars, projVars, Namespace
      <3>4. P!Provisioning'
        BY <3>1, <3>2, ProvisioningKept
      <3> QED
        BY <3>2, <3>3, <3>4 DEF Inv
    <2> QED
      BY <2>1, OrganizationStepInv, ProjectStepInv, RestartInv DEF Next
  <1> QED
    BY <1>1, InitInv, PTL DEF Spec

\* A root label comes from a lineage of its organization, through the status, the
\* caches and both workers, whatever is deleted, created again, lost or restarted.
THEOREM LabelsTraced == Spec => []LabelFromLineage
  <1>1. Inv => LabelFromLineage
    BY Zenon DEF Inv, OnItsWay, P!LabelIn, RootPairs, LabelFromLineage, O!RootIn, Organizations!RootIn
  <1> QED
    BY <1>1, AlwaysInv, PTL

\* What the project controller promises of namespaces, bindings and policies holds
\* beside the organization controller too, where the roots and the default presets
\* that it reads change under it: a successful reconciliation with fresh caches leaves
\* what the project asks for, and when all has settled the namespace is there and no
\* binding of ours is left for a role that no user has.
THEOREM ProvisionedTogether ==
    Spec => []P!FreshReconcileProvisions /\ []P!NamespaceFollowsProject /\ []P!RevokedRoleUnbound
  <1>1. Inv => P!FreshReconcileProvisions
    BY ConstantsFit, P!FreshProvides DEF Inv
  <1>2. Inv => P!NamespaceFollowsProject
    BY ConstantsFit, P!NamespaceSettled DEF Inv
  <1>3. Inv => P!RevokedRoleUnbound
    BY ConstantsFit, P!RolesSettled DEF Inv
  <1> QED
    BY <1>1, <1>2, <1>3, AlwaysInv, PTL
=============================================================================
