------------------------- MODULE ProjectController -------------------------
(***************************************************************************)
(* The OrganizationProject controller                                      *)
(* (internal/controller/organizationproject) for one project name: it      *)
(* provisions the namespace of that name, the role bindings and the        *)
(* network policies in it.                                                 *)
(*                                                                         *)
(* All reads are from lagging caches.  Of organizations and profiles only  *)
(* the operator's view matters, so roots and defaults are that view.       *)
(* Around the worker: clients, the garbage collector, the termination of   *)
(* namespaces, other writers of network policies, failures and restarts.   *)
(***************************************************************************)
EXTENDS ApiServer, Integers, FiniteSets

CONSTANTS
    p,            \* the name of the project and of its namespace
    Org,          \* organizations
    MaxUid,       \* bound: projects ever created
    MaxLag,       \* bound: events outstanding when others than the operator write
    Surroundings  \* the choices for env

Isolation == {"none", "tenant", "strict"}
Role == {"edit", "view"}

npDenyIngress == "default-deny-ingress"
npAllowOrganization == "allow-from-organization"
npAllowSameNS == "allow-same-namespace"
managedNetworkPolicies == {npDenyIngress, npAllowOrganization, npAllowSameNS}

Kind == {"OrganizationProject", "Namespace", "RoleBinding", "NetworkPolicy"}
Name == {p} \cup Role \cup managedNetworkPolicies
Contents == ({"RoleBinding"} \X Role) \cup ({"NetworkPolicy"} \X managedNetworkPolicies)
Provisioned == {<<"Namespace", p>>} \cup Contents

\* orgs: the organizations that clients create the project in, with specs; deletable:
\* whether they delete it; roots: the roots that each organization gets (None: it
\* loses its root, or goes); defaults: the isolations that profiles get; foreign: the
\* kinds of objects that others write or delete under the names this controller uses.
\* Bounds: uids, how often the project is created; writes: updates of it, of roots, of
\* profiles and by others; faults: failed calls, lost answers, resyncs and restarts.
Surrounding ==
    [orgs : SUBSET Org, roots : [Org -> SUBSET (Org \cup {None})],
     specs : SUBSET [isolation : Isolation \cup {None}, users : SUBSET (STRING \X Role)],
     deletable : BOOLEAN, defaults : SUBSET Isolation,
     foreign : SUBSET {"Namespace", "RoleBinding", "NetworkPolicy"},
     uids : 0..MaxUid, writes : Nat, faults : Nat]

otherController == 0   \* in place of a UID: UIDs start at 1

ASSUME ProjectAssumption ==
    /\ p \notin Role \cup managedNetworkPolicies
    /\ None \notin Org \cup Isolation \cup Nat
    /\ MaxUid \in Nat /\ MaxLag \in Nat
    /\ Surroundings \subseteq Surrounding

VARIABLES
    root,       \* root[o]: status.root of o, None without it or without o
    defaults,   \* defaults[o]: isolation of the profile of o, None without one
    queue,      \* whether the project is in the work queue
    rec,        \* the worker
    uids,       \* UIDs given to projects
    nsUids,     \* UIDs given to namespaces
    env,        \* what clients and others do, and how much may still go wrong
    fresh       \* the reconciliation began with its caches caught up, and nobody
                \* else has written since (history)

vars == <<store, cache, watch, root, defaults, queue, rec, uids, nsUids, env, fresh>>

Project == store["OrganizationProject"][p]
Namespace == store["Namespace"][p]
Bindings == store["RoleBinding"]
Policies == store["NetworkPolicy"]

Idle == [pc |-> "idle", inst |-> None, root |-> None, isolation |-> None,
         ns |-> None, seen |-> None, plan |-> <<>>, ok |-> TRUE]

Init ==
    /\ store = [k \in Kind |-> [n \in Name |-> None]]
    /\ cache = store
    /\ watch = [k \in Kind |-> <<>>]
    /\ root = [o \in Org |-> None] /\ defaults = [o \in Org |-> None]
    /\ queue = FALSE /\ rec = Idle
    /\ uids = 0 /\ nsUids = 0 /\ env \in Surroundings /\ fresh = FALSE

-----------------------------------------------------------------------------
(* Organizations and profiles, as the operator sees them. *)

operator == <<queue, rec>>
view == <<root, defaults>>

CountedWrite == env.writes > 0 /\ env' = [env EXCEPT !.writes = @ - 1]

\* An organization has its root computed, once more when it or an ancestor was
\* replaced, or goes.
OrganizationReconciled(o, r) ==
    /\ o \in env.orgs /\ r \in env.roots[o] \ {root[o]}
    /\ IF root[o] = None THEN UNCHANGED env ELSE CountedWrite
    /\ root' = [root EXCEPT ![o] = r]
    /\ UNCHANGED <<apiVars, operator, defaults, uids, nsUids>>

SetDefault(o, isolation) ==
    /\ CountedWrite /\ o \in env.orgs /\ isolation \in env.defaults \ {defaults[o]}
    /\ defaults' = [defaults EXCEPT ![o] = isolation]
    /\ UNCHANGED <<apiVars, operator, root, uids, nsUids>>

-----------------------------------------------------------------------------
(* Clients and the cluster. *)

Room == \A k \in Kind : Len(watch[k]) < MaxLag

CreateProject(o, spec) ==
    /\ Room /\ Project = None /\ uids < env.uids /\ o \in env.orgs /\ spec \in env.specs
    /\ uids' = uids + 1
    /\ Write("OrganizationProject", p,
             [uid |-> uids', org |-> o, spec |-> spec, namespace |-> None, ready |-> FALSE])
    /\ UNCHANGED <<operator, view, nsUids, env>>

UpdateProject(spec) ==
    /\ Room /\ CountedWrite /\ Project # None /\ spec \in env.specs \ {Project.spec}
    /\ Write("OrganizationProject", p, [Project EXCEPT !.spec = spec])
    /\ UNCHANGED <<operator, view, uids, nsUids>>

DeleteProject ==
    /\ Room /\ env.deletable /\ Project # None
    /\ Write("OrganizationProject", p, None)
    /\ UNCHANGED <<operator, view, uids, nsUids, env>>

\* The deletion of a namespace only marks it.
MarkNamespace ==
    /\ Room /\ Namespace # None /\ ~Namespace.deleting
    /\ Write("Namespace", p, [Namespace EXCEPT !.deleting = TRUE])

Owned(x) == x # None /\ x.controller \notin {None, otherController}

\* The garbage collector: a namespace goes whose project, by UID, is gone, and so
\* does what was written in the name of an earlier namespace.
CollectNamespace ==
    /\ MarkNamespace /\ Owned(Namespace)
    /\ Project # None => Project.uid # Namespace.controller
    /\ UNCHANGED <<operator, view, uids, nsUids, env>>

CollectContents ==
    /\ Room /\ Namespace # None
    /\ \E c \in Contents :
          /\ Owned(store[c[1]][c[2]]) /\ store[c[1]][c[2]].controller # Namespace.uid
          /\ Write(c[1], c[2], None)
    /\ UNCHANGED <<operator, view, uids, nsUids, env>>

\* A terminating namespace loses its contents one by one, then goes.
Terminate ==
    /\ Room /\ Namespace # None /\ Namespace.deleting
    /\ \/ \E c \in Contents : /\ store[c[1]][c[2]] # None
                              /\ Write(c[1], c[2], None)
       \/ /\ \A c \in Contents : store[c[1]][c[2]] = None
          /\ Write("Namespace", p, None)
    /\ UNCHANGED <<operator, view, uids, nsUids, env>>

\* What others put under a name of this controller: controlled by another
\* controller or by nobody, a role binding for this or for another role.
foreignObjects(k, n) ==
    LET controllers == {None, otherController}
    IN  CASE k = "Namespace" -> [uid : {nsUids + 1}, controller : controllers, org : {None},
                                 root : {None}, deleting : {FALSE}]
          [] k = "RoleBinding" -> [controller : controllers, roleRef : {n, "other"},
                                   subjects : {{}}]
          [] k = "NetworkPolicy" -> [controller : controllers, spec : {"foreign"}]

\* Nothing is created in a namespace that is missing or terminating.
Creatable(k) == k = "Namespace" \/ (Namespace # None /\ ~Namespace.deleting)

OtherCreates(k, n) ==
    /\ Room /\ CountedWrite /\ k \in env.foreign
    /\ store[k][n] = None /\ Creatable(k)
    /\ \E x \in foreignObjects(k, n) : Write(k, n, x)
    /\ nsUids' = IF k = "Namespace" THEN nsUids + 1 ELSE nsUids
    /\ UNCHANGED <<operator, view, uids>>

OtherDeletes(k, n) ==
    /\ Room /\ CountedWrite /\ k \in env.foreign
    /\ IF k = "Namespace" THEN MarkNamespace
       ELSE store[k][n] # None /\ Write(k, n, None)
    /\ UNCHANGED <<operator, view, uids, nsUids>>

-----------------------------------------------------------------------------
(* Events, failures. *)

\* Mutant: namespaces are not owned.
NeverEnqueued(x) == FALSE

\* Owns(Namespace): events of a namespace enqueue the project that controls it.
Enqueued(x) == Owned(x)

\* Spec changes of the project enqueue it.  Role bindings and policies are cached,
\* not watched.
Informer(k) ==
    /\ Deliver(k)
    /\ LET old == cache[k][Head(watch[k]).name]
           new == Head(watch[k]).obj
           statusOnly == /\ old # None /\ new # None
                         /\ old.uid = new.uid /\ old.spec = new.spec
       IN  queue' = \/ queue
                    \/ k = "OrganizationProject" /\ ~statusOnly
                    \/ k = "Namespace" /\ (Enqueued(old) \/ Enqueued(new))
    /\ UNCHANGED <<view, rec, uids, nsUids, env>>

Fault == env.faults > 0 /\ env' = [env EXCEPT !.faults = @ - 1]

\* Any other reason to reconcile.
Resync ==
    /\ Fault /\ cache["OrganizationProject"][p] # None
    /\ queue' = TRUE
    /\ UNCHANGED <<apiVars, view, rec, uids, nsUids>>

Restart ==
    /\ cache' = store /\ watch' = [k \in Kind |-> <<>>]
    /\ queue' = (Project # None) /\ rec' = Idle /\ fresh' = FALSE
    /\ UNCHANGED <<store, uids, nsUids>>

-----------------------------------------------------------------------------
(* The worker: validateParentOrganization and computeEffectiveIsolation. *)

internal == <<store, cache, watch, root, defaults, queue, uids, nsUids>>

Fail == rec' = [rec EXCEPT !.pc = "status", !.ok = FALSE]

Dequeue ==
    /\ rec.pc = "idle" /\ queue
    /\ queue' = FALSE
    /\ LET inst == cache["OrganizationProject"][p]
       IN  rec' = IF inst = None THEN rec
                  ELSE [Idle EXCEPT !.pc = "organization", !.inst = inst]
    /\ UNCHANGED <<apiVars, view, uids, nsUids, env>>

\* No organization is an error, one without a root stops the reconciliation:
\* either way it is tried again.
ValidateParentOrganization ==
    /\ rec.pc = "organization"
    /\ IF root[rec.inst.org] = None THEN Fail
       ELSE rec' = [rec EXCEPT !.pc = "isolation", !.root = root[rec.inst.org]]
    /\ UNCHANGED <<internal, env>>

\* The preset of the project, else of the profile, else "tenant": an error of
\* the read counts as no profile.
effectiveIsolation(inst, default) ==
    IF inst.spec.isolation # None THEN inst.spec.isolation
    ELSE IF default # None THEN default ELSE "tenant"

\* The network policies of a preset, in the order they are written.
desiredNetworkPolicies(isolation) ==
    CASE isolation = "none" -> <<>>
      [] isolation = "strict" -> <<npDenyIngress, npAllowSameNS>>
      [] OTHER -> <<npDenyIngress, npAllowOrganization>>

subjectsForRole(users, role) == {u[1] : u \in {v \in users : v[2] = role}}

\* The calls of ensureNamespace, ensureRBAC and ensureNetworkPolicies, in order.
\* CreateOrUpdate is a get and a put.
CreateOrUpdate(k, n) == <<<<"get", k, n>>, <<"put", k, n>>>>

ensureNamespace == CreateOrUpdate("Namespace", p)

\* Mutant: a binding that the cache does not show is not deleted.
RevokeIfSeen(role) == <<<<"prune", "RoleBinding", role>>>>

Revoke(role) == <<<<"delete", "RoleBinding", role>>>>

ensureRBAC(users) ==
    LET ensure(role) == IF subjectsForRole(users, role) = {} THEN Revoke(role)
                        ELSE CreateOrUpdate("RoleBinding", role)
    IN  ensure("edit") \o ensure("view")

\* Mutant: policies the preset does not want stay.
PruneNothing(wanted) == <<>>

PruneUnwanted(wanted) ==
    LET prune(n) == IF n \in wanted THEN <<>> ELSE <<<<"prune", "NetworkPolicy", n>>>>
    IN  prune(npDenyIngress) \o prune(npAllowOrganization) \o prune(npAllowSameNS)

ensureNetworkPolicies(isolation) ==
    LET desired == desiredNetworkPolicies(isolation)
        ensure(i) == IF i > Len(desired) THEN <<>>
                     ELSE <<<<"check", "NetworkPolicy", desired[i]>>>>
                            \o CreateOrUpdate("NetworkPolicy", desired[i])
    IN  ensure(1) \o ensure(2) \o PruneUnwanted({desired[i] : i \in 1..Len(desired)})

ComputeEffectiveIsolation(answered) ==
    /\ rec.pc = "isolation"
    /\ LET default == IF answered THEN defaults[rec.inst.org] ELSE None
           isolation == effectiveIsolation(rec.inst, default)
       IN  rec' = [rec EXCEPT !.pc = "run", !.isolation = isolation,
                     !.plan = ensureNamespace \o ensureRBAC(rec.inst.spec.users)
                                \o ensureNetworkPolicies(isolation)]
    /\ IF answered THEN UNCHANGED env ELSE Fault
    /\ UNCHANGED internal

-----------------------------------------------------------------------------
(* The worker: the calls of the plan. *)

At(op) == rec.pc = "run" /\ Head(rec.plan)[1] = op
kind == Head(rec.plan)[2]
name == Head(rec.plan)[3]
cached == cache[kind][name]
stored == store[kind][name]

\* The call at the head of the plan is done.
Done == [rec EXCEPT !.plan = Tail(@),
                    !.pc = IF Len(rec.plan) = 1 THEN "status" ELSE "run"]

\* A call with an effect leads to r, or its answer is lost.
Answer(answered, r) ==
    IF answered THEN rec' = r /\ UNCHANGED env ELSE Fail /\ Fault

IsControlledBy(x) == x.controller = rec.ns

\* A policy under a desired name must be one of the namespace's own.
Check ==
    /\ At("check")
    /\ IF cached # None /\ ~IsControlledBy(cached) THEN Fail ELSE rec' = Done
    /\ UNCHANGED <<internal, env>>

Get ==
    /\ At("get")
    /\ rec' = [Done EXCEPT !.seen = cached]
    /\ UNCHANGED <<internal, env>>

\* Mutant: the policy admits the whole lineage.
LineageWide(n) == IF n = npAllowOrganization THEN rec.root ELSE n

\* What a policy admits: its organization, or what its name says.
policySpec(n) == IF n = npAllowOrganization THEN rec.inst.org ELSE n

\* What the mutate functions make of the object that was read (None: of a new one).
Mutated ==
    CASE kind = "Namespace" ->
            [uid |-> IF rec.seen = None THEN nsUids + 1 ELSE rec.seen.uid,
             controller |-> rec.inst.uid, org |-> rec.inst.org, root |-> rec.root,
             deleting |-> rec.seen # None /\ rec.seen.deleting]
      [] kind = "RoleBinding" ->
            [controller |-> rec.ns, roleRef |-> name,
             subjects |-> subjectsForRole(rec.inst.spec.users, name)]
      [] kind = "NetworkPolicy" -> [controller |-> rec.ns, spec |-> policySpec(name)]

\* Mutant: the controller is replaced whoever it is.
AnyController == TRUE

\* SetControllerReference replaces a reference to an owner of the same name,
\* and no other.
SetControllerReference == rec.seen # None => rec.seen.controller # otherController

\* The API server takes the create or the update: the object is still the one that
\* was read, and the roleRef of a binding does not change.
Accepted ==
    /\ stored = rec.seen
    /\ rec.seen = None => Creatable(kind)
    /\ kind = "RoleBinding" /\ rec.seen # None => rec.seen.roleRef = name

\* There may be nothing to change.
PutSucceeds == SetControllerReference /\ (rec.seen = Mutated \/ Accepted)

\* Mutant: the namespace is not kept for the actions that follow.
NamespaceForgotten == Done

\* The namespace is kept for the actions that follow, and recorded in the status.
Ensured ==
    IF kind = "Namespace" THEN [Done EXCEPT !.ns = Mutated.uid, !.inst.namespace = p]
    ELSE Done

Put(answered) ==
    /\ At("put") /\ PutSucceeds
    /\ IF rec.seen = Mutated THEN UNCHANGED apiVars ELSE Write(kind, name, Mutated)
    /\ nsUids' = IF kind = "Namespace" /\ rec.seen = None THEN nsUids + 1 ELSE nsUids
    /\ Answer(answered, Ensured)
    /\ UNCHANGED <<view, queue, uids>>

PutRefused ==
    /\ At("put") /\ ~PutSucceeds
    /\ Fail
    /\ UNCHANGED <<internal, env>>

\* A managed policy that the preset does not want is deleted if it is ours.
Prune ==
    /\ At("prune")
    /\ rec' = IF cached # None /\ IsControlledBy(cached)
              THEN [rec EXCEPT !.plan[1] = <<"delete", kind, name>>] ELSE Done
    /\ UNCHANGED <<internal, env>>

\* Deletions name the object and carry no precondition.
Delete(answered) ==
    /\ At("delete")
    /\ Write(kind, name, None)
    /\ Answer(answered, Done)
    /\ UNCHANGED <<view, queue, uids, nsUids>>

ActionError ==
    /\ rec.pc \in {"organization", "run"} /\ Fail /\ Fault
    /\ UNCHANGED internal

\* Mutant: a failure is not retried.
GivenUp(written) == FALSE

\* A failed reconciliation is tried again, and so is one whose status was refused.
Retried(written) == ~written \/ ~rec.ok

\* The status goes to the project that was reconciled, by UID.
UpdateStatus ==
    /\ rec.pc = "status"
    /\ LET same == Project # None /\ Project.uid = rec.inst.uid
       IN  /\ IF same THEN Write("OrganizationProject", p,
                                 [Project EXCEPT !.namespace = rec.inst.namespace,
                                                 !.ready = rec.ok])
              ELSE UNCHANGED apiVars
           /\ queue' = (queue \/ Retried(same))
    /\ rec' = Idle
    /\ UNCHANGED <<view, uids, nsUids, env>>

StatusError ==
    /\ rec.pc = "status" /\ Fault
    /\ queue' = TRUE /\ rec' = Idle
    /\ UNCHANGED <<apiVars, view, uids, nsUids>>

-----------------------------------------------------------------------------
CaughtUp == \A k \in Kind : watch[k] = <<>>

Organizations ==
    \E o \in Org : \/ \E r \in Org \cup {None} : OrganizationReconciled(o, r)
                   \/ \E d \in Isolation : SetDefault(o, d)

Environment ==
    \/ \E o \in Org, s \in env.specs : CreateProject(o, s)
    \/ \E s \in env.specs : UpdateProject(s)
    \/ DeleteProject \/ CollectNamespace \/ CollectContents \/ Terminate
    \/ \E x \in Provisioned : OtherCreates(x[1], x[2]) \/ OtherDeletes(x[1], x[2])

Calls ==
    \/ ValidateParentOrganization \/ ComputeEffectiveIsolation(TRUE)
    \/ Check \/ Get \/ Put(TRUE) \/ PutRefused \/ Prune \/ Delete(TRUE) \/ UpdateStatus

Work == (Dequeue /\ fresh' = CaughtUp) \/ (Calls /\ UNCHANGED fresh)

Failures ==
    \/ ComputeEffectiveIsolation(FALSE) \/ Put(FALSE) \/ Delete(FALSE) \/ ActionError
    \/ StatusError \/ Resync

Deliveries(k) == Informer(k) /\ UNCHANGED fresh

\* The steps that leave organizations and profiles alone.
Local ==
    \/ (Environment \/ Failures) /\ fresh' = FALSE
    \/ \E k \in Kind : Deliveries(k)
    \/ Work

Next == Local \/ (Organizations /\ fresh' = FALSE) \/ (Restart /\ Fault /\ UNCHANGED view)

Spec == Init /\ [][Next]_vars

\* Informers deliver, the worker runs, garbage is collected and namespaces
\* terminate.  Failures are finitely many.
FairSpec ==
    /\ Spec /\ WF_vars(Work)
    /\ \A k \in Kind : WF_vars(Deliveries(k))
    /\ WF_vars(CollectNamespace /\ fresh' = FALSE)
    /\ WF_vars(CollectContents /\ fresh' = FALSE) /\ WF_vars(Terminate /\ fresh' = FALSE)

-----------------------------------------------------------------------------
(* Properties. *)

Uid == 1..MaxUid
NsUid == Nat \ {0}
ProjectSpec == UNION {e.specs : e \in Surroundings}
Controller == Nat \cup {None}

ProjectObject ==
    [uid : Uid, org : Org, spec : ProjectSpec, namespace : {p, None}, ready : BOOLEAN]
NamespaceObject ==
    [uid : NsUid, controller : Controller, org : Org \cup {None}, root : Org \cup {None},
     deleting : BOOLEAN]
BindingObject ==
    [controller : Controller, roleRef : Role \cup {"other"}, subjects : SUBSET STRING]
PolicyObject ==
    [controller : Controller, spec : Org \cup managedNetworkPolicies \cup {"foreign"}]
Object == [k \in Kind |-> {None} \cup CASE k = "OrganizationProject" -> ProjectObject
                                       [] k = "Namespace" -> NamespaceObject
                                       [] k = "RoleBinding" -> BindingObject
                                       [] k = "NetworkPolicy" -> PolicyObject]

ASSUME NoneAssumption ==
    None \notin ProjectObject \cup NamespaceObject \cup BindingObject \cup PolicyObject

Op == {c \in {"get", "put", "check", "prune", "delete"} \X Kind \X Name :
          <<c[2], c[3]>> \in Provisioned}

\* Every variable keeps its shape, and the state that ensureRBAC and
\* ensureNetworkPolicies take from earlier actions is there when they run.
TypeOK ==
    /\ DOMAIN store = Kind /\ DOMAIN cache = Kind /\ DOMAIN watch = Kind
    /\ \A k \in Kind : /\ store[k] \in [Name -> Object[k]] /\ cache[k] \in [Name -> Object[k]]
                       /\ watch[k] \in Seq([name : Name, obj : Object[k]])
    /\ root \in [Org -> Org \cup {None}] /\ defaults \in [Org -> Isolation \cup {None}]
    /\ rec.pc \in {"idle", "organization", "isolation", "run", "status"}
    /\ rec.pc # "idle" => rec.inst \in ProjectObject
    /\ rec.pc \in {"isolation", "run"} => rec.root \in Org
    /\ rec.pc = "run" => /\ rec.plan \in Seq(Op) \ {<<>>} /\ rec.isolation \in Isolation
                         /\ At("put") => rec.seen \in Object[kind]
                         /\ kind # "Namespace" => rec.ns \in NsUid
    /\ rec.ok \in BOOLEAN /\ queue \in BOOLEAN /\ fresh \in BOOLEAN
    /\ uids \in 0..MaxUid /\ nsUids \in Nat /\ env \in Surrounding

\* The namespace, the bindings and the policies are what project x asks for,
\* with the given root and isolation.
NamespaceOf(x) ==
    /\ Namespace # None
    /\ Namespace.controller = x.uid /\ Namespace.org = x.org
BindingsOf(x) ==
    \A role \in Role :
        LET subjects == subjectsForRole(x.spec.users, role)
        IN  Bindings[role] = IF subjects = {} THEN None
                             ELSE [controller |-> Namespace.uid, roleRef |-> role,
                                   subjects |-> subjects]
PoliciesOf(x, isolation) ==
    LET desired == desiredNetworkPolicies(isolation)
        wanted == {desired[i] : i \in 1..Len(desired)}
        ours == {n \in managedNetworkPolicies :
                   Policies[n] # None /\ Policies[n].controller = Namespace.uid}
    IN  /\ ours = wanted
        /\ npAllowOrganization \in ours => Policies[npAllowOrganization].spec = x.org

\* A reconciliation that succeeds, whose caches were caught up when it began and
\* that nobody interfered with, leaves exactly what the project asks for,
\* whatever it found: earlier presets and users, half-finished attempts, a namespace
\* to adopt, objects of others under its names.
FreshReconcileProvisions ==
    rec.pc = "status" /\ rec.ok /\ fresh =>
        /\ NamespaceOf(rec.inst) /\ Namespace.root = rec.root
        /\ BindingsOf(rec.inst) /\ PoliciesOf(rec.inst, rec.isolation)

\* Nothing is left to do.
Settled == CaughtUp /\ ~queue /\ rec = Idle /\ Project # None

\* Stale reads of the namespace correct themselves, for its events enqueue the
\* project: when all has settled it exists for this project and organization.
NamespaceFollowsProject == Settled => NamespaceOf(Project)

\* The binding of a role that no user has any more is gone when all has settled,
\* unless others wrote it: ensureRBAC deletes it without asking the cache.
RevokedRoleUnbound ==
    Settled => \A role \in Role : subjectsForRole(Project.spec.users, role) = {} =>
                                   ~Owned(Bindings[role])

\* "ensureNetworkPolicies ensures network policies for the isolation preset and
\* removes any managed policy the preset does not require": when all has settled
\* a ready project whose namespace stays has the policies of its preset.
PresetEnforced ==
    /\ Settled /\ ~Namespace.deleting
    /\ Project.ready /\ Project.spec.isolation # None
    => PoliciesOf(Project, Project.spec.isolation)

\* Where ingress may come from.  Policies add up; with none, from anywhere.
Anywhere == {"same", "world"} \cup Org
Allows(n, s) == CASE n = npAllowOrganization -> {"same", s}
                  [] n = npAllowSameNS -> {"same"}
                  [] OTHER -> {}
Exposure ==
    LET present == {n \in managedNetworkPolicies : Policies[n] # None}
    IN  IF present = {} THEN Anywhere
        ELSE UNION {Allows(n, Policies[n].spec) : n \in present}
Intended ==
    CASE rec.isolation = "none" -> Anywhere
      [] rec.isolation = "tenant" -> {"same", rec.inst.org}
      [] rec.isolation = "strict" -> {"same"}

ByWorker == rec' # rec

\* A policy is about to be removed while the preset wants others.
Removal == At("delete") /\ kind = "NetworkPolicy" /\ rec.isolation # "none"

\* While one preset replaces another, no call of ensureNetworkPolicies opens the
\* namespace beyond what it had and what it is to have, unless it removes a policy in a
\* reconciliation that is not fresh: what it writes never does, whatever the caches
\* say.  A removal may, when the policies that the preset wants are in the cache and no
\* longer in the store.
OnlyStaleRemovalsOpen ==
    [][ByWorker /\ rec.pc = "run" /\ (Removal => fresh) =>
          Exposure' \subseteq Exposure \cup Intended]_vars

\* A namespace, binding or policy that another controller controls is never
\* overwritten, whatever the caches say: stale reads end in a conflict.
ControlledNotOverwritten ==
    [][ByWorker => \A x \in Provisioned :
          LET object == store[x[1]][x[2]]
          IN  object # None /\ object.controller = otherController =>
                  store'[x[1]][x[2]] \in {object, None}]_vars

\* "Do not delete NetworkPolicies owned by component operators or other
\* controllers."
ForeignPoliciesKept ==
    [][ByWorker => \A n \in managedNetworkPolicies :
          Policies[n] # None /\ Policies[n].controller = otherController =>
              Policies'[n] = Policies[n]]_vars

\* Nothing stands in the way of the project.
Unobstructed ==
    /\ Project # None /\ root[Project.org] # None
    /\ Namespace # None => Namespace.controller # otherController
    /\ \A role \in Role :
          Bindings[role] # None => /\ Bindings[role].controller # otherController
                                   /\ Bindings[role].roleRef = role
    /\ \A n \in managedNetworkPolicies : Policies[n] # None => Owned(Policies[n])

\* A project that stays, and whose spec changes finitely often, is ready in the end
\* if its organization is reconciled and no objects of others are in its way: when it
\* came before its organization, when it found the namespace of a deleted project of
\* the same name terminating, and when it found a namespace that nobody controls.
EventuallyReady ==
    <>[]Unobstructed => <>[](/\ Project # None /\ Project.ready /\ Project.namespace = p
                             /\ NamespaceOf(Project) /\ ~Namespace.deleting)
=============================================================================
