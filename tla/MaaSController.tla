--------------------------- MODULE MaaSController ---------------------------
(***************************************************************************)
(* The MaaSConfiguration controller (internal/controller/maasconfiguration)*)
(* for one organization: it keeps an AITenant for the configuration and    *)
(* removes it, held by a finalizer, when the configuration is deleted.     *)
(* The objects of different organizations have different names and never   *)
(* meet.                                                                   *)
(*                                                                         *)
(* Organization, profile and configuration are read from lagging caches,   *)
(* the AITenant (an unstructured object) from the API server itself.  The  *)
(* operator's own updates of the configuration pass the validating         *)
(* webhook.  Around it: clients, the MaaS operator, other writers of       *)
(* AITenants, an AITenant CRD that comes and goes, failures and restarts.  *)
(***************************************************************************)
EXTENDS ApiServer, Integers

CONSTANTS
    o,           \* the organization, the configuration and the AITenant
    nameSize,    \* the length of that name
    Platforms,   \* platform configs that clients give the profile
    MaxUid,      \* bound: the largest UID
    MaxLag,      \* bound: events outstanding when a client writes
    Surroundings \* the choices for env

VARIABLES
    tenant,   \* the AITenant, None when there is none
    crd,      \* whether the AITenant CRD is installed
    queue,    \* whether the configuration is in the work queue
    rec,      \* the worker
    uids,     \* UIDs given out
    env       \* what clients do, and how much others and failures may still do

vars == <<store, cache, watch, tenant, crd, queue, rec, uids, env>>

maxAITenantNameSize == 41

\* Optional fields: those rendered from the configuration, those rendered from
\* the profile, and one that the controller does not manage.
SpecField == {"clientId", "tls", "resourceQuotas"}
PlatformField == {"issuerUrl", "gateway"}
ExtraField == {"extra"}

Kind == {"Organization", "OrganizationProfile", "MaaSConfiguration"}
Uid == 1..MaxUid
Reason == {None, "CapabilityNotManaged", "RootOrganizationRequired", "NameTooLong",
           "ExistingResourceNotOwned", "MaaSReady", "WaitingForMaaS", "Error"}

Organization == [uid : Uid, root : BOOLEAN]
OrganizationProfile == [platform : SUBSET PlatformField]
MaaSConfiguration == [uid : Uid, spec : SUBSET SpecField, deleting : BOOLEAN,
                      finalizer : BOOLEAN, reason : Reason]

\* owner is the UID of the controlling configuration, None for any other
\* controller or none.
AITenant == [owner : Uid \cup {None},
             spec : SUBSET (SpecField \cup PlatformField \cup ExtraField),
             ready : BOOLEAN, deleting : BOOLEAN]

\* specs: the specs that clients give the configuration; roots: whether the
\* organizations they create are roots; uids (bound): organizations and
\* configurations ever created; others (bound): writes of AITenants and the CRD by
\* others; faults (bound): failed calls, lost answers and restarts.
Surrounding == [specs : SUBSET SUBSET SpecField, roots : SUBSET BOOLEAN,
                uids : 0..MaxUid, others : Nat, faults : Nat]

ASSUME MaaSAssumption ==
    /\ nameSize \in Nat /\ Platforms \subseteq SUBSET PlatformField
    /\ MaxUid \in Nat /\ MaxLag \in Nat /\ Surroundings \subseteq Surrounding
    /\ None \notin Nat /\ None \notin Organization /\ None \notin OrganizationProfile
    /\ None \notin MaaSConfiguration /\ None \notin AITenant
    /\ None \notin [owner : Uid \cup {None}, leaving : BOOLEAN]

Stored(k) == store[k][o]
Cached(k) == cache[k][o]
Configuration == Stored("MaaSConfiguration")

Idle == [pc |-> "idle", inst |-> None, platform |-> {}, seen |-> None,
         reason |-> None, ok |-> TRUE]

Init ==
    /\ store = [k \in Kind |-> [n \in {o} |-> None]]
    /\ cache = store
    /\ watch = [k \in Kind |-> <<>>]
    /\ tenant = None
    /\ crd \in BOOLEAN
    /\ queue = FALSE
    /\ rec = Idle
    /\ uids = 0 /\ env \in Surroundings

-----------------------------------------------------------------------------
(* Clients. *)

Room == \A k \in Kind : Len(watch[k]) < MaxLag
FreshUid == uids < env.uids /\ uids' = uids + 1
operator == <<tenant, crd, queue, rec, env>>

\* What the webhook's validate requires of the organization, for every requester.
Validated == Cached("Organization") # None /\ Cached("Organization").root

CreateOrganization(root) ==
    /\ Room /\ Stored("Organization") = None /\ FreshUid
    /\ Write("Organization", o, [uid |-> uids + 1, root |-> root])
    /\ UNCHANGED operator

DeleteOrganization ==
    /\ Room /\ Stored("Organization") # None
    /\ Write("Organization", o, None)
    /\ UNCHANGED <<operator, uids>>

PutProfile(platform) ==
    /\ Room /\ Stored("OrganizationProfile") # [platform |-> platform]
    /\ Write("OrganizationProfile", o, [platform |-> platform])
    /\ UNCHANGED <<operator, uids>>

\* By a client, or by the garbage collector after the organization.
DeleteProfile ==
    /\ Room /\ Stored("OrganizationProfile") # None
    /\ Write("OrganizationProfile", o, None)
    /\ UNCHANGED <<operator, uids>>

PutConfiguration(spec) ==
    /\ Room /\ Validated
    /\ IF Configuration = None
       THEN /\ FreshUid
            /\ Write("MaaSConfiguration", o,
                     [uid |-> uids + 1, spec |-> spec, deleting |-> FALSE,
                      finalizer |-> FALSE, reason |-> None])
       ELSE /\ Configuration.spec # spec
            /\ Write("MaaSConfiguration", o, [Configuration EXCEPT !.spec = spec])
            /\ UNCHANGED uids
    /\ UNCHANGED operator

\* A configuration without a finalizer goes at once.
DeleteConfiguration ==
    /\ Room /\ Configuration # None /\ ~Configuration.deleting
    /\ Write("MaaSConfiguration", o,
             IF Configuration.finalizer
             THEN [Configuration EXCEPT !.deleting = TRUE] ELSE None)
    /\ UNCHANGED <<operator, uids>>

-----------------------------------------------------------------------------
(* The MaaS operator and others who write AITenants. *)

Owned(t) == t # None /\ t.owner # None

\* Mutant: maasPredicate drops deletions.
DeletionDropped(t) ==
    /\ tenant' = t
    /\ queue' = (queue \/ (t # tenant /\ Owned(t)))

\* The AITenant becomes t; a change makes mapAITenant enqueue the configuration
\* that controls it before or after.
SetTenant(t) ==
    /\ tenant' = t
    /\ queue' = (queue \/ (t # tenant /\ (Owned(tenant) \/ Owned(t))))

external == <<store, cache, watch, rec, uids>>
Other == env.others > 0 /\ env' = [env EXCEPT !.others = @ - 1]

\* The MaaS operator reports readiness, and lets a deleted AITenant go.
ReportReady ==
    /\ tenant # None /\ ~tenant.ready /\ ~tenant.deleting
    /\ SetTenant([tenant EXCEPT !.ready = TRUE])
    /\ UNCHANGED <<external, crd, env>>

FinishDeletion ==
    /\ tenant # None /\ tenant.deleting
    /\ SetTenant(None)
    /\ UNCHANGED <<external, crd, env>>

\* Somebody else deletes the AITenant, or creates one of their own.
OtherDeletes ==
    /\ tenant # None /\ Other
    /\ SetTenant(None)
    /\ UNCHANGED <<external, crd>>

foreignTenant == [owner |-> None, spec |-> ExtraField, ready |-> FALSE,
                  deleting |-> FALSE]

OtherCreates ==
    /\ crd /\ tenant = None /\ Other
    /\ SetTenant(foreignTenant)
    /\ UNCHANGED <<external, crd>>

\* Removing the CRD removes the AITenant with it.
ToggleCRD ==
    /\ Other
    /\ crd' = ~crd
    /\ SetTenant(IF crd THEN None ELSE tenant)
    /\ UNCHANGED external

-----------------------------------------------------------------------------
(* Events, failures. *)

\* Only events of the configuration itself enqueue it, and not those of its
\* status: organizations and profiles are not watched for it.
Informer(k) ==
    /\ Deliver(k)
    /\ LET old == Cached(k)
           new == Head(watch[k]).obj
           spec(x) == IF x = None THEN None ELSE <<x.uid, x.spec, x.deleting>>
       IN  queue' = (queue \/ (k = "MaaSConfiguration" /\ spec(old) # spec(new)))
    /\ UNCHANGED <<tenant, crd, rec, uids, env>>

Fault == env.faults > 0 /\ env' = [env EXCEPT !.faults = @ - 1]

\* Any other reason to reconcile.
Resync ==
    /\ Fault
    /\ Cached("MaaSConfiguration") # None
    /\ queue' = TRUE
    /\ UNCHANGED <<store, cache, watch, tenant, crd, rec, uids>>

Restart ==
    /\ Fault
    /\ cache' = store /\ watch' = [k \in Kind |-> <<>>]
    /\ queue' = (Configuration # None)
    /\ rec' = Idle
    /\ UNCHANGED <<store, tenant, crd, uids>>

-----------------------------------------------------------------------------
(* The worker: reconcileMaaS. *)

internal == <<store, cache, watch, tenant, crd, queue, uids>>

Goto(p) == rec' = [rec EXCEPT !.pc = p]

\* The action ends: r is what the conditions say.
Report(r) == rec' = [rec EXCEPT !.pc = "status", !.reason = r]
Fail == rec' = [rec EXCEPT !.pc = "status", !.reason = "Error", !.ok = FALSE]

\* Mutant: the AITenant is created without a finalizer to hold its configuration.
NeverHeld(inst) == FALSE

Unheld(inst) == ~inst.finalizer

Dequeue ==
    /\ rec.pc = "idle" /\ queue
    /\ queue' = FALSE
    /\ LET inst == Cached("MaaSConfiguration")
       IN  rec' = IF inst = None THEN rec
                  ELSE [Idle EXCEPT !.inst = inst,
                          !.pc = IF inst.deleting THEN "getForCleanup"
                                 ELSE IF Unheld(inst) THEN "addFinalizer"
                                 ELSE "hasMaaS"]
    /\ UNCHANGED <<store, cache, watch, tenant, crd, uids, env>>

\* An update of the configuration succeeds if the webhook admits it and the
\* instance in hand is the stored one.
UpdateAccepted == Validated /\ Configuration = rec.inst

AddFinalizer ==
    /\ rec.pc = "addFinalizer" /\ UpdateAccepted
    /\ LET inst == [rec.inst EXCEPT !.finalizer = TRUE]
       IN  /\ Write("MaaSConfiguration", o, inst)
           /\ rec' = [rec EXCEPT !.pc = "hasMaaS", !.inst = inst]
    /\ UNCHANGED <<tenant, crd, queue, uids, env>>

\* An error of the lookup counts as a missing CRD.
HasMaaS(answered) ==
    /\ rec.pc = "hasMaaS"
    /\ IF answered /\ crd THEN Goto("getOrganization")
       ELSE Report("CapabilityNotManaged")
    /\ IF answered THEN UNCHANGED env ELSE Fault
    /\ UNCHANGED internal

NameTooLong == nameSize > maxAITenantNameSize

GetOrganization ==
    /\ rec.pc = "getOrganization"
    /\ LET org == Cached("Organization")
       IN  IF org = None THEN Fail
           ELSE IF ~org.root THEN Report("RootOrganizationRequired")
           ELSE IF NameTooLong THEN Report("NameTooLong")
           ELSE Goto("getProfile")
    /\ UNCHANGED <<internal, env>>

GetProfile ==
    /\ rec.pc = "getProfile"
    /\ LET profile == Cached("OrganizationProfile")
       IN  IF profile = None THEN Fail
           ELSE rec' = [rec EXCEPT !.pc = "getTenant", !.platform = profile.platform]
    /\ UNCHANGED <<internal, env>>

\* Mutants: an AITenant is updated whoever controls it; the update does not start
\* from the AITenant that was read.
AnyController(t, configuration) == TRUE
Unread == None

IsControlledBy(t, configuration) == t.owner = configuration.uid
Read == tenant

GetTenant ==
    /\ rec.pc = "getTenant"
    /\ IF ~crd THEN Fail
       ELSE IF tenant = None THEN Goto("createTenant")
       ELSE IF ~IsControlledBy(tenant, rec.inst) THEN Report("ExistingResourceNotOwned")
       ELSE rec' = [rec EXCEPT !.pc = "updateTenant", !.seen = Read]
    /\ UNCHANGED <<internal, env>>

\* A managed field is set from the configuration or the profile or removed;
\* other fields stay.
render(old, spec, platform) == (old \ (SpecField \cup PlatformField)) \cup spec \cup platform

\* The answer to the create may be lost.
CreateTenant(answered) ==
    /\ rec.pc = "createTenant" /\ tenant = None /\ crd
    /\ SetTenant([owner |-> rec.inst.uid, spec |-> render({}, rec.inst.spec, rec.platform),
                  ready |-> FALSE, deleting |-> FALSE])
    /\ IF answered THEN Report("WaitingForMaaS") /\ UNCHANGED env ELSE Fail /\ Fault
    /\ UNCHANGED <<store, cache, watch, crd, uids>>

\* The conditions of the AITenant say that it is ready.
ready(t) == t.ready

\* The update carries the resource version that was read.
UpdateTenant ==
    /\ rec.pc = "updateTenant" /\ tenant = rec.seen
    /\ SetTenant([tenant EXCEPT !.spec = render(@, rec.inst.spec, rec.platform)])
    /\ Report(IF ready(tenant) THEN "MaaSReady" ELSE "WaitingForMaaS")
    /\ UNCHANGED <<store, cache, watch, crd, uids, env>>

\* AlreadyExists, NotFound or Conflict: a write that meets another state, or
\* that the webhook rejects, fails.
WriteRefused ==
    /\ \/ rec.pc = "addFinalizer" /\ ~UpdateAccepted
       \/ rec.pc = "createTenant" /\ (tenant # None \/ ~crd)
       \/ rec.pc = "updateTenant" /\ tenant # rec.seen
    /\ Fail
    /\ UNCHANGED <<internal, env>>

ActionError ==
    /\ rec.pc \in {"addFinalizer", "getOrganization", "getProfile", "getTenant",
                  "createTenant", "updateTenant"}
    /\ Fail /\ Fault
    /\ UNCHANGED internal

\* The conditions go to the configuration that was reconciled, by UID.
UpdateStatus ==
    /\ rec.pc = "status"
    /\ LET same == Configuration # None /\ Configuration.uid = rec.inst.uid
       IN  /\ IF same
              THEN Write("MaaSConfiguration", o, [Configuration EXCEPT !.reason = rec.reason])
              ELSE UNCHANGED apiVars
           /\ queue' = (queue \/ ~same \/ ~rec.ok)
    /\ rec' = Idle
    /\ UNCHANGED <<tenant, crd, uids, env>>

-----------------------------------------------------------------------------
(* The worker: cleanupMaaS. *)

\* Mutant: deleting the AITenant is left to the garbage collector.
LeftToOwner == FALSE

\* A missing AITenant and a missing CRD are both fine.
ToDelete == tenant # None /\ IsControlledBy(tenant, rec.inst)

GetForCleanup ==
    /\ rec.pc = "getForCleanup"
    /\ Goto(IF ToDelete THEN "deleteTenant" ELSE "removeFinalizer")
    /\ UNCHANGED <<internal, env>>

\* The delete names the AITenant and carries no precondition.
DeleteTenant ==
    /\ rec.pc = "deleteTenant"
    /\ IF tenant = None THEN UNCHANGED <<tenant, queue>>
       ELSE SetTenant([tenant EXCEPT !.deleting = TRUE])
    /\ Goto("removeFinalizer")
    /\ UNCHANGED <<store, cache, watch, crd, uids, env>>

\* Without its last finalizer the deleted configuration goes.
RemoveFinalizer ==
    /\ rec.pc = "removeFinalizer" /\ UpdateAccepted
    /\ Write("MaaSConfiguration", o, None)
    /\ rec' = Idle
    /\ UNCHANGED <<tenant, crd, queue, uids, env>>

\* Mutant: the error of the update is swallowed.
GivenUp == UNCHANGED queue /\ rec' = Idle

Retry == queue' = TRUE /\ rec' = Idle

RemovalRefused ==
    /\ rec.pc = "removeFinalizer" /\ ~UpdateAccepted
    /\ Retry
    /\ UNCHANGED <<store, cache, watch, tenant, crd, uids, env>>

\* A failed call of the cleanup, or of the status update.
CallError ==
    /\ rec.pc \in {"getForCleanup", "deleteTenant", "removeFinalizer", "status"}
    /\ Retry /\ Fault
    /\ UNCHANGED <<store, cache, watch, tenant, crd, uids>>

-----------------------------------------------------------------------------
Work ==
    \/ Dequeue \/ AddFinalizer \/ HasMaaS(TRUE) \/ GetOrganization \/ GetProfile
    \/ GetTenant \/ CreateTenant(TRUE) \/ UpdateTenant \/ WriteRefused \/ UpdateStatus
    \/ GetForCleanup \/ DeleteTenant \/ RemoveFinalizer \/ RemovalRefused

Clients ==
    \/ \E root \in env.roots : CreateOrganization(root)
    \/ DeleteOrganization \/ DeleteProfile \/ DeleteConfiguration
    \/ \E platform \in Platforms : PutProfile(platform)
    \/ \E spec \in env.specs : PutConfiguration(spec)

Next ==
    \/ Clients
    \/ ReportReady \/ FinishDeletion \/ OtherDeletes \/ OtherCreates \/ ToggleCRD
    \/ \E k \in Kind : Informer(k)
    \/ Work
    \/ HasMaaS(FALSE) \/ CreateTenant(FALSE) \/ ActionError \/ CallError
    \/ Resync \/ Restart

Spec == Init /\ [][Next]_vars

\* Informers deliver, the worker runs and the MaaS operator finishes deletions.
\* Failures are finitely many.
FairSpec ==
    /\ Spec /\ WF_vars(Work) /\ WF_vars(FinishDeletion)
    /\ \A k \in Kind : WF_vars(Informer(k))

-----------------------------------------------------------------------------
(* Properties. *)

Object == [k \in Kind |-> {None} \cup CASE k = "Organization" -> Organization
                                       [] k = "OrganizationProfile" -> OrganizationProfile
                                       [] k = "MaaSConfiguration" -> MaaSConfiguration]

\* Every variable keeps its shape, and the worker has an instance in hand
\* whenever it is not idle.
TypeOK ==
    /\ DOMAIN store = Kind /\ DOMAIN cache = Kind /\ DOMAIN watch = Kind
    /\ \A k \in Kind : /\ store[k] \in [{o} -> Object[k]] /\ cache[k] \in [{o} -> Object[k]]
                       /\ watch[k] \in Seq([name : {o}, obj : Object[k]])
    /\ tenant \in AITenant \cup {None} /\ crd \in BOOLEAN /\ queue \in BOOLEAN
    /\ rec \in [pc : {"idle", "addFinalizer", "hasMaaS", "getOrganization", "getProfile",
                      "getTenant", "createTenant", "updateTenant", "status",
                      "getForCleanup", "deleteTenant", "removeFinalizer"},
                inst : MaaSConfiguration \cup {None}, platform : SUBSET PlatformField,
                seen : AITenant \cup {None}, reason : Reason, ok : BOOLEAN]
    /\ rec.pc # "idle" => rec.inst \in MaaSConfiguration
    /\ rec.pc = "updateTenant" => rec.seen \in AITenant
    /\ uids \in 0..MaxUid /\ env \in Surrounding

\* An AITenant the operator made, unless it is already on its way out, has its
\* configuration, held by the finalizer: whatever stale instance the worker
\* holds, wherever it crashes and whichever answer is lost, cleanupMaaS leaves
\* no AITenant behind, also when a configuration of the same name follows.
NoOrphan ==
    tenant # None /\ tenant.owner # None /\ ~tenant.deleting =>
        /\ Configuration # None /\ Configuration.finalizer
        /\ Configuration.uid = tenant.owner

\* What the abstract life of the AITenant sees: who holds it, and the AITenant.
Life == INSTANCE AITenantLife WITH
    holder <- IF Configuration # None /\ Configuration.finalizer
              THEN Configuration.uid ELSE None,
    tenant <- IF tenant = None THEN None
              ELSE [owner |-> tenant.owner, leaving |-> tenant.deleting]

\* Every step, from stale caches, after conflicts, lost answers and restarts, is a
\* step of that life or none: reconcileMaaS creates only for the configuration that
\* holds, and cleanupMaaS releases only what is leaving or gone.
FollowsLife == Life!Spec

Foreign(t) == t # None /\ t.owner = None

\* "Existing unmanaged MaaS resources are not adopted": no step of the worker
\* takes over or rewrites an AITenant somebody else made between its Get and
\* its write.
ForeignNotAdopted ==
    [][rec' # rec /\ Foreign(tenant) =>
        /\ tenant' # None
        /\ tenant'.owner = None /\ tenant'.spec = tenant.spec]_vars

\* "... or deleted": nor does it delete one.
ForeignNeverDeleted ==
    [][rec' # rec /\ Foreign(tenant) => tenant' = tenant]_vars

OrganizationIsRoot == Stored("Organization") # None /\ Stored("Organization").root

\* A deleted configuration goes in the end, finalizer and all, if its
\* organization stays a root (the webhook rejects the operator's own update
\* otherwise) and clients leave its spec alone.
DeletionCompletes ==
    \A s \in SUBSET SpecField :
        <>[](OrganizationIsRoot /\ (Configuration # None =>
                 Configuration.deleting /\ Configuration.spec = s))
            => <>[](Configuration = None)

\* A configuration with all it needs.  Two reasons not to render end without a retry
\* and wait for what the controller does not watch: they are excluded.
Renderable(s) ==
    /\ OrganizationIsRoot /\ Stored("OrganizationProfile") # None /\ crd
    /\ Configuration # None /\ ~Configuration.deleting /\ Configuration.spec = s
    /\ Configuration.reason \notin {"CapabilityNotManaged", "RootOrganizationRequired"}

\* An AITenant that somebody else made is not mapped to the configuration it
\* obstructs: no such AITenant ever comes, or the configuration does not stay with a
\* report of it.
NeverObstructed ==
    \/ []~Foreign(tenant)
    \/ <>[](Configuration # None /\ Configuration.reason # "ExistingResourceNotOwned")

\* A renderable configuration has its AITenant rendered from its spec in the end:
\* also after conflicts, and when the AITenant of an earlier configuration was still
\* terminating, which is reported as ExistingResourceNotOwned without a retry until
\* mapAITenant tells that it has gone.  A name of exactly maxAITenantNameSize
\* characters will do.
EventuallyRendered ==
    nameSize <= maxAITenantNameSize /\ NeverObstructed =>
        \A s \in SUBSET SpecField : <>[]Renderable(s) =>
            <>[](/\ Configuration # None /\ tenant # None
                 /\ tenant.owner = Configuration.uid
                 /\ tenant.spec \cap SpecField = s)
=============================================================================
