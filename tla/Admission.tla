----------------------------- MODULE Admission -----------------------------
(***************************************************************************)
(* The validating admission webhooks of the operator and the authorizer    *)
(* they share (internal/webhook/v1alpha1).                                 *)
(*                                                                         *)
(* A client call is validated by a handler that reads the informer caches, *)
(* one read at a time, and is persisted by the API server afterwards.      *)
(* Calls are concurrent: between two reads of a handler, and between its   *)
(* verdict and the write, other calls are persisted and events delivered.  *)
(***************************************************************************)
EXTENDS ApiServer, Integers, FiniteSets

CONSTANTS
    Org,                   \* names of organizations
    Project,               \* names of projects
    Subject,               \* admin subjects a profile may list
    User,                  \* requesters, as admission presents them
    OPERATOR_NAMESPACE,    \* the environment of the process: None where a
    CLUSTER_ADMIN_GROUPS,  \* variable is not set
    Scenarios              \* [store, calls]: the objects stored when a behaviour
                           \* begins and the calls clients make, each at most once

VARIABLES
    req,    \* req[c]: how far call c has got
    past,   \* past[k]: every <<name, object>> of kind k ever stored (history)
    quiet   \* the calls in whose handling no event was delivered (history)

vars == <<store, cache, watch, req, past, quiet>>

Calls == UNION {s.calls : s \in Scenarios}

\* Mutant: one iteration too few.
TwoLevelWalk == 2

maxAncestorWalk == 3

Kind == {"Organization", "OrganizationProfile", "OrganizationProject",
         "MaaSConfiguration"}
Name == Org \cup Project

Organization == [parent : Org \cup {None}]
OrganizationProfile == [org : Org, admins : Seq(Subject), maxProjects : Nat]
OrganizationProject == [org : Org]
MaaSConfiguration == [org : Org]

Object == Organization \cup OrganizationProfile
            \cup OrganizationProject \cup MaaSConfiguration

\* x is an object of kind k, or no object.
IsKind(k, x) ==
    x # None => /\ k = "Organization" => x \in Organization
                /\ k = "OrganizationProfile" => x \in OrganizationProfile
                /\ k = "OrganizationProject" => x \in OrganizationProject
                /\ k = "MaaSConfiguration" => x \in MaaSConfiguration

Call == [user : User, verb : {"create", "update", "delete"}, kind : Kind,
         name : Name, obj : Object \cup {None}]
View == [Kind -> [Name -> Object \cup {None}]]

\* The names are finitely many, so whatever is listed can be counted.
ASSUME ConstantsAssumption ==
    /\ None \notin Org \cup Object
    /\ \A S \in SUBSET (Org \cup Project) : Cardinality(S) \in Nat
    /\ Calls \subseteq Call
    /\ \A c \in Calls : /\ IsKind(c.kind, c.obj)
                        /\ (c.verb = "delete") = (c.obj = None)
                        /\ c.kind = "Organization" => c.name \in Org
    /\ \A s \in Scenarios :
          s.store \in View /\ \A k \in Kind, n \in Name : IsKind(k, s.store[k][n])

\* What is stored at the beginning passed the validators in its time.
ASSUME StoreAssumption ==
    \A s \in Scenarios, n \in Name :
        /\ \A k \in {"OrganizationProfile", "MaaSConfiguration"} :
              s.store[k][n] # None => s.store[k][n].org = n
        /\ s.store["MaaSConfiguration"][n] # None =>
              s.store["Organization"][n] = [parent |-> None]
        /\ LET p == s.store["OrganizationProject"][n]
               profile == s.store["OrganizationProfile"][p.org]
           IN  p # None => profile # None /\ profile.maxProjects > 0

-----------------------------------------------------------------------------
(* The authorizer. *)

\* User and group names are the sequences of the parts that ":" joins.
defaultOperatorNS == "tenancy-operator-system"
defaultClusterAdminGroups == {<<"system", "masters">>, <<"kubeadm", "cluster-admins">>}

\* newAuthorizer: groups that are set replace the default ones.
operatorNamespace ==
    IF OPERATOR_NAMESPACE = None THEN defaultOperatorNS ELSE OPERATOR_NAMESPACE
clusterAdminGroups ==
    IF CLUSTER_ADMIN_GROUPS = None THEN defaultClusterAdminGroups ELSE CLUSTER_ADMIN_GROUPS

isTrusted(u) ==
    LET operatorSAGroup == <<"system", "serviceaccounts", operatorNamespace>>
    IN  u.groups \cap ({operatorSAGroup} \cup clusterAdminGroups) # {}

subjectMatches(s, u) ==
    \/ s.kind = "User" /\ s.name = u.username
    \/ s.kind = "Group" /\ s.name \in u.groups
    \/ /\ s.kind = "ServiceAccount"
       /\ u.username = <<"system", "serviceaccount", s.namespace, s.name>>

\* The user is listed as an admin of profile p.
Lists(p, u) == \E i \in 1..Len(p.admins) : subjectMatches(p.admins[i], u)

\* A missing profile has no admins.
selfAdmin(u, o) ==
    LET p == cache["OrganizationProfile"][o]
    IN  p # None /\ Lists(p, u)

\* What an authorized call still has to pass.
Authorized(c) ==
    IF c.kind = "OrganizationProject" /\ c.verb = "create"
    THEN "quotaProfile" ELSE "admitted"

requireAncestorAdmin(c) ==
    IF isTrusted(c.user) THEN Authorized(c) ELSE "selfAdmin"

\* Mutant: the requester is not asked for.
Unasked(c) == Authorized(c)

requireSelfAdmin(c) ==
    IF isTrusted(c.user) THEN Authorized(c) ELSE "requireSelfAdmin"

-----------------------------------------------------------------------------
(* The handlers, up to their first cache read: the control point at which  *)
(* each leaves the call.  old is the stored object the call refers to.     *)

OrganizationValidateCreate(c) == requireAncestorAdmin(c)

OrganizationValidateUpdate(c, old) ==
    IF old.parent # c.obj.parent THEN "invalid" ELSE requireAncestorAdmin(c)

OrganizationProfileValidateCreate(c) ==
    IF c.name # c.obj.org THEN "invalid" ELSE requireAncestorAdmin(c)

OrganizationProfileValidateUpdate(c, old) ==
    IF old.org # c.obj.org THEN "invalid"
    ELSE IF old.admins # c.obj.admins THEN requireAncestorAdmin(c)
    ELSE requireSelfAdmin(c)

OrganizationProjectValidateCreate(c) == requireAncestorAdmin(c)

\* Mutant: the reference is not compared.
ProjectMoves(c, old) == requireAncestorAdmin(c)

OrganizationProjectValidateUpdate(c, old) ==
    IF old.org # c.obj.org THEN "invalid" ELSE requireAncestorAdmin(c)

\* Mutant: the name of the configuration is not compared.
ValidateAnyName(c) == "getOrganization"

\* The name checks of validate; its reads follow.  No configuration names no
\* organization (the schema requires the field), so that check is left out.
validate(c) == IF c.name # c.obj.org THEN "invalid" ELSE "getOrganization"

MaaSConfigurationValidateCreate(c) == validate(c)

MaaSConfigurationValidateUpdate(c, old) ==
    IF old.org # c.obj.org THEN "invalid" ELSE validate(c)

MaaSConfigurationValidateDelete(c) == requireSelfAdmin(c)

\* The rules of the webhook configuration: creates and updates of every kind
\* are validated, deletions only of MaaSConfigurations.
Webhook(c, old) ==
    CASE c.verb = "create" /\ c.kind = "Organization" ->
            OrganizationValidateCreate(c)
      [] c.verb = "update" /\ c.kind = "Organization" ->
            OrganizationValidateUpdate(c, old)
      [] c.verb = "create" /\ c.kind = "OrganizationProfile" ->
            OrganizationProfileValidateCreate(c)
      [] c.verb = "update" /\ c.kind = "OrganizationProfile" ->
            OrganizationProfileValidateUpdate(c, old)
      [] c.verb = "create" /\ c.kind = "OrganizationProject" ->
            OrganizationProjectValidateCreate(c)
      [] c.verb = "update" /\ c.kind = "OrganizationProject" ->
            OrganizationProjectValidateUpdate(c, old)
      [] c.verb = "create" /\ c.kind = "MaaSConfiguration" ->
            MaaSConfigurationValidateCreate(c)
      [] c.verb = "update" /\ c.kind = "MaaSConfiguration" ->
            MaaSConfigurationValidateUpdate(c, old)
      [] c.verb = "delete" /\ c.kind = "MaaSConfiguration" ->
            MaaSConfigurationValidateDelete(c)
      [] OTHER -> "admitted"

\* The organization whose admins the handler asks for.
Target(c, old) ==
    IF c.kind = "Organization"
    THEN IF c.verb = "create" THEN c.obj.parent ELSE c.name
    ELSE IF c.verb = "delete" THEN old.org ELSE c.obj.org

-----------------------------------------------------------------------------
(* Control points: unmade or new, one per cache read, admitted, outcomes. *)

Reading == {"selfAdmin", "parent", "requireSelfAdmin", "quotaProfile",
            "quotaCount", "getOrganization", "listConfigurations"}
Outcome == {"invalid", "forbidden", "overQuota", "error", "failed", "done"}

InitIn(s) ==
    /\ store = s.store
    /\ cache = s.store
    /\ watch = [k \in Kind |-> <<>>]
    /\ req = [c \in Calls |-> [pc |-> IF c \in s.calls THEN "new" ELSE "unmade",
                               old |-> None, cur |-> None, hops |-> 0, limit |-> 0]]
    /\ past = [k \in Kind |-> {<<n, s.store[k][n]>> :
                               n \in {m \in Name : s.store[k][m] # None}}]
    /\ quiet = {}

Init == \E s \in Scenarios : InitIn(s)

\* Call c refers to stored object old and enters its handler.
Enter(c, old) ==
    req' = [req EXCEPT ![c] =
              [pc |-> Webhook(c, old), old |-> old, cur |-> Target(c, old),
               hops |-> 0, limit |-> 0]]

Goto(c, p) == req' = [req EXCEPT ![c].pc = p]

\* The API server receives the call: an update or a deletion of an object that
\* does not exist fails before admission.
Submit(c) ==
    /\ req[c].pc = "new"
    /\ LET old == store[c.kind][c.name]
       IN  IF c.verb # "create" /\ old = None
           THEN Goto(c, "failed") ELSE Enter(c, old)
    /\ quiet' = quiet \cup {c}
    /\ UNCHANGED <<store, cache, watch, past>>

\* What a cache read of a handler leaves alone.
others == <<store, cache, watch, past, quiet>>

\* Mutant: the walk is not bounded.
Unbounded(r) == r.cur = None

\* ancestorAdmin is out of iterations or past the root.
WalkOver(r) == r.hops = maxAncestorWalk \/ r.cur = None

\* One iteration of ancestorAdmin: the selfAdmin read, and below the read of
\* the organization for its parent.
AncestorAdminSelf(c) ==
    /\ req[c].pc = "selfAdmin"
    /\ Goto(c, IF WalkOver(req[c]) THEN "forbidden"
               ELSE IF selfAdmin(c.user, req[c].cur) THEN Authorized(c)
               ELSE "parent")
    /\ UNCHANGED others

\* Mutant: the iterations are not counted.
Uncounted(hops) == hops

NextIteration(hops) == hops + 1

AncestorAdminParent(c) ==
    /\ req[c].pc = "parent"
    /\ LET o == cache["Organization"][req[c].cur]
       IN  IF o = None
           THEN Goto(c, "forbidden")
           ELSE req' = [req EXCEPT ![c].pc = "selfAdmin", ![c].cur = o.parent,
                                   ![c].hops = NextIteration(@)]
    /\ UNCHANGED others

RequireSelfAdmin(c) ==
    /\ req[c].pc = "requireSelfAdmin"
    /\ Goto(c, IF selfAdmin(c.user, req[c].cur) THEN Authorized(c)
               ELSE "forbidden")
    /\ UNCHANGED others

\* checkProjectQuota reads the profile, then lists the projects.
QuotaProfile(c) ==
    /\ req[c].pc = "quotaProfile"
    /\ LET p == cache["OrganizationProfile"][c.obj.org]
       IN  IF p = None
           THEN Goto(c, "invalid")
           ELSE req' = [req EXCEPT ![c].pc = "quotaCount",
                                   ![c].limit = p.maxProjects]
    /\ UNCHANGED others

\* The projects that view holds for organization o.
ProjectsOf(view, o) == {p \in Name : view[p] # None /\ view[p].org = o}

\* Mutant: the comparison is off by one.
OneTooMany(count, limit) == count > limit

AtLimit(count, limit) == count >= limit

QuotaCount(c) ==
    /\ req[c].pc = "quotaCount"
    /\ LET count == Cardinality(ProjectsOf(cache["OrganizationProject"], c.obj.org))
       IN  Goto(c, IF AtLimit(count, req[c].limit) THEN "overQuota" ELSE "admitted")
    /\ UNCHANGED others

\* Mutant: any organization will do.
AnyOrganization(o) == o # None

IsRoot(o) == o # None /\ o.parent = None

\* validate reads the organization, then lists the configurations; only then
\* does it ask who the requester is.
GetOrganization(c) ==
    /\ req[c].pc = "getOrganization"
    /\ Goto(c, IF IsRoot(cache["Organization"][c.obj.org])
               THEN "listConfigurations" ELSE "invalid")
    /\ UNCHANGED others

ListConfigurations(c) ==
    /\ req[c].pc = "listConfigurations"
    /\ LET view == cache["MaaSConfiguration"]
           duplicate == \E n \in Name \ {c.name} : /\ view[n] # None
                                                   /\ view[n].org = c.obj.org
       IN  Goto(c, IF duplicate THEN "invalid" ELSE requireSelfAdmin(c))
    /\ UNCHANGED others

\* Any read may fail, or the webhook may not answer in time: failurePolicy Fail.
ReadError(c) ==
    /\ req[c].pc \in Reading
    /\ Goto(c, "error")
    /\ UNCHANGED others

\* The object an update or a deletion was validated against must still be the
\* stored one.
Current(c) == store[c.kind][c.name] = IF c.verb = "create" THEN None ELSE req[c].old

\* The API server stores what was admitted.
Persist(c) ==
    /\ req[c].pc = "admitted"
    /\ Current(c)
    /\ Write(c.kind, c.name, c.obj)
    /\ past' = IF c.verb = "delete" THEN past
               ELSE [past EXCEPT ![c.kind] = @ \cup {<<c.name, c.obj>>}]
    /\ Goto(c, "done")
    /\ UNCHANGED quiet

\* The name was taken, or the object has gone.
PersistFails(c) ==
    /\ req[c].pc = "admitted"
    /\ (c.verb = "create") = (store[c.kind][c.name] # None)
    /\ Goto(c, "failed")
    /\ UNCHANGED others

\* The object changed since it was validated: the call is admitted anew.
Readmit(c) ==
    /\ req[c].pc = "admitted"
    /\ c.verb # "create"
    /\ store[c.kind][c.name] \notin {None, req[c].old}
    /\ Enter(c, store[c.kind][c.name])
    /\ quiet' = quiet \cup {c}
    /\ UNCHANGED <<store, cache, watch, past>>

Informer(k) ==
    /\ Deliver(k)
    /\ quiet' = {}
    /\ UNCHANGED <<req, past>>

Handle(c) ==
    \/ AncestorAdminSelf(c) \/ AncestorAdminParent(c) \/ RequireSelfAdmin(c)
    \/ QuotaProfile(c) \/ QuotaCount(c)
    \/ GetOrganization(c) \/ ListConfigurations(c)
    \/ Persist(c) \/ PersistFails(c) \/ Readmit(c)

Next ==
    \/ \E c \in Calls : Submit(c) \/ Handle(c) \/ ReadError(c)
    \/ \E k \in Kind : Informer(k)

Spec == Init /\ [][Next]_vars

\* Handlers run to their end and the API server stores what they admit.
FairSpec == Spec /\ WF_vars(\E c \in Calls : Handle(c))

-----------------------------------------------------------------------------
(* Properties. *)

Event == [name : Name, obj : Object \cup {None}]

\* Every variable keeps its shape; every object is of the kind it is stored
\* under, and ancestorAdmin never goes round its loop more than three times.
TypeOK ==
    /\ store \in View /\ cache \in View
    /\ watch \in [Kind -> Seq(Event)]
    /\ \A k \in Kind, n \in Name : IsKind(k, store[k][n]) /\ IsKind(k, cache[k][n])
    /\ \A k \in Kind : \A i \in 1..Len(watch[k]) : IsKind(k, watch[k][i].obj)
    /\ req \in [Calls -> [pc : {"unmade", "new", "admitted"} \cup Reading \cup Outcome,
                          old : Object \cup {None}, cur : Org \cup {None},
                          hops : 0..maxAncestorWalk, limit : Nat]]
    /\ \A c \in Calls : IsKind(c.kind, req[c].old)
    /\ past \in [Kind -> SUBSET (Name \X Object)]
    /\ \A k \in Kind : \A v \in past[k] : IsKind(k, v[2])
    /\ quiet \subseteq Calls

PastParent(o, p) == <<o, [parent |-> p]>> \in past["Organization"]
PastAdmin(u, o) == \E v \in past["OrganizationProfile"] : v[1] = o /\ Lists(v[2], u)

\* f[1], ..., f[k] climbs from o along parent links that were each stored once.
PastClimb(o, k, f) ==
    f[1] = o /\ \A i \in 1..(k - 1) : PastParent(f[i], f[i + 1])

\* The user was once listed on a profile at most maxAncestorWalk levels up.
AncestorEvidence(u, o) ==
    \E k \in 1..maxAncestorWalk : \E f \in [1..k -> Org] :
        PastClimb(o, k, f) /\ PastAdmin(u, f[k])

\* Who has to be asked, as the handlers have it: MaaSConfigurations, and updates of a
\* profile that leave its admins alone, need an admin of the organization itself;
\* other writes, updates of admins together with config among them, an admin of the
\* organization or of an ancestor.
NeedsSelf(c, old) ==
    \/ c.kind = "MaaSConfiguration"
    \/ /\ c.kind = "OrganizationProfile" /\ c.verb = "update"
       /\ old.admins = c.obj.admins
NeedsAncestor(c, old) == c.verb # "delete" /\ ~NeedsSelf(c, old)

\* The control points behind authorization.
Cleared == {"quotaProfile", "quotaCount", "overQuota", "admitted", "done"}

\* However the handlers' reads interleave with writes and with late events,
\* nobody untrusted gets past authorization who was not once an admin of the
\* organization (requireSelfAdmin), or of an organization reached from it over
\* at most two parent links (requireAncestorAdmin).  In particular nobody
\* untrusted creates a root organization, and a missing profile or
\* organization denies.
AdmittedOnEvidence ==
    \A c \in Calls :
        LET target == Target(c, req[c].old)
        IN  req[c].pc \in Cleared /\ ~isTrusted(c.user) =>
              /\ NeedsSelf(c, req[c].old) => PastAdmin(c.user, target)
              /\ NeedsAncestor(c, req[c].old) => AncestorEvidence(c.user, target)

\* What carries AdmittedOnEvidence from step to step.  Caches and events hold
\* only what was stored once;
KnownPast ==
    \A k \in Kind :
        /\ \A n \in Name : /\ store[k][n] # None => <<n, store[k][n]>> \in past[k]
                           /\ cache[k][n] # None => <<n, cache[k][n]>> \in past[k]
        /\ \A i \in 1..Len(watch[k]) :
              watch[k][i].obj # None => <<watch[k][i].name, watch[k][i].obj>> \in past[k]

\* ancestorAdmin, h iterations on, has climbed from o to cur;
Reached(o, h, cur) ==
    cur # None => \E f \in [1..(h + 1) -> Org] : PastClimb(o, h + 1, f) /\ f[h + 1] = cur

\* and a handler asks for the admins that the call needs.
CallEvidence(c, r) ==
    LET target == Target(c, r.old)
    IN  /\ r.pc \in {"selfAdmin", "parent"} =>
              NeedsAncestor(c, r.old) /\ Reached(target, r.hops, r.cur)
        /\ r.pc = "parent" => r.cur # None /\ r.hops < maxAncestorWalk
        /\ r.pc \in {"requireSelfAdmin", "getOrganization", "listConfigurations"} =>
              NeedsSelf(c, r.old) /\ r.cur = target /\ r.cur # None
        /\ r.pc \in {"getOrganization", "listConfigurations"} => c.verb # "delete"
        /\ r.pc \in {"quotaProfile", "quotaCount"} =>
              c.kind = "OrganizationProject" /\ c.verb = "create"
        /\ r.pc \in Cleared /\ ~isTrusted(c.user) =>
              /\ NeedsSelf(c, r.old) => PastAdmin(c.user, target)
              /\ NeedsAncestor(c, r.old) => AncestorEvidence(c.user, target)

EvidenceInv == KnownPast /\ \A c \in Calls : CallEvidence(c, req[c])

\* f[1], ..., f[k] climbs from o along the parent links in the cache.
Climb(o, k, f) ==
    /\ f[1] = o
    /\ \A i \in 1..(k - 1) : cache["Organization"][f[i]] = [parent |-> f[i + 1]]

\* o is at most n levels deep: a root is reached from it.
DepthAtMost(o, n) ==
    \E k \in 1..n : \E f \in [1..k -> Org] :
        Climb(o, k, f) /\ cache["Organization"][f[k]] = [parent |-> None]

\* The user is an admin of o or of one of its ancestors, less than n levels up.
AdminOfLineage(u, o, n) ==
    \E k \in 1..n : \E f \in [1..k -> Org] :
        Climb(o, k, f) /\ selfAdmin(u, f[k])

\* maxAncestorWalk is enough for every organization that the Organization
\* controller accepts (maxHierarchyDepth, three levels): a handler that ran
\* without an event in between gives the verdict of the full lineage.
LineageVerdictWithinDepth ==
    \A c \in quiet :
        LET target == Target(c, req[c].old)
        IN  /\ req[c].pc # "failed" /\ NeedsAncestor(c, req[c].old)
            /\ ~isTrusted(c.user)
            /\ target # None /\ DepthAtMost(target, 3)
            => /\ req[c].pc = "forbidden" => ~AdminOfLineage(c.user, target, 3)
               /\ req[c].pc \in Cleared => AdminOfLineage(c.user, target, 3)

\* maxProjects is 0 until somebody raises it: an organization has no projects
\* unless a profile of it with a positive maxProjects was once stored.  Holds
\* in spite of checkProjectQuota's stale reads and concurrent creates.
NoProjectBeforeQuota ==
    \A n \in Name :
        LET p == store["OrganizationProject"][n]
        IN  p # None => \E v \in past["OrganizationProfile"] :
                            v[1] = p.org /\ v[2].maxProjects > 0

\* "maxProjects caps how many OrganizationProjects this organization may own".
MaxProjectsCaps ==
    \A o \in Org :
        LET profile == store["OrganizationProfile"][o]
        IN  profile # None =>
              Cardinality(ProjectsOf(store["OrganizationProject"], o)) <= profile.maxProjects

\* The profile and the MaaSConfiguration of an organization carry its name, so
\* there is at most one of each: the create handlers check it and the update
\* handlers keep the reference.
OnePerOrganization ==
    \A k \in {"OrganizationProfile", "MaaSConfiguration"}, n \in Name :
        store[k][n] # None => store[k][n].org = n

\* A MaaSConfiguration is stored only for an organization that was a root once.
MaaSOnlyForRoots ==
    \A n \in Name : store["MaaSConfiguration"][n] # None =>
                    <<n, [parent |-> None]>> \in past["Organization"]

\* The field that no update may change.
Reference(k, x) == IF k = "Organization" THEN x.parent ELSE x.org

\* As long as an object exists its parent, or its organizationRef, stays: the
\* object an update was validated against is the one it replaces.
ReferencesImmutable ==
    [][\A k \in Kind, n \in Name :
          store[k][n] # None /\ store'[k][n] # None =>
              Reference(k, store'[k][n]) = Reference(k, store[k][n])]_vars

\* Every call the API server accepts is answered, in a cyclic hierarchy too: in
\* the end none is in a handler or waits to be stored.
EveryCallAnswered ==
    <>[](\A c \in Calls : req[c].pc \in {"unmade", "new"} \cup Outcome)
=============================================================================
