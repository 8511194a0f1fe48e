----------------------- MODULE OrganizationController -----------------------
(***************************************************************************)
(* The Organization controller (internal/controller/organization): one     *)
(* worker that takes organizations off a work queue, computes status.root  *)
(* by walking up the parents (computeRoot) and creates the restrictive     *)
(* OrganizationProfile when there is none (ensureProfile).                 *)
(*                                                                         *)
(* Around it: clients that create and delete organizations and profiles,   *)
(* the garbage collector that follows owner references, informers that     *)
(* lag, failing API calls and restarts of the operator.                    *)
(***************************************************************************)
EXTENDS ApiServer, Integers

CONSTANTS
    Org,        \* names of organizations
    MaxUid,     \* bound: how often an organization is created
    MaxLag,     \* bound: events outstanding when others than the operator write
    Surroundings  \* the choices for env

Isolation == {"none", "tenant", "strict"}

\* creatable: the <<organization, parent>> pairs that clients create; deletable: the
\* organizations that they delete; profileOps: what they do to profiles; isolations:
\* the presets that they give them; faults (bound): how many failed calls, lost
\* answers, restarts and resyncs may come.
Surrounding ==
    [creatable : SUBSET (Org \X (Org \cup {None})), deletable : SUBSET Org,
     profileOps : SUBSET {"create", "edit", "delete"}, isolations : SUBSET Isolation,
     faults : Nat]

ASSUME OrgAssumption ==
    /\ None \notin Org /\ MaxUid \in Nat /\ MaxLag \in Nat
    /\ Surroundings \subseteq Surrounding

VARIABLES
    queue,    \* the work queue
    rec,      \* the worker
    nextUid,  \* nextUid[o]: tells the next organization named o from earlier ones
    env,      \* what clients do, and how much may still go wrong
    links     \* every <<organization, parent>> ever stored (history)

vars == <<store, cache, watch, queue, rec, nextUid, env, links>>

maxHierarchyDepth == 3

Kind == {"Organization", "OrganizationProfile"}
Uid == 1..MaxUid
Root == Org \cup {None}

\* status.phase Ready is ready.
Organization == [uid : Uid, parent : Root, root : Root, ready : BOOLEAN]

\* The UID of the controlling organization, the root label, and of the spec the
\* preset that projects inherit.
OrganizationProfile == [owner : Uid \cup {None}, root : Root, isolation : Isolation]

ASSUME NoneAssumption ==
    None \notin Organization /\ None \notin OrganizationProfile /\ None \notin Nat

Idle == [pc |-> "idle", org |-> None, inst |-> None, cur |-> None,
         parent |-> None, hops |-> 0, ok |-> TRUE]

Orgs == store["Organization"]
Profiles == store["OrganizationProfile"]

Init ==
    /\ store = [k \in Kind |-> [o \in Org |-> None]]
    /\ cache = store
    /\ watch = [k \in Kind |-> <<>>]
    /\ queue = {}
    /\ rec = Idle
    /\ nextUid = [o \in Org |-> 1]
    /\ env \in Surroundings
    /\ links = {}

-----------------------------------------------------------------------------
(* Clients and the garbage collector. *)

\* What clients leave alone, and the room they wait for.
operator == <<queue, rec, nextUid, env, links>>
Room == \A k \in Kind : Len(watch[k]) < MaxLag

CreateOrganization(o, p) ==
    /\ Room /\ <<o, p>> \in env.creatable
    /\ Orgs[o] = None /\ nextUid[o] <= MaxUid
    /\ Write("Organization", o,
             [uid |-> nextUid[o], parent |-> p, root |-> None, ready |-> FALSE])
    /\ nextUid' = [nextUid EXCEPT ![o] = @ + 1]
    /\ links' = links \cup {<<o, p>>}
    /\ UNCHANGED <<queue, rec, env>>

DeleteOrganization(o) ==
    /\ Room /\ o \in env.deletable /\ Orgs[o] # None
    /\ Write("Organization", o, None)
    /\ UNCHANGED operator

\* A profile that an admin writes has no owner.
PutProfile(o) ==
    /\ Room
    /\ \E i \in env.isolations :
          IF Profiles[o] = None
          THEN /\ "create" \in env.profileOps
               /\ Write("OrganizationProfile", o,
                        [owner |-> None, root |-> None, isolation |-> i])
          ELSE /\ "edit" \in env.profileOps /\ Profiles[o].isolation # i
               /\ Write("OrganizationProfile", o, [Profiles[o] EXCEPT !.isolation = i])
    /\ UNCHANGED operator

DeleteProfile(o) ==
    /\ Room /\ "delete" \in env.profileOps /\ Profiles[o] # None
    /\ Write("OrganizationProfile", o, None)
    /\ UNCHANGED operator

\* A profile goes when the organization that owns it, by UID, is gone.
CollectGarbage(o) ==
    /\ Room /\ Profiles[o] # None /\ Profiles[o].owner # None
    /\ Orgs[o] # None => Orgs[o].uid # Profiles[o].owner
    /\ Write("OrganizationProfile", o, None)
    /\ UNCHANGED operator

-----------------------------------------------------------------------------
(* Events. *)

\* Creation and deletion of an organization enqueue it.  Whether its status
\* updates do as well is left to Resync.
OrganizationEvent ==
    /\ Deliver("Organization")
    /\ LET e == Head(watch["Organization"])
       IN  queue' = IF e.obj = None \/ cache["Organization"][e.name] = None
                    THEN queue \cup {e.name} ELSE queue
    /\ UNCHANGED <<rec, nextUid, env, links>>

\* Mutant: profiles are not owned.
UnownedProfiles(n, old, new) == {}

\* Owns(OrganizationProfile): an event of a profile enqueues its controller, by
\* name, which is also the name of the profile.
Owners(n, old, new) ==
    IF \E x \in {old, new} \ {None} : x.owner # None THEN {n} ELSE {}

ProfileEvent ==
    /\ Deliver("OrganizationProfile")
    /\ LET e == Head(watch["OrganizationProfile"])
       IN  queue' = queue \cup Owners(e.name, cache["OrganizationProfile"][e.name], e.obj)
    /\ UNCHANGED <<rec, nextUid, env, links>>

Fault == env.faults > 0 /\ env' = [env EXCEPT !.faults = @ - 1]

\* Any other reason to reconcile.
Resync(o) ==
    /\ Fault
    /\ cache["Organization"][o] # None
    /\ queue' = queue \cup {o}
    /\ UNCHANGED <<store, cache, watch, rec, nextUid, links>>

\* The operator restarts: it lists everything and enqueues every organization.
Restart ==
    /\ Fault
    /\ cache' = store
    /\ watch' = [k \in Kind |-> <<>>]
    /\ queue' = {o \in Org : Orgs[o] # None}
    /\ rec' = Idle
    /\ UNCHANGED <<store, nextUid, links>>

-----------------------------------------------------------------------------
(* The worker.  The framework runs the actions in order until one fails,    *)
(* writes the status in either case and retries after a failure.            *)

internal == <<store, cache, watch, queue, nextUid, env, links>>

Dequeue(o) ==
    /\ rec.pc = "idle" /\ o \in queue
    /\ queue' = queue \ {o}
    /\ LET inst == cache["Organization"][o]
       IN  rec' = IF inst = None THEN rec
                  ELSE [Idle EXCEPT !.pc = "computeRoot", !.org = o, !.inst = inst,
                                    !.cur = o, !.parent = inst.parent]
    /\ UNCHANGED <<store, cache, watch, nextUid, env, links>>

\* The action fails: the remaining ones are skipped.
Fail == rec' = [rec EXCEPT !.pc = "status", !.ok = FALSE]

\* Mutants: the bound of the walk is off by one; an organization whose parent is
\* missing counts as a root.
LongerWalk == rec.hops > maxHierarchyDepth
MissingParentIsRoot == rec.parent = None \/ cache["Organization"][rec.parent] = None

\* The loop of computeRootWalk is over, with an error or with a result.
WalkExhausted == rec.hops = maxHierarchyDepth
AtRoot == rec.parent = None

\* One iteration of computeRootWalk, and the assignment of its result.
ComputeRoot ==
    /\ rec.pc = "computeRoot"
    /\ LET parent == cache["Organization"][rec.parent]
       IN  IF WalkExhausted THEN Fail
           ELSE IF AtRoot
           THEN rec' = [rec EXCEPT !.pc = "getProfile", !.inst.root = rec.cur]
           ELSE IF parent = None THEN Fail
           ELSE rec' = [rec EXCEPT !.cur = rec.parent, !.parent = parent.parent,
                                   !.hops = @ + 1]
    /\ UNCHANGED internal

\* ensureProfile: a profile that exists is left as it is.
GetProfile ==
    /\ rec.pc = "getProfile"
    /\ rec' = [rec EXCEPT !.pc = IF cache["OrganizationProfile"][rec.org] = None
                                 THEN "createProfile" ELSE "status"]
    /\ UNCHANGED internal

restrictiveProfile ==
    [owner |-> rec.inst.uid, root |-> rec.inst.root, isolation |-> "tenant"]

\* Mutant: the profile is written whether or not there is one by now.
Upsert == TRUE

\* The API server accepts the create.
NoProfileYet == Profiles[rec.org] = None

\* The answer to the create may be lost.
CreateProfile(answered) ==
    /\ rec.pc = "createProfile"
    /\ NoProfileYet
    /\ Write("OrganizationProfile", rec.org, restrictiveProfile)
    /\ rec' = [rec EXCEPT !.pc = "status", !.ok = answered]
    /\ IF answered THEN UNCHANGED env ELSE Fault
    /\ UNCHANGED <<queue, nextUid, links>>

ProfileAlreadyExists ==
    /\ rec.pc = "createProfile"
    /\ ~NoProfileYet
    /\ Fail
    /\ UNCHANGED internal

ActionError ==
    /\ rec.pc \in {"computeRoot", "getProfile", "createProfile"}
    /\ Fail /\ Fault
    /\ UNCHANGED <<store, cache, watch, queue, nextUid, links>>

\* Mutant: Ready whatever the actions returned.
AlwaysReady == [rec.inst EXCEPT !.ready = TRUE]

\* What the framework writes.
Reported == [rec.inst EXCEPT !.ready = rec.ok]

\* The status goes to the organization that was reconciled, by UID.
UpdateStatus ==
    /\ rec.pc = "status"
    /\ LET same == Orgs[rec.org] # None /\ Orgs[rec.org].uid = rec.inst.uid
       IN  /\ IF same THEN Write("Organization", rec.org, Reported)
              ELSE UNCHANGED apiVars
           /\ queue' = IF same /\ rec.ok THEN queue ELSE queue \cup {rec.org}
    /\ rec' = Idle
    /\ UNCHANGED <<nextUid, env, links>>

StatusError ==
    /\ rec.pc = "status" /\ Fault
    /\ queue' = queue \cup {rec.org}
    /\ rec' = Idle
    /\ UNCHANGED <<store, cache, watch, nextUid, links>>

Work ==
    \/ \E o \in Org : Dequeue(o)
    \/ ComputeRoot \/ GetProfile \/ CreateProfile(TRUE) \/ ProfileAlreadyExists
    \/ UpdateStatus

\* What does not stop the operator.
Local ==
    \/ \E o \in Org : \/ \E p \in Root : CreateOrganization(o, p)
                      \/ DeleteOrganization(o) \/ CollectGarbage(o)
                      \/ PutProfile(o) \/ DeleteProfile(o) \/ Resync(o)
    \/ OrganizationEvent \/ ProfileEvent
    \/ Work \/ CreateProfile(FALSE) \/ ActionError \/ StatusError

Next == Local \/ Restart

Spec == Init /\ [][Next]_vars

\* Informers deliver, the garbage collector and the worker run, and every
\* organization in the work queue has its turn (it is first in, first out, and
\* retries come after a finite delay).  Failures are finitely many.
Fairness ==
    /\ WF_vars(OrganizationEvent) /\ WF_vars(ProfileEvent) /\ WF_vars(Work)
    /\ \A o \in Org : SF_vars(Dequeue(o)) /\ WF_vars(CollectGarbage(o))

FairSpec == Spec /\ Fairness

-----------------------------------------------------------------------------
(* Properties. *)

Object == [k \in Kind |-> {None} \cup IF k = "Organization" THEN Organization
                                      ELSE OrganizationProfile]

\* Every variable keeps its shape, computeRootWalk stays within its bound, and
\* the worker has an instance in hand whenever it is not idle.
TypeOK ==
    /\ DOMAIN store = Kind /\ DOMAIN cache = Kind /\ DOMAIN watch = Kind
    /\ \A k \in Kind : /\ store[k] \in [Org -> Object[k]] /\ cache[k] \in [Org -> Object[k]]
                       /\ watch[k] \in Seq([name : Org, obj : Object[k]])
    /\ queue \subseteq Org
    /\ rec \in [pc : {"idle", "computeRoot", "getProfile", "createProfile", "status"},
                org : Root, inst : Organization \cup {None}, cur : Root,
                parent : Root, hops : 0..maxHierarchyDepth, ok : BOOLEAN]
    /\ rec.pc # "idle" => rec.org \in Org /\ rec.inst \in Organization
    /\ rec.pc = "computeRoot" => rec.cur \in Org
    /\ nextUid \in [Org -> 1..(MaxUid + 1)] /\ env \in Surrounding
    /\ links \subseteq Org \X Root

\* In a relation of organizations to parents, r has no parent and is o, its parent
\* or its grandparent: three levels.
RootIn(parents, o, r) ==
    /\ <<r, None>> \in parents
    /\ \/ o = r \/ <<o, r>> \in parents
       \/ \E q \in Org : <<o, q>> \in parents /\ <<q, r>> \in parents

\* Whatever is deleted and created again while computeRootWalk reads its way
\* up: a root in a status, and the root label of a profile the operator
\* created, is an organization that a lineage of at most three levels led to.
\* Organizations that are too deep, cyclic or without ancestors get neither.
RootsFromLineage ==
    \A o \in Org :
        /\ Orgs[o] # None /\ Orgs[o].root # None => RootIn(links, o, Orgs[o].root)
        /\ Profiles[o] # None /\ Profiles[o].owner # None => RootIn(links, o, Profiles[o].root)

\* The parents of the organizations stored now.
Parents == {<<o, Orgs[o].parent>> : o \in {x \in Org : Orgs[x] # None}}

\* "root is the name of the root organization at the top of this organization's
\* lineage": at all times, as long as organizations are not deleted.
RootIsCurrent ==
    env.deletable = {} =>
        \A o \in Org : Orgs[o] # None /\ Orgs[o].root # None => RootIn(Parents, o, Orgs[o].root)

\* Phase Ready is reported only with a root.
ReadyHasRoot == \A o \in Org : Orgs[o] # None /\ Orgs[o].ready => Orgs[o].root # None

\* The operator never touches a profile that exists: what admins configured
\* survives stale caches, retries and restarts.
ProfilesKept ==
    [][rec' # rec => \A o \in Org : Profiles[o] # None => Profiles'[o] = Profiles[o]]_vars

HasRoot(o) == \E r \in Org : RootIn(Parents, o, r)

\* Again and again, every organization whose lineage is complete (its ancestors
\* may be created after it) and at most three levels deep has its root, phase
\* Ready and a profile: also after its profile was deleted, or was collected late
\* because it belonged to an earlier organization of the same name.
EventuallyReconciled ==
    \A o \in Org : []<>(HasRoot(o) => /\ Orgs[o].root # None /\ Orgs[o].ready
                                     /\ Profiles[o] # None)
=============================================================================
