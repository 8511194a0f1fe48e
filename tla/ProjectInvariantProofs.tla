----------------------- MODULE ProjectInvariantProofs -----------------------
(***************************************************************************)
(* The inductive invariant behind what the OrganizationProject controller  *)
(* provisions (Provisioning), the shapes of the controller's steps that it *)
(* depends on (Step), and its parts that say why nothing is forgotten: what *)
(* the worker plans and knows, that the namespace of the project lasts, and *)
(* that the bindings of revoked roles do not.                              *)
(***************************************************************************)
EXTENDS ProjectControllerProofs

-----------------------------------------------------------------------------
(* The invariant, first part: what the worker plans and knows. *)

\* A plan that runs is orderly, and before the namespace is there it mentions all
\* that goes into it.
Planned(r) ==
    r.pc = "run" =>
        /\ Orderly(r.plan, r.inst.spec.users, r.isolation)
        /\ r.plan[1][2] = "Namespace" => \A c \in Contents : Mentions(r.plan, c)

AllTracked == \A k \in Kind, n \in Name : Tracked(k, n)

\* The same project with the same spec.
Same(x, y) == x # None /\ y # None /\ x.uid = y.uid /\ x.spec = y.spec

Shown == Views("OrganizationProject", p)

\* The project will be reconciled again: it is queued, or what the cache shows of it
\* will still change.
Pending == queue \/ \E v \in Shown : ~Same(v, Project)

\* UIDs are given out once, and a project stays in its organization.
UidKnown(x) == x.uid <= uids /\ (Project # None /\ x.uid = Project.uid => x.org = Project.org)

\* What was seen of projects, and what the worker holds, are projects that were created;
\* it holds the current one unless that will be reconciled again.
Informed ==
    /\ \A v \in Shown : v # None => UidKnown(v)
    /\ rec.pc # "idle" => UidKnown(rec.inst)
    /\ rec.pc # "idle" /\ Project # None => Same(rec.inst, Project) \/ Pending

-----------------------------------------------------------------------------
(* The invariant, second part: why nothing is forgotten. *)

\* The worker has yet to deal with the namespace, or will fail and try again.
Failing == rec.pc = "status" /\ ~rec.ok
Early == rec.pc \in {"organization", "isolation"}

NamespaceFor(v, x) == v # None /\ v.controller = x.uid /\ v.org = x.org
NamespaceShown(x) == \E v \in Views("Namespace", p) : NamespaceFor(v, x)

\* A namespace that was read and needs no change is still shown, or the project is
\* queued since.
ReadNamespace ==
    /\ rec.pc = "run" /\ rec.plan[1] = PutNs
    /\ rec.seen # None /\ NamespaceFor(rec.seen, rec.inst)
    => queue \/ NamespaceShown(rec.inst)

NamespaceKept ==
    Project # None /\ ~Pending =>
        \/ NamespaceShown(Project) \/ Failing \/ Early
        \/ rec.pc = "run" /\ rec.plan[1] \in {GetNs, PutNs}

DeleteRole(role) == <<"delete", "RoleBinding", role>>

RolesKept ==
    Project # None /\ ~Pending =>
        \A role \in Role : subjectsForRole(Project.spec.users, role) = {} =>
            \/ ~Owned(Bindings[role]) \/ Failing \/ Early
            \/ rec.pc = "run" /\ \E i \in 1..Len(rec.plan) : rec.plan[i] = DeleteRole(role)

-----------------------------------------------------------------------------
(* The invariant, third part: reconciliations that nobody interferes with. *)

\* Object x is as it should be.
Provided(x) ==
    LET object == store[x[1]][x[2]]
        subjects == subjectsForRole(rec.inst.spec.users, x[2])
    IN  /\ x[1] = "Namespace" =>
              /\ object # None /\ object.controller = rec.inst.uid
              /\ object.org = rec.inst.org /\ object.root = rec.root /\ object.uid = rec.ns
        /\ x[1] = "RoleBinding" =>
              object = IF subjects = {} THEN None
                       ELSE [controller |-> rec.ns, roleRef |-> x[2], subjects |-> subjects]
        /\ x[1] = "NetworkPolicy" =>
              IF x[2] \in Wanted(rec.isolation)
              THEN object = [controller |-> rec.ns, spec |-> policySpec(x[2])]
              ELSE object # None => object.controller # rec.ns

Undisturbed ==
    /\ Early => \A x \in Provisioned : UpToDate(x[1], x[2])
    /\ rec.pc = "run" =>
          /\ \A x \in Provisioned : Mentions(rec.plan, x) => UpToDate(x[1], x[2])
          /\ \A x \in Provisioned : ~Mentions(rec.plan, x) => Provided(x)
          /\ rec.plan[1][1] = "put" => rec.seen = stored
    /\ rec.pc = "status" /\ rec.ok => \A x \in Provisioned : Provided(x)

Provisioning ==
    /\ AllTracked /\ Planned(rec) /\ Informed
    /\ ReadNamespace /\ NamespaceKept /\ RolesKept
    /\ fresh => Undisturbed
-----------------------------------------------------------------------------
(* The steps, as far as the invariant depends on them. *)

\* Clients create, update or delete the project.
ClientStep ==
    /\ UNCHANGED <<rec, queue>> /\ fresh' = FALSE
    /\ \E obj \in Object["OrganizationProject"] :
          /\ Write("OrganizationProject", p, obj)
          /\ \/ obj = None /\ uids' = uids
             \/ Project = None /\ obj # None /\ uids' = uids + 1 /\ obj.uid = uids'
             \/ /\ Project # None /\ obj # None /\ uids' = uids
                /\ obj.uid = Project.uid /\ obj.org = Project.org /\ obj.spec # Project.spec

\* The cluster and others write what is provisioned, no role bindings in the name of
\* a namespace.
OtherStep ==
    /\ UNCHANGED <<rec, queue, uids>> /\ fresh' = FALSE
    /\ \E x \in Provisioned : \E obj \in Object[x[1]] :
          Write(x[1], x[2], obj) /\ (x[1] = "RoleBinding" => ~Owned(obj))

EventStep == \E k \in Kind : Informer(k) /\ UNCHANGED fresh

\* Nothing of this controller changes, except that the project may be queued.
IdleStep == UNCHANGED <<apiVars, rec, uids>> /\ (queue => queue') /\ (fresh' => fresh)

DequeueStep == Dequeue /\ (fresh' => CaughtUp)

PrepareStep ==
    /\ UNCHANGED <<apiVars, queue, uids>> /\ (fresh' => fresh)
    /\ Early /\ rec'.inst = rec.inst
    /\ \/ rec'.pc = "isolation"
       \/ rec'.pc = "status" /\ ~rec'.ok
       \/ /\ rec'.pc = "run" /\ rec'.plan[1] = GetNs
          /\ Segment(rec'.plan, Provisioned, rec.inst.spec.users, rec'.isolation)

\* What the call at the head of the plan does to the API server.
Called ==
    \/ rec.plan[1][1] = "put" /\ rec.seen = Mutated /\ UNCHANGED apiVars
    \/ rec.plan[1][1] = "put" /\ Write(kind, name, Mutated)
    \/ rec.plan[1][1] = "delete" /\ Write(kind, name, None)
    \/ rec.plan[1][1] \in {"check", "get", "prune"} /\ UNCHANGED apiVars

\* Worker r goes on with the next call.
Continues(r) ==
    /\ Advanced(r, r.seen, r.ns, r.inst)
    /\ r.inst.uid = rec.inst.uid /\ r.inst.org = rec.inst.org /\ r.inst.spec = rec.inst.spec
    /\ rec.plan[1][1] = "get" => r.seen = cached
    /\ r.ns = IF rec.plan[1] = PutNs THEN Mutated.uid ELSE rec.ns
    /\ rec.plan[1][1] = "prune" => cached = None \/ ~IsControlledBy(cached)

RunStep ==
    /\ rec.pc = "run" /\ UNCHANGED <<queue, uids>> /\ (fresh' => fresh)
    /\ \/ rec'.pc = "status" /\ ~rec'.ok /\ rec'.inst = rec.inst /\ (Called \/ UNCHANGED apiVars)
       \/ Continues(rec') /\ Called
       \/ /\ UNCHANGED apiVars /\ rec.plan[1][1] = "prune"
          /\ rec'.plan = Removing(rec.plan)
          /\ rec'.pc = "run" /\ rec'.inst = rec.inst /\ rec'.root = rec.root
          /\ rec'.isolation = rec.isolation /\ rec'.ns = rec.ns /\ rec'.seen = rec.seen

ConcludeStep ==
    /\ rec.pc = "status" /\ rec' = Idle /\ UNCHANGED uids /\ (fresh' => fresh)
    /\ queue \/ ~rec.ok => queue'
    /\ \/ UNCHANGED apiVars /\ queue'
       \/ \E obj \in Object["OrganizationProject"] :
             /\ Write("OrganizationProject", p, obj)
             /\ Project # None /\ obj # None
             /\ obj.uid = Project.uid /\ obj.org = Project.org /\ obj.spec = Project.spec

Step ==
    \/ ClientStep \/ OtherStep \/ EventStep \/ Restart \/ IdleStep
    \/ DequeueStep \/ PrepareStep \/ RunStep \/ ConcludeStep

\* No object is not a project.
LEMMA ProjectNotNone == \A x \in ProjectObject : x # None
  BY NoneAssumption

-----------------------------------------------------------------------------
(* Caches. *)

\* A write, with the kinds, names and objects of this controller.
LEMMA WriteShows ==
    ASSUME ApiTypes, AllTracked,
           NEW k \in Kind, NEW n \in Name, NEW obj \in Object[k], Write(k, n, obj)
    PROVE  /\ AllTracked'
           /\ \A j \in Kind, m \in Name :
                 /\ Views(j, m) \subseteq Views(j, m)'
                 /\ ~(j = k /\ m = n) => Views(j, m)' = Views(j, m)
                 /\ ~(j = k /\ m = n) /\ UpToDate(j, m) => UpToDate(j, m)'
                 /\ store'[j][m] = IF j = k /\ m = n THEN obj ELSE store[j][m]
           /\ Views(k, n)' = Views(k, n) \cup {obj}
<1>1. ASSUME NEW j \in Kind, NEW m \in Name
      PROVE  /\ Tracked(j, m)'
             /\ Views(j, m) \subseteq Views(j, m)'
             /\ j = k /\ m = n => Views(j, m)' = Views(j, m) \cup {obj}
             /\ ~(j = k /\ m = n) => /\ Views(j, m)' = Views(j, m)
                                     /\ UpToDate(j, m) => UpToDate(j, m)'
  BY WriteViews DEF ApiTypes, AllTracked
<1>2. AllTracked'
  BY <1>1, Zenon DEF AllTracked
<1> QED
  BY <1>1, <1>2, StoreAfter

\* What was written last is shown.
LEMMA StoreShown ==
    ASSUME AllTracked, NEW k \in Kind, NEW n \in Name
    PROVE  /\ store[k][n] \in Views(k, n) /\ cache[k][n] \in Views(k, n)
           /\ CaughtUp => UpToDate(k, n) /\ Views(k, n) = {store[k][n]}
<1>1. Tracked(k, n)
  BY DEF AllTracked
<1> QED
  BY <1>1, TrackedShows DEF CaughtUp, Views

\* After a restart the cache shows the store.
LEMMA RestartShows ==
    ASSUME Restart, NEW k \in Kind, NEW n \in Name
    PROVE  Tracked(k, n)' /\ Views(k, n)' = {store[k][n]} /\ store' = store
<1>1. watch'[k] = <<>> /\ cache' = store /\ store' = store
  BY DEF Restart
<1>2. 1..Len(watch'[k]) = {}
  BY <1>1
<1> QED
  BY <1>1, <1>2 DEF Tracked, UpToDate, Views

\* What a step does to store, caches and watches.
LEMMA ApiForms ==
    ASSUME Typed, Step
    PROVE  \/ UNCHANGED apiVars
           \/ Restart
           \/ \E k \in Kind : Informer(k)
           \/ \E k \in Kind, n \in Name : \E obj \in Object[k] : Write(k, n, obj)
<1>1. CASE ClientStep \/ ConcludeStep
  BY <1>1, KindFacts DEF ClientStep, ConcludeStep
<1>2. CASE OtherStep
  BY <1>2, KindFacts DEF OtherStep
<1>3. CASE EventStep
  BY <1>3 DEF EventStep
<1>4. CASE Restart \/ IdleStep \/ DequeueStep \/ PrepareStep
  BY <1>4 DEF IdleStep, DequeueStep, Dequeue, PrepareStep
<1>5. CASE RunStep
  <2>1. rec.pc = "run" /\ (Called \/ UNCHANGED apiVars)
    BY <1>5 DEF RunStep
  <2>2. kind \in Kind /\ name \in Name /\ None \in Object[kind]
    BY <2>1, HeadFacts, ObjectFacts
  <2>3. rec.plan[1][1] = "put" => Mutated \in Object[kind]
    BY <2>1, HeadFacts, MutatedTypes DEF At
  <2> QED
    BY <2>1, <2>2, <2>3 DEF Called
<1> QED
  BY <1>1, <1>2, <1>3, <1>4, <1>5 DEF Step

\* Caches keep track.
LEMMA TrackedKept == ASSUME Typed, AllTracked, Step PROVE AllTracked'
<1>0. ApiTypes
  BY DEF Typed
<1>1. CASE UNCHANGED apiVars
  BY <1>1 DEF apiVars, AllTracked, Tracked, UpToDate
<1>2. CASE Restart
  BY <1>2, RestartShows DEF AllTracked
<1>3. ASSUME NEW k \in Kind, Informer(k) PROVE AllTracked'
  <2>1. ASSUME NEW j \in Kind, NEW m \in Name PROVE Tracked(j, m)'
    <3>1. Tracked(j, m)
      BY DEF AllTracked
    <3> QED
      BY <1>0, <1>3, <3>1, DeliverViews, Zenon DEF ApiTypes, Informer
  <2> QED
    BY <2>1 DEF AllTracked
<1>4. ASSUME NEW k \in Kind, NEW n \in Name, NEW obj \in Object[k], Write(k, n, obj)
      PROVE  AllTracked'
  BY <1>0, <1>4, WriteShows
<1> QED
  BY <1>1, <1>2, <1>3, <1>4, ApiForms

\* Without a call, nothing else is shown.
LEMMA ViewsUnchanged ==
    ASSUME UNCHANGED apiVars
    PROVE  /\ \A k, n : Views(k, n)' = Views(k, n) /\ (UpToDate(k, n) => UpToDate(k, n)')
           /\ store' = store /\ Shown' = Shown /\ Project' = Project
  BY DEF apiVars, Views, UpToDate, Shown, Project

\* A call of the plan leaves the project alone.
LEMMA CallShows ==
    ASSUME Typed, AllTracked, rec.pc = "run", Called \/ UNCHANGED apiVars
    PROVE  /\ Shown' = Shown /\ Project' = Project
           /\ \A k \in Kind, n \in Name : Views(k, n) \subseteq Views(k, n)'
           /\ \A k \in Kind, n \in Name : ~(k = kind /\ n = name) =>
                 store'[k][n] = store[k][n] /\ (UpToDate(k, n) => UpToDate(k, n)')
<1>0. ApiTypes /\ "OrganizationProject" \in Kind /\ p \in Name
  BY KindFacts DEF Typed
<1>1. CASE UNCHANGED apiVars
  BY <1>1, ViewsUnchanged
<1>2. ASSUME NEW obj \in Object[kind], Write(kind, name, obj)
      PROVE  /\ Shown' = Shown /\ Project' = Project
             /\ \A k \in Kind, n \in Name : Views(k, n) \subseteq Views(k, n)'
             /\ \A k \in Kind, n \in Name : ~(k = kind /\ n = name) =>
                   store'[k][n] = store[k][n] /\ (UpToDate(k, n) => UpToDate(k, n)')
  <2>1. kind \in Kind /\ name \in Name /\ kind # "OrganizationProject"
    BY HeadFacts
  <2>2. \A j \in Kind, m \in Name :
           /\ Views(j, m) \subseteq Views(j, m)'
           /\ ~(j = kind /\ m = name) => Views(j, m)' = Views(j, m)
           /\ ~(j = kind /\ m = name) /\ UpToDate(j, m) => UpToDate(j, m)'
           /\ store'[j][m] = IF j = kind /\ m = name THEN obj ELSE store[j][m]
    BY <1>0, <1>2, <2>1, WriteShows
  <2> QED
    BY <1>0, <2>1, <2>2 DEF Shown, Project
<1>3. None \in Object[kind] /\ (rec.plan[1][1] = "put" => Mutated \in Object[kind])
  BY HeadFacts, ObjectFacts, MutatedTypes, Zenon DEF At
<1> QED
  BY <1>1, <1>2, <1>3 DEF Called

-----------------------------------------------------------------------------
(* Who will reconcile the project again. *)

\* The project has been replaced by another one or by another version only if it will
\* be reconciled again.
Stays == Project # None /\ Same(Project', Project) /\ Project'.org = Project.org

\* A project that is to be reconciled again is, unless the worker takes it; and so is
\* one that clients created or updated.
LEMMA PendingKept ==
    ASSUME Typed, AllTracked, Informed, Step
    PROVE  /\ Pending => Pending' \/ Dequeue
           /\ Project' # None => Stays \/ Pending'
           /\ Project' # None /\ Restart => Pending'
<1> DEFINE k == "OrganizationProject"
<1>0. /\ ApiTypes /\ k \in Kind /\ p \in Name
      /\ Project \in Shown /\ cache[k][p] \in Shown
      /\ Shown \subseteq {None} \cup ProjectObject
  BY KindFacts, StoreShown, ViewsTyped, ObjectFacts DEF Typed, ApiTypes, Shown, Project
<1>1. ASSUME Project' = Project, Shown \subseteq Shown', queue => queue'
      PROVE  (Pending => Pending') /\ (Project' # None => Stays)
  BY <1>1 DEF Pending, Stays, Same
<1>2. CASE UNCHANGED apiVars /\ (queue => queue') /\ ~Restart
  BY <1>1, <1>2, ViewsUnchanged
<1>3. ASSUME NEW obj \in Object[k], Write(k, p, obj)
      PROVE  Project' = obj /\ Shown' = Shown \cup {obj}
  BY <1>0, <1>3, WriteShows DEF Shown, Project
<1>4. CASE ClientStep
  <2>1. PICK obj \in Object[k] :
            /\ Write(k, p, obj)
            /\ \/ obj = None /\ uids' = uids
               \/ Project = None /\ obj # None /\ uids' = uids + 1 /\ obj.uid = uids'
               \/ /\ Project # None /\ obj # None /\ uids' = uids
                  /\ obj.uid = Project.uid /\ obj.org = Project.org /\ obj.spec # Project.spec
    BY <1>4 DEF ClientStep
  <2>2. Project' = obj /\ Shown' = Shown \cup {obj}
    BY <1>3, <2>1
  <2>3. CASE obj = None
    <3>1. ~Same(Project, Project')
      BY <2>2, <2>3 DEF Same
    <3> QED
      BY <1>0, <2>2, <2>3, <3>1 DEF Pending, Restart
  <2>4. CASE Project = None
    <3>1. ~Same(Project, Project')
      BY <2>4 DEF Same
    <3> QED
      BY <1>0, <2>2, <3>1 DEF Pending
  <2>5. CASE Project # None /\ obj # None
    <3>1. ~Same(Project, Project')
      BY <2>1, <2>2, <2>5 DEF Same
    <3> QED
      BY <1>0, <2>2, <3>1 DEF Pending
  <2> QED
    BY <2>1, <2>3, <2>4, <2>5
<1>5. CASE Restart
  <2>1. queue' = (Project # None) /\ Project' = Project /\ Shown' = {Project}
    BY <1>0, <1>5, RestartShows, Zenon DEF Restart, Project, Shown
  <2>2. Project = None => ~Same(Project, Project')
    BY DEF Same
  <2> QED
    BY <2>1, <2>2, Zenon DEF Pending
<1>6. CASE OtherStep
  <2>1. PICK x \in Provisioned : \E obj \in Object[x[1]] : Write(x[1], x[2], obj)
    BY <1>6 DEF OtherStep
  <2>2. x[1] \in Kind /\ x[2] \in Name /\ x[1] # k
    BY KindFacts, Zenon
  <2>3. Project' = Project /\ Shown' = Shown
    BY <1>0, <2>1, <2>2, WriteShows DEF Project, Shown
  <2> QED
    BY <1>1, <1>6, <1>5, <2>3 DEF OtherStep
<1>7. CASE EventStep
  <2>1. PICK j \in Kind : Informer(j)
    BY <1>7 DEF EventStep
  <2> DEFINE old == cache[k][p]
             new == Head(watch[j]).obj
  <2>2. /\ Deliver(j) /\ Project' = Project /\ (queue => queue')
    BY <2>1, Zenon DEF Informer, Deliver, Project
  <2>3. /\ Shown \subseteq Shown' \cup {old} /\ Shown' \subseteq Shown
        /\ ~(j = k /\ Head(watch[j]).name = p) => Shown' = Shown
        /\ j = k /\ Head(watch[j]).name = p => new \in Shown'
    BY <1>0, <2>2, DeliverViews DEF ApiTypes, Shown
  <2>4. CASE ~(j = k /\ Head(watch[j]).name = p)
    BY <1>1, <1>5, <2>2, <2>3, <2>4, Zenon
  <2>5. CASE j = k /\ Head(watch[j]).name = p
    <3>1. Project' # None => Stays
      BY <2>2 DEF Stays, Same
    <3>2. ASSUME Pending PROVE Pending'
      <4>1. CASE queue'
        BY <4>1 DEF Pending
      <4>2. CASE ~queue'
        <5>1. /\ old # None /\ new # None /\ old.uid = new.uid /\ old.spec = new.spec
          BY <2>1, <2>5, <4>2, Zenon DEF Informer
        <5>2. PICK v \in Shown : ~Same(v, Project)
          BY <2>2, <3>2, <4>2 DEF Pending
        <5>3. CASE v = old
          <6>1. ~Same(new, Project')
            BY <2>2, <5>1, <5>2, <5>3 DEF Same
          <6> QED
            BY <2>3, <2>5, <6>1, Zenon DEF Pending
        <5> QED
          BY <2>2, <2>3, <5>2, <5>3 DEF Pending
      <4> QED
        BY <4>1, <4>2
    <3> QED
      BY <1>5, <3>1, <3>2
  <2> QED
    BY <2>4, <2>5
<1>8. CASE IdleStep \/ PrepareStep
  BY <1>2, <1>5, <1>8 DEF IdleStep, PrepareStep
<1>9. CASE DequeueStep
  <2>1. UNCHANGED apiVars /\ Dequeue
    BY <1>9 DEF DequeueStep, Dequeue
  <2>2. Project' # None => Stays
    BY <2>1, ViewsUnchanged, Zenon DEF Stays, Same
  <2> QED
    BY <1>5, <2>1, <2>2
<1>10. CASE RunStep
  BY <1>1, <1>5, <1>10, CallShows, Zenon DEF RunStep
<1>11. CASE ConcludeStep
  <2>1. CASE UNCHANGED apiVars
    BY <1>2, <1>5, <1>11, <2>1 DEF ConcludeStep
  <2>2. ASSUME NEW obj \in Object[k], Write(k, p, obj), Project # None, obj # None,
               obj.uid = Project.uid, obj.org = Project.org, obj.spec = Project.spec
        PROVE  Stays /\ (Pending => Pending')
    <3>1. Project' = obj /\ Shown' = Shown \cup {obj} /\ (queue => queue')
      BY <1>3, <1>11, <2>2 DEF ConcludeStep
    <3>2. \A v : Same(v, Project) <=> Same(v, Project')
      BY <2>2, <3>1, Zenon DEF Same
    <3> QED
      BY <2>2, <3>1, <3>2, Zenon DEF Pending, Stays, Same
  <2> QED
    BY <1>5, <1>11, <2>1, <2>2 DEF ConcludeStep
<1> QED
  BY <1>4, <1>5, <1>6, <1>7, <1>8, <1>9, <1>10, <1>11 DEF Step

\* The worker stays informed.
LEMMA InformedKept == ASSUME Typed, Typed', AllTracked, Informed, Step PROVE Informed'
\* What a step does to the project, and what is shown of it.
<1>ProjectForms. ASSUME Typed, AllTracked, Step
                 PROVE  /\ \/ Project' = None /\ uids' = uids
                           \/ Project' # None /\ uids' = uids + 1 /\ Project'.uid = uids'
                           \/ /\ Project # None /\ Project' # None /\ uids' = uids
                              /\ Project'.uid = Project.uid /\ Project'.org = Project.org
                        /\ Shown' \subseteq Shown \cup {Project'}
  <2> USE <1>ProjectForms
  <2> DEFINE k == "OrganizationProject"
  <2>0. ApiTypes /\ k \in Kind /\ p \in Name
    BY KindFacts DEF Typed
  <2>1. ASSUME NEW obj \in Object[k], Write(k, p, obj)
        PROVE  Project' = obj /\ Shown' = Shown \cup {obj}
    BY <2>0, <2>1, WriteShows DEF Shown, Project
  <2>2. CASE ClientStep
    BY <2>1, <2>2 DEF ClientStep
  <2>3. CASE ConcludeStep
    <3>1. CASE UNCHANGED apiVars
      BY <2>3, <3>1, ViewsUnchanged DEF ConcludeStep
    <3> QED
      BY <2>1, <2>3, <3>1 DEF ConcludeStep
  <2>4. CASE OtherStep
    <3>1. PICK x \in Provisioned : \E obj \in Object[x[1]] : Write(x[1], x[2], obj)
      BY <2>4 DEF OtherStep
    <3>2. x[1] \in Kind /\ x[2] \in Name /\ x[1] # k
      BY KindFacts, Zenon
    <3>3. Project' = Project /\ Shown' = Shown
      BY <2>0, <3>1, <3>2, WriteShows DEF Project, Shown
    <3> QED
      BY <2>4, <3>3 DEF OtherStep
  <2>5. CASE EventStep
    <3>1. PICK j \in Kind : Deliver(j) /\ uids' = uids
      BY <2>5, Zenon DEF EventStep, Informer
    <3>2. Shown' \subseteq Shown /\ Project' = Project
      BY <2>0, <3>1, DeliverViews, Zenon DEF ApiTypes, Shown, Project, Deliver
    <3> QED
      BY <3>1, <3>2
  <2>6. CASE Restart
    <3>1. Project' = Project /\ Shown' = {Project} /\ uids' = uids
      BY <2>0, <2>6, RestartShows, Zenon DEF Project, Shown, Restart
    <3> QED
      BY <3>1
  <2>7. CASE IdleStep \/ DequeueStep \/ PrepareStep
    BY <2>7, ViewsUnchanged DEF IdleStep, DequeueStep, Dequeue, PrepareStep
  <2>8. CASE RunStep
    BY <2>8, CallShows, Zenon DEF RunStep
  <2> QED
    BY <2>2, <2>3, <2>4, <2>5, <2>6, <2>7, <2>8 DEF Step
\* What a step does to the project that the worker holds.
<1>WorkerForms. ASSUME Typed, Step
                PROVE  \/ rec' = rec
                       \/ rec'.pc = "idle"
                       \/ /\ DequeueStep /\ UNCHANGED apiVars
                          /\ rec'.pc = "organization" /\ rec'.inst = cache["OrganizationProject"][p]
                       \/ /\ rec.pc # "idle" /\ rec'.inst.uid = rec.inst.uid
                          /\ rec'.inst.org = rec.inst.org /\ rec'.inst.spec = rec.inst.spec
  <2> USE <1>WorkerForms
  <2>1. CASE ClientStep \/ OtherStep \/ IdleStep \/ EventStep
    BY <2>1, Zenon DEF ClientStep, OtherStep, IdleStep, EventStep, Informer
  <2>2. CASE ConcludeStep \/ Restart
    BY <2>2 DEF ConcludeStep, Restart, Idle
  <2>3. CASE DequeueStep
    <3>1. CASE cache["OrganizationProject"][p] = None
      BY <2>3, <3>1 DEF DequeueStep, Dequeue
    <3>2. CASE cache["OrganizationProject"][p] # None
      BY <2>3, <3>2 DEF DequeueStep, Dequeue, Idle
    <3> QED
      BY <3>1, <3>2
  <2>4. CASE PrepareStep
    BY <2>4, Zenon DEF PrepareStep, Early
  <2>5. CASE RunStep
    BY <2>5, Zenon DEF RunStep, Continues
  <2> QED
    BY <2>1, <2>2, <2>3, <2>4, <2>5 DEF Step
<1> DEFINE Known(x) == /\ x.uid <= uids'
                       /\ Project' # None /\ x.uid = Project'.uid => x.org = Project'.org
<1>0. /\ Shown \subseteq {None} \cup ProjectObject
      /\ cache["OrganizationProject"][p] \in Shown
  BY KindFacts, StoreShown, ViewsTyped, ObjectFacts DEF Typed, ApiTypes, Shown
<1>1. /\ uids \in Nat /\ uids' \in Nat
      /\ Project' = None \/ Project'.uid \in Nat
  <2>1. Project' \in Object["OrganizationProject"]
    BY KindFacts, Zenon DEF Project, Typed, ApiTypes, ApiTyped
  <2> QED
    BY <2>1, ObjectFacts, ProjectAssumption DEF Typed, EnvTypes, ProjectObject, Uid
<1>2. ASSUME NEW x \in ProjectObject, UidKnown(x) PROVE Known(x)
  <2>1. x.uid \in Nat /\ x.uid <= uids
    BY <1>2, ProjectAssumption DEF UidKnown, ProjectObject, Uid
  <2>2. x.uid <= uids'
    BY <1>1, <2>1, <1>ProjectForms
  <2>3. ASSUME Project' # None, x.uid = Project'.uid PROVE x.org = Project'.org
    <3>1. ~(uids' = uids + 1 /\ Project'.uid = uids')
      BY <1>1, <2>1, <2>3
    <3> QED
      BY <1>2, <2>3, <3>1, <1>ProjectForms DEF UidKnown
  <2> QED
    BY <2>2, <2>3
<1>3. Project' # None => Known(Project')
  <2>1. CASE uids' = uids + 1 /\ Project'.uid = uids'
    BY <1>1, <2>1
  <2>2. CASE /\ Project # None /\ Project' # None /\ uids' = uids
             /\ Project'.uid = Project.uid
    <3>1. Project \in Shown
      BY StoreShown, KindFacts DEF Project, Shown
    <3> QED
      BY <2>2, <3>1 DEF Informed, UidKnown
  <2> QED
    BY <2>1, <2>2, <1>ProjectForms
<1>4. \A v \in Shown' : v # None => Known(v)
  <2>1. \A v \in Shown : v # None => Known(v)
    BY <1>0, <1>2, Zenon DEF Informed
  <2> QED
    BY <1>3, <2>1, <1>ProjectForms
<1>5. rec.pc # "idle" => rec.inst \in ProjectObject /\ Known(rec.inst)
  BY <1>2, Zenon DEF Informed, Typed, WorkerTyped
<1>6. ASSUME rec'.pc # "idle" PROVE Known(rec'.inst)
  <2>1. rec'.inst \in ProjectObject
    BY <1>6 DEF Typed, WorkerTyped
  <2>2. CASE DequeueStep /\ UNCHANGED apiVars /\ rec'.inst = cache["OrganizationProject"][p]
    <3>1. rec'.inst \in Shown /\ rec'.inst # None
      BY <1>0, <2>1, <2>2, ProjectNotNone
    <3> QED
      BY <1>0, <1>2, <3>1 DEF Informed
  <2>3. CASE /\ rec.pc # "idle" /\ rec'.inst.uid = rec.inst.uid
             /\ rec'.inst.org = rec.inst.org
    BY <1>5, <2>3, Zenon
  <2> QED
    BY <1>5, <1>6, <2>2, <2>3, <1>WorkerForms
<1>7. ASSUME rec'.pc # "idle", Project' # None, ~Pending' PROVE Same(rec'.inst, Project')
  <2>1. Stays
    BY <1>7, PendingKept
  <2>2. rec'.inst \in ProjectObject /\ rec'.inst # None
    BY <1>7, ProjectNotNone DEF Typed, WorkerTyped
  <2>3. CASE DequeueStep /\ UNCHANGED apiVars /\ rec'.inst = cache["OrganizationProject"][p]
    <3>1. rec'.inst \in Shown'
      BY <1>0, <2>3, ViewsUnchanged
    <3> QED
      BY <1>7, <3>1, Zenon DEF Pending
  <2>4. CASE rec.pc # "idle" /\ rec'.inst.uid = rec.inst.uid /\ rec'.inst.spec = rec.inst.spec
    <3>1. ~Pending
      BY <1>7, <2>4, PendingKept, Zenon DEF Dequeue
    <3>2. Same(rec.inst, Project)
      BY <2>1, <2>4, <3>1 DEF Informed, Stays
    <3> QED
      BY <2>1, <2>2, <2>4, <3>2 DEF Stays, Same
  <2> QED
    BY <1>7, <2>3, <2>4, <1>WorkerForms
<1> QED
  BY <1>4, <1>6, <1>7, Zenon DEF Informed, UidKnown

-----------------------------------------------------------------------------
(* Plans stay orderly. *)

\* Plans stay orderly and mention what is left to do.
LEMMA PlannedKept == ASSUME Typed, Typed', Planned(rec), Step PROVE Planned(rec')
<1>1. CASE rec' = rec \/ rec'.pc # "run"
  BY <1>1 DEF Planned
<1>2. CASE ClientStep \/ OtherStep \/ IdleStep \/ EventStep
  BY <1>1, <1>2, Zenon DEF ClientStep, OtherStep, IdleStep, EventStep, Informer
<1>3. CASE ConcludeStep \/ Restart \/ DequeueStep
  <2>1. rec' = Idle \/ rec' = rec \/ rec'.pc = "organization"
    BY <1>3, Zenon DEF ConcludeStep, Restart, Idle, DequeueStep, Dequeue
  <2> QED
    BY <1>1, <2>1 DEF Idle
<1>4. CASE PrepareStep
  BY <1>1, <1>4, KindFacts, Zenon DEF PrepareStep, Planned, Segment
<1>5. CASE RunStep
  <2> DEFINE s == rec.plan
             users == rec.inst.spec.users
  <2>1. /\ rec.pc = "run" /\ Runnable(s, rec.seen, rec.ns) /\ s \in Seq(Op) /\ s # <<>>
    BY <1>5, HeadFacts, Zenon DEF RunStep, Typed, WorkerTyped
  <2>2. /\ Orderly(s, users, rec.isolation)
        /\ s[1][2] = "Namespace" => \A c \in Contents : Mentions(s, c)
    BY <2>1 DEF Planned
  <2>3. CASE Continues(rec') /\ rec'.pc = "run"
    <3>1. rec'.plan = Tail(s) /\ rec'.inst.spec = rec.inst.spec /\ rec'.isolation = rec.isolation
      BY <2>3, Zenon DEF Continues, Advanced
    <3>2. Orderly(rec'.plan, users, rec'.isolation)
      BY <2>1, <2>2, <3>1, RestOrderly
    <3>3. ASSUME rec'.plan[1][2] = "Namespace", NEW c \in Contents PROVE Mentions(rec'.plan, c)
      <4>1. Runnable(rec'.plan, rec'.seen, rec'.ns) /\ Len(s) # 1
        BY <2>3 DEF Typed, WorkerTyped, Continues, Advanced
      <4>2. Len(s) \in Nat /\ Len(s) > 1 /\ Tail(s)[1] = s[2]
        BY <2>1, <4>1, SequenceFacts
      <4>3. s[1] = GetNs
        <5>1. 2 \in 1..Len(s) /\ s[2][2] = "Namespace"
          BY <3>1, <3>3, <4>2
        <5> QED
          BY <2>1, <5>1 DEF Runnable, NamespaceFirst
      <4>4. s[1][2] = "Namespace" /\ ~About(s[1], c)
        BY <4>3 DEF GetNs, About, Contents
      <4>5. Mentions(s, c) => About(s[1], c) \/ Mentions(Tail(s), c)
        BY <2>1, <2>2, RestMentions, KindFacts, Zenon
      <4> QED
        BY <2>2, <3>1, <4>4, <4>5, Zenon
    <3> QED
      BY <3>1, <3>2, <3>3, Zenon DEF Planned
  <2>4. CASE /\ s[1][1] = "prune"
             /\ rec'.plan = Removing(s)
             /\ rec'.inst = rec.inst /\ rec'.isolation = rec.isolation
    <3>1. /\ Orderly(rec'.plan, users, rec'.isolation)
          /\ rec'.plan[1][2] = s[1][2]
          /\ \A c : Mentions(rec'.plan, c) <=> Mentions(s, c)
      <4>1. /\ Orderly(rec'.plan, users, rec'.isolation)
            /\ rec'.plan[1] = <<"delete", s[1][2], s[1][3]>>
            /\ \A c : Mentions(rec'.plan, c) <=> Mentions(s, c)
        <5>1. /\ Orderly(Removing(s), users, rec.isolation)
              /\ Removing(s)[1] = <<"delete", s[1][2], s[1][3]>>
              /\ \A c : Mentions(Removing(s), c) <=> Mentions(s, c)
          BY <2>1, <2>2, <2>4, RemovalOrderly, Zenon
        <5> QED
          BY <2>4, <5>1, Zenon
      <4> QED
        BY <4>1
    <3> QED
      BY <2>2, <2>4, <3>1, Zenon DEF Planned
  <2> QED
    BY <1>1, <1>5, <2>3, <2>4 DEF RunStep
<1> QED
  BY <1>2, <1>3, <1>4, <1>5 DEF Step

\* A put comes right after the get of the same object.
LEMMA PutAfterGet ==
    ASSUME Typed, rec.pc = "run", Continues(rec'), rec'.pc = "run", rec'.plan[1][1] = "put"
    PROVE  rec.plan[1] = <<"get", rec'.plan[1][2], rec'.plan[1][3]>>
<1> DEFINE s == rec.plan
<1>1. /\ s \in Seq(Op) /\ s # <<>> /\ Len(s) # 1 /\ Paired(s) /\ rec'.plan = Tail(s)
  BY DEF Typed, WorkerTyped, Runnable, Continues, Advanced
<1> HIDE DEF s
<1>2. Len(s) \in Nat /\ Len(s) > 1 /\ Tail(s)[1] = s[2]
  BY <1>1, SequenceFacts
<1>3. 2 \in 2..Len(s) /\ 2 - 1 = 1
  BY <1>2
<1>4. s[2][1] = "put" => s[1] = <<"get", s[2][2], s[2][3]>>
  BY <1>1, <1>3 DEF Paired
<1> QED
  BY <1>1, <1>2, <1>4, Zenon DEF s

-----------------------------------------------------------------------------
(* The namespace lasts. *)

\* A namespace for project x is shown until an event says otherwise, and that event
\* queues the project.
LEMMA NamespaceViewsKept ==
    ASSUME Typed, AllTracked, Step, ~Restart,
           NEW x \in ProjectObject, NEW v \in Views("Namespace", p), NamespaceFor(v, x)
    PROVE  queue' \/ v \in Views("Namespace", p)'
<1> DEFINE k == "Namespace"
<1>0. ApiTypes /\ k \in Kind /\ p \in Name
  BY KindFacts DEF Typed
<1>1. CASE UNCHANGED apiVars
  BY <1>1, ViewsUnchanged
<1>2. ASSUME NEW j \in Kind, NEW n \in Name, NEW obj \in Object[j], Write(j, n, obj)
      PROVE  v \in Views(k, p)'
  BY <1>0, <1>2, WriteShows, Zenon
<1>3. ASSUME NEW j \in Kind, Informer(j), ~queue' PROVE v \in Views(k, p)'
  <2>1. Deliver(j)
    BY <1>3, Zenon DEF Informer
  <2>2. /\ Views(k, p) \subseteq Views(k, p)' \cup {cache[k][p]}
        /\ ~(k = j /\ Head(watch[j]).name = p) => Views(k, p)' = Views(k, p)
    BY <1>0, <2>1, DeliverViews DEF ApiTypes
  <2>3. CASE j = k /\ Head(watch[j]).name = p /\ v = cache[k][p]
    <3>1. Owned(v)
      BY ProjectAssumption DEF NamespaceFor, Owned, ProjectObject, Uid, otherController
    <3> QED
      BY <1>3, <2>3, <3>1, Zenon DEF Informer, Enqueued
  <2> QED
    BY <2>2, <2>3
<1> QED
  BY <1>1, <1>2, <1>3, ApiForms, Zenon

\* What was read of the namespace stays in view.
LEMMA ReadNamespaceKept ==
    ASSUME Typed, Typed', AllTracked, ReadNamespace, Step
    PROVE  ReadNamespace'
<1> SUFFICES ASSUME rec'.pc = "run", rec'.plan[1] = PutNs, rec'.seen # None,
                    NamespaceFor(rec'.seen, rec'.inst), ~queue'
             PROVE  \E v \in Views("Namespace", p)' : NamespaceFor(v, rec'.inst)
  BY Zenon DEF ReadNamespace, NamespaceShown
<1>1. CASE ClientStep \/ OtherStep \/ IdleStep \/ EventStep
  <2>a. ASSUME NEW j \in Kind, Informer(j) PROVE rec' = rec /\ ~queue
    BY <2>a, Zenon DEF Informer
  <2>1. rec' = rec /\ ~queue
    BY <1>1, <2>a DEF ClientStep, OtherStep, IdleStep, EventStep
  <2>2. PICK v \in Views("Namespace", p) : NamespaceFor(v, rec.inst)
    BY <2>1, Zenon DEF ReadNamespace, NamespaceShown
  <2>3. rec.inst \in ProjectObject /\ ~Restart
    BY <2>1 DEF Typed, WorkerTyped, Restart, Idle
  <2> QED
    BY <2>1, <2>2, <2>3, NamespaceViewsKept
<1>2. CASE ConcludeStep \/ Restart \/ DequeueStep
  <2>1. rec' = Idle \/ (rec' = rec /\ rec.pc = "idle") \/ rec'.pc = "organization"
    BY <1>2, Zenon DEF ConcludeStep, Restart, Idle, DequeueStep, Dequeue
  <2> QED
    BY <2>1 DEF Idle
<1>3. CASE PrepareStep
  BY <1>3 DEF PrepareStep, GetNs, PutNs
<1>4. CASE RunStep
  <2>1. rec'.plan[1][1] = "put" /\ rec'.plan[1][2] = "Namespace" /\ rec'.plan[1][3] = p
    BY DEF PutNs
  <2>2. ~(/\ rec.plan[1][1] = "prune"
          /\ rec'.plan = Removing(rec.plan))
    <3>1. rec.pc = "run"
      BY <1>4 DEF RunStep
    <3>2. 1 \in 1..Len(rec.plan) /\ rec.plan \in Seq(Op)
      BY <3>1, HeadFacts, SequenceFacts, Zenon
    <3> QED
      BY <2>1, <3>2 DEF Removing
  <2>3. rec.pc = "run" /\ Continues(rec') /\ Called
    BY <1>4, <2>2 DEF RunStep
  <2>4. rec.plan[1] = GetNs
    BY <2>1, <2>3, PutAfterGet, Zenon DEF GetNs
  <2>5. kind = "Namespace" /\ name = p /\ rec.plan[1][1] = "get"
    BY <2>3, <2>4, HeadFacts DEF kind, name, GetNs
  <2>6. rec'.seen = cached /\ UNCHANGED apiVars
    BY <2>3, <2>5 DEF Continues, Called
  <2>7. cached \in Views("Namespace", p)
    BY <2>5, Zenon DEF cached, Views
  <2> QED
    BY <2>6, <2>7, ViewsUnchanged
<1> QED
  BY <1>1, <1>2, <1>3, <1>4, Zenon DEF Step

\* When the project will not be reconciled again, the worker has just taken it, or
\* nothing was to be done before either and it holds the current project.
LEMMA Settling ==
    ASSUME Typed, Typed', AllTracked, Informed, Step, Project' # None, ~Pending'
    PROVE  /\ Stays /\ ~Restart /\ ~queue'
           /\ \/ DequeueStep /\ Early'
              \/ /\ ~Pending /\ ~DequeueStep
                 /\ rec.pc # "idle" => /\ rec.inst.uid = Project.uid /\ rec.inst.org = Project.org
                                       /\ rec.inst.spec = Project.spec
<1>1. Stays /\ ~Restart /\ ~queue'
  BY PendingKept DEF Pending
<1>2. CASE DequeueStep
  <2>1. UNCHANGED apiVars
    BY <1>2, Zenon DEF DequeueStep, Dequeue
  <2>2. cache["OrganizationProject"][p] \in Shown'
    BY <2>1, KindFacts, StoreShown, ViewsUnchanged DEF Shown
  <2>3. cache["OrganizationProject"][p] # None
    BY <2>2 DEF Pending, Same
  <2>4. rec'.pc = "organization"
    BY <1>2, <2>3 DEF DequeueStep, Dequeue, Idle
  <2> QED
    BY <1>1, <1>2, <2>4 DEF Early
<1>3. CASE ~DequeueStep
  <2>1. ~Pending
    <3>1. CASE Dequeue /\ ~queue
      BY <3>1 DEF Dequeue
    <3>2. CASE Dequeue /\ Pending
      <4>1. UNCHANGED apiVars
        BY <3>2 DEF Dequeue
      <4>2. \A v \in Shown : Same(v, Project)
        BY <4>1, ViewsUnchanged, Zenon DEF Pending
      <4>3. cache["OrganizationProject"][p] \in Shown
        BY KindFacts, StoreShown DEF Shown
      <4>4. rec'.pc = "organization" /\ rec.pc = "idle" /\ rec' # rec
        BY <3>2, <4>2, <4>3, Zenon DEF Dequeue, Same, Idle
      <4>5. ~EventStep /\ ~ClientStep /\ ~OtherStep /\ ~IdleStep
        BY <4>4, Zenon DEF EventStep, Informer, ClientStep, OtherStep, IdleStep
      <4>6. ~PrepareStep /\ ~RunStep /\ ~ConcludeStep
        BY <4>4, Zenon DEF PrepareStep, Early, RunStep, ConcludeStep
      <4> QED
        BY <1>1, <1>3, <4>5, <4>6 DEF Step
    <3> QED
      BY <3>2, PendingKept
  <2>2. ASSUME rec.pc # "idle"
        PROVE  /\ rec.inst.uid = Project.uid /\ rec.inst.org = Project.org
               /\ rec.inst.spec = Project.spec
    BY <1>1, <2>1, <2>2, Zenon DEF Stays, Informed, Same, UidKnown
  <2> QED
    BY <1>1, <1>3, <2>1, <2>2
<1> QED
  BY <1>2, <1>3

\* The worker provides the namespace that the cache does not show.
LEMMA NamespaceLasts ==
    ASSUME Typed, Typed', AllTracked, Informed, ReadNamespace, NamespaceKept, Step
    PROVE  NamespaceKept'
<1> SUFFICES ASSUME Project' # None, ~Pending'
             PROVE  \/ \E v \in Views("Namespace", p)' : NamespaceFor(v, Project')
                    \/ Failing' \/ Early'
                    \/ rec'.pc = "run" /\ rec'.plan[1] \in {GetNs, PutNs}
  BY DEF NamespaceKept, NamespaceShown
<1>1. Stays /\ ~Restart /\ ~queue'
  BY Settling, Zenon
<1>2. CASE DequeueStep
  BY <1>2, Settling, Zenon
<1>3. CASE ~DequeueStep
  <2>1. /\ ~Pending
        /\ rec.pc # "idle" => /\ rec.inst.uid = Project.uid /\ rec.inst.org = Project.org
                              /\ rec.inst.spec = Project.spec
    BY <1>3, Settling
  <2>2. /\ Project # None /\ Project' # None /\ Project'.uid = Project.uid
        /\ Project'.org = Project.org
    BY <1>1 DEF Stays, Same
  <2>3. \A v : NamespaceFor(v, Project) => NamespaceFor(v, Project')
    BY <2>2, Zenon DEF NamespaceFor
  <2>4. CASE NamespaceShown(Project)
    <3>1. PICK v \in Views("Namespace", p) : NamespaceFor(v, Project)
      BY <2>4, Zenon DEF NamespaceShown
    <3>2. Project \in ProjectObject
      BY <2>2, Stored, KindFacts, ObjectFacts DEF Project, Typed
    <3>3. v \in Views("Namespace", p)'
      BY <1>1, <3>1, <3>2, NamespaceViewsKept, Zenon
    <3> QED
      BY <2>3, <3>1, <3>3
  <2>5. CASE ClientStep \/ OtherStep \/ IdleStep \/ EventStep
    <3>1. rec' = rec
      BY <2>5, Zenon DEF ClientStep, OtherStep, IdleStep, EventStep, Informer
    <3> QED
      BY <2>1, <2>2, <2>4, <3>1 DEF NamespaceKept, Failing, Early
  <2>6. CASE ConcludeStep
    <3>1. ~Failing /\ rec.pc = "status"
      BY <1>1, <2>6, Zenon DEF ConcludeStep, Failing
    <3> QED
      BY <2>1, <2>2, <2>4, <3>1, Zenon DEF NamespaceKept, Early
  <2>7. CASE PrepareStep
    BY <2>7, Zenon DEF PrepareStep, Early, Failing
  <2>8. CASE RunStep
    <3>1. rec.pc = "run" /\ queue' = queue
      BY <2>8, Zenon DEF RunStep
    <3>2. CASE rec'.pc = "status" /\ ~rec'.ok
      BY <3>2 DEF Failing
    <3>3. CASE rec.plan[1] \notin {GetNs, PutNs}
      BY <2>1, <2>2, <2>4, <3>1, <3>3, Zenon DEF NamespaceKept, Early, Failing
    <3>4. CASE rec.plan[1] = GetNs /\ Continues(rec')
      <4>1. rec.plan \in Seq(Op) /\ rec.plan # <<>> /\ Len(rec.plan) # 1 /\ rec.plan[2] = PutNs
        BY <3>1, <3>4 DEF Typed, WorkerTyped, Runnable
      <4>2. Tail(rec.plan)[1] = PutNs
        BY <4>1, SequenceFacts
      <4> QED
        BY <3>4, <4>1, <4>2, Zenon DEF Continues, Advanced
    <3>5. CASE rec.plan[1] = PutNs /\ Continues(rec') /\ Called
      <4>1. rec.plan[1][1] = "put" /\ kind = "Namespace" /\ name = p
        BY <3>1, <3>5, HeadFacts DEF PutNs, kind, name
      <4>2. Mutated \in NamespaceObject /\ Mutated \in Object["Namespace"]
        BY <3>1, <4>1, HeadFacts, MutatedTypes DEF At
      <4>3. Mutated.controller = rec.inst.uid /\ Mutated.org = rec.inst.org
        BY <4>1 DEF Mutated
      <4>4. NamespaceFor(Mutated, rec.inst) /\ Mutated # None
        BY <4>2, <4>3, NoneAssumption DEF NamespaceFor
      <4>5. \A v : NamespaceFor(v, rec.inst) => NamespaceFor(v, Project')
        BY <2>1, <2>2, <3>1 DEF NamespaceFor
      <4>6. CASE Write("Namespace", p, Mutated)
        <5>1. Mutated \in Views("Namespace", p)'
          BY <4>2, <4>6, KindFacts, WriteShows DEF Typed
        <5> QED
          BY <4>4, <4>5, <5>1, Zenon
      <4>7. CASE rec.seen = Mutated /\ UNCHANGED apiVars
        <5>1. NamespaceShown(rec.inst)
          BY <1>1, <3>1, <3>5, <4>4, <4>7, Zenon DEF ReadNamespace
        <5> QED
          BY <4>5, <4>7, <5>1, ViewsUnchanged, Zenon DEF NamespaceShown
      <4> QED
        BY <3>5, <4>1, <4>6, <4>7, Zenon DEF Called
    <3>6. CASE rec.plan[1][1] = "prune"
      BY <3>3, <3>6 DEF GetNs, PutNs
    <3> QED
      BY <2>8, <3>2, <3>3, <3>4, <3>5, <3>6, Zenon DEF RunStep
  <2> QED
    BY <1>1, <1>3, <2>5, <2>6, <2>7, <2>8 DEF Step
<1> QED
  BY <1>2, <1>3

-----------------------------------------------------------------------------
(* Bindings that are to go. *)

LEMMA HeadFits ==
    ASSUME Typed, Planned(rec), rec.pc = "run"
    PROVE  /\ rec.plan # <<>> /\ rec.plan[1] \in Op
           /\ Orderly(rec.plan, rec.inst.spec.users, rec.isolation)
           /\ Fits(rec.plan[1], rec.inst.spec.users, rec.isolation)
           /\ \A op : (\E i \in 1..Len(rec.plan) : rec.plan[i] = op) =>
                 op = rec.plan[1] \/ \E i \in 1..Len(Tail(rec.plan)) : Tail(rec.plan)[i] = op
\* The call at the head of a plan fits, and the others are in its tail.
<1>RestFits. ASSUME NEW users, NEW isolation, NEW s, Orderly(s, users, isolation), s # <<>>
             PROVE  /\ s[1] \in Op /\ Fits(s[1], users, isolation)
                    /\ \A op : (\E i \in 1..Len(s) : s[i] = op) =>
                          op = s[1] \/ \E i \in 1..Len(Tail(s)) : Tail(s)[i] = op
  <2> USE <1>RestFits
  <2>1. s[1] \in Op /\ Fits(s[1], users, isolation)
    BY RestOrderly, Zenon
  <2>2. ASSUME NEW op, \E i \in 1..Len(s) : s[i] = op
        PROVE  op = s[1] \/ \E i \in 1..Len(Tail(s)) : Tail(s)[i] = op
    BY <2>2, RestOrderly
  <2> QED
    BY <2>1, <2>2
<1>1. rec.plan # <<>> /\ Orderly(rec.plan, rec.inst.spec.users, rec.isolation)
  BY HeadFacts, Zenon DEF Planned
<1>2. rec.plan[1] \in Op /\ Fits(rec.plan[1], rec.inst.spec.users, rec.isolation)
  BY <1>1, <1>RestFits, Zenon
<1>3. ASSUME NEW op, \E i \in 1..Len(rec.plan) : rec.plan[i] = op
      PROVE  op = rec.plan[1] \/ \E i \in 1..Len(Tail(rec.plan)) : Tail(rec.plan)[i] = op
  BY <1>1, <1>3, <1>RestFits
<1> QED
  BY <1>1, <1>2, <1>3, Zenon

\* A prune at the head of the worker's plan that becomes a delete.
LEMMA HeadRemoved ==
    ASSUME Typed, Planned(rec), rec.pc = "run", rec.plan[1][1] = "prune"
    PROVE  /\ Removing(rec.plan)[1] = <<"delete", rec.plan[1][2], rec.plan[1][3]>>
           /\ \A x : Mentions(Removing(rec.plan), x) <=> Mentions(rec.plan, x)
           /\ \A op : (\E i \in 1..Len(rec.plan) : rec.plan[i] = op) =>
                 \/ op = rec.plan[1]
                 \/ \E i \in 1..Len(Removing(rec.plan)) : Removing(rec.plan)[i] = op
<1> DEFINE s == rec.plan
           users == rec.inst.spec.users
           isolation == rec.isolation
<1>1. s # <<>> /\ Orderly(s, users, isolation) /\ s[1][1] = "prune"
  BY HeadFits, Zenon
<1> HIDE DEF s, users, isolation
<1>2. /\ Removing(s)[1] = <<"delete", s[1][2], s[1][3]>>
      /\ \A x : Mentions(Removing(s), x) <=> Mentions(s, x)
  BY <1>1, RemovalOrderly, Zenon
<1>3. ASSUME NEW op, NEW i \in 1..Len(s), s[i] = op
      PROVE  op = s[1] \/ \E j \in 1..Len(Removing(s)) : Removing(s)[j] = op
  <2>1. s \in Seq(Op)
    BY <1>1, Zenon DEF Orderly
  <2>2. Len(Removing(s)) = Len(s) /\ (i # 1 => Removing(s)[i] = s[i])
    BY <2>1 DEF Removing
  <2> QED
    BY <1>3, <2>2
<1>4. \A op : (\E i \in 1..Len(s) : s[i] = op) =>
          op = s[1] \/ \E i \in 1..Len(Removing(s)) : Removing(s)[i] = op
  BY <1>3
<1> QED
  BY <1>2, <1>4, Zenon DEF s

\* The worker deletes the bindings that are left.
LEMMA RolesLast ==
    ASSUME Typed, Typed', AllTracked, Planned(rec), Informed, RolesKept, Step
    PROVE  RolesKept'
\* A first plan deletes the binding of a role that nobody has.
<1>DeleteRolePlanned. ASSUME NEW s, NEW users, NEW isolation, Segment(s, Provisioned, users, isolation),
                             NEW role \in Role, subjectsForRole(users, role) = {}
                      PROVE  \E i \in 1..Len(s) : s[i] = DeleteRole(role)
  <2> USE <1>DeleteRolePlanned
  <2> DEFINE x == <<"RoleBinding", role>>
  <2>1. x \in Provisioned
    BY Zenon DEF Provisioned, Contents
  <2>2. PICK i \in 1..Len(s) : About(s[i], x)
    BY <2>1, Zenon DEF Segment, Mentions
  <2>3. s[i][2] = "RoleBinding" /\ s[i][3] = role
    BY <2>2, Zenon DEF About
  <2>4. s \in Seq(Op) /\ Fits(s[i], users, isolation)
    BY DEF Segment, Orderly
  <2>5. s[i] \in Op
    BY <2>4
  <2>6. s[i][1] = "delete"
    BY <2>3, <2>4, Zenon DEF Fits
  <2>7. s[i] = <<s[i][1], s[i][2], s[i][3]>>
    BY <2>5 DEF Op
  <2> QED
    BY <2>3, <2>6, <2>7 DEF DeleteRole
<1> SUFFICES ASSUME Project' # None, ~Pending',
                    NEW role \in Role, subjectsForRole(Project'.spec.users, role) = {}
             PROVE  \/ ~Owned(Bindings'[role]) \/ Failing' \/ Early'
                    \/ /\ rec'.pc = "run"
                       /\ \E i \in 1..Len(rec'.plan) : rec'.plan[i] = DeleteRole(role)
  BY Zenon DEF RolesKept, Owned, subjectsForRole
<1> DEFINE k == "RoleBinding"
<1>0. ApiTypes /\ k \in Kind /\ role \in Name /\ "OrganizationProject" \in Kind /\ p \in Name
  BY KindFacts DEF Typed
<1>Unbound. Write(k, role, None) => ~Owned(Bindings'[role])
  <2>1. None \in Object[k]
    BY <1>0, ObjectFacts, Zenon
  <2>2. Write(k, role, None) => store'[k][role] = None
    BY <1>0, <2>1, StoreAfter
  <2> QED
    BY <2>2, Zenon DEF Bindings, Owned
<1>1. Stays /\ ~Restart /\ ~queue'
  BY Settling, Zenon
<1>2. CASE DequeueStep
  BY <1>2, Settling, Zenon
<1>3. CASE ~DequeueStep
  <2>1. /\ ~Pending
        /\ rec.pc # "idle" => rec.inst.spec = Project.spec
    BY <1>3, Settling
  <2>2. Project # None /\ Project'.spec = Project.spec
    BY <1>1 DEF Stays, Same
  <2>3. subjectsForRole(Project.spec.users, role) = {}
    BY <2>2, Zenon
  <2>4. \/ ~Owned(Bindings[role]) \/ Failing \/ Early
        \/ rec.pc = "run" /\ \E i \in 1..Len(rec.plan) : rec.plan[i] = DeleteRole(role)
    BY <2>1, <2>2, <2>3, Zenon DEF RolesKept
  <2>5. CASE ClientStep \/ OtherStep \/ IdleStep \/ EventStep
    <3>1. rec' = rec
      BY <2>5, Zenon DEF ClientStep, OtherStep, IdleStep, EventStep, Informer
    <3>2. CASE ClientStep
      <4>1. PICK obj \in Object["OrganizationProject"] : Write("OrganizationProject", p, obj)
        BY <3>2, Zenon DEF ClientStep
      <4>2. Bindings'[role] = Bindings[role]
        BY <1>0, <4>1, WriteShows DEF Bindings
      <4> QED
        BY <2>4, <3>1, <4>2, Zenon DEF Owned, Failing, Early
    <3>3. CASE OtherStep
      <4>0. PICK x \in Provisioned : \E obj \in Object[x[1]] :
               Write(x[1], x[2], obj) /\ (x[1] = "RoleBinding" => ~Owned(obj))
        BY <3>3, Zenon DEF OtherStep
      <4>1. PICK obj \in Object[x[1]] :
               Write(x[1], x[2], obj) /\ (x[1] = "RoleBinding" => ~Owned(obj))
        BY <4>0, Zenon
      <4>2. Bindings'[role] = IF k = x[1] /\ role = x[2] THEN obj ELSE Bindings[role]
        BY <1>0, <4>1, KindFacts, WriteShows DEF Bindings
      <4> QED
        BY <2>4, <3>1, <4>1, <4>2, Zenon DEF Owned, Failing, Early
    <3>4. CASE IdleStep \/ EventStep
      <4>1. store' = store
        BY <3>4, Zenon DEF IdleStep, apiVars, EventStep, Informer, Deliver
      <4> QED
        BY <2>4, <3>1, <4>1 DEF Owned, Bindings, Failing, Early
    <3> QED
      BY <2>5, <3>2, <3>3, <3>4
  <2>6. CASE ConcludeStep
    <3>1. ~Failing /\ rec.pc = "status"
      BY <1>1, <2>6, Zenon DEF ConcludeStep, Failing
    <3>2. ~Owned(Bindings[role])
      BY <2>4, <3>1, Zenon DEF Early
    <3>3. Bindings'[role] = Bindings[role]
      <4>1. CASE UNCHANGED apiVars
        BY <4>1, Zenon DEF apiVars, Bindings
      <4>2. ASSUME NEW obj \in Object["OrganizationProject"], Write("OrganizationProject", p, obj)
            PROVE  Bindings'[role] = Bindings[role]
        BY <1>0, <4>2, WriteShows DEF Bindings
      <4> QED
        BY <2>6, <4>1, <4>2 DEF ConcludeStep
    <3> QED
      BY <3>2, <3>3, Zenon DEF Owned
  <2>7. CASE PrepareStep
    <3>1. rec.inst.spec = Project.spec
      BY <2>1, <2>7, Zenon DEF PrepareStep, Early
    <3>2. CASE rec'.pc = "run"
      <4>1. Segment(rec'.plan, Provisioned, rec.inst.spec.users, rec'.isolation)
        BY <2>7, <3>2, Zenon DEF PrepareStep
      <4> QED
        BY <2>3, <3>1, <3>2, <4>1, <1>DeleteRolePlanned, Zenon
    <3> QED
      BY <2>7, <3>2, Zenon DEF PrepareStep, Early, Failing
  <2>8. CASE RunStep
    <3>1. rec.pc = "run" /\ rec.inst.spec = Project.spec
      BY <2>1, <2>8, Zenon DEF RunStep
    <3>2. CASE rec'.pc = "status" /\ ~rec'.ok
      BY <3>2, Zenon DEF Failing
    <3>3. CASE (Continues(rec') /\ Called) \/ UNCHANGED apiVars
      <4>1. ~Owned(Bindings[role]) => ~Owned(Bindings'[role])
        <5>1. CASE kind = k /\ name = role
          <6>1. rec.plan[1] = <<rec.plan[1][1], k, role>>
            BY <3>1, <5>1, HeadFacts, Zenon
          <6>2. rec.plan[1][1] = "delete"
            BY <2>3, <3>1, <6>1, HeadFits DEF Fits
          <6>3. CASE UNCHANGED apiVars
            BY <6>3 DEF apiVars, Bindings, Owned
          <6>4. CASE Write(k, role, None)
            BY <1>Unbound, <6>4, Zenon
          <6> QED
            BY <3>3, <5>1, <6>2, <6>3, <6>4, Zenon DEF Called
        <5>2. CASE ~(kind = k /\ name = role)
          BY <1>0, <3>1, <3>3, <5>2, CallShows, Zenon DEF Bindings, Owned
        <5> QED
          BY <5>1, <5>2, Zenon
      <4>2. CASE rec.plan[1] = DeleteRole(role) /\ Called
        <5>0. rec.plan[1][2] = k /\ rec.plan[1][3] = role /\ rec.plan[1][1] = "delete"
          BY <4>2 DEF DeleteRole
        <5>1. kind = rec.plan[1][2] /\ name = rec.plan[1][3]
          BY <3>1, HeadFacts
        <5>2. Write(k, role, None)
          BY <4>2, <5>0, <5>1, Zenon DEF Called
        <5> QED
          BY <1>Unbound, <5>2, Zenon
      <4>3. ASSUME rec.plan[1] # DeleteRole(role), Continues(rec'),
                   \E i \in 1..Len(rec.plan) : rec.plan[i] = DeleteRole(role)
            PROVE  /\ rec'.pc = "run"
                   /\ \E i \in 1..Len(rec'.plan) : rec'.plan[i] = DeleteRole(role)
        <5>1. \E i \in 1..Len(Tail(rec.plan)) : Tail(rec.plan)[i] = DeleteRole(role)
          BY <3>1, <4>3, HeadFits, Zenon
        <5>2. Len(rec.plan) # 1
          BY <3>1, <5>1, HeadFacts, SequenceFacts, Zenon
        <5> QED
          BY <4>3, <5>1, <5>2, Zenon DEF Continues, Advanced
      <4>4. ASSUME rec.plan[1][1] = "prune",
                   rec'.plan = Removing(rec.plan),
                   \E i \in 1..Len(rec.plan) : rec.plan[i] = DeleteRole(role)
            PROVE  \E i \in 1..Len(rec'.plan) : rec'.plan[i] = DeleteRole(role)
        <5>1. rec.plan[1] # DeleteRole(role)
          BY <4>4 DEF DeleteRole
        <5>2. \A op : (\E i \in 1..Len(rec.plan) : rec.plan[i] = op) =>
                  op = rec.plan[1] \/ \E i \in 1..Len(rec'.plan) : rec'.plan[i] = op
          <6>1. \A op : (\E i \in 1..Len(rec.plan) : rec.plan[i] = op) =>
                    \/ op = rec.plan[1]
                    \/ \E i \in 1..Len(Removing(rec.plan)) : Removing(rec.plan)[i] = op
            BY <3>1, <4>4, HeadRemoved, Zenon
          <6> QED
            BY <4>4, <6>1, Zenon
        <5> QED
          BY <4>4, <5>1, <5>2, Zenon
      <4>5. ~Failing /\ ~Early
        BY <3>1, Zenon DEF Failing, Early
      <4>6. CASE ~Owned(Bindings[role])
        BY <4>1, <4>6
      <4>7. CASE \E i \in 1..Len(rec.plan) : rec.plan[i] = DeleteRole(role)
        BY <2>8, <3>2, <4>2, <4>3, <4>4, <4>7, Zenon DEF RunStep
      <4> QED
        BY <2>4, <4>5, <4>6, <4>7, Zenon
    <3> QED
      BY <2>8, <3>2, <3>3, Zenon DEF RunStep
  <2> QED
    BY <1>1, <1>3, <2>5, <2>6, <2>7, <2>8, Zenon DEF Step
<1> QED
  BY <1>2, <1>3, Zenon
=============================================================================
