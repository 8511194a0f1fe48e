-------------------- MODULE OrganizationControllerProofs --------------------
(***************************************************************************)
(* Proofs about OrganizationController, for all sets of organizations,     *)
(* bounds and surroundings: its type invariant, where roots come from      *)
(* (RootsFromLineage), that they are current while nothing is deleted      *)
(* (RootIsCurrent), ReadyHasRoot and ProfilesKept.                         *)
(***************************************************************************)
EXTENDS OrganizationController, ApiServerProofs

Pc == {"idle", "computeRoot", "getProfile", "createProfile", "status"}
Record == [pc : Pc, org : Root, inst : Organization \cup {None}, cur : Root,
           parent : Root, hops : 0..maxHierarchyDepth, ok : BOOLEAN]

\* The part of TypeOK that Write, Deliver and Restart can disturb.
ApiTypes == ApiTyped(Kind, Org, Object)

\* The part of TypeOK about the worker.
WorkerTypes ==
    /\ rec \in Record
    /\ rec.pc # "idle" => rec.org \in Org /\ rec.inst \in Organization
    /\ rec.pc = "computeRoot" => rec.cur \in Org

\* The part of TypeOK about the rest.
OtherTypes ==
    /\ queue \subseteq Org /\ nextUid \in [Org -> 1..(MaxUid + 1)]
    /\ env \in Surrounding /\ links \subseteq Org \X Root

Typed == ApiTypes /\ WorkerTypes /\ OtherTypes

\* TypeOK is the conjunction of the three.
LEMMA TypeParts == Typed <=> TypeOK
  BY Zenon DEF TypeOK, Typed, ApiTypes, ApiTyped, WorkerTypes, OtherTypes, Record, Pc

\* Organizations and profiles are well-formed objects of their kinds.
LEMMA ObjectFacts ==
    /\ Organization \subseteq Object["Organization"]
    /\ OrganizationProfile \subseteq Object["OrganizationProfile"]
    /\ \A k \in Kind : None \in Object[k]
    /\ "Organization" \in Kind /\ "OrganizationProfile" \in Kind
    /\ \A k \in Kind : k = "Organization" \/ k = "OrganizationProfile"
    /\ \A x \in Object["Organization"] : x # None => x \in Organization
    /\ \A x \in Object["OrganizationProfile"] : x # None => x \in OrganizationProfile
  BY DEF Object, Kind

\* What a write does, with the kinds, names and objects of this controller.
LEMMA Written ==
    ASSUME ApiTypes, NEW k \in Kind, NEW o \in Org, NEW obj \in Object[k], Write(k, o, obj)
    PROVE  ApiTypes' /\ Wrote(Kind, k, o, obj)
  BY WriteEffect DEF ApiTypes

\* What a delivery does.
LEMMA Delivered ==
    ASSUME ApiTypes, NEW k \in Kind, Deliver(k)
    PROVE  ApiTypes' /\ Moved(Kind, k) /\ EventTyped(Org, Object, k)
  BY DeliverEffect DEF ApiTypes

-----------------------------------------------------------------------------
(* Type correctness, one lemma for the clients, one for the worker. *)

\* The idle worker is well-formed.
LEMMA IdleTypes == Idle \in Record /\ Idle.pc = "idle"
  BY DEF Idle, Record, Pc, Root, maxHierarchyDepth

\* What a step of clients, the garbage collector or an informer does to the types.
LEMMA EnvironmentTypes ==
    ASSUME Typed, NEW o \in Org,
           \/ \E p \in Root : CreateOrganization(o, p)
           \/ DeleteOrganization(o) \/ CollectGarbage(o)
           \/ PutProfile(o) \/ DeleteProfile(o)
    PROVE  Typed'
  <1> USE DEF Typed
  <1>1. ASSUME NEW p \in Root, CreateOrganization(o, p) PROVE Typed'
    <2>1. [uid |-> nextUid[o], parent |-> p, root |-> None, ready |-> FALSE] \in Organization
      BY <1>1, OrgAssumption DEF CreateOrganization, OtherTypes, Organization, Uid, Root
    <2>2. ApiTypes'
      BY <1>1, <2>1, Written, ObjectFacts DEF CreateOrganization
    <2>3. OtherTypes'
      BY <1>1, OrgAssumption DEF CreateOrganization, OtherTypes, Root
    <2> QED
      BY <1>1, <2>2, <2>3 DEF CreateOrganization, WorkerTypes
  <1>2. CASE DeleteOrganization(o)
    <2>1. ApiTypes'
      BY <1>2, Written, ObjectFacts DEF DeleteOrganization
    <2> QED
      BY <1>2, <2>1 DEF DeleteOrganization, operator, WorkerTypes, OtherTypes
  <1>3. CASE CollectGarbage(o)
    <2>1. ApiTypes'
      BY <1>3, Written, ObjectFacts DEF CollectGarbage
    <2> QED
      BY <1>3, <2>1 DEF CollectGarbage, operator, WorkerTypes, OtherTypes
  <1>4. CASE PutProfile(o)
    <2>0. env.isolations \subseteq Isolation
      BY DEF OtherTypes, Surrounding
    <2>1. ASSUME NEW i \in Isolation
          PROVE  [owner |-> None, root |-> None, isolation |-> i] \in OrganizationProfile
      BY DEF OrganizationProfile, Root
    <2>2. ASSUME NEW i \in Isolation, Profiles[o] # None
          PROVE  [Profiles[o] EXCEPT !.isolation = i] \in OrganizationProfile
      <3>1. Profiles[o] \in Object["OrganizationProfile"]
        BY DEF ApiTypes, ApiTyped, Kind, Profiles
      <3> QED
        BY <2>2, <3>1, ObjectFacts, Zenon DEF OrganizationProfile
    <2>3. \E obj \in Object["OrganizationProfile"] : Write("OrganizationProfile", o, obj)
      BY <1>4, <2>0, <2>1, <2>2, ObjectFacts DEF PutProfile
    <2>4. ApiTypes'
      BY <2>3, Written, ObjectFacts
    <2> QED
      BY <1>4, <2>4 DEF PutProfile, operator, WorkerTypes, OtherTypes
  <1>5. CASE DeleteProfile(o)
    <2>1. ApiTypes'
      BY <1>5, Written, ObjectFacts DEF DeleteProfile
    <2> QED
      BY <1>5, <2>1 DEF DeleteProfile, operator, WorkerTypes, OtherTypes
  <1> QED
    BY <1>1, <1>2, <1>3, <1>4, <1>5

\* A fault leaves the rest of env alone.
LEMMA FaultTypes ==
    ASSUME env \in Surrounding, Fault
    PROVE  env' \in Surrounding /\ env'.deletable = env.deletable
  BY DEF Fault, Surrounding

\* What an event, a resync or a restart does to the types.
LEMMA EventTypes ==
    ASSUME Typed,
           OrganizationEvent \/ ProfileEvent \/ Restart \/ \E o \in Org : Resync(o)
    PROVE  Typed'
  <1> USE DEF Typed
  <1>1. CASE OrganizationEvent
    <2>1. ApiTypes' /\ Head(watch["Organization"]).name \in Org
      BY <1>1, Delivered, ObjectFacts, Zenon DEF Moved, EventTyped, OrganizationEvent
    <2> QED
      BY <1>1, <2>1 DEF OrganizationEvent, WorkerTypes, OtherTypes
  <1>2. CASE ProfileEvent
    <2>1. ApiTypes' /\ Head(watch["OrganizationProfile"]).name \in Org
      BY <1>2, Delivered, ObjectFacts, Zenon DEF Moved, EventTyped, ProfileEvent
    <2> QED
      BY <1>2, <2>1 DEF ProfileEvent, Owners, WorkerTypes, OtherTypes
  <1>3. CASE Restart
    <2>1. ApiTypes'
      <3>1. \A k \in Kind : watch'[k] = <<>> /\ cache'[k] = store[k]
        BY <1>3 DEF Restart
      <3>2. DOMAIN watch' = Kind /\ cache' = store /\ store' = store
        BY <1>3 DEF Restart
      <3>3. \A k \in Kind : <<>> \in Seq([name : Org, obj : Object[k]])
        OBVIOUS
      <3> QED
        BY <3>1, <3>2, <3>3, Zenon DEF ApiTypes, ApiTyped
    <2>2. WorkerTypes'
      BY <1>3, IdleTypes DEF Restart, WorkerTypes
    <2>3. OtherTypes'
      BY <1>3, FaultTypes DEF Restart, OtherTypes
    <2> QED
      BY <2>1, <2>2, <2>3
  <1>4. ASSUME NEW o \in Org, Resync(o) PROVE Typed'
    BY <1>4, FaultTypes DEF Resync, ApiTypes, ApiTyped, WorkerTypes, OtherTypes
  <1> QED
    BY <1>1, <1>2, <1>3, <1>4

\* The instance in the worker's hands is an organization.
LEMMA WorkerInstance ==
    ASSUME WorkerTypes, rec.pc # "idle"
    PROVE  rec.inst \in Organization /\ rec.org \in Org /\ rec.inst.parent \in Root
  BY DEF WorkerTypes, Record, Organization

\* A failed action leaves a well-formed worker.
LEMMA FailTypes ==
    ASSUME WorkerTypes, rec.pc # "idle", Fail
    PROVE  WorkerTypes'
  BY Zenon DEF WorkerTypes, Record, Pc, Fail

\* What the worker's steps that write nothing do to the types.
LEMMA ReadingTypes ==
    ASSUME Typed,
           \/ \E o \in Org : Dequeue(o)
           \/ ComputeRoot \/ GetProfile \/ ProfileAlreadyExists \/ ActionError
    PROVE  Typed'
  <1> USE DEF Typed
  <1>1. ASSUME NEW o \in Org, Dequeue(o) PROVE Typed'
    <2>1. cache["Organization"][o] \in Object["Organization"]
      BY ObjectFacts, Zenon DEF ApiTypes, ApiTyped
    <2>2. WorkerTypes'
      <3>1. CASE cache["Organization"][o] = None
        BY <1>1, <3>1, Zenon DEF Dequeue, WorkerTypes
      <3>2. CASE cache["Organization"][o] # None
        <4>1. /\ cache["Organization"][o] \in Organization
              /\ cache["Organization"][o].parent \in Root
          BY <2>1, <3>2, ObjectFacts DEF Organization
        <4> QED
          BY <1>1, <3>2, <4>1, IdleTypes, Zenon DEF Dequeue, WorkerTypes, Record, Pc, Root
      <3> QED
        BY <3>1, <3>2
    <2> QED
      BY <1>1, <2>2, Zenon DEF Dequeue, ApiTypes, ApiTyped, OtherTypes
  <1>2. CASE ComputeRoot
    <2>1. WorkerTypes'
      <3> DEFINE parent == cache["Organization"][rec.parent]
      <3>1. CASE Fail
        BY <1>2, <3>1, FailTypes DEF ComputeRoot
      <3>2. CASE rec' = [rec EXCEPT !.pc = "getProfile", !.inst.root = rec.cur]
        <4>1. [rec.inst EXCEPT !.root = rec.cur] \in Organization
          BY <1>2, WorkerInstance DEF ComputeRoot, WorkerTypes, Organization, Root
        <4> QED
          BY <1>2, <3>2, <4>1, Zenon DEF ComputeRoot, WorkerTypes, Record, Pc
      <3>3. CASE /\ ~WalkExhausted /\ ~AtRoot /\ parent # None
                 /\ rec' = [rec EXCEPT !.cur = rec.parent, !.parent = parent.parent,
                                       !.hops = @ + 1]
        <4>1. rec.parent \in Org
          BY <3>3 DEF AtRoot, WorkerTypes, Record, Root
        <4>2. parent \in Organization
          BY <3>3, <4>1, ObjectFacts, Zenon DEF ApiTypes, ApiTyped
        <4>3. parent.parent \in Root
          BY <4>2 DEF Organization
        <4>4. rec.hops + 1 \in 0..maxHierarchyDepth
          BY <3>3 DEF WalkExhausted, WorkerTypes, Record, maxHierarchyDepth
        <4> HIDE DEF parent
        <4> QED
          BY <1>2, <3>3, <4>1, <4>3, <4>4, Zenon DEF ComputeRoot, WorkerTypes, Record, Pc, Root
      <3> QED
        BY <1>2, <3>1, <3>2, <3>3 DEF ComputeRoot
    <2> QED
      BY <1>2, <2>1 DEF ComputeRoot, internal, ApiTypes, ApiTyped, OtherTypes
  <1>3. CASE GetProfile
    <2>1. WorkerTypes'
      BY <1>3 DEF GetProfile, WorkerTypes, Record, Pc
    <2> QED
      BY <1>3, <2>1, Zenon DEF GetProfile, internal, ApiTypes, ApiTyped, OtherTypes
  <1>4. CASE ProfileAlreadyExists
    BY <1>4, FailTypes, Zenon DEF ProfileAlreadyExists, internal, ApiTypes, ApiTyped, OtherTypes
  <1>5. CASE ActionError
    BY <1>5, FailTypes, FaultTypes, Zenon DEF ActionError, ApiTypes, ApiTyped, OtherTypes
  <1> QED
    BY <1>1, <1>2, <1>3, <1>4, <1>5

\* What the worker's writes do to the types.
LEMMA WritingTypes ==
    ASSUME Typed,
           (\E a \in BOOLEAN : CreateProfile(a)) \/ UpdateStatus \/ StatusError
    PROVE  Typed'
  <1> USE DEF Typed
  <1>1. ASSUME NEW a \in BOOLEAN, CreateProfile(a) PROVE Typed'
    <2>1. restrictiveProfile \in Object["OrganizationProfile"] /\ rec.org \in Org
      BY <1>1, WorkerInstance, ObjectFacts, Zenon
         DEF CreateProfile, restrictiveProfile, Organization, OrganizationProfile,
             Isolation
    <2>2. ApiTypes'
      BY <1>1, <2>1, Written, ObjectFacts, Zenon DEF CreateProfile
    <2>3. WorkerTypes'
      BY <1>1, Zenon DEF CreateProfile, WorkerTypes, Record, Pc
    <2>4. OtherTypes'
      BY <1>1, FaultTypes, Zenon DEF CreateProfile, OtherTypes
    <2> QED
      BY <2>2, <2>3, <2>4
  <1>2. CASE UpdateStatus
    <2>1. Reported \in Object["Organization"] /\ rec.org \in Org
      BY <1>2, WorkerInstance, ObjectFacts
         DEF UpdateStatus, Reported, Organization, WorkerTypes, Record
    <2>2. ApiTypes'
      <3>1. CASE Write("Organization", rec.org, Reported)
        BY <2>1, <3>1, Written, ObjectFacts
      <3>2. CASE UNCHANGED apiVars
        BY <3>2, Zenon DEF apiVars, ApiTypes, ApiTyped
      <3> QED
        BY <1>2, <3>1, <3>2 DEF UpdateStatus
    <2> QED
      BY <1>2, <2>1, <2>2, IdleTypes DEF UpdateStatus, WorkerTypes, OtherTypes
  <1>3. CASE StatusError
    BY <1>3, IdleTypes, FaultTypes, WorkerInstance, Zenon
       DEF StatusError, ApiTypes, ApiTyped, WorkerTypes, OtherTypes
  <1> QED
    BY <1>1, <1>2, <1>3

\* Every step, a stuttering one included, keeps the types.
LEMMA TypesKept == Typed /\ [Next]_vars => Typed'
  <1> SUFFICES ASSUME Typed, [Next]_vars PROVE Typed'
    OBVIOUS
  <1>1. CASE UNCHANGED vars
    BY <1>1, Zenon DEF vars, Typed, ApiTypes, ApiTyped, WorkerTypes, OtherTypes
  <1>2. CASE Next
    BY <1>2, EnvironmentTypes, EventTypes, ReadingTypes, WritingTypes, Zenon DEF Next, Local, Work
  <1> QED
    BY <1>1, <1>2

\* The initial state is well-formed.
LEMMA InitTypes == Init => Typed
  <1> SUFFICES ASSUME Init PROVE Typed
    OBVIOUS
  <1>1. ApiTypes
    <2>1. \A k \in Kind : <<>> \in Seq([name : Org, obj : Object[k]])
      OBVIOUS
    <2>2. \A k \in Kind : [o \in Org |-> None] \in [Org -> Object[k]]
      BY ObjectFacts
    <2> QED
      BY <2>1, <2>2 DEF Init, ApiTypes, ApiTyped
  <1>2. WorkerTypes
    BY IdleTypes DEF Init, WorkerTypes
  <1>3. OtherTypes
    BY OrgAssumption DEF Init, OtherTypes
  <1> QED
    BY <1>1, <1>2, <1>3 DEF Typed

\* Every variable keeps its shape and computeRootWalk stays within its bound,
\* whatever the organizations, the bounds and what clients do.
THEOREM TypeCorrect == Spec => []TypeOK
  <1>1. Spec => []Typed
    BY InitTypes, TypesKept, PTL DEF Spec
  <1> QED
    BY <1>1, TypeParts, PTL

-----------------------------------------------------------------------------
(* Lineages. *)

\* The parent of an organization, as anyone sees it, was stored, and so was the
\* lineage that leads to its root.
Traced(L, o, x) ==
    x # None => /\ <<o, x.parent>> \in L
                /\ x.root # None => RootIn(L, o, x.root)

StoreTraced ==
    \A o \in Org : /\ Traced(links, o, Orgs[o])
                   /\ Profiles[o] # None /\ Profiles[o].owner # None
                         => RootIn(links, o, Profiles[o].root)

ViewTraced ==
    LET w == watch["Organization"]
    IN  /\ \A o \in Org : Traced(links, o, cache["Organization"][o])
        /\ \A i \in 1..Len(w) : Traced(links, w[i].name, w[i].obj)

\* computeRootWalk has come from the organization to cur in as many links as it
\* made hops.
Reached(L, o, cur, hops) ==
    /\ hops = 0 => o = cur
    /\ hops = 1 => <<o, cur>> \in L
    /\ hops = 2 => \E q \in Org : <<o, q>> \in L /\ <<q, cur>> \in L

WorkerTraced ==
    /\ rec.pc # "idle" => /\ <<rec.org, rec.inst.parent>> \in links
                          /\ rec.inst.root # None => RootIn(links, rec.org, rec.inst.root)
    /\ rec.pc = "computeRoot" => /\ <<rec.cur, rec.parent>> \in links
                                 /\ Reached(links, rec.org, rec.cur, rec.hops)
    /\ rec.pc \in {"getProfile", "createProfile"} => rec.inst.root # None
    /\ rec.pc = "status" /\ rec.ok => rec.inst.root # None

\* Without deletions every link that ever was is there now.
LinksCurrent ==
    env.deletable = {} =>
        \A o \in Org, p \in Root : <<o, p>> \in links => Orgs[o] # None /\ Orgs[o].parent = p

\* The inductive invariant.
Lineage == StoreTraced /\ ViewTraced /\ WorkerTraced /\ LinksCurrent /\ ReadyHasRoot

\* A lineage stays one when links are added.
LEMMA LineageGrows ==
    ASSUME NEW L, NEW M, L \subseteq M, NEW o
    PROVE  /\ \A r : RootIn(L, o, r) => RootIn(M, o, r)
           /\ \A x : Traced(L, o, x) => Traced(M, o, x)
           /\ \A c, h : Reached(L, o, c, h) => Reached(M, o, c, h)
  <1>1. \A r : RootIn(L, o, r) => RootIn(M, o, r)
    BY Zenon DEF RootIn
  <1> QED
    BY <1>1, Zenon DEF Traced, Reached

\* A write to an organization keeps what is seen of the others.
LEMMA WriteTraced ==
    ASSUME ApiTypes, ApiTypes', ViewTraced, links' = links, NEW k \in Kind, NEW o \in Org, NEW obj,
           Wrote(Kind, k, o, obj), k = "Organization" => Traced(links, o, obj)
    PROVE  ViewTraced'
  <1> DEFINE w == watch["Organization"]
             v == watch'["Organization"]
  <1>2. cache' = cache
    BY DEF Wrote
  <1>3. \A i \in 1..Len(v) : Traced(links, v[i].name, v[i].obj)
    <2>1. CASE k = "Organization"
      BY <2>1 DEF Wrote, ViewTraced
    <2>2. CASE k # "Organization"
      BY <2>2, ObjectFacts DEF Wrote, ViewTraced
    <2> QED
      BY <2>1, <2>2
  <1> QED
    BY <1>2, <1>3 DEF ViewTraced

\* The store after one write.
LEMMA StoreAfter ==
    ASSUME ApiTypes, NEW k \in Kind, NEW o \in Org, NEW obj, Wrote(Kind, k, o, obj)
    PROVE  /\ \A n \in Org : store'[k][n] = IF n = o THEN obj ELSE store[k][n]
           /\ \A j \in Kind : j # k => store'[j] = store[j]
  BY Zenon DEF Wrote, ApiTypes, ApiTyped

\* A new organization brings one new link, and no root.
LEMMA CreateOrganizationLineage ==
    ASSUME Typed, Lineage, NEW o \in Org, NEW p \in Root, CreateOrganization(o, p)
    PROVE  Lineage'
  <1> DEFINE obj == [uid |-> nextUid[o], parent |-> p, root |-> None, ready |-> FALSE]
  <1>1. /\ obj \in Object["Organization"] /\ obj # None
        /\ obj.parent = p /\ obj.root = None /\ obj.ready = FALSE
    <2>1. obj \in Organization
      BY OrgAssumption DEF CreateOrganization, Typed, OtherTypes, Organization, Uid, Root
    <2> QED
      BY <2>1, ObjectFacts, NoneAssumption, Zenon
  <1>2. /\ Write("Organization", o, obj) /\ Orgs[o] = None
        /\ links' = links \cup {<<o, p>>} /\ rec' = rec /\ env' = env
    BY DEF CreateOrganization
  <1> HIDE DEF obj
  <1>3. Wrote(Kind, "Organization", o, obj) /\ ApiTypes /\ ApiTypes'
    BY <1>1, <1>2, Written, ObjectFacts DEF Typed
  <1>4. /\ \A n \in Org : Orgs'[n] = IF n = o THEN obj ELSE Orgs[n]
        /\ Profiles' = Profiles
    BY <1>3, StoreAfter, ObjectFacts DEF Orgs, Profiles
  <1>5. /\ \A x, y : Traced(links, x, y) => Traced(links', x, y)
        /\ \A x, r : RootIn(links, x, r) => RootIn(links', x, r)
        /\ Reached(links, rec.org, rec.cur, rec.hops) => Reached(links', rec.org, rec.cur, rec.hops)
    BY <1>2, LineageGrows
  <1>6. Traced(links', o, obj)
    BY <1>1, <1>2, Zenon DEF Traced
  <1>7. StoreTraced'
    BY <1>4, <1>5, <1>6, Zenon DEF Lineage, StoreTraced
  <1>8. ViewTraced'
    <2> DEFINE w == watch["Organization"]
               v == watch'["Organization"]
    <2>1. cache' = cache
      BY <1>3, Zenon DEF Wrote
    <2>2. \A i \in 1..Len(v) : \/ i \in 1..Len(w) /\ v[i] = w[i]
                              \/ v[i] = [name |-> o, obj |-> obj]
      BY <1>3, Zenon DEF Wrote
    <2>3. \A i \in 1..Len(v) : Traced(links', v[i].name, v[i].obj)
      BY <1>5, <1>6, <2>2 DEF Lineage, ViewTraced
    <2> QED
      BY <1>5, <2>1, <2>3 DEF Lineage, ViewTraced
  <1>9. WorkerTraced'
    BY <1>2, <1>5 DEF Lineage, WorkerTraced
  <1>10. LinksCurrent'
    BY <1>1, <1>2, <1>4 DEF Lineage, LinksCurrent
  <1>11. ReadyHasRoot'
    BY <1>1, <1>4 DEF Lineage, ReadyHasRoot
  <1> QED
    BY <1>7, <1>8, <1>9, <1>10, <1>11 DEF Lineage

\* Deletions, and what clients do to profiles, add no root.
LEMMA ClientLineage ==
    ASSUME Typed, Lineage, NEW o \in Org,
           DeleteOrganization(o) \/ CollectGarbage(o) \/ PutProfile(o) \/ DeleteProfile(o)
    PROVE  Lineage'
  <1>1. links' = links /\ rec' = rec /\ env' = env
    BY Zenon DEF DeleteOrganization, CollectGarbage, PutProfile, DeleteProfile, operator
  <1>3. WorkerTraced'
    BY <1>1 DEF Lineage, WorkerTraced
  <1>4. CASE DeleteOrganization(o)
    <2>1. Wrote(Kind, "Organization", o, None) /\ ApiTypes /\ ApiTypes'
      BY <1>4, Written, ObjectFacts DEF DeleteOrganization, Typed
    <2>2. (\A n \in Org : Orgs'[n] = IF n = o THEN None ELSE Orgs[n]) /\ Profiles' = Profiles
      BY <2>1, StoreAfter, ObjectFacts DEF Orgs, Profiles
    <2>3. ViewTraced'
      BY <1>1, <2>1, WriteTraced, ObjectFacts, Zenon DEF Lineage, Traced
    <2>4. StoreTraced'
      BY <1>1, <2>2, Zenon DEF Lineage, StoreTraced, Traced
    <2>5. LinksCurrent'
      BY <1>1, <1>4 DEF LinksCurrent, DeleteOrganization
    <2> QED
      BY <1>3, <2>2, <2>3, <2>4, <2>5 DEF Lineage, ReadyHasRoot
  <1>5. CASE CollectGarbage(o) \/ PutProfile(o) \/ DeleteProfile(o)
    <2>1. PICK obj \in Object["OrganizationProfile"] :
             /\ Write("OrganizationProfile", o, obj)
             /\ obj # None =>
                   \/ obj.owner = None
                   \/ /\ Profiles[o] # None
                      /\ obj.owner = Profiles[o].owner /\ obj.root = Profiles[o].root
      <3>1. CASE CollectGarbage(o) \/ DeleteProfile(o)
        BY <3>1, ObjectFacts DEF CollectGarbage, DeleteProfile
      <3>0. env.isolations \subseteq Isolation
        BY DEF Typed, OtherTypes, Surrounding
      <3>2. CASE PutProfile(o) /\ Profiles[o] = None
        <4>1. PICK i \in Isolation : Write("OrganizationProfile", o,
                                           [owner |-> None, root |-> None, isolation |-> i])
          BY <3>0, <3>2 DEF PutProfile
        <4> DEFINE x == [owner |-> None, root |-> None, isolation |-> i]
        <4>2. x \in Object["OrganizationProfile"] /\ x.owner = None
          BY ObjectFacts, Zenon DEF OrganizationProfile, Root
        <4> QED
          BY <4>1, <4>2
      <3>3. CASE PutProfile(o) /\ Profiles[o] # None
        <4>1. PICK i \in Isolation : Write("OrganizationProfile", o,
                                           [Profiles[o] EXCEPT !.isolation = i])
          BY <3>0, <3>3 DEF PutProfile
        <4> DEFINE x == [Profiles[o] EXCEPT !.isolation = i]
        <4>2. Profiles[o] \in OrganizationProfile
          BY <3>3, ObjectFacts, Zenon DEF Typed, ApiTypes, ApiTyped, Profiles
        <4>3. x \in Object["OrganizationProfile"] /\ x.owner = Profiles[o].owner
              /\ x.root = Profiles[o].root
          BY <4>2, ObjectFacts, Zenon DEF OrganizationProfile
        <4> QED
          BY <3>3, <4>1, <4>3, Zenon
      <3> QED
        BY <1>5, <3>1, <3>2, <3>3
    <2>2. Wrote(Kind, "OrganizationProfile", o, obj) /\ ApiTypes /\ ApiTypes'
      BY <2>1, Written, ObjectFacts DEF Typed
    <2>3. (\A n \in Org : Profiles'[n] = IF n = o THEN obj ELSE Profiles[n]) /\ Orgs' = Orgs
      BY <2>2, StoreAfter, ObjectFacts DEF Orgs, Profiles
    <2>4. ViewTraced'
      BY <1>1, <2>2, WriteTraced, ObjectFacts, Zenon DEF Lineage
    <2>5. StoreTraced'
      BY <1>1, <2>1, <2>3 DEF Lineage, StoreTraced
    <2> QED
      BY <1>1, <1>3, <2>3, <2>4, <2>5 DEF Lineage, ReadyHasRoot, LinksCurrent
  <1> QED
    BY <1>4, <1>5

\* Events, resyncs and restarts only change what is seen.
LEMMA EventLineage ==
    ASSUME Typed, Lineage,
           OrganizationEvent \/ ProfileEvent \/ Restart \/ \E o \in Org : Resync(o)
    PROVE  Lineage'
  <1>1. /\ store' = store /\ links' = links /\ env'.deletable = env.deletable
        /\ rec' = rec \/ rec' = Idle
    <2>1. CASE OrganizationEvent \/ ProfileEvent
      BY <2>1, Zenon DEF OrganizationEvent, ProfileEvent, Deliver
    <2>2. CASE Restart \/ \E o \in Org : Resync(o)
      BY <2>2, FaultTypes, Zenon DEF Restart, Resync, Typed, OtherTypes
    <2> QED
      BY <2>1, <2>2
  <1>2. StoreTraced' /\ LinksCurrent' /\ ReadyHasRoot'
    BY <1>1, Zenon DEF Lineage, StoreTraced, LinksCurrent, ReadyHasRoot, Orgs, Profiles
  <1>3. WorkerTraced'
    BY <1>1, IdleTypes DEF Lineage, WorkerTraced
  <1>4. ViewTraced'
    <2> DEFINE w == watch["Organization"]
               v == watch'["Organization"]
    <2>1. CASE OrganizationEvent
      <3>1. Moved(Kind, "Organization") /\ EventTyped(Org, Object, "Organization")
        BY <2>1, Delivered, ObjectFacts, Zenon DEF OrganizationEvent, Typed
      <3>2. /\ Len(w) \in Nat /\ Len(w) > 0 /\ w[1].name \in Org
            /\ cache["Organization"] \in [Org -> Object["Organization"]]
        <4>1. /\ w \in Seq([name : Org, obj : Object["Organization"]])
              /\ cache["Organization"] \in [Org -> Object["Organization"]]
          BY ObjectFacts, Zenon DEF Typed, ApiTypes, ApiTyped
        <4>2. Len(w) \in Nat
          BY <4>1
        <4> QED
          BY <3>1, <4>1, <4>2 DEF Moved, EventTyped
      <3>3. Traced(links, w[1].name, w[1].obj)
        BY <3>2 DEF Lineage, ViewTraced
      <3>4. \A o \in Org : Traced(links, o, cache'["Organization"][o])
        BY <3>1, <3>2, <3>3, Zenon DEF Moved, Lineage, ViewTraced
      <3>5. \A i \in 1..Len(v) : Traced(links, v[i].name, v[i].obj)
        BY <3>1, Zenon DEF Moved, Lineage, ViewTraced
      <3> QED
        BY <1>1, <3>4, <3>5, Zenon DEF ViewTraced
    <2>2. CASE ProfileEvent
      <3>1. cache'["Organization"] = cache["Organization"] /\ v = w
        BY <2>2, Delivered, ObjectFacts, Zenon DEF ProfileEvent, Typed, Moved
      <3> QED
        BY <1>1, <3>1, Zenon DEF Lineage, ViewTraced
    <2>3. CASE Restart
      <3>1. cache' = store /\ v = <<>>
        BY <2>3, ObjectFacts DEF Restart
      <3>2. \A o \in Org : Traced(links, o, cache'["Organization"][o])
        BY <3>1 DEF Lineage, StoreTraced, Orgs
      <3> QED
        BY <1>1, <3>1, <3>2 DEF ViewTraced
    <2>4. CASE \E o \in Org : Resync(o)
      BY <1>1, <2>4, Zenon DEF Resync, Lineage, ViewTraced
    <2> QED
      BY <2>1, <2>2, <2>3, <2>4, Zenon
  <1> QED
    BY <1>2, <1>3, <1>4 DEF Lineage

\* The walk: an instance comes from the cache, each hop follows a link that was
\* stored, and the last organization of the walk is the root.
LEMMA ReadingLineage ==
    ASSUME Typed, Lineage,
           \/ \E o \in Org : Dequeue(o)
           \/ ComputeRoot \/ GetProfile \/ ProfileAlreadyExists \/ ActionError
    PROVE  Lineage'
  <1>1. /\ store' = store /\ links' = links /\ env'.deletable = env.deletable
        /\ cache' = cache /\ watch' = watch
    <2>1. CASE ActionError
      BY <2>1, FaultTypes DEF ActionError, Typed, OtherTypes
    <2>2. CASE ~ActionError
      BY <2>2, Zenon DEF Dequeue, ComputeRoot, GetProfile, ProfileAlreadyExists, internal
    <2> QED
      BY <2>1, <2>2
  <1>2. StoreTraced' /\ LinksCurrent' /\ ReadyHasRoot' /\ ViewTraced'
    BY <1>1 DEF Lineage, StoreTraced, LinksCurrent, ReadyHasRoot, ViewTraced, Orgs, Profiles
  <1>3. WorkerTypes /\ WorkerTraced /\ ViewTraced
    BY DEF Typed, Lineage
  <1>4. WorkerTraced'
    <2>1. ASSUME NEW o \in Org, Dequeue(o) PROVE WorkerTraced'
      <3> DEFINE inst == cache["Organization"][o]
      <3>1. CASE inst = None
        BY <1>1, <1>3, <2>1, <3>1, Zenon DEF Dequeue, WorkerTraced
      <3>2. CASE inst # None
        <4>1. Traced(links, o, inst)
          BY <1>3 DEF ViewTraced
        <4>2. rec' = [Idle EXCEPT !.pc = "computeRoot", !.org = o, !.inst = inst,
                                  !.cur = o, !.parent = inst.parent]
          BY <2>1, <3>2, Zenon DEF Dequeue
        <4> HIDE DEF inst
        <4>3. /\ rec'.pc = "computeRoot" /\ rec'.org = o /\ rec'.inst = inst
              /\ rec'.cur = o /\ rec'.parent = inst.parent /\ rec'.hops = 0
          BY <4>2 DEF Idle
        <4> QED
          BY <1>1, <3>2, <4>1, <4>3 DEF WorkerTraced, Traced, Reached
      <3> QED
        BY <3>1, <3>2
    <2>2. CASE ComputeRoot
      <3> DEFINE parent == cache["Organization"][rec.parent]
      <3>1. CASE Fail
        BY <1>1, <1>3, <2>2, <3>1 DEF ComputeRoot, Fail, WorkerTraced, WorkerTypes, Record
      <3>2. CASE /\ ~WalkExhausted /\ AtRoot
                 /\ rec' = [rec EXCEPT !.pc = "getProfile", !.inst.root = rec.cur]
        <4>1. rec.hops \in 0..2 /\ rec.parent = None
          BY <1>3, <3>2 DEF WalkExhausted, AtRoot, WorkerTypes, Record, maxHierarchyDepth
        <4>2. RootIn(links, rec.org, rec.cur)
          BY <1>3, <2>2, <4>1 DEF ComputeRoot, WorkerTraced, Reached, RootIn
        <4>3. rec.inst \in Organization
          BY <1>3, <2>2, WorkerInstance DEF ComputeRoot
        <4>4. /\ rec'.pc = "getProfile" /\ rec'.org = rec.org
              /\ rec'.inst.root = rec.cur /\ rec'.inst.parent = rec.inst.parent
          BY <1>3, <3>2, <4>3 DEF WorkerTypes, Record, Organization
        <4>5. rec.cur # None
          BY <1>3, <2>2, OrgAssumption DEF ComputeRoot, WorkerTypes
        <4> QED
          BY <1>1, <1>3, <2>2, <4>2, <4>4, <4>5 DEF ComputeRoot, WorkerTraced
      <3>3. CASE /\ ~WalkExhausted /\ ~AtRoot /\ parent # None
                 /\ rec' = [rec EXCEPT !.cur = rec.parent, !.parent = parent.parent,
                                       !.hops = @ + 1]
        <4>1. rec.hops \in 0..2 /\ rec.parent \in Org /\ rec.cur \in Org
          BY <1>3, <2>2, <3>3
             DEF ComputeRoot, WalkExhausted, AtRoot, WorkerTypes, Record, Root, maxHierarchyDepth
        <4>2. <<rec.parent, parent.parent>> \in links
          BY <1>3, <3>3, <4>1 DEF ViewTraced, Traced
        <4>3. Reached(links, rec.org, rec.parent, rec.hops + 1)
          BY <1>3, <2>2, <4>1 DEF ComputeRoot, WorkerTraced, Reached
        <4> HIDE DEF parent
        <4>4. /\ rec'.pc = "computeRoot" /\ rec'.org = rec.org /\ rec'.inst = rec.inst
              /\ rec'.cur = rec.parent /\ rec'.parent = parent.parent
              /\ rec'.hops = rec.hops + 1
          BY <1>3, <2>2, <3>3 DEF ComputeRoot, WorkerTypes, Record
        <4> QED
          BY <1>1, <1>3, <2>2, <4>2, <4>3, <4>4 DEF ComputeRoot, WorkerTraced
      <3> QED
        BY <2>2, <3>1, <3>2, <3>3 DEF ComputeRoot
    <2>3. CASE GetProfile
      BY <1>1, <1>3, <2>3 DEF GetProfile, WorkerTraced, WorkerTypes, Record
    <2>4. CASE ProfileAlreadyExists \/ ActionError
      BY <1>1, <1>3, <2>4, Zenon
         DEF ProfileAlreadyExists, ActionError, Fail, WorkerTraced, WorkerTypes, Record
    <2> QED
      BY <2>1, <2>2, <2>3, <2>4
  <1> QED
    BY <1>2, <1>4 DEF Lineage

\* The worker's writes: a profile gets the root of the instance, a status the
\* instance itself, Ready only if the actions succeeded.
LEMMA WritingLineage ==
    ASSUME Typed, Lineage,
           (\E a \in BOOLEAN : CreateProfile(a)) \/ UpdateStatus \/ StatusError
    PROVE  Lineage'
  <1>1. WorkerTypes /\ WorkerTraced /\ ViewTraced /\ ApiTypes
    BY DEF Typed, Lineage
  <1>2. ASSUME NEW a \in BOOLEAN, CreateProfile(a) PROVE Lineage'
    <2>1. /\ links' = links /\ env'.deletable = env.deletable
          /\ Write("OrganizationProfile", rec.org, restrictiveProfile)
      BY <1>2, FaultTypes, Zenon DEF CreateProfile, Typed, OtherTypes
    <2>2. /\ restrictiveProfile \in Object["OrganizationProfile"] /\ rec.org \in Org
          /\ restrictiveProfile.root = rec.inst.root
      BY <1>1, <1>2, WorkerInstance, ObjectFacts, Zenon
         DEF CreateProfile, restrictiveProfile, Organization, OrganizationProfile,
             Isolation
    <2>3. RootIn(links, rec.org, rec.inst.root)
      BY <1>1, <1>2, Zenon DEF CreateProfile, WorkerTraced
    <2>4. Wrote(Kind, "OrganizationProfile", rec.org, restrictiveProfile) /\ ApiTypes'
      BY <1>1, <2>1, <2>2, Written, ObjectFacts, Zenon
    <2>5. /\ \A n \in Org : Profiles'[n] = IF n = rec.org THEN restrictiveProfile ELSE Profiles[n]
          /\ Orgs' = Orgs
      BY <1>1, <2>2, <2>4, StoreAfter, ObjectFacts DEF Orgs, Profiles
    <2>6. ViewTraced'
      BY <1>1, <2>1, <2>2, <2>4, WriteTraced, ObjectFacts, Zenon
    <2>7. StoreTraced'
      BY <2>1, <2>2, <2>3, <2>5, Zenon DEF Lineage, StoreTraced
    <2>8. WorkerTraced'
      <3>1. /\ rec'.pc = "status" /\ rec'.org = rec.org /\ rec'.inst = rec.inst
            /\ rec.pc = "createProfile"
        BY <1>1, <1>2, Zenon DEF CreateProfile, WorkerTypes, Record
      <3> QED
        BY <1>1, <2>1, <3>1 DEF WorkerTraced
    <2> QED
      BY <2>1, <2>5, <2>6, <2>7, <2>8, Zenon DEF Lineage, ReadyHasRoot, LinksCurrent
  <1>3. CASE UpdateStatus \/ StatusError
    <2>1. /\ links' = links /\ env'.deletable = env.deletable /\ rec' = Idle
          /\ rec.pc = "status"
      BY <1>3, FaultTypes, Zenon DEF UpdateStatus, StatusError, Typed, OtherTypes
    <2>2. WorkerTraced'
      BY <2>1, IdleTypes, Zenon DEF WorkerTraced
    <2>3. CASE UNCHANGED apiVars
      BY <2>1, <2>2, <2>3
         DEF apiVars, Lineage, StoreTraced, ViewTraced, LinksCurrent, ReadyHasRoot, Orgs, Profiles
    <2>4. CASE /\ Write("Organization", rec.org, Reported)
               /\ Orgs[rec.org] # None
      <3>1. /\ Reported \in Organization /\ rec.org \in Org
            /\ Reported.parent = rec.inst.parent /\ Reported.root = rec.inst.root
            /\ Reported.ready = rec.ok /\ rec.inst.parent \in Root
        BY <1>1, <2>1, WorkerInstance, Zenon DEF Reported, Organization, WorkerTypes, Record
      <3>2. Reported \in Object["Organization"] /\ Reported # None
        BY <3>1, ObjectFacts, NoneAssumption, Zenon
      <3>3. Traced(links, rec.org, Reported)
        BY <1>1, <2>1, <3>1, Zenon DEF WorkerTraced, Traced
      <3>4. Wrote(Kind, "Organization", rec.org, Reported) /\ ApiTypes'
        BY <1>1, <2>4, <3>1, <3>2, Written, ObjectFacts, Zenon
      <3>5. /\ \A n \in Org : Orgs'[n] = IF n = rec.org THEN Reported ELSE Orgs[n]
            /\ Profiles' = Profiles
        BY <1>1, <3>1, <3>4, StoreAfter, ObjectFacts DEF Orgs, Profiles
      <3>6. ViewTraced'
        BY <1>1, <2>1, <3>1, <3>3, <3>4, WriteTraced, ObjectFacts, Zenon
      <3>7. StoreTraced'
        BY <2>1, <3>3, <3>5, Zenon DEF Lineage, StoreTraced
      <3>8. LinksCurrent'
        <4>1. env.deletable = {} => Orgs[rec.org].parent = rec.inst.parent
          BY <1>1, <2>1, <3>1, Zenon DEF Lineage, LinksCurrent, WorkerTraced
        <4> QED
          BY <2>1, <3>1, <3>2, <3>5, <4>1 DEF Lineage, LinksCurrent
      <3>9. ReadyHasRoot'
        BY <1>1, <2>1, <3>1, <3>5 DEF Lineage, ReadyHasRoot, WorkerTraced
      <3> QED
        BY <2>2, <3>6, <3>7, <3>8, <3>9 DEF Lineage
    <2> QED
      BY <1>3, <2>3, <2>4, Zenon DEF UpdateStatus, StatusError, apiVars
  <1> QED
    BY <1>2, <1>3

\* The invariant holds initially and is kept by every step.
LEMMA LineageKept == Typed /\ Lineage /\ [Next]_vars => Lineage'
  <1> SUFFICES ASSUME Typed, Lineage, [Next]_vars PROVE Lineage'
    OBVIOUS
  <1>1. CASE UNCHANGED vars
    BY <1>1, Zenon DEF vars, Lineage, StoreTraced, ViewTraced, WorkerTraced, LinksCurrent,
                ReadyHasRoot, Orgs, Profiles
  <1>2. CASE Next
    BY <1>2, CreateOrganizationLineage, ClientLineage, EventLineage, ReadingLineage,
       WritingLineage, Zenon DEF Next, Local, Work
  <1> QED
    BY <1>1, <1>2

LEMMA InitLineage == Init => Lineage
  <1> SUFFICES ASSUME Init PROVE Lineage
    OBVIOUS
  <1>1. /\ \A o \in Org : /\ Orgs[o] = None /\ Profiles[o] = None
                           /\ cache["Organization"][o] = None
        /\ watch["Organization"] = <<>> /\ rec = Idle /\ links = {}
    BY ObjectFacts DEF Init, Orgs, Profiles
  <1> QED
    BY <1>1, IdleTypes
       DEF Lineage, StoreTraced, ViewTraced, WorkerTraced, LinksCurrent, ReadyHasRoot, Traced

\* The invariant implies the properties.
LEMMA LineageImplies == Typed /\ Lineage => RootsFromLineage /\ ReadyHasRoot /\ RootIsCurrent
  <1> SUFFICES ASSUME Typed, Lineage PROVE RootsFromLineage /\ RootIsCurrent
    BY Zenon DEF Lineage
  <1>1. RootsFromLineage
    BY Zenon DEF Lineage, StoreTraced, Traced, RootsFromLineage
  <1>2. ASSUME env.deletable = {} PROVE links \subseteq Parents
    <2>1. ASSUME NEW l \in links PROVE l \in Parents
      <3>1. PICK o \in Org, p \in Root : l = <<o, p>>
        BY DEF Typed, OtherTypes
      <3>2. Orgs[o] # None /\ Orgs[o].parent = p
        BY <1>2, <2>1, <3>1 DEF Lineage, LinksCurrent
      <3> QED
        BY <3>1, <3>2 DEF Parents
    <2> QED
      BY <2>1
  <1>3. RootIsCurrent
    BY <1>1, <1>2, LineageGrows DEF RootsFromLineage, RootIsCurrent
  <1> QED
    BY <1>1, <1>3

\* Whatever is deleted, created again, lost or restarted while computeRootWalk
\* reads its way up: roots and root labels come from lineages of at most three
\* levels that were stored.
THEOREM RootsTraced == Spec => []RootsFromLineage
  <1>1. Spec => [](Typed /\ Lineage)
    BY InitTypes, InitLineage, TypesKept, LineageKept, PTL DEF Spec
  <1> QED
    BY <1>1, LineageImplies, PTL

\* Phase Ready is reported only with a root.
THEOREM ReadyWithRoot == Spec => []ReadyHasRoot
  <1>1. Spec => [](Typed /\ Lineage)
    BY InitTypes, InitLineage, TypesKept, LineageKept, PTL DEF Spec
  <1> QED
    BY <1>1, LineageImplies, PTL

\* Without deletions, a root in a status is the root of the lineage stored now.
THEOREM RootCurrent == Spec => []RootIsCurrent
  <1>1. Spec => [](Typed /\ Lineage)
    BY InitTypes, InitLineage, TypesKept, LineageKept, PTL DEF Spec
  <1> QED
    BY <1>1, LineageImplies, PTL

\* A step of the worker leaves the profiles that exist as they are.
LEMMA WorkerKeepsProfiles ==
    ASSUME Typed, Next, rec' # rec, NEW o \in Org, Profiles[o] # None
    PROVE  Profiles'[o] = Profiles[o]
  <1>1. CASE \E a \in BOOLEAN : CreateProfile(a)
    <2>1. PICK a \in BOOLEAN : CreateProfile(a)
      BY <1>1
    <2>2. /\ restrictiveProfile \in Object["OrganizationProfile"] /\ rec.org \in Org
          /\ ApiTypes /\ Profiles[rec.org] = None
          /\ Write("OrganizationProfile", rec.org, restrictiveProfile)
      BY <2>1, WorkerInstance, ObjectFacts, Zenon
         DEF Typed, CreateProfile, NoProfileYet, restrictiveProfile, Organization, OrganizationProfile,
             Isolation
    <2>3. Wrote(Kind, "OrganizationProfile", rec.org, restrictiveProfile)
      BY <2>2, Written, ObjectFacts, Zenon
    <2> QED
      BY <2>2, <2>3, StoreAfter, ObjectFacts DEF Profiles
  <1>2. CASE UpdateStatus
    <2>1. CASE Write("Organization", rec.org, Reported)
      BY <2>1 DEF Write, Profiles, Typed, ApiTypes, ApiTyped, Kind
    <2>2. CASE UNCHANGED apiVars
      BY <2>2 DEF apiVars, Profiles
    <2> QED
      BY <1>2, <2>1, <2>2, Zenon DEF UpdateStatus
  <1>3. CASE \/ \E n \in Org : Dequeue(n)
             \/ ComputeRoot \/ GetProfile \/ ProfileAlreadyExists \/ ActionError
             \/ StatusError \/ Restart
    BY <1>3, Zenon DEF Dequeue, ComputeRoot, GetProfile, ProfileAlreadyExists, ActionError,
                StatusError, Restart, internal, Profiles
  <1>4. \/ \E a \in BOOLEAN : CreateProfile(a)
        \/ UpdateStatus
        \/ \E n \in Org : Dequeue(n)
        \/ ComputeRoot \/ GetProfile \/ ProfileAlreadyExists \/ ActionError
        \/ StatusError \/ Restart
    BY Zenon DEF Next, Local, Work, CreateOrganization, DeleteOrganization, CollectGarbage, PutProfile,
           DeleteProfile, Resync, OrganizationEvent, ProfileEvent, operator
  <1> QED
    BY <1>1, <1>2, <1>3, <1>4, Zenon

\* The operator never touches a profile that exists, whatever it reads from stale
\* caches, retries or restarts.
THEOREM ProfilesSurvive == Spec => ProfilesKept
  <1>1. Spec => []Typed
    BY InitTypes, TypesKept, PTL DEF Spec
  <1>2. Typed /\ [Next]_vars =>
           [rec' # rec => \A o \in Org : Profiles[o] # None => Profiles'[o] = Profiles[o]]_vars
    BY WorkerKeepsProfiles, Zenon DEF vars
  <1> QED
    BY <1>1, <1>2, PTL DEF Spec, ProfilesKept
=============================================================================
