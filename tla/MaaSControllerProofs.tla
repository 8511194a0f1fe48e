------------------------ MODULE MaaSControllerProofs ------------------------
(***************************************************************************)
(* Proofs about MaaSController, for all bounds and surroundings: its type  *)
(* invariant, NoOrphan, ForeignNotAdopted and that it implements           *)
(* AITenantLife (FollowsLife).                                             *)
(***************************************************************************)
EXTENDS MaaSController, ApiServerProofs

Pc == {"idle", "addFinalizer", "hasMaaS", "getOrganization", "getProfile",
       "getTenant", "createTenant", "updateTenant", "status",
       "getForCleanup", "deleteTenant", "removeFinalizer"}
Record == [pc : Pc, inst : MaaSConfiguration \cup {None}, platform : SUBSET PlatformField,
           seen : AITenant \cup {None}, reason : Reason, ok : BOOLEAN]

\* The parts of TypeOK: about the API server, the worker and the rest.
ApiTypes == ApiTyped(Kind, {o}, Object)
WorkerTypes ==
    /\ rec \in Record
    /\ rec.pc # "idle" => rec.inst \in MaaSConfiguration
    /\ rec.pc = "updateTenant" => rec.seen \in AITenant
OtherTypes ==
    /\ tenant \in AITenant \cup {None} /\ crd \in BOOLEAN /\ queue \in BOOLEAN
    /\ uids \in 0..MaxUid /\ env \in Surrounding

Typed == ApiTypes /\ WorkerTypes /\ OtherTypes

\* TypeOK is the conjunction of the three.
LEMMA TypeParts == Typed <=> TypeOK
  BY Zenon DEF TypeOK, Typed, ApiTypes, ApiTyped, WorkerTypes, OtherTypes, Record, Pc

-----------------------------------------------------------------------------
(* Type correctness. *)

\* Organizations, profiles and configurations are objects of their kinds.
LEMMA ObjectFacts ==
    /\ Object["Organization"] = {None} \cup Organization
    /\ Object["OrganizationProfile"] = {None} \cup OrganizationProfile
    /\ Object["MaaSConfiguration"] = {None} \cup MaaSConfiguration
    /\ \A k \in Kind : None \in Object[k]
    /\ "Organization" \in Kind /\ "OrganizationProfile" \in Kind
    /\ "MaaSConfiguration" \in Kind
  BY DEF Object, Kind

\* What the store and the cache hold.
LEMMA StoreFacts ==
    ASSUME ApiTypes
    PROVE  /\ \A k \in Kind : Stored(k) \in Object[k] /\ Cached(k) \in Object[k]
           /\ Configuration \in {None} \cup MaaSConfiguration
           /\ Cached("MaaSConfiguration") \in {None} \cup MaaSConfiguration
<1>1. \A k \in Kind : Stored(k) \in Object[k] /\ Cached(k) \in Object[k]
  BY Zenon DEF ApiTypes, ApiTyped, Stored, Cached
<1> QED
  BY <1>1, ObjectFacts DEF Configuration

\* What a write does, with the kinds, names and objects of this controller.
LEMMA Written ==
    ASSUME ApiTypes, NEW k \in Kind, NEW obj \in Object[k], Write(k, o, obj)
    PROVE  ApiTypes' /\ Wrote(Kind, k, o, obj) /\ Announced(k, o, obj)
  BY WriteEffect DEF ApiTypes

\* What a delivery does.
LEMMA Delivered ==
    ASSUME ApiTypes, NEW k \in Kind, Deliver(k)
    PROVE  ApiTypes' /\ Moved(Kind, k) /\ EventTyped({o}, Object, k)
  BY DeliverEffect DEF ApiTypes

\* A change to one field leaves a configuration.
LEMMA ConfigurationFields ==
    ASSUME NEW c \in MaaSConfiguration
    PROVE  /\ \A spec \in SUBSET SpecField : [c EXCEPT !.spec = spec] \in MaaSConfiguration
           /\ \A r \in Reason : [c EXCEPT !.reason = r] \in MaaSConfiguration
           /\ [c EXCEPT !.deleting = TRUE] \in MaaSConfiguration
           /\ [c EXCEPT !.finalizer = TRUE] \in MaaSConfiguration
  BY Zenon DEF MaaSConfiguration

\* A new UID is one of Uid, and stays within its bound.
LEMMA FreshUidTypes ==
    ASSUME OtherTypes, FreshUid
    PROVE  uids + 1 \in Uid /\ uids' = uids + 1 /\ uids' \in 0..MaxUid
  BY MaaSAssumption DEF OtherTypes, FreshUid, Uid, Surrounding

\* What a step of a client does to the types.
LEMMA ClientTypes ==
    ASSUME Typed, Clients
    PROVE  Typed'
<1> USE DEF Typed
<1>0. ASSUME ApiTypes', UNCHANGED operator, uids' \in 0..MaxUid PROVE Typed'
  BY <1>0 DEF operator, WorkerTypes, OtherTypes
<1>1. ASSUME NEW root \in env.roots, CreateOrganization(root) PROVE Typed'
  <2>1. uids + 1 \in Uid /\ uids' \in 0..MaxUid
    BY <1>1, FreshUidTypes DEF CreateOrganization
  <2>2. root \in BOOLEAN
    BY DEF OtherTypes, Surrounding
  <2>3. [uid |-> uids + 1, root |-> root] \in Object["Organization"]
    BY <2>1, <2>2, ObjectFacts DEF Organization
  <2> QED
    BY <1>0, <1>1, <2>1, <2>3, Written, ObjectFacts DEF CreateOrganization
<1>2. CASE DeleteOrganization
  BY <1>0, <1>2, Written, ObjectFacts DEF DeleteOrganization, OtherTypes
<1>3. CASE DeleteProfile
  BY <1>0, <1>3, Written, ObjectFacts DEF DeleteProfile, OtherTypes
<1>4. CASE DeleteConfiguration
  <2>1. (IF Configuration.finalizer
         THEN [Configuration EXCEPT !.deleting = TRUE]
         ELSE None) \in Object["MaaSConfiguration"]
    BY <1>4, StoreFacts, ConfigurationFields, ObjectFacts, Zenon DEF DeleteConfiguration
  <2> QED
    BY <1>0, <1>4, <2>1, Written, ObjectFacts, Zenon DEF DeleteConfiguration, OtherTypes
<1>5. ASSUME NEW platform \in Platforms, PutProfile(platform) PROVE Typed'
  <2>1. [platform |-> platform] \in Object["OrganizationProfile"]
    BY MaaSAssumption, ObjectFacts DEF OrganizationProfile
  <2> QED
    BY <1>0, <1>5, <2>1, Written, ObjectFacts DEF PutProfile, OtherTypes
<1>6. ASSUME NEW spec \in env.specs, PutConfiguration(spec) PROVE Typed'
  <2>1. spec \in SUBSET SpecField
    BY DEF OtherTypes, Surrounding
  <2>2. CASE Configuration = None
    <3>1. uids + 1 \in Uid /\ uids' \in 0..MaxUid
      BY <1>6, <2>2, FreshUidTypes DEF PutConfiguration
    <3>2. [uid |-> uids + 1, spec |-> spec, deleting |-> FALSE, finalizer |-> FALSE,
           reason |-> None] \in Object["MaaSConfiguration"]
      BY <2>1, <3>1, ObjectFacts DEF MaaSConfiguration, Reason
    <3> QED
      BY <1>0, <1>6, <2>2, <3>1, <3>2, Written, ObjectFacts, Zenon DEF PutConfiguration
  <2>3. CASE Configuration # None
    <3>1. [Configuration EXCEPT !.spec = spec] \in Object["MaaSConfiguration"]
      BY <2>1, <2>3, StoreFacts, ConfigurationFields, ObjectFacts, Zenon
    <3> QED
      BY <1>0, <1>6, <2>3, <3>1, Written, ObjectFacts DEF PutConfiguration, OtherTypes
  <2> QED
    BY <2>2, <2>3
<1> QED
  BY <1>1, <1>2, <1>3, <1>4, <1>5, <1>6 DEF Clients

\* Using up a write of others or a fault leaves env well-formed.
LEMMA BudgetTypes ==
    ASSUME env \in Surrounding, Other \/ Fault
    PROVE  env' \in Surrounding
  BY DEF Other, Fault, Surrounding

\* Setting the AITenant keeps the queue a Boolean.
LEMMA SetTenantTypes ==
    ASSUME OtherTypes, NEW t \in AITenant \cup {None}, SetTenant(t)
    PROVE  tenant' \in AITenant \cup {None} /\ queue' \in BOOLEAN
  BY Zenon DEF SetTenant, OtherTypes

\* What the MaaS operator and others do.
Outside == ReportReady \/ FinishDeletion \/ OtherDeletes \/ OtherCreates \/ ToggleCRD

\* What a step of the MaaS operator or of others does to the AITenant.
LEMMA OutsideSets ==
    ASSUME Typed, Outside
    PROVE  \E t \in AITenant \cup {None} :
               /\ SetTenant(t) /\ UNCHANGED external
               /\ crd' \in BOOLEAN /\ env' \in Surrounding
               /\ \/ t = None \/ t = tenant \/ t.owner = None
                  \/ /\ tenant # None /\ t # None /\ t.owner = tenant.owner
                     /\ t.deleting = tenant.deleting
<1> USE DEF Typed
<1>1. CASE ReportReady
  <2>1. [tenant EXCEPT !.ready = TRUE] \in AITenant
    BY <1>1, Zenon DEF ReportReady, OtherTypes, AITenant
  <2> QED
    BY <1>1, <2>1, MaaSAssumption, Zenon DEF ReportReady, OtherTypes, AITenant
<1>2. CASE FinishDeletion
  BY <1>2, Zenon DEF FinishDeletion, OtherTypes
<1>3. CASE OtherDeletes
  BY <1>3, BudgetTypes DEF OtherDeletes, OtherTypes
<1>4. CASE OtherCreates
  <2>1. foreignTenant \in AITenant /\ foreignTenant.owner = None
    BY DEF foreignTenant, AITenant
  <2> QED
    BY <1>4, <2>1, BudgetTypes DEF OtherCreates, OtherTypes
<1>5. CASE ToggleCRD
  BY <1>5, BudgetTypes DEF ToggleCRD, OtherTypes
<1> QED
  BY <1>1, <1>2, <1>3, <1>4, <1>5 DEF Outside

\* What such a step does to the types.
LEMMA OutsideTypes ==
    ASSUME Typed, Outside
    PROVE  Typed'
<1>1. PICK t \in AITenant \cup {None} :
         SetTenant(t) /\ UNCHANGED external /\ crd' \in BOOLEAN /\ env' \in Surrounding
  BY OutsideSets
<1>2. OtherTypes'
  BY <1>1, SetTenantTypes DEF external, Typed, OtherTypes
<1> QED
  BY <1>1, <1>2, Zenon DEF external, Typed, ApiTypes, ApiTyped, WorkerTypes

\* The idle worker is well-formed.
LEMMA IdleTypes == Idle \in Record /\ Idle.pc = "idle"
  BY DEF Idle, Record, Pc, Reason

\* What an event, a resync or a restart does to the types.
LEMMA EventTypes ==
    ASSUME Typed, (\E k \in Kind : Informer(k)) \/ Resync \/ Restart
    PROVE  Typed'
<1> USE DEF Typed
<1>1. ASSUME NEW k \in Kind, Informer(k) PROVE Typed'
  <2>1. ApiTypes'
    BY <1>1, Delivered DEF Informer
  <2>2. queue' \in BOOLEAN
    BY <1>1, Zenon DEF Informer, OtherTypes
  <2> QED
    BY <1>1, <2>1, <2>2, Zenon DEF Informer, WorkerTypes, OtherTypes
<1>2. CASE Resync
  BY <1>2, BudgetTypes, Zenon DEF Resync, ApiTypes, ApiTyped, WorkerTypes, OtherTypes
<1>3. CASE Restart
  <2>1. ApiTypes'
    <3>1. \A k \in Kind : watch'[k] = <<>> /\ cache'[k] = store[k]
      BY <1>3 DEF Restart
    <3>2. DOMAIN watch' = Kind /\ cache' = store /\ store' = store
      BY <1>3 DEF Restart
    <3>3. \A k \in Kind : <<>> \in Seq([name : {o}, obj : Object[k]])
      OBVIOUS
    <3> QED
      BY <3>1, <3>2, <3>3, Zenon DEF ApiTypes, ApiTyped
  <2>2. WorkerTypes'
    BY <1>3, IdleTypes DEF Restart, WorkerTypes
  <2>3. OtherTypes'
    <3>1. queue' \in BOOLEAN
      BY <1>3, Zenon DEF Restart
    <3> QED
      BY <1>3, <3>1, BudgetTypes DEF Restart, OtherTypes
  <2> QED
    BY <2>1, <2>2, <2>3
<1> QED
  BY <1>1, <1>2, <1>3

\* What the worker's step leaves of the worker: the instance in hand, unless idle.
Proceeds == WorkerTypes' /\ rec'.inst = rec.inst

\* The worker may go anywhere but to updateTenant with what it has in hand.
LEMMA GotoTypes ==
    ASSUME WorkerTypes, rec.pc # "idle",
           \/ \E p \in Pc \ {"updateTenant"} : Goto(p)
           \/ \E r \in Reason : Report(r)
           \/ Fail
    PROVE  Proceeds
<1> USE DEF Proceeds, WorkerTypes, Record
<1>1. ASSUME NEW p \in Pc \ {"updateTenant"}, Goto(p) PROVE Proceeds
  BY <1>1 DEF Goto
<1>2. ASSUME NEW r \in Reason, Report(r) PROVE Proceeds
  BY <1>2, Zenon DEF Report, Pc
<1>3. CASE Fail
  BY <1>3, Zenon DEF Fail, Pc, Reason
<1> QED
  BY <1>1, <1>2, <1>3

\* Steps of the worker that only read, and failures.
Reading ==
    \/ (\E b \in BOOLEAN : HasMaaS(b)) \/ GetOrganization \/ GetProfile \/ GetTenant
    \/ WriteRefused \/ ActionError \/ GetForCleanup

\* The worker has an instance in hand, and the rest is as it was.
LEMMA ReadingSteps ==
    ASSUME Typed, Reading
    PROVE  /\ UNCHANGED internal /\ env' \in Surrounding /\ rec.pc # "idle"
           /\ Proceeds
<1> USE DEF Typed
<1>1. UNCHANGED internal /\ env' \in Surrounding /\ rec.pc # "idle"
  BY BudgetTypes DEF Reading, HasMaaS, GetOrganization, GetProfile, GetTenant,
     WriteRefused, ActionError, GetForCleanup, OtherTypes
<1>2. ASSUME NEW b \in BOOLEAN, HasMaaS(b) PROVE Proceeds
  BY <1>1, <1>2, GotoTypes DEF HasMaaS, Pc, Reason
<1>3. CASE GetOrganization
  BY <1>1, <1>3, GotoTypes DEF GetOrganization, Pc, Reason
<1>4. CASE GetProfile
  <2>1. CASE Fail
    BY <1>1, <2>1, GotoTypes
  <2>2. CASE ~Fail
    <3>1. /\ Cached("OrganizationProfile").platform \in SUBSET PlatformField
          /\ rec' = [rec EXCEPT !.pc = "getTenant",
                                !.platform = Cached("OrganizationProfile").platform]
      BY <1>4, <2>2, StoreFacts, ObjectFacts DEF GetProfile, OrganizationProfile
    <3> QED
      BY <1>1, <3>1, Zenon DEF Proceeds, WorkerTypes, Record, Pc
  <2> QED
    BY <2>1, <2>2
<1>5. CASE GetTenant
  <2>1. CASE Fail \/ Goto("createTenant") \/ Report("ExistingResourceNotOwned")
    BY <1>1, <2>1, GotoTypes DEF Pc, Reason
  <2>2. CASE tenant # None /\ rec' = [rec EXCEPT !.pc = "updateTenant", !.seen = Read]
    BY <1>1, <2>2, Zenon DEF Read, OtherTypes, Proceeds, WorkerTypes, Record, Pc
  <2> QED
    BY <1>5, <2>1, <2>2 DEF GetTenant
<1>6. CASE WriteRefused \/ ActionError
  BY <1>1, <1>6, GotoTypes DEF WriteRefused, ActionError
<1>7. CASE GetForCleanup
  BY <1>1, <1>7, GotoTypes DEF GetForCleanup, Pc
<1> QED
  BY <1>1, <1>2, <1>3, <1>4, <1>5, <1>6, <1>7 DEF Reading

\* Steps of the worker that leave the API server and the AITenant alone.
LEMMA QuietTypes ==
    ASSUME Typed, Reading \/ Dequeue \/ RemovalRefused \/ CallError
    PROVE  Typed'
<1> USE DEF Typed
<1>1. CASE Reading
  BY <1>1, ReadingSteps, Zenon DEF internal, Proceeds, ApiTypes, ApiTyped, OtherTypes
<1>2. CASE Dequeue
  <2>1. WorkerTypes'
    BY <1>2, StoreFacts, IdleTypes, Zenon DEF Dequeue, WorkerTypes, Record, Pc
  <2> QED
    BY <1>2, <2>1, Zenon DEF Dequeue, ApiTypes, ApiTyped, OtherTypes
<1>3. CASE RemovalRefused \/ CallError
  BY <1>3, IdleTypes, BudgetTypes, Zenon
     DEF RemovalRefused, CallError, Retry, ApiTypes, ApiTyped, WorkerTypes, OtherTypes
<1> QED
  BY <1>1, <1>2, <1>3

\* The AITenant that CreateTenant makes is well-formed, for the instance in hand.
LEMMA RenderTypes ==
    ASSUME WorkerTypes, rec.pc # "idle",
           NEW old \in SUBSET (SpecField \cup PlatformField \cup ExtraField)
    PROVE  /\ render(old, rec.inst.spec, rec.platform)
                  \in SUBSET (SpecField \cup PlatformField \cup ExtraField)
           /\ rec.inst.uid \in Uid
  BY DEF WorkerTypes, Record, MaaSConfiguration, render

\* Steps of the worker that change the AITenant.
LEMMA TenantTypes ==
    ASSUME Typed, (\E b \in BOOLEAN : CreateTenant(b)) \/ UpdateTenant \/ DeleteTenant
    PROVE  Typed' /\ Proceeds
<1> USE DEF Typed
<1>1. ASSUME NEW b \in BOOLEAN, CreateTenant(b) PROVE Typed' /\ Proceeds
  <2>1. [owner |-> rec.inst.uid, spec |-> render({}, rec.inst.spec, rec.platform),
         ready |-> FALSE, deleting |-> FALSE] \in AITenant
    BY <1>1, RenderTypes DEF CreateTenant, AITenant
  <2>2. tenant' \in AITenant \cup {None} /\ queue' \in BOOLEAN
    BY <1>1, <2>1, SetTenantTypes DEF CreateTenant
  <2>3. Proceeds
    BY <1>1, GotoTypes DEF CreateTenant, Reason
  <2> QED
    BY <1>1, <2>2, <2>3, BudgetTypes, Zenon
       DEF CreateTenant, OtherTypes, ApiTypes, ApiTyped, Proceeds
<1>2. CASE UpdateTenant
  <2>1. [tenant EXCEPT !.spec = render(@, rec.inst.spec, rec.platform)] \in AITenant
    <3>1. tenant \in AITenant
      BY <1>2 DEF UpdateTenant, WorkerTypes
    <3>2. render(tenant.spec, rec.inst.spec, rec.platform)
             \in SUBSET (SpecField \cup PlatformField \cup ExtraField)
      BY <1>2, <3>1, RenderTypes DEF UpdateTenant, AITenant
    <3> QED
      BY <3>1, <3>2 DEF AITenant
  <2>2. tenant' \in AITenant \cup {None} /\ queue' \in BOOLEAN
    BY <1>2, <2>1, SetTenantTypes DEF UpdateTenant
  <2>3. Proceeds
    BY <1>2, GotoTypes DEF UpdateTenant, Reason
  <2> QED
    BY <1>2, <2>2, <2>3, Zenon DEF UpdateTenant, OtherTypes, ApiTypes, ApiTyped, Proceeds
<1>3. CASE DeleteTenant
  <2>1. tenant' \in AITenant \cup {None} /\ queue' \in BOOLEAN
    <3>1. tenant # None => [tenant EXCEPT !.deleting = TRUE] \in AITenant
      BY Zenon DEF OtherTypes, AITenant
    <3> QED
      BY <1>3, <3>1, SetTenantTypes DEF DeleteTenant, OtherTypes
  <2>2. Proceeds
    BY <1>3, GotoTypes DEF DeleteTenant, Pc
  <2> QED
    BY <1>3, <2>1, <2>2, Zenon DEF DeleteTenant, OtherTypes, ApiTypes, ApiTyped, Proceeds
<1> QED
  BY <1>1, <1>2, <1>3

\* Steps of the worker that write the configuration.
LEMMA WritingTypes ==
    ASSUME Typed, AddFinalizer \/ UpdateStatus \/ RemoveFinalizer
    PROVE  Typed'
<1> USE DEF Typed
<1>1. CASE AddFinalizer
  <2>1. [rec.inst EXCEPT !.finalizer = TRUE] \in MaaSConfiguration
    BY <1>1, ConfigurationFields, Zenon DEF AddFinalizer, WorkerTypes
  <2>2. ApiTypes'
    BY <1>1, <2>1, Written, ObjectFacts DEF AddFinalizer
  <2> QED
    BY <1>1, <2>1, <2>2, Zenon DEF AddFinalizer, WorkerTypes, Record, Pc, OtherTypes
<1>2. CASE UpdateStatus
  <2>1. ApiTypes'
    <3>1. CASE Configuration # None /\ Configuration.uid = rec.inst.uid
      <4>1. [Configuration EXCEPT !.reason = rec.reason] \in Object["MaaSConfiguration"]
        BY <3>1, StoreFacts, ConfigurationFields, ObjectFacts, Zenon DEF WorkerTypes, Record
      <4> QED
        BY <1>2, <3>1, <4>1, Written, ObjectFacts DEF UpdateStatus
    <3>2. CASE ~(Configuration # None /\ Configuration.uid = rec.inst.uid)
      BY <1>2, <3>2, Zenon DEF UpdateStatus, apiVars, ApiTypes, ApiTyped
    <3> QED
      BY <3>1, <3>2
  <2>2. queue' \in BOOLEAN
    BY <1>2, Zenon DEF UpdateStatus, OtherTypes
  <2> QED
    BY <1>2, <2>1, <2>2, IdleTypes DEF UpdateStatus, WorkerTypes, OtherTypes
<1>3. CASE RemoveFinalizer
  <2>1. ApiTypes'
    BY <1>3, Written, ObjectFacts DEF RemoveFinalizer
  <2> QED
    BY <1>3, <2>1, IdleTypes DEF RemoveFinalizer, WorkerTypes, OtherTypes
<1> QED
  BY <1>1, <1>2, <1>3

\* The initial states are well-formed.
LEMMA InitTypes == Init => Typed
<1> SUFFICES ASSUME Init PROVE Typed
  OBVIOUS
<1>1. ApiTypes
  <2>1. \A k \in Kind : <<>> \in Seq([name : {o}, obj : Object[k]])
    OBVIOUS
  <2>2. \A k \in Kind : [n \in {o} |-> None] \in [{o} -> Object[k]]
    BY ObjectFacts
  <2> QED
    BY <2>1, <2>2 DEF Init, ApiTypes, ApiTyped
<1>2. WorkerTypes
  BY IdleTypes DEF Init, WorkerTypes
<1>3. OtherTypes
  <2>1. env \in Surrounding /\ queue \in BOOLEAN
    BY MaaSAssumption, Zenon DEF Init
  <2> QED
    BY <2>1, MaaSAssumption DEF Init, OtherTypes
<1> QED
  BY <1>1, <1>2, <1>3 DEF Typed

\* Every step keeps them so.
LEMMA TypesKept == Typed /\ [Next]_vars => Typed'
<1> SUFFICES ASSUME Typed, [Next]_vars PROVE Typed'
  BY Zenon
<1>1. CASE UNCHANGED vars
  BY <1>1, Zenon DEF vars, Typed, ApiTypes, ApiTyped, WorkerTypes, OtherTypes
<1>2. CASE Next
  BY <1>2, ClientTypes, OutsideTypes, EventTypes, QuietTypes, TenantTypes, WritingTypes, Zenon
     DEF Next, Work, Outside, Reading
<1> QED
  BY <1>1, <1>2

\* The variables keep their shapes, whatever interleaves with the worker.
THEOREM TypeCorrect == Spec => []TypeOK
<1>1. Spec => []Typed
  BY InitTypes, TypesKept, PTL DEF Spec
<1> QED
  BY <1>1, TypeParts, PTL

-----------------------------------------------------------------------------
(* The inductive invariant. *)

Events == watch["MaaSConfiguration"]

\* The configuration as the operator has seen it and will see it: what the cache
\* holds, then what each event on its way will put there.
views == [i \in 0..Len(Events) |-> IF i = 0 THEN Cached("MaaSConfiguration")
                                             ELSE Events[i].obj]

\* Configuration c is u and has the finalizer.
Holds(c, u) == c # None /\ c.uid = u /\ c.finalizer

\* The last view is the stored configuration.
EndsIn(v, n, c) == DOMAIN v = 0..n /\ v[n] = c

\* Views are configurations whose UIDs were given out.
Given(v, n) == \A i \in DOMAIN v : v[i] # None => v[i] \in MaaSConfiguration /\ v[i].uid <= n

\* A view of a deleted configuration is not followed by one from before.
StaysDeleted(v) ==
    \A i, j \in DOMAIN v :
        /\ i <= j /\ v[i] # None /\ v[j] # None
        /\ v[i].uid = v[j].uid /\ v[i].deleting
        => v[j].deleting

\* A configuration that looks alive and held is held, however old the view is.
LiveHeld(v, c) == \A i \in DOMAIN v :
    v[i] # None /\ v[i].finalizer /\ ~v[i].deleting => Holds(c, v[i].uid)

History ==
    /\ EndsIn(views, Len(Events), Configuration) /\ Given(views, uids)
    /\ StaysDeleted(views) /\ LiveHeld(views, Configuration)

Rendering == {"hasMaaS", "getOrganization", "getProfile", "getTenant", "createTenant",
              "updateTenant"}
Cleaning == {"getForCleanup", "deleteTenant", "removeFinalizer"}

\* Whatever is still to be seen of configuration u has it deleted.
SeenDeleted(v, u) == \A i \in DOMAIN v : v[i] # None /\ v[i].uid = u => v[i].deleting

\* The AITenant t is that of configuration u and not leaving.
Keeps(t, u) == t # None /\ t.owner = u /\ ~t.deleting

\* The worker renders for a configuration that holds, cleans up after one that
\* nobody will see alive again, and lets go when its AITenant is leaving or gone.
WorkerKnows ==
    /\ rec.pc # "idle" => rec.inst.uid <= uids
    /\ rec.pc \in Rendering => Holds(Configuration, rec.inst.uid)
    /\ rec.pc \in Cleaning => SeenDeleted(views, rec.inst.uid)
    /\ rec.pc = "updateTenant" => rec.seen.owner = rec.inst.uid
    /\ rec.pc = "removeFinalizer" => ~Keeps(tenant, rec.inst.uid)

Custody == History /\ WorkerKnows /\ NoOrphan

\* What the configuration's holding and its views become in a step.
Progress ==
    /\ History' /\ uids' \in Nat /\ uids <= uids'
    /\ \A u \in Uid : Holds(Configuration, u) => Holds(Configuration', u)
    /\ \A u \in Uid : u <= uids /\ SeenDeleted(views, u) => SeenDeleted(views', u)

\* The stored configuration may become c without the worker's knowledge: a field
\* changes, it is created, or it goes without having been held.
Grows(c) ==
    \/ /\ c # None /\ Configuration # None /\ c.uid = Configuration.uid /\ uids' = uids
       /\ Configuration.deleting => c.deleting
       /\ Configuration.finalizer => c.finalizer
    \/ /\ c # None /\ Configuration = None /\ ~c.finalizer
       /\ c.uid = uids + 1 /\ uids' = uids + 1
    \/ /\ c = None /\ uids' = uids
       /\ Configuration # None => ~Configuration.finalizer

\* A write of the configuration adds one view, at the end, or none.
Extended(c) ==
    /\ Configuration' = c
    /\ \/ Configuration = c /\ views' = views /\ Len(Events') = Len(Events)
       \/ /\ Len(Events') = Len(Events) + 1 /\ DOMAIN views' = 0..(Len(Events) + 1)
          /\ \A i \in 0..Len(Events) : views'[i] = views[i]
          /\ views'[Len(Events) + 1] = c

\* The number of events on their way is a natural number.
LEMMA EventsFact == ASSUME ApiTypes PROVE Len(Events) \in Nat
<1>1. Events \in Seq([name : {o}, obj : Object["MaaSConfiguration"]])
  BY ObjectFacts DEF ApiTypes, ApiTyped, Events
<1> QED
  BY <1>1

\* Extended is what a write does.
LEMMA WriteExtends ==
    ASSUME ApiTypes, NEW c \in Object["MaaSConfiguration"], Write("MaaSConfiguration", o, c)
    PROVE  Extended(c)
<1>1. /\ Wrote(Kind, "MaaSConfiguration", o, c) /\ Announced("MaaSConfiguration", o, c)
  BY Written, ObjectFacts
<1>2. store["MaaSConfiguration"] \in [{o} -> Object["MaaSConfiguration"]]
  BY ObjectFacts, Zenon DEF ApiTypes, ApiTyped
<1>3. Configuration' = c /\ Cached("MaaSConfiguration")' = Cached("MaaSConfiguration")
  BY <1>1, <1>2 DEF Wrote, Configuration, Stored, Cached
<1>4. CASE Configuration = c /\ Events' = Events
  BY <1>3, <1>4 DEF Extended, views
<1>5. CASE /\ Len(Events') = Len(Events) + 1
           /\ \A i \in 1..Len(Events) : Events'[i] = Events[i]
           /\ Events'[Len(Events) + 1].obj = c
  BY <1>3, <1>5, EventsFact DEF Extended, views
<1> QED
  BY <1>1, <1>4, <1>5 DEF Announced, Configuration, Stored, Events

\* Such a write keeps the history, who holds, and what is seen deleted.
LEMMA WriteProgress ==
    ASSUME Typed, History, NEW c \in Object["MaaSConfiguration"],
           Write("MaaSConfiguration", o, c), Grows(c)
    PROVE  Progress
<1> DEFINE n == Len(Events)
<1>1. Extended(c) /\ n \in Nat /\ uids \in Nat /\ c \in {None} \cup MaaSConfiguration
  BY WriteExtends, EventsFact, ObjectFacts, MaaSAssumption DEF Typed, OtherTypes
<1>2. uids' \in Nat /\ uids <= uids' /\ Configuration' = c
  BY <1>1 DEF Grows, Extended
<1>3. \A u \in Uid : Holds(Configuration, u) => Holds(Configuration', u)
  BY <1>2 DEF Grows, Holds
<1>4. CASE Configuration = c /\ views' = views /\ Len(Events') = Len(Events)
  <2>1. uids' = uids
    BY <1>4 DEF Grows
  <2>2. History'
    BY <1>1, <1>2, <1>4, <2>1 DEF History
  <2> QED
    BY <1>2, <1>3, <1>4, <2>2 DEF Progress
<1>5. CASE /\ Len(Events') = Len(Events) + 1 /\ DOMAIN views' = 0..(Len(Events) + 1)
           /\ \A i \in 0..Len(Events) : views'[i] = views[i]
           /\ views'[Len(Events) + 1] = c
  <2>1. EndsIn(views', Len(Events)', Configuration')
    BY <1>1, <1>2, <1>5 DEF EndsIn
  <2>2. Given(views', uids')
    BY <1>1, <1>2, <1>5 DEF Given, Grows, History, EndsIn, MaaSConfiguration, Uid
  <2>3. StaysDeleted(views')
    BY <1>1, <1>2, <1>5 DEF StaysDeleted, Given, Grows, History, EndsIn, MaaSConfiguration, Uid
  <2>4. LiveHeld(views', Configuration')
    BY <1>1, <1>2, <1>5 DEF LiveHeld, Holds, Grows, History, EndsIn
  <2>5. \A u \in Uid : u <= uids /\ SeenDeleted(views, u) => SeenDeleted(views', u)
    BY <1>1, <1>2, <1>5 DEF SeenDeleted, Grows, History, EndsIn, MaaSConfiguration, Uid
  <2> QED
    BY <1>2, <1>3, <2>1, <2>2, <2>3, <2>4, <2>5 DEF Progress, History
<1> QED
  BY <1>1, <1>4, <1>5 DEF Extended

\* A step that writes no configuration keeps its history.
LEMMA KeptProgress ==
    ASSUME Typed, History, UNCHANGED <<views, Configuration>>,
           Len(Events') = Len(Events), uids' \in Nat, uids <= uids'
    PROVE  Progress
<1>1. \A i \in DOMAIN views : views[i] # None => views[i].uid \in Nat
  BY DEF History, Given, MaaSConfiguration, Uid
<1>2. Given(views', uids')
  BY <1>1, MaaSAssumption DEF Typed, OtherTypes, History, Given
<1> QED
  BY <1>2 DEF Progress, History

\* A write of another kind changes no view of the configuration.
LEMMA OtherWrites ==
    ASSUME ApiTypes, NEW k \in Kind \ {"MaaSConfiguration"}, NEW obj \in Object[k],
           Write(k, o, obj)
    PROVE  UNCHANGED <<views, Configuration>> /\ Len(Events') = Len(Events)
<1>1. Wrote(Kind, k, o, obj)
  BY Written
<1> QED
  BY <1>1, ObjectFacts DEF Wrote, views, Events, Configuration, Stored, Cached

\* A delivery moves every view up by one, or none.
LEMMA DeliverProgress ==
    ASSUME Typed, History, NEW k \in Kind, Deliver(k), uids' = uids
    PROVE  Progress /\ UNCHANGED Configuration
<1> DEFINE n == Len(Events)
<1>1. Moved(Kind, k) /\ EventTyped({o}, Object, k)
  BY Delivered DEF Typed
<1>2. UNCHANGED Configuration /\ n \in Nat /\ uids \in Nat
  BY <1>1, EventsFact, MaaSAssumption DEF Moved, Configuration, Stored, Typed, OtherTypes
<1>3. CASE k # "MaaSConfiguration"
  <2>1. UNCHANGED <<views, Configuration>> /\ Len(Events') = Len(Events)
    BY <1>1, <1>2, <1>3, ObjectFacts DEF Moved, views, Events, Cached
  <2> QED
    BY <1>2, <2>1, KeptProgress
<1>4. CASE k = "MaaSConfiguration"
  <2>1. /\ n > 0 /\ Len(Events') = n - 1
        /\ \A i \in 1..(n - 1) : Events'[i] = Events[i + 1]
    BY <1>1, <1>4 DEF Moved, Events
  <2>2. Cached("MaaSConfiguration")' = Events[1].obj
    <3>1. cache["MaaSConfiguration"] \in [{o} -> Object["MaaSConfiguration"]]
      BY ObjectFacts, Zenon DEF Typed, ApiTypes, ApiTyped
    <3> QED
      BY <1>1, <1>4, <3>1 DEF Moved, EventTyped, Events, Cached
  <2>3. /\ DOMAIN views = 0..n /\ DOMAIN views' = 0..(n - 1)
        /\ \A i \in DOMAIN views' : i + 1 \in DOMAIN views /\ views'[i] = views[i + 1]
    BY <1>2, <2>1, <2>2 DEF views
  <2>4. EndsIn(views', Len(Events)', Configuration')
    BY <1>2, <2>1, <2>3 DEF EndsIn, History
  <2> HIDE DEF n
  <2>5. Given(views', uids')
    BY <1>2, <2>3 DEF Given, History
  <2>6. StaysDeleted(views')
    <3>1. SUFFICES ASSUME NEW i \in DOMAIN views', NEW j \in DOMAIN views', i <= j,
                          views'[i] # None, views'[j] # None,
                          views'[i].uid = views'[j].uid, views'[i].deleting
                   PROVE  views'[j].deleting
      BY DEF StaysDeleted
    <3>2. /\ i + 1 \in DOMAIN views /\ j + 1 \in DOMAIN views /\ i + 1 <= j + 1
          /\ views'[i] = views[i + 1] /\ views'[j] = views[j + 1]
      BY <1>2, <2>3, <3>1
    <3> QED
      BY <3>1, <3>2 DEF StaysDeleted, History
  <2>7. LiveHeld(views', Configuration')
    BY <1>2, <2>3 DEF LiveHeld, History
  <2>8. \A u \in Uid : SeenDeleted(views, u) => SeenDeleted(views', u)
    BY <2>3 DEF SeenDeleted
  <2> QED
    BY <1>2, <2>4, <2>5, <2>6, <2>7, <2>8 DEF Progress, History
<1> QED
  BY <1>2, <1>3, <1>4

\* Steps of others than the worker keep the custody.
LEMMA ProgressCustody ==
    ASSUME Typed, Custody, Progress, UNCHANGED <<rec, tenant>>
    PROVE  Custody'
<1>1. rec.pc # "idle" => rec.inst.uid \in Uid
  BY Zenon DEF Typed, WorkerTypes, MaaSConfiguration
<1>2. WorkerKnows'
  BY <1>1, MaaSAssumption
     DEF Custody, Progress, WorkerKnows, Rendering, Cleaning, Typed, OtherTypes, Uid
<1>3. NoOrphan'
  <2>1. tenant # None => tenant.owner \in Uid \cup {None}
    BY Zenon DEF Typed, OtherTypes, AITenant
  <2>2. \A u \in Uid : Keeps(tenant, u) => Holds(Configuration, u)
    BY MaaSAssumption DEF Custody, NoOrphan, Keeps, Holds, Uid
  <2>3. \A u \in Uid : Keeps(tenant, u) => Holds(Configuration', u)
    BY <2>2 DEF Progress
  <2> QED
    BY <2>1, <2>3 DEF NoOrphan, Keeps, Holds
<1> QED
  BY <1>2, <1>3 DEF Custody, Progress

\* A step that leaves the API server alone leaves the views alone.
LEMMA QuietProgress ==
    ASSUME Typed, History, UNCHANGED <<store, cache, watch, uids>>
    PROVE  Progress /\ UNCHANGED <<views, Configuration>>
<1>1. UNCHANGED <<views, Configuration>> /\ Len(Events') = Len(Events)
  BY DEF views, Events, Configuration, Stored, Cached
<1>2. uids \in Nat
  BY MaaSAssumption DEF Typed, OtherTypes
<1> QED
  BY <1>1, <1>2, KeptProgress

-----------------------------------------------------------------------------
(* Every step keeps the custody. *)

\* What clients do to configurations is done to the stored one, not to views.
LEMMA ClientCustody ==
    ASSUME Typed, Custody, Clients
    PROVE  Custody'
<1> USE DEF Typed, Custody
<1>0. uids \in Nat /\ "Organization" # "MaaSConfiguration"
      /\ "OrganizationProfile" # "MaaSConfiguration"
  BY MaaSAssumption DEF OtherTypes
<1>1. ASSUME NEW root \in env.roots, CreateOrganization(root) PROVE Progress
  <2>1. uids + 1 \in Uid /\ uids' = uids + 1
    BY <1>1, FreshUidTypes DEF CreateOrganization
  <2>2. root \in BOOLEAN
    BY DEF OtherTypes, Surrounding
  <2>3. [uid |-> uids + 1, root |-> root] \in Object["Organization"]
    BY <2>1, <2>2, ObjectFacts DEF Organization
  <2> QED
    BY <1>0, <1>1, <2>1, <2>3, OtherWrites, KeptProgress, ObjectFacts DEF CreateOrganization
<1>2. CASE DeleteOrganization
  <2>1. Progress
    BY <1>0, <1>2, OtherWrites, KeptProgress, ObjectFacts DEF DeleteOrganization
  <2> QED
    BY <1>2, <2>1, ProgressCustody DEF DeleteOrganization, operator
<1>3. CASE DeleteProfile
  <2>1. Progress
    BY <1>0, <1>3, OtherWrites, KeptProgress, ObjectFacts DEF DeleteProfile
  <2> QED
    BY <1>3, <2>1, ProgressCustody DEF DeleteProfile, operator
<1>4. CASE DeleteConfiguration
  <2> DEFINE c == IF Configuration.finalizer
                  THEN [Configuration EXCEPT !.deleting = TRUE] ELSE None
  <2>1. c \in Object["MaaSConfiguration"] /\ Write("MaaSConfiguration", o, c)
    BY <1>4, StoreFacts, ConfigurationFields, ObjectFacts, Zenon DEF DeleteConfiguration
  <2>2. Grows(c)
    BY <1>4, StoreFacts, ConfigurationFields, MaaSAssumption
       DEF DeleteConfiguration, Grows, MaaSConfiguration
  <2>3. Progress
    BY <2>1, <2>2, WriteProgress
  <2> QED
    BY <1>4, <2>3, ProgressCustody DEF DeleteConfiguration, operator
<1>5. ASSUME NEW platform \in Platforms, PutProfile(platform) PROVE Progress
  <2>1. [platform |-> platform] \in Object["OrganizationProfile"]
    BY MaaSAssumption, ObjectFacts DEF OrganizationProfile
  <2> QED
    BY <1>0, <1>5, <2>1, OtherWrites, KeptProgress, ObjectFacts DEF PutProfile
<1>6. ASSUME NEW spec \in env.specs, PutConfiguration(spec) PROVE Progress
  <2>1. spec \in SUBSET SpecField
    BY DEF OtherTypes, Surrounding
  <2>2. CASE Configuration = None
    <3> DEFINE c == [uid |-> uids + 1, spec |-> spec, deleting |-> FALSE,
                     finalizer |-> FALSE, reason |-> None]
    <3>1. uids + 1 \in Uid /\ uids' = uids + 1
      BY <1>6, <2>2, FreshUidTypes DEF PutConfiguration
    <3>2. c \in MaaSConfiguration
      BY <2>1, <3>1 DEF MaaSConfiguration, Reason
    <3>3. Write("MaaSConfiguration", o, c)
      BY <1>6, <2>2 DEF PutConfiguration
    <3>4. c # None
      BY <3>2, MaaSAssumption, Zenon
    <3>5. Grows(c)
      BY <2>2, <3>1, <3>4 DEF Grows
    <3> QED
      BY <3>2, <3>3, <3>5, WriteProgress, ObjectFacts
  <2>3. CASE Configuration # None
    <3> DEFINE c == [Configuration EXCEPT !.spec = spec]
    <3>1. Configuration \in MaaSConfiguration
      BY <2>3, StoreFacts
    <3>2. c \in MaaSConfiguration /\ Write("MaaSConfiguration", o, c) /\ uids' = uids
      BY <1>6, <2>1, <2>3, <3>1, ConfigurationFields, Zenon DEF PutConfiguration
    <3>3. Grows(c)
      BY <3>1, <3>2, MaaSAssumption DEF Grows, MaaSConfiguration
    <3> QED
      BY <3>2, <3>3, WriteProgress, ObjectFacts
  <2> QED
    BY <2>2, <2>3
<1>7. CASE \/ \E root \in env.roots : CreateOrganization(root)
           \/ \E platform \in Platforms : PutProfile(platform)
           \/ \E spec \in env.specs : PutConfiguration(spec)
  BY <1>1, <1>5, <1>6, <1>7, ProgressCustody, Zenon
     DEF CreateOrganization, PutProfile, PutConfiguration, operator
<1> QED
  BY <1>2, <1>3, <1>4, <1>7 DEF Clients

\* The MaaS operator and others take AITenants away, make their own, or leave owner
\* and deletion of an AITenant as they are.
LEMMA OutsideCustody ==
    ASSUME Typed, Custody, Outside
    PROVE  Custody'
<1>1. PICK t \in AITenant \cup {None} :
         /\ SetTenant(t) /\ UNCHANGED external
         /\ \/ t = None \/ t = tenant \/ t.owner = None
            \/ /\ tenant # None /\ t # None /\ t.owner = tenant.owner
               /\ t.deleting = tenant.deleting
  BY OutsideSets
<1>2. Progress /\ UNCHANGED <<views, Configuration>> /\ tenant' = t /\ uids' = uids
      /\ rec' = rec
  BY <1>1, QuietProgress DEF external, Custody, SetTenant
<1>3. \A u \in Uid : Keeps(tenant', u) => Keeps(tenant, u)
  BY <1>1, <1>2, MaaSAssumption DEF Keeps, Uid
<1>4. WorkerKnows'
  <2>1. rec.pc # "idle" => rec.inst.uid \in Uid
    BY Zenon DEF Typed, WorkerTypes, MaaSConfiguration
  <2> QED
    BY <1>2, <1>3, <2>1 DEF Custody, WorkerKnows, Cleaning
<1>5. NoOrphan'
  <2>1. t # None => t.owner \in Uid \cup {None}
    BY DEF AITenant
  <2> QED
    BY <1>1, <1>2, <2>1 DEF Custody, NoOrphan
<1> QED
  BY <1>2, <1>4, <1>5 DEF Custody, Progress

\* Events and restarts bring the operator nearer to the store.
LEMMA EventCustody ==
    ASSUME Typed, Custody, (\E k \in Kind : Informer(k)) \/ Resync \/ Restart
    PROVE  Custody'
<1>1. ASSUME NEW k \in Kind, Informer(k) PROVE Custody'
  BY <1>1, DeliverProgress, ProgressCustody DEF Informer, Custody
<1>2. CASE Resync
  BY <1>2, QuietProgress, ProgressCustody DEF Resync, Custody
<1>3. CASE Restart
  <2>1. /\ UNCHANGED <<Configuration, tenant, uids>> /\ Events' = <<>> /\ rec' = Idle
        /\ Cached("MaaSConfiguration")' = Configuration
    BY <1>3, ObjectFacts DEF Restart, Configuration, Stored, Cached, Events
  <2>2. Len(Events') = 0 /\ DOMAIN views' = {0} /\ views'[0] = Configuration
    BY <2>1 DEF views
  <2>3. Configuration # None => Configuration \in MaaSConfiguration /\ Configuration.uid <= uids
    BY StoreFacts, EventsFact DEF Typed, Custody, History, EndsIn, Given
  <2>4. History'
    BY <2>1, <2>2, <2>3 DEF History, EndsIn, Given, StaysDeleted, LiveHeld, Holds
  <2>5. WorkerKnows'
    BY <2>1, IdleTypes DEF WorkerKnows, Rendering, Cleaning
  <2> QED
    BY <2>1, <2>4, <2>5, Zenon DEF Custody, NoOrphan
<1> QED
  BY <1>1, <1>2, <1>3, Zenon

\* What the worker reads is what it needs to know; failures make it forget.
LEMMA QuietCustody ==
    ASSUME Typed, Custody, Reading \/ Dequeue \/ RemovalRefused \/ CallError
    PROVE  Custody'
<1> USE DEF Custody
<1>1. UNCHANGED <<store, cache, watch, uids, tenant>>
  BY ReadingSteps DEF internal, Dequeue, RemovalRefused, CallError
<1>2. History' /\ UNCHANGED <<views, Configuration>>
  BY <1>1, QuietProgress DEF Progress
<1>3. NoOrphan'
  BY <1>1, <1>2 DEF NoOrphan
<1>4. CASE Reading
  <2>1. rec'.inst = rec.inst /\ rec.pc # "idle" /\ rec \in Record
    BY <1>4, ReadingSteps DEF Proceeds, Typed, WorkerTypes
  <2>2. /\ rec'.pc \in Rendering => rec.pc \in Rendering
        /\ rec'.pc \in Cleaning => rec.pc \in Cleaning
    BY <1>4, <2>1, Zenon DEF Reading, HasMaaS, GetOrganization, GetProfile, GetTenant, WriteRefused,
       ActionError, GetForCleanup, Goto, Report, Fail, Rendering, Cleaning, Record
  <2>3. rec'.pc = "updateTenant" => rec'.seen.owner = rec.inst.uid
    BY <1>4, <2>1, Zenon DEF Reading, HasMaaS, GetOrganization, GetProfile, GetTenant, WriteRefused,
       ActionError, GetForCleanup, Goto, Report, Fail, Record, IsControlledBy, Read
  <2>4. rec'.pc = "removeFinalizer" => ~Keeps(tenant, rec.inst.uid)
    BY <1>4, <2>1, Zenon DEF Reading, HasMaaS, GetOrganization, GetProfile, GetTenant, WriteRefused,
       ActionError, GetForCleanup, Goto, Report, Fail, Record, IsControlledBy, ToDelete, Keeps
  <2>5. WorkerKnows'
    BY <1>1, <1>2, <2>1, <2>2, <2>3, <2>4, Zenon DEF WorkerKnows
  <2> QED
    BY <1>2, <1>3, <2>5
<1>5. CASE Dequeue
  <2> DEFINE inst == Cached("MaaSConfiguration")
  <2>1. 0 \in DOMAIN views /\ views[0] = inst
    BY EventsFact DEF views, Typed
  <2>2. CASE inst = None
    BY <1>1, <1>2, <1>3, <1>5, <2>2 DEF Dequeue, WorkerKnows
  <2>3. CASE inst # None
    <3>1. inst \in MaaSConfiguration /\ inst.uid <= uids
      BY <2>1, <2>3 DEF History, Given
    <3>2. inst.finalizer /\ ~inst.deleting => Holds(Configuration, inst.uid)
      BY <2>1, <2>3 DEF History, LiveHeld
    <3>3. inst.deleting => SeenDeleted(views, inst.uid)
      <4>1. \A i \in DOMAIN views : 0 <= i
        BY EventsFact DEF views, Typed
      <4> QED
        BY <2>1, <2>3, <4>1 DEF History, StaysDeleted, SeenDeleted
    <3>4. /\ rec'.inst = inst /\ rec'.pc \in {"getForCleanup", "addFinalizer", "hasMaaS"}
          /\ rec'.pc = "getForCleanup" => inst.deleting
          /\ rec'.pc = "hasMaaS" => inst.finalizer /\ ~inst.deleting
      BY <1>5, <2>3, <3>1, Zenon DEF Dequeue, Unheld, Idle
    <3>5. WorkerKnows'
      BY <1>1, <1>2, <3>1, <3>2, <3>3, <3>4, Zenon DEF WorkerKnows, Rendering, Cleaning
    <3> QED
      BY <1>2, <1>3, <3>5
  <2> QED
    BY <2>2, <2>3
<1>6. CASE RemovalRefused \/ CallError
  <2>1. WorkerKnows'
    BY <1>6, IdleTypes DEF RemovalRefused, CallError, Retry, WorkerKnows, Rendering, Cleaning
  <2> QED
    BY <1>2, <1>3, <2>1
<1> QED
  BY <1>4, <1>5, <1>6

\* AITenants are made for configurations that hold, and go before they are let go.
LEMMA TenantCustody ==
    ASSUME Typed, Custody, (\E b \in BOOLEAN : CreateTenant(b)) \/ UpdateTenant \/ DeleteTenant
    PROVE  Custody'
<1> USE DEF Custody
<1>1. UNCHANGED <<store, cache, watch, uids>> /\ rec.pc # "idle" /\ rec \in Record
      /\ rec'.inst = rec.inst
  BY TenantTypes, Zenon DEF CreateTenant, UpdateTenant, DeleteTenant, Typed, WorkerTypes, Proceeds
<1>2. History' /\ UNCHANGED <<views, Configuration>>
  BY <1>1, QuietProgress, Zenon DEF Progress
<1>3. ASSUME NEW b \in BOOLEAN, CreateTenant(b) PROVE Custody'
  <2>1. Holds(Configuration, rec.inst.uid)
    BY <1>3 DEF CreateTenant, WorkerKnows, Rendering
  <2>2. rec'.pc = "status" /\ tenant'.owner = rec.inst.uid
    BY <1>1, <1>3, Zenon DEF CreateTenant, SetTenant, Report, Fail, Record
  <2> QED
    BY <1>1, <1>2, <2>1, <2>2, Zenon DEF WorkerKnows, NoOrphan, Holds, Rendering, Cleaning
<1>4. CASE UpdateTenant
  <2>1. tenant \in AITenant
    BY <1>4 DEF UpdateTenant, Typed, WorkerTypes
  <2>2. /\ rec'.pc = "status" /\ tenant'.owner = tenant.owner
        /\ tenant'.deleting = tenant.deleting
    BY <1>1, <1>4, <2>1 DEF UpdateTenant, SetTenant, Report, Record, AITenant
  <2>3. tenant # None
    BY <2>1, MaaSAssumption
  <2> QED
    BY <1>1, <1>2, <2>2, <2>3, Zenon DEF WorkerKnows, NoOrphan, Rendering, Cleaning
<1>5. CASE DeleteTenant
  <2>1. /\ rec'.pc = "removeFinalizer" /\ SeenDeleted(views, rec.inst.uid)
    BY <1>1, <1>5 DEF DeleteTenant, Goto, Record, WorkerKnows, Cleaning
  <2>2. tenant' # None => tenant'.deleting
    BY <1>5 DEF DeleteTenant, SetTenant, Typed, OtherTypes, AITenant
  <2> QED
    BY <1>1, <1>2, <2>1, <2>2, Zenon DEF WorkerKnows, NoOrphan, Rendering, Cleaning, Keeps
<1> QED
  BY <1>3, <1>4, <1>5

\* The finalizer is set before anything is made, and removed when nobody will see
\* the configuration alive again.
LEMMA WritingCustody ==
    ASSUME Typed, Custody, AddFinalizer \/ UpdateStatus \/ RemoveFinalizer
    PROVE  Custody'
<1> USE DEF Custody
<1>1. CASE AddFinalizer
  <2> DEFINE c == [rec.inst EXCEPT !.finalizer = TRUE]
  <2>1. rec.inst \in MaaSConfiguration /\ Configuration = rec.inst /\ rec \in Record
    BY <1>1 DEF AddFinalizer, UpdateAccepted, Typed, WorkerTypes
  <2>2. /\ c \in MaaSConfiguration /\ c.uid = rec.inst.uid
        /\ c.finalizer /\ c.deleting = rec.inst.deleting
    BY <2>1, Zenon DEF MaaSConfiguration
  <2>3. /\ Write("MaaSConfiguration", o, c) /\ rec'.pc = "hasMaaS" /\ rec'.inst = c
        /\ UNCHANGED <<tenant, uids>>
    BY <1>1, <2>1 DEF AddFinalizer, Record
  <2> HIDE DEF c
  <2>4. c # None /\ rec.inst # None
    BY <2>1, <2>2, MaaSAssumption
  <2>5. Progress /\ Extended(c)
    BY <2>1, <2>2, <2>3, <2>4, WriteProgress, WriteExtends, ObjectFacts, Zenon DEF Grows, Typed
  <2>6. Holds(Configuration', c.uid)
    BY <2>2, <2>4, <2>5 DEF Holds, Extended
  <2>7. WorkerKnows'
    BY <1>1, <2>2, <2>3, <2>6, Zenon DEF AddFinalizer, WorkerKnows, Rendering, Cleaning
  <2>8. NoOrphan'
    BY <2>1, <2>2, <2>3, <2>4, <2>5, Zenon DEF NoOrphan, Extended
  <2> QED
    BY <2>5, <2>7, <2>8 DEF Progress
<1>2. CASE UpdateStatus
  <2>1. Progress
    <3>1. CASE Configuration # None /\ Configuration.uid = rec.inst.uid
      <4> DEFINE c == [Configuration EXCEPT !.reason = rec.reason]
      <4>1. Configuration \in MaaSConfiguration /\ rec.reason \in Reason
        BY <3>1, StoreFacts DEF Typed, WorkerTypes, Record
      <4>2. c \in MaaSConfiguration /\ Write("MaaSConfiguration", o, c) /\ uids' = uids
        BY <1>2, <3>1, <4>1, ConfigurationFields, Zenon DEF UpdateStatus
      <4>3. Grows(c)
        BY <3>1, <4>1, <4>2, MaaSAssumption DEF Grows, MaaSConfiguration
      <4> QED
        BY <4>2, <4>3, WriteProgress, ObjectFacts
    <3>2. CASE ~(Configuration # None /\ Configuration.uid = rec.inst.uid)
      BY <1>2, <3>2, QuietProgress DEF UpdateStatus, apiVars
    <3> QED
      BY <3>1, <3>2
  <2>2. WorkerKnows'
    BY <1>2, IdleTypes DEF UpdateStatus, WorkerKnows, Rendering, Cleaning
  <2>3. NoOrphan'
    <3>1. tenant # None => tenant.owner \in Uid \cup {None}
      BY DEF Typed, OtherTypes, AITenant
    <3>2. \A u \in Uid : Keeps(tenant, u) => Holds(Configuration', u)
      BY <2>1, MaaSAssumption DEF NoOrphan, Keeps, Holds, Uid, Progress
    <3> QED
      BY <1>2, <3>1, <3>2 DEF UpdateStatus, NoOrphan, Keeps, Holds
  <2> QED
    BY <2>1, <2>2, <2>3 DEF Progress
<1>3. CASE RemoveFinalizer
  <2> DEFINE n == Len(Events)
  <2>1. /\ rec.inst \in MaaSConfiguration /\ Configuration = rec.inst /\ uids' = uids
        /\ Write("MaaSConfiguration", o, None) /\ tenant' = tenant /\ rec' = Idle
        /\ SeenDeleted(views, rec.inst.uid) /\ ~Keeps(tenant, rec.inst.uid)
    BY <1>3 DEF RemoveFinalizer, UpdateAccepted, Typed, WorkerTypes, WorkerKnows, Cleaning
  <2>2. Extended(None) /\ n \in Nat /\ Configuration # None
    BY <2>1, WriteExtends, EventsFact, ObjectFacts, MaaSAssumption DEF Typed
  <2>3. /\ Len(Events') = n + 1 /\ DOMAIN views' = 0..(n + 1) /\ views'[n + 1] = None
        /\ Configuration' = None /\ \A i \in 0..n : views'[i] = views[i]
    BY <2>2, Zenon DEF Extended
  <2>4. \A i \in DOMAIN views : ~(views[i] # None /\ views[i].finalizer /\ ~views[i].deleting)
    BY <2>1 DEF History, LiveHeld, Holds, SeenDeleted
  <2>5. EndsIn(views', Len(Events)', Configuration')
    BY <2>2, <2>3, Zenon DEF EndsIn
  <2>6. Given(views', uids') /\ StaysDeleted(views') /\ LiveHeld(views', Configuration')
    BY <2>1, <2>2, <2>3, <2>4 DEF Given, StaysDeleted, LiveHeld, History, EndsIn
  <2>7. WorkerKnows'
    BY <2>1, IdleTypes, Zenon DEF WorkerKnows, Rendering, Cleaning
  <2>8. NoOrphan'
    BY <2>1 DEF NoOrphan, Keeps
  <2> QED
    BY <2>5, <2>6, <2>7, <2>8 DEF History
<1> QED
  BY <1>1, <1>2, <1>3

\* Initially there is nothing to see and nobody to hold.
LEMMA InitCustody == Init => Custody
<1> SUFFICES ASSUME Init PROVE Custody
  OBVIOUS
<1>1. Configuration = None /\ Cached("MaaSConfiguration") = None /\ Events = <<>>
  BY ObjectFacts DEF Init, Configuration, Stored, Cached, Events
<1>2. Len(Events) = 0 /\ DOMAIN views = {0} /\ views[0] = None
  BY <1>1 DEF views
<1>3. History
  BY <1>1, <1>2 DEF History, EndsIn, Given, StaysDeleted, LiveHeld
<1> QED
  BY <1>3, IdleTypes DEF Init, Custody, WorkerKnows, NoOrphan, Rendering, Cleaning

\* Every step keeps the custody.
LEMMA CustodyKept == Typed /\ Custody /\ [Next]_vars => Custody'
<1> SUFFICES ASSUME Typed, Custody, [Next]_vars PROVE Custody'
  OBVIOUS
<1>1. CASE UNCHANGED vars
  BY <1>1, QuietProgress, ProgressCustody DEF vars, Custody
<1>2. CASE Next
  BY <1>2, ClientCustody, OutsideCustody, EventCustody, QuietCustody, TenantCustody,
     WritingCustody, Zenon DEF Next, Work, Outside, Reading
<1> QED
  BY <1>1, <1>2

\* Every reachable state is well-formed and in custody.
LEMMA CustodyInvariant == Spec => [](Typed /\ Custody)
<1>1. Init => Typed /\ Custody
  BY InitTypes, InitCustody
<1>2. Typed /\ Custody /\ [Next]_vars => (Typed /\ Custody)'
  BY TypesKept, CustodyKept
<1> QED
  BY <1>1, <1>2, PTL DEF Spec

-----------------------------------------------------------------------------
(* The theorems. *)

\* An AITenant that the controller made and that is not leaving has its
\* configuration, held by the finalizer, in every reachable state.
THEOREM NeverOrphaned == Spec => []NoOrphan
<1>1. Custody => NoOrphan
  BY DEF Custody
<1> QED
  BY <1>1, CustodyInvariant, PTL

\* No step of the worker takes over or rewrites an AITenant of somebody else.
THEOREM ForeignRespected == Spec => ForeignNotAdopted
<1> DEFINE A == rec' # rec /\ Foreign(tenant) =>
                    /\ tenant' # None
                    /\ tenant'.owner = None /\ tenant'.spec = tenant.spec
<1>1. Typed /\ Custody /\ [Next]_vars => [A]_vars
  <2> SUFFICES ASSUME Typed, Custody, Next, rec' # rec, Foreign(tenant)
               PROVE  tenant' # None /\ tenant'.owner = None /\ tenant'.spec = tenant.spec
    OBVIOUS
  <2>1. tenant # None /\ tenant.owner = None /\ tenant \in AITenant
    BY DEF Foreign, Typed, OtherTypes
  <2>2. CASE DeleteTenant
    <3>1. tenant' = [tenant EXCEPT !.deleting = TRUE]
      BY <2>1, <2>2 DEF DeleteTenant, SetTenant
    <3>2. [tenant EXCEPT !.deleting = TRUE] \in AITenant
      BY <2>1, Zenon DEF AITenant
    <3>3. tenant' # None
      BY <3>1, <3>2, MaaSAssumption, Zenon
    <3> QED
      BY <2>1, <3>1, <3>3 DEF AITenant
  <2>3. ~UpdateTenant
    BY <2>1, MaaSAssumption DEF UpdateTenant, Custody, WorkerKnows, Typed, WorkerTypes,
       MaaSConfiguration, Uid
  <2>4. CASE tenant' = tenant
    BY <2>1, <2>4
  <2>5. DeleteTenant \/ tenant' = tenant
    BY <2>1, <2>3, ReadingSteps, Zenon
       DEF Next, Work, Clients, Reading, CreateOrganization, DeleteOrganization, PutProfile,
       DeleteProfile, PutConfiguration, DeleteConfiguration, operator, ReportReady,
       FinishDeletion, OtherDeletes, OtherCreates, ToggleCRD, external, Informer, Resync,
       Restart, Dequeue, AddFinalizer, CreateTenant, UpdateStatus, RemoveFinalizer,
       RemovalRefused, CallError, internal
  <2> QED
    BY <2>2, <2>4, <2>5
<1> QED
  BY <1>1, CustodyInvariant, PTL DEF Spec, ForeignNotAdopted

-----------------------------------------------------------------------------
(* The controller implements AITenantLife. *)

\* The configuration that holds, and what Life sees of the AITenant.
holder == IF Configuration # None /\ Configuration.finalizer THEN Configuration.uid ELSE None
life == IF tenant = None THEN None
        ELSE [owner |-> tenant.owner, leaving |-> tenant.deleting]

LifeStep == Life!Next \/ UNCHANGED Life!vars

\* The steps of Life, in those terms.
LEMMA LifeSteps ==
    /\ UNCHANGED <<holder, life>> => LifeStep
    /\ /\ UNCHANGED holder /\ life = None
       /\ \/ life' = [owner |-> None, leaving |-> FALSE]
          \/ holder # None /\ life' = [owner |-> holder, leaving |-> FALSE]
       => LifeStep
    /\ /\ UNCHANGED holder /\ life # None
       /\ life' = None \/ life' = [owner |-> life.owner, leaving |-> TRUE]
       => LifeStep
    /\ UNCHANGED life /\ holder = None /\ holder' \in Uid => LifeStep
    /\ UNCHANGED life /\ holder # None /\ holder' = None /\ ~Keeps(tenant, holder) => LifeStep
<1>1. UNCHANGED <<holder, life>> => UNCHANGED Life!vars
  BY Zenon DEF Life!vars, holder, life
<1>2. UNCHANGED holder /\ life = None /\ life' = [owner |-> None, leaving |-> FALSE]
      => Life!Appear
  BY Zenon DEF Life!Appear, holder, life
<1>3. /\ UNCHANGED holder /\ life = None
      /\ holder # None /\ life' = [owner |-> holder, leaving |-> FALSE]
      => Life!Make
  BY Zenon DEF Life!Make, holder, life
<1>4. UNCHANGED holder /\ life # None /\ life' = None => Life!Vanish
  BY Zenon DEF Life!Vanish, holder, life
<1>5. UNCHANGED holder /\ life # None /\ life' = [owner |-> life.owner, leaving |-> TRUE]
      => Life!Leave
  BY Zenon DEF Life!Leave, holder, life
<1>6. UNCHANGED life /\ holder = None => Life!Hold(holder')
  BY Zenon DEF Life!Hold, holder, life
<1>7. UNCHANGED life /\ holder # None /\ holder' = None /\ ~Keeps(tenant, holder)
      => Life!Release
  BY DEF Life!Release, Life!Kept, holder, life, Keeps
<1>8. holder' \in Uid /\ Life!Hold(holder') => Life!Next
  BY Zenon DEF Life!Next
<1> QED
  BY <1>1, <1>2, <1>3, <1>4, <1>5, <1>6, <1>7, <1>8, Zenon DEF LifeStep, Life!Next

\* Clients change neither who holds nor the AITenant.
LEMMA ClientLife ==
    ASSUME Typed, Clients
    PROVE  UNCHANGED <<holder, life>>
<1> USE DEF Typed
<1>1. UNCHANGED tenant
  BY Zenon DEF Clients, CreateOrganization, DeleteOrganization, PutProfile, DeleteProfile,
     PutConfiguration, DeleteConfiguration, operator
<1>2. "Organization" # "MaaSConfiguration" /\ "OrganizationProfile" # "MaaSConfiguration"
  OBVIOUS
<1>3. ASSUME NEW root \in env.roots, CreateOrganization(root) PROVE UNCHANGED Configuration
  <2>1. uids + 1 \in Uid /\ root \in BOOLEAN
    BY <1>3, FreshUidTypes DEF CreateOrganization, OtherTypes, Surrounding
  <2>2. [uid |-> uids + 1, root |-> root] \in Object["Organization"]
    BY <2>1, ObjectFacts, Zenon DEF Organization
  <2> QED
    BY <1>2, <1>3, <2>2, OtherWrites, ObjectFacts, Zenon DEF CreateOrganization
<1>4. CASE DeleteOrganization \/ DeleteProfile
  BY <1>1, <1>2, <1>4, OtherWrites, ObjectFacts, Zenon
     DEF DeleteOrganization, DeleteProfile, holder, life
<1>5. ASSUME NEW platform \in Platforms, PutProfile(platform) PROVE UNCHANGED Configuration
  <2>1. [platform |-> platform] \in Object["OrganizationProfile"]
    BY MaaSAssumption, ObjectFacts DEF OrganizationProfile
  <2> QED
    BY <1>2, <1>5, <2>1, OtherWrites, ObjectFacts DEF PutProfile
<1>6. CASE DeleteConfiguration
  <2> DEFINE c == IF Configuration.finalizer
                  THEN [Configuration EXCEPT !.deleting = TRUE] ELSE None
  <2>1. Configuration \in MaaSConfiguration
    BY <1>6, StoreFacts DEF DeleteConfiguration
  <2>2. c \in Object["MaaSConfiguration"] /\ Write("MaaSConfiguration", o, c)
    BY <1>6, <2>1, ConfigurationFields, ObjectFacts, Zenon DEF DeleteConfiguration
  <2>3. Configuration' = c
    BY <2>2, WriteExtends DEF Extended
  <2> QED
    BY <1>1, <2>1, <2>3, ConfigurationFields, MaaSAssumption DEF holder, life, MaaSConfiguration
<1>7. ASSUME NEW spec \in env.specs, PutConfiguration(spec) PROVE UNCHANGED holder
  <2>1. spec \in SUBSET SpecField
    BY DEF OtherTypes, Surrounding
  <2>2. CASE Configuration = None
    <3> DEFINE c == [uid |-> uids + 1, spec |-> spec, deleting |-> FALSE,
                     finalizer |-> FALSE, reason |-> None]
    <3>1. c \in Object["MaaSConfiguration"]
      BY <1>7, <2>1, <2>2, FreshUidTypes, ObjectFacts
         DEF PutConfiguration, MaaSConfiguration, Reason
    <3>2. Configuration' = c
      BY <1>7, <2>2, <3>1, WriteExtends DEF PutConfiguration, Extended
    <3> QED
      BY <2>2, <3>2 DEF holder
  <2>3. CASE Configuration # None
    <3> DEFINE c == [Configuration EXCEPT !.spec = spec]
    <3>1. Configuration \in MaaSConfiguration /\ c \in MaaSConfiguration
      BY <2>1, <2>3, StoreFacts, ConfigurationFields, Zenon
    <3>2. Configuration' = c
      BY <1>7, <2>3, <3>1, WriteExtends, ObjectFacts DEF PutConfiguration, Extended
    <3> QED
      BY <3>1, <3>2, MaaSAssumption DEF holder, MaaSConfiguration
  <2> QED
    BY <2>2, <2>3
<1> QED
  BY <1>1, <1>3, <1>4, <1>5, <1>6, <1>7 DEF Clients, holder, life

\* What Life sees of an AITenant is never None.
LEMMA LifeFact ==
    ASSUME Typed
    PROVE  tenant # None => life # None /\ life.owner = tenant.owner
<1>1. tenant # None => [owner |-> tenant.owner, leaving |-> tenant.deleting]
                          \in [owner : Uid \cup {None}, leaving : BOOLEAN]
  BY Zenon DEF Typed, OtherTypes, AITenant
<1>2. tenant # None => life # None
  BY <1>1, MaaSAssumption DEF life
<1>3. tenant # None => life.owner = tenant.owner
  BY DEF life
<1> QED
  BY <1>2, <1>3

\* The MaaS operator and others take steps of Life.
LEMMA OutsideLife ==
    ASSUME Typed, Outside
    PROVE  LifeStep
<1>1. UNCHANGED holder
  BY Zenon DEF Outside, ReportReady, FinishDeletion, OtherDeletes, OtherCreates, ToggleCRD,
     external, holder, Configuration, Stored
<1>2. CASE ReportReady
  <2>1. tenant \in AITenant /\ [tenant EXCEPT !.ready = TRUE] \in AITenant
        /\ tenant' = [tenant EXCEPT !.ready = TRUE]
    BY <1>2, Zenon DEF ReportReady, SetTenant, Typed, OtherTypes, AITenant
  <2>2. tenant' # None /\ tenant # None
    BY <2>1, MaaSAssumption, Zenon
  <2>3. UNCHANGED life
    BY <2>1, <2>2 DEF life, AITenant
  <2> QED
    BY <1>1, <2>3, LifeSteps
<1>3. CASE tenant' = None
  BY <1>1, <1>3, LifeFact, LifeSteps DEF life
<1>4. CASE OtherCreates
  <2>1. tenant = None /\ tenant' = foreignTenant /\ foreignTenant \in AITenant
    BY <1>4 DEF OtherCreates, SetTenant, foreignTenant, AITenant
  <2>2. foreignTenant # None
    BY <2>1, MaaSAssumption, Zenon
  <2>3. life = None /\ life' = [owner |-> None, leaving |-> FALSE]
    BY <2>1, <2>2, Zenon DEF life, foreignTenant
  <2> QED
    BY <1>1, <2>3, LifeSteps
<1>5. CASE tenant' = tenant
  BY <1>1, <1>5, LifeSteps DEF life
<1> QED
  BY <1>2, <1>3, <1>4, <1>5
     DEF Outside, FinishDeletion, OtherDeletes, ToggleCRD, SetTenant

\* So does the worker when it changes the AITenant.
LEMMA TenantLife ==
    ASSUME Typed, Custody, (\E b \in BOOLEAN : CreateTenant(b)) \/ UpdateTenant \/ DeleteTenant
    PROVE  LifeStep
<1>1. UNCHANGED holder
  BY Zenon DEF CreateTenant, UpdateTenant, DeleteTenant, holder, Configuration, Stored
<1>2. ASSUME NEW b \in BOOLEAN, CreateTenant(b) PROVE LifeStep
  <2> DEFINE t == [owner |-> rec.inst.uid, spec |-> render({}, rec.inst.spec, rec.platform),
                   ready |-> FALSE, deleting |-> FALSE]
  <2>1. tenant = None /\ tenant' = t /\ t \in AITenant
    BY <1>2, RenderTypes, Zenon DEF CreateTenant, SetTenant, AITenant, Typed
  <2>2. t # None
    BY <2>1, MaaSAssumption, Zenon
  <2>3. life = None /\ life' = [owner |-> rec.inst.uid, leaving |-> FALSE]
    BY <2>1, <2>2, Zenon DEF life
  <2>4. holder = rec.inst.uid /\ holder # None
    BY <1>2, RenderTypes, MaaSAssumption
       DEF CreateTenant, Custody, WorkerKnows, Rendering, Holds, holder, Typed, Uid
  <2> QED
    BY <1>1, <2>3, <2>4, LifeSteps, Zenon
<1>3. CASE UpdateTenant
  <2>1. tenant \in AITenant /\ tenant' \in AITenant
        /\ tenant'.owner = tenant.owner /\ tenant'.deleting = tenant.deleting
    <3>1. tenant \in AITenant
      BY <1>3 DEF UpdateTenant, Typed, WorkerTypes
    <3>2. render(tenant.spec, rec.inst.spec, rec.platform)
             \in SUBSET (SpecField \cup PlatformField \cup ExtraField)
      BY <1>3, <3>1, RenderTypes, Zenon DEF UpdateTenant, AITenant, Typed
    <3> QED
      BY <1>3, <3>1, <3>2 DEF UpdateTenant, SetTenant, AITenant
  <2>2. tenant # None /\ tenant' # None
    BY <2>1, MaaSAssumption
  <2> QED
    BY <1>1, <2>1, <2>2, LifeSteps, Zenon DEF life
<1>4. CASE DeleteTenant
  <2>1. CASE tenant = None
    BY <1>1, <1>4, <2>1, LifeSteps DEF DeleteTenant, life
  <2>2. CASE tenant # None
    <3>1. tenant \in AITenant /\ [tenant EXCEPT !.deleting = TRUE] \in AITenant
          /\ tenant' = [tenant EXCEPT !.deleting = TRUE]
      BY <1>4, <2>2, Zenon DEF DeleteTenant, SetTenant, Typed, OtherTypes, AITenant
    <3>2. tenant' # None
      BY <3>1, MaaSAssumption, Zenon
    <3>3. life' = [owner |-> tenant'.owner, leaving |-> tenant'.deleting]
      BY <3>2 DEF life
    <3>4. tenant'.owner = tenant.owner /\ tenant'.deleting = TRUE
      BY <3>1 DEF AITenant
    <3>5. life' = [owner |-> tenant.owner, leaving |-> TRUE]
      BY <3>3, <3>4, Zenon
    <3>6. life # None /\ life' = [owner |-> life.owner, leaving |-> TRUE]
      BY <2>2, <3>5, LifeFact, Zenon
    <3> QED
      BY <1>1, <3>6, LifeSteps
  <2> QED
    BY <2>1, <2>2
<1> QED
  BY <1>2, <1>3, <1>4

\* And when it writes the configuration.
LEMMA WritingLife ==
    ASSUME Typed, Custody, AddFinalizer \/ UpdateStatus \/ RemoveFinalizer
    PROVE  LifeStep
<1>1. UNCHANGED life
  BY DEF AddFinalizer, UpdateStatus, RemoveFinalizer, life
<1>2. CASE AddFinalizer
  <2> DEFINE c == [rec.inst EXCEPT !.finalizer = TRUE]
  <2>1. rec.inst \in MaaSConfiguration /\ c \in MaaSConfiguration /\ Configuration = rec.inst
        /\ Write("MaaSConfiguration", o, c)
    BY <1>2, ConfigurationFields, Zenon DEF AddFinalizer, UpdateAccepted, Typed, WorkerTypes
  <2>2. Configuration' = c
    BY <2>1, WriteExtends, ObjectFacts DEF Extended, Typed
  <2>3. holder' = rec.inst.uid /\ holder' \in Uid
    BY <2>1, <2>2, MaaSAssumption, Zenon DEF holder, MaaSConfiguration
  <2>4. holder = None \/ holder = holder'
    BY <2>1, <2>3 DEF holder
  <2> QED
    BY <1>1, <2>3, <2>4, LifeSteps, Zenon
<1>3. CASE UpdateStatus
  <2>1. CASE Configuration # None /\ Configuration.uid = rec.inst.uid
    <3> DEFINE c == [Configuration EXCEPT !.reason = rec.reason]
    <3>1. Configuration \in MaaSConfiguration /\ rec.reason \in Reason
      BY <2>1, StoreFacts DEF Typed, WorkerTypes, Record
    <3>2. c \in MaaSConfiguration /\ Write("MaaSConfiguration", o, c)
      BY <1>3, <2>1, <3>1, ConfigurationFields, Zenon DEF UpdateStatus
    <3>3. Configuration' = c
      BY <3>2, WriteExtends, ObjectFacts DEF Extended, Typed
    <3>4. UNCHANGED holder
      BY <3>1, <3>2, <3>3, MaaSAssumption DEF holder, MaaSConfiguration
    <3> QED
      BY <1>1, <3>4, LifeSteps
  <2>2. CASE ~(Configuration # None /\ Configuration.uid = rec.inst.uid)
    BY <1>1, <1>3, <2>2, LifeSteps, Zenon DEF UpdateStatus, apiVars, holder, Configuration, Stored
  <2> QED
    BY <2>1, <2>2
<1>4. CASE RemoveFinalizer
  <2>1. /\ rec.inst \in MaaSConfiguration /\ Configuration = rec.inst
        /\ Write("MaaSConfiguration", o, None) /\ ~Keeps(tenant, rec.inst.uid)
    BY <1>4 DEF RemoveFinalizer, UpdateAccepted, Typed, WorkerTypes, Custody, WorkerKnows
  <2>2. holder' = None
    BY <2>1, WriteExtends, ObjectFacts, Zenon DEF Extended, Typed, holder
  <2>3. holder = None \/ holder = rec.inst.uid
    BY <2>1 DEF holder
  <2> QED
    BY <1>1, <2>1, <2>2, <2>3, LifeSteps
<1> QED
  BY <1>2, <1>3, <1>4

\* The controller implements AITenantLife: whatever the worker read, whenever it
\* failed or restarted, it makes, leaves and releases as that specification says.
THEOREM ImplementsLife == Spec => FollowsLife
<1>1. Init => Life!Init
  BY ObjectFacts DEF Init, Life!Init, Configuration, Stored
<1>2. Typed /\ Custody /\ [Next]_vars => [Life!Next]_(Life!vars)
  <2> SUFFICES ASSUME Typed, Custody, [Next]_vars PROVE LifeStep
    BY DEF LifeStep
  <2>1. CASE UNCHANGED vars
    BY <2>1, LifeSteps, Zenon DEF vars, holder, life, Configuration, Stored
  <2>2. CASE (\E k \in Kind : Informer(k)) \/ Resync \/ Restart
    BY <2>2, LifeSteps, Zenon
       DEF Informer, Deliver, Resync, Restart, holder, life, Configuration, Stored
  <2>3. CASE Reading \/ Dequeue \/ RemovalRefused \/ CallError
    BY <2>3, ReadingSteps, LifeSteps, Zenon
       DEF internal, Dequeue, RemovalRefused, CallError, holder, life, Configuration, Stored
  <2>4. CASE Clients
    BY <2>4, ClientLife, LifeSteps
  <2> QED
    BY <2>1, <2>2, <2>3, <2>4, OutsideLife, TenantLife, WritingLife, Zenon
       DEF Next, Work, Outside, Reading
<1> QED
  BY <1>1, <1>2, CustodyInvariant, PTL DEF Spec, FollowsLife, Life!Spec
=============================================================================
