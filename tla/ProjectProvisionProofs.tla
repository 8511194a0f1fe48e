----------------------- MODULE ProjectProvisionProofs -----------------------
(***************************************************************************)
(* What the OrganizationProject controller provisions, proved for all sets *)
(* of organizations, bounds and surroundings: exactly what the project     *)
(* asks for when nobody interferes, never more open than before or after   *)
(* while a preset changes, and in the end the namespace and the roles of   *)
(* the project, however stale the caches were.                             *)
(***************************************************************************)
EXTENDS ProjectInvariantProofs

-----------------------------------------------------------------------------
(* Reconciliations that nobody interferes with. *)

\* What the plan mentions, after the call at its head.
LEMMA HeadMentions ==
    ASSUME Typed, Planned(rec), rec.pc = "run", NEW x \in Provisioned
    PROVE  /\ x = <<kind, name>> => Mentions(rec.plan, x)
           /\ Mentions(Tail(rec.plan), x) => Mentions(rec.plan, x)
           /\ Mentions(rec.plan, x) => x = <<kind, name>> \/ Mentions(Tail(rec.plan), x)
           /\ x = <<kind, name>> =>
                 (Mentions(Tail(rec.plan), x) <=> rec.plan[1][1] \in {"check", "get"})
<1>1. rec.plan # <<>> /\ Orderly(rec.plan, rec.inst.spec.users, rec.isolation)
  BY HeadFits
<1>2. About(rec.plan[1], x) <=> x = <<kind, name>>
  <2>1. rec.plan[1][2] = kind /\ rec.plan[1][3] = name
    BY HeadFacts DEF kind, name
  <2>2. x = <<x[1], x[2]>>
    BY DEF Provisioned, Contents
  <2> QED
    BY <2>1, <2>2 DEF About
<1>3. 1 \in 1..Len(rec.plan)
  BY HeadFacts, SequenceFacts
<1>4. About(rec.plan[1], x) => Mentions(rec.plan, x)
  BY <1>3 DEF Mentions
<1>5. Mentions(Tail(rec.plan), x) => Mentions(rec.plan, x)
  BY <1>1, RestMentions
<1>6. Mentions(rec.plan, x) => About(rec.plan[1], x) \/ Mentions(Tail(rec.plan), x)
  BY <1>1, RestMentions
<1>7. About(rec.plan[1], x) =>
         (Mentions(Tail(rec.plan), x) <=> rec.plan[1][1] \in {"check", "get"})
  BY <1>1, RestMentions, Zenon
<1> QED
  BY <1>2, <1>4, <1>5, <1>6, <1>7

\* What is as it should be stays so if neither it nor what is asked for changes.
LEMMA ProvidedKept ==
    ASSUME NEW x \in Provisioned, Provided(x), store'[x[1]][x[2]] = store[x[1]][x[2]],
           rec'.inst.uid = rec.inst.uid, rec'.inst.org = rec.inst.org,
           rec'.inst.spec = rec.inst.spec, rec'.root = rec.root,
           rec'.isolation = rec.isolation, rec'.ns = rec.ns
    PROVE  Provided(x)'
<1>1. policySpec(x[2])' = policySpec(x[2])
  BY DEF policySpec
<1> QED
  BY <1>1 DEF Provided

\* Nobody but the worker does anything in a reconciliation that nobody interferes with.
LEMMA UndisturbedKept ==
    ASSUME Typed, Typed', AllTracked, Planned(rec), fresh => Undisturbed, Step, fresh'
    PROVE  Undisturbed'
\* Each call keeps what is done and reads what is there.
<1>UndisturbedCall. ASSUME Typed, Typed', AllTracked, Planned(rec), rec.pc = "run", Undisturbed,
                               Continues(rec'), Called
                        PROVE  Undisturbed'
                    \* The call that changes an object leaves it as it should be.
  <2> USE <1>UndisturbedCall
  <2>HeadProvided. ASSUME Typed, Typed', AllTracked, Planned(rec), rec.pc = "run", Undisturbed,
                          Continues(rec'), Called, rec.plan[1][1] \notin {"check", "get"},
                          NEW x \in Provisioned, x = <<kind, name>>
                   PROVE  Provided(x)'
    <3> USE <2>HeadProvided
    <3>0. ApiTypes /\ kind \in Kind /\ name \in Name /\ x[1] = kind /\ x[2] = name
      BY HeadFacts, Zenon DEF Typed
    <3>1. /\ rec'.inst.uid = rec.inst.uid /\ rec'.inst.org = rec.inst.org
          /\ rec'.inst.spec = rec.inst.spec /\ rec'.root = rec.root
          /\ rec'.isolation = rec.isolation
          /\ kind # "Namespace" => rec'.ns = rec.ns
      BY HeadFacts DEF Continues, Advanced, PutNs, kind
    <3>2. Fits(rec.plan[1], rec.inst.spec.users, rec.isolation)
      BY HeadFits, Zenon
    <3>3. UpToDate(kind, name) /\ cached = stored
      BY <3>0, HeadMentions, Zenon DEF Undisturbed, UpToDate, cached, stored
    <3>4. rec.plan[1][2] = kind /\ rec.plan[1][3] = name
      BY HeadFacts DEF kind, name
    <3>5. rec.plan[1][1] \in {"put", "delete", "prune"}
      BY HeadFits DEF Op
    <3>6. CASE rec.plan[1][1] = "put"
      <4>1. Mutated \in Object[kind] /\ (kind = "Namespace" => Mutated \in NamespaceObject)
        BY <3>6, HeadFacts, MutatedTypes DEF At
      <4>2. store'[kind][name] = Mutated
        <5>1. CASE Write(kind, name, Mutated)
          BY <3>0, <4>1, <5>1, WriteShows
        <5>2. CASE rec.seen = Mutated /\ UNCHANGED apiVars
          BY <3>6, <5>2, Zenon DEF Undisturbed, stored, apiVars
        <5> QED
          BY <3>6, <5>1, <5>2 DEF Called
      <4>3. CASE kind = "Namespace"
        <5>1. rec.plan[1] = PutNs
          BY <3>6, <4>3, RunFacts DEF GetNs
        <5>2. rec'.ns = Mutated.uid
          BY <5>1 DEF Continues
        <5>3. /\ Mutated.controller = rec.inst.uid /\ Mutated.org = rec.inst.org
              /\ Mutated.root = rec.root /\ Mutated # None
          BY <4>1, <4>3, NoneAssumption DEF Mutated
        <5> QED
          BY <3>0, <3>1, <4>2, <4>3, <5>2, <5>3 DEF Provided
      <4>4. CASE kind = "RoleBinding"
        <5>1. subjectsForRole(rec.inst.spec.users, name) # {}
          BY <3>2, <3>4, <3>6, <4>4 DEF Fits
        <5>2. Mutated = [controller |-> rec.ns, roleRef |-> name,
                         subjects |-> subjectsForRole(rec.inst.spec.users, name)]
          BY <4>4, Zenon DEF Mutated
        <5> QED
          BY <3>0, <3>1, <4>2, <4>4, <5>1, <5>2, Zenon DEF Provided, subjectsForRole
      <4>5. CASE kind = "NetworkPolicy"
        <5>1. name \in Wanted(rec.isolation)
          BY <3>2, <3>4, <3>6, <4>5 DEF Fits, IsPrune
        <5>2. Mutated = [controller |-> rec.ns, spec |-> policySpec(name)]
          BY <4>5 DEF Mutated
        <5>3. policySpec(x[2])' = policySpec(name)
          BY <3>0, <3>1, Zenon DEF policySpec
        <5> QED
          BY <3>0, <3>1, <4>2, <4>5, <5>1, <5>2, <5>3 DEF Provided
      <4> QED
        BY <4>3, <4>4, <4>5, HeadFacts
    <3>7. CASE rec.plan[1][1] \in {"delete", "prune"}
      <4>1. kind # "Namespace"
        BY <3>7, RunFacts DEF GetNs, PutNs
      <4>2. CASE kind = "RoleBinding"
        <5>1. rec.plan[1][1] = "delete" /\ subjectsForRole(rec.inst.spec.users, name) = {}
          BY <3>2, <3>4, <3>7, <4>2, Zenon DEF Fits
        <5>2. store'[kind][name] = None
          BY <3>0, <5>1, ObjectFacts, WriteShows DEF Called
        <5> QED
          BY <3>0, <3>1, <4>2, <5>1, <5>2, Zenon DEF Provided, subjectsForRole
      <4>3. CASE kind = "NetworkPolicy"
        <5>1. name \notin Wanted(rec.isolation)
          BY <3>2, <3>4, <3>7, <4>3 DEF Fits, IsPrune
        <5>2. store'[kind][name] # None => store'[kind][name].controller # rec.ns
          <6>1. CASE rec.plan[1][1] = "delete"
            BY <3>0, <6>1, ObjectFacts, WriteShows DEF Called
          <6>2. CASE rec.plan[1][1] = "prune"
            <7>1. store' = store
              BY <6>2, Zenon DEF Called, apiVars
            <7>2. stored = None \/ stored.controller # rec.ns
              BY <3>3, <6>2 DEF Continues, IsControlledBy
            <7> QED
              BY <7>1, <7>2, Zenon DEF stored
          <6> QED
            BY <3>7, <6>1, <6>2, Zenon
        <5> QED
          BY <3>0, <3>1, <4>3, <5>1, <5>2, Zenon DEF Provided
      <4> QED
        BY <4>1, <4>2, <4>3, HeadFacts, Zenon
    <3> QED
      BY <3>5, <3>6, <3>7
  <2> DEFINE s == rec.plan
  <2>1. /\ rec'.inst.uid = rec.inst.uid /\ rec'.inst.org = rec.inst.org
        /\ rec'.inst.spec = rec.inst.spec /\ rec'.root = rec.root
        /\ rec'.isolation = rec.isolation
        /\ rec'.plan = Tail(s) /\ rec'.pc = IF Len(s) = 1 THEN "status" ELSE "run"
    BY DEF Continues, Advanced
  <2>2. ASSUME NEW x \in Provisioned, ~Mentions(Tail(s), x) PROVE Provided(x)'
    <3>1. CASE x = <<kind, name>>
      <4>1. rec.plan[1][1] \notin {"check", "get"}
        BY <2>2, <3>1, HeadMentions, Zenon
      <4> QED
        BY <3>1, <4>1, <2>HeadProvided
    <3>2. CASE x # <<kind, name>>
      <4>1. ~Mentions(s, x) /\ Provided(x)
        BY <2>2, <3>2, HeadMentions, Zenon DEF Undisturbed
      <4>2. rec'.ns = rec.ns
        <5>1. CASE rec.plan[1] = PutNs
          <6>1. kind = "Namespace" /\ name = p
            BY <5>1, HeadFacts DEF kind, name, PutNs
          <6>2. x \in Contents
            BY <3>2, <6>1 DEF Provisioned
          <6> QED
            BY <4>1, <5>1, <6>2 DEF Planned, PutNs
        <5> QED
          BY <5>1 DEF Continues
      <4>3. store'[x[1]][x[2]] = store[x[1]][x[2]]
        <5>1. x[1] \in Kind /\ x[2] \in Name /\ x = <<x[1], x[2]>>
          BY KindFacts DEF Provisioned, Contents
        <5> QED
          BY <3>2, <5>1, CallShows
      <4> QED
        BY <2>1, <4>1, <4>2, <4>3, ProvidedKept, Zenon
    <3> QED
      BY <3>1, <3>2
  <2>3. ASSUME NEW x \in Provisioned, Mentions(Tail(s), x) PROVE UpToDate(x[1], x[2])'
    <3>0. x[1] \in Kind /\ x[2] \in Name /\ x = <<x[1], x[2]>>
      BY KindFacts DEF Provisioned, Contents
    <3>1. UpToDate(x[1], x[2])
      BY <2>3, HeadMentions, Zenon DEF Undisturbed
    <3>2. CASE x = <<kind, name>>
      <4>1. rec.plan[1][1] \in {"check", "get"}
        BY <2>3, <3>2, HeadMentions, Zenon
      <4>2. UNCHANGED apiVars
        BY <4>1 DEF Called
      <4> QED
        BY <3>1, <4>2 DEF UpToDate, apiVars
    <3>3. CASE x # <<kind, name>>
      BY <3>0, <3>1, <3>3, CallShows
    <3> QED
      BY <3>2, <3>3
  <2>4. ASSUME rec'.pc = "run", rec'.plan[1][1] = "put" PROVE rec'.seen = stored'
    <3>1. rec.plan[1] = <<"get", rec'.plan[1][2], rec'.plan[1][3]>>
      BY <2>4, PutAfterGet, Zenon
    <3>2. rec.plan[1][1] = "get" /\ kind' = kind /\ name' = name
      BY <2>4, <3>1, HeadFacts DEF kind, name
    <3>3. rec'.seen = cached /\ UNCHANGED apiVars
      BY <3>2 DEF Continues, Called
    <3>4. cached = stored
      <4>1. <<kind, name>> \in Provisioned /\ Mentions(s, <<kind, name>>)
        BY HeadFacts, HeadMentions, Zenon
      <4>2. UpToDate(kind, name)
        BY <4>1 DEF Undisturbed
      <4> QED
        BY <4>2, Zenon DEF UpToDate, cached, stored
    <3> QED
      BY <3>2, <3>3, <3>4 DEF stored, apiVars
  <2>5. ASSUME rec'.pc = "status", NEW x \in Provisioned PROVE Provided(x)'
    <3>1. Len(s) = 1
      BY <2>1, <2>5, Zenon
    <3>2. 1..Len(Tail(s)) = {}
      BY <3>1, HeadFacts, SequenceFacts
    <3>3. ~Mentions(Tail(s), x)
      BY <3>2, Zenon DEF Mentions
    <3> QED
      BY <2>2, <3>3
  <2>6. ~Early'
    BY <2>1 DEF Early
  <2>7. \A x \in Provisioned : Mentions(rec'.plan, x) => UpToDate(x[1], x[2])'
    BY <2>1, <2>3
  <2>8. \A x \in Provisioned : ~Mentions(rec'.plan, x) => Provided(x)'
    BY <2>1, <2>2
  <2> QED
    BY <2>4, <2>5, <2>6, <2>7, <2>8 DEF Undisturbed
<1>0. \A x \in Provisioned : x[1] \in Kind /\ x[2] \in Name
  BY KindFacts, Zenon
<1>1. ASSUME fresh, store' = store, rec' = rec,
             \A x \in Provisioned : UpToDate(x[1], x[2]) => UpToDate(x[1], x[2])'
      PROVE  Undisturbed'
  <2>1. \A x \in Provisioned : Provided(x) => Provided(x)'
    BY <1>1, ProvidedKept
  <2>2. stored' = stored
    BY <1>1, Zenon DEF stored, kind, name
  <2> QED
    BY <1>1, <2>1, <2>2, Zenon DEF Undisturbed, Early
<1>2. CASE ClientStep \/ OtherStep \/ Restart
  BY <1>2 DEF ClientStep, OtherStep, Restart
<1>3. CASE IdleStep
  <2>1. fresh /\ store' = store /\ rec' = rec
    BY <1>3 DEF IdleStep, apiVars
  <2>2. \A x \in Provisioned : UpToDate(x[1], x[2]) => UpToDate(x[1], x[2])'
    BY <1>3, ViewsUnchanged DEF IdleStep
  <2> QED
    BY <1>1, <2>1, <2>2
<1>4. ASSUME NEW k \in Kind, Informer(k), UNCHANGED fresh PROVE Undisturbed'
  <2>1. Deliver(k) /\ store' = store /\ rec' = rec
    BY <1>4, Zenon DEF Informer, Deliver
  <2>2. \A x \in Provisioned : UpToDate(x[1], x[2]) => UpToDate(x[1], x[2])'
    BY <1>0, <2>1, DeliverViews DEF Typed, ApiTypes
  <2> QED
    BY <1>1, <1>4, <2>1, <2>2, Zenon
<1>5. CASE DequeueStep
  <2>1. CaughtUp /\ UNCHANGED apiVars
    BY <1>5 DEF DequeueStep, Dequeue
  <2>2. rec' = Idle \/ rec' = rec \/ rec'.pc = "organization"
    BY <1>5 DEF DequeueStep, Dequeue, Idle
  <2>3. rec.pc = "idle"
    BY <1>5, Zenon DEF DequeueStep, Dequeue
  <2>4. \A x \in Provisioned : UpToDate(x[1], x[2])'
    BY <1>0, <2>1, StoreShown, ViewsUnchanged, Zenon
  <2> QED
    BY <2>2, <2>3, <2>4 DEF Undisturbed, Early, Idle
<1>6. CASE PrepareStep
  <2>1. fresh /\ Early /\ UNCHANGED apiVars
    BY <1>6, Zenon DEF PrepareStep
  <2>2. \A x \in Provisioned : UpToDate(x[1], x[2])'
    BY <2>1, ViewsUnchanged, Zenon DEF Undisturbed
  <2>3. ASSUME rec'.pc = "run"
        PROVE  /\ \A x \in Provisioned : Mentions(rec'.plan, x)
               /\ rec'.plan[1][1] = "get"
    BY <1>6, <2>3 DEF PrepareStep, Segment, GetNs
  <2>4. rec'.pc \in {"isolation", "run"} \/ (rec'.pc = "status" /\ ~rec'.ok)
    BY <1>6, Zenon DEF PrepareStep
  <2> QED
    BY <2>2, <2>3, <2>4 DEF Undisturbed, Early
<1>7. CASE RunStep
  <2>1. rec.pc = "run" /\ Undisturbed
    BY <1>7, Zenon DEF RunStep
  <2>2. CASE rec'.pc = "status" /\ ~rec'.ok
    BY <2>2 DEF Undisturbed, Early
  <2>3. CASE Continues(rec') /\ Called
    BY <2>1, <2>3, <1>UndisturbedCall, Zenon
  <2>4. ASSUME UNCHANGED apiVars, rec.plan[1][1] = "prune",
               rec'.plan = Removing(rec.plan),
               rec'.pc = "run", rec'.inst = rec.inst, rec'.root = rec.root,
               rec'.isolation = rec.isolation, rec'.ns = rec.ns
        PROVE  Undisturbed'
    <3>1. /\ \A x : Mentions(Removing(rec.plan), x) <=> Mentions(rec.plan, x)
          /\ Removing(rec.plan)[1] = <<"delete", rec.plan[1][2], rec.plan[1][3]>>
      BY <2>1, <2>4, HeadRemoved, Zenon
    <3>2. \A x \in Provisioned : Mentions(rec'.plan, x) <=> Mentions(rec.plan, x)
      BY <2>4, <3>1
    <3>3. rec'.plan[1][1] = "delete"
      BY <2>4, <3>1
    <3>4. \A x \in Provisioned : UpToDate(x[1], x[2]) => UpToDate(x[1], x[2])'
      BY <2>4, ViewsUnchanged, Zenon
    <3>5. \A x \in Provisioned : Provided(x) => Provided(x)'
      <4>1. store' = store
        BY <2>4, Zenon DEF apiVars
      <4> QED
        BY <2>4, <4>1, ProvidedKept
    <3> QED
      BY <2>1, <2>4, <3>2, <3>3, <3>4, <3>5, Zenon DEF Undisturbed, Early
  <2> QED
    BY <1>7, <2>2, <2>3, <2>4 DEF RunStep
<1>8. CASE ConcludeStep
  BY <1>8, Zenon DEF ConcludeStep, Idle, Undisturbed, Early
<1> QED
  BY <1>2, <1>3, <1>4, <1>5, <1>6, <1>7, <1>8, Zenon DEF Step, EventStep

-----------------------------------------------------------------------------
(* The invariant. *)

\* Nothing has been seen or done at the beginning.
LEMMA InitProvisioning == Init => Provisioning
<1> SUFFICES ASSUME Init PROVE Provisioning
  OBVIOUS
<1>1. ASSUME NEW k \in Kind, NEW n \in Name
      PROVE  UpToDate(k, n) /\ Views(k, n) = {None} /\ store[k][n] = None
  <2>1. watch[k] = <<>> /\ cache[k][n] = None /\ store[k][n] = None
    BY DEF Init
  <2>2. 1..Len(watch[k]) = {}
    BY <2>1
  <2> QED
    BY <2>1, <2>2 DEF UpToDate, Views
<1>2. AllTracked
  BY <1>1 DEF AllTracked, Tracked
<1>3. Project = None /\ Shown = {None}
  BY <1>1, KindFacts, Zenon DEF Project, Shown
<1>4. rec.pc = "idle" /\ ~fresh
  BY DEF Init, Idle
<1> QED
  BY <1>2, <1>3, <1>4 DEF Provisioning, Planned, Informed, ReadNamespace, NamespaceKept, RolesKept

\* Every step is one of these.
LEMMA StepForms ==
    ASSUME Typed,
           \/ Local \/ Restart
           \/ UNCHANGED <<apiVars, rec, uids, queue, fresh>>
           \/ UNCHANGED <<apiVars, rec, uids, queue>> /\ fresh' = FALSE
    PROVE  Step
\* What clients, the cluster and others do.
<1>EnvironmentSteps. ASSUME Typed, Environment, fresh' = FALSE
                     PROVE  ClientStep \/ OtherStep
  <2> USE <1>EnvironmentSteps
  <2>0. ApiTypes /\ \A k \in Kind : None \in Object[k]
    BY ObjectFacts, Zenon DEF Typed
  <2>1. ASSUME NEW o \in Org, NEW s \in env.specs, CreateProject(o, s) PROVE ClientStep
    <3> DEFINE obj == [uid |-> uids', org |-> o, spec |-> s, namespace |-> None, ready |-> FALSE]
    <3>1. uids' = uids + 1 /\ uids' \in Uid
      BY <2>1, ProjectAssumption DEF CreateProject, Typed, EnvTypes, Surrounding, Uid
    <3>2. obj \in ProjectObject /\ obj.uid = uids'
      BY <2>1, <3>1, Zenon DEF ProjectObject, Typed, EnvTypes
    <3>3. Write("OrganizationProject", p, obj) /\ Project = None /\ UNCHANGED <<rec, queue>>
      BY <2>1 DEF CreateProject, operator
    <3> HIDE DEF obj
    <3>4. obj # None
      BY <3>2, ProjectNotNone, Zenon
    <3> QED
      BY <3>1, <3>2, <3>3, <3>4, ObjectFacts, Zenon DEF ClientStep
  <2>2. ASSUME NEW s \in env.specs, UpdateProject(s) PROVE ClientStep
    <3> DEFINE obj == [Project EXCEPT !.spec = s]
    <3>1. Project \in ProjectObject /\ Project # None /\ s # Project.spec
      BY <2>0, <2>2, Stored, ObjectFacts, KindFacts DEF UpdateProject, Project
    <3>2. /\ obj \in ProjectObject /\ obj.uid = Project.uid /\ obj.org = Project.org
          /\ obj.spec # Project.spec
      BY <2>2, <3>1 DEF ProjectObject, Typed, EnvTypes
    <3>3. Write("OrganizationProject", p, obj) /\ UNCHANGED <<rec, queue, uids>>
      BY <2>2 DEF UpdateProject, operator
    <3> HIDE DEF obj
    <3>4. obj # None
      BY <3>2, ProjectNotNone, Zenon
    <3> QED
      BY <3>1, <3>2, <3>3, <3>4, ObjectFacts DEF ClientStep
  <2>3. CASE DeleteProject
    BY <2>0, <2>3, KindFacts, Zenon DEF DeleteProject, ClientStep, operator
  <2>4. ASSUME MarkNamespace, UNCHANGED <<rec, queue, uids>> PROVE OtherStep
    <3> DEFINE obj == [Namespace EXCEPT !.deleting = TRUE]
               x == <<"Namespace", p>>
    <3>1. Namespace \in NamespaceObject
      BY <2>0, <2>4, Stored, ObjectFacts, KindFacts DEF MarkNamespace, Namespace
    <3>2. obj \in NamespaceObject
      BY <3>1, Zenon DEF NamespaceObject
    <3>3. x \in Provisioned /\ x[1] = "Namespace" /\ x[2] = p
      BY DEF Provisioned
    <3>4. Write("Namespace", p, obj)
      BY <2>4, Zenon DEF MarkNamespace
    <3> HIDE DEF obj, x
    <3> QED
      BY <2>4, <3>2, <3>3, <3>4, ObjectFacts DEF OtherStep
  <2>5. ASSUME NEW x \in Provisioned, Write(x[1], x[2], None), UNCHANGED <<rec, queue, uids>>
        PROVE  OtherStep
    <3>1. None \in Object[x[1]] /\ ~Owned(None)
      BY <2>0, KindFacts, Zenon DEF Owned
    <3> QED
      BY <2>5, <3>1 DEF OtherStep
  <2>6. CASE CollectNamespace
    BY <2>4, <2>6, Zenon DEF CollectNamespace, operator
  <2>7. CASE CollectContents
    BY <2>5, <2>7, KindFacts, Zenon DEF CollectContents, operator
  <2>8. CASE Terminate
    <3>1. UNCHANGED <<rec, queue, uids>>
      BY <2>8 DEF Terminate, operator
    <3>2. CASE Write("Namespace", p, None)
      <4> DEFINE x == <<"Namespace", p>>
      <4>1. x \in Provisioned /\ x[1] = "Namespace" /\ x[2] = p
        BY DEF Provisioned
      <4> HIDE DEF x
      <4> QED
        BY <2>5, <3>1, <3>2, <4>1, Zenon
    <3> QED
      BY <2>5, <2>8, <3>1, <3>2, KindFacts, Zenon DEF Terminate
  <2>9. ASSUME NEW x \in Provisioned, OtherCreates(x[1], x[2]) PROVE OtherStep
    <3>1. PICK obj \in foreignObjects(x[1], x[2]) : Write(x[1], x[2], obj)
      BY <2>9, Zenon DEF OtherCreates
    <3>2. obj \in Object[x[1]]
      BY ForeignTypes DEF Typed, EnvTypes
    <3>3. x[1] = "RoleBinding" => ~Owned(obj)
      BY <3>1 DEF foreignObjects, Owned
    <3> QED
      BY <2>9, <3>1, <3>2, <3>3, Zenon DEF OtherStep, OtherCreates, operator
  <2>10. ASSUME NEW x \in Provisioned, OtherDeletes(x[1], x[2]) PROVE OtherStep
    BY <2>4, <2>5, <2>10 DEF OtherDeletes, operator
  <2> QED
    BY <2>1, <2>2, <2>3, <2>6, <2>7, <2>8, <2>9, <2>10 DEF Environment
\* What the worker does before the plan runs.
<1>PrepareSteps. ASSUME Typed, fresh' => fresh,
                        \/ ValidateParentOrganization
                        \/ \E a \in BOOLEAN : ComputeEffectiveIsolation(a)
                        \/ ActionError /\ rec.pc = "organization"
                 PROVE  PrepareStep
  <2> USE <1>PrepareSteps
  <2>0. rec \in Record
    BY Zenon DEF Typed, WorkerTyped
  <2>1. CASE Fail /\ rec.pc = "organization" /\ UNCHANGED internal
    <3>1. rec'.pc = "status" /\ ~rec'.ok /\ rec'.inst = rec.inst
      BY <2>0, <2>1 DEF Fail, Record
    <3> QED
      BY <2>1, <3>1 DEF PrepareStep, Early, internal, apiVars
  <2>2. CASE ValidateParentOrganization
    <3>1. CASE rec' = [rec EXCEPT !.pc = "isolation", !.root = root[rec.inst.org]]
      <4>1. rec'.pc = "isolation" /\ rec'.inst = rec.inst
        BY <2>0, <3>1 DEF Record
      <4> QED
        BY <2>2, <4>1 DEF ValidateParentOrganization, PrepareStep, Early, internal, apiVars
    <3> QED
      BY <2>1, <2>2, <3>1 DEF ValidateParentOrganization
  <2>3. ASSUME NEW a \in BOOLEAN, ComputeEffectiveIsolation(a) PROVE PrepareStep
    <3> DEFINE default == IF a THEN defaults[rec.inst.org] ELSE None
               isolation == effectiveIsolation(rec.inst, default)
               users == rec.inst.spec.users
               plan == ensureNamespace \o ensureRBAC(users) \o ensureNetworkPolicies(isolation)
    <3>1. rec' = [rec EXCEPT !.pc = "run", !.isolation = isolation, !.plan = plan]
      BY <2>3, Zenon DEF ComputeEffectiveIsolation
    <3>2. Segment(plan, Provisioned, users, isolation)
      BY PlanSegment, Zenon
    <3>3. plan[1] = GetNs
      <4>1. /\ ensureNamespace = <<GetNs, PutNs>> /\ GetNs \in Op /\ PutNs \in Op
        BY KindFacts, Zenon DEF ensureNamespace, CreateOrUpdate, GetNs, PutNs, Op, Provisioned
      <4>2. ensureRBAC(users) \in Seq(Op) /\ ensureNetworkPolicies(isolation) \in Seq(Op)
        BY PlanPart DEF Part
      <4> QED
        BY <4>1, <4>2
    <3> HIDE DEF plan, isolation
    <3>4. rec'.pc = "run" /\ rec'.plan = plan /\ rec'.isolation = isolation /\ rec'.inst = rec.inst
      BY <2>0, <3>1 DEF Record
    <3> QED
      BY <2>3, <3>2, <3>3, <3>4, Zenon
         DEF ComputeEffectiveIsolation, PrepareStep, Early, internal, apiVars
  <2>4. CASE ActionError /\ rec.pc = "organization"
    BY <2>1, <2>4 DEF ActionError
  <2> QED
    BY <2>2, <2>3, <2>4, Zenon
\* What the worker does while the plan runs.
<1>RunSteps. ASSUME Typed, fresh' => fresh, rec.pc = "run",
                    \/ Check \/ Get \/ PutRefused \/ Prune \/ ActionError
                    \/ \E a \in BOOLEAN : Put(a) \/ Delete(a)
             PROVE  RunStep
  <2> USE <1>RunSteps
  <2>0. /\ rec \in Record /\ Head(rec.plan) = rec.plan[1] /\ rec.plan # <<>>
        /\ kind = rec.plan[1][2] /\ name = rec.plan[1][3] /\ rec.inst \in ProjectObject
    BY HeadFacts, RunFacts, Zenon DEF kind, name
  <2>1. \A c : At(c) <=> rec.plan[1][1] = c
    BY <2>0, Zenon DEF At
  <2>2. ASSUME Fail, UNCHANGED <<queue, uids>>, Called \/ UNCHANGED apiVars PROVE RunStep
    <3>1. rec'.pc = "status" /\ ~rec'.ok /\ rec'.inst = rec.inst
      BY <2>0, <2>2, Zenon DEF Fail, Record
    <3> QED
      BY <2>2, <3>1 DEF RunStep
  <2>3. ASSUME rec' = Done, rec.plan[1] # PutNs, rec.plan[1][1] # "get",
               rec.plan[1][1] = "prune" => cached = None \/ ~IsControlledBy(cached)
        PROVE  Continues(rec')
    <3>1. Advanced(rec', rec.seen, rec.ns, rec.inst)
      BY <2>0, <2>3, DoneForms, Zenon
    <3> QED
      BY <2>3, <3>1 DEF Continues, Advanced
  <2>4. UNCHANGED <<queue, uids>>
    BY DEF Check, Get, PutRefused, Prune, ActionError, Put, Delete, internal
  <2>5. CASE Check
    <3>0. UNCHANGED apiVars /\ rec.plan[1][1] = "check"
      BY <2>1, <2>5, Zenon DEF Check, internal, apiVars
    <3>1. UNCHANGED apiVars /\ rec.plan[1][1] = "check" /\ rec.plan[1] # PutNs
      BY <3>0 DEF PutNs
    <3> QED
      BY <2>2, <2>3, <2>4, <2>5, <3>1, Zenon DEF Check, RunStep, Called
  <2>6. CASE Get
    <3>1. /\ UNCHANGED apiVars /\ rec.plan[1][1] = "get" /\ rec.plan[1] # PutNs
          /\ rec' = [Done EXCEPT !.seen = cached]
      BY <2>1, <2>6 DEF Get, internal, apiVars, PutNs
    <3>2. cached \in Seen
      BY HeadFacts, ObjectFacts
    <3>3. Advanced(rec', cached, rec.ns, rec.inst)
      BY <2>0, <3>1, <3>2, DoneForms, Zenon
    <3>4. Continues(rec')
      BY <3>1, <3>3, Zenon DEF Continues, Advanced
    <3> QED
      BY <2>4, <3>1, <3>4 DEF RunStep, Called
  <2>7. CASE PutRefused
    BY <2>2, <2>4, <2>7 DEF PutRefused, internal, apiVars
  <2>8. CASE Prune
    <3>1. UNCHANGED apiVars /\ rec.plan[1][1] = "prune" /\ rec.plan[1] # PutNs
      BY <2>1, <2>8 DEF Prune, internal, apiVars, PutNs
    <3>2. CASE ~(cached # None /\ IsControlledBy(cached))
      BY <2>3, <2>4, <2>8, <3>1, <3>2, Zenon DEF Prune, RunStep, Called
    <3>3. CASE cached # None /\ IsControlledBy(cached)
      <4>1. rec' = [rec EXCEPT !.plan[1] = <<"delete", kind, name>>]
        BY <2>8, <3>3 DEF Prune
      <4>2. /\ rec'.plan = Removing(rec.plan)
            /\ rec'.pc = "run" /\ rec'.inst = rec.inst /\ rec'.root = rec.root
            /\ rec'.isolation = rec.isolation /\ rec'.ns = rec.ns /\ rec'.seen = rec.seen
        BY <2>0, <4>1, Zenon DEF Record, Removing
      <4> QED
        BY <2>4, <3>1, <4>2 DEF RunStep
    <3> QED
      BY <3>2, <3>3
  <2>9. CASE ActionError
    BY <2>2, <2>4, <2>9, Zenon DEF ActionError, internal, apiVars
  <2>10. ASSUME NEW a \in BOOLEAN, Put(a) PROVE RunStep
    <3>1. Called /\ rec.plan[1][1] = "put" /\ At("put")
      BY <2>1, <2>10, Zenon DEF Put, Called
    <3>2. CASE Fail
      BY <2>2, <2>4, <3>1, <3>2
    <3>3. CASE rec' = Ensured /\ kind # "Namespace"
      <4>1. rec.plan[1] # PutNs
        BY <2>0, <3>3 DEF PutNs
      <4> QED
        BY <2>3, <2>4, <3>1, <3>3, <4>1, Zenon DEF Ensured, RunStep
    <3>4. CASE rec' = Ensured /\ kind = "Namespace"
      <4> DEFINE inst == [rec.inst EXCEPT !.namespace = p]
      <4>1. /\ inst \in ProjectObject /\ inst.uid = rec.inst.uid /\ inst.org = rec.inst.org
            /\ inst.spec = rec.inst.spec
        BY <2>0 DEF ProjectObject
      <4>2. rec' = [Done EXCEPT !.ns = Mutated.uid, !.inst.namespace = p]
        BY <3>4, Zenon DEF Ensured
      <4>3. Mutated.uid \in NsUid
        BY <3>1, <3>4, MutatedTypes
      <4>4. Advanced(rec', rec.seen, Mutated.uid, inst)
        BY <2>0, <4>1, <4>2, <4>3, DoneForms, Zenon
      <4>5. rec.plan[1] = PutNs
        BY <3>1, <3>4, RunFacts DEF GetNs
      <4> HIDE DEF inst
      <4>6. Continues(rec')
        BY <3>1, <4>1, <4>4, <4>5, Zenon DEF Continues, Advanced
      <4> QED
        BY <2>4, <3>1, <4>6 DEF RunStep
    <3> QED
      BY <2>10, <3>2, <3>3, <3>4, Zenon DEF Put, Answer
  <2>11. ASSUME NEW a \in BOOLEAN, Delete(a) PROVE RunStep
    <3>0. rec.plan[1][1] = "delete"
      BY <2>1, <2>11, Zenon DEF Delete
    <3>1. Called /\ rec.plan[1][1] = "delete" /\ rec.plan[1] # PutNs
      <4>1. Called
        BY <2>11, <3>0, Zenon DEF Delete, Called
      <4> QED
        BY <3>0, <4>1 DEF PutNs
    <3> QED
      BY <2>2, <2>3, <2>4, <2>11, <3>1 DEF Delete, Answer, RunStep
  <2> QED
    BY <2>5, <2>6, <2>7, <2>8, <2>9, <2>10, <2>11, Zenon
\* What the worker does in the end.
<1>ConcludeSteps. ASSUME Typed, fresh' => fresh, UpdateStatus \/ StatusError
                  PROVE  ConcludeStep
  <2> USE <1>ConcludeSteps
  <2>1. CASE StatusError
    BY <2>1 DEF StatusError, ConcludeStep
  <2>2. CASE UpdateStatus
    <3> DEFINE obj == [Project EXCEPT !.namespace = rec.inst.namespace, !.ready = rec.ok]
               same == Project # None /\ Project.uid = rec.inst.uid
    <3>1. /\ rec.pc = "status" /\ rec' = Idle /\ UNCHANGED uids
          /\ queue' = (queue \/ ~same \/ ~rec.ok)
      BY <2>2 DEF UpdateStatus, Retried
    <3>2. CASE ~same
      <4>1. UNCHANGED apiVars
        BY <2>2, <3>2 DEF UpdateStatus
      <4> QED
        BY <3>1, <3>2, <4>1, Zenon DEF ConcludeStep
    <3>3. CASE same
      <4>1. Write("OrganizationProject", p, obj) /\ Project # None
        BY <2>2, <3>3 DEF UpdateStatus
      <4>2. Project \in ProjectObject
        BY <4>1, Stored, ObjectFacts, KindFacts, Zenon DEF Project, Typed
      <4>3. rec.inst.namespace \in {p, None} /\ rec.ok \in BOOLEAN
        BY <3>1 DEF Typed, WorkerTyped, ProjectObject, Record
      <4>4. /\ obj \in ProjectObject /\ obj.uid = Project.uid /\ obj.org = Project.org
            /\ obj.spec = Project.spec
        BY <4>2, <4>3, Zenon DEF ProjectObject
      <4> HIDE DEF obj
      <4>5. obj # None
        BY <4>4, ProjectNotNone
      <4> QED
        BY <3>1, <4>1, <4>4, <4>5, ObjectFacts, Zenon DEF ConcludeStep
    <3> QED
      BY <3>2, <3>3
  <2> QED
    BY <2>1, <2>2, Zenon
<1>1. CASE Environment /\ fresh' = FALSE
  BY <1>1, <1>EnvironmentSteps, Zenon DEF Step
<1>2. CASE Failures /\ fresh' = FALSE
  <2>1. CASE ComputeEffectiveIsolation(FALSE) \/ (ActionError /\ rec.pc = "organization")
    BY <1>2, <2>1, <1>PrepareSteps, Zenon DEF Step
  <2>2. CASE Put(FALSE) \/ Delete(FALSE) \/ (ActionError /\ rec.pc = "run")
    <3>1. rec.pc = "run"
      BY <2>2, Zenon DEF Put, Delete, At
    <3> QED
      BY <1>2, <2>2, <3>1, <1>RunSteps, Zenon DEF Step
  <2>3. CASE StatusError
    BY <1>2, <2>3, <1>ConcludeSteps DEF Step
  <2>4. CASE Resync
    BY <1>2, <2>4 DEF Resync, Step, IdleStep
  <2> QED
    BY <1>2, <2>1, <2>2, <2>3, <2>4, Zenon DEF Failures, ActionError
<1>3. CASE \E k \in Kind : Deliveries(k)
  BY <1>3 DEF Deliveries, Step, EventStep
<1>4. CASE Dequeue /\ fresh' = CaughtUp
  BY <1>4 DEF Step, DequeueStep
<1>5. CASE Calls /\ UNCHANGED fresh
  <2>1. CASE ValidateParentOrganization \/ ComputeEffectiveIsolation(TRUE)
    BY <1>5, <2>1, <1>PrepareSteps, Zenon DEF Step
  <2>2. CASE Check \/ Get \/ Put(TRUE) \/ PutRefused \/ Prune \/ Delete(TRUE)
    <3>1. rec.pc = "run"
      BY <2>2, Zenon DEF Check, Get, PutRefused, Prune, Put, Delete, At
    <3> QED
      BY <1>5, <2>2, <3>1, <1>RunSteps, Zenon DEF Step
  <2>3. CASE UpdateStatus
    BY <1>5, <2>3, <1>ConcludeSteps, Zenon DEF Step
  <2> QED
    BY <1>5, <2>1, <2>2, <2>3, Zenon DEF Calls
<1>6. CASE UNCHANGED <<apiVars, rec, uids, queue>> /\ (fresh' = FALSE \/ UNCHANGED fresh)
  BY <1>6 DEF Step, IdleStep
<1> QED
  BY <1>1, <1>2, <1>3, <1>4, <1>5, <1>6, Zenon DEF Local, Work, Step

\* Every step is one of those above.
LEMMA NextSteps == ASSUME Typed, [Next]_vars PROVE Step
<1>1. CASE UNCHANGED vars
  BY <1>1, StepForms DEF vars, apiVars
<1>2. CASE Organizations /\ fresh' = FALSE
  <2>1. UNCHANGED <<apiVars, rec, uids, queue>>
    BY <1>2 DEF Organizations, OrganizationReconciled, SetDefault, operator
  <2> QED
    BY <1>2, <2>1, StepForms, Zenon
<1> QED
  BY <1>1, <1>2, StepForms, Zenon DEF Next

\* Every step keeps the invariant.
LEMMA ProvisioningKept == ASSUME Typed, Typed', Provisioning, Step PROVE Provisioning'
<1>1. /\ AllTracked /\ Planned(rec) /\ Informed /\ ReadNamespace /\ NamespaceKept /\ RolesKept
      /\ fresh => Undisturbed
  BY DEF Provisioning
<1>2. AllTracked' /\ Planned(rec') /\ Informed' /\ ReadNamespace'
  BY <1>1, TrackedKept, PlannedKept, InformedKept, ReadNamespaceKept
<1>3. NamespaceKept' /\ RolesKept'
  BY <1>1, NamespaceLasts, RolesLast
<1>4. fresh' => Undisturbed'
  BY <1>1, UndisturbedKept, Zenon
<1>5. Planned(rec)'
  BY <1>2 DEF Planned
<1> QED
  BY <1>2, <1>3, <1>4, <1>5 DEF Provisioning

\* The invariant holds in every reachable state.
LEMMA AlwaysProvisioning == Spec => [](Typed /\ Provisioning)
<1>1. Typed /\ Provisioning /\ [Next]_vars => (Typed /\ Provisioning)'
  BY NextSteps, TypesKept, ProvisioningKept, Zenon
<1> QED
  BY <1>1, InitTypes, InitProvisioning, PTL DEF Spec

-----------------------------------------------------------------------------
(* What the operator promises. *)

\* The policies of the namespace that are there, in a successful reconciliation that
\* nobody interfered with.
LEMMA FreshProvides == Typed /\ Provisioning => FreshReconcileProvisions
<1> SUFFICES ASSUME Typed, Provisioning, rec.pc = "status", rec.ok, fresh
             PROVE  /\ NamespaceOf(rec.inst) /\ Namespace.root = rec.root
                    /\ BindingsOf(rec.inst) /\ PoliciesOf(rec.inst, rec.isolation)
  BY Zenon DEF FreshReconcileProvisions
<1>1. \A x \in Provisioned : Provided(x)
  BY DEF Provisioning, Undisturbed
<1>2. /\ Namespace # None /\ Namespace.controller = rec.inst.uid
      /\ Namespace.org = rec.inst.org /\ Namespace.root = rec.root
      /\ Namespace.uid = rec.ns
  <2>1. <<"Namespace", p>> \in Provisioned
    BY DEF Provisioned
  <2> QED
    BY <1>1, <2>1, Zenon DEF Provided, Namespace
<1>3. BindingsOf(rec.inst)
  <2> SUFFICES ASSUME NEW role \in Role
               PROVE  LET subjects == subjectsForRole(rec.inst.spec.users, role)
                      IN  Bindings[role] = IF subjects = {} THEN None
                                           ELSE [controller |-> Namespace.uid, roleRef |-> role,
                                                 subjects |-> subjects]
    BY DEF BindingsOf
  <2>1. <<"RoleBinding", role>> \in Provisioned
    BY DEF Provisioned, Contents
  <2> QED
    BY <1>1, <1>2, <2>1, Zenon DEF Provided, Bindings
<1>4. PoliciesOf(rec.inst, rec.isolation)
  <2> DEFINE W == Wanted(rec.isolation)
  <2>1. ASSUME NEW n \in managedNetworkPolicies
        PROVE  /\ n \in W => Policies[n] = [controller |-> rec.ns, spec |-> policySpec(n)]
               /\ n \notin W => (Policies[n] # None => Policies[n].controller # rec.ns)
    <3>1. <<"NetworkPolicy", n>> \in Provisioned
      BY Zenon DEF Provisioned, Contents
    <3> QED
      BY <1>1, <3>1, Zenon DEF Provided, Policies
  <2>2. ASSUME NEW n \in managedNetworkPolicies, n \in W PROVE Policies[n] # None
    <3>1. rec.ns \in NsUid
      BY <1>2, Stored, KindFacts, ObjectFacts DEF Typed, Namespace, NamespaceObject
    <3>2. rec.inst \in ProjectObject
      BY Zenon DEF Typed, WorkerTyped
    <3>3. policySpec(n) \in Org \cup managedNetworkPolicies
      BY <3>2, Zenon DEF policySpec, ProjectObject
    <3>4. [controller |-> rec.ns, spec |-> policySpec(n)] \in PolicyObject
      BY <3>1, <3>3, Zenon DEF PolicyObject, Controller, NsUid
    <3> QED
      BY <2>1, <2>2, <3>4, NoneAssumption, Zenon
  <2>3. W \subseteq managedNetworkPolicies
    BY WantedFacts, Zenon
  <2> HIDE DEF W
  <2>4. {n \in managedNetworkPolicies :
            Policies[n] # None /\ Policies[n].controller = Namespace.uid} = W
    <3>1. ASSUME NEW n \in managedNetworkPolicies
          PROVE  n \in W <=> Policies[n] # None /\ Policies[n].controller = Namespace.uid
      <4>1. CASE n \in W
        <5>1. Policies[n] = [controller |-> rec.ns, spec |-> policySpec(n)] /\ Policies[n] # None
          BY <2>1, <2>2, <4>1, Zenon
        <5>2. Policies[n].controller = rec.ns
          BY <5>1
        <5> QED
          BY <1>2, <4>1, <5>1, <5>2, Zenon
      <4>2. CASE n \notin W
        BY <1>2, <2>1, <4>2, Zenon
      <4> QED
        BY <4>1, <4>2, Zenon
    <3> QED
      BY <2>3, <3>1, Zenon
  <2>5. ASSUME npAllowOrganization \in W PROVE Policies[npAllowOrganization].spec = rec.inst.org
    <3>1. policySpec(npAllowOrganization) = rec.inst.org
      BY Zenon DEF policySpec
    <3>2. Policies[npAllowOrganization] =
             [controller |-> rec.ns, spec |-> policySpec(npAllowOrganization)]
      BY <2>1, <2>3, <2>5, Zenon
    <3> QED
      BY <3>1, <3>2
  <2>6. W = {desiredNetworkPolicies(rec.isolation)[i] :
                 i \in 1..Len(desiredNetworkPolicies(rec.isolation))}
    BY DEF W, Wanted
  <2> QED
    BY <2>4, <2>5, <2>6, Zenon DEF PoliciesOf
<1> QED
  BY <1>2, <1>3, <1>4, Zenon DEF NamespaceOf

\* A reconciliation that succeeds with fresh caches and undisturbed leaves the
\* namespace, the bindings and the policies that the project asks for.
THEOREM FreshProvisioning == Spec => []FreshReconcileProvisions
  BY AlwaysProvisioning, FreshProvides, PTL

\* Nothing is pending when all has settled.
LEMMA SettledFacts ==
    ASSUME Typed, Provisioning, Settled
    PROVE  /\ Project # None /\ ~Pending
           /\ ~Failing /\ ~Early /\ rec.pc # "run"
           /\ Views("Namespace", p) = {Namespace}
<1>1. AllTracked /\ CaughtUp /\ ~queue /\ rec = Idle /\ Project # None
  BY Zenon DEF Settled, Provisioning
<1>2. Shown = {Project} /\ Views("Namespace", p) = {Namespace}
  BY <1>1, KindFacts, StoreShown, Zenon DEF Shown, Project, Namespace
<1> QED
  BY <1>1, <1>2 DEF Pending, Same, Failing, Early, Idle

\* What the invariant says then of the namespace and of the bindings.
LEMMA NamespaceSettled == Typed /\ Provisioning => NamespaceFollowsProject
  BY SettledFacts, Zenon
     DEF NamespaceFollowsProject, Provisioning, NamespaceKept, NamespaceShown, NamespaceFor, NamespaceOf

LEMMA RolesSettled == Typed /\ Provisioning => RevokedRoleUnbound
  BY SettledFacts DEF RevokedRoleUnbound, Provisioning, RolesKept

\* When all has settled, the namespace of the project exists and is labelled with its
\* organization, whatever stale caches, failures, restarts and others did before.
THEOREM NamespaceFollows == Spec => []NamespaceFollowsProject
  BY NamespaceSettled, AlwaysProvisioning, PTL

\* When all has settled, no binding of ours is left for a role that no user has.
THEOREM RevokedUnbound == Spec => []RevokedRoleUnbound
  BY RolesSettled, AlwaysProvisioning, PTL

-----------------------------------------------------------------------------
(* OnlyStaleRemovalsOpen. *)

Present(n) == n \in managedNetworkPolicies /\ Policies[n] # None

\* Where ingress may come from with policies f, policy by policy.
ExposureOf(f) ==
    LET present == {n \in managedNetworkPolicies : f[n] # None}
    IN  IF present = {} THEN Anywhere ELSE UNION {Allows(n, f[n].spec) : n \in present}

LEMMA ExposureParts ==
    ASSUME NEW f, NEW e
    PROVE  /\ \A n \in managedNetworkPolicies :
                 f[n] # None /\ e \in Allows(n, f[n].spec) => e \in ExposureOf(f)
           /\ e \in ExposureOf(f) =>
                 \/ (\A n \in managedNetworkPolicies : f[n] = None) /\ e \in Anywhere
                 \/ \E n \in managedNetworkPolicies : f[n] # None /\ e \in Allows(n, f[n].spec)
<1> DEFINE present == {n \in managedNetworkPolicies : f[n] # None}
<1>1. ExposureOf(f) = IF present = {} THEN Anywhere
                      ELSE UNION {Allows(n, f[n].spec) : n \in present}
  BY DEF ExposureOf
<1>2. \A n : n \in present <=> n \in managedNetworkPolicies /\ f[n] # None
  BY Zenon
<1> HIDE DEF present
<1>3. CASE present = {}
  BY <1>1, <1>2, <1>3, Zenon
<1>4. CASE present # {}
  BY <1>1, <1>2, <1>4
<1> QED
  BY <1>3, <1>4

\* A call of the worker opens nothing, unless it removes a policy by a stale cache.
LEMMA CallNeverOpens ==
    ASSUME Typed, Provisioning, Removal => fresh, rec.pc = "run", Called \/ UNCHANGED apiVars
    PROVE  Exposure' \subseteq Exposure \cup Intended
\* A policy that the preset wants allows what is intended.
<1>WantedAllows. ASSUME rec.isolation \in Isolation, NEW n \in Wanted(rec.isolation)
                 PROVE  Allows(n, policySpec(n)) \subseteq Intended
  <2> USE <1>WantedAllows
  <2>1. CASE rec.isolation = "none"
    BY <2>1, WantedFacts
  <2>2. CASE rec.isolation = "tenant"
    <3>1. n \in {npDenyIngress, npAllowOrganization}
      BY <2>2, WantedFacts
    <3>2. Intended = {"same", rec.inst.org}
      BY <2>2 DEF Intended
    <3> QED
      BY <3>1, <3>2, Zenon DEF Allows, policySpec, npDenyIngress, npAllowOrganization, npAllowSameNS
  <2>3. CASE rec.isolation = "strict"
    <3>1. n \in {npDenyIngress, npAllowSameNS}
      BY <2>3, WantedFacts
    <3>2. Intended = {"same"}
      BY <2>3, Zenon DEF Intended
    <3> QED
      BY <3>1, <3>2, Zenon DEF Allows, policySpec, npDenyIngress, npAllowOrganization, npAllowSameNS
  <2> QED
    BY <2>1, <2>2, <2>3, Zenon DEF Isolation
\* While policies are removed, the one that denies by default is in place.
<1>DenyInPlace. ASSUME Typed, Provisioning, fresh, rec.pc = "run", kind = "NetworkPolicy",
                       rec.plan[1][1] \in {"delete", "prune"}, rec.isolation # "none"
                PROVE  Present(npDenyIngress) /\ name # npDenyIngress
  <2> USE <1>DenyInPlace
  <2> DEFINE x == <<"NetworkPolicy", npDenyIngress>>
             s == rec.plan
  <2>1. npDenyIngress \in Wanted(rec.isolation) /\ npDenyIngress \in managedNetworkPolicies
    <3>1. rec.isolation \in {"tenant", "strict"}
      BY Zenon DEF Typed, WorkerTyped, Isolation
    <3> QED
      BY <3>1, WantedFacts, Zenon DEF managedNetworkPolicies
  <2>2. Planned(rec) /\ Undisturbed
    BY Zenon DEF Provisioning
  <2>3. /\ s # <<>> /\ Orderly(s, rec.inst.spec.users, rec.isolation)
        /\ Fits(s[1], rec.inst.spec.users, rec.isolation)
    BY <2>2, HeadFits
  <2>4. s[1][2] = kind /\ s[1][3] = name /\ IsPrune(s[1])
    BY HeadFacts, Zenon DEF kind, name, IsPrune
  <2>5. name # npDenyIngress
    BY <2>1, <2>3, <2>4, Zenon DEF Fits
  <2>6. ASSUME NEW i \in 1..Len(s), About(s[i], x) PROVE FALSE
    <3>1. s[i][2] = "NetworkPolicy" /\ s[i][3] = npDenyIngress
      BY <2>6, Zenon DEF About
    <3>2. i # 1
      BY <2>4, <2>5, <3>1, Zenon
    <3>3. 1 \in 1..Len(s) /\ 1 < i
      BY <2>6, <3>2, HeadFacts, SequenceFacts
    <3>4. IsPrune(s[i])
      BY <2>3, <2>4, <3>3, Zenon DEF Orderly, Before
    <3>5. Fits(s[i], rec.inst.spec.users, rec.isolation)
      BY <2>3, <2>6, Zenon DEF Orderly
    <3> QED
      BY <2>1, <3>1, <3>4, <3>5, Zenon DEF Fits
  <2>7. x \in Provisioned /\ ~Mentions(s, x)
    BY <2>1, <2>6, Zenon DEF Mentions, Provisioned, Contents
  <2>8. Provided(x)
    BY <2>2, <2>7 DEF Undisturbed
  <2>9. Policies[npDenyIngress] = [controller |-> rec.ns, spec |-> policySpec(npDenyIngress)]
    BY <2>1, <2>8, Zenon DEF Provided, Policies
  <2>10. [controller |-> rec.ns, spec |-> policySpec(npDenyIngress)] \in PolicyObject
    <3>1. rec.ns \in NsUid
      BY RunFacts, Zenon
    <3>2. policySpec(npDenyIngress) \in Org \cup managedNetworkPolicies
      BY <2>1, Zenon DEF policySpec, npDenyIngress, npAllowOrganization
    <3> QED
      BY <3>1, <3>2, Zenon DEF PolicyObject, Controller, NsUid
  <2> QED
    BY <2>1, <2>5, <2>9, <2>10, NoneAssumption, Zenon DEF Present
<1>0. ApiTypes /\ AllTracked /\ Planned(rec) /\ kind \in Kind /\ name \in Name
  BY HeadFacts, Zenon DEF Typed, Provisioning
<1> DEFINE f == Policies
           g == Policies'
<1>a. Exposure = ExposureOf(f) /\ Exposure' = ExposureOf(g)
  BY Zenon DEF Exposure, ExposureOf
<1>1. CASE \A n \in managedNetworkPolicies : Policies'[n] = Policies[n]
  BY <1>1 DEF Exposure
<1>2. CASE kind # "NetworkPolicy" \/ UNCHANGED apiVars
  <2>1. \A n \in managedNetworkPolicies : Policies'[n] = Policies[n]
    BY <1>0, <1>2, CallShows, KindFacts, Zenon DEF Policies, apiVars
  <2> QED
    BY <1>1, <2>1, Zenon
<1>3. ASSUME kind = "NetworkPolicy", NEW obj \in Object[kind], Write(kind, name, obj)
      PROVE  \A n \in managedNetworkPolicies :
                 Policies'[n] = IF n = name THEN obj ELSE Policies[n]
  BY <1>0, <1>3, KindFacts, WriteShows DEF Policies
<1>4. CASE kind = "NetworkPolicy" /\ rec.plan[1][1] = "put" /\ Write(kind, name, Mutated)
  <2>1. Mutated \in Object[kind] /\ name \in managedNetworkPolicies
    BY <1>4, HeadFacts, MutatedTypes, Zenon DEF At
  <2>2. \A n \in managedNetworkPolicies :
            Policies'[n] = IF n = name THEN Mutated ELSE Policies[n]
    BY <1>3, <1>4, <2>1
  <2>3. Mutated = [controller |-> rec.ns, spec |-> policySpec(name)]
    BY <1>4 DEF Mutated
  <2>4. Mutated.spec = policySpec(name)
    BY <2>3
  <2>5. Mutated # None
    <3>1. rec.ns \in NsUid /\ rec.inst \in ProjectObject
      BY <1>4, RunFacts, Zenon
    <3>2. policySpec(name) \in Org \cup managedNetworkPolicies
      BY <2>1, <3>1, Zenon DEF policySpec, ProjectObject
    <3>3. Mutated \in PolicyObject
      BY <2>3, <3>1, <3>2, Zenon DEF PolicyObject, Controller, NsUid
    <3> QED
      BY <3>3, NoneAssumption, Zenon
  <2>6. Fits(rec.plan[1], rec.inst.spec.users, rec.isolation)
    BY <1>0, HeadFits, Zenon
  <2>7. rec.plan[1][2] = "NetworkPolicy" /\ rec.plan[1][3] = name
    BY <1>4, HeadFacts, Zenon DEF kind, name
  <2>8. name \in Wanted(rec.isolation)
    BY <1>4, <2>6, <2>7 DEF Fits, IsPrune
  <2>9. Allows(name, policySpec(name)) \subseteq Intended
    <3>1. rec.isolation \in Isolation
      BY DEF Typed, WorkerTyped
    <3> QED
      BY <2>8, <3>1, <1>WantedAllows, Zenon
  <2>10. ASSUME NEW e \in Exposure' PROVE e \in Exposure \cup Intended
    <3>1. g[name] # None
      BY <2>1, <2>2, <2>5, Zenon
    <3>2. PICK n \in managedNetworkPolicies : g[n] # None /\ e \in Allows(n, g[n].spec)
      <4>1. \/ \A n \in managedNetworkPolicies : g[n] = None
            \/ \E n \in managedNetworkPolicies : g[n] # None /\ e \in Allows(n, g[n].spec)
        BY <1>a, <2>10, ExposureParts, Zenon
      <4> QED
        BY <2>1, <3>1, <4>1, Zenon
    <3>3. CASE n = name
      BY <2>2, <2>4, <2>9, <3>2, <3>3, Zenon
    <3>4. CASE n # name
      <4>1. f[n] # None /\ e \in Allows(n, f[n].spec)
        BY <2>2, <3>2, <3>4
      <4> QED
        BY <1>a, <4>1, ExposureParts, Zenon
    <3> QED
      BY <3>3, <3>4, Zenon
  <2> QED
    BY <2>10, Zenon
<1>5. CASE kind = "NetworkPolicy" /\ rec.plan[1][1] = "delete" /\ Write(kind, name, None)
  <2>1. \A n \in managedNetworkPolicies : Policies'[n] = IF n = name THEN None ELSE Policies[n]
    BY <1>0, <1>3, <1>5, ObjectFacts
  <2>2. CASE rec.isolation = "none"
    <3>1. Intended = Anywhere
      BY <2>2, Zenon DEF Intended
    <3>2. ASSUME NEW e \in Exposure', e \notin Anywhere PROVE e \in Exposure
      <4>1. PICK n \in managedNetworkPolicies : g[n] # None /\ e \in Allows(n, g[n].spec)
        BY <1>a, <3>2, ExposureParts
      <4> QED
        BY <1>a, <2>1, <4>1, ExposureParts, Zenon
    <3> QED
      BY <3>1, <3>2
  <2>3. CASE rec.isolation # "none"
    <3>0. fresh
      BY <1>5, <2>3, HeadFacts, Zenon DEF Removal, At
    <3>1. Present(npDenyIngress) /\ name # npDenyIngress
      BY <1>5, <2>3, <3>0, <1>DenyInPlace, Zenon
    <3>2. Policies'[npDenyIngress] # None /\ npDenyIngress \in managedNetworkPolicies
      BY <2>1, <3>1, Zenon DEF Present
    <3>3. ASSUME NEW e \in Exposure' PROVE e \in Exposure
      <4>1. PICK n \in managedNetworkPolicies : g[n] # None /\ e \in Allows(n, g[n].spec)
        BY <1>a, <3>2, <3>3, ExposureParts
      <4> QED
        BY <1>a, <2>1, <4>1, ExposureParts
    <3> QED
      BY <3>3, Zenon
  <2> QED
    BY <2>2, <2>3, Zenon
<1> QED
  BY <1>2, <1>4, <1>5 DEF Called

\* While one preset replaces another, a call opens the namespace beyond what it had and
\* what it is to have only if it removes a policy in a reconciliation that began with a
\* stale cache or was interfered with: no write of a policy does, however stale the
\* caches are, and no removal in a fresh reconciliation, whichever policies it began
\* with.
THEOREM OpensOnlyStale == Spec => OnlyStaleRemovalsOpen
<1>1. ASSUME Typed, Provisioning, [Next]_vars, rec' # rec, rec.pc = "run", Removal => fresh
      PROVE  Exposure' \subseteq Exposure \cup Intended
  <2>1. Step
    BY <1>1, NextSteps
  <2>2. RunStep \/ Restart
    BY <1>1, <2>1, Zenon
       DEF Step, ClientStep, OtherStep, EventStep, Informer, IdleStep, DequeueStep, Dequeue,
           PrepareStep, Early, ConcludeStep
  <2>3. CASE RunStep
    BY <1>1, <2>3, CallNeverOpens, Zenon DEF RunStep
  <2>4. CASE Restart
    BY <2>4 DEF Restart, Exposure, Policies
  <2> QED
    BY <2>2, <2>3, <2>4
<1>2. Typed /\ Provisioning /\ [Next]_vars =>
         [ByWorker /\ rec.pc = "run" /\ (Removal => fresh) =>
             Exposure' \subseteq Exposure \cup Intended]_vars
  BY <1>1 DEF ByWorker
<1> QED
  BY <1>2, AlwaysProvisioning, PTL DEF Spec, OnlyStaleRemovalsOpen

=============================================================================
