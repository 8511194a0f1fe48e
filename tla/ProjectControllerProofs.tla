---------------------- MODULE ProjectControllerProofs ----------------------
(***************************************************************************)
(* Proofs about ProjectController, for all sets of organizations, bounds   *)
(* and surroundings: its type invariant, which says in particular that     *)
(* the plan of calls is well-formed whenever it runs, and that the worker  *)
(* overwrites nothing that another controller controls.  The lemmas about  *)
(* labels say where the root on a namespace comes from; TenancyProofs      *)
(* builds on them.  The last part is about the order and the completeness  *)
(* of plans, for ProjectInvariantProofs.                                   *)
(***************************************************************************)
EXTENDS ProjectController, ApiServerProofs

Seen == UNION {Object[k] : k \in Kind}

\* The part of TypeOK that Write, Deliver and Restart can disturb.
ApiTypes == ApiTyped(Kind, Name, Object)

GetNs == <<"get", "Namespace", p>>
PutNs == <<"put", "Namespace", p>>

\* A put comes right after the get of the same object.
Paired(s) ==
    \A i \in 2..Len(s) : s[i][1] = "put" => s[i - 1] = <<"get", s[i][2], s[i][3]>>

\* The calls about the namespace come first.
NamespaceFirst(s) ==
    \A i \in 1..Len(s) :
        s[i][2] = "Namespace" =>
            \/ i = 1 /\ s[i] \in {GetNs, PutNs}
            \/ i = 2 /\ s[1] = GetNs /\ s[i] = PutNs

\* A plan s that may run with what was read last and the namespace at hand.
Runnable(s, seen, ns) ==
    /\ s \in Seq(Op) /\ s # <<>> /\ Paired(s) /\ NamespaceFirst(s)
    /\ s[1][1] = "put" => seen \in Object[s[1][2]]
    /\ s[1] = GetNs => Len(s) > 1 /\ s[2] = PutNs
    /\ s[1][2] # "Namespace" => ns \in NsUid

Pc == {"idle", "organization", "isolation", "run", "status"}
Record == [pc : Pc, inst : Object["OrganizationProject"], root : Org \cup {None},
           isolation : Isolation \cup {None}, ns : NsUid \cup {None}, seen : Seen,
           plan : Seq(Op), ok : BOOLEAN]

\* The part of TypeOK about the worker.
WorkerTyped(r) ==
    /\ r \in Record
    /\ r.pc # "idle" => r.inst \in ProjectObject
    /\ r.pc \in {"isolation", "run"} => r.root \in Org
    /\ r.pc = "run" => Runnable(r.plan, r.seen, r.ns) /\ r.isolation \in Isolation

\* The part of TypeOK about what the operator sees of organizations and profiles.
ViewTypes == root \in [Org -> Org \cup {None}] /\ defaults \in [Org -> Isolation \cup {None}]

\* The part of TypeOK about the rest.
EnvTypes ==
    /\ queue \in BOOLEAN /\ fresh \in BOOLEAN
    /\ uids \in 0..MaxUid /\ nsUids \in Nat
    /\ env \in Surrounding /\ env.specs \subseteq ProjectSpec

Typed == ApiTypes /\ WorkerTyped(rec) /\ ViewTypes /\ EnvTypes

\* The objects of each kind.
LEMMA ObjectFacts ==
    /\ Object["OrganizationProject"] = {None} \cup ProjectObject
    /\ Object["Namespace"] = {None} \cup NamespaceObject
    /\ Object["RoleBinding"] = {None} \cup BindingObject
    /\ Object["NetworkPolicy"] = {None} \cup PolicyObject
    /\ \A k \in Kind : None \in Object[k] /\ Object[k] \subseteq Seen
    /\ None \in Seen
  <1>1. /\ Object["OrganizationProject"] = {None} \cup ProjectObject
        /\ Object["Namespace"] = {None} \cup NamespaceObject
        /\ Object["RoleBinding"] = {None} \cup BindingObject
        /\ Object["NetworkPolicy"] = {None} \cup PolicyObject
    BY DEF Object, Kind
  <1>2. \A k \in Kind : None \in Object[k]
    BY DEF Object
  <1>3. \A k \in Kind : Object[k] \subseteq Seen
    BY DEF Seen
  <1>4. "Namespace" \in Kind
    BY DEF Kind
  <1> QED
    BY <1>1, <1>2, <1>3, <1>4

\* The kinds and the names.
LEMMA KindFacts ==
    /\ "OrganizationProject" \in Kind /\ "Namespace" \in Kind
    /\ "RoleBinding" \in Kind /\ "NetworkPolicy" \in Kind
    /\ p \in Name /\ Role \subseteq Name /\ managedNetworkPolicies \subseteq Name
    /\ \A x \in Provisioned :
          /\ x[1] \in Kind /\ x[2] \in Name
          /\ \/ x[1] = "Namespace" /\ x[2] = p
             \/ x[1] = "RoleBinding" /\ x[2] \in Role
             \/ x[1] = "NetworkPolicy" /\ x[2] \in managedNetworkPolicies
    /\ Contents \subseteq Provisioned
  BY DEF Kind, Name, Provisioned, Contents

\* What a write does, with the kinds, names and objects of this controller.
LEMMA Written ==
    ASSUME ApiTypes, NEW k \in Kind, NEW n \in Name, NEW obj \in Object[k], Write(k, n, obj)
    PROVE  ApiTypes' /\ Wrote(Kind, k, n, obj)
  BY WriteEffect DEF ApiTypes

\* What a delivery does.
LEMMA Delivered ==
    ASSUME ApiTypes, NEW k \in Kind, Deliver(k)
    PROVE  ApiTypes' /\ Moved(Kind, k)
  BY DeliverEffect DEF ApiTypes

\* Without a call, store, cache and watches stay well-formed.
LEMMA ApiUnchanged == ApiTypes /\ UNCHANGED apiVars => ApiTypes'
  BY Zenon DEF ApiTypes, ApiTyped, apiVars

\* An object is well-formed.
LEMMA Stored ==
    ASSUME ApiTypes, NEW k \in Kind, NEW n \in Name
    PROVE  store[k][n] \in Object[k] /\ cache[k][n] \in Object[k]
  BY Zenon DEF ApiTypes, ApiTyped

-----------------------------------------------------------------------------
(* Plans. *)

\* A part of a plan about role bindings and network policies.
Part(s) ==
    /\ s \in Seq(Op) /\ Paired(s)
    /\ \A i \in 1..Len(s) : s[i][2] # "Namespace"
    /\ Len(s) > 0 => s[1][1] # "put"

\* The calls behind ensureNamespace.
LEMMA PlanPart ==
    \A users, isolation : Part(ensureRBAC(users)) /\ Part(ensureNetworkPolicies(isolation))
                            /\ Part(ensureRBAC(users) \o ensureNetworkPolicies(isolation))
  \* Parts one after the other are a part.
  <1>PartsJoin. ASSUME NEW s, NEW t, Part(s), Part(t)
                PROVE  Part(s \o t)
    <2> USE <1>PartsJoin
    <2>1. /\ s \in Seq(Op) /\ t \in Seq(Op) /\ s \o t \in Seq(Op)
          /\ Len(s) \in Nat /\ Len(t) \in Nat /\ Len(s \o t) = Len(s) + Len(t)
      BY DEF Part
    <2>2. \A i \in 1..(Len(s) + Len(t)) :
              (s \o t)[i] = IF i <= Len(s) THEN s[i] ELSE t[i - Len(s)]
      BY <2>1
    <2> DEFINE st == s \o t
    <2> HIDE DEF st
    <2>3. \A i \in 1..Len(st) : st[i] = IF i <= Len(s) THEN s[i] ELSE t[i - Len(s)]
      BY <2>1, <2>2 DEF st
    <2>4. Len(st) = Len(s) + Len(t) /\ st \in Seq(Op)
      BY <2>1 DEF st
    <2>5. Paired(st)
      <3> SUFFICES ASSUME NEW i \in 2..Len(st), st[i][1] = "put"
                   PROVE  st[i - 1] = <<"get", st[i][2], st[i][3]>>
        BY DEF Paired
      <3>1. CASE i <= Len(s)
        <4>0. /\ i \in 2..Len(s) /\ i \in 1..Len(st) /\ i - 1 \in 1..Len(st)
              /\ i <= Len(s) /\ i - 1 <= Len(s)
          BY <2>1, <2>4, <3>1
        <4>1. i \in 2..Len(s) /\ st[i] = s[i] /\ st[i - 1] = s[i - 1]
          BY <2>3, <4>0
        <4> QED
          BY <4>1 DEF Part, Paired
      <3>2. CASE i = Len(s) + 1
        <4>1. i \in 1..Len(st) /\ ~(i <= Len(s)) /\ i - Len(s) = 1 /\ Len(t) > 0
          BY <2>1, <2>4, <3>2
        <4>2. st[i] = t[1]
          BY <2>3, <4>1
        <4> QED
          BY <4>1, <4>2 DEF Part
      <3>3. CASE i > Len(s) + 1
        <4>1. /\ i \in 1..Len(st) /\ ~(i <= Len(s)) /\ i - Len(s) \in 2..Len(t)
              /\ i - 1 \in 1..Len(st) /\ ~(i - 1 <= Len(s))
              /\ (i - 1) - Len(s) = (i - Len(s)) - 1
          BY <2>1, <2>4, <3>3
        <4>2. st[i] = t[i - Len(s)] /\ st[i - 1] = t[(i - Len(s)) - 1]
          BY <2>3, <4>1, Zenon
        <4> QED
          BY <4>1, <4>2, Zenon DEF Part, Paired
      <3> QED
        BY <2>1, <2>4, <3>1, <3>2, <3>3
    <2>6. \A i \in 1..Len(st) : st[i][2] # "Namespace"
      <3> TAKE i \in 1..Len(st)
      <3>1. CASE i <= Len(s)
        BY <2>1, <2>3, <3>1 DEF Part
      <3>2. CASE i > Len(s)
        <4>1. i - Len(s) \in 1..Len(t) /\ st[i] = t[i - Len(s)]
          BY <2>1, <2>3, <2>4, <3>2
        <4> QED
          BY <4>1 DEF Part
      <3> QED
        BY <2>1, <2>4, <3>1, <3>2
    <2>7. Len(st) > 0 => st[1][1] # "put"
      <3>1. CASE Len(s) = 0
        BY <2>1, <2>3, <2>4, <3>1 DEF Part
      <3>2. CASE Len(s) > 0
        BY <2>1, <2>3, <2>4, <3>2 DEF Part
      <3> QED
        BY <2>1, <3>1, <3>2
    <2> QED
      BY <2>4, <2>5, <2>6, <2>7 DEF Part, st
  \* The parts that ensureRBAC and ensureNetworkPolicies are made of: nothing,
  <1>EmptyPart. Part(<<>>)
    BY DEF Part, Paired
  \* a call that is not a put,
  <1>SinglePart. ASSUME NEW c, NEW x \in Contents, c \in {"check", "prune", "delete"}
                 PROVE  Part(<<<<c, x[1], x[2]>>>>)
    <2> USE <1>SinglePart
    <2> DEFINE d == <<c, x[1], x[2]>>
    <2>1. d \in Op
      BY KindFacts DEF Op, Contents, Provisioned
    <2>2. d[1] # "put" /\ d[2] # "Namespace"
      BY DEF Contents
    <2> HIDE DEF d
    <2>3. Part(<<d>>)
      BY <2>1, <2>2 DEF Part, Paired
    <2> QED
      BY <2>3 DEF d
  \* and CreateOrUpdate.
  <1>PairPart. ASSUME NEW x \in Contents
               PROVE  Part(CreateOrUpdate(x[1], x[2]))
    <2> USE <1>PairPart
    <2> DEFINE g == <<"get", x[1], x[2]>>
               q == <<"put", x[1], x[2]>>
    <2>1. g \in Op /\ q \in Op
      BY KindFacts DEF Op, Contents, Provisioned
    <2>2. /\ g[1] = "get" /\ g[2] # "Namespace" /\ q[2] # "Namespace"
          /\ g = <<"get", q[2], q[3]>>
      BY DEF Contents
    <2> HIDE DEF g, q
    <2>3. Part(<<g, q>>)
      BY <2>1, <2>2 DEF Part, Paired
    <2> QED
      BY <2>3 DEF CreateOrUpdate, g, q
  \* The calls of ensureRBAC.
  <1>RBACPart. \A users : Part(ensureRBAC(users))
    <2> TAKE users
    <2> DEFINE ensure(role) == IF subjectsForRole(users, role) = {} THEN Revoke(role)
                               ELSE CreateOrUpdate("RoleBinding", role)
    <2>1. ASSUME NEW role \in Role PROVE Part(ensure(role))
      <3> DEFINE x == <<"RoleBinding", role>>
      <3>1. x \in Contents /\ x[1] = "RoleBinding" /\ x[2] = role
        BY DEF Contents
      <3> HIDE DEF x
      <3>2. Part(Revoke(role))
        BY <3>1, <1>SinglePart DEF Revoke
      <3>3. Part(CreateOrUpdate("RoleBinding", role))
        BY <3>1, <1>PairPart
      <3> QED
        BY <3>2, <3>3
    <2>2. "edit" \in Role /\ "view" \in Role
      BY DEF Role
    <2>3. Part(ensure("edit")) /\ Part(ensure("view"))
      BY <2>1, <2>2
    <2>4. ensureRBAC(users) = ensure("edit") \o ensure("view")
      BY DEF ensureRBAC
    <2> HIDE DEF ensure
    <2> QED
      BY <2>3, <2>4, <1>PartsJoin
  \* The calls of ensureNetworkPolicies.
  <1>PoliciesPart. \A isolation : Part(ensureNetworkPolicies(isolation))
    <2> TAKE isolation
    <2> DEFINE desired == desiredNetworkPolicies(isolation)
               ensure(i) == IF i > Len(desired) THEN <<>>
                            ELSE <<<<"check", "NetworkPolicy", desired[i]>>>>
                                   \o CreateOrUpdate("NetworkPolicy", desired[i])
               wanted == {desired[i] : i \in 1..Len(desired)}
               prune(n) == IF n \in wanted THEN <<>> ELSE <<<<"prune", "NetworkPolicy", n>>>>
    <2>1. \A n \in managedNetworkPolicies :
              <<"NetworkPolicy", n>> \in Contents
      BY DEF Contents
    <2>2. ASSUME NEW n \in managedNetworkPolicies
          PROVE  /\ Part(<<<<"check", "NetworkPolicy", n>>>>)
                 /\ Part(<<<<"prune", "NetworkPolicy", n>>>>)
                 /\ Part(CreateOrUpdate("NetworkPolicy", n))
      <3> DEFINE x == <<"NetworkPolicy", n>>
      <3>1. x \in Contents /\ x[1] = "NetworkPolicy" /\ x[2] = n
        BY <2>1
      <3> HIDE DEF x
      <3> QED
        BY <3>1, <1>SinglePart, <1>PairPart
    <2>3. \A i \in {1, 2} : i > Len(desired) \/ desired[i] \in managedNetworkPolicies
      BY DEF desiredNetworkPolicies, managedNetworkPolicies
    <2> HIDE DEF desired
    <2>4. \A i \in {1, 2} : Part(ensure(i))
      <3> TAKE i \in {1, 2}
      <3>1. CASE i > Len(desired)
        BY <3>1, <1>EmptyPart
      <3>2. CASE ~(i > Len(desired))
        <4>1. desired[i] \in managedNetworkPolicies
          BY <2>3, <3>2
        <4>2. Part(<<<<"check", "NetworkPolicy", desired[i]>>>>
                      \o CreateOrUpdate("NetworkPolicy", desired[i]))
          BY <2>2, <4>1, <1>PartsJoin, Zenon
        <4> QED
          BY <3>2, <4>2
      <3> QED
        BY <3>1, <3>2
    <2>5. ASSUME NEW n \in managedNetworkPolicies PROVE Part(prune(n))
      BY <2>2, <1>EmptyPart, Zenon
    <2>6. Part(PruneUnwanted(wanted))
      <3>1. /\ npDenyIngress \in managedNetworkPolicies
            /\ npAllowOrganization \in managedNetworkPolicies
            /\ npAllowSameNS \in managedNetworkPolicies
        BY DEF managedNetworkPolicies
      <3>2. /\ Part(prune(npDenyIngress)) /\ Part(prune(npAllowOrganization))
            /\ Part(prune(npAllowSameNS))
        BY <2>5, <3>1, Zenon
      <3>3. PruneUnwanted(wanted) = prune(npDenyIngress) \o prune(npAllowOrganization)
                                      \o prune(npAllowSameNS)
        BY DEF PruneUnwanted
      <3> HIDE DEF prune
      <3> QED
        BY <3>2, <3>3, <1>PartsJoin, Zenon
    <2>7. ensureNetworkPolicies(isolation) = ensure(1) \o ensure(2) \o PruneUnwanted(wanted)
      BY DEF ensureNetworkPolicies, desired
    <2>8. Part(ensure(1)) /\ Part(ensure(2))
      BY <2>4
    <2> HIDE DEF ensure, wanted
    <2> QED
      BY <2>6, <2>7, <2>8, <1>PartsJoin
  <1> QED
    BY <1>RBACPart, <1>PoliciesPart, <1>PartsJoin

\* A part behind ensureNamespace may run.
LEMMA FirstPlan ==
    ASSUME NEW s, Part(s), NEW seen, NEW ns
    PROVE  Runnable(ensureNamespace \o s, seen, ns)
  <1> DEFINE w == ensureNamespace \o s
  <1>1. GetNs \in Op /\ PutNs \in Op
    BY KindFacts DEF Op, GetNs, PutNs, Provisioned
  <1>2. /\ ensureNamespace = <<GetNs, PutNs>> /\ GetNs = <<"get", PutNs[2], PutNs[3]>>
        /\ GetNs[1] = "get" /\ GetNs[2] = "Namespace"
    BY DEF ensureNamespace, CreateOrUpdate, GetNs, PutNs
  <1>3. /\ w \in Seq(Op) /\ Len(w) = Len(s) + 2 /\ Len(s) \in Nat
        /\ w[1] = GetNs /\ w[2] = PutNs
    BY <1>1, <1>2 DEF Part
  <1>4. \A i \in 3..Len(w) : w[i] = s[i - 2]
    BY <1>1, <1>2 DEF Part
  <1> HIDE DEF w
  <1>5. Paired(w)
    <2> SUFFICES ASSUME NEW i \in 2..Len(w), w[i][1] = "put"
                 PROVE  w[i - 1] = <<"get", w[i][2], w[i][3]>>
      BY DEF Paired
    <2>1. CASE i = 2
      BY <1>2, <1>3, <2>1
    <2>2. CASE i = 3
      <3>1. w[i] = s[1] /\ Len(s) > 0
        BY <1>3, <1>4, <2>2
      <3> QED
        BY <3>1 DEF Part
    <2>3. CASE i > 3
      <3>1. /\ i \in 3..Len(w) /\ i - 1 \in 3..Len(w) /\ i - 2 \in 2..Len(s)
            /\ (i - 1) - 2 = (i - 2) - 1
        BY <1>3, <2>3
      <3>2. w[i] = s[i - 2] /\ w[i - 1] = s[(i - 2) - 1]
        BY <1>4, <3>1
      <3> QED
        BY <3>1, <3>2 DEF Part, Paired
    <2> QED
      BY <1>3, <2>1, <2>2, <2>3
  <1>6. NamespaceFirst(w)
    <2> SUFFICES ASSUME NEW i \in 1..Len(w), w[i][2] = "Namespace"
                 PROVE  i = 1 \/ i = 2
      BY <1>3 DEF NamespaceFirst
    <2>1. CASE i > 2
      <3>1. i \in 3..Len(w) /\ i - 2 \in 1..Len(s)
        BY <1>3, <2>1
      <3>2. w[i] = s[i - 2]
        BY <1>4, <3>1
      <3> QED
        BY <3>1, <3>2 DEF Part
    <2> QED
      BY <1>3, <2>1
  <1>7. w # <<>> /\ Len(w) > 1
    BY <1>3
  <1>8. Runnable(w, seen, ns)
    BY <1>2, <1>3, <1>5, <1>6, <1>7 DEF Runnable
  <1> QED
    BY <1>8 DEF w

\* When a call is done the rest of the plan may run: a get has read the object for
\* the put, and ensureNamespace has left the namespace for the others.
LEMMA RestOfPlan ==
    ASSUME NEW s, NEW seen, NEW ns, Runnable(s, seen, ns), Len(s) # 1,
           NEW seen2, s[1][1] = "get" => seen2 \in Object[s[1][2]],
           NEW ns2, s[1] # GetNs => ns2 \in NsUid
    PROVE  Runnable(Tail(s), seen2, ns2)
  <1> DEFINE t == Tail(s)
  <1>0. s \in Seq(Op) /\ s # <<>> /\ Len(s) # 1
    BY DEF Runnable
  <1>1. /\ s \in Seq(Op) /\ t \in Seq(Op) /\ Len(s) \in Nat /\ Len(s) > 1
        /\ Len(t) = Len(s) - 1 /\ t # <<>>
    <2>1. Len(s) \in Nat /\ Len(s) > 1
      BY <1>0
    <2>2. t \in Seq(Op) /\ Len(t) = Len(s) - 1
      BY <1>0
    <2>3. Len(t) # 0
      BY <2>1, <2>2
    <2> HIDE DEF t
    <2>4. t # <<>>
      BY <2>3
    <2> QED
      BY <1>0, <2>1, <2>2, <2>4
  <1>2. \A i \in 1..Len(t) : t[i] = s[i + 1]
    BY <1>0
  <1> HIDE DEF t
  <1>3. Paired(t)
    <2> SUFFICES ASSUME NEW i \in 2..Len(t), t[i][1] = "put"
                 PROVE  t[i - 1] = <<"get", t[i][2], t[i][3]>>
      BY DEF Paired
    <2>1. /\ i \in 1..Len(t) /\ i - 1 \in 1..Len(t) /\ i + 1 \in 2..Len(s)
          /\ (i + 1) - 1 = (i - 1) + 1
      BY <1>1
    <2>2. t[i] = s[i + 1] /\ t[i - 1] = s[(i + 1) - 1]
      BY <1>2, <2>1
    <2> QED
      BY <2>1, <2>2 DEF Runnable, Paired
  <1>4. t[1] = s[2]
    BY <1>1, <1>2
  <1>5. s[2][1] = "put" => s[1] = <<"get", s[2][2], s[2][3]>>
    <2>1. 2 \in 2..Len(s) /\ 2 - 1 = 1
      BY <1>1
    <2> QED
      BY <2>1 DEF Runnable, Paired
  <1>6. t[1][1] = "put" => seen2 \in Object[t[1][2]]
    BY <1>4, <1>5
  <1>7. ASSUME NEW i \in 1..Len(t), t[i][2] = "Namespace"
        PROVE  i = 1 /\ s[1] = GetNs /\ t[1] = PutNs
    <2>1. i + 1 \in 1..Len(s) /\ i + 1 # 1 /\ (i + 1 = 2 => i = 1)
      BY <1>1
    <2>2. s[i + 1][2] = "Namespace"
      BY <1>2, <1>7
    <2>3. i + 1 = 2 /\ s[1] = GetNs /\ s[i + 1] = PutNs
      BY <2>1, <2>2 DEF Runnable, NamespaceFirst
    <2> QED
      BY <1>4, <2>1, <2>3
  <1>8. NamespaceFirst(t)
    BY <1>7 DEF NamespaceFirst
  <1>9. GetNs # PutNs /\ GetNs[2] = "Namespace" /\ 1 \in 1..Len(t)
    BY <1>1 DEF GetNs, PutNs
  <1>10. t[1] # GetNs
    BY <1>7, <1>9
  <1>11. t[1][2] # "Namespace" => ns2 \in NsUid
    <2>1. CASE s[1] = GetNs
      <3>1. t[1] = PutNs /\ PutNs[2] = "Namespace"
        BY <1>4, <2>1 DEF Runnable, PutNs
      <3> QED
        BY <3>1
    <2> QED
      BY <2>1
  <1>12. Runnable(t, seen2, ns2)
    BY <1>1, <1>3, <1>6, <1>8, <1>10, <1>11 DEF Runnable
  <1> QED
    BY <1>12 DEF t

-----------------------------------------------------------------------------
(* Type correctness. *)

\* The parts make up Typed in the next state as well.
LEMMA TypedNext ==
    ASSUME ApiTypes', WorkerTyped(rec'), ViewTypes', EnvTypes'
    PROVE  Typed'
  BY DEF Typed

\* Counting a write or a fault changes nothing else of env.
LEMMA CountTypes ==
    ASSUME EnvTypes, Fault \/ CountedWrite
    PROVE  env' \in Surrounding /\ env'.specs = env.specs
  BY DEF EnvTypes, Fault, CountedWrite, Surrounding

\* The specs of projects.
LEMMA SpecFacts ==
    \A s \in ProjectSpec : /\ s.isolation \in Isolation \cup {None}
                           /\ s.users \in SUBSET (STRING \X Role)
  BY ProjectAssumption DEF ProjectSpec, Surrounding

\* The idle worker is well-formed.
LEMMA IdleTypes == WorkerTyped(Idle)
  <1>1. Idle \in Record
    BY ObjectFacts DEF Idle, Record, Pc
  <1> QED
    BY <1>1 DEF WorkerTyped, Idle

\* What others write is well-formed.
LEMMA ForeignTypes ==
    ASSUME nsUids \in Nat, NEW x \in Provisioned
    PROVE  foreignObjects(x[1], x[2]) \subseteq Object[x[1]]
  <1>1. CASE x[1] = "Namespace"
    <2>1. nsUids + 1 \in NsUid /\ {None, otherController} \subseteq Controller
      BY DEF NsUid, Controller, otherController
    <2>2. foreignObjects(x[1], x[2]) =
             [uid : {nsUids + 1}, controller : {None, otherController}, org : {None},
              root : {None}, deleting : {FALSE}]
      BY <1>1, Zenon DEF foreignObjects
    <2>3. foreignObjects(x[1], x[2]) \subseteq NamespaceObject
      <3> SUFFICES ASSUME NEW y \in [uid : {nsUids + 1}, controller : {None, otherController},
                                     org : {None}, root : {None}, deleting : {FALSE}]
                   PROVE  y \in NamespaceObject
        BY <2>2, Zenon
      <3>1. y = [uid |-> nsUids + 1, controller |-> y.controller, org |-> None,
                 root |-> None, deleting |-> FALSE]
        BY Zenon
      <3>2. y.controller \in Controller
        BY <2>1
      <3> QED
        BY <2>1, <3>1, <3>2, Zenon DEF NamespaceObject
    <2> QED
      BY <1>1, <2>3, ObjectFacts
  <1>2. CASE x[1] = "RoleBinding"
    <2>1. x[2] \in Role
      BY <1>2, KindFacts
    <2>2. foreignObjects(x[1], x[2]) \subseteq BindingObject
      BY <1>2, <2>1 DEF foreignObjects, BindingObject, Controller, otherController
    <2> QED
      BY <1>2, <2>2, ObjectFacts
  <1>3. CASE x[1] = "NetworkPolicy"
    <2>1. foreignObjects(x[1], x[2]) \subseteq PolicyObject
      BY <1>3 DEF foreignObjects, PolicyObject, Controller, otherController
    <2> QED
      BY <1>3, <2>1, ObjectFacts
  <1> QED
    BY <1>1, <1>2, <1>3, KindFacts

\* What the cluster and others do keeps the types.
LEMMA ClusterTypes ==
    ASSUME Typed, fresh' \in BOOLEAN,
           \/ CollectNamespace \/ CollectContents \/ Terminate
           \/ \E x \in Provisioned : OtherCreates(x[1], x[2]) \/ OtherDeletes(x[1], x[2])
    PROVE  Typed'
  \* Marking a namespace keeps it well-formed.
  <1>MarkTypes. ASSUME ApiTypes, MarkNamespace PROVE ApiTypes'
    <2> USE <1>MarkTypes
    <2>1. Namespace \in NamespaceObject
      BY Stored, ObjectFacts, KindFacts DEF MarkNamespace, Namespace
    <2>2. [Namespace EXCEPT !.deleting = TRUE] \in NamespaceObject
      BY <2>1, Zenon DEF NamespaceObject
    <2> QED
      BY <2>2, Written, ObjectFacts, KindFacts DEF MarkNamespace
  <1> USE DEF Typed
  <1>0. \A c \in Contents : c[1] \in Kind /\ c[2] \in Name
    BY KindFacts
  <1>1. CASE CollectNamespace
    BY <1>1, <1>MarkTypes, TypedNext, Zenon DEF CollectNamespace, operator, view, ViewTypes, EnvTypes
  <1>2. CASE CollectContents
    <2>1. ApiTypes'
      BY <1>0, <1>2, Written, ObjectFacts, Zenon DEF CollectContents
    <2> QED
      BY <1>2, <2>1, TypedNext, Zenon DEF CollectContents, operator, view, ViewTypes, EnvTypes
  <1>3. CASE Terminate
    <2>1. ApiTypes'
      BY <1>0, <1>3, Written, ObjectFacts, KindFacts, Zenon DEF Terminate
    <2> QED
      BY <1>3, <2>1, TypedNext, Zenon DEF Terminate, operator, view, ViewTypes, EnvTypes
  <1>4. ASSUME NEW x \in Provisioned, OtherCreates(x[1], x[2]) PROVE Typed'
    <2>1. \E obj \in foreignObjects(x[1], x[2]) : Write(x[1], x[2], obj)
      BY <1>4, Zenon DEF OtherCreates
    <2>2. ApiTypes'
      BY <2>1, Written, ForeignTypes, KindFacts, Zenon DEF EnvTypes
    <2>3. EnvTypes'
      BY <1>4, CountTypes DEF OtherCreates, operator, EnvTypes
    <2> QED
      BY <1>4, <2>2, <2>3, TypedNext, Zenon DEF OtherCreates, operator, view, ViewTypes
  <1>5. ASSUME NEW x \in Provisioned, OtherDeletes(x[1], x[2]) PROVE Typed'
    <2>1. ApiTypes'
      BY <1>5, Written, <1>MarkTypes, KindFacts, ObjectFacts, Zenon DEF OtherDeletes
    <2>2. EnvTypes'
      BY <1>5, CountTypes DEF OtherDeletes, operator, EnvTypes
    <2> QED
      BY <1>5, <2>1, <2>2, TypedNext, Zenon DEF OtherDeletes, operator, view, ViewTypes
  <1> QED
    BY <1>1, <1>2, <1>3, <1>4, <1>5

\* A restart keeps the types, whatever the operator sees of organizations then.
LEMMA RestartTypes ==
    ASSUME ApiTypes, EnvTypes, Restart
    PROVE  ApiTypes' /\ WorkerTyped(rec') /\ fresh' \in BOOLEAN /\ queue' \in BOOLEAN
  <1>1. ApiTypes'
    <2>1. \A k \in Kind : watch'[k] = <<>> /\ cache'[k] = store[k]
      BY DEF Restart
    <2>2. DOMAIN watch' = Kind /\ cache' = store /\ store' = store
      BY DEF Restart
    <2>3. \A k \in Kind : <<>> \in Seq([name : Name, obj : Object[k]])
      OBVIOUS
    <2> QED
      BY <2>1, <2>2, <2>3, Zenon DEF ApiTypes, ApiTyped
  <1>2. WorkerTyped(rec')
    BY IdleTypes DEF Restart
  <1> QED
    BY <1>1, <1>2, Zenon DEF Restart

\* The call at the head of the plan.
LEMMA HeadFacts ==
    ASSUME Typed, rec.pc = "run"
    PROVE  /\ rec.plan \in Seq(Op) /\ rec.plan # <<>> /\ Head(rec.plan) = rec.plan[1]
           /\ rec.plan[1] = <<rec.plan[1][1], kind, name>>
           /\ kind \in Kind /\ name \in Name /\ <<kind, name>> \in Provisioned
           /\ \/ kind = "Namespace" /\ name = p
              \/ kind = "RoleBinding" /\ name \in Role
              \/ kind = "NetworkPolicy" /\ name \in managedNetworkPolicies
           /\ cached \in Object[kind] /\ stored \in Object[kind]
  <1>1. rec.plan \in Seq(Op) /\ rec.plan # <<>>
    BY DEF Typed, WorkerTyped, Runnable
  <1>2. Head(rec.plan) = rec.plan[1] /\ rec.plan[1] \in Op
    BY <1>1
  <1>3. /\ rec.plan[1] = <<rec.plan[1][1], kind, name>>
        /\ kind \in Kind /\ name \in Name /\ <<kind, name>> \in Provisioned
    BY <1>2 DEF Op, kind, name
  <1>4. \/ kind = "Namespace" /\ name = p
        \/ kind = "RoleBinding" /\ name \in Role
        \/ kind = "NetworkPolicy" /\ name \in managedNetworkPolicies
    BY <1>3, KindFacts
  <1>5. cached \in Object[kind] /\ stored \in Object[kind]
    BY <1>3, Stored DEF Typed, cached, stored
  <1> QED
    BY <1>1, <1>2, <1>3, <1>4, <1>5

\* r is the worker after a call, with what was read, the namespace and the instance.
Advanced(r, seen, ns, inst) ==
    /\ r.pc = IF Len(rec.plan) = 1 THEN "status" ELSE "run"
    /\ r.plan = Tail(rec.plan) /\ r.root = rec.root /\ r.isolation = rec.isolation
    /\ r.inst = inst /\ r.ns = ns /\ r.seen = seen

\* The forms in which the actions advance the worker.
LEMMA DoneForms ==
    ASSUME rec \in Record, rec.plan # <<>>
    PROVE  /\ Done \in Record /\ Advanced(Done, rec.seen, rec.ns, rec.inst)
           /\ \A x \in Seen : LET r == [Done EXCEPT !.seen = x]
                             IN  r \in Record /\ Advanced(r, x, rec.ns, rec.inst)
           /\ \A x \in NsUid, inst \in ProjectObject :
                 inst = [rec.inst EXCEPT !.namespace = p] =>
                     LET r == [Done EXCEPT !.ns = x, !.inst.namespace = p]
                     IN  r \in Record /\ Advanced(r, rec.seen, x, inst)
  <1>1. Tail(rec.plan) \in Seq(Op) /\ "status" \in Pc /\ "run" \in Pc
    BY DEF Record, Pc
  <1>2. Done \in Record /\ Advanced(Done, rec.seen, rec.ns, rec.inst)
    BY <1>1, Zenon DEF Done, Advanced, Record
  <1>3. ASSUME NEW x \in Seen, NEW r, r = [Done EXCEPT !.seen = x]
        PROVE  r \in Record /\ Advanced(r, x, rec.ns, rec.inst)
    BY <1>2, <1>3 DEF Record, Advanced
  <1>4. ASSUME NEW x \in NsUid, NEW inst \in ProjectObject,
               inst = [rec.inst EXCEPT !.namespace = p],
               NEW r, r = [Done EXCEPT !.ns = x, !.inst.namespace = p]
        PROVE  r \in Record /\ Advanced(r, rec.seen, x, inst)
    <2>1. Done.inst = rec.inst
      BY <1>2 DEF Advanced
    <2>2. r = [Done EXCEPT !.ns = x, !.inst = inst]
      BY <1>4, <2>1, Zenon
    <2> QED
      BY <1>2, <2>2, ObjectFacts, Zenon DEF Record, Advanced
  <1> QED
    BY <1>2, <1>3, <1>4, Zenon

\* What the calls of a running plan have at hand.
LEMMA RunFacts ==
    ASSUME Typed, rec.pc = "run"
    PROVE  /\ rec \in Record /\ rec.inst \in ProjectObject /\ rec.root \in Org
           /\ rec.seen \in Seen /\ rec.ns \in NsUid \cup {None}
           /\ kind # "Namespace" => rec.ns \in NsUid
           /\ kind = "Namespace" => rec.plan[1] = GetNs \/ rec.plan[1] = PutNs
           /\ rec.plan[1][1] = "put" => rec.seen \in Object[kind]
  <1>1. rec \in Record /\ rec.inst \in ProjectObject /\ rec.root \in Org
    BY DEF Typed, WorkerTyped
  <1>2. rec.seen \in Seen /\ rec.ns \in NsUid \cup {None}
    BY <1>1 DEF Record
  <1>3. kind = rec.plan[1][2] /\ Runnable(rec.plan, rec.seen, rec.ns)
    BY HeadFacts DEF kind, Typed, WorkerTyped
  <1>4. kind = "Namespace" => rec.plan[1] = GetNs \/ rec.plan[1] = PutNs
    <2>1. 1 \in 1..Len(rec.plan)
      BY HeadFacts
    <2> QED
      BY <1>3, <2>1, Zenon DEF Runnable, NamespaceFirst
  <1> QED
    BY <1>1, <1>2, <1>3, <1>4 DEF Runnable

\* What a put writes is well-formed.
LEMMA MutatedTypes ==
    ASSUME Typed, At("put")
    PROVE  /\ Mutated \in Object[kind]
           /\ kind = "Namespace" => Mutated \in NamespaceObject /\ Mutated.uid \in NsUid
  <1>1. rec.pc = "run" /\ rec.plan[1][1] = "put" /\ nsUids \in Nat
    BY HeadFacts DEF At, Typed, EnvTypes
  <1>2. /\ rec.inst.uid \in Controller /\ rec.inst.org \in Org
        /\ rec.inst.spec \in ProjectSpec
    BY <1>1, RunFacts, ProjectAssumption DEF ProjectObject, Controller, Uid
  <1>3. CASE kind = "Namespace"
    <2>1. rec.seen = None \/ rec.seen \in NamespaceObject
      BY <1>1, <1>3, RunFacts, ObjectFacts
    <2> DEFINE u == IF rec.seen = None THEN nsUids + 1 ELSE rec.seen.uid
               d == rec.seen # None /\ rec.seen.deleting
    <2>2. u \in NsUid
      BY <1>1, <2>1 DEF NamespaceObject, NsUid
    <2>3. d \in BOOLEAN
      OBVIOUS
    <2>4. Mutated = [uid |-> u, controller |-> rec.inst.uid, org |-> rec.inst.org,
                     root |-> rec.root, deleting |-> d]
      BY <1>3 DEF Mutated
    <2> HIDE DEF u, d
    <2>5. Mutated \in NamespaceObject /\ Mutated.uid \in NsUid
      BY <1>1, <1>2, <2>2, <2>3, <2>4, RunFacts DEF NamespaceObject
    <2> QED
      BY <1>3, <2>5, ObjectFacts
  <1>4. CASE kind = "RoleBinding"
    <2>1. name \in Role /\ rec.ns \in NsUid
      BY <1>1, <1>4, HeadFacts, RunFacts
    <2>2. subjectsForRole(rec.inst.spec.users, name) \subseteq STRING
      BY <1>2, SpecFacts DEF subjectsForRole
    <2>3. Mutated = [controller |-> rec.ns, roleRef |-> name,
                     subjects |-> subjectsForRole(rec.inst.spec.users, name)]
      BY <1>4 DEF Mutated
    <2>4. Mutated \in BindingObject
      BY <2>1, <2>2, <2>3 DEF BindingObject, Controller, NsUid
    <2> QED
      BY <1>4, <2>4, ObjectFacts
  <1>5. CASE kind = "NetworkPolicy"
    <2>1. name \in managedNetworkPolicies /\ rec.ns \in NsUid
      BY <1>1, <1>5, HeadFacts, RunFacts
    <2>2. policySpec(name) \in Org \cup managedNetworkPolicies
      BY <1>2, <2>1 DEF policySpec
    <2>3. Mutated = [controller |-> rec.ns, spec |-> policySpec(name)]
      BY <1>5 DEF Mutated
    <2>4. Mutated \in PolicyObject
      BY <2>1, <2>2, <2>3 DEF PolicyObject, Controller, NsUid
    <2> QED
      BY <1>5, <2>4, ObjectFacts
  <1> QED
    BY <1>1, <1>3, <1>4, <1>5, HeadFacts

\* The worker's steps keep the types.
LEMMA WorkerTypes ==
    ASSUME Typed, fresh' \in BOOLEAN,
           \/ Dequeue \/ Calls
           \/ ComputeEffectiveIsolation(FALSE) \/ Put(FALSE) \/ Delete(FALSE) \/ ActionError
           \/ StatusError
    PROVE  Typed'
  \* A failed action leaves a well-formed worker.
  <1>FailTypes. ASSUME WorkerTyped(rec), rec.pc # "idle", Fail
                PROVE  WorkerTyped(rec')
    <2> USE <1>FailTypes
    <2>1. rec' \in Record /\ rec'.pc = "status" /\ rec'.inst = rec.inst
      BY Zenon DEF WorkerTyped, Record, Pc, Fail
    <2> QED
      BY <2>1 DEF WorkerTyped
  \* It is well-formed.
  <1>AdvancedTypes. ASSUME Typed, rec.pc = "run",
                           NEW seen, NEW ns, NEW inst \in ProjectObject,
                           rec.plan[1][1] = "get" => seen \in Object[kind],
                           rec.plan[1] # GetNs => ns \in NsUid,
                           NEW r \in Record, Advanced(r, seen, ns, inst)
                    PROVE  WorkerTyped(r)
    <2> USE <1>AdvancedTypes
    <2>1. /\ rec.root \in Org /\ rec.isolation \in Isolation
          /\ Runnable(rec.plan, rec.seen, rec.ns)
      BY DEF Typed, WorkerTyped
    <2>2. kind = rec.plan[1][2]
      BY HeadFacts DEF kind
    <2>3. Len(rec.plan) # 1 => Runnable(Tail(rec.plan), seen, ns)
      BY <2>1, <2>2, RestOfPlan, Zenon
    <2> QED
      BY <2>1, <2>3, Zenon DEF WorkerTyped, Advanced
  \* Unless it concerns the namespace, a call leaves a well-formed worker.
  <1>DoneTypes. ASSUME Typed, rec.pc = "run", rec.plan[1][1] # "get", kind # "Namespace", rec' = Done
                PROVE  WorkerTyped(rec')
    <2> USE <1>DoneTypes
    <2>1. rec' \in Record /\ Advanced(rec', rec.seen, rec.ns, rec.inst)
      BY HeadFacts, RunFacts, DoneForms, Zenon
    <2>2. rec.plan[1] # GetNs => rec.ns \in NsUid
      BY RunFacts
    <2> QED
      BY <2>1, <2>2, RunFacts, <1>AdvancedTypes, Zenon
  \* What the worker's steps that write nothing do to it.
  <1>ReadingWorker. ASSUME Typed,
                           \/ Dequeue \/ ValidateParentOrganization
                           \/ \E a \in BOOLEAN : ComputeEffectiveIsolation(a)
                           \/ Check \/ Get \/ PutRefused \/ Prune \/ ActionError
                    PROVE  WorkerTyped(rec')
    <2> USE <1>ReadingWorker
    <2>0. WorkerTyped(rec) /\ rec \in Record
      BY DEF Typed, WorkerTyped
    <2>1. CASE Dequeue
      <3> DEFINE inst == cache["OrganizationProject"][p]
      <3>1. CASE inst = None
        BY <2>0, <2>1, <3>1 DEF Dequeue
      <3>2. CASE inst # None
        <4>1. inst \in ProjectObject
          BY <3>2, Stored, ObjectFacts, KindFacts DEF Typed
        <4>2. rec' = [Idle EXCEPT !.pc = "organization", !.inst = inst]
          BY <2>1, <3>2 DEF Dequeue
        <4> HIDE DEF inst
        <4>3. /\ Idle \in Record /\ rec'.pc = "organization" /\ rec'.inst = inst
          BY <4>2, IdleTypes DEF Idle, WorkerTyped
        <4>4. rec' \in Record
          BY <4>1, <4>2, <4>3, ObjectFacts, Zenon DEF Record, Pc
        <4> QED
          BY <4>1, <4>3, <4>4, Zenon DEF WorkerTyped
      <3> QED
        BY <3>1, <3>2
    <2>2. CASE ValidateParentOrganization
      <3>1. CASE Fail
        BY <2>0, <2>2, <3>1, <1>FailTypes DEF ValidateParentOrganization
      <3>2. CASE /\ root[rec.inst.org] # None
                 /\ rec' = [rec EXCEPT !.pc = "isolation", !.root = root[rec.inst.org]]
        <4>1. rec.inst \in ProjectObject /\ rec.inst.org \in Org
          BY <2>0, <2>2 DEF ValidateParentOrganization, WorkerTyped, ProjectObject
        <4>2. root[rec.inst.org] \in Org
          BY <3>2, <4>1 DEF Typed, ViewTypes
        <4>3. /\ rec' \in Record /\ rec'.pc = "isolation" /\ rec'.inst = rec.inst
              /\ rec'.root \in Org
          BY <2>0, <3>2, <4>2, Zenon DEF Record, Pc
        <4> QED
          BY <4>1, <4>3 DEF WorkerTyped
      <3> QED
        BY <2>2, <3>1, <3>2 DEF ValidateParentOrganization
    <2>3. ASSUME NEW a \in BOOLEAN, ComputeEffectiveIsolation(a) PROVE WorkerTyped(rec')
      <3> DEFINE default == IF a THEN defaults[rec.inst.org] ELSE None
                 isolation == effectiveIsolation(rec.inst, default)
                 rest == ensureRBAC(rec.inst.spec.users) \o ensureNetworkPolicies(isolation)
                 plan == ensureNamespace \o rest
      <3>1. rec.inst \in ProjectObject /\ rec.root \in Org
        BY <2>0, <2>3, Zenon DEF ComputeEffectiveIsolation, WorkerTyped
      <3>2. rec.inst.org \in Org /\ rec.inst.spec \in ProjectSpec
        BY <3>1 DEF ProjectObject
      <3>3. isolation \in Isolation
        <4>1. default \in Isolation \cup {None}
          BY <3>2 DEF Typed, ViewTypes
        <4> HIDE DEF default
        <4> QED
          BY <3>2, <4>1, SpecFacts DEF effectiveIsolation, Isolation
      <3>4. /\ Part(ensureRBAC(rec.inst.spec.users)) /\ Part(ensureNetworkPolicies(isolation))
        BY PlanPart
      <3>5. Part(rest)
        BY PlanPart, Zenon
      <3>6. rec' = [rec EXCEPT !.pc = "run", !.isolation = isolation, !.plan = plan]
        <4>1. rec' = [rec EXCEPT !.pc = "run", !.isolation = isolation,
                        !.plan = ensureNamespace \o ensureRBAC(rec.inst.spec.users)
                                   \o ensureNetworkPolicies(isolation)]
          BY <2>3, Zenon DEF ComputeEffectiveIsolation
        <4>2. /\ ensureNamespace \in Seq(Op) /\ ensureRBAC(rec.inst.spec.users) \in Seq(Op)
              /\ ensureNetworkPolicies(isolation) \in Seq(Op)
          <5>1. GetNs \in Op /\ PutNs \in Op
            BY KindFacts DEF Op, GetNs, PutNs, Provisioned
          <5>2. ensureNamespace = <<GetNs, PutNs>>
            BY Zenon DEF ensureNamespace, CreateOrUpdate, GetNs, PutNs
          <5> QED
            BY <3>4, <5>1, <5>2 DEF Part
        <4> HIDE DEF isolation
        <4>3. (ensureNamespace \o ensureRBAC(rec.inst.spec.users)) \o ensureNetworkPolicies(isolation)
                = plan
          BY <4>2
        <4> QED
          BY <4>1, <4>3
      <3> HIDE DEF rest, isolation
      <3>7. Runnable(plan, rec.seen, rec.ns)
        BY <3>5, FirstPlan
      <3> HIDE DEF plan
      <3>8. plan \in Seq(Op)
        BY <3>7 DEF Runnable
      <3>9. /\ rec' \in Record /\ rec'.pc = "run" /\ rec'.plan = plan
            /\ rec'.isolation = isolation /\ rec'.seen = rec.seen /\ rec'.ns = rec.ns
            /\ rec'.root = rec.root /\ rec'.inst = rec.inst
        BY <2>0, <3>3, <3>6, <3>8, Zenon DEF Record, Pc
      <3> QED
        BY <3>1, <3>3, <3>7, <3>9 DEF WorkerTyped
    <2>4. CASE Check
      <3>1. rec.pc = "run" /\ rec.plan[1][1] = "check"
        BY <2>4, HeadFacts DEF Check, At
      <3>2. kind # "Namespace"
        BY <3>1, RunFacts DEF GetNs, PutNs
      <3> QED
        BY <2>0, <2>4, <3>1, <3>2, <1>FailTypes, <1>DoneTypes, Zenon DEF Check
    <2>5. CASE Get
      <3>1. rec.pc = "run" /\ rec' = [Done EXCEPT !.seen = cached]
        BY <2>5 DEF Get, At
      <3>2. rec.plan[1][1] = "get" /\ PutNs[1] = "put"
        BY <2>5, <3>1, HeadFacts DEF Get, At, PutNs
      <3>3. cached \in Object[kind] /\ cached \in Seen
        BY <3>1, HeadFacts, ObjectFacts
      <3>4. rec' \in Record /\ Advanced(rec', cached, rec.ns, rec.inst)
        BY <2>0, <3>1, <3>3, HeadFacts, DoneForms, Zenon
      <3>5. rec.plan[1] # GetNs => rec.ns \in NsUid
        BY <3>1, <3>2, RunFacts
      <3> QED
        BY <3>1, <3>3, <3>4, <3>5, RunFacts, <1>AdvancedTypes, Zenon
    <2>6. CASE PutRefused
      BY <2>0, <2>6, <1>FailTypes DEF PutRefused, At
    <2>7. CASE Prune
      <3>1. rec.pc = "run" /\ rec.plan[1][1] = "prune"
        BY <2>7, HeadFacts DEF Prune, At
      <3>2. kind # "Namespace"
        BY <3>1, RunFacts DEF GetNs, PutNs
      <3>3. CASE rec' = Done
        BY <3>1, <3>2, <3>3, <1>DoneTypes, Zenon
      <3>4. CASE rec' = [rec EXCEPT !.plan[1] = <<"delete", kind, name>>]
        <4> DEFINE d == <<"delete", kind, name>>
                   s == rec.plan
                   t == [s EXCEPT ![1] = d]
        <4>1. d \in Op /\ d[1] = "delete" /\ d[2] = kind
          BY <3>1, HeadFacts, Zenon DEF Op
        <4>2. Runnable(s, rec.seen, rec.ns) /\ s \in Seq(Op) /\ Len(s) \in Nat /\ Len(s) > 0
          BY <3>1, HeadFacts DEF Typed, WorkerTyped
        <4> HIDE DEF d, s
        <4>3. t \in Seq(Op) /\ Len(t) = Len(s) /\ t # <<>>
          BY <4>1, <4>2
        <4>4. t[1] = d /\ \A i \in 2..Len(s) : t[i] = s[i]
          BY <4>2
        <4> HIDE DEF t
        <4>5. Paired(t)
          <5> SUFFICES ASSUME NEW i \in 2..Len(t), t[i][1] = "put"
                       PROVE  t[i - 1] = <<"get", t[i][2], t[i][3]>>
            BY Zenon DEF Paired
          <5>1. t[i] = s[i] /\ s[i - 1] = <<"get", s[i][2], s[i][3]>>
            BY <4>2, <4>3, <4>4 DEF Runnable, Paired
          <5>2. CASE i = 2
            <6>1. s[1][1] = "get"
              BY <5>1, <5>2
            <6> QED
              BY <3>1, <6>1 DEF s
          <5>3. CASE i # 2
            <6>1. i - 1 \in 2..Len(s)
              BY <4>2, <4>3, <5>3
            <6>2. t[i - 1] = s[i - 1]
              BY <4>4, <6>1
            <6> QED
              BY <5>1, <6>2, Zenon
          <5> QED
            BY <5>2, <5>3
        <4>6. NamespaceFirst(t)
          <5> SUFFICES ASSUME NEW i \in 1..Len(t), t[i][2] = "Namespace" PROVE FALSE
            BY Zenon DEF NamespaceFirst
          <5>1. i # 1
            BY <3>2, <4>1, <4>4
          <5>2. i \in 2..Len(s) /\ i \in 1..Len(s)
            BY <4>2, <4>3, <5>1
          <5>3. s[i][2] = "Namespace"
            BY <4>4, <5>2, Zenon
          <5>4. s[1] = GetNs
            BY <4>2, <5>1, <5>2, <5>3 DEF Runnable, NamespaceFirst
          <5> QED
            BY <3>1, <5>4 DEF s, GetNs
        <4>7. t[1][1] # "put" /\ t[1] # GetNs
          BY <4>1, <4>4 DEF GetNs
        <4>8. rec.ns \in NsUid
          BY <3>1, <3>2, RunFacts, Zenon
        <4>9. Runnable(t, rec.seen, rec.ns)
          BY <4>3, <4>5, <4>6, <4>7, <4>8 DEF Runnable
        <4>10. rec' = [rec EXCEPT !.plan = t]
          BY <3>4 DEF t, s, d
        <4>11. /\ rec' \in Record /\ rec'.plan = t /\ rec'.pc = "run" /\ rec'.inst = rec.inst
               /\ rec'.root = rec.root /\ rec'.isolation = rec.isolation
               /\ rec'.seen = rec.seen /\ rec'.ns = rec.ns
          BY <2>0, <3>1, <4>3, <4>10 DEF Record
        <4> QED
          BY <2>0, <3>1, <4>9, <4>11, Zenon DEF WorkerTyped
      <3> QED
        BY <2>7, <3>3, <3>4 DEF Prune
    <2>8. CASE ActionError
      BY <2>0, <2>8, <1>FailTypes DEF ActionError
    <2> QED
      BY <2>1, <2>2, <2>3, <2>4, <2>5, <2>6, <2>7, <2>8
  \* What the worker's writes do to the types.
  <1>WritingTypes. ASSUME Typed,
                          \/ \E a \in BOOLEAN : Put(a) \/ Delete(a)
                          \/ UpdateStatus \/ StatusError
                   PROVE  ApiTypes' /\ WorkerTyped(rec')
    <2> USE <1>WritingTypes
    <2>0. WorkerTyped(rec) /\ rec \in Record /\ ApiTypes
      BY DEF Typed, WorkerTyped
    <2>1. ASSUME NEW a \in BOOLEAN, Put(a) PROVE ApiTypes' /\ WorkerTyped(rec')
      <3>1. rec.pc = "run" /\ At("put") /\ rec.plan[1][1] = "put"
        BY <2>1, HeadFacts, Zenon DEF Put, At
      <3>2. ApiTypes'
        <4>1. CASE UNCHANGED apiVars
          BY <2>0, <4>1, ApiUnchanged, Zenon
        <4>2. CASE Write(kind, name, Mutated)
          BY <2>0, <3>1, <4>2, HeadFacts, MutatedTypes, Written, Zenon
        <4> QED
          BY <2>1, <4>1, <4>2 DEF Put
      <3>3. WorkerTyped(rec')
        <4>1. CASE Fail
          BY <2>0, <3>1, <4>1, <1>FailTypes
        <4>2. CASE rec' = Ensured /\ kind # "Namespace"
          BY <3>1, <4>2, <1>DoneTypes DEF Ensured
        <4>3. CASE rec' = Ensured /\ kind = "Namespace"
          <5> DEFINE inst == [rec.inst EXCEPT !.namespace = p]
          <5>1. inst \in ProjectObject
            BY <3>1, RunFacts DEF ProjectObject
          <5>2. rec' = [Done EXCEPT !.ns = Mutated.uid, !.inst.namespace = p]
            BY <4>3 DEF Ensured
          <5>3. Mutated.uid \in NsUid
            BY <3>1, <4>3, MutatedTypes
          <5>4. rec' \in Record /\ Advanced(rec', rec.seen, Mutated.uid, inst)
            BY <2>0, <3>1, <5>1, <5>2, <5>3, HeadFacts, DoneForms, Zenon
          <5> QED
            BY <3>1, <5>1, <5>3, <5>4, <1>AdvancedTypes
        <4> QED
          BY <2>1, <4>1, <4>2, <4>3 DEF Put, Answer
      <3> QED
        BY <3>2, <3>3
    <2>2. ASSUME NEW a \in BOOLEAN, Delete(a) PROVE ApiTypes' /\ WorkerTyped(rec')
      <3>1. rec.pc = "run" /\ rec.plan[1][1] = "delete"
        BY <2>2, HeadFacts, Zenon DEF Delete, At
      <3>2. kind # "Namespace"
        BY <3>1, RunFacts DEF GetNs, PutNs
      <3>3. ApiTypes'
        BY <2>0, <2>2, <3>1, HeadFacts, ObjectFacts, Written, Zenon DEF Delete
      <3>4. WorkerTyped(rec')
        BY <2>0, <2>2, <3>1, <3>2, <1>FailTypes, <1>DoneTypes DEF Delete, Answer
      <3> QED
        BY <3>3, <3>4
    <2>3. CASE UpdateStatus
      <3> DEFINE obj == [Project EXCEPT !.namespace = rec.inst.namespace, !.ready = rec.ok]
      <3>1. CASE Project # None /\ Write("OrganizationProject", p, obj)
        <4>1. Project \in ProjectObject
          BY <2>0, <3>1, Stored, ObjectFacts, KindFacts DEF Project
        <4>2. rec.inst.namespace \in {p, None} /\ rec.ok \in BOOLEAN
          BY <2>0, <2>3 DEF UpdateStatus, WorkerTyped, ProjectObject, Record
        <4>3. obj \in ProjectObject
          BY <4>1, <4>2, Zenon DEF ProjectObject
        <4> HIDE DEF obj
        <4> QED
          BY <2>0, <2>3, <3>1, <4>3, Written, ObjectFacts, KindFacts, IdleTypes DEF UpdateStatus
      <3>2. CASE UNCHANGED apiVars
        BY <2>0, <2>3, <3>2, ApiUnchanged, IdleTypes DEF UpdateStatus
      <3> QED
        BY <2>3, <3>1, <3>2 DEF UpdateStatus
    <2>4. CASE StatusError
      BY <2>0, <2>4, ApiUnchanged, IdleTypes, Zenon DEF StatusError
    <2> QED
      BY <2>1, <2>2, <2>3, <2>4
  <1>1. ASSUME \/ Dequeue \/ ValidateParentOrganization
               \/ \E a \in BOOLEAN : ComputeEffectiveIsolation(a)
               \/ Check \/ Get \/ PutRefused \/ Prune \/ ActionError
        PROVE  Typed'
    <2>1. UNCHANGED apiVars /\ UNCHANGED view /\ UNCHANGED <<uids, nsUids>>
      BY <1>1, Zenon DEF Dequeue, ValidateParentOrganization, ComputeEffectiveIsolation, Check, Get,
                  PutRefused, Prune, ActionError, internal, apiVars, view
    <2>2. queue' \in BOOLEAN
      BY <1>1, Zenon DEF Dequeue, ValidateParentOrganization, ComputeEffectiveIsolation, Check, Get,
                  PutRefused, Prune, ActionError, internal, Typed, EnvTypes
    <2>3. UNCHANGED env \/ Fault
      BY <1>1, Zenon DEF Dequeue, ValidateParentOrganization, ComputeEffectiveIsolation, Check, Get,
                  PutRefused, Prune, ActionError
    <2>4. WorkerTyped(rec')
      BY <1>1, <1>ReadingWorker, Zenon
    <2>5. EnvTypes'
      BY <2>1, <2>2, <2>3, CountTypes, Zenon DEF Typed, EnvTypes
    <2> QED
      BY <2>1, <2>4, <2>5, ApiUnchanged, TypedNext DEF Typed, ViewTypes, view
  <1>2. ASSUME (\E a \in BOOLEAN : Put(a) \/ Delete(a)) \/ UpdateStatus \/ StatusError
        PROVE  Typed'
    <2>1. UNCHANGED view /\ UNCHANGED uids /\ (nsUids' = nsUids \/ nsUids' = nsUids + 1)
      BY <1>2 DEF Put, Delete, UpdateStatus, StatusError, view
    <2>2. queue' \in BOOLEAN
      BY <1>2, Zenon DEF Put, Delete, UpdateStatus, StatusError, Typed, EnvTypes
    <2>3. UNCHANGED env \/ Fault
      BY <1>2 DEF Put, Delete, UpdateStatus, StatusError, Answer
    <2>4. EnvTypes'
      BY <2>1, <2>2, <2>3, CountTypes DEF Typed, EnvTypes
    <2> QED
      BY <1>2, <2>1, <2>4, <1>WritingTypes, TypedNext DEF Typed, ViewTypes, view
  <1> QED
    BY <1>1, <1>2, Zenon DEF Calls

\* The steps that leave organizations and profiles alone keep the types.
LEMMA LocalTypes == ASSUME Typed, Local PROVE Typed'
  \* What clients do to the project keeps the types.
  <1>ClientTypes. ASSUME Typed, fresh' \in BOOLEAN,
                         \/ \E o \in Org, s \in env.specs : CreateProject(o, s)
                         \/ \E s \in env.specs : UpdateProject(s)
                         \/ DeleteProject
                  PROVE  Typed'
    <2> USE <1>ClientTypes
    <2> USE DEF Typed
    <2>1. ASSUME NEW o \in Org, NEW s \in env.specs, CreateProject(o, s) PROVE Typed'
      <3>1. uids' = uids + 1 /\ uids' \in Uid
        BY <2>1, ProjectAssumption DEF CreateProject, EnvTypes, Surrounding, Uid
      <3>2. [uid |-> uids', org |-> o, spec |-> s, namespace |-> None, ready |-> FALSE]
               \in ProjectObject
        BY <2>1, <3>1, Zenon DEF ProjectObject, EnvTypes
      <3>3. ApiTypes'
        BY <2>1, <3>2, Written, ObjectFacts, KindFacts, Zenon DEF CreateProject
      <3>4. EnvTypes'
        BY <2>1, <3>1 DEF CreateProject, operator, EnvTypes, Uid
      <3> QED
        BY <2>1, <3>3, <3>4, TypedNext, Zenon DEF CreateProject, operator, view, ViewTypes
    <2>2. ASSUME NEW s \in env.specs, UpdateProject(s) PROVE Typed'
      <3>1. Project \in ProjectObject
        BY <2>2, Stored, ObjectFacts, KindFacts DEF UpdateProject, Project
      <3>2. [Project EXCEPT !.spec = s] \in ProjectObject
        BY <2>2, <3>1 DEF ProjectObject, EnvTypes
      <3>3. ApiTypes'
        BY <2>2, <3>2, Written, ObjectFacts, KindFacts DEF UpdateProject
      <3>4. EnvTypes'
        BY <2>2, CountTypes, Zenon DEF UpdateProject, operator, EnvTypes
      <3> QED
        BY <2>2, <3>3, <3>4, TypedNext DEF UpdateProject, operator, view, ViewTypes
    <2>3. CASE DeleteProject
      <3>1. ApiTypes'
        BY <2>3, Written, ObjectFacts, KindFacts DEF DeleteProject
      <3> QED
        BY <2>3, <3>1, TypedNext, Zenon DEF DeleteProject, operator, view, ViewTypes, EnvTypes
    <2> QED
      BY <2>1, <2>2, <2>3, Zenon
  \* An event, a resync or a restart keeps the types.
  <1>EventTypes. ASSUME Typed, fresh' \in BOOLEAN,
                        \/ \E k \in Kind : Informer(k)
                        \/ Resync
                 PROVE  Typed'
    <2> USE <1>EventTypes
    <2> USE DEF Typed
    <2>1. ASSUME NEW k \in Kind, Informer(k) PROVE Typed'
      <3>1. ApiTypes'
        BY <2>1, Delivered, Zenon DEF Informer
      <3>2. queue' \in BOOLEAN
        BY <2>1, Zenon DEF Informer, EnvTypes
      <3> QED
        BY <2>1, <3>1, <3>2, TypedNext, Zenon DEF Informer, view, ViewTypes, EnvTypes
    <2>2. CASE Resync
      <3>1. EnvTypes'
        BY <2>2, CountTypes DEF Resync, EnvTypes
      <3> QED
        BY <2>2, <3>1, ApiUnchanged, TypedNext, Zenon DEF Resync, view, ViewTypes
    <2> QED
      BY <2>1, <2>2
  <1>1. fresh' \in BOOLEAN
    <2>1. CaughtUp \in BOOLEAN
      BY Zenon DEF CaughtUp
    <2> QED
      BY <2>1, Zenon DEF Local, Work, Deliveries, Typed, EnvTypes
  <1>2. CASE Environment
    BY <1>1, <1>2, <1>ClientTypes, ClusterTypes DEF Environment
  <1>3. CASE Failures
    BY <1>1, <1>3, <1>EventTypes, WorkerTypes, Zenon DEF Failures
  <1>4. CASE \E k \in Kind : Deliveries(k)
    BY <1>1, <1>4, <1>EventTypes DEF Deliveries
  <1>5. CASE Work
    BY <1>1, <1>5, WorkerTypes, Zenon DEF Work
  <1> QED
    BY <1>2, <1>3, <1>4, <1>5, Zenon DEF Local

\* Every step, a stuttering one included, keeps the types.
LEMMA TypesKept == Typed /\ [Next]_vars => Typed'
  \* So do the others.
  <1>OrganizationTypes. ASSUME Typed, Organizations, fresh' = FALSE PROVE Typed'
    <2> USE <1>OrganizationTypes
    <2>1. ASSUME NEW o \in Org, NEW r \in Org \cup {None}, OrganizationReconciled(o, r)
          PROVE  Typed'
      <3>1. ViewTypes'
        BY <2>1, Zenon DEF OrganizationReconciled, Typed, ViewTypes
      <3>2. EnvTypes'
        BY <2>1, CountTypes, Zenon DEF OrganizationReconciled, operator, Typed, EnvTypes
      <3> QED
        BY <2>1, <3>1, <3>2, ApiUnchanged, TypedNext, Zenon
           DEF OrganizationReconciled, operator, Typed
    <2>2. ASSUME NEW o \in Org, NEW d \in Isolation, SetDefault(o, d) PROVE Typed'
      <3>1. ViewTypes'
        BY <2>2 DEF SetDefault, Typed, ViewTypes
      <3>2. EnvTypes'
        BY <2>2, CountTypes, Zenon DEF SetDefault, operator, Typed, EnvTypes
      <3> QED
        BY <2>2, <3>1, <3>2, ApiUnchanged, TypedNext, Zenon DEF SetDefault, operator, Typed
    <2> QED
      BY <2>1, <2>2 DEF Organizations
  <1> SUFFICES ASSUME Typed, [Next]_vars PROVE Typed'
    BY Zenon
  <1>1. CASE UNCHANGED vars
    BY <1>1, ApiUnchanged, TypedNext, Zenon DEF vars, apiVars, Typed, ViewTypes, EnvTypes
  <1>2. CASE Restart /\ Fault /\ UNCHANGED view
    <2>1. ApiTypes' /\ WorkerTyped(rec') /\ fresh' \in BOOLEAN /\ queue' \in BOOLEAN
      BY <1>2, RestartTypes, Zenon DEF Typed
    <2>2. EnvTypes'
      BY <1>2, <2>1, CountTypes DEF Restart, Typed, EnvTypes
    <2> QED
      BY <1>2, <2>1, <2>2, TypedNext DEF Typed, ViewTypes, view
  <1> QED
    BY <1>1, <1>2, LocalTypes, <1>OrganizationTypes, Zenon DEF Next

\* The initial state is well-formed.
LEMMA InitTypes == Init => Typed
  <1> SUFFICES ASSUME Init PROVE Typed
    BY Zenon
  <1>1. ApiTypes
    BY ObjectFacts DEF Init, ApiTypes, ApiTyped
  <1>2. WorkerTyped(rec)
    BY IdleTypes, Zenon DEF Init
  <1>3. env \in Surrounding /\ env.specs \subseteq ProjectSpec
    BY ProjectAssumption DEF Init, ProjectSpec
  <1>4. queue \in BOOLEAN /\ fresh \in BOOLEAN
    BY Zenon DEF Init
  <1>5. uids \in 0..MaxUid /\ nsUids \in Nat
    BY ProjectAssumption DEF Init
  <1>6. ViewTypes
    BY DEF Init, ViewTypes
  <1> QED
    BY <1>1, <1>2, <1>3, <1>4, <1>5, <1>6 DEF Typed, EnvTypes

\* Every reachable state is well-formed: in particular ensureRBAC and
\* ensureNetworkPolicies never run without the namespace that ensureNamespace left.
THEOREM TypeCorrect == Spec => []TypeOK
  \* TypeOK follows from the parts.
  <1>TypeParts. Typed => TypeOK
    <2> SUFFICES ASSUME Typed PROVE TypeOK
      OBVIOUS
    <2>1. rec.pc # "idle" => rec.inst \in ProjectObject
      BY Zenon DEF Typed, WorkerTyped
    <2>2. ASSUME rec.pc = "run"
          PROVE  /\ rec.plan \in Seq(Op) \ {<<>>} /\ rec.isolation \in Isolation
                 /\ At("put") => rec.seen \in Object[kind]
                 /\ kind # "Namespace" => rec.ns \in NsUid
      <3>1. Runnable(rec.plan, rec.seen, rec.ns) /\ rec.isolation \in Isolation
        BY <2>2, Zenon DEF Typed, WorkerTyped
      <3>2. Head(rec.plan) = rec.plan[1]
        BY <3>1 DEF Runnable
      <3> QED
        BY <3>1, <3>2 DEF Runnable, At, kind
    <2>3. /\ DOMAIN store = Kind /\ DOMAIN cache = Kind /\ DOMAIN watch = Kind
          /\ \A k \in Kind : /\ store[k] \in [Name -> Object[k]] /\ cache[k] \in [Name -> Object[k]]
                             /\ watch[k] \in Seq([name : Name, obj : Object[k]])
      BY Zenon DEF Typed, ApiTypes, ApiTyped
    <2>4. /\ rec.pc \in Pc /\ rec.ok \in BOOLEAN
          /\ rec.pc \in {"isolation", "run"} => rec.root \in Org
      BY DEF Typed, WorkerTyped, Record
    <2>5. ViewTypes /\ EnvTypes
      BY DEF Typed
    <2> QED
      BY <2>1, <2>2, <2>3, <2>4, <2>5, Zenon DEF TypeOK, ViewTypes, EnvTypes, Pc
  <1>1. Spec => []Typed
    BY InitTypes, TypesKept, PTL DEF Spec
  <1> QED
    BY <1>1, <1>TypeParts, PTL

-----------------------------------------------------------------------------
(* ControlledNotOverwritten. *)

\* A write changes one object.
LEMMA StoreAfter ==
    ASSUME ApiTypes, NEW k \in Kind, NEW n \in Name, NEW obj \in Object[k], Write(k, n, obj),
           NEW j \in Kind, NEW m \in Name
    PROVE  store'[j][m] = IF j = k /\ m = n THEN obj ELSE store[j][m]
  <1>1. Wrote(Kind, k, n, obj) /\ store[k] \in [Name -> Object[k]]
    BY Written, Zenon DEF ApiTypes, ApiTyped
  <1> QED
    BY <1>1 DEF Wrote

\* Whatever the caches say, what the controller read and when: namespaces, role
\* bindings and policies of another controller are not overwritten.
THEOREM NeverOverwritten == Spec => ControlledNotOverwritten
  \* A step of the worker: what it can do to an object in the store.
  <1>WorkerWrites. ASSUME Typed, Next, rec' # rec, NEW x \in Provisioned,
                          store[x[1]][x[2]] # None, store[x[1]][x[2]].controller = otherController
                   PROVE  store'[x[1]][x[2]] \in {store[x[1]][x[2]], None}
    <2> USE <1>WorkerWrites
    <2>0. x[1] \in Kind /\ x[2] \in Name /\ x[1] # "OrganizationProject" /\ ApiTypes
      BY KindFacts, Zenon DEF Typed
    <2>1. CASE \E a \in BOOLEAN : Put(a)
      <3>1. PICK a \in BOOLEAN : Put(a)
        BY <2>1, Zenon
      <3>2. rec.pc = "run" /\ At("put") /\ kind \in Kind /\ name \in Name
        BY <3>1, HeadFacts, Zenon DEF Put, At
      <3>3. CASE UNCHANGED apiVars
        BY <3>3, Zenon DEF apiVars
      <3>4. CASE rec.seen # Mutated /\ Write(kind, name, Mutated)
        <4>1. store'[x[1]][x[2]] = IF x[1] = kind /\ x[2] = name THEN Mutated
                                  ELSE store[x[1]][x[2]]
          BY <2>0, <3>2, <3>4, MutatedTypes, StoreAfter
        <4>2. /\ store[kind][name] = rec.seen
              /\ rec.seen # None => rec.seen.controller # otherController
          BY <3>1, <3>4, Zenon DEF Put, PutSucceeds, Accepted, SetControllerReference, stored
        <4>3. ~(x[1] = kind /\ x[2] = name)
          BY <4>2, Zenon
        <4> QED
          BY <4>1, <4>3, Zenon
      <3> QED
        BY <3>1, <3>3, <3>4 DEF Put
    <2>2. CASE \E a \in BOOLEAN : Delete(a)
      <3>1. rec.pc = "run" /\ Write(kind, name, None)
        BY <2>2, Zenon DEF Delete, At
      <3>2. kind \in Kind /\ name \in Name /\ None \in Object[kind]
        BY <3>1, HeadFacts, ObjectFacts, Zenon
      <3> QED
        BY <2>0, <3>1, <3>2, StoreAfter
    <2>3. CASE UpdateStatus
      <3> DEFINE obj == [Project EXCEPT !.namespace = rec.inst.namespace, !.ready = rec.ok]
      <3>1. CASE Write("OrganizationProject", p, obj)
        BY <2>0, <3>1, Zenon DEF Write, ApiTypes, ApiTyped
      <3>2. CASE UNCHANGED apiVars
        BY <3>2 DEF apiVars
      <3> QED
        BY <2>3, <3>1, <3>2 DEF UpdateStatus
    <2>4. CASE \/ Dequeue \/ ValidateParentOrganization
               \/ \E a \in BOOLEAN : ComputeEffectiveIsolation(a)
               \/ Check \/ Get \/ PutRefused \/ Prune \/ ActionError \/ StatusError \/ Restart
      BY <2>4, Zenon DEF Dequeue, ValidateParentOrganization, ComputeEffectiveIsolation, Check, Get,
                  PutRefused, Prune, ActionError, StatusError, Restart, internal, apiVars
    <2>5. \/ \E a \in BOOLEAN : Put(a)
          \/ \E a \in BOOLEAN : Delete(a)
          \/ UpdateStatus
          \/ Dequeue \/ ValidateParentOrganization
          \/ \E a \in BOOLEAN : ComputeEffectiveIsolation(a)
          \/ Check \/ Get \/ PutRefused \/ Prune \/ ActionError \/ StatusError \/ Restart
      <3>1. ~Environment
        BY Zenon DEF Environment, CreateProject, UpdateProject, DeleteProject, CollectNamespace,
               CollectContents, Terminate, OtherCreates, OtherDeletes, operator
      <3>2. ~Organizations
        BY DEF Organizations, OrganizationReconciled, SetDefault, operator
      <3>3. ~Resync /\ \A k \in Kind : ~Deliveries(k)
        BY Zenon DEF Resync, Deliveries, Informer
      <3> QED
        BY <3>1, <3>2, <3>3, Zenon DEF Next, Local, Work, Calls, Failures
    <2> QED
      BY <2>1, <2>2, <2>3, <2>4, <2>5, Zenon
  <1>1. Spec => []Typed
    BY InitTypes, TypesKept, PTL DEF Spec
  <1>2. Typed /\ [Next]_vars =>
          [ByWorker => \A x \in Provisioned :
              LET object == store[x[1]][x[2]]
              IN  object # None /\ object.controller = otherController =>
                      store'[x[1]][x[2]] \in {object, None}]_vars
    BY <1>WorkerWrites DEF vars, ByWorker
  <1> QED
    BY <1>1, <1>2, PTL DEF Spec, ControlledNotOverwritten

-----------------------------------------------------------------------------
(* Where the root label of a namespace comes from, given a set R that holds  *)
(* the organizations, each with its root, that the operator has seen.        *)

LabelIn(R, ns) == ns # None /\ ns.root # None => <<ns.org, ns.root>> \in R
CarriedIn(R, r) == r.pc \in {"isolation", "run"} => <<r.inst.org, r.root>> \in R

\* The worker carries a root that it has seen.
LEMMA CarriedKept ==
    ASSUME Typed, Local \/ Restart, NEW R,
           \A o \in Org : root[o] # None => <<o, root[o]>> \in R, CarriedIn(R, rec)
    PROVE  CarriedIn(R, rec')
  <1>0. rec \in Record
    BY Zenon DEF Typed, WorkerTyped
  <1>1. CASE rec' = rec \/ rec'.pc \notin {"isolation", "run"}
    BY <1>1 DEF CarriedIn
  <1>2. CASE Fail
    <2>1. rec'.pc = "status"
      BY <1>0, <1>2, Zenon DEF Fail, Record
    <2> QED
      BY <1>1, <2>1
  <1>3. CASE /\ rec'.root = rec.root /\ rec'.inst.org = rec.inst.org
             /\ rec.pc \in {"isolation", "run"}
    BY <1>3 DEF CarriedIn
  <1>4. CASE Dequeue
    <2>1. rec' = rec \/ rec'.pc = "organization"
      BY <1>4 DEF Dequeue, Idle
    <2> QED
      BY <1>1, <2>1
  <1>5. CASE ValidateParentOrganization
    <2>1. CASE root[rec.inst.org] # None
      <3>1. rec.inst.org \in Org
        BY <1>5 DEF ValidateParentOrganization, Typed, WorkerTyped, ProjectObject
      <3>2. rec'.inst = rec.inst /\ rec'.root = root[rec.inst.org]
        BY <1>0, <1>5, <2>1, Zenon DEF ValidateParentOrganization, Record
      <3> QED
        BY <2>1, <3>1, <3>2 DEF CarriedIn
    <2> QED
      BY <1>2, <1>5, <2>1, Zenon DEF ValidateParentOrganization
  <1>6. CASE \E a \in BOOLEAN : ComputeEffectiveIsolation(a)
    <2>1. rec'.root = rec.root /\ rec'.inst = rec.inst /\ rec.pc = "isolation"
      BY <1>0, <1>6 DEF ComputeEffectiveIsolation, Record
    <2> QED
      BY <1>3, <2>1
  <1>7. CASE rec.pc = "run" /\ (rec' = Done \/ rec' = [Done EXCEPT !.seen = cached])
    <2>1. rec'.root = rec.root /\ rec'.inst = rec.inst
      BY <1>0, <1>7, Zenon DEF Done, Record
    <2> QED
      BY <1>3, <1>7, <2>1
  <1>8. CASE \E a \in BOOLEAN : Put(a)
    <2>1. CASE rec' = Ensured /\ kind = "Namespace"
      <3>1. rec' = [Done EXCEPT !.ns = Mutated.uid, !.inst.namespace = p]
        BY <2>1 DEF Ensured
      <3>2. rec'.root = rec.root /\ rec'.inst = [rec.inst EXCEPT !.namespace = p]
        BY <1>0, <3>1, Zenon DEF Done, Record
      <3>3. rec.pc = "run" /\ rec.inst \in ProjectObject
        BY <1>8 DEF Put, At, Typed, WorkerTyped
      <3>4. rec'.inst.org = rec.inst.org
        BY <3>2, <3>3 DEF ProjectObject
      <3> QED
        BY <1>3, <3>2, <3>3, <3>4
    <2> QED
      BY <1>2, <1>7, <1>8, <2>1 DEF Put, Answer, Ensured, At
  <1>9. CASE Prune
    <2>1. CASE rec' = [rec EXCEPT !.plan[1] = <<"delete", kind, name>>]
      <3>1. rec'.root = rec.root /\ rec'.inst = rec.inst /\ rec.pc = "run"
        BY <1>0, <1>9, <2>1 DEF Prune, At, Record
      <3> QED
        BY <1>3, <3>1
    <2> QED
      BY <1>7, <1>9, <2>1 DEF Prune, At
  <1>10. CASE Check \/ Get \/ PutRefused \/ (\E a \in BOOLEAN : Delete(a)) \/ ActionError
    BY <1>2, <1>7, <1>10 DEF Check, Get, PutRefused, Delete, ActionError, Answer, At
  <1>11. CASE UpdateStatus \/ StatusError \/ Restart
    <2>1. rec'.pc = "idle"
      BY <1>11 DEF UpdateStatus, StatusError, Restart, Idle
    <2> QED
      BY <1>1, <2>1
  <1>12. CASE Environment \/ Resync \/ \E k \in Kind : Deliveries(k)
    <2>1. rec' = rec
      BY <1>12, Zenon DEF Environment, CreateProject, UpdateProject, DeleteProject, CollectNamespace,
             CollectContents, Terminate, OtherCreates, OtherDeletes, operator, Resync,
             Deliveries, Informer
    <2> QED
      BY <1>1, <2>1
  <1> QED
    BY <1>4, <1>5, <1>6, <1>8, <1>9, <1>10, <1>11, <1>12, Zenon DEF Local, Work, Calls, Failures

\* The namespace carries a root that the worker carried.
LEMMA LabelKept ==
    ASSUME Typed, Local \/ Restart, NEW R, LabelIn(R, Namespace), CarriedIn(R, rec)
    PROVE  LabelIn(R, Namespace')
  \* A write to the namespace, or to something else.
  <1>NamespaceAfter. ASSUME ApiTypes, NEW k \in Kind, NEW n \in Name, NEW obj \in Object[k], Write(k, n, obj)
                     PROVE  \/ Namespace' = Namespace
                            \/ k = "Namespace" /\ Namespace' = obj
    <2>1. "Namespace" \in Kind /\ p \in Name
      BY KindFacts, Zenon
    <2>2. store'["Namespace"][p] = IF "Namespace" = k /\ p = n THEN obj ELSE store["Namespace"][p]
      BY <1>NamespaceAfter, <2>1, StoreAfter
    <2> QED
      BY <2>2, Zenon DEF Namespace
  \* A write to the project leaves the namespace alone.
  <1>ProjectAfter. ASSUME ApiTypes, NEW obj, Write("OrganizationProject", p, obj)
                   PROVE  Namespace' = Namespace
    BY <1>ProjectAfter, Zenon DEF Write, Namespace, ApiTypes, ApiTyped, Kind
  <1> USE DEF LabelIn
  <1>0. ApiTypes /\ \A c \in Contents : c[1] \in Kind /\ c[2] \in Name /\ c[1] # "Namespace"
    BY KindFacts DEF Typed, Contents
  <1>1. CASE Namespace' \in {Namespace, None}
    BY <1>1
  <1>2. CASE MarkNamespace
    <2>1. Namespace \in NamespaceObject
      BY <1>0, <1>2, Stored, ObjectFacts, KindFacts DEF MarkNamespace, Namespace
    <2>2. [Namespace EXCEPT !.deleting = TRUE] \in Object["Namespace"]
      BY <2>1, ObjectFacts, Zenon DEF NamespaceObject
    <2>3. Namespace' = Namespace \/ Namespace' = [Namespace EXCEPT !.deleting = TRUE]
      BY <1>0, <1>2, <2>2, <1>NamespaceAfter, KindFacts DEF MarkNamespace
    <2>4. Namespace'.root = Namespace.root /\ Namespace'.org = Namespace.org
      BY <2>1, <2>3 DEF NamespaceObject
    <2> QED
      BY <1>2, <2>4 DEF MarkNamespace
  <1>3. ASSUME NEW o \in Org, NEW s \in env.specs, CreateProject(o, s)
        PROVE  LabelIn(R, Namespace')
    BY <1>0, <1>1, <1>3, <1>ProjectAfter, Zenon DEF CreateProject
  <1>4. CASE (\E s \in env.specs : UpdateProject(s)) \/ DeleteProject
    BY <1>0, <1>1, <1>4, <1>ProjectAfter, Zenon DEF UpdateProject, DeleteProject
  <1>5. CASE CollectContents
    BY <1>0, <1>1, <1>5, <1>NamespaceAfter, ObjectFacts, Zenon DEF CollectContents
  <1>6. CASE Terminate
    BY <1>0, <1>1, <1>6, <1>NamespaceAfter, ObjectFacts, KindFacts, Zenon DEF Terminate
  <1>7. ASSUME NEW x \in Provisioned, OtherCreates(x[1], x[2]) PROVE LabelIn(R, Namespace')
    <2>1. PICK obj \in foreignObjects(x[1], x[2]) : Write(x[1], x[2], obj)
      BY <1>7, Zenon DEF OtherCreates
    <2>2. obj \in Object[x[1]] /\ x[1] \in Kind /\ x[2] \in Name
      BY ForeignTypes, KindFacts DEF Typed, EnvTypes
    <2>3. x[1] = "Namespace" => obj.root = None
      BY <2>1, Zenon DEF foreignObjects
    <2> QED
      BY <1>0, <1>1, <2>1, <2>2, <2>3, <1>NamespaceAfter, Zenon
  <1>8. ASSUME NEW x \in Provisioned, OtherDeletes(x[1], x[2]) PROVE LabelIn(R, Namespace')
    <2>1. CASE x[1] # "Namespace"
      BY <1>0, <1>1, <1>8, <2>1, <1>NamespaceAfter, KindFacts, ObjectFacts, Zenon DEF OtherDeletes
    <2> QED
      BY <1>2, <1>8, <2>1 DEF OtherDeletes
  <1>9. CASE \E a \in BOOLEAN : Put(a)
    <2>1. CASE UNCHANGED apiVars
      BY <1>1, <2>1, Zenon DEF apiVars, Namespace
    <2>2. CASE Write(kind, name, Mutated)
      <3>1. rec.pc = "run" /\ At("put") /\ kind \in Kind /\ name \in Name
        BY <1>9, HeadFacts, Zenon DEF Put, At
      <3>2. Namespace' = Namespace \/ (kind = "Namespace" /\ Namespace' = Mutated)
        BY <1>0, <2>2, <3>1, MutatedTypes, <1>NamespaceAfter
      <3>3. kind = "Namespace" => Mutated.root = rec.root /\ Mutated.org = rec.inst.org
        BY DEF Mutated
      <3> QED
        BY <1>1, <3>1, <3>2, <3>3, Zenon DEF CarriedIn
    <2> QED
      BY <1>9, <2>1, <2>2, Zenon DEF Put
  <1>10. CASE \E a \in BOOLEAN : Delete(a)
    <2>1. rec.pc = "run" /\ Write(kind, name, None)
      BY <1>10 DEF Delete, At
    <2> QED
      BY <1>0, <1>1, <2>1, HeadFacts, ObjectFacts, <1>NamespaceAfter, Zenon
  <1>11. CASE UpdateStatus
    <2>1. CASE UNCHANGED apiVars
      BY <1>1, <2>1 DEF apiVars, Namespace
    <2> QED
      BY <1>0, <1>1, <1>11, <2>1, <1>ProjectAfter, Zenon DEF UpdateStatus
  <1>12. CASE \/ Dequeue \/ ValidateParentOrganization
              \/ \E a \in BOOLEAN : ComputeEffectiveIsolation(a)
              \/ Check \/ Get \/ PutRefused \/ Prune \/ ActionError \/ StatusError \/ Restart
              \/ Resync \/ \E k \in Kind : Deliveries(k)
    <2>1. store' = store
      BY <1>12, Zenon DEF Dequeue, ValidateParentOrganization, ComputeEffectiveIsolation, Check, Get,
                  PutRefused, Prune, ActionError, StatusError, Restart, internal, apiVars,
                  Resync, Deliveries, Informer, Deliver
    <2> QED
      BY <1>1, <2>1 DEF Namespace
  <1>13. CASE Environment
    BY <1>2, <1>3, <1>4, <1>5, <1>6, <1>7, <1>8, <1>13, Zenon DEF Environment, CollectNamespace
  <1> QED
    BY <1>9, <1>10, <1>11, <1>12, <1>13, Zenon DEF Local, Work, Calls, Failures

-----------------------------------------------------------------------------
(* Plans. *)

\* The names of the policies that a preset wants.
Wanted(isolation) ==
    LET desired == desiredNetworkPolicies(isolation)
    IN  {desired[i] : i \in 1..Len(desired)}

IsPrune(op) == op[2] = "NetworkPolicy" /\ op[1] \in {"prune", "delete"}
About(op, x) == op[2] = x[1] /\ op[3] = x[2]

\* A call does what the users and the preset ask for.
Fits(op, users, isolation) ==
    /\ op[2] = "RoleBinding" =>
          IF subjectsForRole(users, op[3]) = {} THEN op[1] = "delete" ELSE op[1] \in {"get", "put"}
    /\ op[2] = "NetworkPolicy" => (IsPrune(op) <=> op[3] \notin Wanted(isolation))

\* Call a may come before call b: the last call about an object changes it, and
\* policies are removed when those that are wanted are there.
Before(a, b) ==
    /\ a[1] \in {"put", "delete", "prune"} => ~About(b, <<a[2], a[3]>>)
    /\ IsPrune(a) => IsPrune(b)

\* What is checked or read is written later.
Completed(s) ==
    \A i \in 1..Len(s) : s[i][1] \in {"check", "get"} =>
        \E j \in 1..Len(s) : j > i /\ s[j] = <<"put", s[i][2], s[i][3]>>

Mentions(s, x) == \E i \in 1..Len(s) : About(s[i], x)

Orderly(s, users, isolation) ==
    /\ s \in Seq(Op) /\ Completed(s)
    /\ \A i \in 1..Len(s) : Fits(s[i], users, isolation)
    /\ \A i, j \in 1..Len(s) : i < j => Before(s[i], s[j])

\* Plan s is orderly and about the objects of X, all of them.
Segment(s, X, users, isolation) ==
    /\ Orderly(s, users, isolation)
    /\ \A i \in 1..Len(s) : <<s[i][2], s[i][3]>> \in X
    /\ \A x \in X : Mentions(s, x)

\* x is a policy to be removed.
Unwanted(x, isolation) == x[1] = "NetworkPolicy" /\ x[2] \notin Wanted(isolation)

\* The policies of a preset.
LEMMA WantedFacts ==
    ASSUME NEW isolation, NEW desired, desired = desiredNetworkPolicies(isolation)
    PROVE  /\ Wanted(isolation) = {desired[i] : i \in 1..Len(desired)}
           /\ Wanted(isolation) \subseteq managedNetworkPolicies
           /\ Len(desired) \in {0, 2}
           /\ Len(desired) = 0 => Wanted(isolation) = {}
           /\ Len(desired) = 2 => /\ Wanted(isolation) = {desired[1], desired[2]}
                                  /\ desired[1] # desired[2]
           /\ isolation = "none" => Wanted(isolation) = {}
           /\ isolation = "strict" => Wanted(isolation) = {npDenyIngress, npAllowSameNS}
           /\ isolation = "tenant" => Wanted(isolation) = {npDenyIngress, npAllowOrganization}
<1>1. CASE isolation = "none"
  <2>1. desired = <<>> /\ Len(desired) = 0 /\ 1..Len(desired) = {}
    BY <1>1 DEF desiredNetworkPolicies
  <2> QED
    BY <1>1, <2>1 DEF Wanted
<1>2. CASE isolation # "none"
  <2> DEFINE n == IF isolation = "strict" THEN npAllowSameNS ELSE npAllowOrganization
  <2>1. desired = <<npDenyIngress, n>>
    BY <1>2 DEF desiredNetworkPolicies
  <2>2. /\ {npDenyIngress, n} \subseteq managedNetworkPolicies /\ npDenyIngress # n
        /\ isolation = "strict" => n = npAllowSameNS
        /\ isolation = "tenant" => n = npAllowOrganization
    BY DEF managedNetworkPolicies, npDenyIngress, npAllowSameNS, npAllowOrganization
  <2> HIDE DEF n
  <2>3. Len(desired) = 2 /\ desired[1] = npDenyIngress /\ desired[2] = n /\ 1..Len(desired) = {1, 2}
    BY <2>1
  <2>4. Wanted(isolation) = {npDenyIngress, n}
    BY <2>3 DEF Wanted
  <2> QED
    BY <1>2, <2>2, <2>3, <2>4 DEF Wanted
<1> QED
  BY <1>1, <1>2, Zenon

\* The plan of a reconciliation is orderly and about everything that is provisioned.
LEMMA PlanSegment ==
    ASSUME NEW users, NEW isolation
    PROVE  Segment(ensureNamespace \o ensureRBAC(users) \o ensureNetworkPolicies(isolation),
                   Provisioned, users, isolation)
\* Segments about different objects join, if policies are removed last.
<1>SegmentsJoin. ASSUME NEW X, NEW Y, X \cap Y = {}, X \cup Y \subseteq Provisioned,
                        NEW s, NEW t, Segment(s, X, users, isolation), Segment(t, Y, users, isolation),
                        \/ \A x \in X : ~Unwanted(x, isolation)
                        \/ \A y \in Y : Unwanted(y, isolation)
                 PROVE  Segment(s \o t, X \cup Y, users, isolation)
  <2> USE <1>SegmentsJoin
  <2> DEFINE w == s \o t
  <2>1. /\ s \in Seq(Op) /\ t \in Seq(Op) /\ w \in Seq(Op)
        /\ Len(s) \in Nat /\ Len(t) \in Nat /\ Len(w) = Len(s) + Len(t)
    BY DEF Segment, Orderly
  <2>2. /\ \A i \in 1..Len(s) : i \in 1..Len(w) /\ w[i] = s[i]
        /\ \A i \in 1..Len(t) : Len(s) + i \in 1..Len(w) /\ w[Len(s) + i] = t[i]
    BY <2>1
  <2> HIDE DEF w
  <2>3. \A i \in 1..Len(w) : \/ i \in 1..Len(s)
                             \/ i - Len(s) \in 1..Len(t) /\ i = Len(s) + (i - Len(s))
    BY <2>1
  <2>4. \A i \in 1..Len(s) : /\ Fits(s[i], users, isolation) /\ <<s[i][2], s[i][3]>> \in X
                             /\ \A j \in 1..Len(s) : i < j => Before(s[i], s[j])
    BY Zenon DEF Segment, Orderly
  <2>5. \A i \in 1..Len(t) : /\ Fits(t[i], users, isolation) /\ <<t[i][2], t[i][3]>> \in Y
                             /\ \A j \in 1..Len(t) : i < j => Before(t[i], t[j])
    BY Zenon DEF Segment, Orderly
  <2>6. ASSUME NEW i \in 1..Len(s), NEW j \in 1..Len(t) PROVE Before(s[i], t[j])
    <3> DEFINE x == <<s[i][2], s[i][3]>>
               y == <<t[j][2], t[j][3]>>
    <3>1. x \in X /\ y \in Y /\ x # y
      BY <2>4, <2>5, Zenon
    <3>2. x[1] = s[i][2] /\ x[2] = s[i][3] /\ y[1] = t[j][2] /\ y[2] = t[j][3]
      BY Zenon
    <3>3. ~About(t[j], x)
      BY <3>1 DEF About
    <3> HIDE DEF x, y
    <3>4. IsPrune(s[i]) => Unwanted(x, isolation)
      BY <2>4, <3>2, Zenon DEF Fits, Unwanted, IsPrune
    <3>5. Unwanted(y, isolation) => IsPrune(t[j])
      BY <2>5, <3>2, Zenon DEF Fits, Unwanted
    <3>6. IsPrune(s[i]) => IsPrune(t[j])
      BY <3>1, <3>4, <3>5, Zenon
    <3> QED
      BY <3>3, <3>6, Zenon DEF Before, x
  <2>7. ASSUME NEW i \in 1..Len(w)
        PROVE  Fits(w[i], users, isolation) /\ <<w[i][2], w[i][3]>> \in X \cup Y
    <3>1. CASE i \in 1..Len(s)
      BY <2>2, <2>4, <3>1, Zenon
    <3>2. CASE i \notin 1..Len(s)
      <4>1. i - Len(s) \in 1..Len(t) /\ w[i] = t[i - Len(s)]
        BY <2>2, <2>3, <3>2, Zenon
      <4> QED
        BY <2>5, <4>1, Zenon
    <3> QED
      BY <3>1, <3>2, Zenon
  <2>8. ASSUME NEW i \in 1..Len(w), NEW j \in 1..Len(w), i < j PROVE Before(w[i], w[j])
    <3>1. CASE j \in 1..Len(s)
      <4>1. i \in 1..Len(s)
        BY <2>1, <2>8, <3>1
      <4> QED
        BY <2>2, <2>4, <2>8, <3>1, <4>1, Zenon
    <3>2. CASE i \in 1..Len(s) /\ j \notin 1..Len(s)
      BY <2>2, <2>3, <2>6, <3>2, Zenon
    <3>3. CASE i \notin 1..Len(s)
      <4>1. /\ i - Len(s) \in 1..Len(t) /\ i = Len(s) + (i - Len(s))
            /\ j - Len(s) \in 1..Len(t) /\ j = Len(s) + (j - Len(s)) /\ i - Len(s) < j - Len(s)
        BY <2>1, <2>8, <3>3
      <4> QED
        BY <2>2, <2>5, <4>1, Zenon
    <3> QED
      BY <3>1, <3>2, <3>3
  <2>9. Completed(w)
    <3> SUFFICES ASSUME NEW i \in 1..Len(w), w[i][1] \in {"check", "get"}
                 PROVE  \E j \in 1..Len(w) : j > i /\ w[j] = <<"put", w[i][2], w[i][3]>>
      BY Zenon DEF Completed
    <3>1. CASE i \in 1..Len(s)
      <4>1. PICK j \in 1..Len(s) : j > i /\ s[j] = <<"put", s[i][2], s[i][3]>>
        BY <2>2, <3>1, Zenon DEF Segment, Orderly, Completed
      <4> QED
        BY <2>2, <3>1, <4>1
    <3>2. CASE i \notin 1..Len(s)
      <4>1. i - Len(s) \in 1..Len(t) /\ i = Len(s) + (i - Len(s)) /\ w[i] = t[i - Len(s)]
        BY <2>2, <2>3, <3>2, Zenon
      <4>2. PICK j \in 1..Len(t) : j > i - Len(s) /\ t[j] = <<"put", t[i - Len(s)][2], t[i - Len(s)][3]>>
        BY <4>1, Zenon DEF Segment, Orderly, Completed
      <4>3. Len(s) + j \in 1..Len(w) /\ Len(s) + j > i /\ w[Len(s) + j] = t[j]
        BY <2>1, <2>2, <4>1, <4>2
      <4> QED
        BY <4>1, <4>2, <4>3, Zenon
    <3> QED
      BY <3>1, <3>2
  <2>10. ASSUME NEW x \in X \cup Y PROVE Mentions(w, x)
    <3>1. CASE x \in X
      BY <2>2, <3>1 DEF Segment, Mentions
    <3>2. CASE x \in Y
      BY <2>2, <3>2, Zenon DEF Segment, Mentions
    <3> QED
      BY <3>1, <3>2, Zenon
  <2>11. Segment(w, X \cup Y, users, isolation)
    BY <2>1, <2>7, <2>8, <2>9, <2>10, Zenon DEF Segment, Orderly
  <2> QED
    BY <2>11, Zenon DEF w
\* The segments that plans are made of: nothing,
<1>EmptySegment. Segment(<<>>, {}, users, isolation)
  BY DEF Segment, Orderly, Completed
\* a removal,
<1>RemovalSegment. ASSUME NEW x \in Provisioned, NEW c \in {"delete", "prune"},
                          Fits(<<c, x[1], x[2]>>, users, isolation)
                   PROVE  Segment(<<<<c, x[1], x[2]>>>>, {x}, users, isolation)
  <2> USE <1>RemovalSegment
  <2> DEFINE d == <<c, x[1], x[2]>>
  <2>1. /\ d \in Op /\ d[1] \notin {"check", "get"} /\ d[2] = x[1] /\ d[3] = x[2]
        /\ <<d[2], d[3]>> = x
    BY KindFacts DEF Op, Provisioned, Contents
  <2>2. Fits(d, users, isolation) /\ About(d, x)
    BY <2>1 DEF About
  <2> HIDE DEF d
  <2>3. /\ <<d>> \in Seq(Op) /\ Len(<<d>>) = 1 /\ <<d>>[1] = d
        /\ \A i \in 1..Len(<<d>>) : i = 1
    BY <2>1
  <2>4. Orderly(<<d>>, users, isolation)
    BY <2>1, <2>2, <2>3 DEF Orderly, Completed
  <2>5. Mentions(<<d>>, x)
    BY <2>2, <2>3 DEF Mentions
  <2>6. Segment(<<d>>, {x}, users, isolation)
    BY <2>1, <2>3, <2>4, <2>5, Zenon DEF Segment
  <2> QED
    BY <2>6, Zenon DEF d
\* CreateOrUpdate,
<1>PairSegment. ASSUME NEW x \in Provisioned,
                       Fits(<<"get", x[1], x[2]>>, users, isolation),
                       Fits(<<"put", x[1], x[2]>>, users, isolation)
                PROVE  Segment(CreateOrUpdate(x[1], x[2]), {x}, users, isolation)
  <2> USE <1>PairSegment
  <2> DEFINE g == <<"get", x[1], x[2]>>
             q == <<"put", x[1], x[2]>>
             w == <<g, q>>
  <2>1. /\ g \in Op /\ q \in Op /\ g[1] = "get" /\ q[1] = "put"
        /\ <<g[2], g[3]>> = x /\ <<q[2], q[3]>> = x /\ q = <<"put", g[2], g[3]>>
    BY KindFacts DEF Op, Provisioned, Contents
  <2>2. /\ Fits(g, users, isolation) /\ Fits(q, users, isolation) /\ About(g, x)
        /\ Before(g, q)
    BY <2>1, Zenon DEF About, Before, IsPrune
  <2> HIDE DEF g, q
  <2>3. w \in Seq(Op) /\ Len(w) = 2 /\ w[1] = g /\ w[2] = q /\ \A i \in 1..Len(w) : i \in {1, 2}
    BY <2>1
  <2> HIDE DEF w
  <2>4. Completed(w)
    BY <2>1, <2>3 DEF Completed
  <2>5. Orderly(w, users, isolation)
    <3>1. \A i, j \in 1..Len(w) : i < j => i = 1 /\ j = 2
      BY <2>3
    <3> QED
      BY <2>2, <2>3, <2>4, <3>1 DEF Orderly
  <2>6. Mentions(w, x)
    <3>1. 1 \in 1..Len(w)
      BY <2>3
    <3> QED
      BY <2>2, <2>3, <3>1, Zenon DEF Mentions
  <2>7. Segment(w, {x}, users, isolation)
    BY <2>1, <2>3, <2>5, <2>6, Zenon DEF Segment
  <2> QED
    BY <2>7, Zenon DEF CreateOrUpdate, w, g, q
\* and CreateOrUpdate behind a check.
<1>CheckedSegment. ASSUME NEW x \in Provisioned,
                          Fits(<<"check", x[1], x[2]>>, users, isolation),
                          Fits(<<"get", x[1], x[2]>>, users, isolation),
                          Fits(<<"put", x[1], x[2]>>, users, isolation)
                   PROVE  Segment(<<<<"check", x[1], x[2]>>>> \o CreateOrUpdate(x[1], x[2]), {x}, users, isolation)
  <2> USE <1>CheckedSegment
  <2> DEFINE c == <<"check", x[1], x[2]>>
             g == <<"get", x[1], x[2]>>
             q == <<"put", x[1], x[2]>>
             w == <<c>> \o <<g, q>>
  <2>1. /\ c \in Op /\ g \in Op /\ q \in Op
        /\ c[1] = "check" /\ g[1] = "get" /\ q[1] = "put"
        /\ <<c[2], c[3]>> = x /\ <<g[2], g[3]>> = x /\ <<q[2], q[3]>> = x
        /\ q = <<"put", g[2], g[3]>> /\ q = <<"put", c[2], c[3]>>
    BY KindFacts DEF Op, Provisioned, Contents
  <2>2. /\ Fits(c, users, isolation) /\ Fits(g, users, isolation) /\ Fits(q, users, isolation)
        /\ About(g, x) /\ Before(c, g) /\ Before(c, q) /\ Before(g, q)
    BY <2>1, Zenon DEF About, Before, IsPrune
  <2> HIDE DEF c, g, q
  <2>3. /\ w \in Seq(Op) /\ Len(w) = 3 /\ w[1] = c /\ w[2] = g /\ w[3] = q
        /\ \A i \in 1..Len(w) : i \in {1, 2, 3}
    BY <2>1
  <2> HIDE DEF w
  <2>4. Completed(w)
    BY <2>1, <2>3 DEF Completed
  <2>5. Orderly(w, users, isolation)
    <3>1. \A i, j \in 1..Len(w) : i < j => <<i, j>> \in {<<1, 2>>, <<1, 3>>, <<2, 3>>}
      BY <2>3
    <3> QED
      BY <2>2, <2>3, <2>4, <3>1, Zenon DEF Orderly
  <2>6. Mentions(w, x)
    <3>1. 2 \in 1..Len(w)
      BY <2>3
    <3> QED
      BY <2>2, <2>3, <3>1 DEF Mentions
  <2>7. Segment(w, {x}, users, isolation)
    BY <2>1, <2>3, <2>5, <2>6 DEF Segment
  <2> QED
    BY <2>7, Zenon DEF CreateOrUpdate, w, c, g, q
\* The calls of ensureRBAC are a segment,
<1>RBACSegment. Segment(ensureRBAC(users), {"RoleBinding"} \X Role, users, isolation)
  <2> DEFINE ensure(role) == IF subjectsForRole(users, role) = {} THEN Revoke(role)
                             ELSE CreateOrUpdate("RoleBinding", role)
             x(role) == <<"RoleBinding", role>>
  <2>1. ASSUME NEW role \in Role PROVE Segment(ensure(role), {x(role)}, users, isolation)
    <3> DEFINE y == <<"RoleBinding", role>>
    <3>1. y \in Provisioned /\ y[1] = "RoleBinding" /\ y[2] = role
      BY DEF Provisioned, Contents
    <3>2. CASE subjectsForRole(users, role) = {}
      <4>1. Fits(<<"delete", y[1], y[2]>>, users, isolation)
        BY <3>1, <3>2 DEF Fits
      <4> HIDE DEF y
      <4>2. Segment(<<<<"delete", y[1], y[2]>>>>, {y}, users, isolation)
        BY <3>1, <4>1, <1>RemovalSegment, Zenon
      <4> QED
        BY <3>1, <3>2, <4>2, Zenon DEF Revoke, y
    <3>3. CASE subjectsForRole(users, role) # {}
      <4>1. /\ Fits(<<"get", y[1], y[2]>>, users, isolation)
            /\ Fits(<<"put", y[1], y[2]>>, users, isolation)
        BY <3>1, <3>3, Zenon DEF Fits
      <4> HIDE DEF y
      <4>2. Segment(CreateOrUpdate(y[1], y[2]), {y}, users, isolation)
        BY <3>1, <4>1, <1>PairSegment, Zenon
      <4> QED
        BY <3>1, <3>3, <4>2, Zenon DEF y
    <3> QED
      BY <3>2, <3>3
  <2>2. "edit" \in Role /\ "view" \in Role
    BY DEF Role
  <2>3. Segment(ensure("edit"), {x("edit")}, users, isolation)
        /\ Segment(ensure("view"), {x("view")}, users, isolation)
    BY <2>1, <2>2
  <2>4. ensureRBAC(users) = ensure("edit") \o ensure("view")
    BY DEF ensureRBAC
  <2>5. /\ {x("edit")} \cap {x("view")} = {}
        /\ {x("edit")} \cup {x("view")} = {"RoleBinding"} \X Role
        /\ {"RoleBinding"} \X Role \subseteq Provisioned
        /\ \A e \in {x("edit")} : ~Unwanted(e, isolation)
    BY DEF Role, Provisioned, Contents, Unwanted
  <2> HIDE DEF ensure, x
  <2>6. Segment(ensure("edit") \o ensure("view"), {x("edit")} \cup {x("view")}, users, isolation)
    BY <2>3, <2>5, <1>SegmentsJoin, Zenon
  <2> QED
    BY <2>4, <2>5, <2>6, Zenon
\* and so are those of ensureNetworkPolicies.
<1>PoliciesSegment. Segment(ensureNetworkPolicies(isolation), {"NetworkPolicy"} \X managedNetworkPolicies,
                                   users, isolation)
  <2> DEFINE desired == desiredNetworkPolicies(isolation)
             ensure(i) == IF i > Len(desired) THEN <<>>
                          ELSE <<<<"check", "NetworkPolicy", desired[i]>>>>
                                 \o CreateOrUpdate("NetworkPolicy", desired[i])
             wanted == Wanted(isolation)
             prune(n) == IF n \in wanted THEN <<>> ELSE <<<<"prune", "NetworkPolicy", n>>>>
             x(n) == <<"NetworkPolicy", n>>
             Q(i) == IF i > Len(desired) THEN {} ELSE {x(desired[i])}
             R(n) == IF n \in wanted THEN {} ELSE {x(n)}
             All == {"NetworkPolicy"} \X managedNetworkPolicies
  <2>1. ensureNetworkPolicies(isolation) = ensure(1) \o ensure(2) \o PruneUnwanted(wanted)
    BY DEF ensureNetworkPolicies, Wanted
  <2>2. PruneUnwanted(wanted) = prune(npDenyIngress) \o prune(npAllowOrganization)
                                  \o prune(npAllowSameNS)
    BY Zenon DEF PruneUnwanted
  <2>3. /\ wanted \subseteq managedNetworkPolicies /\ Len(desired) \in {0, 2}
        /\ Len(desired) = 0 => wanted = {}
        /\ Len(desired) = 2 => wanted = {desired[1], desired[2]} /\ desired[1] # desired[2]
    BY WantedFacts
  <2> HIDE DEF desired, wanted
  <2>4. ASSUME NEW n \in managedNetworkPolicies
        PROVE  /\ n \in wanted => Segment(<<<<"check", "NetworkPolicy", n>>>>
                                            \o CreateOrUpdate("NetworkPolicy", n), {x(n)}, users, isolation)
               /\ n \notin wanted => Segment(<<<<"prune", "NetworkPolicy", n>>>>, {x(n)}, users, isolation)
    <3> DEFINE y == <<"NetworkPolicy", n>>
    <3>1. y \in Provisioned /\ y[1] = "NetworkPolicy" /\ y[2] = n /\ y = x(n)
      BY Zenon DEF Provisioned, Contents
    <3>2. ASSUME n \in wanted
          PROVE  \A c \in {"check", "get", "put"} : Fits(<<c, y[1], y[2]>>, users, isolation)
      BY <3>1, <3>2, Zenon DEF Fits, IsPrune, wanted
    <3>3. n \notin wanted => Fits(<<"prune", y[1], y[2]>>, users, isolation)
      BY <3>1, Zenon DEF Fits, IsPrune, wanted
    <3> HIDE DEF y
    <3>4. n \in wanted => Segment(<<<<"check", y[1], y[2]>>>> \o CreateOrUpdate(y[1], y[2]),
                                  {y}, users, isolation)
      BY <3>1, <3>2, <1>CheckedSegment
    <3>5. n \notin wanted => Segment(<<<<"prune", y[1], y[2]>>>>, {y}, users, isolation)
      BY <3>1, <3>3, <1>RemovalSegment, Zenon
    <3> QED
      BY <3>1, <3>4, <3>5
  <2>5. \A i \in {1, 2} : i > Len(desired) \/ desired[i] \in wanted
    BY <2>3
  <2>6. Segment(ensure(1), Q(1), users, isolation) /\ Segment(ensure(2), Q(2), users, isolation)
    BY <2>3, <2>4, <2>5, <1>EmptySegment, Zenon
  <2>7. /\ Q(1) \cap Q(2) = {} /\ Q(1) \cup Q(2) = {"NetworkPolicy"} \X wanted
        /\ \A e \in {"NetworkPolicy"} \X wanted : ~Unwanted(e, isolation)
        /\ {"NetworkPolicy"} \X wanted \subseteq Provisioned
    <3>1. /\ \A e \in {"NetworkPolicy"} \X wanted : ~Unwanted(e, isolation)
          /\ {"NetworkPolicy"} \X wanted \subseteq Provisioned
      BY <2>3, Zenon DEF Unwanted, Provisioned, Contents, wanted
    <3>2. CASE Len(desired) = 0
      BY <2>3, <3>1, <3>2
    <3>3. CASE Len(desired) = 2
      BY <2>3, <3>1, <3>3
    <3> QED
      BY <2>3, <3>1, <3>2, <3>3, Zenon
  <2>8. \A n \in managedNetworkPolicies : Segment(prune(n), R(n), users, isolation)
    BY <2>4, <1>EmptySegment, Zenon
  <2> DEFINE R1 == R(npDenyIngress)
             R2 == R(npAllowOrganization)
             R3 == R(npAllowSameNS)
  <2>9. /\ R1 \cap R2 = {} /\ (R1 \cup R2) \cap R3 = {}
        /\ R1 \cup R2 \cup R3 = {"NetworkPolicy"} \X (managedNetworkPolicies \ wanted)
        /\ \A e \in R1 \cup R2 \cup R3 : Unwanted(e, isolation)
        /\ R1 \cup R2 \cup R3 \subseteq Provisioned
    <3>1. R1 \cap R2 = {} /\ (R1 \cup R2) \cap R3 = {}
      BY DEF npDenyIngress, npAllowOrganization, npAllowSameNS
    <3>2. R1 \cup R2 \cup R3 = {"NetworkPolicy"} \X (managedNetworkPolicies \ wanted)
      BY DEF managedNetworkPolicies
    <3>3. \A e \in {"NetworkPolicy"} \X (managedNetworkPolicies \ wanted) : Unwanted(e, isolation)
      BY DEF Unwanted, wanted
    <3>4. {"NetworkPolicy"} \X (managedNetworkPolicies \ wanted) \subseteq Provisioned
      BY Zenon DEF Provisioned, Contents
    <3> QED
      BY <3>1, <3>2, <3>3, <3>4
  <2>10. /\ Segment(prune(npDenyIngress), R1, users, isolation)
         /\ Segment(prune(npAllowOrganization), R2, users, isolation)
         /\ Segment(prune(npAllowSameNS), R3, users, isolation)
    BY <2>8, Zenon DEF managedNetworkPolicies
  <2> HIDE DEF ensure, prune, Q, R1, R2, R3
  <2>11. Segment(ensure(1) \o ensure(2), {"NetworkPolicy"} \X wanted, users, isolation)
    <3>1. Segment(ensure(1) \o ensure(2), Q(1) \cup Q(2), users, isolation)
      BY <2>6, <2>7, <1>SegmentsJoin
    <3> QED
      BY <2>7, <3>1, Zenon
  <2>12. Segment(PruneUnwanted(wanted), R1 \cup R2 \cup R3, users, isolation)
    <3>1. Segment(prune(npDenyIngress) \o prune(npAllowOrganization), R1 \cup R2, users, isolation)
      BY <2>9, <2>10, <1>SegmentsJoin, Zenon
    <3>2. Segment((prune(npDenyIngress) \o prune(npAllowOrganization)) \o prune(npAllowSameNS),
                  (R1 \cup R2) \cup R3, users, isolation)
      BY <2>9, <2>10, <3>1, <1>SegmentsJoin, Zenon
    <3> QED
      BY <2>2, <3>2, Zenon
  <2> DEFINE W == {"NetworkPolicy"} \X wanted
             U == R1 \cup R2 \cup R3
  <2>13. /\ W \cap U = {} /\ W \cup U = All /\ W \cup U \subseteq Provisioned
         /\ \A e \in W : ~Unwanted(e, isolation)
    BY <2>3, <2>7, <2>9, Zenon
  <2> HIDE DEF W, U
  <2>14. Segment(ensure(1) \o ensure(2) \o PruneUnwanted(wanted), W \cup U, users, isolation)
    <3>1. Segment(ensure(1) \o ensure(2), W, users, isolation) /\ Segment(PruneUnwanted(wanted), U, users, isolation)
      BY <2>11, <2>12, Zenon DEF W, U
    <3> QED
      BY <2>13, <3>1, <1>SegmentsJoin
  <2> QED
    BY <2>1, <2>13, <2>14, Zenon
<1> DEFINE y == <<"Namespace", p>>
           B == {"RoleBinding"} \X Role
           Q == {"NetworkPolicy"} \X managedNetworkPolicies
<1>1. /\ y \in Provisioned /\ y[1] = "Namespace" /\ y[2] = p /\ ~Unwanted(y, isolation)
      /\ Fits(<<"get", y[1], y[2]>>, users, isolation)
      /\ Fits(<<"put", y[1], y[2]>>, users, isolation)
  BY DEF Provisioned, Fits, Unwanted
<1>2. /\ {y} \cap B = {} /\ ({y} \cup B) \cap Q = {} /\ {y} \cup B \cup Q = Provisioned
      /\ \A e \in B : ~Unwanted(e, isolation)
  BY DEF Provisioned, Contents, Unwanted
<1> HIDE DEF y
<1>3. Segment(ensureNamespace, {y}, users, isolation)
  <2>1. Segment(CreateOrUpdate(y[1], y[2]), {y}, users, isolation)
    BY <1>1, <1>PairSegment
  <2> QED
    BY <1>1, <2>1, Zenon DEF ensureNamespace
<1>4. Segment(ensureRBAC(users), B, users, isolation)
  BY <1>RBACSegment
<1>5. Segment(ensureNetworkPolicies(isolation), Q, users, isolation)
  BY <1>PoliciesSegment, Zenon
<1> HIDE DEF B, Q
<1>6. Segment(ensureNamespace \o ensureRBAC(users), {y} \cup B, users, isolation)
  BY <1>1, <1>2, <1>3, <1>4, <1>SegmentsJoin, Zenon
<1> DEFINE X == {y} \cup B
<1>7. /\ X \cap Q = {} /\ X \cup Q = Provisioned /\ \A e \in X : ~Unwanted(e, isolation)
  BY <1>1, <1>2, Zenon
<1> HIDE DEF X
<1>8. Segment((ensureNamespace \o ensureRBAC(users)) \o ensureNetworkPolicies(isolation),
              X \cup Q, users, isolation)
  <2>1. Segment(ensureNamespace \o ensureRBAC(users), X, users, isolation)
    BY <1>6 DEF X
  <2> QED
    BY <1>5, <1>7, <2>1, <1>SegmentsJoin
<1> QED
  BY <1>7, <1>8

\* The head and the rest of a sequence.
LEMMA SequenceFacts ==
    ASSUME NEW S, NEW s \in Seq(S), s # <<>>
    PROVE  /\ Len(s) \in Nat /\ Len(s) > 0 /\ 1 \in 1..Len(s)
           /\ Len(Tail(s)) = Len(s) - 1
           /\ Len(s) # 1 => Len(s) > 1 /\ Tail(s)[1] = s[2]
           /\ Len(s) = 1 => 1..Len(Tail(s)) = {}
<1>1. Len(s) \in Nat /\ Len(s) > 0
  OBVIOUS
<1>2. Len(Tail(s)) = Len(s) - 1 /\ \A i \in 1..Len(Tail(s)) : Tail(s)[i] = s[i + 1]
  OBVIOUS
<1>3. ASSUME Len(s) # 1 PROVE Len(s) > 1 /\ Tail(s)[1] = s[2]
  <2>1. 1 \in 1..Len(Tail(s))
    BY <1>1, <1>2, <1>3
  <2> QED
    BY <1>1, <1>2, <1>3, <2>1
<1>4. ASSUME Len(s) = 1 PROVE 1..Len(Tail(s)) = {}
  <2>1. Len(Tail(s)) = 0
    BY <1>2, <1>4
  <2> QED
    BY <2>1
<1> QED
  BY <1>1, <1>2, <1>3, <1>4

\* The rest of an orderly plan is orderly, and what it does not mention the call at
\* the head was the last about, or nothing was.
LEMMA RestOrderly ==
    ASSUME NEW users, NEW isolation, NEW s, Orderly(s, users, isolation), s # <<>>
    PROVE  /\ Orderly(Tail(s), users, isolation)
           /\ \A x : Mentions(Tail(s), x) => Mentions(s, x)
           /\ \A x : Mentions(s, x) => About(s[1], x) \/ Mentions(Tail(s), x)
           /\ \A x \in Provisioned : About(s[1], x) =>
                 (Mentions(Tail(s), x) <=> s[1][1] \in {"check", "get"})
           /\ \A op : (\E i \in 1..Len(s) : s[i] = op) =>
                 op = s[1] \/ \E i \in 1..Len(Tail(s)) : Tail(s)[i] = op
           /\ s[1] \in Op /\ Fits(s[1], users, isolation)
           /\ \A i \in 1..Len(s) : i # 1 => Before(s[1], s[i])
<1> DEFINE t == Tail(s)
<1>1. /\ s \in Seq(Op) /\ t \in Seq(Op) /\ Len(s) \in Nat /\ Len(s) > 0
      /\ Len(t) = Len(s) - 1
      /\ \A i \in 1..Len(t) : i + 1 \in 1..Len(s) /\ t[i] = s[i + 1]
  BY DEF Orderly
<1>2. \A i \in 1..Len(s) : i = 1 \/ (i - 1 \in 1..Len(t) /\ t[i - 1] = s[i])
  BY <1>1
<1>3. 1 \in 1..Len(s) /\ s[1] \in Op /\ Fits(s[1], users, isolation)
  BY <1>1 DEF Orderly
<1> HIDE DEF t
<1>4. \A i \in 1..Len(t) : Fits(t[i], users, isolation)
  BY <1>1, Zenon DEF Orderly
<1>5. ASSUME NEW i \in 1..Len(t), NEW j \in 1..Len(t), i < j PROVE Before(t[i], t[j])
  <2>1. /\ i + 1 \in 1..Len(s) /\ j + 1 \in 1..Len(s) /\ i + 1 < j + 1
        /\ t[i] = s[i + 1] /\ t[j] = s[j + 1]
    BY <1>1, <1>5
  <2> QED
    BY <2>1, Zenon DEF Orderly
<1>6. Completed(t)
  <2> SUFFICES ASSUME NEW i \in 1..Len(t), t[i][1] \in {"check", "get"}
               PROVE  \E j \in 1..Len(t) : j > i /\ t[j] = <<"put", t[i][2], t[i][3]>>
    BY Zenon DEF Completed
  <2>1. i + 1 \in 1..Len(s) /\ t[i] = s[i + 1]
    BY <1>1
  <2>2. PICK j \in 1..Len(s) : j > i + 1 /\ s[j] = <<"put", s[i + 1][2], s[i + 1][3]>>
    BY <2>1, Zenon DEF Orderly, Completed
  <2>3. j - 1 \in 1..Len(t) /\ t[j - 1] = s[j] /\ j - 1 > i
    BY <1>1, <1>2, <2>1, <2>2
  <2> QED
    BY <2>1, <2>2, <2>3
<1>7. Orderly(t, users, isolation)
  BY <1>1, <1>4, <1>5, <1>6 DEF Orderly
<1>8. \A x : Mentions(t, x) => Mentions(s, x)
  BY <1>1 DEF Mentions
<1>9. \A x : Mentions(s, x) => About(s[1], x) \/ Mentions(t, x)
  BY <1>2 DEF Mentions
<1>10. \A op : (\E i \in 1..Len(s) : s[i] = op) => op = s[1] \/ \E i \in 1..Len(t) : t[i] = op
  BY <1>2, Zenon
<1>11. \A i \in 1..Len(s) : i # 1 => Before(s[1], s[i])
  BY <1>1, <1>3 DEF Orderly
<1>12. ASSUME NEW x \in Provisioned, About(s[1], x)
       PROVE  Mentions(t, x) <=> s[1][1] \in {"check", "get"}
  <2>1. CASE s[1][1] \in {"check", "get"}
    <3>1. PICK j \in 1..Len(s) : j > 1 /\ s[j] = <<"put", s[1][2], s[1][3]>>
      BY <1>3, <2>1, Zenon DEF Orderly, Completed
    <3>2. j - 1 \in 1..Len(t) /\ t[j - 1] = s[j] /\ About(s[j], x)
      BY <1>2, <1>12, <3>1 DEF About
    <3> QED
      BY <2>1, <3>2 DEF Mentions
  <2>2. CASE s[1][1] \notin {"check", "get"}
    <3>1. s[1][1] \in {"put", "delete", "prune"}
      BY <1>3, <2>2 DEF Op
    <3>2. x = <<x[1], x[2]>>
      BY DEF Provisioned, Contents
    <3>3. ASSUME NEW i \in 1..Len(t) PROVE ~About(t[i], x)
      <4>1. i + 1 \in 1..Len(s) /\ i + 1 # 1 /\ t[i] = s[i + 1]
        BY <1>1
      <4>2. ~About(s[i + 1], <<s[1][2], s[1][3]>>)
        BY <1>11, <3>1, <4>1 DEF Before
      <4> QED
        BY <1>12, <4>1, <4>2 DEF About
    <3> QED
      BY <2>2, <3>3, Zenon DEF Mentions
  <2> QED
    BY <2>1, <2>2, Zenon
<1> QED
  BY <1>3, <1>7, <1>8, <1>9, <1>10, <1>11, <1>12, Zenon DEF t

\* The same for one object.
LEMMA RestMentions ==
    ASSUME NEW users, NEW isolation, NEW s, Orderly(s, users, isolation), s # <<>>,
           NEW x \in Provisioned
    PROVE  /\ Mentions(Tail(s), x) => Mentions(s, x)
           /\ Mentions(s, x) => About(s[1], x) \/ Mentions(Tail(s), x)
           /\ About(s[1], x) => (Mentions(Tail(s), x) <=> s[1][1] \in {"check", "get"})
  BY RestOrderly, Zenon

\* A removal that turned out to be needed takes the place of the question.
Removing(s) == [s EXCEPT ![1] = <<"delete", s[1][2], s[1][3]>>]

\* It keeps the plan orderly, and what the plan is about.
LEMMA RemovalOrderly ==
    ASSUME NEW users, NEW isolation, NEW s, Orderly(s, users, isolation), s # <<>>,
           s[1][1] = "prune"
    PROVE  /\ Orderly(Removing(s), users, isolation)
           /\ Removing(s)[1] = <<"delete", s[1][2], s[1][3]>>
           /\ s[1][2] # "RoleBinding"
           /\ \A x : Mentions(Removing(s), x) <=> Mentions(s, x)
<1> DEFINE a == s[1]
           d == <<"delete", a[2], a[3]>>
           t == Removing(s)
<1>1. s \in Seq(Op) /\ Len(s) \in Nat /\ Len(s) > 0 /\ 1 \in 1..Len(s) /\ a \in Op
  BY DEF Orderly
<1>2. d \in Op /\ d[1] = "delete" /\ d[2] = a[2] /\ d[3] = a[3] /\ a[1] = "prune"
  BY <1>1, Zenon DEF Op
<1>3. Fits(a, users, isolation)
  BY <1>1, Zenon DEF Orderly
<1>4. a[2] # "RoleBinding"
  BY <1>2, <1>3, Zenon DEF Fits
<1>5. Fits(d, users, isolation) /\ (IsPrune(a) <=> IsPrune(d)) /\ \A x : About(a, x) <=> About(d, x)
  BY <1>2, <1>3, <1>4, Zenon DEF Fits, IsPrune, About
<1> HIDE DEF d
<1>6. /\ t \in Seq(Op) /\ Len(t) = Len(s) /\ t[1] = d
      /\ \A i \in 1..Len(s) : i # 1 => t[i] = s[i]
  BY <1>1, <1>2 DEF d, Removing
<1> HIDE DEF a, t
<1>7. s[1] = a
  BY Zenon DEF a
<1>8. ASSUME NEW i \in 1..Len(t), NEW j \in 1..Len(t), i < j PROVE Before(t[i], t[j])
  <2>0. i \in 1..Len(s) /\ j \in 1..Len(s) /\ j # 1
    BY <1>1, <1>6, <1>8
  <2>1. i \in 1..Len(s) /\ j \in 1..Len(s) /\ j # 1 /\ t[j] = s[j] /\ Before(s[i], s[j])
    BY <1>6, <1>8, <2>0, Zenon DEF Orderly
  <2>2. CASE i = 1
    BY <1>2, <1>5, <1>6, <1>7, <2>1, <2>2, Zenon DEF Before
  <2>3. CASE i # 1
    BY <1>6, <2>1, <2>3
  <2> QED
    BY <2>2, <2>3, Zenon
<1>9. Completed(t)
  <2> SUFFICES ASSUME NEW i \in 1..Len(t), t[i][1] \in {"check", "get"}
               PROVE  \E j \in 1..Len(t) : j > i /\ t[j] = <<"put", t[i][2], t[i][3]>>
    BY Zenon DEF Completed
  <2>1. i # 1 /\ i \in 1..Len(s) /\ t[i] = s[i]
    BY <1>2, <1>6
  <2>2. PICK j \in 1..Len(s) : j > i /\ s[j] = <<"put", s[i][2], s[i][3]>>
    BY <2>1, Zenon DEF Orderly, Completed
  <2>3. j # 1
    BY <2>2
  <2> QED
    BY <1>6, <2>1, <2>2, <2>3, Zenon
<1>10. \A i \in 1..Len(t) : Fits(t[i], users, isolation)
  BY <1>5, <1>6 DEF Orderly
<1>11. \A x : Mentions(t, x) <=> Mentions(s, x)
  BY <1>1, <1>5, <1>6, <1>7, Zenon DEF Mentions
<1>12. Orderly(t, users, isolation)
  BY <1>6, <1>8, <1>9, <1>10, Zenon DEF Orderly
<1> QED
  BY <1>4, <1>6, <1>7, <1>11, <1>12, Zenon DEF d, t
=============================================================================
