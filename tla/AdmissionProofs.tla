-------------------------- MODULE AdmissionProofs --------------------------
(***************************************************************************)
(* Proofs about Admission, for all organizations, users, calls and initial *)
(* objects.  First its type invariant, and that authorization rests on     *)
(* evidence (AdmittedOnEvidence) however reads, writes and events          *)
(* interleave.  Then what the validators promise of the stored objects:    *)
(* references never change, profiles and MaaSConfigurations carry the name *)
(* of their organization, MaaSConfigurations belong to roots, and no       *)
(* project comes before its quota.  Each handler checks on its way what    *)
(* the write it admits needs (Checked), and later steps of others cannot   *)
(* take it back, since past only grows and Persist stores only over the    *)
(* object the call was validated against.  Last, that the bounded walk of  *)
(* ancestorAdmin gives the verdict of the whole lineage (WalkInv).         *)
(***************************************************************************)
EXTENDS Admission, TLAPS

Pc == {"unmade", "new", "admitted"} \cup Reading \cup Outcome
Record == [pc : Pc, old : Object \cup {None}, cur : Org \cup {None},
           hops : 0..maxAncestorWalk, limit : Nat]

\* What the assumptions say of one call.
LEMMA CallFacts ==
    ASSUME NEW c \in Calls
    PROVE  /\ c.verb \in {"create", "update", "delete"} /\ c.kind \in Kind
           /\ c.name \in Name /\ IsKind(c.kind, c.obj)
           /\ c.verb # "delete" => c.obj # None /\ c.obj \in Object
           /\ c.verb = "delete" => c.obj = None
           /\ c.kind = "Organization" => c.name \in Org
  BY ConstantsAssumption DEF Call

\* A handler leaves a call at one of six control points.
LEMMA WebhookPc ==
    ASSUME NEW c \in Calls, NEW old
    PROVE  Webhook(c, old) \in {"invalid", "admitted", "quotaProfile", "selfAdmin",
                                "requireSelfAdmin", "getOrganization"}
  BY DEF Webhook, OrganizationValidateCreate, OrganizationValidateUpdate,
         OrganizationProfileValidateCreate, OrganizationProfileValidateUpdate,
         OrganizationProjectValidateCreate, OrganizationProjectValidateUpdate,
         validate, MaaSConfigurationValidateCreate, MaaSConfigurationValidateUpdate,
         MaaSConfigurationValidateDelete, requireAncestorAdmin, requireSelfAdmin, Authorized

\* The organization a handler asks about is an organization, or none.
LEMMA TargetType ==
    ASSUME NEW c \in Calls, NEW old, IsKind(c.kind, old), c.verb # "create" => old # None
    PROVE  Target(c, old) \in Org \cup {None}
  <1>1. CASE c.kind = "Organization"
    BY <1>1, CallFacts DEF Target, IsKind, Organization
  <1>2. CASE c.kind # "Organization"
    BY <1>2, CallFacts DEF Target, IsKind, Kind, OrganizationProfile,
                           OrganizationProject, MaaSConfiguration
  <1> QED BY <1>1, <1>2

\* Config and MaaSConfigurations always belong to an organization.
LEMMA TargetOfSelf ==
    ASSUME NEW c \in Calls, NEW old, IsKind(c.kind, old), c.verb # "create" => old # None,
           NeedsSelf(c, old)
    PROVE  Target(c, old) # None
  <1>1. c.kind \in {"MaaSConfiguration", "OrganizationProfile"}
    BY DEF NeedsSelf
  <1>2. Target(c, old) \in Org
    BY <1>1, CallFacts, Zenon DEF Target, IsKind, OrganizationProfile, MaaSConfiguration
  <1> QED BY <1>2, ConstantsAssumption

\* Where a handler leaves a call agrees with what the call needs: admitted
\* without a read only if trusted or unvalidated.
LEMMA WebhookEvidence ==
    ASSUME NEW c \in Calls, NEW old
    PROVE  LET pc == Webhook(c, old)
           IN  /\ pc = "selfAdmin" => NeedsAncestor(c, old)
               /\ pc \in {"requireSelfAdmin", "getOrganization"} => NeedsSelf(c, old)
               /\ pc = "getOrganization" => c.verb # "delete"
               /\ pc = "quotaProfile" => c.kind = "OrganizationProject" /\ c.verb = "create"
               /\ pc \in Cleared /\ ~isTrusted(c.user) =>
                     ~NeedsSelf(c, old) /\ ~NeedsAncestor(c, old)
  <1> USE CallFacts DEF Webhook, NeedsAncestor, NeedsSelf, Cleared, Authorized,
                        requireAncestorAdmin, requireSelfAdmin
  <1>1. CASE c.kind = "Organization"
    BY <1>1 DEF OrganizationValidateCreate, OrganizationValidateUpdate
  <1>2. CASE c.kind = "OrganizationProfile"
    BY <1>2 DEF OrganizationProfileValidateCreate, OrganizationProfileValidateUpdate
  <1>3. CASE c.kind = "OrganizationProject"
    BY <1>3 DEF OrganizationProjectValidateCreate, OrganizationProjectValidateUpdate
  <1>4. CASE c.kind = "MaaSConfiguration"
    BY <1>4 DEF validate, MaaSConfigurationValidateCreate,
                MaaSConfigurationValidateUpdate, MaaSConfigurationValidateDelete
  <1> QED BY <1>1, <1>2, <1>3, <1>4 DEF Kind

-----------------------------------------------------------------------------
(* The type invariant. *)

\* A call's step that touches nothing but its own record keeps the types.
LEMMA ReadKeepsTypes ==
    ASSUME TypeOK, NEW c \in Calls, NEW r \in Record, IsKind(c.kind, r.old),
           req' = [req EXCEPT ![c] = r], UNCHANGED <<store, cache, watch, past>>,
           quiet' \subseteq Calls
    PROVE  TypeOK'
  BY DEF TypeOK, Record, Pc

\* A jump to a control point, all else unchanged.
LEMMA GotoKeepsTypes ==
    ASSUME TypeOK, NEW c \in Calls, NEW pc \in Pc, Goto(c, pc),
           UNCHANGED <<store, cache, watch, past>>, quiet' \subseteq Calls
    PROVE  TypeOK'
  <1> DEFINE r == [req[c] EXCEPT !.pc = pc]
  <1>1. r \in Record /\ r.old = req[c].old
    BY Zenon DEF TypeOK, Record, Pc
  <1>2. req' = [req EXCEPT ![c] = r]
    BY DEF Goto
  <1>3. IsKind(c.kind, r.old)
    BY <1>1 DEF TypeOK
  <1> QED BY <1>1, <1>2, <1>3, ReadKeepsTypes, Zenon

\* Entering a handler, at Submit and Readmit.
LEMMA EnterKeepsTypes ==
    ASSUME TypeOK, NEW c \in Calls, NEW old, old = store[c.kind][c.name],
           c.verb # "create" => old # None, Enter(c, old),
           UNCHANGED <<store, cache, watch, past>>, quiet' \subseteq Calls
    PROVE  TypeOK'
  <1> DEFINE r == [pc |-> Webhook(c, old), old |-> old, cur |-> Target(c, old),
                   hops |-> 0, limit |-> 0]
  <1>1. IsKind(c.kind, old) /\ old \in Object \cup {None}
    BY CallFacts DEF TypeOK, View
  <1>2. Target(c, old) \in Org \cup {None}
    BY <1>1, TargetType
  <1>3. Webhook(c, old) \in Pc
    BY WebhookPc DEF Pc, Reading, Outcome
  <1>4. r \in Record
    BY <1>1, <1>2, <1>3 DEF Record, maxAncestorWalk
  <1>5. req' = [req EXCEPT ![c] = r]
    BY DEF Enter
  <1> QED BY <1>1, <1>4, <1>5, ReadKeepsTypes, Zenon

\* What the API server stores is an object of the call's kind.
LEMMA PersistKeepsTypes ==
    ASSUME TypeOK, NEW c \in Calls, Persist(c)
    PROVE  TypeOK'
  <1> USE CallFacts
  <1>1. c.obj \in Object \cup {None} /\ IsKind(c.kind, c.obj)
    OBVIOUS
  <1>2. /\ store' \in View /\ cache' \in View
        /\ \A k \in Kind, n \in Name : IsKind(k, store'[k][n]) /\ IsKind(k, cache'[k][n])
    BY <1>1 DEF Persist, Current, Write, TypeOK, View, IsKind
  <1>3. /\ watch' \in [Kind -> Seq(Event)]
        /\ \A k \in Kind : \A i \in 1..Len(watch'[k]) : IsKind(k, watch'[k][i].obj)
    <2> DEFINE e == [name |-> c.name, obj |-> c.obj]
    <2>1. e \in Event /\ IsKind(c.kind, e.obj)
      BY <1>1 DEF Event
    <2>2. CASE watch' = watch
      BY <2>2 DEF TypeOK
    <2>3. CASE watch' = [watch EXCEPT ![c.kind] = Append(@, e)]
      BY <2>1, <2>3 DEF TypeOK
    <2> QED BY <2>2, <2>3 DEF Persist, Current, Write
  <1>4. /\ past' \in [Kind -> SUBSET (Name \X Object)]
        /\ \A k \in Kind : \A v \in past'[k] : IsKind(k, v[2])
    BY <1>1 DEF Persist, Current, TypeOK
  <1>5. /\ req' \in [Calls -> Record] /\ \A d \in Calls : IsKind(d.kind, req'[d].old)
    BY Zenon DEF Persist, Current, Goto, TypeOK, Record, Pc, Reading, Outcome
  <1> QED BY <1>2, <1>3, <1>4, <1>5, Zenon DEF TypeOK, Persist, Current, Record, Pc

\* An event brings an object of its kind to the cache.
LEMMA InformerKeepsTypes ==
    ASSUME TypeOK, NEW k \in Kind, Informer(k)
    PROVE  TypeOK'
  <1> DEFINE e == Head(watch[k])
  <1>1. watch[k] \in Seq(Event) /\ watch[k] # <<>> /\ Len(watch[k]) > 0
    BY DEF TypeOK, Informer, Deliver
  <1>2. e = watch[k][1] /\ e \in Event /\ IsKind(k, e.obj)
    BY <1>1 DEF TypeOK
  <1>3. /\ cache' \in View /\ \A j \in Kind, n \in Name : IsKind(j, cache'[j][n])
    BY <1>2 DEF Informer, Deliver, TypeOK, View, Event
  <1>4. /\ watch' \in [Kind -> Seq(Event)]
        /\ \A j \in Kind : \A i \in 1..Len(watch'[j]) : IsKind(j, watch'[j][i].obj)
    <2>1. /\ Tail(watch[k]) \in Seq(Event) /\ Len(Tail(watch[k])) = Len(watch[k]) - 1
          /\ \A i \in 1..Len(Tail(watch[k])) : Tail(watch[k])[i] = watch[k][i + 1]
      BY <1>1
    <2>2. \A i \in 1..Len(Tail(watch[k])) : IsKind(k, Tail(watch[k])[i].obj)
      <3> TAKE i \in 1..Len(Tail(watch[k]))
      <3>1. i + 1 \in 1..Len(watch[k])
        BY <1>1, <2>1
      <3> QED BY <2>1, <3>1, Zenon DEF TypeOK
    <2>3. watch' = [watch EXCEPT ![k] = Tail(watch[k])]
      BY DEF Informer, Deliver
    <2> QED BY <2>1, <2>2, <2>3 DEF TypeOK
  <1> QED BY <1>3, <1>4 DEF Informer, Deliver, TypeOK


\* TypeOK is kept by every step, given where handlers stand (EvidenceInv keeps
\* ancestorAdmin below its bound when it reads a parent).
LEMMA TypeStep == TypeOK /\ EvidenceInv /\ [Next]_vars => TypeOK'
  <1> SUFFICES ASSUME TypeOK, EvidenceInv, [Next]_vars PROVE TypeOK'
    OBVIOUS
  <1>1. ASSUME NEW c \in Calls, Submit(c) PROVE TypeOK'
    <2>1. quiet' \subseteq Calls /\ "failed" \in Pc
      BY <1>1 DEF Submit, TypeOK, Pc, Outcome
    <2>2. CASE c.verb # "create" /\ store[c.kind][c.name] = None
      BY <1>1, <2>1, <2>2, GotoKeepsTypes DEF Submit
    <2>3. CASE ~(c.verb # "create" /\ store[c.kind][c.name] = None)
      BY <1>1, <2>1, <2>3, EnterKeepsTypes, Zenon DEF Submit
    <2> QED BY <2>2, <2>3
  <1>2. ASSUME NEW c \in Calls, AncestorAdminSelf(c) PROVE TypeOK'
    <2>1. PICK pc \in Pc : Goto(c, pc)
      BY <1>2 DEF AncestorAdminSelf, WalkOver, Authorized, Pc, Reading, Outcome
    <2> QED BY <1>2, <2>1, GotoKeepsTypes DEF AncestorAdminSelf, WalkOver, others, TypeOK
  <1>3. ASSUME NEW c \in Calls, AncestorAdminParent(c) PROVE TypeOK'
    <2> DEFINE o == cache["Organization"][req[c].cur]
    <2>1. quiet' \subseteq Calls /\ UNCHANGED <<store, cache, watch, past>>
      BY <1>3 DEF AncestorAdminParent, NextIteration, others, TypeOK
    <2>2. CASE o = None
      BY <1>3, <2>1, <2>2, GotoKeepsTypes DEF AncestorAdminParent, NextIteration, Pc, Outcome
    <2>3. CASE o # None
      <3> DEFINE r == [req[c] EXCEPT !.pc = "selfAdmin", !.cur = o.parent, !.hops = @ + 1]
      <3>1. req[c] \in Record /\ req[c].cur # None /\ req[c].hops < maxAncestorWalk
        BY <1>3, Zenon DEF AncestorAdminParent, NextIteration, EvidenceInv, CallEvidence, TypeOK, Record, Pc
      <3>2. o \in Organization
        BY <2>3, <3>1 DEF TypeOK, IsKind, Kind, Name, Record
      <3>3. r \in Record /\ r.old = req[c].old
        <4>1. o.parent \in Org \cup {None}
          BY <3>2 DEF Organization
        <4>2. req[c].hops + 1 \in 0..maxAncestorWalk
          BY <3>1 DEF Record, maxAncestorWalk
        <4>3. "selfAdmin" \in Pc
          BY DEF Pc, Reading
        <4> HIDE DEF o
        <4> QED BY <3>1, <4>1, <4>2, <4>3, Zenon DEF Record
      <3>4. req' = [req EXCEPT ![c] = r]
        BY <1>3, <2>3, Zenon DEF AncestorAdminParent, NextIteration
      <3> QED BY <2>1, <3>3, <3>4, ReadKeepsTypes, Zenon DEF TypeOK
    <2> QED BY <2>2, <2>3
  <1>4. ASSUME NEW c \in Calls, RequireSelfAdmin(c) PROVE TypeOK'
    <2>1. PICK pc \in Pc : Goto(c, pc)
      BY <1>4 DEF RequireSelfAdmin, Authorized, Pc, Reading, Outcome
    <2> QED BY <1>4, <2>1, GotoKeepsTypes DEF RequireSelfAdmin, others, TypeOK
  <1>5. ASSUME NEW c \in Calls, QuotaProfile(c) PROVE TypeOK'
    <2> DEFINE p == cache["OrganizationProfile"][c.obj.org]
    <2>1. quiet' \subseteq Calls /\ UNCHANGED <<store, cache, watch, past>>
      BY <1>5 DEF QuotaProfile, others, TypeOK
    <2>2. CASE p = None
      BY <1>5, <2>1, <2>2, GotoKeepsTypes DEF QuotaProfile, Pc, Outcome
    <2>3. CASE p # None
      <3> DEFINE r == [req[c] EXCEPT !.pc = "quotaCount", !.limit = p.maxProjects]
      <3>1. c.kind = "OrganizationProject" /\ c.verb = "create" /\ req[c] \in Record
        BY <1>5 DEF QuotaProfile, EvidenceInv, CallEvidence, TypeOK, Record, Pc
      <3>2. c.obj.org \in Org
        BY <3>1, CallFacts, Zenon DEF IsKind, OrganizationProject
      <3>3. p \in OrganizationProfile
        BY <2>3, <3>2 DEF TypeOK, IsKind, Kind, Name
      <3>4. r \in Record /\ r.old = req[c].old
        BY <3>1, <3>3, Zenon DEF Record, Pc, Reading, OrganizationProfile
      <3>5. req' = [req EXCEPT ![c] = r]
        BY <1>5, <2>3, Zenon DEF QuotaProfile
      <3> QED BY <2>1, <3>4, <3>5, ReadKeepsTypes, Zenon DEF TypeOK
    <2> QED BY <2>2, <2>3
  <1>6. ASSUME NEW c \in Calls, QuotaCount(c) PROVE TypeOK'
    <2>1. PICK pc \in Pc : Goto(c, pc)
      BY <1>6, Zenon DEF QuotaCount, AtLimit, Pc, Outcome
    <2> QED BY <1>6, <2>1, GotoKeepsTypes DEF QuotaCount, AtLimit, others, TypeOK
  <1>7. ASSUME NEW c \in Calls, GetOrganization(c) PROVE TypeOK'
    <2>1. PICK pc \in Pc : Goto(c, pc)
      BY <1>7, Zenon DEF GetOrganization, IsRoot, Pc, Reading, Outcome
    <2> QED BY <1>7, <2>1, GotoKeepsTypes DEF GetOrganization, IsRoot, others, TypeOK
  <1>8. ASSUME NEW c \in Calls, ListConfigurations(c) PROVE TypeOK'
    <2>1. PICK pc \in Pc : Goto(c, pc)
      BY <1>8, Zenon DEF ListConfigurations, requireSelfAdmin, Authorized, Pc, Reading, Outcome
    <2> QED BY <1>8, <2>1, GotoKeepsTypes DEF ListConfigurations, others, TypeOK
  <1>9. ASSUME NEW c \in Calls, ReadError(c) PROVE TypeOK'
    BY <1>9, GotoKeepsTypes, Zenon DEF ReadError, others, TypeOK, Pc, Outcome
  <1>10. ASSUME NEW c \in Calls, Persist(c) PROVE TypeOK'
    BY <1>10, PersistKeepsTypes
  <1>11. ASSUME NEW c \in Calls, PersistFails(c) PROVE TypeOK'
    BY <1>11, GotoKeepsTypes DEF PersistFails, others, TypeOK, Pc, Outcome
  <1>12. ASSUME NEW c \in Calls, Readmit(c) PROVE TypeOK'
    <2>1. quiet' \subseteq Calls /\ store[c.kind][c.name] # None
      BY <1>12, Zenon DEF Readmit, TypeOK
    <2> QED BY <1>12, <2>1, EnterKeepsTypes, Zenon DEF Readmit
  <1>13. ASSUME NEW k \in Kind, Informer(k) PROVE TypeOK'
    BY <1>13, InformerKeepsTypes
  <1>14. CASE UNCHANGED vars
    BY <1>14, Zenon DEF vars, TypeOK
  <1> QED BY <1>1, <1>2, <1>3, <1>4, <1>5, <1>6, <1>7, <1>8, <1>9, <1>10, <1>11,
             <1>12, <1>13, <1>14 DEF Next, Handle


-----------------------------------------------------------------------------
(* Evidence. *)

\* Evidence is never lost: past only grows.
LEMMA EvidenceKept ==
    ASSUME TypeOK, \A k \in Kind : past[k] \subseteq past'[k],
           NEW c \in Calls, NEW r \in Record, CallEvidence(c, r)
    PROVE  CallEvidence(c, r)'
  <1> DEFINE t == Target(c, r.old)
  <1>1. past["Organization"] \subseteq past'["Organization"]
        /\ past["OrganizationProfile"] \subseteq past'["OrganizationProfile"]
    BY DEF Kind
  <1>2. \A u, o : PastAdmin(u, o) => PastAdmin(u, o)'
    BY <1>1 DEF PastAdmin
  <1>3. \A o, k, f : PastClimb(o, k, f) => PastClimb(o, k, f)'
    BY <1>1 DEF PastClimb, PastParent
  <1>4. \A u, o : AncestorEvidence(u, o) => AncestorEvidence(u, o)'
    BY <1>2, <1>3 DEF AncestorEvidence
  <1>5. \A o, h, cur : Reached(o, h, cur) => Reached(o, h, cur)'
    BY <1>3 DEF Reached
  <1> QED BY <1>2, <1>4, <1>5 DEF CallEvidence

\* A step of one call that leaves store, caches and past alone.
LEMMA ReadKeepsEvidence ==
    ASSUME TypeOK, EvidenceInv, NEW c \in Calls, NEW r \in Record,
           req' = [req EXCEPT ![c] = r], UNCHANGED <<store, cache, watch, past>>,
           CallEvidence(c, r)
    PROVE  EvidenceInv'
  <1>1. KnownPast'
    BY DEF EvidenceInv, KnownPast
  <1>2. \A d \in Calls : req[d] \in Record
    BY DEF TypeOK, Record, Pc
  <1>3. ASSUME NEW d \in Calls PROVE CallEvidence(d, req[d])'
    <2>1. req'[d] = IF d = c THEN r ELSE req[d]
      BY DEF TypeOK
    <2>2. CallEvidence(d, req'[d])
      BY <2>1 DEF EvidenceInv
    <2>3. \A x \in Record : CallEvidence(d, x) => CallEvidence(d, x)'
      BY EvidenceKept
    <2> QED BY <1>2, <2>1, <2>2, <2>3
  <1> QED BY <1>1, <1>3, Zenon DEF EvidenceInv


\* A jump of call c to control point pc: only the demands of pc itself count.
LEMMA GotoKeepsEvidence ==
    ASSUME TypeOK, EvidenceInv, NEW c \in Calls, NEW pc \in Pc, Goto(c, pc),
           UNCHANGED <<store, cache, watch, past>>,
           CallEvidence(c, [req[c] EXCEPT !.pc = pc])
    PROVE  EvidenceInv'
  <1> DEFINE r == [req[c] EXCEPT !.pc = pc]
  <1>1. r \in Record
    BY Zenon DEF TypeOK, Record, Pc
  <1>2. req' = [req EXCEPT ![c] = r]
    BY DEF Goto
  <1> QED BY <1>1, <1>2, ReadKeepsEvidence, Zenon

\* A call that ends without a write needs no evidence.
LEMMA RefusalNeedsNothing ==
    ASSUME TypeOK, NEW c \in Calls, NEW pc \in {"invalid", "forbidden", "error", "failed"}
    PROVE  pc \in Pc /\ CallEvidence(c, [req[c] EXCEPT !.pc = pc])
  <1>1. [req[c] EXCEPT !.pc = pc].pc = pc
    BY DEF TypeOK
  <1> QED BY <1>1 DEF CallEvidence, Cleared, Pc, Outcome

\* A handler starts its walk at the target.
LEMMA EnterKeepsEvidence ==
    ASSUME TypeOK, EvidenceInv, NEW c \in Calls, NEW old, old = store[c.kind][c.name],
           c.verb # "create" => old # None, Enter(c, old),
           UNCHANGED <<store, cache, watch, past>>
    PROVE  EvidenceInv'
  <1> DEFINE t == Target(c, old)
             r == [pc |-> Webhook(c, old), old |-> old, cur |-> t, hops |-> 0, limit |-> 0]
  <1>1. IsKind(c.kind, old) /\ old \in Object \cup {None}
    BY CallFacts DEF TypeOK, View
  <1>2. t \in Org \cup {None}
    BY <1>1, TargetType, Zenon
  <1>3. r \in Record
    BY <1>1, <1>2, WebhookPc DEF Record, Pc, Reading, Outcome, maxAncestorWalk
  <1>4. Reached(t, 0, t)
    <2> SUFFICES ASSUME t # None
                 PROVE  \E f \in [1..(0 + 1) -> Org] : PastClimb(t, 0 + 1, f) /\ f[0 + 1] = t
      BY DEF Reached
    <2> DEFINE f == [i \in 1..1 |-> t]
    <2> HIDE DEF t
    <2>1. f \in [1..(0 + 1) -> Org] /\ f[1] = t
      BY <1>2
    <2>2. PastClimb(t, 0 + 1, f)
      BY <2>1 DEF PastClimb
    <2> QED BY <2>1, <2>2
  <1>5. CallEvidence(c, r)
    <2>1. r.pc = Webhook(c, old) /\ r.old = old /\ r.cur = t /\ r.hops = 0
      OBVIOUS
    <2> HIDE DEF r, t
    <2>2. Target(c, old) = t
      BY Zenon DEF t
    <2>3. NeedsSelf(c, old) => t # None
      BY <1>1, <2>2, TargetOfSelf, Zenon
    <2> QED BY <1>4, <2>1, <2>2, <2>3, WebhookPc, WebhookEvidence, Zenon DEF CallEvidence
  <1>6. req' = [req EXCEPT ![c] = r]
    BY DEF Enter
  <1> QED BY <1>3, <1>5, <1>6, ReadKeepsEvidence, Zenon

\* One iteration of ancestorAdmin lengthens the climb by one link.
LEMMA ClimbOn ==
    ASSUME TypeOK, KnownPast, NEW o, NEW h \in Nat, NEW cur \in Org,
           Reached(o, h, cur), cache["Organization"][cur] # None
    PROVE  Reached(o, h + 1, cache["Organization"][cur].parent)
  <1> DEFINE x == cache["Organization"][cur]
             q == x.parent
  <1>1. x \in Organization /\ <<cur, x>> \in past["Organization"]
    BY Zenon DEF TypeOK, KnownPast, IsKind, Kind, Name
  <1>2. x = [parent |-> q] /\ q \in Org \cup {None}
    BY <1>1 DEF Organization
  <1> HIDE DEF x, q
  <1>3. PastParent(cur, q)
    BY <1>1, <1>2 DEF PastParent
  <1>4. ASSUME q # None
        PROVE  \E g \in [1..(h + 2) -> Org] : PastClimb(o, h + 2, g) /\ g[h + 2] = q
    <2>1. cur # None
      BY ConstantsAssumption
    <2>2. PICK f \in [1..(h + 1) -> Org] : PastClimb(o, h + 1, f) /\ f[h + 1] = cur
      BY <2>1 DEF Reached
    <2> DEFINE g == [i \in 1..(h + 2) |-> IF i = h + 2 THEN q ELSE f[i]]
    <2>3. g \in [1..(h + 2) -> Org]
      BY <1>2, <1>4, <2>2
    <2>4. g[1] = o /\ g[h + 2] = q
      BY <2>2 DEF PastClimb
    <2>5. \A i \in 1..(h + 1) : PastParent(g[i], g[i + 1])
      <3> TAKE i \in 1..(h + 1)
      <3>1. CASE i = h + 1
        BY <1>3, <2>2, <3>1
      <3>2. CASE i # h + 1
        <4>1. i \in 1..h /\ g[i] = f[i] /\ g[i + 1] = f[i + 1]
          BY <3>2
        <4> QED BY <2>2, <4>1 DEF PastClimb
      <3> QED BY <3>1, <3>2
    <2> HIDE DEF g
    <2>6. PastClimb(o, h + 2, g)
      <3>1. (h + 2) - 1 = h + 1
        OBVIOUS
      <3> QED BY <2>4, <2>5, <3>1 DEF PastClimb
    <2> QED BY <2>3, <2>4, <2>6
  <1>5. (h + 1) + 1 = h + 2
    OBVIOUS
  <1> QED BY <1>4, <1>5 DEF Reached, q, x


\* Who is found in the cache was listed once.
LEMMA SelfAdminIsPast ==
    ASSUME TypeOK, KnownPast, NEW u, NEW o \in Org, selfAdmin(u, o)
    PROVE  PastAdmin(u, o)
  <1>1. /\ cache["OrganizationProfile"][o] # None
        /\ Lists(cache["OrganizationProfile"][o], u)
    BY DEF selfAdmin
  <1>2. <<o, cache["OrganizationProfile"][o]>> \in past["OrganizationProfile"]
    BY <1>1, Zenon DEF KnownPast, Kind, Name
  <1> QED BY <1>1, <1>2 DEF PastAdmin

\* KnownPast is kept by the two actions that write store, caches or past.
LEMMA PersistKeepsPast ==
    ASSUME TypeOK, KnownPast, NEW c \in Calls, Persist(c)
    PROVE  KnownPast' /\ \A k \in Kind : past[k] \subseteq past'[k]
  <1> USE CallFacts
  <1>1. \A k \in Kind : past[k] \subseteq past'[k]
    BY Zenon DEF Persist, Current, TypeOK
  <1>2. c.obj # None => <<c.name, c.obj>> \in past'[c.kind]
    BY Zenon DEF Persist, Current, TypeOK
  <1>3. \A k \in Kind, n \in Name :
           /\ store'[k][n] = IF k = c.kind /\ n = c.name THEN c.obj ELSE store[k][n]
           /\ cache'[k][n] = cache[k][n]
    BY DEF Persist, Current, Write, TypeOK, View
  <1>4. ASSUME NEW k \in Kind, NEW i \in 1..Len(watch'[k])
        PROVE  watch'[k][i].obj # None =>
                   <<watch'[k][i].name, watch'[k][i].obj>> \in past'[k]
    <2> DEFINE e == [name |-> c.name, obj |-> c.obj]
    <2>1. CASE watch'[k] = watch[k]
      BY <1>1, <2>1, Zenon DEF KnownPast
    <2>2. CASE k = c.kind /\ watch'[k] = Append(watch[k], e)
      <3>1. watch[k] \in Seq(Event) /\ e \in Event
        BY Zenon DEF TypeOK, Event
      <3>2. CASE i \in 1..Len(watch[k])
        <4>1. watch'[k][i] = watch[k][i]
          BY <2>2, <3>1, <3>2
        <4> QED BY <1>1, <3>2, <4>1, Zenon DEF KnownPast
      <3>3. CASE i \notin 1..Len(watch[k])
        <4>1. watch'[k][i] = e
          BY <2>2, <3>1, <3>3
        <4> QED BY <1>2, <2>2, <4>1
      <3> QED BY <3>2, <3>3
    <2> QED BY <2>1, <2>2, Zenon DEF Persist, Current, Write, TypeOK
  <1>5. ASSUME NEW k \in Kind, NEW n \in Name
        PROVE  /\ store'[k][n] # None => <<n, store'[k][n]>> \in past'[k]
               /\ cache'[k][n] # None => <<n, cache'[k][n]>> \in past'[k]
    <2>1. /\ store[k][n] # None => <<n, store[k][n]>> \in past'[k]
          /\ cache[k][n] # None => <<n, cache[k][n]>> \in past'[k]
      BY <1>1, Zenon DEF KnownPast
    <2> QED BY <1>2, <1>3, <2>1
  <1>6. KnownPast'
    BY <1>4, <1>5 DEF KnownPast
  <1> QED BY <1>1, <1>6

\* An event brings to the cache only what was stored once.
LEMMA InformerKeepsPast ==
    ASSUME TypeOK, KnownPast, NEW k \in Kind, Informer(k)
    PROVE  KnownPast'
  <1> DEFINE e == Head(watch[k])
  <1>1. watch[k] \in Seq(Event) /\ watch[k] # <<>> /\ Len(watch[k]) > 0
    BY DEF TypeOK, Informer, Deliver
  <1>2. e = watch[k][1] /\ e.name \in Name
    <2>1. e = watch[k][1] /\ e \in Event
      BY <1>1
    <2> QED BY <2>1 DEF Event
  <1>3. e.obj # None => <<e.name, e.obj>> \in past[k]
    BY <1>1, <1>2 DEF KnownPast
  <1> HIDE DEF e
  <1>4. ASSUME NEW j \in Kind, NEW n \in Name, cache'[j][n] # None
        PROVE  <<n, cache'[j][n]>> \in past[j]
    <2>1. cache'[j][n] = IF j = k /\ n = e.name THEN e.obj ELSE cache[j][n]
      BY <1>2 DEF Informer, Deliver, TypeOK, View, e
    <2> QED BY <1>3, <1>4, <2>1, Zenon DEF KnownPast
  <1>5. ASSUME NEW j \in Kind, NEW i \in 1..Len(watch'[j]), watch'[j][i].obj # None
        PROVE  <<watch'[j][i].name, watch'[j][i].obj>> \in past[j]
    <2>1. CASE j # k
      BY <1>5, <2>1, Zenon DEF Informer, Deliver, TypeOK, KnownPast
    <2>2. CASE j = k
      <3>1. watch'[j] = Tail(watch[k])
        BY <2>2 DEF Informer, Deliver, TypeOK
      <3>2. i + 1 \in 1..Len(watch[k]) /\ watch'[j][i] = watch[k][i + 1]
        BY <1>1, <3>1
      <3> QED BY <1>5, <2>2, <3>2 DEF KnownPast
    <2> QED BY <2>1, <2>2, Zenon
  <1>6. UNCHANGED <<store, past>>
    BY DEF Informer, Deliver
  <1> QED BY <1>4, <1>5, <1>6, Zenon DEF KnownPast

\* A user found h links up has ancestor evidence.
LEMMA ReachedIsEvidence ==
    ASSUME TypeOK, KnownPast, NEW u, NEW o, NEW h \in 0..(maxAncestorWalk - 1),
           NEW cur \in Org, Reached(o, h, cur), selfAdmin(u, cur)
    PROVE  AncestorEvidence(u, o)
  <1>1. PastAdmin(u, cur)
    BY SelfAdminIsPast
  <1>2. cur # None /\ h + 1 \in 1..maxAncestorWalk
    BY ConstantsAssumption DEF maxAncestorWalk
  <1>3. PICK f \in [1..(h + 1) -> Org] : PastClimb(o, h + 1, f) /\ f[h + 1] = cur
    BY <1>2 DEF Reached
  <1> QED BY <1>1, <1>2, <1>3 DEF AncestorEvidence

\* Authorization with the evidence in hand.
LEMMA AuthorizedKeepsEvidence ==
    ASSUME TypeOK, EvidenceInv, NEW c \in Calls, Goto(c, Authorized(c)),
           UNCHANGED <<store, cache, watch, past>>,
           isTrusted(c.user) \/
             /\ NeedsSelf(c, req[c].old) => PastAdmin(c.user, Target(c, req[c].old))
             /\ NeedsAncestor(c, req[c].old) => AncestorEvidence(c.user, Target(c, req[c].old))
    PROVE  EvidenceInv'
  <1> DEFINE r == [req[c] EXCEPT !.pc = Authorized(c)]
  <1>1. r.pc = Authorized(c) /\ r.old = req[c].old
    BY DEF TypeOK
  <1>2. /\ Authorized(c) \in {"quotaProfile", "admitted"}
        /\ Authorized(c) = "quotaProfile" =>
              c.kind = "OrganizationProject" /\ c.verb = "create"
    BY Zenon DEF Authorized
  <1>3. Authorized(c) \in Pc
    BY <1>2, Zenon DEF Pc, Reading
  <1>4. CallEvidence(c, r)
    <2> HIDE DEF r
    <2> QED BY <1>1, <1>2 DEF CallEvidence
  <1> QED BY <1>3, <1>4, GotoKeepsEvidence

\* A handler may refuse, and a call fail, at any time.
LEMMA RefusalKeepsEvidence ==
    ASSUME TypeOK, EvidenceInv, NEW c \in Calls,
           NEW pc \in {"invalid", "forbidden", "error", "failed"}, Goto(c, pc),
           UNCHANGED <<store, cache, watch, past>>
    PROVE  EvidenceInv'
  BY RefusalNeedsNothing, GotoKeepsEvidence, Zenon

\* Both reads of ancestorAdmin's loop.
LEMMA AncestorAdminKeepsEvidence ==
    ASSUME TypeOK, EvidenceInv, NEW c \in Calls,
           AncestorAdminSelf(c) \/ AncestorAdminParent(c)
    PROVE  EvidenceInv'
  <1> DEFINE t == Target(c, req[c].old)
  <1>1. /\ req[c] \in Record
        /\ NeedsAncestor(c, req[c].old) /\ Reached(t, req[c].hops, req[c].cur)
    BY DEF EvidenceInv, CallEvidence, TypeOK, Record, Pc, AncestorAdminSelf, WalkOver, AncestorAdminParent, NextIteration
  <1>2. /\ req[c].cur \in Org \cup {None} /\ req[c].hops \in 0..maxAncestorWalk
        /\ UNCHANGED <<store, cache, watch, past>>
    BY <1>1 DEF Record, AncestorAdminSelf, WalkOver, AncestorAdminParent, NextIteration, others
  <1>3. CASE AncestorAdminSelf(c)
    <2>1. CASE req[c].hops = maxAncestorWalk \/ req[c].cur = None
      <3>1. Goto(c, "forbidden")
        BY <1>3, <2>1 DEF AncestorAdminSelf, WalkOver
      <3> QED BY <1>2, <3>1, RefusalKeepsEvidence
    <2>2. CASE ~(req[c].hops = maxAncestorWalk \/ req[c].cur = None)
      <3>1. req[c].cur \in Org /\ req[c].hops \in 0..(maxAncestorWalk - 1)
        BY <1>2, <2>2 DEF maxAncestorWalk
      <3>2. CASE selfAdmin(c.user, req[c].cur)
        <4>1. AncestorEvidence(c.user, t)
          BY <1>1, <3>1, <3>2, ReachedIsEvidence, Zenon DEF EvidenceInv
        <4>2. ~NeedsSelf(c, req[c].old)
          BY <1>1, Zenon DEF NeedsAncestor
        <4>3. Goto(c, Authorized(c))
          BY <1>3, <2>2, <3>2 DEF AncestorAdminSelf, WalkOver
        <4> QED BY <1>2, <4>1, <4>2, <4>3, AuthorizedKeepsEvidence, Zenon
      <3>3. CASE ~selfAdmin(c.user, req[c].cur)
        <4> DEFINE r == [req[c] EXCEPT !.pc = "parent"]
        <4>1. Goto(c, "parent") /\ "parent" \in Pc
          BY <1>3, <2>2, <3>3 DEF AncestorAdminSelf, WalkOver, Pc, Reading
        <4>2. /\ r.pc = "parent" /\ r.old = req[c].old
              /\ r.cur = req[c].cur /\ r.hops = req[c].hops
          BY <1>1, Zenon DEF Record
        <4>3. CallEvidence(c, r)
          <5>1. req[c].hops < maxAncestorWalk
            BY <3>1 DEF maxAncestorWalk
          <5> HIDE DEF r
          <5> QED BY <1>1, <2>2, <4>2, <5>1 DEF CallEvidence, Cleared
        <4> QED BY <1>2, <4>1, <4>3, GotoKeepsEvidence, Zenon
      <3> QED BY <3>2, <3>3
    <2> QED BY <2>1, <2>2
  <1>4. CASE AncestorAdminParent(c)
    <2> DEFINE o == cache["Organization"][req[c].cur]
    <2>1. CASE o = None
      <3>1. Goto(c, "forbidden")
        BY <1>4, <2>1 DEF AncestorAdminParent, NextIteration
      <3> QED BY <1>2, <3>1, RefusalKeepsEvidence
    <2>2. CASE o # None
      <3> DEFINE r == [req[c] EXCEPT !.pc = "selfAdmin", !.cur = o.parent, !.hops = @ + 1]
      <3>1. req[c].cur \in Org /\ req[c].hops < maxAncestorWalk /\ req[c].hops \in Nat
        BY <1>2, <1>4 DEF AncestorAdminParent, NextIteration, EvidenceInv, CallEvidence, maxAncestorWalk
      <3>2. Reached(t, req[c].hops + 1, o.parent)
        BY <1>1, <2>2, <3>1, ClimbOn, Zenon DEF EvidenceInv
      <3>3. o.parent \in Org \cup {None}
        BY <2>2, <3>1 DEF TypeOK, IsKind, Kind, Name, Organization
      <3>4. req[c].hops + 1 \in 0..maxAncestorWalk /\ "selfAdmin" \in Pc
        BY <1>2, <3>1 DEF Pc, Reading, maxAncestorWalk
      <3>5. req' = [req EXCEPT ![c] = r]
        BY <1>4, <2>2, Zenon DEF AncestorAdminParent, NextIteration
      <3> HIDE DEF o
      <3>6. /\ r \in Record /\ r.pc = "selfAdmin" /\ r.old = req[c].old
            /\ r.cur = o.parent /\ r.hops = req[c].hops + 1
        BY <1>1, <3>3, <3>4, Zenon DEF Record
      <3>7. CallEvidence(c, r)
        <4> HIDE DEF r
        <4> QED BY <1>1, <3>2, <3>6 DEF CallEvidence, Cleared
      <3> QED BY <1>2, <3>5, <3>6, <3>7, ReadKeepsEvidence, Zenon
    <2> QED BY <2>1, <2>2
  <1> QED BY <1>3, <1>4, Zenon

\* The single reads of requireSelfAdmin and of validate.
LEMMA SelfAdminKeepsEvidence ==
    ASSUME TypeOK, EvidenceInv, NEW c \in Calls,
           RequireSelfAdmin(c) \/ GetOrganization(c) \/ ListConfigurations(c)
    PROVE  EvidenceInv'
  <1> DEFINE t == Target(c, req[c].old)
             r(pc) == [req[c] EXCEPT !.pc = pc]
  <1>1. /\ req[c] \in Record /\ NeedsSelf(c, req[c].old)
        /\ req[c].cur = t /\ req[c].cur # None
        /\ UNCHANGED <<store, cache, watch, past>>
    BY Zenon DEF EvidenceInv, CallEvidence, TypeOK, Record, Pc, RequireSelfAdmin,
           GetOrganization, IsRoot, ListConfigurations, others
  <1>2. ~NeedsAncestor(c, req[c].old)
    BY <1>1 DEF NeedsAncestor
  <1>3. ASSUME NEW pc \in {"requireSelfAdmin", "listConfigurations"}, Goto(c, pc),
               pc = "listConfigurations" => c.verb # "delete"
        PROVE  EvidenceInv'
    <2>1. r(pc).pc = pc /\ r(pc).old = req[c].old /\ r(pc).cur = req[c].cur
      BY <1>1 DEF Record
    <2>2. CallEvidence(c, r(pc))
      <3> HIDE DEF r
      <3> QED BY <1>1, <1>3, <2>1, Zenon DEF CallEvidence, Cleared
    <2> QED BY <1>1, <1>3, <2>2, GotoKeepsEvidence DEF Pc, Reading
  <1>4. CASE RequireSelfAdmin(c)
    <2>1. CASE selfAdmin(c.user, req[c].cur)
      <3>1. req[c].cur \in Org
        BY <1>1 DEF Record
      <3>2. PastAdmin(c.user, t)
        BY <1>1, <2>1, <3>1, SelfAdminIsPast, Zenon DEF EvidenceInv
      <3>3. Goto(c, Authorized(c))
        BY <1>4, <2>1 DEF RequireSelfAdmin
      <3> QED BY <1>1, <1>2, <3>2, <3>3, AuthorizedKeepsEvidence, Zenon
    <2>2. CASE ~selfAdmin(c.user, req[c].cur)
      <3>1. Goto(c, "forbidden")
        BY <1>4, <2>2, Zenon DEF RequireSelfAdmin
      <3> QED BY <1>1, <3>1, RefusalKeepsEvidence
    <2> QED BY <2>1, <2>2
  <1>5. CASE GetOrganization(c)
    <2>1. c.verb # "delete"
      BY <1>5 DEF GetOrganization, IsRoot, EvidenceInv, CallEvidence
    <2> QED BY <1>1, <1>3, <1>5, <2>1, RefusalKeepsEvidence, Zenon DEF GetOrganization, IsRoot
  <1>6. CASE ListConfigurations(c)
    <2>1. CASE isTrusted(c.user)
      <3>1. Goto(c, "invalid") \/ Goto(c, Authorized(c))
        BY <1>6, <2>1, Zenon DEF ListConfigurations, requireSelfAdmin
      <3> QED BY <1>1, <2>1, <3>1, RefusalKeepsEvidence, AuthorizedKeepsEvidence, Zenon
    <2>2. CASE ~isTrusted(c.user)
      <3>1. Goto(c, "invalid") \/ Goto(c, "requireSelfAdmin")
        BY <1>6, <2>2, Zenon DEF ListConfigurations, requireSelfAdmin
      <3> QED BY <1>1, <1>3, <3>1, RefusalKeepsEvidence, Zenon
    <2> QED BY <2>1, <2>2, Zenon
  <1> QED BY <1>4, <1>5, <1>6

\* Behind authorization the evidence stays with the call.
LEMMA ClearedEvidence ==
    ASSUME NEW c \in Calls, CallEvidence(c, req[c]), req[c].pc \in Cleared, NEW r,
           r.old = req[c].old, r.pc \in Cleared,
           r.pc \in {"quotaProfile", "quotaCount"} =>
               c.kind = "OrganizationProject" /\ c.verb = "create"
    PROVE  CallEvidence(c, r)
  BY Zenon DEF CallEvidence, Cleared

\* checkProjectQuota's two reads.
LEMMA QuotaKeepsEvidence ==
    ASSUME TypeOK, EvidenceInv, NEW c \in Calls, QuotaProfile(c) \/ QuotaCount(c)
    PROVE  EvidenceInv'
  <1>1. /\ req[c] \in Record /\ CallEvidence(c, req[c]) /\ req[c].pc \in Cleared
        /\ c.kind = "OrganizationProject" /\ c.verb = "create"
        /\ UNCHANGED <<store, cache, watch, past>>
    BY DEF EvidenceInv, CallEvidence, TypeOK, Record, Pc, Cleared, QuotaProfile,
           QuotaCount, AtLimit, others
  <1>2. CASE QuotaProfile(c)
    <2> DEFINE p == cache["OrganizationProfile"][c.obj.org]
    <2>1. CASE p = None
      BY <1>1, <1>2, <2>1, RefusalKeepsEvidence DEF QuotaProfile
    <2>2. CASE p # None
      <3> DEFINE r == [req[c] EXCEPT !.pc = "quotaCount", !.limit = p.maxProjects]
      <3>1. p \in OrganizationProfile
        <4>1. c.obj.org \in Org
          BY <1>1, CallFacts DEF IsKind, OrganizationProject
        <4> QED BY <2>2, <4>1, Zenon DEF TypeOK, IsKind, Kind, Name
      <3>2. r \in Record /\ r.old = req[c].old /\ r.pc = "quotaCount"
        BY <1>1, <3>1, Zenon DEF Record, Pc, Reading, OrganizationProfile
      <3>3. req' = [req EXCEPT ![c] = r]
        BY <1>2, <2>2, Zenon DEF QuotaProfile
      <3> HIDE DEF r
      <3>4. CallEvidence(c, r)
        BY <1>1, <3>2, ClearedEvidence DEF Cleared
      <3> QED BY <1>1, <3>2, <3>3, <3>4, ReadKeepsEvidence, Zenon
    <2> QED BY <2>1, <2>2
  <1>3. CASE QuotaCount(c)
    <2>1. PICK pc \in {"overQuota", "admitted"} : Goto(c, pc)
      BY <1>3 DEF QuotaCount, AtLimit
    <2> DEFINE r == [req[c] EXCEPT !.pc = pc]
    <2>2. r.old = req[c].old /\ r.pc = pc
      BY <1>1 DEF Record
    <2>3. CallEvidence(c, r)
      <3> HIDE DEF r
      <3> QED BY <1>1, <2>1, <2>2, ClearedEvidence DEF Cleared
    <2> QED BY <1>1, <2>1, <2>3, GotoKeepsEvidence DEF Pc, Outcome
  <1> QED BY <1>2, <1>3

\* A write adds to past and takes the call to "done", both on the call's evidence.
LEMMA PersistKeepsEvidence ==
    ASSUME TypeOK, EvidenceInv, NEW c \in Calls, Persist(c)
    PROVE  EvidenceInv'
  <1>1. KnownPast' /\ \A k \in Kind : past[k] \subseteq past'[k]
    BY PersistKeepsPast, Zenon DEF EvidenceInv
  <1>2. \A d \in Calls : req[d] \in Record /\ req'[d] \in Record
    BY PersistKeepsTypes DEF TypeOK, Record, Pc
  <1>3. ASSUME NEW d \in Calls PROVE CallEvidence(d, req'[d])
    <2>1. CASE d = c
      <3>1. req'[c].old = req[c].old /\ req'[c].pc = "done" /\ req[c].pc = "admitted"
        BY DEF Persist, Current, Goto, TypeOK
      <3> QED BY <2>1, <3>1, ClearedEvidence DEF Cleared, EvidenceInv
    <2>2. CASE d # c
      BY <2>2 DEF Persist, Current, Goto, TypeOK, EvidenceInv
    <2> QED BY <2>1, <2>2, Zenon
  <1>4. ASSUME NEW d \in Calls PROVE CallEvidence(d, req[d])'
    <2>1. \A x \in Record : CallEvidence(d, x) => CallEvidence(d, x)'
      BY <1>1, EvidenceKept
    <2> QED BY <1>2, <1>3, <2>1
  <1> QED BY <1>1, <1>4 DEF EvidenceInv

\* Events change no call.
LEMMA InformerKeepsEvidence ==
    ASSUME TypeOK, EvidenceInv, NEW k \in Kind, Informer(k)
    PROVE  EvidenceInv'
  <1>1. KnownPast' /\ UNCHANGED <<req, past>>
    BY InformerKeepsPast, Zenon DEF EvidenceInv, Informer
  <1>2. ASSUME NEW d \in Calls PROVE CallEvidence(d, req[d])'
    <2>1. \A x \in Record : CallEvidence(d, x) => CallEvidence(d, x)'
      BY <1>1, EvidenceKept
    <2> QED BY <1>1, <2>1, Zenon DEF TypeOK, Record, Pc, EvidenceInv
  <1> QED BY <1>1, <1>2 DEF EvidenceInv

\* Every step keeps the evidence: one case per action of Next.
LEMMA EvidenceStep == TypeOK /\ EvidenceInv /\ [Next]_vars => EvidenceInv'
  <1> SUFFICES ASSUME TypeOK, EvidenceInv, [Next]_vars PROVE EvidenceInv'
    OBVIOUS
  <1>1. ASSUME NEW c \in Calls, Submit(c) PROVE EvidenceInv'
    <2>1. UNCHANGED <<store, cache, watch, past>>
      BY <1>1 DEF Submit
    <2>2. CASE c.verb # "create" /\ store[c.kind][c.name] = None
      <3>1. Goto(c, "failed")
        BY <1>1, <2>2, Zenon DEF Submit
      <3> QED BY <2>1, <3>1, RefusalKeepsEvidence
    <2>3. CASE ~(c.verb # "create" /\ store[c.kind][c.name] = None)
      BY <1>1, <2>1, <2>3, EnterKeepsEvidence DEF Submit
    <2> QED BY <2>2, <2>3
  <1>2. ASSUME NEW c \in Calls, AncestorAdminSelf(c) \/ AncestorAdminParent(c)
        PROVE  EvidenceInv'
    BY <1>2, AncestorAdminKeepsEvidence
  <1>3. ASSUME NEW c \in Calls, RequireSelfAdmin(c) \/ GetOrganization(c) \/ ListConfigurations(c)
        PROVE  EvidenceInv'
    BY <1>3, SelfAdminKeepsEvidence
  <1>4. ASSUME NEW c \in Calls, QuotaProfile(c) \/ QuotaCount(c) PROVE EvidenceInv'
    BY <1>4, QuotaKeepsEvidence
  <1>5. ASSUME NEW c \in Calls, ReadError(c) PROVE EvidenceInv'
    BY <1>5, RefusalKeepsEvidence DEF ReadError, others
  <1>6. ASSUME NEW c \in Calls, PersistFails(c) PROVE EvidenceInv'
    BY <1>6, RefusalKeepsEvidence DEF PersistFails, others
  <1>7. ASSUME NEW c \in Calls, Persist(c) PROVE EvidenceInv'
    BY <1>7, PersistKeepsEvidence, Zenon
  <1>8. ASSUME NEW c \in Calls, Readmit(c) PROVE EvidenceInv'
    BY <1>8, EnterKeepsEvidence DEF Readmit
  <1>9. ASSUME NEW k \in Kind, Informer(k) PROVE EvidenceInv'
    BY <1>9, InformerKeepsEvidence
  <1>10. CASE UNCHANGED vars
    <2>1. KnownPast' /\ UNCHANGED <<req, past>>
      BY <1>10, Zenon DEF vars, EvidenceInv, KnownPast
    <2>2. ASSUME NEW d \in Calls PROVE CallEvidence(d, req[d])'
      <3>1. \A x \in Record : CallEvidence(d, x) => CallEvidence(d, x)'
        BY <2>1, EvidenceKept
      <3> QED BY <2>1, <3>1 DEF TypeOK, Record, Pc, EvidenceInv
    <2> QED BY <2>1, <2>2, Zenon DEF EvidenceInv
  <1> QED BY <1>1, <1>2, <1>3, <1>4, <1>5, <1>6, <1>7, <1>8, <1>9, <1>10 DEF Next, Handle

\* Nothing has been read yet, and the store is all there ever was.
LEMMA Initially == Init => TypeOK /\ EvidenceInv
  <1> SUFFICES ASSUME NEW s \in Scenarios, InitIn(s) PROVE TypeOK /\ EvidenceInv
    BY Zenon DEF Init
  <1>1. /\ store \in View /\ cache \in View /\ watch \in [Kind -> Seq(Event)]
        /\ \A k \in Kind, n \in Name : IsKind(k, store[k][n]) /\ IsKind(k, cache[k][n])
        /\ \A k \in Kind : \A i \in 1..Len(watch[k]) : IsKind(k, watch[k][i].obj)
    BY ConstantsAssumption DEF InitIn
  <1>2. /\ req \in [Calls -> Record] /\ \A c \in Calls : req[c].old = None
        /\ \A c \in Calls : req[c].pc \in {"new", "unmade"}
    <2> DEFINE made(c) == IF c \in s.calls THEN "new" ELSE "unmade"
    <2>1. req = [c \in Calls |-> [pc |-> made(c), old |-> None, cur |-> None,
                                  hops |-> 0, limit |-> 0]]
      BY DEF InitIn
    <2>2. \A c : made(c) \in {"new", "unmade"}
      OBVIOUS
    <2>3. {"new", "unmade"} \subseteq Pc
      BY DEF Pc
    <2> HIDE DEF made
    <2>4. \A c : [pc |-> made(c), old |-> None, cur |-> None,
                  hops |-> 0, limit |-> 0] \in Record
      BY <2>2, <2>3 DEF Record, maxAncestorWalk
    <2>5. \A c \in Calls : req[c] = [pc |-> made(c), old |-> None, cur |-> None,
                                     hops |-> 0, limit |-> 0]
      BY <2>1
    <2>6. req \in [Calls -> Record]
      BY <2>1, <2>4, Zenon
    <2> QED BY <2>2, <2>5, <2>6
  <1>3. past \in [Kind -> SUBSET (Name \X Object)]
    BY ConstantsAssumption DEF InitIn, View
  <1>4. \A k \in Kind : \A v \in past[k] : IsKind(k, v[2])
    BY ConstantsAssumption DEF InitIn
  <1>5. TypeOK
    BY <1>1, <1>2, <1>3, <1>4, Zenon DEF TypeOK, Record, Pc, IsKind, InitIn
  <1>6. KnownPast
    <2> DEFINE objects == s.store
    <2>1. /\ store = objects /\ cache = objects /\ watch = [k \in Kind |-> <<>>]
          /\ past = [k \in Kind |-> {<<n, objects[k][n]>> :
                                     n \in {m \in Name : objects[k][m] # None}}]
      BY DEF InitIn
    <2> HIDE DEF objects
    <2>2. ASSUME NEW k \in Kind, NEW n \in Name, objects[k][n] # None
          PROVE  <<n, objects[k][n]>> \in past[k]
      <3>1. past[k] = {<<m, objects[k][m]>> : m \in {x \in Name : objects[k][x] # None}}
        BY <2>1
      <3>2. n \in {x \in Name : objects[k][x] # None}
        BY <2>2
      <3> QED BY <3>1, <3>2
    <2>3. \A k \in Kind : 1..Len(watch[k]) = {}
      <3>1. 1..Len(<<>>) = {}
        OBVIOUS
      <3> QED BY <2>1, <3>1, Zenon
    <2> QED BY <2>1, <2>2, <2>3, Zenon DEF KnownPast
  <1>7. \A c \in Calls : CallEvidence(c, req[c])
    BY <1>2 DEF CallEvidence, Cleared
  <1> QED BY <1>5, <1>6, <1>7 DEF EvidenceInv

-----------------------------------------------------------------------------

\* The state of the API server, of the caches and of every call in flight keeps
\* its shape, and ancestorAdmin's loop counter its bound.
THEOREM TypeCorrect == Spec => []TypeOK
  <1>1. TypeOK /\ EvidenceInv /\ [Next]_vars => (TypeOK /\ EvidenceInv)'
    BY TypeStep, EvidenceStep
  <1> QED BY Initially, <1>1, PTL DEF Spec

\* No untrusted requester gets past the authorizer (isTrusted, ancestorAdmin,
\* requireSelfAdmin) who was not once listed as an admin where the call needs it,
\* for every hierarchy, every set of calls and every delay of the informers.
THEOREM EvidenceCorrect == Spec => []AdmittedOnEvidence
  <1>1. TypeOK /\ EvidenceInv /\ [Next]_vars => (TypeOK /\ EvidenceInv)'
    BY TypeStep, EvidenceStep
  <1>2. EvidenceInv => AdmittedOnEvidence
    BY Zenon DEF EvidenceInv, CallEvidence, AdmittedOnEvidence
  <1> QED BY Initially, <1>1, <1>2, PTL DEF Spec

-----------------------------------------------------------------------------
(* What is stored. *)

Pending == Reading \cup {"admitted"}
Singular == {"OrganizationProfile", "MaaSConfiguration"}

HadRoot(p, o) == <<o, [parent |-> None]>> \in p["Organization"]
HadLimit(p, o, l) == \E v \in p["OrganizationProfile"] : v[1] = o /\ v[2].maxProjects = l
HadQuota(p, o) == \E v \in p["OrganizationProfile"] : v[1] = o /\ v[2].maxProjects > 0

\* What a handler has found out by the control point the call is at.
Checked(p, c, r) ==
    /\ r.pc \in Pending /\ c.verb = "update" =>
          r.old # None /\ Reference(c.kind, r.old) = Reference(c.kind, c.obj)
    /\ r.pc \in Pending /\ c.verb = "create" /\ c.kind \in Singular => c.obj.org = c.name
    /\ /\ r.pc \in {"listConfigurations", "requireSelfAdmin", "admitted"}
       /\ c.kind = "MaaSConfiguration" /\ c.verb # "delete"
       => HadRoot(p, c.obj.org)
    /\ r.pc = "quotaCount" => HadLimit(p, c.obj.org, r.limit)
    /\ r.pc = "admitted" /\ c.kind = "OrganizationProject" /\ c.verb = "create" =>
          HadQuota(p, c.obj.org)

\* What is known of object x of kind k and name n, once it is stored.
Sound(p, k, n, x) ==
    x # None =>
        /\ k \in Singular => x.org = n
        /\ k = "MaaSConfiguration" => HadRoot(p, n)
        /\ k = "OrganizationProject" => HadQuota(p, x.org)

\* The inductive invariant.
CheckedInv ==
    /\ \A c \in Calls : Checked(past, c, req[c])
    /\ \A k \in Kind, n \in Name : Sound(past, k, n, store[k][n])

\* Objects once stored stay in past, and with them what was found out.
LEMMA FoundOutStays ==
    ASSUME NEW p, NEW q, \A k \in Kind : p[k] \subseteq q[k]
    PROVE  /\ \A c, r : Checked(p, c, r) => Checked(q, c, r)
           /\ \A k, n, x : Sound(p, k, n, x) => Sound(q, k, n, x)
  <1>1. /\ p["Organization"] \subseteq q["Organization"]
        /\ p["OrganizationProfile"] \subseteq q["OrganizationProfile"]
    BY DEF Kind
  <1>2. \A o : HadRoot(p, o) => HadRoot(q, o)
    BY <1>1 DEF HadRoot
  <1>3. \A o : HadQuota(p, o) => HadQuota(q, o)
    BY <1>1 DEF HadQuota
  <1>4. \A o, l : HadLimit(p, o, l) => HadLimit(q, o, l)
    BY <1>1, Zenon DEF HadLimit
  <1>5. ASSUME NEW c, NEW r, Checked(p, c, r) PROVE Checked(q, c, r)
    <2>1. /\ HadRoot(p, c.obj.org) => HadRoot(q, c.obj.org)
          /\ HadLimit(p, c.obj.org, r.limit) => HadLimit(q, c.obj.org, r.limit)
          /\ HadQuota(p, c.obj.org) => HadQuota(q, c.obj.org)
      BY <1>2, <1>3, <1>4, Zenon
    <2> QED BY <1>5, <2>1 DEF Checked
  <1>6. \A k, n, x : Sound(p, k, n, x) => Sound(q, k, n, x)
    BY <1>2, <1>3, Zenon DEF Sound
  <1> QED BY <1>5, <1>6, Zenon

\* A step of call c that touches nothing but its record.
LEMMA ReadKeepsChecked ==
    ASSUME TypeOK, CheckedInv, NEW c \in Calls, NEW r, Checked(past, c, r),
           req' = [req EXCEPT ![c] = r], UNCHANGED <<store, past>>
    PROVE  CheckedInv'
  BY DEF CheckedInv, TypeOK

\* A jump to pc, all else unchanged.
LEMMA GotoKeepsChecked ==
    ASSUME TypeOK, CheckedInv, NEW c \in Calls, NEW pc, Goto(c, pc),
           Checked(past, c, [req[c] EXCEPT !.pc = pc]), UNCHANGED <<store, past>>
    PROVE  CheckedInv'
  <1>1. req' = [req EXCEPT ![c] = [req[c] EXCEPT !.pc = pc]]
    BY DEF Goto
  <1> QED BY <1>1, ReadKeepsChecked, Zenon

\* A call that has come to its end needs nothing.
LEMMA OutcomeKeepsChecked ==
    ASSUME TypeOK, CheckedInv, NEW c \in Calls, NEW pc \in Outcome, Goto(c, pc),
           UNCHANGED <<store, past>>
    PROVE  CheckedInv'
  <1> DEFINE r == [req[c] EXCEPT !.pc = pc]
  <1>1. r.pc = pc
    BY DEF TypeOK
  <1>2. pc \notin Pending
    BY Zenon DEF Outcome, Pending, Reading
  <1>3. Checked(past, c, r)
    <2> HIDE DEF r
    <2> QED BY <1>1, <1>2, Zenon DEF Checked, Pending, Reading
  <1> QED BY <1>3, GotoKeepsChecked

\* What the handlers check before their first read.
LEMMA WebhookChecks ==
    ASSUME NEW c \in Calls, NEW old,
           Webhook(c, old) \in Pending
    PROVE  /\ c.verb = "update" => Reference(c.kind, old) = Reference(c.kind, c.obj)
           /\ c.verb = "create" /\ c.kind \in Singular => c.obj.org = c.name
           /\ c.kind = "MaaSConfiguration" /\ c.verb # "delete" =>
                 Webhook(c, old) = "getOrganization"
           /\ Webhook(c, old) # "quotaCount"
           /\ c.kind = "OrganizationProject" /\ c.verb = "create" =>
                 Webhook(c, old) # "admitted"
  <1>1. c.kind \in Kind /\ c.verb \in {"create", "update", "delete"}
        /\ Webhook(c, old) # "invalid" /\ Webhook(c, old) # "quotaCount"
    BY CallFacts, WebhookPc DEF Pending, Reading
  <1>2. CASE c.kind = "Organization"
    BY <1>1, <1>2 DEF Webhook, OrganizationValidateUpdate, Reference, Singular
  <1>3. CASE c.kind = "OrganizationProfile"
    BY <1>1, <1>3 DEF Webhook, OrganizationProfileValidateCreate,
                      OrganizationProfileValidateUpdate, Reference
  <1>4. CASE c.kind = "OrganizationProject"
    BY <1>1, <1>4 DEF Webhook, OrganizationProjectValidateCreate,
                      OrganizationProjectValidateUpdate, requireAncestorAdmin,
                      Authorized, Reference, Singular
  <1>5. CASE c.kind = "MaaSConfiguration"
    BY <1>1, <1>5 DEF Webhook, MaaSConfigurationValidateCreate,
                      MaaSConfigurationValidateUpdate, validate, Reference
  <1> QED BY <1>1, <1>2, <1>3, <1>4, <1>5 DEF Kind

\* Submit and Readmit.
LEMMA EnterKeepsChecked ==
    ASSUME TypeOK, CheckedInv, NEW c \in Calls, NEW old, Enter(c, old),
           c.verb # "create" => old # None, UNCHANGED <<store, past>>
    PROVE  CheckedInv'
  <1> DEFINE r == [pc |-> Webhook(c, old), old |-> old, cur |-> Target(c, old),
                   hops |-> 0, limit |-> 0]
  <1>1. req' = [req EXCEPT ![c] = r]
    BY DEF Enter
  <1>2. r.pc = Webhook(c, old) /\ r.old = old
    OBVIOUS
  <1>3. {"listConfigurations", "requireSelfAdmin", "admitted", "quotaCount"} \subseteq Pending
    BY DEF Pending, Reading
  <1>4. Checked(past, c, r)
    <2> HIDE DEF r
    <2>1. CASE Webhook(c, old) \in Pending
      BY <1>2, <2>1, WebhookChecks, Zenon DEF Checked
    <2>2. CASE Webhook(c, old) \notin Pending
      BY <1>2, <1>3, <2>2, Zenon DEF Checked
    <2> QED BY <2>1, <2>2, Zenon
  <1> QED BY <1>1, <1>4, ReadKeepsChecked, Zenon

\* A step from one read to the next control point, nothing new found out.
LEMMA NextKeepsChecked ==
    ASSUME NEW c \in Calls, NEW r, Checked(past, c, req[c]), req[c].pc \in Pending,
           r.old = req[c].old, r.pc # "quotaCount",
           r.pc \in {"listConfigurations", "requireSelfAdmin", "admitted"} =>
              \/ c.kind # "MaaSConfiguration"
              \/ c.verb = "delete"
              \/ HadRoot(past, c.obj.org),
           r.pc = "admitted" => \/ c.kind # "OrganizationProject" \/ c.verb # "create"
                                \/ HadQuota(past, c.obj.org)
    PROVE  Checked(past, c, r)
  BY DEF Checked

\* The reads of ancestorAdmin.
LEMMA AncestorAdminKeepsChecked ==
    ASSUME TypeOK, EvidenceInv, CheckedInv, NEW c \in Calls,
           AncestorAdminSelf(c) \/ AncestorAdminParent(c)
    PROVE  CheckedInv'
  <1>1. /\ req[c] \in Record /\ Checked(past, c, req[c]) /\ req[c].pc \in Pending
        /\ NeedsAncestor(c, req[c].old) /\ UNCHANGED <<store, past>>
    BY Zenon DEF EvidenceInv, CallEvidence, CheckedInv, TypeOK, Record, Pc, Pending, Reading,
           AncestorAdminSelf, AncestorAdminParent, others
  <1>2. c.kind # "MaaSConfiguration"
    BY <1>1 DEF NeedsAncestor, NeedsSelf
  <1>3. CASE AncestorAdminSelf(c)
    <2>1. PICK pc \in {"forbidden", Authorized(c), "parent"} : Goto(c, pc)
      BY <1>3 DEF AncestorAdminSelf
    <2> DEFINE r == [req[c] EXCEPT !.pc = pc]
    <2>2. r.pc = pc /\ r.old = req[c].old
      BY <1>1 DEF Record
    <2>3. /\ pc # "quotaCount"
          /\ pc = "admitted" => c.kind # "OrganizationProject" \/ c.verb # "create"
      BY <2>1, Zenon DEF Authorized
    <2>4. Checked(past, c, r)
      <3> HIDE DEF r
      <3> QED BY <1>1, <1>2, <2>2, <2>3, NextKeepsChecked
    <2> QED BY <1>1, <2>1, <2>4, GotoKeepsChecked, Zenon
  <1>4. CASE AncestorAdminParent(c)
    <2> DEFINE o == cache["Organization"][req[c].cur]
               r == [req[c] EXCEPT !.pc = "selfAdmin", !.cur = o.parent,
                                   !.hops = NextIteration(@)]
    <2>1. CASE o = None
      <3>1. Goto(c, "forbidden")
        BY <1>4, <2>1 DEF AncestorAdminParent
      <3> QED BY <1>1, <3>1, OutcomeKeepsChecked DEF Outcome
    <2>2. CASE o # None
      <3>1. req' = [req EXCEPT ![c] = r]
        BY <1>4, <2>2, Zenon DEF AncestorAdminParent
      <3>2. r.pc = "selfAdmin" /\ r.old = req[c].old
        BY <1>1 DEF Record
      <3> HIDE DEF r
      <3>3. Checked(past, c, r)
        BY <1>1, <1>2, <3>2, NextKeepsChecked
      <3> QED BY <1>1, <3>1, <3>3, ReadKeepsChecked, Zenon
    <2> QED BY <2>1, <2>2
  <1> QED BY <1>3, <1>4, Zenon

\* The reads of requireSelfAdmin and of validate: GetOrganization finds a root.
LEMMA SelfAdminKeepsChecked ==
    ASSUME TypeOK, EvidenceInv, CheckedInv, NEW c \in Calls,
           RequireSelfAdmin(c) \/ GetOrganization(c) \/ ListConfigurations(c)
    PROVE  CheckedInv'
  <1>1. /\ req[c] \in Record /\ Checked(past, c, req[c]) /\ req[c].pc \in Pending
        /\ NeedsSelf(c, req[c].old) /\ UNCHANGED <<store, past>>
    BY Zenon DEF EvidenceInv, CallEvidence, CheckedInv, TypeOK, Record, Pc, Pending, Reading,
           RequireSelfAdmin, GetOrganization, ListConfigurations, others
  <1>2. c.kind # "OrganizationProject"
    BY <1>1, Zenon DEF NeedsSelf
  <1>3. ASSUME NEW pc \in {"forbidden", "invalid", Authorized(c), "requireSelfAdmin",
                           "listConfigurations"}, Goto(c, pc),
               c.kind = "MaaSConfiguration" /\ c.verb # "delete" /\ pc # "invalid"
                  => HadRoot(past, c.obj.org)
        PROVE  CheckedInv'
    <2> DEFINE r == [req[c] EXCEPT !.pc = pc]
    <2>1. r.pc = pc /\ r.old = req[c].old
      BY <1>1 DEF Record
    <2>2. pc # "quotaCount"
      BY <1>2, Zenon DEF Authorized
    <2>3. Checked(past, c, r)
      <3> HIDE DEF r
      <3> QED BY <1>1, <1>2, <1>3, <2>1, <2>2, NextKeepsChecked
    <2> QED BY <1>1, <1>3, <2>3, GotoKeepsChecked
  <1>4. CASE RequireSelfAdmin(c) \/ ListConfigurations(c)
    <2>1. c.kind = "MaaSConfiguration" /\ c.verb # "delete" => HadRoot(past, c.obj.org)
      BY <1>1, <1>4, Zenon DEF RequireSelfAdmin, ListConfigurations, Checked
    <2>2. PICK pc \in {"forbidden", "invalid", Authorized(c), "requireSelfAdmin"} : Goto(c, pc)
      BY <1>4, Zenon DEF RequireSelfAdmin, ListConfigurations, requireSelfAdmin
    <2> QED BY <1>3, <2>1, <2>2
  <1>5. CASE GetOrganization(c)
    <2> DEFINE o == cache["Organization"][c.obj.org]
    <2>1. CASE ~IsRoot(o)
      <3>1. Goto(c, "invalid")
        BY <1>5, <2>1 DEF GetOrganization
      <3> QED BY <1>1, <3>1, OutcomeKeepsChecked DEF Outcome
    <2>2. CASE IsRoot(o)
      <3>1. c.kind = "MaaSConfiguration" /\ c.verb # "delete" => HadRoot(past, c.obj.org)
        <4> HAVE c.kind = "MaaSConfiguration" /\ c.verb # "delete"
        <4>1. c.obj.org \in Name
          BY CallFacts DEF IsKind, MaaSConfiguration, Name
        <4>2. o \in Organization /\ <<c.obj.org, o>> \in past["Organization"]
          BY <2>2, <4>1, Zenon DEF TypeOK, EvidenceInv, KnownPast, IsRoot, IsKind, Kind
        <4>3. o = [parent |-> None]
          BY <2>2, <4>2, Zenon DEF IsRoot, Organization
        <4> QED BY <4>2, <4>3 DEF HadRoot
      <3>2. Goto(c, "listConfigurations")
        BY <1>5, <2>2, Zenon DEF GetOrganization
      <3> QED BY <1>3, <3>1, <3>2, Zenon
    <2> QED BY <2>1, <2>2
  <1> QED BY <1>4, <1>5

\* The two reads of checkProjectQuota: a count is never below zero, so that a
\* profile with room has a positive maxProjects.
LEMMA QuotaKeepsChecked ==
    ASSUME TypeOK, EvidenceInv, CheckedInv, NEW c \in Calls, QuotaProfile(c) \/ QuotaCount(c)
    PROVE  CheckedInv'
  <1>1. /\ req[c] \in Record /\ Checked(past, c, req[c]) /\ req[c].pc \in Pending
        /\ c.kind = "OrganizationProject" /\ c.verb = "create" /\ UNCHANGED <<store, past>>
    BY DEF EvidenceInv, CallEvidence, CheckedInv, TypeOK, Record, Pc, Pending, Reading,
           QuotaProfile, QuotaCount, others
  <1>2. CASE QuotaProfile(c)
    <2> DEFINE p == cache["OrganizationProfile"][c.obj.org]
               r == [req[c] EXCEPT !.pc = "quotaCount", !.limit = p.maxProjects]
    <2>1. CASE p = None
      <3>1. Goto(c, "invalid")
        BY <1>2, <2>1 DEF QuotaProfile
      <3> QED BY <1>1, <3>1, OutcomeKeepsChecked DEF Outcome
    <2>2. CASE p # None
      <3>1. c.obj.org \in Name
        BY <1>1, CallFacts DEF IsKind, OrganizationProject, Name
      <3>2. <<c.obj.org, p>> \in past["OrganizationProfile"]
        BY <2>2, <3>1, Zenon DEF EvidenceInv, KnownPast, Kind
      <3>3. HadLimit(past, c.obj.org, p.maxProjects)
        BY <3>2 DEF HadLimit
      <3>4. req' = [req EXCEPT ![c] = r]
        BY <1>2, <2>2, Zenon DEF QuotaProfile
      <3>5. r.pc = "quotaCount" /\ r.old = req[c].old /\ r.limit = p.maxProjects
        BY <1>1, Zenon DEF Record
      <3> HIDE DEF r, p
      <3>6. Checked(past, c, r)
        BY <1>1, <3>3, <3>5 DEF Checked, Singular
      <3> QED BY <1>1, <3>4, <3>6, ReadKeepsChecked, Zenon
    <2> QED BY <2>1, <2>2, Zenon
  <1>3. CASE QuotaCount(c)
    <2> DEFINE count == Cardinality(ProjectsOf(cache["OrganizationProject"], c.obj.org))
    <2>1. CASE AtLimit(count, req[c].limit)
      <3>1. Goto(c, "overQuota")
        BY <1>3, <2>1 DEF QuotaCount
      <3> QED BY <1>1, <3>1, OutcomeKeepsChecked, Zenon DEF Outcome
    <2>2. CASE ~AtLimit(count, req[c].limit)
      <3>1. count \in Nat
        <4>1. ProjectsOf(cache["OrganizationProject"], c.obj.org) \subseteq Name
          BY Zenon DEF ProjectsOf
        <4> QED BY <4>1, ConstantsAssumption DEF Name
      <3> HIDE DEF count
      <3>2. req[c].limit \in Nat /\ req[c].limit > 0
        BY <1>1, <2>2, <3>1 DEF AtLimit, Record
      <3>3. HadLimit(past, c.obj.org, req[c].limit)
        BY <1>1, <1>3, Zenon DEF QuotaCount, Checked
      <3>4. HadQuota(past, c.obj.org)
        BY <3>2, <3>3 DEF HadLimit, HadQuota
      <3>5. Goto(c, "admitted")
        BY <1>3, <2>2, Zenon DEF QuotaCount, count
      <3> DEFINE r == [req[c] EXCEPT !.pc = "admitted"]
      <3>6. r.pc = "admitted" /\ r.old = req[c].old
        BY <1>1, Zenon DEF Record
      <3>7. Checked(past, c, r)
        <4> HIDE DEF r
        <4> QED BY <1>1, <3>4, <3>6, NextKeepsChecked
      <3> QED BY <1>1, <3>5, <3>7, GotoKeepsChecked, Zenon
    <2> QED BY <2>1, <2>2
  <1> QED BY <1>2, <1>3

\* A write changes one object, the one the call names.
LEMMA PersistChanges ==
    ASSUME TypeOK, NEW c \in Calls, Persist(c)
    PROVE  /\ \A k \in Kind, n \in Name :
                 store'[k][n] = IF k = c.kind /\ n = c.name THEN c.obj ELSE store[k][n]
           /\ c.verb = "update" => store[c.kind][c.name] = req[c].old
           /\ c.verb = "create" => store[c.kind][c.name] = None
           /\ req[c].pc = "admitted"
  BY CallFacts, Zenon DEF Persist, Current, Write, TypeOK, View

\* What is stored was checked; what it replaces had the same reference.
LEMMA PersistKeepsChecked ==
    ASSUME TypeOK, EvidenceInv, CheckedInv, NEW c \in Calls, Persist(c)
    PROVE  CheckedInv'
  <1>1. \A k \in Kind : past[k] \subseteq past'[k]
    BY PersistKeepsPast, Zenon DEF EvidenceInv
  <1>2. Checked(past, c, req[c]) /\ req[c].pc \in Pending /\ req[c].pc = "admitted"
    BY PersistChanges, Zenon DEF CheckedInv, Pending
  <1>3. Sound(past, c.kind, c.name, c.obj)
    <2> SUFFICES ASSUME c.obj # None
                 PROVE  /\ c.kind \in Singular => c.obj.org = c.name
                        /\ c.kind = "MaaSConfiguration" => HadRoot(past, c.name)
                        /\ c.kind = "OrganizationProject" => HadQuota(past, c.obj.org)
      BY DEF Sound
    <2>1. c.verb \in {"create", "update"} /\ c.kind \in Kind /\ c.name \in Name
      BY CallFacts, Zenon
    <2>2. CASE c.verb = "create"
      BY <1>2, <2>2 DEF Checked, Singular
    <2>3. CASE c.verb = "update"
      <3>1. req[c].old = store[c.kind][c.name] /\ Sound(past, c.kind, c.name, req[c].old)
        BY <2>1, <2>3, PersistChanges, Zenon DEF CheckedInv
      <3>2. Reference(c.kind, req[c].old) = Reference(c.kind, c.obj)
        BY <1>2, <2>3, Zenon DEF Checked
      <3>3. req[c].old # None
        BY <1>2, <2>3, Zenon DEF Checked
      <3> QED BY <1>2, <2>3, <3>1, <3>2, <3>3, Zenon DEF Sound, Reference, Singular, Checked
    <2> QED BY <2>1, <2>2, <2>3, Zenon
  <1>4. ASSUME NEW k \in Kind, NEW n \in Name PROVE Sound(past', k, n, store'[k][n])
    <2>1. Sound(past, k, n, store'[k][n])
      BY <1>3, PersistChanges DEF CheckedInv
    <2> QED BY <1>1, <2>1, FoundOutStays, Zenon
  <1>5. ASSUME NEW d \in Calls PROVE Checked(past', d, req'[d])
    <2>1. CASE d = c
      <3>1. req'[c].pc = "done"
        BY Zenon DEF Persist, Goto, TypeOK
      <3> QED BY <2>1, <3>1 DEF Checked, Pending, Reading
    <2>2. CASE d # c
      <3>1. req'[d] = req[d] /\ Checked(past, d, req[d])
        BY <2>2, Zenon DEF Persist, Goto, TypeOK, CheckedInv
      <3> QED BY <1>1, <3>1, FoundOutStays
    <2> QED BY <2>1, <2>2, Zenon
  <1> QED BY <1>4, <1>5, Zenon DEF CheckedInv

\* Every step keeps what was checked: one case per action of Next.
LEMMA CheckedStep == TypeOK /\ EvidenceInv /\ CheckedInv /\ [Next]_vars => CheckedInv'
  <1> SUFFICES ASSUME TypeOK, EvidenceInv, CheckedInv, [Next]_vars PROVE CheckedInv'
    BY Zenon
  <1>1. ASSUME NEW c \in Calls, Submit(c) PROVE CheckedInv'
    <2>1. UNCHANGED <<store, past>>
      BY <1>1 DEF Submit
    <2>2. CASE c.verb # "create" /\ store[c.kind][c.name] = None
      <3>1. Goto(c, "failed")
        BY <1>1, <2>2, Zenon DEF Submit
      <3> QED BY <2>1, <3>1, OutcomeKeepsChecked, Zenon DEF Outcome
    <2>3. CASE ~(c.verb # "create" /\ store[c.kind][c.name] = None)
      BY <1>1, <2>1, <2>3, EnterKeepsChecked DEF Submit
    <2> QED BY <2>2, <2>3, Zenon
  <1>2. ASSUME NEW c \in Calls, AncestorAdminSelf(c) \/ AncestorAdminParent(c)
        PROVE  CheckedInv'
    BY <1>2, AncestorAdminKeepsChecked
  <1>3. ASSUME NEW c \in Calls, RequireSelfAdmin(c) \/ GetOrganization(c) \/ ListConfigurations(c)
        PROVE  CheckedInv'
    BY <1>3, SelfAdminKeepsChecked, Zenon
  <1>4. ASSUME NEW c \in Calls, QuotaProfile(c) \/ QuotaCount(c) PROVE CheckedInv'
    BY <1>4, QuotaKeepsChecked
  <1>5. ASSUME NEW c \in Calls, ReadError(c) \/ PersistFails(c) PROVE CheckedInv'
    BY <1>5, OutcomeKeepsChecked DEF ReadError, PersistFails, others, Outcome
  <1>6. ASSUME NEW c \in Calls, Persist(c) PROVE CheckedInv'
    BY <1>6, PersistKeepsChecked, Zenon
  <1>7. ASSUME NEW c \in Calls, Readmit(c) PROVE CheckedInv'
    BY <1>7, EnterKeepsChecked DEF Readmit
  <1>8. ASSUME NEW k \in Kind, Informer(k) PROVE CheckedInv'
    <2>1. UNCHANGED <<store, req, past>>
      BY <1>8, Zenon DEF Informer, Deliver
    <2> QED BY <2>1 DEF CheckedInv
  <1>9. CASE UNCHANGED vars
    BY <1>9, Zenon DEF vars, CheckedInv
  <1> QED BY <1>1, <1>2, <1>3, <1>4, <1>5, <1>6, <1>7, <1>8, <1>9 DEF Next, Handle

\* The objects of a scenario passed the validators; no call is in flight.
LEMMA InitiallyChecked == Init => CheckedInv
  <1> SUFFICES ASSUME NEW s \in Scenarios, InitIn(s) PROVE CheckedInv
    BY DEF Init
  <1>1. TypeOK /\ EvidenceInv
    BY Initially DEF Init
  <1>2. store = s.store /\ store \in View
    BY <1>1, Zenon DEF InitIn, TypeOK
  <1>3. ASSUME NEW c \in Calls PROVE Checked(past, c, req[c])
    <2>1. req[c].pc \in {"new", "unmade"}
      BY Zenon DEF InitIn
    <2> QED BY <2>1, Zenon DEF Checked, Pending, Reading
  <1>4. ASSUME NEW k \in Kind, NEW n \in Name PROVE Sound(past, k, n, store[k][n])
    <2> SUFFICES ASSUME store[k][n] # None
                 PROVE  /\ k \in Singular => store[k][n].org = n
                        /\ k = "MaaSConfiguration" => HadRoot(past, n)
                        /\ k = "OrganizationProject" => HadQuota(past, store[k][n].org)
      BY Zenon DEF Sound
    <2>1. k \in Singular => store[k][n].org = n
      BY <1>2, StoreAssumption DEF Singular
    <2>2. k = "MaaSConfiguration" => HadRoot(past, n)
      <3> HAVE k = "MaaSConfiguration"
      <3>1. store["Organization"][n] = [parent |-> None]
        BY <1>2, StoreAssumption, Zenon
      <3>2. store["Organization"][n] # None
        BY <3>1, ConstantsAssumption DEF Object, Organization
      <3> QED BY <1>1, <3>1, <3>2, Zenon DEF EvidenceInv, KnownPast, HadRoot, Kind
    <2>3. k = "OrganizationProject" => HadQuota(past, store[k][n].org)
      <3> HAVE k = "OrganizationProject"
      <3> DEFINE o == store[k][n].org
      <3>1. o \in Name
        BY <1>1 DEF TypeOK, IsKind, OrganizationProject, Name
      <3>2. /\ store["OrganizationProfile"][o] # None
            /\ store["OrganizationProfile"][o].maxProjects > 0
        BY <1>2, StoreAssumption, Zenon
      <3> QED BY <1>1, <3>1, <3>2, Zenon DEF EvidenceInv, KnownPast, HadQuota, Kind
    <2> QED BY <2>1, <2>2, <2>3, Zenon
  <1> QED BY <1>3, <1>4 DEF CheckedInv

\* A step either leaves the reference of an object alone or makes or deletes it.
LEMMA ReferencesStep ==
    ASSUME TypeOK, EvidenceInv, CheckedInv, [Next]_vars, NEW k \in Kind, NEW n \in Name,
           store[k][n] # None, store'[k][n] # None
    PROVE  Reference(k, store'[k][n]) = Reference(k, store[k][n])
  <1>1. CASE \E c \in Calls : Persist(c)
    <2>1. PICK c \in Calls : Persist(c)
      BY <1>1, Zenon
    <2>2. CASE k = c.kind /\ n = c.name
      <3>1. c.verb = "update" /\ store[k][n] = req[c].old /\ store'[k][n] = c.obj
        BY <2>1, <2>2, PersistChanges, CallFacts, Zenon
      <3>2. Checked(past, c, req[c]) /\ req[c].pc \in Pending
        BY <2>1, Zenon DEF Persist, CheckedInv, Pending
      <3> QED BY <2>2, <3>1, <3>2, Zenon DEF Checked
    <2>3. CASE ~(k = c.kind /\ n = c.name)
      BY <2>1, <2>3, PersistChanges
    <2> QED BY <2>2, <2>3
  <1>2. CASE UNCHANGED store
    BY <1>2
  <1> QED BY <1>1, <1>2, Zenon DEF Next, Handle, Submit, AncestorAdminSelf, AncestorAdminParent,
       RequireSelfAdmin, QuotaProfile, QuotaCount, GetOrganization, ListConfigurations,
       ReadError, PersistFails, Readmit, Informer, Deliver, others, vars

-----------------------------------------------------------------------------

\* A profile or MaaSConfiguration is always the one named after its organization:
\* the create handlers compare the names, and no update moves the reference.
THEOREM OneEach == Spec => []OnePerOrganization
  <1>1. TypeOK /\ EvidenceInv /\ CheckedInv /\ [Next]_vars
            => (TypeOK /\ EvidenceInv /\ CheckedInv)'
    BY TypeStep, EvidenceStep, CheckedStep, Zenon
  <1>2. CheckedInv => OnePerOrganization
    BY DEF CheckedInv, Sound, Singular, OnePerOrganization, Kind
  <1> QED BY Initially, InitiallyChecked, <1>1, <1>2, PTL DEF Spec

\* validate lets a MaaSConfiguration pass only for an organization that it saw as
\* a root, however late its cache.
THEOREM ConfiguredRoots == Spec => []MaaSOnlyForRoots
  <1>1. TypeOK /\ EvidenceInv /\ CheckedInv /\ [Next]_vars
            => (TypeOK /\ EvidenceInv /\ CheckedInv)'
    BY TypeStep, EvidenceStep, CheckedStep
  <1>2. CheckedInv => MaaSOnlyForRoots
    BY Zenon DEF CheckedInv, Sound, HadRoot, MaaSOnlyForRoots, Kind
  <1> QED BY Initially, InitiallyChecked, <1>1, <1>2, PTL DEF Spec

\* checkProjectQuota lets no project pass before a profile of its organization
\* allows one, although it reads late and counts while others create.
THEOREM QuotaFirst == Spec => []NoProjectBeforeQuota
  <1>1. TypeOK /\ EvidenceInv /\ CheckedInv /\ [Next]_vars
            => (TypeOK /\ EvidenceInv /\ CheckedInv)'
    BY TypeStep, EvidenceStep, CheckedStep
  <1>2. CheckedInv => NoProjectBeforeQuota
    BY DEF CheckedInv, Sound, HadQuota, NoProjectBeforeQuota, Kind
  <1> QED BY Initially, InitiallyChecked, <1>1, <1>2, PTL DEF Spec

\* No update moves an organization under another parent, or an object to another
\* organization: ValidateUpdate compares with the object the update replaces.
THEOREM ReferencesStay == Spec => ReferencesImmutable
  <1>1. TypeOK /\ EvidenceInv /\ CheckedInv /\ [Next]_vars
            => (TypeOK /\ EvidenceInv /\ CheckedInv)'
    BY TypeStep, EvidenceStep, CheckedStep
  <1>2. TypeOK /\ EvidenceInv /\ CheckedInv /\ [Next]_vars =>
           [\A k \in Kind, n \in Name :
               store[k][n] # None /\ store'[k][n] # None =>
                   Reference(k, store'[k][n]) = Reference(k, store[k][n])]_vars
    BY ReferencesStep, Zenon
  <1> QED BY Initially, InitiallyChecked, <1>1, <1>2, PTL DEF Spec, ReferencesImmutable

-----------------------------------------------------------------------------
(* The verdicts of ancestorAdmin. *)

\* On the way up from o, none of the first h organizations has the user as admin;
Searched(u, o, h) ==
    \A k \in 1..3 : \A f \in [1..k -> Org] :
        Climb(o, k, f) => \A i \in 1..k : i <= h => ~selfAdmin(u, f[i])

\* who goes further up comes past cur,
Leads(o, h, cur) ==
    \A k \in 1..3 : \A f \in [1..k -> Org] :
        Climb(o, k, f) /\ k > h => f[h + 1] = cur

\* and cur, unless the root was passed, is h links up.
Climbed(o, h, cur) ==
    cur # None => \E f \in [1..(h + 1) -> Org] : Climb(o, h + 1, f) /\ f[h + 1] = cur

\* What a call knows of the lineage in the cache, and what its verdict says of it.
WalkStands(c, r) ==
    LET target == Target(c, r.old)
    IN  /\ r.pc \in {"selfAdmin", "parent"} =>
              /\ Searched(c.user, target, r.hops)
              /\ Leads(target, r.hops, r.cur) /\ Climbed(target, r.hops, r.cur)
        /\ r.pc = "parent" => ~selfAdmin(c.user, r.cur)
        /\ /\ NeedsAncestor(c, r.old) /\ ~isTrusted(c.user)
           /\ target # None /\ DepthAtMost(target, 3)
           => /\ r.pc = "forbidden" => ~AdminOfLineage(c.user, target, 3)
              /\ r.pc \in Cleared => AdminOfLineage(c.user, target, 3)

WalkInv == \A c \in quiet : WalkStands(c, req[c])

\* While the cache stays, so does what was read from it.
LEMMA WalkKept ==
    ASSUME UNCHANGED cache, NEW c, NEW r, WalkStands(c, r)
    PROVE  WalkStands(c, r)'
  <1>1. \A u, o : selfAdmin(u, o)' <=> selfAdmin(u, o)
    BY Zenon DEF selfAdmin
  <1>2. \A o, k, f : Climb(o, k, f)' <=> Climb(o, k, f)
    BY Zenon DEF Climb
  <1>3. \A u, o, h : Searched(u, o, h)' <=> Searched(u, o, h)
    BY <1>1, <1>2 DEF Searched
  <1>4. \A o, h, cur : Leads(o, h, cur)' <=> Leads(o, h, cur)
    BY <1>2 DEF Leads
  <1>5. \A o, h, cur : Climbed(o, h, cur)' <=> Climbed(o, h, cur)
    BY <1>2, Zenon DEF Climbed
  <1>6. \A o, n : DepthAtMost(o, n)' <=> DepthAtMost(o, n)
    BY <1>2, Zenon DEF DepthAtMost
  <1>7. \A u, o : AdminOfLineage(u, o, 3)' <=> AdminOfLineage(u, o, 3)
    BY <1>1, <1>2 DEF AdminOfLineage
  <1> QED BY <1>1, <1>3, <1>4, <1>5, <1>6, <1>7 DEF WalkStands

\* A step of one call, with nothing delivered.
LEMMA ReadKeepsWalk ==
    ASSUME TypeOK, WalkInv, NEW c \in Calls, NEW r, req' = [req EXCEPT ![c] = r],
           UNCHANGED cache, quiet' \subseteq quiet \cup {c}, c \in quiet' => WalkStands(c, r)
    PROVE  WalkInv'
  <1> SUFFICES ASSUME NEW d \in quiet' PROVE WalkStands(d, req[d])'
    BY Zenon DEF WalkInv
  <1>1. d \in Calls
    BY Zenon DEF TypeOK
  <1>2. req'[d] = IF d = c THEN r ELSE req[d]
    BY <1>1, Zenon DEF TypeOK
  <1>3. WalkStands(d, req'[d])
    BY <1>2 DEF WalkInv
  <1>4. \A x : WalkStands(d, x) => WalkStands(d, x)'
    BY WalkKept
  <1> QED BY <1>2, <1>3, <1>4, Zenon

\* A step outside of ancestorAdmin gives no verdict on the lineage.
LEMMA OtherKeepsWalk ==
    ASSUME TypeOK, WalkInv, NEW c \in Calls, NEW r, req' = [req EXCEPT ![c] = r],
           UNCHANGED cache, quiet' = quiet, r.old = req[c].old,
           r.pc \notin {"selfAdmin", "parent"},
           r.pc = "forbidden" => NeedsSelf(c, r.old),
           r.pc \in Cleared => NeedsSelf(c, r.old) \/ req[c].pc \in Cleared
    PROVE  WalkInv'
  <1>1. ASSUME c \in quiet PROVE WalkStands(c, r)
    <2>1. WalkStands(c, req[c])
      BY <1>1 DEF WalkInv
    <2> QED BY <2>1, Zenon DEF WalkStands, NeedsAncestor
  <1> QED BY <1>1, ReadKeepsWalk, Zenon

\* An organization at most three levels deep has at most three ancestors, itself
\* included.
LEMMA LineageBound ==
    ASSUME NEW o, DepthAtMost(o, 3), NEW k \in Nat \ {0}, NEW f \in [1..k -> Org], Climb(o, k, f)
    PROVE  k <= 3
  <1> DEFINE up(x) == cache["Organization"][x].parent
  <1>0. None \notin Org
    BY ConstantsAssumption
  <1>1. PICK m \in 1..3 : \E g \in [1..m -> Org] :
            Climb(o, m, g) /\ cache["Organization"][g[m]] = [parent |-> None]
    BY Zenon DEF DepthAtMost
  <1>2. PICK g \in [1..m -> Org] :
            Climb(o, m, g) /\ cache["Organization"][g[m]] = [parent |-> None]
    BY <1>1, Zenon
  <1>3. ASSUME NEW l, NEW e, Climb(o, l, e)
        PROVE  e[1] = o /\ \A i \in 1..(l - 1) : up(e[i]) = e[i + 1]
    <2>1. ASSUME NEW i \in 1..(l - 1) PROVE up(e[i]) = e[i + 1]
      <3>1. cache["Organization"][e[i]] = [parent |-> e[i + 1]]
        BY <1>3, Zenon DEF Climb
      <3> QED BY <3>1
    <2> QED BY <1>3, <2>1, Zenon DEF Climb
  <1>4. /\ f[1] = o /\ \A i \in 1..(k - 1) : up(f[i]) = f[i + 1]
        /\ g[1] = o /\ \A i \in 1..(m - 1) : up(g[i]) = g[i + 1]
        /\ up(g[m]) = None
    <2>1. up(g[m]) = None
      BY <1>2
    <2>2. g[1] = o /\ \A i \in 1..(m - 1) : up(g[i]) = g[i + 1]
      BY <1>2, <1>3, Zenon
    <2>3. f[1] = o /\ \A i \in 1..(k - 1) : up(f[i]) = f[i + 1]
      BY <1>3, Zenon
    <2> QED BY <2>1, <2>2, <2>3, Zenon
  <1> HIDE DEF up
  <1>5. k <= m
    <2> SUFFICES ASSUME k > m PROVE FALSE
      OBVIOUS
    <2>1. m \in {1, 2, 3} /\ m \in 1..(k - 1) /\ m + 1 \in 1..k
      OBVIOUS
    <2>2. f[m] = g[m]
      <3>1. CASE m = 1
        BY <1>4, <3>1, Zenon
      <3>2. ASSUME m > 1 PROVE f[2] = g[2]
        <4>1. 1 \in 1..(k - 1) /\ 1 \in 1..(m - 1) /\ 1 + 1 = 2
          BY <2>1, <3>2
        <4> QED BY <1>4, <4>1
      <3>3. CASE m = 3
        <4>1. 2 \in 1..(k - 1) /\ 2 \in 1..(m - 1) /\ 2 + 1 = 3
          BY <2>1, <3>3
        <4>2. up(f[2]) = f[3] /\ up(g[2]) = g[3]
          BY <1>4, <4>1, Zenon
        <4> QED BY <3>2, <3>3, <4>2
      <3> QED BY <2>1, <3>1, <3>2, <3>3
    <2>3. f[m + 1] = None
      BY <1>4, <2>1, <2>2
    <2>4. f[m + 1] \in Org
      BY <2>1, Zenon
    <2> QED BY <1>0, <2>3, <2>4
  <1> QED BY <1>5

\* ancestorAdmin goes one link up: who goes on from cur comes to its parent.
LEMMA WalkOn ==
    ASSUME TypeOK, NEW u, NEW o, NEW h \in Nat, NEW cur \in Org,
           Searched(u, o, h), Leads(o, h, cur), Climbed(o, h, cur), ~selfAdmin(u, cur),
           cache["Organization"][cur] # None
    PROVE  LET up == cache["Organization"][cur].parent
           IN  Searched(u, o, h + 1) /\ Leads(o, h + 1, up) /\ Climbed(o, h + 1, up)
  <1> DEFINE x == cache["Organization"][cur]
             up == x.parent
  <1>1. x \in Organization
    BY Zenon DEF TypeOK, IsKind, Kind, Name
  <1>2. x = [parent |-> up] /\ up \in Org \cup {None}
    BY <1>1, Zenon DEF Organization
  <1>3. Searched(u, o, h + 1)
    <2> SUFFICES ASSUME NEW k \in 1..3, NEW f \in [1..k -> Org], Climb(o, k, f),
                        NEW i \in 1..k, i <= h + 1
                 PROVE  ~selfAdmin(u, f[i])
      BY Zenon DEF Searched
    <2>1. CASE i <= h
      BY <2>1, Zenon DEF Searched
    <2>2. CASE i = h + 1
      <3>1. k > h
        BY <2>2
      <3> QED BY <2>2, <3>1, Zenon DEF Leads
    <2> QED BY <2>1, <2>2
  <1>4. Leads(o, h + 1, up)
    <2> SUFFICES ASSUME NEW k \in 1..3, NEW f \in [1..k -> Org], Climb(o, k, f),
                        k > h + 1
                 PROVE  f[h + 2] = up
      <3>1. (h + 1) + 1 = h + 2
        OBVIOUS
      <3> QED BY <3>1, Zenon DEF Leads
    <2>1. k > h /\ h + 1 \in 1..(k - 1)
      OBVIOUS
    <2>2. f[h + 1] = cur
      BY <2>1, Zenon DEF Leads
    <2>3. cache["Organization"][f[h + 1]] = [parent |-> f[(h + 1) + 1]]
      BY <2>1, Zenon DEF Climb
    <2>4. x = [parent |-> f[h + 2]]
      BY <2>2, <2>3
    <2> QED BY <2>4
  <1> HIDE DEF x, up
  <1>5. ASSUME up # None
        PROVE  \E g \in [1..(h + 2) -> Org] : Climb(o, h + 2, g) /\ g[h + 2] = up
    <2>1. cur # None
      BY ConstantsAssumption, Zenon
    <2>2. PICK f \in [1..(h + 1) -> Org] : Climb(o, h + 1, f) /\ f[h + 1] = cur
      BY <2>1, Zenon DEF Climbed
    <2> DEFINE g == [i \in 1..(h + 2) |-> IF i = h + 2 THEN up ELSE f[i]]
    <2>3. g \in [1..(h + 2) -> Org]
      BY <1>2, <1>5, <2>2
    <2>4. g[1] = o /\ g[h + 2] = up
      BY <2>2 DEF Climb
    <2>5. \A i \in 1..(h + 1) : cache["Organization"][g[i]] = [parent |-> g[i + 1]]
      <3> TAKE i \in 1..(h + 1)
      <3>1. CASE i = h + 1
        <4>1. g[i] = cur /\ g[i + 1] = up
          BY <2>2, <3>1
        <4> QED BY <1>2, <4>1, Zenon DEF x
      <3>2. CASE i # h + 1
        <4>1. i \in 1..h /\ g[i] = f[i] /\ g[i + 1] = f[i + 1] /\ (h + 1) - 1 = h
          BY <3>2
        <4> QED BY <2>2, <4>1, Zenon DEF Climb
      <3> QED BY <3>1, <3>2, Zenon
    <2> HIDE DEF g
    <2>6. Climb(o, h + 2, g)
      <3>1. (h + 2) - 1 = h + 1
        OBVIOUS
      <3> QED BY <2>4, <2>5, <3>1 DEF Climb
    <2> QED BY <2>3, <2>4, <2>6, Zenon
  <1>6. Climbed(o, h + 1, up)
    <2>1. (h + 1) + 1 = h + 2
      OBVIOUS
    <2> QED BY <1>5, <2>1 DEF Climbed
  <1> QED BY <1>3, <1>4, <1>6, Zenon DEF x, up

\* A handler starts its walk at the target, and gives no verdict before.
LEMMA EnterKeepsWalk ==
    ASSUME TypeOK, WalkInv, NEW c \in Calls, NEW old, old = store[c.kind][c.name],
           c.verb # "create" => old # None, Enter(c, old), UNCHANGED cache,
           quiet' = quiet \cup {c}
    PROVE  WalkInv'
  <1> DEFINE t == Target(c, old)
             r == [pc |-> Webhook(c, old), old |-> old, cur |-> t, hops |-> 0, limit |-> 0]
  <1>1. t \in Org \cup {None}
    BY CallFacts, TargetType DEF TypeOK
  <1>2. Searched(c.user, t, 0) /\ Leads(t, 0, t)
    <2> HIDE DEF t
    <2>1. Searched(c.user, t, 0)
      BY DEF Searched
    <2>2. 0 + 1 = 1 /\ \A k, f : Climb(t, k, f) => f[1] = t
      BY DEF Climb
    <2> QED BY <2>1, <2>2, Zenon DEF Leads
  <1>3. Climbed(t, 0, t)
    <2> SUFFICES ASSUME t # None
                 PROVE  \E f \in [1..(0 + 1) -> Org] : Climb(t, 0 + 1, f) /\ f[0 + 1] = t
      BY Zenon DEF Climbed
    <2> DEFINE f == [i \in 1..1 |-> t]
    <2> HIDE DEF t
    <2>1. f \in [1..(0 + 1) -> Org] /\ f[1] = t
      BY <1>1
    <2>2. Climb(t, 0 + 1, f)
      BY <2>1 DEF Climb
    <2> QED BY <2>1, <2>2
  <1>4. WalkStands(c, r)
    <2>1. r.pc = Webhook(c, old) /\ r.old = old /\ r.cur = t /\ r.hops = 0
      BY Zenon
    <2> HIDE DEF r, t
    <2>2. Target(c, old) = t
      BY Zenon DEF t
    <2>3. r.pc \notin {"forbidden", "parent"}
      BY <2>1, WebhookPc, Zenon
    <2>4. r.pc \in Cleared /\ ~isTrusted(c.user) => ~NeedsAncestor(c, old)
      BY <2>1, WebhookEvidence, Zenon
    <2> QED BY <1>2, <1>3, <2>1, <2>2, <2>3, <2>4, Zenon DEF WalkStands
  <1>5. req' = [req EXCEPT ![c] = r]
    BY DEF Enter
  <1> QED BY <1>4, <1>5, ReadKeepsWalk, Zenon

\* ancestorAdmin's reads, with the verdicts they lead to.
LEMMA AncestorAdminKeepsWalk ==
    ASSUME TypeOK, EvidenceInv, WalkInv, NEW c \in Calls,
           AncestorAdminSelf(c) \/ AncestorAdminParent(c)
    PROVE  WalkInv'
  <1> DEFINE t == Target(c, req[c].old)
             u == c.user
             h == req[c].hops
             cur == req[c].cur
  <1>1. /\ req[c] \in Record /\ req[c].pc \in {"selfAdmin", "parent"}
        /\ UNCHANGED cache /\ quiet' = quiet /\ CallEvidence(c, req[c])
    BY DEF AncestorAdminSelf, AncestorAdminParent, others, TypeOK, Record, Pc, EvidenceInv
  <1>2. /\ h \in 0..maxAncestorWalk /\ cur \in Org \cup {None}
        /\ req[c].pc = "parent" => cur \in Org /\ h < maxAncestorWalk
    BY <1>1, Zenon DEF CallEvidence, Record
  <1>3. ASSUME NEW r, req' = [req EXCEPT ![c] = r], c \in quiet => WalkStands(c, r) PROVE WalkInv'
    BY <1>1, <1>3, ReadKeepsWalk, Zenon
  <1>4. ASSUME c \in quiet
        PROVE  /\ Searched(u, t, h) /\ Leads(t, h, cur) /\ Climbed(t, h, cur)
               /\ req[c].pc = "parent" => ~selfAdmin(u, cur)
    BY <1>1, <1>4, Zenon DEF WalkInv, WalkStands
  <1>5. \A pc : LET r == [req[c] EXCEPT !.pc = pc]
                IN  r.pc = pc /\ r.old = req[c].old /\ r.cur = cur /\ r.hops = h
    BY <1>1 DEF Record
  <1> HIDE DEF t, u, h, cur
  <1>6. CASE AncestorAdminSelf(c) /\ WalkOver(req[c])
    <2> DEFINE r == [req[c] EXCEPT !.pc = "forbidden"]
    <2>1. req' = [req EXCEPT ![c] = r]
      BY <1>6, Zenon DEF AncestorAdminSelf, Goto
    <2>2. ASSUME c \in quiet, DepthAtMost(t, 3) PROVE ~AdminOfLineage(u, t, 3)
      <3> SUFFICES ASSUME NEW k \in 1..3, NEW f \in [1..k -> Org],
                          Climb(t, k, f), selfAdmin(u, f[k])
                   PROVE  FALSE
        BY Zenon DEF AdminOfLineage
      <3>1. k \in Nat \ {0} /\ k \in 1..k /\ None \notin Org
        BY ConstantsAssumption
      <3>2. Searched(u, t, h) /\ Leads(t, h, cur)
        BY <1>4, <2>2, Zenon
      <3>3. ~(k <= h)
        BY <3>1, <3>2, Zenon DEF Searched
      <3>4. k > h /\ h + 1 \in 1..k
        BY <1>2, <3>3
      <3>5. f[h + 1] = cur
        BY <3>2, <3>4, Zenon DEF Leads
      <3>6. h = 3 \/ cur = None
        BY <1>6 DEF WalkOver, maxAncestorWalk, h, cur
      <3> QED BY <1>2, <3>1, <3>4, <3>5, <3>6
    <2>3. r.pc = "forbidden" /\ r.old = req[c].old
      BY <1>5
    <2> HIDE DEF r
    <2>4. c \in quiet => WalkStands(c, r)
      BY <2>2, <2>3, Zenon DEF WalkStands, Cleared, t, u
    <2> QED BY <1>3, <2>1, <2>4, Zenon
  <1>7. CASE AncestorAdminSelf(c) /\ ~WalkOver(req[c]) /\ selfAdmin(u, cur)
    <2> DEFINE r == [req[c] EXCEPT !.pc = Authorized(c)]
    <2>1. req' = [req EXCEPT ![c] = r]
      BY <1>7 DEF AncestorAdminSelf, Goto, u, cur
    <2>2. ASSUME c \in quiet, DepthAtMost(t, 3) PROVE AdminOfLineage(u, t, 3)
      <3>1. cur # None /\ h + 1 \in Nat \ {0}
        BY <1>2, <1>7 DEF WalkOver, cur, maxAncestorWalk
      <3>2. PICK f \in [1..(h + 1) -> Org] : Climb(t, h + 1, f) /\ f[h + 1] = cur
        BY <1>4, <2>2, <3>1 DEF Climbed
      <3>3. h + 1 <= 3
        BY <2>2, <3>1, <3>2, LineageBound
      <3>4. h + 1 \in 1..3
        BY <3>1, <3>3
      <3> QED BY <1>7, <3>2, <3>4, Zenon DEF AdminOfLineage
    <2>3. r.pc \in {"quotaProfile", "admitted"} /\ r.old = req[c].old
      BY <1>5 DEF Authorized
    <2> HIDE DEF r
    <2>4. c \in quiet => WalkStands(c, r)
      BY <2>2, <2>3, Zenon DEF WalkStands, t, u
    <2> QED BY <1>3, <2>1, <2>4, Zenon
  <1>8. CASE AncestorAdminSelf(c) /\ ~WalkOver(req[c]) /\ ~selfAdmin(u, cur)
    <2> DEFINE r == [req[c] EXCEPT !.pc = "parent"]
    <2>1. req' = [req EXCEPT ![c] = r]
      BY <1>8 DEF AncestorAdminSelf, Goto, u, cur
    <2>2. r.pc = "parent" /\ r.old = req[c].old /\ r.cur = cur /\ r.hops = h
      BY <1>5
    <2> HIDE DEF r
    <2>3. c \in quiet => WalkStands(c, r)
      BY <1>4, <1>8, <2>2, Zenon DEF WalkStands, Cleared, t, u
    <2> QED BY <1>3, <2>1, <2>3, Zenon
  <1>9. CASE AncestorAdminParent(c) /\ cache["Organization"][cur] = None
    <2> DEFINE r == [req[c] EXCEPT !.pc = "forbidden"]
    <2>1. req' = [req EXCEPT ![c] = r] /\ req[c].pc = "parent"
      BY <1>9, Zenon DEF AncestorAdminParent, Goto, cur
    <2>2. ASSUME c \in quiet PROVE ~AdminOfLineage(u, t, 3)
      <3> SUFFICES ASSUME NEW k \in 1..3, NEW f \in [1..k -> Org],
                          Climb(t, k, f), selfAdmin(u, f[k])
                   PROVE  FALSE
        BY DEF AdminOfLineage
      <3>1. Searched(u, t, h) /\ Leads(t, h, cur) /\ k \in 1..k
        BY <1>4, <2>2
      <3>2. ~(k <= h)
        BY <3>1, Zenon DEF Searched
      <3>3. k > h
        BY <1>2, <3>2
      <3>4. f[h + 1] = cur
        BY <3>1, <3>3, Zenon DEF Leads
      <3>5. k # h + 1
        BY <1>4, <2>1, <2>2, <3>4, Zenon
      <3>6. h + 1 \in 1..(k - 1) /\ (h + 1) + 1 \in 1..k
        BY <1>2, <3>3, <3>5
      <3>7. None = [parent |-> f[(h + 1) + 1]]
        BY <1>9, <3>4, <3>6, Zenon DEF Climb
      <3>8. [parent |-> f[(h + 1) + 1]] \in Object
        BY <3>6 DEF Object, Organization
      <3> QED BY <3>7, <3>8, ConstantsAssumption, Zenon
    <2>3. r.pc = "forbidden" /\ r.old = req[c].old
      BY <1>5
    <2> HIDE DEF r
    <2>4. c \in quiet => WalkStands(c, r)
      BY <2>2, <2>3, Zenon DEF WalkStands, Cleared, t, u
    <2> QED BY <1>3, <2>1, <2>4, Zenon
  <1>10. CASE AncestorAdminParent(c) /\ cache["Organization"][cur] # None
    <2> DEFINE up == cache["Organization"][cur].parent
               r == [req[c] EXCEPT !.pc = "selfAdmin", !.cur = up, !.hops = h + 1]
    <2>1. req' = [req EXCEPT ![c] = r] /\ req[c].pc = "parent"
      BY <1>10, Zenon DEF AncestorAdminParent, NextIteration, cur, h
    <2>2. /\ r.pc = "selfAdmin" /\ r.old = req[c].old /\ r.cur = up /\ r.hops = h + 1
      BY <1>1 DEF Record
    <2>3. ASSUME c \in quiet
          PROVE  Searched(u, t, h + 1) /\ Leads(t, h + 1, up) /\ Climbed(t, h + 1, up)
      BY <1>2, <1>4, <1>10, <2>1, <2>3, WalkOn
    <2> HIDE DEF r, up
    <2>4. c \in quiet => WalkStands(c, r)
      BY <2>2, <2>3, Zenon DEF WalkStands, Cleared, t, u
    <2> QED BY <1>3, <2>1, <2>4, Zenon
  <1> QED BY <1>6, <1>7, <1>8, <1>9, <1>10, Zenon

\* The steps outside of ancestorAdmin that read, refuse or store.
LEMMA HandlersKeepWalk ==
    ASSUME TypeOK, EvidenceInv, WalkInv, NEW c \in Calls,
           \/ RequireSelfAdmin(c) \/ QuotaProfile(c) \/ QuotaCount(c) \/ GetOrganization(c)
           \/ ListConfigurations(c) \/ ReadError(c) \/ Persist(c) \/ PersistFails(c)
    PROVE  WalkInv'
  <1>1. /\ req[c] \in Record /\ UNCHANGED cache /\ quiet' = quiet /\ CallEvidence(c, req[c])
    BY DEF RequireSelfAdmin, QuotaProfile, QuotaCount, GetOrganization, ListConfigurations,
           ReadError, Persist, PersistFails, Write, others, TypeOK, Record, Pc, EvidenceInv
  <1>2. ASSUME NEW pc, Goto(c, pc), pc \notin {"selfAdmin", "parent"},
               pc = "forbidden" => NeedsSelf(c, req[c].old),
               pc \in Cleared => NeedsSelf(c, req[c].old) \/ req[c].pc \in Cleared
        PROVE  WalkInv'
    <2> DEFINE r == [req[c] EXCEPT !.pc = pc]
    <2>1. req' = [req EXCEPT ![c] = r]
      BY <1>2 DEF Goto
    <2>2. r.pc = pc /\ r.old = req[c].old
      BY <1>1 DEF Record
    <2> HIDE DEF r
    <2> QED BY <1>1, <1>2, <2>1, <2>2, OtherKeepsWalk, Zenon
  <1>3. Authorized(c) \in {"quotaProfile", "admitted"}
    BY Zenon DEF Authorized
  <1>4. CASE RequireSelfAdmin(c)
    <2>1. NeedsSelf(c, req[c].old)
      BY <1>1, <1>4, Zenon DEF RequireSelfAdmin, CallEvidence
    <2>2. PICK pc \in {"quotaProfile", "admitted", "forbidden"} : Goto(c, pc)
      BY <1>3, <1>4, Zenon DEF RequireSelfAdmin
    <2> QED BY <1>2, <2>1, <2>2
  <1>5. CASE QuotaProfile(c)
    <2> DEFINE p == cache["OrganizationProfile"][c.obj.org]
               r == [req[c] EXCEPT !.pc = "quotaCount", !.limit = p.maxProjects]
    <2>1. req[c].pc \in Cleared
      BY <1>5 DEF QuotaProfile, Cleared
    <2>2. CASE p = None
      BY <1>2, <1>5, <2>1, <2>2 DEF QuotaProfile
    <2>3. CASE p # None
      <3>1. req' = [req EXCEPT ![c] = r]
        BY <1>5, <2>3, Zenon DEF QuotaProfile
      <3>2. r.pc = "quotaCount" /\ r.old = req[c].old
        BY <1>1 DEF Record
      <3> HIDE DEF r
      <3> QED BY <1>1, <2>1, <3>1, <3>2, OtherKeepsWalk, Zenon
    <2> QED BY <2>2, <2>3, Zenon
  <1>6. CASE QuotaCount(c)
    <2>1. req[c].pc \in Cleared
      BY <1>6, Zenon DEF QuotaCount, Cleared
    <2>2. PICK pc \in {"overQuota", "admitted"} : Goto(c, pc)
      BY <1>6, Zenon DEF QuotaCount
    <2> QED BY <1>2, <2>1, <2>2, Zenon
  <1>7. CASE GetOrganization(c)
    <2>1. PICK pc \in {"listConfigurations", "invalid"} : Goto(c, pc)
      BY <1>7, Zenon DEF GetOrganization
    <2> QED BY <1>2, <2>1, Zenon DEF Cleared
  <1>8. CASE ListConfigurations(c)
    <2>1. NeedsSelf(c, req[c].old)
      BY <1>1, <1>8, Zenon DEF ListConfigurations, CallEvidence
    <2>2. PICK pc \in {"invalid", "quotaProfile", "admitted", "requireSelfAdmin"} : Goto(c, pc)
      BY <1>3, <1>8, Zenon DEF ListConfigurations, requireSelfAdmin
    <2> QED BY <1>2, <2>1, <2>2
  <1>9. CASE ReadError(c)
    BY <1>2, <1>9, Zenon DEF ReadError, Cleared
  <1>10. CASE Persist(c)
    BY <1>2, <1>10 DEF Persist, Cleared
  <1>11. CASE PersistFails(c)
    BY <1>2, <1>11, Zenon DEF PersistFails, Cleared
  <1> QED BY <1>4, <1>5, <1>6, <1>7, <1>8, <1>9, <1>10, <1>11, Zenon

\* Every step keeps the walks where they are known to stand.
LEMMA WalkStep == TypeOK /\ EvidenceInv /\ WalkInv /\ [Next]_vars => WalkInv'
  <1> SUFFICES ASSUME TypeOK, EvidenceInv, WalkInv, [Next]_vars PROVE WalkInv'
    OBVIOUS
  <1>1. ASSUME NEW c \in Calls, Submit(c) PROVE WalkInv'
    <2>1. UNCHANGED cache /\ quiet' = quiet \cup {c}
      BY <1>1 DEF Submit
    <2>2. CASE c.verb # "create" /\ store[c.kind][c.name] = None
      <3> DEFINE r == [req[c] EXCEPT !.pc = "failed"]
      <3>1. req' = [req EXCEPT ![c] = r] /\ r.pc = "failed"
        BY <1>1, <2>2, Zenon DEF Submit, Goto, TypeOK
      <3> HIDE DEF r
      <3>2. WalkStands(c, r)
        BY <3>1, Zenon DEF WalkStands, Cleared
      <3> QED BY <2>1, <3>1, <3>2, ReadKeepsWalk, Zenon
    <2>3. CASE ~(c.verb # "create" /\ store[c.kind][c.name] = None)
      BY <1>1, <2>1, <2>3, EnterKeepsWalk, Zenon DEF Submit
    <2> QED BY <2>2, <2>3
  <1>2. ASSUME NEW c \in Calls, Readmit(c) PROVE WalkInv'
    BY <1>2, EnterKeepsWalk DEF Readmit
  <1>3. ASSUME NEW c \in Calls, AncestorAdminSelf(c) \/ AncestorAdminParent(c) PROVE WalkInv'
    BY <1>3, AncestorAdminKeepsWalk
  <1>4. ASSUME NEW c \in Calls,
               \/ RequireSelfAdmin(c) \/ QuotaProfile(c) \/ QuotaCount(c) \/ GetOrganization(c)
               \/ ListConfigurations(c) \/ ReadError(c) \/ Persist(c) \/ PersistFails(c)
        PROVE  WalkInv'
    BY <1>4, HandlersKeepWalk
  <1>5. ASSUME NEW k \in Kind, Informer(k) PROVE WalkInv'
    BY <1>5 DEF Informer, WalkInv
  <1>6. CASE UNCHANGED vars
    <2>1. UNCHANGED <<cache, req, quiet>>
      BY <1>6 DEF vars
    <2>2. ASSUME NEW d \in quiet' PROVE WalkStands(d, req[d])'
      <3>1. \A x : WalkStands(d, x) => WalkStands(d, x)'
        BY <2>1, WalkKept, Zenon
      <3> QED BY <2>1, <3>1 DEF WalkInv
    <2> QED BY <2>2 DEF WalkInv
  <1> QED BY <1>1, <1>2, <1>3, <1>4, <1>5, <1>6, Zenon DEF Next, Handle

\* maxAncestorWalk is enough: whatever the hierarchy, the profiles and the calls, a
\* handler in whose run no event was delivered gives an organization at most three
\* levels deep the verdict of its full lineage.
THEOREM LineageVerdict == Spec => []LineageVerdictWithinDepth
  <1>1. Init => WalkInv
    BY DEF Init, InitIn, WalkInv
  <1>2. TypeOK /\ EvidenceInv /\ WalkInv /\ [Next]_vars => (TypeOK /\ EvidenceInv /\ WalkInv)'
    BY TypeStep, EvidenceStep, WalkStep
  <1>3. WalkInv => LineageVerdictWithinDepth
    BY Zenon DEF WalkInv, WalkStands, LineageVerdictWithinDepth
  <1> QED BY Initially, <1>1, <1>2, <1>3, PTL DEF Spec

=============================================================================
