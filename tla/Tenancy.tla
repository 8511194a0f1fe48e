------------------------------ MODULE Tenancy ------------------------------
(***************************************************************************)
(* The manager that cmd/main.go starts, with two of its controllers: the   *)
(* Organization controller computes the roots that the OrganizationProject *)
(* controller waits for and writes on namespaces.  They meet only in the   *)
(* informer cache of organizations and profiles, which the first writes    *)
(* through and the second reads, and in the process they both live in.     *)
(***************************************************************************)
EXTENDS Naturals, Sequences

CONSTANTS
    None, Org,
    p,                  \* the name of a project
    MaxUid,             \* bound: how often an organization or the project is created
    MaxLag,             \* bound: events outstanding when others than the operator write
    Surroundings        \* what clients do to organizations and to the project

VARIABLES
    orgStore, orgCache, orgWatch, orgQueue, orgRec, nextUid, orgEnv, links,
    projStore, projCache, projWatch, projQueue, projRec, projUids, nsUids, projEnv, fresh

orgVars == <<orgStore, orgCache, orgWatch, orgQueue, orgRec, nextUid, orgEnv, links>>
projVars == <<projStore, projCache, projWatch, projQueue, projRec, projUids, nsUids, projEnv,
              fresh>>
vars == <<orgVars, projVars>>

Organizations == INSTANCE OrganizationController WITH
    store <- orgStore, cache <- orgCache, watch <- orgWatch, queue <- orgQueue,
    rec <- orgRec, env <- orgEnv,
    Surroundings <- {s[1] : s \in Surroundings}

\* What the project controller reads of organizations and profiles.
statusRoot ==
    LET view == orgCache["Organization"]
    IN  [o \in Org |-> IF view[o] = None THEN None ELSE view[o].root]
defaultIsolation ==
    LET view == orgCache["OrganizationProfile"]
    IN  [o \in Org |-> IF view[o] = None THEN None ELSE view[o].isolation]

Projects == INSTANCE ProjectController WITH
    store <- projStore, cache <- projCache, watch <- projWatch, queue <- projQueue,
    rec <- projRec, uids <- projUids, env <- projEnv,
    Surroundings <- {s[2] : s \in Surroundings},
    root <- statusRoot, defaults <- defaultIsolation

ASSUME TenancyAssumption ==
    /\ p \notin Projects!Role \cup Projects!managedNetworkPolicies
    /\ None \notin Org \cup Nat \cup Projects!Isolation
    /\ None \notin Organizations!Organization \cup Organizations!OrganizationProfile
    /\ None \notin Projects!ProjectObject \cup Projects!NamespaceObject
                       \cup Projects!BindingObject \cup Projects!PolicyObject
    /\ MaxUid \in Nat /\ MaxLag \in Nat
    /\ Surroundings \subseteq Organizations!Surrounding \X Projects!Surrounding

Init == Organizations!Init /\ Projects!Init /\ <<orgEnv, projEnv>> \in Surroundings

\* Both controllers have workers and queues of their own.
OrganizationStep == UNCHANGED projVars /\ Organizations!Local
ProjectStep == UNCHANGED orgVars /\ Projects!Local

\* The process takes both controllers with it.
Restart == Organizations!Restart /\ Projects!Restart /\ UNCHANGED projEnv

Next == OrganizationStep \/ ProjectStep \/ Restart

Spec == Init /\ [][Next]_vars

\* Both workers run, and informers deliver what readiness depends on.  Two
\* organizations need no turns: one that fails waits for an event, not for the
\* other one's reconciliation.
Fairness ==
    /\ WF_vars(/\ UNCHANGED projVars
               /\ Organizations!OrganizationEvent \/ Organizations!ProfileEvent)
    /\ WF_vars(UNCHANGED projVars /\ Organizations!Work)
    /\ \A k \in Projects!Kind : WF_vars(UNCHANGED orgVars /\ Projects!Deliveries(k))
    /\ WF_vars(UNCHANGED orgVars /\ Projects!Work)

-----------------------------------------------------------------------------
(* Properties. *)

Namespace == projStore["Namespace"][p]
Project == projStore["OrganizationProject"][p]

\* The root label that ensureNamespace puts on a namespace comes from the lineage of
\* its organization, although it passes through a status, two caches and two workers
\* while organizations come and go: a lineage of at most three levels once led from
\* the organization to that root.
LabelFromLineage ==
    Namespace # None /\ Namespace.root # None =>
        Organizations!RootIn(links, Namespace.org, Namespace.root)

\* No organization had two parents in its lives.
SameParents == \A l, m \in links : l[1] = m[1] => l = m

=============================================================================
