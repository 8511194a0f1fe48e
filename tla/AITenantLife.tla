---------------------------- MODULE AITenantLife ----------------------------
(***************************************************************************)
(* What the MaaSConfiguration controller promises about the AITenant of an *)
(* organization, without caches, versions, conditions or retries: a        *)
(* configuration takes hold before its AITenant is made, and lets go only  *)
(* when that AITenant is on its way out or gone.  Others come and go.      *)
(***************************************************************************)
CONSTANTS
    None,
    Uid     \* UIDs of configurations

VARIABLES
    holder, \* the configuration that holds the AITenant with its finalizer, or None
    tenant  \* the AITenant: who made it (None: somebody else), is it leaving?

vars == <<holder, tenant>>

AITenant == [owner : Uid \cup {None}, leaving : BOOLEAN]

Init == holder = None /\ tenant = None

\* A configuration gets its finalizer.
Hold(u) ==
    /\ holder = None
    /\ holder' = u
    /\ UNCHANGED tenant

\* The AITenant is made for the configuration that holds it.
Make ==
    /\ holder # None /\ tenant = None
    /\ tenant' = [owner |-> holder, leaving |-> FALSE]
    /\ UNCHANGED holder

\* The AITenant is deleted, and goes when the MaaS operator is done with it.
Leave ==
    /\ tenant # None
    /\ tenant' = [owner |-> tenant.owner, leaving |-> TRUE]
    /\ UNCHANGED holder

Vanish ==
    /\ tenant # None
    /\ tenant' = None
    /\ UNCHANGED holder

\* Somebody else makes an AITenant of that name.
Appear ==
    /\ tenant = None
    /\ tenant' = [owner |-> None, leaving |-> FALSE]
    /\ UNCHANGED holder

\* The AITenant belongs to configuration u and is not leaving.
Kept(u) == tenant # None /\ tenant.owner = u /\ ~tenant.leaving

\* The configuration loses its finalizer, and is gone.
Release ==
    /\ holder # None /\ ~Kept(holder)
    /\ holder' = None
    /\ UNCHANGED tenant

Next ==
    \/ \E u \in Uid : Hold(u)
    \/ Make \/ Leave \/ Vanish \/ Appear \/ Release

Spec == Init /\ [][Next]_vars
=============================================================================
