-------------------------- MODULE MCMaaSController --------------------------
(* Instances of MaaSController for TLC. *)
EXTENDS MaaSController

OnePlatform == {{"issuerUrl"}}

\* One spec, or two that have no field in common.
OneSpec == {{"clientId"}}
TwoSpecs == {{"clientId"}, {"tls", "resourceQuotas"}}

\* One organization and its configuration, deleted and created again.
Client == [specs |-> OneSpec, roots |-> {TRUE}, uids |-> 3, others |-> 0, faults |-> 0]

\* A failure and a write by others; two writes by others.
Troubled == [Client EXCEPT !.roots = {TRUE, FALSE}, !.others = 1, !.faults = 1]
Crowded == [Client EXCEPT !.uids = 2, !.others = 2]

\* Clients change their minds; something fails; others interfere.
Changing == [Client EXCEPT !.uids = 2, !.specs = TwoSpecs]
Failing == [Client EXCEPT !.uids = 2, !.faults = 1]
Disturbed == [Client EXCEPT !.uids = 2, !.others = 1]

TenantSurroundings == {Troubled}
EventualSurroundings == {Client, Changing, Failing, Disturbed}
CrowdedSurroundings == {Crowded}
=============================================================================
