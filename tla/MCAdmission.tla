---------------------------- MODULE MCAdmission ----------------------------
(* Instances of Admission for TLC. *)
EXTENDS Admission

Orgs == {"a", "b", "c", "d"}
Projects == {"p", "q"}

\* A cluster-admin, a person, a member of a group and a service account.
admin == [username |-> <<"admin">>, groups |-> {<<"platform">>}]
alice == [username |-> <<"alice">>, groups |-> {<<"tenants">>}]
bob   == [username |-> <<"bob">>, groups |-> {<<"tenants">>, <<"team-b">>}]
bot   == [username |-> <<"system", "serviceaccount", "ci", "bot">>,
          groups |-> {<<"system", "serviceaccounts", "ci">>}]
Users == {admin, alice, bob, bot}

sAlice == [kind |-> "User", name |-> <<"alice">>, namespace |-> ""]
sTeam  == [kind |-> "Group", name |-> <<"team-b">>, namespace |-> ""]
sBot   == [kind |-> "ServiceAccount", name |-> "bot", namespace |-> "ci"]
Subjects == {sAlice, sTeam, sBot}

\* CLUSTER_ADMIN_GROUPS, where it is set.
PlatformGroups == {<<"platform">>}

Child(p) == [parent |-> p]
Profile(o, admins, max) == [org |-> o, admins |-> admins, maxProjects |-> max]
In(o) == [org |-> o]

Create(u, k, n, x) == [user |-> u, verb |-> "create", kind |-> k, name |-> n, obj |-> x]
Update(u, k, n, x) == [user |-> u, verb |-> "update", kind |-> k, name |-> n, obj |-> x]
Delete(u, k, n) == [user |-> u, verb |-> "delete", kind |-> k, name |-> n, obj |-> None]

\* The objects of f[k] by name, nothing under the other names.
Stored(f) == [k \in Kind |-> [n \in Name |->
                IF n \in DOMAIN f[k] THEN f[k][n] ELSE None]]
Nothing == [n \in {} |-> None]

\* a is a root with child b and grandchild c; alice is listed on a, team-b on
\* b, and c has the restrictive profile the operator creates.
Lineage == Stored(
    [Organization |-> [a |-> Child(None), b |-> Child("a"), c |-> Child("b")],
     OrganizationProfile |-> [a |-> Profile("a", <<sAlice>>, 1),
                              b |-> Profile("b", <<sTeam>>, 0),
                              c |-> Profile("c", <<>>, 0)],
     OrganizationProject |-> Nothing,
     MaaSConfiguration |-> Nothing])

\* Writes in the lineage by its admins while a cluster-admin replaces the
\* middle of it: b goes and comes back under c, which closes a cycle.
LineageCalls == {
    Update(alice, "Organization", "c", Child("b")),
    Update(bob, "OrganizationProfile", "c", Profile("c", <<sBot>>, 0)),
    Update(bot, "OrganizationProfile", "c", Profile("c", <<>>, 1)),
    Delete(admin, "Organization", "b"),
    Create(admin, "Organization", "b", Child("c"))}

\* A project, its redirection and a raised quota in b; a MaaSConfiguration for b
\* while a cluster-admin replaces b, which has a parent, by a root.
WriteCalls == {
    Create(alice, "OrganizationProject", "p", In("b")),
    Update(bob, "OrganizationProfile", "b", Profile("b", <<sTeam>>, 1)),
    Update(admin, "OrganizationProject", "p", In("a")),
    Create(bob, "MaaSConfiguration", "b", In("b")),
    Delete(admin, "Organization", "b"),
    Create(admin, "Organization", "b", Child(None))}

\* The same lineage, with a MaaSConfiguration in a.
Configured == [Lineage EXCEPT !["MaaSConfiguration"]["a"] = In("a")]

\* Misnamed and redirected configurations, one that goes, and an organization
\* that is replaced under another parent while it is updated.
NameCalls == {
    Create(admin, "MaaSConfiguration", "b", In("a")),
    Update(admin, "MaaSConfiguration", "a", In("b")),
    Delete(alice, "MaaSConfiguration", "a"),
    Update(admin, "Organization", "c", Child("b")),
    Delete(admin, "Organization", "c"),
    Create(admin, "Organization", "c", Child("a"))}

\* A cycle of organizations, as a cluster-admin can create it parent first.
Cycle == Stored(
    [Organization |-> [a |-> Child("b"), b |-> Child("a"), d |-> Child(None)],
     OrganizationProfile |-> [b |-> Profile("b", <<sTeam>>, 1),
                              d |-> Profile("d", <<sAlice>>, 0)],
     OrganizationProject |-> Nothing,
     MaaSConfiguration |-> Nothing])
\* Writes in it, and profiles that are misnamed or redirected.
CycleCalls == {
    Create(admin, "OrganizationProfile", "a", Profile("b", <<>>, 1)),
    Update(admin, "OrganizationProfile", "d", Profile("a", <<>>, 1)),
    Create(alice, "Organization", "c", Child("a")),
    Create(bob, "OrganizationProject", "p", In("a")),
    Delete(admin, "Organization", "b")}

\* Two creates in an organization with room for one project.
QuotaCalls == {
    Create(alice, "OrganizationProject", "p", In("a")),
    Create(alice, "OrganizationProject", "q", In("a"))}

\* One initial store with the calls made on it; clients make those of one scenario.
Scenario(objects, calls) == [store |-> objects, calls |-> calls]
MCScenarios == {Scenario(Lineage, LineageCalls), Scenario(Lineage, WriteCalls),
                Scenario(Configured, NameCalls), Scenario(Cycle, CycleCalls)}
QuotaScenario == {Scenario(Lineage, QuotaCalls)}
=============================================================================
