---------------------- MODULE MCOrganizationController ----------------------
(* Instances of OrganizationController for TLC. *)
EXTENDS OrganizationController

TreeOrgs == {"a", "b", "c", "d"}

\* A chain of four levels, in any order of creation, whose third level may also
\* close a cycle with the fourth; nothing goes away.
Tree == [creatable |-> {<<"a", None>>, <<"b", "a">>, <<"c", "b">>, <<"c", "d">>, <<"d", "c">>},
         deletable |-> {}, profileOps |-> {}, isolations |-> {"none"}, faults |-> 0]

\* Its first three levels, with a failure.
Chain == [Tree EXCEPT !.creatable = {<<"a", None>>, <<"b", "a">>, <<"c", "b">>}, !.faults = 1]

\* One root, created again and again, with failures and with clients that change
\* and delete its profile.
Single == [creatable |-> {<<"a", None>>}, deletable |-> {"a"},
           profileOps |-> {"edit", "delete"}, isolations |-> {"none"}, faults |-> 1]

TreeSurroundings == {Tree, Chain, Single}

ChurnOrgs == {"a", "b"}

\* A root and an organization that is its child or a root itself, created again
\* and again: both, or one of them with a failure.
Churn == [creatable |-> {<<"a", None>>, <<"b", "a">>, <<"b", None>>},
          deletable |-> {"a", "b"}, profileOps |-> {"delete"}, isolations |-> {"none"},
          faults |-> 0]
FaultyChurn == [Churn EXCEPT !.deletable = {"b"}, !.profileOps = {"create"}, !.faults = 1]

\* One root, with two failures and with clients that do anything to its profile.
ProfileChurn == [Single EXCEPT !.profileOps = {"create", "edit", "delete"}, !.faults = 2]

ChurnSurroundings == {Churn, FaultyChurn, ProfileChurn}
=============================================================================
