----------------------------- MODULE MCTenancy -----------------------------
(* Instances of Tenancy for TLC. *)
EXTENDS Tenancy

\* A root a and its child b, created in any order, with a failure or a restart.
Chain == [creatable |-> {<<"a", None>>, <<"b", "a">>}, deletable |-> {},
          profileOps |-> {}, isolations |-> {}, faults |-> 1]
\* b is created as a root or as the child of an organization that does not come,
\* deleted and created again; or as the child of one that is there first.
Churn == [Chain EXCEPT !.creatable = {<<"b", None>>, <<"b", "a">>}, !.deletable = {"b"},
                       !.faults = 0]
Regrown == [Churn EXCEPT !.creatable = @ \cup {<<"a", None>>}]
\* One root b, whose profile changes.
Edited == [Chain EXCEPT !.creatable = {<<"b", None>>}, !.profileOps = {"edit"},
                        !.isolations = {"none"}, !.faults = 0]

\* A project in b, with a preset of its own or with that of the profile.
OneProject(isolation) ==
    [orgs |-> {"b"}, roots |-> [o \in Org |-> Org], deletable |-> FALSE,
     specs |-> {[isolation |-> isolation, users |-> {}]},
     defaults |-> {}, foreign |-> {}, uids |-> 1, writes |-> 0, faults |-> 0]

MCSurroundings ==
    {<<e, OneProject("none")>> : e \in {Chain, Churn, Regrown}} \cup {<<Edited, OneProject(None)>>}

\* Bound: outside of Churn clients create and delete organizations only while neither
\* worker is in a reconciliation and the organization controller has nothing to do, and
\* those of Regrown create a first and delete b only while the project controller has
\* nothing to do either.
Created == {o \in Org : orgStore["Organization"][o] # None}
Patient ==
    Created' # Created /\ orgEnv # Churn =>
        /\ orgRec = Organizations!Idle /\ projRec = Projects!Idle /\ orgQueue = {}
        /\ \A k \in Organizations!Kind : orgWatch[k] = <<>>
        /\ orgEnv = Regrown =>
              "a" \in Created' /\ Projects!CaughtUp /\ ("b" \in Created => ~projQueue)

PatientSpec == Init /\ [][Next /\ Patient]_vars /\ Fairness
=============================================================================
