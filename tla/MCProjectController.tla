------------------------ MODULE MCProjectController ------------------------
(* Instances of ProjectController for TLC. *)
EXTENDS ProjectController

Wants(isolation, users) == [isolation |-> isolation, users |-> users]
ann == <<"ann", "edit">>
joe == <<"joe", "view">>

\* b is an organization below a; or replaced, as a root or below a, or deleted.
Below == [o \in Org |-> {"a"}]
Replaced == [o \in Org |-> {"a", "b", None}]

\* One project in b, whose presets and users change; with a failure, and with its
\* deletion.
Presets == [orgs |-> {"b"}, roots |-> Below, deletable |-> FALSE,
            specs |-> {Wants("none", {}), Wants("tenant", {ann}), Wants("strict", {ann})},
            defaults |-> {}, foreign |-> {}, uids |-> 1, writes |-> 2, faults |-> 0]
FaultyPresets == [Presets EXCEPT !.specs = {Wants("none", {}), Wants("strict", {ann})},
                                 !.deletable = TRUE, !.writes = 1, !.faults = 1]

\* A project whose users change while others write its namespace or its role
\* bindings,
Others(k) ==
    [Presets EXCEPT !.specs = {Wants("none", {}), Wants("none", {ann})}, !.foreign = {k}]

\* and one whose preset is inherited at first, while others write its policies and
\* the default changes;
Defaulted == [Presets EXCEPT !.specs = {Wants(None, {}), Wants("strict", {ann})},
                             !.foreign = {"NetworkPolicy"}, !.defaults = {"none"}]

\* or while its organization is replaced or deleted.
Moved == [Presets EXCEPT !.roots = Replaced, !.specs = {Wants(None, {ann})},
                         !.defaults = {"none"}, !.deletable = TRUE]

PresetSurroundings ==
    {Presets, FaultyPresets, Others("Namespace"), Others("RoleBinding"), Defaulted, Moved}

\* A project that is created again: in another organization; while its users
\* change; with a failure.
Again == [Presets EXCEPT !.orgs = {"a", "b"}, !.specs = {Wants("none", {ann})},
                         !.deletable = TRUE, !.uids = 2, !.writes = 0]
Regranted == [Again EXCEPT !.orgs = {"b"}, !.uids = 1, !.writes = 2, !.faults = 1,
                           !.specs = {Wants("none", {}), Wants("none", {ann, joe})}]
FaultyAgain == [Again EXCEPT !.orgs = {"b"}, !.faults = 1]

\* A namespace of others, to be adopted, waited for or replaced.
Adopting == [Presets EXCEPT !.specs = {Wants("none", {ann})}, !.deletable = TRUE,
                            !.foreign = {"Namespace"}]

ReadySurroundings ==
    {Again, Regranted, FaultyAgain, Adopting, [Moved EXCEPT !.writes = 1, !.deletable = FALSE]}

\* A preset that changes; with another controller beside it.
Switch == [Presets EXCEPT !.specs = {Wants("none", {}), Wants("strict", {})}]
StaleSurroundings == {Switch}
ForeignSurroundings == {[Switch EXCEPT !.foreign = {"NetworkPolicy"}, !.writes = 3]}
=============================================================================
