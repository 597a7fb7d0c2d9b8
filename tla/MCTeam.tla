------------------------------- MODULE MCTeam -------------------------------
(***************************************************************************)
(* Instances of TeamController for TLC.                                    *)
(***************************************************************************)
EXTENDS TeamController

CONSTANTS n1, n2, d1, d2, u1, u2, admin, user

MCRVs == 1..(MaxVersions + 1)

Want(name, desc, members) ==
    [name |-> name, desc |-> desc, members |-> members]

Admin(u) == [user |-> u, role |-> admin]

MCRosters == {<<Admin(u2)>>}

(* Two names, two descriptions and two lists of members. *)
MCSpecs == {Want(n1, d1, <<Admin(u1), Admin(u2)>>), Want(n2, d2, <<Admin(u2)>>)}

(* One spec has members and the other, edited from it, has none. *)
ClearingSpecs == {Want(n1, d1, <<Admin(u1)>>), Want(n1, d1, <<>>)}

MCBudget ==
    [edits |-> 3, faults |-> 1, crashes |-> 1, delays |-> 1,
     drift |-> 1, removals |-> 1, references |-> 0]

(* One CR is applied and edited once, and nothing fails. *)
EditBudget ==
    [edits |-> 2, faults |-> 0, crashes |-> 0, delays |-> 0,
     drift |-> 0, removals |-> 0, references |-> 0]

=============================================================================
