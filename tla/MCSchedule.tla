----------------------------- MODULE MCSchedule -----------------------------
(***************************************************************************)
(* Instances of ScheduleController for TLC.                                *)
(***************************************************************************)
EXTENDS ScheduleController

CONSTANTS n1, n2, d1, z1, z2, o1, o2, p1, p2, c1

MCRVs == 1..(MaxVersions + 1)

Want(name, desc, zone, owner, rotations, valid) ==
    [name |-> name, desc |-> desc, zone |-> zone, owner |-> owner,
     rotations |-> rotations, valid |-> valid]

Rotation(p) == [plan |-> p, crew |-> c1]

MCLists == {<<Rotation(p2)>>}

(* Two specs with two rotations each and different names and time zones,   *)
(* one with one rotation and no description, and one whose rotations do    *)
(* not convert.                                                            *)
MCSpecs ==
    {Want(n1, d1, z1, o1, <<Rotation(p1), Rotation(p2)>>, TRUE),
     Want(n2, d1, z2, o1, <<Rotation(p1), Rotation(p2)>>, TRUE),
     Want(n1, None, z1, o1, <<Rotation(p1)>>, TRUE),
     Want(n1, d1, z2, o1, <<Rotation(p1)>>, FALSE)}

(* Two specs that differ in the owner team only. *)
OwnerSpecs ==
    {Want(n1, d1, z1, o, <<Rotation(p1)>>, TRUE) : o \in {o1, o2}}

MCBudget ==
    [edits |-> 2, faults |-> 1, crashes |-> 1, delays |-> 1,
     drift |-> 1, removals |-> 1, references |-> 0]

(* One CR is applied and edited once, and nothing fails. *)
EditBudget ==
    [edits |-> 2, faults |-> 0, crashes |-> 0, delays |-> 0,
     drift |-> 0, removals |-> 0, references |-> 0]

=============================================================================
