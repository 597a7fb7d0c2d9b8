----------------------------- MODULE MCService -----------------------------
(***************************************************************************)
(* Instances of ServiceController, with its debts, for TLC.  Names of CRs, *)
(* ids, teams and settings are model values; the bounds are the Budget     *)
(* definitions, Ids and MaxVersions.                                       *)
(***************************************************************************)
EXTENDS ServiceDebts

CONSTANTS n1, n2, d1, x, y, o1, o2, t1

MCRVs == 1..(MaxVersions + 1)

Want(name, desc, tags, id, ref) ==
    [name |-> name, desc |-> desc, tags |-> tags, teamId |-> id, teamRef |-> ref]

(* A spec that names its team, and one that refers to an OpsgenieTeam. *)
SafetySpecs == {Want(n1, d1, <<x>>, o1, None), Want(n2, d1, <<x>>, None, t1)}

(* One spec fills in every field, and one, which may be edited from it,    *)
(* clears what can be cleared and refers to a team instead.                *)
LiveSpecs == {Want(n1, d1, <<x, y>>, o1, None), Want(n2, None, <<>>, None, t1)}

(* A spec that refers to an OpsgenieTeam. *)
RefSpecs == {Want(n1, d1, <<x>>, None, t1)}

LiveBudget ==
    [edits |-> 2, faults |-> 1, crashes |-> 1, delays |-> 1,
     drift |-> 1, removals |-> 1, references |-> 0]

(* One CR is applied once, and its team appears and is synchronised. *)
RefBudget ==
    [edits |-> 1, faults |-> 0, crashes |-> 0, delays |-> 0,
     drift |-> 0, removals |-> 0, references |-> 2]

SafetyBudget ==
    [edits |-> 3, faults |-> 1, crashes |-> 1, delays |-> 0,
     drift |-> 0, removals |-> 0, references |-> 1]

TeamAbsent == [t \in TeamRefs |-> Gone]

TeamUnsynced == [t \in TeamRefs |-> None]

CRSymmetry == Permutations(CRs)

=============================================================================
