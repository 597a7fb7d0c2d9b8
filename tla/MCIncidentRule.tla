--------------------------- MODULE MCIncidentRule ---------------------------
(***************************************************************************)
(* Instances of IncidentRuleController for TLC.                            *)
(***************************************************************************)
EXTENDS IncidentRuleController, TLC

CONSTANTS c1, c2, r1, r2, s1, s2

MCRVs == 1..(MaxVersions + 1)

(* The CR moves its rule from one service to another. *)
MCSpecs == {[serviceRef |-> r1, content |-> c1],
            [serviceRef |-> r2, content |-> c2]}

(* One service is there, one has not been created yet. *)
MCServices == (r1 :> s1) @@ (r2 :> None)

MCBudget ==
    [edits |-> 2, faults |-> 1, crashes |-> 1, delays |-> 0,
     drift |-> 1, removals |-> 0, references |-> 1]

=============================================================================
