----------------------------- MODULE MCOperator -----------------------------
(***************************************************************************)
(* An instance of Operator for TLC: one service, one rule of it.           *)
(***************************************************************************)
EXTENDS Operator

CONSTANTS n1, d1, x, o1, c1, svc

MCRVs == 1..(MaxVersions + 1)

MCServiceSpecs ==
    {[name |-> n1, desc |-> d1, tags |-> <<x>>, teamId |-> o1, teamRef |-> None]}

MCRuleSpecs == {[serviceRef |-> svc, content |-> c1]}

(* Both CRs are applied, and one is deleted. *)
MCBudget ==
    [edits |-> 3, faults |-> 1, crashes |-> 1, delays |-> 1,
     drift |-> 0, removals |-> 1, references |-> 0]

=============================================================================
