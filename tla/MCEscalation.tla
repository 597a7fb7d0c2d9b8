---------------------------- MODULE MCEscalation ----------------------------
(***************************************************************************)
(* Instances of EscalationController for TLC.                              *)
(***************************************************************************)
EXTENDS EscalationController, TLC

CONSTANTS n1, n2, d1, d2, o1, o2, t1, t2, ann, ben, ref, called

MCRVs == 1..(MaxVersions + 1)

Want(name, desc, rules) ==
    [name |-> name, desc |-> desc, rules |-> rules,
     teamId |-> o1, teamRef |-> None]

ToUser(person, terms) ==
    [terms |-> terms, type |-> "user", id |-> None, username |-> person,
     teamRef |-> None, scheduleRef |-> None]

ToSchedule(terms) ==
    [terms |-> terms, type |-> "schedule", id |-> None, username |-> None,
     teamRef |-> None, scheduleRef |-> ref]

(* One escalation gives no description and has two rules for users, which  *)
(* may change places; the other notifies a schedule and a user, and its    *)
(* owner is given by a reference too; the CR is renamed from one to the    *)
(* other.                                                                  *)
MCSpecs ==
    {Want(n1, None, <<ToUser(ann, t1), ToUser(ben, t2)>>),
     [Want(n2, d2, <<ToSchedule(t1), ToUser(ben, t1)>>) EXCEPT
        !.teamId = None, !.teamRef = ref]}

(* The two differ in the user only. *)
UserSpecs == {Want(n1, d1, <<ToUser(ann, t1)>>), Want(n1, d1, <<ToUser(ben, t1)>>)}

MCNameOf == [o \in Owners |-> called]

Unsynced == [r \in Refs |-> None]

MCBudget ==
    [edits |-> 2, faults |-> 1, crashes |-> 1, delays |-> 0,
     drift |-> 1, removals |-> 1, references |-> 1]

UserBudget ==
    [edits |-> 2, faults |-> 0, crashes |-> 0, delays |-> 1,
     drift |-> 1, removals |-> 0, references |-> 0]

=============================================================================
