----------------------------- MODULE MCFunctions -----------------------------
(***************************************************************************)
(* The pure functions of the operator over all small inputs, which TLC     *)
(* builds up step by step: pairs of lists for the comparisons of SpecDiff, *)
(* and lists of rotations for ScheduleConversion, put together as a user   *)
(* would write them: a rotation, its participants, its intervals.          *)
(***************************************************************************)
EXTENDS SpecDiff, ScheduleConversion

CONSTANTS
    Users, Roles,
    Types, Texts,           \* participant types and texts
    Days, Hours, Lengths,   \* the integers tried,
    Common,                 \* and those combined with each other
    MaxLen,                 \* bound: longest list compared
    MaxRotations,           \* bounds: rotations, their parts taken together,
    MaxParts, MaxIntervals  \* and the intervals of a rotation

VARIABLES
    left,           \* what a CR asks for
    right,          \* what Opsgenie holds
    rotations       \* spec.rotations of an OpsgenieSchedule

vars == <<left, right, rotations>>

(* Every day, the first and the last hour of the clock, and numbers just   *)
(* outside: 65536 is Word in the instance.                                 *)
MCDays == 0..8
MCHours == {-1, 0, 23}
MCLengths == {-1, 1, 65535, 65536}

(* A day, a number that is none, an hour, a length. *)
MCCommon == {1, 8, 23}

Member == [user : Users, role : Roles]

Participant == [type : Types, id : Texts \cup {None}, name : Texts \cup {None},
                username : Texts \cup {None}]

Interval == [startDay : Days, endDay : Days, startHour : Hours, endHour : Hours]

DayNames ==
    {"monday", "tuesday", "wednesday", "thursday", "friday", "saturday", "sunday"}

(* A time restriction as it is sent. *)
SentRestriction ==
    [type : Texts,
     list : Seq([startDay : DayNames, endDay : DayNames, startHour : Nat, endHour : Nat])]

(* Numbers are integers, and a pointer to a restriction is not nil.        *)
ASSUME InputAssumption ==
    /\ Hours \subseteq Int /\ Lengths \subseteq Int
    /\ None \notin SentRestriction

AppendLeft ==
    /\ rotations = <<>> /\ Len(left) < MaxLen
    /\ \E m \in Member : left' = Append(left, m)
    /\ UNCHANGED <<right, rotations>>

AppendRight ==
    /\ rotations = <<>> /\ Len(right) < MaxLen
    /\ \E m \in Member : right' = Append(right, m)
    /\ UNCHANGED <<left, rotations>>

Parts(r) ==
    Len(r.participants)
        + IF r.restriction = None THEN 0 ELSE 1 + Len(r.restriction.intervals)

Room == MapThenSumSet(LAMBDA i : Parts(rotations[i]), DOMAIN rotations) < MaxParts

CommonIntervals ==
    Interval \cap
    [startDay : Common, endDay : Common, startHour : Common, endHour : Common]

(* Bound: end dates, and numbers other than the Common ones, appear in a    *)
(* single rotation without a restriction, or in a single interval.         *)
Combined(rs) ==
    \A i \in DOMAIN rs :
        LET r == rs[i] IN
        /\ \/ r.length \in Common /\ r.end = None
           \/ Len(rs) = 1 /\ r.restriction = None
        /\ r.restriction # None =>
              \/ Len(rs) = 1 /\ Len(r.restriction.intervals) <= 1
              \/ ToSet(r.restriction.intervals) \subseteq CommonIntervals

Change(r) ==
    /\ rotations' = [rotations EXCEPT ![Len(rotations)] = r]
    /\ Combined(rotations')
    /\ UNCHANGED <<left, right>>

AddRotation ==
    /\ left = <<>> /\ right = <<>> /\ Len(rotations) < MaxRotations
    /\ \E start, end \in Texts \cup {None}, length \in Lengths :
          rotations' = Append(rotations,
              [start |-> start, end |-> end, length |-> length,
               participants |-> <<>>, restriction |-> None])
    /\ Combined(rotations')
    /\ UNCHANGED <<left, right>>

AddParticipant ==
    /\ Last(rotations).restriction = None
    /\ \E p \in Participant :
        Change([Last(rotations) EXCEPT !.participants = Append(@, p)])

AddRestriction ==
    /\ Last(rotations).restriction = None
    /\ \E type \in Texts \cup {None} :
        Change([Last(rotations) EXCEPT
                      !.restriction = [type |-> type, intervals |-> <<>>]])

AddInterval ==
    /\ Last(rotations).restriction # None
    /\ Len(Last(rotations).restriction.intervals) < MaxIntervals
    /\ \E i \in IF Len(rotations) = 1 /\ Last(rotations).restriction.intervals = <<>>
               THEN Interval ELSE CommonIntervals :
        Change([Last(rotations) EXCEPT !.restriction.intervals = Append(@, i)])

Init == left = <<>> /\ right = <<>> /\ rotations = <<>>

Next ==
    \/ AppendLeft \/ AppendRight \/ AddRotation
    \/ rotations # <<>> /\ Room /\ (AddParticipant \/ AddRestriction \/ AddInterval)

Spec == Init /\ [][Next]_vars

-----------------------------------------------------------------------------
(* The reference definition: the same elements, in any order, each as      *)
(* often.                                                                  *)
SameElements(a, b) == b \in Reorderings(a)

NoDuplicates(s) == Cardinality(ToSet(s)) = Len(s)

UsersOnce(s) == NoDuplicates([i \in DOMAIN s |-> s[i].user])

(* isUpdateRequired of the service controller asks for an update exactly   *)
(* when the tags differ, whatever the CR lists, provided that Opsgenie     *)
(* holds no tag twice.                                                     *)
TagsCompared ==
    NoDuplicates(right) =>
        (equalStringSlices(left, right) <=> SameElements(left, right))

(* isMembersUpdateRequired of the team controller asks for an update       *)
(* exactly when the teams differ in a member or a role, whatever Opsgenie  *)
(* holds, provided that the CR lists no user twice.                        *)
MembersCompared ==
    UsersOnce(left) =>
        (isMembersUpdateRequired(left, right) <=> ~SameElements(left, right))

-----------------------------------------------------------------------------
converted == convertRotations(rotations)

(* The intervals that were sent, and those they come from. *)
IntervalPairs(r, c) ==
    IF r.restriction = None THEN {}
    ELSE {<<r.restriction.intervals[i], c.restriction.list[i]>> :
             i \in DOMAIN r.restriction.intervals}

(* What a user fills in and the conversion leaves out. *)
Dropped(r, c) ==
    {f \in {"start", "end", "restriction"} : r[f] # None /\ c[f] = None}

(* A rotation, a participant or an interval that cannot be converted never *)
(* disappears from a schedule that is sent without it, it stops the whole. *)
(* The end date, documented in opsgenieschedule_types.go:37, is the only   *)
(* field that is left out.                                                 *)
NothingDropped ==
    converted # Error =>
        /\ Len(converted) = Len(rotations)
        /\ \A i \in DOMAIN rotations :
              /\ Len(converted[i].participants) = Len(rotations[i].participants)
              /\ Len(converted[i].participants) > 0
              /\ Dropped(rotations[i], converted[i]) \subseteq {"end"}
              /\ rotations[i].restriction # None =>
                    Len(converted[i].restriction.list)
                        = Len(rotations[i].restriction.intervals)

(* A participant is sent under at most one identification, the id if the   *)
(* CR gives one: Opsgenie never has to choose between two people.          *)
OneIdentity ==
    converted # Error =>
        \A i \in DOMAIN rotations : \A j \in DOMAIN rotations[i].participants :
            LET p == rotations[i].participants[j]
                c == converted[i].participants[j]
            IN  /\ Cardinality({f \in {"id", "name", "username"} : c[f] # None}) <= 1
                /\ p.id # None => c.id = p.id

(* ISO 8601: the week begins on Monday. *)
IsoDay ==
    [monday |-> 1, tuesday |-> 2, wednesday |-> 3, thursday |-> 4,
     friday |-> 5, saturday |-> 6, sunday |-> 7]

(* Both days of an interval are sent under the name that ISO 8601 gives    *)
(* their number; an hour of the clock, and a length that has a place in    *)
(* uint32, are sent as they are.                                           *)
IntervalsKept ==
    converted # Error =>
        \A i \in DOMAIN rotations :
            /\ rotations[i].length \in 0..(Word - 1) =>
                  converted[i].length = rotations[i].length
            /\ \A x \in IntervalPairs(rotations[i], converted[i]) :
                  /\ x[2].startDay \in DayNames /\ x[2].endDay \in DayNames
                  /\ IsoDay[x[2].startDay] = x[1].startDay
                  /\ IsoDay[x[2].endDay] = x[1].endDay
                  /\ x[1].startHour \in 0..23 => x[2].startHour = x[1].startHour
                  /\ x[1].endHour \in 0..23 => x[2].endHour = x[1].endHour

=============================================================================
