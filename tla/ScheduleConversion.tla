------------------------- MODULE ScheduleConversion -------------------------
(***************************************************************************)
(* convertRotations of the schedule controller and what it calls: the      *)
(* rotations of a CR become the rotations the SDK sends, or an error that  *)
(* stops the run.  Error stands for every error; a list is converted as a  *)
(* whole or not at all.                                                    *)
(***************************************************************************)
EXTENDS Integers, Sequences

CONSTANTS
    None,           \* the empty string, or a nil pointer
    Error,
    Word            \* 2^32 in the code: the range of uint32

ASSUME WordAssumption == Word \in Nat /\ Word > 24

(* Every element converts, or the list does not. *)
ConvertAll(convert(_), s) ==
    IF \E i \in DOMAIN s : convert(s[i]) = Error
    THEN Error
    ELSE [i \in DOMAIN s |-> convert(s[i])]

(* Go's conversion of an int to uint32. *)
uint32(n) == n % Word

-----------------------------------------------------------------------------
(* Who a converted participant is, by which of the three fields. *)
ById(p)   == [type |-> p.type, id |-> p.id, name |-> None, username |-> None]
ByName(p) == [type |-> p.type, id |-> None, name |-> p.name, username |-> None]
ByUser(p) == [type |-> p.type, id |-> None, name |-> None, username |-> p.username]

(* The mutant prefers the name to the id.                                  *)
MutantConvertParticipant(p) ==
    IF {p.id, p.name, p.username} = {None} THEN Error
    ELSE IF p.type \in {"team", "escalation", "role"} THEN ByName(p)
    ELSE IF p.type = "user" /\ p.id # None THEN ById(p)
    ELSE IF p.type = "user" /\ p.username # None THEN ByUser(p)
    ELSE Error
convertParticipant(p) ==
    IF \/ {p.id, p.name, p.username} = {None}
       \/ p.type \notin {"user", "team", "escalation", "role"}
    THEN Error
    ELSE IF p.id # None THEN ById(p)
    ELSE IF p.type # "user" THEN ByName(p)
    ELSE IF p.username # None THEN ByUser(p)
    ELSE Error

convertParticipants(ps) == ConvertAll(convertParticipant, ps)

-----------------------------------------------------------------------------
(* The mutant counts from 0, as time.Weekday does. *)
MutantMapDay(day) ==
    IF day \in 0..6
    THEN <<"sunday", "monday", "tuesday", "wednesday",
           "thursday", "friday", "saturday">>[day + 1]
    ELSE Error
mapDayIntToString(day) ==
    IF day \in 1..7
    THEN <<"monday", "tuesday", "wednesday", "thursday",
           "friday", "saturday", "sunday">>[day]
    ELSE Error

(* Minutes are always 0. *)
convertInterval(i) ==
    LET from == mapDayIntToString(i.startDay)
        to   == mapDayIntToString(i.endDay)
    IN  IF Error \in {from, to} THEN Error
        ELSE [startDay |-> from, endDay |-> to,
              startHour |-> uint32(i.startHour), endHour |-> uint32(i.endHour)]

(* None is a rotation without a time restriction. *)
convertTimeRestrictions(r) ==
    IF r = None THEN None
    ELSE IF r.type = None THEN Error
    ELSE LET list == ConvertAll(convertInterval, r.intervals)
         IN  IF list = Error THEN Error ELSE [type |-> r.type, list |-> list]

(* start = None is a date that does not parse.  The end date of the CR is  *)
(* not looked at, and none is sent.                                        *)
convertRotation(r) ==
    LET who  == convertParticipants(r.participants)
        when == convertTimeRestrictions(r.restriction)
    IN  IF r.start = None \/ who \in {Error, <<>>} \/ when = Error
        THEN Error
        ELSE [start |-> r.start, end |-> None, length |-> uint32(r.length),
              participants |-> who, restriction |-> when]

(* The mutant leaves out the rotations that do not convert. *)
MutantConvertRotations(rs) ==
    LET good(r) == convertRotation(r) # Error
        kept == SelectSeq(rs, good)
    IN  [i \in DOMAIN kept |-> convertRotation(kept[i])]
convertRotations(rs) == ConvertAll(convertRotation, rs)

=============================================================================
