--------------------------- MODULE FunctionProofs ---------------------------
(***************************************************************************)
(* The comparisons and the conversion of the operator, for lists of any    *)
(* length and values of any kind, without induction: a comparison is right *)
(* because an injection between lists of one length is a bijection, and    *)
(* the conversion because it treats each element by itself.                *)
(***************************************************************************)
EXTENDS MCFunctions, FiniteSetTheorems, TLAPS

-----------------------------------------------------------------------------
(* The elements of a list without duplicates differ.                       *)
LEMMA Distinct ==
    ASSUME NEW S, NEW s \in Seq(S), NoDuplicates(s)
    PROVE  \A i, j \in DOMAIN s : s[i] = s[j] => i = j
  <1>1. DOMAIN s = 1..Len(s) /\ Len(s) \in Nat
    OBVIOUS
  <1>2. IsFiniteSet(DOMAIN s) /\ Cardinality(DOMAIN s) = Len(s)
    BY <1>1, FS_Interval
  <1>3. s \in Surjection(DOMAIN s, ToSet(s))
    BY DEF Surjection, ToSet
  <1>4. s \in Injection(DOMAIN s, ToSet(s))
    BY <1>2, <1>3, FS_Surjection DEF NoDuplicates
  <1> QED BY <1>4 DEF Injection, IsInjective

(* An injection between the positions of two lists of one length is a      *)
(* bijection.                                                              *)
LEMMA OneToOne ==
    ASSUME NEW n \in Nat, NEW f \in [1..n -> 1..n],
           \A i, j \in 1..n : f[i] = f[j] => i = j
    PROVE  f \in Bijection(1..n, 1..n)
  <1>1. IsFiniteSet(1..n)
    BY FS_Interval
  <1>2. f \in Injection(1..n, 1..n)
    BY DEF Injection, IsInjective
  <1> QED BY <1>1, <1>2, FS_Injection DEF Bijection

(* A permutation of a list keeps its length and its elements.              *)
LEMMA Permuted ==
    ASSUME NEW S, NEW a \in Seq(S), NEW b \in Seq(S), SameElements(a, b)
    PROVE  /\ Len(a) = Len(b) /\ DOMAIN a = DOMAIN b
           /\ \E p \in Bijection(DOMAIN a, DOMAIN a) :
                 \A i \in DOMAIN b : b[i] = a[p[i]]
  <1>1. PICK p \in Bijection(DOMAIN a, DOMAIN a) : b = [i \in DOMAIN a |-> a[p[i]]]
    BY DEF SameElements, Reorderings
  <1>2. DOMAIN b = DOMAIN a /\ \A i \in DOMAIN b : b[i] = a[p[i]]
    BY <1>1
  <1>3. DOMAIN a = 1..Len(a) /\ DOMAIN b = 1..Len(b) /\ Len(a) \in Nat /\ Len(b) \in Nat
    OBVIOUS
  <1>4. Len(a) = Len(b)
    BY <1>2, <1>3
  <1> QED BY <1>2, <1>4

(* ... and a list that takes each of its elements from a position of its   *)
(* own in another of the same length is a permutation of it.               *)
LEMMA Permutes ==
    ASSUME NEW S, NEW a \in Seq(S), NEW b \in Seq(S), Len(a) = Len(b),
           NEW p \in [DOMAIN b -> DOMAIN a],
           \A i \in DOMAIN b : b[i] = a[p[i]],
           \A i, j \in DOMAIN b : p[i] = p[j] => i = j
    PROVE  SameElements(a, b)
  <1>1. DOMAIN a = 1..Len(a) /\ DOMAIN b = 1..Len(a) /\ Len(a) \in Nat
    OBVIOUS
  <1>2. p \in Bijection(DOMAIN a, DOMAIN a)
    BY <1>1, OneToOne
  <1>3. b = [i \in DOMAIN a |-> a[p[i]]]
    <2>1. b = [i \in DOMAIN b |-> b[i]]
      OBVIOUS
    <2> QED BY <2>1, <1>1
  <1> QED BY <1>2, <1>3 DEF SameElements, Reorderings

-----------------------------------------------------------------------------
(* equalStringSlices says of a list without duplicates whether it is a     *)
(* permutation of the other.                                               *)
LEMMA SlicesCompared ==
    ASSUME NEW S, NEW a \in Seq(S), NEW b \in Seq(S), NoDuplicates(b)
    PROVE  equalStringSlices(a, b) <=> SameElements(a, b)
  <1>1. ASSUME equalStringSlices(a, b) PROVE SameElements(a, b)
    <2> DEFINE p == [i \in DOMAIN b |-> CHOOSE j \in DOMAIN a : a[j] = b[i]]
    <2>1. \A i \in DOMAIN b : \E j \in DOMAIN a : a[j] = b[i]
      BY <1>1 DEF equalStringSlices, ToSet
    <2>2. \A i \in DOMAIN b : p[i] \in DOMAIN a /\ a[p[i]] = b[i]
      BY <2>1
    <2>3. p \in [DOMAIN b -> DOMAIN a]
      BY <2>2
    <2>4. \A i, j \in DOMAIN b : p[i] = p[j] => i = j
      <3>1. \A i, j \in DOMAIN b : p[i] = p[j] => b[i] = b[j]
        BY <2>2
      <3> QED BY <3>1, Distinct
    <2>5. Len(a) = Len(b)
      BY <1>1 DEF equalStringSlices
    <2> HIDE DEF p
    <2> QED BY <2>2, <2>3, <2>4, <2>5, Permutes
  <1>2. ASSUME SameElements(a, b) PROVE equalStringSlices(a, b)
    <2>1. PICK p \in Bijection(DOMAIN a, DOMAIN a) : \A i \in DOMAIN b : b[i] = a[p[i]]
      BY <1>2, Permuted
    <2>2. Len(a) = Len(b) /\ DOMAIN a = DOMAIN b
      BY <1>2, Permuted
    <2>3. \A i \in DOMAIN b : p[i] \in DOMAIN a
      BY <2>2 DEF Bijection, Injection
    <2> QED BY <2>1, <2>2, <2>3 DEF equalStringSlices, ToSet
  <1> QED BY <1>1, <1>2

(* A user that occurs once in a list has the role given there.             *)
LEMMA RoleOfOne ==
    ASSUME NEW S, NEW s \in Seq(S), NEW j \in DOMAIN s,
           \A i \in DOMAIN s : s[i].user = s[j].user => i = j
    PROVE  RoleOf(s, s[j].user) = s[j].role
  <1>1. {i \in DOMAIN s : s[i].user = s[j].user} = {j}
    OBVIOUS
  <1>2. j \in Nat
    OBVIOUS
  <1>3. (CHOOSE i \in {j} : \A k \in {j} : k <= i) = j
    BY <1>2
  <1> QED BY <1>1, <1>3 DEF RoleOf

(* isMembersUpdateRequired says of a list that names no user twice whether *)
(* the other is not a permutation of it.                                   *)
LEMMA UpdateIsDifference ==
    ASSUME NEW a \in Seq(Member), NEW b \in Seq(Member), UsersOnce(a)
    PROVE  isMembersUpdateRequired(a, b) <=> ~SameElements(a, b)
  <1>1. \A i, j \in DOMAIN a : a[i].user = a[j].user => i = j
    <2> DEFINE u == [i \in DOMAIN a |-> a[i].user]
    <2>1. u \in Seq(Users) /\ DOMAIN u = DOMAIN a
      <3>1. Len(a) \in Nat /\ DOMAIN a = 1..Len(a) /\ \A i \in DOMAIN a : a[i] \in Member
        OBVIOUS
      <3>2. u \in [1..Len(a) -> Users]
        BY <3>1 DEF Member
      <3> QED BY <3>1, <3>2
    <2>2. NoDuplicates(u)
      BY DEF UsersOnce
    <2>3. \A i, j \in DOMAIN u : u[i] = u[j] => i = j
      <3> HIDE DEF u
      <3> QED BY <2>1, <2>2, Distinct
    <2> QED BY <2>1, <2>3
  <1>2. ASSUME ~isMembersUpdateRequired(a, b) PROVE SameElements(a, b)
    <2>1. /\ Len(a) = Len(b)
          /\ \A i \in DOMAIN a : /\ \E j \in DOMAIN b : b[j].user = a[i].user
                                 /\ RoleOf(b, a[i].user) = a[i].role
      BY <1>2 DEF isMembersUpdateRequired
    <2>2. DOMAIN a = 1..Len(a) /\ DOMAIN b = 1..Len(a) /\ Len(a) \in Nat
      BY <2>1
    <2> DEFINE q == [i \in DOMAIN a |-> CHOOSE j \in DOMAIN b : b[j].user = a[i].user]
    <2>3. \A i \in DOMAIN a : q[i] \in DOMAIN b /\ b[q[i]].user = a[i].user
      BY <2>1
    <2>4. q \in [DOMAIN a -> DOMAIN b]
      BY <2>3
    <2> HIDE DEF q
    <2>5. \A i, j \in DOMAIN a : q[i] = q[j] => i = j
      BY <2>3, <1>1
    <2>6. q \in Bijection(1..Len(a), 1..Len(a))
      BY <2>2, <2>4, <2>5, OneToOne
    <2>7. \A j \in DOMAIN b : \E i \in DOMAIN a : q[i] = j
      BY <2>2, <2>6 DEF Bijection, Surjection
    <2>8. ASSUME NEW i \in DOMAIN a, NEW j \in DOMAIN b, b[j].user = a[i].user
          PROVE  j = q[i]
      <3>1. PICK k \in DOMAIN a : q[k] = j
        BY <2>7
      <3>2. a[k].user = a[i].user
        BY <2>3, <2>8, <3>1
      <3> QED BY <1>1, <3>1, <3>2
    <2>9. \A i \in DOMAIN a : b[q[i]] = a[i]
      <3>1. SUFFICES ASSUME NEW i \in DOMAIN a PROVE b[q[i]] = a[i]
        OBVIOUS
      <3>2. q[i] \in DOMAIN b /\ b[q[i]].user = a[i].user
        BY <2>3
      <3>3. RoleOf(b, b[q[i]].user) = b[q[i]].role
        BY <2>8, <3>2, RoleOfOne
      <3>4. b[q[i]].role = a[i].role
        BY <2>1, <3>2, <3>3
      <3>5. a[i] \in Member /\ b[q[i]] \in Member
        BY <3>2
      <3> QED BY <3>2, <3>4, <3>5 DEF Member
    <2> DEFINE p == [j \in DOMAIN b |-> CHOOSE i \in DOMAIN a : q[i] = j]
    <2>10. \A j \in DOMAIN b : p[j] \in DOMAIN a /\ q[p[j]] = j
      BY <2>7
    <2>11. p \in [DOMAIN b -> DOMAIN a]
      BY <2>10
    <2> HIDE DEF p
    <2>12. \A j \in DOMAIN b : b[j] = a[p[j]]
      BY <2>9, <2>10
    <2>13. \A i, j \in DOMAIN b : p[i] = p[j] => i = j
      BY <2>10
    <2> QED BY <2>1, <2>11, <2>12, <2>13, Permutes
  <1>3. ASSUME SameElements(a, b) PROVE ~isMembersUpdateRequired(a, b)
    <2>1. PICK p \in Bijection(DOMAIN a, DOMAIN a) : \A j \in DOMAIN b : b[j] = a[p[j]]
      BY <1>3, Permuted
    <2>2. Len(a) = Len(b) /\ DOMAIN a = DOMAIN b
      BY <1>3, Permuted
    <2>3. /\ p \in [DOMAIN a -> DOMAIN a]
          /\ \A i, j \in DOMAIN a : p[i] = p[j] => i = j
          /\ \A i \in DOMAIN a : \E j \in DOMAIN a : p[j] = i
      BY DEF Bijection, Injection, Surjection, IsInjective
    <2>4. ASSUME NEW i \in DOMAIN a
          PROVE  /\ \E j \in DOMAIN b : b[j].user = a[i].user
                 /\ RoleOf(b, a[i].user) = a[i].role
      <3>1. PICK j \in DOMAIN b : p[j] = i
        BY <2>2, <2>3
      <3>2. b[j] = a[i]
        BY <2>1, <3>1
      <3>3. ASSUME NEW k \in DOMAIN b, b[k].user = b[j].user
            PROVE  k = j
        <4>1. p[k] \in DOMAIN a /\ b[k] = a[p[k]]
          BY <2>1, <2>2, <2>3
        <4>2. a[p[k]].user = a[i].user
          BY <3>2, <3>3, <4>1
        <4>3. p[k] = p[j]
          BY <1>1, <3>1, <4>1, <4>2
        <4> QED BY <2>2, <2>3, <4>3
      <3>4. RoleOf(b, b[j].user) = b[j].role
        BY <3>3, RoleOfOne
      <3> QED BY <3>2, <3>4
    <2> QED BY <2>2, <2>4 DEF isMembersUpdateRequired
  <1> QED BY <1>2, <1>3

-----------------------------------------------------------------------------
(* The inputs that users write: lists of members, and rotations with lists *)
(* of participants and of intervals.                                       *)
Restriction == [type : Texts \cup {None}, intervals : Seq(Interval)]

Rotation == [start : Texts \cup {None}, end : Texts \cup {None}, length : Lengths,
             participants : Seq(Participant), restriction : Restriction \cup {None}]

Inputs == left \in Seq(Member) /\ right \in Seq(Member) /\ rotations \in Seq(Rotation)

(* The last of a list is replaced by another of its kind.                  *)
LEMMA ReplaceLast ==
    ASSUME NEW S, NEW s \in Seq(S), s # <<>>, NEW x \in S
    PROVE  Last(s) \in S /\ [s EXCEPT ![Len(s)] = x] \in Seq(S)
  <1>1. Len(s) \in 1..Len(s)
    OBVIOUS
  <1>2. Last(s) \in S
    BY <1>1 DEF Last
  <1>3. [s EXCEPT ![Len(s)] = x] \in [1..Len(s) -> S]
    BY <1>1
  <1> QED BY <1>2, <1>3

(* A rotation whose participants or restriction are replaced.              *)
LEMMA ReplacePart ==
    ASSUME NEW r \in Rotation
    PROVE  /\ \A ps \in Seq(Participant) : [r EXCEPT !.participants = ps] \in Rotation
           /\ \A t \in Restriction : [r EXCEPT !.restriction = t] \in Rotation
           /\ r.restriction \in Restriction =>
                 \A is \in Seq(Interval) :
                    [r EXCEPT !.restriction.intervals = is] \in Rotation
  BY DEF Rotation, Restriction

(* Every list that is put together is one of these.                        *)
LEMMA InputsStayTyped == Inputs /\ [Next]_vars => Inputs'
  <1> SUFFICES ASSUME Inputs, [Next]_vars PROVE Inputs'
    OBVIOUS
  <1> USE DEF Inputs
  <1>1. ASSUME rotations # <<>>, NEW r \in Rotation, Change(r)
        PROVE  Inputs'
    BY <1>1, ReplaceLast DEF Change
  <1>2. rotations # <<>> => Last(rotations) \in Rotation
    <2>1. ASSUME rotations # <<>> PROVE Len(rotations) \in 1..Len(rotations)
      BY <2>1
    <2> QED BY <2>1 DEF Last
  <1>3. CASE AppendLeft
    BY <1>3 DEF AppendLeft
  <1>4. CASE AppendRight
    BY <1>4 DEF AppendRight
  <1>5. CASE AddRotation
    BY <1>5 DEF AddRotation, Rotation
  <1>6. CASE rotations # <<>> /\ AddParticipant
    <2>1. PICK p \in Participant :
             Change([Last(rotations) EXCEPT !.participants = Append(@, p)])
      BY <1>6 DEF AddParticipant
    <2>2. Last(rotations).participants \in Seq(Participant)
      BY <1>2, <1>6 DEF Rotation
    <2>3. Append(Last(rotations).participants, p) \in Seq(Participant)
      BY <2>2
    <2>4. [Last(rotations) EXCEPT !.participants = Append(@, p)] \in Rotation
      BY <1>2, <1>6, <2>3, ReplacePart
    <2> QED BY <1>1, <1>6, <2>1, <2>4
  <1>7. CASE rotations # <<>> /\ AddRestriction
    <2>1. PICK type \in Texts \cup {None} :
             Change([Last(rotations) EXCEPT
                        !.restriction = [type |-> type, intervals |-> <<>>]])
      BY <1>7 DEF AddRestriction
    <2>2. [type |-> type, intervals |-> <<>>] \in Restriction
      BY DEF Restriction
    <2>3. [Last(rotations) EXCEPT
              !.restriction = [type |-> type, intervals |-> <<>>]] \in Rotation
      BY <1>2, <1>7, <2>2, ReplacePart
    <2> QED BY <1>1, <1>7, <2>1, <2>3
  <1>8. CASE rotations # <<>> /\ AddInterval
    <2>1. PICK i \in Interval :
             /\ Last(rotations).restriction # None
             /\ Change([Last(rotations) EXCEPT !.restriction.intervals = Append(@, i)])
      BY <1>8 DEF AddInterval, CommonIntervals
    <2>2. Last(rotations).restriction \in Restriction
      BY <1>2, <1>8, <2>1 DEF Rotation
    <2>3. Append(Last(rotations).restriction.intervals, i) \in Seq(Interval)
      BY <2>2 DEF Restriction
    <2>4. [Last(rotations) EXCEPT !.restriction.intervals = Append(@, i)] \in Rotation
      BY <1>2, <1>8, <2>2, <2>3, ReplacePart
    <2> QED BY <1>1, <1>8, <2>1, <2>4
  <1>9. CASE UNCHANGED vars
    BY <1>9 DEF vars
  <1> QED BY <1>3, <1>4, <1>5, <1>6, <1>7, <1>8, <1>9 DEF Next

(* They are so in every state.                                             *)
LEMMA InputsTyped == Spec => []Inputs
  <1>1. Init => Inputs
    BY DEF Init, Inputs
  <1> QED BY <1>1, InputsStayTyped, PTL DEF Spec

-----------------------------------------------------------------------------
(* Rotations that convert do so one by one.                                *)
LEMMA RotationsConverted ==
    ASSUME Inputs, converted # Error
    PROVE  /\ converted \in [DOMAIN rotations -> {converted[i] : i \in DOMAIN rotations}]
           /\ Len(converted) = Len(rotations)
           /\ \A i \in DOMAIN rotations :
                 /\ rotations[i] \in Rotation
                 /\ converted[i] = convertRotation(rotations[i])
                 /\ converted[i] # Error
  <1>1. /\ converted = [i \in DOMAIN rotations |-> convertRotation(rotations[i])]
        /\ \A i \in DOMAIN rotations : convertRotation(rotations[i]) # Error
    BY DEF converted, convertRotations, ConvertAll
  <1>2. DOMAIN rotations = 1..Len(rotations) /\ Len(rotations) \in Nat
    BY DEF Inputs
  <1>3. DOMAIN converted = DOMAIN rotations
    BY <1>1
  <1>4. Len(converted) = Len(rotations)
    BY <1>2, <1>3
  <1>5. \A i \in DOMAIN rotations : rotations[i] \in Rotation
    BY DEF Inputs
  <1> QED BY <1>1, <1>4, <1>5

(* A rotation that converts has participants, which all convert, and its   *)
(* restriction converts.                                                   *)
LEMMA RotationConverted ==
    ASSUME NEW r, convertRotation(r) # Error
    PROVE  /\ convertRotation(r).participants # <<>>
           /\ convertRotation(r).participants =
                 [j \in DOMAIN r.participants |-> convertParticipant(r.participants[j])]
           /\ \A j \in DOMAIN r.participants : convertParticipant(r.participants[j]) # Error
           /\ convertRotation(r).restriction = convertTimeRestrictions(r.restriction)
           /\ convertTimeRestrictions(r.restriction) # Error
           /\ convertRotation(r).length = uint32(r.length)
  <1>1. /\ convertRotation(r) =
              [start |-> r.start, end |-> None, length |-> uint32(r.length),
               participants |-> convertParticipants(r.participants),
               restriction |-> convertTimeRestrictions(r.restriction)]
        /\ convertParticipants(r.participants) \notin {Error, <<>>}
        /\ convertTimeRestrictions(r.restriction) # Error
    BY DEF convertRotation
  <1>2. /\ convertParticipants(r.participants) =
              [j \in DOMAIN r.participants |-> convertParticipant(r.participants[j])]
        /\ \A j \in DOMAIN r.participants : convertParticipant(r.participants[j]) # Error
    BY <1>1 DEF convertParticipants, ConvertAll
  <1> QED BY <1>1, <1>2

(* So do the intervals of a restriction that converts.                     *)
LEMMA RestrictionConverted ==
    ASSUME NEW r, r # None, convertTimeRestrictions(r) # Error
    PROVE  /\ convertTimeRestrictions(r) =
                 [type |-> r.type,
                  list |-> [j \in DOMAIN r.intervals |-> convertInterval(r.intervals[j])]]
           /\ r.type # None
           /\ \A j \in DOMAIN r.intervals : convertInterval(r.intervals[j]) # Error
  <1>1. /\ r.type # None
        /\ ConvertAll(convertInterval, r.intervals) # Error
        /\ convertTimeRestrictions(r) =
              [type |-> r.type, list |-> ConvertAll(convertInterval, r.intervals)]
    BY DEF convertTimeRestrictions
  <1>2. /\ ConvertAll(convertInterval, r.intervals) =
              [j \in DOMAIN r.intervals |-> convertInterval(r.intervals[j])]
        /\ \A j \in DOMAIN r.intervals : convertInterval(r.intervals[j]) # Error
    BY <1>1 DEF ConvertAll
  <1> QED BY <1>1, <1>2

(* mapDayIntToString gives each day of the week its ISO name.              *)
LEMMA DaysNamed ==
    ASSUME NEW d \in 1..7
    PROVE  /\ mapDayIntToString(d) \in DayNames
           /\ IsoDay[mapDayIntToString(d)] = d
  <1>1. /\ mapDayIntToString(1) = "monday" /\ mapDayIntToString(2) = "tuesday"
        /\ mapDayIntToString(3) = "wednesday" /\ mapDayIntToString(4) = "thursday"
        /\ mapDayIntToString(5) = "friday" /\ mapDayIntToString(6) = "saturday"
        /\ mapDayIntToString(7) = "sunday"
    BY DEF mapDayIntToString
  <1>2. d = 1 \/ d = 2 \/ d = 3 \/ d = 4 \/ d = 5 \/ d = 6 \/ d = 7
    OBVIOUS
  <1>3. mapDayIntToString(d) \in DayNames
    BY <1>1, <1>2 DEF DayNames
  <1>4. /\ IsoDay["monday"] = 1 /\ IsoDay["tuesday"] = 2 /\ IsoDay["wednesday"] = 3
        /\ IsoDay["thursday"] = 4 /\ IsoDay["friday"] = 5 /\ IsoDay["saturday"] = 6
        /\ IsoDay["sunday"] = 7
    BY DEF IsoDay
  <1>5. IsoDay[mapDayIntToString(d)] = d
    BY <1>1, <1>2, <1>4
  <1> QED BY <1>3, <1>5

(* A number that has a place in uint32 survives the cast.                  *)
LEMMA CastKept ==
    ASSUME NEW n \in 0..(Word - 1)
    PROVE  uint32(n) = n
  BY WordAssumption DEF uint32

(* An interval that converts has days of the week, whose names are sent.   *)
LEMMA IntervalConverted ==
    ASSUME NEW i, convertInterval(i) # Error
    PROVE  /\ i.startDay \in 1..7 /\ i.endDay \in 1..7
           /\ convertInterval(i) =
                 [startDay |-> mapDayIntToString(i.startDay),
                  endDay |-> mapDayIntToString(i.endDay),
                  startHour |-> i.startHour % Word, endHour |-> i.endHour % Word]
  <1>1. /\ mapDayIntToString(i.startDay) # Error
        /\ mapDayIntToString(i.endDay) # Error
        /\ convertInterval(i) =
              [startDay |-> mapDayIntToString(i.startDay),
               endDay |-> mapDayIntToString(i.endDay),
               startHour |-> uint32(i.startHour), endHour |-> uint32(i.endHour)]
    BY DEF convertInterval
  <1>2. i.startDay \in 1..7 /\ i.endDay \in 1..7
    BY <1>1 DEF mapDayIntToString
  <1> QED BY <1>1, <1>2 DEF uint32

(* What is built element by element from a list is as long as the list.    *)
LEMMA ConvertedLength ==
    ASSUME NEW S, NEW s \in Seq(S), NEW t, DOMAIN t = DOMAIN s,
           t = [i \in DOMAIN t |-> t[i]]
    PROVE  /\ Len(t) = Len(s)
           /\ t # <<>> => Len(t) > 0
  <1>1. DOMAIN s = 1..Len(s) /\ Len(s) \in Nat
    OBVIOUS
  <1>2. t \in Seq({t[i] : i \in DOMAIN t})
    <2>1. t \in [1..Len(s) -> {t[i] : i \in DOMAIN t}]
      BY <1>1
    <2> QED BY <1>1, <2>1
  <1>3. DOMAIN t = 1..Len(t) /\ Len(t) \in Nat
    BY <1>2
  <1>4. Len(t) = Len(s)
    BY <1>1, <1>3
  <1>5. t # <<>> => Len(t) > 0
    BY <1>2, <1>3
  <1> QED BY <1>4, <1>5

(* A participant that converts has one identification.                     *)
LEMMA ParticipantConverted ==
    ASSUME NEW p, convertParticipant(p) # Error
    PROVE  LET c == convertParticipant(p)
           IN  /\ Cardinality({f \in {"id", "name", "username"} : c[f] # None}) <= 1
               /\ p.id # None => c.id = p.id
  <1> DEFINE c == convertParticipant(p)
             given == {f \in {"id", "name", "username"} : c[f] # None}
  <1>1. c = ById(p) \/ (p.id = None /\ (c = ByName(p) \/ c = ByUser(p)))
    BY DEF convertParticipant
  <1>2. p.id # None => c.id = p.id
    BY <1>1 DEF ById
  <1>3. given \subseteq {"id"} \/ given \subseteq {"name"} \/ given \subseteq {"username"}
    <2>1. CASE c = ById(p)
      BY <2>1 DEF ById
    <2>2. CASE c = ByName(p)
      BY <2>2 DEF ByName
    <2>3. CASE c = ByUser(p)
      BY <2>3 DEF ByUser
    <2> QED BY <1>1, <2>1, <2>2, <2>3
  <1>4. ASSUME NEW f, NEW T \in SUBSET {f} PROVE Cardinality(T) <= 1
    <2>1. IsFiniteSet({f}) /\ Cardinality({f}) = 1
      BY FS_Singleton
    <2> QED BY <2>1, FS_Subset
  <1> QED BY <1>2, <1>3, <1>4

(* A restriction that converts is not sent as none.                        *)
LEMMA RestrictionSent ==
    ASSUME NEW r \in Restriction, r # None, convertTimeRestrictions(r) # Error
    PROVE  convertTimeRestrictions(r) # None
  <1> DEFINE Sent == [startDay : DayNames, endDay : DayNames, startHour : Nat, endHour : Nat]
             list == [j \in DOMAIN r.intervals |-> convertInterval(r.intervals[j])]
  <1>1. r.type \in Texts /\ convertTimeRestrictions(r) = [type |-> r.type, list |-> list]
    BY RestrictionConverted DEF Restriction
  <1>2. r.intervals \in Seq(Interval)
    BY DEF Restriction
  <1>3. ASSUME NEW j \in DOMAIN r.intervals PROVE convertInterval(r.intervals[j]) \in Sent
    <2>1. r.intervals[j] \in Interval
      BY <1>2
    <2>2. r.intervals[j].startHour \in Int /\ r.intervals[j].endHour \in Int
      <3>1. \A i \in Interval : i.startHour \in Hours /\ i.endHour \in Hours
        BY DEF Interval
      <3>2. \A h \in Hours : h \in Int
        BY InputAssumption
      <3> QED BY <2>1, <3>1, <3>2
    <2>3. \A n \in Int : n % Word \in Nat
      BY WordAssumption
    <2>4. convertInterval(r.intervals[j]) # Error
      BY RestrictionConverted
    <2> QED BY <2>2, <2>3, <2>4, IntervalConverted, DaysNamed
  <1>4. list \in Seq(Sent)
    <2>1. DOMAIN r.intervals = 1..Len(r.intervals) /\ Len(r.intervals) \in Nat
      BY <1>2
    <2>2. list \in [1..Len(r.intervals) -> Sent]
      BY <1>3, <2>1
    <2> QED BY <2>1, <2>2
  <1> QED BY <1>1, <1>4, InputAssumption DEF SentRestriction

-----------------------------------------------------------------------------
(* The theorems. *)

(* An update of a service is asked for exactly when the tags differ,       *)
(* whatever the lists, as long as Opsgenie holds no tag twice.             *)
THEOREM TagsAreCompared == Spec => []TagsCompared
  <1>1. Inputs => TagsCompared
    BY SlicesCompared DEF Inputs, TagsCompared
  <1> QED BY <1>1, InputsTyped, PTL

(* An update of the members is asked for exactly when the teams differ in  *)
(* a member or a role, as long as the CR names no user twice.              *)
THEOREM MembersAreCompared == Spec => []MembersCompared
  <1>1. Inputs => MembersCompared
    BY UpdateIsDifference DEF Inputs, MembersCompared
  <1> QED BY <1>1, InputsTyped, PTL

(* A rotation, participant or interval that does not convert stops the     *)
(* whole schedule: nothing is sent without it.                             *)
THEOREM NothingIsDropped == Spec => []NothingDropped
  <1>1. ASSUME Inputs PROVE NothingDropped
    <2>0. ASSUME converted # Error, NEW i \in DOMAIN rotations,
                 converted[i].restriction = None <=> rotations[i].restriction = None
          PROVE  Dropped(rotations[i], converted[i]) \subseteq {"end"}
      <3>1. converted[i] = convertRotation(rotations[i]) /\ converted[i] # Error
        BY <1>1, <2>0, RotationsConverted
      <3>2. converted[i].start = rotations[i].start
        BY <3>1 DEF convertRotation
      <3> HIDE DEF converted
      <3> QED BY <2>0, <3>2 DEF Dropped
    <2>1. SUFFICES ASSUME converted # Error, NEW i \in DOMAIN rotations
                   PROVE  LET r == rotations[i]
                              c == converted[i]
                          IN  /\ Len(c.participants) = Len(r.participants)
                              /\ Len(c.participants) > 0
                              /\ c.restriction = None <=> r.restriction = None
                              /\ r.restriction # None =>
                                    Len(c.restriction.list) = Len(r.restriction.intervals)
      BY <1>1, <2>0, RotationsConverted DEF NothingDropped
    <2> DEFINE r == rotations[i]
               c == converted[i]
    <2>2. r \in Rotation /\ c = convertRotation(r) /\ c # Error
      BY <1>1, <2>1, RotationsConverted
    <2> HIDE DEF r, c
    <2>3. Len(c.participants) = Len(r.participants) /\ Len(c.participants) > 0
      <3>1. r.participants \in Seq(Participant)
        BY <2>2 DEF Rotation
      <3>2. /\ c.participants # <<>>
            /\ c.participants =
                  [j \in DOMAIN r.participants |-> convertParticipant(r.participants[j])]
        BY <2>2, RotationConverted
      <3> QED BY <3>1, <3>2, ConvertedLength
    <2>4. c.restriction = convertTimeRestrictions(r.restriction) /\ c.restriction # Error
      BY <2>2, RotationConverted
    <2>5. CASE r.restriction = None
      BY <2>3, <2>4, <2>5 DEF convertTimeRestrictions, r, c
    <2>6. CASE r.restriction # None
      <3>1. r.restriction \in Restriction
        BY <2>2, <2>6 DEF Rotation
      <3>2. c.restriction # None
        BY <2>4, <2>6, <3>1, RestrictionSent
      <3>3. c.restriction.list =
               [j \in DOMAIN r.restriction.intervals
                  |-> convertInterval(r.restriction.intervals[j])]
        BY <2>4, <2>6, RestrictionConverted
      <3>4. Len(c.restriction.list) = Len(r.restriction.intervals)
        <4>1. r.restriction.intervals \in Seq(Interval)
          BY <3>1 DEF Restriction
        <4> QED BY <3>3, <4>1, ConvertedLength
      <3> QED BY <2>3, <2>6, <3>2, <3>4 DEF r, c
    <2> QED BY <2>5, <2>6
  <1> QED BY <1>1, InputsTyped, PTL

(* Every participant is sent under one identification only, the id if the  *)
(* CR gives one.                                                           *)
THEOREM OneIdentitySent == Spec => []OneIdentity
  <1>1. ASSUME Inputs PROVE OneIdentity
    <2>1. SUFFICES ASSUME converted # Error, NEW i \in DOMAIN rotations,
                          NEW j \in DOMAIN rotations[i].participants
                   PROVE  LET p == rotations[i].participants[j]
                              c == converted[i].participants[j]
                          IN  /\ Cardinality({f \in {"id", "name", "username"} :
                                                 c[f] # None}) <= 1
                              /\ p.id # None => c.id = p.id
      BY DEF OneIdentity
    <2> DEFINE p == rotations[i].participants[j]
               c == converted[i].participants[j]
    <2>2. c = convertParticipant(p) /\ c # Error
      <3>1. converted[i] = convertRotation(rotations[i]) /\ converted[i] # Error
        BY <1>1, <2>1, RotationsConverted
      <3>2. ASSUME NEW q, convertRotation(q) # Error, NEW k \in DOMAIN q.participants
            PROVE  /\ convertRotation(q).participants[k]
                         = convertParticipant(q.participants[k])
                   /\ convertParticipant(q.participants[k]) # Error
        BY <3>2, RotationConverted
      <3> QED BY <2>1, <3>1, <3>2
    <2> HIDE DEF p, c
    <2> QED BY <2>2, ParticipantConverted DEF p, c
  <1> QED BY <1>1, InputsTyped, PTL

(* Both days of every interval that is sent are the ISO names of those in  *)
(* the CR, and the hours of the clock, at both ends, and a length that has *)
(* a place in uint32 survive the cast.                                     *)
THEOREM IntervalsAreKept == Spec => []IntervalsKept
  <1>1. ASSUME Inputs, converted # Error, NEW i \in DOMAIN rotations
        PROVE  rotations[i].length \in 0..(Word - 1) =>
                  converted[i].length = rotations[i].length
    <2>1. converted[i] = convertRotation(rotations[i]) /\ converted[i] # Error
      BY <1>1, RotationsConverted
    <2>2. ASSUME NEW q, convertRotation(q) # Error
          PROVE  convertRotation(q).length = uint32(q.length)
      BY <2>2, RotationConverted
    <2> QED BY <2>1, <2>2, CastKept
  <1>2. ASSUME Inputs, converted # Error, NEW i \in DOMAIN rotations,
               NEW x \in IntervalPairs(rotations[i], converted[i])
        PROVE  /\ x[2].startDay \in DayNames /\ x[2].endDay \in DayNames
               /\ IsoDay[x[2].startDay] = x[1].startDay
               /\ IsoDay[x[2].endDay] = x[1].endDay
               /\ x[1].startHour \in 0..23 => x[2].startHour = x[1].startHour
               /\ x[1].endHour \in 0..23 => x[2].endHour = x[1].endHour
    <2> DEFINE r == rotations[i].restriction
               c == converted[i].restriction
    <2>2. r # None /\ c = convertTimeRestrictions(r) /\ c # Error
      <3>1. converted[i] = convertRotation(rotations[i]) /\ converted[i] # Error
        BY <1>2, RotationsConverted
      <3>2. r # None
        BY <1>2 DEF IntervalPairs
      <3>3. ASSUME NEW q, convertRotation(q) # Error
            PROVE  /\ convertRotation(q).restriction = convertTimeRestrictions(q.restriction)
                   /\ convertTimeRestrictions(q.restriction) # Error
        BY <3>3, RotationConverted
      <3> QED BY <3>1, <3>2, <3>3
    <2>3. PICK j \in DOMAIN r.intervals : x = <<r.intervals[j], c.list[j]>>
      BY <1>2, <2>2 DEF IntervalPairs
    <2> HIDE DEF r, c
    <2>4. c.list[j] = convertInterval(r.intervals[j]) /\ c.list[j] # Error
      BY <2>2, RestrictionConverted
    <2>5. x[1] = r.intervals[j] /\ x[2] = convertInterval(x[1]) /\ x[2] # Error
      BY <2>3, <2>4
    <2>6. /\ x[1].startDay \in 1..7 /\ x[1].endDay \in 1..7
          /\ x[2].startDay = mapDayIntToString(x[1].startDay)
          /\ x[2].endDay = mapDayIntToString(x[1].endDay)
          /\ x[2].startHour = x[1].startHour % Word
          /\ x[2].endHour = x[1].endHour % Word
      BY <2>5, IntervalConverted
    <2>7. \A h \in 0..23 : h % Word = h
      BY WordAssumption
    <2>8. /\ x[1].startHour \in 0..23 => x[2].startHour = x[1].startHour
          /\ x[1].endHour \in 0..23 => x[2].endHour = x[1].endHour
      BY <2>6, <2>7
    <2>9. /\ x[2].startDay \in DayNames /\ IsoDay[x[2].startDay] = x[1].startDay
          /\ x[2].endDay \in DayNames /\ IsoDay[x[2].endDay] = x[1].endDay
      BY <2>6, DaysNamed
    <2> QED BY <2>8, <2>9
  <1>3. Inputs => IntervalsKept
    BY <1>1, <1>2 DEF IntervalsKept
  <1> QED BY <1>3, InputsTyped, PTL

=============================================================================
