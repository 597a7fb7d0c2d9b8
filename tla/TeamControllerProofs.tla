------------------------ MODULE TeamControllerProofs ------------------------
(***************************************************************************)
(* IInv is an inductive invariant of TeamController, for any number of     *)
(* CRs, members, renames, edits, failures and restarts.  It contains       *)
(* TypeOK and NeverForgotten, and implies that only the id of a team of    *)
(* the right name is ever recorded.                                        *)
(***************************************************************************)
EXTENDS TeamController, ControllerRuntimeProofs

RemoteType == remote \in [Ids -> Team \cup Absent]

(* Opsgenie keeps the names of its teams, and reuses no identifier.        *)
NamesKept ==
    \A id \in Ids :
        /\ remote[id] = Gone => remote'[id] = Gone
        /\ Exists(id) => \/ remote'[id] = Gone
                         \/ Exists(id)' /\ remote'[id].name = remote[id].name

(* What a run holds after its first step. *)
StageOK ==
    /\ pc \in {"importing", "updating", "savingMeta", "updatingMembers",
               "creating", "saving"}
    /\ existing \in Fetched \cup {None}
    /\ pc = "creating" => existing = None
    /\ pc # "creating" => HoldsNamesake
    /\ pc \notin {"creating", "saving"} => existing # None

(* What holds in every state in which the worker is inside a run.          *)
LEMMA Running ==
    ASSUME IInv, pc # "idle"
    PROVE  /\ RuntimeInv /\ key \in CRs /\ cr \in Object
           /\ cr.spec \in TeamSpec
           /\ cr.status.id \in Ids \cup {None}
           /\ budget \in [Expenses -> Nat]
           /\ existing \in Fetched \cup {None} /\ RemoteType
  <1>1. cr.spec \in Specs /\ cr \in Object /\ RuntimeTypeOK /\ key \in CRs
    BY DEF IInv, RuntimeInv, RuntimeTypeOK
  <1>2. cr.spec \in TeamSpec
    BY <1>1, TeamAssumption
  <1> QED BY <1>1, <1>2
          DEF IInv, TypeOK, RuntimeTypeOK, Object, Status, RemoteType

(* Members in another order are members. *)
LEMMA ReorderingType ==
    ASSUME NEW s \in Members, NEW t \in Reorderings(s)
    PROVE  t \in Members
  <1> DEFINE S == [user : Users, role : Roles]
  <1>1. s \in Seq(S)
    BY DEF Members
  <1> HIDE DEF S
  <1>2. PICK p \in [DOMAIN s -> DOMAIN s] : t = [i \in DOMAIN s |-> s[p[i]]]
    BY DEF Reorderings, Bijection, Injection, Surjection
  <1>3. DOMAIN s = 1..Len(s) /\ Len(s) \in Nat /\ s \in [1..Len(s) -> S]
    BY <1>1
  <1>4. \A i \in 1..Len(s) : s[p[i]] \in S
    BY <1>3
  <1>5. t \in [1..Len(s) -> S]
    BY <1>2, <1>3, <1>4
  <1>6. t \in Seq(S)
    BY <1>3, <1>5
  <1> QED BY <1>6 DEF Members, S

(* Opsgenie's steps. *)
LEMMA StoreKeeps ==
    ASSUME RemoteType, NEW c \in Team, NEW id \in Ids, Store(id, c),
           c.name = remote[id].name
    PROVE  RemoteType' /\ NamesKept
  <1>1. c \notin Absent
    BY TeamAssumption
  <1>2. RemoteType' /\ remote' = [remote EXCEPT ![id] = c] /\ Exists(id)
    BY DEF Store, RemoteType
  <1> QED BY <1>1, <1>2 DEF NamesKept, Exists, Absent, RemoteType

(* A team that is created takes no other's place.                          *)
LEMMA IssueKeeps ==
    ASSUME RemoteType, NEW c \in Team, Issue(c)
    PROVE  /\ RemoteType' /\ NamesKept
           /\ NewId \in Ids /\ remote'[NewId] = c
  <1>1. c \notin Absent
    BY TeamAssumption
  <1>2. NewId \in Ids /\ remote[NewId] = Unissued
    <2>1. NewId \in Fresh
      BY DEF NewId, Issue
    <2> QED BY <2>1 DEF Fresh
  <1>3. remote' = [remote EXCEPT ![NewId] = c]
    BY DEF Issue
  <1>4. RemoteType' /\ remote'[NewId] = c
    BY <1>2, <1>3 DEF RemoteType
  <1>5. Unissued # Gone
    BY OpsgenieAssumption
  <1>6. NamesKept
    BY <1>1, <1>2, <1>3, <1>5 DEF NamesKept, Exists, Absent, RemoteType
  <1> QED BY <1>2, <1>4, <1>6

(* Steps that leave Opsgenie alone keep its names.                         *)
LEMMA RemoteStays == ASSUME RemoteType, UNCHANGED remote PROVE RemoteType' /\ NamesKept
  BY DEF RemoteType, NamesKept, Exists

(* Knowing a namesake lasts, whatever Opsgenie does.                       *)
LEMMA NamesakeStays ==
    ASSUME NamesKept, HoldsNamesake, cr'.spec = cr.spec,
           cr'.status.id = cr.status.id,
           existing' # None => existing'.id = cr.status.id
    PROVE  HoldsNamesake'
  BY DEF HoldsNamesake, NamesKept

(* A CR that exists stays covered by a step that drops none.               *)
LEMMA LivingStayCovered ==
    ASSUME IInv, NeverDropped
    PROVE  \A k \in CRs : Latest(k)'.live => Covered(k)'
  BY DEF IInv, NeverDropped

(* Steps that record no identifier record none of a wrong name.            *)
LEMMA NoneRecorded ==
    ASSUME IdsStay
    PROVE  RecordsNamesake
  BY OpsgenieAssumption DEF IdsStay, RecordsNamesake, Exists

-----------------------------------------------------------------------------
(* The steps of a run. *)

(* A status write records the id of a namesake.                            *)
LEMMA StoreRecords ==
    ASSUME IInv, pc \notin {"idle", "lookup", "creating"}, StoreStatus
    PROVE  RecordsNamesake
  <1>1. PICK k \in CRs : key = k
    BY Running
  <1>2. /\ \A c \in CRs \ {k} : Latest(c)' = Latest(c)
        /\ Latest(k)'.status = cr.status /\ Latest(k)'.spec = cr.spec
    BY <1>1, Running, StoreStep
  <1>3. HoldsNamesake
    BY DEF IInv
  <1> QED BY <1>2, <1>3 DEF RecordsNamesake, HoldsNamesake, Exists, Absent

(* A run that ends without a status write.                                 *)
LEMMA EndStep ==
    ASSUME IInv, pc # "idle", ReturnRequeue, existing' = None,
           UNCHANGED <<versions, queue>>,
           budget' \in [Expenses -> Nat], RemoteType'
    PROVE  IInv' /\ RecordsNamesake
  <1>1. /\ RuntimeInv' /\ NeverDropped /\ pc' = "idle"
        /\ \A c \in CRs : Latest(c)' = Latest(c)
    BY Running, RequeueStep DEF ReturnRequeue, Idle
  <1>2. TypeOK'
    BY <1>1 DEF TypeOK, RuntimeInv, RemoteType
  <1>3. RecordsNamesake
    BY <1>1, NoneRecorded DEF IdsStay
  <1> QED BY <1>1, <1>2, <1>3, LivingStayCovered DEF IInv

(* A run that ends with a status write.                                    *)
LEMMA StoreEndStep ==
    ASSUME IInv, pc \notin {"idle", "lookup", "creating"}, StoreStatus,
           ReturnRequeue, existing' = None, UNCHANGED queue,
           budget' \in [Expenses -> Nat], RemoteType'
    PROVE  IInv' /\ RecordsNamesake
  <1>1. RuntimeInv' /\ NeverDropped /\ pc' = "idle"
    BY Running, StoreRequeueStep DEF ReturnRequeue, Idle
  <1>2. TypeOK'
    BY <1>1 DEF TypeOK, RuntimeInv, RemoteType
  <1> QED BY <1>1, <1>2, StoreRecords, LivingStayCovered DEF IInv

(* A step inside a run that writes no status.                              *)
LEMMA ContinueStep ==
    ASSUME IInv, pc # "idle", UNCHANGED <<versions, queue, timers, key>>,
           budget' \in [Expenses -> Nat], RemoteType',
           cr' \in Object, cr'.rv = cr.rv, cr'.spec = cr.spec, StageOK'
    PROVE  IInv' /\ RecordsNamesake
  <1>1. pc' # "idle"
    BY DEF StageOK
  <1>2. /\ RuntimeInv' /\ NeverDropped
        /\ \A c \in CRs : Latest(c)' = Latest(c)
    BY <1>1, Running, InnerStep
  <1>3. TypeOK'
    BY <1>2 DEF TypeOK, RuntimeInv, RemoteType, StageOK
  <1>4. RecordsNamesake
    BY <1>2, NoneRecorded DEF IdsStay
  <1> QED BY <1>2, <1>3, <1>4, LivingStayCovered DEF IInv, StageOK

(* A status write, and where the run goes on.                              *)
LEMMA SaveStep ==
    ASSUME IInv, pc \notin {"idle", "lookup", "creating"},
           NEW step, SaveAndGoOn(step),
           step \in {"done", "updating", "updatingMembers"},
           step # "done" => existing # None
    PROVE  IInv' /\ RecordsNamesake
  <1>1. UNCHANGED <<queue, remote>> /\ RemoteType'
    BY Running DEF SaveAndGoOn, RemoteType
  <1>2. CASE /\ StoreStatus /\ UNCHANGED <<budget, key, timers, existing>>
             /\ step # "done" /\ pc' = step
             /\ cr' = [cr EXCEPT !.rv = NextVersion(key)]
    <2>1. /\ RuntimeInv' /\ NeverDropped
          /\ cr'.status = cr.status /\ cr'.spec = cr.spec
      BY <1>1, <1>2, Running, StoreGoOnStep
    <2>2. HoldsNamesake'
      <3>1. NamesKept /\ HoldsNamesake
        BY <1>1, Running, RemoteStays DEF IInv
      <3> QED BY <1>2, <2>1, <3>1, NamesakeStays DEF HoldsNamesake
    <2>3. TypeOK'
      BY <1>1, <1>2, <2>1, Running DEF TypeOK, RuntimeInv, RemoteType
    <2> QED BY <1>2, <2>1, <2>2, <2>3, StoreRecords, LivingStayCovered DEF IInv
  <1>3. CASE StoreStatus /\ UNCHANGED budget /\ ReturnRequeue /\ existing' = None
    BY <1>1, <1>3, Running, StoreEndStep
  <1>4. CASE /\ ReturnRequeue /\ existing' = None
             /\ UNCHANGED <<versions, budget>>
    BY <1>1, <1>4, Running, EndStep
  <1>5. CASE Fail /\ (StoreStatus \/ UNCHANGED versions)
    <2>1. ReturnRequeue /\ existing' = None /\ budget' \in [Expenses -> Nat]
      BY <1>5, Running, SpendType DEF Fail, Expenses
    <2> QED BY <1>1, <1>5, <2>1, EndStep, StoreEndStep
  <1> QED BY <1>2, <1>3, <1>4, <1>5 DEF SaveAndGoOn

(* An Update call whose request keeps the name, or asks for the name that  *)
(* the team has.                                                           *)
LEMMA UpdateStep ==
    ASSUME IInv, pc \in {"updating", "updatingMembers"},
           NEW req, req.name \in {None, cr.spec.name},
           req.desc \in Descs \cup {None}, req.members \in Members,
           NEW next \in {"savingMeta", "saving"}, UpdateCall(req, next)
    PROVE  IInv' /\ RecordsNamesake
  <1>1. /\ UNCHANGED <<versions, queue>> /\ HoldsNamesake
        /\ existing \in Fetched /\ existing.id = cr.status.id
    BY Running DEF UpdateCall, IInv, HoldsNamesake
  <1>2. ASSUME UpdateApplied(req) PROVE RemoteType' /\ NamesKept
    <2> DEFINE id == existing.id
               c == Patched(req, remote[id])
    <2>1. id \in Ids /\ Exists(id) /\ Store(id, c)
      BY <1>1, <1>2 DEF Fetched, UpdateApplied, UpdateRefused
    <2>2. remote[id] \in Team
      BY <2>1, Running DEF Exists, RemoteType
    <2>3. remote[id].name = cr.spec.name
      BY <1>1, <2>1 DEF HoldsNamesake, Exists, Absent
    <2>4. c \in Team /\ c.name = remote[id].name
      BY <2>2, <2>3 DEF Patched, Team, TeamSpec
    <2> HIDE DEF c, id
    <2> QED BY <2>1, <2>4, Running, StoreKeeps
  <1>3. CASE /\ UpdateApplied(req) /\ pc' = next
             /\ UNCHANGED <<budget, key, timers, cr, existing>>
    <2>1. HoldsNamesake'
      BY <1>1, <1>2, <1>3, NamesakeStays DEF HoldsNamesake
    <2>2. StageOK'
      <3>1. existing # None
        BY DEF IInv
      <3> QED BY <1>1, <1>3, <2>1, <3>1, Running DEF StageOK
    <2> QED BY <1>1, <1>2, <1>3, <2>2, Running, ContinueStep
  <1>4. CASE ReturnRequeue /\ existing' = None /\ UNCHANGED <<budget, remote>>
    BY <1>1, <1>4, Running, RemoteStays, EndStep
  <1>5. CASE Fail /\ (UpdateApplied(req) \/ UNCHANGED remote)
    <2>1. ReturnRequeue /\ existing' = None /\ budget' \in [Expenses -> Nat]
      BY <1>5, Running, SpendType DEF Fail, Expenses
    <2>2. RemoteType'
      BY <1>2, <1>5, Running, RemoteStays
    <2> QED BY <1>1, <2>1, <2>2, EndStep
  <1> QED BY <1>3, <1>4, <1>5 DEF UpdateCall

(* The decisions name the next step. *)
LEMMA Decisions ==
    ASSUME NEW team
    PROVE  /\ AfterMeta(team) \in {"done", "updatingMembers"}
           /\ AfterImport(team) \in {"done", "updating", "updatingMembers"}
  BY DEF AfterMeta, AfterImport

(* Every step of the worker.                                               *)
LEMMA WorkerStep ==
    ASSUME IInv, Worker
    PROVE  IInv' /\ RecordsNamesake
  <1>1. CASE LookupTeam
    <2>1. /\ pc = "lookup" /\ UNCHANGED <<versions, queue, remote>>
          /\ existing = None
      BY <1>1 DEF LookupTeam, IInv, TypeOK
    <2>2. RemoteType'
      BY <2>1, Running, RemoteStays
    <2>3. CASE ReturnRequeue /\ UNCHANGED <<existing, budget>>
      BY <2>1, <2>2, <2>3, Running, EndStep
    <2>4. ASSUME NEW id \in Named(cr.spec.name),
                 pc' \in {"importing", "updating", "updatingMembers"},
                 existing' = [id |-> id, team |-> remote[id]],
                 cr' = [cr EXCEPT !.status.id = id],
                 UNCHANGED <<key, timers, budget>>
          PROVE  IInv' /\ RecordsNamesake
      <3>1. id \in Ids /\ Exists(id) /\ remote[id].name = cr.spec.name
        BY DEF Named
      <3>2. remote[id] \in Team
        BY <2>1, <3>1, Running DEF Exists, RemoteType
      <3>3. existing' \in Fetched /\ existing' # None /\ existing'.id = id
        BY <2>4, <3>1, <3>2, TeamAssumption DEF Fetched
      <3>4. /\ cr' \in Object /\ cr'.rv = cr.rv /\ cr'.spec = cr.spec
            /\ cr'.status.id = id
        BY <2>1, <2>4, <3>1, Running DEF Object, Status
      <3>5. HoldsNamesake'
        BY <2>1, <3>1, <3>3, <3>4 DEF HoldsNamesake, Exists
      <3>6. StageOK'
        BY <2>4, <3>3, <3>5 DEF StageOK
      <3> QED BY <2>1, <2>2, <2>4, <3>4, <3>6, Running, ContinueStep
    <2>5. CASE /\ UNCHANGED budget \/ Spend("faults")
               /\ pc' = "creating" /\ UNCHANGED <<key, timers, cr, existing>>
      <3>1. budget' \in [Expenses -> Nat]
        BY <2>1, <2>5, Running, SpendType DEF Expenses
      <3>2. StageOK'
        BY <2>1, <2>5 DEF StageOK
      <3> QED BY <2>1, <2>2, <2>5, <3>1, <3>2, Running, ContinueStep
    <2>6. ASSUME NEW id \in Named(cr.spec.name),
                 LET step == IF cr.status.id # id THEN "importing"
                             ELSE AfterImport(remote[id])
                 IN  /\ IF step = "done"
                        THEN ReturnRequeue /\ UNCHANGED existing
                        ELSE /\ existing' = [id |-> id, team |-> remote[id]]
                             /\ cr' = [cr EXCEPT !.status.id = id]
                             /\ pc' = step
                             /\ UNCHANGED <<key, timers>>
                     /\ UNCHANGED budget
          PROVE  IInv' /\ RecordsNamesake
      BY <2>3, <2>4, <2>6, Decisions
    <2> QED BY <1>1, <2>5, <2>6 DEF LookupTeam
  <1>2. CASE Import
    <2>1. pc = "importing" /\ existing # None
      BY <1>2 DEF Import, IInv
    <2> QED BY <1>2, <2>1, Decisions, SaveStep DEF Import
  <1>3. CASE updateTeam
    <2> DEFINE req == [name |-> cr.spec.name, desc |-> cr.spec.desc,
                       members |-> <<>>]
    <2>1. pc = "updating" /\ UpdateCall(req, "savingMeta")
      BY <1>3 DEF updateTeam
    <2>2. /\ req.name = cr.spec.name /\ req.desc \in Descs \cup {None}
          /\ req.members \in Members
      BY <2>1, Running DEF TeamSpec, Members
    <2> HIDE DEF req
    <2> QED BY <2>1, <2>2, UpdateStep
  <1>4. CASE SaveMeta
    <2>1. pc = "savingMeta" /\ existing # None
      BY <1>4 DEF SaveMeta, IInv
    <2> QED BY <1>4, <2>1, Decisions, SaveStep DEF SaveMeta
  <1>5. CASE updateTeamMembers
    <2>1. pc = "updatingMembers"
      BY <1>5 DEF updateTeamMembers
    <2>2. PICK members \in Reorderings(cr.spec.members) :
             UpdateCall([name |-> None, desc |-> None, members |-> members],
                        "saving")
      BY <1>5 DEF updateTeamMembers
    <2> DEFINE req == [name |-> None, desc |-> None, members |-> members]
    <2>3. cr.spec.members \in Members
      BY <2>1, Running DEF TeamSpec
    <2>4. members \in Members
      BY <2>3, ReorderingType
    <2>5. /\ req.name = None /\ req.desc = None /\ req.members \in Members
          /\ UpdateCall(req, "saving")
      BY <2>2, <2>4
    <2> HIDE DEF req
    <2> QED BY <2>1, <2>5, UpdateStep
  <1>6. CASE createTeam
    <2>1. /\ pc = "creating" /\ UNCHANGED <<versions, queue>>
          /\ existing = None
      BY <1>6 DEF createTeam, IInv, TypeOK
    <2>2. ASSUME CreateApplied
          PROVE  /\ RemoteType' /\ NewId \in Ids
                 /\ remote'[NewId] \notin Absent
                 /\ remote'[NewId].name = cr.spec.name
      <3>1. PICK members \in Reorderings(cr.spec.members) :
                    Issue([cr.spec EXCEPT !.members = members])
        BY <2>2 DEF CreateApplied
      <3>2. cr.spec \in TeamSpec
        BY <2>1, Running
      <3>3. members \in Members
        BY <3>2, ReorderingType DEF TeamSpec
      <3> DEFINE c == [cr.spec EXCEPT !.members = members]
      <3>4. c \in Team /\ c.name = cr.spec.name /\ Issue(c)
        BY <3>1, <3>2, <3>3 DEF Team, TeamSpec
      <3> HIDE DEF c
      <3>5. c \notin Absent
        BY <3>4, TeamAssumption
      <3> QED BY <2>1, <3>4, <3>5, Running, IssueKeeps
    <2>3. CASE /\ CreateApplied
               /\ cr' = [cr EXCEPT !.status.id = NewId]
               /\ pc' = "saving"
               /\ UNCHANGED <<budget, key, timers, existing>>
      <3>1. /\ cr' \in Object /\ cr'.rv = cr.rv /\ cr'.spec = cr.spec
            /\ cr'.status.id = NewId
        BY <2>1, <2>2, <2>3, Running DEF Object, Status
      <3>2. HoldsNamesake'
        <4>1. cr'.status.id \in Ids /\ Exists(cr.status.id)'
          BY <2>2, <2>3, <3>1 DEF Exists, Absent
        <4> QED BY <2>1, <2>2, <2>3, <3>1, <4>1 DEF HoldsNamesake
      <3>3. StageOK'
        BY <2>1, <2>3, <3>2 DEF StageOK
      <3> QED BY <2>1, <2>2, <2>3, <3>1, <3>3, Running, ContinueStep
    <2>4. CASE ReturnRequeue /\ UNCHANGED <<budget, remote, existing>>
      BY <2>1, <2>4, Running, RemoteStays, EndStep
    <2>5. CASE Fail /\ (CreateApplied \/ UNCHANGED remote)
      <3>1. ReturnRequeue /\ existing' = None /\ budget' \in [Expenses -> Nat]
        BY <2>1, <2>5, Running, SpendType DEF Fail, Expenses
      <3>2. RemoteType'
        BY <2>1, <2>2, <2>5, Running, RemoteStays
      <3> QED BY <2>1, <3>1, <3>2, EndStep
    <2> QED BY <1>6, <2>3, <2>4, <2>5 DEF createTeam
  <1>7. CASE Save
    BY <1>7, SaveStep DEF Save
  <1> QED BY <1>1, <1>2, <1>3, <1>4, <1>5, <1>6, <1>7 DEF Worker

-----------------------------------------------------------------------------
(* The environment, and the theorems. *)

(* Steps outside the run. *)
LEMMA OutsideStep ==
    ASSUME IInv, RuntimeInv', NeverDropped,
           UNCHANGED <<pc, cr, existing>>, RemoteType', NamesKept
    PROVE  IInv'
  <1>1. TypeOK'
    BY DEF TypeOK, IInv, RuntimeInv, RemoteType
  <1>2. pc \notin {"idle", "lookup", "creating"} => HoldsNamesake'
    BY NamesakeStays DEF IInv, HoldsNamesake
  <1> QED BY <1>1, <1>2, LivingStayCovered DEF IInv

(* IInv holds before the first CR is applied.                              *)
LEMMA InitIInv == Init => IInv
  <1> SUFFICES ASSUME Init PROVE IInv
    OBVIOUS
  <1>1. RuntimeInv /\ \A k \in CRs : ~Latest(k).live
    BY RuntimeInitInv DEF Init
  <1>2. /\ pc = "idle" /\ remote = [id \in Ids |-> Unissued]
        /\ existing = None
    BY DEF Init, RuntimeInit
  <1>3. TypeOK
    BY <1>1, <1>2 DEF TypeOK, RuntimeInv, Absent
  <1> QED BY <1>1, <1>2, <1>3 DEF IInv

(* Every step keeps IInv and records namesakes only.                       *)
LEMMA NextIInv ==
    ASSUME IInv, [Next]_vars
    PROVE  IInv' /\ RecordsNamesake
  <1>1. RuntimeInv /\ RemoteType
    BY DEF IInv, TypeOK, RemoteType
  <1>2. ASSUME NEW k \in CRs, User(k) PROVE IInv' /\ RecordsNamesake
    <2>1. UNCHANGED <<pc, cr, remote, existing>>
      BY <1>2 DEF User, ApplyCR, DeleteCR
    <2>2. RuntimeInv' /\ NeverDropped /\ IdsStay
      BY <1>1, <1>2, UserStep DEF User
    <2> QED BY <1>1, <2>1, <2>2, RemoteStays, OutsideStep, NoneRecorded
  <1>3. ASSUME NEW k \in CRs, Runtime(k) PROVE IInv' /\ RecordsNamesake
    <2>1. UNCHANGED <<pc, cr, remote, existing>>
      BY <1>3 DEF Runtime, WatchEvent, Timer
    <2>2. RuntimeInv' /\ NeverDropped /\ IdsStay
      BY <1>1, <1>3, RuntimeStep DEF Runtime, IdsStay
    <2> QED BY <1>1, <2>1, <2>2, RemoteStays, OutsideStep, NoneRecorded
  <1>4. ASSUME NEW k \in CRs, Reconcile(k) PROVE IInv' /\ RecordsNamesake
    <2>1. /\ RuntimeInv' /\ NeverDropped /\ UNCHANGED versions
          /\ UNCHANGED <<pc, key, cr>> \/ pc' = "lookup"
          /\ UNCHANGED <<remote, existing>> /\ pc = "idle"
      BY <1>1, <1>4, GetStep DEF Reconcile, Get
    <2>2. TypeOK'
      BY <1>1, <2>1 DEF TypeOK, IInv, RuntimeInv
    <2>3. RecordsNamesake
      BY <2>1, NoneRecorded DEF IdsStay, Latest
    <2> QED BY <2>1, <2>2, <2>3, LivingStayCovered DEF IInv
  <1>5. CASE Drift \/ \E id \in Ids : Removal(id)
    <2>1. UNCHANGED <<versions, queue, timers, pc, key, cr, existing>>
      BY <1>5 DEF Drift, Removal
    <2>2. budget' \in [Expenses -> Nat]
      BY <1>1, <1>5, SpendType DEF Drift, Removal, Expenses
    <2>3. ASSUME Drift PROVE RemoteType' /\ NamesKept
      <3>1. PICK d \in Descs, r \in Rosters :
            \/ \E id \in Ids : Exists(id) /\
                  Store(id, [remote[id] EXCEPT !.desc = d, !.members = r])
            \/ \E n \in Names : Issue([name |-> n, desc |-> d, members |-> r])
        BY <2>3 DEF Drift
      <3>2. ASSUME NEW id \in Ids, Exists(id),
                   Store(id, [remote[id] EXCEPT !.desc = d, !.members = r])
            PROVE  RemoteType' /\ NamesKept
        <4>1. remote[id] \in Team
          BY <1>1, <3>2 DEF Exists, RemoteType
        <4> DEFINE c == [remote[id] EXCEPT !.desc = d, !.members = r]
        <4>2. c \in Team /\ c.name = remote[id].name /\ Store(id, c)
          BY <3>2, <4>1, TeamAssumption DEF Team, TeamSpec
        <4> HIDE DEF c
        <4> QED BY <1>1, <4>2, StoreKeeps
      <3>3. ASSUME NEW n \in Names,
                   Issue([name |-> n, desc |-> d, members |-> r])
            PROVE  RemoteType' /\ NamesKept
        <4>1. r \in Members
          BY TeamAssumption
        <4>2. [name |-> n, desc |-> d, members |-> r] \in Team
          BY <4>1 DEF Team, TeamSpec
        <4> QED BY <1>1, <3>3, <4>2, IssueKeeps
      <3> QED BY <3>1, <3>2, <3>3
    <2>4. ASSUME NEW id \in Ids, Removal(id) PROVE RemoteType' /\ NamesKept
      <3>1. remote' = [remote EXCEPT ![id] = Gone] /\ remote[id] # Unissued
        BY <2>4 DEF Removal, Discard, Exists, Absent
      <3>2. remote'[id] = Gone /\ \A i \in Ids \ {id} : remote'[i] = remote[i]
        BY <1>1, <3>1 DEF RemoteType
      <3> QED BY <1>1, <3>1, <3>2 DEF RemoteType, NamesKept, Exists, Absent
    <2>5. RemoteType' /\ NamesKept
      BY <1>5, <2>3, <2>4
    <2>6. RuntimeInv' /\ NeverDropped
      BY <1>1, <2>1, <2>2, IdleStep
    <2>7. RecordsNamesake
      BY <2>1, NoneRecorded DEF IdsStay, Latest
    <2> QED BY <2>1, <2>5, <2>6, <2>7, OutsideStep
  <1>6. CASE Crash
    <2>1. /\ RuntimeInv' /\ pc' = "idle"
          /\ \A c \in CRs : Latest(c)' = Latest(c)
          /\ \A c \in CRs : Latest(c).live => Covered(c)'
          /\ UNCHANGED remote /\ existing' = None
      BY <1>1, <1>6, RestartStep DEF Crash
    <2>2. TypeOK'
      BY <1>1, <2>1 DEF TypeOK, RuntimeInv, RemoteType
    <2>3. RecordsNamesake
      BY <2>1, NoneRecorded DEF IdsStay
    <2> QED BY <2>1, <2>2, <2>3 DEF IInv
  <1>7. CASE UNCHANGED vars
    <2>1. /\ UNCHANGED <<versions, queue, timers, pc, key, cr, existing, remote>>
          /\ budget' \in [Expenses -> Nat]
      BY <1>1, <1>7 DEF vars, runtimeVars, RuntimeInv, RuntimeTypeOK
    <2>2. RuntimeInv' /\ NeverDropped
      BY <1>1, <2>1, IdleStep
    <2>3. RecordsNamesake
      BY <2>1, NoneRecorded DEF IdsStay, Latest
    <2> QED BY <1>1, <2>1, <2>2, <2>3, RemoteStays, OutsideStep
  <1> QED BY <1>2, <1>3, <1>4, <1>5, <1>6, <1>7, WorkerStep DEF Next

(* IInv holds in every reachable state. *)
THEOREM TeamInvariant == Spec => []IInv
  <1>1. IInv /\ [Next]_vars => IInv'
    BY NextIInv
  <1> QED BY <1>1, InitIInv, PTL DEF Spec

(* Every variable keeps its type, and a run that ends, or has not found a  *)
(* team, holds no copy of one.                                             *)
THEOREM TeamTypes == Spec => []TypeOK
  <1>1. IInv => TypeOK
    BY DEF IInv
  <1> QED BY <1>1, TeamInvariant, PTL

(* A team CR that exists will be reconciled again, whatever happened to    *)
(* its runs.                                                               *)
THEOREM NoTeamIsForgotten == Spec => []NeverForgotten
  <1>1. ASSUME IInv PROVE NeverForgotten
    <2>1. SUFFICES ASSUME NEW k \in CRs, Latest(k).live PROVE Scheduled(k)
      BY DEF NeverForgotten
    <2>2. RuntimeTypeOK /\ Covered(k)
      BY <1>1, <2>1 DEF IInv, RuntimeInv
    <2> QED BY <2>2, CoveredIsScheduled
  <1> QED BY <1>1, TeamInvariant, PTL

(* A CR only ever records the id of a team that has the name it asks for   *)
(* at that moment, although lookup and status write are steps apart.       *)
THEOREM TeamsAreNamesakes == Spec => BoundToNamesake
  <1>1. IInv /\ [Next]_vars => [RecordsNamesake]_vars
    BY NextIInv
  <1> QED BY <1>1, TeamInvariant, PTL DEF Spec, BoundToNamesake

=============================================================================
