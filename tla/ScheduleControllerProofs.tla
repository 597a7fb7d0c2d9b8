---------------------- MODULE ScheduleControllerProofs ----------------------
(***************************************************************************)
(* IInv is an inductive invariant of ScheduleController, for any number of *)
(* CRs, identifiers, edits, failures and restarts.  It contains TypeOK,    *)
(* UnboundIsScheduled and what makes every step one of Binding.            *)
(***************************************************************************)
EXTENDS ScheduleController, ControllerRuntimeProofs

(* Rotations in another order are rotations. *)
LEMMA ReorderedRotations ==
    ASSUME NEW s \in Rotations, NEW t \in Reorderings(s)
    PROVE  t \in Rotations
  <1> DEFINE R == [plan : Plans, crew : Crews]
  <1>1. PICK p \in [DOMAIN s -> DOMAIN s] : t = [i \in DOMAIN s |-> s[p[i]]]
    BY DEF Reorderings, Bijection, Injection, Surjection
  <1>2. s \in Seq(R)
    BY DEF Rotations
  <1> HIDE DEF R
  <1>3. DOMAIN s = 1..Len(s) /\ Len(s) \in Nat /\ s \in [1..Len(s) -> R]
    BY <1>2
  <1>4. \A i \in 1..Len(s) : s[p[i]] \in R
    BY <1>3
  <1>5. t \in [1..Len(s) -> R]
    BY <1>1, <1>3, <1>4
  <1>6. t \in Seq(R)
    BY <1>3, <1>5
  <1> QED BY <1>6 DEF R, Rotations

(* What holds in every state in which the worker is inside a run.          *)
LEMMA Running ==
    ASSUME IInv, pc # "idle"
    PROVE  /\ RuntimeInv /\ CopyKeepsBinding
           /\ key \in CRs /\ cr \in Object
           /\ \A r \in Reorderings(cr.spec.rotations) :
                 Request(cr.spec, r) \in Schedule
           /\ cr.status.id \in Ids \cup {None}
           /\ timers \cup {key} \subseteq CRs
           /\ budget \in [Expenses -> Nat]
           /\ remote \in [Ids -> Schedule \cup Absent]
  <1>1. cr.spec \in Specs /\ cr \in Object /\ RuntimeTypeOK /\ key \in CRs
    BY DEF IInv, RuntimeInv, RuntimeTypeOK
  <1>2. ASSUME NEW r \in Reorderings(cr.spec.rotations)
        PROVE  Request(cr.spec, r) \in Schedule
    <2>1. cr.spec \in ScheduleSpec
      BY <1>1, ScheduleAssumption
    <2>2. cr.spec.rotations \in Rotations
      BY <2>1 DEF ScheduleSpec
    <2>3. r \in Rotations
      BY <2>2, ReorderedRotations
    <2> QED BY <2>1, <2>3 DEF ScheduleSpec, Schedule, Request
  <1> QED BY <1>1, <1>2 DEF IInv, TypeOK, RuntimeTypeOK, Object, Status

(* Opsgenie's steps keep the type of what it holds.                        *)
RemoteType == remote \in [Ids -> Schedule \cup Absent]

(* An update and a creation keep it.                                       *)
LEMMA RemoteSteps ==
    ASSUME RemoteType, NEW c \in Schedule
    PROVE  /\ \A id : Store(id, c) => RemoteType'
           /\ Issue(c) => RemoteType' /\ NewId \in Ids
  <1>1. Fresh # {} => NewId \in Fresh
    BY DEF NewId
  <1> QED BY <1>1 DEF RemoteType, Store, Issue, Fresh

(* Calls that Opsgenie may have applied.                                   *)
LEMMA AppliedType ==
    ASSUME IInv, pc # "idle"
    PROVE  /\ UpdateApplied \/ CreateApplied \/ UNCHANGED remote => RemoteType'
           /\ CreateApplied => NewId \in Ids
  <1>1. ASSUME UpdateApplied
        PROVE  RemoteType'
    <2> DEFINE id == cr.status.id
    <2>1. PICK r \in Reorderings(cr.spec.rotations) :
             Store(id, Patched(Request(cr.spec, r), remote[id]))
      BY <1>1 DEF UpdateApplied
    <2>2. Request(cr.spec, r) \in Schedule /\ remote[id] \in Schedule
      BY <2>1, Running DEF Store, Exists
    <2> HIDE DEF id
    <2>3. Patched(Request(cr.spec, r), remote[id]) \in Schedule
      BY <2>2 DEF Patched, Schedule
    <2> QED BY <2>1, <2>3, Running, RemoteSteps DEF RemoteType
  <1>2. ASSUME CreateApplied
        PROVE  RemoteType' /\ NewId \in Ids
    <2>1. PICK r \in Reorderings(cr.spec.rotations) : Issue(Request(cr.spec, r))
      BY <1>2 DEF CreateApplied
    <2>2. Request(cr.spec, r) \in Schedule
      BY Running
    <2> QED BY <2>1, <2>2, Running, RemoteSteps DEF RemoteType
  <1>3. UNCHANGED remote => RemoteType'
    BY Running DEF RemoteType
  <1> QED BY <1>1, <1>2, <1>3

(* An unbound CR that exists stays covered by a step that drops none and   *)
(* unbinds none.                                                           *)
LEMMA UnboundStaysCovered ==
    ASSUME IInv, NeverDropped, BindingStep
    PROVE  \A k \in CRs :
              Latest(k)'.live /\ Latest(k)'.status.id = None => Covered(k)'
  <1>1. SUFFICES ASSUME NEW k \in CRs,
                        Latest(k)'.live, Latest(k)'.status.id = None
                 PROVE  Covered(k)'
    OBVIOUS
  <1>2. Latest(k).live => Latest(k).status.id = None
    BY <1>1, BindingStays
  <1> QED BY <1>1, <1>2 DEF IInv, NeverDropped

-----------------------------------------------------------------------------
(* The steps of a run. *)

(* A run that ends without a status write, and asks for another.           *)
LEMMA EndStep ==
    ASSUME IInv, pc # "idle", ReturnRequeue, UNCHANGED <<versions, queue>>,
           budget' \in [Expenses -> Nat], RemoteType'
    PROVE  IInv' /\ BindingStep
  <1>1. /\ RuntimeInv' /\ CopyKeepsBinding' /\ BindingStep /\ NeverDropped
        /\ pc' = "idle"
    BY Running, RequeueStep DEF ReturnRequeue, Idle
  <1>2. TypeOK'
    BY <1>1 DEF TypeOK, RuntimeInv, RemoteType
  <1> QED BY <1>1, <1>2, UnboundStaysCovered DEF IInv

(* A step inside a run: what is known of the identifier.                   *)
LEMMA ContinueStep ==
    ASSUME IInv, pc # "idle", UNCHANGED <<versions, queue, timers, budget, key>>,
           RemoteType', cr' \in Object, cr'.rv = cr.rv, cr'.spec = cr.spec,
           cr.status.id # None => cr'.status.id = cr.status.id,
           IF cr'.status.id = None
           THEN pc' \in {"creating", "importing"}
           ELSE pc' \in {"fetching", "updating", "saving", "savingImport"}
    PROVE  IInv' /\ BindingStep
  <1>1. RuntimeInv' /\ CopyKeepsBinding' /\ BindingStep /\ NeverDropped
    BY Running, InnerStep
  <1>2. TypeOK'
    BY <1>1 DEF TypeOK, RuntimeInv, RemoteType
  <1> QED BY <1>1, <1>2, UnboundStaysCovered DEF IInv

(* A status write that ends the run.  After an import no other run is      *)
(* asked for: the CR is bound then.                                        *)
LEMMA SaveStep ==
    ASSUME IInv, pc \in {"saving", "savingImport"}, StoreStatus,
           ReturnRequeue \/ ReturnDone,
           UNCHANGED <<queue, remote>>, budget' \in [Expenses -> Nat]
    PROVE  IInv' /\ BindingStep
  <1>1. PICK k \in CRs : key = k
    BY Running
  <1>2. /\ VersionsInv' /\ BindingStep /\ NoticesKept
        /\ \A c \in CRs \ {k} : Latest(c)' = Latest(c)
        /\ Latest(k)'.status = cr.status /\ cr.status.id # None
    BY <1>1, Running, StoreStep DEF IInv
  <1>3. Idle /\ timers' \subseteq CRs /\ timers \subseteq timers'
    BY <1>1, Running DEF ReturnRequeue, ReturnDone
  <1>4. RuntimeInv' /\ CopyKeepsBinding' /\ pc' = "idle"
    BY <1>2, <1>3, Running, ReturnStep DEF Idle
  <1>5. ASSUME NEW c \in CRs, Latest(c)'.live, Latest(c)'.status.id = None
        PROVE  Covered(c)'
    <2>1. c # k /\ Covered(c)
      BY <1>2, <1>5 DEF IInv
    <2> QED BY <1>1, <1>2, <1>3, <2>1 DEF Covered, NoticesKept
  <1>6. TypeOK'
    BY <1>4 DEF IInv, TypeOK, RuntimeInv
  <1> QED BY <1>2, <1>4, <1>5, <1>6 DEF IInv

(* Calls that fail. *)
LEMMA FailStep ==
    ASSUME IInv, pc # "idle", Fail, UNCHANGED <<versions, queue>>, RemoteType'
    PROVE  IInv' /\ BindingStep
  BY Running, SpendType, EndStep DEF Fail, Expenses

(* Every step of the worker.                                               *)
LEMMA WorkerStep ==
    ASSUME IInv, Worker
    PROVE  IInv' /\ BindingStep
  <1>1. CASE convertRotations
    <2>1. pc = "converting" /\ UNCHANGED <<versions, queue, budget, remote>>
      BY <1>1 DEF convertRotations
    <2> QED BY <1>1, <2>1, Running, AppliedType, EndStep, ContinueStep
            DEF convertRotations
  <1>2. CASE FetchSchedule
    <2>1. /\ pc = "fetching" /\ UNCHANGED <<versions, queue, remote>>
          /\ cr.status.id # None
      BY <1>2 DEF FetchSchedule, IInv
    <2>2. CASE pc' = "updating" /\ UNCHANGED <<budget, timers, key, cr>>
      BY <2>1, <2>2, Running, AppliedType, ContinueStep
    <2>3. CASE ReturnRequeue /\ UNCHANGED budget
      BY <2>1, <2>3, Running, AppliedType, EndStep
    <2>4. CASE Fail
      BY <2>1, <2>4, AppliedType, FailStep
    <2> QED BY <1>2, <2>2, <2>3, <2>4 DEF FetchSchedule
  <1>3. CASE updateSchedule
    <2>1. /\ pc = "updating" /\ UNCHANGED <<versions, queue>>
          /\ cr.status.id # None
      BY <1>3 DEF updateSchedule, IInv
    <2>2. RemoteType'
      BY <1>3, <2>1, AppliedType DEF updateSchedule
    <2>3. CASE pc' = "saving" /\ UNCHANGED <<budget, timers, key, cr>>
      BY <2>1, <2>2, <2>3, Running, ContinueStep
    <2>4. CASE ReturnRequeue /\ UNCHANGED budget
      BY <2>1, <2>2, <2>4, Running, EndStep
    <2>5. CASE Fail
      BY <2>1, <2>2, <2>5, FailStep
    <2> QED BY <1>3, <2>3, <2>4, <2>5 DEF updateSchedule
  <1>4. CASE createSchedule
    <2>1. /\ pc = "creating" /\ UNCHANGED <<versions, queue>>
          /\ cr.status.id = None
      BY <1>4 DEF createSchedule, IInv
    <2>2. RemoteType'
      BY <1>4, <2>1, AppliedType DEF createSchedule
    <2>3. CASE /\ CreateApplied
               /\ cr' = [cr EXCEPT !.status.id = NewId]
               /\ pc' = "saving"
               /\ UNCHANGED <<budget, timers, key>>
      <3>1. /\ cr' \in Object /\ cr'.rv = cr.rv /\ cr'.spec = cr.spec
            /\ cr'.status.id # None
        BY <2>1, <2>3, Running, AppliedType, OpsgenieAssumption DEF Object, Status
      <3> QED BY <2>1, <2>2, <2>3, <3>1, ContinueStep
    <2>4. CASE pc' = "importing" /\ UNCHANGED <<budget, timers, key, cr>>
      BY <2>1, <2>2, <2>4, Running, ContinueStep
    <2>5. CASE ReturnRequeue /\ UNCHANGED budget
      BY <2>1, <2>2, <2>5, Running, EndStep
    <2>6. CASE Fail
      BY <2>1, <2>2, <2>6, FailStep
    <2> QED BY <1>4, <2>3, <2>4, <2>5, <2>6 DEF createSchedule
  <1>5. CASE ImportByName
    <2>1. /\ pc = "importing" /\ UNCHANGED <<versions, queue, remote>>
          /\ cr.status.id = None
      BY <1>5 DEF ImportByName, IInv
    <2>2. ASSUME NEW id \in Named(cr.spec.name),
                 cr' = [cr EXCEPT !.status.id = id],
                 pc' = "savingImport", UNCHANGED <<budget, timers, key>>
          PROVE  IInv' /\ BindingStep
      <3>1. id \in Ids /\ id # None
        BY OpsgenieAssumption DEF Named
      <3>2. /\ cr' \in Object /\ cr'.rv = cr.rv /\ cr'.spec = cr.spec
            /\ cr'.status.id # None
        BY <2>1, <2>2, <3>1, Running DEF Object, Status
      <3> QED BY <2>1, <2>2, <3>2, AppliedType, ContinueStep
    <2>3. CASE ReturnRequeue /\ UNCHANGED budget
      BY <2>1, <2>3, Running, AppliedType, EndStep
    <2>4. CASE Fail
      BY <2>1, <2>4, AppliedType, FailStep
    <2> QED BY <1>5, <2>2, <2>3, <2>4 DEF ImportByName
  <1>6. CASE SaveStatus \/ SaveImport
    <2>1. /\ pc \in {"saving", "savingImport"} /\ UNCHANGED <<queue, remote>>
          /\ ReturnRequeue \/ ReturnDone
      BY <1>6 DEF SaveStatus, SaveImport, SaveFails
    <2>2. budget' \in [Expenses -> Nat]
      BY <1>6, <2>1, Running, SpendType
         DEF SaveStatus, SaveImport, SaveFails, Expenses
    <2>3. CASE StoreStatus
      BY <2>1, <2>2, <2>3, SaveStep
    <2>4. CASE ~StoreStatus
      BY <1>6, <2>1, <2>2, <2>4, AppliedType, EndStep
         DEF SaveStatus, SaveImport, SaveFails
    <2> QED BY <2>3, <2>4
  <1> QED BY <1>1, <1>2, <1>3, <1>4, <1>5, <1>6 DEF Worker

-----------------------------------------------------------------------------
(* The environment, and the theorems. *)

(* Steps outside the run. *)
LEMMA OutsideStep ==
    ASSUME IInv, RuntimeInv', CopyKeepsBinding', BindingStep, NeverDropped,
           UNCHANGED <<pc, cr>>, RemoteType'
    PROVE  IInv'
  <1>1. TypeOK'
    BY DEF TypeOK, IInv, RuntimeInv, RemoteType
  <1> QED BY <1>1, UnboundStaysCovered DEF IInv

(* IInv holds before the first CR is applied.                              *)
LEMMA InitIInv == Init => IInv /\ Sharing!Init
  <1> SUFFICES ASSUME Init PROVE IInv /\ Sharing!Init
    OBVIOUS
  <1>1. RuntimeInv /\ CopyKeepsBinding /\ Sharing!Init
        /\ \A k \in CRs : ~Latest(k).live
    BY RuntimeInitInv DEF Init
  <1>2. pc = "idle" /\ remote = [id \in Ids |-> Unissued]
    BY DEF Init, RuntimeInit
  <1>3. TypeOK
    BY <1>1, <1>2 DEF TypeOK, RuntimeInv, Absent
  <1> QED BY <1>1, <1>2, <1>3 DEF IInv

(* Every step keeps IInv and is a step of Binding.                         *)
LEMMA NextIInv ==
    ASSUME IInv, [Next]_vars
    PROVE  IInv' /\ BindingStep
  <1>1. RuntimeInv /\ CopyKeepsBinding /\ RemoteType
    BY DEF IInv, TypeOK, RemoteType
  <1>2. ASSUME NEW k \in CRs, User(k) PROVE IInv' /\ BindingStep
    <2>1. UNCHANGED <<pc, cr, remote>>
      BY <1>2 DEF User, ApplyCR, DeleteCR
    <2> QED BY <1>1, <1>2, <2>1, UserStep, OutsideStep DEF User, RemoteType
  <1>3. ASSUME NEW k \in CRs, Runtime(k) PROVE IInv' /\ BindingStep
    <2>1. UNCHANGED <<pc, cr, remote>>
      BY <1>3 DEF Runtime, WatchEvent, Timer
    <2> QED BY <1>1, <1>3, <2>1, RuntimeStep, OutsideStep DEF Runtime, RemoteType
  <1>4. ASSUME NEW k \in CRs, Reconcile(k) PROVE IInv' /\ BindingStep
    <2>1. /\ RuntimeInv' /\ CopyKeepsBinding' /\ BindingStep /\ NeverDropped
          /\ UNCHANGED <<pc, key, cr>> \/ pc' = "converting"
          /\ UNCHANGED remote
      BY <1>1, <1>4, GetStep DEF Reconcile
    <2>2. TypeOK'
      BY <1>1, <2>1 DEF TypeOK, IInv, RuntimeInv
    <2> QED BY <2>1, <2>2, UnboundStaysCovered DEF IInv
  <1>5. CASE Drift \/ \E id \in Ids : Removal(id)
    <2>1. UNCHANGED <<versions, queue, timers, pc, key, cr>>
      BY <1>5 DEF Drift, Removal
    <2>2. RemoteType' /\ budget' \in [Expenses -> Nat]
      <3>1. budget' \in [Expenses -> Nat]
        BY <1>1, <1>5, SpendType DEF Drift, Removal, Expenses
      <3>2. ASSUME NEW id \in Ids, Removal(id) PROVE RemoteType'
        BY <1>1, <3>2 DEF Removal, Discard, Absent, RemoteType
      <3>3. CASE Drift
        <4>1. PICK d \in Descs, r \in Lists :
              \/ \E id \in Ids : Exists(id) /\
                    Store(id, [remote[id] EXCEPT !.desc = d, !.rotations = r])
              \/ \E n \in Names, z \in Zones, o \in Owners :
                    Issue([name |-> n, desc |-> d, zone |-> z, owner |-> o,
                           rotations |-> r])
          BY <3>3 DEF Drift
        <4>2. r \in Rotations
          BY ScheduleAssumption
        <4>3. ASSUME NEW id \in Ids, Exists(id),
                     Store(id, [remote[id] EXCEPT !.desc = d, !.rotations = r])
              PROVE  RemoteType'
          <5>1. remote[id] \in Schedule
            BY <1>1, <4>3 DEF Exists, RemoteType
          <5>2. [remote[id] EXCEPT !.desc = d, !.rotations = r] \in Schedule
            BY <4>2, <5>1 DEF Schedule
          <5> QED BY <1>1, <4>3, <5>2, RemoteSteps
        <4>4. ASSUME NEW n \in Names, NEW z \in Zones, NEW o \in Owners,
                     Issue([name |-> n, desc |-> d, zone |-> z, owner |-> o,
                            rotations |-> r])
              PROVE  RemoteType'
          <5>1. [name |-> n, desc |-> d, zone |-> z, owner |-> o,
                 rotations |-> r] \in Schedule
            BY <4>2 DEF Schedule
          <5> QED BY <1>1, <4>4, <5>1, RemoteSteps
        <4> QED BY <3>1, <4>1, <4>3, <4>4
      <3> QED BY <1>5, <3>1, <3>2, <3>3
    <2>3. RuntimeInv' /\ CopyKeepsBinding' /\ BindingStep /\ NeverDropped
      BY <1>1, <2>1, <2>2, IdleStep
    <2> QED BY <2>1, <2>2, <2>3, OutsideStep
  <1>6. CASE Crash
    <2>1. /\ RuntimeInv' /\ CopyKeepsBinding' /\ BindingStep /\ pc' = "idle"
          /\ \A c \in CRs : Latest(c)' = Latest(c)
          /\ \A c \in CRs : Latest(c).live => Covered(c)'
          /\ UNCHANGED remote
      BY <1>1, <1>6, RestartStep DEF Crash
    <2>2. TypeOK'
      BY <1>1, <2>1 DEF TypeOK, IInv, RuntimeInv
    <2> QED BY <2>1, <2>2 DEF IInv
  <1>7. CASE UNCHANGED vars
    <2>1. /\ UNCHANGED <<versions, queue, timers, pc, key, cr, remote>>
          /\ budget' \in [Expenses -> Nat]
      BY <1>1, <1>7 DEF vars, runtimeVars, RuntimeInv, RuntimeTypeOK
    <2>2. RuntimeInv' /\ CopyKeepsBinding' /\ BindingStep /\ NeverDropped
      BY <1>1, <2>1, IdleStep
    <2> QED BY <1>1, <2>1, <2>2, OutsideStep DEF RemoteType
  <1> QED BY <1>2, <1>3, <1>4, <1>5, <1>6, <1>7, WorkerStep DEF Next

(* IInv holds in every reachable state. *)
THEOREM ScheduleInvariant == Spec => []IInv
  <1>1. IInv /\ [Next]_vars => IInv'
    BY NextIInv
  <1> QED BY <1>1, InitIInv, PTL DEF Spec

(* The variables of the schedule controller and its runtime keep their     *)
(* types, whatever users, Opsgenie and restarts do.                        *)
THEOREM ScheduleTypes == Spec => []TypeOK
  <1>1. IInv => TypeOK
    BY DEF IInv
  <1> QED BY <1>1, ScheduleInvariant, PTL

(* A schedule CR that exists is bound, or will be reconciled again.        *)
THEOREM NoneIsLeftUnbound == Spec => []UnboundIsScheduled
  <1>1. ASSUME IInv PROVE UnboundIsScheduled
    <2>1. SUFFICES ASSUME NEW k \in CRs,
                          Latest(k).live, Latest(k).status.id = None
                   PROVE  Scheduled(k)
      BY DEF UnboundIsScheduled
    <2>2. RuntimeTypeOK /\ Covered(k)
      BY <1>1, <2>1 DEF IInv, RuntimeInv
    <2> QED BY <2>2, CoveredIsScheduled
  <1> QED BY <1>1, ScheduleInvariant, PTL

(* The controller implements Binding: creation and import never exchange   *)
(* or forget the schedule of an existing CR.                               *)
THEOREM SchedulesBindOnce == Spec => BindsOnce
  <1>1. IInv /\ [Next]_vars => [Sharing!Next]_<<Living, Bound>>
    BY NextIInv DEF BindingStep
  <1> QED BY <1>1, InitIInv, ScheduleInvariant, PTL
          DEF Spec, BindsOnce, Sharing!Spec

=============================================================================
