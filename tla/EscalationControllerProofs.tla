--------------------- MODULE EscalationControllerProofs ---------------------
(***************************************************************************)
(* IInv is an inductive invariant of EscalationController, for any number  *)
(* of CRs, rules, references, edits, failures and restarts.  It contains   *)
(* TypeOK and NeverForgotten, makes every step one of Binding, and implies *)
(* that only the id of an escalation of the right name is recorded.        *)
(***************************************************************************)
EXTENDS EscalationController, ControllerRuntimeProofs

Locals == [rules : Seq(RuleRequest) \cup {None}, update : BOOLEAN]

(* What Opsgenie and the cache of the other kinds hold. *)
WorldType ==
    /\ remote \in [Ids -> Escalation \cup Absent]
    /\ refs \in [Refs -> RefStates]

(* Opsgenie keeps names and reuses no identifier, unless the operator asks *)
(* for another name.                                                       *)
NamesKept ==
    \A id \in Ids :
        /\ remote[id] = Gone => remote'[id] = Gone
        /\ Exists(id) => \/ remote'[id] = Gone
                         \/ Exists(id)' /\ remote'[id].name = remote[id].name

(* What the place in the run says of the local variables. *)
StageOK ==
    /\ pc \in {"mapping", "fetching", "looking", "importing", "updating",
               "creating", "saving"}
    /\ pc # "mapping" => locals.rules # None
    /\ pc \in {"looking", "creating"} => cr.status.id = None
    /\ pc \in {"fetching", "importing", "updating", "saving"}
          => cr.status.id # None
    /\ pc \in {"importing", "saving"} => HoldsNamesake

(* What holds in every state in which the worker is inside a run.          *)
LEMMA Running ==
    ASSUME IInv, pc # "idle"
    PROVE  /\ RuntimeInv /\ CopyKeepsBinding
           /\ key \in CRs /\ cr \in Object
           /\ cr.spec \in EscalationSpec
           /\ cr.status.id \in Ids \cup {None}
           /\ budget \in [Expenses -> Nat]
           /\ locals \in Locals /\ WorldType
  <1>1. cr.spec \in Specs /\ cr \in Object /\ RuntimeTypeOK /\ key \in CRs
    BY DEF IInv, RuntimeInv, RuntimeTypeOK
  <1>2. cr.spec \in EscalationSpec
    BY <1>1, EscalationAssumption
  <1> QED BY <1>1, <1>2
          DEF IInv, TypeOK, RuntimeTypeOK, Object, Status, Locals, WorldType

(* An existing CR stays covered by a step that drops none.                 *)
LEMMA LivingStayCovered ==
    ASSUME IInv, NeverDropped
    PROVE  \A k \in CRs : Latest(k)'.live => Covered(k)'
  BY DEF IInv, NeverDropped

(* Mapped recipients are what Opsgenie takes, unless one is unresolved.    *)
LEMMA MappedType ==
    ASSUME IInv, pc # "idle", ~MappingFailed(mapEscalationRules(cr.spec))
    PROVE  /\ mapEscalationRules(cr.spec) \in Seq(RuleRequest)
           /\ mapEscalationRules(cr.spec) # None
  <1> DEFINE given == cr.spec.rules
             mapped == mapEscalationRules(cr.spec)
  <1>1. given \in Seq(OpsgenieEscalationRule)
    BY Running DEF EscalationSpec
  <1>2. /\ mapped = [i \in 1..Len(given) |-> Mapped(given[i])]
        /\ Len(given) \in Nat
    BY <1>1 DEF mapEscalationRules
  <1>3. ASSUME NEW i \in 1..Len(given)
        PROVE  Mapped(given[i]) \in RuleRequest
    <2>1. given[i] \in OpsgenieEscalationRule
      BY <1>1, <1>3
    <2>2. Mapped(given[i]).id # Gone
      BY <1>2, <1>3 DEF MappingFailed
    <2>3. refs \in [Refs -> RefStates]
      BY Running DEF WorldType
    <2>4. resolveRecipientID(given[i]) \in RefStates
      BY <2>1, <2>3 DEF resolveRecipientID, OpsgenieEscalationRule, RefStates
    <2>5. resolveRecipientID(given[i]) \in Owners \cup {None}
      BY <2>2, <2>4 DEF Mapped, RefStates
    <2> QED BY <2>1, <2>5 DEF Mapped, RuleRequest, OpsgenieEscalationRule
  <1> HIDE DEF given
  <1>4. mapped \in Seq(RuleRequest)
    BY <1>2, <1>3
  <1> QED BY <1>4, EscalationAssumption

(* Rules in another order are rules. *)
LEMMA ReorderedRules ==
    ASSUME NEW s \in Seq(RuleRequest), NEW t \in Reorderings(s)
    PROVE  t \in Seq(RuleRequest)
  <1>1. PICK p \in [DOMAIN s -> DOMAIN s] : t = [i \in DOMAIN s |-> s[p[i]]]
    BY DEF Reorderings, Bijection, Injection, Surjection
  <1>2. DOMAIN s = 1..Len(s) /\ Len(s) \in Nat /\ s \in [1..Len(s) -> RuleRequest]
    OBVIOUS
  <1>3. \A i \in 1..Len(s) : s[p[i]] \in RuleRequest
    BY <1>2
  <1>4. t \in [1..Len(s) -> RuleRequest]
    BY <1>1, <1>2, <1>3
  <1> QED BY <1>2, <1>4

(* Opsgenie's steps keep the type of what it holds, and what is stored is  *)
(* there.                                                                  *)
LEMMA RemoteSteps ==
    ASSUME WorldType, NEW c \in Escalation, UNCHANGED refs
    PROVE  /\ c \notin Absent
           /\ \A id : Store(id, c) => WorldType' /\ id \in Ids /\ remote'[id] = c
           /\ Issue(c) => WorldType' /\ NewId \in Ids /\ remote'[NewId] = c
  <1>1. Fresh # {} => NewId \in Fresh
    BY DEF NewId
  <1>2. c \notin Absent
    BY EscalationAssumption
  <1> QED BY <1>1, <1>2 DEF WorldType, Store, Exists, Issue, Fresh

(* Steps of other people keep the names. *)
LEMMA OtherSteps ==
    ASSUME WorldType, NEW c \in Escalation
    PROVE  /\ \A id : Store(id, c) /\ c.name = remote[id].name => NamesKept
           /\ Issue(c) => NamesKept
  <1>1. c \notin Absent /\ Unissued # Gone
    BY EscalationAssumption, OpsgenieAssumption
  <1>2. ASSUME NEW id, Store(id, c), c.name = remote[id].name PROVE NamesKept
    BY <1>1, <1>2 DEF WorldType, Store, Exists, Absent, NamesKept
  <1>3. ASSUME Issue(c) PROVE NamesKept
    <2>1. NewId \in Fresh
      BY <1>3 DEF NewId, Issue
    <2>2. NewId \in Ids /\ remote[NewId] = Unissued
      BY <2>1 DEF Fresh
    <2>3. remote' = [remote EXCEPT ![NewId] = c]
      BY <1>3 DEF Issue
    <2> QED BY <1>1, <2>2, <2>3 DEF WorldType, Exists, Absent, NamesKept
  <1> QED BY <1>2, <1>3

(* Steps that leave Opsgenie alone keep its names.                         *)
LEMMA RemoteStays == ASSUME UNCHANGED remote PROVE NamesKept
  BY DEF NamesKept, Exists

(* Calls that Opsgenie may have applied.                                   *)
LEMMA AppliedType ==
    ASSUME IInv, pc \in {"updating", "creating"}, UNCHANGED refs
    PROVE  /\ UpdateApplied \/ CreateApplied \/ UNCHANGED remote => WorldType'
           /\ UpdateApplied => /\ cr.status.id \in Ids
                               /\ remote'[cr.status.id] \notin Absent
                               /\ remote'[cr.status.id].name = cr.spec.name
           /\ CreateApplied => /\ NewId \in Ids
                               /\ remote'[NewId] \notin Absent
                               /\ remote'[NewId].name = cr.spec.name
  <1>1. locals.rules \in Seq(RuleRequest)
    BY Running DEF IInv, TypeOK, Locals
  <1>2. ASSUME NEW rules \in Reorderings(locals.rules)
        PROVE  Request(rules) \in Escalation /\ Request(rules).name = cr.spec.name
    <2>1. rules \in Seq(RuleRequest)
      BY <1>1, ReorderedRules
    <2>2. cr.spec \in EscalationSpec /\ cr \in Object
      BY Running
    <2>3. cr.status.owner \in Owners \cup {None}
      BY <2>2 DEF Object, Status
    <2> QED BY <2>1, <2>2, <2>3 DEF Request, Escalation, EscalationSpec
  <1>3. ASSUME UpdateApplied
        PROVE  /\ WorldType' /\ cr.status.id \in Ids
               /\ remote'[cr.status.id] \notin Absent
               /\ remote'[cr.status.id].name = cr.spec.name
    <2> DEFINE id == cr.status.id
    <2>1. PICK rules \in Reorderings(locals.rules) :
             Store(id, Patched(Request(rules), remote[id]))
      BY <1>3 DEF UpdateApplied
    <2>2. /\ Request(rules) \in Escalation /\ remote[id] \in Escalation
          /\ Request(rules).name = cr.spec.name
      BY <1>2, <2>1, Running DEF Store, Exists, WorldType
    <2> HIDE DEF id
    <2>3. /\ Patched(Request(rules), remote[id]) \in Escalation
          /\ Patched(Request(rules), remote[id]).name = cr.spec.name
      BY <2>2 DEF Patched, Escalation
    <2>4. WorldType' /\ id \in Ids /\ remote'[id] = Patched(Request(rules), remote[id])
          /\ remote'[id] \notin Absent
      BY <2>1, <2>3, Running, RemoteSteps
    <2> QED BY <2>3, <2>4 DEF id
  <1>4. ASSUME CreateApplied
        PROVE  /\ WorldType' /\ NewId \in Ids
               /\ remote'[NewId] \notin Absent
               /\ remote'[NewId].name = cr.spec.name
    <2>1. PICK rules \in Reorderings(locals.rules) : Issue(Request(rules))
      BY <1>4 DEF CreateApplied
    <2> QED BY <1>2, <2>1, Running, RemoteSteps
  <1>5. UNCHANGED remote => WorldType'
    BY Running DEF WorldType
  <1> QED BY <1>3, <1>4, <1>5

(* Steps that record no identifier record none of a wrong name.            *)
LEMMA NoneRecorded ==
    ASSUME IdsStay
    PROVE  RecordsNamesake
  BY OpsgenieAssumption DEF IdsStay, RecordsNamesake, Exists

(* A status write records the id of a namesake.                            *)
LEMMA StoreRecords ==
    ASSUME IInv, pc \in {"importing", "saving"}, StoreStatus
    PROVE  RecordsNamesake
  <1>1. PICK k \in CRs : key = k
    BY Running
  <1>2. /\ \A c \in CRs \ {k} : Latest(c)' = Latest(c)
        /\ Latest(k)'.status = cr.status /\ Latest(k)'.spec = cr.spec
    BY <1>1, Running, StoreStep
  <1>3. HoldsNamesake
    BY DEF IInv
  <1> QED BY <1>2, <1>3 DEF RecordsNamesake, HoldsNamesake, Exists, Absent

-----------------------------------------------------------------------------
(* The steps of a run. *)

(* A run that ends without a status write.                                 *)
LEMMA EndStep ==
    ASSUME IInv, pc # "idle", Requeue, UNCHANGED <<versions, queue>>,
           budget' \in [Expenses -> Nat], WorldType'
    PROVE  IInv' /\ BindingStep /\ RecordsNamesake
  <1>1. ReturnRequeue /\ locals' = NoLocals
    BY DEF Requeue
  <1>2. /\ RuntimeInv' /\ CopyKeepsBinding' /\ BindingStep /\ NeverDropped
        /\ pc' = "idle" /\ \A c \in CRs : Latest(c)' = Latest(c)
    BY <1>1, Running, RequeueStep DEF ReturnRequeue, Idle
  <1>3. TypeOK'
    BY <1>1, <1>2 DEF TypeOK, RuntimeInv, WorldType, NoLocals
  <1>4. RecordsNamesake
    BY <1>2, NoneRecorded DEF IdsStay
  <1> QED BY <1>2, <1>3, <1>4, LivingStayCovered DEF IInv

(* A run that ends with a status write.                                    *)
LEMMA StoreEndStep ==
    ASSUME IInv, pc \in {"importing", "saving"}, StoreStatus, Requeue,
           UNCHANGED queue,
           budget' \in [Expenses -> Nat], WorldType'
    PROVE  IInv' /\ BindingStep /\ RecordsNamesake
  <1>1. ReturnRequeue /\ locals' = NoLocals
    BY DEF Requeue
  <1>2. /\ RuntimeInv' /\ CopyKeepsBinding' /\ BindingStep /\ NeverDropped
        /\ pc' = "idle"
    BY <1>1, Running, StoreRequeueStep DEF ReturnRequeue, Idle
  <1>3. TypeOK'
    BY <1>1, <1>2 DEF TypeOK, RuntimeInv, WorldType, NoLocals
  <1> QED BY <1>2, <1>3, StoreRecords, LivingStayCovered DEF IInv

(* Calls that fail. *)
LEMMA FailStep ==
    ASSUME IInv, pc # "idle", Fail, UNCHANGED queue,
           \/ UNCHANGED versions
           \/ pc \in {"importing", "saving"} /\ StoreStatus,
           WorldType'
    PROVE  IInv' /\ BindingStep /\ RecordsNamesake
  <1>1. Requeue /\ budget' \in [Expenses -> Nat]
    BY Running, SpendType DEF Fail, Expenses
  <1> QED BY <1>1, EndStep, StoreEndStep

(* A step inside a run.                                                    *)
LEMMA ContinueStep ==
    ASSUME IInv, pc # "idle", UNCHANGED <<versions, queue, timers, key>>,
           budget' \in [Expenses -> Nat], WorldType', locals' \in Locals,
           cr' \in Object, cr'.rv = cr.rv, cr'.spec = cr.spec,
           cr.status.id # None => cr'.status.id = cr.status.id,
           StageOK'
    PROVE  IInv' /\ BindingStep /\ RecordsNamesake
  <1>1. pc' # "idle"
    BY DEF StageOK
  <1>2. /\ RuntimeInv' /\ CopyKeepsBinding' /\ BindingStep /\ NeverDropped
        /\ \A c \in CRs : Latest(c)' = Latest(c)
    BY <1>1, Running, InnerStep
  <1>3. TypeOK'
    BY <1>2 DEF TypeOK, RuntimeInv, WorldType, StageOK, Locals
  <1>4. RecordsNamesake
    BY <1>2, NoneRecorded DEF IdsStay
  <1> QED BY <1>2, <1>3, <1>4, LivingStayCovered DEF IInv, StageOK

(* Every step of the worker.                                               *)
LEMMA WorkerStep ==
    ASSUME IInv, Worker
    PROVE  IInv' /\ BindingStep /\ RecordsNamesake
  <1>1. CASE ResolveTeam
    <2>1. /\ pc = "resolving" /\ UNCHANGED <<versions, queue, budget, remote, refs>>
      BY <1>1 DEF ResolveTeam
    <2>2. WorldType' /\ budget' \in [Expenses -> Nat]
      BY <2>1, Running DEF WorldType
    <2>3. CASE Requeue
      BY <2>1, <2>2, <2>3, EndStep
    <2>4. CASE /\ resolveTeamID(cr.spec) # Gone
               /\ cr' = [cr EXCEPT !.status.owner = resolveTeamID(cr.spec)]
               /\ pc' = "mapping"
               /\ UNCHANGED <<key, timers, locals>>
      <3>1. resolveTeamID(cr.spec) \in Owners \cup {None}
        BY <2>1, <2>4, Running
           DEF resolveTeamID, EscalationSpec, WorldType, RefStates
      <3>2. /\ cr' \in Object /\ cr'.rv = cr.rv /\ cr'.spec = cr.spec
            /\ cr'.status.id = cr.status.id
        BY <2>1, <2>4, <3>1, Running DEF Object, Status
      <3>3. StageOK'
        BY <2>4 DEF StageOK
      <3> QED BY <2>1, <2>2, <2>4, <3>2, <3>3, Running, ContinueStep
    <2> QED BY <1>1, <2>3, <2>4 DEF ResolveTeam
  <1>2. CASE MapRules
    <2> DEFINE rules == mapEscalationRules(cr.spec)
    <2>1. pc = "mapping" /\ UNCHANGED <<versions, queue, budget, remote, refs>>
      BY <1>2 DEF MapRules
    <2>2. WorldType' /\ budget' \in [Expenses -> Nat]
      BY <2>1, Running DEF WorldType
    <2>3. CASE Requeue
      BY <2>1, <2>2, <2>3, EndStep
    <2>4. CASE /\ ~MappingFailed(rules)
               /\ locals' = [locals EXCEPT !.rules = rules]
               /\ pc' = IF cr.status.id # None THEN "fetching" ELSE "looking"
               /\ UNCHANGED <<key, timers, cr>>
      <3>1. rules \in Seq(RuleRequest) /\ rules # None
        BY <2>1, <2>4, MappedType
      <3> HIDE DEF rules
      <3>2. locals' \in Locals /\ locals'.rules # None
        BY <2>1, <2>4, <3>1, Running DEF Locals
      <3>3. StageOK'
        BY <2>4, <3>2 DEF StageOK
      <3> QED BY <2>1, <2>2, <2>4, <3>2, <3>3, Running, ContinueStep
    <2> QED BY <1>2, <2>3, <2>4 DEF MapRules
  <1>3. CASE FetchById
    <2>1. /\ pc = "fetching" /\ UNCHANGED <<versions, queue, remote, refs>>
          /\ cr.status.id # None /\ locals.rules # None
      BY <1>3 DEF FetchById, IInv, TypeOK
    <2>2. WorldType'
      BY <2>1, Running DEF WorldType
    <2>3. CASE pc' = "updating" /\ UNCHANGED <<budget, key, cr, timers, locals>>
      <3>1. StageOK'
        BY <2>1, <2>3 DEF StageOK
      <3> QED BY <2>1, <2>2, <2>3, <3>1, Running, ContinueStep
    <2>4. CASE Requeue /\ UNCHANGED budget
      BY <2>1, <2>2, <2>4, Running, EndStep
    <2>5. CASE Fail
      BY <2>1, <2>2, <2>5, FailStep
    <2> QED BY <1>3, <2>3, <2>4, <2>5 DEF FetchById
  <1>4. CASE FetchByName
    <2>1. /\ pc = "looking"
          /\ UNCHANGED <<versions, queue, key, timers, remote, refs>>
          /\ cr.status.id = None /\ locals.rules # None
      BY <1>4 DEF FetchByName, IInv, TypeOK
    <2>2. WorldType'
      BY <2>1, Running DEF WorldType
    <2>3. ASSUME NEW id \in Named(cr.spec.name),
                 cr' = [cr EXCEPT !.status.id = id],
                 locals' = [locals EXCEPT
                              !.update = isUpdateRequired(cr.spec, remote[id])],
                 pc' = "importing", UNCHANGED budget
          PROVE  IInv' /\ BindingStep /\ RecordsNamesake
      <3>1. id \in Ids /\ id # None
        BY OpsgenieAssumption DEF Named
      <3>2. isUpdateRequired(cr.spec, remote[id]) \in BOOLEAN
        BY DEF isUpdateRequired
      <3>3. locals' \in Locals /\ locals'.rules = locals.rules
        BY <2>1, <2>3, <3>2, Running DEF Locals
      <3>4. /\ cr' \in Object /\ cr'.rv = cr.rv /\ cr'.spec = cr.spec
            /\ cr'.status.id = id
        BY <2>1, <2>3, <3>1, Running DEF Object, Status
      <3>5. HoldsNamesake'
        BY <2>1, <3>1, <3>4 DEF HoldsNamesake, Named, Exists
      <3>6. StageOK'
        BY <2>1, <2>3, <3>1, <3>3, <3>4, <3>5 DEF StageOK
      <3> QED BY <2>1, <2>2, <2>3, <3>3, <3>4, <3>6, Running, ContinueStep
    <2>4. CASE /\ UNCHANGED budget \/ Spend("faults")
               /\ pc' = "creating" /\ UNCHANGED <<cr, locals>>
      <3>1. budget' \in [Expenses -> Nat]
        BY <2>1, <2>4, Running, SpendType DEF Expenses
      <3>2. StageOK'
        BY <2>1, <2>4 DEF StageOK
      <3> QED BY <2>1, <2>2, <2>4, <3>1, <3>2, Running, ContinueStep
    <2> QED BY <1>4, <2>3, <2>4 DEF FetchByName
  <1>5. CASE Import
    <2>1. /\ pc = "importing" /\ UNCHANGED <<queue, remote, refs>>
          /\ cr.status.id # None /\ locals.rules # None
      BY <1>5 DEF Import, IInv, TypeOK
    <2>2. WorldType'
      BY <2>1, Running DEF WorldType
    <2>3. CASE /\ StoreStatus /\ UNCHANGED budget
               /\ pc' = "updating"
               /\ cr' = [cr EXCEPT !.rv = NextVersion(key)]
               /\ UNCHANGED <<key, timers, locals>>
      <3>1. /\ RuntimeInv' /\ CopyKeepsBinding' /\ BindingStep /\ NeverDropped
            /\ cr'.status = cr.status
        BY <2>1, <2>3, Running, StoreGoOnStep
      <3>2. TypeOK'
        BY <2>1, <2>2, <2>3, <3>1, Running
           DEF TypeOK, RuntimeInv, WorldType, Locals
      <3> QED BY <2>1, <2>3, <3>1, <3>2, StoreRecords, LivingStayCovered DEF IInv
    <2>4. CASE StoreStatus /\ UNCHANGED budget /\ Requeue
      BY <2>1, <2>2, <2>4, Running, StoreEndStep
    <2>5. CASE Requeue /\ UNCHANGED <<versions, budget>>
      BY <2>1, <2>2, <2>5, Running, EndStep
    <2>6. CASE Fail /\ (StoreStatus \/ UNCHANGED versions)
      BY <2>1, <2>2, <2>6, FailStep
    <2> QED BY <1>5, <2>3, <2>4, <2>5, <2>6 DEF Import
  <1>6. CASE updateEscalation
    <2>1. /\ pc = "updating" /\ UNCHANGED <<versions, queue, refs>>
          /\ cr.status.id # None /\ locals.rules # None
      BY <1>6 DEF updateEscalation, IInv, TypeOK
    <2>2. WorldType'
      BY <1>6, <2>1, AppliedType DEF updateEscalation
    <2>3. CASE /\ UpdateApplied /\ pc' = "saving"
               /\ UNCHANGED <<budget, key, cr, timers, locals>>
      <3>1. StageOK'
        <4>1. cr.status.id \in Ids /\ Exists(cr.status.id)'
          BY <1>6, <2>1, <2>3, AppliedType DEF Exists, Absent
        <4>2. HoldsNamesake'
          BY <1>6, <2>1, <2>3, <4>1, AppliedType DEF HoldsNamesake
        <4> QED BY <2>1, <2>3, <4>2 DEF StageOK
      <3> QED BY <2>1, <2>2, <2>3, <3>1, Running, ContinueStep
    <2>4. CASE Requeue /\ UNCHANGED budget
      BY <2>1, <2>2, <2>4, Running, EndStep
    <2>5. CASE Fail
      BY <2>1, <2>2, <2>5, FailStep
    <2> QED BY <1>6, <2>3, <2>4, <2>5 DEF updateEscalation
  <1>7. CASE createEscalation
    <2>1. /\ pc = "creating" /\ UNCHANGED <<versions, queue, refs>>
          /\ cr.status.id = None /\ locals.rules # None
      BY <1>7 DEF createEscalation, IInv, TypeOK
    <2>2. WorldType'
      BY <1>7, <2>1, AppliedType DEF createEscalation
    <2>3. CASE /\ CreateApplied
               /\ cr' = [cr EXCEPT !.status.id = NewId]
               /\ pc' = "saving"
               /\ UNCHANGED <<budget, key, timers, locals>>
      <3>1. NewId \in Ids /\ NewId # None
        BY <2>1, <2>3, AppliedType, OpsgenieAssumption
      <3>2. /\ cr' \in Object /\ cr'.rv = cr.rv /\ cr'.spec = cr.spec
            /\ cr'.status.id = NewId
        BY <2>1, <2>3, <3>1, Running DEF Object, Status
      <3>3. HoldsNamesake'
        <4>1. cr'.status.id \in Ids /\ Exists(cr.status.id)'
          BY <2>1, <2>3, <3>1, <3>2, AppliedType DEF Exists, Absent
        <4> QED BY <2>1, <2>3, <3>2, <4>1, AppliedType DEF HoldsNamesake
      <3>4. StageOK'
        BY <2>1, <2>3, <3>1, <3>2, <3>3 DEF StageOK
      <3> QED BY <2>1, <2>2, <2>3, <3>1, <3>2, <3>4, Running, ContinueStep
    <2>4. CASE Requeue /\ UNCHANGED budget
      BY <2>1, <2>2, <2>4, Running, EndStep
    <2>5. CASE Fail
      BY <2>1, <2>2, <2>5, FailStep
    <2> QED BY <1>7, <2>3, <2>4, <2>5 DEF createEscalation
  <1>8. CASE SaveStatus
    <2>1. /\ pc = "saving" /\ UNCHANGED <<queue, remote, refs>> /\ Requeue
      BY <1>8 DEF SaveStatus
    <2>2. WorldType'
      BY <2>1, Running DEF WorldType
    <2>3. budget' \in [Expenses -> Nat] /\ (StoreStatus \/ UNCHANGED versions)
      BY <1>8, <2>1, Running, SpendType DEF SaveStatus, Expenses
    <2> QED BY <2>1, <2>2, <2>3, EndStep, StoreEndStep
  <1> QED BY <1>1, <1>2, <1>3, <1>4, <1>5, <1>6, <1>7, <1>8 DEF Worker

-----------------------------------------------------------------------------
(* The environment, and the theorems. *)

(* Steps outside the run. *)
LEMMA OutsideStep ==
    ASSUME IInv, RuntimeInv', CopyKeepsBinding', NeverDropped,
           UNCHANGED <<pc, cr, locals>>, WorldType', NamesKept
    PROVE  IInv'
  <1>1. TypeOK'
    BY DEF TypeOK, IInv, RuntimeInv, WorldType
  <1>2. pc \in {"importing", "saving"} => HoldsNamesake'
    BY DEF IInv, HoldsNamesake, NamesKept
  <1> QED BY <1>1, <1>2, LivingStayCovered DEF IInv

(* IInv holds before the first CR is applied.                              *)
LEMMA InitIInv == Init => IInv /\ Sharing!Init
  <1> SUFFICES ASSUME Init PROVE IInv /\ Sharing!Init
    OBVIOUS
  <1>1. RuntimeInv /\ CopyKeepsBinding /\ Sharing!Init
        /\ \A k \in CRs : ~Latest(k).live
    BY RuntimeInitInv DEF Init
  <1>2. /\ pc = "idle" /\ remote = [id \in Ids |-> Unissued]
        /\ locals = NoLocals /\ refs = InitialRefs
    BY DEF Init, RuntimeInit
  <1>3. TypeOK
    BY <1>1, <1>2, EscalationAssumption DEF TypeOK, RuntimeInv, Absent, NoLocals
  <1> QED BY <1>1, <1>2, <1>3 DEF IInv

(* Every step keeps IInv, is a step of Binding and records namesakes only. *)
LEMMA NextIInv ==
    ASSUME IInv, [Next]_vars
    PROVE  IInv' /\ BindingStep /\ RecordsNamesake
  <1>1. RuntimeInv /\ CopyKeepsBinding /\ WorldType
    BY DEF IInv, TypeOK, WorldType
  <1>2. ASSUME NEW k \in CRs, User(k)
        PROVE  IInv' /\ BindingStep /\ RecordsNamesake
    <2>1. UNCHANGED <<pc, cr, remote, refs, locals>>
      BY <1>2 DEF User, ApplyCR, DeleteCR
    <2>2. /\ RuntimeInv' /\ CopyKeepsBinding' /\ BindingStep /\ NeverDropped
          /\ IdsStay
      BY <1>1, <1>2, UserStep DEF User
    <2> QED BY <1>1, <2>1, <2>2, RemoteStays, NoneRecorded, OutsideStep DEF WorldType
  <1>3. ASSUME NEW k \in CRs, Runtime(k)
        PROVE  IInv' /\ BindingStep /\ RecordsNamesake
    <2>1. UNCHANGED <<pc, cr, remote, refs, locals>>
      BY <1>3 DEF Runtime, WatchEvent, Timer
    <2>2. /\ RuntimeInv' /\ CopyKeepsBinding' /\ BindingStep /\ NeverDropped
          /\ IdsStay
      BY <1>1, <1>3, RuntimeStep DEF Runtime, IdsStay
    <2> QED BY <1>1, <2>1, <2>2, RemoteStays, NoneRecorded, OutsideStep DEF WorldType
  <1>4. ASSUME NEW k \in CRs, Reconcile(k)
        PROVE  IInv' /\ BindingStep /\ RecordsNamesake
    <2>1. /\ RuntimeInv' /\ CopyKeepsBinding' /\ BindingStep /\ NeverDropped
          /\ pc = "idle" /\ UNCHANGED versions
          /\ UNCHANGED <<pc, key, cr>> \/ pc' = "resolving"
          /\ UNCHANGED <<remote, refs, locals>>
      BY <1>1, <1>4, GetStep DEF Reconcile, Get
    <2>2. TypeOK'
      BY <1>1, <2>1 DEF TypeOK, IInv, RuntimeInv
    <2>3. RecordsNamesake
      BY <2>1, NoneRecorded DEF IdsStay, Latest
    <2> QED BY <2>1, <2>2, <2>3, LivingStayCovered DEF IInv
  <1>5. CASE Drift \/ (\E id \in Ids : Removal(id))
                   \/ \E r \in Refs : ReferenceEvent(r)
    <2>1. UNCHANGED <<versions, queue, timers, pc, key, cr, locals>>
      BY <1>5 DEF Drift, Removal, ReferenceEvent
    <2>2. budget' \in [Expenses -> Nat]
      BY <1>1, <1>5, SpendType DEF Drift, Removal, ReferenceEvent, Expenses
    <2>3. ASSUME Drift PROVE WorldType' /\ NamesKept
      <3>1. PICK d \in Descs :
            \/ \E id \in Ids : Exists(id) /\
                  Store(id, [remote[id] EXCEPT !.desc = d])
            \/ \E n \in Names :
                  Issue([name |-> n, desc |-> d, rules |-> <<>>, owner |-> None])
        BY <2>3 DEF Drift
      <3>2. UNCHANGED refs
        BY <2>3 DEF Drift
      <3>3. ASSUME NEW id \in Ids, Exists(id),
                   Store(id, [remote[id] EXCEPT !.desc = d])
            PROVE  WorldType' /\ NamesKept
        <4> DEFINE c == [remote[id] EXCEPT !.desc = d]
        <4>1. remote[id] \in Escalation
          BY <1>1, <3>3 DEF Exists, WorldType
        <4>2. c \in Escalation /\ c.name = remote[id].name /\ Store(id, c)
          BY <3>3, <4>1 DEF Escalation
        <4> HIDE DEF c
        <4> QED BY <1>1, <3>2, <4>2, RemoteSteps, OtherSteps
      <3>4. ASSUME NEW n \in Names,
                   Issue([name |-> n, desc |-> d, rules |-> <<>>, owner |-> None])
            PROVE  WorldType' /\ NamesKept
        <4>1. [name |-> n, desc |-> d, rules |-> <<>>, owner |-> None] \in Escalation
          BY DEF Escalation
        <4> QED BY <1>1, <3>2, <3>4, <4>1, RemoteSteps, OtherSteps
      <3> QED BY <3>1, <3>3, <3>4
    <2>4. ASSUME NEW id \in Ids, Removal(id) PROVE WorldType' /\ NamesKept
      <3>1. /\ remote' = [remote EXCEPT ![id] = Gone] /\ remote[id] # Unissued
            /\ UNCHANGED refs
        BY <2>4 DEF Removal, Discard, Exists, Absent
      <3>2. remote'[id] = Gone /\ \A i \in Ids \ {id} : remote'[i] = remote[i]
        BY <1>1, <3>1 DEF WorldType
      <3> QED BY <1>1, <3>1, <3>2 DEF WorldType, NamesKept, Exists, Absent
    <2>5. ASSUME NEW r \in Refs, ReferenceEvent(r) PROVE WorldType' /\ NamesKept
      BY <1>1, <2>5, RemoteStays DEF ReferenceEvent, WorldType
    <2>6. WorldType' /\ NamesKept
      BY <1>5, <2>3, <2>4, <2>5
    <2>7. RuntimeInv' /\ CopyKeepsBinding' /\ BindingStep /\ NeverDropped
      BY <1>1, <2>1, <2>2, IdleStep
    <2>8. RecordsNamesake
      BY <2>1, NoneRecorded DEF IdsStay, Latest
    <2> QED BY <2>1, <2>6, <2>7, <2>8, OutsideStep
  <1>6. CASE Crash
    <2>1. /\ RuntimeInv' /\ CopyKeepsBinding' /\ BindingStep /\ pc' = "idle"
          /\ \A c \in CRs : Latest(c)' = Latest(c)
          /\ \A c \in CRs : Latest(c).live => Covered(c)'
          /\ UNCHANGED <<remote, refs>> /\ locals' = NoLocals
      BY <1>1, <1>6, RestartStep DEF Crash
    <2>2. TypeOK'
      BY <1>1, <2>1 DEF TypeOK, RuntimeInv, WorldType, NoLocals
    <2>3. RecordsNamesake
      BY <2>1, NoneRecorded DEF IdsStay
    <2> QED BY <2>1, <2>2, <2>3 DEF IInv
  <1>7. CASE UNCHANGED vars
    <2>1. /\ UNCHANGED <<versions, queue, timers, pc, key, cr, locals, remote, refs>>
          /\ budget' \in [Expenses -> Nat]
      BY <1>1, <1>7 DEF vars, runtimeVars, RuntimeInv, RuntimeTypeOK
    <2>2. RuntimeInv' /\ CopyKeepsBinding' /\ BindingStep /\ NeverDropped
      BY <1>1, <2>1, IdleStep
    <2>3. RecordsNamesake
      BY <2>1, NoneRecorded DEF IdsStay, Latest
    <2> QED BY <1>1, <2>1, <2>2, <2>3, RemoteStays, OutsideStep DEF WorldType
  <1> QED BY <1>2, <1>3, <1>4, <1>5, <1>6, <1>7, WorkerStep DEF Next

(* IInv holds in every reachable state. *)
THEOREM EscalationInvariant == Spec => []IInv
  <1>1. IInv /\ [Next]_vars => IInv'
    BY NextIInv
  <1> QED BY <1>1, InitIInv, PTL DEF Spec

(* Every variable keeps its type, and no request is made before all the    *)
(* recipients of the CR's rules have been resolved.                        *)
THEOREM EscalationTypes == Spec => []TypeOK
  <1>1. IInv => TypeOK
    BY DEF IInv
  <1> QED BY <1>1, EscalationInvariant, PTL

(* An escalation CR that exists will be reconciled again, although nothing *)
(* tells the controller when a CR it refers to gets its id.                *)
THEOREM NoEscalationIsForgotten == Spec => []NeverForgotten
  <1>1. ASSUME IInv PROVE NeverForgotten
    <2>1. SUFFICES ASSUME NEW k \in CRs, Latest(k).live PROVE Scheduled(k)
      BY DEF NeverForgotten
    <2>2. RuntimeTypeOK /\ Covered(k)
      BY <1>1, <2>1 DEF IInv, RuntimeInv
    <2> QED BY <2>2, CoveredIsScheduled
  <1> QED BY <1>1, EscalationInvariant, PTL

(* The controller implements Binding: adoption by name, creation and the   *)
(* second status write of a run never exchange or forget the escalation of *)
(* an existing CR.                                                         *)
THEOREM EscalationsBindOnce == Spec => BindsOnce
  <1>1. IInv /\ [Next]_vars => [Sharing!Next]_<<Living, Bound>>
    BY NextIInv DEF BindingStep
  <1> QED BY <1>1, InitIInv, EscalationInvariant, PTL
          DEF Spec, BindsOnce, Sharing!Spec

(* A CR only ever records the id of an escalation that has the name it     *)
(* asks for at that moment, although lookup, update and status write are   *)
(* steps apart.                                                            *)
THEOREM EscalationsAreNamesakes == Spec => BoundToNamesake
  <1>1. IInv /\ [Next]_vars => [RecordsNamesake]_vars
    BY NextIInv
  <1> QED BY <1>1, EscalationInvariant, PTL DEF Spec, BoundToNamesake

=============================================================================
