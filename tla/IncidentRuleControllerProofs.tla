-------------------- MODULE IncidentRuleControllerProofs --------------------
(***************************************************************************)
(* IInv is an inductive invariant of IncidentRuleController, for any       *)
(* number of CRs, services, rules, edits, failures and restarts.  From it  *)
(* follow NoSecondRule and RuleFollowsService.                             *)
(***************************************************************************)
EXTENDS IncidentRuleController, ControllerRuntimeProofs

(* What Opsgenie and the cache of the services hold. *)
WorldType ==
    /\ remote \in [Ids -> IncidentRule \cup Absent]
    /\ services \in [ServiceRefs -> ServiceStates]
    /\ hosts \subseteq ServiceIds

(* No rule is created, and none moves to another service.                  *)
RulesStay ==
    \A id \in Ids :
        /\ remote[id] = Unissued => remote'[id] = Unissued
        /\ Exists(id)' => Exists(id) /\ remote'[id].service = remote[id].service

(* What a step of either kind promises. *)
Promises == AddsNoSecond /\ ReplacesElsewhere

(* What holds in every state in which the worker is inside a run.          *)
LEMMA Running ==
    ASSUME IInv, pc # "idle"
    PROVE  /\ RuntimeInv /\ key \in CRs /\ cr \in Object
           /\ cr.spec \in IncidentRuleSpec
           /\ cr.status.id \in Ids \cup {None}
           /\ budget \in [Expenses -> Nat]
           /\ serviceID \in ServiceIds \cup {None} /\ WorldType
           /\ Latest(key) \in Objects(key) /\ Objects(key) \subseteq Object
  <1>1. cr.spec \in Specs /\ cr \in Object /\ RuntimeTypeOK /\ key \in CRs
    BY DEF IInv, RuntimeInv, RuntimeTypeOK
  <1>2. cr.spec \in IncidentRuleSpec
    BY <1>1, IncidentRuleAssumption
  <1>3. Latest(key) \in Objects(key) /\ Objects(key) \subseteq Object
    BY <1>1, VersionsOfCR
  <1> QED BY <1>1, <1>2, <1>3
          DEF IInv, TypeOK, RuntimeTypeOK, Object, Status, WorldType

(* Rules that stay where they are stay apart. *)
LEMMA ApartStays ==
    ASSUME RulesStay, NEW old, NEW new, Apart(old, new)
    PROVE  Apart(old, new)'
  BY DEF RulesStay, Apart, Exists

(* A rule that is not in a service does not get into it.                   *)
LEMMA NotListedStays ==
    ASSUME RulesStay, NEW id, NEW s, id \notin RulesOf(s)
    PROVE  id \notin RulesOf(s)'
  BY DEF RulesStay, RulesOf, Exists

(* Steps that leave Opsgenie alone neither create nor move rules.          *)
LEMMA RemoteStays == ASSUME UNCHANGED remote PROVE RulesStay
  BY DEF RulesStay, Exists

(* A rule that is edited in its place. *)
LEMMA StoreStays ==
    ASSUME WorldType, NEW id, NEW c \in IncidentRule, Store(id, c),
           c.service = remote[id].service, UNCHANGED outside
    PROVE  WorldType' /\ RulesStay
  <1>1. remote[id] \notin Absent /\ id \in Ids /\ remote' = [remote EXCEPT ![id] = c]
    BY DEF Store, Exists
  <1>2. UNCHANGED <<services, hosts>>
    BY DEF outside
  <1> QED BY <1>1, <1>2 DEF WorldType, RulesStay, Exists, Absent

(* Steps that create no rule and record none keep the promises.            *)
LEMMA KeepsPromises ==
    ASSUME RulesStay, IdsStay
    PROVE  Promises
  <1>1. AddsNoSecond
    BY DEF RulesStay, AddsNoSecond
  <1>2. ReplacesElsewhere
    BY OpsgenieAssumption DEF IdsStay, ReplacesElsewhere, Apart, Exists
  <1> QED BY <1>1, <1>2 DEF Promises

-----------------------------------------------------------------------------
(* The steps of a run. *)

(* What a run that is about to create a rule knows of the newest version.  *)
LEMMA CreatesFirst ==
    ASSUME IInv, pc = "creating", NEW o \in Objects(key), o.rv = cr.rv
    PROVE  o.status.id \notin RulesOf(serviceID)
  BY OpsgenieAssumption DEF IInv, CopyKeepsBinding, RulesOf

(* A Create call that Opsgenie has applied. *)
LEMMA CreateEffect ==
    ASSUME IInv, pc = "creating", CreateApplied, UNCHANGED outside
    PROVE  /\ WorldType' /\ AddsNoSecond
           /\ NewId \in Ids
           /\ \A o \in Objects(key) :
                 o.rv = cr.rv /\ o.status.id # NewId
                 => \/ o.status.id \notin Ids
                    \/ remote'[o.status.id] \in Absent
                    \/ remote'[NewId].service # remote'[o.status.id].service
  <1>1. serviceID \in ServiceIds /\ WorldType
    BY Running DEF CreateApplied, WorldType
  <1>2. Content \in IncidentRule /\ Content.service = serviceID
    BY <1>1, Running DEF Content, IncidentRule, IncidentRuleSpec
  <1>3. NewId \in Ids /\ remote[NewId] = Unissued
    <2>1. NewId \in Fresh
      BY DEF NewId, CreateApplied, Issue
    <2> QED BY <2>1 DEF Fresh
  <1>4. remote' = [remote EXCEPT ![NewId] = Content]
    BY DEF CreateApplied, Issue
  <1> DEFINE c == Content
             n == NewId
  <1>5. /\ n \in Ids /\ remote[n] = Unissued /\ c \in IncidentRule
        /\ c.service = serviceID /\ remote' = [remote EXCEPT ![n] = c]
    BY <1>2, <1>3, <1>4
  <1> HIDE DEF c, n
  <1>6. /\ remote'[n] = c
        /\ \A id \in Ids \ {n} : remote'[id] = remote[id]
    BY <1>1, <1>5 DEF WorldType
  <1>7. WorldType'
    BY <1>1, <1>5 DEF WorldType, outside
  <1>8. AddsNoSecond
    <2>1. SUFFICES ASSUME NEW id \in Ids, remote[id] = Unissued,
                          remote'[id] # Unissued, StatusCurrent
                   PROVE  Latest(key).status.id \notin RulesOf(remote'[id].service)
      BY DEF AddsNoSecond
    <2>2. id = n /\ remote'[id].service = serviceID
      BY <1>5, <1>6, <2>1
    <2>3. Latest(key) \in Objects(key) /\ Latest(key).rv = cr.rv
      BY <2>1, Running DEF StatusCurrent
    <2> QED BY <2>2, <2>3, CreatesFirst
  <1>9. ASSUME NEW o \in Objects(key), o.rv = cr.rv, o.status.id # n,
               o.status.id \in Ids, remote'[o.status.id] \notin Absent
        PROVE  remote'[n].service # remote'[o.status.id].service
    <2>1. o.status.id \notin RulesOf(serviceID)
      BY <1>9, CreatesFirst
    <2>2. remote'[o.status.id] = remote[o.status.id]
      BY <1>6, <1>9
    <2>3. remote[o.status.id].service # serviceID
      BY <1>9, <2>1, <2>2 DEF RulesOf, Exists
    <2> QED BY <1>5, <1>6, <2>2, <2>3
  <1> QED BY <1>3, <1>7, <1>8, <1>9 DEF n

(* An Update call that Opsgenie has applied. *)
LEMMA UpdateEffect ==
    ASSUME IInv, pc = "updating", UpdateApplied, UNCHANGED outside
    PROVE  WorldType' /\ RulesStay
  <1>1. /\ Exists(cr.status.id) /\ remote[cr.status.id].service = serviceID
        /\ cr.status.id \in Ids /\ WorldType
    BY Running DEF UpdateApplied, Listed, RulesOf
  <1>2. remote[cr.status.id] \in IncidentRule
    BY <1>1 DEF Exists, WorldType
  <1>3. Content \in IncidentRule /\ Content.service = serviceID
    BY <1>1, <1>2, Running DEF Content, IncidentRule, IncidentRuleSpec
  <1> QED BY <1>1, <1>3, StoreStays DEF UpdateApplied

(* A run that ends without a status write.                                 *)
LEMMA EndStep ==
    ASSUME IInv, pc # "idle", Requeue, UNCHANGED <<versions, queue>>,
           budget' \in [Expenses -> Nat], WorldType', AddsNoSecond
    PROVE  IInv' /\ Promises
  <1>1. ReturnRequeue /\ serviceID' = None
    BY DEF Requeue
  <1>2. /\ RuntimeInv' /\ CopyKeepsBinding' /\ pc' = "idle"
        /\ \A c \in CRs : Latest(c)' = Latest(c)
    BY <1>1, Running, RequeueStep DEF ReturnRequeue, Idle
  <1>3. TypeOK'
    BY <1>1, <1>2 DEF TypeOK, RuntimeInv, WorldType
  <1>4. ReplacesElsewhere
    BY <1>2 DEF ReplacesElsewhere
  <1> QED BY <1>2, <1>3, <1>4 DEF IInv, Promises

(* The status write at the end of a run. *)
LEMMA StoreEndStep ==
    ASSUME IInv, pc = "saving", StoreStatus, Requeue,
           UNCHANGED <<queue, remote, outside>>, budget' \in [Expenses -> Nat]
    PROVE  IInv' /\ Promises
  <1>1. ReturnRequeue /\ serviceID' = None
    BY DEF Requeue
  <1>2. RuntimeInv' /\ CopyKeepsBinding' /\ pc' = "idle"
    BY <1>1, Running, StoreRequeueStep DEF ReturnRequeue, Idle
  <1>3. TypeOK'
    BY <1>1, <1>2, Running DEF TypeOK, RuntimeInv, WorldType, outside
  <1>4. ReplacesElsewhere
    <2>1. PICK k \in CRs : key = k
      BY Running
    <2>2. /\ \A c \in CRs \ {k} : Latest(c)' = Latest(c)
          /\ Latest(k)'.status = cr.status
      BY <2>1, Running, StoreStep
    <2>3. Latest(k) \in Objects(key) /\ Latest(k).rv = cr.rv
      BY <2>1, Running DEF StoreStatus, StatusCurrent
    <2>4. Latest(k).status.id # cr.status.id
             => Apart(Latest(k).status.id, cr.status.id)
      BY <2>3 DEF IInv
    <2> QED BY <2>2, <2>4 DEF ReplacesElsewhere
  <1>5. AddsNoSecond
    BY DEF AddsNoSecond
  <1> QED BY <1>2, <1>3, <1>4, <1>5 DEF IInv, Promises

(* Calls that fail. *)
LEMMA FailStep ==
    ASSUME IInv, pc # "idle", Fail, UNCHANGED <<versions, queue>>,
           WorldType', AddsNoSecond
    PROVE  IInv' /\ Promises
  <1>1. Requeue /\ budget' \in [Expenses -> Nat]
    BY Running, SpendType DEF Fail, Expenses
  <1> QED BY <1>1, EndStep

(* A step inside a run that keeps the copy of the CR.                      *)
LEMMA ContinueStep ==
    ASSUME IInv, pc \notin {"idle", "saving"},
           UNCHANGED <<versions, queue, timers, budget, key, cr>>,
           WorldType', RulesStay, serviceID' \in ServiceIds \cup {None},
           pc' \in {"listing", "updating", "creating", "saving"},
           pc' = "creating" => cr.status.id \notin RulesOf(serviceID)',
           pc' = "saving" => cr.status.id # None
    PROVE  IInv' /\ Promises
  <1>1. /\ RuntimeInv' /\ CopyKeepsBinding'
        /\ \A c \in CRs : Latest(c)' = Latest(c)
    BY Running, InnerStep DEF IInv, RuntimeInv, RuntimeTypeOK
  <1>2. TypeOK'
    BY <1>1 DEF TypeOK, RuntimeInv, WorldType
  <1>3. pc' = "saving" =>
          (\A o \in Objects(key) :
              o.rv = cr.rv /\ o.status.id # cr.status.id
              => Apart(o.status.id, cr.status.id))'
    <2>1. SUFFICES ASSUME pc' = "saving",
                          NEW o \in Objects(key)', o.rv = cr'.rv,
                          o.status.id # cr'.status.id
                   PROVE  Apart(o.status.id, cr.status.id)'
      OBVIOUS
    <2>2. o.status.id = None
      BY <1>1, <2>1 DEF CopyKeepsBinding
    <2> QED BY <2>2, OpsgenieAssumption DEF Apart, Exists
  <1>4. Promises
    BY <1>1, KeepsPromises DEF IdsStay
  <1> QED BY <1>1, <1>2, <1>3, <1>4 DEF IInv

(* Every step of the worker.                                               *)
LEMMA WorkerStep ==
    ASSUME IInv, Worker
    PROVE  IInv' /\ Promises
  <1>1. CASE ResolveService
    <2> DEFINE id == resolveServiceID(cr.spec)
    <2>1. /\ pc = "resolving" /\ UNCHANGED <<versions, queue, budget, remote, outside>>
      BY <1>1 DEF ResolveService
    <2>2. WorldType' /\ RulesStay /\ budget' \in [Expenses -> Nat]
      BY <2>1, Running, RemoteStays DEF WorldType, outside
    <2>3. CASE Requeue
      BY <2>1, <2>2, <2>3, EndStep DEF AddsNoSecond
    <2>4. CASE /\ id # Gone /\ serviceID' = id /\ pc' = "listing"
               /\ UNCHANGED <<key, cr, timers>>
      <3>1. id \in ServiceIds \cup {None}
        BY <2>1, <2>4, Running
           DEF resolveServiceID, IncidentRuleSpec, WorldType, ServiceStates
      <3> QED BY <2>1, <2>2, <2>4, <3>1, ContinueStep
    <2> QED BY <1>1, <2>3, <2>4 DEF ResolveService
  <1>2. CASE ListRules
    <2>1. /\ pc = "listing" /\ UNCHANGED <<versions, queue, remote, outside>>
      BY <1>2 DEF ListRules
    <2>2. WorldType' /\ RulesStay
      BY <2>1, Running, RemoteStays DEF WorldType, outside
    <2>3. CASE /\ pc' = IF cr.status.id # None /\ Listed(cr.status.id)
                        THEN "updating" ELSE "creating"
               /\ UNCHANGED <<budget, key, cr, timers, serviceID>>
      <3>1. pc' = "creating" => cr.status.id \notin RulesOf(serviceID)
        BY <2>3, OpsgenieAssumption DEF Listed, RulesOf
      <3>2. pc' = "creating" => cr.status.id \notin RulesOf(serviceID)'
        BY <2>1, <2>3, <3>1 DEF RulesOf, Exists
      <3> QED BY <2>1, <2>2, <2>3, <3>2, Running, ContinueStep
    <2>4. CASE Requeue /\ UNCHANGED budget
      BY <2>1, <2>2, <2>4, Running, EndStep DEF AddsNoSecond
    <2>5. CASE Fail
      BY <2>1, <2>2, <2>5, FailStep DEF AddsNoSecond
    <2> QED BY <1>2, <2>3, <2>4, <2>5 DEF ListRules
  <1>3. CASE UpdateIncidentRule
    <2>1. pc = "updating" /\ UNCHANGED <<versions, queue, outside>>
      BY <1>3 DEF UpdateIncidentRule
    <2>2. UpdateApplied \/ UNCHANGED remote => WorldType' /\ RulesStay
      BY <2>1, Running, RemoteStays, UpdateEffect DEF WorldType, outside
    <2>3. CASE /\ UpdateApplied /\ pc' = "saving"
               /\ UNCHANGED <<budget, key, cr, timers, serviceID>>
      <3>1. cr.status.id # None
        BY <2>3, OpsgenieAssumption DEF UpdateApplied, Listed, RulesOf
      <3> QED BY <2>1, <2>2, <2>3, <3>1, Running, ContinueStep
    <2>4. CASE Requeue /\ UNCHANGED <<budget, remote>>
      BY <2>1, <2>2, <2>4, Running, EndStep DEF AddsNoSecond
    <2>5. CASE Fail /\ (UpdateApplied \/ UNCHANGED remote)
      <3>1. AddsNoSecond
        BY <2>2, <2>5 DEF RulesStay, AddsNoSecond
      <3> QED BY <2>1, <2>2, <2>5, <3>1, FailStep
    <2> QED BY <1>3, <2>3, <2>4, <2>5 DEF UpdateIncidentRule
  <1>4. CASE CreateIncidentRule
    <2>1. pc = "creating" /\ UNCHANGED <<versions, queue, outside>>
      BY <1>4 DEF CreateIncidentRule
    <2>2. CASE /\ CreateApplied
               /\ cr' = [cr EXCEPT !.status.id = NewId]
               /\ pc' = "saving"
               /\ UNCHANGED <<budget, key, timers, serviceID>>
      <3>1. NewId \in Ids /\ WorldType' /\ AddsNoSecond
        BY <2>1, <2>2, CreateEffect
      <3>2. /\ cr' \in Object /\ cr'.rv = cr.rv /\ cr'.spec = cr.spec
            /\ cr'.status.id = NewId
        BY <2>1, <2>2, <3>1, Running DEF Object, Status
      <3>3. /\ RuntimeInv'
            /\ \A c \in CRs : Latest(c)' = Latest(c)
        BY <2>1, <2>2, <3>2, Running, InnerStep
      <3>4. TypeOK'
        BY <2>2, <3>1, <3>3, Running, <2>1 DEF TypeOK, RuntimeInv, WorldType
      <3>5. ASSUME NEW o \in Objects(key)', o.rv = cr'.rv,
                   o.status.id # cr'.status.id
            PROVE  Apart(o.status.id, cr.status.id)'
        <4>1. o \in Objects(key) /\ o.rv = cr.rv /\ o.status.id # NewId
          BY <2>1, <2>2, <3>2, <3>5 DEF Objects
        <4>2. \/ o.status.id \notin Ids
              \/ remote'[o.status.id] \in Absent
              \/ remote'[cr'.status.id].service # remote'[o.status.id].service
          BY <2>1, <2>2, <3>2, <4>1, CreateEffect
        <4> QED BY <4>2 DEF Apart, Exists, Absent
      <3>6. ReplacesElsewhere
        BY <3>3 DEF ReplacesElsewhere
      <3>7. (\A o \in Objects(key) :
                o.rv = cr.rv /\ o.status.id # cr.status.id
                => Apart(o.status.id, cr.status.id))'
        BY <3>5
      <3> QED BY <2>2, <3>1, <3>3, <3>4, <3>6, <3>7 DEF IInv, Promises
    <2>3. CASE Requeue /\ UNCHANGED <<budget, remote>>
      <3>1. WorldType' /\ AddsNoSecond
        BY <2>1, <2>3, Running DEF WorldType, outside, AddsNoSecond
      <3> QED BY <2>1, <2>3, <3>1, Running, EndStep
    <2>4. CASE Fail /\ (CreateApplied \/ UNCHANGED remote)
      <3>1. CASE CreateApplied
        BY <2>1, <2>4, <3>1, CreateEffect, FailStep
      <3>2. CASE UNCHANGED remote
        <4>1. WorldType' /\ AddsNoSecond
          BY <2>1, <3>2, Running DEF WorldType, outside, AddsNoSecond
        <4> QED BY <2>1, <2>4, <4>1, FailStep
      <3> QED BY <2>4, <3>1, <3>2
    <2> QED BY <1>4, <2>2, <2>3, <2>4 DEF CreateIncidentRule
  <1>5. CASE SaveStatus
    <2>1. /\ pc = "saving" /\ UNCHANGED <<queue, remote, outside>> /\ Requeue
      BY <1>5 DEF SaveStatus
    <2>2. budget' \in [Expenses -> Nat] /\ (StoreStatus \/ UNCHANGED versions)
      BY <1>5, <2>1, Running, SpendType DEF SaveStatus, Expenses
    <2>3. WorldType' /\ AddsNoSecond
      BY <2>1, Running DEF WorldType, outside, AddsNoSecond
    <2> QED BY <2>1, <2>2, <2>3, EndStep, StoreEndStep
  <1> QED BY <1>1, <1>2, <1>3, <1>4, <1>5 DEF Worker

-----------------------------------------------------------------------------
(* The environment, and the theorems. *)

(* Steps outside the run. *)
LEMMA OutsideStep ==
    ASSUME IInv, RuntimeInv', CopyKeepsBinding => CopyKeepsBinding', CopyStays,
           IdsStay, UNCHANGED <<pc, key, cr, serviceID>>, WorldType', RulesStay
    PROVE  IInv' /\ Promises
  <1>1. TypeOK'
    BY DEF TypeOK, IInv, RuntimeInv, WorldType
  <1>2. pc = "creating" => cr'.status.id \notin RulesOf(serviceID)'
    BY NotListedStays DEF IInv, RulesStay, RulesOf, Exists
  <1>3. ASSUME pc = "saving", NEW o \in Objects(key)', o.rv = cr'.rv,
               o.status.id # cr'.status.id
        PROVE  Apart(o.status.id, cr.status.id)'
    <2>1. o \in Objects(key) /\ o.rv = cr.rv /\ o.status.id # cr.status.id
      BY <1>3 DEF CopyStays
    <2>2. Apart(o.status.id, cr.status.id)
      BY <1>3, <2>1 DEF IInv
    <2>3. cr'.status.id = cr.status.id
      OBVIOUS
    <2> QED BY <2>2, <2>3 DEF RulesStay, Apart, Exists
  <1>4. pc' = "saving" =>
          (\A o \in Objects(key) :
              o.rv = cr.rv /\ o.status.id # cr.status.id
              => Apart(o.status.id, cr.status.id))'
    BY <1>3
  <1> QED BY <1>1, <1>2, <1>4, KeepsPromises DEF IInv

(* IInv holds before the first CR is applied.                              *)
LEMMA InitIInv == Init => IInv
  <1> SUFFICES ASSUME Init PROVE IInv
    OBVIOUS
  <1>1. RuntimeInv /\ CopyKeepsBinding
    BY RuntimeInitInv DEF Init
  <1>2. /\ pc = "idle" /\ remote = [id \in Ids |-> Unissued]
        /\ services = InitialServices /\ hosts = ServiceIds /\ serviceID = None
    BY DEF Init, RuntimeInit
  <1>3. TypeOK
    BY <1>1, <1>2, IncidentRuleAssumption DEF TypeOK, RuntimeInv, Absent
  <1> QED BY <1>1, <1>2, <1>3 DEF IInv

(* Rules that are lost, or edited by other people.                         *)
LEMMA RulesElsewhere ==
    ASSUME WorldType, NEW lost \in SUBSET Ids, \A id \in lost : Exists(id),
           remote' = [id \in Ids |-> IF id \in lost THEN Gone ELSE remote[id]],
           UNCHANGED services, hosts' \subseteq ServiceIds
    PROVE  WorldType' /\ RulesStay
  BY OpsgenieAssumption DEF WorldType, RulesStay, Exists, Absent

(* Steps in which this controller and its CRs have no part, and which may  *)
(* only spend from the budget, change what the cache shows of services,    *)
(* and change or delete rules in their place.                              *)
LEMMA ElsewhereStep ==
    ASSUME IInv, UNCHANGED inside, budget' \in [Expenses -> Nat], WorldType',
           RulesStay
    PROVE  IInv' /\ Promises
  <1>1. UNCHANGED <<versions, queue, timers, pc, key, cr, serviceID>>
    BY DEF inside
  <1>2. RuntimeInv' /\ (CopyKeepsBinding => CopyKeepsBinding')
    BY <1>1, IdleStep DEF IInv
  <1>3. CopyStays /\ IdsStay
    BY <1>1 DEF CopyStays, IdsStay, Objects, Latest
  <1> QED BY <1>1, <1>2, <1>3, OutsideStep

(* The process stops, while the services may change.                       *)
LEMMA CrashStep ==
    ASSUME IInv, Restart, serviceID' = None, UNCHANGED remote, WorldType'
    PROVE  IInv' /\ Promises
  <1>1. /\ RuntimeInv' /\ CopyKeepsBinding' /\ pc' = "idle"
        /\ \A c \in CRs : Latest(c)' = Latest(c)
    BY RestartStep DEF IInv
  <1>2. TypeOK'
    BY <1>1 DEF TypeOK, RuntimeInv, WorldType
  <1>3. Promises
    BY <1>1, RemoteStays, KeepsPromises DEF IdsStay
  <1> QED BY <1>1, <1>2, <1>3 DEF IInv

(* Every step keeps IInv and the promises.                                 *)
LEMMA NextIInv ==
    ASSUME IInv, [Next]_vars
    PROVE  IInv' /\ Promises
  <1>1. RuntimeInv /\ WorldType
    BY DEF IInv, TypeOK, WorldType
  <1>2. ASSUME NEW k \in CRs, User(k) PROVE IInv' /\ Promises
    <2>1. UNCHANGED <<pc, key, cr, remote, services, hosts, serviceID>>
      BY <1>2 DEF User, ApplyCR, DeleteCR, outside
    <2>2. /\ RuntimeInv' /\ CopyStays /\ IdsStay
          /\ CopyKeepsBinding => CopyKeepsBinding'
      BY <1>1, <1>2, UserStep DEF User
    <2> QED BY <1>1, <2>1, <2>2, RemoteStays, OutsideStep DEF WorldType
  <1>3. ASSUME NEW k \in CRs, Watch(k) \/ Expire(k) PROVE IInv' /\ Promises
    <2>1. UNCHANGED <<pc, key, cr, remote, services, hosts, serviceID>>
      BY <1>3 DEF Watch, Expire, WatchEvent, Timer, outside
    <2>2. /\ RuntimeInv' /\ CopyStays /\ IdsStay
          /\ CopyKeepsBinding => CopyKeepsBinding'
      BY <1>1, <1>3, RuntimeStep DEF Watch, Expire, IdsStay
    <2> QED BY <1>1, <2>1, <2>2, RemoteStays, OutsideStep DEF WorldType
  <1>4. ASSUME NEW k \in CRs, Reconcile(k) PROVE IInv' /\ Promises
    <2>1. /\ RuntimeInv' /\ CopyKeepsBinding'
          /\ pc = "idle" /\ UNCHANGED versions
          /\ UNCHANGED <<pc, key, cr>> \/ pc' = "resolving"
          /\ UNCHANGED <<remote, services, hosts, serviceID>>
      BY <1>1, <1>4, GetStep DEF Reconcile, Get, IInv, outside
    <2>2. TypeOK'
      BY <1>1, <2>1 DEF TypeOK, IInv, RuntimeInv
    <2>3. Promises
      BY <2>1, RemoteStays, KeepsPromises DEF IdsStay, Latest
    <2> QED BY <2>1, <2>2, <2>3 DEF IInv
  <1>5. ASSUME NEW id \in Ids, Drift(id) PROVE IInv' /\ Promises
    <2>1. PICK c \in Contents :
             Exists(id) /\ Store(id, [remote[id] EXCEPT !.content = c])
      BY <1>5 DEF Drift
    <2> DEFINE n == [remote[id] EXCEPT !.content = c]
    <2>2. remote[id] \in IncidentRule
      BY <1>1, <2>1 DEF Exists, WorldType
    <2>3. n \in IncidentRule /\ n.service = remote[id].service /\ Store(id, n)
      BY <2>1, <2>2 DEF IncidentRule
    <2> HIDE DEF n
    <2>4. UNCHANGED <<inside, outside>> /\ budget' \in [Expenses -> Nat]
      BY <1>1, <1>5, SpendType DEF Drift, Expenses
    <2> QED BY <1>1, <2>3, <2>4, StoreStays, ElsewhereStep
  <1>6. ASSUME NEW id \in Ids, Removal(id) PROVE IInv' /\ Promises
    <2>1. /\ UNCHANGED <<inside, outside>> /\ budget' \in [Expenses -> Nat]
          /\ Exists(id) /\ remote' = [remote EXCEPT ![id] = Gone]
      BY <1>1, <1>6, SpendType DEF Removal, Discard, Expenses
    <2>2. remote' = [i \in Ids |-> IF i \in {id} THEN Gone ELSE remote[i]]
      BY <1>1, <2>1 DEF WorldType
    <2>3. WorldType' /\ RulesStay
      BY <1>1, <2>1, <2>2, RulesElsewhere DEF outside, WorldType
    <2> QED BY <2>1, <2>3, ElsewhereStep
  <1>7. ASSUME NEW s \in ServiceIds, ServiceRemoval(s) PROVE IInv' /\ Promises
    <2>1. /\ UNCHANGED <<inside, services>> /\ budget' \in [Expenses -> Nat]
          /\ hosts' \subseteq ServiceIds /\ RulesLost(s)
      BY <1>1, <1>7, SpendType DEF ServiceRemoval, Expenses, WorldType
    <2>2. RulesOf(s) \subseteq Ids /\ \A id \in RulesOf(s) : Exists(id)
      BY DEF RulesOf
    <2>3. WorldType' /\ RulesStay
      BY <1>1, <2>1, <2>2, RulesElsewhere DEF RulesLost
    <2> QED BY <2>1, <2>3, ElsewhereStep
  <1>8. ASSUME NEW r \in ServiceRefs, ServiceEvent(r) PROVE IInv' /\ Promises
    <2>1. /\ UNCHANGED <<inside, remote, hosts>> /\ budget' \in [Expenses -> Nat]
      BY <1>1, <1>8, SpendType DEF ServiceEvent, Expenses
    <2>2. services' \in [ServiceRefs -> ServiceStates]
      BY <1>1, <1>8 DEF ServiceEvent, WorldType
    <2> QED BY <1>1, <2>1, <2>2, RemoteStays, ElsewhereStep DEF WorldType
  <1>9. CASE Crash
    BY <1>1, <1>9, CrashStep DEF Crash, WorldType, outside
  <1>10. CASE UNCHANGED vars
    <2>1. UNCHANGED <<inside, outside, remote, budget>>
      BY <1>10 DEF vars, runtimeVars, inside
    <2>2. budget' \in [Expenses -> Nat] /\ WorldType' /\ RulesStay
      BY <1>1, <2>1, RemoteStays DEF RuntimeInv, RuntimeTypeOK, WorldType, outside
    <2> QED BY <2>1, <2>2, ElsewhereStep
  <1> QED BY <1>2, <1>3, <1>4, <1>5, <1>6, <1>7, <1>8, <1>9, <1>10, WorkerStep
          DEF Next

(* Where rules are put: a run knows a service by what the cache showed of  *)
(* it, and a new rule is in the service of the run, which exists.          *)
PlacesRules ==
    /\ serviceID' \in {serviceID, None} \cup {services[r] : r \in ServiceRefs}
    /\ \A id \in Ids :
          Exists(id)' =>
             \/ Exists(id) /\ remote'[id].service = remote[id].service
             \/ serviceID \in hosts /\ remote'[id].service = serviceID

(* Every step of a run puts rules there.                                   *)
LEMMA WorkerPlacesRules ==
    ASSUME IInv, Worker
    PROVE  PlacesRules
  <1>1. ASSUME RulesStay, serviceID' \in {serviceID, None} PROVE PlacesRules
    BY <1>1 DEF PlacesRules, RulesStay
  <1>2. CASE ResolveService
    <2>1. pc = "resolving" /\ RulesStay
      BY <1>2, RemoteStays DEF ResolveService
    <2>2. CASE serviceID' = None
      BY <1>1, <2>1, <2>2
    <2>3. CASE serviceID' = resolveServiceID(cr.spec) /\ serviceID' # Gone
      <3>1. serviceID' \in {services[r] : r \in ServiceRefs}
        BY <2>1, <2>3, Running DEF resolveServiceID, IncidentRuleSpec
      <3> QED BY <2>1, <3>1 DEF PlacesRules, RulesStay
    <2> QED BY <1>2, <2>2, <2>3 DEF ResolveService, Requeue
  <1>3. CASE ListRules \/ SaveStatus
    BY <1>1, <1>3, RemoteStays DEF ListRules, SaveStatus, Fail, Requeue
  <1>4. CASE UpdateIncidentRule
    <2>1. serviceID' \in {serviceID, None} /\ pc = "updating" /\ UNCHANGED outside
      BY <1>4 DEF UpdateIncidentRule, Fail, Requeue
    <2>2. RulesStay
      BY <1>4, <2>1, RemoteStays, UpdateEffect DEF UpdateIncidentRule
    <2> QED BY <1>1, <2>1, <2>2
  <1>5. CASE CreateIncidentRule
    <2>1. serviceID' \in {serviceID, None}
      BY <1>5 DEF CreateIncidentRule, Fail, Requeue
    <2>2. CASE UNCHANGED remote
      BY <1>1, <2>1, <2>2, RemoteStays
    <2>3. CASE CreateApplied
      <3> DEFINE c == Content
                 n == NewId
      <3>1. serviceID \in hosts /\ c.service = serviceID
        BY <2>3 DEF CreateApplied, Content
      <3>2. /\ remote' = [remote EXCEPT ![n] = c]
            /\ remote \in [Ids -> IncidentRule \cup Absent]
        BY <2>3 DEF CreateApplied, Issue, IInv, TypeOK
      <3> HIDE DEF c, n
      <3>3. \A id \in Ids : remote'[id] = IF id = n THEN c ELSE remote[id]
        BY <3>2
      <3>4. \A id \in Ids :
               Exists(id)' => \/ Exists(id) /\ remote'[id].service = remote[id].service
                              \/ remote'[id].service = serviceID
        BY <3>1, <3>3 DEF Exists, Absent
      <3> QED BY <2>1, <3>1, <3>4 DEF PlacesRules
    <2> QED BY <1>5, <2>2, <2>3 DEF CreateIncidentRule
  <1> QED BY <1>2, <1>3, <1>4, <1>5 DEF Worker

(* The budget is only spent.                                               *)
LEMMA NextSpends ==
    ASSUME IInv, [Next]_vars
    PROVE  \A w \in Expenses : budget'[w] <= budget[w]
  <1>1. budget \in [Expenses -> Nat]
    BY DEF IInv, RuntimeInv, RuntimeTypeOK
  <1>2. ASSUME NEW v, Spend(v) PROVE \A w \in Expenses : budget'[w] <= budget[w]
    BY <1>1, <1>2 DEF Spend
  <1>3. ASSUME UNCHANGED budget PROVE \A w \in Expenses : budget'[w] <= budget[w]
    BY <1>1, <1>3
  <1>4. CASE Worker
    <2>1. UNCHANGED budget \/ Spend("faults")
      BY <1>4 DEF Worker, ResolveService, ListRules, UpdateIncidentRule,
                  CreateIncidentRule, SaveStatus, Fail
    <2> QED BY <1>2, <1>3, <2>1
  <1>5. ASSUME NEW k \in CRs, User(k) \/ Watch(k) \/ Expire(k) \/ Reconcile(k)
        PROVE  UNCHANGED budget \/ Spend("edits") \/ Spend("delays")
    BY <1>5 DEF User, ApplyCR, DeleteCR, Watch, WatchEvent, Expire, Timer,
                Reconcile, Get
  <1>6. CASE Crash
    BY <1>2, <1>6 DEF Crash, Restart
  <1>7. CASE UNCHANGED vars
    BY <1>3, <1>7 DEF vars, runtimeVars
  <1> QED BY <1>2, <1>3, <1>4, <1>5, <1>6, <1>7
          DEF Next, Drift, Removal, ServiceRemoval, ServiceEvent

(* IInv holds in every reachable state. *)
THEOREM RuleInvariant == Spec => []IInv
  <1>1. IInv /\ [Next]_vars => IInv'
    BY NextIInv
  <1> QED BY <1>1, InitIInv, PTL DEF Spec

(* The variables of the rule controller and its runtime keep their types.  *)
THEOREM RuleTypes == Spec => []TypeOK
  <1>1. IInv => TypeOK
    BY DEF IInv
  <1> QED BY <1>1, RuleInvariant, PTL

(* A run on a current copy of its CR never adds a second rule to a         *)
(* service.                                                                *)
THEOREM RulesAreNotDoubled == Spec => NoSecondRule
  <1>1. IInv /\ [Next]_vars => [AddsNoSecond]_vars
    BY NextIInv DEF Promises
  <1> QED BY <1>1, RuleInvariant, PTL DEF Spec, NoSecondRule

(* A recorded rule that still exists is only given up for one in another   *)
(* service.                                                                *)
THEOREM RulesFollowTheirService == Spec => RuleFollowsService
  <1>1. IInv /\ [Next]_vars => [ReplacesElsewhere]_vars
    BY NextIInv DEF Promises
  <1> QED BY <1>1, RuleInvariant, PTL DEF Spec, RuleFollowsService

=============================================================================
