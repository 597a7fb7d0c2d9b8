---------------------------- MODULE OperatorProofs ----------------------------
(***************************************************************************)
(* The services and rules of one manager together, for any number of CRs:  *)
(* both controllers keep their invariants beside each other, although they *)
(* spend from one budget, and although what the rule controller reads of   *)
(* its environment are the variables of the service controller.  No rule   *)
(* is in a service that no CR has recorded.                                *)
(*                                                                         *)
(* SP and RP are the proofs of the components, over the variables of the   *)
(* composition.  Their lemmas speak of SP!Next, the composition of S!Next, *)
(* hence the lemmas that say that these are the same.                      *)
(***************************************************************************)
EXTENDS Operator, TLAPS

(* The proofs about services. *)
SP == INSTANCE ServiceControllerProofs WITH
        CRs <- ServiceCRs, Specs <- ServiceSpecs, Ids <- ServiceIds,
        TeamRefs <- {}, InitialTeams <- <<>>, teams <- <<>>,
        versions <- sVersions, queue <- sQueue, timers <- sTimers,
        pc <- sPc, key <- sKey, cr <- sCr, remote <- sRemote

(* The proofs about rules. *)
RP == INSTANCE IncidentRuleControllerProofs WITH
        CRs <- RuleCRs, Specs <- RuleSpecs, Ids <- RuleIds,
        versions <- rVersions, queue <- rQueue, timers <- rTimers,
        pc <- rPc, key <- rKey, cr <- rCr, remote <- rRemote,
        ServiceRefs <- ServiceCRs,
        services <- [k \in ServiceCRs |-> ServiceStatus(k)],
        InitialServices <- [k \in ServiceCRs |-> Gone],
        hosts <- {s \in ServiceIds : sRemote[s] # Gone}

-----------------------------------------------------------------------------
(* The assumptions of the service controller follow from those of the      *)
(* composition.                                                            *)
LEMMA ServiceAssumptions ==
    SP!OpsgenieAssumption /\ SP!RuntimeAssumption /\ SP!ServiceAssumption
  <1>1. SP!OpsgenieAssumption
    BY OperatorAssumption DEF SP!OpsgenieAssumption
  <1>2. SP!RuntimeAssumption
    BY OperatorAssumption DEF SP!RuntimeAssumption, S!Expenses, SP!Expenses
  <1>3. <<>> \in [{} -> SP!TeamStates]
    OBVIOUS
  <1>4. ServiceSpecs \subseteq SP!ServiceSpec
    BY OperatorAssumption DEF S!ServiceSpec, SP!ServiceSpec
  <1>5. \A a \in SP!Absent : a \notin SP!Service
    BY OperatorAssumption DEF S!Service, SP!Service, SP!Absent
  <1> QED BY <1>1, <1>2, <1>3, <1>4, <1>5, OperatorAssumption DEF SP!ServiceAssumption

(* ... and those of the rule controller. *)
LEMMA RuleAssumptions ==
    RP!OpsgenieAssumption /\ RP!RuntimeAssumption /\ RP!IncidentRuleAssumption
  <1>1. RP!OpsgenieAssumption
    BY OperatorAssumption DEF RP!OpsgenieAssumption
  <1>2. RP!RuntimeAssumption
    BY OperatorAssumption DEF RP!RuntimeAssumption, S!Expenses, RP!Expenses
  <1>3. [k \in ServiceCRs |-> Gone] \in [ServiceCRs -> RP!ServiceStates]
    BY DEF RP!ServiceStates
  <1>4. RuleSpecs \subseteq RP!IncidentRuleSpec
    BY OperatorAssumption DEF R!IncidentRuleSpec, RP!IncidentRuleSpec
  <1>5. \A a \in RP!Absent : a \notin RP!IncidentRule
    BY OperatorAssumption DEF R!IncidentRule, RP!IncidentRule, RP!Absent
  <1> QED BY <1>1, <1>2, <1>3, <1>4, <1>5, OperatorAssumption
          DEF RP!IncidentRuleAssumption

-----------------------------------------------------------------------------
(* S and SP name the same controller, R and RP likewise.                   *)

(* The operators from which the actions of services are built.             *)
LEMMA SameServiceOperators ==
    /\ \A w : S!Spend(w) <=> SP!Spend(w)
    /\ \A k : S!Latest(k) = SP!Latest(k) /\ S!Cached(k) = SP!Cached(k)
    /\ \A k, o : S!Write(k, o) <=> SP!Write(k, o)
    /\ S!NoObject = SP!NoObject
    /\ S!StoreStatus <=> SP!StoreStatus
    /\ S!StatusCurrent <=> SP!StatusCurrent
    /\ S!Idle <=> SP!Idle
    /\ S!ReturnRequeue <=> SP!ReturnRequeue
    /\ \A id : S!Exists(id) <=> SP!Exists(id)
    /\ S!Fresh = SP!Fresh /\ S!NewId = SP!NewId
    /\ \A c : S!Issue(c) <=> SP!Issue(c)
    /\ \A id, c : S!Store(id, c) <=> SP!Store(id, c)
    /\ \A s : S!Reorderings(s) = SP!Reorderings(s)
  <1>1. /\ \A w : S!Spend(w) <=> SP!Spend(w)
        /\ \A k : S!Latest(k) = SP!Latest(k) /\ S!Cached(k) = SP!Cached(k)
        /\ S!NoObject = SP!NoObject
        /\ \A id : S!Exists(id) <=> SP!Exists(id)
        /\ S!Fresh = SP!Fresh
    BY DEF S!Spend, SP!Spend, S!Latest, SP!Latest, S!Cached, SP!Cached,
           S!NoObject, SP!NoObject, S!NoStatus, SP!NoStatus,
           S!Exists, SP!Exists, S!Absent, SP!Absent, S!Fresh, SP!Fresh
  <1>2. \A k : /\ S!NextVersion(k) = SP!NextVersion(k)
               /\ S!HeldVersions(k) = SP!HeldVersions(k)
    BY DEF S!NextVersion, SP!NextVersion, S!HeldVersions, SP!HeldVersions
  <1>3. \A k, o : S!Write(k, o) <=> SP!Write(k, o)
    BY <1>2 DEF S!Write, SP!Write
  <1>4. S!StatusCurrent <=> SP!StatusCurrent
    BY <1>1 DEF S!StatusCurrent, SP!StatusCurrent
  <1>5. S!StoreStatus <=> SP!StoreStatus
    BY <1>1, <1>3, <1>4 DEF S!StoreStatus, SP!StoreStatus
  <1>6. S!Idle <=> SP!Idle
    BY <1>1 DEF S!Idle, SP!Idle
  <1>7. S!ReturnRequeue <=> SP!ReturnRequeue
    BY <1>6 DEF S!ReturnRequeue, SP!ReturnRequeue
  <1>8. S!NewId = SP!NewId
    BY <1>1 DEF S!NewId, SP!NewId
  <1>9. \A c : S!Issue(c) <=> SP!Issue(c)
    BY <1>1, <1>8 DEF S!Issue, SP!Issue
  <1>10. \A id, c : S!Store(id, c) <=> SP!Store(id, c)
    BY <1>1 DEF S!Store, SP!Store
  <1>11. \A s : S!Reorderings(s) = SP!Reorderings(s)
    <2>1. \A A, B : SP!Injection(A, B) = S!Injection(A, B)
      BY DEF SP!Injection, S!Injection, SP!IsInjective, S!IsInjective
    <2>2. \A A, B : SP!Surjection(A, B) = S!Surjection(A, B)
      BY DEF SP!Surjection, S!Surjection
    <2>3. \A A, B : SP!Bijection(A, B) = S!Bijection(A, B)
      BY <2>1, <2>2 DEF SP!Bijection, S!Bijection
    <2> QED BY <2>3 DEF SP!Reorderings, S!Reorderings
  <1> QED BY <1>1, <1>3, <1>4, <1>5, <1>6, <1>7, <1>8, <1>9, <1>10, <1>11

(* The newest version after a step. *)
LEMMA SameServiceLatest == \A k : S!Latest(k)' = SP!Latest(k)'
  BY DEF S!Latest, SP!Latest

(* The steps of a run. *)
LEMMA SameServiceWorker == S!Worker => SP!Worker
  <1>1. S!Fail <=> SP!Fail
    BY SameServiceOperators DEF S!Fail, SP!Fail
  <1>2. S!ResolveTeam => SP!ResolveTeam
    BY SameServiceOperators
       DEF S!ResolveTeam, SP!ResolveTeam, S!resolveTeamID, SP!resolveTeamID,
           S!ReturnDone, SP!ReturnDone
  <1>3. S!FetchService => SP!FetchService
    <2>1. \A s, t : S!isUpdateRequired(s, t) <=> SP!isUpdateRequired(s, t)
      BY DEF S!isUpdateRequired, SP!isUpdateRequired,
             S!equalStringSlices, SP!equalStringSlices, S!ToSet, SP!ToSet
    <2> QED BY <1>1, <2>1, SameServiceOperators DEF S!FetchService, SP!FetchService
  <1>4. S!UpdateService => SP!UpdateService
    <2>1. S!UpdateApplied <=> SP!UpdateApplied
      BY SameServiceOperators
         DEF S!UpdateApplied, SP!UpdateApplied, S!Patched, SP!Patched
    <2> QED BY <1>1, <2>1, SameServiceOperators DEF S!UpdateService, SP!UpdateService
  <1>5. S!CreateService => SP!CreateService
    <2>1. S!CreateApplied <=> SP!CreateApplied
      BY SameServiceOperators DEF S!CreateApplied, SP!CreateApplied
    <2> QED BY <1>1, <2>1, SameServiceOperators DEF S!CreateService, SP!CreateService
  <1>6. S!SaveStatus => SP!SaveStatus
    BY SameServiceOperators DEF S!SaveStatus, SP!SaveStatus
  <1> QED BY <1>2, <1>3, <1>4, <1>5, <1>6 DEF S!Worker, SP!Worker

(* Every step of the service controller, its CRs and its runtime.          *)
LEMMA SameServiceSteps ==
    /\ S!Init => SP!Init
    /\ \A k \in ServiceCRs : S!User(k) \/ S!Runtime(k) \/ S!Reconcile(k) => SP!Next
    /\ S!Worker => SP!Next
    /\ \A s \in ServiceIds : S!Removal(s) => SP!Next
    /\ S!Crash => SP!Next /\ SP!Restart
  <1>1. S!Init => SP!Init
    BY SameServiceOperators
       DEF S!Init, SP!Init, S!RuntimeInit, SP!RuntimeInit
  <1>2. \A k : S!User(k) => SP!User(k)
    BY SameServiceOperators
       DEF S!User, SP!User, S!ApplyCR, SP!ApplyCR, S!DeleteCR, SP!DeleteCR
  <1>3. \A k : S!Runtime(k) => SP!Runtime(k)
    BY SameServiceOperators
       DEF S!Runtime, SP!Runtime, S!WatchEvent, SP!WatchEvent, S!Timer, SP!Timer,
           S!GenerationChangedPredicate, SP!GenerationChangedPredicate
  <1>4. \A k : S!Reconcile(k) => SP!Reconcile(k)
    BY SameServiceOperators DEF S!Reconcile, SP!Reconcile, S!Get, SP!Get
  <1>5. \A s : S!Removal(s) => SP!Removal(s)
    BY SameServiceOperators DEF S!Removal, SP!Removal, S!Discard, SP!Discard
  <1>6. S!Crash => SP!Crash /\ SP!Restart
    BY SameServiceOperators DEF S!Crash, SP!Crash, S!Restart, SP!Restart
  <1> QED BY <1>1, <1>2, <1>3, <1>4, <1>5, <1>6, SameServiceWorker DEF SP!Next

(* The operators from which the actions of rules are built.                *)
LEMMA SameRuleOperators ==
    /\ \A w : R!Spend(w) <=> RP!Spend(w)
    /\ \A k : R!Latest(k) = RP!Latest(k) /\ R!Cached(k) = RP!Cached(k)
    /\ \A k, o : R!Write(k, o) <=> RP!Write(k, o)
    /\ R!NoObject = RP!NoObject
    /\ R!StoreStatus <=> RP!StoreStatus
    /\ R!StatusCurrent <=> RP!StatusCurrent
    /\ R!Idle <=> RP!Idle
    /\ R!Requeue <=> RP!Requeue
    /\ R!Fail <=> RP!Fail
    /\ \A id : R!Exists(id) <=> RP!Exists(id)
    /\ \A s : R!RulesOf(s) = RP!RulesOf(s)
    /\ \A id : R!Listed(id) <=> RP!Listed(id)
    /\ R!Fresh = RP!Fresh /\ R!NewId = RP!NewId
    /\ R!outside = RP!outside /\ R!outside' = RP!outside'
    /\ R!Content = RP!Content
    /\ \A c : R!Issue(c) <=> RP!Issue(c)
    /\ \A id, c : R!Store(id, c) <=> RP!Store(id, c)
  <1>1. /\ \A w : R!Spend(w) <=> RP!Spend(w)
        /\ \A k : R!Latest(k) = RP!Latest(k) /\ R!Cached(k) = RP!Cached(k)
        /\ R!NoObject = RP!NoObject
        /\ \A id : R!Exists(id) <=> RP!Exists(id)
        /\ R!Fresh = RP!Fresh
        /\ R!outside = RP!outside /\ R!outside' = RP!outside'
        /\ R!Content = RP!Content
    BY DEF R!Spend, RP!Spend, R!Latest, RP!Latest, R!Cached, RP!Cached,
           R!NoObject, RP!NoObject, R!NoStatus, RP!NoStatus, R!Exists, RP!Exists,
           R!Absent, RP!Absent, R!Fresh, RP!Fresh, R!outside, RP!outside,
           R!Content, RP!Content
  <1>2. \A k : /\ R!NextVersion(k) = RP!NextVersion(k)
               /\ R!HeldVersions(k) = RP!HeldVersions(k)
    BY DEF R!NextVersion, RP!NextVersion, R!HeldVersions, RP!HeldVersions
  <1>3. \A k, o : R!Write(k, o) <=> RP!Write(k, o)
    BY <1>2 DEF R!Write, RP!Write
  <1>4. R!StatusCurrent <=> RP!StatusCurrent
    BY <1>1 DEF R!StatusCurrent, RP!StatusCurrent
  <1>5. R!StoreStatus <=> RP!StoreStatus
    BY <1>1, <1>3, <1>4 DEF R!StoreStatus, RP!StoreStatus
  <1>6. R!Idle <=> RP!Idle
    BY <1>1 DEF R!Idle, RP!Idle
  <1>7. R!Requeue <=> RP!Requeue
    BY <1>6 DEF R!Requeue, RP!Requeue, R!ReturnRequeue, RP!ReturnRequeue
  <1>8. R!Fail <=> RP!Fail
    BY <1>1, <1>7 DEF R!Fail, RP!Fail
  <1>9. \A s : R!RulesOf(s) = RP!RulesOf(s)
    BY <1>1 DEF R!RulesOf, RP!RulesOf
  <1>10. \A id : R!Listed(id) <=> RP!Listed(id)
    BY <1>9 DEF R!Listed, RP!Listed
  <1>11. R!NewId = RP!NewId
    BY <1>1 DEF R!NewId, RP!NewId
  <1>12. /\ \A c : R!Issue(c) <=> RP!Issue(c)
         /\ \A id, c : R!Store(id, c) <=> RP!Store(id, c)
    BY <1>1, <1>11 DEF R!Issue, RP!Issue, R!Store, RP!Store
  <1> QED BY <1>1, <1>3, <1>4, <1>5, <1>6, <1>7, <1>8, <1>9, <1>10, <1>11, <1>12

(* The steps of a run. *)
LEMMA SameRuleWorker == R!Worker => RP!Worker
  <1>1. R!ResolveService => RP!ResolveService
    BY SameRuleOperators
       DEF R!ResolveService, RP!ResolveService, R!resolveServiceID, RP!resolveServiceID
  <1>2. R!ListRules => RP!ListRules
    BY SameRuleOperators DEF R!ListRules, RP!ListRules
  <1>3. R!UpdateIncidentRule => RP!UpdateIncidentRule
    BY SameRuleOperators
       DEF R!UpdateIncidentRule, RP!UpdateIncidentRule, R!UpdateApplied, RP!UpdateApplied
  <1>4. R!CreateIncidentRule => RP!CreateIncidentRule
    BY SameRuleOperators
       DEF R!CreateIncidentRule, RP!CreateIncidentRule, R!CreateApplied, RP!CreateApplied
  <1>5. R!SaveStatus => RP!SaveStatus
    BY SameRuleOperators DEF R!SaveStatus, RP!SaveStatus
  <1> QED BY <1>1, <1>2, <1>3, <1>4, <1>5 DEF R!Worker, RP!Worker

(* Every step of the rule controller, its CRs and its runtime.             *)
LEMMA SameRuleSteps ==
    /\ R!Init => RP!Init
    /\ \A k \in RuleCRs :
          R!User(k) \/ R!Watch(k) \/ R!Expire(k) \/ R!Reconcile(k)
          => RP!Next /\ UNCHANGED <<rRemote, serviceID>>
    /\ R!Worker => RP!Next
    /\ R!Restart => RP!Restart
    /\ \A s : R!RulesLost(s) => RP!RulesLost(s)
  <1>1. R!Init => RP!Init
    BY SameRuleOperators
       DEF R!Init, RP!Init, R!RuntimeInit, RP!RuntimeInit
  <1>2. \A k : R!User(k) => RP!User(k) /\ UNCHANGED <<rRemote, serviceID>>
    BY SameRuleOperators
       DEF R!User, RP!User, R!ApplyCR, RP!ApplyCR, R!DeleteCR, RP!DeleteCR
  <1>3. \A k : R!Watch(k) => RP!Watch(k) /\ UNCHANGED <<rRemote, serviceID>>
    BY SameRuleOperators
       DEF R!Watch, RP!Watch, R!WatchEvent, RP!WatchEvent,
           R!GenerationChangedPredicate, RP!GenerationChangedPredicate
  <1>4. \A k : R!Expire(k) => RP!Expire(k) /\ UNCHANGED <<rRemote, serviceID>>
    BY SameRuleOperators DEF R!Expire, RP!Expire, R!Timer, RP!Timer
  <1>5. \A k : R!Reconcile(k) => RP!Reconcile(k) /\ UNCHANGED <<rRemote, serviceID>>
    BY SameRuleOperators DEF R!Reconcile, RP!Reconcile, R!Get, RP!Get
  <1>6. R!Restart => RP!Restart
    BY SameRuleOperators DEF R!Restart, RP!Restart
  <1>7. \A s : R!RulesLost(s) => RP!RulesLost(s)
    BY SameRuleOperators DEF R!RulesLost, RP!RulesLost
  <1> QED BY <1>1, <1>2, <1>3, <1>4, <1>5, <1>6, <1>7, SameRuleWorker DEF RP!Next

-----------------------------------------------------------------------------
(* The invariant of the composition. *)

(* Whatever a version of a service CR shows, and whatever a run of the     *)
(* rule controller has read there, the API server has held; so has it what *)
(* the rules are in.                                                       *)
RecordedInv ==
    /\ \A k \in ServiceCRs : \A o \in S!Objects(k) :
          o.status.id \in recorded \cup {None}
    /\ serviceID \in recorded \cup {None}
    /\ RulesInRecordedServices

(* What each controller keeps by itself, and what joins them.              *)
Inv == SP!SafetyInv /\ RP!IInv /\ RecordedInv

(* What every step promises on behalf of either.                           *)
Promises == SP!SafeStep /\ RP!Promises

(* What the cache shows of services is of the type rules expect.           *)
ServicesTyped ==
    [k \in ServiceCRs |-> ServiceStatus(k)] \in [ServiceCRs -> RP!ServiceStates]

(* The cached versions of services hold identifiers, or none.              *)
LEMMA CachedServices == SP!SafetyInv => ServicesTyped
  <1>1. SUFFICES ASSUME SP!SafetyInv, NEW k \in ServiceCRs
                 PROVE  ServiceStatus(k) \in RP!ServiceStates
    BY DEF ServicesTyped
  <1>2. SP!Cached(k).status.id \in ServiceIds \cup {None}
    BY <1>1, SP!SafeVersions, ServiceAssumptions
  <1>3. S!Cached(k) = SP!Cached(k)
    BY SameServiceOperators
  <1> QED BY <1>2, <1>3 DEF ServiceStatus, RP!ServiceStates

(* The world of the rule controller keeps its type when services and rules *)
(* do.                                                                     *)
LEMMA WorldStaysTyped ==
    ASSUME SP!SafetyInv', rRemote' \in [RuleIds -> RP!IncidentRule \cup RP!Absent]
    PROVE  RP!WorldType'
  <1>1. SP!SafetyInv' => ServicesTyped'
    BY CachedServices, PTL
  <1>2. {s \in ServiceIds : sRemote[s] # Gone}' \subseteq ServiceIds
    OBVIOUS
  <1> QED BY <1>1, <1>2 DEF ServicesTyped, RP!WorldType

(* The budget keeps its type. *)
LEMMA BudgetTyped ==
    /\ SP!SafetyInv' => budget' \in [RP!Expenses -> Nat]
    /\ RP!IInv' => budget' \in [SP!Expenses -> Nat]
  BY DEF SP!SafetyInv, SP!IInv, SP!RuntimeInv, SP!RuntimeTypeOK, SP!Expenses,
         RP!IInv, RP!RuntimeInv, RP!RuntimeTypeOK, RP!Expenses

(* The first part of RecordedInv, apart from rules. *)
ShownAreRecorded ==
    \A k \in ServiceCRs : \A o \in SP!Objects(k) :
        o.status.id \in recorded \cup {None}

(* RecordedInv in the terms of both proofs. *)
LEMMA RecordedParts ==
    /\ RecordedInv <=>
          /\ ShownAreRecorded
          /\ serviceID \in recorded \cup {None}
          /\ \A id \in RuleIds : RP!Exists(id) => rRemote[id].service \in recorded
    /\ RecordedInv' <=>
          /\ ShownAreRecorded'
          /\ serviceID' \in recorded' \cup {None}
          /\ \A id \in RuleIds : RP!Exists(id)' => rRemote'[id].service \in recorded'
  BY DEF RecordedInv, RulesInRecordedServices, ShownAreRecorded, S!Objects, SP!Objects,
         R!Exists, RP!Exists, R!Absent, RP!Absent

(* A step of the service controller and its CRs: what becomes visible has  *)
(* just been recorded.                                                     *)
LEMMA ServicesStep ==
    ASSUME Inv, SP!Next, UNCHANGED ruleVars, Record
    PROVE  Inv' /\ Promises
  <1>1. /\ SP!SafetyInv /\ SP!IInv /\ RP!IInv /\ RecordedInv
        /\ UNCHANGED <<rRemote, serviceID>>
    BY DEF Inv, SP!SafetyInv, ruleVars, ruleLocal
  <1>2. SP!SafetyInv' /\ SP!SafeStep
    BY <1>1, SP!NextSafe, ServiceAssumptions
  <1>3. RP!IInv' /\ RP!Promises
    <2>1. UNCHANGED RP!inside
      BY DEF RP!inside, ruleVars, ruleLocal
    <2>2. RP!WorldType'
      BY <1>1, <1>2, WorldStaysTyped DEF RP!IInv, RP!TypeOK
    <2>3. RP!RulesStay
      BY <1>1, RP!RemoteStays, RuleAssumptions
    <2> QED BY <1>1, <1>2, <2>1, <2>2, <2>3, BudgetTyped, RuleAssumptions,
               RP!ElsewhereStep
  <1>4. RecordedInv'
    <2>1. recorded \subseteq recorded'
      BY DEF Record
    <2>2. \A k \in ServiceCRs : SP!Latest(k)'.status.id \in recorded' \cup {None}
      BY SameServiceLatest DEF Record
    <2>3. ShownAreRecorded'
      <3>1. SP!OnlyNewest
        BY <1>1, SP!NextNewest, ServiceAssumptions
      <3> QED BY <1>1, <2>1, <2>2, <3>1, RecordedParts DEF SP!OnlyNewest, ShownAreRecorded
    <2> QED BY <1>1, <2>1, <2>3, RecordedParts DEF RP!Exists
  <1> QED BY <1>2, <1>3, <1>4 DEF Inv, Promises

(* A step of the rule controller and its CRs: a run knows a service from   *)
(* the cache, and creates rules there only.                                *)
LEMMA RulesStep ==
    ASSUME Inv, UNCHANGED <<serviceVars, recorded>>,
           \/ RP!Worker /\ RP!Next
           \/ (RP!Next \/ UNCHANGED RP!vars) /\ UNCHANGED <<rRemote, serviceID>>
    PROVE  Inv' /\ Promises
  <1>1. /\ SP!SafetyInv /\ RP!IInv /\ RecordedInv
        /\ UNCHANGED <<sVersions, sQueue, sTimers, sPc, sKey, sCr, sRemote, recorded>>
    BY DEF Inv, serviceVars, serviceLocal
  <1>2. RP!IInv' /\ RP!Promises
    BY <1>1, RP!NextIInv, RuleAssumptions
  <1>3. SP!SafetyInv' /\ SP!SafeStep
    <2>1. \A w \in RP!Expenses : budget'[w] <= budget[w]
      BY <1>1, RP!NextSpends, RuleAssumptions
    <2>2. \A w \in SP!Expenses : budget'[w] <= budget[w]
      BY <2>1 DEF RP!Expenses, SP!Expenses
    <2>3. SP!Elsewhere
      BY <1>1, <1>2, <2>2, BudgetTyped DEF SP!Elsewhere
    <2> QED BY <1>1, <2>3, SP!ElsewhereSafe, ServiceAssumptions
  <1>4. RecordedInv'
    <2>1. ShownAreRecorded /\ ShownAreRecorded'
      BY <1>1, RecordedParts DEF ShownAreRecorded, SP!Objects
    <2>2. CASE UNCHANGED <<rRemote, serviceID>>
      BY <1>1, <2>1, <2>2, RecordedParts DEF RP!Exists
    <2>3. CASE RP!Worker
      <3>1. RP!PlacesRules
        BY <1>1, <2>3, RP!WorkerPlacesRules, RuleAssumptions
      <3>2. serviceID' \in recorded \cup {None}
        <4>1. /\ serviceID' \in ServiceIds \cup {None}
              /\ Gone \notin ServiceIds /\ Gone # None
          BY <1>2, OperatorAssumption DEF RP!IInv, RP!TypeOK
        <4>2. ASSUME NEW r \in ServiceCRs
              PROVE  ServiceStatus(r) \in recorded \cup {None, Gone}
          <5>1. SP!Cached(r) \in SP!Objects(r)
            BY <1>1, SP!SafeVersions, ServiceAssumptions
          <5>2. S!Cached(r) = SP!Cached(r)
            BY SameServiceOperators
          <5> QED BY <2>1, <5>1, <5>2 DEF ServiceStatus, ShownAreRecorded
        <4>3. serviceID' \in {serviceID, None} \cup {ServiceStatus(r) : r \in ServiceCRs}
          BY <3>1 DEF RP!PlacesRules
        <4> QED BY <1>1, <4>1, <4>2, <4>3, RecordedParts
      <3>3. ASSUME NEW id \in RuleIds, RP!Exists(id)'
            PROVE  rRemote'[id].service \in recorded
        <4>1. \/ RP!Exists(id) /\ rRemote'[id].service = rRemote[id].service
              \/ serviceID \in ServiceIds /\ rRemote'[id].service = serviceID
          BY <3>1, <3>3 DEF RP!PlacesRules
        <4>2. None \notin ServiceIds
          BY OperatorAssumption
        <4> QED BY <1>1, <4>1, <4>2, RecordedParts
      <3> QED BY <1>1, <2>1, <3>2, <3>3, RecordedParts
    <2> QED BY <2>2, <2>3
  <1> QED BY <1>2, <1>3, <1>4 DEF Inv, Promises

(* A service is deleted in Opsgenie, and its rules with it.                *)
LEMMA RemovalStep ==
    ASSUME Inv, NEW s \in ServiceIds, ServiceRemoval(s)
    PROVE  Inv' /\ Promises
  <1>1. /\ SP!SafetyInv /\ RP!IInv /\ RecordedInv
        /\ UNCHANGED ruleLocal /\ UNCHANGED <<serviceID, recorded>>
        /\ SP!Next /\ RP!RulesLost(s) /\ UNCHANGED sVersions
    BY SameServiceSteps, SameRuleSteps
       DEF Inv, ServiceRemoval, ruleLocal, S!Removal
  <1>2. SP!SafetyInv' /\ SP!SafeStep
    BY <1>1, SP!NextSafe, ServiceAssumptions
  <1>3. RP!WorldType
    BY <1>1 DEF RP!IInv, RP!TypeOK, RP!WorldType
  <1>4. RP!RulesStay /\ rRemote' \in [RuleIds -> RP!IncidentRule \cup RP!Absent]
    <2>1. /\ RP!RulesOf(s) \in SUBSET RuleIds
          /\ \A id \in RP!RulesOf(s) : RP!Exists(id)
      BY DEF RP!RulesOf
    <2>2. UNCHANGED [k \in ServiceCRs |-> ServiceStatus(k)]
      BY <1>1 DEF ServiceStatus, S!Cached
    <2>3. {t \in ServiceIds : sRemote[t] # Gone}' \subseteq ServiceIds
      OBVIOUS
    <2>4. RP!WorldType' /\ RP!RulesStay
      BY <1>1, <1>3, <2>1, <2>2, <2>3, RuleAssumptions, RP!RulesElsewhere
         DEF RP!RulesLost
    <2> QED BY <2>4 DEF RP!WorldType
  <1>5. RP!IInv' /\ RP!Promises
    <2>1. UNCHANGED RP!inside
      BY <1>1 DEF RP!inside, ruleLocal
    <2> QED BY <1>1, <1>2, <1>4, <2>1, BudgetTyped, WorldStaysTyped, RuleAssumptions,
               RP!ElsewhereStep
  <1>6. RecordedInv'
    <2>1. ShownAreRecorded'
      BY <1>1, RecordedParts DEF ShownAreRecorded, SP!Objects
    <2> QED BY <1>1, <1>4, <2>1, RecordedParts DEF RP!RulesStay
  <1> QED BY <1>2, <1>5, <1>6 DEF Inv, Promises

(* The process stops, and both controllers with it.                        *)
LEMMA StopStep ==
    ASSUME Inv, Crash
    PROVE  Inv' /\ Promises
  <1>1. /\ SP!SafetyInv /\ RP!IInv /\ RecordedInv
        /\ SP!Next /\ SP!Restart /\ RP!Restart /\ serviceID' = None
        /\ UNCHANGED <<rRemote, recorded>>
    BY SameServiceSteps, SameRuleSteps DEF Inv, Crash
  <1>2. SP!SafetyInv' /\ SP!SafeStep
    BY <1>1, SP!NextSafe, ServiceAssumptions
  <1>3. RP!IInv' /\ RP!Promises
    <2>1. RP!WorldType'
      BY <1>1, <1>2, WorldStaysTyped DEF RP!IInv, RP!TypeOK
    <2> QED BY <1>1, <2>1, RuleAssumptions, RP!CrashStep
  <1>4. RecordedInv'
    <2>1. SP!RuntimeTypeOK
      BY <1>1 DEF SP!SafetyInv, SP!IInv, SP!RuntimeInv
    <2>2. \A k \in ServiceCRs : SP!Objects(k)' = {SP!Latest(k)}
      BY <1>1, <2>1, SP!RestartEffect, ServiceAssumptions
    <2>3. \A k \in ServiceCRs : SP!Latest(k) \in SP!Objects(k)
      BY <1>1, SP!SafeVersions, ServiceAssumptions
    <2>4. ShownAreRecorded'
      BY <1>1, <2>2, <2>3, RecordedParts DEF ShownAreRecorded
    <2> QED BY <1>1, <2>4, RecordedParts DEF RP!Exists
  <1> QED BY <1>2, <1>3, <1>4 DEF Inv, Promises

(* At the start nothing is recorded, and there are no rules.               *)
LEMMA InitInv == Init => Inv
  <1> SUFFICES ASSUME Init PROVE Inv
    OBVIOUS
  <1>1. SP!Init /\ RP!Init
    BY SameServiceSteps, SameRuleSteps DEF Init
  <1>2. SP!SafetyInv
    BY <1>1, SP!InitSafe, ServiceAssumptions
  <1>3. RP!IInv
    BY <1>1, RP!InitIInv, RuleAssumptions
  <1>4. RecordedInv
    <2>1. sVersions = [k \in ServiceCRs |-> <<SP!NoObject>>] /\ serviceID = None
      BY <1>1 DEF SP!Init, SP!RuntimeInit, RP!Init
    <2>2. SP!NoObject.status.id = None
      BY DEF SP!NoObject, SP!NoStatus
    <2>3. \A k \in ServiceCRs : SP!Objects(k) = {SP!NoObject}
      <3>1. \A x : DOMAIN <<x>> = {1} /\ <<x>>[1] = x
        OBVIOUS
      <3>2. \A k \in ServiceCRs : sVersions[k] = <<SP!NoObject>>
        BY <2>1
      <3>3. \A k \in ServiceCRs :
               DOMAIN sVersions[k] = {1} /\ sVersions[k][1] = SP!NoObject
        BY <3>1, <3>2
      <3> QED BY <3>3 DEF SP!Objects
    <2>4. \A id \in RuleIds : ~RP!Exists(id)
      BY <1>1 DEF RP!Init, RP!Exists, RP!Absent
    <2> QED BY <2>1, <2>2, <2>3, <2>4, RecordedParts DEF ShownAreRecorded
  <1> QED BY <1>2, <1>3, <1>4 DEF Inv

(* Every step keeps the invariant and the promises of both controllers.    *)
LEMMA NextInv ==
    ASSUME Inv, [Next]_vars
    PROVE  Inv' /\ Promises
  <1>1. ASSUME NEW k \in ServiceCRs,
               OfServices(S!User(k)) \/ OfServices(S!Runtime(k) \/ S!Reconcile(k))
        PROVE  Inv' /\ Promises
    BY <1>1, SameServiceSteps, ServicesStep DEF OfServices
  <1>2. CASE OfServices(S!Worker)
    BY <1>2, SameServiceSteps, ServicesStep DEF OfServices
  <1>3. ASSUME NEW k \in RuleCRs,
               \/ OfRules(R!User(k))
               \/ OfRules(R!Watch(k) \/ R!Expire(k) \/ R!Reconcile(k))
        PROVE  Inv' /\ Promises
    BY <1>3, SameRuleSteps, RulesStep DEF OfRules
  <1>4. CASE OfRules(R!Worker)
    BY <1>4, SameRuleSteps, SameRuleWorker, RulesStep DEF OfRules
  <1>5. CASE UNCHANGED vars
    <2>1. UNCHANGED <<serviceVars, recorded, rRemote, serviceID>>
      BY <1>5 DEF vars, ruleVars, ruleLocal
    <2>2. UNCHANGED RP!vars
      BY <1>5 DEF vars, ruleVars, ruleLocal, serviceVars, serviceLocal,
                  RP!vars, RP!runtimeVars, RP!outside, ServiceStatus, S!Cached
    <2> QED BY <2>1, <2>2, RulesStep
  <1> QED BY <1>1, <1>2, <1>3, <1>4, <1>5, RemovalStep, StopStep DEF Next, User

-----------------------------------------------------------------------------
(* The theorems. *)

(* The invariants of both controllers, and the record that joins them,     *)
(* hold in every reachable state of the composition.                       *)
THEOREM OperatorInvariant == Spec => []Inv
  <1>1. Inv /\ [Next]_vars => Inv'
    BY NextInv
  <1> QED BY <1>1, InitInv, PTL DEF Spec

(* No rule is ever in a service that no CR has recorded: a service that    *)
(* was created twice because a status write was lost stays without rules.  *)
THEOREM NoRuleInAnOrphan == Spec => []RulesInRecordedServices
  <1>1. Inv => RulesInRecordedServices
    BY DEF Inv, RecordedInv
  <1> QED BY <1>1, OperatorInvariant, PTL

(* Two references that the cache shows bound lead to different services.   *)
ReferencesDiffer ==
    \A j, k \in ServiceCRs :
        ServiceStatus(j) = ServiceStatus(k) /\ ServiceStatus(k) \in ServiceIds
        => j = k

(* Two references never lead to one service, which is what                 *)
(* IncidentRuleController asks of its environment.                         *)
THEOREM ReferencesLeadApart == Spec => []ReferencesDiffer
  <1>1. Inv => ReferencesDiffer
    <2>1. SUFFICES ASSUME Inv, NEW j \in ServiceCRs, NEW k \in ServiceCRs,
                          ServiceStatus(j) = ServiceStatus(k),
                          ServiceStatus(k) \in ServiceIds
                   PROVE  j = k
      BY DEF ReferencesDiffer
    <2>2. None \notin ServiceIds /\ Gone \notin ServiceIds
      BY OperatorAssumption
    <2>3. /\ SP!Cached(j).status.id = ServiceStatus(j)
          /\ SP!Cached(k).status.id = ServiceStatus(k)
      BY <2>1, <2>2, SameServiceOperators DEF ServiceStatus
    <2>4. SP!Cached(j) \in SP!Objects(j) /\ SP!Cached(k) \in SP!Objects(k)
      BY <2>1, SP!SafeVersions, ServiceAssumptions DEF Inv
    <2>5. SP!NoSharedService
      BY <2>1, SP!SafeState, ServiceAssumptions DEF Inv
    <2> QED BY <2>1, <2>2, <2>3, <2>4, <2>5 DEF SP!NoSharedService
  <1> QED BY <1>1, OperatorInvariant, PTL

(* Beside the rule controller, on a shared budget of failures, no two CRs  *)
(* manage one service, and services beyond the first still have causes.    *)
THEOREM ServicesStaySafe == Spec => [](S!NoSharedService /\ S!DuplicatesBounded)
  <1>1. Inv => S!NoSharedService /\ S!DuplicatesBounded
    <2>1. Inv => SP!NoSharedService /\ SP!DuplicatesBounded
      BY SP!SafeState, ServiceAssumptions DEF Inv
    <2>2. SP!NoSharedService => S!NoSharedService
      BY DEF SP!NoSharedService, S!NoSharedService, S!Objects, SP!Objects
    <2>3. SP!DuplicatesBounded => S!DuplicatesBounded
      <3>1. S!Fresh = SP!Fresh
        BY SameServiceOperators
      <3>2. \A w : S!Spent(w) = SP!Spent(w)
        BY DEF S!Spent, SP!Spent
      <3>3. \A T : S!Cardinality(T) = SP!Cardinality(T)
        BY DEF S!Cardinality, SP!Cardinality
      <3> QED BY <3>1, <3>2, <3>3 DEF SP!DuplicatesBounded, S!DuplicatesBounded
    <2> QED BY <2>1, <2>2, <2>3
  <1> QED BY <1>1, OperatorInvariant, PTL

(* The composition implements Binding: what the service controller         *)
(* promises alone it promises beside the rule controller.                  *)
THEOREM ServicesBindOnce == Spec => S!OwnsItsService
  <1>1. Init => S!Exclusive!Init
    <2>1. SUFFICES ASSUME Init PROVE S!Exclusive!Init
      OBVIOUS
    <2>2. sVersions = [k \in ServiceCRs |-> <<S!NoObject>>]
      BY <2>1 DEF Init, S!Init, S!RuntimeInit
    <2>3. S!NoObject.live = FALSE /\ S!NoObject.status.id = None
      BY DEF S!NoObject, S!NoStatus
    <2>4. \A k \in ServiceCRs : S!Latest(k) = S!NoObject
      <3>1. \A x : Len(<<x>>) = 1 /\ <<x>>[1] = x
        OBVIOUS
      <3>2. \A k \in ServiceCRs : sVersions[k] = <<S!NoObject>>
        BY <2>2
      <3> QED BY <3>1, <3>2 DEF S!Latest
    <2> QED BY <2>3, <2>4 DEF S!Exclusive!Init, S!Living, S!Bound
  <1>2. Inv /\ Inv' /\ [Next]_vars => [S!Exclusive!Next]_<<S!Living, S!Bound>>
    <2>1. SUFFICES ASSUME Inv, Inv', [Next]_vars
                   PROVE  [S!Exclusive!Next]_<<S!Living, S!Bound>>
      OBVIOUS
    <2>2. SP!IInv /\ SP!IInv' /\ SP!BindingStep
      BY <2>1, NextInv DEF Inv, Promises, SP!SafetyInv, SP!SafeStep
    <2>3. [SP!Exclusive!Next]_<<SP!Living, SP!Bound>>
      BY <2>2, SP!ExclusiveStep, ServiceAssumptions
    <2>4. /\ S!Living = SP!Living /\ S!Living' = SP!Living'
          /\ S!Bound = SP!Bound /\ S!Bound' = SP!Bound'
      BY DEF S!Living, SP!Living, S!Bound, SP!Bound, S!Latest, SP!Latest
    <2>5. SP!Exclusive!Next => S!Exclusive!Next
      BY <2>4 DEF S!Exclusive!Next, SP!Exclusive!Next,
                  S!Exclusive!Create, SP!Exclusive!Create,
                  S!Exclusive!Delete, SP!Exclusive!Delete,
                  S!Exclusive!Bind, SP!Exclusive!Bind
    <2> QED BY <2>3, <2>4, <2>5
  <1> QED BY <1>1, <1>2, OperatorInvariant, PTL
          DEF Spec, S!OwnsItsService, S!Exclusive!Spec

(* No run replaces the settings of a service by those of an older          *)
(* generation of its CR.                                                   *)
THEOREM NoServiceGoesBack == Spec => [][S!WritesNoOlder]_vars
  <1>1. Inv /\ [Next]_vars => [S!WritesNoOlder]_vars
    <2>1. SP!WritesNoOlder => S!WritesNoOlder
      BY DEF SP!WritesNoOlder, S!WritesNoOlder, S!Exists, SP!Exists, S!Absent, SP!Absent
    <2> QED BY <2>1, NextInv DEF Promises, SP!SafeStep
  <1> QED BY <1>1, OperatorInvariant, PTL DEF Spec

(* With real services, whose CRs are bound, deleted and created anew, no   *)
(* run on a current copy doubles a rule, and a recorded rule that still    *)
(* exists is only given up for one in another service.                     *)
THEOREM RulesStaySafe == Spec => [][R!AddsNoSecond /\ R!ReplacesElsewhere]_vars
  <1>1. RP!AddsNoSecond => R!AddsNoSecond
    BY SameRuleOperators DEF RP!AddsNoSecond, R!AddsNoSecond
  <1>2. RP!ReplacesElsewhere => R!ReplacesElsewhere
    BY SameRuleOperators DEF RP!ReplacesElsewhere, R!ReplacesElsewhere,
       RP!Apart, R!Apart, RP!Latest, R!Latest
  <1>3. Inv /\ [Next]_vars => [R!AddsNoSecond /\ R!ReplacesElsewhere]_vars
    BY <1>1, <1>2, NextInv DEF Promises, RP!Promises
  <1> QED BY <1>3, OperatorInvariant, PTL DEF Spec

=============================================================================
