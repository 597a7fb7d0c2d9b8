----------------------- MODULE IncidentRuleController -----------------------
(***************************************************************************)
(* OpsgenieIncidentRuleReconciler.  A rule lives inside an Opsgenie        *)
(* service, which the CR names by its OpsgenieService CR.  One Reconcile   *)
(* resolves the service, lists its rules, and updates the rule recorded in *)
(* the status if it is among them, or creates one; the status is written   *)
(* in both cases.  Nothing is compared: every resync writes the rule.      *)
(* A rule is only looked for in the service the CR refers to now.          *)
(***************************************************************************)
EXTENDS ControllerRuntime, Functions

CONSTANTS
    Contents,       \* values of conditions, match type and properties
    ServiceRefs,    \* names of OpsgenieService CRs
    ServiceIds,     \* identifiers of Opsgenie services
    InitialServices \* what the cache shows of those CRs at the start

VARIABLES
    services,       \* [ServiceRefs -> status.serviceId of the cached CR, None
                    \*  while it is empty, Gone while there is no such CR]
    hosts,          \* identifiers of services not deleted in Opsgenie
    serviceID       \* local variable of the running Reconcile

outside == <<services, hosts>>

vars == <<runtimeVars, remote, outside, serviceID>>

IncidentRuleSpec ==
    [serviceRef : ServiceRefs \cup {None}, content : Contents]

IncidentRule == [service : ServiceIds, content : Contents]

ServiceStates == ServiceIds \cup {None, Gone}

ASSUME IncidentRuleAssumption ==
    /\ Specs \subseteq IncidentRuleSpec
    /\ InitialServices \in [ServiceRefs -> ServiceStates]
    /\ None \notin ServiceRefs \cup ServiceIds /\ Gone \notin ServiceIds
    /\ Gone # None
    /\ \A a \in Absent : a \notin IncidentRule

-----------------------------------------------------------------------------
(* Reconcile, step by step. *)

(* Gone stands for the error: no such CR, or no serviceRef.                *)
resolveServiceID(spec) ==
    IF spec.serviceRef # None THEN services[spec.serviceRef] ELSE Gone

(* What a request carries: mapConditions and mapIncidentProperties.        *)
Content == [service |-> serviceID, content |-> cr.spec.content]

(* The mutant returns no error and asks for no other run. *)
MutantRequeue == ReturnDone /\ serviceID' = None
Requeue == ReturnRequeue /\ serviceID' = None

Fail == Spend("faults") /\ Requeue

Reconcile(k) == Get(k, "resolving") /\ UNCHANGED <<remote, outside, serviceID>>

(* A service CR without an id yet gives the empty string, and no error.    *)
(* The mutant ignores the error.                                           *)
MutantResolveService ==
    /\ pc = "resolving"
    /\ serviceID' = resolveServiceID(cr.spec) /\ pc' = "listing"
    /\ UNCHANGED <<versions, queue, timers, budget, key, cr, remote, outside>>
ResolveService ==
    /\ pc = "resolving"
    /\ LET id == resolveServiceID(cr.spec) IN
       IF id = Gone
       THEN Requeue
       ELSE serviceID' = id /\ pc' = "listing" /\ UNCHANGED <<key, cr, timers>>
    /\ UNCHANGED <<versions, queue, budget, remote, outside>>

RulesOf(s) == {id \in Ids : Exists(id) /\ remote[id].service = s}

(* The mutant looks for the rule by what it says. *)
MutantListed(id) ==
    id \in RulesOf(serviceID) /\ remote[id].content = cr.spec.content
Listed(id) == id \in RulesOf(serviceID)

(* GetIncidentRules fails on an empty id and on a service that is gone.    *)
ListRules ==
    /\ pc = "listing"
    /\ \/ /\ serviceID \in hosts
          /\ pc' = IF cr.status.id # None /\ Listed(cr.status.id)
                   THEN "updating" ELSE "creating"
          /\ UNCHANGED <<budget, key, cr, timers, serviceID>>
       \/ serviceID \notin hosts /\ Requeue /\ UNCHANGED budget
       \/ Fail
    /\ UNCHANGED <<versions, queue, remote, outside>>

UpdateApplied ==
    Listed(cr.status.id) /\ Store(cr.status.id, Content)

UpdateIncidentRule ==
    /\ pc = "updating"
    /\ \/ /\ UpdateApplied
          /\ pc' = "saving"
          /\ UNCHANGED <<budget, key, cr, timers, serviceID>>
       \/ ~Listed(cr.status.id) /\ Requeue /\ UNCHANGED <<budget, remote>>
       \/ Fail /\ (UpdateApplied \/ UNCHANGED remote)
    /\ UNCHANGED <<versions, queue, outside>>

CreateApplied == serviceID \in hosts /\ Issue(Content)

CreateIncidentRule ==
    /\ pc = "creating"
    /\ \/ /\ CreateApplied
          /\ cr' = [cr EXCEPT !.status.id = NewId]
          /\ pc' = "saving"
          /\ UNCHANGED <<budget, key, timers, serviceID>>
       \/ /\ serviceID \notin hosts \/ Fresh = {}
          /\ Requeue /\ UNCHANGED <<budget, remote>>
       \/ Fail /\ (CreateApplied \/ UNCHANGED remote)
    /\ UNCHANGED <<versions, queue, outside>>

SaveStatus ==
    /\ pc = "saving"
    /\ \/ StoreStatus /\ UNCHANGED budget
       \/ ~StatusCurrent /\ UNCHANGED <<versions, budget>>
       \/ Spend("faults") /\ (StoreStatus \/ UNCHANGED versions)
    /\ Requeue
    /\ UNCHANGED <<queue, remote, outside>>

Worker ==
    \/ ResolveService \/ ListRules \/ UpdateIncidentRule
    \/ CreateIncidentRule \/ SaveStatus

-----------------------------------------------------------------------------
(* The environment. *)

inside == <<versions, queue, timers, pc, key, cr, serviceID>>

(* People edit or delete a rule in Opsgenie. *)
Drift(id) ==
    /\ Spend("drift")
    /\ \E c \in Contents :
          /\ Exists(id) /\ remote[id].content # c
          /\ Store(id, [remote[id] EXCEPT !.content = c])
    /\ UNCHANGED <<inside, outside>>

Removal(id) ==
    /\ Spend("drift")
    /\ Discard(id)
    /\ UNCHANGED <<inside, outside>>

(* A service takes its rules along when it is deleted.                     *)
RulesLost(s) ==
    remote' = [id \in Ids |-> IF id \in RulesOf(s) THEN Gone ELSE remote[id]]

ServiceRemoval(s) ==
    /\ Spend("drift")
    /\ s \in hosts /\ hosts' = hosts \ {s}
    /\ RulesLost(s)
    /\ UNCHANGED <<inside, services>>

(* The cache sees a service CR created, bound by its controller, deleted,  *)
(* or created anew.  Two CRs never record the same service.                *)
ServiceEvent(r) ==
    /\ Spend("references")
    /\ \E s \in ServiceStates \ {services[r]} :
          /\ s \in ServiceIds => s \notin Range(services)
          /\ services' = [services EXCEPT ![r] = s]
    /\ UNCHANGED <<inside, remote, hosts>>

Init ==
    /\ RuntimeInit
    /\ remote = [id \in Ids |-> Unissued]
    /\ services = InitialServices
    /\ hosts = ServiceIds
    /\ serviceID = None

User(k) ==
    /\ (\E s \in Specs : ApplyCR(k, s)) \/ DeleteCR(k)
    /\ UNCHANGED <<remote, outside, serviceID>>

Watch(k) == WatchEvent(k) /\ UNCHANGED <<remote, outside, serviceID>>

Expire(k) == Timer(k) /\ UNCHANGED <<remote, outside, serviceID>>

Crash == Restart /\ serviceID' = None /\ UNCHANGED <<remote, outside>>

Next ==
    \/ \E k \in CRs : User(k) \/ Watch(k) \/ Expire(k) \/ Reconcile(k)
    \/ Worker
    \/ \E id \in Ids : Drift(id) \/ Removal(id)
    \/ \E s \in ServiceIds : ServiceRemoval(s)
    \/ \E r \in ServiceRefs : ServiceEvent(r)
    \/ Crash

Spec == Init /\ [][Next]_vars

(* As for the other kinds. *)
Fairness ==
    /\ WF_vars(Worker)
    /\ \A k \in CRs :
          SF_vars(Reconcile(k)) /\ WF_vars(Watch(k)) /\ WF_vars(Expire(k))

FairSpec == Spec /\ Fairness

-----------------------------------------------------------------------------
(* Properties. *)

(* Every variable keeps its type. *)
TypeOK ==
    /\ RuntimeTypeOK
    /\ pc \in {"idle", "resolving", "listing", "updating", "creating", "saving"}
    /\ remote \in [Ids -> IncidentRule \cup Absent]
    /\ services \in [ServiceRefs -> ServiceStates]
    /\ hosts \subseteq ServiceIds
    /\ serviceID \in ServiceIds \cup {None}

(* A run whose copy of the CR is up to date never adds a second rule to a  *)
(* service: it finds the first one there, however often it is repeated.    *)
AddsNoSecond ==
    \A id \in Ids :
        /\ remote[id] = Unissued /\ remote'[id] # Unissued
        /\ StatusCurrent
        => Latest(key).status.id \notin RulesOf(remote'[id].service)

NoSecondRule == [][AddsNoSecond]_vars

(* Not two rules of one service that exist. *)
Apart(old, new) ==
    Exists(old) /\ Exists(new) => remote[old].service # remote[new].service

(* A rule recorded in a CR is replaced only when it was deleted or the CR  *)
(* refers to another service; the old rule, if any, stays where it is.     *)
ReplacesElsewhere ==
    \A k \in CRs :
        LET old == Latest(k).status.id
            new == Latest(k)'.status.id
        IN  old # new /\ Latest(k).live /\ Latest(k)'.live => Apart(old, new)

RuleFollowsService == [][ReplacesElsewhere]_vars

(* The inductive invariant behind these: a run keeps the id of its CR      *)
(* until it creates a rule, creates one only when that id is not in the    *)
(* service, and what it saves then is no second rule of that service.      *)
IInv ==
    /\ TypeOK /\ RuntimeInv
    /\ pc # "saving" => CopyKeepsBinding
    /\ pc = "creating" => cr.status.id \notin RulesOf(serviceID)
    /\ pc = "saving" =>
          \A o \in Objects(key) :
              o.rv = cr.rv /\ o.status.id # cr.status.id
              => Apart(o.status.id, cr.status.id)

(* The service CR that CR k names exists and is bound. *)
Resolvable(k) ==
    Latest(k).live /\ resolveServiceID(Latest(k).spec) \in hosts

Synced(k) ==
    LET o == Latest(k) IN
    /\ Exists(o.status.id)
    /\ remote[o.status.id] = [service |-> resolveServiceID(o.spec),
                              content |-> o.spec.content]

(* Whatever failed, drifted or was deleted: a rule whose service can be    *)
(* found ends up in that service with the content of its CR.  The service  *)
(* CR starts no run of the rule's, so a retry must find the id.            *)
Converges == \A k \in CRs : <>[]Resolvable(k) => <>[]Synced(k)

=============================================================================
