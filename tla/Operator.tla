------------------------------ MODULE Operator ------------------------------
(***************************************************************************)
(* The manager process with two of its controllers: that of services, and  *)
(* that of incident rules, which finds the service of a rule through the   *)
(* status of an OpsgenieService CR in the informer cache they share.  Each *)
(* controller has its own worker and work queue; they run side by side,    *)
(* meet only in the cache and in Opsgenie, and stop together.  The teams   *)
(* of the services are given by id.                                        *)
(***************************************************************************)
EXTENDS Naturals, Sequences

CONSTANTS
    ServiceCRs, RuleCRs,        \* names of the CRs of both kinds
    ServiceSpecs, RuleSpecs,    \* the specs users may apply
    ServiceIds, RuleIds,        \* identifiers Opsgenie may issue
    Names, Descs, Tags, Owners, Contents,
    RVs, MaxVersions, Budget,
    None, Unissued, Gone

VARIABLES
    sVersions, sQueue, sTimers, sPc, sKey, sCr, sRemote,
    rVersions, rQueue, rTimers, rPc, rKey, rCr, rRemote, serviceID,
    budget,         \* shared: the environment acts on both
    recorded        \* history: service ids the API server ever held

serviceLocal == <<sVersions, sQueue, sTimers, sPc, sKey, sCr>>

serviceVars == <<serviceLocal, sRemote>>

ruleLocal == <<rVersions, rQueue, rTimers, rPc, rKey, rCr, serviceID>>

ruleVars == <<ruleLocal, rRemote>>

vars == <<serviceVars, ruleVars, budget, recorded>>

S == INSTANCE ServiceController WITH
        CRs <- ServiceCRs, Specs <- ServiceSpecs, Ids <- ServiceIds,
        TeamRefs <- {}, InitialTeams <- <<>>, teams <- <<>>,
        versions <- sVersions, queue <- sQueue, timers <- sTimers,
        pc <- sPc, key <- sKey, cr <- sCr, remote <- sRemote

(* What r.Get of a service CR yields.  It is a copy of the cached object;  *)
(* the mutant hands out the object that the service reconciler works on.   *)
MutantServiceStatus(k) ==
    IF sKey = k THEN sCr.status.id
    ELSE IF S!Cached(k).live THEN S!Cached(k).status.id ELSE Gone
ServiceStatus(k) ==
    IF S!Cached(k).live THEN S!Cached(k).status.id ELSE Gone

R == INSTANCE IncidentRuleController WITH
        CRs <- RuleCRs, Specs <- RuleSpecs, Ids <- RuleIds,
        versions <- rVersions, queue <- rQueue, timers <- rTimers,
        pc <- rPc, key <- rKey, cr <- rCr, remote <- rRemote,
        ServiceRefs <- ServiceCRs,
        services <- [k \in ServiceCRs |-> ServiceStatus(k)],
        InitialServices <- [k \in ServiceCRs |-> Gone],
        hosts <- {s \in ServiceIds : sRemote[s] # Gone}

(* What both controllers assume of their constants.                        *)
ASSUME OperatorAssumption ==
    /\ None \notin ServiceCRs \cup RuleCRs \cup ServiceIds \cup RuleIds
    /\ None \notin Owners \cup RVs \cup Descs
    /\ None \notin ServiceSpecs \cup RuleSpecs
    /\ Gone \notin ServiceIds \cup Owners
    /\ Gone # None /\ Gone # Unissued
    /\ MaxVersions \in Nat \ {0}
    /\ Budget \in [S!Expenses -> Nat]
    /\ ServiceSpecs \subseteq S!ServiceSpec
    /\ RuleSpecs \subseteq R!IncidentRuleSpec
    /\ \A a \in {Unissued, Gone} : a \notin S!Service /\ a \notin R!IncidentRule

-----------------------------------------------------------------------------

Init == S!Init /\ R!Init /\ recorded = {}

Record ==
    recorded' =
        recorded \cup ({S!Latest(k)'.status.id : k \in ServiceCRs} \ {None})

OfServices(A) == A /\ UNCHANGED ruleVars /\ Record

OfRules(A) == UNCHANGED <<serviceVars, recorded>> /\ A

User ==
    \/ \E k \in ServiceCRs : OfServices(S!User(k))
    \/ \E k \in RuleCRs : OfRules(R!User(k))

(* A service that is deleted in Opsgenie takes its rules along.  What      *)
(* people change there that the controllers do not share is left to their  *)
(* own modules.                                                            *)
ServiceRemoval(s) ==
    /\ S!Removal(s)
    /\ R!RulesLost(s)
    /\ UNCHANGED <<ruleLocal, recorded>>

Crash ==
    /\ S!Crash
    /\ R!Restart /\ serviceID' = None /\ UNCHANGED rRemote
    /\ UNCHANGED recorded

Next ==
    \/ User \/ Crash \/ \E s \in ServiceIds : ServiceRemoval(s)
    \/ \E k \in ServiceCRs : OfServices(S!Runtime(k) \/ S!Reconcile(k))
    \/ \E k \in RuleCRs : OfRules(R!Watch(k) \/ R!Expire(k) \/ R!Reconcile(k))
    \/ OfServices(S!Worker)
    \/ OfRules(R!Worker)

Spec == Init /\ [][Next]_vars

(* Each controller is scheduled as it is alone; neither can block the      *)
(* other.                                                                  *)
Fairness ==
    /\ WF_vars(OfServices(S!Worker))
    /\ WF_vars(OfRules(R!Worker))
    /\ \A k \in ServiceCRs :
          /\ SF_vars(OfServices(S!Reconcile(k)))
          /\ WF_vars(OfServices(S!WatchEvent(k) /\ UNCHANGED sRemote))
          /\ WF_vars(OfServices(S!Timer(k) /\ UNCHANGED sRemote))
    /\ \A k \in RuleCRs :
          /\ SF_vars(OfRules(R!Reconcile(k)))
          /\ WF_vars(OfRules(R!Watch(k)))
          /\ WF_vars(OfRules(R!Expire(k)))

FairSpec == Spec /\ Fairness

-----------------------------------------------------------------------------
(* Properties. *)

(* No rule is ever put into a service that no CR has recorded: a service   *)
(* that was created twice because a status write was lost stays empty.     *)
RulesInRecordedServices ==
    \A id \in RuleIds : R!Exists(id) => rRemote[id].service \in recorded

(* The service CR that rule CR k refers to. *)
Reference(k) == R!Latest(k).spec.serviceRef

(* Both CRs exist, and the service was not deleted in Opsgenie. *)
Wanted(k) ==
    /\ R!Latest(k).live
    /\ Reference(k) \in ServiceCRs /\ S!Latest(Reference(k)).live
    /\ ~S!Removed(Reference(k))

(* Users may apply a rule before its service, and nothing starts a run of  *)
(* the rule when the service is bound: all the same, once users and        *)
(* failures come to rest the rule is in the service that its service CR    *)
(* records.                                                                *)
ChainConverges ==
    \A k \in RuleCRs :
        <>[]Wanted(k) =>
            <>[](/\ R!Synced(k)
                 /\ rRemote[R!Latest(k).status.id].service
                        = S!Latest(Reference(k)).status.id)

=============================================================================
