------------------------- MODULE ServiceController -------------------------
(***************************************************************************)
(* OpsgenieServiceReconciler.  One Reconcile reads the CR, resolves the    *)
(* owning team, and then either fetches the service recorded in the status *)
(* and updates it if it differs, or creates a service; in both cases the   *)
(* status is written last.  Every call is a step of its own: between two   *)
(* of them users edit the CR, people work in Opsgenie, the watch delivers, *)
(* and the manager may stop.                                               *)
(*                                                                         *)
(* A service is only ever found by the id kept in status.serviceId: nothing*)
(* looks one up by name, and nothing adopts an existing one.               *)
(***************************************************************************)
EXTENDS ControllerRuntime, SpecDiff

CONSTANTS
    Names, Descs,   \* names and descriptions; None is the empty one
    Tags,           \* tags
    TeamRefs,       \* names of OpsgenieTeam CRs
    InitialTeams    \* what the cache shows of those CRs at the start

VARIABLE
    teams           \* [TeamRefs -> status.teamId in the cache, None while
                    \*  it is empty, Gone while there is no such CR]

vars == <<runtimeVars, remote, teams>>

ServiceSpec == [name : Names, desc : Descs \cup {None}, tags : Seq(Tags),
                teamId : Owners \cup {None}, teamRef : TeamRefs \cup {None}]

(* What Opsgenie holds.  gen is a history field: the generation of the CR  *)
(* whose spec the operator wrote last.                                     *)
Service == [name : Names, desc : Descs \cup {None}, tags : Seq(Tags),
            team : Owners \cup {None}, gen : Nat]

TeamStates == Owners \cup {None, Gone}

ASSUME ServiceAssumption ==
    /\ Specs \subseteq ServiceSpec
    /\ InitialTeams \in [TeamRefs -> TeamStates]
    /\ None \notin TeamRefs \cup Descs
    /\ Gone \notin Owners /\ Gone # None
    /\ \A a \in Absent : a \notin Service

-----------------------------------------------------------------------------
(* Decisions. *)

(* Gone stands for the error: no such team CR, or neither field is set.    *)
resolveTeamID(spec) ==
    IF spec.teamId # None THEN spec.teamId
    ELSE IF spec.teamRef # None THEN teams[spec.teamRef]
    ELSE Gone

(* The mutant compares the tags position by position. *)
MutantUpdateRequired(spec, existing) ==
    \/ spec.name # existing.name \/ spec.desc # existing.desc
    \/ spec.tags # existing.tags
isUpdateRequired(spec, existing) ==
    \/ spec.name # existing.name \/ spec.desc # existing.desc
    \/ ~equalStringSlices(spec.tags, existing.tags)

-----------------------------------------------------------------------------
(* Reconcile, step by step. *)

Reconcile(k) == Get(k, "resolving") /\ UNCHANGED <<remote, teams>>

(* The error is logged and dropped: Reconcile returns Result{}, nil.  One   *)
(* mutant logs it and goes on, one treats the empty id of a team that is   *)
(* not synchronised yet as the same error.                                 *)
MutantResolveSynced ==
    /\ pc = "resolving"
    /\ LET owner == resolveTeamID(cr.spec) IN
       IF owner \in {Gone, None}
       THEN ReturnDone
       ELSE /\ cr' = [cr EXCEPT !.status.owner = owner]
            /\ pc' = IF cr.status.id # None THEN "fetching" ELSE "creating"
            /\ UNCHANGED <<key, timers>>
    /\ UNCHANGED <<versions, queue, budget, remote, teams>>
MutantResolveTeam ==
    /\ pc = "resolving"
    /\ cr' = [cr EXCEPT !.status.owner = resolveTeamID(cr.spec)]
    /\ pc' = IF cr.status.id # None THEN "fetching" ELSE "creating"
    /\ UNCHANGED <<key, timers, versions, queue, budget, remote, teams>>
ResolveTeam ==
    /\ pc = "resolving"
    /\ LET owner == resolveTeamID(cr.spec) IN
       IF owner = Gone
       THEN ReturnDone
       ELSE /\ cr' = [cr EXCEPT !.status.owner = owner]
            /\ pc' = IF cr.status.id # None THEN "fetching" ELSE "creating"
            /\ UNCHANGED <<key, timers>>
    /\ UNCHANGED <<versions, queue, budget, remote, teams>>

(* A call fails and the error is returned. *)
Fail == Spend("faults") /\ ReturnRequeue

FetchService ==
    /\ pc = "fetching"
    /\ \/ /\ Exists(cr.status.id)
          /\ isUpdateRequired(cr.spec, remote[cr.status.id])
          /\ pc' = "updating"
          /\ UNCHANGED <<budget, key, cr, timers>>
       \/ /\ Exists(cr.status.id)
          /\ ~isUpdateRequired(cr.spec, remote[cr.status.id])
          /\ ReturnRequeue /\ UNCHANGED budget
       \/ ~Exists(cr.status.id) /\ ReturnRequeue /\ UNCHANGED budget
       \/ Fail
    /\ UNCHANGED <<versions, queue, remote, teams>>

(* UpdateRequest has no team: the owner of a service never changes.  The   *)
(* SDK leaves empty fields out of it, so that they keep what they hold.    *)
Patched(spec, tags, gen, old) ==
    [old EXCEPT !.name = spec.name,
                !.desc = IF spec.desc = None THEN old.desc ELSE spec.desc,
                !.tags = IF tags = <<>> THEN old.tags ELSE tags,
                !.gen = gen]

UpdateApplied ==
    \E tags \in Reorderings(cr.spec.tags) :
        Store(cr.status.id,
              Patched(cr.spec, tags, cr.gen, remote[cr.status.id]))

UpdateService ==
    /\ pc = "updating"
    /\ \/ /\ UpdateApplied
          /\ pc' = "saving"
          /\ UNCHANGED <<budget, key, cr, timers>>
       \/ ~Exists(cr.status.id) /\ ReturnRequeue /\ UNCHANGED <<remote, budget>>
       \/ Fail /\ (UpdateApplied \/ UNCHANGED remote)
    /\ UNCHANGED <<versions, queue, teams>>

CreateApplied ==
    \E tags \in Reorderings(cr.spec.tags) :
        Issue([name |-> cr.spec.name, desc |-> cr.spec.desc, tags |-> tags,
               team |-> cr.status.owner, gen |-> cr.gen])

(* Opsgenie may refuse a service without a team, and does so when the      *)
(* identifiers of the model are used up.  One mutant adopts a service that *)
(* has the right name, one forgets to record the identifier.               *)
MutantAdoptService ==
    /\ pc = "creating"
    /\ \/ \E id \in Ids : /\ Exists(id)
                          /\ remote[id].name = cr.spec.name
                          /\ cr' = [cr EXCEPT !.status.id = id]
                          /\ UNCHANGED remote
       \/ CreateApplied /\ cr' = [cr EXCEPT !.status.id = NewId]
    /\ pc' = "saving"
    /\ UNCHANGED <<versions, queue, timers, budget, key, teams>>
MutantForgetService ==
    /\ pc = "creating"
    /\ CreateApplied
    /\ pc' = "saving"
    /\ UNCHANGED <<versions, queue, timers, budget, key, cr, teams>>
CreateService ==
    /\ pc = "creating"
    /\ \/ /\ CreateApplied
          /\ cr' = [cr EXCEPT !.status.id = NewId]
          /\ pc' = "saving"
          /\ UNCHANGED <<budget, key, timers>>
       \/ /\ cr.status.owner = None \/ Fresh = {}
          /\ ReturnRequeue /\ UNCHANGED <<remote, budget>>
       \/ Fail /\ (CreateApplied \/ UNCHANGED remote)
    /\ UNCHANGED <<versions, queue, teams>>

(* Success requeues after five minutes, a conflict or a failure (whether   *)
(* or not the write was applied) after a back-off.                         *)
SaveStatus ==
    /\ pc = "saving"
    /\ \/ StoreStatus /\ UNCHANGED budget
       \/ ~StatusCurrent /\ UNCHANGED <<versions, budget>>
       \/ Spend("faults") /\ (StoreStatus \/ UNCHANGED versions)
    /\ ReturnRequeue
    /\ UNCHANGED <<queue, remote, teams>>

Worker ==
    ResolveTeam \/ FetchService \/ UpdateService \/ CreateService \/ SaveStatus

-----------------------------------------------------------------------------
(* The environment. *)

(* Somebody edits or deletes a service in Opsgenie. *)
Drift(id) ==
    /\ Spend("drift")
    /\ \E n \in Names, d \in Descs :
          /\ Exists(id)
          /\ n # remote[id].name \/ d # remote[id].desc
          /\ Store(id, [remote[id] EXCEPT !.name = n, !.desc = d])
    /\ UNCHANGED <<versions, queue, timers, pc, key, cr, teams>>

Removal(id) ==
    /\ Spend("removals")
    /\ Discard(id)
    /\ UNCHANGED <<versions, queue, timers, pc, key, cr, teams>>

(* The cache sees an OpsgenieTeam created, deleted, or given a team id by  *)
(* its own controller; or several of these at once, after a restart.       *)
TeamEvent(t) ==
    /\ Spend("references")
    /\ \E s \in TeamStates \ {teams[t]} : teams' = [teams EXCEPT ![t] = s]
    /\ UNCHANGED <<versions, queue, timers, pc, key, cr, remote>>

Init ==
    /\ RuntimeInit
    /\ remote = [id \in Ids |-> Unissued]
    /\ teams = InitialTeams

User(k) ==
    /\ (\E s \in Specs : ApplyCR(k, s)) \/ DeleteCR(k)
    /\ UNCHANGED <<remote, teams>>

Runtime(k) == (WatchEvent(k) \/ Timer(k)) /\ UNCHANGED <<remote, teams>>

Crash == Restart /\ UNCHANGED <<remote, teams>>

Next ==
    \/ \E k \in CRs : User(k) \/ Runtime(k) \/ Reconcile(k)
    \/ Worker
    \/ \E id \in Ids : Drift(id) \/ Removal(id)
    \/ \E t \in TeamRefs : TeamEvent(t)
    \/ Crash

Spec == Init /\ [][Next]_vars

(* The worker goroutine runs, the watch delivers, timers expire, and the   *)
(* work queue is first in first out, so no key waits for ever.             *)
Fairness ==
    /\ WF_vars(Worker)
    /\ \A k \in CRs : /\ SF_vars(Reconcile(k))
                      /\ WF_vars(WatchEvent(k) /\ UNCHANGED <<remote, teams>>)
                      /\ WF_vars(Timer(k) /\ UNCHANGED <<remote, teams>>)

FairSpec == Spec /\ Fairness

-----------------------------------------------------------------------------
(* Properties. *)

(* Every variable keeps its type. *)
TypeOK ==
    /\ RuntimeTypeOK
    /\ pc \in {"idle", "resolving", "fetching", "updating", "creating", "saving"}
    /\ remote \in [Ids -> Service \cup Absent]
    /\ teams \in [TeamRefs -> TeamStates]

(* No two CRs ever manage the same Opsgenie service, not even in versions  *)
(* that only the cache still shows: otherwise each would overwrite the     *)
(* other's settings at every resync.                                       *)
NoSharedService ==
    \A k1, k2 \in CRs :
        \A p \in Objects(k1), q \in Objects(k2) :
            p.status.id = q.status.id /\ p.status.id # None => k1 = k2

Spent(what) == Budget[what] - budget[what]

(* Duplicates are bounded by their causes.  The optimistic lock costs a    *)
(* service whenever an edit overtakes a Create, and the event of that edit *)
(* may start one more run that does not see the status just written; a     *)
(* failed call, a restart or a timer that is faster than the watch costs   *)
(* one.  Nothing else creates a second service.                            *)
DuplicatesBounded ==
    Fresh # Ids =>
        Cardinality(Ids \ Fresh)
            < 2 * Spent("edits")
                + Spent("faults") + Spent("crashes") + Spent("delays")

(* The controller implements Binding with services that nobody shares: as  *)
(* long as a CR exists, its service is never exchanged or forgotten, and   *)
(* no other CR gets it.  A second service that a run on a stale copy has   *)
(* created loses against the optimistic lock.                              *)
Exclusive == INSTANCE Binding WITH
                living <- Living, bound <- Bound, Shareable <- {}

OwnsItsService == Exclusive!Spec

(* What the operator writes to a service never goes back to an older       *)
(* generation of the CR, through retries, stale reads and restarts.        *)
WritesNoOlder ==
    \A id \in Ids :
        Exists(id) /\ Exists(id)' => remote[id].gen <= remote'[id].gen

NoStaleOverwrite == [][WritesNoOlder]_vars

(* The inductive invariant behind NoSharedService and OwnsItsService: ids   *)
(* in use have been issued, a run that holds an id holds no other CR's,    *)
(* and only a CR without an id leads to a Create.                          *)
BindingInv ==
    /\ \A k \in CRs : \A o \in Objects(k) :
          /\ o.status.id # None => remote[o.status.id] # Unissued
          /\ pc # "idle" /\ k # key /\ cr.status.id # None
                => o.status.id # cr.status.id
    /\ NoSharedService
    /\ cr.status.id # None => remote[cr.status.id] # Unissued
    /\ pc = "creating" => cr.status.id = None
    /\ CopyKeepsBinding

IInv == TypeOK /\ RuntimeInv /\ BindingInv

(* The inductive invariant behind NoStaleOverwrite.  Later versions of a   *)
(* bound CR are of later generations, its service is not ahead of any of   *)
(* them, and the copy of a run is between the two; the copy's identifier   *)
(* is the one it was read with, or so new that no version has it.          *)
SortedGens ==
    \A k \in CRs : \A i, j \in DOMAIN versions[k] :
        LET p == versions[k][i]
            q == versions[k][j]
        IN  i <= j /\ p.status.id # None /\ p.status.id = q.status.id
            => p.gen <= q.gen

WrittenGens ==
    \A k \in CRs : \A o \in Objects(k) :
        Exists(o.status.id) => remote[o.status.id].gen <= o.gen

CopyGens ==
    pc # "idle" =>
        /\ Exists(cr.status.id) => remote[cr.status.id].gen <= cr.gen
        /\ \A o \in Objects(key) :
              /\ o.status.id = cr.status.id /\ cr.status.id # None
                    => cr.gen <= o.gen
              /\ o.rv = cr.rv =>
                    /\ o.gen = cr.gen
                    /\ \/ o.status.id = cr.status.id
                       \/ \A p \in Objects(key) : p.status.id # cr.status.id

GenInv == SortedGens /\ WrittenGens /\ CopyGens

(* The service that CR k is bound to agrees with the CR in every field the *)
(* CR fills in, the owner team excepted, which no update carries.          *)
FilledIn(k) ==
    LET o == Latest(k) IN
    o.live =>
        /\ Exists(o.status.id)
        /\ remote[o.status.id].name = o.spec.name
        /\ o.spec.desc \in {None, remote[o.status.id].desc}
        /\ o.spec.tags # <<>> =>
              ToSet(o.spec.tags) = ToSet(remote[o.status.id].tags)

(* The CR gives an empty description, or no tags, where Opsgenie has some. *)
Cleared(k) ==
    LET o == Latest(k) IN
    /\ o.live /\ Exists(o.status.id)
    /\ \/ o.spec.desc = None /\ remote[o.status.id].desc # None
       \/ o.spec.tags = <<>> /\ remote[o.status.id].tags # <<>>

(* The recorded service was deleted in Opsgenie: every run fails on its    *)
(* id, and status.serviceId is never cleared.                              *)
Removed(k) ==
    LET o == Latest(k) IN
    o.live /\ o.status.id # None /\ remote[o.status.id] = Gone

(* The owner team cannot be resolved, or it resolves to the empty id, with *)
(* which Opsgenie creates no service.                                      *)
Ownerless(k) ==
    LET o == Latest(k) IN
    /\ o.live
    /\ \/ resolveTeamID(o.spec) = Gone
       \/ resolveTeamID(o.spec) = None /\ o.status.id = None

(* Once edits, failures and restarts stop, every CR has a service that has *)
(* the name, the description and the tags that the CR states, and keeps    *)
(* it, unless that service was deleted or the team is missing.  The empty  *)
(* id of a team that is not synchronised is no obstacle to the updates of  *)
(* a service that exists.                                                  *)
ConvergesUnlessStuck ==
    \A k \in CRs : <>[](FilledIn(k) \/ Removed(k) \/ Ownerless(k))

(* ... and the operator stops writing: a Get that follows an Update finds  *)
(* no difference, so the resync every five minutes only reads.  Only what  *)
(* a CR clears is written again and again, and a service whose team has no *)
(* id is created again and again.                                          *)
QuietUnlessCleared ==
    <>[](/\ pc = "updating" => Cleared(key)
         /\ pc = "creating" => Ownerless(key))

(* The team of CR k is known. *)
Owned(k) == Latest(k).live /\ resolveTeamID(Latest(k).spec) \in Owners

(* A service whose team is known by now is created.                        *)
UnresolvedTeamIsRetried ==
    \A k \in CRs : <>[]Owned(k) => <>(Latest(k).status.id # None)

=============================================================================
