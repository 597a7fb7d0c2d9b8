--------------------------- MODULE TeamController ---------------------------
(***************************************************************************)
(* OpsgenieTeamReconciler.  Unlike the other kinds, a team is looked up by *)
(* its NAME at every run, and adopted when it is there: status.teamId only *)
(* follows.  Name and description are updated by one call and the members  *)
(* by another, each with a status write of its own, and both are decided   *)
(* on the one copy of the team that was fetched at the start of the run.   *)
(***************************************************************************)
EXTENDS ControllerRuntime, SpecDiff

CONSTANTS
    Names,          \* names of teams
    Descs,          \* descriptions; None is the empty one
    Users, Roles,
    Rosters         \* bound: the member lists people enter in Opsgenie

VARIABLE
    existing        \* existingTeam of the running Reconcile, None outside

vars == <<runtimeVars, remote, existing>>

Members == Seq([user : Users, role : Roles])

TeamSpec == [name : Names, desc : Descs \cup {None}, members : Members]

(* What Opsgenie holds has the same fields. *)
Team == TeamSpec

Fetched == [id : Ids, team : Team]

ASSUME TeamAssumption ==
    /\ Specs \subseteq TeamSpec
    /\ Rosters \subseteq Members
    /\ None \notin Names /\ None \notin Descs
    /\ \A a \in Absent : a \notin Team
    /\ None \notin Fetched

-----------------------------------------------------------------------------
(* Opsgenie keeps one team of a name, and refuses a second.                *)
Named(n) == {id \in Ids : Exists(id) /\ remote[id].name = n}

(* The SDK sends an update without its empty fields, which the reconciler  *)
(* relies on: updateTeam sends no members, updateTeamMembers nothing else. *)
Patched(req, old) ==
    [name    |-> IF req.name = None THEN old.name ELSE req.name,
     desc    |-> IF req.desc = None THEN old.desc ELSE req.desc,
     members |-> IF req.members = <<>> THEN old.members ELSE req.members]

isUpdateRequired(spec, team) ==
    spec.name # team.name \/ spec.desc # team.desc

-----------------------------------------------------------------------------
(* Reconcile, step by step. *)

Reconcile(k) == Get(k, "lookup") /\ UNCHANGED <<remote, existing>>

(* Where the run goes on after the metadata, and after the import.  The    *)
(* mutant returns when the metadata is up to date.                         *)
AfterMeta(team) ==
    IF isMembersUpdateRequired(cr.spec.members, team.members)
    THEN "updatingMembers" ELSE "done"

MutantAfterImport(team) ==
    IF isUpdateRequired(cr.spec, team) THEN "updating" ELSE "done"
AfterImport(team) ==
    IF isUpdateRequired(cr.spec, team) THEN "updating" ELSE AfterMeta(team)

Fail == Spend("faults") /\ ReturnRequeue /\ existing' = None

(* Any error of the lookup counts as "there is no such team". *)
LookupTeam ==
    /\ pc = "lookup"
    /\ \/ \E id \in Named(cr.spec.name) :
             LET step == IF cr.status.id # id THEN "importing"
                         ELSE AfterImport(remote[id])
             IN  /\ IF step = "done"
                    THEN ReturnRequeue /\ UNCHANGED existing
                    ELSE /\ existing' = [id |-> id, team |-> remote[id]]
                         /\ cr' = [cr EXCEPT !.status.id = id]
                         /\ pc' = step
                         /\ UNCHANGED <<key, timers>>
                 /\ UNCHANGED budget
       \/ /\ \/ Named(cr.spec.name) = {} /\ UNCHANGED budget
             \/ Spend("faults")
          /\ pc' = "creating"
          /\ UNCHANGED <<key, timers, cr, existing>>
    /\ UNCHANGED <<versions, queue, remote>>

(* A status write in the middle of a run.  The stored object comes back    *)
(* with its new resourceVersion, and the run goes on at step.              *)
SaveAndGoOn(step) ==
    /\ \/ /\ StoreStatus
          /\ IF step = "done"
             THEN ReturnRequeue /\ existing' = None
             ELSE /\ pc' = step
                  /\ cr' = [cr EXCEPT !.rv = NextVersion(key)]
                  /\ UNCHANGED <<key, timers, existing>>
          /\ UNCHANGED budget
       \/ ~StatusCurrent /\ ReturnRequeue /\ existing' = None
          /\ UNCHANGED <<versions, budget>>
       \/ Fail /\ (StoreStatus \/ UNCHANGED versions)
    /\ UNCHANGED <<queue, remote>>

Import == pc = "importing" /\ SaveAndGoOn(AfterImport(existing.team))

SaveMeta == pc = "savingMeta" /\ SaveAndGoOn(AfterMeta(existing.team))

Save == pc = "saving" /\ SaveAndGoOn("done")

(* One Update call.  It is refused for a team that is gone, or if another *)
(* team has the name.                                                      *)
UpdateRefused(req) ==
    \/ ~Exists(existing.id)
    \/ ~(Named(req.name) \subseteq {existing.id})

(* The mutant sends the empty fields too. *)
MutantUpdateApplied(req) == ~UpdateRefused(req) /\ Store(existing.id, req)
UpdateApplied(req) ==
    /\ ~UpdateRefused(req)
    /\ Store(existing.id, Patched(req, remote[existing.id]))

UpdateCall(req, next) ==
    /\ \/ /\ UpdateApplied(req)
          /\ pc' = next
          /\ UNCHANGED <<budget, key, timers, cr, existing>>
       \/ /\ UpdateRefused(req)
          /\ ReturnRequeue /\ existing' = None
          /\ UNCHANGED <<budget, remote>>
       \/ Fail /\ (UpdateApplied(req) \/ UNCHANGED remote)
    /\ UNCHANGED <<versions, queue>>

updateTeam ==
    /\ pc = "updating"
    /\ UpdateCall([name |-> cr.spec.name, desc |-> cr.spec.desc,
                   members |-> <<>>], "savingMeta")

updateTeamMembers ==
    /\ pc = "updatingMembers"
    /\ \E members \in Reorderings(cr.spec.members) :
          UpdateCall([name |-> None, desc |-> None, members |-> members],
                     "saving")

CreateApplied ==
    /\ Named(cr.spec.name) = {}
    /\ \E members \in Reorderings(cr.spec.members) :
          Issue([cr.spec EXCEPT !.members = members])

createTeam ==
    /\ pc = "creating"
    /\ \/ /\ CreateApplied
          /\ cr' = [cr EXCEPT !.status.id = NewId]
          /\ pc' = "saving"
          /\ UNCHANGED <<budget, key, timers, existing>>
       \/ /\ Named(cr.spec.name) # {} \/ Fresh = {}
          /\ ReturnRequeue /\ UNCHANGED <<budget, remote, existing>>
       \/ Fail /\ (CreateApplied \/ UNCHANGED remote)
    /\ UNCHANGED <<versions, queue>>

Worker ==
    \/ LookupTeam \/ Import \/ updateTeam \/ SaveMeta \/ updateTeamMembers
    \/ createTeam \/ Save

-----------------------------------------------------------------------------
(* The environment. *)

(* People working in Opsgenie edit a team or create one; they do not       *)
(* rename teams.                                                           *)
Drift ==
    /\ Spend("drift")
    /\ \E d \in Descs, r \in Rosters :
          \/ \E id \in Ids :
                /\ Exists(id)
                /\ remote[id].desc # d \/ remote[id].members # r
                /\ Store(id, [remote[id] EXCEPT !.desc = d, !.members = r])
          \/ \E n \in Names :
                /\ Named(n) = {}
                /\ Issue([name |-> n, desc |-> d, members |-> r])
    /\ UNCHANGED <<versions, queue, timers, pc, key, cr, existing>>

Removal(id) ==
    /\ Spend("removals")
    /\ Discard(id)
    /\ UNCHANGED <<versions, queue, timers, pc, key, cr, existing>>

Init ==
    /\ RuntimeInit
    /\ remote = [id \in Ids |-> Unissued]
    /\ existing = None

User(k) ==
    /\ (\E s \in Specs : ApplyCR(k, s)) \/ DeleteCR(k)
    /\ UNCHANGED <<remote, existing>>

Runtime(k) == (WatchEvent(k) \/ Timer(k)) /\ UNCHANGED <<remote, existing>>

Crash == Restart /\ existing' = None /\ UNCHANGED remote

Next ==
    \/ \E k \in CRs : User(k) \/ Runtime(k) \/ Reconcile(k)
    \/ Worker
    \/ Drift \/ \E id \in Ids : Removal(id)
    \/ Crash

Spec == Init /\ [][Next]_vars

(* As for services: the worker and the watch run, timers expire, and the   *)
(* queue is first in first out.                                            *)
Fairness ==
    /\ WF_vars(Worker)
    /\ \A k \in CRs : /\ SF_vars(Reconcile(k))
                      /\ WF_vars(WatchEvent(k) /\ UNCHANGED <<remote, existing>>)
                      /\ WF_vars(Timer(k) /\ UNCHANGED <<remote, existing>>)

FairSpec == Spec /\ Fairness

-----------------------------------------------------------------------------
(* Properties. *)

(* Every variable keeps its type, and the fetched copy of a team is held   *)
(* exactly while the run may still update that team.                       *)
TypeOK ==
    /\ RuntimeTypeOK
    /\ pc \in {"idle", "lookup", "importing", "updating", "savingMeta",
               "updatingMembers", "creating", "saving"}
    /\ remote \in [Ids -> Team \cup Absent]
    /\ existing \in Fetched \cup {None}
    /\ pc \in {"idle", "lookup", "creating"} => existing = None

(* No existing CR is ever forgotten: whatever happens to a run, something  *)
(* will start another one, or the run is still going on.                   *)
NeverForgotten == \A k \in CRs : Latest(k).live => Scheduled(k)

(* Whenever the team id recorded in a CR changes, it becomes the id of a   *)
(* team that has the name the CR asks for at that moment, although the     *)
(* lookup or the creation happened some steps, and maybe a rename of the   *)
(* CR, earlier.                                                            *)
RecordsNamesake ==
    \A k \in CRs :
        LET now == Latest(k)'.status.id IN
        now # Latest(k).status.id /\ Exists(now)
        => remote[now].name = Latest(k)'.spec.name

BoundToNamesake == [][RecordsNamesake]_vars

(* The inductive invariant behind the three: from the moment a run knows   *)
(* the id of its team, that team is the one it has fetched, is there or    *)
(* was deleted, and keeps the name the run's copy of the CR asks for.      *)
HoldsNamesake ==
    /\ cr.status.id \in Ids
    /\ \/ remote[cr.status.id] = Gone
       \/ /\ Exists(cr.status.id)
          /\ remote[cr.status.id].name = cr.spec.name
    /\ existing # None => existing.id = cr.status.id

IInv ==
    /\ TypeOK /\ RuntimeInv
    /\ pc \notin {"idle", "lookup", "creating"} => HoldsNamesake
    /\ pc \in {"importing", "updating", "savingMeta", "updatingMembers"}
          => existing # None
    /\ \A k \in CRs : Latest(k).live => Covered(k)

(* The team that CR k is bound to is what the CR asks for. *)
Synced(k) ==
    LET o == Latest(k) IN
    o.live => /\ Exists(o.status.id)
              /\ remote[o.status.id].name = o.spec.name
              /\ remote[o.status.id].desc = o.spec.desc
              /\ ToSet(remote[o.status.id].members) = ToSet(o.spec.members)

(* Once edits, failures and restarts stop, the team of the CR exists and   *)
(* agrees with it for good, also after it was edited or deleted in         *)
(* Opsgenie, found there or half updated.                                  *)
Converges == \A k \in CRs : <>[]Synced(k)

(* ... and the operator stops writing: the resync every five minutes only  *)
(* reads.                                                                  *)
Quiesces == <>[](pc \in {"idle", "lookup"})

=============================================================================
