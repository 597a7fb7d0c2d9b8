------------------------- MODULE ScheduleController -------------------------
(***************************************************************************)
(* OpsgenieScheduleReconciler.  A schedule is found by the id kept in      *)
(* status.scheduleId.  A CR without one first tries to create, and only    *)
(* when Opsgenie answers that the name is taken (409) does it look the     *)
(* schedule up by name and import its id, as it is: the content is left to *)
(* a later run, and the import does not ask for one.                       *)
(***************************************************************************)
EXTENDS ControllerRuntime, SpecDiff

CONSTANTS
    Names,          \* names of schedules
    Descs, Zones,   \* descriptions, None is the empty one; time zones
    Plans,          \* name, type, start and length of a rotation
    Crews,          \* its participants and time restrictions
    Lists           \* bound: the rotations people enter in Opsgenie

vars == <<runtimeVars, remote>>

Rotations == Seq([plan : Plans, crew : Crews])

(* OwnerTeam is the name of the team that owns the schedule. *)
Schedule == [name : Names, desc : Descs \cup {None}, zone : Zones,
             owner : Owners, rotations : Rotations]

(* valid: convertRotations accepts the rotations. *)
ScheduleSpec ==
    [name : Names, desc : Descs \cup {None}, zone : Zones,
     owner : Owners, rotations : Rotations, valid : BOOLEAN]

ASSUME ScheduleAssumption ==
    /\ Specs \subseteq ScheduleSpec
    /\ Lists \subseteq Rotations
    /\ None \notin Descs
    /\ \A a \in Absent : a \notin Schedule

-----------------------------------------------------------------------------
(* Opsgenie keeps one schedule of a name. *)
Named(n) == {id \in Ids : Exists(id) /\ remote[id].name = n}

(* What a request carries of a spec.  Opsgenie keeps the rotations in an   *)
(* order of its own.  The mutant sends rotations that do not convert along.*)
MutantRequest(spec, rotations) == [spec EXCEPT !.rotations = rotations]
Request(spec, rotations) ==
    [name |-> spec.name, desc |-> spec.desc, zone |-> spec.zone,
     owner |-> spec.owner, rotations |-> rotations]

(* The SDK leaves the empty fields out of an update.                       *)
Patched(req, old) ==
    [name |-> req.name,
     desc |-> IF req.desc = None THEN old.desc ELSE req.desc,
     zone |-> req.zone, owner |-> req.owner,
     rotations |->
        IF req.rotations = <<>> THEN old.rotations ELSE req.rotations]

(* Position by position, and without the participants and restrictions.    *)
areRotationsSame(existing, new) ==
    /\ Len(existing) = Len(new)
    /\ \A i \in DOMAIN existing : existing[i].plan = new[i].plan

(* One mutant also compares what Opsgenie returns in another form, one     *)
(* forgets the time zone.                                                  *)
MutantUpdateRequired(spec, existing) == TRUE
MutantUpdateSkipped(spec, existing) ==
    \/ spec.desc # existing.desc
    \/ ~areRotationsSame(existing.rotations, spec.rotations)
isUpdateRequired(spec, existing) ==
    \/ spec.desc # existing.desc
    \/ spec.zone # existing.zone
    \/ ~areRotationsSame(existing.rotations, spec.rotations)

-----------------------------------------------------------------------------
(* Reconcile, step by step. *)

Reconcile(k) == Get(k, "converting") /\ UNCHANGED remote

Fail == Spend("faults") /\ ReturnRequeue

convertRotations ==
    /\ pc = "converting"
    /\ IF cr.spec.valid
       THEN /\ pc' = IF cr.status.id # None THEN "fetching" ELSE "creating"
            /\ UNCHANGED <<timers, key, cr>>
       ELSE ReturnRequeue
    /\ UNCHANGED <<versions, queue, budget, remote>>

FetchSchedule ==
    /\ pc = "fetching"
    /\ \/ /\ Exists(cr.status.id)
          /\ isUpdateRequired(cr.spec, remote[cr.status.id])
          /\ pc' = "updating"
          /\ UNCHANGED <<budget, timers, key, cr>>
       \/ /\ Exists(cr.status.id) =>
                ~isUpdateRequired(cr.spec, remote[cr.status.id])
          /\ ReturnRequeue /\ UNCHANGED budget
       \/ Fail
    /\ UNCHANGED <<versions, queue, remote>>

(* Update is refused for a schedule that is gone, or if another one has    *)
(* the name.                                                               *)
UpdateRefused ==
    \/ ~Exists(cr.status.id)
    \/ ~(Named(cr.spec.name) \subseteq {cr.status.id})

UpdateApplied ==
    /\ ~UpdateRefused
    /\ \E r \in Reorderings(cr.spec.rotations) :
          Store(cr.status.id,
                Patched(Request(cr.spec, r), remote[cr.status.id]))

updateSchedule ==
    /\ pc = "updating"
    /\ \/ /\ UpdateApplied
          /\ pc' = "saving"
          /\ UNCHANGED <<budget, timers, key, cr>>
       \/ UpdateRefused /\ ReturnRequeue /\ UNCHANGED <<remote, budget>>
       \/ Fail /\ (UpdateApplied \/ UNCHANGED remote)
    /\ UNCHANGED <<versions, queue>>

CreateApplied ==
    /\ Named(cr.spec.name) = {}
    /\ \E r \in Reorderings(cr.spec.rotations) : Issue(Request(cr.spec, r))

(* Three answers: created, taken (409), or another error. *)
createSchedule ==
    /\ pc = "creating"
    /\ \/ /\ CreateApplied
          /\ cr' = [cr EXCEPT !.status.id = NewId]
          /\ pc' = "saving"
          /\ UNCHANGED <<budget, timers, key>>
       \/ /\ Named(cr.spec.name) # {}
          /\ pc' = "importing"
          /\ UNCHANGED <<budget, timers, key, cr, remote>>
       \/ /\ Named(cr.spec.name) = {} /\ Fresh = {}
          /\ ReturnRequeue /\ UNCHANGED <<budget, remote>>
       \/ Fail /\ (CreateApplied \/ UNCHANGED remote)
    /\ UNCHANGED <<versions, queue>>

ImportByName ==
    /\ pc = "importing"
    /\ \/ /\ \E id \in Named(cr.spec.name) : cr' = [cr EXCEPT !.status.id = id]
          /\ pc' = "savingImport"
          /\ UNCHANGED <<budget, timers, key>>
       \/ Named(cr.spec.name) = {} /\ ReturnRequeue /\ UNCHANGED budget
       \/ Fail
    /\ UNCHANGED <<versions, queue, remote>>

(* A status write that is refused or fails ends the run with an error. *)
SaveFails ==
    /\ \/ ~StatusCurrent /\ UNCHANGED <<versions, budget>>
       \/ Spend("faults") /\ (StoreStatus \/ UNCHANGED versions)
    /\ ReturnRequeue

SaveStatus ==
    /\ pc = "saving"
    /\ \/ StoreStatus /\ ReturnRequeue /\ UNCHANGED budget
       \/ SaveFails
    /\ UNCHANGED <<queue, remote>>

(* return ctrl.Result{}, nil: the imported schedule is not looked at again *)
(* until the CR is edited or the manager starts again.                     *)
SaveImport ==
    /\ pc = "savingImport"
    /\ \/ StoreStatus /\ ReturnDone /\ UNCHANGED budget
       \/ SaveFails
    /\ UNCHANGED <<queue, remote>>

Worker ==
    \/ convertRotations \/ FetchSchedule \/ updateSchedule
    \/ createSchedule \/ ImportByName \/ SaveStatus \/ SaveImport

-----------------------------------------------------------------------------
(* The environment. *)

(* People working in Opsgenie edit a schedule or create one. *)
Drift ==
    /\ Spend("drift")
    /\ \E d \in Descs, r \in Lists :
          \/ \E id \in Ids :
                /\ Exists(id)
                /\ remote[id].desc # d \/ remote[id].rotations # r
                /\ Store(id, [remote[id] EXCEPT !.desc = d, !.rotations = r])
          \/ \E n \in Names, z \in Zones, o \in Owners :
                /\ Named(n) = {}
                /\ Issue([name |-> n, desc |-> d, zone |-> z, owner |-> o,
                          rotations |-> r])
    /\ UNCHANGED <<versions, queue, timers, pc, key, cr>>

Removal(id) ==
    /\ Spend("removals")
    /\ Discard(id)
    /\ UNCHANGED <<versions, queue, timers, pc, key, cr>>

Init ==
    /\ RuntimeInit
    /\ remote = [id \in Ids |-> Unissued]

User(k) ==
    /\ (\E s \in Specs : ApplyCR(k, s)) \/ DeleteCR(k)
    /\ UNCHANGED remote

Runtime(k) == (WatchEvent(k) \/ Timer(k)) /\ UNCHANGED remote

Crash == Restart /\ UNCHANGED remote

Next ==
    \/ \E k \in CRs : User(k) \/ Runtime(k) \/ Reconcile(k)
    \/ Worker
    \/ Drift \/ \E id \in Ids : Removal(id)
    \/ Crash

Spec == Init /\ [][Next]_vars

Fairness ==
    /\ WF_vars(Worker)
    /\ \A k \in CRs : /\ SF_vars(Reconcile(k))
                      /\ WF_vars(WatchEvent(k) /\ UNCHANGED remote)
                      /\ WF_vars(Timer(k) /\ UNCHANGED remote)

FairSpec == Spec /\ Fairness

-----------------------------------------------------------------------------
(* Properties. *)

(* Every variable keeps its type. *)
TypeOK ==
    /\ RuntimeTypeOK
    /\ pc \in {"idle", "converting", "fetching", "updating", "creating",
               "importing", "saving", "savingImport"}
    /\ remote \in [Ids -> Schedule \cup Absent]

(* The controller implements Binding with shareable schedules: as long as  *)
(* a CR exists, its schedule is never exchanged or forgotten, although     *)
(* creation and import both write it, and both may work on a stale copy.   *)
BindsOnce == Sharing!Spec

(* A CR leaves the work queue for good only when it is bound: until then   *)
(* every run ends in another one, after refused names, lost answers,       *)
(* rotations that do not convert, and conflicts.                           *)
UnboundIsScheduled ==
    \A k \in CRs :
        Latest(k).live /\ Latest(k).status.id = None => Scheduled(k)

(* The inductive invariant behind the three: only a CR without an id leads *)
(* to a Create or an import, only a run that knows an id writes the status,*)
(* and an unbound CR is covered by something that will not be dropped.     *)
IInv ==
    /\ TypeOK /\ RuntimeInv /\ CopyKeepsBinding
    /\ pc \in {"creating", "importing"} => cr.status.id = None
    /\ pc \in {"fetching", "updating", "saving", "savingImport"}
          => cr.status.id # None
    /\ \A k \in CRs :
          Latest(k).live /\ Latest(k).status.id = None => Covered(k)

(* A CR that could be brought into Opsgenie: it exists, its rotations      *)
(* convert.                                                                *)
Feasible(k) == Latest(k).live /\ Latest(k).spec.valid

(* The schedule of CR k agrees with it in the fields that are compared and *)
(* that the CR fills in, whatever the order of the rotations.              *)
FilledIn(k) ==
    LET o == Latest(k) IN
    /\ Exists(o.status.id)
    /\ o.spec.desc \in {None, remote[o.status.id].desc}
    /\ o.spec.zone = remote[o.status.id].zone
    /\ o.spec.rotations # <<>> =>
          \E r \in Reorderings(o.spec.rotations) :
              areRotationsSame(remote[o.status.id].rotations, r)

(* The CR gives no description, or no rotations, where Opsgenie has some.  *)
Cleared(k) ==
    LET o == Latest(k) IN
    /\ o.live /\ Exists(o.status.id)
    /\ \/ o.spec.desc = None /\ remote[o.status.id].desc # None
       \/ o.spec.rotations = <<>> /\ remote[o.status.id].rotations # <<>>

(* Opsgenie has the rotations of the CR in another order.                  *)
Reordered(k) ==
    LET o == Latest(k) IN
    /\ o.live /\ FilledIn(k) /\ ~Cleared(k)
    /\ ~areRotationsSame(remote[o.status.id].rotations, o.spec.rotations)

(* Two ways in which a CR can get stuck: its schedule was deleted in       *)
(* Opsgenie, or another one has the name the CR was given later.           *)
Stuck(k) ==
    LET o == Latest(k) IN
    /\ o.live /\ o.status.id # None
    /\ ~Exists(o.status.id) \/ ~(Named(o.spec.name) \subseteq {o.status.id})

(* Once edits, failures and restarts stop, every CR that can be is bound,  *)
(* whoever had created a schedule of its name before.                      *)
Binds == \A k \in CRs : <>[](Feasible(k) => Latest(k).status.id # None)

(* The schedule of a CR that was never imported agrees with it in the end, *)
(* unless the CR is stuck.                                                 *)
ConvergesUnlessImported ==
    \A k \in CRs : \/ <>[](Feasible(k) => FilledIn(k) \/ Stuck(k))
                   \/ <>(pc = "savingImport" /\ key = k)

(* In the end the operator only reads at every resync, unless Opsgenie     *)
(* refuses what it writes, the CR clears a field, which no update can, or  *)
(* Opsgenie returns several rotations in an order of its own.              *)
QuietUnlessReordered ==
    <>[](pc \in {"updating", "creating"} =>
            Stuck(key) \/ Cleared(key) \/ Reordered(key))

(* opsgenieschedule_types.go:22: "OwnerTeam is the team responsible for    *)
(* the schedule" (and of one that was not imported).                       *)
OwnerTeamIsResponsible ==
    \A k \in CRs :
        \/ <>[](LET o == Latest(k) IN
                o.live => /\ Exists(o.status.id)
                          /\ remote[o.status.id].owner = o.spec.owner)
        \/ <>(pc = "savingImport" /\ key = k)

=============================================================================
