# Formal model of opsgenie-operator

This directory holds a TLA+ model of the operator, TLC configurations that check
it on small instances, and TLAPS proofs about it for every instance. All line
numbers refer to `src/`.

- [1. The system](#1-the-system): inventory of components, state, interaction, hazards
- [2. Modules](#2-modules): what models what
- [3. The abstractions](#3-the-abstractions)
- [4. Runs](#4-runs): what TLC checks, bounds, fairness
- [5. Disagreements](#5-disagreements-between-code-and-documentation)
- [6. Proofs](#6-proofs)
- [7. Not modelled](#7-not-modelled) and [8. Plan](#8-plan)

## 1. The system

The operator is one manager process (`cmd/main.go`). It runs five controllers,
each with one worker goroutine, that bring objects in the Opsgenie service in
line with custom resources (CRs) in a Kubernetes cluster.

| component | state it keeps | operations | talks to |
|---|---|---|---|
| manager and controller runtime (`main.go`, `SetupWithManager` of each controller) | informer cache, work queue, back-off timers, all in memory | watch events through `GenerationChangedPredicate`, timers, start, stop | API server (list, watch, status writes), the reconcilers (calls) |
| OpsgenieService reconciler | `status.serviceId`, `resolvedTeamId` in the CR | resolve team, get, update, create, status write | Opsgenie, OpsgenieTeam CRs in the cache |
| OpsgenieTeam reconciler | `status.teamId` in the CR | lookup by name, import, update, update members, create, status writes | Opsgenie |
| OpsgenieSchedule reconciler | `status.scheduleId` in the CR | convert rotations, get, update, create, import after a 409, status write | Opsgenie |
| OpsgenieEscalation reconciler | `status.escalationId`, `resolvedTeamId` | resolve team and recipients, get by id or name, import, update, create | Opsgenie, team and schedule CRs in the cache |
| OpsgenieIncidentRule reconciler | `status.ruleId` | resolve service, list rules, update, create | Opsgenie, service CRs in the cache |
| pure functions | none | `equalStringSlices`, `isMembersUpdateRequired`, `convertRotations` and its helpers, `compareEscalationRules` | - |
| Opsgenie (external) | the objects, under ids it issues | create, get, update; people edit and delete in its UI | - |

The controllers share nothing but the CRs: a service reads the `teamId` in the
status of an OpsgenieTeam, an escalation those of teams and schedules, a rule that
of a service, always from the cache and without being triggered by its changes.

The hard part is that a run of `Reconcile` is a sequence of remote calls without a
transaction. Between any two of them users edit or delete the CR, people edit in
Opsgenie, the watch delivers late, the process stops; every call may fail, or be
applied while its answer is lost. The only protections are the optimistic lock of
the status write (`resourceVersion`), the retry after an error, the requeue after
five minutes, and for teams and schedules the unique names in Opsgenie.

What makes each component correct:

- runtime: no CR is forgotten that still needs a run;
- services: no CR manages another one's service, a recorded id is never
  exchanged, old generations do not overwrite new ones, duplicates are bounded by
  the events that cause them, and in the end the service has what the CR states, as
  far as an update can bring it;
- teams: the recorded id belongs to a team of the CR's name; half-done updates
  are completed; the loop settles;
- schedules: as services, over two ways to obtain an id; rotations are converted
  unambiguously, and what does not convert is not left out but stops the run;
- escalations: as schedules, with an import in the middle of a run; nothing is sent
  before every recipient is resolved; in the end an escalation
  that refers to teams or schedules notifies whom the CR names;
- incident rules: a repeated run adds no second rule, a rule follows its service,
  and is never put into a service that no CR records;
- the manager as a whole: CRs may be applied in any order, although no controller
  is woken by the CRs it refers to;
- comparisons: they ask for an update exactly when something differs, or the
  loop either misses changes or writes for ever.

`PROJECT.json` lists the hazards one by one, at the lines where they bite, with
the properties that cover them.

## 2. Modules

| module | models | lines |
|---|---|---|
| `Binding` | abstract: what an id in a CR's status promises | - |
| `OpsgenieAPI` | one kind of object in Opsgenie, external: ids never issued twice, create, update, removal | - |
| `ControllerRuntime` | API server, informer cache, event filter, queue, timers, one worker, restart; extends `OpsgenieAPI`; maps its state to `Binding` | `main.go:319-324` (start of the manager), `SetupWithManager`, heads and ends of `Reconcile` |
| `SpecDiff` | the two list comparisons | service `134-149`, team `173-190` |
| `ServiceController` | `OpsgenieServiceReconciler`; extends `ControllerRuntime`, `SpecDiff` | `opsgenieservice_controller.go:26-158` |
| `TeamController` | `OpsgenieTeamReconciler`; extends the same two | `opsgenieteam_controller.go:44-205` |
| `ScheduleController` | `OpsgenieScheduleReconciler`; extends `ControllerRuntime`, `SpecDiff` | `opsgenieschedule_controller.go:49-128, 169-208, 303-330` |
| `ScheduleConversion` | `convertRotations` and its helpers, pure | `opsgenieschedule_controller.go:130-167, 210-301` |
| `EscalationController` | `OpsgenieEscalationReconciler`, with `mapEscalationRules` and `compareEscalationRules`; extends `ControllerRuntime`, `SpecDiff` | `opsgenieescalation_controller.go:60-325` |
| `IncidentRuleController` | `OpsgenieIncidentRuleReconciler`; extends `ControllerRuntime` | `opsgenieincidentrule_controller.go:31-172` |
| `Operator` | the manager with the service and the incident rule controller, both instantiated over one cache, one Opsgenie, one budget | `main.go:228-258, 284-290, 319-324` |
| `MCService`, `MCTeam`, `MCSchedule`, `MCEscalation`, `MCIncidentRule`, `MCOperator`, `MCFunctions` | instances for TLC | - |
| `ServiceDebts` | what the service controller may still create, the invariant behind `DuplicatesBounded` | - |
| `ControllerRuntimeProofs`, one `...Proofs` module per controller, `OperatorProofs`, `FunctionProofs` | theorems, section 6 | - |

Each controller has one action per call that `Reconcile` makes; `pc` is the call it
is about to make. Correspondence for the service controller:

| action | code (`opsgenieservice_controller.go`) |
|---|---|
| `Reconcile(k)` | `r.Get` from the cache, 50-52 |
| `ResolveTeam` | 54-60 and the branch at 63 |
| `FetchService` | `OpsgenieClient.Get` and `isUpdateRequired`, 64-71 |
| `UpdateService` | `OpsgenieClient.Update`, 74-84 |
| `CreateService` | `OpsgenieClient.Create`, 98-112 |
| `SaveStatus` | `r.Status().Update` and the return, 87-94 and 112-124 |

A team run adds `LookupTeam`, `Import`, `updateTeam`, `SaveMeta`,
`updateTeamMembers`, `createTeam` and `Save`: its decisions after the import and after the first
update are taken on `existing`, the copy fetched at the start, as in the code. A
schedule run has `convertRotations`, `FetchSchedule`, `updateSchedule`,
`createSchedule`, `ImportByName`, `SaveStatus` and `SaveImport`. An escalation run has
`ResolveTeam`, `MapRules`, then `FetchById` or `FetchByName`; the latter leads to
`Import`, which writes the status and goes on with the object it got back, or to
`createEscalation`; `updateEscalation` and `SaveStatus` end it. A rule run has
`ResolveService`, `ListRules`, `UpdateIncidentRule` or `CreateIncidentRule`, and
`SaveStatus` in both cases.

`Operator` has no state of its own but a history variable: the state of each
controller is instantiated under its own names, `services` and `hosts` of the rule
controller are expressions over the service controller's state, and every step is one
of a component with the others unchanged, except a restart, which both take, and the
deletion of a service, which takes its rules along.

Names that start with `Mutant` are wrong variants of the definition that follows
them. They are used by nothing; they record which mistakes the properties catch.

## 3. The abstractions

- **CR versions.** `versions[k]` is a sequence: its head is what the cache shows, its
  last element what the API server holds, the rest is on its way. A status write
  succeeds only if the reconciler's `resourceVersion` is the last one. Version
  tokens are opaque and are used again once nobody holds them.
- **Calls to Opsgenie** are applied or refused, or they fail (a fault), and a fault
  may hit before or after the request was applied. A request is never applied
  after its call has returned.
- **Errors and requeues** both put the key into `timers`. When a timer expires is
  open: the back-off starts at five milliseconds, so nothing makes it wait for the
  watch. `budget.delays` bounds how often a timer is faster than the watch.
- **Names.** Opsgenie keeps team, schedule and escalation names unique (the schedule code
  relies on the 409, the others on lookup by name). For services the model lets two
  have one name, because nothing in the code looks one up by name; were Opsgenie to
  refuse that, a service orphaned by a lost status write would block its CR.
- **What Opsgenie refuses.** An escalation rule with a recipient that has neither id
  nor username is refused; an empty owner team may be accepted or refused. An
  empty service id has no rules and fails.
- **Updates are patches.** The SDK leaves empty fields out of the body of a request, so an
  update keeps what the CR leaves empty: description and tags of a service, members of
  a team, description and rotations of a schedule, description of an escalation (the operators
  `Patched`, `updateTeamMembers`). The code fills no team into the update of a service at all.
- **Data.** A service has a name, a description, tags and an owner team. A
  schedule has a name, a description, a time zone, an owner team and rotations; a rotation is two values,
  those `isUpdateRequired` compares (`plan`: name, type, start, length) and those it does not (`crew`:
  participants, time restrictions). `valid` says whether the rotations
  convert, which `ScheduleConversion` looks into. An escalation has a name, a description, an owner team
  and rules; condition, notify type and delay of a rule are one value (`terms`), which is sent as it is
  and compared; its recipient is a record, as it is mapped. Conditions and properties of an
  incident rule are one value that is taken to be sent whole. The strings `status.status` and
  `lastSyncedTime` follow the id and are left out; log output and events too.
- **Lists** come back from Opsgenie in any order (`Reorderings`): tags and members, which the code
  compares whatever their order, and rotations and rules, which it compares position by position.
- **Restart** drops queue, timers and the running call, and lists the newest version
  of every CR; the list is assumed not to be stale.
- **One manager** is active: `config/manager/manager.yaml:64` sets `--leader-elect`.
- **The other controllers' CRs** are changed by an environment action: `TeamEvent` in
  `ServiceController`, `ReferenceEvent` in `EscalationController`, `ServiceEvent` in
  `IncidentRuleController`. A CR appears without an id, gets one, gets another one
  after having been deleted, or goes. `Operator` replaces `ServiceEvent` by the real
  service controller. Its other side is narrower than the modules' own runs: teams are
  given by id, and people delete services but do not edit anything.
- **The two caches** that one run of the escalation controller reads (teams, schedules)
  are read at one moment: `MapRules` is one step, since it makes no remote call.
- `gen` of a remote service is a history field for `NoStaleOverwrite`, `recorded` of
  `Operator` one for `RulesInRecordedServices`: no guard reads them.

## 4. Runs

`tlc -workers 2 -config X.cfg M` runs one of them. `CHECK_DEADLOCK FALSE` everywhere: when
users are done and nothing is pending, an operator may have nothing to do.

| run | instance | shows |
|---|---|---|
| `service_safety` | 2 CRs, 4 ids; 3 edits, 1 fault, 1 restart, 1 team event; 1.66 M states | `TypeOK`, `NoSharedService`, refinement `OwnsItsService` |
| `service_live` | 1 CR, 6 ids, a spec that fills in every field and one that clears them and refers to a team without an id; 2 edits, 1 fault, restart, delay, drift, removal; 0.70 M | `DuplicatesBounded`, `DupInv`, `NoStaleOverwrite`, `ConvergesUnlessStuck`, `QuietUnlessCleared` |
| `service_team_ref` | 1 CR whose team appears later | violates `UnresolvedTeamIsRetried` |
| `team` | 1 CR, 4 ids, 2 names; 3 edits, one of everything else; 1.0 M | `TypeOK`, `NeverForgotten`, `BoundToNamesake`, `Converges`, `Quiesces` |
| `team_cleared` | 1 CR, members removed by an edit | violates `Converges` |
| `schedule` | 1 CR, 3 ids, 2 names, two rotations in some specs, a spec without a description and one that does not convert; 2 edits, one of everything else; 0.44 M | `TypeOK`, `UnboundIsScheduled`, refinement `BindsOnce`, `Binds`, `ConvergesUnlessImported`, `QuietUnlessReordered` |
| `schedule_owner` | 1 CR, an edit of the owner team | violates `OwnerTeamIsResponsible` |
| `escalation` | 1 CR, 3 ids, 2 names, one spec with two users and no description, one with a referenced schedule, a user and a referenced team; 2 edits, 1 fault, restart, drift, removal, reference event; 0.59 M | `TypeOK`, `NeverForgotten`, refinement `BindsOnce`, `BoundToNamesake`, `ConvergesUnlessStuck`, `QuietUnlessReferring` |
| `escalation_user` | 1 CR, an edit of the username | violates `RecipientsReceive` |
| `incident_rule` | 1 CR that moves between 2 services, 11 ids; 2 edits, 1 fault, restart, drift or deletion, service event; 0.29 M | `TypeOK`, `NoSecondRule`, `RuleFollowsService`, `Converges` |
| `operator` | 1 service CR, 1 rule CR; 3 edits, 1 fault, restart, delay, removal, shared by both; 0.13 M | `RulesInRecordedServices`, `ChainConverges` |
| `functions` | all pairs of lists up to 3 members; all lists of up to 2 rotations with up to 3 parts (participants, restrictions, intervals); one rotation with every end date, length and interval; 0.57 M | `TagsCompared`, `MembersCompared`, `NothingDropped`, `OneIdentity`, `IntervalsKept` |

**Why the bounds are enough.** The bounds are `Ids` (`ServiceIds`, `RuleIds`),
`MaxVersions` (versions of one CR that are cached or under way), `Budget` (edits, faults,
crashes, delays, drift, removals, references) and, for the functions, `MaxLen`,
`MaxRotations`, `MaxParts`, `MaxIntervals` and `Combined` (which numbers go with which lists); in `schedule`, `Lists`: the rotations people enter in
Opsgenie. Three edits are a creation of either CR and
one edit in the middle of a run, or create, delete and create again; one fault,
restart and delay combine with each other and with the edits. Each of these is
what starts an anomaly: the worst that was found, an edit during a Create that leaves *two*
orphans, needs one edit. Two CRs are needed for sharing and for queueing behind
each other; the kinds that find their object by name are shareable, so that one CR and
people who create objects of its name in Opsgenie (`Drift`) show the same conflicts, and
the proofs cover any number. In `incident_rule` and `escalation`, what a fast timer does, a run on a copy without the
id just recorded, is done by the event of an edit. Where a run states liveness, `Ids` is
chosen large enough, or the property says what holds when Opsgenie refuses a Create for want of an
identifier. Two rotations or rules are enough for an order of their own. Two values
per field suffice for equal and unequal. CRs are symmetric in `service_safety`:
no definition tells them apart; identifiers are not, as `NewId` chooses among them.
For the functions, lists of 3 are the shortest that hold a repeated and a different element next
to each other. Lists of rotations are built with a day, a number that is none, one hour and one length;
a single interval runs through all days and one number on each side of them, the first and the last hour and a
negative one, a single rotation through lengths of -1, 1, the largest `Word` holds and one more.
`Word` is 2^16 instead of 2^32 in the run; the proof leaves it open and only asks that it exceeds the hours of a day.

**The abstract specification.** `Binding` says that a CR starts unbound, is bound at most once,
and keeps its binding until it is deleted. The mapping is `Living` and `Bound` of
`ControllerRuntime`: existence and id in the version that the API server holds. Services
implement it exclusively (`OwnsItsService`: no object is bound to two CRs), schedules and
escalations with `Shareable <- Ids` (`BindsOnce`), because two CRs of one name import the same
object. Teams and incident rules do not implement it, and do not mean to: a team is looked up
by name at every run, so a renamed CR rebinds, and a rule follows its service. What
they promise instead are `BoundToNamesake` and `RuleFollowsService`.

**Properties worth a word.**

- `DuplicatesBounded`: a second service is created when the id of the first is not
  recorded or not seen. Per edit two are possible: the edit makes the status write
  conflict, and its event may then start a run on a cached copy that shows
  the edit but not the status just written by the retry. Each fault, restart and fast
  timer adds at most one.
- `OwnsItsService` says that such a second service never replaces the recorded one:
  the stale copy loses against the optimistic lock.
- `NeverForgotten` and `UnboundIsScheduled` say that a run in trouble always leaves a
  timer, an event under way or a queued key behind. The event filter lets no status
  write through, so a dropped error would be final.
- `BoundToNamesake` relates a lookup by name at the start of a run to the status
  write some calls later.
- `NoSecondRule`: a run whose copy is current never creates a rule beside the recorded one. A run on a
  stale copy does; the rule is an orphan, because its status write is refused.
- `RulesInRecordedServices`: while the service controller creates a service twice, the rule
  controller only sees the one whose status write succeeded.
- `ConvergesUnlessStuck` of escalations and `ChainConverges`: references that are unresolved lead to an error, and
  only the back-off brings the next run. An escalation with a recipient that is not a named user ends with
  all the recipients and the owner its CR names; for one with named users only, name, description,
  terms and types are promised, and `RecipientsReceive` is violated.
- `ConvergesUnlessStuck` of services: the id of a team that exists but is not synchronised yet is empty and counts
  as resolved. Opsgenie refuses the Create (`Ownerless`), which returns an error and so leads to another run; a team that does not
  exist ends in a dropped error (`UnresolvedTeamIsRetried`). Updates need no team.
- `Quiesces`, `QuietUnlessCleared`, `QuietUnlessReordered`, `QuietUnlessReferring`: what the operator writes, it then
  finds unchanged. Convergence alone would allow it to write at every resync. The last three name the CRs for which
  it does just that.

**Fairness.** `FairSpec` assumes weak fairness of the worker's steps (a goroutine
that runs, calls that return or time out), of the delivery of each watch event and of
each timer, and strong fairness of taking a key from the queue: the work queue is
first in first out, so a key that is queued gets its turn although other keys
keep interrupting the state in which the worker is idle. In `Operator` each
controller has this fairness for itself: it has its own worker and queue. Users, people in
Opsgenie, failures and restarts have no fairness and a finite budget: liveness is
about what happens once they stop.

## 5. Disagreements between code and documentation

Shown by the counterexample of a run (`findings` in `PROJECT.json`):

- **A service applied before its team is never created** (`service:58`): the error of
  `resolveTeamID` is logged and `Result{}, nil` is returned.
  `config/samples/kustomization.yaml` applies them in this order.
- **A team cannot be emptied** (`team:139`): an empty member list is left out of the
  request, so the team keeps its members, and every resync tries again.
- **A change of owner team, participants or time restrictions of a schedule alone is not
  sent** (`schedule:303-322`).
- **A changed username of an escalation alone is not sent** (`escalation:309`): only the id of a recipient is compared.

Disagreements that no run shows, since a property that holds names them as its exception:

- **A service keeps the tags and the description that its CR clears** (`service:74-81`): empty fields
  are left out of the request as they are for teams, and every resync tries again. `Cleared` in `QuietUnlessCleared`;
  `FilledIn` asks only for the fields that are filled in. `opsgenieservice_types.go:8` calls the spec the desired state.
- **The owner team of a service never changes** (`service:74-79`): the update carries no team and the
  comparison has none, while `status.resolvedTeamId` shows the new one (`service:60`). `FilledIn` leaves the owner out.
- **The end date of a rotation is not sent** (`schedule:156-163`), though documented
  (`opsgenieschedule_types.go:37`). `NothingDropped` makes it the one exception.
- **Days** are documented as 0 = Sunday to 6 = Saturday (`opsgenieschedule_types.go:81`) and
  implemented as 1 = Monday to 7 = Sunday (`schedule:285-301`). `IntervalsKept` states the latter.

Seen while modelling, contradicting no document, and excluded by name in the properties that hold:

- a service, schedule or escalation deleted in Opsgenie is never created again
  (`Removed` of services, `Stuck`; `service:64-67`, `escalation:90-94`), and a schedule or
  escalation renamed onto a name that is taken fails at every run (`Stuck`);
- descriptions and rotations of schedules, and descriptions of escalations, cannot be cleared
  either (`Cleared`, `Stuck`), and are rewritten at every resync;
- a service whose team has no id is tried again and again (`Ownerless`; `service:60, 98`);
- rotations and escalation rules are compared position by position (`schedule:309-322`,
  `escalation:301-325`): where Opsgenie returns them in an order of its own, they are
  rewritten at every resync (`Reordered`);
- an imported schedule keeps its old content, since the import returns without an update and
  without a requeue (`ConvergesUnlessImported`; `schedule:108`);
- `compareEscalationRules` compares the recipient's id in the CR, empty for a reference, with the
  recipient's *name* in Opsgenie (`escalation:309`): an escalation with recipients other than named
  users is rewritten at every resync (`Referring`). That is also what brings a changed
  reference, username or owner to Opsgenie; without such a recipient a changed owner team is never
  noticed, as a changed username is not (`Synced`);
- an incident rule that moves to another service leaves the old one behind (`RuleFollowsService`;
  `incidentrule:57`), and every rule is rewritten at every resync;
- `equalStringSlices` takes `[x, y]` and `[x, x]` for equal (`TagsCompared` assumes
  that Opsgenie holds no tag twice; `service:134-149`), and so it is with a user listed twice in
  a team CR (`MembersCompared` assumes none; `team:178-187`).

Further: every error of the team and of the escalation lookup leads to a Create
(`team:60`, `escalation:97`), which Opsgenie refuses when the name exists; a schedule participant of type user with only
a name is refused, though the field is documented for users (`schedule:222-229`); a team
with only a username is sent without any identification (`schedule:231-236`).

## 6. Proofs

`tlapm ServiceControllerProofs.tla`, and likewise for the other `...Proofs` modules, prove
for any sets of CRs, specs, ids, names and references, any bound and any budget, under the assumptions
`OpsgenieAssumption`, `RuntimeAssumption` and that of the controller, for the composition
`OperatorAssumption` (the distinguished
values are distinct from the others, users apply specs of the right type; TLC evaluates them in the runs):

| controller | inductive invariant | types | what follows |
|---|---|---|---|
| service | `InductiveInvariant` | `TypeCorrect` | `NoSharing`; `ImplementsBinding`: `Spec => OwnsItsService`; `NothingOlderIsWritten`: `Spec => NoStaleOverwrite`; `DuplicatesHaveCauses`: `Spec => []DuplicatesBounded` |
| team | `TeamInvariant` | `TeamTypes` | `NoTeamIsForgotten`, `TeamsAreNamesakes` |
| schedule | `ScheduleInvariant` | `ScheduleTypes` | `NoneIsLeftUnbound`; `SchedulesBindOnce`: `Spec => BindsOnce` |
| escalation | `EscalationInvariant` | `EscalationTypes` | `NoEscalationIsForgotten`, `EscalationsAreNamesakes`; `EscalationsBindOnce`: `Spec => BindsOnce` |
| incident rule | `RuleInvariant` | `RuleTypes` | `RulesAreNotDoubled`, `RulesFollowTheirService` |
| both of these in `Operator` | `OperatorInvariant` | part of it | `NoRuleInAnOrphan`: `Spec => []RulesInRecordedServices`; `ReferencesLeadApart`, `ServicesStaySafe`, `ServicesBindOnce`, `NoServiceGoesBack`, `RulesStaySafe` |
| pure functions | `Inputs`: what users write are lists of members and of rotations | `InputsTyped` | `TagsAreCompared`, `MembersAreCompared`, `NothingIsDropped`, `OneIdentitySent`, `IntervalsAreKept`: `Spec => []P` for the five properties of the run `functions` |

None of the controllers' properties is inductive. Each `IInv` conjoins

- `RuntimeInv`, what the runtime alone keeps: a resource version names one version of a CR, and a
  running reconciler works on the spec of the version whose number it holds;
- `CopyKeepsBinding`: the id in any version with the copy's resource version is the
  copy's own. With the optimistic lock it keeps a recorded id (`Binding`). For rules it is kept only until
  the run creates one, and `Apart` says of the exchanged ids what `RuleFollowsService` needs;
- what the program counter tells: a run that is about to create holds no id, a run that is about to
  write the status holds one;
- for services, that no other CR has the id a run holds, and that ids in use have been issued, so that
  a new id is in nobody's hands (`BindingInv`);
- for teams and escalations `HoldsNamesake`: what a run holds is an object of the name in its copy. Nobody renames an
  object but a run of the one worker; and the lock makes the name in the copy that of the CR;
- for the properties about forgotten CRs `Covered`, which strengthens `Scheduled`: an undelivered
  version counts only if it will pass the event filter (`Noticed`), as otherwise its
  delivery would leave nothing behind.

`NoStaleOverwrite` needs a second invariant, `GenInv`: among the versions of one CR that
are bound to one service, later ones are of later generations; the service is not ahead of any of them; and the copy of a run is
between the service and the versions. The last holds after a status write because
the copy's identifier is that of the version it was read from, or so new that no version has it.
Between a deletion and a new creation under the same name generations start again, which is why only
versions with the same identifier are compared.

`DuplicatesBounded` needs a third, `DupInv` (`ServiceDebts`, proved as `DebtsAreCovered`). The bound says
nothing about a state in which a run is about to create one more service, so the invariant also counts the
services that may still be created without any further edit, failure, restart or early timer. A CR owes the
service it is to get (`Due`), one that a run on an outdated copy is about to create (`Doomed`), one for each
outdated version without a service that a run may still read (`Lost`), and one more when a second run may see the
newest version before the status that the first writes (`Again`). A step of the controller or of the watch only moves
such a debt on or settles it: reading a copy turns a `Lost` into a `Doomed`, a Create turns a `Doomed` or a `Due` into a service,
a status write settles a `Due`. An edit adds at most two, a failed call, a restart and an early timer one each, and the first edit only
one, hence the strict inequality. `PlaceInv` says why the moves go through: resource versions are
not repeated within a CR, and the copy of a run is the oldest version that is left or older. The sum is over sets of any size, so the lemmas on cardinality
(`OneShare`, `SameIssued`) go through `FiniteSetTheorems`, and finiteness is part of the invariant.

`ControllerRuntimeProofs` has one lemma per step of the runtime: what it does to the set
of versions of a CR and to the newest one, and that `RuntimeInv`, `CopyKeepsBinding` and
`Covered` survive, and which steps of `Binding` it maps to; it knows no controller and is used by all of them.
A proof module of a controller has one lemma per action; `NextIInv` puts them together, and
the action properties fall out of the same
case analysis. The refinement theorems show that the initial state maps to `Binding!Init` and every step
to a step of `Binding` or a stutter. For services `ExclusiveStep` turns a step with
sharing into one without, since no service is shared before or after. Each `IInv` was checked by TLC before it was proved.

`OperatorProofs` composes these proofs. `SP` and `RP` instantiate the proof modules of the two controllers
over the variables of the composition, so that their lemmas apply to it once their assumptions are derived
from `OperatorAssumption`; the lemmas `Same...` say that the actions of `S` and `SP`, and of `R` and `RP`, are
the same. Every step of the composition is then a step of one controller, for which the lemmas of that
controller speak, and a step *elsewhere* for the other: its own state is untouched, but the budget may shrink,
since both spend from one, and what the rule controller sees of services may change. `ElsewhereSafe` (services) and
`ElsewhereStep` (rules) show that the invariants survive that; a restart and the
deletion of a service with its rules are steps of both.
The conjunct that joins the two is `RecordedInv`: whatever id a version of a service CR shows, and the
one a run of the rule controller has read there, has been recorded. Rules are created only in the service of
the run (`WorkerPlacesRules`), hence `NoRuleInAnOrphan`. `ReferencesLeadApart` discharges an assumption:
`ServiceEvent` of `IncidentRuleController` never lets two references lead to one service, and
real service CRs never do, by `NoSharing`.

`FunctionProofs` needs no induction over lists. The lemmas behind the theorems (`SlicesCompared`,
`UpdateIsDifference`, `RotationsConverted` and those that follow it) speak of single calls on lists of any length; the
state machine of `MCFunctions` only enumerates the arguments for TLC, and `Inputs` says which these are. A comparison that finds every element of one list in the other
picks a position for each; these positions differ because the elements do (`Distinct`, from the cardinality
of the set of elements), and an injection between the positions of lists of one length is a bijection
(`OneToOne`), hence a permutation. For members the bijection also shows that Opsgenie's list
names no user twice either, so that the map in which the last role wins loses nothing (`RoleOfOne`). The conversion treats each element
by itself, so its lemmas are case analyses of one element. `IntervalsAreKept` says of both ends of every
interval that the day sent has the ISO number of the CR's (`DaysNamed`) and an hour of the clock is the same,
and of every rotation that a length within `uint32` is the same (`CastKept`); it needs `WordAssumption`,
and that a restriction is not sent as nil needs `InputAssumption`.

Every invariant and every action property that the runs check is proved. Only model-checked is liveness, which is out of the
prover's reach: `Converges`, `ConvergesUnless...`, `ChainConverges`, `Binds`, `Quiesces` and
the three `QuietUnless...`.

## 7. Not modelled

- Metrics, webhook and health servers, certificate watchers, flags and TLS in `main.go`: start-up code of
  libraries; no webhook is registered.
- Generated deep copies, CRD manifests, RBAC: no behaviour. Generated code is a quarter of
  the lines under `src/api` and `src/internal`.
- The tests under `internal/controller` and `test/e2e`: scaffolding that asserts that
  `Reconcile` returns no error.
- Teams, schedules and escalations inside `Operator`: what they share with other controllers is the
  id in a cached status, and `TeamEvent` and `ReferenceEvent` let that change in every way the
  controllers can change it, and in more.
- Two managers at a time; compression of watch events when an informer reconnects; time itself, so neither the
  five minutes nor the growth of the back-off; Opsgenie applying a request after
  its call has timed out; renames of objects by people in Opsgenie.

## 8. Plan

Done: the runtime, the five controllers, the pure functions, the abstract specification and the
refinements, the composition of services and rules, and the safety proofs of the
controllers, of the composition and of the functions. What could still be added: `Operator` with teams,
so that the chain team, service, rule is resolved by three real controllers.
