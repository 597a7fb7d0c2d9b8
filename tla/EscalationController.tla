------------------------ MODULE EscalationController ------------------------
(***************************************************************************)
(* OpsgenieEscalationReconciler.  One Reconcile resolves the owning team   *)
(* and the recipients of all rules, reading other CRs from the cache, then *)
(* finds the escalation by the id kept in the status or, without one, by   *)
(* its name, adopts it, and updates it if it differs; or it creates one.   *)
(* Every error ends the run and is returned.                               *)
(*                                                                         *)
(* What is sent are the resolved recipients, but what is compared are the  *)
(* ids written in the CR with the NAMES that Opsgenie answers.             *)
(***************************************************************************)
EXTENDS ControllerRuntime, SpecDiff

CONSTANTS
    Names, Descs,   \* names and descriptions; None is the empty one
    Terms,          \* condition, notify type and delay of a rule
    People,         \* usernames
    Refs,           \* names of OpsgenieTeam and OpsgenieSchedule CRs
    InitialRefs,    \* what the cache shows of those CRs at the start
    NameOf          \* [Owners -> the name Opsgenie has for that team or schedule]

VARIABLES
    refs,           \* [Refs -> the id in the status of the cached CR, None while
                    \*  it is empty, Gone while there is no such CR]
    locals          \* local variables of the running Reconcile, None before
                    \*  they are set: the mapped recipients, and whether the
                    \*  fetched escalation differs

vars == <<runtimeVars, remote, refs, locals>>

Types == {"user", "team", "schedule"}

(* A rule with the fields of its recipient. *)
OpsgenieEscalationRule ==
    [terms : Terms, type : Types, id : Owners \cup {None}, username : People \cup {None},
     teamRef : Refs \cup {None}, scheduleRef : Refs \cup {None}]

EscalationSpec ==
    [name : Names, desc : Descs \cup {None}, rules : Seq(OpsgenieEscalationRule),
     teamId : Owners \cup {None}, teamRef : Refs \cup {None}]

(* A rule as it is sent, and an escalation as Opsgenie keeps it.           *)
RuleRequest ==
    [terms : Terms, type : Types, id : Owners \cup {None},
     username : People \cup {None}]

Escalation == [name : Names, desc : Descs \cup {None}, rules : Seq(RuleRequest),
               owner : Owners \cup {None}]

RefStates == Owners \cup {None, Gone}

ASSUME EscalationAssumption ==
    /\ Specs \subseteq EscalationSpec
    /\ InitialRefs \in [Refs -> RefStates]
    /\ None \notin Refs \cup People \cup Descs
    /\ None \notin Seq(RuleRequest)
    /\ Gone \notin Owners /\ Gone # None
    /\ \A a \in Absent : a \notin Escalation

-----------------------------------------------------------------------------
(* Decisions. *)

(* Gone stands for the error: no such CR, or neither field is set. *)
resolveTeamID(spec) ==
    IF spec.teamId # None THEN spec.teamId
    ELSE IF spec.teamRef # None THEN refs[spec.teamRef]
    ELSE Gone

(* The id of a recipient: as given, or that of the CR it refers to; None   *)
(* for a user who is named, Gone for the error.                            *)
resolveRecipientID(r) ==
    IF r.id # None THEN r.id
    ELSE IF r.type = "user" /\ r.username # None THEN None
    ELSE IF r.teamRef # None THEN refs[r.teamRef]
    ELSE IF r.scheduleRef # None THEN refs[r.scheduleRef]
    ELSE Gone

Mapped(r) ==
    [terms |-> r.terms, type |-> r.type, id |-> resolveRecipientID(r),
     username |-> IF r.id = None /\ r.type = "user" THEN r.username ELSE None]

mapEscalationRules(spec) == [i \in DOMAIN spec.rules |-> Mapped(spec.rules[i])]

(* The mutant ignores the error. *)
MutantMappingFailed(rules) == FALSE
MappingFailed(rules) == \E i \in DOMAIN rules : rules[i].id = Gone

(* Opsgenie answers with the name of a team or schedule; a user has none.  *)
AnsweredName(p) ==
    IF p.type = "user" \/ p.id = None THEN None ELSE NameOf[p.id]

(* Position by position.  The mutant compares the username as well. *)
MutantCompareEscalationRules(rules, existing) ==
    /\ Len(rules) = Len(existing)
    /\ \A i \in DOMAIN rules :
          /\ rules[i].terms = existing[i].terms
          /\ rules[i].type = existing[i].type
          /\ rules[i].username = AnsweredName(existing[i])
compareEscalationRules(rules, existing) ==
    /\ Len(rules) = Len(existing)
    /\ \A i \in DOMAIN rules :
          /\ rules[i].terms = existing[i].terms
          /\ rules[i].type = existing[i].type
          /\ rules[i].id = AnsweredName(existing[i])

(* The mutant leaves the rules out. *)
MutantUpdateRequired(spec, existing) ==
    spec.name # existing.name \/ spec.desc # existing.desc
isUpdateRequired(spec, existing) ==
    \/ spec.name # existing.name \/ spec.desc # existing.desc
    \/ ~compareEscalationRules(spec.rules, existing.rules)

-----------------------------------------------------------------------------
(* Reconcile, step by step. *)

NoLocals == [rules |-> None, update |-> FALSE]

Reconcile(k) == Get(k, "resolving") /\ UNCHANGED <<remote, refs, locals>>

Requeue == ReturnRequeue /\ locals' = NoLocals

Fail == Spend("faults") /\ Requeue

ResolveTeam ==
    /\ pc = "resolving"
    /\ LET owner == resolveTeamID(cr.spec) IN
       IF owner = Gone
       THEN Requeue
       ELSE /\ cr' = [cr EXCEPT !.status.owner = owner]
            /\ pc' = "mapping"
            /\ UNCHANGED <<key, timers, locals>>
    /\ UNCHANGED <<versions, queue, budget, remote, refs>>

(* The cached CRs are read at one moment. *)
MapRules ==
    /\ pc = "mapping"
    /\ LET rules == mapEscalationRules(cr.spec) IN
       IF MappingFailed(rules)
       THEN Requeue
       ELSE /\ locals' = [locals EXCEPT !.rules = rules]
            /\ pc' = IF cr.status.id # None THEN "fetching" ELSE "looking"
            /\ UNCHANGED <<key, timers, cr>>
    /\ UNCHANGED <<versions, queue, budget, remote, refs>>

FetchById ==
    /\ pc = "fetching"
    /\ \/ /\ Exists(cr.status.id)
          /\ isUpdateRequired(cr.spec, remote[cr.status.id])
          /\ pc' = "updating"
          /\ UNCHANGED <<budget, key, cr, timers, locals>>
       \/ /\ Exists(cr.status.id) =>
                ~isUpdateRequired(cr.spec, remote[cr.status.id])
          /\ Requeue /\ UNCHANGED budget
       \/ Fail
    /\ UNCHANGED <<versions, queue, remote, refs>>

Named(n) == {id \in Ids : Exists(id) /\ remote[id].name = n}

(* Any error of the lookup counts as "there is none". *)
FetchByName ==
    /\ pc = "looking"
    /\ \/ \E id \in Named(cr.spec.name) :
             /\ cr' = [cr EXCEPT !.status.id = id]
             /\ locals' = [locals EXCEPT
                              !.update = isUpdateRequired(cr.spec, remote[id])]
             /\ pc' = "importing"
             /\ UNCHANGED budget
       \/ /\ \/ Named(cr.spec.name) = {} /\ UNCHANGED budget
             \/ Spend("faults")
          /\ pc' = "creating"
          /\ UNCHANGED <<cr, locals>>
    /\ UNCHANGED <<key, timers, versions, queue, remote, refs>>

(* The import writes the status and goes on with the object as stored. *)
Import ==
    /\ pc = "importing"
    /\ \/ /\ StoreStatus /\ UNCHANGED budget
          /\ IF locals.update
             THEN /\ pc' = "updating"
                  /\ cr' = [cr EXCEPT !.rv = NextVersion(key)]
                  /\ UNCHANGED <<key, timers, locals>>
             ELSE Requeue
       \/ ~StatusCurrent /\ Requeue /\ UNCHANGED <<versions, budget>>
       \/ Fail /\ (StoreStatus \/ UNCHANGED versions)
    /\ UNCHANGED <<queue, remote, refs>>

(* What a request carries; Opsgenie keeps the rules in an order of its     *)
(* own.  It takes no rule without a recipient and no name twice; an empty  *)
(* owner it may refuse.                                                    *)
Request(rules) ==
    [name |-> cr.spec.name, desc |-> cr.spec.desc, rules |-> rules,
     owner |-> cr.status.owner]

(* The SDK leaves the empty fields out of an update. *)
Patched(req, old) ==
    [name |-> req.name,
     desc |-> IF req.desc = None THEN old.desc ELSE req.desc,
     rules |-> IF req.rules = <<>> THEN old.rules ELSE req.rules,
     owner |-> IF req.owner = None THEN old.owner ELSE req.owner]

Blank(p) == p.id = None /\ p.username = None

Refused ==
    \/ \E i \in DOMAIN locals.rules : Blank(locals.rules[i])
    \/ ~(Named(cr.spec.name) \subseteq {cr.status.id})

UpdateApplied ==
    /\ ~Refused
    /\ \E rules \in Reorderings(locals.rules) :
          Store(cr.status.id, Patched(Request(rules), remote[cr.status.id]))

updateEscalation ==
    /\ pc = "updating"
    /\ \/ /\ UpdateApplied
          /\ pc' = "saving"
          /\ UNCHANGED <<budget, key, cr, timers, locals>>
       \/ /\ Refused \/ ~Exists(cr.status.id) \/ cr.status.owner = None
          /\ Requeue /\ UNCHANGED <<budget, remote>>
       \/ Fail /\ (UpdateApplied \/ UNCHANGED remote)
    /\ UNCHANGED <<versions, queue, refs>>

CreateApplied ==
    ~Refused /\ \E rules \in Reorderings(locals.rules) : Issue(Request(rules))

createEscalation ==
    /\ pc = "creating"
    /\ \/ /\ CreateApplied
          /\ cr' = [cr EXCEPT !.status.id = NewId]
          /\ pc' = "saving"
          /\ UNCHANGED <<budget, key, timers, locals>>
       \/ /\ Refused \/ Fresh = {} \/ cr.status.owner = None
          /\ Requeue /\ UNCHANGED <<budget, remote>>
       \/ Fail /\ (CreateApplied \/ UNCHANGED remote)
    /\ UNCHANGED <<versions, queue, refs>>

SaveStatus ==
    /\ pc = "saving"
    /\ \/ StoreStatus /\ UNCHANGED budget
       \/ ~StatusCurrent /\ UNCHANGED <<versions, budget>>
       \/ Spend("faults") /\ (StoreStatus \/ UNCHANGED versions)
    /\ Requeue
    /\ UNCHANGED <<queue, remote, refs>>

Worker ==
    \/ ResolveTeam \/ MapRules \/ FetchById \/ FetchByName \/ Import
    \/ updateEscalation \/ createEscalation \/ SaveStatus

-----------------------------------------------------------------------------
(* The environment. *)

(* People working in Opsgenie edit an escalation or create one. *)
Drift ==
    /\ Spend("drift")
    /\ \E d \in Descs :
          \/ \E id \in Ids :
                /\ Exists(id) /\ remote[id].desc # d
                /\ Store(id, [remote[id] EXCEPT !.desc = d])
          \/ \E n \in Names :
                /\ Named(n) = {}
                /\ Issue([name |-> n, desc |-> d, rules |-> <<>>, owner |-> None])
    /\ UNCHANGED <<versions, queue, timers, pc, key, cr, refs, locals>>

Removal(id) ==
    /\ Spend("removals")
    /\ Discard(id)
    /\ UNCHANGED <<versions, queue, timers, pc, key, cr, refs, locals>>

(* The cache sees a referenced CR created, deleted, or bound by its own    *)
(* controller; or several of these at once, after a restart.               *)
ReferenceEvent(r) ==
    /\ Spend("references")
    /\ \E s \in RefStates \ {refs[r]} : refs' = [refs EXCEPT ![r] = s]
    /\ UNCHANGED <<versions, queue, timers, pc, key, cr, remote, locals>>

Init ==
    /\ RuntimeInit
    /\ remote = [id \in Ids |-> Unissued]
    /\ refs = InitialRefs
    /\ locals = NoLocals

User(k) ==
    /\ (\E s \in Specs : ApplyCR(k, s)) \/ DeleteCR(k)
    /\ UNCHANGED <<remote, refs, locals>>

Runtime(k) ==
    (WatchEvent(k) \/ Timer(k)) /\ UNCHANGED <<remote, refs, locals>>

Crash == Restart /\ locals' = NoLocals /\ UNCHANGED <<remote, refs>>

Next ==
    \/ \E k \in CRs : User(k) \/ Runtime(k) \/ Reconcile(k)
    \/ Worker
    \/ Drift \/ \E id \in Ids : Removal(id)
    \/ \E r \in Refs : ReferenceEvent(r)
    \/ Crash

Spec == Init /\ [][Next]_vars

(* As for the other kinds. *)
Fairness ==
    /\ WF_vars(Worker)
    /\ \A k \in CRs :
          /\ SF_vars(Reconcile(k))
          /\ WF_vars(WatchEvent(k) /\ UNCHANGED <<remote, refs, locals>>)
          /\ WF_vars(Timer(k) /\ UNCHANGED <<remote, refs, locals>>)

FairSpec == Spec /\ Fairness

-----------------------------------------------------------------------------
(* Properties. *)

(* Every variable keeps its type, and a run that may send rules has        *)
(* resolved all their recipients.                                          *)
TypeOK ==
    /\ RuntimeTypeOK
    /\ pc \in {"idle", "resolving", "mapping", "fetching", "looking",
               "importing", "updating", "creating", "saving"}
    /\ remote \in [Ids -> Escalation \cup Absent]
    /\ refs \in [Refs -> RefStates]
    /\ locals \in [rules : Seq(RuleRequest) \cup {None}, update : BOOLEAN]
    /\ pc \notin {"idle", "resolving", "mapping"} => locals.rules # None

(* No existing CR is ever forgotten, although it may refer to CRs that do  *)
(* not exist yet and whose events do not start a run.                      *)
NeverForgotten == \A k \in CRs : Latest(k).live => Scheduled(k)

(* Whenever an id is recorded in a CR, it is that of an escalation that    *)
(* has the name the CR asks for at that moment, although it was found or   *)
(* created some steps, and maybe a rename of the CR, earlier.              *)
RecordsNamesake ==
    \A k \in CRs :
        LET now == Latest(k)'.status.id IN
        now # Latest(k).status.id /\ Exists(now)
        => remote[now].name = Latest(k)'.spec.name

BoundToNamesake == [][RecordsNamesake]_vars

(* The controller implements Binding with shareable escalations.  After    *)
(* an import the run goes on, and may write the status a second time.      *)
BindsOnce == Sharing!Spec

(* A run about to write the status holds the id of an escalation that has  *)
(* the name its copy of the CR asks for, or was deleted meanwhile.         *)
HoldsNamesake ==
    /\ cr.status.id \in Ids
    /\ \/ remote[cr.status.id] = Gone
       \/ /\ Exists(cr.status.id)
          /\ remote[cr.status.id].name = cr.spec.name

(* The inductive invariant behind these: only a CR without an id leads to  *)
(* a lookup by name or a Create, only a run that knows an id writes the    *)
(* status, and whatever a run does, its CR stays covered.                  *)
IInv ==
    /\ TypeOK /\ RuntimeInv /\ CopyKeepsBinding
    /\ pc \in {"looking", "creating"} => cr.status.id = None
    /\ pc \in {"fetching", "importing", "updating", "saving"}
          => cr.status.id # None
    /\ pc \in {"importing", "saving"} => HoldsNamesake
    /\ \A k \in CRs : Latest(k).live => Covered(k)

(* All that the spec of CR k refers to is known by now. *)
Resolvable(k) ==
    LET spec == Latest(k).spec IN
    /\ Latest(k).live
    /\ resolveTeamID(spec) \in Owners
    /\ \A i \in DOMAIN spec.rules :
          LET p == Mapped(spec.rules[i]) IN p.id # Gone /\ ~Blank(p)

(* Some recipient is a team or schedule, or is given by its id: no id is   *)
(* equal to a name, so that every run sends such an escalation again.      *)
Referring(k) ==
    \E i \in DOMAIN Latest(k).spec.rules :
        LET r == Latest(k).spec.rules[i] IN r.type # "user" \/ r.id # None

SameTerms(kept, r) == kept.terms = r.terms /\ kept.type = r.type

(* The rule that is kept notifies whom the rule r of a CR names now.       *)
Notifies(kept, r) == kept.id = Mapped(r).id /\ kept.username = Mapped(r).username

(* The escalation of CR k has its name and description and rules of the    *)
(* same terms and types, in any order; and if it has recipients other than *)
(* named users, also all its recipients and its owner team.                *)
Synced(k) ==
    LET o == Latest(k)
        e == remote[o.status.id]
    IN  /\ Exists(o.status.id)
        /\ e.name = o.spec.name /\ e.desc = o.spec.desc
        /\ Len(e.rules) = Len(o.spec.rules)
        /\ \E rules \in Reorderings(e.rules) :
              /\ \A i \in DOMAIN rules :
                    /\ SameTerms(rules[i], o.spec.rules[i])
                    /\ Referring(k) => Notifies(rules[i], o.spec.rules[i])
        /\ Referring(k) => e.owner = resolveTeamID(o.spec)

(* Three ways in which a CR can get stuck: its escalation was deleted in   *)
(* Opsgenie, another one has the name the CR was given later, or the CR    *)
(* gives no description where Opsgenie has one.                            *)
Stuck(k) ==
    LET o == Latest(k) IN
    /\ o.status.id # None
    /\ \/ ~Exists(o.status.id)
       \/ ~(Named(o.spec.name) \subseteq {o.status.id})
       \/ o.spec.desc = None /\ remote[o.status.id].desc # None

(* Once users, failures and the CRs referred to come to rest, an           *)
(* escalation whose references can be resolved exists and agrees with its  *)
(* CR, unless it is stuck: in whom it notifies and who owns it, if it      *)
(* refers to a team or a schedule.  Nothing starts a run when a reference  *)
(* gets its id: errors and the resync must do it.                          *)
ConvergesUnlessStuck ==
    \A k \in CRs : <>[]Resolvable(k) => <>[](Synced(k) \/ Stuck(k))

(* Opsgenie has the rules of the CR in another order. *)
Reordered(k) ==
    LET o == Latest(k)
        e == remote[o.status.id]
    IN  /\ Synced(k)
        /\ \E i \in DOMAIN e.rules : ~SameTerms(e.rules[i], o.spec.rules[i])

(* In the end the operator only reads at every resync, unless Opsgenie     *)
(* refuses what it writes, or the escalation is stuck, or it refers to a   *)
(* team or a schedule, or its rules come back in an order of their own.    *)
QuietUnlessReferring ==
    <>[](pc \in {"importing", "updating", "creating", "saving"} =>
            \/ ~Resolvable(key) \/ Stuck(key)
            \/ Referring(key) \/ Reordered(key))

(* opsgenieescalation_types.go:47: "OpsgenieEscalationRecipient defines    *)
(* who receives the escalation", named users as well.                      *)
RecipientsReceive ==
    \A k \in CRs :
        LET o == Latest(k)
            e == remote[o.status.id]
        IN  <>[]Resolvable(k) =>
                <>[](\/ Stuck(k)
                     \/ /\ Exists(o.status.id) /\ Len(e.rules) = Len(o.spec.rules)
                        /\ \E rules \in Reorderings(e.rules) :
                              \A i \in DOMAIN rules : Notifies(rules[i], o.spec.rules[i]))

=============================================================================
