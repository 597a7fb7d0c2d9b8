------------------------- MODULE ControllerRuntime -------------------------
(***************************************************************************)
(* What every reconciler of the operator stands on: the custom resources   *)
(* (CRs) of one kind in the Kubernetes API server, the informer cache that *)
(* r.Get reads, the event filter and work queue that SetupWithManager      *)
(* installs, the one worker that controller-runtime runs for a controller, *)
(* and the manager process, which may stop at any moment and start again.  *)
(*                                                                         *)
(* versions[k] holds the versions of CR k that matter: its head is what    *)
(* the informer cache shows, its last element what the API server holds,   *)
(* and what lies between has been written but not delivered by the watch.  *)
(***************************************************************************)
EXTENDS Naturals, Sequences, OpsgenieAPI

CONSTANTS
    CRs,            \* names of custom resources of this kind
    Specs,          \* the specs users may apply
    RVs,            \* resourceVersion tokens; opaque, only compared
    Owners,         \* values of status.resolvedTeamId
    MaxVersions,    \* bound: cached version + undelivered versions of one CR
    Budget          \* bound: how often each environment step may occur

Expenses ==
    {"edits", "faults", "crashes", "delays", "drift", "removals", "references"}

ASSUME RuntimeAssumption ==
    /\ None \notin CRs /\ None \notin Specs
    /\ None \notin Owners /\ None \notin RVs
    /\ MaxVersions \in Nat \ {0}
    /\ Budget \in [Expenses -> Nat]

VARIABLES
    versions,       \* [CRs -> non-empty sequence of Object]
    queue,          \* keys in the work queue
    timers,         \* keys waiting for a RequeueAfter or a back-off to expire
    budget,         \* what is left of Budget
    pc,             \* where the worker is inside Reconcile; "idle" outside
    key,            \* req.NamespacedName of the running Reconcile
    cr              \* the reconciler's copy of the CR, status fields edited in place

runtimeVars == <<versions, queue, timers, budget, pc, key, cr>>

-----------------------------------------------------------------------------
(* Objects.  Status stands for the identifier and, in the kinds that have  *)
(* one, resolvedTeamId; the fields Status and LastSyncedTime follow them.  *)

Status == [id : Ids \cup {None}, owner : Owners \cup {None}]

NoStatus == [id |-> None, owner |-> None]

Object == [rv : RVs \cup {None}, live : BOOLEAN, gen : Nat,
           spec : Specs \cup {None}, status : Status]

(* A CR that does not exist: never created, or deleted. *)
NoObject == [rv |-> None, live |-> FALSE, gen |-> 0,
             spec |-> None, status |-> NoStatus]

Latest(k) == versions[k][Len(versions[k])]

Cached(k) == Head(versions[k])

Spend(what) ==
    /\ budget[what] > 0
    /\ budget' = [budget EXCEPT ![what] = @ - 1]

-----------------------------------------------------------------------------
(* The API server. *)

(* resourceVersions somebody still holds. *)
HeldVersions(k) ==
    {versions[k][i].rv : i \in DOMAIN versions[k]} \cup {cr.rv}

(* The resourceVersion of the next write; tokens nobody holds are recycled. *)
NextVersion(k) == CHOOSE rv \in RVs : rv \notin HeldVersions(k)

Write(k, o) ==
    /\ Len(versions[k]) < MaxVersions
    /\ NextVersion(k) \in RVs \ HeldVersions(k)
    /\ versions' = [versions EXCEPT
                      ![k] = Append(@, [o EXCEPT !.rv = NextVersion(k)])]

(* kubectl apply: the API server raises the generation of a changed spec   *)
(* and leaves the status subresource alone.                                *)
ApplyCR(k, s) ==
    /\ Spend("edits")
    /\ IF Latest(k).live
       THEN /\ Latest(k).spec # s
            /\ Write(k, [Latest(k) EXCEPT !.gen = @ + 1, !.spec = s])
       ELSE Write(k, [NoObject EXCEPT !.live = TRUE, !.gen = 1, !.spec = s])
    /\ UNCHANGED <<queue, timers, pc, key, cr>>

(* kubectl delete: no reconciler sets a finalizer, so the CR goes at once. *)
DeleteCR(k) ==
    /\ Spend("edits")
    /\ Latest(k).live
    /\ Write(k, NoObject)
    /\ UNCHANGED <<queue, timers, pc, key, cr>>

(* Status().Update succeeds only on the version the reconciler read.  The  *)
(* mutant is a merge patch, which does not send the resourceVersion.       *)
StatusCurrent == Latest(key).live /\ Latest(key).rv = cr.rv

MutantStoreStatus ==
    /\ Latest(key).live
    /\ Write(key, [Latest(key) EXCEPT !.status = cr.status])
StoreStatus ==
    /\ StatusCurrent
    /\ Write(key, [Latest(key) EXCEPT !.status = cr.status])

-----------------------------------------------------------------------------
(* The watch, the event filter and the work queue. *)

(* Creations and deletions pass the filter, updates only if the generation *)
(* changed: a status write by the reconciler does not trigger it again.    *)
GenerationChangedPredicate(old, new) ==
    (old.live /\ new.live) => old.gen # new.gen

WatchEvent(k) ==
    /\ Len(versions[k]) > 1
    /\ versions' = [versions EXCEPT ![k] = Tail(@)]
    /\ queue' = IF GenerationChangedPredicate(Cached(k), versions[k][2])
                THEN queue \cup {k} ELSE queue
    /\ UNCHANGED <<timers, budget, pc, key, cr>>

(* A RequeueAfter (five minutes) or a back-off (from five milliseconds up, *)
(* doubling with every failure) expires.  Nothing makes it wait for the    *)
(* watch; how often it is faster is bounded by the budget for delays.      *)
Timer(k) ==
    /\ k \in timers
    /\ IF Len(versions[k]) = 1 THEN UNCHANGED budget ELSE Spend("delays")
    /\ timers' = timers \ {k}
    /\ queue' = queue \cup {k}
    /\ UNCHANGED <<versions, pc, key, cr>>

-----------------------------------------------------------------------------
(* The worker. *)

(* r.Get at the head of Reconcile.  A CR that is gone ends the run without *)
(* an error (client.IgnoreNotFound).  The mutant reads past the cache,      *)
(* from an API server replica that may be ahead of it.                     *)
MutantGet(k, first) ==
    /\ pc = "idle"
    /\ k \in queue
    /\ queue' = queue \ {k}
    /\ \E i \in DOMAIN versions[k] :
          IF versions[k][i].live
          THEN pc' = first /\ key' = k /\ cr' = versions[k][i]
          ELSE UNCHANGED <<pc, key, cr>>
    /\ UNCHANGED <<versions, timers, budget>>
Get(k, first) ==
    /\ pc = "idle"
    /\ k \in queue
    /\ queue' = queue \ {k}
    /\ IF Cached(k).live
       THEN pc' = first /\ key' = k /\ cr' = Cached(k)
       ELSE UNCHANGED <<pc, key, cr>>
    /\ UNCHANGED <<versions, timers, budget>>

Idle ==
    /\ pc' = "idle"
    /\ key' = None
    /\ cr' = NoObject

(* return ctrl.Result{}, nil: nothing brings the key back by itself. *)
ReturnDone == Idle /\ UNCHANGED timers

(* return ctrl.Result{RequeueAfter: ...}, nil, or return an error, which   *)
(* puts the key into the queue again after a back-off.  The mutant drops   *)
(* the error.                                                              *)
MutantReturnRequeue == Idle /\ UNCHANGED timers
ReturnRequeue == Idle /\ timers' = timers \cup {key}

(* The manager process stops and starts again: its informers list the API  *)
(* server before the workers start, and every CR is queued.                *)
Restart ==
    /\ Spend("crashes")
    /\ versions' = [k \in CRs |-> <<Latest(k)>>]
    /\ queue' = {k \in CRs : Latest(k).live}
    /\ timers' = {}
    /\ Idle

-----------------------------------------------------------------------------

RuntimeInit ==
    /\ versions = [k \in CRs |-> <<NoObject>>]
    /\ queue = {}
    /\ timers = {}
    /\ budget = Budget
    /\ pc = "idle"
    /\ key = None
    /\ cr = NoObject

(* The types of the runtime's variables; the values of pc belong to the    *)
(* reconcilers.                                                            *)
RuntimeTypeOK ==
    /\ versions \in [CRs -> Seq(Object)]
    /\ \A k \in CRs : versions[k] # <<>>
    /\ queue \subseteq CRs
    /\ timers \subseteq CRs
    /\ budget \in [Expenses -> Nat]
    /\ key \in CRs \cup {None}
    /\ cr \in Object

(* The versions of CR k, cached or not. *)
Objects(k) == {versions[k][i] : i \in DOMAIN versions[k]}

(* The part of the inductive invariants that the runtime alone maintains:  *)
(* a CR that exists has a spec some user applied, a resourceVersion names  *)
(* one version, and a run has the key of a CR and the spec of the version  *)
(* whose resourceVersion it holds.                                         *)
RuntimeInv ==
    /\ RuntimeTypeOK
    /\ \A k \in CRs : \A o \in Objects(k) : o.live => o.spec \in Specs
    /\ \A k \in CRs : \A o1, o2 \in Objects(k) : o1.rv = o2.rv => o1 = o2
    /\ IF pc = "idle" THEN key = None ELSE key \in CRs /\ cr.spec \in Specs
    /\ pc # "idle" =>
          \A o \in Objects(key) : o.rv = cr.rv => o.spec = cr.spec

(* The copy a run works on never loses the identifier that was recorded in *)
(* the version it was read from.                                           *)
CopyKeepsBinding ==
    pc # "idle" =>
        \A o \in Objects(key) :
            o.rv = cr.rv /\ o.status.id # None => cr.status.id = o.status.id

(* Something will make the worker look at CR k again. *)
Scheduled(k) ==
    k \in queue \cup timers \/ key = k \/ Len(versions[k]) > 1

(* The inductive form: a change that the watch has not delivered counts    *)
(* only if it will pass the filter.                                        *)
Noticed(k) ==
    \E i \in 1..(Len(versions[k]) - 1) :
        GenerationChangedPredicate(versions[k][i], versions[k][i + 1])

Covered(k) == k \in queue \cup timers \/ key = k \/ Noticed(k)

(* The refinement mapping of the kinds whose CRs are bound at most once:   *)
(* what the API server holds of existence and identifier.                  *)
Living == {k \in CRs : Latest(k).live}

Bound == [k \in CRs |-> Latest(k).status.id]

Sharing == INSTANCE Binding WITH
              living <- Living, bound <- Bound, Shareable <- Ids

=============================================================================
