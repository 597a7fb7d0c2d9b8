---------------------- MODULE ServiceControllerProofs ----------------------
(***************************************************************************)
(* Theorems about ServiceController, for any number of CRs, identifiers,   *)
(* edits, failures and restarts.  IInv is an inductive invariant: TypeOK   *)
(* and NoSharedService are parts of it, and that the controller implements *)
(* Binding follows from it.  With GenInv added it gives NoStaleOverwrite,  *)
(* and with DupInv DuplicatesBounded.                                      *)
(***************************************************************************)
EXTENDS ServiceDebts, ControllerRuntimeProofs, FiniteSetTheorems

(* Tags in another order are tags. *)
LEMMA ReorderingType ==
    ASSUME NEW S, NEW s \in Seq(S), NEW t \in Reorderings(s)
    PROVE  t \in Seq(S)
  <1>1. PICK p \in [DOMAIN s -> DOMAIN s] : t = [i \in DOMAIN s |-> s[p[i]]]
    BY DEF Reorderings, Bijection, Injection, Surjection
  <1>2. DOMAIN s = 1..Len(s) /\ Len(s) \in Nat /\ s \in [1..Len(s) -> S]
    OBVIOUS
  <1>3. \A i \in 1..Len(s) : s[p[i]] \in S
    BY <1>2
  <1>4. t \in [1..Len(s) -> S]
    BY <1>1, <1>2, <1>3
  <1> QED BY <1>2, <1>4

(* Fresh identifiers are issued from Ids. *)
LEMMA NewIdFresh ==
    ASSUME Fresh # {}
    PROVE  NewId \in Ids /\ remote[NewId] = Unissued
  BY DEF NewId, Fresh

(* Identifiers stay issued. *)
StayIssued == \A id \in Ids : remote[id] # Unissued => remote'[id] # Unissued

(* Opsgenie's own steps keep the type of what it holds.                    *)
LEMMA RemoteSteps ==
    ASSUME TypeOK, NEW c \in Service
    PROVE  /\ \A id : Store(id, c) =>
                 remote' \in [Ids -> Service \cup Absent] /\ StayIssued
           /\ Issue(c) => /\ remote' \in [Ids -> Service \cup Absent]
                          /\ StayIssued
                          /\ NewId \in Ids /\ remote[NewId] = Unissued
                          /\ remote'[NewId] # Unissued
  <1>1. c # Unissued
    BY ServiceAssumption DEF Absent
  <1>2. ASSUME NEW id, Store(id, c)
        PROVE  remote' \in [Ids -> Service \cup Absent] /\ StayIssued
    BY <1>1, <1>2 DEF Store, Exists, StayIssued, TypeOK
  <1>3. ASSUME Issue(c)
        PROVE  /\ remote' \in [Ids -> Service \cup Absent]
               /\ StayIssued
               /\ NewId \in Ids /\ remote[NewId] = Unissued
               /\ remote'[NewId] # Unissued
    BY <1>1, <1>3, NewIdFresh DEF Issue, StayIssued, TypeOK
  <1> QED BY <1>2, <1>3

(* A step that writes no new id and leaves the run alone, or ends it,      *)
(* keeps BindingInv.                                                       *)
LEMMA QuietStep ==
    ASSUME IInv, NoNewIds, StayIssued, RuntimeInv', CopyKeepsBinding',
           \/ UNCHANGED <<pc, key, cr>>
           \/ pc' = "idle" /\ cr' = NoObject
    PROVE  BindingInv'
  <1>1. \A c \in CRs : Objects(c) \subseteq Object /\ Objects(c)' \subseteq Object
    <2>1. \A c \in CRs : Objects(c) \subseteq Object
      BY VersionsOfCR DEF IInv, RuntimeInv
    <2>2. \A c \in CRs : Objects(c)' \subseteq Object
      <3>1. versions' \in [CRs -> Seq(Object)]
        BY DEF RuntimeInv, RuntimeTypeOK
      <3> QED BY <3>1 DEF Objects
    <2> QED BY <2>1, <2>2
  <1>2. \A o \in Object : o.status.id \in Ids \cup {None}
    BY DEF Object, Status
  <1>3. NoObject.status.id = None
    BY DEF NoObject, NoStatus
  <1>4. ASSUME NEW c \in CRs, NEW n \in Objects(c)', n.status.id # None
        PROVE  /\ remote'[n.status.id] # Unissued
               /\ pc' # "idle" /\ c # key' /\ cr'.status.id # None
                     => n.status.id # cr'.status.id
    <2>1. PICK o \in Objects(c) : o.status.id = n.status.id
      BY <1>4 DEF NoNewIds
    <2>2. n.status.id \in Ids
      BY <1>1, <1>2, <1>4
    <2>3. remote'[n.status.id] # Unissued
      BY <2>1, <2>2, <1>4 DEF StayIssued, IInv, BindingInv
    <2> QED BY <2>1, <2>3, <1>3, <1>4 DEF IInv, BindingInv
  <1>5. NoSharedService'
    <2>1. SUFFICES ASSUME NEW k1 \in CRs, NEW k2 \in CRs,
                          NEW p \in Objects(k1)', NEW q \in Objects(k2)',
                          p.status.id = q.status.id, p.status.id # None
                   PROVE  k1 = k2
      BY DEF NoSharedService
    <2>2. PICK p0 \in Objects(k1) : p0.status.id = p.status.id
      BY <2>1 DEF NoNewIds
    <2>3. PICK q0 \in Objects(k2) : q0.status.id = q.status.id
      BY <2>1 DEF NoNewIds
    <2> QED BY <2>1, <2>2, <2>3 DEF IInv, BindingInv, NoSharedService
  <1>6. cr'.status.id # None => remote'[cr'.status.id] # Unissued
    <2>1. cr.status.id \in Ids \cup {None}
      BY <1>2 DEF IInv, RuntimeInv, RuntimeTypeOK
    <2> QED BY <2>1, <1>3 DEF IInv, BindingInv, StayIssued
  <1>7. pc' = "creating" => cr'.status.id = None
    BY <1>3 DEF IInv, BindingInv
  <1> QED BY <1>4, <1>5, <1>6, <1>7 DEF BindingInv

-----------------------------------------------------------------------------
(* One lemma per action of the worker. *)

(* The team of a spec that users applied, unless it cannot be resolved.    *)
LEMMA ResolvedTeamType ==
    ASSUME TypeOK, NEW spec \in Specs
    PROVE  resolveTeamID(spec) \in TeamStates
  <1>1. spec \in ServiceSpec
    BY ServiceAssumption
  <1> QED BY <1>1 DEF ServiceSpec, resolveTeamID, TypeOK, TeamStates

(* What holds in every state in which the worker is inside a run.          *)
LEMMA Running ==
    ASSUME IInv, pc # "idle"
    PROVE  /\ key \in CRs /\ cr \in Object /\ cr.spec \in Specs
           /\ cr.spec \in ServiceSpec /\ timers \cup {key} \subseteq CRs
           /\ cr.status.id \in Ids \cup {None}
           /\ cr.status.owner \in Owners \cup {None} /\ cr.gen \in Nat
           /\ budget \in [Expenses -> Nat]
  BY ServiceAssumption DEF IInv, RuntimeInv, RuntimeTypeOK, Object, Status

(* A run that ends without a status write. *)
LEMMA EndStep ==
    ASSUME IInv, pc # "idle", ReturnDone \/ ReturnRequeue,
           UNCHANGED <<versions, queue, teams>>,
           budget' \in [Expenses -> Nat],
           remote' \in [Ids -> Service \cup Absent], StayIssued
    PROVE  IInv' /\ BindingStep
  <1>1. VersionsInv' /\ NoNewIds /\ BindingStep
    BY NoWriteStep DEF IInv
  <1>2. Idle /\ timers' \subseteq CRs
    BY Running DEF ReturnDone, ReturnRequeue
  <1>3. RuntimeInv' /\ CopyKeepsBinding'
    BY <1>1, <1>2, ReturnStep DEF IInv
  <1>4. BindingInv'
    BY <1>1, <1>2, <1>3, QuietStep DEF Idle
  <1>5. TypeOK'
    BY <1>2, <1>3 DEF TypeOK, IInv, RuntimeInv, Idle
  <1> QED BY <1>1, <1>3, <1>4, <1>5 DEF IInv

(* A step inside a run that keeps the identifier the run knows.            *)
LEMMA ContinueStep ==
    ASSUME IInv, pc # "idle",
           UNCHANGED <<versions, queue, timers, key, teams>>,
           budget' \in [Expenses -> Nat],
           remote' \in [Ids -> Service \cup Absent], StayIssued,
           cr' \in Object, cr'.rv = cr.rv, cr'.spec = cr.spec,
           cr'.status.id = cr.status.id,
           pc' \in {"fetching", "updating", "creating", "saving"},
           pc' = "creating" => cr.status.id = None
    PROVE  IInv' /\ BindingStep
  <1>1. RuntimeInv' /\ CopyKeepsBinding'
    BY InnerStep DEF IInv, BindingInv
  <1>2. BindingStep /\ \A c \in CRs : Objects(c)' = Objects(c)
    BY NoWriteStep DEF IInv
  <1>3. TypeOK'
    BY <1>1 DEF TypeOK, IInv, RuntimeInv
  <1>4. \A c \in CRs : \A o \in Objects(c) : o.status.id \in Ids \cup {None}
    BY VersionsOfCR DEF IInv, RuntimeInv, Object, Status
  <1>5. \A c \in CRs : \A o \in Objects(c)' :
            /\ o.status.id # None => remote'[o.status.id] # Unissued
            /\ pc' # "idle" /\ c # key' /\ cr'.status.id # None
                  => o.status.id # cr'.status.id
    BY <1>2, <1>4 DEF IInv, BindingInv, StayIssued
  <1>6. NoSharedService'
    BY <1>2 DEF IInv, BindingInv, NoSharedService
  <1>7. cr'.status.id # None => remote'[cr'.status.id] # Unissued
    BY Running DEF IInv, BindingInv, StayIssued
  <1>8. BindingInv'
    BY <1>1, <1>5, <1>6, <1>7 DEF BindingInv
  <1> QED BY <1>1, <1>2, <1>3, <1>8 DEF IInv

(* Opsgenie that does not change keeps its type. *)
LEMMA SameRemote ==
    ASSUME IInv, UNCHANGED remote
    PROVE  remote' \in [Ids -> Service \cup Absent] /\ StayIssued
  BY DEF IInv, TypeOK, StayIssued

(* ResolveTeam: it ends the run, or sets an owner and goes on.             *)
LEMMA ResolveStep ==
    ASSUME IInv, ResolveTeam
    PROVE  IInv' /\ BindingStep
  <1>1. pc = "resolving" /\ UNCHANGED <<versions, queue, budget, remote, teams>>
    BY DEF ResolveTeam
  <1>2. remote' \in [Ids -> Service \cup Absent] /\ StayIssued
    BY <1>1, SameRemote
  <1> DEFINE owner == resolveTeamID(cr.spec)
  <1>3. owner \in TeamStates
    BY <1>1, Running, ResolvedTeamType DEF IInv
  <1>4. CASE owner = Gone
    BY <1>1, <1>2, <1>4, Running, EndStep DEF ResolveTeam
  <1>5. CASE owner # Gone
    <2>1. /\ cr' = [cr EXCEPT !.status.owner = owner]
          /\ pc' = IF cr.status.id # None THEN "fetching" ELSE "creating"
          /\ UNCHANGED <<key, timers>>
      BY <1>5 DEF ResolveTeam
    <2>2. owner \in Owners \cup {None}
      BY <1>3, <1>5 DEF TeamStates
    <2> HIDE DEF owner
    <2>3. /\ cr' \in Object /\ cr'.rv = cr.rv /\ cr'.spec = cr.spec
          /\ cr'.status.id = cr.status.id
      BY <1>1, <2>1, <2>2, Running DEF Object, Status
    <2> QED BY <1>1, <1>2, <2>1, <2>3, Running, ContinueStep
  <1> QED BY <1>4, <1>5

(* FetchService changes nothing but the place in the run.                  *)
LEMMA FetchStep ==
    ASSUME IInv, FetchService
    PROVE  IInv' /\ BindingStep
  <1>1. pc = "fetching" /\ UNCHANGED <<versions, queue, remote, teams>>
    BY DEF FetchService
  <1>2. remote' \in [Ids -> Service \cup Absent] /\ StayIssued
    BY <1>1, SameRemote
  <1>3. CASE pc' = "updating" /\ UNCHANGED <<budget, key, cr, timers>>
    BY <1>1, <1>2, <1>3, Running, ContinueStep
  <1>4. CASE ReturnRequeue /\ UNCHANGED budget
    BY <1>1, <1>2, <1>4, Running, EndStep
  <1>5. CASE Fail
    BY <1>1, <1>2, <1>5, SpendType, EndStep DEF Fail, Expenses, IInv
  <1> QED BY <1>3, <1>4, <1>5 DEF FetchService

(* What an Update puts into Opsgenie is a service. *)
LEMMA UpdateType ==
    ASSUME IInv, pc # "idle", UpdateApplied
    PROVE  remote' \in [Ids -> Service \cup Absent] /\ StayIssued
  <1> DEFINE c(tags) == Patched(cr.spec, tags, cr.gen, remote[cr.status.id])
  <1>1. PICK tags \in Reorderings(cr.spec.tags) : Store(cr.status.id, c(tags))
    BY DEF UpdateApplied
  <1>2. /\ cr.spec.name \in Names /\ cr.spec.desc \in Descs \cup {None}
        /\ tags \in Seq(Tags) /\ cr.gen \in Nat
    <2>1. /\ cr.spec.name \in Names /\ cr.spec.desc \in Descs \cup {None}
          /\ cr.spec.tags \in Seq(Tags) /\ cr.gen \in Nat
      BY Running DEF ServiceSpec
    <2> QED BY <2>1, ReorderingType
  <1>3. remote[cr.status.id] \in Service
    BY <1>1 DEF Store, Exists, IInv, TypeOK
  <1>4. c(tags) \in Service
    BY <1>2, <1>3 DEF Service, Patched
  <1> HIDE DEF c
  <1> QED BY <1>1, <1>4, RemoteSteps DEF IInv

(* UpdateService writes to a service that was issued before.               *)
LEMMA UpdateStep ==
    ASSUME IInv, UpdateService
    PROVE  IInv' /\ BindingStep
  <1>1. pc = "updating" /\ UNCHANGED <<versions, queue, teams>>
    BY DEF UpdateService
  <1>2. remote' \in [Ids -> Service \cup Absent] /\ StayIssued
    BY <1>1, UpdateType, SameRemote DEF UpdateService
  <1>3. CASE pc' = "saving" /\ UNCHANGED <<budget, key, cr, timers>>
    BY <1>1, <1>2, <1>3, Running, ContinueStep
  <1>4. CASE ReturnRequeue /\ UNCHANGED budget
    BY <1>1, <1>2, <1>4, Running, EndStep
  <1>5. CASE Fail
    BY <1>1, <1>2, <1>5, SpendType, EndStep DEF Fail, Expenses, IInv
  <1> QED BY <1>3, <1>4, <1>5 DEF UpdateService

(* What a Create puts into Opsgenie is a service, under a fresh id. *)
LEMMA CreateType ==
    ASSUME IInv, pc # "idle", CreateApplied
    PROVE  /\ remote' \in [Ids -> Service \cup Absent] /\ StayIssued
           /\ NewId \in Ids /\ remote[NewId] = Unissued
           /\ remote'[NewId] # Unissued
  <1> DEFINE c(tags) == [name |-> cr.spec.name, desc |-> cr.spec.desc,
                         tags |-> tags, team |-> cr.status.owner,
                         gen |-> cr.gen]
  <1>1. PICK tags \in Reorderings(cr.spec.tags) : Issue(c(tags))
    BY DEF CreateApplied
  <1>2. /\ cr.spec.name \in Names /\ cr.spec.desc \in Descs \cup {None}
        /\ tags \in Seq(Tags)
    <2>1. /\ cr.spec.name \in Names /\ cr.spec.desc \in Descs \cup {None}
          /\ cr.spec.tags \in Seq(Tags)
      BY Running DEF ServiceSpec
    <2> QED BY <2>1, ReorderingType
  <1>3. c(tags) \in Service
    BY <1>2, Running DEF Service
  <1> QED BY <1>1, <1>3, RemoteSteps DEF IInv

(* CreateService: the new id was never issued, so no other CR holds it,    *)
(* and the run held none before.                                           *)
LEMMA CreateStep ==
    ASSUME IInv, CreateService
    PROVE  IInv' /\ BindingStep
  <1>1. pc = "creating" /\ UNCHANGED <<versions, queue, teams>>
    BY DEF CreateService
  <1>2. CASE ReturnRequeue /\ UNCHANGED <<remote, budget>>
    BY <1>1, <1>2, SameRemote, Running, EndStep
  <1>3. CASE Fail /\ (CreateApplied \/ UNCHANGED remote)
    <2>1. remote' \in [Ids -> Service \cup Absent] /\ StayIssued
      BY <1>1, <1>3, CreateType, SameRemote
    <2> QED BY <1>1, <1>3, <2>1, SpendType, EndStep DEF Fail, Expenses, IInv
  <1>4. CASE /\ CreateApplied
             /\ cr' = [cr EXCEPT !.status.id = NewId]
             /\ pc' = "saving"
             /\ UNCHANGED <<budget, key, timers>>
    <2>1. /\ remote' \in [Ids -> Service \cup Absent] /\ StayIssued
          /\ NewId \in Ids /\ remote[NewId] = Unissued
          /\ remote'[NewId] # Unissued
      BY <1>1, <1>4, CreateType
    <2>2. cr.status.id = None
      BY <1>1 DEF IInv, BindingInv
    <2>3. /\ cr' \in Object /\ cr'.rv = cr.rv /\ cr'.spec = cr.spec
          /\ cr'.status.id = NewId
      BY <1>1, <1>4, <2>1, Running DEF Object, Status
    <2>4. RuntimeInv' /\ CopyKeepsBinding'
      BY <1>1, <1>4, <2>2, <2>3, Running, InnerStep DEF IInv, BindingInv
    <2>5. BindingStep /\ \A c \in CRs : Objects(c)' = Objects(c)
      BY <1>1, NoWriteStep DEF IInv
    <2>6. TypeOK'
      BY <1>1, <1>4, <2>1, <2>4 DEF TypeOK, IInv, RuntimeInv
    <2>7. \A c \in CRs : \A o \in Objects(c) :
             o.status.id \in Ids \cup {None} /\ o.status.id # NewId
      <3>1. \A c \in CRs : \A o \in Objects(c) : o.status.id \in Ids \cup {None}
        BY VersionsOfCR DEF IInv, RuntimeInv, Object, Status
      <3> QED BY <3>1, <2>1, OpsgenieAssumption DEF IInv, BindingInv
    <2>8. \A c \in CRs : \A o \in Objects(c)' :
            /\ o.status.id # None => remote'[o.status.id] # Unissued
            /\ pc' # "idle" /\ c # key' /\ cr'.status.id # None
                  => o.status.id # cr'.status.id
      BY <2>1, <2>3, <2>5, <2>7 DEF IInv, BindingInv, StayIssued
    <2>9. NoSharedService'
      BY <2>5 DEF IInv, BindingInv, NoSharedService
    <2>10. BindingInv'
      BY <1>4, <2>1, <2>3, <2>4, <2>8, <2>9 DEF BindingInv
    <2> QED BY <2>4, <2>5, <2>6, <2>10 DEF IInv
  <1> QED BY <1>2, <1>3, <1>4 DEF CreateService

(* SaveStatus: the id the run holds is no other CR's, and the optimistic   *)
(* lock keeps it from replacing one that the run did not read.             *)
LEMMA SaveStep ==
    ASSUME IInv, SaveStatus
    PROVE  IInv' /\ BindingStep
  <1>1. pc = "saving" /\ ReturnRequeue /\ UNCHANGED <<queue, remote, teams>>
    BY DEF SaveStatus
  <1>2. remote' \in [Ids -> Service \cup Absent] /\ StayIssued
    BY <1>1, SameRemote
  <1>3. budget' \in [Expenses -> Nat]
    BY <1>1, Running, SpendType DEF SaveStatus, Expenses, IInv
  <1>4. CASE UNCHANGED versions
    BY <1>1, <1>2, <1>3, <1>4, EndStep
  <1>5. CASE StoreStatus
    <2>1. PICK k \in CRs : key = k
      BY <1>1, Running
    <2>2. /\ VersionsInv' /\ BindingStep
          /\ \A c \in CRs \ {k} : Objects(c)' = Objects(c)
          /\ \A p \in Objects(k)' : p \in Objects(k) \/ p.status.id = cr.status.id
      BY <1>1, <1>5, <2>1, StoreStep DEF IInv, BindingInv
    <2>3. Idle /\ timers' \subseteq CRs
      BY <1>1, Running DEF ReturnRequeue
    <2>4. RuntimeInv' /\ CopyKeepsBinding'
      BY <1>1, <1>3, <2>2, <2>3, ReturnStep DEF IInv
    <2>5. TypeOK'
      BY <1>1, <1>2, <2>3, <2>4 DEF TypeOK, IInv, RuntimeInv, Idle
    <2>6. pc' = "idle" /\ cr'.status.id = None
      BY <2>3 DEF Idle, NoObject, NoStatus
    <2>7. \A c \in CRs : \A o \in Objects(c)' :
             \/ o \in Objects(c)
             \/ c = k /\ o.status.id = cr.status.id
      BY <2>2
    <2>8. \A c \in CRs : \A o \in Objects(c)' :
             o.status.id # None => remote'[o.status.id] # Unissued
      BY <1>1, <2>7 DEF IInv, BindingInv
    <2>9. NoSharedService'
      <3>1. SUFFICES ASSUME NEW k1 \in CRs, NEW k2 \in CRs,
                            NEW p \in Objects(k1)', NEW q \in Objects(k2)',
                            p.status.id = q.status.id, p.status.id # None
                     PROVE  k1 = k2
        BY DEF NoSharedService
      <3>2. CASE p \in Objects(k1) /\ q \in Objects(k2)
        BY <3>1, <3>2 DEF IInv, BindingInv, NoSharedService
      <3>3. CASE k1 = k /\ p.status.id = cr.status.id /\ q \in Objects(k2)
        BY <1>1, <2>1, <3>1, <3>3 DEF IInv, BindingInv
      <3>4. CASE k2 = k /\ q.status.id = cr.status.id /\ p \in Objects(k1)
        BY <1>1, <2>1, <3>1, <3>4 DEF IInv, BindingInv
      <3> QED BY <2>7, <3>1, <3>2, <3>3, <3>4
    <2>10. BindingInv'
      BY <2>4, <2>6, <2>8, <2>9 DEF BindingInv
    <2> QED BY <2>2, <2>4, <2>5, <2>10 DEF IInv
  <1> QED BY <1>4, <1>5 DEF SaveStatus

-----------------------------------------------------------------------------
(* The environment, and the theorems. *)

(* Steps outside the worker that leave Opsgenie and the teams alone.       *)
LEMMA OutsideStep ==
    ASSUME IInv, RuntimeInv', CopyKeepsBinding', NoNewIds,
           \/ UNCHANGED <<pc, key, cr>>
           \/ pc' = "idle" /\ cr' = NoObject,
           StayIssued, remote' \in [Ids -> Service \cup Absent],
           teams' \in [TeamRefs -> TeamStates]
    PROVE  IInv'
  <1>1. BindingInv'
    BY QuietStep
  <1>2. TypeOK'
    BY DEF TypeOK, IInv, RuntimeInv
  <1> QED BY <1>1, <1>2 DEF IInv

(* People who work in Opsgenie leave services there, and issue no ids.     *)
LEMMA PeopleType ==
    ASSUME IInv, NEW id \in Ids, Drift(id) \/ Removal(id)
    PROVE  remote' \in [Ids -> Service \cup Absent] /\ StayIssued
  <1>1. CASE Drift(id)
    <2>1. PICK n \in Names, d \in Descs :
             Exists(id) /\ Store(id, [remote[id] EXCEPT !.name = n, !.desc = d])
      BY <1>1 DEF Drift
    <2>2. remote[id] \in Service
      BY <2>1 DEF Exists, IInv, TypeOK
    <2>3. [remote[id] EXCEPT !.name = n, !.desc = d] \in Service
      BY <2>2 DEF Service
    <2> QED BY <2>1, <2>3, RemoteSteps DEF IInv
  <1>2. CASE Removal(id)
    BY <1>2, OpsgenieAssumption
       DEF Removal, Discard, Absent, StayIssued, IInv, TypeOK
  <1> QED BY <1>1, <1>2

(* Steps in which this controller and its CRs have no part, and which may  *)
(* only spend from the budget and change what Opsgenie and the teams are.  *)
LEMMA ElsewhereStep ==
    ASSUME IInv, UNCHANGED <<versions, queue, timers, pc, key, cr>>,
           budget' \in [Expenses -> Nat],
           remote' \in [Ids -> Service \cup Absent], StayIssued,
           teams' \in [TeamRefs -> TeamStates]
    PROVE  IInv' /\ BindingStep
  <1>1. VersionsInv' /\ NoNewIds /\ BindingStep
        /\ \A c \in CRs : Objects(c)' = Objects(c)
    BY NoWriteStep DEF IInv
  <1>2. RuntimeInv'
    BY <1>1 DEF RuntimeInv, RuntimeTypeOK, IInv
  <1>3. CopyKeepsBinding'
    BY DEF CopyKeepsBinding, Objects, IInv, BindingInv
  <1> QED BY <1>1, <1>2, <1>3, OutsideStep

(* Reconcile: the copy it reads is a version of the CR.                    *)
LEMMA StartStep ==
    ASSUME IInv, NEW k \in CRs, Reconcile(k)
    PROVE  IInv' /\ BindingStep
  <1>1. UNCHANGED <<remote, teams>>
    BY DEF Reconcile
  <1>2. /\ RuntimeInv' /\ CopyKeepsBinding' /\ NoNewIds /\ BindingStep
        /\ UNCHANGED versions
        /\ \/ UNCHANGED <<pc, key, cr>>
           \/ /\ pc' = "resolving" /\ key' = k
              /\ cr' \in Objects(k) /\ cr'.spec \in Specs
    BY GetStep DEF Reconcile, IInv, BindingInv
  <1>3. remote' \in [Ids -> Service \cup Absent] /\ StayIssued
    BY <1>1, SameRemote
  <1>4. TypeOK'
    BY <1>1, <1>2, <1>3 DEF TypeOK, IInv, RuntimeInv
  <1>5. CASE UNCHANGED <<pc, key, cr>>
    BY <1>1, <1>2, <1>3, <1>5, OutsideStep DEF IInv, TypeOK
  <1>6. CASE pc' = "resolving" /\ key' = k /\ cr' \in Objects(k)
    <2>1. \A c \in CRs : Objects(c)' = Objects(c)
      BY <1>2, NoWriteStep DEF IInv
    <2>2. BindingInv'
      BY <1>1, <1>2, <1>6, <2>1 DEF IInv, BindingInv, NoSharedService
    <2> QED BY <1>2, <1>4, <2>2 DEF IInv
  <1> QED BY <1>2, <1>5, <1>6

(* IInv holds before the first CR is applied.                              *)
LEMMA InitIInv == Init => IInv
  <1> SUFFICES ASSUME Init PROVE IInv
    OBVIOUS
  <1>1. /\ versions = [k \in CRs |-> <<NoObject>>] /\ queue = {} /\ timers = {}
        /\ budget = Budget /\ pc = "idle" /\ key = None /\ cr = NoObject
        /\ remote = [id \in Ids |-> Unissued] /\ teams = InitialTeams
    BY DEF Init, RuntimeInit
  <1>2. \A k \in CRs : versions[k] = <<NoObject>>
    BY <1>1
  <1>3. NoObject \in Object /\ NoObject.live = FALSE /\ NoObject.status.id = None
    BY NoObjectType DEF NoObject, NoStatus
  <1>4. \A k \in CRs : Objects(k) = {NoObject}
    BY <1>2 DEF Objects
  <1>5. RuntimeTypeOK
    BY <1>1, <1>2, <1>3, RuntimeAssumption DEF RuntimeTypeOK
  <1>6. RuntimeInv
    BY <1>1, <1>3, <1>4, <1>5 DEF RuntimeInv
  <1>7. TypeOK
    BY <1>1, <1>5, ServiceAssumption DEF TypeOK, Absent
  <1>8. BindingInv
    BY <1>1, <1>3, <1>4 DEF BindingInv, CopyKeepsBinding, NoSharedService
  <1> QED BY <1>6, <1>7, <1>8 DEF IInv

(* Every step keeps IInv, and is a step of Binding with sharing.           *)
LEMMA NextIInv ==
    ASSUME IInv, [Next]_vars
    PROVE  IInv' /\ BindingStep
  <1>1. ASSUME NEW k \in CRs, User(k) PROVE IInv' /\ BindingStep
    <2>1. RuntimeInv' /\ CopyKeepsBinding' /\ NoNewIds /\ BindingStep
      BY <1>1, UserStep DEF User, IInv, BindingInv
    <2>2. UNCHANGED <<pc, key, cr, remote, teams>>
      BY <1>1 DEF User, ApplyCR, DeleteCR
    <2> QED BY <2>1, <2>2, SameRemote, OutsideStep DEF IInv, TypeOK
  <1>2. ASSUME NEW k \in CRs, Runtime(k) PROVE IInv' /\ BindingStep
    <2>1. RuntimeInv' /\ CopyKeepsBinding' /\ NoNewIds /\ BindingStep
      BY <1>2, RuntimeStep DEF Runtime, IInv, BindingInv
    <2>2. UNCHANGED <<pc, key, cr, remote, teams>>
      BY <1>2 DEF Runtime, WatchEvent, Timer
    <2> QED BY <2>1, <2>2, SameRemote, OutsideStep DEF IInv, TypeOK
  <1>3. CASE Worker
    BY <1>3, ResolveStep, FetchStep, UpdateStep, CreateStep, SaveStep DEF Worker
  <1>4. ASSUME NEW id \in Ids, Drift(id) \/ Removal(id)
        PROVE  IInv' /\ BindingStep
    <2>1. /\ UNCHANGED <<versions, queue, timers, pc, key, cr, teams>>
          /\ budget' \in [Expenses -> Nat]
      BY <1>4, SpendType DEF Drift, Removal, Expenses, IInv
    <2> QED BY <1>4, <2>1, PeopleType, ElsewhereStep DEF IInv, TypeOK
  <1>5. ASSUME NEW t \in TeamRefs, TeamEvent(t) PROVE IInv' /\ BindingStep
    <2>1. /\ UNCHANGED <<versions, queue, timers, pc, key, cr, remote>>
          /\ budget' \in [Expenses -> Nat]
          /\ teams' \in [TeamRefs -> TeamStates]
      BY <1>5, SpendType DEF TeamEvent, Expenses, IInv, TypeOK, TeamStates
    <2> QED BY <2>1, SameRemote, ElsewhereStep
  <1>6. CASE Crash
    <2>1. UNCHANGED <<remote, teams>>
      BY <1>6 DEF Crash
    <2>2. /\ RuntimeInv' /\ CopyKeepsBinding' /\ NoNewIds /\ BindingStep
          /\ pc' = "idle" /\ cr' = NoObject
      BY <1>6, RestartStep DEF Crash, IInv
    <2> QED BY <2>1, <2>2, SameRemote, OutsideStep DEF IInv, TypeOK
  <1>7. CASE UNCHANGED vars
    <2>1. UNCHANGED <<versions, queue, timers, budget, pc, key, cr, remote, teams>>
      BY <1>7 DEF vars, runtimeVars
    <2>2. budget' \in [Expenses -> Nat] /\ teams' \in [TeamRefs -> TeamStates]
      BY <2>1 DEF IInv, RuntimeInv, RuntimeTypeOK, TypeOK
    <2> QED BY <2>1, <2>2, SameRemote, ElsewhereStep
  <1> QED BY <1>1, <1>2, <1>3, <1>4, <1>5, <1>6, <1>7, StartStep DEF Next

(* IInv holds in every reachable state. *)
THEOREM InductiveInvariant == Spec => []IInv
  <1>1. IInv /\ [Next]_vars => IInv'
    BY NextIInv
  <1> QED BY <1>1, InitIInv, PTL DEF Spec

(* The variables of the service controller and its runtime keep their      *)
(* types, whatever users, Opsgenie and restarts do.                        *)
THEOREM TypeCorrect == Spec => []TypeOK
  <1>1. IInv => TypeOK
    BY DEF IInv
  <1> QED BY <1>1, InductiveInvariant, PTL

(* No two OpsgenieService CRs ever manage one Opsgenie service.            *)
THEOREM NoSharing == Spec => []NoSharedService
  <1>1. IInv => NoSharedService
    BY DEF IInv, BindingInv
  <1> QED BY <1>1, InductiveInvariant, PTL

(* Since no service is shared before or after it, a step of Binding with   *)
(* sharing is one without.                                                 *)
LEMMA ExclusiveStep ==
    ASSUME IInv, IInv', BindingStep
    PROVE  [Exclusive!Next]_<<Living, Bound>>
  <1>1. CASE UNCHANGED <<Living, Bound>>
    BY <1>1
  <1>2. ASSUME NEW k \in CRs, Sharing!Create(k) PROVE Exclusive!Next
    <2>1. Exclusive!Create(k)
      BY <1>2 DEF Sharing!Create, Exclusive!Create
    <2> QED BY <2>1 DEF Exclusive!Next
  <1>3. ASSUME NEW k \in CRs, Sharing!Delete(k) PROVE Exclusive!Next
    <2>1. Exclusive!Delete(k)
      BY <1>3 DEF Sharing!Delete, Exclusive!Delete
    <2> QED BY <2>1 DEF Exclusive!Next
  <1>4. ASSUME NEW k \in CRs, NEW id \in Ids, Sharing!Bind(k, id)
        PROVE  Exclusive!Next
    <2>1. /\ k \in Living /\ Bound[k] = None /\ UNCHANGED Living
          /\ Bound' = [Bound EXCEPT ![k] = id] /\ id # None
      BY <1>4, OpsgenieAssumption DEF Sharing!Bind
    <2>2. \A c \in CRs : Bound'[c] = IF c = k THEN id ELSE Bound[c]
      BY <2>1 DEF Bound
    <2>3. \A c \in CRs : /\ Bound'[c] = Latest(c)'.status.id
                         /\ Latest(c)' \in Objects(c)'
      <3>1. ASSUME NEW c \in CRs PROVE Latest(c)' \in Objects(c)'
        <4>1. versions'[c] \in Seq(Object) /\ Len(versions'[c]) \in Nat \ {0}
          BY DEF IInv, RuntimeInv, RuntimeTypeOK
        <4> QED BY <4>1 DEF Latest, Objects
      <3> QED BY <3>1 DEF Bound
    <2>4. \A c \in CRs : Bound[c] # id
      BY <2>1, <2>2, <2>3 DEF IInv, BindingInv, NoSharedService
    <2>5. Exclusive!Bind(k, id)
      BY <2>1, <2>4 DEF Exclusive!Bind
    <2> QED BY <2>5 DEF Exclusive!Next
  <1> QED BY <1>1, <1>2, <1>3, <1>4 DEF BindingStep, Sharing!Next

(* The controller implements Binding without sharing: the service of an    *)
(* existing CR is never exchanged or forgotten, and no other CR gets it,   *)
(* however stale the copy is that a run works on.                          *)
THEOREM ImplementsBinding == Spec => OwnsItsService
  <1>1. Init => Exclusive!Init
    <2>1. Init => versions = [k \in CRs |-> <<NoObject>>]
      BY DEF Init, RuntimeInit
    <2>2. NoObject.live = FALSE /\ NoObject.status.id = None
      BY DEF NoObject, NoStatus
    <2>3. Init => \A k \in CRs : Latest(k) = NoObject
      <3>1. Init => \A k \in CRs : versions[k] = <<NoObject>>
        BY <2>1
      <3> QED BY <3>1 DEF Latest
    <2> QED BY <2>2, <2>3 DEF Exclusive!Init, Living, Bound
  <1>2. IInv /\ IInv' /\ [Next]_vars => [Exclusive!Next]_<<Living, Bound>>
    BY NextIInv, ExclusiveStep
  <1> QED BY <1>1, <1>2, InductiveInvariant, PTL
          DEF Spec, OwnsItsService, Exclusive!Spec

-----------------------------------------------------------------------------
(* NoStaleOverwrite: what a run writes to a service is never of an older   *)
(* generation than what is there.  GenInv is invariant together with IInv. *)

(* What a step promises. *)
GenStep == GenInv' /\ WritesNoOlder

(* A step that leaves the generations in Opsgenie alone.                   *)
RemoteGensStay ==
    \A id \in Ids :
        Exists(id)' => Exists(id) /\ remote'[id].gen = remote[id].gen

(* Versions are objects, their generations numbers.                        *)
LEMMA VersionTypes ==
    ASSUME IInv, NEW k \in CRs
    PROVE  /\ versions[k] \in Seq(Object) /\ Len(versions[k]) \in Nat \ {0}
           /\ DOMAIN versions[k] = 1..Len(versions[k])
           /\ \A i \in 1..Len(versions[k]) :
                 /\ versions[k][i] \in Objects(k) /\ versions[k][i] \in Object
                 /\ versions[k][i].gen \in Nat
           /\ \A o \in Objects(k) :
                 \E i \in 1..Len(versions[k]) : o = versions[k][i]
  <1>1. versions[k] \in Seq(Object) /\ versions[k] # <<>>
    BY DEF IInv, RuntimeInv, RuntimeTypeOK
  <1>2. Len(versions[k]) \in Nat \ {0} /\ DOMAIN versions[k] = 1..Len(versions[k])
    BY <1>1
  <1>3. \A i \in 1..Len(versions[k]) : versions[k][i] \in Object
    BY <1>1
  <1>4. \A o \in Object : o.gen \in Nat
    BY DEF Object
  <1> QED BY <1>1, <1>2, <1>3, <1>4 DEF Objects

(* No version of a bound CR is ahead of the newest or behind the cached.   *)
LEMMA NewestIsLast ==
    ASSUME IInv, SortedGens, NEW k \in CRs, NEW o \in Objects(k),
           o.status.id # None
    PROVE  /\ o.status.id = Latest(k).status.id => o.gen <= Latest(k).gen
           /\ o.status.id = Cached(k).status.id => Cached(k).gen <= o.gen
  <1>1. /\ Len(versions[k]) \in Nat \ {0} /\ versions[k] \in Seq(Object)
        /\ DOMAIN versions[k] = 1..Len(versions[k])
        /\ \E i \in 1..Len(versions[k]) : o = versions[k][i]
    BY VersionTypes
  <1>2. PICK i \in 1..Len(versions[k]) : o = versions[k][i]
    BY <1>1
  <1>3. /\ 1 \in DOMAIN versions[k] /\ Len(versions[k]) \in DOMAIN versions[k]
        /\ i \in DOMAIN versions[k] /\ 1 <= i /\ i <= Len(versions[k])
        /\ Cached(k) = versions[k][1] /\ Latest(k) = versions[k][Len(versions[k])]
    BY <1>1, <1>2 DEF Cached, Latest
  <1> QED BY <1>2, <1>3 DEF SortedGens

(* A version whose generation is not behind that of those bound alike.     *)
LEMMA AppendSorted ==
    ASSUME IInv, SortedGens, NEW k \in CRs, NEW n \in Object,
           versions'[k] = Append(versions[k], n),
           \A c \in CRs \ {k} : versions'[c] = versions[c],
           \A o \in Objects(k) :
              o.status.id # None /\ o.status.id = n.status.id => o.gen <= n.gen
    PROVE  SortedGens'
  <1>1. /\ Len(versions[k]) \in Nat \ {0} /\ versions[k] \in Seq(Object)
        /\ DOMAIN versions[k] = 1..Len(versions[k])
        /\ \A i \in 1..Len(versions[k]) : versions[k][i] \in Objects(k)
    BY VersionTypes
  <1>2. /\ DOMAIN versions'[k] = 1..(Len(versions[k]) + 1)
        /\ \A i \in 1..Len(versions[k]) : versions'[k][i] = versions[k][i]
        /\ versions'[k][Len(versions[k]) + 1] = n
    BY <1>1
  <1>3. n.gen \in Nat
    BY DEF Object
  <1>4. SUFFICES ASSUME NEW c \in CRs,
                        NEW i \in DOMAIN versions'[c], NEW j \in DOMAIN versions'[c],
                        i <= j, versions'[c][i].status.id # None,
                        versions'[c][i].status.id = versions'[c][j].status.id
                 PROVE  versions'[c][i].gen <= versions'[c][j].gen
    BY DEF SortedGens
  <1>5. CASE c # k
    BY <1>4, <1>5 DEF SortedGens
  <1>6. CASE c = k /\ j = Len(versions[k]) + 1
    <2>1. CASE i = j
      BY <1>2, <1>3, <1>6, <2>1
    <2>2. CASE i # j
      <3>1. i \in 1..Len(versions[k])
        BY <1>1, <1>2, <1>4, <1>6, <2>2
      <3> QED BY <1>1, <1>2, <1>4, <1>6, <3>1
    <2> QED BY <2>1, <2>2
  <1>7. CASE c = k /\ j # Len(versions[k]) + 1
    <2>1. i \in 1..Len(versions[k]) /\ j \in 1..Len(versions[k])
      BY <1>1, <1>2, <1>4, <1>7
    <2> QED BY <1>1, <1>2, <1>4, <1>7, <2>1 DEF SortedGens
  <1> QED BY <1>5, <1>6, <1>7

-----------------------------------------------------------------------------
(* What the steps of the worker do to the generations in Opsgenie.         *)

(* Opsgenie is not touched, or only in fields other than the generation.   *)
LEMMA RemoteStays ==
    ASSUME IInv, GenInv, UNCHANGED versions, RemoteGensStay
    PROVE  WrittenGens' /\ WritesNoOlder
  <1>1. \A c \in CRs : Objects(c)' = Objects(c)
    BY DEF Objects
  <1>2. \A o : Exists(o.status.id)' => o.status.id \in Ids
    BY DEF Exists
  <1>3. WrittenGens'
    BY <1>1, <1>2 DEF RemoteGensStay, WrittenGens, GenInv
  <1>4. \A id \in Ids : Exists(id) => remote[id].gen \in Nat
    BY DEF Exists, IInv, TypeOK, Service
  <1> QED BY <1>3, <1>4 DEF WritesNoOlder, RemoteGensStay

(* A step that leaves Opsgenie alone leaves the generations there.         *)
LEMMA SameRemoteGens ==
    ASSUME UNCHANGED remote
    PROVE  RemoteGensStay
  BY DEF RemoteGensStay, Exists

(* A step that keeps the generations in Opsgenie writes no older one.      *)
LEMMA NoOlder ==
    ASSUME IInv, RemoteGensStay
    PROVE  WritesNoOlder
  <1>1. \A id \in Ids : Exists(id) => remote[id].gen \in Nat
    BY DEF Exists, IInv, TypeOK, Service
  <1> QED BY <1>1 DEF WritesNoOlder, RemoteGensStay

(* A new version may be of any generation that is not behind that of the   *)
(* versions bound alike, and of its service.                               *)
LEMMA WriteGens ==
    ASSUME IInv, GenInv, UNCHANGED remote,
           NEW k \in CRs, NEW o \in Object, Write(k, o),
           \A p \in Objects(k) :
              p.status.id # None /\ p.status.id = o.status.id => p.gen <= o.gen,
           Exists(o.status.id) => remote[o.status.id].gen <= o.gen
    PROVE  SortedGens' /\ WrittenGens'
  <1>1. PICK rv \in RVs \ HeldVersions(k) :
               LET n == [o EXCEPT !.rv = rv] IN
               /\ n \in Object
               /\ versions'[k] = Append(versions[k], n)
               /\ Objects(k)' = Objects(k) \cup {n}
               /\ \A c \in CRs \ {k} : versions'[c] = versions[c]
    BY WriteEffect DEF IInv, RuntimeInv
  <1> DEFINE n == [o EXCEPT !.rv = rv]
  <1>2. n \in Object /\ n.gen = o.gen /\ n.status = o.status
    BY <1>1 DEF Object
  <1>3. /\ versions'[k] = Append(versions[k], n)
        /\ Objects(k)' = Objects(k) \cup {n}
        /\ \A c \in CRs \ {k} : versions'[c] = versions[c]
    BY <1>1
  <1> HIDE DEF n
  <1>4. SortedGens'
    BY <1>2, <1>3, AppendSorted DEF GenInv
  <1>5. \A c \in CRs \ {k} : Objects(c)' = Objects(c)
    BY <1>3, SameVersions
  <1>6. ASSUME NEW c \in CRs, NEW p \in Objects(c)', Exists(p.status.id)
        PROVE  remote[p.status.id].gen <= p.gen
    <2>1. p = n \/ p \in Objects(c)
      BY <1>3, <1>5
    <2> QED BY <1>2, <1>6, <2>1 DEF GenInv, WrittenGens
  <1>7. WrittenGens'
    BY <1>6 DEF WrittenGens, Exists
  <1> QED BY <1>4, <1>7

(* An Update raises the generation of the service to that of the copy,     *)
(* which no version bound to that service is behind.                       *)
LEMMA UpdateGens ==
    ASSUME IInv, GenInv, pc # "idle", UNCHANGED versions, UpdateApplied
    PROVE  /\ WrittenGens' /\ WritesNoOlder
           /\ remote'[cr.status.id].gen <= cr.gen
  <1> DEFINE id == cr.status.id
  <1>1. PICK tags : Store(id, Patched(cr.spec, tags, cr.gen, remote[id]))
    BY DEF UpdateApplied
  <1>2. id \in Ids /\ Exists(id) /\ remote[id] \in Service /\ cr.gen \in Nat
    BY <1>1, Running DEF Store, Exists, IInv, TypeOK
  <1>3. /\ remote'[id].gen = cr.gen
        /\ \A d \in Ids \ {id} : remote'[d] = remote[d]
    BY <1>1, <1>2 DEF Store, Patched, Service, IInv, TypeOK
  <1>4. \A d \in Ids \ {id} : Exists(d)' <=> Exists(d)
    BY <1>3 DEF Exists
  <1>5. remote[id].gen <= cr.gen
    BY <1>2 DEF GenInv, CopyGens
  <1>6. id # None
    BY <1>2, OpsgenieAssumption
  <1> HIDE DEF id
  <1>7. ASSUME NEW c \in CRs, NEW o \in Objects(c), Exists(o.status.id)'
        PROVE  remote'[o.status.id].gen <= o.gen
    <2>1. o.status.id \in Ids
      BY <1>7 DEF Exists
    <2>2. CASE o.status.id = id
      <3>1. c = key
        BY <1>2, <1>6, <2>2, OpsgenieAssumption DEF id, IInv, BindingInv
      <3> QED BY <1>3, <1>6, <2>2, <3>1 DEF id, GenInv, CopyGens
    <2>3. CASE o.status.id # id
      BY <1>3, <1>4, <1>7, <2>1, <2>3 DEF GenInv, WrittenGens
    <2> QED BY <2>2, <2>3
  <1>8. WrittenGens'
    BY <1>7 DEF WrittenGens, Objects
  <1>9. \A d \in Ids : Exists(d) => remote[d].gen \in Nat
    BY DEF Exists, IInv, TypeOK, Service
  <1>10. WritesNoOlder
    BY <1>3, <1>5, <1>9 DEF WritesNoOlder
  <1> QED BY <1>2, <1>3, <1>8, <1>10 DEF id

(* A Create takes an identifier that no version has.                       *)
LEMMA CreateGens ==
    ASSUME IInv, GenInv, pc # "idle", UNCHANGED versions, CreateApplied
    PROVE  /\ WrittenGens' /\ WritesNoOlder
           /\ NewId \in Ids /\ remote'[NewId].gen = cr.gen
           /\ \A c \in CRs : \A o \in Objects(c) : o.status.id # NewId
  <1>1. PICK tags : Issue([name |-> cr.spec.name, desc |-> cr.spec.desc,
                           tags |-> tags, team |-> cr.status.owner, gen |-> cr.gen])
    BY DEF CreateApplied
  <1>2. NewId \in Ids /\ remote[NewId] = Unissued
    BY <1>1, NewIdFresh DEF Issue
  <1> DEFINE id == NewId
  <1>3. /\ remote'[id].gen = cr.gen
        /\ \A d \in Ids \ {id} : remote'[d] = remote[d]
    BY <1>1, <1>2 DEF Issue, IInv, TypeOK
  <1>4. \A c \in CRs : \A o \in Objects(c) : o.status.id # id
    BY <1>2, OpsgenieAssumption DEF IInv, BindingInv
  <1> HIDE DEF id
  <1>5. \A d \in Ids \ {id} : Exists(d)' <=> Exists(d)
    BY <1>3 DEF Exists
  <1>6. ~Exists(id)
    BY <1>2 DEF id, Exists, Absent
  <1>7. ASSUME NEW c \in CRs, NEW o \in Objects(c), Exists(o.status.id)'
        PROVE  remote'[o.status.id].gen <= o.gen
    <2>1. o.status.id \in Ids \ {id}
      BY <1>4, <1>7 DEF Exists
    <2> QED BY <1>3, <1>5, <1>7, <2>1 DEF GenInv, WrittenGens
  <1>8. WrittenGens'
    BY <1>7 DEF WrittenGens, Objects
  <1>9. \A d \in Ids : Exists(d) => remote[d].gen \in Nat
    BY DEF Exists, IInv, TypeOK, Service
  <1>10. WritesNoOlder
    BY <1>3, <1>6, <1>9 DEF WritesNoOlder
  <1> QED BY <1>2, <1>3, <1>4, <1>8, <1>10 DEF id

-----------------------------------------------------------------------------
(* Steps of the worker. *)

(* A step that writes no version and ends the run, or leaves it alone.     *)
LEMMA QuietGens ==
    ASSUME IInv, GenInv, UNCHANGED versions, WrittenGens',
           \/ pc' = "idle"
           \/ UNCHANGED <<pc, key, cr>> /\ RemoteGensStay
    PROVE  GenInv'
  <1>1. SortedGens'
    BY DEF SortedGens, GenInv
  <1>2. \A c \in CRs : Objects(c)' = Objects(c)
    BY DEF Objects
  <1>3. ASSUME pc' = "idle" PROVE CopyGens'
    BY <1>3 DEF CopyGens
  <1>4. ASSUME UNCHANGED <<pc, key, cr>>, RemoteGensStay, pc # "idle"
        PROVE  CopyGens'
    <2>1. ASSUME Exists(cr.status.id)'
          PROVE  remote'[cr.status.id].gen <= cr.gen
      <3>1. PICK id \in Ids : id = cr.status.id /\ Exists(id)'
        BY <1>4, <2>1 DEF Exists
      <3>2. Exists(id) /\ remote'[id].gen = remote[id].gen
        BY <1>4, <3>1 DEF RemoteGensStay
      <3>3. remote[id].gen <= cr.gen
        BY <1>4, <3>1, <3>2 DEF GenInv, CopyGens
      <3> QED BY <3>1, <3>2, <3>3
    <2>2. Objects(key)' = Objects(key)
      BY <1>4 DEF Objects
    <2>3. \A o \in Objects(key)' :
             /\ o.status.id = cr.status.id /\ cr.status.id # None
                   => cr.gen <= o.gen
             /\ o.rv = cr.rv =>
                   /\ o.gen = cr.gen
                   /\ \/ o.status.id = cr.status.id
                      \/ \A p \in Objects(key)' : p.status.id # cr.status.id
      BY <1>4, <2>2 DEF GenInv, CopyGens
    <2> QED BY <1>4, <2>1, <2>3 DEF CopyGens
  <1>5. CopyGens'
    BY <1>3, <1>4 DEF CopyGens
  <1> QED BY <1>1, <1>5 DEF GenInv

(* A step inside a run that keeps what the run has read of the CR.         *)
LEMMA GoOnGens ==
    ASSUME IInv, GenInv, pc # "idle", UNCHANGED <<versions, key>>,
           WrittenGens', cr'.rv = cr.rv, cr'.gen = cr.gen,
           cr'.status.id = cr.status.id,
           cr.status.id \in Ids /\ remote'[cr.status.id] \notin Absent
              => remote'[cr.status.id].gen <= cr.gen
    PROVE  GenInv'
  <1>1. SortedGens'
    BY DEF SortedGens, GenInv
  <1>2. Objects(key)' = Objects(key)
    BY DEF Objects
  <1>3. Exists(cr.status.id)' => remote'[cr'.status.id].gen <= cr'.gen
    BY DEF Exists
  <1>4. CopyGens'
    BY <1>2, <1>3 DEF GenInv, CopyGens
  <1> QED BY <1>1, <1>4 DEF GenInv

(* ResolveTeam and FetchService. *)
LEMMA ReadGens ==
    ASSUME IInv, GenInv, ResolveTeam \/ FetchService
    PROVE  GenStep
  <1>1. UNCHANGED <<versions, remote>> /\ pc # "idle"
    BY DEF ResolveTeam, FetchService
  <1>2. RemoteGensStay /\ WrittenGens' /\ WritesNoOlder
    BY <1>1, SameRemoteGens, RemoteStays
  <1>3. \/ pc' = "idle"
        \/ /\ key' = key /\ cr'.rv = cr.rv /\ cr'.gen = cr.gen
           /\ cr'.status.id = cr.status.id
    <2>1. cr \in Object
      BY <1>1, Running
    <2> QED BY <2>1 DEF ResolveTeam, FetchService, Fail, ReturnRequeue,
                        ReturnDone, Idle, Object, Status
  <1>4. cr.status.id \in Ids /\ remote'[cr.status.id] \notin Absent
           => remote'[cr.status.id].gen <= cr.gen
    BY <1>1 DEF Exists, GenInv, CopyGens
  <1> QED BY <1>1, <1>2, <1>3, <1>4, QuietGens, GoOnGens DEF GenStep

(* service:86: the update writes the generation of the copy. *)
LEMMA UpdateServiceGens ==
    ASSUME IInv, GenInv, UpdateService
    PROVE  GenStep
  <1>1. UNCHANGED versions /\ pc # "idle"
    BY DEF UpdateService
  <1>2. CASE UpdateApplied /\ UNCHANGED <<key, cr>>
    BY <1>1, <1>2, UpdateGens, GoOnGens DEF GenStep
  <1>3. CASE UpdateApplied /\ pc' = "idle"
    BY <1>1, <1>3, UpdateGens, QuietGens DEF GenStep
  <1>4. CASE UNCHANGED remote /\ pc' = "idle"
    BY <1>1, <1>4, SameRemoteGens, RemoteStays, QuietGens DEF GenStep
  <1> QED BY <1>2, <1>3, <1>4 DEF UpdateService, Fail, ReturnRequeue, Idle

(* service:100: the service created is of the generation of the copy. *)
LEMMA CreateServiceGens ==
    ASSUME IInv, GenInv, CreateService
    PROVE  GenStep
  <1>1. UNCHANGED versions /\ pc # "idle" /\ pc = "creating"
    BY DEF CreateService
  <1>2. CASE /\ CreateApplied /\ UNCHANGED key
             /\ cr' = [cr EXCEPT !.status.id = NewId]
    <2>1. /\ WrittenGens' /\ WritesNoOlder
          /\ NewId \in Ids /\ remote'[NewId].gen = cr.gen
          /\ \A c \in CRs : \A o \in Objects(c) : o.status.id # NewId
      BY <1>1, <1>2, CreateGens
    <2>2. /\ key \in CRs /\ cr'.rv = cr.rv /\ cr'.gen = cr.gen /\ cr.gen \in Nat
          /\ cr'.status.id = NewId
      BY <1>1, <1>2, Running DEF Object, Status
    <2>3. Objects(key)' = Objects(key)
      BY <1>1, <1>2 DEF Objects
    <2>4. CopyGens'
      <3>1. remote'[cr'.status.id].gen <= cr'.gen
        BY <2>1, <2>2
      <3>2. \A o \in Objects(key)' :
               /\ o.status.id # cr'.status.id
               /\ o.rv = cr'.rv => o.gen = cr'.gen
        BY <1>1, <2>1, <2>2, <2>3 DEF GenInv, CopyGens
      <3> QED BY <1>2, <3>1, <3>2 DEF CopyGens
    <2>5. SortedGens'
      BY <1>1 DEF SortedGens, GenInv
    <2> QED BY <2>1, <2>4, <2>5 DEF GenStep, GenInv
  <1>3. CASE CreateApplied /\ pc' = "idle"
    BY <1>1, <1>3, CreateGens, QuietGens DEF GenStep
  <1>4. CASE UNCHANGED remote /\ pc' = "idle"
    BY <1>1, <1>4, SameRemoteGens, RemoteStays, QuietGens DEF GenStep
  <1> QED BY <1>2, <1>3, <1>4 DEF CreateService, Fail, ReturnRequeue, Idle

(* SaveStatus: the newest version is the one the run has read, so the one  *)
(* that replaces it is of the copy's generation.                           *)
LEMMA SaveGens ==
    ASSUME IInv, GenInv, SaveStatus
    PROVE  GenStep
  <1>1. pc = "saving" /\ pc' = "idle" /\ UNCHANGED remote
    BY DEF SaveStatus, ReturnRequeue, Idle
  <1>2. RemoteGensStay
    BY <1>1, SameRemoteGens
  <1>3. CASE UNCHANGED versions
    BY <1>1, <1>2, <1>3, RemoteStays, QuietGens DEF GenStep
  <1>4. CASE StoreStatus
    <2>1. PICK k \in CRs : key = k
      BY <1>1, Running
    <2> DEFINE o == [Latest(k) EXCEPT !.status = cr.status]
    <2>2. /\ cr \in Object /\ cr.gen \in Nat
          /\ Write(k, o) /\ Latest(k).rv = cr.rv
      BY <1>1, <1>4, <2>1, Running DEF StoreStatus, StatusCurrent
    <2>3. Latest(k) \in Objects(k) /\ Latest(k) \in Object
      BY VersionsOfCR DEF IInv, RuntimeInv
    <2>4. o \in Object /\ o.gen = Latest(k).gen /\ o.status = cr.status
      BY <2>2, <2>3 DEF Object
    <2>5. /\ Latest(k).gen = cr.gen
          /\ \/ Latest(k).status.id = cr.status.id
             \/ \A p \in Objects(k) : p.status.id # cr.status.id
      BY <1>1, <2>1, <2>2, <2>3 DEF GenInv, CopyGens
    <2>6. \A p \in Objects(k) :
             p.status.id # None /\ p.status.id = o.status.id => p.gen <= o.gen
      BY <2>4, <2>5, NewestIsLast DEF GenInv
    <2>7. Exists(o.status.id) => remote[o.status.id].gen <= o.gen
      BY <1>1, <2>4, <2>5 DEF GenInv, CopyGens
    <2> HIDE DEF o
    <2>8. SortedGens' /\ WrittenGens'
      BY <1>1, <2>2, <2>4, <2>6, <2>7, WriteGens
    <2>9. WritesNoOlder
      BY <1>2, NoOlder
    <2> QED BY <1>1, <2>8, <2>9 DEF GenStep, GenInv, CopyGens
  <1> QED BY <1>3, <1>4 DEF SaveStatus

(* Reconcile: the copy is the cached version, which no other is behind.    *)
LEMMA StartGens ==
    ASSUME IInv, GenInv, NEW k \in CRs, Reconcile(k)
    PROVE  GenStep
  <1>1. /\ UNCHANGED <<versions, remote>> /\ pc = "idle"
        /\ \/ UNCHANGED <<pc, key, cr>>
           \/ key' = k /\ cr' = Cached(k) /\ pc' = "resolving"
    BY DEF Reconcile, Get
  <1>2. RemoteGensStay /\ WrittenGens' /\ WritesNoOlder
    BY <1>1, SameRemoteGens, RemoteStays
  <1>3. CASE UNCHANGED <<pc, key, cr>>
    BY <1>1, <1>2, <1>3, QuietGens DEF GenStep
  <1>4. CASE key' = k /\ cr' = Cached(k)
    <2>1. Cached(k) \in Objects(k) /\ Objects(k)' = Objects(k)
      BY <1>1, VersionsOfCR DEF Objects, IInv, RuntimeInv
    <2>2. Exists(cr.status.id)' => remote'[cr'.status.id].gen <= cr'.gen
      BY <1>1, <1>4, <2>1 DEF Exists, GenInv, WrittenGens
    <2>3. \A o \in Objects(k) :
             /\ o.status.id = Cached(k).status.id /\ o.status.id # None
                   => Cached(k).gen <= o.gen
             /\ o.rv = Cached(k).rv => o = Cached(k)
      BY <2>1, NewestIsLast DEF GenInv, IInv, RuntimeInv
    <2>4. CopyGens'
      BY <1>4, <2>1, <2>2, <2>3 DEF CopyGens
    <2>5. SortedGens'
      BY <1>1 DEF SortedGens, GenInv
    <2> QED BY <1>2, <2>4, <2>5 DEF GenStep, GenInv
  <1> QED BY <1>1, <1>3, <1>4

-----------------------------------------------------------------------------
(* The environment. *)

(* The run goes on while versions come and go: a new one has no id, or one *)
(* that an older version has, and is not behind that version.              *)
LEMMA CopyStaysFit ==
    ASSUME IInv, GenInv, UNCHANGED <<pc, key, cr, remote>>,
           NEW k \in CRs, k = key,
           \A p \in Objects(k)' :
              \/ p \in Objects(k)
              \/ /\ p \in Object /\ p.rv # cr.rv
                 /\ \/ p.status.id = None
                    \/ \E q \in Objects(k) :
                          p.status.id = q.status.id /\ q.gen <= p.gen
    PROVE  CopyGens'
  <1> SUFFICES ASSUME pc # "idle" PROVE CopyGens'
    BY DEF CopyGens
  <1>1. cr.gen \in Nat /\ \A p \in Object : p.gen \in Nat
    BY Running DEF Object
  <1>2. Objects(k) \subseteq Object
    BY VersionsOfCR DEF IInv, RuntimeInv
  <1>3. Exists(cr.status.id)' => remote'[cr.status.id].gen <= cr.gen
    BY DEF Exists, GenInv, CopyGens
  <1>4. ASSUME NEW p \in Objects(k)', p.status.id = cr.status.id,
               cr.status.id # None
        PROVE  cr.gen <= p.gen
    <2>1. CASE p \in Objects(k)
      BY <1>4, <2>1 DEF GenInv, CopyGens
    <2>2. ASSUME NEW q \in Objects(k), p \in Object,
                 p.status.id = q.status.id, q.gen <= p.gen
          PROVE  cr.gen <= p.gen
      <3>1. cr.gen <= q.gen
        BY <1>4, <2>2 DEF GenInv, CopyGens
      <3>2. q.gen \in Nat /\ p.gen \in Nat
        BY <1>1, <1>2, <2>2
      <3> QED BY <1>1, <2>2, <3>1, <3>2
    <2> QED BY <1>4, <2>1, <2>2
  <1>5. ASSUME NEW p \in Objects(k)', p.rv = cr.rv
        PROVE  /\ p.gen = cr.gen
               /\ \/ p.status.id = cr.status.id
                  \/ \A q \in Objects(k)' : q.status.id # cr.status.id
    <2>1. p \in Objects(k)
      BY <1>5
    <2>2. /\ p.gen = cr.gen
          /\ \/ p.status.id = cr.status.id
             \/ \A q \in Objects(k) : q.status.id # cr.status.id
      BY <1>5, <2>1 DEF GenInv, CopyGens
    <2>3. p.status.id # None => cr.status.id = p.status.id
      BY <1>5, <2>1 DEF IInv, BindingInv, CopyKeepsBinding
    <2> QED BY <2>2, <2>3
  <1>6. key' = k /\ cr' = cr
    OBVIOUS
  <1> QED BY <1>3, <1>4, <1>5, <1>6 DEF CopyGens

(* Another CR's versions do not matter to a run. *)
LEMMA OthersCopy ==
    ASSUME IInv, GenInv, UNCHANGED <<pc, key, cr, remote>>,
           key \in CRs => Objects(key)' = Objects(key)
    PROVE  CopyGens'
  <1> SUFFICES ASSUME pc # "idle" PROVE CopyGens'
    BY DEF CopyGens
  <1>1. key \in CRs
    BY Running
  <1> QED BY <1>1, CopyStaysFit

(* Users only add versions without a service, or of a later generation.    *)
LEMMA UserGens ==
    ASSUME IInv, GenInv, NEW k \in CRs, User(k)
    PROVE  GenStep
  <1>1. UNCHANGED <<pc, key, cr, remote>>
    BY DEF User, ApplyCR, DeleteCR
  <1>2. Latest(k) \in Objects(k) /\ Latest(k) \in Object
    BY VersionsOfCR DEF IInv, RuntimeInv
  <1>3. PICK o \in Object :
            /\ Write(k, o)
            /\ \/ o.status.id = None
               \/ /\ o.status.id = Latest(k).status.id
                  /\ Latest(k).gen <= o.gen
    <2>1. NoObject \in Object /\ NoObject.status.id = None
      BY NoObjectType DEF NoObject, NoStatus
    <2>2. CASE DeleteCR(k)
      BY <2>1, <2>2 DEF DeleteCR
    <2>3. ASSUME NEW s \in Specs, ApplyCR(k, s), Latest(k).live
          PROVE  \E o \in Object :
                    /\ Write(k, o)
                    /\ o.status.id = Latest(k).status.id
                    /\ Latest(k).gen <= o.gen
      <3> DEFINE o == [Latest(k) EXCEPT !.gen = @ + 1, !.spec = s]
      <3>1. Write(k, o)
        BY <2>3 DEF ApplyCR
      <3>2. o \in Object /\ o.status = Latest(k).status
        BY <1>2, EditedObject
      <3>3. Latest(k).gen <= o.gen
        BY <1>2 DEF Object
      <3> QED BY <3>1, <3>2, <3>3
    <2>4. ASSUME NEW s \in Specs, ApplyCR(k, s), ~Latest(k).live
          PROVE  \E o \in Object : Write(k, o) /\ o.status.id = None
      <3> DEFINE o == [NoObject EXCEPT !.live = TRUE, !.gen = 1, !.spec = s]
      <3>1. Write(k, o)
        BY <2>4 DEF ApplyCR
      <3>2. o \in Object /\ o.status.id = None
        BY <2>1 DEF Object, NoObject, NoStatus
      <3> QED BY <3>1, <3>2
    <2> QED BY <2>2, <2>3, <2>4 DEF User
  <1>4. \A p \in Objects(k) :
           p.status.id # None /\ p.status.id = o.status.id => p.gen <= o.gen
    <2>1. SUFFICES ASSUME NEW p \in Objects(k), p.status.id # None,
                          p.status.id = o.status.id
                   PROVE  p.gen <= o.gen
      OBVIOUS
    <2>2. p.gen <= Latest(k).gen
      BY <1>3, <2>1, NewestIsLast DEF GenInv
    <2>3. p.gen \in Nat /\ Latest(k).gen \in Nat /\ o.gen \in Nat
      BY <1>2, VersionsOfCR DEF IInv, RuntimeInv, Object
    <2> QED BY <1>3, <2>1, <2>2, <2>3
  <1>5. Exists(o.status.id) => remote[o.status.id].gen <= o.gen
    <2>1. SUFFICES ASSUME Exists(o.status.id)
                   PROVE  remote[o.status.id].gen <= o.gen
      OBVIOUS
    <2>2. o.status.id # None /\ remote[o.status.id].gen \in Nat
      BY <2>1, OpsgenieAssumption DEF Exists, IInv, TypeOK, Service
    <2>3. remote[o.status.id].gen <= Latest(k).gen
      BY <1>2, <1>3, <2>1, <2>2 DEF GenInv, WrittenGens
    <2>4. Latest(k).gen \in Nat /\ o.gen \in Nat
      BY <1>2 DEF Object
    <2> QED BY <1>3, <2>2, <2>3, <2>4
  <1>6. SortedGens' /\ WrittenGens'
    BY <1>1, <1>3, <1>4, <1>5, WriteGens
  <1>7. CopyGens'
    <2>1. PICK rv \in RVs \ HeldVersions(k) :
               LET n == [o EXCEPT !.rv = rv] IN
               /\ n \in Object
               /\ Objects(k)' = Objects(k) \cup {n}
               /\ \A c \in CRs \ {k} : versions'[c] = versions[c]
      BY <1>3, WriteEffect DEF IInv, RuntimeInv
    <2> DEFINE n == [o EXCEPT !.rv = rv]
    <2>2. /\ n \in Object /\ n.gen = o.gen /\ n.status = o.status /\ n.rv = rv
          /\ n.rv # cr.rv
      BY <2>1 DEF Object, HeldVersions
    <2>3. Objects(k)' = Objects(k) \cup {n}
      BY <2>1
    <2> HIDE DEF n
    <2>4. CASE key = k
      BY <1>1, <1>2, <1>3, <2>2, <2>3, <2>4, CopyStaysFit
    <2>5. CASE key # k
      BY <1>1, <2>1, <2>5, SameVersions, OthersCopy
    <2> QED BY <2>4, <2>5
  <1> QED BY <1>1, <1>6, <1>7, SameRemoteGens, NoOlder DEF GenStep, GenInv

(* The watch drops a version, and a timer none. *)
LEMMA RuntimeGens ==
    ASSUME IInv, GenInv, NEW k \in CRs, Runtime(k)
    PROVE  GenStep
  <1>1. UNCHANGED <<pc, key, cr, remote>>
    BY DEF Runtime, WatchEvent, Timer
  <1>2. RemoteGensStay /\ WritesNoOlder
    BY <1>1, SameRemoteGens, NoOlder
  <1>3. CASE Timer(k)
    <2>1. UNCHANGED versions
      BY <1>3 DEF Timer
    <2> QED BY <1>1, <1>2, <2>1, RemoteStays, QuietGens DEF GenStep
  <1>4. CASE WatchEvent(k)
    <2>1. /\ Objects(k)' \subseteq Objects(k)
          /\ \A c \in CRs \ {k} : versions'[c] = versions[c]
      BY <1>4, WatchEffect DEF IInv, RuntimeInv
    <2>2. \A c \in CRs : Objects(c)' \subseteq Objects(c)
      BY <2>1, SameVersions
    <2>3. WrittenGens'
      <3>1. ASSUME NEW c \in CRs, NEW p \in Objects(c)', Exists(p.status.id)
            PROVE  remote[p.status.id].gen <= p.gen
        BY <2>2, <3>1 DEF GenInv, WrittenGens
      <3> QED BY <1>1, <3>1 DEF WrittenGens, Exists
    <2>4. CopyGens'
      <3>1. CASE key = k
        BY <1>1, <2>1, <3>1, CopyStaysFit
      <3>2. CASE key # k
        BY <1>1, <2>1, <3>2, SameVersions, OthersCopy
      <3> QED BY <3>1, <3>2
    <2>5. SortedGens'
      <3>1. /\ versions[k] \in Seq(Object) /\ Len(versions[k]) \in Nat \ {0}
            /\ Len(versions[k]) > 1 /\ versions'[k] = Tail(versions[k])
            /\ DOMAIN versions[k] = 1..Len(versions[k])
        BY <1>4, VersionTypes DEF WatchEvent, IInv, RuntimeInv, RuntimeTypeOK
      <3>2. /\ DOMAIN versions'[k] = 1..(Len(versions[k]) - 1)
            /\ \A i \in 1..(Len(versions[k]) - 1) :
                  versions'[k][i] = versions[k][i + 1]
        BY <3>1
      <3>3. SUFFICES ASSUME NEW c \in CRs, NEW i \in DOMAIN versions'[c],
                            NEW j \in DOMAIN versions'[c],
                            i <= j, versions'[c][i].status.id # None,
                            versions'[c][i].status.id = versions'[c][j].status.id
                     PROVE  versions'[c][i].gen <= versions'[c][j].gen
        BY DEF SortedGens
      <3>4. CASE c # k
        BY <2>1, <3>3, <3>4 DEF GenInv, SortedGens
      <3>5. CASE c = k
        <4> DEFINE a == i + 1
                   b == j + 1
        <4>0. i \in 1..(Len(versions[k]) - 1) /\ j \in 1..(Len(versions[k]) - 1)
          <5>1. i \in DOMAIN versions'[k] /\ j \in DOMAIN versions'[k]
            BY <3>5
          <5> QED BY <3>2, <5>1
        <4>1. /\ a \in DOMAIN versions[k] /\ b \in DOMAIN versions[k] /\ a <= b
              /\ versions'[k][i] = versions[k][a]
              /\ versions'[k][j] = versions[k][b]
          <5>1. a \in 1..Len(versions[k]) /\ b \in 1..Len(versions[k]) /\ a <= b
            BY <3>1, <3>3, <4>0
          <5> QED BY <3>1, <3>2, <4>0, <5>1
        <4> HIDE DEF a, b
        <4>2. /\ versions[k][a].status.id # None
              /\ versions[k][a].status.id = versions[k][b].status.id
          BY <3>3, <3>5, <4>1
        <4>3. versions[k][a].gen <= versions[k][b].gen
          BY <4>1, <4>2 DEF GenInv, SortedGens
        <4> QED BY <3>5, <4>1, <4>3
      <3> QED BY <3>4, <3>5
    <2> QED BY <1>2, <2>3, <2>4, <2>5 DEF GenStep, GenInv
  <1> QED BY <1>3, <1>4 DEF Runtime

(* A restart leaves one version of each CR, and no run.                    *)
LEMMA CrashGens ==
    ASSUME IInv, GenInv, Crash
    PROVE  GenStep
  <1>1. UNCHANGED remote /\ Restart /\ pc' = "idle"
    BY DEF Crash, Restart, Idle
  <1>2. /\ \A c \in CRs : Objects(c)' = {Latest(c)}
        /\ \A c \in CRs : versions'[c] = <<Latest(c)>>
    BY <1>1, RestartEffect DEF Restart, IInv, RuntimeInv
  <1>3. \A c \in CRs : Latest(c) \in Objects(c) /\ Latest(c).gen \in Nat
    BY VersionsOfCR DEF IInv, RuntimeInv, Object
  <1>4. SortedGens'
    <2>1. \A c \in CRs : DOMAIN versions'[c] = {1} /\ versions'[c][1] = Latest(c)
      BY <1>2
    <2> QED BY <1>3, <2>1 DEF SortedGens
  <1>5. WrittenGens'
    <2>1. ASSUME NEW c \in CRs, NEW p \in Objects(c)', Exists(p.status.id)
          PROVE  remote[p.status.id].gen <= p.gen
      BY <1>2, <1>3, <2>1 DEF GenInv, WrittenGens
    <2> QED BY <1>1, <2>1 DEF WrittenGens, Exists
  <1> QED BY <1>1, <1>4, <1>5, SameRemoteGens, NoOlder DEF GenStep, GenInv, CopyGens

(* People do not touch the generation, and a deleted service has none.     *)
LEMMA PeopleGens ==
    ASSUME IInv, GenInv, NEW id \in Ids, Drift(id) \/ Removal(id)
    PROVE  GenStep
  <1>1. UNCHANGED <<versions, pc, key, cr>>
    BY DEF Drift, Removal
  <1>2. RemoteGensStay
    <2>1. CASE Drift(id)
      <3>1. PICK n, d :
               Exists(id) /\ Store(id, [remote[id] EXCEPT !.name = n, !.desc = d])
        BY <2>1 DEF Drift
      <3>2. remote[id] \in Service
        BY <3>1 DEF Exists, IInv, TypeOK
      <3>3. /\ remote'[id].gen = remote[id].gen
            /\ \A i \in Ids \ {id} : remote'[i] = remote[i]
        BY <3>1, <3>2 DEF Store, Service, IInv, TypeOK
      <3> QED BY <3>1, <3>3 DEF RemoteGensStay, Exists
    <2>2. CASE Removal(id)
      <3>1. remote'[id] = Gone /\ \A d \in Ids \ {id} : remote'[d] = remote[d]
        BY <2>2 DEF Removal, Discard, IInv, TypeOK
      <3> QED BY <3>1 DEF RemoteGensStay, Exists, Absent
    <2> QED BY <2>1, <2>2
  <1> QED BY <1>1, <1>2, RemoteStays, QuietGens DEF GenStep

(* Every step keeps GenInv, and writes no older generation.                *)
LEMMA NextGens ==
    ASSUME IInv, GenInv, [Next]_vars
    PROVE  GenStep
  <1>1. CASE Worker
    BY <1>1, ReadGens, UpdateServiceGens, CreateServiceGens, SaveGens DEF Worker
  <1>2. ASSUME UNCHANGED <<versions, pc, key, cr, remote>> PROVE GenStep
    BY <1>2, SameRemoteGens, RemoteStays, QuietGens DEF GenStep
  <1>3. ASSUME NEW t \in TeamRefs, TeamEvent(t) PROVE GenStep
    BY <1>2, <1>3 DEF TeamEvent
  <1>4. CASE UNCHANGED vars
    BY <1>2, <1>4 DEF vars, runtimeVars
  <1> QED BY <1>1, <1>3, <1>4, UserGens, RuntimeGens, StartGens, PeopleGens,
             CrashGens DEF Next

(* Before the first CR nothing is bound, and nothing runs.                 *)
LEMMA InitGens == Init => GenInv
  <1> SUFFICES ASSUME Init PROVE GenInv
    OBVIOUS
  <1>1. \A k \in CRs : versions[k] = <<NoObject>>
    BY DEF Init, RuntimeInit
  <1>2. NoObject.status.id = None /\ pc = "idle"
    BY DEF NoObject, NoStatus, Init, RuntimeInit
  <1>3. \A k \in CRs : DOMAIN versions[k] = {1} /\ versions[k][1] = NoObject
    BY <1>1
  <1>4. SortedGens
    BY <1>2, <1>3 DEF SortedGens
  <1>5. WrittenGens
    BY <1>2, <1>3, OpsgenieAssumption DEF WrittenGens, Objects, Exists
  <1> QED BY <1>2, <1>4, <1>5 DEF GenInv, CopyGens

(* What the operator writes to a service never goes back to an older       *)
(* generation of its CR: stale reads, retries and restarts cannot undo an  *)
(* edit that has reached Opsgenie.                                         *)
THEOREM NothingOlderIsWritten == Spec => NoStaleOverwrite
  <1>1. Init => IInv /\ GenInv
    BY InitIInv, InitGens
  <1>2. IInv /\ GenInv /\ [Next]_vars => (IInv /\ GenInv)' /\ WritesNoOlder
    BY NextIInv, NextGens DEF GenStep
  <1> QED BY <1>1, <1>2, PTL DEF Spec, NoStaleOverwrite

-----------------------------------------------------------------------------
(* DuplicatesBounded: DupInv is invariant together with IInv, for any      *)
(* number of CRs, identifiers and causes.  A step concerns one CR, and one *)
(* of its versions at most, so that each of the sets counted in Debts      *)
(* gains or loses one element.                                             *)

(* A condition, counted. *)
One(b) == IF b THEN 1 ELSE 0

(* A set that gains at most x.                                             *)
LEMMA AtMostOneMore ==
    ASSUME NEW S, IsFiniteSet(S), NEW T, NEW x, \A y \in T : y # x => y \in S
    PROVE  /\ IsFiniteSet(T) /\ Cardinality(S) \in Nat /\ Cardinality(T) \in Nat
           /\ Cardinality(T) + One(x \in S) <= Cardinality(S) + One(x \in T)
  <1> DEFINE U == S \cup {x}
             V == S \ {x}
  <1>1. /\ IsFiniteSet(U) /\ IsFiniteSet(V)
        /\ Cardinality(U) = IF x \in S THEN Cardinality(S) ELSE Cardinality(S) + 1
        /\ Cardinality(V) = IF x \in S THEN Cardinality(S) - 1 ELSE Cardinality(S)
    BY FS_AddElement, FS_RemoveElement
  <1>2. Cardinality(S) \in Nat
    BY FS_CardinalityType
  <1>3. CASE x \in T
    <2>1. T \in SUBSET U
      BY DEF U
    <2>2. IsFiniteSet(T) /\ Cardinality(T) <= Cardinality(U)
      BY <1>1, <2>1, FS_Subset
    <2>3. Cardinality(T) \in Nat
      BY <2>2, FS_CardinalityType
    <2> QED BY <1>1, <1>2, <1>3, <2>2, <2>3 DEF One
  <1>4. CASE x \notin T
    <2>1. T \in SUBSET V
      BY <1>4 DEF V
    <2>2. IsFiniteSet(T) /\ Cardinality(T) <= Cardinality(V)
      BY <1>1, <2>1, FS_Subset
    <2>3. Cardinality(T) \in Nat
      BY <2>2, FS_CardinalityType
    <2> QED BY <1>1, <1>2, <1>4, <2>2, <2>3 DEF One
  <1> QED BY <1>3, <1>4

-----------------------------------------------------------------------------
(* What CR k and its version o contribute. *)
Share(k, o) ==
    One(MayRead(k, o)) + One(Creates(k) /\ ~Current(k))
        + One(Unbound(Latest(k)) /\ ~Saves(k)) + One(k \in Again)

(* A step that does not concern CR c. *)
SameFor(c) ==
    /\ versions'[c] = versions[c]
    /\ c \in queue' <=> c \in queue
    /\ c \in timers' <=> c \in timers
    /\ key' = c <=> key = c
    /\ key = c => UNCHANGED <<pc, cr>>

(* ... leaves its debts as they are. *)
LEMMA SameShare ==
    ASSUME NEW c \in CRs, SameFor(c)
    PROVE  /\ \A o : MayRead(c, o)' <=> MayRead(c, o)
           /\ c \in Doomed' <=> c \in Doomed
           /\ c \in Due' <=> c \in Due
           /\ c \in Again' <=> c \in Again
  <1>1. \A o : MayRead(c, o)' <=> MayRead(c, o)
    BY DEF SameFor, MayRead, Unbound
  <1>2. Latest(c)' = Latest(c)
    BY DEF SameFor, Latest
  <1>3. /\ Current(c)' <=> Current(c)
        /\ Saves(c)' <=> Saves(c)
        /\ Creates(c)' <=> Creates(c)
        /\ Crowded(c)' <=> Crowded(c)
        /\ Unbound(Latest(c))' <=> Unbound(Latest(c))
    BY <1>2 DEF SameFor, Current, Saves, Creates, Crowded, Two, Unbound
  <1> QED BY <1>1, <1>3 DEF Doomed, Due, Again, SameFor

(* Lost holds the versions that may still be read, before and after a step. *)
LEMMA LostPairs ==
    /\ \A k \in CRs : \A o : <<k, o>> \in Lost <=> MayRead(k, o)
    /\ \A k \in CRs : \A o : <<k, o>> \in Lost' <=> MayRead(k, o)'
    /\ \A z \in Lost' : z[1] \in CRs /\ z = <<z[1], z[2]>> /\ MayRead(z[1], z[2])'
    /\ \A z \in Lost : z[1] \in CRs /\ z = <<z[1], z[2]>> /\ MayRead(z[1], z[2])
  <1>1. ASSUME NEW k \in CRs, NEW o, MayRead(k, o)
        PROVE  <<k, o>> \in Lost
    <2>1. o \in Behind(k)
      BY <1>1 DEF MayRead, Behind
    <2> QED BY <1>1, <2>1 DEF Lost
  <1>2. ASSUME NEW k \in CRs, NEW o, MayRead(k, o)'
        PROVE  <<k, o>> \in Lost'
    <2>1. o \in Behind(k)'
      BY <1>2 DEF MayRead, Behind
    <2> QED BY <1>2, <2>1 DEF Lost
  <1>3. \A z \in Lost : z[1] \in CRs /\ z = <<z[1], z[2]>> /\ MayRead(z[1], z[2])
    BY DEF Lost
  <1>4. \A z \in Lost' : z[1] \in CRs /\ z = <<z[1], z[2]>> /\ MayRead(z[1], z[2])'
    BY DEF Lost
  <1>5. \A k \in CRs : \A o : <<k, o>> \in Lost <=> MayRead(k, o)
    BY <1>1, <1>3
  <1>6. \A k \in CRs : \A o : <<k, o>> \in Lost' <=> MayRead(k, o)'
    BY <1>2, <1>4
  <1> QED BY <1>3, <1>4, <1>5, <1>6

(* A step that concerns one CR, and one of its versions.                   *)
LEMMA OneShare ==
    ASSUME FiniteDebts, NEW k \in CRs, NEW o,
           \A c \in CRs \ {k} : SameFor(c),
           \A p : p # o /\ MayRead(k, p)' => MayRead(k, p)
    PROVE  /\ FiniteDebts' /\ Debts \in Nat /\ Debts' \in Nat
           /\ Debts' + Share(k, o) <= Debts + Share(k, o)'
  <1>1. /\ k \in Doomed <=> Creates(k) /\ ~Current(k)
        /\ k \in Due <=> Unbound(Latest(k)) /\ ~Saves(k)
        /\ k \in Doomed' <=> (Creates(k) /\ ~Current(k))'
        /\ k \in Due' <=> (Unbound(Latest(k)) /\ ~Saves(k))'
        /\ <<k, o>> \in Lost <=> MayRead(k, o)
        /\ <<k, o>> \in Lost' <=> MayRead(k, o)'
    <2>1. /\ <<k, o>> \in Lost <=> MayRead(k, o)
          /\ <<k, o>> \in Lost' <=> MayRead(k, o)'
      BY LostPairs
    <2> QED BY <2>1 DEF Doomed, Due
  <1>2. /\ \A c \in Doomed' : c # k => c \in Doomed
        /\ \A c \in Due' : c # k => c \in Due
        /\ \A c \in Again' : c # k => c \in Again
    <2>1. \A c \in Doomed' \cup Due' \cup Again' : c \in CRs
      BY DEF Doomed, Due, Again
    <2> QED BY <2>1, SameShare
  <1>3. \A z \in Lost' : z # <<k, o>> => z \in Lost
    <2>1. SUFFICES ASSUME NEW z \in Lost', z # <<k, o>> PROVE z \in Lost
      OBVIOUS
    <2>2. z[1] \in CRs /\ z = <<z[1], z[2]>> /\ MayRead(z[1], z[2])'
      BY <2>1, LostPairs
    <2>3. MayRead(z[1], z[2])
      <3>1. CASE z[1] = k
        <4>1. z[2] # o
          BY <2>1, <2>2, <3>1
        <4> QED BY <2>2, <3>1, <4>1
      <3>2. CASE z[1] # k
        BY <2>2, <3>2, SameShare
      <3> QED BY <3>1, <3>2
    <2> QED BY <2>2, <2>3, LostPairs
  <1>4. /\ IsFiniteSet(Doomed)' /\ Cardinality(Doomed) \in Nat
        /\ Cardinality(Doomed)' \in Nat
        /\ Cardinality(Doomed)' + One(k \in Doomed)
              <= Cardinality(Doomed) + One(k \in Doomed')
    BY <1>2, AtMostOneMore DEF FiniteDebts
  <1>5. /\ IsFiniteSet(Due)' /\ Cardinality(Due) \in Nat
        /\ Cardinality(Due)' \in Nat
        /\ Cardinality(Due)' + One(k \in Due)
              <= Cardinality(Due) + One(k \in Due')
    BY <1>2, AtMostOneMore DEF FiniteDebts
  <1>6. /\ IsFiniteSet(Again)' /\ Cardinality(Again) \in Nat
        /\ Cardinality(Again)' \in Nat
        /\ Cardinality(Again)' + One(k \in Again)
              <= Cardinality(Again) + One(k \in Again')
    BY <1>2, AtMostOneMore DEF FiniteDebts
  <1>7. /\ IsFiniteSet(Lost)' /\ Cardinality(Lost) \in Nat
        /\ Cardinality(Lost)' \in Nat
        /\ Cardinality(Lost)' + One(<<k, o>> \in Lost)
              <= Cardinality(Lost) + One(<<k, o>> \in Lost')
    BY <1>3, AtMostOneMore DEF FiniteDebts
  <1>8. FiniteDebts'
    BY <1>4, <1>5, <1>6, <1>7 DEF FiniteDebts
  <1> QED BY <1>1, <1>4, <1>5, <1>6, <1>7, <1>8 DEF Debts, Share, One

-----------------------------------------------------------------------------
(* A run on the newest version of a CR that is cached has no other.        *)
LEMMA CurrentAlone ==
    ASSUME IInv, PlaceInv, NEW k \in CRs, pc # "idle", Current(k)
    PROVE  Len(versions[k]) = 1
  <1>1. Len(versions[k]) \in Nat \ {0}
    BY VersionTypes
  <1>2. Len(versions[k]) \in 1..Len(versions[k])
    BY <1>1
  <1> QED BY <1>2 DEF Current, Latest, PlaceInv, CopyIsOldest

(* A run that creates on the newest version knows no id because there is   *)
(* none.                                                                   *)
LEMMA CurrentUnbound ==
    ASSUME IInv, NEW k \in CRs, Creates(k), Current(k)
    PROVE  Unbound(Latest(k))
  <1>1. Latest(k) \in Objects(k)
    BY VersionsOfCR DEF IInv, RuntimeInv
  <1>2. pc # "idle" /\ cr.status.id = None /\ key = k
    BY DEF Creates, IInv, BindingInv
  <1> QED BY <1>1, <1>2 DEF IInv, BindingInv, CopyKeepsBinding, Current, Unbound

(* The newest version of a CR is one of its versions. *)
LEMMA LatestType ==
    ASSUME IInv, NEW k \in CRs
    PROVE  /\ Len(versions[k]) \in Nat \ {0}
           /\ Latest(k) = versions[k][Len(versions[k])]
           /\ Cached(k) = versions[k][1]
           /\ \A i \in 1..Len(versions[k]) : versions[k][i] \in Object
  BY VersionTypes DEF Latest, Cached

(* CR k's own part of a step that ends a run. *)
LEMMA EndShare ==
    ASSUME IInv, PlaceInv, pc # "idle", NEW k \in CRs, key = k, Idle,
           timers' \in {timers, timers \cup {k}}, UNCHANGED <<versions, queue>>
    PROVE  /\ \A c \in CRs \ {k} : SameFor(c)
           /\ \A o : MayRead(k, o)' <=> MayRead(k, o)
           /\ ~Current(k)'
           /\ (k \in Again)' => k \in Again
  <1>1. pc' = "idle" /\ key' = None /\ None \notin CRs
    BY RuntimeAssumption DEF Idle
  <1>2. \A c \in CRs \ {k} : SameFor(c)
    BY <1>1 DEF SameFor
  <1>3. \A o : MayRead(k, o)' <=> MayRead(k, o)
    BY DEF MayRead, Unbound
  <1>4. ~Current(k)' /\ ~Saves(k)' /\ Latest(k)' = Latest(k)
    BY <1>1 DEF Current, Saves, Latest
  <1>5. ASSUME (k \in Again)' PROVE k \in Again
    <2>1. Unbound(Latest(k)) /\ Crowded(k)'
      BY <1>4, <1>5 DEF Again, Unbound
    <2>2. CASE Saves(k)
      <3>1. Len(versions[k]) = 1
        BY <2>2, CurrentAlone DEF Saves
      <3> QED BY <1>1, <2>1, <2>2, <3>1 DEF Again, Crowded, Two
    <2>3. CASE ~Saves(k)
      BY <1>1, <2>1, <2>3 DEF Again, Crowded, Two
    <2> QED BY <2>2, <2>3
  <1> QED BY <1>2, <1>3, <1>4, <1>5

(* ... and of a step that goes on with the run. *)
LEMMA GoOnShare ==
    ASSUME IInv, PlaceInv, pc # "idle", NEW k \in CRs, key = k,
           UNCHANGED <<versions, queue, timers, key>>, cr'.rv = cr.rv,
           pc = "creating" => pc' = "saving"
    PROVE  /\ \A c \in CRs \ {k} : SameFor(c)
           /\ \A o : MayRead(k, o)' <=> MayRead(k, o)
           /\ Current(k)' <=> Current(k)
           /\ Unbound(Latest(k))' <=> Unbound(Latest(k))
           /\ pc # "saving" /\ (k \in Again)' => k \in Again
  <1>2. \A c \in CRs \ {k} : SameFor(c)
    BY DEF SameFor
  <1>3. \A o : MayRead(k, o)' <=> MayRead(k, o)
    BY DEF MayRead, Unbound
  <1>4. /\ Current(k)' <=> Current(k)
        /\ Latest(k)' = Latest(k)
        /\ Unbound(Latest(k))' <=> Unbound(Latest(k))
    BY DEF Current, Latest, Unbound
  <1>5. ASSUME pc # "saving", (k \in Again)' PROVE k \in Again
    BY <1>4, <1>5 DEF Again, Crowded, Two, Saves
  <1> QED BY <1>2, <1>3, <1>4, <1>5

-----------------------------------------------------------------------------
(* A step that costs at most c in services, issued or still to be created. *)
Costs(c) == FiniteInv' /\ Total \in Nat /\ Total' \in Nat /\ Total' <= Total + c

(* Opsgenie issues no identifier, or one. *)
NoneIssued == (Ids \ Fresh)' = Ids \ Fresh

OneIssued == \E id \in Ids : (Ids \ Fresh)' = (Ids \ Fresh) \cup {id}

(* The cost of a step that issues n identifiers at most, n being 0 or 1.   *)
LEMMA CostOfOne ==
    ASSUME FiniteInv, NEW k \in CRs, NEW o,
           \A c \in CRs \ {k} : SameFor(c),
           \A p : p # o /\ MayRead(k, p)' => MayRead(k, p),
           NEW n \in {0, 1}, NEW c \in 0..2,
           n = 0 => NoneIssued, n = 1 => OneIssued,
           Share(k, o)' + n <= Share(k, o) + c
    PROVE  Costs(c)
  <1>1. /\ FiniteDebts' /\ Debts \in Nat /\ Debts' \in Nat
        /\ Debts' + Share(k, o) <= Debts + Share(k, o)'
    BY OneShare DEF FiniteInv
  <1>2. Share(k, o) \in Nat /\ Share(k, o)' \in Nat
    BY DEF Share, One
  <1> DEFINE S == Ids \ Fresh
             T == (Ids \ Fresh)'
  <1>3. /\ IsFiniteSet(T)
        /\ Cardinality(S) \in Nat /\ Cardinality(T) \in Nat
        /\ Cardinality(T) <= Cardinality(S) + n
    <2>1. IsFiniteSet(S) /\ Cardinality(S) \in Nat
      BY FS_CardinalityType DEF FiniteInv
    <2>2. CASE n = 0
      <3>1. T = S
        BY <2>2 DEF NoneIssued
      <3> HIDE DEF S, T
      <3> QED BY <2>1, <2>2, <3>1
    <2>3. CASE n = 1
      <3>1. PICK id \in Ids : T = S \cup {id}
        BY <2>3 DEF OneIssued
      <3> HIDE DEF S, T
      <3>2. /\ IsFiniteSet(S \cup {id})
            /\ Cardinality(S \cup {id}) =
                  IF id \in S THEN Cardinality(S) ELSE Cardinality(S) + 1
        BY <2>1, FS_AddElement
      <3> QED BY <2>1, <2>3, <3>1, <3>2
    <2> QED BY <2>2, <2>3
  <1>4. FiniteInv'
    BY <1>1, <1>3 DEF FiniteInv
  <1>5. /\ Total = Cardinality(Ids \ Fresh) + Debts
        /\ Total' = Cardinality((Ids \ Fresh)') + Debts'
    BY DEF Total
  <1> QED BY <1>1, <1>2, <1>3, <1>4, <1>5 DEF Costs

(* A run that ends without a status write. *)
LEMMA EndCost ==
    ASSUME IInv, PlaceInv, FiniteInv, pc # "idle", Idle,
           timers' \in {timers, timers \cup {key}}, UNCHANGED <<versions, queue>>,
           NoneIssued \/ (pc = "creating" /\ OneIssued)
    PROVE  /\ Costs(1)
           /\ NoneIssued /\ (pc = "saving" => ~StatusCurrent) => Costs(0)
  <1>1. PICK k \in CRs : key = k
    BY Running
  <1>2. /\ \A c \in CRs \ {k} : SameFor(c)
        /\ \A o : MayRead(k, o)' <=> MayRead(k, o)
        /\ ~Current(k)'
        /\ (k \in Again)' => k \in Again
    BY <1>1, EndShare
  <1>3. ~Creates(k)' /\ ~Saves(k)' /\ (Unbound(Latest(k))' <=> Unbound(Latest(k)))
    BY <1>2, RuntimeAssumption DEF Idle, Creates, Saves, Latest, Unbound
  <1>4. NoObject \in Object
    BY NoObjectType
  <1>5. /\ Share(k, NoObject)' <= Share(k, NoObject) + One(Saves(k))
    BY <1>2, <1>3 DEF Share, One
  <1>6. One(Saves(k)) \in {0, 1} /\ (pc = "creating" => One(Saves(k)) = 0)
    BY DEF One, Saves
  <1>7. (pc = "saving" => ~StatusCurrent) => One(Saves(k)) = 0
    BY <1>1 DEF One, Saves, Current, StatusCurrent
  <1>8. Share(k, NoObject)' \in Nat /\ Share(k, NoObject) \in Nat
    BY DEF Share, One
  <1>9. ASSUME NoneIssued, (pc = "saving" => ~StatusCurrent) PROVE Costs(0)
    BY <1>2, <1>4, <1>5, <1>7, <1>8, <1>9, CostOfOne
  <1>10. ASSUME NoneIssued PROVE Costs(1)
    <2>1. Share(k, NoObject)' + 0 <= Share(k, NoObject) + 1
      BY <1>5, <1>6, <1>8
    <2> QED BY <1>2, <1>4, <1>10, <2>1, CostOfOne
  <1>11. ASSUME pc = "creating" /\ OneIssued PROVE Costs(1)
    <2>1. Share(k, NoObject)' + 1 <= Share(k, NoObject) + 1
      BY <1>5, <1>6, <1>8, <1>11
    <2> QED BY <1>2, <1>4, <1>11, <2>1, CostOfOne
  <1> QED BY <1>9, <1>10, <1>11

(* A step inside a run. *)
LEMMA GoOnCost ==
    ASSUME IInv, PlaceInv, FiniteInv, pc \notin {"idle", "saving"}, pc' # "idle",
           UNCHANGED <<versions, queue, timers, key>>, cr'.rv = cr.rv,
           \/ /\ pc # "creating" /\ NoneIssued
              /\ Creates(key)' => Creates(key)
           \/ pc = "creating" /\ pc' = "saving" /\ OneIssued
    PROVE  Costs(0)
  <1>1. PICK k \in CRs : key = k
    BY Running
  <1>2. /\ \A c \in CRs \ {k} : SameFor(c)
        /\ \A o : MayRead(k, o)' <=> MayRead(k, o)
        /\ Current(k)' <=> Current(k)
        /\ Unbound(Latest(k))' <=> Unbound(Latest(k))
        /\ (k \in Again)' => k \in Again
    BY <1>1, GoOnShare
  <1>3. NoObject \in Object
    BY NoObjectType
  <1>4. CASE pc # "creating" /\ NoneIssued /\ (Creates(key)' => Creates(key))
    <2>1. /\ Creates(k)' => Creates(k)
          /\ ~Saves(k)
      BY <1>1, <1>4 DEF Saves, Creates
    <2>2. Share(k, NoObject)' + 0 <= Share(k, NoObject) + 0
      BY <1>2, <2>1 DEF Share, One
    <2> QED BY <1>2, <1>3, <1>4, <2>2, CostOfOne
  <1>5. CASE pc = "creating" /\ pc' = "saving" /\ OneIssued
    <2>1. Creates(k) /\ ~Creates(k)' /\ ~Saves(k) /\ (Saves(k)' <=> Current(k)')
      BY <1>1, <1>5 DEF Creates, Saves
    <2>2. Current(k) => Unbound(Latest(k))
      BY <2>1, CurrentUnbound
    <2>3. Share(k, NoObject)' + 1 <= Share(k, NoObject) + 0
      BY <1>2, <2>1, <2>2 DEF Share, One
    <2> QED BY <1>2, <1>3, <1>5, <2>3, CostOfOne
  <1> QED BY <1>4, <1>5

(* The status write. *)
LEMMA StoreCost ==
    ASSUME IInv, PlaceInv, FiniteInv, pc = "saving", StoreStatus, Idle,
           timers' = timers \cup {key}, UNCHANGED queue, NoneIssued
    PROVE  Costs(0)
  <1>1. PICK k \in CRs : key = k
    BY Running
  <1>2. Saves(k) /\ Current(k) /\ Len(versions[k]) = 1
    BY <1>1, CurrentAlone DEF StoreStatus, StatusCurrent, Saves, Current
  <1> DEFINE n == [[Latest(k) EXCEPT !.status = cr.status] EXCEPT !.rv = NextVersion(k)]
  <1>3. /\ Latest(k) \in Object /\ versions[k] \in Seq(Object)
        /\ Latest(k) = versions[k][1]
    BY <1>2, VersionTypes, LatestType
  <1>4. versions' = [versions EXCEPT ![k] = Append(@, n)]
    BY <1>1 DEF StoreStatus, Write
  <1>5. n.status = cr.status /\ cr.status.id # None
    BY <1>3 DEF Object, PlaceInv, KnowsItsId
  <1> HIDE DEF n
  <1>6. /\ versions'[k] = Append(versions[k], n)
        /\ \A c \in CRs \ {k} : versions'[c] = versions[c]
    BY <1>4 DEF IInv, RuntimeInv, RuntimeTypeOK
  <1>7. /\ Len(versions'[k]) = 2 /\ versions'[k][1] = Latest(k)
        /\ versions'[k][2] = n
    BY <1>2, <1>3, <1>6
  <1>8. pc' = "idle" /\ key' = None /\ None \notin CRs
    BY RuntimeAssumption DEF Idle
  <1>9. \A c \in CRs \ {k} : SameFor(c)
    BY <1>1, <1>6, <1>8 DEF SameFor
  <1>10. PICK o \in Object : o = Latest(k)
    BY <1>3
  <1>11. \A p : MayRead(k, p)' <=> p = o /\ Unbound(o) /\ k \in queue
    BY <1>7, <1>10 DEF MayRead, Unbound
  <1>12. ~Unbound(Latest(k))'
    BY <1>5, <1>7 DEF Latest, Unbound
  <1>13. ~Creates(k)' /\ (k \in Again)' = FALSE
    BY <1>8, <1>12 DEF Creates, Again
  <1>14. Unbound(o) /\ k \in queue => k \in Again
    BY <1>2, <1>10 DEF Again
  <1>15. Share(k, o)' + 0 <= Share(k, o) + 0
    BY <1>11, <1>12, <1>13, <1>14 DEF Share, One
  <1> QED BY <1>9, <1>11, <1>15, CostOfOne

-----------------------------------------------------------------------------
(* A step that appends a version to those of CR k.                         *)
Appends(k, n) ==
    /\ n \in Object /\ n.rv \notin HeldVersions(k)
    /\ versions'[k] = Append(versions[k], n)
    /\ \A c \in CRs \ {k} : versions'[c] = versions[c]

(* A write to the API server is such a step.                               *)
LEMMA WriteAppends ==
    ASSUME IInv, NEW k \in CRs, NEW o \in Object, Write(k, o)
    PROVE  \E n : Appends(k, n) /\ n.live = o.live /\ n.status = o.status
  <1>1. PICK rv \in RVs \ HeldVersions(k) :
               LET n == [o EXCEPT !.rv = rv] IN
               /\ n \in Object
               /\ versions'[k] = Append(versions[k], n)
               /\ \A c \in CRs \ {k} : versions'[c] = versions[c]
    BY WriteEffect DEF IInv, RuntimeInv
  <1> DEFINE n == [o EXCEPT !.rv = rv]
  <1>2. n.rv = rv /\ n.live = o.live /\ n.status = o.status
    BY DEF Object
  <1> QED BY <1>1, <1>2 DEF Appends

(* What it leaves alone, and where the new version is.                     *)
LEMMA AppendedVersions ==
    ASSUME IInv, NEW k \in CRs, NEW n, Appends(k, n)
    PROVE  /\ Len(versions'[k]) = Len(versions[k]) + 1
           /\ \A i \in 1..Len(versions[k]) : versions'[k][i] = versions[k][i]
           /\ versions'[k][Len(versions[k]) + 1] = n
           /\ Latest(k)' = n
           /\ \A i \in 1..Len(versions[k]) : versions[k][i].rv # n.rv
           /\ n.rv # cr.rv
  <1>1. /\ Len(versions[k]) \in Nat \ {0} /\ versions[k] \in Seq(Object)
        /\ DOMAIN versions[k] = 1..Len(versions[k])
    BY VersionTypes
  <1>2. /\ Len(versions'[k]) = Len(versions[k]) + 1
        /\ \A i \in 1..Len(versions[k]) : versions'[k][i] = versions[k][i]
        /\ versions'[k][Len(versions[k]) + 1] = n
    BY <1>1 DEF Appends
  <1> QED BY <1>1, <1>2 DEF Appends, HeldVersions, Latest

(* PlaceInv is kept by a step that writes nothing and ends a run or goes   *)
(* on                                                                      *)
LEMMA PlaceStays ==
    ASSUME IInv, PlaceInv, UNCHANGED versions,
           \/ pc' = "idle"
           \/ pc # "idle" /\ UNCHANGED key /\ cr'.rv = cr.rv,
           pc' \in {"fetching", "updating", "saving"} => cr'.status.id # None
    PROVE  PlaceInv'
  <1>1. TokensDiffer'
    BY DEF PlaceInv, TokensDiffer
  <1>2. CopyIsOldest'
    BY DEF PlaceInv, CopyIsOldest
  <1> QED BY <1>1, <1>2 DEF PlaceInv, KnowsItsId

(* A write takes a resourceVersion that neither a version nor a run holds. *)
LEMMA PlaceWrites ==
    ASSUME IInv, PlaceInv, NEW k \in CRs, NEW n, Appends(k, n),
           UNCHANGED <<pc, key, cr>> \/ pc' = "idle"
    PROVE  PlaceInv'
  <1>1. /\ Len(versions'[k]) = Len(versions[k]) + 1
        /\ \A i \in 1..Len(versions[k]) : versions'[k][i] = versions[k][i]
        /\ versions'[k][Len(versions[k]) + 1] = n
        /\ \A i \in 1..Len(versions[k]) : versions[k][i].rv # n.rv
        /\ n.rv # cr.rv
        /\ Len(versions[k]) \in Nat \ {0}
    BY AppendedVersions, VersionTypes
  <1>2. \A i \in 1..Len(versions'[k]) :
           i \in 1..Len(versions[k]) \/ i = Len(versions[k]) + 1
    BY <1>1
  <1>3. ASSUME NEW c \in CRs, NEW i \in 1..Len(versions'[c]),
               NEW j \in 1..Len(versions'[c]),
               versions'[c][i].rv = versions'[c][j].rv
        PROVE  i = j
    <2>1. CASE c = k
      BY <1>1, <1>2, <1>3, <2>1 DEF PlaceInv, TokensDiffer
    <2>2. CASE c # k
      BY <1>3, <2>2 DEF Appends, PlaceInv, TokensDiffer
    <2> QED BY <2>1, <2>2
  <1>4. TokensDiffer'
    BY <1>3 DEF TokensDiffer
  <1>5. CopyIsOldest'
    <2>1. SUFFICES ASSUME UNCHANGED <<pc, key, cr>>, pc # "idle",
                          NEW i \in 1..Len(versions'[key]),
                          versions'[key][i].rv = cr.rv
                   PROVE  i = 1
      BY DEF CopyIsOldest
    <2>2. CASE key = k
      BY <1>1, <1>2, <2>1, <2>2 DEF PlaceInv, CopyIsOldest
    <2>3. CASE key # k
      BY <2>1, <2>3, Running DEF Appends, PlaceInv, CopyIsOldest
    <2> QED BY <2>2, <2>3
  <1>6. KnowsItsId'
    BY DEF PlaceInv, KnowsItsId
  <1> QED BY <1>4, <1>5, <1>6 DEF PlaceInv

(* A delivery moves every version one place to the front.                  *)
LEMMA PlaceMoves ==
    ASSUME IInv, PlaceInv, NEW k \in CRs, WatchEvent(k)
    PROVE  PlaceInv'
  <1>1. /\ versions[k] \in Seq(Object) /\ Len(versions[k]) \in Nat \ {0, 1}
        /\ versions'[k] = Tail(versions[k])
        /\ \A c \in CRs \ {k} : versions'[c] = versions[c]
        /\ UNCHANGED <<pc, key, cr>>
    BY VersionTypes DEF WatchEvent, IInv, RuntimeInv, RuntimeTypeOK
  <1>2. /\ Len(versions'[k]) = Len(versions[k]) - 1
        /\ \A i \in 1..Len(versions'[k]) : versions'[k][i] = versions[k][i + 1]
    BY <1>1
  <1> DEFINE m == Len(versions[k])
             l == Len(versions'[k])
  <1>3. \A i \in 1..l : i + 1 \in 1..m /\ i + 1 # 1
    <2>1. m \in Nat /\ l = m - 1
      BY <1>1, <1>2
    <2> HIDE DEF m, l
    <2> QED BY <2>1
  <1>4. ASSUME NEW c \in CRs, NEW i \in 1..Len(versions'[c]),
               NEW j \in 1..Len(versions'[c]),
               versions'[c][i].rv = versions'[c][j].rv
        PROVE  i = j
    <2>1. CASE c = k
      <3>1. i + 1 \in 1..Len(versions[k]) /\ j + 1 \in 1..Len(versions[k])
        BY <1>3, <2>1
      <3>2. i + 1 = j + 1
        BY <1>2, <1>4, <2>1, <3>1 DEF PlaceInv, TokensDiffer
      <3> QED BY <3>2
    <2>2. CASE c # k
      BY <1>1, <1>4, <2>2 DEF PlaceInv, TokensDiffer
    <2> QED BY <2>1, <2>2
  <1>5. TokensDiffer'
    BY <1>4 DEF TokensDiffer
  <1>6. CopyIsOldest'
    <2>1. SUFFICES ASSUME pc # "idle", NEW i \in 1..Len(versions'[key]),
                          versions'[key][i].rv = cr.rv
                   PROVE  i = 1
      BY <1>1 DEF CopyIsOldest
    <2>2. CASE key = k
      <3>1. i + 1 \in 1..Len(versions[k]) /\ versions[k][i + 1].rv = cr.rv
        BY <1>1, <1>2, <1>3, <2>1, <2>2
      <3>2. i + 1 = 1
        BY <2>1, <2>2, <3>1 DEF PlaceInv, CopyIsOldest
      <3> QED BY <1>3, <2>2, <3>2
    <2>3. CASE key # k
      BY <1>1, <2>1, <2>3, Running DEF PlaceInv, CopyIsOldest
    <2> QED BY <2>2, <2>3
  <1> QED BY <1>1, <1>5, <1>6 DEF PlaceInv, KnowsItsId

(* Get reads the oldest version there is.                                  *)
LEMMA PlaceStarts ==
    ASSUME IInv, PlaceInv, NEW k \in CRs, Reconcile(k)
    PROVE  PlaceInv'
  <1>1. UNCHANGED versions /\ pc = "idle"
    BY DEF Reconcile, Get
  <1>2. CASE pc' = "idle"
    BY <1>1, <1>2, PlaceStays
  <1>3. CASE pc' = "resolving" /\ key' = k /\ cr' = versions[k][1]
    <2>1. 1 \in 1..Len(versions[k])
      BY VersionTypes
    <2>2. CopyIsOldest' /\ TokensDiffer'
      BY <1>1, <1>3, <2>1 DEF PlaceInv, CopyIsOldest, TokensDiffer
    <2> QED BY <1>3, <2>2 DEF PlaceInv, KnowsItsId
  <1> QED BY <1>1, <1>2, <1>3, LatestType DEF Reconcile, Get

(* A restart leaves one version of each CR.                                *)
LEMMA PlaceRestarts ==
    ASSUME IInv, Restart
    PROVE  PlaceInv'
  <1>1. pc' = "idle" /\ \A k \in CRs : versions'[k] = <<Latest(k)>>
    BY DEF Restart, Idle
  <1>2. \A k \in CRs : Len(versions'[k]) = 1
    BY <1>1
  <1> QED BY <1>1, <1>2 DEF PlaceInv, TokensDiffer, CopyIsOldest, KnowsItsId

(* The steps of the worker. *)
LEMMA PlaceInRun ==
    ASSUME IInv, PlaceInv, Worker
    PROVE  PlaceInv'
  <1>1. pc # "idle" /\ cr \in Object /\ key \in CRs
    BY Running DEF Worker, ResolveTeam, FetchService, UpdateService,
                   CreateService, SaveStatus
  <1>2. CASE ResolveTeam
    <2>1. \/ pc' = "idle"
          \/ /\ key' = key /\ cr'.rv = cr.rv /\ cr'.status.id = cr.status.id
             /\ pc' \in {"fetching", "creating"}
             /\ pc' = "fetching" => cr.status.id # None
      BY <1>1, <1>2 DEF ResolveTeam, ReturnDone, Idle, Object, Status
    <2> QED BY <1>1, <1>2, <2>1, PlaceStays DEF ResolveTeam
  <1>3. CASE FetchService \/ UpdateService
    <2>1. pc' = "idle" \/ UNCHANGED <<key, cr>>
      BY <1>3 DEF FetchService, UpdateService, Fail, ReturnRequeue, Idle
    <2>2. cr.status.id # None /\ UNCHANGED versions
      BY <1>3 DEF PlaceInv, KnowsItsId, FetchService, UpdateService
    <2> QED BY <1>1, <2>1, <2>2, PlaceStays
  <1>4. CASE CreateService
    <2>1. CASE pc' = "idle"
      BY <1>1, <1>4, <2>1, PlaceStays DEF CreateService
    <2>2. CASE CreateApplied /\ cr' = [cr EXCEPT !.status.id = NewId] /\ key' = key
      <3>1. NewId \in Ids
        BY <2>2, NewIdFresh DEF CreateApplied, Issue
      <3>2. cr'.rv = cr.rv /\ cr'.status.id # None
        BY <1>1, <2>2, <3>1, OpsgenieAssumption DEF Object, Status
      <3> QED BY <1>1, <1>4, <2>2, <3>2, PlaceStays DEF CreateService
    <2> QED BY <1>4, <2>1, <2>2 DEF CreateService, Fail, ReturnRequeue, Idle
  <1>5. CASE SaveStatus
    <2>1. pc' = "idle"
      BY <1>5 DEF SaveStatus, ReturnRequeue, Idle
    <2>2. CASE UNCHANGED versions
      BY <2>1, <2>2, PlaceStays
    <2>3. CASE StoreStatus
      <3>1. PICK k \in CRs : k = key
        BY <1>1
      <3>2. [Latest(k) EXCEPT !.status = cr.status] \in Object
        BY <1>1, LatestType DEF Object
      <3>3. \E n : Appends(k, n)
        BY <2>3, <3>1, <3>2, WriteAppends DEF StoreStatus
      <3> QED BY <2>1, <3>3, PlaceWrites
    <2> QED BY <1>5, <2>2, <2>3 DEF SaveStatus
  <1> QED BY <1>2, <1>3, <1>4, <1>5 DEF Worker

-----------------------------------------------------------------------------
(* Costs of the steps around the worker. *)
LEMMA SameIssued ==
    ASSUME UNCHANGED remote
    PROVE  NoneIssued
  BY DEF NoneIssued, Fresh

(* Get turns an outdated version that may be read into a doomed Create.    *)
LEMMA StartCost ==
    ASSUME IInv, PlaceInv, FiniteInv, NEW k \in CRs, Reconcile(k)
    PROVE  Costs(0)
  <1>1. /\ UNCHANGED <<versions, timers, remote>> /\ pc = "idle" /\ key = None
        /\ k \in queue /\ queue' = queue \ {k} /\ None \notin CRs
    BY RuntimeAssumption DEF Reconcile, Get, IInv, RuntimeInv
  <1>2. /\ Len(versions[k]) \in Nat \ {0} /\ Latest(k)' = Latest(k)
        /\ Latest(k) = versions[k][Len(versions[k])]
        /\ \A i \in 1..Len(versions[k]) : versions[k][i] \in Object
    BY <1>1, LatestType DEF Latest
  <1>3. PICK o \in Object : o = versions[k][1]
    BY <1>2
  <1>4. /\ \/ UNCHANGED <<pc, key, cr>>
           \/ o.live /\ pc' = "resolving" /\ key' = k /\ cr' = o
    BY <1>3, LatestType DEF Reconcile, Get
  <1>5. \A c \in CRs \ {k} : SameFor(c)
    BY <1>1, <1>4 DEF SameFor
  <1>6. \A p : MayRead(k, p)' => MayRead(k, p)
    BY <1>1 DEF MayRead, Unbound
  <1>7. ~MayRead(k, o)'
    BY <1>1, <1>3, <1>2 DEF MayRead, PlaceInv, TokensDiffer
  <1>8. Len(versions[k]) > 1 /\ Unbound(o) => MayRead(k, o)
    BY <1>1, <1>2, <1>3 DEF MayRead
  <1>9. (Creates(k) /\ ~Current(k))' => Len(versions[k]) > 1 /\ Unbound(o)
    <2>1. SUFFICES ASSUME Creates(k)', ~Current(k)'
                   PROVE  Len(versions[k]) > 1 /\ Unbound(o)
      OBVIOUS
    <2>2. o.live /\ pc' = "resolving" /\ key' = k /\ cr' = o
      BY <1>1, <1>4, <2>1 DEF Creates
    <2>3. Unbound(o)
      BY <2>1, <2>2 DEF Creates, Unbound
    <2>4. Len(versions[k]) # 1
      BY <1>2, <1>3, <2>1, <2>2 DEF Current
    <2> DEFINE n == Len(versions[k])
    <2>5. n \in Nat \ {0} /\ n # 1
      BY <1>2, <2>4
    <2> HIDE DEF n
    <2>6. n > 1
      BY <2>5
    <2> QED BY <2>3, <2>6 DEF n
  <1>10. ~Creates(k) /\ ~Saves(k) /\ ~Saves(k)'
    BY <1>1, <1>4 DEF Creates, Saves
  <1>11. Crowded(k)' => Crowded(k)
    BY <1>1, <1>4 DEF Crowded, Two
  <1>12. /\ Unbound(Latest(k))' <=> Unbound(Latest(k))
         /\ (k \in Again)' => k \in Again
    BY <1>2, <1>10, <1>11 DEF Again, Unbound
  <1>13. Share(k, o)' + 0 <= Share(k, o) + 0
    BY <1>7, <1>8, <1>9, <1>10, <1>12 DEF Share, One
  <1> QED BY <1>1, <1>5, <1>6, <1>13, SameIssued, CostOfOne

(* A delivery brings no version to the worker that it would not have seen. *)
LEMMA WatchCost ==
    ASSUME IInv, PlaceInv, FiniteInv, NEW k \in CRs, WatchEvent(k), UNCHANGED remote
    PROVE  Costs(0)
  <1>1. /\ versions[k] \in Seq(Object) /\ Len(versions[k]) \in Nat \ {0, 1}
        /\ versions'[k] = Tail(versions[k])
        /\ \A c \in CRs \ {k} : versions'[c] = versions[c]
        /\ UNCHANGED <<timers, pc, key, cr>>
        /\ queue' \in {queue, queue \cup {k}}
    BY VersionTypes DEF WatchEvent, IInv, RuntimeInv, RuntimeTypeOK
  <1> DEFINE n == Len(versions[k])
  <1>2. /\ Len(versions'[k]) = n - 1
        /\ \A i \in 1..(n - 1) : versions'[k][i] = versions[k][i + 1]
    BY <1>1
  <1>3. Latest(k)' = Latest(k)
    BY WatchEffect DEF IInv, RuntimeInv
  <1>4. \A c \in CRs \ {k} : SameFor(c)
    BY <1>1 DEF SameFor
  <1>5. \A i \in 1..(n - 2) : /\ i + 1 \in 1..(n - 1) /\ i + 1 > 1
                              /\ i \in 1..(n - 1)
    <2>1. n \in Nat
      BY <1>1
    <2> HIDE DEF n
    <2> QED BY <2>1
  <1>6. \A p : MayRead(k, p)' => MayRead(k, p)
    <2>1. SUFFICES ASSUME NEW p, MayRead(k, p)' PROVE MayRead(k, p)
      OBVIOUS
    <2>2. Len(versions'[k]) - 1 = n - 2
      BY <1>1, <1>2
    <2>3. PICK i \in 1..(n - 2) : versions'[k][i] = p /\ Unbound(p)
      BY <2>1, <2>2 DEF MayRead, Unbound
    <2>4. versions[k][i + 1] = p
      BY <1>2, <1>5, <2>3
    <2> HIDE DEF n
    <2>5. \E j \in 1..(n - 1) : versions[k][j] = p /\ Unbound(p) /\ j > 1
      BY <1>5, <2>3, <2>4
    <2> QED BY <2>5 DEF MayRead, n
  <1>7. /\ Current(k)' <=> Current(k)
        /\ Creates(k)' <=> Creates(k)
        /\ Saves(k)' <=> Saves(k)
        /\ Unbound(Latest(k))' <=> Unbound(Latest(k))
    BY <1>1, <1>3 DEF Current, Creates, Saves, Unbound
  <1>8. ~Saves(k)
    BY <1>1, CurrentAlone DEF Saves
  <1>9. Crowded(k)' => Crowded(k)
    <2>1. /\ n - 1 > 2 => n > 2
          /\ n - 1 > 1 => n > 2
          /\ n > 1
      <3>1. n \in Nat \ {0, 1}
        BY <1>1
      <3> HIDE DEF n
      <3> QED BY <3>1
    <2>2. k \in timers' <=> k \in timers
      BY <1>1
    <2>3. key' = k <=> key = k
      BY <1>1
    <2> QED BY <1>2, <2>1, <2>2, <2>3 DEF Crowded, Two
  <1>10. (k \in Again)' => k \in Again
    BY <1>7, <1>8, <1>9 DEF Again
  <1>11. NoObject \in Object
    BY NoObjectType
  <1>12. Share(k, NoObject)' + 0 <= Share(k, NoObject) + 0
    BY <1>6, <1>7, <1>10 DEF Share, One
  <1> QED BY <1>4, <1>6, <1>11, <1>12, SameIssued, CostOfOne

(* A timer costs a service only if it overtakes the watch.                 *)
LEMMA TimerCost ==
    ASSUME IInv, PlaceInv, FiniteInv, NEW k \in CRs, Timer(k), UNCHANGED remote
    PROVE  IF Len(versions[k]) = 1 THEN Costs(0) ELSE Costs(1)
  <1>1. /\ UNCHANGED <<versions, pc, key, cr>> /\ k \in timers
        /\ timers' = timers \ {k} /\ queue' = queue \cup {k}
    BY DEF Timer
  <1>2. /\ Len(versions[k]) \in Nat \ {0} /\ Latest(k)' = Latest(k)
        /\ \A i \in 1..Len(versions[k]) : versions[k][i] \in Object
    BY <1>1, LatestType DEF Latest
  <1>3. PICK o \in Object : o = versions[k][1]
    BY <1>2
  <1>4. \A c \in CRs \ {k} : SameFor(c)
    BY <1>1 DEF SameFor
  <1>5. /\ Current(k)' <=> Current(k)
        /\ Creates(k)' <=> Creates(k)
        /\ Saves(k)' <=> Saves(k)
        /\ Unbound(Latest(k))' <=> Unbound(Latest(k))
    BY <1>1, <1>2 DEF Current, Creates, Saves, Unbound
  <1>6. \A p : MayRead(k, p)' /\ p # o => MayRead(k, p)
    BY <1>1, <1>2, <1>3 DEF MayRead, Unbound
  <1>7. (k \in Again)' => k \in Again
    <2>1. CASE Saves(k)
      BY <1>1, <1>5, <2>1 DEF Again
    <2>2. CASE ~Saves(k)
      <3>1. Crowded(k)' => Crowded(k)
        BY <1>1, <1>2 DEF Crowded, Two
      <3> QED BY <1>5, <2>2, <3>1 DEF Again
    <2> QED BY <2>1, <2>2
  <1>8. UNCHANGED remote => NoneIssued
    BY SameIssued
  <1>9. CASE Len(versions[k]) = 1
    <2>1. ~MayRead(k, o)'
      BY <1>1, <1>9 DEF MayRead
    <2>2. Share(k, o)' + 0 <= Share(k, o) + 0
      BY <1>5, <1>7, <2>1 DEF Share, One
    <2>3. Costs(0)
      BY <1>4, <1>6, <1>8, <2>2, CostOfOne
    <2> QED BY <1>9, <2>3
  <1>10. CASE Len(versions[k]) # 1
    <2>1. Share(k, o)' + 0 <= Share(k, o) + 1
      BY <1>5, <1>7 DEF Share, One
    <2>2. Costs(1)
      BY <1>4, <1>6, <1>8, <2>1, CostOfOne
    <2> QED BY <1>10, <2>2
  <1> QED BY <1>9, <1>10

(* Users. *)
LEMMA EditedShare ==
    ASSUME IInv, PlaceInv, NEW k \in CRs, NEW n, Appends(k, n),
           UNCHANGED <<queue, timers, pc, key, cr>>, NEW o, o = Latest(k)
    PROVE  /\ \A c \in CRs \ {k} : SameFor(c)
           /\ \A p : p # o /\ MayRead(k, p)' => MayRead(k, p)
           /\ MayRead(k, o)' /\ ~MayRead(k, o)
                => Unbound(o) /\ (Len(versions[k]) = 1 => k \in queue)
           /\ ~Current(k)' /\ ~Saves(k)'
           /\ Creates(k)' <=> Creates(k)
           /\ Unbound(Latest(k))' <=> Unbound(n)
           /\ k \in Again' => Unbound(n) /\ Crowded(k)'
  <1>1. /\ Len(versions[k]) \in Nat \ {0}
        /\ Latest(k) = versions[k][Len(versions[k])]
    BY LatestType
  <1>2. /\ Len(versions'[k]) = Len(versions[k]) + 1
        /\ \A i \in 1..Len(versions[k]) : versions'[k][i] = versions[k][i]
        /\ Latest(k)' = n /\ n.rv # cr.rv
    BY AppendedVersions
  <1>3. \A c \in CRs \ {k} : SameFor(c)
    BY DEF SameFor, Appends
  <1>4. ASSUME NEW p, MayRead(k, p)', ~MayRead(k, p)
        PROVE  /\ p = o /\ Unbound(p)
               /\ Len(versions[k]) = 1 => k \in queue
    <2>1. PICK i \in 1..Len(versions[k]) :
             /\ versions[k][i] = p /\ Unbound(p)
             /\ i > 1 \/ k \in queue
      BY <1>1, <1>2, <1>4 DEF MayRead, Unbound
    <2>2. i = Len(versions[k])
      BY <1>1, <1>4, <2>1 DEF MayRead
    <2> QED BY <1>1, <2>1, <2>2
  <1>5. ~Current(k)' /\ ~Saves(k)'
    BY <1>2 DEF Current, Saves
  <1>6. Creates(k)' <=> Creates(k)
    BY DEF Creates
  <1>7. Unbound(Latest(k))' <=> Unbound(n)
    BY <1>2 DEF Unbound
  <1>8. k \in Again' => Unbound(n) /\ Crowded(k)'
    BY <1>5, <1>7 DEF Again
  <1> QED BY <1>3, <1>4, <1>5, <1>6, <1>7, <1>8

(* An edit costs two services at most, the very first one.                 *)
LEMMA EditCost ==
    ASSUME IInv, PlaceInv, FiniteInv, NEW k \in CRs, NEW n, Appends(k, n),
           UNCHANGED <<queue, timers, pc, key, cr, remote>>,
           n.live /\ Latest(k).live => n.status = Latest(k).status
    PROVE  /\ Costs(2)
           /\ /\ queue = {} /\ timers = {} /\ pc = "idle"
              /\ Len(versions[k]) = 1 /\ ~Latest(k).live
              => Costs(1)
  <1>1. PICK o \in Object : o = Latest(k)
    BY LatestType
  <1>2. /\ \A c \in CRs \ {k} : SameFor(c)
        /\ \A p : p # o /\ MayRead(k, p)' => MayRead(k, p)
        /\ MayRead(k, o)' /\ ~MayRead(k, o)
                => Unbound(o) /\ (Len(versions[k]) = 1 => k \in queue)
        /\ ~Current(k)' /\ ~Saves(k)'
        /\ Creates(k)' <=> Creates(k)
        /\ Unbound(Latest(k))' <=> Unbound(n)
        /\ k \in Again' => Unbound(n) /\ Crowded(k)'
    BY <1>1, EditedShare
  <1>3. /\ Len(versions[k]) \in Nat \ {0}
        /\ Len(versions'[k]) = Len(versions[k]) + 1
    BY LatestType, AppendedVersions
  <1>4. Share(k, o) \in Nat /\ Share(k, o)' \in Nat
    BY DEF Share, One
  <1>6. Share(k, o)' + 0 <= Share(k, o) + 2
    <2>1. CASE ~Unbound(n)
      BY <1>2, <2>1 DEF Share, One
    <2>2. CASE ~o.live
      <3>1. ~Unbound(o) /\ ~Current(k)
        BY <1>1, <2>2 DEF Unbound, Current
      <3> QED BY <1>2, <3>1 DEF Share, One
    <2>3. CASE Unbound(n) /\ o.live
      <3>1. Unbound(Latest(k))
        BY <1>1, <2>3 DEF Unbound
      <3>2. CASE Saves(k)
        <4>1. ~Creates(k) /\ Len(versions[k]) = 1
          BY <3>2, CurrentAlone DEF Saves, Creates
        <4>2. k \in queue => k \in Again
          BY <3>1, <3>2 DEF Again
        <4> QED BY <1>2, <4>1, <4>2 DEF Share, One
      <3>3. CASE ~Saves(k) /\ Len(versions[k]) # 1
        <4>1. Creates(k) => ~Current(k)
          BY <3>3, CurrentAlone DEF Creates
        <4> QED BY <1>2, <3>1, <3>3, <4>1 DEF Share, One
      <3>4. CASE ~Saves(k) /\ Len(versions[k]) = 1
        <4>1. Creates(k) /\ k \in queue => k \in Again
          BY <3>1, <3>4 DEF Again, Crowded, Two, Creates
        <4> QED BY <1>2, <3>1, <3>4, <4>1 DEF Share, One
      <3> QED BY <3>2, <3>3, <3>4
    <2> QED BY <2>1, <2>2, <2>3
  <1>7. Costs(2)
    BY <1>2, <1>6, SameIssued, CostOfOne
  <1>8. ASSUME queue = {}, timers = {}, pc = "idle",
               Len(versions[k]) = 1, ~Latest(k).live
        PROVE  Costs(1)
    <2>1. ~Unbound(o) /\ ~Creates(k)
      BY <1>1, <1>8 DEF Unbound, Creates
    <2>2. key = None /\ None \notin CRs
      BY <1>8, RuntimeAssumption DEF IInv, RuntimeInv
    <2>3. ~Crowded(k)'
      BY <1>3, <1>8, <2>2 DEF Crowded, Two
    <2>4. Share(k, o)' + 0 <= Share(k, o) + 1
      BY <1>2, <2>1, <2>3 DEF Share, One
    <2> QED BY <1>2, <2>4, SameIssued, CostOfOne
  <1> QED BY <1>7, <1>8

-----------------------------------------------------------------------------
(* Nothing that happens elsewhere costs a service.                         *)
LEMMA SameCost ==
    ASSUME FiniteInv, UNCHANGED <<versions, queue, timers, pc, key, cr>>, NoneIssued
    PROVE  Costs(0)
  <1>1. \A k \in CRs : SameFor(k)
    BY DEF SameFor
  <1>2. Lost' = Lost /\ Doomed' = Doomed /\ Due' = Due /\ Again' = Again
    <2>1. \A k \in CRs : /\ \A o : MayRead(k, o)' <=> MayRead(k, o)
                         /\ k \in Doomed' <=> k \in Doomed
                         /\ k \in Due' <=> k \in Due
                         /\ k \in Again' <=> k \in Again
      BY <1>1, SameShare
    <2>2. \A z : z \in Lost' <=> z \in Lost
      <3>1. \A z \in Lost' : z \in Lost
        BY <2>1, LostPairs
      <3>2. \A z \in Lost : z \in Lost'
        BY <2>1, LostPairs
      <3> QED BY <3>1, <3>2
    <2> QED BY <2>1, <2>2 DEF Doomed, Due, Again
  <1>3. (Ids \ Fresh)' = Ids \ Fresh
    BY DEF NoneIssued
  <1>4. FiniteInv' /\ Total' = Total
    BY <1>2, <1>3 DEF FiniteInv, FiniteDebts, Total, Debts
  <1>5. Total \in Nat
    <2>1. /\ Cardinality(Lost) \in Nat /\ Cardinality(Doomed) \in Nat
          /\ Cardinality(Due) \in Nat /\ Cardinality(Again) \in Nat
          /\ Cardinality(Ids \ Fresh) \in Nat
      BY FS_CardinalityType DEF FiniteInv, FiniteDebts
    <2> QED BY <2>1 DEF Total, Debts
  <1> QED BY <1>4, <1>5 DEF Costs

(* A restart costs one service at most: the one whose status write it      *)
(* prevents.                                                               *)
LEMMA CrashCost ==
    ASSUME IInv, FiniteInv, Restart, UNCHANGED remote
    PROVE  Costs(1)
  <1>1. /\ \A k \in CRs : versions'[k] = <<Latest(k)>>
        /\ timers' = {} /\ pc' = "idle" /\ key' = None /\ None \notin CRs
    BY RuntimeAssumption DEF Restart, Idle
  <1>2. \A k \in CRs : Len(versions'[k]) = 1 /\ Latest(k)' = Latest(k)
    <2>1. \A k \in CRs : Latest(k)' = versions'[k][Len(versions'[k])]
      BY DEF Latest
    <2>2. \A x : Len(<<x>>) = 1 /\ <<x>>[1] = x
      OBVIOUS
    <2> QED BY <1>1, <2>1, <2>2
  <1>3. Lost' = {} /\ Doomed' = {}
    BY <1>1, <1>2 DEF Lost, MayRead, Doomed, Creates
  <1>4. Again' = {}
    <2>1. \A k \in CRs : ~Saves(k)' /\ ~Crowded(k)'
      <3>1. SUFFICES ASSUME NEW k \in CRs PROVE ~Saves(k)' /\ ~Crowded(k)'
        OBVIOUS
      <3>2. Len(versions'[k]) = 1
        BY <1>2
      <3>3. ~(Len(versions'[k]) > 1) /\ ~(Len(versions'[k]) > 2)
        BY <3>2
      <3>4. k \notin timers' /\ key' # k /\ ~Saves(k)'
        BY <1>1 DEF Saves
      <3> QED BY <3>3, <3>4 DEF Crowded, Two
    <2> QED BY <2>1 DEF Again
  <1>5. \A k \in Due' : k # key => k \in Due
    <2>1. \A k \in CRs : Unbound(Latest(k))' <=> Unbound(Latest(k))
      BY <1>2 DEF Unbound
    <2> QED BY <2>1 DEF Due, Saves, Current
  <1>6. /\ IsFiniteSet(Due') /\ Cardinality(Due) \in Nat
        /\ Cardinality(Due') \in Nat
        /\ Cardinality(Due') + One(key \in Due)
              <= Cardinality(Due) + One(key \in Due')
    BY <1>5, AtMostOneMore DEF FiniteInv, FiniteDebts
  <1>7. /\ Cardinality(Lost) \in Nat /\ Cardinality(Doomed) \in Nat
        /\ Cardinality(Again) \in Nat /\ Cardinality(Ids \ Fresh) \in Nat
    BY FS_CardinalityType DEF FiniteInv, FiniteDebts
  <1>8. IsFiniteSet({}) /\ Cardinality({}) = 0
    BY FS_EmptySet
  <1>9. /\ FiniteInv'
        /\ Total' = Cardinality(Ids \ Fresh) + Cardinality(Due')
    <2>1. (Ids \ Fresh)' = Ids \ Fresh
      BY SameIssued DEF NoneIssued
    <2>2. FiniteInv'
      BY <1>3, <1>4, <1>6, <1>8, <2>1 DEF FiniteInv, FiniteDebts
    <2>3. Debts' = Cardinality(Due')
      BY <1>3, <1>4, <1>6, <1>8 DEF Debts
    <2> QED BY <2>1, <2>2, <2>3 DEF Total
  <1>10. Total \in Nat /\ Total' \in Nat /\ Total' <= Total + 1
    BY <1>6, <1>7, <1>9 DEF Total, Debts, One
  <1> QED BY <1>9, <1>10 DEF Costs

-----------------------------------------------------------------------------
(* What the calls of the worker, and people, do to the identifiers. *)
LEMMA OldIssues ==
    ASSUME IInv, StayIssued, NEW id, Exists(id),
           \A d \in Ids \ {id} : remote'[d] = remote[d]
    PROVE  NoneIssued
  <1>1. id \in Ids /\ remote[id] # Unissued /\ remote'[id] # Unissued
    BY DEF StayIssued, Exists, Absent
  <1>2. \A d \in Ids : remote'[d] = Unissued <=> remote[d] = Unissued
    BY <1>1
  <1> QED BY <1>2 DEF NoneIssued, Fresh

(* ... so an Update issues nothing,                                        *)
LEMMA UpdateIssues ==
    ASSUME IInv, pc # "idle", UpdateApplied
    PROVE  NoneIssued
  <1>1. StayIssued
    BY UpdateType
  <1>2. PICK c : Store(cr.status.id, c)
    BY DEF UpdateApplied
  <1>3. /\ Exists(cr.status.id)
        /\ \A d \in Ids \ {cr.status.id} : remote'[d] = remote[d]
    BY <1>2 DEF Store, IInv, TypeOK
  <1> QED BY <1>1, <1>3, OldIssues

(* ... nor do people who work in Opsgenie.                                 *)
LEMMA PeopleIssue ==
    ASSUME IInv, NEW id \in Ids, Drift(id) \/ Removal(id)
    PROVE  NoneIssued
  <1>1. StayIssued
    BY PeopleType
  <1>2. Exists(id) /\ \A d \in Ids \ {id} : remote'[d] = remote[d]
    BY DEF Drift, Removal, Store, Discard, IInv, TypeOK
  <1> QED BY <1>1, <1>2, OldIssues

(* A Create issues one identifier.                                         *)
LEMMA CreateIssues ==
    ASSUME IInv, pc # "idle", CreateApplied
    PROVE  OneIssued
  <1>1. /\ NewId \in Ids /\ remote[NewId] = Unissued
        /\ remote'[NewId] # Unissued
    BY CreateType
  <1> DEFINE id == NewId
  <1>2. \A d \in Ids \ {id} : remote'[d] = remote[d]
    BY DEF CreateApplied, Issue, IInv, TypeOK
  <1> HIDE DEF id
  <1>3. id \in Ids /\ remote[id] = Unissued /\ remote'[id] # Unissued
    BY <1>1 DEF id
  <1>4. (Ids \ Fresh)' = (Ids \ Fresh) \cup {id}
    BY <1>2, <1>3 DEF Fresh
  <1> QED BY <1>3, <1>4 DEF OneIssued

-----------------------------------------------------------------------------
(* A step that is not an edit is free, or is paid for. *)
Settled ==
    \/ /\ Costs(0)
       /\ UNCHANGED budget \/ \E w \in Expenses \ {"edits"} : Spend(w)
    \/ Costs(1) /\ \E w \in {"faults", "crashes", "delays"} : Spend(w)

(* The steps of the worker are settled: only a failed Create, or a status  *)
(* write that fails, costs a service.                                      *)
LEMMA WorkerSettles ==
    ASSUME IInv, PlaceInv, FiniteInv, Worker
    PROVE  Settled
  <1>1. CASE ResolveTeam
    <2>1. /\ pc = "resolving" /\ NoneIssued
          /\ UNCHANGED <<versions, queue, budget>> /\ cr \in Object
      BY <1>1, SameIssued, Running DEF ResolveTeam
    <2>2. CASE ReturnDone
      BY <2>1, <2>2, EndCost DEF ReturnDone, Settled
    <2>3. CASE /\ \E owner : cr' = [cr EXCEPT !.status.owner = owner]
               /\ pc' = IF cr.status.id # None THEN "fetching" ELSE "creating"
               /\ UNCHANGED <<key, timers>>
      <3>1. cr'.rv = cr.rv /\ cr'.status.id = cr.status.id
        BY <2>1, <2>3 DEF Object, Status
      <3>2. Creates(key)' => Creates(key)
        BY <2>1, <2>3, <3>1 DEF Creates
      <3>3. Costs(0)
        BY <2>1, <2>3, <3>1, <3>2, GoOnCost
      <3> QED BY <2>1, <3>3 DEF Settled
    <2> QED BY <1>1, <2>2, <2>3 DEF ResolveTeam
  <1>2. CASE FetchService
    <2>1. pc = "fetching" /\ NoneIssued /\ UNCHANGED <<versions, queue>>
      BY <1>2, SameIssued DEF FetchService
    <2>2. CASE pc' = "updating" /\ UNCHANGED <<budget, key, cr, timers>>
      <3>1. Costs(0)
        BY <2>1, <2>2, GoOnCost DEF Creates
      <3> QED BY <2>2, <3>1 DEF Settled
    <2>3. CASE ReturnRequeue
      <3>1. Costs(0)
        BY <2>1, <2>3, EndCost DEF ReturnRequeue
      <3>2. UNCHANGED budget \/ Spend("faults")
        BY <1>2, <2>3 DEF FetchService, Fail, ReturnRequeue, Idle
      <3> QED BY <3>1, <3>2 DEF Settled, Expenses
    <2> QED BY <1>2, <2>2, <2>3 DEF FetchService, Fail
  <1>3. CASE UpdateService
    <2>1. pc = "updating" /\ NoneIssued /\ UNCHANGED <<versions, queue>>
      BY <1>3, SameIssued, UpdateIssues DEF UpdateService
    <2>2. CASE pc' = "saving" /\ UNCHANGED <<budget, key, cr, timers>>
      <3>1. Costs(0)
        BY <2>1, <2>2, GoOnCost DEF Creates
      <3> QED BY <2>2, <3>1 DEF Settled
    <2>3. CASE ReturnRequeue
      <3>1. Costs(0)
        BY <2>1, <2>3, EndCost DEF ReturnRequeue
      <3>2. UNCHANGED budget \/ Spend("faults")
        BY <1>3, <2>3 DEF UpdateService, Fail, ReturnRequeue, Idle
      <3> QED BY <3>1, <3>2 DEF Settled, Expenses
    <2> QED BY <1>3, <2>2, <2>3 DEF UpdateService, Fail
  <1>4. CASE CreateService
    <2>1. pc = "creating" /\ UNCHANGED <<versions, queue>> /\ cr \in Object
      BY <1>4, Running DEF CreateService
    <2>2. CASE /\ CreateApplied /\ cr' = [cr EXCEPT !.status.id = NewId]
               /\ pc' = "saving" /\ UNCHANGED <<budget, key, timers>>
      <3>1. cr'.rv = cr.rv
        BY <2>1, <2>2 DEF Object
      <3>2. Costs(0)
        BY <2>1, <2>2, <3>1, CreateIssues, GoOnCost
      <3> QED BY <2>2, <3>2 DEF Settled
    <2>3. CASE ReturnRequeue /\ UNCHANGED <<remote, budget>>
      <3>1. Costs(0)
        BY <2>1, <2>3, SameIssued, EndCost DEF ReturnRequeue
      <3> QED BY <2>3, <3>1 DEF Settled
    <2>4. CASE Fail /\ (CreateApplied \/ UNCHANGED remote)
      <3>1. NoneIssued \/ OneIssued
        BY <2>1, <2>4, CreateIssues, SameIssued
      <3>2. Costs(1)
        BY <2>1, <2>4, <3>1, EndCost DEF Fail, ReturnRequeue
      <3> QED BY <2>4, <3>2 DEF Settled, Fail
    <2> QED BY <1>4, <2>2, <2>3, <2>4 DEF CreateService
  <1>5. CASE SaveStatus
    <2>1. /\ pc = "saving" /\ ReturnRequeue /\ NoneIssued /\ UNCHANGED queue
      BY <1>5, SameIssued DEF SaveStatus
    <2>2. CASE StoreStatus
      <3>1. Costs(0)
        BY <2>1, <2>2, StoreCost DEF ReturnRequeue
      <3>2. UNCHANGED budget \/ Spend("faults")
        BY <1>5, <2>2 DEF SaveStatus, StoreStatus
      <3> QED BY <3>1, <3>2 DEF Settled, Expenses
    <2>3. CASE ~StatusCurrent /\ UNCHANGED <<versions, budget>>
      <3>1. Costs(0)
        BY <2>1, <2>3, EndCost DEF ReturnRequeue
      <3> QED BY <2>3, <3>1 DEF Settled
    <2>4. CASE Spend("faults") /\ UNCHANGED versions
      <3>1. Costs(1)
        BY <2>1, <2>4, EndCost DEF ReturnRequeue
      <3> QED BY <2>4, <3>1 DEF Settled
    <2> QED BY <1>5, <2>2, <2>3, <2>4 DEF SaveStatus
  <1> QED BY <1>1, <1>2, <1>3, <1>4, <1>5 DEF Worker

(* Steps that are no edits settle what they cost, and keep the order. *)
LEMMA OthersSettle ==
    ASSUME IInv, PlaceInv, FiniteInv, [Next]_vars,
           ~ \E k \in CRs : User(k)
    PROVE  Settled /\ PlaceInv'
  <1>1. ASSUME NEW k \in CRs, Runtime(k) PROVE Settled /\ PlaceInv'
    <2>1. CASE WatchEvent(k)
      BY <1>1, <2>1, WatchCost, PlaceMoves DEF Runtime, WatchEvent, Settled
    <2>2. CASE Timer(k)
      <3>1. UNCHANGED <<versions, pc, key, cr>>
        BY <2>2 DEF Timer
      <3>2. PlaceInv'
        BY <3>1 DEF PlaceInv, TokensDiffer, CopyIsOldest, KnowsItsId
      <3>3. IF Len(versions[k]) = 1 THEN Costs(0) ELSE Costs(1)
        BY <1>1, <2>2, TimerCost DEF Runtime
      <3> QED BY <2>2, <3>2, <3>3 DEF Timer, Settled
    <2> QED BY <1>1, <2>1, <2>2 DEF Runtime
  <1>2. ASSUME NEW k \in CRs, Reconcile(k) PROVE Settled /\ PlaceInv'
    BY <1>2, StartCost, PlaceStarts DEF Settled, Reconcile, Get
  <1>3. CASE Worker
    BY <1>3, WorkerSettles, PlaceInRun
  <1>4. ASSUME UNCHANGED <<versions, queue, timers, pc, key, cr>>, NoneIssued,
               \/ UNCHANGED budget
               \/ \E w \in {"drift", "removals", "references"} : Spend(w)
        PROVE  Settled /\ PlaceInv'
    <2>1. PlaceInv'
      BY <1>4 DEF PlaceInv, TokensDiffer, CopyIsOldest, KnowsItsId
    <2> QED BY <1>4, <2>1, SameCost DEF Settled, Expenses
  <1>5. ASSUME NEW id \in Ids, Drift(id) \/ Removal(id)
        PROVE  Settled /\ PlaceInv'
    BY <1>4, <1>5, PeopleIssue DEF Drift, Removal
  <1>6. ASSUME NEW t \in TeamRefs, TeamEvent(t) PROVE Settled /\ PlaceInv'
    BY <1>4, <1>6, SameIssued DEF TeamEvent
  <1>7. CASE Crash
    BY <1>7, CrashCost, PlaceRestarts DEF Crash, Restart, Settled
  <1>8. CASE UNCHANGED vars
    BY <1>4, <1>8, SameIssued DEF vars, runtimeVars
  <1> QED BY <1>1, <1>2, <1>3, <1>5, <1>6, <1>7, <1>8 DEF Next

-----------------------------------------------------------------------------
(* A CR nobody has applied.                                                *)
LEMMA UntouchedCR ==
    ASSUME Untouched, NEW k \in CRs
    PROVE  /\ Len(versions[k]) = 1 /\ ~Latest(k).live
           /\ <<Latest(k)>> = versions[k]
           /\ ~(Len(versions[k]) > 1) /\ 1..(Len(versions[k]) - 1) = {}
  <1>1. \A x : Len(<<x>>) = 1 /\ <<x>>[1] = x
    OBVIOUS
  <1>2. versions[k] = <<NoObject>>
    BY DEF Untouched
  <1>3. Len(versions[k]) = 1 /\ Latest(k) = NoObject
    BY <1>1, <1>2 DEF Latest
  <1>4. ~(Len(versions[k]) > 1) /\ 1..(Len(versions[k]) - 1) = {}
    BY <1>3
  <1> QED BY <1>2, <1>3, <1>4, NoObjectType

(* Nothing is owed before the first edit.                                  *)
LEMMA NothingToLose ==
    ASSUME Untouched
    PROVE  FiniteInv /\ Total = 0
  <1>1. \A k \in CRs : ~Latest(k).live /\ 1..(Len(versions[k]) - 1) = {}
    BY UntouchedCR
  <1>2. Lost = {}
    BY <1>1 DEF Lost, MayRead, Behind
  <1>3. Doomed = {} /\ Due = {} /\ Again = {}
    BY <1>1 DEF Doomed, Creates, Due, Again, Unbound, Untouched
  <1>4. Ids \ Fresh = {}
    BY DEF Untouched
  <1>5. IsFiniteSet({}) /\ Cardinality({}) = 0
    BY FS_EmptySet
  <1> QED BY <1>2, <1>3, <1>4, <1>5 DEF FiniteInv, FiniteDebts, Total, Debts

(* Without an edit, nothing happens to the CRs. *)
LEMMA StaysUntouched ==
    ASSUME IInv, Untouched, [Next]_vars, ~ \E k \in CRs : User(k)
    PROVE  Untouched'
  <1>1. \A k \in CRs : /\ Len(versions[k]) = 1 /\ ~Latest(k).live
                       /\ <<Latest(k)>> = versions[k]
                       /\ ~(Len(versions[k]) > 1)
    BY UntouchedCR
  <1>2. ASSUME UNCHANGED <<versions, queue, timers, pc>>, Fresh' = Fresh
        PROVE  Untouched'
    BY <1>2 DEF Untouched
  <1>3. ASSUME NEW k \in CRs, Runtime(k) \/ Reconcile(k) PROVE FALSE
    <2>1. ~(Len(versions[k]) > 1)
      BY <1>1
    <2> QED BY <1>3, <2>1 DEF Runtime, WatchEvent, Timer, Reconcile, Get, Untouched
  <1>4. ~Worker
    BY DEF Untouched, Worker, ResolveTeam, FetchService, UpdateService,
           CreateService, SaveStatus
  <1>5. ASSUME NEW id \in Ids, Drift(id) \/ Removal(id) PROVE FALSE
    <2>1. remote[id] = Unissued
      BY DEF Untouched, Fresh
    <2> QED BY <1>5, <2>1 DEF Drift, Removal, Discard, Exists, Absent
  <1>6. ASSUME NEW t \in TeamRefs, TeamEvent(t) PROVE Untouched'
    BY <1>2, <1>6 DEF TeamEvent, Fresh
  <1>7. CASE Crash
    <2>1. /\ \A k \in CRs : versions'[k] = <<Latest(k)>>
          /\ queue' = {} /\ timers' = {} /\ pc' = "idle" /\ Fresh' = Fresh
      BY <1>1, <1>7 DEF Crash, Restart, Idle, Fresh
    <2> QED BY <1>1, <2>1 DEF Untouched
  <1>8. CASE UNCHANGED vars
    BY <1>2, <1>8 DEF vars, runtimeVars, Fresh
  <1> QED BY <1>3, <1>4, <1>5, <1>6, <1>7, <1>8 DEF Next

(* An edit appends a version, and costs two services, the first one. *)
LEMMA UserCost ==
    ASSUME IInv, PlaceInv, FiniteInv, NEW k \in CRs, User(k)
    PROVE  PlaceInv' /\ Costs(2) /\ (Untouched => Costs(1))
  <1>1. UNCHANGED <<queue, timers, pc, key, cr, remote>>
    BY DEF User, ApplyCR, DeleteCR
  <1>2. Latest(k) \in Object /\ NoObject \in Object
    BY LatestType, NoObjectType
  <1>3. PICK o \in Object :
            /\ Write(k, o)
            /\ o.live /\ Latest(k).live => o.status = Latest(k).status
    <2>1. CASE DeleteCR(k)
      BY <1>2, <2>1, NoObjectType DEF DeleteCR
    <2>2. ASSUME NEW s \in Specs, ApplyCR(k, s)
          PROVE  \E o \in Object :
                    /\ Write(k, o)
                    /\ o.live /\ Latest(k).live => o.status = Latest(k).status
      <3>1. CASE Latest(k).live
        <4> DEFINE o == [Latest(k) EXCEPT !.gen = @ + 1, !.spec = s]
        <4>1. o \in Object /\ o.status = Latest(k).status
          BY <1>2, EditedObject
        <4>2. Write(k, o)
          BY <2>2, <3>1 DEF ApplyCR
        <4> QED BY <4>1, <4>2
      <3>2. CASE ~Latest(k).live
        <4> DEFINE o == [NoObject EXCEPT !.live = TRUE, !.gen = 1, !.spec = s]
        <4>1. o \in Object
          BY <1>2 DEF Object
        <4>2. Write(k, o)
          BY <2>2, <3>2 DEF ApplyCR
        <4> QED BY <3>2, <4>1, <4>2
      <3> QED BY <3>1, <3>2
    <2> QED BY <2>1, <2>2 DEF User
  <1>4. PICK n : Appends(k, n) /\ n.live = o.live /\ n.status = o.status
    BY <1>3, WriteAppends
  <1>5. PlaceInv'
    BY <1>1, <1>4, PlaceWrites
  <1>6. Untouched => Len(versions[k]) = 1 /\ ~Latest(k).live
    BY UntouchedCR
  <1>7. n.live /\ Latest(k).live => n.status = Latest(k).status
    BY <1>3, <1>4
  <1>8. /\ Costs(2)
        /\ /\ queue = {} /\ timers = {} /\ pc = "idle"
           /\ Len(versions[k]) = 1 /\ ~Latest(k).live
           => Costs(1)
    BY <1>1, <1>4, <1>7, EditCost
  <1> QED BY <1>5, <1>6, <1>8 DEF Untouched

-----------------------------------------------------------------------------
(* What has been spent. *)
LEMMA SpentType ==
    ASSUME IInv, BudgetInv
    PROVE  \A w \in Expenses : Spent(w) \in Nat
  BY RuntimeAssumption DEF IInv, RuntimeInv, RuntimeTypeOK, BudgetInv, Spent

(* Spending on one cause raises what was spent on it by one.               *)
LEMMA Spending ==
    ASSUME IInv, BudgetInv, NEW w \in Expenses, Spend(w)
    PROVE  /\ BudgetInv'
           /\ \A v \in Expenses :
                 Spent(v)' = IF v = w THEN Spent(v) + 1 ELSE Spent(v)
  <1>1. /\ budget \in [Expenses -> Nat] /\ Budget \in [Expenses -> Nat]
        /\ budget' = [budget EXCEPT ![w] = @ - 1]
    BY RuntimeAssumption DEF IInv, RuntimeInv, RuntimeTypeOK, Spend
  <1>2. \A v \in Expenses : /\ budget[v] \in Nat /\ Budget[v] \in Nat
                            /\ budget[v] <= Budget[v]
                            /\ budget'[v] = IF v = w THEN budget[v] - 1 ELSE budget[v]
    BY <1>1 DEF BudgetInv
  <1> QED BY <1>2 DEF BudgetInv, Spent

(* A settled step keeps the sum covered.                                   *)
LEMMA SettledKeeps ==
    ASSUME IInv, BudgetInv, Settled
    PROVE  /\ BudgetInv' /\ Spent("edits")' = Spent("edits") /\ FiniteInv'
           /\ Total < Allowance => Total' < Allowance'
  <1>1. /\ Spent("edits") \in Nat /\ Spent("faults") \in Nat
        /\ Spent("crashes") \in Nat /\ Spent("delays") \in Nat
    BY SpentType DEF Expenses
  <1>2. CASE Costs(0) /\ UNCHANGED budget
    <2>1. BudgetInv' /\ \A w \in Expenses : Spent(w)' = Spent(w)
      BY <1>2 DEF BudgetInv, Spent
    <2> QED BY <1>1, <1>2, <2>1 DEF Costs, Allowance, Expenses
  <1>3. ASSUME Costs(0), NEW w \in Expenses \ {"edits"}, Spend(w)
        PROVE  /\ BudgetInv' /\ Spent("edits")' = Spent("edits") /\ FiniteInv'
               /\ Total < Allowance => Total' < Allowance'
    <2>1. /\ BudgetInv'
          /\ \A v \in Expenses :
                Spent(v)' = IF v = w THEN Spent(v) + 1 ELSE Spent(v)
      BY <1>3, Spending
    <2>2. /\ Spent("edits")' = Spent("edits")
          /\ Spent("faults")' \in {Spent("faults"), Spent("faults") + 1}
          /\ Spent("crashes")' \in {Spent("crashes"), Spent("crashes") + 1}
          /\ Spent("delays")' \in {Spent("delays"), Spent("delays") + 1}
      BY <1>3, <2>1 DEF Expenses
    <2> QED BY <1>1, <1>3, <2>1, <2>2 DEF Costs, Allowance
  <1>4. ASSUME Costs(1), NEW w \in {"faults", "crashes", "delays"}, Spend(w)
        PROVE  /\ BudgetInv' /\ Spent("edits")' = Spent("edits") /\ FiniteInv'
               /\ Total < Allowance => Total' < Allowance'
    <2>1. /\ BudgetInv'
          /\ \A v \in Expenses :
                Spent(v)' = IF v = w THEN Spent(v) + 1 ELSE Spent(v)
      BY <1>4, Spending DEF Expenses
    <2>2. /\ Spent("edits")' = Spent("edits")
          /\ Spent("faults")' + Spent("crashes")' + Spent("delays")'
                = Spent("faults") + Spent("crashes") + Spent("delays") + 1
      BY <1>1, <1>4, <2>1 DEF Expenses
    <2>3. Allowance' = Allowance + 1
      BY <1>1, <2>1, <2>2 DEF Allowance, Expenses
    <2> QED BY <1>1, <1>4, <2>1, <2>2, <2>3 DEF Costs, Allowance
  <1> QED BY <1>2, <1>3, <1>4 DEF Settled

(* DupInv holds at the start.                                              *)
LEMMA InitDebts == Init => DupInv
  <1> SUFFICES ASSUME Init PROVE DupInv
    OBVIOUS
  <1>1. /\ versions = [k \in CRs |-> <<NoObject>>] /\ queue = {} /\ timers = {}
        /\ budget = Budget /\ pc = "idle"
        /\ remote = [id \in Ids |-> Unissued]
    BY DEF Init, RuntimeInit
  <1>2. Untouched
    BY <1>1 DEF Untouched, Fresh
  <1>3. \A k \in CRs : Len(versions[k]) = 1
    BY <1>1
  <1>4. PlaceInv
    BY <1>1, <1>3 DEF PlaceInv, TokensDiffer, CopyIsOldest, KnowsItsId
  <1>5. BudgetInv /\ Spent("edits") = 0
    <2>1. \A w \in Expenses : Budget[w] \in Nat
      BY RuntimeAssumption
    <2> QED BY <1>1, <2>1 DEF BudgetInv, Spent, Expenses
  <1> QED BY <1>2, <1>4, <1>5, NothingToLose DEF DupInv, DebtInv

(* Every step keeps DupInv.                                                *)
LEMMA NextDebts ==
    ASSUME IInv, DupInv, [Next]_vars
    PROVE  DupInv'
  <1>1. PlaceInv /\ FiniteInv /\ BudgetInv /\ DebtInv
    BY DEF DupInv
  <1>2. /\ Spent("edits") \in Nat /\ Spent("faults") \in Nat
        /\ Spent("crashes") \in Nat /\ Spent("delays") \in Nat
    BY <1>1, SpentType DEF Expenses
  <1>3. ASSUME NEW k \in CRs, User(k) PROVE DupInv'
    <2>1. PlaceInv' /\ Costs(2) /\ (Untouched => Costs(1))
      BY <1>1, <1>3, UserCost
    <2>2. Spend("edits")
      BY <1>3 DEF User, ApplyCR, DeleteCR
    <2>3. /\ BudgetInv'
          /\ Spent("edits")' = Spent("edits") + 1
          /\ Spent("faults")' = Spent("faults")
          /\ Spent("crashes")' = Spent("crashes")
          /\ Spent("delays")' = Spent("delays")
      BY <1>1, <2>2, Spending DEF Expenses
    <2>4. Total' < Allowance'
      <3>1. CASE Spent("edits") = 0
        <4>1. Total' <= 1
          BY <1>1, <2>1, <3>1, NothingToLose DEF DebtInv, Costs
        <4> QED BY <1>2, <2>1, <2>3, <4>1 DEF Allowance, Costs
      <3>2. CASE Spent("edits") # 0
        BY <1>1, <1>2, <2>1, <2>3, <3>2 DEF DebtInv, Allowance, Costs
      <3> QED BY <3>1, <3>2
    <2>5. Spent("edits")' # 0
      BY <1>2, <2>3
    <2> QED BY <2>1, <2>3, <2>4, <2>5 DEF DupInv, DebtInv, Costs
  <1>4. CASE ~ \E k \in CRs : User(k)
    <2>1. Settled /\ PlaceInv'
      BY <1>1, <1>4, OthersSettle
    <2>2. /\ BudgetInv' /\ Spent("edits")' = Spent("edits") /\ FiniteInv'
          /\ Total < Allowance => Total' < Allowance'
      BY <1>1, <2>1, SettledKeeps
    <2>3. Untouched => Untouched'
      BY <1>4, StaysUntouched
    <2> QED BY <1>1, <2>1, <2>2, <2>3 DEF DupInv, DebtInv
  <1> QED BY <1>3, <1>4

(* What was issued, and what may still be without any further cause, is    *)
(* covered by the causes.                                                  *)
THEOREM DebtsAreCovered == Spec => []DupInv
  <1>1. Init => IInv /\ DupInv
    BY InitIInv, InitDebts
  <1>2. IInv /\ DupInv /\ [Next]_vars => (IInv /\ DupInv)'
    BY NextIInv, NextDebts
  <1> QED BY <1>1, <1>2, PTL DEF Spec

(* What the causes cover leaves DuplicatesBounded no other outcome.        *)
LEMMA CoveredIsBounded ==
    ASSUME IInv, DupInv
    PROVE  DuplicatesBounded
  <1>1. SUFFICES ASSUME Fresh # Ids
                 PROVE  Cardinality(Ids \ Fresh) < Allowance
    BY DEF DuplicatesBounded, Allowance
  <1>2. Total < Allowance
    BY <1>1 DEF DupInv, DebtInv, Untouched
  <1>3. /\ Cardinality(Ids \ Fresh) \in Nat /\ Cardinality(Lost) \in Nat
        /\ Cardinality(Doomed) \in Nat /\ Cardinality(Due) \in Nat
        /\ Cardinality(Again) \in Nat
    BY FS_CardinalityType DEF DupInv, FiniteInv, FiniteDebts
  <1>4. Cardinality(Ids \ Fresh) <= Total
    BY <1>3 DEF Total, Debts
  <1>5. Allowance \in Nat
    BY SpentType DEF Allowance, DupInv, Expenses
  <1> QED BY <1>2, <1>3, <1>4, <1>5 DEF Total, Debts

(* Every service beyond the first has a cause: an edit accounts for two at *)
(* most, a failed call, a restart and a timer that overtakes the watch for *)
(* one.                                                                    *)
THEOREM DuplicatesHaveCauses == Spec => []DuplicatesBounded
  <1>1. IInv /\ DupInv => DuplicatesBounded
    BY CoveredIsBounded
  <1> QED BY <1>1, InductiveInvariant, DebtsAreCovered, PTL

-----------------------------------------------------------------------------
(* For compositions: everything above in one invariant, and what a step of *)
(* another component does to it that spends from the shared budget.        *)
SafetyInv == IInv /\ GenInv /\ DupInv

(* What holds of every step.                                               *)
SafeStep == BindingStep /\ WritesNoOlder

(* A step of another component.                                            *)
Elsewhere ==
    /\ UNCHANGED <<versions, queue, timers, pc, key, cr, remote, teams>>
    /\ budget' \in [Expenses -> Nat]
    /\ \A w \in Expenses : budget'[w] <= budget[w]

(* At the start. *)
LEMMA InitSafe == Init => SafetyInv
  BY InitIInv, InitGens, InitDebts DEF SafetyInv

(* The controller's own steps. *)
LEMMA NextSafe ==
    ASSUME SafetyInv, [Next]_vars
    PROVE  SafetyInv' /\ SafeStep
  BY NextIInv, NextGens, NextDebts DEF SafetyInv, SafeStep, GenStep

(* What others spend only raises what the debts are covered by.            *)
LEMMA ElsewhereDebts ==
    ASSUME IInv, DupInv, Elsewhere
    PROVE  DupInv'
  <1>1. PlaceInv /\ FiniteInv /\ BudgetInv /\ DebtInv
    BY DEF DupInv
  <1>2. UNCHANGED <<versions, queue, timers, pc, key, cr, remote>>
    BY DEF Elsewhere
  <1>3. PlaceInv'
    BY <1>1, <1>2
       DEF PlaceInv, TokensDiffer, CopyIsOldest, KnowsItsId
  <1>4. Fresh' = Fresh /\ NoneIssued
    BY <1>2 DEF Fresh, NoneIssued
  <1>5. Costs(0)
    BY <1>1, <1>2, <1>4, SameCost
  <1>6. \A w \in Expenses : /\ budget[w] \in Nat /\ Budget[w] \in Nat
                            /\ budget'[w] \in Nat
                            /\ budget'[w] <= budget[w] /\ budget[w] <= Budget[w]
    BY <1>1, RuntimeAssumption
       DEF Elsewhere, BudgetInv, IInv, RuntimeInv, RuntimeTypeOK
  <1>7. BudgetInv' /\ \A w \in Expenses : /\ Spent(w) \in Nat /\ Spent(w)' \in Nat
                                         /\ Spent(w) <= Spent(w)'
    BY <1>6 DEF BudgetInv, Spent
  <1>8. /\ Allowance \in Nat /\ Allowance' \in Nat /\ Allowance <= Allowance'
        /\ Spent("edits")' # 0 /\ Spent("edits") = 0 => 0 < Allowance'
    <2>1. ASSUME NEW w \in {"edits", "faults", "crashes", "delays"}
          PROVE  Spent(w) \in Nat /\ Spent(w)' \in Nat /\ Spent(w) <= Spent(w)'
      BY <1>7 DEF Expenses
    <2>2. ASSUME NEW e \in Nat, NEW f \in Nat, NEW c \in Nat, NEW d \in Nat,
                 NEW e1 \in Nat, NEW f1 \in Nat, NEW c1 \in Nat, NEW d1 \in Nat,
                 e <= e1, f <= f1, c <= c1, d <= d1
          PROVE  /\ 2 * e + f + c + d \in Nat /\ 2 * e1 + f1 + c1 + d1 \in Nat
                 /\ 2 * e + f + c + d <= 2 * e1 + f1 + c1 + d1
                 /\ e1 # 0 => 0 < 2 * e1 + f1 + c1 + d1
      BY <2>2
    <2>3. /\ Spent("edits") \in Nat /\ Spent("edits")' \in Nat
          /\ Spent("edits") <= Spent("edits")'
          /\ Spent("faults") \in Nat /\ Spent("faults")' \in Nat
          /\ Spent("faults") <= Spent("faults")'
          /\ Spent("crashes") \in Nat /\ Spent("crashes")' \in Nat
          /\ Spent("crashes") <= Spent("crashes")'
          /\ Spent("delays") \in Nat /\ Spent("delays")' \in Nat
          /\ Spent("delays") <= Spent("delays")'
      BY <2>1
    <2>4. Allowance' = 2 * Spent("edits")' + Spent("faults")' + Spent("crashes")'
                           + Spent("delays")'
      BY DEF Allowance
    <2> QED BY <2>2, <2>3, <2>4 DEF Allowance
  <1>9. DebtInv'
    <2>1. CASE Spent("edits")' = 0
      <3>1. Spent("edits") = 0
        BY <1>7, <2>1 DEF Expenses
      <3>2. Untouched'
        BY <1>1, <1>2, <1>4, <3>1 DEF DebtInv, Untouched
      <3> QED BY <2>1, <3>2 DEF DebtInv
    <2>2. CASE Spent("edits")' # 0
      <3>1. Total' <= Total /\ Total \in Nat /\ Total' \in Nat
        BY <1>5 DEF Costs
      <3>2. CASE Spent("edits") = 0
        <4>1. Total = 0
          BY <1>1, <3>2, NothingToLose DEF DebtInv
        <4> QED BY <1>8, <2>2, <3>1, <3>2, <4>1 DEF DebtInv
      <3>3. CASE Spent("edits") # 0
        BY <1>1, <1>8, <2>2, <3>1, <3>3 DEF DebtInv
      <3> QED BY <3>2, <3>3
    <2> QED BY <2>1, <2>2
  <1> QED BY <1>3, <1>5, <1>7, <1>9 DEF DupInv, Costs

(* The steps of other components. *)
LEMMA ElsewhereSafe ==
    ASSUME SafetyInv, Elsewhere
    PROVE  SafetyInv' /\ SafeStep
  <1>1. IInv /\ GenInv /\ DupInv
    BY DEF SafetyInv
  <1>2. /\ UNCHANGED <<versions, queue, timers, pc, key, cr, remote>>
        /\ budget' \in [Expenses -> Nat] /\ teams' \in [TeamRefs -> TeamStates]
    BY <1>1 DEF Elsewhere, IInv, TypeOK
  <1>3. IInv' /\ BindingStep
    BY <1>1, <1>2, SameRemote, ElsewhereStep
  <1>4. GenInv' /\ WritesNoOlder
    BY <1>1, <1>2, SameRemoteGens, RemoteStays, QuietGens
  <1> QED BY <1>1, <1>3, <1>4, ElsewhereDebts DEF SafetyInv, SafeStep

(* What SafetyInv says of a state. *)
LEMMA SafeState ==
    ASSUME SafetyInv
    PROVE  NoSharedService /\ DuplicatesBounded
  BY CoveredIsBounded DEF SafetyInv, IInv, BindingInv

(* ... and what it says of the versions of a CR and the cached one.        *)
LEMMA SafeVersions ==
    ASSUME SafetyInv, NEW k \in CRs
    PROVE  /\ Cached(k) \in Objects(k) /\ Latest(k) \in Objects(k)
           /\ \A o \in Objects(k) : o.status.id \in Ids \cup {None}
  <1>1. RuntimeTypeOK
    BY DEF SafetyInv, IInv, RuntimeInv
  <1> QED BY <1>1, VersionsOfCR DEF Object, Status

(* An identifier that shows up in a version was there before, or is in the *)
(* newest version now: only writes to the API server bring one.            *)
OnlyNewest ==
    \A c \in CRs : \A o \in Objects(c)' :
        \/ o.status.id \in {None, Latest(c)'.status.id}
        \/ \E p \in Objects(c) : p.status.id = o.status.id

(* Every step brings identifiers through the API server only.              *)
LEMMA NextNewest ==
    ASSUME IInv, [Next]_vars
    PROVE  OnlyNewest
  <1>1. ASSUME NoNewIds PROVE OnlyNewest
    BY <1>1 DEF NoNewIds, OnlyNewest
  <1>2. ASSUME UNCHANGED versions PROVE OnlyNewest
    BY <1>2 DEF OnlyNewest, Objects
  <1>3. ASSUME NEW k \in CRs, User(k) \/ Runtime(k) PROVE OnlyNewest
    BY <1>1, <1>3, UserStep, RuntimeStep DEF User, Runtime, IInv
  <1>4. ASSUME NEW k \in CRs, Reconcile(k) PROVE OnlyNewest
    BY <1>2, <1>4 DEF Reconcile, Get
  <1>5. CASE Worker
    <2>1. CASE SaveStatus /\ StoreStatus
      <3>1. PICK k \in CRs : key = k
        BY <2>1, Running DEF SaveStatus
      <3>2. /\ \A c \in CRs \ {k} : Objects(c)' = Objects(c)
            /\ Objects(k)' = Objects(k) \cup {Latest(k)'}
        BY <2>1, <3>1, StoreStep DEF SaveStatus, IInv
      <3> QED BY <3>2 DEF OnlyNewest
    <2>2. CASE ~(SaveStatus /\ StoreStatus)
      <3>1. UNCHANGED versions
        BY <1>5, <2>2 DEF Worker, ResolveTeam, FetchService, UpdateService,
                          CreateService, SaveStatus
      <3> QED BY <1>2, <3>1
    <2> QED BY <2>1, <2>2
  <1>6. CASE Crash
    BY <1>1, <1>6, RestartStep DEF Crash, IInv
  <1>7. CASE UNCHANGED vars
    BY <1>2, <1>7 DEF vars, runtimeVars
  <1> QED BY <1>2, <1>3, <1>4, <1>5, <1>6, <1>7
          DEF Next, Drift, Removal, TeamEvent

=============================================================================
