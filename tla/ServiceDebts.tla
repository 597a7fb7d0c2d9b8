---------------------------- MODULE ServiceDebts ----------------------------
(***************************************************************************)
(* Why DuplicatesBounded holds: the inductive invariant behind it, which   *)
(* counts next to the services issued so far those that may still be       *)
(* created without any further edit, failure, restart or early timer.      *)
(* Each step of the controller keeps the sum or is paid for by one of the  *)
(* causes.  A CR without a service owes up to four:                        *)
(*   Due      the service it is to get, unless the status write that will  *)
(*            record one is about to succeed;                              *)
(*   Doomed   one that a run on an outdated copy is about to create, and   *)
(*            that the optimistic lock will keep out of the CR;            *)
(*   Lost     one for each outdated version without a service that a run   *)
(*            may still read;                                              *)
(*   Again    one more for the newest version, when a second run may see   *)
(*            it before the status written by the first.                   *)
(***************************************************************************)
EXTENDS ServiceController

(* A version that exists and records no service. *)
Unbound(o) == o.live /\ o.status.id = None

(* The run on CR k holds the newest version of it. *)
Current(k) == key = k /\ Latest(k).live /\ Latest(k).rv = cr.rv

(* ... and is about to record its service. *)
Saves(k) == pc = "saving" /\ Current(k)

(* The run on CR k will call Create. *)
Creates(k) ==
    /\ key = k
    /\ pc = "creating" \/ (pc = "resolving" /\ cr.status.id = None)

(* Two of four reasons to look at a CR. *)
Two(a, b, c, d) ==
    \/ a /\ (b \/ c \/ d)
    \/ b /\ (c \/ d)
    \/ c /\ d

(* CR k may be looked at more than once. *)
Crowded(k) ==
    \/ Len(versions[k]) > 2
    \/ Two(k \in queue, k \in timers, key = k, Len(versions[k]) > 1)

(* A run may read o, a version of CR k without a service, although it is   *)
(* not the newest one.                                                     *)
MayRead(k, o) ==
    \E i \in 1..(Len(versions[k]) - 1) :
        /\ versions[k][i] = o
        /\ Unbound(o)
        /\ i > 1 \/ k \in queue

(* The versions of CR k that the API server has replaced. *)
Behind(k) == {versions[k][i] : i \in 1..(Len(versions[k]) - 1)}

Lost == {z \in UNION {{k} \X Behind(k) : k \in CRs} : MayRead(z[1], z[2])}

Doomed == {k \in CRs : Creates(k) /\ ~Current(k)}

Due == {k \in CRs : Unbound(Latest(k)) /\ ~Saves(k)}

Again ==
    {k \in CRs : /\ Unbound(Latest(k))
                 /\ Saves(k) => k \in queue \cup timers
                 /\ ~Saves(k) => Crowded(k)}

Debts ==
    Cardinality(Lost) + Cardinality(Doomed) + Cardinality(Due) + Cardinality(Again)

(* What has been issued and what may be. *)
Total == Cardinality(Ids \ Fresh) + Debts

(* The set of identifiers may be infinite: those in use are finitely many. *)
FiniteDebts ==
    IsFiniteSet(Lost) /\ IsFiniteSet(Doomed) /\ IsFiniteSet(Due) /\ IsFiniteSet(Again)

FiniteInv == IsFiniteSet(Ids \ Fresh) /\ FiniteDebts

-----------------------------------------------------------------------------
(* The debts are settled in order because of where the versions stand.     *)

(* No two versions of a CR share a resourceVersion. *)
TokensDiffer ==
    \A k \in CRs : \A i, j \in 1..Len(versions[k]) :
        versions[k][i].rv = versions[k][j].rv => i = j

(* A run holds the resourceVersion of the cached version or of none, and   *)
(* knows an id after FetchService.                                         *)
CopyIsOldest ==
    pc # "idle" =>
        \A i \in 1..Len(versions[key]) : versions[key][i].rv = cr.rv => i = 1

(* A run that goes on after FetchService, service:64, has an id. *)
KnowsItsId == pc \in {"fetching", "updating", "saving"} => cr.status.id # None

PlaceInv == TokensDiffer /\ CopyIsOldest /\ KnowsItsId

-----------------------------------------------------------------------------
(* What the causes pay for. *)

Allowance ==
    2 * Spent("edits") + Spent("faults") + Spent("crashes") + Spent("delays")

BudgetInv == \A w \in Expenses : budget[w] <= Budget[w]

(* Before the first edit there is nothing. *)
Untouched ==
    /\ queue = {} /\ timers = {} /\ pc = "idle" /\ Fresh = Ids
    /\ \A k \in CRs : versions[k] = <<NoObject>>

DebtInv == IF Spent("edits") = 0 THEN Untouched ELSE Total < Allowance

(* The services issued so far and those that may still be created without  *)
(* another edit, failure, restart or early timer are covered by the edits, *)
(* failures, restarts and early timers so far.                             *)
DupInv == PlaceInv /\ FiniteInv /\ BudgetInv /\ DebtInv

=============================================================================
