------------------------------- MODULE Binding -------------------------------
(***************************************************************************)
(* What status.serviceId, status.scheduleId and status.escalationId        *)
(* promise, whatever happens in between: a CR starts unbound, is bound at  *)
(* most once, and stays bound to that object of Opsgenie until it is       *)
(* deleted.  An object that is not shareable is bound to one CR.           *)
(***************************************************************************)
CONSTANTS
    CRs, Ids, None,
    Shareable       \* objects that several CRs may be bound to

VARIABLES
    living,         \* the CRs that exist
    bound           \* [CRs -> Ids \cup {None}]

Init ==
    /\ living = {}
    /\ bound = [k \in CRs |-> None]

Create(k) ==
    /\ k \notin living
    /\ living' = living \cup {k}
    /\ bound' = [bound EXCEPT ![k] = None]

Delete(k) ==
    /\ k \in living
    /\ living' = living \ {k}
    /\ bound' = [bound EXCEPT ![k] = None]

Bind(k, id) ==
    /\ k \in living /\ bound[k] = None
    /\ id \in Shareable \/ \A c \in CRs : bound[c] # id
    /\ bound' = [bound EXCEPT ![k] = id]
    /\ UNCHANGED living

Next ==
    \E k \in CRs : Create(k) \/ Delete(k) \/ \E id \in Ids : Bind(k, id)

Spec == Init /\ [][Next]_<<living, bound>>

=============================================================================
