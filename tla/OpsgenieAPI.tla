---------------------------- MODULE OpsgenieAPI ----------------------------
(***************************************************************************)
(* One kind of object kept by the Opsgenie service, as the reconcilers     *)
(* use it through opsgenie-go-sdk-v2: an object is created under an        *)
(* identifier that Opsgenie chooses and never issues twice, is fetched and *)
(* updated under it, and may be deleted by people working in Opsgenie.     *)
(*                                                                         *)
(* Opsgenie and its SDK are not part of the repository: every definition   *)
(* here is external, and says no more than the callers rely on.            *)
(***************************************************************************)
CONSTANTS
    Ids,        \* the identifiers Opsgenie may issue (bounds the model)
    None,       \* Go's empty string or nil: no identifier, no value
    Unissued,   \* remote[id] before Opsgenie has issued id
    Gone        \* remote[id] once the object has been deleted

ASSUME OpsgenieAssumption ==
    /\ None \notin Ids
    /\ Unissued # Gone

VARIABLE
    remote      \* [Ids -> object contents, Unissued or Gone]

Absent == {Unissued, Gone}

(* The object exists in Opsgenie now. *)
Exists(id) == id \in Ids /\ remote[id] \notin Absent

Fresh == {id \in Ids : remote[id] = Unissued}

(* The identifier the next Create call is answered with. *)
NewId == CHOOSE id \in Fresh : TRUE

(* Create: c is stored under an identifier never used before. *)
Issue(c) ==
    /\ Fresh # {}
    /\ remote' = [remote EXCEPT ![NewId] = c]

(* Update of an existing object. *)
Store(id, c) ==
    /\ Exists(id)
    /\ remote' = [remote EXCEPT ![id] = c]

(* Somebody deletes the object in Opsgenie. *)
Discard(id) ==
    /\ Exists(id)
    /\ remote' = [remote EXCEPT ![id] = Gone]

=============================================================================
