------------------------------ MODULE SpecDiff ------------------------------
(***************************************************************************)
(* The comparisons by which the reconcilers decide whether what Opsgenie   *)
(* holds still is what a CR asks for.  Pure functions on Go slices, which  *)
(* are sequences here.                                                     *)
(***************************************************************************)
EXTENDS Integers, Sequences, SequencesExt

(* equalStringSlices of the service controller: the lengths agree and each *)
(* element of b occurs in a (aMap).  The mutant compares the positions.    *)
MutantEqualStringSlices(a, b) == a = b
equalStringSlices(a, b) ==
    /\ Len(a) = Len(b)
    /\ \A i \in DOMAIN b : b[i] \in ToSet(a)

(* existingMembersMap: a user listed twice keeps the role listed last.     *)
RoleOf(existing, user) ==
    LET at == {i \in DOMAIN existing : existing[i].user = user}
    IN  existing[CHOOSE i \in at : \A j \in at : j <= i].role

(* isMembersUpdateRequired of the team controller.                         *)
MutantMembersUpdateRequired(crMembers, existing) == crMembers # existing
isMembersUpdateRequired(crMembers, existing) ==
    \/ Len(crMembers) # Len(existing)
    \/ \E i \in DOMAIN crMembers :
          \/ \A j \in DOMAIN existing : existing[j].user # crMembers[i].user
          \/ RoleOf(existing, crMembers[i].user) # crMembers[i].role

-----------------------------------------------------------------------------
(* What Opsgenie may hold after it was sent s: the same elements, in an    *)
(* order of its own.                                                       *)
Reorderings(s) ==
    {[i \in DOMAIN s |-> s[p[i]]] : p \in Bijection(DOMAIN s, DOMAIN s)}

=============================================================================
