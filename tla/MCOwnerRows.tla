----------------------------- MODULE MCOwnerRows -----------------------------
(* A replica and its successor under the same name.  Rows of different names  *)
(* never affect each other, so a third process adds nothing but states.       *)
EXTENDS OwnerRows
CONSTANTS a1, a2, replica
MCOwner == {a1, a2}
MCName == {replica}
MCnameOf == [p \in MCOwner |-> replica]
=============================================================================
