--------------------------- MODULE MCApprovalSystem ---------------------------
(* Instances of ApprovalSystem for TLC. *)
EXTENDS ApprovalSystem

\* One program as it is found first, after somebody replaced it, and copied elsewhere.
Files == {"setup", "setup replaced", "copy of setup"}
Names == [f \in File |-> IF f = "copy of setup" THEN "copy.exe" ELSE "setup.exe"]
Hashes == [f \in File |-> IF f = "setup replaced" THEN "new" ELSE "old"]

Symmetry == Permutations(Caller) \cup Permutations(ReqId)
=============================================================================
