----------------------------- MODULE MCJitServer -----------------------------
(* Instances of JitServer for TLC. *)
EXTENDS JitServer

Symmetry == Permutations(User \ Sid) \cup Permutations(GrantId) \cup Permutations(Device)
=============================================================================
