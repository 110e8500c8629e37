----------------------------- MODULE MCJitSystem -----------------------------
(* Instances of JitSystem for TLC. *)
EXTENDS JitSystem
=============================================================================
