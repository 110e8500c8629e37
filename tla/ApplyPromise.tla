---------------------------- MODULE ApplyPromise ----------------------------
(***************************************************************************)
(* What an administrator may rely on when the console changes itself: the  *)
(* phase that currentApplyStatus (self-update-status.ts) and its twin for  *)
(* the server settings report.  Success is reported of a change there is,  *)
(* stays until another change is tried, and is never taken back as a       *)
(* failure; a change does not run for ever.  A failure promises less: the  *)
(* error may be that of an earlier change.                                 *)
(***************************************************************************)
VARIABLE phase

Phases == {"idle", "running", "stale", "succeeded", "failed"}

PromiseInit == phase = "idle"

\* Whatever the last change left, a new one takes the lock or fails.
Take == phase # "running" /\ phase' = "running"
FailAtOnce == phase = "idle" /\ phase' = "failed"

\* The lock is given up: the hand-off failed, or an administrator abandons it.
GiveUp == phase \in {"running", "stale", "failed"} /\ phase' = "idle"

\* A change tried before the updater of the last one has left fails, and takes
\* the record of that one's success with it.
FailTooSoon == phase = "succeeded" /\ phase' = "idle"

\* Too long without a verdict, which still counts when it comes late; or the
\* log of a new change is begun while the old lock is there.
Tire == phase # "idle" /\ phase' = "stale"
Verdict == phase \in {"running", "stale", "failed"} /\ phase' \in {"succeeded", "failed"}

PromiseNext == Take \/ FailAtOnce \/ FailTooSoon \/ GiveUp \/ Tire \/ Verdict

PromiseSpec ==
    PromiseInit /\ [][PromiseNext]_phase /\ WF_phase(phase = "running" /\ PromiseNext)
=============================================================================
