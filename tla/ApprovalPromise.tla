--------------------------- MODULE ApprovalPromise ---------------------------
(***************************************************************************)
(* What the approval flow promises, without sockets, waiters or retries: a *)
(* request is asked once and decided at most once, and what it stands for  *)
(* is opened only after it was approved, and at one moment: a ticket that  *)
(* came once does not come again.                                          *)
(***************************************************************************)
CONSTANTS ReqId,
          Start   \* ways to open what a request stands for

VARIABLES
  status,  \* of every request that may ever be asked
  opened   \* for each request, how it was opened

promiseVars == <<status, opened>>

Init ==
  /\ status = [r \in ReqId |-> "none"]
  /\ opened = [r \in ReqId |-> {}]

Ask(r) ==
  /\ status[r] = "none"
  /\ \E s \in {"pending", "denied"} : status' = [status EXCEPT ![r] = s]
  /\ UNCHANGED opened

\* One administrator's decision, on one request or on several.
Decide(ids, s) ==
  /\ \A r \in ids : status[r] = "pending"
  /\ status' = [r \in ReqId |-> IF r \in ids THEN s ELSE status[r]]
  /\ UNCHANGED opened

Open(r) ==
  /\ status[r] = "approved"
  /\ opened[r] = {} /\ opened'[r] # {} /\ opened'[r] \subseteq Start
  /\ opened' = [opened EXCEPT ![r] = opened'[r]]
  /\ UNCHANGED status

Next ==
  \/ \E r \in ReqId : Ask(r) \/ Open(r)
  \/ \E ids \in SUBSET ReqId, s \in {"approved", "denied"} : Decide(ids, s)

Spec == Init /\ [][Next]_promiseVars
=============================================================================
