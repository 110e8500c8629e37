---------------------------- MODULE ApprovalSystem ----------------------------
(***************************************************************************)
(* An elevation request end to end: the console of RequestServer and the   *)
(* broker of one PC, with its pipe handlers (BrokerHost.Handle), the table *)
(* of those who wait for a ticket (RealtimeChannel.tickets), the HTTP      *)
(* fallback (ApiClient) and the programs remembered for an approval that   *)
(* finds nobody waiting (PendingLaunches).                                 *)
(*                                                                         *)
(* The broker targets .NET Framework 4.8 and its completion sources run    *)
(* their continuations on the completing thread. So when the receive loop  *)
(* completes a caller, the caller runs up to its next await inside that    *)
(* same step; a caller whose timer fires runs on a thread of its own.      *)
(***************************************************************************)
EXTENDS RequestServer

CONSTANTS
  Caller,   \* pipe handlers: as many as may be open at once
  Faults    \* which of "socket" and "crash" may happen

VARIABLES
  caller,  \* each handler: where it stands and what it asked for
  jobs,    \* PendingLaunches.Jobs: request id -> path, last writer wins
  opened   \* <<request, path, caller>> of each start on an approval, of whatever
           \* the path then held

agentVars == <<caller, jobs, opened>>
vars == <<serverVars, agentVars>>

ASSUME ApprovalAssumption ==
  /\ Faults \subseteq {"socket", "crash"}
  /\ "nobody" \notin Caller   \* who opens for a job

Idle == [step |-> "idle"]

\* What a handler holds once it knows the id of its request: asked for, and
\* whether the completion source it awaits is still the one in the table.
Held(step, c, r, linked) ==
  [step |-> step, user |-> caller[c].user, file |-> caller[c].file, req |-> r, linked |-> linked]

Asking == [step : {"rpc", "http"}, user : User, file : File]
Holding == [step : {"waiting", "timed-out", "unregistered"}, user : User, file : File,
            req : ReqId, linked : BOOLEAN]

TypeOK ==
  /\ ServerTypeOK
  /\ caller \in [Caller -> {Idle} \cup Asking \cup Holding]
  /\ DOMAIN jobs \subseteq ReqId /\ \A r \in DOMAIN jobs : jobs[r] \in Name
  /\ opened \subseteq ReqId \X Name \X (Caller \cup {"nobody"})

Init ==
  /\ requests = [r \in {} |-> {}]
  /\ decisions = {}
  /\ connected = FALSE
  /\ wire = <<>>
  /\ caller = [c \in Caller |-> Idle]
  /\ jobs = [r \in {} |-> {}]
  /\ opened = {}

-----------------------------------------------------------------------------
(* The socket.                                                             *)

Connect ==
  /\ ~connected
  /\ connected' = TRUE
  /\ UNCHANGED <<requests, decisions, wire, agentVars>>

\* FailPending: a handler that awaits its RPC gets the exception and goes on to
\* HTTP; one that awaits a ticket is taken out of the table and left waiting.
FailPending ==
  caller' = [c \in Caller |->
    CASE caller[c].step = "rpc" -> [caller[c] EXCEPT !.step = "http"]
      [] caller[c].step \in {"waiting", "timed-out"} -> [caller[c] EXCEPT !.linked = FALSE]
      [] OTHER -> caller[c]]

Disconnect ==
  /\ "socket" \in Faults
  /\ connected
  /\ connected' = FALSE
  /\ wire' = <<>>
  /\ FailPending
  /\ UNCHANGED <<requests, decisions, jobs, opened>>

\* The service dies with everything it remembers.
Crash ==
  /\ "crash" \in Faults
  /\ connected' = FALSE
  /\ wire' = <<>>
  /\ caller' = [c \in Caller |-> Idle]
  /\ jobs' = [r \in {} |-> {}]
  /\ UNCHANGED <<requests, decisions, opened>>

-----------------------------------------------------------------------------
(* Asking. The evaluate RPC and the HTTP request reach the console at once *)
(* or not at all; the answer takes its time.                               *)

\* A new handler hashes its file as it finds it, once: whoever replaces the file
\* later changes nothing in what was asked. It goes to the socket if that looks
\* open, to HTTP if not.
Ask(c, u, f) ==
  /\ caller[c] = Idle
  /\ caller' = [caller EXCEPT ![c] = [step |-> IF connected THEN "rpc" ELSE "http", user |-> u, file |-> f]]
  /\ UNCHANGED <<serverVars, jobs, opened>>

Verdict == {"allow", "deny", "pending"}

IsAnswerTo(m, c) == m.type = "result" /\ m.to = c

RpcOutstanding(c) == \E i \in DOMAIN wire : IsAnswerTo(wire[i], c)

\* What a handler does with an allow or a deny concerns no request.
Answer(c, verdict, r) ==
  IF verdict = "pending" THEN [type |-> "result", to |-> c, req |-> r] ELSE [type |-> "result", to |-> c]

RpcEvaluate(c, verdict, r) ==
  /\ connected /\ caller[c].step = "rpc" /\ ~RpcOutstanding(c)
  /\ Len(wire) < MaxWire
  /\ EvaluateForDevice(caller[c].user, caller[c].file, verdict, r)
  /\ Publish(<<Answer(c, verdict, r)>>)
  /\ UNCHANGED agentVars

\* RpcTimeout, or a send that failed. An answer that comes later finds its
\* completion source unobserved.
RpcFails(c) ==
  /\ caller[c].step = "rpc"
  /\ caller' = [caller EXCEPT ![c].step = "http"]
  /\ IF RpcOutstanding(c) THEN \E i \in DOMAIN wire : IsAnswerTo(wire[i], c) /\ wire' = RemoveAt(wire, i)
     ELSE UNCHANGED wire
  /\ UNCHANGED <<requests, decisions, connected, jobs, opened>>

\* POST /api/agent/evaluate. A pending answer is not waited for.
HttpEvaluate(c, verdict, r) ==
  /\ caller[c].step = "http"
  /\ EvaluateForDevice(caller[c].user, caller[c].file, verdict, r)
  /\ caller' = [caller EXCEPT ![c] =
                  IF verdict = "pending" THEN Held("unregistered", c, r, FALSE) ELSE Idle]
  /\ UNCHANGED <<wire, jobs, opened>>

\* The console evaluated and the answer was lost: SendAsync sends again.
HttpAnswerLost(c, verdict, r) ==
  /\ caller[c].step = "http"
  /\ EvaluateForDevice(caller[c].user, caller[c].file, verdict, r)
  /\ UNCHANGED <<wire, agentVars>>

\* Four attempts failed and Handle threw.
HttpGivesUp(c) ==
  /\ caller[c].step = "http"
  /\ caller' = [caller EXCEPT ![c] = Idle]
  /\ UNCHANGED <<serverVars, jobs, opened>>

-----------------------------------------------------------------------------
(* The receive loop.                                                       *)

Arriving(type) == wire # <<>> /\ Head(wire).type = type

Taken == wire' = Tail(wire)

\* A pending answer makes the caller wait in the table: GetOrAdd joins it to
\* those who already wait there for the same request.
ReceiveResult ==
  /\ Arriving("result")
  /\ Taken
  /\ LET c == Head(wire).to
     IN  caller' = [caller EXCEPT ![c] =
                      IF "req" \in DOMAIN Head(wire) THEN Held("waiting", c, Head(wire).req, TRUE) ELSE Idle]
  /\ UNCHANGED <<requests, decisions, connected, jobs, opened>>

\* The entry of the table, as the handlers that share it.
InTable(r) ==
  {c \in Caller : caller[c].step \in {"waiting", "timed-out"} /\ caller[c].req = r /\ caller[c].linked}

\* Everyone in the table is completed; who had already timed out does not look.
Complete(r) ==
  caller' = [c \in Caller |->
    IF c \notin InTable(r) THEN caller[c]
    ELSE IF caller[c].step = "waiting" THEN Idle ELSE [caller[c] EXCEPT !.linked = FALSE]]

\* Handle compares the ticket with the hash and the path it asked with.
Openers(r) ==
  {c \in InTable(r) : /\ caller[c].step = "waiting"
                      /\ HashOf[caller[c].file] = HashOf[requests[r].file]
                      /\ NameOf[caller[c].file] = NameOf[requests[r].file]}

\* Handle, for those who wait: the path is started, and not hashed again. A start
\* may fail.
TicketToWaiters(r) ==
  /\ InTable(r) # {}
  /\ Complete(r)
  /\ \E started \in SUBSET Openers(r) :
       opened' = opened \cup {<<r, NameOf[caller[c].file], c>> : c \in started}
  /\ UNCHANGED jobs

\* PendingLaunches.TryLaunch: the job is taken whether or not it starts, and its
\* path is compared with nothing.
TicketToJob(r) ==
  /\ InTable(r) = {} /\ r \in DOMAIN jobs
  /\ jobs' = [x \in DOMAIN jobs \ {r} |-> jobs[x]]
  /\ \/ opened' = opened \cup {<<r, jobs[r], "nobody">>}
     \/ UNCHANGED opened
  /\ UNCHANGED caller

TicketDropped(r) == InTable(r) = {} /\ r \notin DOMAIN jobs /\ UNCHANGED agentVars

ReceiveTicket ==
  /\ Arriving("ticket")
  /\ Taken
  /\ LET r == Head(wire).req IN TicketToWaiters(r) \/ TicketToJob(r) \/ TicketDropped(r)
  /\ UNCHANGED <<requests, decisions, connected>>

\* A denial leaves a remembered job where it is.
ReceiveDenial ==
  /\ Arriving("request-denied")
  /\ Taken
  /\ Complete(Head(wire).req)
  /\ UNCHANGED <<requests, decisions, connected, jobs, opened>>

-----------------------------------------------------------------------------
(* PendingWait runs out: the timer wins the race for the handler, then the *)
(* handler removes whatever entry the table has for its request, then it   *)
(* returns 'pending' and Handle remembers the program.                     *)

\* MUTANT: only an entry of the table is timed.
WaitTimesOutInTable(c) ==
  /\ caller[c].step = "waiting" /\ caller[c].linked
  /\ caller' = [caller EXCEPT ![c].step = "timed-out"]
  /\ UNCHANGED <<serverVars, jobs, opened>>

WaitTimesOut(c) ==
  /\ caller[c].step = "waiting"
  /\ caller' = [caller EXCEPT ![c].step = "timed-out"]
  /\ UNCHANGED <<serverVars, jobs, opened>>

RemoveWaiter(c) ==
  /\ caller[c].step = "timed-out"
  /\ caller' = [x \in Caller |->
       IF x = c THEN [caller[c] EXCEPT !.step = "unregistered", !.linked = FALSE]
       ELSE IF x \in InTable(caller[c].req) THEN [caller[x] EXCEPT !.linked = FALSE]
       ELSE caller[x]]
  /\ UNCHANGED <<serverVars, jobs, opened>>

Register(c) ==
  /\ caller[c].step = "unregistered"
  /\ jobs' = [r \in DOMAIN jobs \cup {caller[c].req} |->
                IF r = caller[c].req THEN NameOf[caller[c].file] ELSE jobs[r]]
  /\ caller' = [caller EXCEPT ![c] = Idle]
  /\ UNCHANGED <<serverVars, opened>>

-----------------------------------------------------------------------------
HandlerStep(c) ==
  \/ \E v \in Verdict, r \in ReqId : RpcEvaluate(c, v, r)
  \/ \E v \in Verdict, r \in ReqId : HttpEvaluate(c, v, r)
  \/ \E v \in Verdict, r \in ReqId : HttpAnswerLost(c, v, r)
  \/ RpcFails(c)
  \/ HttpGivesUp(c)
  \/ WaitTimesOut(c)
  \/ RemoveWaiter(c)
  \/ Register(c)

Decision ==
  \/ \E r \in ReqId, v \in {"approve", "deny"} : DecideOne(r, v)
  \/ \E ids \in SUBSET ReqId, v \in {"approve", "deny"} : DecideBatch(ids, v)

Receive == ReceiveResult \/ ReceiveTicket \/ ReceiveDenial

Next ==
  \/ Connect
  \/ Disconnect
  \/ Crash
  \/ \E c \in Caller, u \in User, f \in File : Ask(c, u, f)
  \/ \E c \in Caller : HandlerStep(c)
  \/ Receive
  \/ Decision /\ UNCHANGED agentVars

Spec == Init /\ [][Next]_vars

\* The broker's threads run and its timers fire; the console answers or does
\* not, connects or does not, and nobody has to decide anything.
FairSpec ==
  /\ Spec
  /\ \A c \in Caller :
       /\ WF_vars(RpcFails(c))
       /\ WF_vars(HttpGivesUp(c))
       /\ WF_vars(WaitTimesOut(c))
       /\ WF_vars(RemoveWaiter(c))
       /\ WF_vars(Register(c))

-----------------------------------------------------------------------------
(* Properties.                                                             *)

\* The promise of the whole flow: decided once, and opened only if approved, for
\* all that waited when the ticket came and not again.
Promise == INSTANCE ApprovalPromise WITH
  Start <- Name \X (Caller \cup {"nobody"}),
  status <- [r \in ReqId |-> IF r \in DOMAIN requests THEN requests[r].status ELSE "none"],
  opened <- [r \in ReqId |-> {<<o[2], o[3]>> : o \in {x \in opened : x[1] = r}}]

ImplementsPromise == Promise!Spec

\* insertRequest: a question that is still open is one row, however many handlers
\* ask it, over the socket, over HTTP or again after a lost answer.
OnePending ==
  \A r, s \in DOMAIN requests :
    /\ requests[r].status = "pending" /\ requests[s].status = "pending"
    /\ requests[r].user = requests[s].user
    /\ HashOf[requests[r].file] = HashOf[requests[s].file]
    => r = s

\* docs/SPEC.md criterion 7: an administrator's decision is in the audit log, and
\* the log and the row agree on what it was, over single and batch routes that
\* meet on the same request.
DecisionAudited ==
  \A r \in DOMAIN requests :
    LET logged(actions) == decisions \cap (actions \X {r}) # {}
    IN  /\ logged(ApprovalActions) <=> requests[r].status = "approved"
        /\ logged(DenialActions) => requests[r].status = "denied"

\* When it was asked about, the program had the hash the row has: this holds of
\* every handler with a request id and, of the path alone, of a remembered job and
\* of what was started; what a waiter started has also the path of the row, the one
\* an administrator saw. It is all the code ensures. What the path holds when it is
\* started nobody looks at: a file replaced during the wait is started as it is.
SameWhenAsked ==
  LET stands(r, f) == r \in DOMAIN requests /\ HashOf[requests[r].file] = HashOf[f]
      foundUnder(r, name) == \E f \in File : NameOf[f] = name /\ stands(r, f)
  IN  /\ \A c \in Caller : "req" \in DOMAIN caller[c] => stands(caller[c].req, caller[c].file)
      /\ \A r \in DOMAIN jobs : foundUnder(r, jobs[r])
      /\ \A o \in opened : /\ foundUnder(o[1], o[2])
                           /\ o[3] # "nobody" => o[2] = NameOf[requests[o[1]].file]

\* A handler that is in the table while its request is already decided has the
\* decision ahead of it on the socket: none waits for what has gone by.
WaiterWillHear ==
  \A c \in Caller :
    caller[c].step = "waiting" /\ caller[c].linked =>
      /\ connected
      /\ \/ requests[caller[c].req].status = "pending"
         \/ \E i \in DOMAIN wire : wire[i].type # "result" /\ wire[i].req = caller[c].req

\* Every call on the pipe is answered, whatever the console, the network and the
\* other handlers do: the wait for a ticket ends even when FailPending or another
\* handler took the entry out of the table.
CallsEnd == \A c \in Caller : caller[c] # Idle ~> caller[c] = Idle

\* An approval starts the program once for each handler that waited for it, or once
\* for the job that was remembered: never for both, never twice for one handler.
OnceForEach ==
  \A o, q \in opened : o[1] = q[1] /\ o # q => o[3] # q[3] /\ "nobody" \notin {o[3], q[3]}

\* docs/SPEC.md criterion 4: an approval is one-shot.
OneShot == \A o, q \in opened : o[1] = q[1] => o = q

\* PendingLaunches: "RealtimeChannel consults this map when an approved ticket has
\* no waiter - so 'approved' always means 'the program opens'". A ticket that
\* arrives while a handler of this PC waits for it reaches that handler or a job.
TicketReachesWaiter ==
  [][LET r == Head(wire).req
     IN  /\ ReceiveTicket
         /\ \E c \in Caller : caller[c].step = "waiting" /\ caller[c].req = r
         => ~TicketDropped(r)]_vars
=============================================================================
