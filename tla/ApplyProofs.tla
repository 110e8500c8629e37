----------------------------- MODULE ApplyProofs -----------------------------
(***************************************************************************)
(* The console changing itself (SelfUpdate, ServerSettings) keeps the      *)
(* safety half of ApplyPromise, whatever the number of requests, updaters  *)
(* and settings: each step of the detailed specification is a step of the  *)
(* promise or leaves the reported phase alone.  The other half, that a     *)
(* change does not run for ever, is liveness and stays with TLC.           *)
(***************************************************************************)
EXTENDS SelfUpdate, ServerSettings, UpdateCheck, FiniteSetTheorems, TLAPS

(* Server settings                                                         *)

\* The parser waits for a success line with no elapsed time in front of it,
\* and the script writes one with it: the log never tells a success.
NetInv == ~Applied(netLog)

\* No change has been made yet.
LEMMA NetInvInit == NetInit => NetInv
BY DEF NetInit, NetInv, Applied

\* Every line the script writes comes with the elapsed time.
LEMMA NetInvStep == NetInv /\ [NetNext]_netVars => NetInv'
<1>1. /\ NetLine(NetPlain, "server settings applied.") # NetError
      /\ \A text : NetLine(NetPlain, "server settings applied.") # NetLine(NetStamp, text)
      /\ NetLine(NetPlain, "server settings applied.")
           # NetLine(NetPlain, "handing off to restart script")
  BY DEF NetLine, NetPlain, NetStamp, NetError
<1>2. SUFFICES ASSUME NetInv, [NetNext]_netVars PROVE NetInv'
  OBVIOUS
<1>3. \/ netLog' \in {netLog, {}}
      \/ netLog' = netLog \cup {NetLine(NetPlain, "handing off to restart script")}
      \/ \E text \in {"restart-server start", "server settings applied."} :
            netLog' = netLog \cup {NetLine(NetStamp, text)}
      \/ netLog' = netLog \cup {NetError}
  BY <1>2 DEF NetNext, netVars, AdmitChange, BeginChange, ChangeFails, HandChange, ScriptBegins,
       ScriptWritesEnv, ScriptStops, ScriptStarts, ScriptApplies, ScriptFails, ScriptLost,
       AbandonChange, ConsoleStops, ConsoleStarts, ChangeAges
<1>. QED BY <1>1, <1>2, <1>3 DEF NetInv, Applied

\* A step of the settings is a step of the promise, or leaves the phase alone.
LEMMA NetStepSound == NetInv /\ [NetNext]_netVars => [NetPromise!PromiseNext]_NetPhaseNow
<1>. SUFFICES ASSUME NetInv, [NetNext]_netVars
              PROVE  [NetPromise!PromiseNext]_NetPhaseNow
  OBVIOUS
<1>a. NetInv'
  BY NetInvStep
<1>d. /\ NetPlain # NetStamp
      /\ NetLine(NetPlain, "handing off to restart script") # NetError
      /\ NetLine(NetPlain, "handing off to restart script") # NetLine(NetPlain, "restart-server start")
      /\ \A text : /\ NetLine(NetStamp, text) # NetError
                   /\ NetLine(NetStamp, text) # NetLine(NetPlain, "restart-server start")
  BY DEF NetLine, NetPlain, NetStamp, NetError
<1>p. NetPhaseNow = IF netState = {} THEN "idle"
                    ELSE IF NetError \in netLog THEN "failed"
                    ELSE IF netAge = "old" \/ (netAge # "new" /\ ~ScriptSeen(netLog)) THEN "stale"
                    ELSE "running"
  BY DEF NetInv, NetPhaseNow, NetPhase
<1>q. NetPhaseNow' = IF netState' = {} THEN "idle"
                    ELSE IF NetError \in netLog' THEN "failed"
                    ELSE IF netAge' = "old" \/ (netAge' # "new" /\ ~ScriptSeen(netLog')) THEN "stale"
                    ELSE "running"
  BY <1>a DEF NetInv, NetPhaseNow, NetPhase
<1>e. NetPhaseNow' = NetPhaseNow => [NetPromise!PromiseNext]_NetPhaseNow
  OBVIOUS
<1>n. (NetPromise!Take \/ NetPromise!FailAtOnce \/ NetPromise!GiveUp \/ NetPromise!Tire
          \/ NetPromise!Verdict) => [NetPromise!PromiseNext]_NetPhaseNow
  BY DEF NetPromise!PromiseNext
<1>1. CASE UNCHANGED <<netState, netAge, netLog>>
  BY <1>1, <1>e, <1>p, <1>q
<1>2. ASSUME NEW c \in Changes, BeginChange(c)
      PROVE  [NetPromise!PromiseNext]_NetPhaseNow
  <2>1. NetPhaseNow' = "running"
    BY <1>2, <1>q DEF BeginChange
  <2>. QED BY <2>1, <1>e, <1>n DEF NetPromise!Take
<1>3. ASSUME NEW c \in Changes, ChangeFails(c)
      PROVE  [NetPromise!PromiseNext]_NetPhaseNow
  <2>1. NetPhaseNow' = "idle"
    BY <1>3, <1>q DEF ChangeFails, ClearNetState
  <2>. QED BY <2>1, <1>e, <1>n, <1>p DEF NetPromise!GiveUp
<1>4. ASSUME NEW c \in Changes, HandChange(c)
      PROVE  [NetPromise!PromiseNext]_NetPhaseNow
  <2>1. NetPhaseNow' = IF NetError \in netLog THEN "failed" ELSE "running"
    BY <1>4, <1>d, <1>q DEF HandChange
  <2>. QED BY <2>1, <1>e, <1>n, <1>p
             DEF NetPromise!Take, NetPromise!FailAtOnce, NetPromise!Verdict
<1>5. CASE AbandonChange
  <2>1. NetPhaseNow' = "idle"
    BY <1>5, <1>q DEF AbandonChange, ClearNetState
  <2>. QED BY <2>1, <1>e, <1>n, <1>p DEF NetPromise!GiveUp
<1>6. CASE ScriptBegins \/ ScriptApplies
  BY <1>6, <1>d, <1>e, <1>p, <1>q DEF ScriptBegins, ScriptApplies, ScriptSeen
<1>7. CASE ScriptFails
  <2>1. NetPhaseNow' = IF netState = {} THEN "idle" ELSE "failed"
    BY <1>7, <1>q DEF ScriptFails
  <2>. QED BY <2>1, <1>e, <1>n, <1>p DEF NetPromise!Verdict
<1>8. CASE ChangeAges
  <2>1. \/ NetPhaseNow' = NetPhaseNow
        \/ NetPhaseNow # "idle" /\ NetPhaseNow' = "stale"
    BY <1>8, <1>p, <1>q DEF ChangeAges
  <2>. QED BY <2>1, <1>e, <1>n DEF NetPromise!Tire
<1>. QED BY <1>1, <1>2, <1>3, <1>4, <1>5, <1>6, <1>7, <1>8
       DEF NetNext, netVars, AdmitChange, ScriptWritesEnv, ScriptStops, ScriptStarts, ScriptLost,
           ConsoleStops, ConsoleStarts

\* The phase the Server settings page reports starts idle and moves only as
\* ApplyPromise lets it, for any number of requests and settings.
THEOREM NetPromiseIsSafe ==
    NetSpec => NetPromise!PromiseInit /\ [][NetPromise!PromiseNext]_NetPhaseNow
<1>1. NetInit => NetPromise!PromiseInit
  BY DEF NetInit, NetPromise!PromiseInit, NetPhaseNow, NetPhase
<1>. QED BY <1>1, NetInvInit, NetInvStep, NetStepSound, PTL DEF NetSpec

\* docs and tests read `==> server settings applied.` as success; both scripts put
\* the elapsed time after the arrow. So no change of settings is ever reported as
\* made: a change that went well ends as "stale", or "failed" if an error is in the
\* log, for any number of requests and settings.
THEOREM AppliedIsNeverReported == NetSpec => [](NetPhaseNow # "succeeded")
<1>1. NetInv => NetPhaseNow # "succeeded"
  BY DEF NetInv, NetPhaseNow, NetPhase
<1>. QED BY <1>1, NetInvInit, NetInvStep, PTL DEF NetSpec

----------------------------------------------------------------------------
(* The self-update: who holds the log, and what it says meanwhile          *)

Active(p) == updPosts[p].place \notin {"idle", "admitted", "failed"}
SomeActive == \E p \in Posts : Active(p)
Holds(r) == updRuns[r].log

UpdateTypeOK ==
    /\ updPosts \in [Posts -> [place : PostPlaces, log : BOOLEAN]]
    /\ updRuns \in [Updaters -> [place : RunPlaces, log : BOOLEAN]]

\* A process that is gone has no handle, and a request dies with the console.
GoneHoldsNothing ==
    /\ \A r \in Updaters : updRuns[r].place = "off" => ~Holds(r)
    /\ ~updUp => \A p \in Posts : updPosts[p].place = "idle"

\* On Windows the log is open for one writer at most.
OneWriter ==
    updHost = "win32" =>
        /\ \A r, q \in Updaters : Holds(r) /\ Holds(q) => r = q
        /\ \A r \in Updaters, p \in Posts : ~(Holds(r) /\ Active(p) /\ updPosts[p].log)

\* While a request is about, an updater that writes this log has not yet
\* stopped the console, which would have ended the request, unless it failed.
RequestsEndFirst ==
    SomeActive =>
        \A r \in Updaters : Holds(r) => updRuns[r].place \in {"started", "verified", "failing"}

\* So the log tells no success while a request is about.
SuccessIsLast == SomeActive => ~Completed(updLog)

UpdateInv ==
    UpdateTypeOK /\ GoneHoldsNothing /\ OneWriter /\ RequestsEndFirst /\ SuccessIsLast

----------------------------------------------------------------------------
(* What a line does to what the parser reads                               *)
LEMMA Lines ==
    ASSUME NEW log
    PROVE  /\ \A line \in {ErrorLine, ConsoleLine("handing off to updater"), ScriptLine("updater start")} :
                 Completed(log \cup {line}) <=> Completed(log)
           /\ Completed(log \cup {ConsoleLine("handing off to updater"), ScriptLine("updater start")})
                 <=> Completed(log)
           /\ Completed(log \cup {ScriptLine("update complete.")})
           /\ ~Completed({})
<1>1. /\ ErrorLine[2] # "update complete."
      /\ ConsoleLine("handing off to updater")[2] # "update complete."
      /\ ScriptLine("updater start")[2] # "update complete."
      /\ ScriptLine("update complete.")[2] = "update complete."
  BY DEF ErrorLine, ConsoleLine, ScriptLine
<1>. HIDE DEF ErrorLine, ConsoleLine, ScriptLine
<1>. QED BY <1>1 DEF Completed

LEMMA OtherLines ==
    ASSUME NEW log
    PROVE  /\ \A text : /\ ErrorLine \in log \cup {ScriptLine(text)} <=> ErrorLine \in log
                        /\ UpdaterStarted(log \cup {ScriptLine(text)}) <=> UpdaterStarted(log)
           /\ \A lines \in {{ConsoleLine("handing off to updater")},
                    {ConsoleLine("handing off to updater"), ScriptLine("updater start")}} :
                 /\ ErrorLine \in log \cup lines <=> ErrorLine \in log
                 /\ UpdaterStarted(log \cup lines) <=> UpdaterStarted(log)
<1>1. \A text : /\ ErrorLine # ScriptLine(text)
                /\ ConsoleLine("updater start") # ScriptLine(text)
  BY DEF ErrorLine, ConsoleLine, ScriptLine
<1>2. /\ ErrorLine # ConsoleLine("handing off to updater")
      /\ ConsoleLine("updater start") # ConsoleLine("handing off to updater")
  BY DEF ErrorLine, ConsoleLine
<1>. HIDE DEF ErrorLine, ConsoleLine, ScriptLine
<1>. QED BY <1>1, <1>2 DEF UpdaterStarted
----------------------------------------------------------------------------
\* No request, no updater and no lines yet.
LEMMA UpdateInvInit == UpdateInit => UpdateInv
<1>. SUFFICES ASSUME UpdateInit PROVE UpdateInv
  OBVIOUS
<1>1. UpdateTypeOK
  BY DEF UpdateInit, UpdateTypeOK, Idle, Off, PostPlaces, RunPlaces
<1>2. ~SomeActive /\ \A r \in Updaters : ~Holds(r)
  BY DEF UpdateInit, SomeActive, Active, Holds, Idle, Off
<1>3. updUp /\ ~Completed(updLog)
  BY Lines DEF UpdateInit
<1>. QED BY <1>1, <1>2, <1>3
       DEF UpdateInv, GoneHoldsNothing, OneWriter, RequestsEndFirst, SuccessIsLast

\* A request that moves on, or ends, and opens no log leaves the invariant.
LEMMA QuietRequest ==
    ASSUME UpdateInv, UNCHANGED <<updHost, updUp, updRuns>>, updUp,
           updPosts' \in [Posts -> [place : PostPlaces, log : BOOLEAN]],
           \A q \in Posts : Active(q)' => Active(q) /\ updPosts'[q].log = updPosts[q].log,
           Completed(updLog)' <=> Completed(updLog),
           updTask' # updTask => SomeActive
    PROVE  UpdateInv'
<1>1. UpdateTypeOK' /\ GoneHoldsNothing'
  BY DEF UpdateInv, UpdateTypeOK, GoneHoldsNothing, Holds
<1>3. \A r \in Updaters : Holds(r)' <=> Holds(r)
  BY DEF Holds
<1>4. OneWriter'
  BY <1>3 DEF UpdateInv, OneWriter
<1>5. RequestsEndFirst'
  BY <1>3 DEF UpdateInv, RequestsEndFirst, SomeActive
<1>6. SuccessIsLast'
  BY <1>3 DEF UpdateInv, SuccessIsLast, SomeActive
<1>. QED BY <1>1, <1>4, <1>5, <1>6 DEF UpdateInv

LEMMA RequestKeepsInv == ASSUME UpdateInv, NEW p \in Posts, Request(p) PROVE UpdateInv'
<1>1. CASE Admit(p)
  <2>1. /\ updPosts' \in [Posts -> [place : PostPlaces, log : BOOLEAN]]
        /\ \A q \in Posts : Active(q)' => Active(q) /\ updPosts'[q].log = updPosts[q].log
    BY <1>1 DEF Admit, UpdateInv, UpdateTypeOK, PostPlaces, Active
  <2>. QED BY <1>1, <2>1, QuietRequest DEF Admit
<1>2. CASE RotateLog(p)
  <2>1. /\ ~LogHeld /\ updLog' = {} /\ updPosts[p].place = "admitted" /\ updUp
        /\ UNCHANGED <<updHost, updUp>>
    BY <1>2 DEF RotateLog, PostAt
  <2>2. /\ UpdateTypeOK' /\ \A r \in Updaters : ~Holds(r)'
        /\ \A r \in Updaters : updRuns'[r].place = updRuns[r].place
    BY <1>2 DEF RotateLog, UpdateInv, UpdateTypeOK, Detached, Holds, PostPlaces, RunPlaces
  <2>3. ~Completed(updLog)'
    BY <2>1, Lines
  <2>. QED BY <2>1, <2>2, <2>3
         DEF UpdateInv, GoneHoldsNothing, OneWriter, RequestsEndFirst, SuccessIsLast
<1>3. CASE \/ BeginDownload(p) \/ EndDownload(p) \/ Verify(p) \/ RefuseFile(p) \/ ScriptMissing(p)
           \/ RecordHash(p) \/ CreateTask(p) \/ RunTask(p)
  <2>1. PICK place \in {"downloading", "fetched", "verified", "failed", "handing", "created", "idle"} :
            updPosts' = [updPosts EXCEPT ![p].place = place]
    BY <1>3 DEF BeginDownload, EndDownload, Verify, RefuseFile, ScriptMissing, RecordHash, CreateTask,
         RunTask, GoTo
  <2>2. Active(p) /\ updUp /\ UNCHANGED <<updHost, updUp, updRuns>>
    BY <1>3 DEF BeginDownload, EndDownload, Verify, RefuseFile, ScriptMissing, RecordHash, CreateTask,
         RunTask, PostAt, Active
  <2>3. updLog' = updLog \/ updLog' = updLog \cup {ErrorLine}
        \/ updLog' = updLog \cup {ConsoleLine("handing off to updater")}
    BY <1>3 DEF BeginDownload, EndDownload, Verify, RefuseFile, ScriptMissing, RecordHash, CreateTask,
         RunTask, PostLogs
  <2>4. Completed(updLog)' <=> Completed(updLog)
    BY <2>3, Lines
  <2>5. /\ updPosts' \in [Posts -> [place : PostPlaces, log : BOOLEAN]]
        /\ \A q \in Posts : Active(q)' => Active(q) /\ updPosts'[q].log = updPosts[q].log
    BY <2>1, <2>2 DEF UpdateInv, UpdateTypeOK, PostPlaces, Active
  <2>. QED BY <2>2, <2>4, <2>5, QuietRequest DEF SomeActive
<1>4. CASE SpawnUpdater(p)
  <2>1. /\ updHost = "darwin" /\ Active(p) /\ updUp /\ UNCHANGED <<updHost, updUp, updTask>>
        /\ updHost' # "win32"
    BY <1>4 DEF SpawnUpdater, PostAt, Active
  <2>2. updPosts' = [updPosts EXCEPT ![p].place = "idle"]
    BY <1>4 DEF SpawnUpdater, GoTo
  <2>3. PICK r \in Updaters :
            updRuns' = [updRuns EXCEPT ![r] = [place |-> "started", log |-> updPosts[p].log]]
    BY <1>4 DEF SpawnUpdater
  <2>4. UpdateTypeOK'
    BY <2>2, <2>3 DEF UpdateInv, UpdateTypeOK, PostPlaces, RunPlaces
  <2>5. \A q \in Posts : Active(q)' => Active(q)
    BY <2>2 DEF UpdateInv, UpdateTypeOK, Active
  <2>6. Completed(updLog)' <=> Completed(updLog)
    BY <1>4, Lines DEF SpawnUpdater, PostLogs
  <2>7. GoneHoldsNothing'
    BY <2>1, <2>3 DEF UpdateInv, UpdateTypeOK, GoneHoldsNothing, Holds
  <2>8. RequestsEndFirst'
    BY <2>3, <2>5 DEF UpdateInv, UpdateTypeOK, RequestsEndFirst, SomeActive, Holds
  <2>. QED BY <2>1, <2>4, <2>5, <2>6, <2>7, <2>8 DEF UpdateInv, OneWriter, SuccessIsLast, SomeActive
<1>5. CASE HandoffFails(p)
  <2>1. updUp /\ UNCHANGED <<updHost, updUp, updTask>>
    BY <1>5 DEF HandoffFails
  <2>2. CASE LogHeld
    <3>1. /\ updPosts' = [updPosts EXCEPT ![p].place = "failed"] /\ UNCHANGED <<updRuns, updLog>>
      BY <1>5, <2>2 DEF HandoffFails
    <3>2. /\ updPosts' \in [Posts -> [place : PostPlaces, log : BOOLEAN]]
          /\ \A q \in Posts : Active(q)' => Active(q) /\ updPosts'[q].log = updPosts[q].log
      BY <3>1 DEF UpdateInv, UpdateTypeOK, PostPlaces, Active
    <3>. QED BY <2>1, <3>1, <3>2, QuietRequest
  <2>3. CASE ~LogHeld
    <3>1. /\ updLog' = {} /\ updRuns' = Detached(updRuns)
          /\ updPosts' = [Detached(updPosts) EXCEPT ![p].place = "failed"]
      BY <1>5, <2>3 DEF HandoffFails
    <3>2. /\ UpdateTypeOK' /\ \A r \in Updaters : ~Holds(r)'
          /\ \A r \in Updaters : updRuns'[r].place = updRuns[r].place
      BY <3>1 DEF UpdateInv, UpdateTypeOK, Detached, Holds, PostPlaces, RunPlaces
    <3>3. ~Completed(updLog)'
      BY <3>1, Lines
    <3>. QED BY <2>1, <3>2, <3>3
           DEF UpdateInv, GoneHoldsNothing, OneWriter, RequestsEndFirst, SuccessIsLast
  <2>. QED BY <2>2, <2>3
<1>. QED BY <1>1, <1>2, <1>3, <1>4, <1>5 DEF Request
LEMMA UpdaterKeepsInv == ASSUME UpdateInv, NEW r \in Updaters, UpdaterStep(r) PROVE UpdateInv'
<1>1. CASE TaskStarts(r)
  <2>. DEFINE opened == ~LogOpen /\ ~LogHeld
  <2>1. /\ updTask /\ ~updTask' /\ UNCHANGED <<updHost, updUp, updPosts>>
        /\ updRuns' = [updRuns EXCEPT ![r] = [place |-> "started", log |-> opened]]
        /\ updLog' = updLog \/ updLog' = updLog \cup {ScriptLine("updater start")}
    BY <1>1 DEF TaskStarts
  <2>2. /\ UpdateTypeOK'
        /\ \A q \in Updaters : q # r => /\ Holds(q)' <=> Holds(q)
                                       /\ updRuns'[q].place = updRuns[q].place
        /\ Holds(r)' <=> opened
        /\ updRuns'[r].place = "started"
    BY <2>1 DEF UpdateInv, UpdateTypeOK, RunPlaces, Holds
  <2>3. \A p \in Posts : Active(p)' <=> Active(p)
    BY <2>1 DEF Active
  <2>4. Completed(updLog)' <=> Completed(updLog)
    BY <2>1, Lines
  <2>5. opened => /\ \A p \in Posts : ~(Active(p) /\ updPosts[p].log)
                  /\ updHost = "win32" => \A q \in Updaters : ~Holds(q)
    BY DEF LogOpen, LogHeld, Active, Holds, UpdateInv, GoneHoldsNothing
  <2>. HIDE DEF opened
  <2>6. GoneHoldsNothing'
    BY <2>1, <2>2 DEF UpdateInv, GoneHoldsNothing
  <2>7. OneWriter'
    BY <2>1, <2>2, <2>3, <2>5 DEF UpdateInv, OneWriter
  <2>8. RequestsEndFirst'
    BY <2>2, <2>3 DEF UpdateInv, RequestsEndFirst, SomeActive
  <2>9. SuccessIsLast'
    BY <2>1, <2>2, <2>3, <2>4 DEF UpdateInv, SuccessIsLast, SomeActive
  <2>. QED BY <2>2, <2>6, <2>7, <2>8, <2>9 DEF UpdateInv
<1>2. CASE RunVerifies(r) \/ RunInstalls(r)
  <2>1. PICK place \in {"verified", "installed"} :
            /\ updRuns' = [updRuns EXCEPT ![r].place = place]
            /\ updRuns[r].place \in {"started", "stopped"}
            /\ place = "installed" => updRuns[r].place = "stopped"
    BY <1>2 DEF RunVerifies, RunInstalls, RunGoes
  <2>2. UNCHANGED <<updHost, updUp, updPosts, updLog, updTask>>
    BY <1>2 DEF RunVerifies, RunInstalls
  <2>3. /\ UpdateTypeOK'
        /\ \A q \in Updaters : Holds(q)' <=> Holds(q)
        /\ \A q \in Updaters : q # r => updRuns'[q].place = updRuns[q].place
        /\ updRuns'[r].place = place
    BY <2>1, <2>2 DEF UpdateInv, UpdateTypeOK, RunPlaces, Holds
  <2>4. GoneHoldsNothing' /\ OneWriter' /\ SuccessIsLast'
    BY <2>1, <2>2, <2>3
       DEF UpdateInv, GoneHoldsNothing, OneWriter, SuccessIsLast, SomeActive, Active
  <2>5. RequestsEndFirst'
    BY <2>1, <2>2, <2>3 DEF UpdateInv, RequestsEndFirst, SomeActive, Active
  <2>. QED BY <2>3, <2>4, <2>5 DEF UpdateInv
<1>3. CASE RunStopsConsole(r)
  <2>1. /\ updPosts' = [p \in Posts |-> Idle] /\ ~updUp'
        /\ updRuns' = [updRuns EXCEPT ![r].place = "stopped"] /\ updRuns[r].place = "verified"
        /\ UNCHANGED <<updHost, updLog, updTask>>
    BY <1>3 DEF RunStopsConsole, Down, RunGoes
  <2>2. /\ UpdateTypeOK'
        /\ \A q \in Updaters : Holds(q)' <=> Holds(q)
        /\ \A q \in Updaters : updRuns'[q].place = "off" => updRuns[q].place = "off"
    BY <2>1 DEF UpdateInv, UpdateTypeOK, PostPlaces, RunPlaces, Holds, Idle
  <2>3. ~SomeActive' /\ \A p \in Posts : updPosts'[p].place = "idle" /\ ~Active(p)'
    BY <2>1 DEF SomeActive, Active, Idle
  <2>. QED BY <2>1, <2>2, <2>3
         DEF UpdateInv, GoneHoldsNothing, OneWriter, RequestsEndFirst, SuccessIsLast
<1>4. CASE RunStartsConsole(r)
  <2>1. /\ updUp' /\ UNCHANGED <<updHost, updPosts, updLog, updTask>>
        /\ updRuns' = [updRuns EXCEPT ![r].place = "checking"] /\ updRuns[r].place = "installed"
    BY <1>4 DEF RunStartsConsole, Boot, RunGoes
  <2>2. /\ UpdateTypeOK'
        /\ \A q \in Updaters : Holds(q)' <=> Holds(q)
        /\ \A q \in Updaters : q # r => updRuns'[q].place = updRuns[q].place
        /\ updRuns'[r].place = "checking"
    BY <2>1 DEF UpdateInv, UpdateTypeOK, RunPlaces, Holds
  <2>3. SomeActive' <=> SomeActive
    BY <2>1 DEF SomeActive, Active
  <2>4. GoneHoldsNothing' /\ OneWriter'
    BY <2>1, <2>2 DEF UpdateInv, GoneHoldsNothing, OneWriter, Active
  <2>5. RequestsEndFirst' /\ SuccessIsLast'
    BY <2>1, <2>2, <2>3 DEF UpdateInv, RequestsEndFirst, SuccessIsLast
  <2>. QED BY <2>2, <2>4, <2>5 DEF UpdateInv
<1>5. CASE RunEnds(r)
  <2>1. /\ UNCHANGED <<updHost, updUp, updPosts, updLog>>
        /\ updRuns' = [updRuns EXCEPT ![r] = Off]
    BY <1>5 DEF RunEnds
  <2>2. /\ UpdateTypeOK'
        /\ \A q \in Updaters : q # r => updRuns'[q] = updRuns[q]
        /\ updRuns'[r] = Off
    BY <2>1 DEF UpdateInv, UpdateTypeOK, RunPlaces, Off
  <2>3. \A q \in Updaters : Holds(q)' => Holds(q) /\ q # r /\ updRuns'[q] = updRuns[q]
    BY <2>2 DEF Holds, Off
  <2>4. GoneHoldsNothing' /\ OneWriter' /\ RequestsEndFirst'
    BY <2>1, <2>2, <2>3
       DEF UpdateInv, GoneHoldsNothing, OneWriter, RequestsEndFirst, SomeActive, Active
  <2>. QED BY <2>1, <2>2, <2>4 DEF UpdateInv, SuccessIsLast, SomeActive, Active
<1>6. CASE RunCompletes(r)
  <2>1. /\ UNCHANGED <<updHost, updUp, updPosts>>
        /\ updRuns' = [updRuns EXCEPT ![r].place = "done"] /\ updRuns[r].place = "checking"
    BY <1>6 DEF RunCompletes, RunGoes
  <2>2. /\ UpdateTypeOK'
        /\ \A q \in Updaters : Holds(q)' <=> Holds(q)
        /\ \A q \in Updaters : q # r => updRuns'[q].place = updRuns[q].place
        /\ updRuns'[r].place = "done"
    BY <2>1 DEF UpdateInv, UpdateTypeOK, RunPlaces, Holds
  <2>3. SomeActive => ~Holds(r)
    BY <2>1 DEF UpdateInv, RequestsEndFirst
  <2>4. SomeActive => updLog' = updLog
    BY <1>6, <2>3 DEF RunCompletes, RunLogs, Holds
  <2>5. GoneHoldsNothing' /\ OneWriter' /\ RequestsEndFirst'
    BY <2>1, <2>2, <2>3
       DEF UpdateInv, GoneHoldsNothing, OneWriter, RequestsEndFirst, SomeActive, Active
  <2>. QED BY <2>1, <2>2, <2>4, <2>5 DEF UpdateInv, SuccessIsLast, SomeActive, Active
<1>7. CASE RunCloses(r)
  <2>1. /\ UNCHANGED <<updHost, updUp, updPosts, updLog>>
        /\ updRuns' = [updRuns EXCEPT ![r] = [place |-> "closed", log |-> FALSE]]
    BY <1>7 DEF RunCloses
  <2>2. /\ UpdateTypeOK'
        /\ \A q \in Updaters : q # r => updRuns'[q] = updRuns[q]
        /\ updRuns'[r] = [place |-> "closed", log |-> FALSE]
    BY <2>1 DEF UpdateInv, UpdateTypeOK, RunPlaces
  <2>3. \A q \in Updaters : Holds(q)' => Holds(q) /\ q # r /\ updRuns'[q] = updRuns[q]
    BY <2>2 DEF Holds
  <2>4. GoneHoldsNothing' /\ OneWriter' /\ RequestsEndFirst'
    BY <2>1, <2>2, <2>3
       DEF UpdateInv, GoneHoldsNothing, OneWriter, RequestsEndFirst, SomeActive, Active, Holds
  <2>. QED BY <2>1, <2>2, <2>4 DEF UpdateInv, SuccessIsLast, SomeActive, Active
<1>8. CASE RunFails(r)
  <2>1. /\ UNCHANGED <<updHost, updUp, updPosts>>
        /\ updRuns' = [updRuns EXCEPT ![r].place = "failing"] /\ updRuns[r].place # "off"
    BY <1>8 DEF RunFails, RunGoes
  <2>2. /\ UpdateTypeOK'
        /\ \A q \in Updaters : Holds(q)' <=> Holds(q)
        /\ \A q \in Updaters : q # r => updRuns'[q].place = updRuns[q].place
        /\ updRuns'[r].place = "failing"
    BY <2>1 DEF UpdateInv, UpdateTypeOK, RunPlaces, Holds
  <2>3. GoneHoldsNothing' /\ OneWriter' /\ RequestsEndFirst'
    BY <2>1, <2>2
       DEF UpdateInv, GoneHoldsNothing, OneWriter, RequestsEndFirst, SomeActive, Active
  <2>4. Completed(updLog)' <=> Completed(updLog)
    <3>1. updLog' = updLog \/ updLog' = updLog \cup {ErrorLine}
      BY <1>8 DEF RunFails, RunLogs
    <3>. QED BY <3>1, Lines
  <2>. QED BY <2>1, <2>2, <2>3, <2>4 DEF UpdateInv, SuccessIsLast, SomeActive, Active
<1>. QED BY <1>1, <1>2, <1>3, <1>4, <1>5, <1>6, <1>7, <1>8 DEF UpdaterStep

\* Every request, every updater and every crash keeps UpdateInv.
LEMMA UpdateInvStep == UpdateInv /\ [UpdateNext]_updVars => UpdateInv'
<1>. SUFFICES ASSUME UpdateInv, [UpdateNext]_updVars PROVE UpdateInv'
  OBVIOUS
<1>1. CASE UNCHANGED <<updHost, updUp, updLog, updPosts, updTask, updRuns>>
  BY <1>1 DEF UpdateInv, UpdateTypeOK, GoneHoldsNothing, OneWriter, RequestsEndFirst,
       SuccessIsLast, SomeActive, Active, Holds
<1>2. CASE Resume
  <2>1. UNCHANGED <<updHost, updUp, updPosts, updRuns>>
    BY <1>2 DEF Resume
  <2>2. \/ UNCHANGED <<updTask, updLog>>
        \/ ~Completed(updLog) /\ ~Completed(updLog)'
    <3>1. MayResume => ~Completed(updLog)
      BY DEF MayResume, PhaseNow, Phase
    <3>. QED BY <1>2, <3>1, Lines DEF Resume
  <2>3. UpdateTypeOK' /\ GoneHoldsNothing' /\ OneWriter' /\ RequestsEndFirst'
    BY <2>1 DEF UpdateInv, UpdateTypeOK, GoneHoldsNothing, OneWriter, RequestsEndFirst,
         SomeActive, Active, Holds
  <2>4. SuccessIsLast'
    BY <2>1, <2>2 DEF UpdateInv, SuccessIsLast, SomeActive, Active, Holds
  <2>. QED BY <2>3, <2>4 DEF UpdateInv
<1>3. CASE PowerLoss
  <2>1. /\ updPosts' = [p \in Posts |-> Idle] /\ updRuns' = [r \in Updaters |-> Off]
        /\ UNCHANGED <<updHost, updLog, updTask>>
    BY <1>3 DEF PowerLoss, Down
  <2>2. /\ UpdateTypeOK' /\ ~SomeActive'
        /\ \A r \in Updaters : ~Holds(r)'
        /\ \A p \in Posts : updPosts'[p].place = "idle"
    BY <2>1 DEF UpdateTypeOK, SomeActive, Active, Holds, Idle, Off, PostPlaces, RunPlaces
  <2>3. SuccessIsLast'
    BY <2>1, <2>2 DEF UpdateInv, SuccessIsLast
  <2>. QED BY <2>2, <2>3 DEF UpdateInv, GoneHoldsNothing, OneWriter, RequestsEndFirst
<1>4. CASE ServiceStarts
  <2>1. updUp' /\ UNCHANGED <<updHost, updLog, updPosts, updTask, updRuns>>
    BY <1>4 DEF ServiceStarts, Boot
  <2>. QED BY <2>1 DEF UpdateInv, UpdateTypeOK, GoneHoldsNothing, OneWriter, RequestsEndFirst,
         SuccessIsLast, SomeActive, Active, Holds
<1>. QED BY <1>1, <1>2, <1>3, <1>4, RequestKeepsInv, UpdaterKeepsInv
       DEF UpdateNext, updVars, Abandon, GrowOlder
----------------------------------------------------------------------------
(* The reported phase, by three readings of the log                        *)
LEMMA PhaseIs ==
    PhaseNow = IF updState = {} THEN "idle"
               ELSE IF Completed(updLog) THEN "succeeded"
               ELSE IF ErrorLine \in updLog THEN "failed"
               ELSE IF updAge = "old" \/ (updAge # "new" /\ ~UpdaterStarted(updLog)) THEN "stale"
               ELSE "running"
BY DEF PhaseNow, Phase

\* A request's step is a step of the promise, or leaves the phase alone.
LEMMA RequestKeepsPromise ==
    ASSUME UpdateInv, NEW p \in Posts, Request(p)
    PROVE  [UpdatePromise!PromiseNext]_PhaseNow
<1>. DEFINE Kept == [UpdatePromise!PromiseNext]_PhaseNow
<1>e. PhaseNow' = PhaseNow => Kept
  OBVIOUS
<1>n. (UpdatePromise!Take \/ UpdatePromise!FailAtOnce \/ UpdatePromise!FailTooSoon
          \/ UpdatePromise!GiveUp \/ UpdatePromise!Tire \/ UpdatePromise!Verdict) => Kept
  BY DEF UpdatePromise!PromiseNext
<1>q. PhaseNow' = IF updState' = {} THEN "idle"
                  ELSE IF Completed(updLog)' THEN "succeeded"
                  ELSE IF ErrorLine \in updLog' THEN "failed"
                  ELSE IF updAge' = "old" \/ (updAge' # "new" /\ ~UpdaterStarted(updLog)') THEN "stale"
                  ELSE "running"
  BY DEF PhaseNow, Phase
<1>1. CASE UNCHANGED <<updState, updAge, updLog>>
  BY <1>1, <1>e, <1>q, PhaseIs
<1>2. CASE RotateLog(p)
  <2>1. /\ updLog' = {} /\ UNCHANGED <<updState, updAge>>
    BY <1>2 DEF RotateLog
  <2>2. \/ PhaseNow' = "idle" /\ PhaseNow = "idle"
        \/ PhaseNow # "idle" /\ PhaseNow' \in {"running", "stale"}
    BY <2>1, <1>q, PhaseIs, Lines
  <2>. QED BY <2>2, <1>e, <1>n DEF UpdatePromise!Take, UpdatePromise!Tire
<1>3. CASE BeginDownload(p) \/ RecordHash(p)
  <2>1. ~Completed(updLog)
    BY <1>3 DEF UpdateInv, SuccessIsLast, SomeActive, Active, BeginDownload, RecordHash, PostAt
  <2>2. PhaseNow' = IF ErrorLine \in updLog THEN "failed" ELSE "running"
    BY <1>3, <2>1, <1>q DEF BeginDownload, RecordHash, WriteState
  <2>. QED BY <2>1, <2>2, <1>e, <1>n, PhaseIs
         DEF UpdatePromise!Take, UpdatePromise!FailAtOnce, UpdatePromise!Verdict
<1>4. CASE RefuseFile(p) \/ ScriptMissing(p) \/ HandoffFails(p)
  <2>1. PhaseNow' = "idle"
    BY <1>4, <1>q DEF RefuseFile, ScriptMissing, HandoffFails, ClearState
  <2>. QED BY <2>1, <1>e, <1>n, PhaseIs DEF UpdatePromise!GiveUp, UpdatePromise!FailTooSoon
<1>5. CASE RunTask(p) \/ SpawnUpdater(p)
  <2>1. /\ UNCHANGED <<updState, updAge>>
        /\ \/ updLog' = updLog
           \/ updLog' = updLog \cup {ConsoleLine("handing off to updater")}
           \/ updLog' = updLog \cup {ConsoleLine("handing off to updater"), ScriptLine("updater start")}
    BY <1>5 DEF RunTask, SpawnUpdater, PostLogs
  <2>2. /\ Completed(updLog)' <=> Completed(updLog)
        /\ ErrorLine \in updLog' <=> ErrorLine \in updLog
        /\ UpdaterStarted(updLog)' <=> UpdaterStarted(updLog)
    BY <2>1, Lines, OtherLines
  <2>. QED BY <2>1, <2>2, <1>e, <1>q, PhaseIs
<1>. QED BY <1>1, <1>2, <1>3, <1>4, <1>5 DEF Request, Admit, EndDownload, Verify, CreateTask

\* A step of an update is a step of the promise, or leaves the phase alone.
LEMMA UpdateStepSound ==
    UpdateInv /\ [UpdateNext]_updVars => [UpdatePromise!PromiseNext]_PhaseNow
<1>. SUFFICES ASSUME UpdateInv, [UpdateNext]_updVars
              PROVE  [UpdatePromise!PromiseNext]_PhaseNow
  OBVIOUS
<1>. DEFINE Kept == [UpdatePromise!PromiseNext]_PhaseNow
<1>e. PhaseNow' = PhaseNow => Kept
  OBVIOUS
<1>n. (UpdatePromise!Take \/ UpdatePromise!FailAtOnce \/ UpdatePromise!FailTooSoon
          \/ UpdatePromise!GiveUp \/ UpdatePromise!Tire \/ UpdatePromise!Verdict) => Kept
  BY DEF UpdatePromise!PromiseNext
<1>q. PhaseNow' = IF updState' = {} THEN "idle"
                  ELSE IF Completed(updLog)' THEN "succeeded"
                  ELSE IF ErrorLine \in updLog' THEN "failed"
                  ELSE IF updAge' = "old" \/ (updAge' # "new" /\ ~UpdaterStarted(updLog)') THEN "stale"
                  ELSE "running"
  BY DEF PhaseNow, Phase
<1>1. CASE UNCHANGED <<updState, updAge, updLog>>
  BY <1>1, <1>e, <1>q, PhaseIs
<1>2. CASE Abandon
  <2>1. PhaseNow' = "idle" /\ PhaseNow \in {"running", "stale", "failed"}
    BY <1>2, <1>q DEF Abandon, ClearState, Abandonable
  <2>. QED BY <2>1, <1>n DEF UpdatePromise!GiveUp
<1>3. CASE Resume
  <2>1. /\ UNCHANGED <<updState, updAge>>
        /\ \/ updLog' = updLog
           \/ updLog' = updLog \cup {ConsoleLine("handing off to updater")}
           \/ MayResume /\ updLog' = updLog \cup {ErrorLine}
    BY <1>3 DEF Resume
  <2>2. CASE updLog' = updLog \cup {ErrorLine} /\ MayResume
    <3>1. PhaseNow \in {"running", "stale"} /\ ~Completed(updLog) /\ updState # {}
      BY <2>2, PhaseIs DEF MayResume
    <3>2. PhaseNow' = "failed"
      BY <2>1, <2>2, <3>1, <1>q, Lines
    <3>. QED BY <3>1, <3>2, <1>n DEF UpdatePromise!Verdict
  <2>3. CASE updLog' = updLog \/ updLog' = updLog \cup {ConsoleLine("handing off to updater")}
    <3>1. /\ Completed(updLog)' <=> Completed(updLog)
          /\ ErrorLine \in updLog' <=> ErrorLine \in updLog
          /\ UpdaterStarted(updLog)' <=> UpdaterStarted(updLog)
      BY <2>3, Lines, OtherLines
    <3>. QED BY <2>1, <3>1, <1>e, <1>q, PhaseIs
  <2>. QED BY <2>1, <2>2, <2>3
<1>4. ASSUME NEW r \in Updaters, TaskStarts(r)
      PROVE  Kept
  <2>1. /\ UNCHANGED <<updState, updAge>>
        /\ updLog' = updLog \/ updLog' = updLog \cup {ScriptLine("updater start")}
    BY <1>4 DEF TaskStarts
  <2>2. /\ Completed(updLog)' <=> Completed(updLog)
        /\ ErrorLine \in updLog' <=> ErrorLine \in updLog
        /\ UpdaterStarted(updLog)' <=> UpdaterStarted(updLog)
    BY <2>1, Lines, OtherLines
  <2>. QED BY <2>1, <2>2, <1>e, <1>q, PhaseIs
<1>5. ASSUME NEW r \in Updaters, RunCompletes(r) \/ RunFails(r) \/ RunCloses(r) \/ RunEnds(r)
      PROVE  Kept
  <2>1. /\ UNCHANGED <<updState, updAge>>
        /\ \/ updLog' = updLog
           \/ updLog' = updLog \cup {ErrorLine}
           \/ updLog' = updLog \cup {ScriptLine("update complete.")}
    BY <1>5 DEF RunCompletes, RunCloses, RunEnds, RunFails, RunLogs
  <2>2. \/ /\ Completed(updLog)' <=> Completed(updLog)
           /\ updLog' = updLog \/ ErrorLine \in updLog'
        \/ Completed(updLog)'
    BY <2>1, Lines
  <2>3. \/ PhaseNow' = PhaseNow
        \/ PhaseNow \in {"running", "stale", "failed"} /\ PhaseNow' \in {"succeeded", "failed"}
    BY <2>1, <2>2, <1>q, PhaseIs
  <2>. QED BY <2>3, <1>e, <1>n DEF UpdatePromise!Verdict
<1>6. CASE GrowOlder
  <2>1. \/ PhaseNow' = PhaseNow
        \/ PhaseNow # "idle" /\ PhaseNow' = "stale"
    BY <1>6, <1>q, PhaseIs DEF GrowOlder
  <2>. QED BY <2>1, <1>e, <1>n DEF UpdatePromise!Tire
<1>. QED BY <1>1, <1>2, <1>3, <1>4, <1>5, <1>6, RequestKeepsPromise
       DEF UpdateNext, updVars, UpdaterStep, RunVerifies, RunStopsConsole, RunInstalls,
           RunStartsConsole, PowerLoss, ServiceStarts

\* Whatever the number of requests and updaters, and however they interleave with
\* crashes, restarts and an administrator who abandons the lock, the phase reported
\* of an update starts idle and moves only as ApplyPromise lets it: a success is
\* not taken back as a failure, and only told of a change there is.
THEOREM UpdatePromiseIsSafe ==
    UpdateSpec => UpdatePromise!PromiseInit /\ [][UpdatePromise!PromiseNext]_PhaseNow
<1>1. UpdateInit => UpdatePromise!PromiseInit
  BY PhaseIs DEF UpdateInit, UpdatePromise!PromiseInit
<1>. QED BY <1>1, UpdateInvInit, UpdateInvStep, UpdateStepSound, PTL DEF UpdateSpec

----------------------------------------------------------------------------
(* The updater's first line, which the parser looks for and does not find  *)
UpdaterUnseen == ~UpdaterStarted(updLog)

\* No line that anyone writes to the log is the one.
LEMMA OnlyOtherLines ==
    ASSUME NEW log, ~UpdaterStarted(log),
           NEW lines \in SUBSET LogLines
    PROVE  ~UpdaterStarted(log \cup lines)
BY DEF UpdaterStarted, LogLines, ErrorLine, ConsoleLine, ScriptLine

LEMMA UpdaterStaysUnseen == UpdaterUnseen /\ [UpdateNext]_updVars => UpdaterUnseen'
<1>. SUFFICES ASSUME UpdaterUnseen, [UpdateNext]_updVars PROVE UpdaterUnseen'
  OBVIOUS
<1>1. \/ updLog' = updLog \/ updLog' = {}
      \/ \E lines \in SUBSET LogLines : updLog' = updLog \cup lines
  <2> DEFINE Grown == \E lines \in SUBSET LogLines : updLog' = updLog \cup lines
  <2>1. ASSUME NEW p \in Posts, Request(p) PROVE updLog' = updLog \/ updLog' = {} \/ Grown
    BY <2>1 DEF Request, Admit, RotateLog, BeginDownload, EndDownload, Verify, RefuseFile, ScriptMissing,
         RecordHash, CreateTask, RunTask, SpawnUpdater, HandoffFails, PostLogs, LogLines
  <2>2. ASSUME NEW r \in Updaters, UpdaterStep(r) PROVE updLog' = updLog \/ updLog' = {} \/ Grown
    BY <2>2 DEF UpdaterStep, TaskStarts, RunVerifies, RunStopsConsole, RunInstalls, RunStartsConsole,
         RunCompletes, RunCloses, RunEnds, RunFails, RunLogs, LogLines
  <2>3. CASE Abandon \/ Resume \/ PowerLoss \/ ServiceStarts \/ GrowOlder \/ UNCHANGED updVars
    BY <2>3 DEF Abandon, Resume, PowerLoss, ServiceStarts, GrowOlder, LogLines, updVars
  <2>. QED BY <2>1, <2>2, <2>3 DEF UpdateNext
<1>2. ~UpdaterStarted({})  BY DEF UpdaterStarted
<1>. QED BY <1>1, <1>2, OnlyOtherLines DEF UpdaterUnseen

\* abandonApplyLock is meant to refuse a run whose updater has started, and the
\* parser to wait ten minutes for it. The updater's first line carries the elapsed
\* time, so for any number of requests and updaters whatever reads "running" may be
\* abandoned, and what is quiet reads "stale", though the installer is at work.
THEOREM RunningIsUnguarded ==
    UpdateSpec => [](/\ PhaseNow = "running" => Abandonable(PhaseNow, updLog)
                     /\ updAge # "new" => PhaseNow # "running")
<1>1. UpdateInit => UpdaterUnseen
  BY DEF UpdateInit, UpdaterUnseen, UpdaterStarted
<1>2. UpdaterUnseen => /\ PhaseNow = "running" => Abandonable(PhaseNow, updLog)
                       /\ updAge # "new" => PhaseNow # "running"
  BY PhaseIs DEF UpdaterUnseen, Abandonable
<1>. QED BY <1>1, <1>2, UpdaterStaysUnseen, PTL DEF UpdateSpec

----------------------------------------------------------------------------
(* The log as a lock                                                       *)

\* The model's requests are one administrator's, each sent when the last has
\* ended: of two that pass the check together the second moves the log from under
\* the first, and may then download while an updater runs.
OneAtATime == \A p, q \in Posts : p = q

ActiveLogs == \A p \in Posts : Active(p) => updPosts[p].log

\* Nobody is at work yet.
LEMMA ActiveLogsInit == UpdateInit => ActiveLogs
BY DEF UpdateInit, ActiveLogs, Active, Idle

\* One request at work has the log open: only another would detach it.
LEMMA ActiveLogsStep ==
    OneAtATime /\ UpdateInv /\ ActiveLogs /\ [UpdateNext]_updVars => ActiveLogs'
<1>. SUFFICES ASSUME OneAtATime, UpdateInv, ActiveLogs, [UpdateNext]_updVars, NEW p \in Posts
              PROVE  Active(p)' => updPosts'[p].log
  BY DEF ActiveLogs
<1>. USE DEF Active
<1>1. CASE updPosts' = updPosts
  BY <1>1 DEF ActiveLogs
<1>2. CASE updPosts' = [q \in Posts |-> Idle]
  BY <1>2 DEF Idle
<1>3. ASSUME NEW q \in Posts, Request(q)
      PROVE  Active(p)' => updPosts'[p].log
  <2>1. p = q
    BY DEF OneAtATime
  <2>2. \/ Active(p) /\ \E place : updPosts' = [updPosts EXCEPT ![p].place = place]
        \/ updPosts' = [updPosts EXCEPT ![p] = [place |-> "admitted", log |-> FALSE]]
        \/ updPosts' = [Detached(updPosts) EXCEPT ![p] = [place |-> "logging", log |-> TRUE]]
        \/ updPosts' = [updPosts EXCEPT ![p].place = "failed"]
        \/ updPosts' = [Detached(updPosts) EXCEPT ![p].place = "failed"]
    BY <1>3, <2>1 DEF Request, Admit, RotateLog, BeginDownload, EndDownload, Verify, RefuseFile,
         ScriptMissing, RecordHash, CreateTask, RunTask, SpawnUpdater, HandoffFails, GoTo, PostAt
  <2>. QED BY <2>2 DEF ActiveLogs, UpdateInv, UpdateTypeOK, Detached
<1>. QED BY <1>1, <1>2, <1>3
       DEF UpdateNext, updVars, UpdaterStep, TaskStarts, RunVerifies, RunStopsConsole, RunInstalls,
           RunStartsConsole, RunCompletes, RunCloses, RunEnds, RunFails, Down, Abandon, Resume, PowerLoss,
           ServiceStarts, GrowOlder

\* Who would write the installer again opens the log first.
LEMMA HeldLogStep ==
    OneAtATime /\ UpdateInv /\ ActiveLogs /\ HeldLogIsALock /\ [UpdateNext]_updVars
        => HeldLogIsALock'
<1>. SUFFICES ASSUME OneAtATime, UpdateInv, ActiveLogs, HeldLogIsALock, [UpdateNext]_updVars,
                     NEW r \in Updaters, updHost' = "win32", Holds(r)',
                     updRuns'[r].place \in {"verified", "stopped"}
              PROVE  updFile' = "published"
  BY DEF HeldLogIsALock, Holds
<1>1. updHost = "win32"
  BY DEF UpdateNext, updVars, Request, UpdaterStep, Admit, RotateLog, BeginDownload, EndDownload,
       Verify, RefuseFile, ScriptMissing, RecordHash, CreateTask, RunTask, SpawnUpdater,
       HandoffFails, TaskStarts, RunVerifies, RunStopsConsole, RunInstalls, RunStartsConsole,
       RunCompletes, RunCloses, RunEnds, RunFails, Abandon, Resume, PowerLoss, ServiceStarts, GrowOlder
\* A request that writes the file holds the log, so the updater does not.
<1>2. ASSUME NEW p \in Posts, BeginDownload(p) \/ EndDownload(p) \/ RefuseFile(p)
      PROVE  FALSE
  <2>1. Active(p) /\ UNCHANGED updRuns
    BY <1>2 DEF BeginDownload, EndDownload, RefuseFile, PostAt, Active
  <2>. QED BY <1>1, <2>1 DEF ActiveLogs, UpdateInv, OneWriter, Holds
<1>3. CASE RunVerifies(r)
  BY <1>3 DEF RunVerifies
<1>4. CASE /\ Holds(r) /\ updRuns[r].place \in {"verified", "stopped"}
           /\ UNCHANGED updFile
  BY <1>1, <1>4 DEF HeldLogIsALock, Holds
<1>5. \/ UNCHANGED updFile
      \/ \E p \in Posts : BeginDownload(p) \/ EndDownload(p) \/ RefuseFile(p)
  BY DEF UpdateNext, updVars, Request, UpdaterStep, Admit, RotateLog, BeginDownload, EndDownload,
       Verify, RefuseFile, ScriptMissing, RecordHash, CreateTask, RunTask, SpawnUpdater,
       HandoffFails, TaskStarts, RunVerifies, RunStopsConsole, RunInstalls, RunStartsConsole,
       RunCompletes, RunCloses, RunEnds, RunFails, Abandon, Resume, PowerLoss, ServiceStarts, GrowOlder
<1>6. \/ RunVerifies(r)
      \/ Holds(r) /\ updRuns[r].place \in {"verified", "stopped"}
  <2>1. CASE UNCHANGED updRuns
    BY <2>1 DEF Holds
  <2>2. CASE updRuns' = Detached(updRuns) \/ updRuns' = [q \in Updaters |-> Off]
    BY <2>2 DEF Holds, Detached, Off, UpdateInv, UpdateTypeOK
  <2>3. ASSUME NEW q \in Updaters, NEW log,
               updRuns' = [updRuns EXCEPT ![q] = [place |-> "started", log |-> log]]
        PROVE  Holds(r) /\ updRuns[r].place \in {"verified", "stopped"}
    BY <2>3 DEF Holds, UpdateInv, UpdateTypeOK
  <2>4. ASSUME NEW q \in Updaters, RunStopsConsole(q) \/ RunInstalls(q) \/ RunStartsConsole(q)
                  \/ RunCompletes(q) \/ RunCloses(q) \/ RunEnds(q) \/ RunFails(q) \/ RunVerifies(q)
        PROVE  \/ RunVerifies(r)
               \/ Holds(r) /\ updRuns[r].place \in {"verified", "stopped"}
    <3>1. CASE q # r
      <4>1. updRuns'[r] = updRuns[r]
        BY <2>4, <3>1 DEF RunStopsConsole, RunInstalls, RunStartsConsole, RunCompletes, RunCloses,
             RunEnds, RunFails, RunVerifies, RunGoes, UpdateInv, UpdateTypeOK
      <4>. QED BY <4>1 DEF Holds
    <3>2. CASE q = r /\ (RunCloses(r) \/ RunEnds(r))
      <4>1. ~updRuns'[r].log
        BY <3>2 DEF RunCloses, RunEnds, Off, UpdateInv, UpdateTypeOK
      <4>. QED BY <4>1 DEF Holds
    <3>3. CASE q = r /\ (RunStopsConsole(r) \/ RunInstalls(r) \/ RunStartsConsole(r) \/ RunCompletes(r)
                          \/ RunFails(r))
      <4>1. PICK place \in {"stopped", "installed", "checking", "done", "failing"} :
                /\ updRuns' = [updRuns EXCEPT ![r].place = place]
                /\ place = "stopped" => updRuns[r].place = "verified"
        BY <3>3 DEF RunStopsConsole, RunInstalls, RunStartsConsole, RunCompletes, RunFails, RunGoes
      <4>2. updRuns'[r].place = place /\ (Holds(r)' <=> Holds(r))
        BY <4>1 DEF Holds, UpdateInv, UpdateTypeOK
      <4>. QED BY <4>1, <4>2
    <3>. QED BY <2>4, <3>1, <3>2, <3>3
  <2>. QED BY <2>1, <2>2, <2>3, <2>4
         DEF UpdateNext, updVars, Request, UpdaterStep, Admit, RotateLog, BeginDownload, EndDownload,
             Verify, RefuseFile, ScriptMissing, RecordHash, CreateTask, RunTask, SpawnUpdater,
             HandoffFails, TaskStarts, Abandon, Resume, PowerLoss, ServiceStarts, GrowOlder
<1>. QED BY <1>2, <1>3, <1>4, <1>5, <1>6 DEF RunVerifies

\* On Windows, with one request at a time and any number of updaters, the installer
\* an updater runs while it holds the log is the published one: a request that would
\* write another opens the log first, and cannot.
THEOREM HeldLogLocks == OneAtATime => (UpdateSpec => []HeldLogIsALock)
<1>. SUFFICES ASSUME OneAtATime PROVE UpdateSpec => []HeldLogIsALock
  OBVIOUS
<1>1. UpdateInit => HeldLogIsALock
  BY DEF UpdateInit, HeldLogIsALock, Off
<1>2. UpdateInv /\ ActiveLogs /\ [UpdateNext]_updVars => ActiveLogs'
  BY ActiveLogsStep
<1>3. UpdateInv /\ ActiveLogs /\ HeldLogIsALock /\ [UpdateNext]_updVars => HeldLogIsALock'
  BY HeldLogStep
<1>. QED BY <1>1, <1>2, <1>3, UpdateInvInit, UpdateInvStep, ActiveLogsInit, PTL DEF UpdateSpec
----------------------------------------------------------------------------
(* The announcements of a new release                                      *)

\* The versions a release that GitHub may list can be announced as.
Announceable == {TagVersion(r.tag) : r \in Releases}

\* The audit log is looked back on for AuditWindow rows: within them no version
\* is announced again.
AuditInv == chkAudit \in Seq(Announceable) /\ AnnouncementsApart

LEMMA PickedIsListed ==
    ASSUME NEW channel, NEW listed \in SUBSET Releases,
           NEW picked \in SUBSET PickLatest(listed, channel),
           CandidateToCheck(picked, channel).available
    PROVE  CandidateToCheck(picked, channel).version \in Announceable
<1>. DEFINE first == CHOOSE r \in picked : TRUE
<1>1. picked # {}
  BY DEF CandidateToCheck
<1>2. first \in Releases
  BY <1>1 DEF PickLatest, Eligible
<1>3. CandidateToCheck(picked, channel).version = TagVersion(first.tag)
  BY <1>1 DEF CandidateToCheck
<1>. HIDE DEF first
<1>. QED BY <1>2, <1>3 DEF Announceable

\* Nothing is announced yet.
LEMMA AuditInvInit == CheckInit => AuditInv
BY DEF CheckInit, AuditInv, AnnouncementsApart

\* What is announced was not among the last AuditWindow announcements.
LEMMA AuditInvStep ==
    AuditWindow \in Nat /\ AuditInv /\ [CheckNext]_chkVars => AuditInv'
<1>. SUFFICES ASSUME AuditWindow \in Nat, AuditInv, [CheckNext]_chkVars PROVE AuditInv'
  OBVIOUS
<1>1. CASE UNCHANGED chkAudit
  BY <1>1 DEF AuditInv, AnnouncementsApart
<1>2. ASSUME NEW c \in Callers, Answered(c)
      PROVE  AuditInv'
  <2>1. PICK call \in chkCalls[c], listed \in SUBSET Releases :
          \E picked \in SUBSET PickLatest(listed, call.channel) :
             AnnounceIfChanged(call.previous, CandidateToCheck(picked, call.channel))
    BY <1>2 DEF Answered
  <2>2. PICK picked \in SUBSET PickLatest(listed, call.channel) :
             AnnounceIfChanged(call.previous, CandidateToCheck(picked, call.channel))
    BY <2>1
  <2>. DEFINE next == CandidateToCheck(picked, call.channel)
  <2>3. next.available => next.version \in Announceable
    BY PickedIsListed
  <2>4. AnnounceIfChanged(call.previous, next)
    BY <2>2
  <2>. HIDE DEF next
  <2>5. CASE chkAudit' = chkAudit
    BY <2>5, <1>1
  <2>6. CASE /\ chkAudit' = Append(chkAudit, next.version)
             /\ next.available /\ ~HasAnnouncedBefore(next.version)
    <3>1. next.version \in Announceable
      BY <2>3, <2>6
    <3>2. /\ chkAudit' \in Seq(Announceable)
          /\ Len(chkAudit') = Len(chkAudit) + 1 /\ Len(chkAudit) \in Nat
          /\ DOMAIN chkAudit = 1..Len(chkAudit)
          /\ chkAudit'[Len(chkAudit) + 1] = next.version
          /\ \A i \in 1..Len(chkAudit) : chkAudit'[i] = chkAudit[i]
      BY <2>6, <3>1 DEF AuditInv
    <3>3. \A i \in 1..Len(chkAudit) : i > Len(chkAudit) - AuditWindow => chkAudit[i] # next.version
      BY <2>6, <3>2 DEF HasAnnouncedBefore
    <3>4. ASSUME NEW i \in 1..Len(chkAudit'), NEW j \in 1..Len(chkAudit'),
                 i < j, j - i <= AuditWindow
          PROVE  chkAudit'[i] # chkAudit'[j]
      <4>1. CASE j <= Len(chkAudit)
        BY <3>2, <3>4, <4>1 DEF AuditInv, AnnouncementsApart
      <4>2. CASE j = Len(chkAudit) + 1
        <5>1. i \in 1..Len(chkAudit) /\ i > Len(chkAudit) - AuditWindow
          BY <3>2, <3>4, <4>2
        <5>. QED BY <3>2, <3>3, <4>2, <5>1
      <4>. QED BY <3>2, <4>1, <4>2
    <3>5. DOMAIN chkAudit' = 1..Len(chkAudit')
      BY <3>2
    <3>. QED BY <3>2, <3>4, <3>5 DEF AuditInv, AnnouncementsApart
  <2>. QED BY <2>4, <2>5, <2>6 DEF AnnounceIfChanged
\* Pruning moves every row by as much.
<1>3. CASE PruneAudit
  <2>1. PICK n \in 1..Len(chkAudit) : chkAudit' = SubSeq(chkAudit, n + 1, Len(chkAudit))
    BY <1>3 DEF PruneAudit
  <2>2. /\ chkAudit' \in Seq(Announceable) /\ Len(chkAudit') = Len(chkAudit) - n
        /\ Len(chkAudit) \in Nat /\ DOMAIN chkAudit = 1..Len(chkAudit)
        /\ DOMAIN chkAudit' = 1..Len(chkAudit')
        /\ \A i \in 1..Len(chkAudit') : chkAudit'[i] = chkAudit[i + n]
    BY <2>1 DEF AuditInv
  <2>3. ASSUME NEW i \in DOMAIN chkAudit', NEW j \in DOMAIN chkAudit', i < j, j - i <= AuditWindow
        PROVE  chkAudit'[i] # chkAudit'[j]
    <3>1. /\ i + n \in DOMAIN chkAudit /\ j + n \in DOMAIN chkAudit
          /\ i + n < j + n /\ (j + n) - (i + n) <= AuditWindow
      BY <2>2, <2>3
    <3>. QED BY <2>2, <2>3, <3>1 DEF AuditInv, AnnouncementsApart
  <2>. QED BY <2>2, <2>3 DEF AuditInv, AnnouncementsApart
<1>. QED BY <1>1, <1>2, <1>3 DEF CheckNext, chkVars, BeginCheck, Unanswered, Tick, SaveChannel,
       CooldownEnds, StartUpdateSweep, StopUpdateSweep

\* "once per NEW version only", as hasAnnouncedBefore has it.
AnnouncedOnce ==
    \A i, j \in DOMAIN chkAudit : chkAudit[i] = chkAudit[j] => i = j

\* As long as no more versions come than the rows looked back on.
FewVersions == /\ AuditWindow \in Nat
               /\ IsFiniteSet(Announceable) /\ Cardinality(Announceable) <= AuditWindow

LEMMA FewAreAnnouncedOnce == FewVersions /\ AuditInv => AnnouncedOnce
<1>. SUFFICES ASSUME FewVersions, AuditInv PROVE AnnouncedOnce
  OBVIOUS
<1>. DEFINE early == 1..(AuditWindow + 1)
<1>1. IsFiniteSet(early) /\ Cardinality(early) = AuditWindow + 1
  BY FS_Interval DEF FewVersions
<1>2. Len(chkAudit) <= AuditWindow
  <2>1. SUFFICES ASSUME Len(chkAudit) > AuditWindow PROVE FALSE
    BY DEF FewVersions, AuditInv
  <2>. DEFINE f == [i \in early |-> chkAudit[i]]
  <2>2. early \subseteq 1..Len(chkAudit)
    BY <2>1 DEF FewVersions, AuditInv
  <2>3. f \in [early -> Announceable]
    BY <2>2 DEF AuditInv
  <2>4. Cardinality(Announceable) \in Nat /\ Cardinality(Announceable) < Cardinality(early)
    BY <1>1, FS_CardinalityType DEF FewVersions
  <2>. HIDE DEF f
  <2>5. PICK i, j \in early : i # j /\ f[i] = f[j]
    BY <1>1, <2>3, <2>4, FS_PigeonHole DEF FewVersions
  <2>6. chkAudit[i] = chkAudit[j]
    BY <2>5 DEF f
  <2>7. \/ i < j /\ j - i <= AuditWindow
        \/ j < i /\ i - j <= AuditWindow
    BY <2>5 DEF FewVersions
  <2>. QED BY <2>2, <2>6, <2>7 DEF AuditInv, AnnouncementsApart
<1>3. ASSUME NEW i \in 1..Len(chkAudit), NEW j \in 1..Len(chkAudit), i # j
      PROVE  chkAudit[i] # chkAudit[j]
  <2>1. \/ i < j /\ j - i <= AuditWindow
        \/ j < i /\ i - j <= AuditWindow
    BY <1>2, <1>3 DEF FewVersions, AuditInv
  <2>. QED BY <2>1 DEF AuditInv, AnnouncementsApart
<1>4. DOMAIN chkAudit = 1..Len(chkAudit)
  BY DEF AuditInv
<1>. QED BY <1>3, <1>4 DEF AnnouncedOnce

\* Whoever asks, in whatever order GitHub answers, whatever it lists and however
\* the log is pruned: between two rows that announce one version lie at least
\* AuditWindow rows of others, for any number of calls, releases and rows.
THEOREM AnnouncedApart == AuditWindow \in Nat => (CheckSpec => []AnnouncementsApart)
<1>. SUFFICES ASSUME AuditWindow \in Nat PROVE CheckSpec => []AnnouncementsApart
  OBVIOUS
<1>1. AuditInv /\ [CheckNext]_chkVars => AuditInv'
  BY AuditInvStep
<1>2. AuditInv => AnnouncementsApart
  BY DEF AuditInv
<1>. QED BY <1>1, <1>2, AuditInvInit, PTL DEF CheckSpec

\* So no version stands in the log twice, as long as GitHub lists no more versions
\* than the log is looked back on for, ten in the code: a version whose row was
\* pruned may be announced again.
THEOREM AnnouncedOnlyOnce == FewVersions => (CheckSpec => []AnnouncedOnce)
<1>. SUFFICES ASSUME FewVersions PROVE CheckSpec => []AnnouncedOnce
  OBVIOUS
<1>1. AuditInv /\ [CheckNext]_chkVars => AuditInv'
  BY AuditInvStep DEF FewVersions
<1>2. AuditInv => AnnouncedOnce
  BY FewAreAnnouncedOnce
<1>. QED BY <1>1, <1>2, AuditInvInit, PTL DEF CheckSpec
=============================================================================
