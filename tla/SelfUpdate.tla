----------------------------- MODULE SelfUpdate -----------------------------
(***************************************************************************)
(* The console updates itself (src/src/lib/self-update-apply.ts,           *)
(* -status.ts, -resume.ts, -handoff.ts).  A request downloads and verifies *)
(* an installer, then hands it to an updater that outlives the console it  *)
(* stops.  Two files are all that survives: the state file, which serves   *)
(* as the lock, and the apply log, from which the outcome is read.  The    *)
(* requests are cut at their awaits.  Not modelled: the wording of the     *)
(* log, the audit entries, a file that cannot be removed.                  *)
(***************************************************************************)
EXTENDS Naturals, FiniteSets

CONSTANTS Posts,    \* concurrent POST /api/configuration/update/apply
          Updaters  \* the updater processes that may live at one time

VARIABLES
    updHost,      \* "win32" or "darwin": Linux is refused by the route
    updUp,        \* the console's process runs
    updResume,    \* it has booted and not yet called resumeInterruptedApply
    updState,     \* apply-state.json: no record, or one
    updAge,       \* of its startedAt: "new", past the 90 s, or past the 45 min
    updLog,       \* the lines of apply.log the parser looks for
    updFile,      \* the installer in the work directory
    updPosts,     \* where each request stands, and whether apply.log is its log
    updTask,      \* the one-shot task is registered with Windows
    updRuns       \* where each updater stands, and whether apply.log is its log

updVars == <<updHost, updUp, updResume, updState, updAge, updLog, updFile,
             updPosts, updTask, updRuns>>

PostPlaces == {"idle", "admitted", "logging", "downloading", "fetched", "verified",
               "handing", "created", "failed"}
RunPlaces == {"off", "started", "verified", "stopped", "installed", "checking",
              "done", "closed", "failing"}

----------------------------------------------------------------------------
(* The log: a line is what comes before the text the parser looks for, and *)
(* that text.                                                              *)
ConsoleLine(text) == <<"==> ", text>>
ErrorLine == <<"error: ", "detail">>
\* Step() puts the elapsed seconds in front of every message, the first included.
ScriptLine(text) == <<"==> [Ns] ", text>>

LogLines == {ErrorLine, ConsoleLine("handing off to updater"),
             ScriptLine("updater start"), ScriptLine("update complete.")}

\* /^==> updater start\b/m and /update complete\./i
UpdaterStarted(log) == ConsoleLine("updater start") \in log
Completed(log) == \E line \in log : line[2] = "update complete."

\* MUTANT: nothing is ever stale.
PhaseNeverStale(state, age, log) ==
    CASE state = {} -> "idle"
      [] state # {} /\ Completed(log) -> "succeeded"
      [] state # {} /\ ~Completed(log) /\ ErrorLine \in log -> "failed"
      [] OTHER -> "running"

\* parseApplyStatus
Phase(state, age, log) ==
    CASE state = {} -> "idle"
      [] state # {} /\ Completed(log) -> "succeeded"
      [] state # {} /\ ~Completed(log) /\ ErrorLine \in log -> "failed"
      [] OTHER -> IF age = "old" \/ (age # "new" /\ ~UpdaterStarted(log))
                  THEN "stale" ELSE "running"
PhaseNow == Phase(updState, updAge, updLog)
Abandonable(phase, log) ==
    phase \in {"stale", "failed"} \/ (phase = "running" /\ ~UpdaterStarted(log))

\* PowerShell's StreamWriter lets others only read: Windows then refuses to
\* rename, remove or append to apply.log.
LogHeld == updHost = "win32" /\ \E r \in Updaters : updRuns[r].place # "off" /\ updRuns[r].log
LogOpen == \E p \in Posts : updPosts[p].place \notin {"idle", "admitted", "failed"} /\ updPosts[p].log

Idle == [place |-> "idle", log |-> FALSE]
Off == [place |-> "off", log |-> FALSE]
Detached(f) == [i \in DOMAIN f |-> [f[i] EXCEPT !.log = FALSE]]

UpdateInit ==
    /\ updHost \in {"win32", "darwin"}
    /\ updUp = TRUE /\ updResume = FALSE /\ updTask = FALSE
    /\ updState = {} /\ updAge = "new" /\ updLog = {} /\ updFile = "none"
    /\ updPosts = [p \in Posts |-> Idle]
    /\ updRuns = [r \in Updaters |-> Off]

----------------------------------------------------------------------------
(* applyConsoleUpdate                                                      *)
PostAt(p, place) == updUp /\ updPosts[p].place = place
GoTo(p, place) == updPosts' = [updPosts EXCEPT ![p].place = place]
WriteState(p, hashed) == updState' = {[by |-> p, hashed |-> hashed]} /\ updAge' = "new"
\* A record that is gone has no age.
ClearState == updState' = {} /\ updAge' = "new"
PostLogs(p, lines) == updLog' = IF updPosts[p].log THEN updLog \cup lines ELSE updLog

\* A request passes unless the status reads "running"; refused, it changes nothing.
Admit(p) ==
    /\ updPosts[p].place \in {"idle", "failed"} /\ updUp
    /\ PhaseNow # "running"
    /\ updPosts' = [updPosts EXCEPT ![p] = [place |-> "admitted", log |-> FALSE]]
    /\ UNCHANGED <<updHost, updUp, updResume, updState, updAge, updLog, updFile, updTask, updRuns>>

\* MUTANT: a log that cannot be moved is left, and the request goes on.
RotateLogOrNot(p) ==
    /\ PostAt(p, "admitted")
    /\ IF LogHeld THEN UNCHANGED <<updLog, updRuns>> ELSE updLog' = {} /\ updRuns' = Detached(updRuns)
    /\ updPosts' = [updPosts EXCEPT ![p] = [place |-> "logging", log |-> ~LogHeld]]
    /\ UNCHANGED <<updHost, updUp, updResume, updState, updAge, updFile, updTask>>

\* The log moves away with every handle on it, and a new one is opened.
RotateLog(p) ==
    /\ PostAt(p, "admitted") /\ ~LogHeld
    /\ updLog' = {}
    /\ updPosts' = [Detached(updPosts) EXCEPT ![p] = [place |-> "logging", log |-> TRUE]]
    /\ updRuns' = Detached(updRuns)
    /\ UNCHANGED <<updHost, updUp, updResume, updState, updAge, updFile, updTask>>

BeginDownload(p) ==
    /\ PostAt(p, "logging")
    /\ WriteState(p, FALSE) /\ updFile' = "partial"
    /\ GoTo(p, "downloading")
    /\ UNCHANGED <<updHost, updUp, updResume, updLog, updTask, updRuns>>

EndDownload(p) ==
    /\ PostAt(p, "downloading")
    /\ updFile' \in {"published", "other"}
    /\ GoTo(p, "fetched")
    /\ UNCHANGED <<updHost, updUp, updResume, updState, updAge, updLog, updTask, updRuns>>

Verify(p) ==
    /\ PostAt(p, "fetched") /\ updFile = "published"
    /\ GoTo(p, "verified")
    /\ UNCHANGED <<updHost, updUp, updResume, updState, updAge, updLog, updFile, updTask, updRuns>>

\* The download or the comparison fails: nothing is kept, the lock included.
RefuseFile(p) ==
    /\ updUp /\ \/ updPosts[p].place = "downloading"
                \/ updPosts[p].place = "fetched" /\ updFile # "published"
    /\ PostLogs(p, {ErrorLine})
    /\ updFile' = "none" /\ ClearState
    /\ GoTo(p, "failed")
    /\ UNCHANGED <<updHost, updUp, updResume, updTask, updRuns>>

\* The payload has no update script.
ScriptMissing(p) ==
    /\ PostAt(p, "verified")
    /\ ClearState
    /\ GoTo(p, "failed")
    /\ UNCHANGED <<updHost, updUp, updResume, updLog, updFile, updTask, updRuns>>

RecordHash(p) ==
    /\ PostAt(p, "verified")
    /\ WriteState(p, TRUE)
    /\ GoTo(p, "handing")
    /\ UNCHANGED <<updHost, updUp, updResume, updLog, updFile, updTask, updRuns>>

\* handoffViaScheduledTask: schtasks /Create, then /Run.
CreateTask(p) ==
    /\ updHost = "win32" /\ PostAt(p, "handing")
    /\ updTask' = TRUE
    /\ GoTo(p, "created")
    /\ UNCHANGED <<updHost, updUp, updResume, updState, updAge, updLog, updFile, updRuns>>

RunTask(p) ==
    /\ PostAt(p, "created")
    /\ PostLogs(p, {ConsoleLine("handing off to updater")})
    /\ GoTo(p, "idle")
    /\ UNCHANGED <<updHost, updUp, updResume, updState, updAge, updFile, updTask, updRuns>>

SpawnUpdater(p) ==
    /\ updHost = "darwin" /\ PostAt(p, "handing")
    /\ \E r \in Updaters :
          /\ updRuns[r].place = "off"
          /\ updRuns' = [updRuns EXCEPT ![r] = [place |-> "started", log |-> updPosts[p].log]]
    /\ PostLogs(p, {ConsoleLine("handing off to updater"), ScriptLine("updater start")})
    /\ GoTo(p, "idle")
    /\ UNCHANGED <<updHost, updUp, updResume, updState, updAge, updFile, updTask>>

\* The outer catch: the log cannot be opened, or schtasks or the spawn fails.
HandoffFails(p) ==
    /\ updUp /\ \/ updPosts[p].place \in {"handing", "created"}
                \/ updPosts[p].place = "admitted" /\ LogHeld
    /\ ClearState
    /\ IF LogHeld THEN UNCHANGED <<updLog, updRuns>>
                  ELSE updLog' = {} /\ updRuns' = Detached(updRuns)
    /\ updPosts' = [(IF LogHeld THEN updPosts ELSE Detached(updPosts))
                      EXCEPT ![p].place = "failed"]
    /\ UNCHANGED <<updHost, updUp, updResume, updFile, updTask>>

\* abandonApplyLock, behind DELETE /api/configuration/update/apply
Abandon ==
    /\ updUp /\ updState # {} /\ Abandonable(PhaseNow, updLog)
    /\ ClearState
    /\ UNCHANGED <<updHost, updUp, updResume, updLog, updFile, updPosts, updTask, updRuns>>

\* resumeInterruptedApply, once after each boot: the state and the log are
\* read, the installer hashed, and the task registered again.
MayResume ==
    /\ updHost = "win32" /\ PhaseNow \in {"running", "stale"}
    /\ \E s \in updState : s.hashed
    /\ ~UpdaterStarted(updLog)
    /\ updFile = "published" /\ ~LogHeld

Resume ==
    /\ updUp /\ updResume
    /\ updResume' = FALSE
    /\ IF MayResume
       THEN \/ updTask' = TRUE /\ updLog' = updLog \cup {ConsoleLine("handing off to updater")}
            \/ updTask' \in {updTask, TRUE} /\ updLog' = updLog \cup {ErrorLine}
       ELSE UNCHANGED <<updTask, updLog>>
    /\ UNCHANGED <<updHost, updUp, updState, updAge, updFile, updPosts, updRuns>>

----------------------------------------------------------------------------
(* update-server.ps1 and .sh, and the host they run on                     *)
RunGoes(r, place) == updRuns' = [updRuns EXCEPT ![r].place = place]
RunLogs(r, lines) == updLog' = IF updRuns[r].log THEN updLog \cup lines ELSE updLog

\* The script opens apply.log itself and unregisters the task that ran it; a
\* handle of another on the log leaves it without one.
TaskStarts(r) ==
    /\ updTask /\ updRuns[r].place = "off"
    /\ updTask' = FALSE
    /\ LET opened == ~LogOpen /\ ~LogHeld
       IN  /\ updRuns' = [updRuns EXCEPT ![r] = [place |-> "started", log |-> opened]]
           /\ updLog' = IF opened THEN updLog \cup {ScriptLine("updater start")} ELSE updLog
    /\ UNCHANGED <<updHost, updUp, updResume, updState, updAge, updFile, updPosts>>

\* Assert-ArtifactIntegrity compares the installer with the pinned hash again.
RunVerifies(r) ==
    /\ updRuns[r].place = "started" /\ updFile = "published"
    /\ RunGoes(r, "verified")
    /\ UNCHANGED <<updHost, updUp, updResume, updState, updAge, updLog, updFile, updPosts, updTask>>

Down == updUp' = FALSE /\ updResume' = FALSE /\ updPosts' = [p \in Posts |-> Idle]

RunStopsConsole(r) ==
    /\ updRuns[r].place = "verified"
    /\ Down /\ RunGoes(r, "stopped")
    /\ UNCHANGED <<updHost, updState, updAge, updLog, updFile, updTask>>

RunInstalls(r) ==
    /\ updRuns[r].place = "stopped"
    /\ RunGoes(r, "installed")
    /\ UNCHANGED <<updHost, updUp, updResume, updState, updAge, updLog, updFile, updPosts, updTask>>

Boot == updUp' = TRUE /\ updResume' = ~updUp

RunStartsConsole(r) ==
    /\ updRuns[r].place = "installed"
    /\ Boot /\ RunGoes(r, "checking")
    /\ UNCHANGED <<updHost, updState, updAge, updLog, updFile, updPosts, updTask>>

\* The last line comes before the log is closed: until then Windows refuses a
\* request that reads "succeeded" and goes on.
RunCompletes(r) ==
    /\ updRuns[r].place = "checking"
    /\ RunLogs(r, {ScriptLine("update complete.")})
    /\ RunGoes(r, "done")
    /\ UNCHANGED <<updHost, updUp, updResume, updState, updAge, updFile, updPosts, updTask>>

RunCloses(r) ==
    /\ updRuns[r].place = "done"
    /\ updRuns' = [updRuns EXCEPT ![r] = [place |-> "closed", log |-> FALSE]]
    /\ UNCHANGED <<updHost, updUp, updResume, updState, updAge, updLog, updFile, updPosts, updTask>>

\* Any terminating failure, the watchdog's included: the line comes first.
RunFails(r) ==
    /\ updRuns[r].place \notin {"off", "failing"}
    /\ RunLogs(r, {ErrorLine})
    /\ RunGoes(r, "failing")
    /\ UNCHANGED <<updHost, updUp, updResume, updState, updAge, updFile, updPosts, updTask>>

\* Unregister-UpdateTask, whosever task it is by now.
RunEnds(r) ==
    /\ updRuns[r].place \in {"closed", "failing"}
    /\ updRuns' = [updRuns EXCEPT ![r] = Off] /\ updTask' = FALSE
    /\ UNCHANGED <<updHost, updUp, updResume, updState, updAge, updLog, updFile, updPosts>>

PowerLoss ==
    /\ Down /\ updRuns' = [r \in Updaters |-> Off]
    /\ UNCHANGED <<updHost, updState, updAge, updLog, updFile, updTask>>

ServiceStarts ==
    /\ ~updUp /\ Boot
    /\ UNCHANGED <<updHost, updState, updAge, updLog, updFile, updPosts, updTask, updRuns>>

GrowOlder ==
    /\ updState # {} /\ updAge # "old"
    /\ updAge' = IF updAge = "new" THEN "quiet" ELSE "old"
    /\ UNCHANGED <<updHost, updUp, updResume, updState, updLog, updFile, updPosts, updTask, updRuns>>

----------------------------------------------------------------------------
Request(p) ==
    \/ Admit(p) \/ RotateLog(p) \/ BeginDownload(p) \/ EndDownload(p) \/ Verify(p)
    \/ RefuseFile(p) \/ ScriptMissing(p) \/ RecordHash(p) \/ CreateTask(p) \/ RunTask(p)
    \/ SpawnUpdater(p) \/ HandoffFails(p)
UpdaterStep(r) ==
    \/ TaskStarts(r) \/ RunVerifies(r) \/ RunStopsConsole(r) \/ RunInstalls(r)
    \/ RunStartsConsole(r) \/ RunCompletes(r) \/ RunCloses(r) \/ RunFails(r) \/ RunEnds(r)

UpdateNext ==
    \/ \E p \in Posts : Request(p)
    \/ \E r \in Updaters : UpdaterStep(r)
    \/ Abandon \/ Resume \/ PowerLoss \/ ServiceStarts \/ GrowOlder

\* Time passes: the only fairness the lock's release needs.
UpdateFairness == WF_updVars(GrowOlder)
UpdateSpec == UpdateInit /\ [][UpdateNext]_updVars /\ UpdateFairness

----------------------------------------------------------------------------
\* What an administrator may rely on
UpdatePromise == INSTANCE ApplyPromise WITH phase <- PhaseNow
KeepsUpdatePromise == UpdatePromise!PromiseSpec

\* On Windows the installer an updater runs is the published one, though a later
\* request downloads into the same file: the log the updater holds open keeps that
\* request from starting, also when the state file is stale or says abandoned.  This
\* is about one request after another: of two that both read "not running" one may
\* download while the updater of the other runs, and only UpdatePromise is kept.
HeldLogIsALock ==
    \A r \in Updaters :
       updHost = "win32" /\ updRuns[r].log /\ updRuns[r].place \in {"verified", "stopped"}
          => updFile = "published"
=============================================================================
