--------------------------- MODULE ServerSettings ---------------------------
(***************************************************************************)
(* Changing where the console listens (server-settings-apply.ts, -state.ts,*)
(* -handoff.ts and the script they start).  As in SelfUpdate a state file  *)
(* is the lock and a log tells the outcome, but here a script rewrites     *)
(* console.env, restarts the console and puts the old file back when the   *)
(* console does not become healthy.  A setting is a member of Targets.     *)
(* Not modelled: audit entries, the previous log, a script that cannot     *)
(* open the log (SelfUpdate has that race).                                *)
(***************************************************************************)
EXTENDS Naturals, FiniteSets

CONSTANTS Changes,   \* concurrent POST /api/configuration/server/apply
          Targets,   \* listen settings
          NoTarget   \* not one of them

ASSUME NoTargetIsNone == NoTarget \notin Targets

VARIABLES
    netWindows,   \* the host: Windows, or a Unix
    netEnv,       \* the settings in console.env
    netServing,   \* those the running console has read, NoTarget when it is down
    netState,     \* apply-state.json: no record, or one
    netAge,       \* of its startedAt
    netLog,       \* the lines the parser looks for
    netChanges,   \* where each request stands, and its target
    netScript     \* the restart script: its place, target and backup

netVars == <<netWindows, netEnv, netServing, netState, netAge, netLog, netChanges, netScript>>

NetLine(prefix, text) == [prefix |-> prefix, text |-> text]
NetPlain == "==> "
NetStamp == "==> [Ns] "

\* RESTART_SERVER_START_MARKER and SERVER_SETTINGS_APPLIED_MARKER
ScriptSeen(log) == NetLine(NetPlain, "restart-server start") \in log
Applied(log) == NetLine(NetPlain, "server settings applied.") \in log
NetError == NetLine("error: ", "detail")

\* MUTANT: nothing is ever stale.
NetPhaseNeverStale(state, age, log) ==
    CASE state = {} -> "idle"
      [] state # {} /\ Applied(log) -> "succeeded"
      [] state # {} /\ ~Applied(log) /\ NetError \in log -> "failed"
      [] OTHER -> "running"

\* parseServerApplyStatus
NetPhase(state, age, log) ==
    CASE state = {} -> "idle"
      [] state # {} /\ Applied(log) -> "succeeded"
      [] state # {} /\ ~Applied(log) /\ NetError \in log -> "failed"
      [] OTHER -> IF age = "old" \/ (age # "new" /\ ~ScriptSeen(log))
                  THEN "stale" ELSE "running"
NetPhaseNow == NetPhase(netState, netAge, netLog)
NetAbandonable(phase, log) ==
    phase \in {"stale", "failed"} \/ (phase = "running" /\ ~ScriptSeen(log))

NoScript == [place |-> "off", target |-> NoTarget, backup |-> NoTarget]

NetInit ==
    /\ netWindows \in BOOLEAN
    /\ netEnv \in Targets /\ netServing = netEnv
    /\ netState = {} /\ netAge = "new" /\ netLog = {}
    /\ netChanges = [c \in Changes |-> [place |-> "idle", target |-> NoTarget]]
    /\ netScript = NoScript

----------------------------------------------------------------------------
ChangeAt(c, place) == netServing # NoTarget /\ netChanges[c].place = place
ChangeGoes(c, place) == netChanges' = [netChanges EXCEPT ![c].place = place]

\* A record that is gone has no age.
ClearNetState == netState' = {} /\ netAge' = "new"

\* The route refuses what is in effect already, the lock what is running.
AdmitChange(c, target) ==
    /\ \E place \in {"idle", "failed"} : ChangeAt(c, place)
    /\ target # netServing
    /\ NetPhaseNow # "running"
    /\ netChanges' = [netChanges EXCEPT ![c] = [place |-> "admitted", target |-> target]]
    /\ UNCHANGED <<netWindows, netEnv, netServing, netState, netAge, netLog, netScript>>

\* A new log with its header, then the state file.
BeginChange(c) ==
    /\ ChangeAt(c, "admitted")
    /\ netLog' = {} /\ netAge' = "new"
    /\ netState' = {netChanges[c].target}
    /\ ChangeGoes(c, "begun")
    /\ UNCHANGED <<netWindows, netEnv, netServing, netScript>>

\* No script in the payload: the log stays.  The handoff fails: it goes.
ChangeFails(c) ==
    /\ ChangeAt(c, "begun")
    /\ ClearNetState /\ netLog' \in {netLog, {}}
    /\ ChangeGoes(c, "failed")
    /\ UNCHANGED <<netWindows, netEnv, netServing, netScript>>

\* The scheduled task ignores a second start while its script runs; a Unix
\* child is started regardless, which one slot cannot show.
HandChange(c) ==
    /\ ChangeAt(c, "begun")
    /\ netAge' = "new" /\ netState' = {netChanges[c].target}
    /\ netLog' = netLog \cup {NetLine(NetPlain, "handing off to restart script")}
    /\ ChangeGoes(c, "idle")
    /\ IF netScript.place = "off"
       THEN netScript' = [place |-> "handed", target |-> netChanges[c].target, backup |-> NoTarget]
       ELSE UNCHANGED netScript
    /\ UNCHANGED <<netWindows, netEnv, netServing>>

\* abandonServerApplyLock
AbandonChange ==
    /\ netServing # NoTarget /\ netState # {} /\ NetAbandonable(NetPhaseNow, netLog)
    /\ ClearNetState
    /\ UNCHANGED <<netWindows, netEnv, netServing, netLog, netChanges, netScript>>

----------------------------------------------------------------------------
(* restart-server.ps1 and .sh                                              *)
ScriptGoes(place) == netScript' = [netScript EXCEPT !.place = place]

ScriptBegins ==
    /\ netScript.place = "handed"
    /\ netLog' = netLog \cup {NetLine(NetStamp, "restart-server start")}
    /\ netScript' = [netScript EXCEPT !.place = "started", !.backup = netEnv]
    /\ UNCHANGED <<netWindows, netEnv, netServing, netState, netAge, netChanges>>

ScriptWritesEnv ==
    /\ netScript.place = "started"
    /\ netEnv' = netScript.target
    /\ ScriptGoes("written")
    /\ UNCHANGED <<netWindows, netServing, netState, netAge, netLog, netChanges>>

ConsoleDies == /\ netServing' = NoTarget
               /\ netChanges' = [c \in Changes |-> [place |-> "idle", target |-> NoTarget]]

ScriptStops ==
    /\ netScript.place = "written"
    /\ ConsoleDies /\ ScriptGoes("stopped")
    /\ UNCHANGED <<netWindows, netEnv, netState, netAge, netLog>>

ScriptStarts ==
    /\ netScript.place = "stopped"
    /\ netServing' = netEnv
    /\ ScriptGoes("checking")
    /\ UNCHANGED <<netWindows, netEnv, netState, netAge, netLog, netChanges>>

\* Healthy; or a checkout, where nothing is restarted.
ScriptApplies ==
    /\ netScript.place \in {"checking", "written"}
    /\ netLog' = netLog \cup {NetLine(NetStamp, "server settings applied.")}
    /\ netScript' = NoScript
    /\ UNCHANGED <<netWindows, netEnv, netServing, netState, netAge, netChanges>>

\* On Windows every failure puts the file back; on Unix only the health check's.
\* The service is then started, which does nothing to one that runs.
ScriptFails ==
    /\ netScript.place \notin {"off", "handed"}
    /\ LET restores == netWindows \/ netScript.place = "checking"
       IN  /\ netEnv' = IF restores THEN netScript.backup ELSE netEnv
           /\ netServing' = IF restores /\ netServing = NoTarget THEN netEnv' ELSE netServing
    /\ netLog' = netLog \cup {NetError}
    /\ netScript' = NoScript
    /\ UNCHANGED <<netWindows, netState, netAge, netChanges>>

\* Power is lost, or the task never starts.
ScriptLost ==
    /\ netScript.place # "off"
    /\ netScript' = NoScript
    /\ IF netScript.place = "handed" THEN UNCHANGED <<netServing, netChanges>> ELSE ConsoleDies
    /\ UNCHANGED <<netWindows, netEnv, netState, netAge, netLog>>

\* The console ends, and the service manager or a person starts it.
ConsoleStops ==
    /\ netServing # NoTarget /\ ConsoleDies
    /\ UNCHANGED <<netWindows, netEnv, netState, netAge, netLog, netScript>>
ConsoleStarts ==
    /\ netServing = NoTarget /\ netServing' = netEnv
    /\ UNCHANGED <<netWindows, netEnv, netState, netAge, netLog, netChanges, netScript>>

ChangeAges ==
    /\ netState # {} /\ netAge # "old"
    /\ netAge' = IF netAge = "new" THEN "quiet" ELSE "old"
    /\ UNCHANGED <<netWindows, netEnv, netServing, netState, netLog, netChanges, netScript>>

----------------------------------------------------------------------------
NetNext ==
    \/ \E c \in Changes, target \in Targets : AdmitChange(c, target)
    \/ \E c \in Changes : BeginChange(c) \/ ChangeFails(c) \/ HandChange(c)
    \/ ScriptBegins \/ ScriptWritesEnv \/ ScriptStops \/ ScriptStarts
    \/ ScriptApplies \/ ScriptFails \/ ScriptLost
    \/ AbandonChange \/ ConsoleStops \/ ConsoleStarts \/ ChangeAges

NetFairness == WF_netVars(ChangeAges)
NetSpec == NetInit /\ [][NetNext]_netVars /\ NetFairness

----------------------------------------------------------------------------
\* What an administrator may rely on
NetPromise == INSTANCE ApplyPromise WITH phase <- NetPhaseNow
KeepsNetPromise == NetPromise!PromiseSpec
=============================================================================
