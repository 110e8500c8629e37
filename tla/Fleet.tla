------------------------------- MODULE Fleet -------------------------------
(***************************************************************************)
(* How a PC comes to run the client its console serves: the marker and the *)
(* queue in the device row (agent-update.ts), the sweep over due devices   *)
(* (agent-update-sweep.ts), the sockets (bus.ts, agent-hub.ts), the        *)
(* devices page and the PC's update manager (UpdateManager.cs).  Devices   *)
(* do not touch each other here, so one is modelled; a version is a        *)
(* number.  fltDue is whether the device's policy lets the sweep update it *)
(* now (UpdatePolicy has how that comes about).  Not modelled: a console   *)
(* that goes back to an older client, hashes and signatures.               *)
(***************************************************************************)
EXTENDS Naturals, FiniteSets

CONSTANTS MaxVersion,   \* the newest client there will be
          MaxFaults     \* BOUND: dropped connections, failed updates, restarts, policy changes

ASSUME FleetBounds == MaxVersion \in Nat \ {0} /\ MaxFaults \in Nat

VARIABLES
    fltTarget,   \* currentClientVersion
    fltRow,      \* devices.agent_version: kind, version, pushed over 30 min ago
    fltQueued,   \* devices.update_requested_at is set
    fltSockets,  \* the ready sockets of the device: a live one, one whose PC is gone
    fltDue,      \* the effective policy says now
    fltShown,    \* the pill the devices page last drew
    fltPc,       \* the PC: version, socket open and not reported, pushes, stage
    fltFaults    \* what has gone wrong so far

fltVars == <<fltTarget, fltRow, fltQueued, fltSockets, fltDue, fltShown, fltPc, fltFaults>>

Clients == 1..MaxVersion
Row(kind, v) == [kind |-> kind, v |-> v, old |-> FALSE]
Unknown == Row("unknown", 0)
Stages == {"idle", "downloading", "installing", "stuck"}

\* updateStateFor; an empty version counts as current.
PillOf(row, queued, target) ==
    CASE row.kind = "unknown" -> "current"
      [] row.kind = "pending" -> "updating"
      [] row.kind = "stale" -> "failed"
      [] OTHER -> IF queued THEN "queued" ELSE IF target > row.v THEN "stale" ELSE "current"
Pill == PillOf(fltRow, fltQueued, fltTarget)

FleetInit ==
    /\ fltTarget \in Clients
    /\ fltPc = [v |-> 1, toReport |-> FALSE, inbox |-> {}, stage |-> "idle", msi |-> 0]
    /\ fltRow = Unknown /\ fltQueued = FALSE /\ fltSockets = {}
    /\ fltDue \in BOOLEAN /\ fltShown = "current" /\ fltFaults = 0

Fault == fltFaults < MaxFaults /\ fltFaults' = fltFaults + 1

----------------------------------------------------------------------------
(* The console.  Device is what it keeps of one: row, queue and the pushes *)
(* on their way; each handler is a function from one to the next.          *)
Device == [row |-> fltRow, queued |-> fltQueued, inbox |-> fltPc.inbox]
Becomes(d) ==
    /\ fltRow' = d.row /\ fltQueued' = d.queued
    /\ fltPc' = [fltPc EXCEPT !.inbox = d.inbox]

\* publishDevice counts every ready socket, the half-open one too.
Pushed(d, sockets) ==
    [row |-> Row("pending", fltTarget), queued |-> d.queued,
     inbox |-> IF "live" \in sockets THEN d.inbox \cup {fltTarget} ELSE d.inbox]

\* MUTANT: a marker is not looked at.
AlreadyReported(row) == row.kind = "plain" /\ row.v = fltTarget

\* requestAgentUpdate: a marker compares as its version.
AlreadyOn(row) == row.kind # "unknown" /\ row.v = fltTarget
AfterRequest(d) ==
    IF AlreadyOn(d.row) THEN d
    ELSE IF fltSockets = {} THEN [d EXCEPT !.queued = TRUE] ELSE Pushed(d, fltSockets)

\* MUTANT: the queue is kept until the device reports the version.
ServedKept(d, row, sockets) ==
    IF ~d.queued \/ sockets = {} THEN d
    ELSE IF row.kind = "unknown" \/ row.v < fltTarget
         THEN Pushed(d, sockets) ELSE [d EXCEPT !.queued = FALSE]

\* servePendingUpdateRequest, with the version it takes the device to run
Served(d, row, sockets) ==
    IF ~d.queued THEN d
    ELSE IF row.kind = "unknown" \/ row.v < fltTarget
         THEN IF sockets = {} THEN d ELSE [Pushed(d, sockets) EXCEPT !.queued = FALSE]
         ELSE [d EXCEPT !.queued = FALSE]

\* reconcileReportedVersion: done, too old, failed, or no marker to resolve
Fails(row, reported) == row.kind = "pending" /\ reported < row.v /\ ~row.old
Reconciled(row, reported) ==
    CASE row.kind = "pending" /\ reported < row.v /\ row.old -> [row EXCEPT !.kind = "stale"]
      [] Fails(row, reported) -> row
      [] OTHER -> Row("plain", reported)

\* accept and registerTrackedDeviceSocket: the queue is served on the row's
\* version; the PC reports its own next.
Connect ==
    /\ "live" \notin fltSockets
    /\ fltSockets' = fltSockets \cup {"live"}
    /\ LET d == Served(Device, fltRow, fltSockets')
       IN  /\ fltRow' = d.row /\ fltQueued' = d.queued
           /\ fltPc' = [fltPc EXCEPT !.inbox = d.inbox, !.toReport = TRUE]
    /\ UNCHANGED <<fltTarget, fltDue, fltShown, fltFaults>>

\* The version-report RPC
Report ==
    /\ fltPc.toReport /\ "live" \in fltSockets
    /\ LET d == Served([Device EXCEPT !.row = Reconciled(fltRow, fltPc.v)],
                       Row("plain", fltPc.v), fltSockets)
       IN  /\ fltRow' = d.row /\ fltQueued' = d.queued
           /\ fltPc' = [fltPc EXCEPT !.inbox = d.inbox, !.toReport = FALSE]
    /\ UNCHANGED <<fltTarget, fltSockets, fltDue, fltShown, fltFaults>>

\* POST /api/devices/<id>/update
RequestUpdate ==
    /\ Becomes(AfterRequest(Device))
    /\ UNCHANGED <<fltTarget, fltSockets, fltDue, fltShown, fltFaults>>

\* MUTANT: only a version that was reported can be behind.
BehindWhenReported == fltRow.kind = "plain" /\ fltRow.v < fltTarget

\* updateAvailable is false of an unknown version.
Behind == fltRow.kind # "unknown" /\ fltRow.v < fltTarget

\* selectStaleOnlineDevices and the bulk route
UpdateAllStale ==
    /\ fltSockets # {} /\ Behind
    /\ Becomes(AfterRequest(Device))
    /\ UNCHANGED <<fltTarget, fltSockets, fltDue, fltShown, fltFaults>>

\* sweepDueDevices, at its turn to this device
Sweep ==
    /\ fltDue /\ Behind
    /\ Becomes(AfterRequest(Device))
    /\ UNCHANGED <<fltTarget, fltSockets, fltDue, fltShown, fltFaults>>

\* The console is updated: it restarts, and every socket closes.
ConsoleUpgrade ==
    /\ fltTarget < MaxVersion /\ fltTarget' = fltTarget + 1
    /\ fltSockets' = {}
    /\ fltPc' = [fltPc EXCEPT !.toReport = FALSE, !.inbox = {}]
    /\ UNCHANGED <<fltRow, fltQueued, fltDue, fltShown, fltFaults>>

MarkerAges ==
    /\ fltRow.kind = "pending" /\ ~fltRow.old
    /\ fltRow' = [fltRow EXCEPT !.old = TRUE]
    /\ UNCHANGED <<fltTarget, fltQueued, fltSockets, fltDue, fltShown, fltPc, fltFaults>>

PolicyTurns ==
    /\ fltDue' = ~fltDue
    /\ Fault
    /\ UNCHANGED <<fltTarget, fltRow, fltQueued, fltSockets, fltShown, fltPc>>

----------------------------------------------------------------------------
(* The devices page                                                        *)
PageLoads ==
    /\ fltShown' = Pill
    /\ UNCHANGED <<fltTarget, fltRow, fltQueued, fltSockets, fltDue, fltPc, fltFaults>>

\* A row has its own button only while it was drawn as behind.
UpdateButton == fltShown = "stale"
PushFromPage ==
    /\ UpdateButton
    /\ Becomes(AfterRequest(Device))
    /\ UNCHANGED <<fltTarget, fltSockets, fltDue, fltShown, fltFaults>>

----------------------------------------------------------------------------
(* The PC and the network                                                  *)
Offline == [fltPc EXCEPT !.toReport = FALSE, !.inbox = {}]
Restarted == [Offline EXCEPT !.stage = "idle", !.msi = 0]

\* The server sees the close, or keeps a half-open socket until TCP gives up.
SocketsWithout ==
    {fltSockets \ {"live"}} \cup {{"ghost"} : s \in fltSockets \cap {"live"}}
SocketDrops ==
    /\ "live" \in fltSockets
    /\ fltSockets' \in SocketsWithout
    /\ fltPc' = Offline
    /\ Fault
    /\ UNCHANGED <<fltTarget, fltRow, fltQueued, fltDue, fltShown>>
GhostDies ==
    /\ "ghost" \in fltSockets /\ fltSockets' = fltSockets \ {"ghost"}
    /\ UNCHANGED <<fltTarget, fltRow, fltQueued, fltDue, fltShown, fltPc, fltFaults>>

\* BeginUpdate: nothing that is not newer, and one at a time.  A second one
\* while the first runs is dropped.
PcReceives ==
    /\ \E v \in fltPc.inbox :
          fltPc' = [fltPc EXCEPT
              !.inbox = @ \ {v},
              !.stage = IF v > fltPc.v /\ @ = "idle" THEN "downloading" ELSE @]
    /\ UNCHANGED <<fltTarget, fltRow, fltQueued, fltSockets, fltDue, fltShown, fltFaults>>

\* The package is the one the console serves now, whatever was pushed.
PcDownloads ==
    /\ fltPc.stage = "downloading"
    /\ fltPc' = [fltPc EXCEPT !.stage = "installing", !.msi = fltTarget]
    /\ UNCHANGED <<fltTarget, fltRow, fltQueued, fltSockets, fltDue, fltShown, fltFaults>>

\* Three attempts, the checksum or the hand-off failed.
DownloadFails ==
    /\ fltPc.stage \in {"downloading", "installing"}
    /\ fltPc' = [fltPc EXCEPT !.stage = "idle", !.msi = 0]
    /\ Fault
    /\ UNCHANGED <<fltTarget, fltRow, fltQueued, fltSockets, fltDue, fltShown>>

\* The installer stops the service, replaces it and starts it.
InstallOk ==
    /\ fltPc.stage = "installing"
    /\ fltPc' = [Restarted EXCEPT !.v = fltPc.msi]
    /\ fltSockets' = fltSockets \ {"live"}
    /\ UNCHANGED <<fltTarget, fltRow, fltQueued, fltDue, fltShown, fltFaults>>

\* The installation fails after the hand-off: updateRunning is never reset,
\* unless the installer had stopped the service.
InstallFails ==
    /\ fltPc.stage = "installing"
    /\ \/ fltPc' = [fltPc EXCEPT !.stage = "stuck"] /\ UNCHANGED fltSockets
       \/ fltPc' = Restarted /\ fltSockets' = fltSockets \ {"live"}
    /\ Fault
    /\ UNCHANGED <<fltTarget, fltRow, fltQueued, fltDue, fltShown>>

\* The PC is switched off and on: some day it is, when an update hangs.
HungPcRestarts ==
    /\ fltPc.stage = "stuck"
    /\ fltPc' = Restarted /\ fltSockets' \in SocketsWithout
    /\ UNCHANGED <<fltTarget, fltRow, fltQueued, fltDue, fltShown, fltFaults>>
PcRestarts ==
    /\ fltPc' = Restarted
    /\ fltSockets' \in SocketsWithout
    /\ Fault
    /\ UNCHANGED <<fltTarget, fltRow, fltQueued, fltDue, fltShown>>

----------------------------------------------------------------------------
FleetNext ==
    \/ Connect \/ Report \/ SocketDrops \/ GhostDies
    \/ RequestUpdate \/ UpdateAllStale \/ Sweep \/ PushFromPage \/ PageLoads
    \/ ConsoleUpgrade \/ MarkerAges \/ PolicyTurns
    \/ PcReceives \/ PcDownloads \/ DownloadFails \/ InstallOk \/ InstallFails
    \/ HungPcRestarts \/ PcRestarts

\* What runs by itself: the PC reconnects, reports, handles what it is sent and
\* installs; the sweep comes round; half-open sockets and markers age; and a PC
\* that hangs in an update is restarted some day.
FleetFairness ==
    /\ WF_fltVars(Connect) /\ WF_fltVars(Report) /\ WF_fltVars(GhostDies)
    /\ WF_fltVars(Sweep) /\ WF_fltVars(MarkerAges)
    /\ WF_fltVars(PcReceives) /\ WF_fltVars(PcDownloads) /\ WF_fltVars(InstallOk)
    /\ WF_fltVars(HungPcRestarts)

FleetSpec == FleetInit /\ [][FleetNext]_fltVars /\ FleetFairness

----------------------------------------------------------------------------
\* An update waits in the queue only while there is nobody to push it to: what
\* was asked for while the device was away is neither kept back nor forgotten
\* when it comes, also when it comes twice or leaves a half-open socket.
QueuedIsOffline == fltQueued => fltSockets = {}

\* A device that has been sent its update is not sent it again: not by a second
\* click, the sweep, the button for the whole fleet or a reconnection.
NoRepush ==
    [][fltRow.kind = "pending" /\ fltRow.v = fltTarget
          => fltTarget \notin fltPc'.inbox \ fltPc.inbox]_fltVars

\* The page calls a device current only when its PC runs the client the console
\* serves, or a later one; a row never reported has the same pill (the excuse).
CurrentIsCurrent == Pill = "current" /\ fltRow.kind # "unknown" => fltPc.v >= fltTarget

\* The row of a device tells what is so.
RowTellsTruth == QueuedIsOffline /\ CurrentIsCurrent

\* With a policy that lets it, every PC ends up with the client the console
\* serves, whatever connections, packages and installations failed on the way;
\* only a device pushed this very version, and that did not take it, is left.
Marked == fltRow.kind \in {"pending", "stale"} /\ fltRow.v = fltTarget
DevicesCatchUp == (<>[]fltDue) => <>[](fltPc.v = fltTarget \/ Marked)
=============================================================================
