----------------------------- MODULE FleetProofs -----------------------------
(***************************************************************************)
(* Theorems about Fleet, for every newest version and however often        *)
(* connections drop, updates fail, PCs restart and policies turn.          *)
(***************************************************************************)
EXTENDS Fleet, TLAPS

Kinds == {"unknown", "pending", "stale", "plain"}
Rows == [kind : Kinds, v : Nat, old : BOOLEAN]
Pcs == [v : Nat, toReport : BOOLEAN, inbox : SUBSET Nat, stage : Stages, msi : Nat]

FleetTypeOK ==
  /\ fltTarget \in Nat
  /\ fltRow \in Rows
  /\ fltQueued \in BOOLEAN
  /\ fltSockets \subseteq {"live", "ghost"}
  /\ fltPc \in Pcs

\* What the row can say of the PC rests on the PC never going back: it takes up
\* an update only when it is sent something newer than it runs, and what it then
\* installs is what the console serves by that time.
PcAdvances ==
  /\ fltRow.kind = "plain" => fltRow.v <= fltPc.v
  /\ fltPc.v <= fltTarget
  /\ \A v \in fltPc.inbox : v <= fltTarget
  /\ fltPc.stage = "installing" => fltPc.v <= fltPc.msi /\ fltPc.msi <= fltTarget

FleetInv == FleetTypeOK /\ QueuedIsOffline /\ PcAdvances

-----------------------------------------------------------------------------
(* The console's handlers, as functions from a device to a device.         *)

Devices == [row : Rows, queued : BOOLEAN, inbox : SUBSET Nat]

\* What a handler may make of device d while these sockets are there: a row it
\* changes is marked, it sends nothing but the target, and it leaves nothing in
\* the queue while somebody listens.
Sound(d, e, sockets) ==
  /\ e \in Devices
  /\ e.row = d.row \/ e.row.kind = "pending"
  /\ \A v \in e.inbox : v \in d.inbox \/ v = fltTarget
  /\ e.queued => sockets = {}

LEMMA PushedSound ==
  ASSUME FleetTypeOK, NEW d \in Devices, NEW sockets
  PROVE  /\ Pushed(d, sockets) \in Devices
         /\ Pushed(d, sockets).row.kind = "pending"
         /\ Pushed(d, sockets).queued = d.queued
         /\ \A v \in Pushed(d, sockets).inbox : v \in d.inbox \/ v = fltTarget
BY DEF Pushed, Devices, Rows, Row, Kinds, FleetTypeOK

\* requestAgentUpdate; a device already on the version, or marked for it, is left.
LEMMA RequestSound ==
  ASSUME FleetTypeOK, NEW d \in Devices, d.queued => fltSockets = {}
  PROVE  /\ Sound(d, AfterRequest(d), fltSockets)
         /\ AlreadyOn(d.row) => AfterRequest(d) = d
<1>1. CASE AlreadyOn(d.row)  BY <1>1 DEF AfterRequest, Sound
<1>2. CASE ~AlreadyOn(d.row) /\ fltSockets = {}
  <2>1. AfterRequest(d) = [d EXCEPT !.queued = TRUE]  BY <1>2 DEF AfterRequest
  <2> QED BY <1>2, <2>1 DEF Sound, Devices
<1>3. CASE ~AlreadyOn(d.row) /\ fltSockets # {}
  <2>1. AfterRequest(d) = Pushed(d, fltSockets)  BY <1>3 DEF AfterRequest
  <2> QED BY <1>3, <2>1, PushedSound DEF Sound
<1> QED BY <1>1, <1>2, <1>3

\* servePendingUpdateRequest sends only what was asked for and is missing.
LEMMA ServedSound ==
  ASSUME FleetTypeOK, NEW d \in Devices, NEW row \in Rows, NEW sockets
  PROVE  /\ Sound(d, Served(d, row, sockets), sockets)
         /\ ~d.queued => Served(d, row, sockets) = d
         /\ AlreadyOn(row) => Served(d, row, sockets).inbox = d.inbox
<1> DEFINE missing == row.kind = "unknown" \/ row.v < fltTarget
           e == Served(d, row, sockets)
<1>1. AlreadyOn(row) => ~missing  BY DEF AlreadyOn, Rows, FleetTypeOK
<1>2. CASE ~d.queued  BY <1>2 DEF Served, Sound
<1>3. CASE d.queued /\ missing /\ sockets = {}
  <2>1. e = d  BY <1>3 DEF Served
  <2> QED BY <1>1, <1>3, <2>1 DEF Sound
<1>4. CASE d.queued /\ missing /\ sockets # {}
  <2>1. e = [Pushed(d, sockets) EXCEPT !.queued = FALSE]  BY <1>4 DEF Served
  <2>2. e \in Devices /\ e.queued = FALSE /\ e.row = Pushed(d, sockets).row
        /\ e.inbox = Pushed(d, sockets).inbox
    BY <2>1, PushedSound DEF Devices
  <2> HIDE DEF e
  <2>3. Sound(d, e, sockets)  BY <2>2, PushedSound DEF Sound
  <2> QED BY <1>1, <1>4, <2>3 DEF e
<1>5. CASE d.queued /\ ~missing
  <2>1. e = [d EXCEPT !.queued = FALSE]  BY <1>5 DEF Served
  <2> QED BY <1>5, <2>1 DEF Sound, Devices
<1> QED BY <1>2, <1>3, <1>4, <1>5

\* A version report leaves the marker, marks a failure, or is what the row says.
LEMMA ReconciledRow ==
  ASSUME NEW row \in Rows, NEW v \in Nat
  PROVE  /\ Reconciled(row, v) \in Rows
         /\ Reconciled(row, v).kind = "plain" => Reconciled(row, v).v = v
<1>1. CASE row.kind = "pending" /\ v < row.v /\ row.old
  <2>1. ~Fails(row, v)  BY <1>1 DEF Fails
  <2>2. Reconciled(row, v) = [row EXCEPT !.kind = "stale"]  BY <1>1, <2>1 DEF Reconciled
  <2> QED BY <2>2 DEF Rows, Kinds
<1>2. CASE Fails(row, v)
  <2>1. Reconciled(row, v) = row  BY <1>2 DEF Reconciled, Fails
  <2> QED BY <1>2, <2>1 DEF Fails
<1>3. CASE ~(row.kind = "pending" /\ v < row.v /\ row.old) /\ ~Fails(row, v)
  <2>1. Reconciled(row, v) = Row("plain", v)  BY <1>3 DEF Reconciled
  <2> QED BY <2>1 DEF Row, Rows, Kinds
<1> QED BY <1>1, <1>2, <1>3

-----------------------------------------------------------------------------
(* The invariant.                                                          *)

\* What a handler of the console does to the state as a whole.
LEMMA HandlerStep ==
  ASSUME FleetInv, NEW d \in Devices, NEW e, NEW toReport \in BOOLEAN,
         d.row.kind = "plain" => d.row.v <= fltPc.v,
         d.inbox = fltPc.inbox,
         Sound(d, e, fltSockets'),
         fltRow' = e.row, fltQueued' = e.queued,
         fltPc' = [fltPc EXCEPT !.inbox = e.inbox, !.toReport = toReport],
         fltSockets' \subseteq {"live", "ghost"}, fltTarget' = fltTarget
  PROVE  FleetInv'
<1>1. FleetTypeOK'  BY DEF FleetInv, FleetTypeOK, Sound, Devices, Pcs
<1>2. QueuedIsOffline'  BY DEF QueuedIsOffline, Sound
<1>3. /\ fltPc'.v = fltPc.v /\ fltPc'.stage = fltPc.stage /\ fltPc'.msi = fltPc.msi
      /\ fltPc'.inbox = e.inbox
  BY DEF FleetInv, FleetTypeOK, Pcs
<1>4. fltRow'.kind = "plain" => fltRow'.v <= fltPc'.v  BY <1>3 DEF Sound
<1>5. \A v \in fltPc'.inbox : v <= fltTarget'
  BY <1>3 DEF Sound, FleetInv, PcAdvances, FleetTypeOK
<1> QED BY <1>1, <1>2, <1>3, <1>4, <1>5 DEF FleetInv, PcAdvances

\* What something that only concerns the PC does: its sockets may go, never come.
LEMMA PcStep ==
  ASSUME FleetInv, UNCHANGED <<fltTarget, fltRow, fltQueued>>,
         fltSockets' \subseteq {"live", "ghost"}, fltSockets = {} => fltSockets' = {},
         fltPc' \in Pcs, fltPc.v <= fltPc'.v, fltPc'.v <= fltTarget,
         \A v \in fltPc'.inbox : v <= fltTarget,
         fltPc'.stage = "installing" => fltPc'.v <= fltPc'.msi /\ fltPc'.msi <= fltTarget
  PROVE  FleetInv'
<1>1. FleetTypeOK'  BY DEF FleetInv, FleetTypeOK
<1>2. QueuedIsOffline'  BY DEF FleetInv, QueuedIsOffline
<1>3. fltRow'.kind = "plain" => fltRow'.v <= fltPc'.v
  BY DEF FleetInv, FleetTypeOK, PcAdvances, Rows, Pcs
<1> QED BY <1>1, <1>2, <1>3 DEF FleetInv, PcAdvances

LEMMA FleetStep ==
  ASSUME FleetInv, [FleetNext]_fltVars
  PROVE  FleetInv'
<1>a. /\ fltTarget \in Nat /\ fltRow \in Rows /\ fltPc \in Pcs
      /\ fltSockets \subseteq {"live", "ghost"}
      /\ FleetTypeOK /\ PcAdvances /\ QueuedIsOffline
  BY DEF FleetInv, FleetTypeOK
<1>b. Device \in Devices /\ Device.row = fltRow /\ Device.queued = fltQueued
      /\ Device.inbox = fltPc.inbox
  BY <1>a DEF Device, Devices, FleetTypeOK, Pcs
<1>c. Stages = {"idle", "downloading", "installing", "stuck"}  BY DEF Stages
<1>1. CASE RequestUpdate \/ UpdateAllStale \/ Sweep \/ PushFromPage
  <2>1. Becomes(AfterRequest(Device)) /\ UNCHANGED <<fltTarget, fltSockets>>
    BY <1>1 DEF RequestUpdate, UpdateAllStale, Sweep, PushFromPage
  <2>2. Sound(Device, AfterRequest(Device), fltSockets)
    BY <1>a, <1>b, RequestSound DEF QueuedIsOffline
  <2>3. fltPc' = [fltPc EXCEPT !.inbox = AfterRequest(Device).inbox, !.toReport = fltPc.toReport]
    BY <2>1, <1>a DEF Becomes, Pcs
  <2>4. fltPc.toReport \in BOOLEAN  BY <1>a DEF Pcs
  <2>5. fltRow' = AfterRequest(Device).row /\ fltQueued' = AfterRequest(Device).queued
    BY <2>1 DEF Becomes
  <2> QED BY <1>a, <1>b, <2>1, <2>2, <2>3, <2>4, <2>5, HandlerStep DEF PcAdvances
<1>2. CASE Connect
  <2> DEFINE e == Served(Device, fltRow, fltSockets')
  <2>1. Sound(Device, e, fltSockets')  BY <1>a, <1>b, ServedSound
  <2>2. fltRow' = e.row /\ fltQueued' = e.queued /\ fltTarget' = fltTarget
        /\ fltPc' = [fltPc EXCEPT !.inbox = e.inbox, !.toReport = TRUE]
        /\ fltSockets' \subseteq {"live", "ghost"}
    BY <1>2, <1>a DEF Connect
  <2> HIDE DEF e
  <2> QED BY <1>a, <1>b, <2>1, <2>2, HandlerStep DEF PcAdvances
<1>3. CASE Report
  <2> DEFINE row == Reconciled(fltRow, fltPc.v)
             d == [Device EXCEPT !.row = row]
             e == Served(d, Row("plain", fltPc.v), fltSockets)
  <2>1. fltPc.v \in Nat  BY <1>a DEF Pcs
  <2>2. row \in Rows /\ (row.kind = "plain" => row.v = fltPc.v)
    BY <1>a, <2>1, ReconciledRow
  <2>3. d \in Devices /\ d.row = row /\ d.inbox = fltPc.inbox  BY <1>b, <2>2 DEF Devices
  <2>4. Row("plain", fltPc.v) \in Rows  BY <2>1 DEF Row, Rows, Kinds
  <2>5. fltRow' = e.row /\ fltQueued' = e.queued /\ fltTarget' = fltTarget
        /\ fltPc' = [fltPc EXCEPT !.inbox = e.inbox, !.toReport = FALSE]
        /\ fltSockets' = fltSockets
    BY <1>3 DEF Report
  <2> HIDE DEF row, d
  <2>6. Sound(d, e, fltSockets)  BY <1>a, <2>3, <2>4, ServedSound
  <2> HIDE DEF e
  <2>7. d.row.kind = "plain" => d.row.v <= fltPc.v  BY <2>1, <2>2, <2>3
  <2> QED BY <1>a, <2>3, <2>5, <2>6, <2>7, HandlerStep
<1>4. CASE ConsoleUpgrade
  <2>1. fltTarget' = fltTarget + 1 /\ fltSockets' = {} /\ UNCHANGED <<fltRow, fltQueued>>
        /\ fltPc' = [fltPc EXCEPT !.toReport = FALSE, !.inbox = {}]
    BY <1>4 DEF ConsoleUpgrade
  <2>2. FleetTypeOK'
    <3>1. fltPc' \in Pcs  BY <1>a, <2>1 DEF Pcs
    <3>2. fltTarget' \in Nat /\ fltSockets' \subseteq {"live", "ghost"}  BY <1>a, <2>1
    <3> QED BY <1>a, <2>1, <3>1, <3>2 DEF FleetTypeOK
  <2>3. /\ fltPc'.v = fltPc.v /\ fltPc'.stage = fltPc.stage /\ fltPc'.msi = fltPc.msi
        /\ fltPc'.inbox = {} /\ fltPc.v \in Nat /\ fltPc.msi \in Nat
    BY <1>a, <2>1 DEF Pcs
  <2>4. PcAdvances'  BY <1>a, <2>1, <2>3 DEF PcAdvances
  <2>5. QueuedIsOffline'  BY <2>1 DEF QueuedIsOffline
  <2> QED BY <2>2, <2>4, <2>5 DEF FleetInv
<1>5. CASE MarkerAges
  <2>1. fltRow' = [fltRow EXCEPT !.old = TRUE] /\ fltRow.kind = "pending"
        /\ UNCHANGED <<fltTarget, fltQueued, fltSockets, fltPc>>
    BY <1>5 DEF MarkerAges
  <2>2. fltRow' \in Rows /\ fltRow'.kind = "pending"  BY <1>a, <2>1 DEF Rows
  <2>3. FleetTypeOK'  BY <1>a, <2>1, <2>2 DEF FleetTypeOK
  <2>4. PcAdvances'  BY <1>a, <2>1, <2>2 DEF PcAdvances
  <2>5. QueuedIsOffline'  BY <1>a, <2>1 DEF QueuedIsOffline
  <2> QED BY <2>3, <2>4, <2>5 DEF FleetInv
<1>6. CASE GhostDies
  <2>1. fltSockets' = fltSockets \ {"ghost"} /\ UNCHANGED <<fltTarget, fltRow, fltQueued, fltPc>>
    BY <1>6 DEF GhostDies
  <2> QED BY <1>a, <2>1 DEF FleetInv, FleetTypeOK, QueuedIsOffline, PcAdvances
<1>7. CASE PcReceives
  <2>1. PICK v \in fltPc.inbox :
          fltPc' = [fltPc EXCEPT
              !.inbox = @ \ {v},
              !.stage = IF v > fltPc.v /\ @ = "idle" THEN "downloading" ELSE @]
    BY <1>7 DEF PcReceives
  <2>2. UNCHANGED <<fltTarget, fltRow, fltQueued, fltSockets>>  BY <1>7 DEF PcReceives
  <2>3. fltPc' \in Pcs /\ fltPc'.v = fltPc.v /\ fltPc'.msi = fltPc.msi
        /\ fltPc'.inbox \subseteq fltPc.inbox
        /\ (fltPc'.stage = "installing" => fltPc.stage = "installing")
    BY <1>a, <1>c, <2>1 DEF Pcs
  <2>4. fltPc.v <= fltPc'.v /\ fltPc'.v <= fltTarget  BY <1>a, <2>3 DEF Pcs, PcAdvances
  <2> QED BY <1>a, <2>2, <2>3, <2>4, PcStep DEF PcAdvances
<1>8. CASE PcDownloads
  <2>1. fltPc' = [fltPc EXCEPT !.stage = "installing", !.msi = fltTarget]
        /\ UNCHANGED <<fltTarget, fltRow, fltQueued, fltSockets>>
    BY <1>8 DEF PcDownloads
  <2>2. fltPc' \in Pcs /\ fltPc'.v = fltPc.v /\ fltPc'.msi = fltTarget
        /\ fltPc'.inbox = fltPc.inbox
    BY <1>a, <1>c, <2>1 DEF Pcs
  <2>3. fltPc.v <= fltPc'.v /\ fltPc'.v <= fltTarget /\ fltTarget <= fltTarget
    BY <1>a, <2>2 DEF Pcs, PcAdvances
  <2> QED BY <1>a, <2>1, <2>2, <2>3, PcStep DEF PcAdvances
<1>9. ASSUME UNCHANGED <<fltTarget, fltRow, fltQueued>>,
             fltSockets' \in SocketsWithout \/ fltSockets' \in {fltSockets, fltSockets \ {"live"}},
             fltPc' = Offline \/ fltPc' = Restarted
             \/ fltPc' = [fltPc EXCEPT !.stage = "idle", !.msi = 0]
             \/ fltPc' = [fltPc EXCEPT !.stage = "stuck"]
      PROVE  FleetInv'
  <2>1. fltSockets' \subseteq {"live", "ghost"} /\ (fltSockets = {} => fltSockets' = {})
    BY <1>a, <1>9 DEF SocketsWithout
  <2>2. fltPc' \in Pcs /\ fltPc'.v = fltPc.v /\ fltPc'.inbox \subseteq fltPc.inbox
        /\ (fltPc'.stage = "installing" => fltPc.stage = "installing" /\ fltPc'.msi = fltPc.msi)
    <3>1. CASE fltPc' = Offline  BY <1>a, <3>1 DEF Pcs, Offline
    <3>2. CASE fltPc' = Restarted  BY <1>a, <1>c, <3>2 DEF Pcs, Offline, Restarted
    <3>3. CASE fltPc' = [fltPc EXCEPT !.stage = "idle", !.msi = 0]  BY <1>a, <1>c, <3>3 DEF Pcs
    <3>4. CASE fltPc' = [fltPc EXCEPT !.stage = "stuck"]  BY <1>a, <1>c, <3>4 DEF Pcs
    <3> QED BY <1>9, <3>1, <3>2, <3>3, <3>4
  <2>3. fltPc.v <= fltPc'.v /\ fltPc'.v <= fltTarget  BY <1>a, <2>2 DEF Pcs, PcAdvances
  <2> QED BY <1>a, <1>9, <2>1, <2>2, <2>3, PcStep DEF PcAdvances
<1>10. CASE SocketDrops  BY <1>9, <1>10 DEF SocketDrops
<1>11. CASE DownloadFails  BY <1>9, <1>11 DEF DownloadFails
<1>12. CASE InstallFails  BY <1>9, <1>12 DEF InstallFails
<1>13. CASE HungPcRestarts  BY <1>9, <1>13 DEF HungPcRestarts
<1>14. CASE PcRestarts  BY <1>9, <1>14 DEF PcRestarts
<1>15. CASE InstallOk
  <2>1. fltPc' = [Restarted EXCEPT !.v = fltPc.msi] /\ fltPc.stage = "installing"
        /\ fltSockets' = fltSockets \ {"live"} /\ UNCHANGED <<fltTarget, fltRow, fltQueued>>
    BY <1>15 DEF InstallOk
  <2>2. fltPc' \in Pcs /\ fltPc'.v = fltPc.msi /\ fltPc'.inbox = {} /\ fltPc'.stage = "idle"
    BY <1>a, <1>c, <2>1 DEF Pcs, Offline, Restarted
  <2>3. fltPc.v <= fltPc'.v /\ fltPc'.v <= fltTarget  BY <1>a, <2>1, <2>2 DEF PcAdvances
  <2> QED BY <1>a, <2>1, <2>2, <2>3, PcStep
<1>16. CASE PolicyTurns \/ PageLoads \/ UNCHANGED fltVars
  <2>1. UNCHANGED <<fltTarget, fltRow, fltQueued, fltSockets, fltPc>>
    BY <1>16 DEF PolicyTurns, PageLoads, fltVars
  <2> QED BY <1>a, <2>1 DEF FleetInv, FleetTypeOK, QueuedIsOffline, PcAdvances
<1> QED BY <1>1, <1>2, <1>3, <1>4, <1>5, <1>6, <1>7, <1>8, <1>10, <1>11, <1>12, <1>13, <1>14,
           <1>15, <1>16 DEF FleetNext

LEMMA FleetInvariant == FleetSpec => []FleetInv
<1>1. FleetInit => FleetInv
  <2> SUFFICES ASSUME FleetInit PROVE FleetInv  OBVIOUS
  <2>1. fltTarget \in Nat /\ 1 <= fltTarget
    BY FleetBounds DEF FleetBounds, FleetInit, Clients
  <2> QED BY <2>1 DEF FleetInit, FleetInv, FleetTypeOK, QueuedIsOffline, PcAdvances, Unknown, Row,
                      Rows, Kinds, Pcs, Stages
<1> QED BY <1>1, FleetStep, PTL DEF FleetSpec

\* The row of a device tells what is so, through every interleaving of clicks,
\* sweeps, reconnections, half-open sockets, failed packages and console upgrades:
\* nothing waits in the queue of a device that listens, and a PC that the page
\* calls current runs the console's client or a later one.
THEOREM RowIsTruthful == FleetSpec => []RowTellsTruth
<1>1. ASSUME FleetInv  PROVE CurrentIsCurrent
  <2> SUFFICES ASSUME Pill = "current", fltRow.kind # "unknown"
               PROVE  fltPc.v >= fltTarget
    BY DEF CurrentIsCurrent
  <2>1. fltRow \in Rows /\ fltPc \in Pcs /\ fltTarget \in Nat  BY <1>1 DEF FleetInv, FleetTypeOK
  <2>2. fltRow.kind = "plain"
    <3>1. CASE fltRow.kind = "pending"  BY <3>1 DEF Pill, PillOf
    <3>2. CASE fltRow.kind = "stale"  BY <3>2 DEF Pill, PillOf
    <3> QED BY <2>1, <3>1, <3>2 DEF Rows, Kinds
  <2>3. ~(fltTarget > fltRow.v)  BY <2>2 DEF Pill, PillOf
  <2>4. fltRow.v <= fltPc.v  BY <1>1, <2>2 DEF FleetInv, PcAdvances
  <2> QED BY <2>1, <2>3, <2>4 DEF Rows, Pcs
<1>2. FleetInv => RowTellsTruth  BY <1>1 DEF FleetInv, RowTellsTruth
<1> QED BY <1>2, FleetInvariant, PTL

-----------------------------------------------------------------------------
(* No push twice.                                                          *)

LEMMA NoSecondPush ==
  ASSUME FleetInv, [FleetNext]_fltVars, fltRow.kind = "pending", fltRow.v = fltTarget
  PROVE  fltTarget \notin fltPc'.inbox \ fltPc.inbox
<1>a. fltPc \in Pcs /\ fltRow \in Rows /\ FleetTypeOK /\ QueuedIsOffline
  BY DEF FleetInv, FleetTypeOK
<1>b. Device \in Devices /\ Device.row = fltRow /\ Device.queued = fltQueued
      /\ Device.inbox = fltPc.inbox
  BY <1>a DEF Device, Devices, FleetTypeOK, Pcs
<1>c. AlreadyOn(fltRow)  BY DEF AlreadyOn
<1>1. CASE RequestUpdate \/ UpdateAllStale \/ Sweep \/ PushFromPage
  <2>1. fltPc' = [fltPc EXCEPT !.inbox = AfterRequest(Device).inbox]
    BY <1>1 DEF RequestUpdate, UpdateAllStale, Sweep, PushFromPage, Becomes
  <2>2. AfterRequest(Device) = Device
    BY <1>a, <1>b, <1>c, RequestSound DEF QueuedIsOffline
  <2>3. fltPc'.inbox = fltPc.inbox  BY <1>a, <1>b, <2>1, <2>2 DEF Pcs
  <2> QED BY <2>3
<1>2. CASE Connect
  <2>1. fltPc' = [fltPc EXCEPT !.inbox = Served(Device, fltRow, fltSockets').inbox, !.toReport = TRUE]
    BY <1>2 DEF Connect
  <2>2. Served(Device, fltRow, fltSockets').inbox = fltPc.inbox  BY <1>a, <1>b, <1>c, ServedSound
  <2>3. fltPc'.inbox = fltPc.inbox  BY <1>a, <2>1, <2>2 DEF Pcs
  <2> QED BY <2>3
<1>3. CASE Report
  <2> DEFINE d == [Device EXCEPT !.row = Reconciled(fltRow, fltPc.v)]
             row == Row("plain", fltPc.v)
  <2>1. fltPc.v \in Nat /\ row \in Rows  BY <1>a DEF Pcs, Row, Rows, Kinds
  <2>2. Reconciled(fltRow, fltPc.v) \in Rows  BY <1>a, <2>1, ReconciledRow
  <2>3. d \in Devices /\ d.queued = FALSE /\ d.inbox = fltPc.inbox
    BY <1>3, <1>a, <1>b, <2>2 DEF Report, QueuedIsOffline, Devices
  <2>4. fltPc' = [fltPc EXCEPT !.inbox = Served(d, row, fltSockets).inbox, !.toReport = FALSE]
    BY <1>3 DEF Report
  <2> HIDE DEF d, row
  <2>5. Served(d, row, fltSockets) = d  BY <1>a, <2>1, <2>3, ServedSound
  <2>6. fltPc'.inbox = fltPc.inbox  BY <1>a, <2>3, <2>4, <2>5 DEF Pcs
  <2> QED BY <2>6
<1>4. CASE PcReceives
  <2>1. fltPc'.inbox \subseteq fltPc.inbox  BY <1>4, <1>a DEF PcReceives, Pcs
  <2> QED BY <2>1
<1>5. CASE \/ SocketDrops \/ GhostDies \/ PageLoads \/ ConsoleUpgrade \/ MarkerAges \/ PolicyTurns
           \/ PcDownloads \/ DownloadFails \/ InstallOk \/ InstallFails
           \/ HungPcRestarts \/ PcRestarts \/ UNCHANGED fltVars
  <2>1. fltPc'.inbox \in {fltPc.inbox, {}}
    BY <1>5, <1>a DEF SocketDrops, GhostDies, PageLoads, ConsoleUpgrade, MarkerAges, PolicyTurns,
       PcDownloads, DownloadFails, InstallOk, InstallFails, HungPcRestarts, PcRestarts, Offline,
       Restarted, fltVars, Pcs
  <2> QED BY <2>1
<1> QED BY <1>1, <1>2, <1>3, <1>4, <1>5 DEF FleetNext

\* A device that is marked for this very version is not pushed it again, by no
\* button, no sweep, no reconnection and no report.
THEOREM PushedOnce == FleetSpec => NoRepush
<1>1. FleetInv /\ [FleetNext]_fltVars
        => [fltRow.kind = "pending" /\ fltRow.v = fltTarget
              => fltTarget \notin fltPc'.inbox \ fltPc.inbox]_fltVars
  BY NoSecondPush
<1> QED BY <1>1, FleetInvariant, PTL DEF FleetSpec, NoRepush
=============================================================================
