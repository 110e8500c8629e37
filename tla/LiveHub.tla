------------------------------ MODULE LiveHub ------------------------------
(***************************************************************************)
(* What the console knows of a device at this moment and who hears of it:  *)
(* the sockets and the tray's heartbeat (realtime/bus.ts, agent-hub.ts),   *)
(* the mode of the follow-up to Windows' prompts, pushed to the PC         *)
(* (notify.ts) and repeated with every heartbeat, and the stream of events *)
(* on which open pages refresh themselves (api/events, live-refresh.tsx).  *)
(* One device and one page; devices do not touch each other, pages only    *)
(* listen.  A page refreshes on any event, so of the topics and of the 50  *)
(* events kept of each only matters whether there is one.                  *)
(***************************************************************************)
EXTENDS Naturals, Sequences

CONSTANTS Sockets,      \* identities of the device's connections
          MaxUpsets     \* BOUND: drops, restarts, changes of mode, trays

ASSUME HubBounds == MaxUpsets \in Nat

VARIABLES
    hubSockets,  \* the device's registered sockets, the half-open ones too
    hubBeat,     \* hub().ui of the device: none, fresh (5 minutes), old
    hubMode,     \* elevation_settings.uac_mode
    hubReplay,   \* the replay buffer holds an event
    hubPc,       \* the PC: its socket, tray, offered mode, an answer set aside
    hubWire,     \* modes on their way to the PC, pushed or answered
    hubPage,     \* a page: its EventSource, an event on the way, fetch, what it shows
    hubUpsets

hubVars == <<hubSockets, hubBeat, hubMode, hubReplay, hubPc, hubWire, hubPage, hubUpsets>>

Modes == {"prompt", "collect"}
NoSocket == "none"
Aside == "no answer"
PcLinked == hubPc.socket # NoSocket

\* What a page that is drawn now shows of the device and of the setting; not whether
\* the tray runs, for a heartbeat announces nothing.
Picture == [online |-> hubSockets # {}, mode |-> hubMode]
NoFetch == "no fetch"
Asked == "asked"

HubInit ==
    /\ hubSockets = {} /\ hubBeat = "none" /\ hubMode = "prompt" /\ hubReplay = FALSE
    /\ hubPc = [socket |-> NoSocket, tray |-> FALSE, offer |-> "prompt", aside |-> Aside]
    /\ hubWire = <<>>
    /\ hubPage = [source |-> "connecting", event |-> FALSE, again |-> FALSE,
                  fetch |-> NoFetch, read |-> Picture, shows |-> Picture]
    /\ hubUpsets = 0

Upset == hubUpsets < MaxUpsets /\ hubUpsets' = hubUpsets + 1

----------------------------------------------------------------------------
(* The bus                                                                 *)

\* publishConsole: into the buffer and to every listener
PublishConsole ==
    /\ hubReplay' = TRUE
    /\ hubPage' = [hubPage EXCEPT !.event = @ \/ hubPage.source = "open"]

\* publishDevice of a mode: to every ready socket; what a half-open one takes is lost.
PushMode(mode) == hubWire' = IF PcLinked THEN Append(hubWire, [mode |-> mode, via |-> "push"])
                             ELSE hubWire

----------------------------------------------------------------------------
(* The device's sockets                                                    *)

\* accept: registerTrackedDeviceSocket, with its first push, and the announcement
DeviceConnects(s) ==
    /\ ~PcLinked /\ s \notin hubSockets
    /\ hubSockets' = hubSockets \cup {s}
    /\ hubPc' = [hubPc EXCEPT !.socket = s]
    /\ hubWire' = <<[mode |-> hubMode, via |-> "push"]>>
    /\ PublishConsole /\ UNCHANGED <<hubBeat, hubMode, hubUpsets>>

\* The PC or its network goes without a word.
PcVanishes ==
    /\ Upset /\ PcLinked
    /\ hubPc' = [hubPc EXCEPT !.socket = NoSocket, !.aside = Aside] /\ hubWire' = <<>>
    /\ UNCHANGED <<hubSockets, hubBeat, hubMode, hubReplay, hubPage>>

\* MUTANT: any closing socket takes the device's whole entry along.
UnregisterAll(s) == hubSockets' = {}

\* unregister, the last one of a device with its entry
Unregister(s) == hubSockets' = hubSockets \ {s}

\* ws.on("close"), of a socket that is half-open, or of the PC's own.
SocketCloses(s) ==
    /\ s \in hubSockets /\ Unregister(s) /\ hubBeat' = "none"
    /\ IF s = hubPc.socket
       THEN /\ Upset /\ hubWire' = <<>>
            /\ hubPc' = [hubPc EXCEPT !.socket = NoSocket, !.aside = Aside]
       ELSE UNCHANGED <<hubPc, hubWire, hubUpsets>>
    /\ PublishConsole /\ UNCHANGED hubMode

----------------------------------------------------------------------------
(* Heartbeat and mode                                                      *)

\* A minute's beat and noteClientStatus; no event is published.
Beat ==
    /\ PcLinked /\ hubPc.socket \in hubSockets /\ hubPc.tray
    /\ hubBeat' = "fresh"
    /\ hubWire' = Append(hubWire, [mode |-> hubMode, via |-> "answer"])
    /\ (\A i \in DOMAIN hubWire : hubWire[i].via # "answer") /\ hubPc.aside = Aside
    /\ UNCHANGED <<hubSockets, hubMode, hubReplay, hubPc, hubPage, hubUpsets>>

\* Five minutes without a beat, ten: five times the interval passes only when
\* no beat comes.
BeatAges ==
    /\ hubBeat # "none" /\ (~hubPc.tray \/ ~PcLinked)
    /\ hubBeat' = IF hubBeat = "fresh" THEN "old" ELSE "none"
    /\ UNCHANGED <<hubSockets, hubMode, hubReplay, hubPc, hubWire, hubPage, hubUpsets>>

\* uiStatusFor
UiAlive == hubSockets # {} /\ hubBeat = "fresh"

\* HandleIncoming: a push is applied by the receive loop; an answer goes to the
\* pipe handler that awaits it, which may come to apply it later.
PcHears ==
    /\ hubWire # <<>> /\ hubWire' = Tail(hubWire)
    /\ LET m == Head(hubWire) IN
         hubPc' = IF m.via = "push" THEN [hubPc EXCEPT !.offer = m.mode]
                  ELSE [hubPc EXCEPT !.aside = m.mode]
    /\ UNCHANGED <<hubSockets, hubBeat, hubMode, hubReplay, hubPage, hubUpsets>>

NoteUacOfferFromRpc ==
    /\ hubPc.aside # Aside
    /\ hubPc' = [hubPc EXCEPT !.offer = hubPc.aside, !.aside = Aside]
    /\ UNCHANGED <<hubSockets, hubBeat, hubMode, hubReplay, hubWire, hubPage, hubUpsets>>

\* PUT /api/elevation-settings: saved, announced, pushed to the connected devices
SetMode(mode) ==
    /\ Upset /\ mode # hubMode /\ hubMode' = mode
    /\ PublishConsole /\ PushMode(mode) /\ UNCHANGED <<hubSockets, hubBeat, hubPc>>

\* Anything else of the console that is announced: another device, a request
AnythingElse ==
    /\ PublishConsole
    /\ UNCHANGED <<hubSockets, hubBeat, hubMode, hubPc, hubWire, hubUpsets>>

TrayStartsOrEnds ==
    /\ Upset /\ hubPc' = [hubPc EXCEPT !.tray = ~@]
    /\ UNCHANGED <<hubSockets, hubBeat, hubMode, hubReplay, hubWire, hubPage>>

\* Everything but the setting is in memory.
ConsoleRestarts ==
    /\ Upset /\ hubSockets' = {} /\ hubBeat' = "none" /\ hubReplay' = FALSE /\ hubWire' = <<>>
    /\ hubPc' = [hubPc EXCEPT !.socket = NoSocket, !.aside = Aside]
    /\ hubPage' = [hubPage EXCEPT !.source = "connecting", !.event = FALSE]
    /\ UNCHANGED hubMode

----------------------------------------------------------------------------
(* The page                                                                *)
Page(page) ==
    /\ hubPage' = page
    /\ UNCHANGED <<hubSockets, hubBeat, hubMode, hubReplay, hubPc, hubWire>>

\* MUTANT: only what is published from now on.
SourceOpensUnreplayed ==
    /\ hubPage.source = "connecting"
    /\ Page([hubPage EXCEPT !.source = "open"]) /\ UNCHANGED hubUpsets

\* GET /api/events: replay, then subscribe, with nothing in between
SourceOpens ==
    /\ hubPage.source = "connecting"
    /\ Page([hubPage EXCEPT !.source = "open", !.event = hubReplay]) /\ UNCHANGED hubUpsets

\* The stream is cut, with what was on it; the browser connects again.
SourceDrops ==
    /\ Upset /\ hubPage.source = "open"
    /\ Page([hubPage EXCEPT !.source = "connecting", !.event = FALSE])

\* mutate: router.refresh, after the one that is under way
PageHears ==
    /\ hubPage.event
    /\ Page([hubPage EXCEPT !.event = FALSE,
                            !.fetch = IF @ = NoFetch THEN Asked ELSE @,
                            !.again = hubPage.fetch # NoFetch])
    /\ UNCHANGED hubUpsets

PageIsDrawn ==    \* by the server
    /\ hubPage.fetch = Asked
    /\ Page([hubPage EXCEPT !.fetch = "drawn", !.read = Picture]) /\ UNCHANGED hubUpsets

PageArrives ==
    /\ hubPage.fetch = "drawn"
    /\ Page([hubPage EXCEPT !.shows = hubPage.read, !.again = FALSE,
                            !.fetch = IF hubPage.again THEN Asked ELSE NoFetch])
    /\ UNCHANGED hubUpsets

HubNext ==
    \/ \E s \in Sockets : DeviceConnects(s) \/ SocketCloses(s)
    \/ PcVanishes \/ Beat \/ BeatAges \/ PcHears \/ NoteUacOfferFromRpc
    \/ (\E m \in Modes : SetMode(m)) \/ TrayStartsOrEnds \/ AnythingElse \/ ConsoleRestarts
    \/ SourceOpens \/ SourceDrops \/ PageHears \/ PageIsDrawn \/ PageArrives

\* While the PC is connected, its threads run and the tray's timer fires; the
\* browser reconnects and completes what it asked for.  A PC may stay away.
HubFairness ==
    /\ WF_hubVars(Beat) /\ WF_hubVars(PcHears)
    /\ WF_hubVars(NoteUacOfferFromRpc) /\ WF_hubVars(SourceOpens) /\ WF_hubVars(PageHears)
    /\ WF_hubVars(PageIsDrawn) /\ WF_hubVars(PageArrives)

HubSpec == HubInit /\ [][HubNext]_hubVars /\ HubFairness

----------------------------------------------------------------------------
\* What the page shows, or is about to.
Coming == IF hubPage.fetch = "drawn" THEN hubPage.read ELSE hubPage.shows

\* No page is left behind for good: one that neither shows nor is about to show what
\* there is has an event on the way, a drawing still to come, or a stream to open
\* whose replay will tell it; and the socket a PC speaks through is one the console
\* pushes to, whatever closed since.
PageWillHear ==
    /\ hubReplay => \/ Coming = Picture
                    \/ hubPage.event \/ hubPage.source = "connecting"
                    \/ hubPage.again \/ hubPage.fetch = Asked
    /\ PcLinked => hubPc.socket \in hubSockets

\* Open pages "catch up on anything missed while disconnected" (api/events):
\* once things settle, a page shows the devices and settings as they are, through
\* dropped streams, refreshes under way and half-open sockets.  The excuse: the
\* console was restarted, which empties the buffer, and nothing was announced since.
PageCatchesUp == <>[](hubReplay => hubPage.shows = Picture)

\* While a PC is connected and its tray runs, the console comes to say so and the
\* broker, which the tray asks, to have the mode that is set, though an old socket of the device closes
\* after the new one opened and takes the heartbeat with it, and an answer that
\* was read before a change may be applied after it.
TrayIsServed ==
    <>[](PcLinked /\ hubPc.tray) => <>[](UiAlive /\ hubPc.offer = hubMode)
=============================================================================
