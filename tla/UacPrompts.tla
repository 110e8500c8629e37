----------------------------- MODULE UacPrompts -----------------------------
(***************************************************************************)
(* What the console knows of Windows' own elevation prompts: the broker    *)
(* watches consent.exe (ConsentBrokerWatch.cs), so does the tray           *)
(* (ElevationPrompt.cs), and their reports travel by socket or by HTTP     *)
(* (ApiClient.cs) to one row per user, device and program (uac-prompt.ts,  *)
(* db/uac-prompts.ts).  One user, whom the directory knows, and one        *)
(* program: rows do not touch each other.  Which program a prompt is for,  *)
(* and how it ended, are guesses of heuristics that are not modelled: the  *)
(* first is right, the second free.                                        *)
(***************************************************************************)
EXTENDS Naturals, Sequences, FiniteSets

CONSTANTS Prompts,      \* numbers of the consent.exe processes there will be
          MaxMishaps    \* BOUND: drops, lost answers, silences of two minutes, trays

ASSUME UacBounds == IsFiniteSet(Prompts) /\ Prompts \subseteq Nat /\ MaxMishaps \in Nat

VARIABLES
    uacPrompt,   \* of each process: not yet, open, closed
    uacLive,     \* the broker's Live: of each process unknown, tried, reported
    uacTick,     \* the processes its tick has listed and not looked at yet
    uacCall,     \* the report its tick awaits: about whom, over what, answered
    uacClosers,  \* prompts whose NoteClosed runs
    uacTray,     \* the tray of the session: on, prompts it saw and not told of, busy with a request
    uacWire,     \* reports on the socket, or NotLinked
    uacHttp,     \* the same reports by HTTP, which nothing keeps in order
    uacRow,      \* the row: count (0: none), last_outcome, last_at two minutes ago
    uacFiled,    \* requests has the canceled row of it
    uacHeard,    \* history: whose seen and whose closing was handled, whether more was heard
                 \* of a prompt after its closing, and what was counted after a silence
    uacMishaps

uacVars == <<uacPrompt, uacLive, uacTick, uacCall, uacClosers, uacTray, uacWire, uacHttp,
             uacRow, uacFiled, uacHeard, uacMishaps>>
brokerVars == <<uacLive, uacTick, uacCall, uacClosers>>
telemetryVars == <<uacRow, uacFiled, uacHeard>>

ReportOf(kind, who, verdict) == [kind |-> kind, who |-> who, verdict |-> verdict]
NotLinked == <<ReportOf("no socket", {}, "")>>
SocketUp == uacWire # NotLinked
NoReport == [who |-> {}, by |-> "none"]
Verdicts == {"approved", "escaped"}
Open == {p \in Prompts : uacPrompt[p] = "open"}

UacInit ==
    /\ uacPrompt = [p \in Prompts |-> "not yet"] /\ uacLive = [p \in Prompts |-> "unknown"]
    /\ uacTick = {} /\ uacCall = NoReport /\ uacClosers = {}
    /\ uacTray = [on |-> FALSE, saw |-> {}, busy |-> FALSE]
    /\ uacWire = <<>> /\ uacHttp = {}
    /\ uacRow = [count |-> 0, outcome |-> "prompted", old |-> FALSE]
    /\ uacFiled = FALSE
    /\ uacHeard = [seen |-> {}, closed |-> {}, late |-> FALSE, silent |-> 0]
    /\ uacMishaps = 0

Mishap == uacMishaps < MaxMishaps /\ uacMishaps' = uacMishaps + 1

----------------------------------------------------------------------------
(* The console: handleUacSeen and handleUacCanceled                        *)

\* MUTANT: every report of a prompt counts.
ShouldCountEach(row) == row.count > 0

\* shouldCountAppearance, of a row that exists
ShouldCount(row) == row.outcome # "prompted" \/ row.old

UpsertUacPrompt(outcome, phase) ==
    uacRow' = [count |-> IF uacRow.count = 0 THEN 1
                         ELSE IF phase = "seen" /\ ShouldCount(uacRow) THEN uacRow.count + 1
                         ELSE uacRow.count,
               outcome |-> outcome, old |-> FALSE]

HandleUacSeen(p) ==
    /\ UpsertUacPrompt("prompted", "seen") /\ UNCHANGED uacFiled
    /\ uacHeard' = [uacHeard EXCEPT !.seen = @ \cup {p},
          !.late = @ \/ p \in uacHeard.closed, !.silent = IF uacRow.old THEN @ + 1 ELSE @]

\* closings: the prompts a report tells the end of
HandleUacCanceled(closings, verdict) ==
    /\ UpsertUacPrompt(verdict, "closed")
    /\ uacFiled' = (uacFiled \/ verdict # "approved")
    /\ uacHeard' = [uacHeard EXCEPT !.closed = @ \cup closings,
          !.late = @ \/ closings \cap uacHeard.closed # {}]

\* One report off the socket.  The answer to a seen goes to who awaits it.
HandleAgentRpc ==
    /\ SocketUp /\ uacWire # <<>>
    /\ LET m == Head(uacWire) IN
         IF m.kind = "seen"
         THEN /\ \A p \in m.who : HandleUacSeen(p)
              /\ uacCall' = IF uacCall = [who |-> m.who, by |-> "socket"]
                            THEN [uacCall EXCEPT !.by = "answered"] ELSE uacCall
         ELSE HandleUacCanceled(m.who, m.verdict) /\ UNCHANGED uacCall
    /\ uacWire' = Tail(uacWire)
    /\ UNCHANGED <<uacPrompt, uacLive, uacTick, uacClosers, uacTray, uacHttp, uacMishaps>>

----------------------------------------------------------------------------
(* The broker's watch                                                      *)

\* WatchTick lists the processes; NoteOpen is then called for each, one at a time.
WatchTick ==
    /\ uacTick = {} /\ uacCall = NoReport /\ uacTick' = Open
    /\ UNCHANGED <<uacPrompt, uacLive, uacCall, uacClosers, uacTray, uacWire, uacHttp,
                   telemetryVars, uacMishaps>>

\* ReportUacSeenAsync begins: by socket when there is one, else by HTTP.
NoteOpen(p) ==
    /\ p \in uacTick /\ uacCall = NoReport /\ uacLive[p] # "reported"
    /\ uacLive' = [uacLive EXCEPT ![p] = "tried"]
    /\ IF SocketUp
       THEN /\ uacWire' = Append(uacWire, ReportOf("seen", {p}, ""))
            /\ uacCall' = [who |-> {p}, by |-> "socket"] /\ UNCHANGED uacHttp
       ELSE /\ uacHttp' = uacHttp \cup {p}
            /\ uacCall' = [who |-> {p}, by |-> "http"] /\ UNCHANGED uacWire
    /\ UNCHANGED <<uacPrompt, uacTick, uacClosers, uacTray, telemetryVars, uacMishaps>>

\* Nothing to do: reported, tried less than two seconds ago, or nobody is signed in.
NoteOpenSkips(p) ==
    /\ p \in uacTick /\ uacCall = NoReport /\ uacTick' = uacTick \ {p}
    /\ UNCHANGED <<uacPrompt, uacLive, uacCall, uacClosers, uacTray, uacWire, uacHttp,
                   telemetryVars, uacMishaps>>

\* The answer is there in time, or the call ends without one and will be made again.
NoteOpenEnds(recorded) ==
    /\ uacCall.who # {} /\ uacCall' = NoReport /\ uacTick' = uacTick \ uacCall.who
    /\ uacLive' = [p \in Prompts |-> IF p \notin uacCall.who THEN uacLive[p]
                                     ELSE IF recorded THEN "reported" ELSE "tried"]
SocketAnswers ==
    /\ uacCall.by = "answered" /\ NoteOpenEnds(TRUE)
    /\ UNCHANGED <<uacPrompt, uacClosers, uacTray, uacWire, uacHttp, telemetryVars, uacMishaps>>

\* Four seconds without an answer: the same report once more, by HTTP.
SocketTimesOut ==
    /\ Mishap /\ uacCall.by \in {"socket", "answered"}
    /\ uacCall' = [uacCall EXCEPT !.by = "http"] /\ uacHttp' = uacHttp \cup uacCall.who
    /\ UNCHANGED <<uacPrompt, uacLive, uacTick, uacClosers, uacTray, uacWire, telemetryVars>>

\* A request arrives, and its answer; or its answer is lost, and SendAsync repeats it.
HttpArrives(p) ==
    /\ p \in uacHttp /\ uacHttp' = uacHttp \ {p} /\ HandleUacSeen(p)
    /\ IF uacCall = [who |-> {p}, by |-> "http"] THEN NoteOpenEnds(TRUE)
       ELSE UNCHANGED <<uacLive, uacTick, uacCall>>
    /\ UNCHANGED <<uacPrompt, uacClosers, uacTray, uacWire, uacMishaps>>
HttpAnswerLost(p) ==
    /\ Mishap /\ uacCall = [who |-> {p}, by |-> "http"] /\ p \in uacHttp
    /\ HandleUacSeen(p)
    /\ UNCHANGED <<uacPrompt, brokerVars, uacTray, uacWire, uacHttp>>

\* After the last attempt; one of them may still arrive, late.
HttpGivesUp(late) ==
    /\ Mishap /\ uacCall.by = "http" /\ NoteOpenEnds(FALSE)
    /\ uacHttp' = IF late THEN uacHttp ELSE uacHttp \ uacCall.who
    /\ UNCHANGED <<uacPrompt, uacClosers, uacTray, uacWire, telemetryVars>>

\* The end of a tick: who is in Live and was not listed has closed.
NoteGone(p) ==
    /\ uacTick = {} /\ uacCall = NoReport /\ p \notin Open /\ uacLive[p] # "unknown"
    /\ uacLive' = [uacLive EXCEPT ![p] = "unknown"] /\ uacClosers' = uacClosers \cup {p}
    /\ UNCHANGED <<uacPrompt, uacTick, uacCall, uacTray, uacWire, uacHttp, telemetryVars,
                   uacMishaps>>

\* ReportUacCanceledAsync: by socket or not at all.
ReportClosed(closings, verdict) ==
    uacWire' = IF SocketUp THEN Append(uacWire, ReportOf("closed", closings, verdict))
               ELSE uacWire

\* A tray in the session would classify and report by itself.
NoteClosed(p, verdict) ==
    /\ p \in uacClosers /\ uacClosers' = uacClosers \ {p}
    /\ IF uacTray.on THEN UNCHANGED uacWire ELSE ReportClosed({p}, verdict)
    /\ UNCHANGED <<uacPrompt, uacLive, uacTick, uacCall, uacTray, uacHttp, telemetryVars,
                   uacMishaps>>

----------------------------------------------------------------------------
(* The tray: it knows that prompts were there and that none is left        *)
TrayTick(verdict) ==
    /\ uacTray.on /\ ~uacTray.busy
    /\ IF Open # {} THEN uacTray' = [uacTray EXCEPT !.saw = @ \cup Open] /\ UNCHANGED uacWire
       ELSE /\ uacTray.saw # {} /\ ReportClosed(uacTray.saw, verdict)
            /\ uacTray' = [uacTray EXCEPT !.saw = {}, !.busy = verdict # "approved"]
    /\ UNCHANGED <<uacPrompt, brokerVars, uacHttp, telemetryVars, uacMishaps>>

\* The review window and a request that waits; while they last, nothing ticks.
TrayRequests(busy) ==
    /\ uacTray.on /\ uacTray.busy # busy /\ uacTray' = [uacTray EXCEPT !.busy = busy]
    /\ UNCHANGED <<uacPrompt, brokerVars, uacWire, uacHttp, telemetryVars, uacMishaps>>

TrayComesOrGoes ==
    /\ Mishap /\ uacTray' = [on |-> ~uacTray.on, saw |-> {}, busy |-> FALSE]
    /\ UNCHANGED <<uacPrompt, brokerVars, uacWire, uacHttp, telemetryVars>>

----------------------------------------------------------------------------
(* Windows and the network                                                 *)
Appear(p) ==    \* numbered as they come
    /\ uacPrompt[p] = "not yet" /\ \A q \in Prompts : q < p => uacPrompt[q] # "not yet"
    /\ uacPrompt' = [uacPrompt EXCEPT ![p] = "open"]
    /\ UNCHANGED <<brokerVars, uacTray, uacWire, uacHttp, telemetryVars, uacMishaps>>
Close(p) ==
    /\ uacPrompt[p] = "open" /\ uacPrompt' = [uacPrompt EXCEPT ![p] = "closed"]
    /\ UNCHANGED <<brokerVars, uacTray, uacWire, uacHttp, telemetryVars, uacMishaps>>

\* What was on the socket is lost; FailPending ends the call, which goes on by HTTP.
Drop ==
    /\ Mishap /\ SocketUp /\ uacWire' = NotLinked
    /\ IF uacCall.by \in {"socket", "answered"}
       THEN uacCall' = [uacCall EXCEPT !.by = "http"] /\ uacHttp' = uacHttp \cup uacCall.who
       ELSE UNCHANGED <<uacCall, uacHttp>>
    /\ UNCHANGED <<uacPrompt, uacLive, uacTick, uacClosers, uacTray, telemetryVars>>
Relink ==
    /\ ~SocketUp /\ uacWire' = <<>>
    /\ UNCHANGED <<uacPrompt, brokerVars, uacTray, uacHttp, telemetryVars, uacMishaps>>

\* Two minutes in which nothing is heard of the program
Silence ==
    /\ Mishap /\ uacRow.count > 0 /\ ~uacRow.old /\ uacRow' = [uacRow EXCEPT !.old = TRUE]
    /\ UNCHANGED <<uacPrompt, brokerVars, uacTray, uacWire, uacHttp, uacFiled, uacHeard>>

UacNext ==
    \/ HandleAgentRpc \/ WatchTick \/ SocketAnswers \/ SocketTimesOut
    \/ \E p \in Prompts :
          \/ NoteOpen(p) \/ NoteOpenSkips(p) \/ HttpArrives(p) \/ HttpAnswerLost(p)
          \/ NoteGone(p) \/ (\E v \in Verdicts : NoteClosed(p, v)) \/ Appear(p) \/ Close(p)
    \/ \E late \in BOOLEAN : HttpGivesUp(late)
    \/ (\E v \in Verdicts : TrayTick(v)) \/ (\E b \in BOOLEAN : TrayRequests(b))
    \/ TrayComesOrGoes \/ Drop \/ Relink \/ Silence

UacSpec == UacInit /\ [][UacNext]_uacVars

----------------------------------------------------------------------------
\* "Same open prompt must not inflate Times" (db/uac-prompts.ts:72): however
\* often a prompt is reported, by socket and by HTTP, and however its reports
\* mix with those of another, it is counted once, and what is heard after two
\* silent minutes once more; only a report that comes after the closing of its
\* own prompt breaks that.
CountedOnce ==
    ~uacHeard.late =>
       uacRow.count <= Cardinality(uacHeard.seen \cup uacHeard.closed) + uacHeard.silent
=============================================================================
