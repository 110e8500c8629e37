----------------------------- MODULE UpdatesPage -----------------------------
(***************************************************************************)
(* Configuration > Updates (updates-client.tsx): a page that shows the     *)
(* cached verdict and the phase of the last apply, polls while it shows    *)
(* one running, and starts or abandons one.  The console behind it goes    *)
(* down and comes back in the middle.  The server is seen through its      *)
(* answers: the version it offers (UpdateCheck) and the phase it reports   *)
(* (ApplyPromise).  "updating" is the phase running once the updater has   *)
(* printed its start line.  Not modelled: the channel shown, wording.      *)
(***************************************************************************)
EXTENDS Naturals, FiniteSets

CONSTANTS Versions,   \* what may be offered
          NoVersion,  \* nothing is
          MaxPolls,   \* status requests on their way at one time
          MaxClicks   \* updates confirmed, here or by another administrator

ASSUME NoVersionIsNone == NoVersion \notin Versions

VARIABLES
    pagUp,       \* the console answers
    pagOffer,    \* the version its cached verdict offers
    pagPhase,    \* the phase it reports
    pagShown,    \* what the page shows of both
    pagPolls,    \* the status answers on their way to the page
    pagCall,     \* what the administrator is about: a dialog, or a request
    pagClicks

pagVars == <<pagUp, pagOffer, pagPhase, pagShown, pagPolls, pagCall, pagClicks>>

Offers == Versions \cup {NoVersion}
Lasting == {"idle", "stale", "succeeded", "failed"}
UnderWay == {"running", "updating"}
\* "check" is a channel that is saved, too: both have the server check again.
PageRequests == {"check", "apply", "abandon"}

\* The phase of the server, for whom "updating" is running.
Server == INSTANCE ApplyPromise WITH
    phase <- IF pagPhase = "updating" THEN "running" ELSE pagPhase

NoCall == [kind |-> "none", answer |-> "none"]
\* busy disables every button; a fetch that throws leaves it set.
Thrown == [NoCall EXCEPT !.kind = "thrown"]
\* What is drawn: an update to install, a stuck one to abandon, and none of it
\* while busy or under the dialog.
Buttons ==
    IF pagCall # NoCall THEN {} ELSE
    {"check"} \cup (IF pagShown.offer # NoVersion THEN {"apply"} ELSE {})
        \cup (IF pagShown.phase \in {"running", "stale", "failed"} THEN {"abandon"} ELSE {})
StatusBody == [offer |-> pagOffer, phase |-> pagPhase]

PageInit ==
    /\ pagUp = TRUE /\ pagOffer \in Offers /\ pagPhase \in Lasting
    /\ pagShown = StatusBody /\ pagPolls = {}
    /\ pagCall = NoCall /\ pagClicks = 0

----------------------------------------------------------------------------
(* The page                                                                *)
RefreshStatus ==
    IF pagUp /\ Cardinality(pagPolls) < MaxPolls
    THEN pagPolls' = pagPolls \cup {StatusBody} ELSE UNCHANGED pagPolls

\* MUTANT: the page does not poll while it waits for an answer.
PollUnlessBusy ==
    /\ pagShown.phase \in UnderWay /\ pagUp /\ pagCall = NoCall
    /\ RefreshStatus
    /\ UNCHANGED <<pagUp, pagOffer, pagPhase, pagShown, pagCall, pagClicks>>

\* The effect keeps an interval only while the phase shown is "running".
Poll ==
    /\ pagShown.phase \in UnderWay /\ pagUp
    /\ RefreshStatus
    /\ UNCHANGED <<pagUp, pagOffer, pagPhase, pagShown, pagCall, pagClicks>>

PollArrives ==
    /\ \E body \in pagPolls : pagShown' = body /\ pagPolls' = pagPolls \ {body}
    /\ UNCHANGED <<pagUp, pagOffer, pagPhase, pagCall, pagClicks>>

\* The button is there when an update is shown; the dialog names its version, and
\* sends none.
ApplyUpdate ==
    /\ "apply" \in Buttons /\ pagClicks < MaxClicks
    /\ pagCall' = [NoCall EXCEPT !.kind = "confirm"]
    /\ UNCHANGED <<pagUp, pagOffer, pagPhase, pagShown, pagPolls, pagClicks>>

Confirm ==
    /\ pagCall.kind = "confirm"
    /\ \/ /\ pagCall' = [pagCall EXCEPT !.kind = "apply"]
          /\ pagShown' = [pagShown EXCEPT !.phase = "running"]
          /\ pagClicks' = pagClicks + 1
       \/ /\ pagCall' = NoCall
          /\ UNCHANGED <<pagShown, pagClicks>>
    /\ UNCHANGED <<pagUp, pagOffer, pagPhase, pagPolls>>

\* saveChannel, checkNow and abandonApply
Ask(kind) ==
    /\ kind \in Buttons
    /\ pagCall' = [NoCall EXCEPT !.kind = kind]
    /\ UNCHANGED <<pagUp, pagOffer, pagPhase, pagShown, pagPolls, pagClicks>>

\* busy goes, and the status is asked for (the answer to checkNow is one); only
\* a refused check or abandon leaves the page as it is.
AnswerArrives ==
    /\ pagCall.kind \in PageRequests /\ pagCall.answer # "none"
    /\ pagCall' = NoCall
    /\ IF pagCall.kind = "apply" \/ pagCall.answer = "ok"
       THEN RefreshStatus ELSE UNCHANGED pagPolls
    /\ UNCHANGED <<pagUp, pagOffer, pagPhase, pagShown, pagClicks>>

\* Nothing answers: the fetch throws.
FetchThrows ==
    /\ pagCall.kind \in PageRequests /\ pagCall.answer = "none" /\ ~pagUp
    /\ pagCall' = Thrown
    /\ UNCHANGED <<pagUp, pagOffer, pagPhase, pagShown, pagPolls, pagClicks>>

Reload ==
    /\ pagUp
    /\ pagShown' = StatusBody /\ pagPolls' = {} /\ pagCall' = NoCall
    /\ UNCHANGED <<pagUp, pagOffer, pagPhase, pagClicks>>

----------------------------------------------------------------------------
(* The console                                                             *)
Awaits(kind) == pagUp /\ pagCall.kind = kind /\ pagCall.answer = "none"
Answers(answer) == pagCall' = [pagCall EXCEPT !.answer = answer]

\* A check changes the offer, and so does a channel saved.
ServeCheck ==
    /\ Awaits("check")
    /\ pagOffer' \in Offers
    /\ \E answer \in {"ok", "refused"} : Answers(answer)
    /\ UNCHANGED <<pagUp, pagPhase, pagShown, pagPolls, pagClicks>>

\* The route checks again and takes what it then finds; the answer comes after
\* the hand-off, or with the failure that gave the lock up.
ServeApply ==
    /\ Awaits("apply")
    /\ pagOffer' \in Offers
    /\ IF pagOffer' = NoVersion \/ pagPhase \in UnderWay
       THEN UNCHANGED pagPhase
       ELSE pagPhase' \in {"running", "idle"}
    /\ Answers(IF pagPhase' = "running" /\ pagPhase # "running" THEN "ok" ELSE "refused")
    /\ UNCHANGED <<pagUp, pagShown, pagPolls, pagClicks>>

ServeAbandon ==
    /\ Awaits("abandon")
    /\ IF pagPhase \in {"running", "stale", "failed"}
       THEN pagPhase' = "idle" /\ Answers("ok")
       ELSE UNCHANGED pagPhase /\ Answers("refused")
    /\ UNCHANGED <<pagUp, pagOffer, pagShown, pagPolls, pagClicks>>

\* The sweep, or another administrator.
OfferChanges ==
    /\ pagUp /\ pagOffer' \in Offers
    /\ UNCHANGED <<pagUp, pagPhase, pagShown, pagPolls, pagCall, pagClicks>>

\* What the server allows itself while nobody asks it for anything.
ApplyMoves ==
    /\ \/ pagPhase = "running" /\ pagPhase' = "updating"
       \/ /\ pagPhase' \in Lasting
          /\ Server!FailAtOnce \/ Server!GiveUp \/ Server!Tire \/ Server!Verdict
    /\ UNCHANGED <<pagUp, pagOffer, pagShown, pagPolls, pagCall, pagClicks>>

\* Another administrator starts an update, or tries to.
AnotherApplies ==
    /\ pagUp /\ pagClicks < MaxClicks
    /\ pagPhase' \in {"running", "idle"} /\ (Server!Take \/ Server!FailTooSoon)
    /\ pagClicks' = pagClicks + 1
    /\ UNCHANGED <<pagUp, pagOffer, pagShown, pagPolls, pagCall>>

\* A request not answered yet is cut off, and its fetch throws.
ConsoleDown ==
    /\ pagUp /\ pagUp' = FALSE
    /\ pagCall' = IF pagCall.kind \in PageRequests /\ pagCall.answer = "none"
                  THEN Thrown ELSE pagCall
    /\ UNCHANGED <<pagOffer, pagPhase, pagShown, pagPolls, pagClicks>>
ConsoleBack ==
    /\ ~pagUp /\ pagUp' = TRUE
    /\ UNCHANGED <<pagOffer, pagPhase, pagShown, pagPolls, pagCall, pagClicks>>

----------------------------------------------------------------------------
PageNext ==
    \/ Poll \/ PollArrives \/ ApplyUpdate \/ Confirm \/ AnswerArrives \/ FetchThrows \/ Reload
    \/ \E kind \in PageRequests \ {"apply"} : Ask(kind)
    \/ ServeCheck \/ ServeApply \/ ServeAbandon
    \/ OfferChanges \/ ApplyMoves \/ AnotherApplies \/ ConsoleDown \/ ConsoleBack

\* The timer fires and its answers arrive; the console comes back; what is under
\* way ends (ApplyPromise).
ApplyEnds == ApplyMoves /\ pagPhase \in UnderWay /\ pagPhase' \notin UnderWay
PageFairness ==
    /\ SF_pagVars(Poll) /\ WF_pagVars(PollArrives) /\ WF_pagVars(ConsoleBack)
    /\ WF_pagVars(ApplyEnds)

PageSpec == PageInit /\ [][PageNext]_pagVars /\ PageFairness

----------------------------------------------------------------------------
\* "This page recovers on its own" (updates-client.tsx): a page that shows an
\* update running comes to show how it ended, with the console down in between,
\* status answers from before, and even when the request itself was cut off and
\* every button is disabled for good.
PageRecovers == []<>(pagShown.phase \notin UnderWay)
=============================================================================
