----------------------------- MODULE NetworkPage -----------------------------
(***************************************************************************)
(* Configuration > Server & network (network-client.tsx): the form that    *)
(* changes where the console listens, from a page the console itself       *)
(* serves.  When the console comes back on another port the page's         *)
(* requests no longer reach it.  The server is seen through its answers    *)
(* (ServerSettings has what is behind them).  Not modelled: wording, also   *)
(* that of a move to another port, and the address typed letter by letter. *)
(***************************************************************************)
EXTENDS Naturals, FiniteSets

CONSTANTS Binds,     \* the modes the form is given: all three, or some
          Ports,     \* and the web ports
          MaxReads,  \* status requests on their way at one time
          MaxChanges \* changes confirmed, here or by another administrator

ASSUME KnownBinds == Binds \subseteq {"wildcard", "loopback", "custom"}

VARIABLES
    frmHome,      \* the settings this page was rendered with
    frmServing,   \* the settings the console listens on, or Nothing: it is down
    frmPhase,     \* the phase it reports
    frmWritten,   \* the settings a change under way is about to bring
    frmForm,      \* the settings typed when "Apply changes" was last pressed
    frmShown,     \* the phase of the last status read, or "running" from a click on
    frmTarget,    \* the settings this page last asked for, or Nothing
    frmReads,     \* status answers on their way
    frmCall,      \* none, confirm, apply, abandon, an answer, or thrown
    frmChanges

frmVars == <<frmHome, frmServing, frmPhase, frmWritten, frmForm, frmShown, frmTarget,
             frmReads, frmCall, frmChanges>>

Settings == [bind : Binds, port : Ports]
Nothing == [bind |-> "none", port |-> 0]

\* A custom bind may be empty or hold blanks; a port may be no port at all.
Forms == [bind : Binds, bindValid : BOOLEAN, port : Ports \cup {0}]
Valid(form) == (form.bind = "custom" => form.bindValid) /\ form.port # 0
EffectiveTarget(form) == [bind |-> form.bind, port |-> form.port]
Changed(form) == Valid(form) /\ EffectiveTarget(form) # frmHome

\* The page asks the address it came from: bound to the machine itself, the
\* console no longer answers from the network.
Reachable == /\ frmServing # Nothing
             /\ frmServing.port = frmHome.port
             /\ frmServing.bind = "loopback" => frmHome.bind = "loopback"

Reported == INSTANCE ApplyPromise WITH phase <- frmPhase

\* What is drawn: the form, a stuck change to abandon.
FormButtons ==
    IF frmCall # "none" THEN {} ELSE
    {"apply"} \cup (IF frmShown \in {"running", "stale", "failed"} THEN {"abandon"} ELSE {})

FormInit ==
    /\ frmHome \in Settings /\ frmServing = frmHome
    /\ frmPhase = "idle" /\ frmWritten = Nothing
    /\ frmForm = frmHome
    /\ frmShown = "idle"
    /\ frmTarget = Nothing /\ frmReads = {} /\ frmCall = "none" /\ frmChanges = 0

----------------------------------------------------------------------------
(* The page                                                                *)
ReadStatus == frmReads' = IF Reachable /\ Cardinality(frmReads) < MaxReads
                          THEN frmReads \cup {frmPhase} ELSE frmReads

\* MUTANT: the page does not poll while it waits for an answer.
PollServerUnlessBusy ==
    /\ frmShown = "running" /\ Reachable /\ frmCall = "none"
    /\ ReadStatus
    /\ UNCHANGED <<frmHome, frmServing, frmPhase, frmWritten, frmForm, frmShown, frmTarget,
                   frmCall, frmChanges>>

PollServer ==
    /\ frmShown = "running" /\ Reachable
    /\ ReadStatus
    /\ UNCHANGED <<frmHome, frmServing, frmPhase, frmWritten, frmForm, frmShown, frmTarget,
                   frmCall, frmChanges>>

ReadArrives ==
    /\ \E phase \in frmReads : frmShown' = phase /\ frmReads' = frmReads \ {phase}
    /\ UNCHANGED <<frmHome, frmServing, frmPhase, frmWritten, frmForm, frmTarget, frmCall, frmChanges>>

AskToApply ==
    /\ "apply" \in FormButtons /\ frmChanges < MaxChanges
    /\ \E form \in Forms : Changed(form) /\ frmForm' = EffectiveTarget(form)
    /\ frmCall' = "confirm"
    /\ UNCHANGED <<frmHome, frmServing, frmPhase, frmWritten, frmShown, frmTarget,
                   frmReads, frmChanges>>

\* The page shows "running" before it asks.
ApplySettings ==
    /\ frmCall = "confirm"
    /\ \/ /\ frmCall' = IF Reachable THEN "apply" ELSE "thrown"
          /\ frmTarget' = frmForm
          /\ frmShown' = "running"
          /\ frmChanges' = frmChanges + 1
       \/ /\ frmCall' = "none"
          /\ UNCHANGED <<frmTarget, frmShown, frmChanges>>
    /\ UNCHANGED <<frmHome, frmServing, frmPhase, frmWritten, frmForm, frmReads>>

AbandonApply ==
    /\ "abandon" \in FormButtons
    /\ frmCall' = IF Reachable THEN "abandon" ELSE "thrown"
    /\ UNCHANGED <<frmHome, frmServing, frmPhase, frmWritten, frmForm, frmShown, frmTarget,
                   frmReads, frmChanges>>

\* Whatever the answer to an apply, and after an abandon that was not refused,
\* the status is read.
AnswerComes ==
    /\ frmCall \in {"started", "abandoned", "refused"}
    /\ frmCall' = "none"
    /\ ReadStatus
    /\ UNCHANGED <<frmHome, frmServing, frmPhase, frmWritten, frmForm, frmShown, frmTarget, frmChanges>>

----------------------------------------------------------------------------
(* The console                                                             *)
TakesApply ==
    /\ frmCall = "apply" /\ Reachable
    /\ IF frmPhase # "running" /\ frmTarget # frmServing
       THEN /\ frmPhase' = "running" /\ frmWritten' = frmTarget
            /\ frmCall' = "started"
       ELSE /\ UNCHANGED <<frmPhase, frmWritten>>
            /\ frmCall' = "refused"
    /\ UNCHANGED <<frmHome, frmServing, frmForm, frmShown, frmTarget, frmReads, frmChanges>>

TakesAbandon ==
    /\ frmCall = "abandon" /\ Reachable
    /\ \/ /\ frmPhase \in {"running", "stale", "failed"}
          /\ frmPhase' = "idle" /\ frmCall' = "abandoned"
       \/ UNCHANGED frmPhase /\ frmCall' = "refused"
    /\ UNCHANGED <<frmHome, frmServing, frmWritten, frmForm, frmShown, frmTarget, frmReads, frmChanges>>

\* The restart cuts off a request that was not answered yet.
GoesDown ==
    /\ frmServing # Nothing /\ frmServing' = Nothing
    /\ frmCall' = IF frmCall \in {"apply", "abandon"} THEN "thrown" ELSE frmCall
    /\ UNCHANGED <<frmHome, frmPhase, frmWritten, frmForm, frmShown, frmTarget, frmReads, frmChanges>>

\* It comes back on the new settings, or on those it had.
ComesBack ==
    /\ frmServing = Nothing
    /\ frmServing' \in {frmHome, frmWritten} \ {Nothing}
    /\ UNCHANGED <<frmHome, frmPhase, frmWritten, frmForm, frmShown, frmTarget, frmReads, frmCall, frmChanges>>

\* What the server allows itself while nobody asks it for anything.
PhaseMoves ==
    /\ frmPhase' \in Reported!Phases \ {"running"}
    /\ Reported!FailAtOnce \/ Reported!GiveUp \/ Reported!Tire \/ Reported!Verdict
    /\ UNCHANGED <<frmHome, frmServing, frmWritten, frmForm, frmShown, frmTarget, frmReads, frmCall, frmChanges>>

\* Another administrator has settings of another port or bind applied.
AnotherChange ==
    /\ frmServing # Nothing /\ frmChanges < MaxChanges
    /\ frmPhase' = "running" /\ Reported!Take
    /\ frmWritten' \in Settings \ {frmServing} /\ frmChanges' = frmChanges + 1
    /\ UNCHANGED <<frmHome, frmServing, frmForm, frmShown, frmTarget, frmReads, frmCall>>

----------------------------------------------------------------------------
FormNext ==
    \/ PollServer \/ ReadArrives \/ AskToApply \/ ApplySettings \/ AbandonApply
    \/ AnswerComes \/ TakesApply \/ TakesAbandon \/ GoesDown \/ ComesBack \/ PhaseMoves \/ AnotherChange

\* The timer fires and its answers arrive; the console comes back; the change
\* ends (ApplyPromise).
ChangeEnds == PhaseMoves /\ frmPhase = "running"
FormFairness ==
    /\ SF_frmVars(PollServer) /\ WF_frmVars(ReadArrives) /\ WF_frmVars(ComesBack)
    /\ WF_frmVars(ChangeEnds)

FormSpec == FormInit /\ [][FormNext]_frmVars /\ FormFairness

----------------------------------------------------------------------------
\* "When the port is unchanged this page recovers on its own" (network-client.tsx):
\* a page whose console settles where the page can reach it comes to show how the
\* change ended, though requests were cut off and answers came out of order.
SamePortRecovers ==
    <>[](frmServing # Nothing => Reachable) => []<>(frmShown # "running")
=============================================================================
