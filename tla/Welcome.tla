------------------------------ MODULE Welcome ------------------------------
(***************************************************************************)
(* The way into the console for one browser: the root, the layout of the   *)
(* console and the middleware, which redirect, the setup wizard and the    *)
(* sign-in page, which are drawn.  The middleware knows only whether there *)
(* is a cookie this console signed; the pages ask the database.  What      *)
(* others do meanwhile to users and setup is Others.  Rights of a signed-in *)
(* user are Access, the limiter is LoginLimiter.                           *)
(***************************************************************************)
EXTENDS Naturals

VARIABLES
    welUser,     \* the browser's user: none, enabled, disabled
    welAnyone,   \* there is another portal user
    welDone,     \* setup_state.wizard_completed
    welCookie,   \* the session cookie: none, valid, expired
    welMode,     \* sign-in: AUTH_MODE is local, Entra has a tenant and a client
    welTab       \* what the browser shows, and the state of that page

welVars == <<welUser, welAnyone, welDone, welCookie, welMode, welTab>>

Blank == [page |-> "blank", needsAdmin |-> FALSE, signedIn |-> FALSE, step |-> 0, busy |-> ""]
NeedsAdmin == welUser = "none" /\ ~welAnyone
WizardPending == NeedsAdmin \/ ~welDone
Session == welCookie = "valid" /\ welUser = "enabled"

EntraAvailable == welMode.entra
LocalOffered == welMode.local \/ ~welMode.entra

----------------------------------------------------------------------------
(* One hop: where a path is redirected to, or itself if it is drawn.       *)
MiddlewareHop == IF welCookie = "valid" THEN "layout" ELSE "/login"
LayoutHop == CASE WizardPending -> "/setup"
               [] ~WizardPending /\ ~Session -> "/login"
               [] OTHER -> "console"
SetupHop == IF ~NeedsAdmin /\ welDone THEN IF Session THEN "/dashboard" ELSE "/login" ELSE "setup"
\* MUTANT: whoever has a cookie need not sign in.
LoginHopByCookie ==
    CASE NeedsAdmin -> "/setup"
      [] ~NeedsAdmin /\ welCookie = "valid" -> "/dashboard"
      [] OTHER -> "login"

LoginHop == IF NeedsAdmin THEN "/setup" ELSE "login"
RootHop == IF WizardPending THEN "/setup" ELSE "/dashboard"
Urls == {"/", "/dashboard", "/elevations", "/setup", "/login"}

\* The middleware's list has no /elevations: the layout alone looks at it.
Hop(path) ==
    CASE path = "/" -> RootHop
      [] path = "/dashboard" -> MiddlewareHop
      [] path \in {"/elevations", "layout"} -> LayoutHop
      [] path = "/setup" -> SetupHop
      [] path = "/login" -> LoginHop
      [] OTHER -> path
Landing(url) == Hop(Hop(Hop(Hop(Hop(url)))))

\* What is then drawn: the wizard starts from what the server says.
Drawn(place) ==
    IF place = "setup"
    THEN [Blank EXCEPT !.page = "setup", !.needsAdmin = NeedsAdmin,
                       !.signedIn = ~NeedsAdmin /\ Session,
                       !.step = IF ~NeedsAdmin /\ Session THEN 2 ELSE 0]
    ELSE [Blank EXCEPT !.page = place]

WelcomeInit ==
    /\ welUser = "none" /\ welAnyone = FALSE /\ welDone = FALSE /\ welCookie = "none"
    /\ welMode \in [local : BOOLEAN, entra : BOOLEAN]
    /\ welTab = Blank

Visit(url) ==
    /\ welTab' = Drawn(Landing(url))
    /\ UNCHANGED <<welUser, welAnyone, welDone, welCookie, welMode>>

----------------------------------------------------------------------------
(* The wizard                                                              *)
WizardButtons ==
    IF welTab.page # "setup" THEN {}
    ELSE CASE welTab.step = 0 -> {"next"}
           [] welTab.step = 1 /\ welTab.needsAdmin ->
                 {"back"} \cup (IF welTab.busy = "" THEN {"create"} ELSE {})
           [] welTab.step = 1 /\ ~welTab.needsAdmin ->
                 {"back"} \cup (IF welTab.signedIn THEN {"next"} ELSE {"login"})
           [] welTab.step = 2 ->
                 {"back"} \cup (IF ~welTab.signedIn THEN {"login"}
                                ELSE IF welTab.busy = "" THEN {"finish"} ELSE {})
Go ==
    /\ \/ "next" \in WizardButtons /\ welTab' = [welTab EXCEPT !.step = @ + 1]
       \/ "back" \in WizardButtons /\ welTab' = [welTab EXCEPT !.step = @ - 1]
    /\ UNCHANGED <<welUser, welAnyone, welDone, welCookie, welMode>>

Submit ==
    /\ \/ "create" \in WizardButtons /\ welTab' = [welTab EXCEPT !.busy = "create"]
       \/ "finish" \in WizardButtons /\ welTab' = [welTab EXCEPT !.busy = "finish"]
    /\ UNCHANGED <<welUser, welAnyone, welDone, welCookie, welMode>>

\* The route of the first administrator: his cookie comes with the answer.
CreateAnswered ==
    /\ welTab.busy = "create"
    /\ IF NeedsAdmin
       THEN /\ welUser' = "enabled" /\ welCookie' = "valid"
            /\ welTab' = [welTab EXCEPT !.busy = "", !.needsAdmin = FALSE, !.signedIn = TRUE,
                                        !.step = 2]
       ELSE welTab' = [welTab EXCEPT !.busy = ""] /\ UNCHANGED <<welUser, welCookie>>
    /\ UNCHANGED <<welAnyone, welDone, welMode>>

FinishAnswered ==
    /\ welTab.busy = "finish"
    /\ IF ~NeedsAdmin /\ Session
       THEN welDone' = TRUE /\ welTab' = Blank    \* and on to /dashboard
       ELSE welTab' = [welTab EXCEPT !.busy = ""] /\ UNCHANGED welDone
    /\ UNCHANGED <<welUser, welAnyone, welCookie, welMode>>

----------------------------------------------------------------------------
(* The sign-in page                                                        *)
LoginButtons ==
    IF welTab.page # "login" THEN {}
    ELSE (IF LocalOffered /\ welTab.busy = "" THEN {"local"} ELSE {})
         \cup (IF EntraAvailable THEN {"entra"} ELSE {})

SubmitLogin ==
    /\ "local" \in LoginButtons /\ welTab' = [welTab EXCEPT !.busy = "login"]
    /\ UNCHANGED <<welUser, welAnyone, welDone, welCookie, welMode>>

\* Whatever is wrong, the form says the sign-in failed.
LoginAnswered(right) ==
    /\ welTab.busy = "login"
    /\ IF welMode.local /\ right /\ welUser = "enabled"
       THEN welCookie' = "valid" /\ welTab' = Blank
       ELSE welTab' = [welTab EXCEPT !.busy = ""] /\ UNCHANGED welCookie
    /\ UNCHANGED <<welUser, welAnyone, welDone, welMode>>

\* A fetch that throws leaves the button busy until the page is loaded again.
Disconnected ==
    /\ welTab.busy \in {"create", "finish", "login"}
    /\ welTab' = [welTab EXCEPT !.busy = "forever"]
    /\ UNCHANGED <<welUser, welAnyone, welDone, welCookie, welMode>>

----------------------------------------------------------------------------
Others ==
    /\ \/ NeedsAdmin /\ welAnyone' = TRUE /\ UNCHANGED <<welUser, welDone>>
       \/ welAnyone /\ welDone' = TRUE /\ UNCHANGED <<welUser, welAnyone>>
       \/ welAnyone /\ welUser' \in {"none", "enabled", "disabled"} /\ UNCHANGED <<welAnyone, welDone>>
    /\ UNCHANGED <<welCookie, welMode, welTab>>
CookieEnds ==
    /\ welCookie = "valid" /\ welCookie' \in {"none", "expired"}
    /\ UNCHANGED <<welUser, welAnyone, welDone, welMode, welTab>>
EntraConnected ==
    /\ Session /\ welDone /\ ~welMode.entra /\ welMode' = [welMode EXCEPT !.entra = TRUE]
    /\ UNCHANGED <<welUser, welAnyone, welDone, welCookie, welTab>>

WelcomeNext ==
    \/ \E url \in Urls : Visit(url)
    \/ Go \/ Submit \/ CreateAnswered \/ FinishAnswered
    \/ SubmitLogin \/ (\E right \in BOOLEAN : LoginAnswered(right)) \/ Disconnected
    \/ Others \/ CookieEnds \/ EntraConnected

WelcomeSpec == WelcomeInit /\ [][WelcomeNext]_welVars

----------------------------------------------------------------------------
\* No address sends a browser round in circles, and where it lands there is a
\* way on: three parties redirect on three notions of being signed in.
EveryUrlLands ==
    \A url \in Urls :
       /\ Landing(url) \in {"console", "setup", "login"}
       /\ Landing(url) = "login" => LocalOffered \/ EntraAvailable
       /\ Landing(url) = "console" => Session /\ ~WizardPending
=============================================================================
