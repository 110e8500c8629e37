------------------------------ MODULE MCConsole ------------------------------
(***************************************************************************)
(* The parts of the console that share no state with each other, for TLC.  *)
(* A behaviour is of one part, chosen at the start; the others stand still *)
(* in one of their initial states.  So one run explores each part with the *)
(* whole of its own Next and fairness, and never their product.            *)
(***************************************************************************)
EXTENDS SelfUpdate, ServerSettings, UpdateCheck, UpdatesPage, NetworkPage,
        ListenSettings, Fleet, MaintenanceWindow, UpdatePolicy, AccessPage,
        LoginLimiter, Welcome, ProgramRules, LiveHub, UacPrompts

VARIABLE part    \* which part moves

Parts == {"self-update", "settings", "check", "updates page", "network page", "addresses",
          "fleet", "window", "policy", "access", "access page", "limiter", "welcome", "rules", "live", "prompts"}

\* Of a part that stands still, one initial state is enough.
Alone(p, still) == part = p \/ still

\* As AccessPageInit leaves the page of an empty console
NobodyLooks ==
    /\ apgShown = [roles |-> accRoles, can |-> {}]
    /\ apgRole = [id |-> "master", picks |-> Permissions]
    /\ apgUser = [id |-> Nobody, picks |-> {}] /\ apgBusy = FALSE

ConsoleInit ==
    /\ part \in Parts
    /\ UpdateInit /\ Alone("self-update", updHost = "darwin")
    /\ NetInit /\ Alone("settings", netWindows /\ netEnv = CHOOSE t \in Targets : TRUE)
    /\ CheckInit
    /\ PageInit /\ Alone("updates page", pagOffer = NoVersion /\ pagPhase = "idle")
    /\ FormInit /\ Alone("network page", frmHome.bind = "loopback")
    /\ frmHome.port = CHOOSE p \in Ports : TRUE   \* one is as good as another
    /\ ListenInit /\ Alone("addresses", lisRequest = PlainRequest /\ lisEnv =
          [bind |-> "unset", web |-> 0, agent |-> 0, explicit |-> "unset",
           public |-> "unset", addresses |-> {}])
    /\ FleetInit /\ Alone("fleet", fltTarget = 1 /\ ~fltDue)
    /\ WindowInit /\ Alone("window", winSchedule = NoTime)
    /\ PolicyInit
    /\ IF part = "access page" THEN AccessPageInit ELSE AccessInit /\ NobodyLooks
    /\ part \in {"access", "access page"} \/ accReset = "done"
    /\ LimiterInit
    /\ WelcomeInit /\ Alone("welcome", welMode = [local |-> TRUE, entra |-> FALSE])
    /\ RulesInit /\ Alone("rules", rulGroups = {})
    /\ HubInit /\ UacInit

ConsoleNext ==
    /\ UNCHANGED part
    /\ IF part = "self-update" THEN UpdateNext ELSE UNCHANGED updVars
    /\ IF part = "settings" THEN NetNext ELSE UNCHANGED netVars
    /\ IF part = "check" THEN CheckNext ELSE UNCHANGED chkVars
    /\ IF part = "updates page" THEN PageNext ELSE UNCHANGED pagVars
    /\ IF part = "network page" THEN FormNext ELSE UNCHANGED frmVars
    /\ IF part = "addresses" THEN ListenNext ELSE UNCHANGED lisVars
    /\ IF part = "fleet" THEN FleetNext ELSE UNCHANGED fltVars
    /\ IF part = "window" THEN WindowNext ELSE UNCHANGED winVars
    /\ IF part = "policy" THEN PolicyNext ELSE UNCHANGED polVars
    /\ CASE part = "access" -> AccessNext /\ UNCHANGED apgVars
         [] part = "access page" -> AccessPageNext
         [] OTHER -> UNCHANGED pageVars
    /\ IF part = "limiter" THEN LimiterNext ELSE UNCHANGED limVars
    /\ IF part = "welcome" THEN WelcomeNext ELSE UNCHANGED welVars
    /\ IF part = "rules" THEN RulesNext ELSE UNCHANGED rulVars
    /\ IF part = "live" THEN HubNext ELSE UNCHANGED hubVars
    /\ IF part = "prompts" THEN UacNext ELSE UNCHANGED uacVars

consoleVars == <<part, updVars, netVars, chkVars, pagVars, frmVars, lisVars, fltVars, winVars,
                 polVars, pageVars, limVars, welVars, rulVars, hubVars, uacVars>>

\* A behaviour is of one part, so each clause here stands for a clause of every part
\* named in it.
Moving ==
    CASE part = "self-update" -> updVars [] part = "settings" -> netVars
      [] part = "updates page" -> pagVars [] part = "network page" -> frmVars
      [] part = "fleet" -> fltVars [] OTHER -> hubVars
Moves(p, A) == part = p /\ part' = p /\ A
ConsoleSpec ==
    /\ ConsoleInit /\ [][ConsoleNext]_consoleVars
    /\ SF_Moving(Moves("updates page", Poll) \/ Moves("network page", PollServer))
    /\ WF_Moving(\/ Moves("self-update", GrowOlder) \/ Moves("settings", ChangeAges)
                 \/ Moves("updates page", PollArrives) \/ Moves("network page", ReadArrives)
                 \/ Moves("fleet", Connect) \/ Moves("live", Beat))
    /\ WF_Moving(\/ Moves("updates page", ConsoleBack) \/ Moves("network page", ComesBack)
                 \/ Moves("fleet", Report) \/ Moves("live", PcHears))
    /\ WF_Moving(\/ Moves("updates page", ApplyEnds) \/ Moves("network page", ChangeEnds)
                 \/ Moves("fleet", GhostDies) \/ Moves("live", NoteUacOfferFromRpc))
    /\ WF_Moving(Moves("fleet", Sweep) \/ Moves("live", SourceOpens))
    /\ WF_Moving(Moves("fleet", MarkerAges) \/ Moves("live", PageHears))
    /\ WF_Moving(Moves("fleet", PcReceives) \/ Moves("live", PageIsDrawn))
    /\ WF_Moving(Moves("fleet", PcDownloads) \/ Moves("live", PageArrives))
    /\ WF_Moving(Moves("fleet", InstallOk))
    /\ WF_Moving(Moves("fleet", HungPcRestarts))

----------------------------------------------------------------------------
(* Values of the constants                                                 *)
Release(tag, prerelease, assets) ==
    [tag |-> tag, prerelease |-> prerelease, draft |-> FALSE, assets |-> assets]
\* Two builds of one version, one of them a prerelease; a later prerelease.
SomeReleases == {Release(<<2, 0>>, FALSE, {"exe", "msi"}), Release(<<2, 1>>, TRUE, {"msi"}),
                 Release(<<3, 0>>, TRUE, {"exe"})}
Version1 == <<1, 0>>

\* One field at a time
SomeRequests ==
    {p \in Patches :
        \/ p = [Keep EXCEPT !.setRoles = TRUE, !.roles = p.roles]
        \/ p = [Keep EXCEPT !.disabled = p.disabled]
        \/ p = [Keep EXCEPT !.kind = p.kind]
        \/ p = [Keep EXCEPT !.password = p.password]}

Program(hash, name, args, signs) ==
    [hash |-> hash, publisher |-> "P", name |-> name, args |-> args, signs |-> signs]
\* One program under two names and with two arguments, a shell, and one unsigned.
SomePrograms ==
    {Program("h1", "setup", "", {}), Program("h1", "setup", "/x", {"writable place"}),
     Program("h1", "other", "/x", {}), Program("h2", "shell", "", {}),
     [Program("h1", "setup", "", {}) EXCEPT !.publisher = ""]}

\* An expression that matches one argument, and one that is none.
SomeExpressions == [text \in {"/x", "("} |-> IF text = "(" THEN Broken ELSE {"/x"}]

Draft(effect, hash, name, text, mode, bind, to) ==
    [effect |-> effect, hash |-> hash, publisher |-> "P", name |-> name, text |-> text,
     mode |-> mode, bind |-> bind, to |-> to]
SomeDrafts ==
    {Draft("allow", "h1", "", "", "literal", "all", ""),
     Draft("allow", "h1", "setup", "/x", "literal", "group", "g"),
     Draft("deny", "h1", "", "/x", "regex", "all", ""),
     Draft("require_approval", "h2", "shell", "", "literal", "all", ""),
     Draft("allow", "h1", "", "(", "regex", "all", "")}
=============================================================================
