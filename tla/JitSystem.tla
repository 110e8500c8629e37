------------------------------ MODULE JitSystem ------------------------------
(***************************************************************************)
(* Just-in-time administration end to end: the console of JitServer and    *)
(* one PC running JitAgent, joined by the device socket. The console's     *)
(* pushes reach the agent in order or not at all; the agent calls back     *)
(* with the evaluate, jit-state and jit-expired RPCs.                      *)
(***************************************************************************)
EXTENDS JitServer

CONSTANTS
  PC,           \* the device this agent runs on
  Launchers,    \* users who start programs through the broker in a window
  MaxLaunches,  \* BOUND: jit tickets evaluate answers with
  TicketTtl,    \* life of such a ticket (120 s), in clock units
  Faults,       \* which of "crash" and "power" may happen
  NoFile

VARIABLES pc, admins, file, tasks, rx, pipe, loop,
          launches   \* jit tickets minted so far: their nonces are random

agentSide == <<pc, admins, file, tasks, rx, pipe, loop>>
vars == <<jitVars, agentSide, launches>>

\* MUTANT: the nonce is the grant id.
PushNonceIsGrant(g, u) == g

\* The push tickets carry "<grant id>-<user id>" (api/jit/route.ts).
PushNonce(g, u) == <<g, u>>
LaunchNonce(n) == <<NoOne, n>>
Nonce == (GrantId \X User) \cup ({NoOne} \X (1..MaxLaunches))

Agent == INSTANCE JitAgent

ASSUME JitSystemAssumption ==
  /\ PC \in Device
  /\ Launchers \subseteq User
  /\ TicketTtl \in Nat \ {0}
  /\ MaxLaunches \in Nat
  /\ Faults \subseteq {"crash", "power"}
  /\ NoFile \notin Agent!Window
  /\ GrantId \cap Nonce = {}  \* a nonce is a grant's id and more, or a UUID of its own

SystemInit == Init /\ Agent!AgentInit /\ launches = 0

-----------------------------------------------------------------------------
SyncOrBrowse == ConsoleStep /\ UNCHANGED <<agentSide, launches>>

\* One clock unit is minutes; a broker thread waits at most 15 s for net.exe,
\* 10 s for schtasks and 30 s for an RPC, and the watchdog looks every 5 s. So
\* the clock does not move past a thread in mid-step or a due file unseen.
BrokerSettled ==
  /\ rx = Agent!Idle /\ pipe = Agent!Idle /\ loop = Agent!Idle
  /\ pc = "running" /\ file # NoFile => file.exp > now

Tick ==
  /\ BrokerSettled
  /\ AdvanceClock
  /\ Agent!RunDueTasks(now + 1)
  /\ UNCHANGED launches

Online == pc = "running" /\ Connect(PC) /\ UNCHANGED <<agentSide, launches>>
Offline == Disconnect(PC) /\ UNCHANGED <<agentSide, launches>>

NextPush == Head(wire[PC])

ReceiveGrant ==
  /\ Receive(PC)
  /\ NextPush.type = "jit-grant"
  /\ Agent!ApplyGrant([nonce |-> PushNonce(NextPush.grant, NextPush.user),
                       sub |-> NextPush.user, exp |-> NextPush.exp])
  /\ UNCHANGED launches

\* TicketVerifier.Verify throws inside the receive loop, which ends the
\* connection and with it every push behind the stale one.
ReceiveStaleGrant ==
  /\ wire[PC] # <<>> /\ rx = Agent!Idle
  /\ NextPush.type = "jit-grant" /\ NextPush.exp <= now
  /\ Offline

ReceiveRevoke ==
  /\ Receive(PC)
  /\ NextPush.type = "jit-revoke"
  /\ Agent!ApplyRevoke(NextPush.user)
  /\ UNCHANGED launches

\* MUTANT: the window found is anybody's (an empty ad_sid that matches).
EvaluateUnderAnyJit(u) ==
  /\ launches < MaxLaunches
  /\ \E v \in User : ActiveJit(grants, v, PC) # {}
  /\ launches' = launches + 1
  /\ Agent!LaunchAnswered([nonce |-> LaunchNonce(launches + 1), sub |-> u, exp |-> now + TicketTtl])
  /\ UNCHANGED jitVars

\* evaluateForDevice under a live window: policy.ts allows, the ticket lives
\* TicketTtl from now whatever is left of the window, and the broker gets it.
\* (A call that finds no window changes the table as ReadActiveJit does.)
EvaluateUnderJit(u) ==
  /\ launches < MaxLaunches
  /\ ActiveJit(grants, u, PC) # {}
  /\ launches' = launches + 1
  /\ Agent!LaunchAnswered([nonce |-> LaunchNonce(launches + 1), sub |-> u, exp |-> now + TicketTtl])
  /\ UNCHANGED jitVars

BrokerThread ==
  /\ \/ Agent!ArmGranted \/ Agent!ClearRevoked
     \/ Agent!LaunchAdd \/ Agent!LaunchArm
     \/ Agent!TickDue \/ Agent!TickRemove \/ Agent!TickDelete
  /\ UNCHANGED <<jitVars, launches>>

\* ReportJitExpiredAsync: the watchdog sends the nonce as the grant id; a
\* report that finds no socket is dropped.
ReportExpired ==
  /\ Agent!Reported
  /\ UNCHANGED launches
  /\ \/ JitExpiredRpc(loop.win.nonce, PC)
     \/ ~connected[PC] /\ UNCHANGED jitVars

DropSocket ==
  /\ connected' = [connected EXCEPT ![PC] = FALSE]
  /\ wire' = [wire EXCEPT ![PC] = <<>>]
  /\ UNCHANGED <<now, members, grants, audit, launches>>

CrashService == "crash" \in Faults /\ Agent!Crash /\ DropSocket
LosePower == "power" \in Faults /\ Agent!PowerOff /\ DropSocket
Restart == (Agent!Boot \/ Agent!StartService) /\ UNCHANGED <<jitVars, launches>>

SystemNext ==
  \/ SyncOrBrowse
  \/ Tick
  \/ Online
  \/ Offline
  \/ ReceiveGrant
  \/ ReceiveStaleGrant
  \/ ReceiveRevoke
  \/ \E u \in Launchers : EvaluateUnderJit(u)
  \/ BrokerThread
  \/ ReportExpired
  \/ CrashService
  \/ LosePower
  \/ Restart

SystemSpec == SystemInit /\ [][SystemNext]_vars

\* Time passes, Windows boots and starts the automatic service, and the
\* broker's own threads run. Nothing is assumed of the console or the network.
FairSpec ==
  /\ SystemSpec
  /\ SF_vars(Tick)
  /\ WF_vars(Restart)
  /\ WF_vars(Agent!ArmGranted /\ BrokerThread)
  /\ WF_vars(Agent!ClearRevoked /\ BrokerThread)
  /\ WF_vars((Agent!LaunchAdd \/ Agent!LaunchArm) /\ BrokerThread)
  /\ WF_vars((Agent!TickDue \/ Agent!TickRemove \/ Agent!TickDelete) /\ BrokerThread)
  /\ WF_vars(ReportExpired)

-----------------------------------------------------------------------------
SystemTypeOK == TypeOK /\ Agent!AgentTypeOK /\ launches \in 0..MaxLaunches

\* Nobody is made a local administrator of this PC whom no window of this PC
\* ever covered, however pushes, launches, crashes and clock interleave.
OnlyCoveredUsersAdmin ==
  \A u \in admins : \E g \in DOMAIN grants : grants[g].dev = PC /\ Covers(grants[g], u)

\* What the PC holds armed for a user ends no later than one launch ticket
\* after a window that covered them: evaluate's 120 s may run past the end
\* of the window, and by no more than that.
Armed == tasks \cup ({file} \ {NoFile})

BoundedOverrun ==
  \A w \in Armed : \E g \in DOMAIN grants :
    /\ grants[g].dev = PC /\ Covers(grants[g], w.sub)
    /\ w.exp < grants[g].exp + TicketTtl

\* docs/SPEC.md criterion 7: every window opened and every revoke is in the
\* audit log; only revokeJit from the console route writes 'revoked', because
\* the id a jit-expired report carries is never a row's id.
LedgerAudited ==
  \A g \in DOMAIN grants :
    /\ <<"jit.grant", g>> \in audit
    /\ grants[g].status = "revoked" => <<"jit.revoke", g>> \in audit

\* docs/SPEC.md criterion 6 and the threat model's "local revoke task written
\* at grant": whoever is a local administrator has, on the PC itself, something
\* that will remove them: the armed file, a task still ahead, or the thread
\* that is about to arm.
LocallyRemovable(u) ==
  \/ file # NoFile /\ file.sub = u
  \/ \E w \in tasks : w.sub = u
  \/ rx.step = "arm" /\ rx.win.sub = u
  \/ pipe.step = "arm" /\ pipe.win.sub = u
  \/ loop.step = "remove" /\ loop.win.sub = u

LocalRevokeArmed == \A u \in admins : LocallyRemovable(u)

\* And it does remove them, with no help from the console.
AdminEnds == \A u \in User : u \in admins ~> u \notin admins

\* jit-expiry.ts: the sweep "expires due JIT grants, tells connected agents to
\* revoke local admin ..., and audits": no window reaches 'expired' without
\* its audit entry.
ExpiryAudited ==
  \A g \in DOMAIN grants : grants[g].status = "expired" => <<"jit.expired", g>> \in audit

\* agent/README.md step 5: a jit ticket's user is removed "at expiry", and the
\* comment on activeJit: windows are a union, "the latest-expiring covering grant
\* wins". The PC does not take a user out of Administrators while it still holds
\* armed a window of theirs that is active and unexpired at the console.
WindowHeld(u) ==
  \E w \in Armed, g \in ActiveJit(grants, u, PC) : w.nonce = PushNonce(g, u) /\ w.exp > now

MemberUntilExpiry ==
  [][\A u \in admins \ admins' : ~WindowHeld(u)']_vars

\* RealtimeChannel.JitExpiredAsync "tells the server an armed JIT window elapsed
\* locally": once the console has handled the report of a pushed window, that
\* window is no longer active there.
ReportEndsWindow ==
  [][LET id == loop.win.nonce[1]
     IN  ReportExpired /\ connected[PC] /\ id # NoOne => grants'[id].status # "active"]_vars
=============================================================================
