------------------------------- MODULE JitAgent -------------------------------
(***************************************************************************)
(* The PC's half of just-in-time administration: who is in the local       *)
(* Administrators group, the watchdog's one state file and its scheduled   *)
(* tasks (agent/JitWatchdog.cs), and the three threads of the broker that  *)
(* write them: the socket's receive loop (agent/JitPush.cs), a named-pipe  *)
(* handler that was answered with a jit ticket (BrokerHost.Handle.cs), and *)
(* the five-second watchdog loop (BrokerHost.cs). No lock orders them.     *)
(*                                                                         *)
(* A thread is cut where another may run: around each net.exe and between  *)
(* the reading and the deleting of the state file.                         *)
(***************************************************************************)
EXTENDS Integers

CONSTANTS
  User,      \* subjects of tickets
  Sid,       \* those net.exe can resolve: it fails, unnoticed, on the others
  NoOne,     \* an empty userSid
  Nonce,     \* ticket nonces
  NoFile     \* jit-revoke.json is absent

VARIABLES
  now,     \* the PC's clock
  pc,      \* "off", "booted" (Windows is up, the service is not), "running"
  admins,  \* members PrivGate added to the local Administrators group
  file,    \* jit-revoke.json: the one armed window, or NoFile
  tasks,   \* PrivGate-JIT-<nonce> tasks whose start time lies ahead
  rx,      \* the receive loop
  pipe,    \* a pipe handler holding a jit ticket
  loop     \* the watchdog loop

agentVars == <<pc, admins, file, tasks, rx, pipe, loop>>

Window == [nonce : Nonce, sub : User, exp : Nat]

Idle == [step |-> "idle"]
At(s, w) == [step |-> s, win |-> w]

AgentTypeOK ==
  /\ pc \in {"off", "booted", "running"}
  /\ admins \subseteq Sid
  /\ file \in Window \cup {NoFile}
  /\ tasks \subseteq Window
  /\ rx \in {Idle, [step |-> "clear"]} \cup [step : {"arm"}, win : Window]
  /\ pipe \in {Idle} \cup [step : {"add", "arm"}, win : Window]
  /\ loop \in {Idle} \cup [step : {"remove", "delete", "report"}, win : Window]

AgentInit ==
  /\ pc = "running"
  /\ admins = {}
  /\ file = NoFile
  /\ tasks = {}
  /\ rx = Idle
  /\ pipe = Idle
  /\ loop = Idle

-----------------------------------------------------------------------------
(* JitWatchdog.                                                            *)

\* MUTANT: net.exe is taken to succeed.
AddMemberAlways(u) == admins' = admins \cup {u}

AddMember(u) == admins' = admins \cup ({u} \cap Sid)
RemoveMember(u) == admins' = admins \ {u}

\* MUTANT: an armed window is not replaced.
ArmUnlessArmed(w) ==
  IF file # NoFile THEN UNCHANGED <<file, tasks>> ELSE file' = w /\ tasks' = tasks \cup {w}

\* One file for the whole PC: arming a window forgets the one before it.
\* schtasks /Create /F replaces a task of the same name.
Arm(w) ==
  /\ file' = w
  /\ tasks' = {x \in tasks : x.nonce # w.nonce} \cup {x \in {w} : x.exp > now}

\* The tail of RevokeNow: the task it deletes is the one the FILE names, and
\* the file goes, whoever's window it was.
ClearArmed ==
  /\ tasks' = IF file = NoFile THEN tasks ELSE {x \in tasks : x.nonce # file.nonce}
  /\ file' = NoFile

-----------------------------------------------------------------------------
(* The receive loop: one push at a time.                                   *)

\* MUTANT: the window is not armed.
ApplyGrantUnarmed(w) ==
  /\ pc = "running" /\ rx = Idle
  /\ w.exp > now
  /\ AddMember(w.sub)
  /\ UNCHANGED <<pc, file, tasks, rx, pipe, loop>>

\* JitPush.ApplyGrant; the ticket's verification has passed.
ApplyGrant(w) ==
  /\ pc = "running" /\ rx = Idle
  /\ w.exp > now
  /\ AddMember(w.sub)
  /\ rx' = At("arm", w)
  /\ UNCHANGED <<pc, file, tasks, pipe, loop>>

ArmGranted ==
  /\ rx.step = "arm"
  /\ Arm(rx.win)
  /\ rx' = Idle
  /\ UNCHANGED <<pc, admins, pipe, loop>>

\* JitPush.ApplyRevoke: a push without a SID changes nothing but the tray.
ApplyRevoke(u) ==
  /\ pc = "running" /\ rx = Idle
  /\ RemoveMember(u)
  /\ rx' = IF u = NoOne THEN Idle ELSE [step |-> "clear"]
  /\ UNCHANGED <<pc, file, tasks, pipe, loop>>

ClearRevoked ==
  /\ rx.step = "clear"
  /\ ClearArmed
  /\ rx' = Idle
  /\ UNCHANGED <<pc, admins, pipe, loop>>

-----------------------------------------------------------------------------
(* A pipe handler whose evaluate was answered with a jit ticket.           *)

LaunchAnswered(w) ==
  /\ pc = "running" /\ pipe = Idle
  /\ pipe' = At("add", w)
  /\ UNCHANGED <<pc, admins, file, tasks, rx, loop>>

LaunchAdd ==
  /\ pipe.step = "add"
  /\ IF pipe.win.exp > now
       THEN AddMember(pipe.win.sub) /\ pipe' = At("arm", pipe.win)
       ELSE UNCHANGED admins /\ pipe' = Idle
  /\ UNCHANGED <<pc, file, tasks, rx, loop>>

LaunchArm ==
  /\ pipe.step = "arm"
  /\ Arm(pipe.win)
  /\ pipe' = Idle
  /\ UNCHANGED <<pc, admins, rx, loop>>

-----------------------------------------------------------------------------
(* The watchdog loop: Tick reads the file, revokes, deletes the file, and  *)
(* the loop then reports what Tick returned.                               *)

TickDue ==
  /\ pc = "running" /\ loop = Idle
  /\ file # NoFile /\ file.exp <= now
  /\ loop' = At("remove", file)
  /\ UNCHANGED <<pc, admins, file, tasks, rx, pipe>>

TickRemove ==
  /\ loop.step = "remove"
  /\ RemoveMember(loop.win.sub)
  /\ loop' = At("delete", loop.win)
  /\ UNCHANGED <<pc, file, tasks, rx, pipe>>

\* The file is deleted as it is now, not as it was when it was read.
TickDelete ==
  /\ loop.step = "delete"
  /\ file' = NoFile
  /\ loop' = At("report", loop.win)
  /\ UNCHANGED <<pc, admins, tasks, rx, pipe>>

Reported ==
  /\ loop.step = "report"
  /\ loop' = Idle
  /\ UNCHANGED <<pc, admins, file, tasks, rx, pipe>>

-----------------------------------------------------------------------------
(* The PC.                                                                 *)

\* As the clock reaches t, Windows runs the tasks set for t; one that falls
\* due while the PC is off or asleep never runs (schtasks /SC ONCE).
RunDueTasks(t) ==
  /\ admins' = IF pc = "off" THEN admins ELSE admins \ {x.sub : x \in {y \in tasks : y.exp = t}}
  /\ tasks' = {x \in tasks : x.exp > t}
  /\ UNCHANGED <<pc, file, rx, pipe, loop>>

ThreadsGone == rx' = Idle /\ pipe' = Idle /\ loop' = Idle

\* The service dies; Windows, the file, the tasks and the group stay.
Crash ==
  /\ pc = "running"
  /\ pc' = "booted"
  /\ ThreadsGone
  /\ UNCHANGED <<admins, file, tasks>>

PowerOff ==
  /\ pc # "off"
  /\ pc' = "off"
  /\ ThreadsGone
  /\ UNCHANGED <<admins, file, tasks>>

Boot ==
  /\ pc = "off"
  /\ pc' = "booted"
  /\ UNCHANGED <<admins, file, tasks, rx, pipe, loop>>

StartService ==
  /\ pc = "booted"
  /\ pc' = "running"
  /\ UNCHANGED <<admins, file, tasks, rx, pipe, loop>>
=============================================================================
