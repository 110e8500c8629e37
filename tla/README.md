# PrivGate in TLA+

PrivGate takes standing local-administrator rights away from Windows users and
hands them out again for one program (an *elevation request*, decided by policy
or by an approver) or for a while (a *JIT window*). It has two halves: a console
(`src/src`, one Node process on a synchronous SQLite handle) and an agent on
every PC (`src/agent`, a .NET Framework 4.8 service with a tray client). They
talk over one WebSocket per device, with HTTP as the agent's fallback.

These modules model the parts of PrivGate whose correctness depends on
interleaving, loss, crashes and time, check them with TLC on small instances and
prove the central facts with TLAPS for instances of every size.

## Inventory

Paths are under `src/src` (console) and `src/agent` (PC).

| Component | Code | State it keeps | Operations | Modules |
|---|---|---|---|---|
| JIT grants | `lib/db/jit.ts`, `lib/jit-expiry.ts`, `api/jit/*` | table `jit_grants` | open, revoke, sweep, read (which flips lapsed rows) | JitServer, JitSystem |
| JIT on the PC | `JitWatchdog.cs`, `JitPush.cs` | Administrators group, `jit-revoke.json`, scheduled tasks | arm, revoke now, tick | JitAgent, JitSystem |
| Elevation requests | `lib/db/requests.ts`, `api/requests/*`, `evaluate.ts` | table `requests` | evaluate, approve, deny, batch | RequestServer, ApprovalSystem |
| Pipe handler | `BrokerHost.Handle.cs` | one call per client | ask, wait, launch, remember | ApprovalSystem, JitAgent |
| Realtime channel | `RealtimeChannel.cs`, `ApiClient.cs` | tables of outstanding RPCs and of waiters for a ticket | RPC, fall back, complete, fail all | ApprovalSystem |
| Pending launches | `PendingLaunches.cs` | request id -> program | register, take, launch | ApprovalSystem |
| Hub and bus | `lib/realtime/*`, `api/events` | sockets per device, client beats, replay ring | register, publish, replay | LiveHub |
| Tickets | `signing.ts`, `TicketVerifier.cs` | none | sign, verify | JitSystem, ApprovalSystem |
| Policy | `policy.ts`, `hard-bans.ts`, `risk.ts`, `api/policies/*` | table `policies` | evaluate, write, preview, allow what was asked | ProgramRules |
| Agent update | `agent-update*.ts`, `UpdateManager.cs` | version marker and queue flag of each device | push, queue, reconcile, sweep | Fleet |
| Update policies | `update-policy.ts`, `db/device-groups.ts` | groups, members, schedules | edit, resolve, due | UpdatePolicy, MaintenanceWindow |
| Console self-update | `self-update-*.ts`, `scripts/update-server.*` | lock file, log, cached verdict | check, apply, resume, abandon | SelfUpdate, UpdateCheck, UpdatesPage |
| Server settings | `server-settings-*.ts`, `scripts/restart-server.*` | lock file, log, `console.env` | apply, abandon | ServerSettings, NetworkPage |
| Addresses | `listen.ts`, `origin.ts`, `agent-origin.ts` | none | resolve | ListenSettings |
| Portal, sign-in | `portal.ts`, `permissions.ts`, `api/portal/*`, `api/auth/*`, `bootstrap.ts` | users, roles, sessions | create, edit, delete, sign in, step up | Access, AccessPage, Welcome |
| Limiters | `rate-limit.ts` | buckets in memory | count, block, prune | LoginLimiter |
| Audit | `db/audit.ts`, `audit-retention-sweep.ts` | table `audit_events` | append, list, prune | (within the others) |
| UAC telemetry | `uac-prompt.ts`, `db/uac-prompts.ts`, `ConsentBrokerWatch.cs`, `ElevationPrompt.cs` | prompt counters | seen, closed | UacPrompts |
| Enrollment | `db/devices.ts`, `DeviceRegistration.cs` | table `devices` | register or reuse | none |
| Directory sync | `db/directory.ts`, `ad-*.ts`, `entra-*.ts` | users, groups, memberships | replace | JitServer (its effect) |
| Shutdown, secrets, mail, packaging, database handle | see `PROJECT.json` | small or none | | none |

What makes the core components correct, and what is hard about each:

* **JIT grants.** At most one active window per subject and device; a window ends
  once and keeps its end; every end is audited and announced; reading never
  changes who has access. Hard: four code paths flip rows to `expired` (sweep,
  RPC, read, the sweep before an insert), and the live directory moves underneath.
* **JIT on the PC.** Nobody is an administrator whom no window covers; whoever is
  one leaves without the console's help. Hard: three threads share one state file
  without a lock, each pausing for seconds in `net.exe`; crashes, power loss and
  sleeping PCs.
* **Requests and tickets.** A question is one row while it is open, decided once,
  audited as decided; a program opens only after its approval. Hard: duplicates
  through retries, several waiters of one row, tickets that race the end of the
  wait, dropped sockets.
* **Updates and settings.** A marker or a lock file stands for a process somewhere
  else that may be dead. Hard: check-then-act across awaits, staleness by clock,
  reports that come late, a console that is restarted by what it started.
* **Access.** Someone can always administer the console, and a role means the same
  to the count, the session and the page. Hard: four ways to take the last
  administrator, pages that edit drafts of what they last read.
* **Rules.** What the preview and the button promise is what the engine then does.
  Hard: precedence among hashes, publishers, names, arguments and bindings.
* **Live state.** Pages and PCs catch up after any loss. Hard: half-open sockets
  that close late, answers read before a change and applied after it.

`PROJECT.json` lists every component with its status and, under `hazards`, each
of these places with its line and the properties that watch it.

## How it is laid out

| Layer | Modules |
|---|---|
| Windows (JIT) | `JitServer` and `JitAgent`, composed by `JitSystem` |
| Requests | `RequestServer`, extended by `ApprovalSystem`, which implements the abstract `ApprovalPromise` |
| Fleet | `Fleet`; what decides its `fltDue` is `UpdatePolicy` and `MaintenanceWindow` |
| The console changing itself | `SelfUpdate` and `ServerSettings`, both of which implement the abstract `ApplyPromise`; `UpdateCheck`; the pages `UpdatesPage` (over the phases of `ApplyPromise`) and `NetworkPage`; `ListenSettings` |
| Access | `Access`, extended by `AccessPage`; `Welcome`; `LoginLimiter` |
| Rules, live state, prompts | `ProgramRules`; `LiveHub`; `UacPrompts` |
| For TLC | `MCJitServer`, `MCJitSystem`, `MCApprovalSystem`, `MCConsole` |
| Proofs | `JitServerProofs`, which `JitSystemProofs` extends to console and PC; `ApprovalProofs`; `AccessProofs`; `FleetProofs`; `ApplyProofs` (updates, settings, the check for releases); `ConsoleProofs` (limiter, prompts, policy, welcome, addresses, rules, live state); and the end of `MaintenanceWindow` |

Variables of the parts that `MCConsole` puts side by side carry a prefix of their
module (`upd`, `net`, `chk`, `pag`, `frm`, `lis`, `flt`, `win`, `pol`, `acc`, `apg`,
`lim`, `wel`, `rul`, `hub`, `uac`). The comment at the head of each module says what
it models and what it leaves out; each variable names the column, file or field it
stands for.

Left for whoever continues: retention of the rest of the audit log, the order of the shutdown
hooks, reconnect back-off, a safety property of the two pages that is more than the
types (what they promise is that they recover), and the liveness proofs when a prover
has fairness.

## Modules

### JitServer: the console's half of a window

`grants` is `jit_grants` with its columns cut to what decides anything: subject
(`user` or `group` with its membership snapshot), device, expiry, status.
`audit` holds the entries about grants, `members` the live directory, `wire` what
was written to a device's socket and not yet handled. Every handler is
synchronous after its body was parsed, and SQLite calls are synchronous, so each
is one action: `ExpireDueJit` (the sweep: `GET /api/jit` and the pages),
`CreateJitUser` and `CreateJitGroup` (`POST /api/jit`: sweep, `createJit`, audit,
push), `RevokeWindow`, `JitStateRpc`, `ReadActiveJit` (HTTP jit-state, evaluate,
silent-allow), `JitExpiredRpc`, `SyncDirectory`, `Connect`, `Disconnect`,
`Receive`, `AdvanceClock`. A fan-out leaves in row order, which the code does not
fix: `InSomeOrder` takes any.

### JitAgent and JitSystem: the PC, and both together

`JitAgent` keeps the group (`admins`), the one state file, the scheduled tasks
and the three threads `rx` (receive loop), `pipe` (a handler holding a JIT
ticket) and `loop` (the watchdog). A thread is cut where another may run: around
each `net.exe`, and between reading and deleting the file. `Crash`, `PowerOff`,
`Boot` and `StartService` keep what survives them. The Task Scheduler
(`RunDueTasks`) is outside the repository: a `/SC ONCE` task runs at its time if
the PC is on and otherwise never.

`JitSystem` extends `JitServer` and instantiates `JitAgent`: the head of
`wire[PC]` is what `HandleIncoming` gets next; an expired ticket throws in the
receive loop and ends the connection (`ReceiveStaleGrant`); `EvaluateUnderJit` is
an evaluate that a window allows and that answers with a 120-second ticket;
`ReportExpired` is the report of an elapsed window with the id it really carries.
The clock does not pass a thread in mid-step or a due file that was not looked
at (`BrokerSettled`): a clock unit stands for minutes, a thread waits at most 30
seconds, and the watchdog looks every five.

### RequestServer, ApprovalSystem and ApprovalPromise

`requests` is the table of one PC; the verdict of the policy is a free choice at
every evaluate. `DecideOne` and `DecideBatch` are the routes with their different
audit actions. `ApprovalSystem` adds the broker: each `caller` is a pipe handler
with what it asked for and where it stands (`rpc`, `http`, `waiting`,
`timed-out`, `unregistered`), `linked` says that its completion source is still
the entry in `tickets`, `jobs` is `PendingLaunches`. On .NET 4.8 continuations of
a completion source run on the thread that completes it, so completing a waiter
and what the waiter then does up to its next await is one step, while the three
steps of a wait that runs out (timer, `TryRemove`, `Register`) are separate.

`ApprovalPromise` is what the flow promises: asked once, decided once, opened
only if approved, and at one moment: whoever waits then is served then, and the
ticket does not come a second time. `ApprovalSystem` implements it under the
refinement mapping written in `Promise`, where `opened[r]` is the set of paths
and handlers one approval started.

A `File` is a file as it is when it is hashed: `NameOf` is its path, `HashOf` what it
held. Two of them may have one path, so a file replaced between two questions is two
members. The code hashes a file once, when the question is asked
(`BrokerHost.Handle.cs:116`), compares the ticket with that value (:164) and starts the
path (:144); for a remembered program it compares nothing (`PendingLaunches.cs:35-40`).
So `jobs` and `opened` hold paths: what a path holds at the moment of its start is
looked at by nobody, in the code and in the model.

### Fleet, MaintenanceWindow and UpdatePolicy: clients of the PCs

`Fleet` is one device. `fltRow` is its `agent_version` column, which holds a version,
or `pending:v`, `stale:v`; `fltQueued` its queue flag; `fltSockets` says which sockets
the console holds, a *ghost* being one whose PC is gone; `fltPc` is the PC with the
pushes it has not handled and how far its update is. The handlers are actions:
`Connect` (which drains the queue), `Report` (`reconcileReportedVersion`), the
sweep, the buttons for one device and for all, and on the PC `BeginUpdate`, the
download and the installation, each of which may fail or hang. `fltFaults` counts
what goes wrong and is bounded.

`MaintenanceWindow` is the arithmetic of `scheduledWindowDue` on minutes of the day,
against a distance on the circle. `UpdatePolicy` is how the policy of a device comes about:
its own, else that of the first of its groups by priority and name; the routes; and
the card and the control of the devices page, which edit drafts against what they
were last drawn with.

### SelfUpdate, ServerSettings and ApplyPromise: the console changing itself

A request (`updPosts`, `netChanges`) reads "not running", awaits, writes the state
file, starts a script and returns; the steps are its awaits, so two requests
interleave between the check and the write. The script (`updRuns`, `netScript`)
outlives the console, stops it, and tells through a log what became of it. What is
reported is computed from file, log and age alone (`PhaseNow`, `NetPhaseNow`), as
in `self-update-status.ts` and `server-settings-state.ts`; `updAge` and `netAge` keep of
the clock which of the two limits has passed. The lines a parser looks for are
modelled as the scripts write them, including those that no parser matches.

`ApplyPromise` says what an administrator may rely on: success is only reported of
a change that was tried, stays until another is, is never taken back as a failure, and
a change does not run for ever. The other that is tried need not begin: an updater has
told of its success before it closes the log (`update-server.ps1:384`, `:404`), and a
request in between cannot open the log, fails, and removes the state file
(`FailTooSoon`; after a failure the same is a `GiveUp`). Both modules implement it (`KeepsUpdatePromise`,
`KeepsNetPromise`), fairness included.

### UpdateCheck, UpdatesPage, NetworkPage and ListenSettings

`UpdateCheck`: sweep ticks and requests (`chkCalls`) share one verdict and one
back-off; each reads before its await and writes after it. `UpdatesPage` and
`NetworkPage` are the pages, with requests in flight that are answered by the console
as it is when they arrive, or cut off; the server is seen through its answers. The
phase it reports moves by the actions of `ApplyPromise` alone (`Server`, `Reported`), so
what the pages are shown is what `SelfUpdate` and `ServerSettings` are proved to
keep to; another administrator may start a change too (`AnotherApplies`,
`AnotherChange`), which the page only learns of from the status.
`ListenSettings` is the pure functions about addresses, evaluated for every
environment and request of a small set while interfaces come and go.

### Access, AccessPage, Welcome and LoginLimiter: who may do what

`Access` has the users with their roles, the roles, the cookies, the cleanup at
opening and the bootstrap file. Every handler is one action, but for the bootstrap,
which awaits between its check and its insert (`accBoot`). A `PATCH` may carry any
subset of its fields (`Patches`); `Requests` says which a run tries. `AccessPage`
extends it with one administrator's browser: the tables are those of the last
rendering. `Welcome` is the redirects of root, layout and middleware and the two
pages they lead to. `LoginLimiter` is the two buckets of a sign-in with window,
cool-down, growing level and pruning, and the window of a device.

### ProgramRules: the verdict

The `policies` table (`rulRules`), its routes, `evaluateElevation` with hard bans, precedence
and argument patterns, the risk of a program, the page that writes a rule by hand and tries
it on recent requests, and the button that makes a rule of a request. In
`RequestServer` the verdict is a free choice, which covers every table of rules.

### LiveHub and UacPrompts

`LiveHub` keeps the sockets of one device (half-open ones too), the tray's
heartbeat, the mode of the follow-up on its way to the PC by push and by answer,
the replay buffer and one page with its event stream and its refreshes.
`UacPrompts` has two watchers of the same Windows prompt, the broker's tick (which
awaits each report) and the tray's, reports on the socket in order and by HTTP in
any order, and the row they are counted in.

## Runs

| Run | Shows |
|---|---|
| `jit_server` | one window per subject and device, expiry only when due, and what a step may never do to a row, to access or to an announcement |
| `jit_local_revoke` | one user's windows: a local revoke is always armed, and membership ends (liveness) |
| `jit_system` | console and PC with launches, crashes and power loss |
| `approval` | the approval flow implements its promise: one row per question, decisions as audited, the program that was asked about (`SameWhenAsked`), waiters who will hear, and one start for each of them (`OnceForEach`) |
| `approval_calls_end` | every call on the pipe is answered (liveness) |
| `console` | the sixteen parts of the console below, each on its own |
| `jit_two_users`, `jit_silent_expiry`, `jit_report`, `jit_launch_shortens`, `approval_one_shot`, `approval_lost` | a sentence of the repository the code does not keep; see *Findings* |

`console` checks parts that share no state. Checking their product would multiply
states and show nothing more, so `MCConsole` takes the *sum*: `part` is chosen at the
start, the next-state relation is that part's, the others stand still in one of
their initial states. Each fairness condition is of a disjunction with one action of
each part (`Moves`); as the part never changes, that is the part's own condition, and
there are ten of them instead of one for every action. An invariant of
a part is thus checked in all the part's reachable states, and a liveness property
under the part's fairness. It has 519 978 distinct states.

| Part | Properties | What they say |
|---|---|---|
| self-update | `HeldLogIsALock`, `KeepsUpdatePromise` | on Windows, of requests one after another, the log an updater holds open is the lock the state file is not: the installer it runs is the published one; the phases reported keep `ApplyPromise` |
| settings | `KeepsNetPromise` | the same promise for a change of address, with the script that restores the old settings |
| check | `AnnouncementsApart` | within the look-back of the audit log a version is announced once, in whatever order answers come and however the log is pruned |
| updates page | `PageRecovers` | a page that shows an update running comes to show its end (liveness) |
| network page | `SamePortRecovers` | so does this one, if the console stays where the page can reach it (liveness) |
| addresses | `AddressesFit` | installers are told an address they can dial, people one that is not this machine's own |
| fleet | `RowTellsTruth`, `NoRepush`, `DevicesCatchUp` | the row says what is so; no second push of what is under way; a due PC ends up with the build (liveness) |
| window | `DueIsNear` | the window wraps at midnight exactly |
| policy | `OnlyTheirDevicesMove` | editing a group moves only devices in it, and only if the group that was edited decides for them before or after |
| access | `AssignedRolesExist`, `UserEditsKeepAMaster` | nobody holds a role that is gone; nothing done to users takes the last administrator |
| access page | (its actions run over the tables of access) | the same two, with an editing page beside |
| limiter | `RefusalHolds` | a refusal lasts as long as it said, through window ends and pruning |
| welcome | `EveryUrlLands` | no redirect goes in circles, and where one lands there is a way on |
| rules | `PagesTellTheEngine`, `AllowIsExact` | preview and button agree with the engine; a rule made of a request lets in that request only |
| live | `PageWillHear`, `PageCatchesUp`, `TrayIsServed` | a page that does not show what there is has something ahead that will tell it, and the console pushes to the socket the PC speaks through; page and PC come to what is so (liveness) |
| prompts | `CountedOnce` | a prompt is counted once, though two watchers tell of it twice |

**Bounds of the windows and requests.** `Horizon` ends the clock: 3 units hold two
successive windows and
their expiry. Two grant ids give overlap, succession and re-opening. Two users,
one without a SID, and one group give snapshots that differ from the directory,
members `net.exe` cannot resolve, and two windows of one PC. `MaxWire` bounds
undelivered pushes by refusing the step that would add one, never by dropping
it; a fan-out may exceed it once. `MaxLaunches` bounds the tickets minted inside a
window. `jit_system` has one grant id: a second window on the same PC is what
`jit_local_revoke` (same user) and `jit_two_users` are about. For approvals, two
handlers, two request ids and three files (one program as it is found first, what
replaces it under its path, and a copy of it elsewhere) give joined questions, a ticket
for another path, a program replaced between two questions, and a request asked again
after its decision. Symmetry is used in runs of safety properties only and over values
no definition distinguishes.

**Bounds of the console's parts** (`console.cfg`). What is bounded is what happens, never
what is allowed to fail after it.

* self-update: one request, made again and again, and two updaters, so that a second
  updater starts on the state the first left (two requests at once break
  `HeldLogIsALock`, see *Findings*; the promise is proved for any number); settings: two requests and two targets, which race from check to write.
* check: two callers and three releases, two of them builds of one version and one
  of those a prerelease; a look-back of one announcement (`AuditWindow`, ten in the code) and
  at most three in the log at once (`MaxAudit`), so that a version leaves the look-back, is
  pruned, and is announced again; updates page: one version, one click and one poll in
  flight; network page: two ports and two of the three binds (`Binds`: loopback, which the
  network cannot reach, and an address of one's own, which may be invalid; `wildcard`
  does what a valid address does), two reads in flight (they arrive out of order),
  one change, of this page or of another administrator; addresses: a port below, inside and above the range, two interfaces.
* fleet: client versions 1 to 3 (behind, current, and a newer one released while an
  update runs), two faults; window: schedules at and around midnight and at noon,
  and every minute of the day; policy: two groups of equal priority, so that names
  decide, and one device.
* access: two users, one custom role, one password, and patches of one field each
  (the route applies fields one after the other, and the proofs cover every patch);
  limiter: two logins of one address, one attempt, windows and cool-downs of two
  ticks, two levels; welcome: its states are finite by themselves.
* rules: five programs (one under two names, with and without arguments, a
  shell, one unsigned) and five drafts, at most two rules, which every pair of
  precedence needs; live: two sockets of the device and three upsets; prompts: two
  processes and two mishaps.

**Fairness.** `JitSystem!FairSpec` assumes that time passes, that Windows boots
and starts its automatic service, and that the broker's threads run; nothing of
the console, of the network or of an administrator. `SF` on the clock is needed
because a thread in mid-step holds it back again and again. `ApprovalSystem`'s
assumes that timers fire and that a handler runs on, and again nothing of the
console: the RPC timeout, the last HTTP attempt and `PendingWait` are all timers
of the agent. `SelfUpdate` and `ServerSettings` need only that time passes: it is
age that frees a lock whose owner died. The pages assume that their poll timer fires
(`SF`, since a request in flight holds the next poll back again and again), that
answers or errors arrive, that the console comes back, and that a change ends,
which is `ApplyPromise`. `Fleet` assumes that a PC reconnects, reports, handles what
it is sent and can install, that the sweep comes round, that half-open sockets and
markers age, and that a PC that hangs in its update is restarted some day; nobody
clicks. `LiveHub` assumes that threads and timers of a connected PC run and that
a browser reconnects and completes its requests; a PC may stay away for ever.

**Deadlock** is checked in every run.

## Findings

Each is a run that TLC ends with a counterexample, and an entry of
`PROJECT.json` with the sentence that is contradicted.

* `jit_two_users`: one state file per PC. Ending A's window deletes the task and
  the file of B's, and B stays an administrator until the console says otherwise.
* `jit_silent_expiry`: the jit-state RPC and `activeJit` flip a due row first, so
  the sweep neither audits its expiry nor pushes a revoke.
* `jit_report`: the PC's report of an elapsed window names the ticket's nonce,
  which is never a grant id. `ReportsEndNothing` proves that no report ends anything.
* `jit_launch_shortens`: starting a program inside a window re-arms the PC with a
  two-minute ticket, and the user leaves Administrators then.
* `approval_one_shot`: two joined callers both start the program on one ticket. It
  takes two of them: `OpenedOnceForEach` and `OneShotForOneHandler` prove the rest.
* `approval_lost`: a ticket that comes after a reconnect finds neither the caller,
  still waiting, nor a remembered program.

Seen on the way, without a run: a program is hashed when it is asked for and started
minutes later without another look (`BrokerHost.Handle.cs:116`, :144; a remembered one with
neither hash nor path compared, `PendingLaunches.cs:35-40`), so a file replaced during the wait is
started as it then is; `GrantLocalAdmin` before `Arm` leaves a gap for a
crash; a union of windows (`activeJit`) meets a single file on the PC; the batch
route's audit actions (`request.approved`) differ from the single routes'
(`request.approve`), and the audit filter matches exactly; a question joined by
hash from another path ends in "ticket path mismatch"; RPCs that time out stay in
the table; `consumeNonce` has no caller.

While the console's parts were modelled:

* Updates. The state file is read several awaits before it is written
  (`self-update-apply.ts:134`), so two requests may both be admitted: the second
  rotates the log the first opened and may download into the installer while the
  first one's updater runs. `HeldLogIsALock` is therefore about one request after
  another (`OneAtATime` in `ApplyProofs`).
* Updates. "Once per NEW version only" (`self-update-service.ts:132-135`) is once within the
  last ten announcements that are still in the log: `hasAnnouncedBefore` reads ten rows, and
  `pruneAudit` removes rows by age, so a version that comes back after that is announced again.
* Updates and settings. The scripts print `==> [Ns] restart-server start`, `server
  settings applied.` and `updater start` where the parsers look for `^==> restart-server start`, `^==> server
  settings applied.` (`server-settings-state.ts:79,81`) and `^==> updater start`
  (`self-update-status.ts:71`): a change of settings that succeeded is never reported as such, and an
  updater that runs counts as not started, so it can be abandoned and is stale after 90
  seconds (`AppliedIsNeverReported` and `RunningIsUnguarded` prove both of every run). The page stops polling once it shows "stale". The dialog names a
  version, but the server checks again and installs what it then finds. A failing
  check that is slow overwrites a newer verdict. Of nightly builds `tagVersion`
  drops the counter. `packaging/build.sh` ships `update-server.*` only (107-109, 223), so a packaged
  console cannot apply settings ("script not found", against
  `server-settings-command.ts:55-58`); on Linux the script lives in the console's cgroup. For bind `[::]` without an
  IPv4 address `consoleAgentOrigin` is `http://[::]:port`.
* Fleet. `DevicesCatchUp` needs its excuse: a device pushed a version it did not take is
  left, since a marker compares as its version (`agent-update.ts:78`, against 64-65);
  `requestAgentUpdate` refuses it too. A ghost counts as delivered. `updateRunning` is never reset when the
  installer fails after the hand-off without a restart. "Set policy" stays disabled when only the
  time changed; a group's policy cannot be cleared from its card; the members
  route writes rows for a group that was deleted.
* Access. Editing a role can take the last administrator (`portal.ts:288` guards the users only);
  two first administrators can be created at once (`bootstrap/route.ts:14`). "Save
  roles" and "Disable" send `PATCH /api/portal/users/<id>`, a method that route does not have. The dialog about
  deleting a role says that users lose its permissions, while the server refuses. A
  bulk patch that fails applied what came before, without audit. A new password is
  trimmed, the one at sign-in is not. With `AUTH_MODE=entra` and no Entra configured the
  sign-in page offers a form whose every use is refused. A fetch that throws
  leaves the setup and sign-in forms busy.
* Limiter. Pruning forgets the level, so the growth of the cool-down is lost (`rate-limit.ts:9-11`);
  the "sliding" window of a device (`rate-limit.ts:4`) is a fixed one.
* Rules and requests. `insertRequest` joins by user, device and hash, so a question with
  other arguments keeps the first row's arguments and risk (`db/requests.ts:61-66`).
  Literal patterns are trimmed, arguments are not. "Remove rule" promises approval though another
  rule may still decide.
* Live state. A heartbeat announces nothing, so a page drawn before it shows the tray
  as it was; closing an old socket drops the heartbeat of the live one until the next
  (`bus.ts:122`); after a restart the replay buffer is empty; an `EventSource` that got a 401 or
  502 stops. No ping: a half-open socket counts as online until TCP gives up.
* Prompts. `ApiClient.cs:69-70` says that `uac-seen` is dropped when the socket is down and the
  closing lands later; the code does the reverse. A tray that waits for a request does
  not look, so that prompt's end is never told. A "seen" that comes after its own
  "closed" counts the prompt again.

## Proofs

Every theorem holds for all values of the constants that satisfy the named
assumptions, and every proof is checked to its last leaf.

`JitServerProofs`, from `JitServerAssumption` (finitely many users,
SIDs are users, the empty string is no user or group, durations positive):

* `TypeCorrect`: `Spec => []TypeOK`. The invariant is `TypeInv`, the types with
  the finiteness of the table: `InSomeOrder` is a sequence only of finitely many
  pushes, and the library's `SetToSeqs` says nothing about infinite sets.
* `EndIsFinal`: `EndedStaysEnded`, from the types and one lemma per operator that
  writes the table.
* `OneWindow` and `ExpiryIsDue`: `OneActiveWindow` and `ExpiredWasDue`. The
  inductive invariant `LedgerInv` is both with the types. The interesting case is
  `OpenWindow`: the row is refused when `ActiveJit(Swept)` is not empty, and a
  personal window is *unique* only because after the sweep every active row is
  unexpired, so "no unexpired covering row" means "no active one".
* `AccessStable` and `EndAnnounced`: `AccessIsStable` and `EndIsAnnounced`, from the
  types. The first rests on `activeJit` reading the snapshot, not the directory, and
  not looking at a row that is due whether it was swept or not; the second on the
  fan-out being a permutation of all pushes, which is appended.

`JitSystemProofs`, from `JitSystemAssumption` (of it: the PC is a device, tickets have a
life, and no nonce is the id of a grant: a launch draws a UUID of its own, and the
nonce of a push is the id of its grant with the user appended):

* `SystemImplementsServer`: every step of console, PC, threads and faults is a step of
  `JitServer` or leaves its variables alone. `RulesCarryOver` says so of the five
  theorems above.
* `SystemTypeCorrect`, `OnlyCoveredAdmins` and `OverrunIsBounded`: `SystemTypeOK`,
  `OnlyCoveredUsersAdmin` and `BoundedOverrun`. A window is followed from the row to the push on the
  wire (`WireInv`: a grant that is pushed is of a row of that device, covers its
  user and ends when the row does), to the thread that holds it and to file, task and
  group (`PCInv`). None of the three is inductive: a push may be handled after its row
  ended, so the invariant says *covered at some time*, and rows are never lost.
* `EveryWindowAudited`: `LedgerAudited`. It is what the assumption on nonces is for:
  the id in a `jit-expired` report is never a row's, so no report ends a row.
* `ReportsEndNothing`: stronger, as a property of steps: a report leaves rows, log and
  pushes alone. What a thread of the PC holds is a window with a nonce (`AgentInv`).
* `RevokeIsArmed`: `LocalRevokeArmed`, if `OneUserOneThread`: one user, no launch under
  the window, no faults. Without any of the three the code does not keep it
  (`jit_two_users`, `jit_launch_shortens`, and the hazard at `JitPush.cs:23`). `LocalInv` says what each thread has yet to do.

`FleetProofs`, from the assumptions of `Fleet`, for any versions and number of faults:

* `RowIsTruthful`: `RowTellsTruth`. Nothing queued for a device that listens
  (`QueuedIsOffline`) is inductive only with the types; that a PC called current is so
  needs `PcAdvances`, that no PC goes back to an older client.
* `PushedOnce`: `NoRepush`, by one lemma about the four places that push.

`ApplyProofs`, for any requests, updaters, targets, callers and releases:

* `UpdatePromiseIsSafe` and `NetPromiseIsSafe`: the safety half of both refinements of
  `ApplyPromise`: the phase starts idle, and every step of the program is a step of the
  promise or a stutter. `UpdateInv` says that an updater that is gone holds nothing,
  that one process writes a log, that requests have ended when an updater writes, and that the success line
  is the last one. `NetInv` is what *Findings* tells of: the line that tells of
  success is never the one the parser looks for. The liveness half stays with TLC.
* `AppliedIsNeverReported` and `RunningIsUnguarded`: what follows from that line and from
  the updater's first one (`UpdaterUnseen`), which nobody writes as the parser wants it:
  no change of settings is ever reported as made, whatever reads "running" may be
  abandoned, and what was quiet reads "stale".
* `HeldLogLocks`: `HeldLogIsALock`, if `OneAtATime` (at most one request; any number
  of updaters left running). `ActiveLogs`: a request at work has the log open.
* `AnnouncedApart` and `AnnouncedOnlyOnce`: `AnnouncementsApart`, a version is not
  announced twice within `AuditWindow` announcements of the log, since
  `hasAnnouncedBefore` looks that far back and pruning takes the oldest rows only. What the
  comment in the code says, once per version, then holds of the log if no more versions than
  that can be announced (`FewVersions`); without that hypothesis it is false.

`ConsoleProofs`, for parts that share no state:

* `RefusalsHold`: `RefusalHolds`, from `LimitsArePositive` and `AddressIsNoUser` (the
  keys are `ip` and `ip::user`). `LimiterInv` ties the last answer to the buckets: what
  was told is the longer of two cool-downs, and nothing but a tick shortens one.
* `PromptsCountedOnce`: `CountedOnce`, for any finite set of prompts. `CountInv` counts
  twice: what is counted beyond the first is paid for by a closing or a silence, and a
  row that would count the next appearance has been paid one ahead.
* `OnlyTheirsMove`: `OnlyTheirDevicesMove`, from `NamesAreOrdered`. `PolicyInv` says that
  there are finitely many groups and that no two share a name; so one comes first
  (`OneComesFirst`, by well-foundedness of finite sets), and if the deciding group changes
  though neither the old nor the new one was touched, the two would be in one place.
* `NoUrlGoesRound`: `EveryUrlLands`, in every state whatever.
* `GivenAddressesFit`: `AddressesFit`, for any ports and addresses, from
  `AddressesAreForOthers` (`advertisedIpv4Addresses` leaves internal interfaces out).
* `PagesAreTrue`: `PagesTellTheEngine`, for any rules, groups and programs (both its halves,
  `PreviewIsEngine` and `OnAllowlistIsAllowed`). `AllowsNothingElse`: `AllowIsExact`,
  from `FilesHaveNames`.
* `NoPageIsForgotten`: `PageWillHear`, for any sockets and number of upsets. `HubInv` is the
  property with the types of page and setting: whatever changes what a page would be drawn
  with is announced in the same step, so every open page then has an event on the way, and
  a page that is not open will be replayed the buffer, which holds one.

`ApprovalProofs`, from `RequestServerAssumption` (of it, that there are finitely many request
ids; handlers, users, files may be any number) and `ApprovalAssumption` ("nobody" is no
handler). None of the invariants is inductive; `TypeInv` and five strengthenings over it
carry them:

* `TypeInv` is the types with `WireTypes`: an answer on the wire belongs to exactly
  one handler that is still in its RPC, and only while connected. Without it the
  receive loop could complete a handler that has gone on, and the types of that
  handler would be lost. It gives `ApprovalTyping`.
* `LedgerInv` (`QuestionsAreOneRow`, `DecisionsAreAudited`): one pending row per
  question, the audit and the rows agree on what was decided, and every entry is about
  a row there is.
* `StandInv` (`ProgramsWereTheSame`): what a handler holds or an answer on the wire stands
  for had, when it was asked about, the hash of its row, and a file with that hash was
  found under the path of every remembered job and every start. The row a handler joins
  may be another path's; the hash is what agrees, and a waiter starts only the row's own path. That
  the bytes started are those approved takes a condition the code does not check, that no
  file is replaced under its path (`NeverReplaced`, `UnreplacedProgramsAreTheSame`).
* `TruthInv`: a ticket on the wire is of an approved row, a denial of a denied one.
* `OnceInv`, over `TruthInv` (`OpenedOnceForEach`, `OneShotForOneHandler`,
  `ApprovalIsThePromise`): no two tickets of one request are on the wire, nothing was opened
  for the request of a ticket that is still there, and what was opened is approved. A
  ticket is sent in the step that decides its row, and a row is decided once; so handling a
  ticket is the one moment `ApprovalPromise` has for it, and every other step is an
  asking, a deciding or a stutter.
* `HearInv` (`WaitersWillHear`): whoever waits has a row that is still pending or
  the news of it ahead on the wire, and an answer that will make a handler wait has
  that news behind it: the order of the one socket is what the argument rests on.
* `CallsNeverGoBack`, from the types: whoever takes a step, a call that was asked stays
  where it is, comes nearer its end or has ended, for the same user and program. It is
  the safety half of `CallsEnd`; that each of its at most four moves is made is fairness.

`AccessProofs`, from the assumptions of `Access`: `AccessTyping`, `AccessRolesExist`
(roles are checked at the edit and refused at the deletion) and `AccessKeepsAMaster`. The
lemma behind both is that a patch, whichever of its fields it carries and at
whichever the route gives up, leaves each user with roles that exist and at least
one enabled administrator (`PatchedRolesExist`, `PatchedKeepsAMaster`).

`MaintenanceWindow` proves `WindowIsCircular` (for every schedule and every minute, the code's two
modulo bounds mean a circular distance), and from it `WindowNear`.

What stays with TLC: liveness (`AdminEnds`, `CallsEnd`, `DevicesCatchUp`, `PageRecovers`,
`SamePortRecovers`, `PageCatchesUp`, `TrayIsServed` and that half of the two refinements of
`ApplyPromise` which promises an end: the prover has neither fairness nor ENABLED).
Every safety property that a passing run checks is stated by a theorem, and of the
refinements of `ApplyPromise` the safety half.
Nothing needs induction over data, and no module declares a RECURSIVE operator.

## Not modelled, and why

* Cryptography: a signature is sound and a ticket says what was signed; keys have no
  protocol state.
* Enrollment: one synchronous insert or update by host name, with no state between two
  requests.
* Mail: fire and forget, its outcome is read by nothing.
* The database handle: SQLite is synchronous, so every statement, and every handler
  between two awaits, is atomic. All modules use this.
* LDAP and Graph: I/O; their effect is `SyncDirectory`, any rewrite of the memberships.
* Export of the audit log and its retention but for announcements, the order of the shutdown hooks, reconnect
  back-off, packaging: see the notes in `PROJECT.json`.
* Which program a Windows prompt is for and how it ended: heuristics over live
  windows. `UacPrompts` takes the first as right and leaves the second free.
* Windows Installer and the Task Scheduler are modelled from how the code uses them.
* Lists, filters and dashboards read only; wording and layout have no property.
* A component is *partly* modelled when one of its operations that changes state is
  no action yet; its note says which.

## Checking

`tlc -config <run>.cfg <module>` for each row of `runs` in `PROJECT.json`;
`tlapm <module>.tla` for `JitServerProofs`, `JitSystemProofs`, `ApprovalProofs`, `AccessProofs`,
`FleetProofs`, `ApplyProofs`, `ConsoleProofs` and `MaintenanceWindow` (`ApprovalProofs` is
the long one, about two minutes).
