------------------------------ MODULE JitServer ------------------------------
(***************************************************************************)
(* The console's half of just-in-time administration: the jit_grants table *)
(* (src/lib/db/jit.ts), the expiry sweep (src/lib/jit-expiry.ts), the      *)
(* routes that open and revoke a window, the two agent RPCs that touch the *)
(* table, and the device side of the realtime bus the pushes leave on.     *)
(*                                                                         *)
(* The console is one Node process on a synchronous SQLite driver, so a    *)
(* handler runs to its next await without interruption; every handler here *)
(* is synchronous once its body is parsed, hence one action each.          *)
(***************************************************************************)
EXTENDS Integers, Sequences, FiniteSets, SequencesExt

CONSTANTS
  User,       \* directory rows (users are never deleted outside demo data)
  Sid,        \* those that carry an AD SID; the rest are Entra-only
  Group,      \* directory groups
  Device,     \* enrolled PCs
  GrantId,    \* ids randomUUID may return
  NoOne,      \* the empty string in user_id, group_id and userSid
  Durations,  \* window lengths on offer (15 to 60 minutes), in clock units
  Horizon,    \* BOUND: the clock stops here and no window reaches past it
  MaxWire     \* BOUND: undelivered pushes per device

ASSUME JitServerAssumption ==
  /\ IsFiniteSet(User)
  /\ Sid \subseteq User
  /\ NoOne \notin User \cup Group
  /\ Durations \subseteq Nat \ {0}
  /\ Horizon \in Nat
  /\ MaxWire \in Nat

VARIABLES
  now,        \* the console's clock
  members,    \* group_members: the live directory, rewritten by every sync
  grants,     \* jit_grants, keyed by id
  audit,      \* audit entries about grants: <<action, grant id>>
  connected,  \* devices with a ready socket in the hub
  wire        \* pushes sent to a device and not yet handled by its agent

jitVars == <<now, members, grants, audit, connected, wire>>

Status == {"active", "expired", "revoked"}

Grant == [user    : User \cup {NoOne},
          group   : Group \cup {NoOne},
          members : SUBSET User,
          dev     : Device,
          exp     : Nat,
          status  : Status]

GrantPush  == [type : {"jit-grant"}, grant : GrantId, user : User, exp : Nat]
RevokePush == [type : {"jit-revoke"}, grant : GrantId, user : User \cup {NoOne}]
Push == GrantPush \cup RevokePush

AuditEntry == {"jit.grant", "jit.revoke", "jit.expired"} \X GrantId

TypeOK ==
  /\ now \in Nat
  /\ members \in [Group -> SUBSET User]
  /\ DOMAIN grants \subseteq GrantId
  /\ \A g \in DOMAIN grants : grants[g] \in Grant
  /\ grants = [g \in DOMAIN grants |-> grants[g]]
  /\ audit \subseteq AuditEntry
  /\ connected \in [Device -> BOOLEAN]
  /\ wire \in [Device -> Seq(Push)]

-----------------------------------------------------------------------------
(* The table. Each operator takes the table as it stands when it is read,  *)
(* because a handler reads it again after it has swept it.                 *)

\* MUTANT: membership resolved from the live directory.
CoversLive(r, u) == r.user = u \/ (r.group # NoOne /\ u \in members[r.group])

Covers(r, u) == r.user = u \/ u \in r.members

\* The rows activeJit selects and does not skip, whatever their expiry.
Covering(t, u, d) ==
  {g \in DOMAIN t : t[g].status = "active" /\ t[g].dev = d /\ Covers(t[g], u)}

\* MUTANT: the expiry is not looked at.
ActiveJitAnyExpiry(t, u, d) == Covering(t, u, d)

\* The unexpired ones: activeJit returns the latest of them, if there is one.
ActiveJit(t, u, d) == {g \in Covering(t, u, d) : t[g].exp > now}

\* Rows come latest expiry first and the walk stops at the first unexpired
\* one, so a row is flipped on the way only when none is unexpired.
LapsedOnRead(t, u, d) == IF ActiveJit(t, u, d) = {} THEN Covering(t, u, d) ELSE {}

\* MUTANT: a window counts only while its snapshot is the live membership.
ActiveGroupJitSameMembers(t, grp, d) ==
  {g \in DOMAIN t : /\ t[g].group = grp /\ t[g].dev = d /\ t[g].status = "active"
                    /\ t[g].members = members[grp]}

ActiveGroupJit(t, grp, d) ==
  {g \in DOMAIN t : t[g].group = grp /\ t[g].dev = d /\ t[g].status = "active"}

\* MUTANT: one unit early.
DueGrantsEarly(t) == {g \in DOMAIN t : t[g].status = "active" /\ t[g].exp <= now + 1}

DueGrants(t) == {g \in DOMAIN t : t[g].status = "active" /\ t[g].exp <= now}

WithStatus(t, ids, s) ==
  [g \in DOMAIN t |-> IF g \in ids THEN [t[g] EXCEPT !.status = s] ELSE t[g]]

WithRow(t, g, r) == [x \in DOMAIN t \cup {g} |-> IF x = g THEN r ELSE t[x]]

GrantIdentities(r) == IF r.group # NoOne THEN r.members ELSE {r.user} \ {NoOne}

-----------------------------------------------------------------------------
(* Pushes. A send to a device without a ready socket is dropped, and       *)
(* nothing sends it again.                                                 *)

GrantPushes(g, r) ==
  {[type |-> "jit-grant", grant |-> g, user |-> u, exp |-> r.exp] : u \in GrantIdentities(r)}

\* MUTANT: no fan-out over a group's snapshot.
RevokePushesUserOnly(g, r) ==
  {[type |-> "jit-revoke", grant |-> g, user |-> IF r.user \in Sid THEN r.user ELSE NoOne]}

\* One push per SID, or one with an empty SID when no identity has one.
RevokePushes(g, r) ==
  LET sids == GrantIdentities(r) \cap Sid
  IN  {[type |-> "jit-revoke", grant |-> g, user |-> u] :
        u \in IF sids = {} THEN {NoOne} ELSE sids}

\* The messages of a fan-out leave in row order, which is any order.
InSomeOrder(msgs) == SetToSeqs(msgs)

Sent(d, q) == IF connected[d] THEN wire[d] \o q ELSE wire[d]

SweepPushes(d) ==
  UNION {RevokePushes(g, grants[g]) : g \in {x \in DueGrants(grants) : grants[x].dev = d}}

SweepBatches ==
  {b \in [Device -> UNION {InSomeOrder(SweepPushes(d)) : d \in Device}] :
     \A d \in Device : b[d] \in InSomeOrder(SweepPushes(d))}

RoomOnWire(d) == Len(wire[d]) < MaxWire

-----------------------------------------------------------------------------
Init ==
  /\ now = 0
  /\ members \in [Group -> SUBSET User]
  /\ grants = [g \in {} |-> {}]
  /\ audit = {}
  /\ connected = [d \in Device |-> FALSE]
  /\ wire = [d \in Device |-> <<>>]

AdvanceClock ==
  /\ now < Horizon
  /\ now' = now + 1
  /\ UNCHANGED <<members, grants, audit, connected, wire>>

\* replaceGroups: a directory sync rewrites every membership of its source.
SyncDirectory ==
  /\ \E m \in [Group -> SUBSET User] : members' = m
  /\ UNCHANGED <<now, grants, audit, connected, wire>>

Connect(d) ==
  /\ ~connected[d]
  /\ connected' = [connected EXCEPT ![d] = TRUE]
  /\ UNCHANGED <<now, members, grants, audit, wire>>

\* What was on the socket when it dropped is gone.
Disconnect(d) ==
  /\ connected[d]
  /\ connected' = [connected EXCEPT ![d] = FALSE]
  /\ wire' = [wire EXCEPT ![d] = <<>>]
  /\ UNCHANGED <<now, members, grants, audit>>

-----------------------------------------------------------------------------
(* expireDueJit: flip what is due, audit each, tell the connected devices. *)
Swept == WithStatus(grants, DueGrants(grants), "expired")

SweepAudit == {<<"jit.expired", g>> : g \in DueGrants(grants)}

\* GET /api/jit, GET /api/devices and the console pages that list windows.
\* A POST /api/jit that is refused has this effect and no other.
ExpireDueJit ==
  /\ \A d \in Device : RoomOnWire(d)
  /\ grants' = Swept
  /\ audit' = audit \cup SweepAudit
  /\ \E b \in SweepBatches : wire' = [d \in Device |-> Sent(d, b[d])]
  /\ UNCHANGED <<now, members, connected>>

\* POST /api/jit once createJit has accepted row r: sweep, insert, audit and
\* push one ticket per covered identity.
OpenWindow(g, r) ==
  /\ g \notin DOMAIN grants
  /\ r.exp <= Horizon
  /\ \A d \in Device : RoomOnWire(d)
  /\ grants' = WithRow(Swept, g, r)
  /\ audit' = audit \cup SweepAudit \cup {<<"jit.grant", g>>}
  /\ \E b \in SweepBatches, q \in InSomeOrder(GrantPushes(g, r)) :
       wire' = [d \in Device |-> Sent(d, IF d = r.dev THEN b[d] \o q ELSE b[d])]
  /\ UNCHANGED <<now, members, connected>>

CreateJitUser(g, u, d, dur) ==
  /\ ActiveJit(Swept, u, d) = {}
  /\ OpenWindow(g, [user |-> u, group |-> NoOne, members |-> {}, dev |-> d,
                    exp |-> now + dur, status |-> "active"])

CreateJitGroup(g, grp, d, dur) ==
  /\ members[grp] # {}
  /\ ActiveGroupJit(Swept, grp, d) = {}
  /\ OpenWindow(g, [user |-> NoOne, group |-> grp, members |-> members[grp], dev |-> d,
                    exp |-> now + dur, status |-> "active"])

\* MUTANT: the status is not looked at.
RevokedAnyway(t, g) == WithStatus(t, {g}, "revoked")

\* revokeJit leaves a row that is no longer active as it is.
Revoked(t, g) == IF t[g].status = "active" THEN WithStatus(t, {g}, "revoked") ELSE t

\* POST /api/jit/[id]/revoke audits and pushes whatever the row's status.
RevokeWindow(g) ==
  /\ g \in DOMAIN grants
  /\ RoomOnWire(grants[g].dev)
  /\ grants' = Revoked(grants, g)
  /\ audit' = audit \cup {<<"jit.revoke", g>>}
  /\ \E q \in InSomeOrder(RevokePushes(g, grants[g])) :
       wire' = [wire EXCEPT ![grants[g].dev] = Sent(grants[g].dev, q)]
  /\ UNCHANGED <<now, members, connected>>

\* The jit-state RPC flips every due row, of any device, before it answers:
\* no audit entry and no push.
JitStateRpc(d) ==
  /\ connected[d]
  /\ grants' = Swept
  /\ UNCHANGED <<now, members, audit, connected, wire>>

\* GET /api/agent/jit-state, evaluate and silent-allow call activeJit, which
\* flips on the way: no audit entry and no push.
ReadActiveJit(u, d) ==
  /\ grants' = WithStatus(grants, LapsedOnRead(grants, u, d), "expired")
  /\ UNCHANGED <<now, members, audit, connected, wire>>

\* The jit-expired RPC: id is whatever the agent sent.
JitExpiredRpc(id, d) ==
  /\ connected[d]
  /\ grants' = IF id \in DOMAIN grants /\ grants[id].dev = d THEN Revoked(grants, id) ELSE grants
  /\ UNCHANGED <<now, members, audit, connected, wire>>

\* The agent takes the oldest push off its socket.
Receive(d) ==
  /\ wire[d] # <<>>
  /\ wire' = [wire EXCEPT ![d] = Tail(@)]
  /\ UNCHANGED <<now, members, grants, audit, connected>>

\* Everything the console does on its own account.
ConsoleStep ==
  \/ SyncDirectory
  \/ ExpireDueJit
  \/ \E g \in GrantId, u \in User, d \in Device, dur \in Durations : CreateJitUser(g, u, d, dur)
  \/ \E g \in GrantId, grp \in Group, d \in Device, dur \in Durations : CreateJitGroup(g, grp, d, dur)
  \/ \E g \in GrantId : RevokeWindow(g)
  \/ \E d \in Device : JitStateRpc(d)
  \/ \E u \in User, d \in Device : ReadActiveJit(u, d)

Next ==
  \/ ConsoleStep
  \/ AdvanceClock
  \/ \E d \in Device : Connect(d) \/ Disconnect(d) \/ Receive(d)
  \/ \E id \in GrantId, d \in Device : JitExpiredRpc(id, d)

Spec == Init /\ [][Next]_jitVars

-----------------------------------------------------------------------------
(* Properties.                                                             *)

HasAccess(u, d) == ActiveJit(grants, u, d) # {}

\* docs/SPEC.md criterion 5: one active window per user and device, and per
\* group and device (createJit). The refusal rests on the sweep that ran just
\* before it in the same handler, on activeJit's flips, and on activeGroupJit,
\* which does not look at the expiry at all.
OneActiveWindow ==
  \A g, h \in DOMAIN grants :
    /\ grants[g].status = "active" /\ grants[h].status = "active"
    /\ grants[g].dev = grants[h].dev
    /\ grants[g].user = grants[h].user /\ grants[g].group = grants[h].group
    => g = h

\* A row reads 'expired' only once its time has come, whichever of the four
\* code paths flipped it: the sweep, the jit-state RPC, a read on the way, or
\* the sweep that precedes a new window.
ExpiredWasDue ==
  \A g \in DOMAIN grants : grants[g].status = "expired" => grants[g].exp <= now

\* A window that ended keeps its end: a revoke that comes after the expiry, or
\* a late jit-expired RPC, does not rewrite it, and no row is ever lost.
EndedStaysEnded ==
  [][\A g \in DOMAIN grants :
       /\ g \in DOMAIN grants'
       /\ grants[g].status # "active" => grants'[g] = grants[g]]_jitVars

\* An end that enters the audit log is also put on the socket of a device that
\* is there to hear it, once for every covered user with a SID (jit-expiry.ts:
\* "group grants fan out one jit-revoke per snapshotted member SID").
EndIsAnnounced ==
  [][\A g \in DOMAIN grants :
       LET told(u) == \E i \in DOMAIN wire'[grants[g].dev] :
                        wire'[grants[g].dev][i] = [type |-> "jit-revoke", grant |-> g, user |-> u]
       IN  /\ {<<"jit.revoke", g>>, <<"jit.expired", g>>} \cap (audit' \ audit) # {}
           /\ connected[grants[g].dev]
           => \A u \in GrantIdentities(grants[g]) \cap Sid : told(u)]_jitVars

\* Who has access changes only when the clock moves, a window opens or a window
\* is revoked: never because somebody asked for the state, because the sweep
\* ran, or because the directory changed under a group window (the comment on
\* activeJit: membership is resolved from the snapshot).
AccessIsStable ==
  [][\/ now' # now
     \/ DOMAIN grants' # DOMAIN grants
     \/ \E g \in DOMAIN grants : grants[g].status = "active" /\ grants'[g].status = "revoked"
     \/ \A u \in User, d \in Device : HasAccess(u, d)' = HasAccess(u, d)]_jitVars
=============================================================================
