--------------------------- MODULE JitSystemProofs ---------------------------
(***************************************************************************)
(* Theorems about the console and one PC together, for every set of users, *)
(* groups, devices and grant ids, every ticket life and every choice of    *)
(* faults. The system is first shown to implement the console's own        *)
(* specification; what the PC holds is then traced to the rows it came     *)
(* from: from the row to the push on the wire, from the push to the thread *)
(* that applies it, from the thread to the armed file, task and group.     *)
(***************************************************************************)
EXTENDS JitSystem, JitServerProofs

-----------------------------------------------------------------------------
(* The rows of the console outlive every step.                             *)

\* A row keeps its device, its subjects and its expiry: only its status moves.
RowLasts(g) ==
  /\ g \in DOMAIN grants'
  /\ grants'[g].dev = grants[g].dev
  /\ grants'[g].user = grants[g].user
  /\ grants'[g].members = grants[g].members
  /\ grants'[g].exp = grants[g].exp

LEMMA RowsLast ==
  ASSUME TypeInv, [Next]_jitVars, NEW g \in DOMAIN grants
  PROVE  RowLasts(g)
<1>1. RowKept(g)  BY RowStep
<1>2. grants[g] \in Grant  BY DEF TypeInv, TypeOK
<1> QED BY <1>1, <1>2 DEF RowKept, RowLasts, Grant

\* Only opening a window adds a row, and it adds one that is active.
LEMMA NewRow ==
  ASSUME NEW k, NEW r, OpenWindow(k, r)
  PROVE  /\ DOMAIN grants' = DOMAIN grants \cup {k}
         /\ grants'[k] = r
         /\ audit' = audit \cup SweepAudit \cup {<<"jit.grant", k>>}
BY DEF OpenWindow, WithRow, Swept, WithStatus

-----------------------------------------------------------------------------
(* The wire. A device without a socket has nothing on it, and a jit-grant  *)
(* push tells the truth about a row of that device.                        *)

OfflineIsEmpty == \A d \in Device : ~connected[d] => wire[d] = <<>>

TruePush(t, d, m) ==
  m.type = "jit-grant" =>
    /\ m.grant \in DOMAIN t
    /\ t[m.grant].dev = d
    /\ Covers(t[m.grant], m.user)
    /\ m.exp = t[m.grant].exp

PushesTrue == \A d \in Device : \A i \in DOMAIN wire[d] : TruePush(grants, d, wire[d][i])

WireInv == OfflineIsEmpty /\ PushesTrue

\* Every message of a sequence in some order of M is one of M.
LEMMA OrderElements ==
  ASSUME NEW M, NEW q \in InSomeOrder(M), NEW i \in DOMAIN q
  PROVE  q[i] \in M
<1>1. q \in [1..Cardinality(M) -> M]  BY DEF InSomeOrder, SetToSeqs
<1> QED BY <1>1

LEMMA ConcatElements ==
  ASSUME NEW s \in Seq(Push), NEW q \in Seq(Push), NEW i \in DOMAIN (s \o q)
  PROVE  \/ \E j \in DOMAIN s : (s \o q)[i] = s[j]
         \/ \E j \in DOMAIN q : (s \o q)[i] = q[j]
<1>1. Len(s) \in Nat /\ Len(q) \in Nat /\ DOMAIN s = 1..Len(s) /\ DOMAIN q = 1..Len(q)
  OBVIOUS
<1>2. DOMAIN (s \o q) = 1..(Len(s) + Len(q))  BY ConcatProperties
<1>3. CASE i <= Len(s)
  <2>1. i \in DOMAIN s /\ (s \o q)[i] = s[i]  BY <1>1, <1>2, <1>3, ConcatProperties
  <2> QED BY <2>1
<1>4. CASE ~(i <= Len(s))
  <2>1. i - Len(s) \in DOMAIN q /\ (s \o q)[i] = q[i - Len(s)]  BY <1>1, <1>2, <1>4, ConcatProperties
  <2> QED BY <2>1
<1> QED BY <1>3, <1>4

\* A true push stays true: the row it names outlives every step.
LEMMA TruthLasts ==
  ASSUME TypeInv, [Next]_jitVars, NEW d \in Device, NEW m, TruePush(grants, d, m)
  PROVE  TruePush(grants', d, m)
<1> SUFFICES ASSUME m.type = "jit-grant"
             PROVE  TruePush(grants', d, m)
  BY DEF TruePush
<1>1. RowLasts(m.grant)  BY RowsLast DEF TruePush
<1> QED BY <1>1 DEF TruePush, RowLasts, Covers

\* What a device's wire becomes when a batch is sent to it.
LEMMA SentIsTrue ==
  ASSUME TypeInv, WireInv, [Next]_jitVars, NEW d \in Device, NEW q \in Seq(Push),
         \A j \in DOMAIN q : TruePush(grants', d, q[j]),
         NEW i \in DOMAIN Sent(d, q)
  PROVE  TruePush(grants', d, Sent(d, q)[i])
<1>1. wire[d] \in Seq(Push)  BY DEF TypeInv, TypeOK
<1>2. ASSUME NEW j \in DOMAIN wire[d]  PROVE TruePush(grants', d, wire[d][j])
  <2> DEFINE m == wire[d][j]
  <2>1. TruePush(grants, d, m)  BY DEF WireInv, PushesTrue
  <2> QED BY <2>1, TruthLasts
<1>3. CASE ~connected[d]  BY <1>2, <1>3 DEF Sent
<1>4. CASE connected[d]
  <2>1. Sent(d, q) = wire[d] \o q  BY <1>4 DEF Sent
  <2>2. i \in DOMAIN (wire[d] \o q)  BY <2>1
  <2>3. \/ \E j \in DOMAIN wire[d] : (wire[d] \o q)[i] = wire[d][j]
        \/ \E j \in DOMAIN q : (wire[d] \o q)[i] = q[j]
    BY <1>1, <2>2, ConcatElements
  <2> QED BY <1>2, <2>1, <2>3
<1> QED BY <1>3, <1>4

\* Pushes that end a window claim nothing about a row.
LEMMA RevokesAreTrue ==
  ASSUME NEW g, NEW r, NEW d, NEW m \in RevokePushes(g, r)
  PROVE  TruePush(grants', d, m)
<1>1. m.type = "jit-revoke"  BY DEF RevokePushes
<1> QED BY <1>1 DEF TruePush

LEMMA SweepIsTrue ==
  ASSUME NEW b \in SweepBatches, NEW d \in Device, NEW j \in DOMAIN b[d]
  PROVE  TruePush(grants', d, b[d][j])
<1>1. b[d] \in InSomeOrder(SweepPushes(d))  BY DEF SweepBatches
<1>2. b[d][j] \in SweepPushes(d)  BY <1>1, OrderElements
<1>3. PICK g \in DueGrants(grants) : b[d][j] \in RevokePushes(g, grants[g])  BY <1>2 DEF SweepPushes
<1> QED BY <1>3, RevokesAreTrue

LEMMA OpenWindowWire ==
  ASSUME TypeInv, WireInv, [Next]_jitVars, NEW g \in GrantId, NEW r \in Grant, OpenWindow(g, r)
  PROVE  WireInv'
<1>1. PICK b \in SweepBatches, q \in InSomeOrder(GrantPushes(g, r)) :
        wire' = [d \in Device |-> Sent(d, IF d = r.dev THEN b[d] \o q ELSE b[d])]
  BY DEF OpenWindow
<1>2. q \in Seq(Push)  BY GrantPushesFinite, OrderIsSeq
<1>3. \A d \in Device : b[d] \in Seq(Push) /\ b[d] \o q \in Seq(Push)
  BY <1>2, SweepBatchIsSeq, ConcatProperties
<1>4. connected' = connected  BY DEF OpenWindow
<1>5. OfflineIsEmpty'
  BY <1>1, <1>4 DEF WireInv, OfflineIsEmpty, Sent
<1>6. ASSUME NEW m \in GrantPushes(g, r)  PROVE TruePush(grants', r.dev, m)
  <2>1. g \in DOMAIN grants' /\ grants'[g] = r
    <3>1. DOMAIN grants' = DOMAIN grants \cup {g} /\ grants'[g] = r  BY NewRow
    <3> QED BY <3>1
  <2>2. m.grant = g /\ m.exp = r.exp /\ m.user \in GrantIdentities(r)  BY DEF GrantPushes
  <2>3. Covers(r, m.user)  BY <2>2 DEF GrantIdentities, Covers
  <2> QED BY <2>1, <2>2, <2>3 DEF TruePush, Covers
<1>7. ASSUME NEW j \in DOMAIN q  PROVE TruePush(grants', r.dev, q[j])
  <2>1. q[j] \in GrantPushes(g, r)  BY OrderElements
  <2> QED BY <1>6, <2>1
<1>8. ASSUME NEW d \in Device, NEW i \in DOMAIN wire'[d]
      PROVE  TruePush(grants', d, wire'[d][i])
  <2>1. CASE d = r.dev
    <3>1. wire'[d] = Sent(d, b[d] \o q)  BY <1>1, <2>1
    <3>2. ASSUME NEW j \in DOMAIN (b[d] \o q)  PROVE TruePush(grants', d, (b[d] \o q)[j])
      <4>1. \/ \E k \in DOMAIN b[d] : (b[d] \o q)[j] = b[d][k]
            \/ \E k \in DOMAIN q : (b[d] \o q)[j] = q[k]
        BY <1>2, <1>3, ConcatElements
      <4> QED BY <1>7, <2>1, <4>1, SweepIsTrue
    <3> QED BY <1>3, <3>1, <3>2, SentIsTrue
  <2>2. CASE d # r.dev
    <3>1. wire'[d] = Sent(d, b[d])  BY <1>1, <2>2
    <3> QED BY <1>3, <3>1, SweepIsTrue, SentIsTrue
  <2> QED BY <2>1, <2>2
<1> QED BY <1>5, <1>8 DEF WireInv, PushesTrue

LEMMA WireStep ==
  ASSUME TypeInv, WireInv, [Next]_jitVars
  PROVE  WireInv'
<1>a. \A d \in Device : wire[d] \in Seq(Push)  BY DEF TypeInv, TypeOK
<1>b. ASSUME NEW d \in Device, NEW i \in DOMAIN wire[d]  PROVE TruePush(grants', d, wire[d][i])
  <2> DEFINE m == wire[d][i]
  <2>1. TruePush(grants, d, m)  BY DEF WireInv, PushesTrue
  <2> QED BY <2>1, TruthLasts
<1>1. CASE UNCHANGED <<connected, wire>>
  BY <1>1, <1>b DEF WireInv, OfflineIsEmpty, PushesTrue
<1>2. CASE ExpireDueJit
  <2>1. PICK b \in SweepBatches : wire' = [d \in Device |-> Sent(d, b[d])]
    BY <1>2 DEF ExpireDueJit
  <2>2. OfflineIsEmpty'  BY <1>2, <2>1 DEF ExpireDueJit, WireInv, OfflineIsEmpty, Sent
  <2>3. ASSUME NEW d \in Device, NEW i \in DOMAIN wire'[d]
        PROVE  TruePush(grants', d, wire'[d][i])
    BY <2>1, SweepBatchIsSeq, SweepIsTrue, SentIsTrue
  <2> QED BY <2>2, <2>3 DEF WireInv, PushesTrue
<1>3. ASSUME NEW g \in GrantId, NEW u \in User, NEW d \in Device, NEW dur \in Durations,
             CreateJitUser(g, u, d, dur)
      PROVE  WireInv'
  <2> DEFINE r == [user |-> u, group |-> NoOne, members |-> {}, dev |-> d,
                   exp |-> now + dur, status |-> "active"]
  <2>1. r \in Grant
    BY JitServerAssumption DEF Grant, Status, TypeInv, TypeOK, JitServerAssumption
  <2>2. OpenWindow(g, r)  BY <1>3 DEF CreateJitUser
  <2> HIDE DEF r
  <2> QED BY <2>1, <2>2, OpenWindowWire
<1>4. ASSUME NEW g \in GrantId, NEW grp \in Group, NEW d \in Device, NEW dur \in Durations,
             CreateJitGroup(g, grp, d, dur)
      PROVE  WireInv'
  <2> DEFINE r == [user |-> NoOne, group |-> grp, members |-> members[grp], dev |-> d,
                   exp |-> now + dur, status |-> "active"]
  <2>1. r \in Grant
    BY JitServerAssumption DEF Grant, Status, TypeInv, TypeOK, JitServerAssumption
  <2>2. OpenWindow(g, r)  BY <1>4 DEF CreateJitGroup
  <2> HIDE DEF r
  <2> QED BY <2>1, <2>2, OpenWindowWire
<1>5. ASSUME NEW g \in GrantId, RevokeWindow(g)  PROVE WireInv'
  <2> DEFINE d == grants[g].dev
  <2>1. g \in DOMAIN grants /\ grants[g] \in Grant /\ d \in Device
    BY <1>5 DEF RevokeWindow, TypeInv, TypeOK, Grant
  <2>2. PICK q \in InSomeOrder(RevokePushes(g, grants[g])) :
          wire' = [wire EXCEPT ![d] = Sent(d, q)]
    BY <1>5 DEF RevokeWindow
  <2>3. q \in Seq(Push)  BY <2>1, RevokePushesFinite, OrderIsSeq
  <2>4. \A j \in DOMAIN q : TruePush(grants', d, q[j])  BY OrderElements, RevokesAreTrue
  <2>5. wire \in [Device -> Seq(Push)] /\ connected' = connected
    BY <1>5 DEF RevokeWindow, TypeInv, TypeOK
  <2>6. \A e \in Device : wire'[e] = IF e = d THEN Sent(d, q) ELSE wire[e]
    BY <2>1, <2>2, <2>5
  <2> HIDE DEF d
  <2>7. OfflineIsEmpty'  BY <2>5, <2>6 DEF WireInv, OfflineIsEmpty, Sent
  <2>8. ASSUME NEW e \in Device, NEW i \in DOMAIN wire'[e]
        PROVE  TruePush(grants', e, wire'[e][i])
    <3>1. CASE e = d
      <4>1. wire'[d] = Sent(d, q)  BY <2>1, <2>6
      <4>2. \A j \in DOMAIN Sent(d, q) : TruePush(grants', d, Sent(d, q)[j])
        BY <2>1, <2>3, <2>4, SentIsTrue
      <4> QED BY <3>1, <4>1, <4>2
    <3>2. CASE e # d
      <4>1. wire'[e] = wire[e]  BY <2>6, <3>2
      <4> QED BY <4>1, <1>b
    <3> QED BY <3>1, <3>2
  <2> QED BY <2>7, <2>8 DEF WireInv, PushesTrue
<1>6. ASSUME NEW d \in Device, Connect(d)  PROVE WireInv'
  BY <1>6, <1>b DEF Connect, WireInv, OfflineIsEmpty, PushesTrue, TypeInv, TypeOK
<1>7. ASSUME NEW d \in Device, Disconnect(d)  PROVE WireInv'
  <2>1. \A e \in Device : wire'[e] = IF e = d THEN <<>> ELSE wire[e]
    BY <1>7 DEF Disconnect, TypeInv, TypeOK
  <2>2. OfflineIsEmpty'  BY <1>7, <2>1 DEF Disconnect, WireInv, OfflineIsEmpty, TypeInv, TypeOK
  <2>3. PushesTrue'  BY <1>b, <2>1 DEF PushesTrue
  <2> QED BY <2>2, <2>3 DEF WireInv
<1>8. ASSUME NEW d \in Device, Receive(d)  PROVE WireInv'
  <2>1. \A e \in Device : wire'[e] = IF e = d THEN Tail(wire[e]) ELSE wire[e]
    BY <1>8 DEF Receive, TypeInv, TypeOK
  <2>2. wire[d] # <<>> /\ connected' = connected  BY <1>8 DEF Receive
  <2>3. OfflineIsEmpty'  BY <2>1, <2>2 DEF WireInv, OfflineIsEmpty
  <2>4. ASSUME NEW i \in DOMAIN Tail(wire[d])
        PROVE  TruePush(grants', d, Tail(wire[d])[i])
    <3>1. i + 1 \in DOMAIN wire[d] /\ Tail(wire[d])[i] = wire[d][i + 1]
      BY <1>a, <2>2, HeadTailProperties
    <3> QED BY <3>1, <1>b
  <2>5. PushesTrue'  BY <1>b, <2>1, <2>4 DEF PushesTrue
  <2> QED BY <2>3, <2>5 DEF WireInv
<1>9. CASE \/ AdvanceClock \/ SyncDirectory
           \/ \E d \in Device : JitStateRpc(d)
           \/ \E u \in User, d \in Device : ReadActiveJit(u, d)
           \/ \E id \in GrantId, d \in Device : JitExpiredRpc(id, d)
           \/ UNCHANGED jitVars
  <2>1. UNCHANGED <<connected, wire>>
    BY <1>9 DEF AdvanceClock, SyncDirectory, JitStateRpc, ReadActiveJit, JitExpiredRpc, jitVars
  <2> QED BY <1>1, <2>1
<1> QED BY <1>2, <1>3, <1>4, <1>5, <1>6, <1>7, <1>8, <1>9 DEF Next, ConsoleStep

-----------------------------------------------------------------------------
(* The system implements the console's own specification: whatever the     *)
(* agent does, the console sees the behaviours JitServer describes.        *)

\* A socket that drops takes its wire with it, and one that is not there has none.
LEMMA DropIsDisconnect ==
  ASSUME TypeInv, WireInv, DropSocket
  PROVE  [Next]_jitVars
<1>1. PC \in Device  BY JitSystemAssumption DEF JitSystemAssumption
<1>2. CASE connected[PC]
  <2>1. Disconnect(PC)  BY <1>2 DEF DropSocket, Disconnect
  <2> QED BY <1>1, <2>1 DEF Next
<1>3. CASE ~connected[PC]
  <2>1. connected[PC] = FALSE /\ wire[PC] = <<>>
    BY <1>1, <1>3 DEF WireInv, OfflineIsEmpty, TypeInv, TypeOK
  <2>2. connected' = connected  BY <1>1, <2>1 DEF DropSocket, TypeInv, TypeOK
  <2>3. wire' = wire  BY <1>1, <2>1 DEF DropSocket, TypeInv, TypeOK
  <2> QED BY <2>2, <2>3 DEF DropSocket, jitVars
<1> QED BY <1>2, <1>3

\* A report of an id that is no row's leaves the table alone.
LEMMA ReportIsRpc ==
  ASSUME TypeInv, NEW id, JitExpiredRpc(id, PC)
  PROVE  [Next]_jitVars
<1>1. PC \in Device  BY JitSystemAssumption DEF JitSystemAssumption
<1>2. CASE id \in GrantId  BY <1>1, <1>2 DEF Next
<1>3. CASE id \notin GrantId
  <2>1. id \notin DOMAIN grants  BY <1>3 DEF TypeInv, TypeOK
  <2> QED BY <2>1 DEF JitExpiredRpc, jitVars
<1> QED BY <1>2, <1>3

LEMMA SystemStep ==
  ASSUME TypeInv, WireInv, [SystemNext]_vars
  PROVE  [Next]_jitVars
<1>1. PC \in Device  BY JitSystemAssumption DEF JitSystemAssumption
<1>2. CASE SyncOrBrowse  BY <1>2 DEF SyncOrBrowse, Next
<1>3. CASE Tick  BY <1>3 DEF Tick, Next
<1>4. CASE Online  BY <1>1, <1>4 DEF Online, Next
<1>5. CASE Offline \/ ReceiveStaleGrant  BY <1>1, <1>5 DEF Offline, ReceiveStaleGrant, Next
<1>6. CASE ReceiveGrant \/ ReceiveRevoke  BY <1>1, <1>6 DEF ReceiveGrant, ReceiveRevoke, Next
<1>7. CASE \/ \E u \in Launchers : EvaluateUnderJit(u)
           \/ BrokerThread \/ Restart \/ UNCHANGED vars
  BY <1>7 DEF EvaluateUnderJit, BrokerThread, Restart, vars, jitVars
<1>8. CASE ReportExpired  BY <1>8, ReportIsRpc DEF ReportExpired
<1>9. CASE CrashService \/ LosePower  BY <1>9, DropIsDisconnect DEF CrashService, LosePower
<1> QED BY <1>2, <1>3, <1>4, <1>5, <1>6, <1>7, <1>8, <1>9 DEF SystemNext

ServerInv == TypeInv /\ WireInv

LEMMA ServerInvariant == SystemSpec => []ServerInv
<1>1. SystemInit => ServerInv
  <2> SUFFICES ASSUME Init PROVE ServerInv  BY DEF SystemInit
  <2>1. wire \in [Device -> Seq(Push)]  BY EmptySeq DEF Init
  <2>2. TypeInv  BY <2>1, FS_EmptySet DEF Init, TypeInv, TypeOK, FiniteTable
  <2>3. \A d \in Device : wire[d] = <<>>  BY DEF Init
  <2>4. WireInv  BY <2>3 DEF WireInv, OfflineIsEmpty, PushesTrue
  <2> QED BY <2>2, <2>4 DEF ServerInv
<1>2. ServerInv /\ [SystemNext]_vars => ServerInv'
  <2> SUFFICES ASSUME TypeInv, WireInv, [SystemNext]_vars PROVE ServerInv'  BY DEF ServerInv
  <2>1. [Next]_jitVars  BY SystemStep
  <2> QED BY <2>1, TypeStep, WireStep DEF ServerInv
<1> QED BY <1>1, <1>2, PTL DEF SystemSpec

\* Console and PC together implement JitServer: every step of the agent, of its
\* socket, of a crash or of a power cut is a step of the console's specification
\* or leaves the console's state as it is. What JitServerProofs shows of the
\* console alone therefore holds with a real agent behind the socket.
THEOREM SystemImplementsServer == SystemSpec => Spec
<1>1. SystemInit => Init  BY DEF SystemInit
<1>2. ServerInv /\ [SystemNext]_vars => [Next]_jitVars  BY SystemStep DEF ServerInv
<1> QED BY <1>1, <1>2, ServerInvariant, PTL DEF SystemSpec, Spec

\* The console's rules hold with the agent in the loop: one window per target,
\* no early expiry, no rewritten end, no access lost or gained by a read, and no
\* audited end that a connected device is not told of.
THEOREM RulesCarryOver ==
  SystemSpec => /\ []OneActiveWindow
                /\ []ExpiredWasDue
                /\ EndedStaysEnded
                /\ AccessIsStable
                /\ EndIsAnnounced
BY SystemImplementsServer, OneWindow, ExpiryIsDue, EndIsFinal, AccessStable, EndAnnounced, PTL

-----------------------------------------------------------------------------
(* Type correctness of the PC.                                             *)

\* What a thread holds while it is not idle is a window.
LEMMA ThreadWindow ==
  ASSUME Agent!AgentTypeOK
  PROVE  /\ rx.step = "arm" => rx.win \in Agent!Window
         /\ pipe.step \in {"add", "arm"} => pipe.win \in Agent!Window
         /\ loop.step \in {"remove", "delete", "report"} => loop.win \in Agent!Window
BY DEF Agent!AgentTypeOK, Agent!Idle

\* The push at the head of the wire, when it opens a window, is one of JitServer's.
LEMMA NextPushType ==
  ASSUME TypeInv, wire[PC] # <<>>, NextPush.type = "jit-grant"
  PROVE  NextPush \in GrantPush
<1>1. wire[PC] \in Seq(Push)
  BY JitSystemAssumption DEF JitSystemAssumption, TypeInv, TypeOK
<1>2. NextPush \in Push  BY <1>1, HeadTailProperties DEF NextPush
<1> QED BY <1>2 DEF Push, RevokePush

AgentInv == Agent!AgentTypeOK /\ launches \in 0..MaxLaunches

LEMMA AgentTypeStep ==
  ASSUME TypeInv, AgentInv, [SystemNext]_vars
  PROVE  AgentInv'
<1> USE DEF AgentInv, Agent!AgentTypeOK, Agent!Idle, Agent!At
<1>1. CASE SyncOrBrowse \/ Online \/ Offline \/ ReceiveStaleGrant \/ UNCHANGED vars
  BY <1>1 DEF SyncOrBrowse, Online, Offline, ReceiveStaleGrant, agentSide, vars
<1>2. CASE Tick
  BY <1>2 DEF Tick, Agent!RunDueTasks
<1>3. CASE ReceiveGrant
  <2> DEFINE w == [nonce |-> PushNonce(NextPush.grant, NextPush.user),
                   sub |-> NextPush.user, exp |-> NextPush.exp]
  <2>1. NextPush \in GrantPush  BY <1>3, NextPushType DEF ReceiveGrant, Receive
  <2>2. w \in Agent!Window
    BY <2>1 DEF GrantPush, PushNonce, Nonce, Agent!Window
  <2>3. Agent!ApplyGrant(w) /\ launches' = launches  BY <1>3 DEF ReceiveGrant
  <2> HIDE DEF w
  <2> QED BY <2>2, <2>3 DEF Agent!ApplyGrant, Agent!AddMember
<1>4. CASE ReceiveRevoke
  BY <1>4 DEF ReceiveRevoke, Agent!ApplyRevoke, Agent!RemoveMember
<1>5. ASSUME NEW u \in Launchers, EvaluateUnderJit(u)
      PROVE  AgentInv'
  <2> DEFINE w == [nonce |-> LaunchNonce(launches + 1), sub |-> u, exp |-> now + TicketTtl]
  <2>1. launches + 1 \in 1..MaxLaunches /\ launches' = launches + 1
    BY <1>5, JitSystemAssumption DEF EvaluateUnderJit, JitSystemAssumption
  <2>2. now + TicketTtl \in Nat /\ u \in User
    BY JitSystemAssumption DEF JitSystemAssumption, TypeInv, TypeOK
  <2>3. w \in Agent!Window  BY <2>1, <2>2 DEF LaunchNonce, Nonce, Agent!Window
  <2>4. Agent!LaunchAnswered(w)  BY <1>5 DEF EvaluateUnderJit
  <2> HIDE DEF w
  <2> QED BY <2>1, <2>3, <2>4 DEF Agent!LaunchAnswered
<1>6. CASE BrokerThread
  <2>1. launches' = launches  BY <1>6 DEF BrokerThread
  <2>2. CASE Agent!ArmGranted  BY <2>1, <2>2 DEF Agent!ArmGranted, Agent!Arm
  <2>3. CASE Agent!ClearRevoked  BY <2>1, <2>3 DEF Agent!ClearRevoked, Agent!ClearArmed
  <2>4. CASE Agent!LaunchAdd  BY <2>1, <2>4 DEF Agent!LaunchAdd, Agent!AddMember
  <2>5. CASE Agent!LaunchArm  BY <2>1, <2>5 DEF Agent!LaunchArm, Agent!Arm
  <2>6. CASE Agent!TickDue  BY <2>1, <2>6 DEF Agent!TickDue
  <2>7. CASE Agent!TickRemove  BY <2>1, <2>7 DEF Agent!TickRemove, Agent!RemoveMember
  <2>8. CASE Agent!TickDelete  BY <2>1, <2>8 DEF Agent!TickDelete
  <2> QED BY <1>6, <2>2, <2>3, <2>4, <2>5, <2>6, <2>7, <2>8 DEF BrokerThread
<1>7. CASE ReportExpired
  BY <1>7 DEF ReportExpired, Agent!Reported
<1>8. CASE CrashService \/ LosePower
  BY <1>8 DEF CrashService, LosePower, DropSocket, Agent!Crash, Agent!PowerOff, Agent!ThreadsGone
<1>9. CASE Restart
  BY <1>9 DEF Restart, Agent!Boot, Agent!StartService
<1> QED BY <1>1, <1>2, <1>3, <1>4, <1>5, <1>6, <1>7, <1>8, <1>9 DEF SystemNext

SystemTypeInv == ServerInv /\ AgentInv

LEMMA SystemTypeInvariant == SystemSpec => []SystemTypeInv
<1>1. SystemInit => AgentInv
  BY JitSystemAssumption
     DEF SystemInit, JitSystemAssumption, Agent!AgentInit, AgentInv, Agent!AgentTypeOK, Agent!Idle
<1>2. ServerInv /\ AgentInv /\ [SystemNext]_vars => AgentInv'
  BY AgentTypeStep DEF ServerInv
<1>3. ServerInv /\ AgentInv <=> SystemTypeInv
  BY DEF SystemTypeInv
<1> QED BY <1>1, <1>2, <1>3, ServerInvariant, PTL DEF SystemSpec

\* Console, wire and PC keep their types: in particular every window a thread,
\* the file or a task holds is a real window for a real user.
THEOREM SystemTypeCorrect == SystemSpec => []SystemTypeOK
<1>1. SystemTypeInv => SystemTypeOK  BY DEF SystemTypeInv, SystemTypeOK, ServerInv, TypeInv, AgentInv
<1> QED BY <1>1, SystemTypeInvariant, PTL

-----------------------------------------------------------------------------
(* From a row to what the PC does about it. A window held anywhere on the  *)
(* PC is backed by a row of this PC that covers its user and outlasts it   *)
(* up to one ticket life. loop.win is not listed: what the watchdog took   *)
(* off the file is only ever removed.                                      *)

Covered(t, u) == \E g \in DOMAIN t : t[g].dev = PC /\ Covers(t[g], u)

Backed(t, w) ==
  \E g \in DOMAIN t : /\ t[g].dev = PC /\ Covers(t[g], w.sub)
                       /\ w.exp < t[g].exp + TicketTtl

PCInv ==
  /\ \A w \in Armed : Backed(grants, w)
  /\ rx.step = "arm" => Backed(grants, rx.win)
  /\ pipe.step \in {"add", "arm"} => Backed(grants, pipe.win)
  /\ \A u \in admins : Covered(grants, u)

\* A backed window is one of a covered user.
LEMMA BackedIsCovered ==
  ASSUME NEW w, Backed(grants, w)
  PROVE  Covered(grants, w.sub)
BY DEF Backed, Covered

\* What was backed, or covered, stays so.
LEMMA BackingLasts ==
  ASSUME TypeInv, [Next]_jitVars
  PROVE  /\ \A w : Backed(grants, w) => Backed(grants', w)
         /\ \A u : Covered(grants, u) => Covered(grants', u)
<1>1. \A g \in DOMAIN grants : RowLasts(g)  BY RowsLast
<1>2. ASSUME NEW w, Backed(grants, w)  PROVE Backed(grants', w)
  <2>1. PICK g \in DOMAIN grants : /\ grants[g].dev = PC /\ Covers(grants[g], w.sub)
                                   /\ w.exp < grants[g].exp + TicketTtl
    BY <1>2 DEF Backed
  <2>2. RowLasts(g)  BY <1>1
  <2>3. Covers(grants'[g], w.sub)  BY <2>1, <2>2 DEF RowLasts, Covers
  <2> QED BY <2>1, <2>2, <2>3 DEF RowLasts, Backed
<1>3. ASSUME NEW u, Covered(grants, u)  PROVE Covered(grants', u)
  <2>1. PICK g \in DOMAIN grants : grants[g].dev = PC /\ Covers(grants[g], u)
    BY <1>3 DEF Covered
  <2>2. RowLasts(g)  BY <1>1
  <2>3. Covers(grants'[g], u)  BY <2>1, <2>2 DEF RowLasts, Covers
  <2> QED BY <2>1, <2>2, <2>3 DEF RowLasts, Covered
<1> QED BY <1>2, <1>3

\* A push brings the PC a window that its row backs.
LEMMA PushIsBacked ==
  ASSUME TypeInv, WireInv, wire[PC] # <<>>, NextPush.type = "jit-grant"
  PROVE  Backed(grants, [nonce |-> PushNonce(NextPush.grant, NextPush.user),
                         sub |-> NextPush.user, exp |-> NextPush.exp])
<1>1. PC \in Device /\ TicketTtl \in Nat \ {0}
  BY JitSystemAssumption DEF JitSystemAssumption
<1>2. wire[PC] \in Seq(Push)  BY <1>1 DEF TypeInv, TypeOK
<1>3. 1 \in DOMAIN wire[PC] /\ NextPush = wire[PC][1]
  BY <1>2, HeadTailProperties DEF NextPush
<1>4. TruePush(grants, PC, NextPush)  BY <1>1, <1>3 DEF WireInv, PushesTrue
<1>5. NextPush.exp \in Nat  BY NextPushType DEF GrantPush
<1>6. NextPush.exp < NextPush.exp + TicketTtl  BY <1>1, <1>5
<1> QED BY <1>4, <1>6 DEF TruePush, Backed

\* A ticket that evaluate answers with outlives its window by less than its life.
LEMMA LaunchIsBacked ==
  ASSUME TypeInv, NEW u, ActiveJit(grants, u, PC) # {}, NEW n
  PROVE  Backed(grants, [nonce |-> n, sub |-> u, exp |-> now + TicketTtl])
<1>1. PICK g \in ActiveJit(grants, u, PC) : TRUE  OBVIOUS
<1>2. /\ g \in DOMAIN grants /\ grants[g].dev = PC /\ Covers(grants[g], u)
      /\ grants[g].exp > now
  BY DEF ActiveJit, Covering
<1>3. grants[g].exp \in Nat /\ now \in Nat  BY <1>2 DEF TypeInv, TypeOK, Grant
<1>4. now + TicketTtl < grants[g].exp + TicketTtl
  BY <1>2, <1>3, JitSystemAssumption DEF JitSystemAssumption
<1> QED BY <1>2, <1>4 DEF Backed

LEMMA PCStep ==
  ASSUME SystemTypeInv, PCInv, [SystemNext]_vars
  PROVE  PCInv'
<1>a. TypeInv /\ WireInv /\ Agent!AgentTypeOK  BY DEF SystemTypeInv, ServerInv, AgentInv
<1>b. [Next]_jitVars  BY <1>a, SystemStep
<1>c. /\ \A w : Backed(grants, w) => Backed(grants', w)
      /\ \A u : Covered(grants, u) => Covered(grants', u)
  BY <1>a, <1>b, BackingLasts
<1> USE DEF PCInv, Armed, Agent!Idle, Agent!At
<1>1. CASE SyncOrBrowse \/ Online \/ Offline \/ ReceiveStaleGrant \/ UNCHANGED vars
  BY <1>1, <1>c DEF SyncOrBrowse, Online, Offline, ReceiveStaleGrant, agentSide, vars
<1>2. CASE Tick
  BY <1>2, <1>c DEF Tick, Agent!RunDueTasks
<1>3. CASE ReceiveGrant
  <2> DEFINE w == [nonce |-> PushNonce(NextPush.grant, NextPush.user),
                   sub |-> NextPush.user, exp |-> NextPush.exp]
  <2>1. Backed(grants, w)  BY <1>3, <1>a, PushIsBacked DEF ReceiveGrant, Receive
  <2>2. Agent!ApplyGrant(w)  BY <1>3 DEF ReceiveGrant
  <2> HIDE DEF w
  <2>3. Covered(grants, w.sub)  BY <2>1, BackedIsCovered
  <2> QED BY <1>c, <2>1, <2>2, <2>3 DEF Agent!ApplyGrant, Agent!AddMember
<1>4. CASE ReceiveRevoke
  BY <1>4, <1>c DEF ReceiveRevoke, Agent!ApplyRevoke, Agent!RemoveMember
<1>5. ASSUME NEW u \in Launchers, EvaluateUnderJit(u)  PROVE PCInv'
  <2> DEFINE w == [nonce |-> LaunchNonce(launches + 1), sub |-> u, exp |-> now + TicketTtl]
  <2>1. Backed(grants, w)  BY <1>5, <1>a, LaunchIsBacked DEF EvaluateUnderJit
  <2>2. Agent!LaunchAnswered(w)  BY <1>5 DEF EvaluateUnderJit
  <2> HIDE DEF w
  <2> QED BY <1>c, <2>1, <2>2 DEF Agent!LaunchAnswered
<1>6. CASE BrokerThread
  <2>1. grants' = grants  BY <1>6 DEF BrokerThread, jitVars
  <2>2. CASE Agent!ArmGranted  BY <2>1, <2>2 DEF Agent!ArmGranted, Agent!Arm
  <2>3. CASE Agent!ClearRevoked  BY <2>1, <2>3 DEF Agent!ClearRevoked, Agent!ClearArmed
  <2>4. CASE Agent!LaunchAdd
    <3>1. Covered(grants, pipe.win.sub)  BY <2>4, BackedIsCovered DEF Agent!LaunchAdd
    <3> QED BY <2>1, <2>4, <3>1 DEF Agent!LaunchAdd, Agent!AddMember
  <2>5. CASE Agent!LaunchArm  BY <2>1, <2>5 DEF Agent!LaunchArm, Agent!Arm
  <2>6. CASE Agent!TickDue  BY <2>1, <2>6 DEF Agent!TickDue
  <2>7. CASE Agent!TickRemove  BY <2>1, <2>7 DEF Agent!TickRemove, Agent!RemoveMember
  <2>8. CASE Agent!TickDelete  BY <2>1, <2>8 DEF Agent!TickDelete
  <2> QED BY <1>6, <2>2, <2>3, <2>4, <2>5, <2>6, <2>7, <2>8 DEF BrokerThread
<1>7. CASE ReportExpired
  BY <1>7, <1>c DEF ReportExpired, Agent!Reported
<1>8. CASE CrashService \/ LosePower
  BY <1>8, <1>c DEF CrashService, LosePower, Agent!Crash, Agent!PowerOff, Agent!ThreadsGone
<1>9. CASE Restart
  BY <1>9, <1>c DEF Restart, Agent!Boot, Agent!StartService
<1> QED BY <1>1, <1>2, <1>3, <1>4, <1>5, <1>6, <1>7, <1>8, <1>9 DEF SystemNext

LEMMA PCInvariant == SystemSpec => []PCInv
<1>1. SystemInit => PCInv
  BY DEF SystemInit, Agent!AgentInit, PCInv, Armed, Agent!Idle
<1>2. SystemTypeInv /\ PCInv /\ [SystemNext]_vars => PCInv'  BY PCStep
<1> QED BY <1>1, <1>2, SystemTypeInvariant, PTL DEF SystemSpec

\* No schedule of pushes, launches, revokes, crashes, power cuts and clock makes
\* a local administrator of a user whom no window of this PC ever covered.
THEOREM OnlyCoveredAdmins == SystemSpec => []OnlyCoveredUsersAdmin
<1>1. PCInv => OnlyCoveredUsersAdmin  BY DEF PCInv, Covered, OnlyCoveredUsersAdmin
<1> QED BY <1>1, PCInvariant, PTL

\* What the PC holds armed ends less than one launch ticket after a window of
\* this PC that covers its user, whatever the ticket's life is set to.
THEOREM OverrunIsBounded == SystemSpec => []BoundedOverrun
<1>1. PCInv => BoundedOverrun  BY DEF PCInv, Backed, BoundedOverrun
<1> QED BY <1>1, PCInvariant, PTL

-----------------------------------------------------------------------------
(* The audit log. A row enters the table with its entry, and of the four   *)
(* paths that end one only the console's own revoke writes 'revoked': a    *)
(* jit-expired report carries a nonce, and a nonce is no row's id.         *)

AuditedRow(t, log, g) ==
  /\ <<"jit.grant", g>> \in log
  /\ t[g].status = "revoked" => <<"jit.revoke", g>> \in log

\* A row that the console may have expired, and nothing more, stays audited.
LEMMA ExpiringKeepsAudit ==
  ASSUME TypeInv, LedgerAudited, NEW ids, audit \subseteq audit',
         grants' = WithStatus(grants, ids, "expired")
  PROVE  LedgerAudited'
<1> SUFFICES ASSUME NEW g \in DOMAIN grants'
             PROVE  AuditedRow(grants', audit', g)
  BY DEF LedgerAudited, AuditedRow
<1>1. g \in DOMAIN grants /\ grants[g] \in Grant  BY DEF WithStatus, TypeInv, TypeOK
<1>2. AuditedRow(grants, audit, g)  BY <1>1 DEF LedgerAudited, AuditedRow
<1>3. \/ grants'[g] = grants[g]
      \/ grants'[g] = [grants[g] EXCEPT !.status = "expired"]
  BY <1>1 DEF WithStatus
<1>4. grants'[g].status = "revoked" => grants[g].status = "revoked"
  BY <1>1, <1>3 DEF Grant
<1> QED BY <1>2, <1>4 DEF AuditedRow

\* A new window comes with its entry and is active.
LEMMA OpeningKeepsAudit ==
  ASSUME TypeInv, LedgerAudited, NEW k, NEW r, OpenWindow(k, r), r.status = "active"
  PROVE  LedgerAudited'
<1> SUFFICES ASSUME NEW g \in DOMAIN grants'
             PROVE  AuditedRow(grants', audit', g)
  BY DEF LedgerAudited, AuditedRow
<1>1. /\ DOMAIN grants' = DOMAIN grants \cup {k} /\ grants'[k] = r
      /\ audit' = audit \cup SweepAudit \cup {<<"jit.grant", k>>}
  BY NewRow
<1>2. CASE g = k  BY <1>1, <1>2 DEF AuditedRow
<1>3. CASE g # k
  <2>1. g \in DOMAIN grants /\ grants[g] \in Grant  BY <1>1, <1>3 DEF TypeInv, TypeOK
  <2>2. grants'[g] = Swept[g]  BY <1>3, <2>1, SweptRow DEF OpenWindow, WithRow
  <2>3. grants'[g].status = "revoked" => grants[g].status = "revoked"
    BY <2>1, <2>2, SweptRow DEF Grant
  <2> QED BY <1>1, <2>1, <2>3 DEF LedgerAudited, AuditedRow
<1> QED BY <1>2, <1>3

LEMMA ConsoleKeepsAudit ==
  ASSUME TypeInv, LedgerAudited, ConsoleStep
  PROVE  LedgerAudited'
<1>1. CASE SyncDirectory  BY <1>1 DEF SyncDirectory, LedgerAudited
<1>2. CASE ExpireDueJit \/ \E d \in Device : JitStateRpc(d)
  <2>1. grants' = WithStatus(grants, DueGrants(grants), "expired") /\ audit \subseteq audit'
    BY <1>2 DEF ExpireDueJit, JitStateRpc, Swept
  <2> QED BY <2>1, ExpiringKeepsAudit
<1>3. ASSUME NEW g \in GrantId, NEW u \in User, NEW d \in Device, NEW dur \in Durations,
             CreateJitUser(g, u, d, dur)
      PROVE  LedgerAudited'
  BY <1>3, OpeningKeepsAudit DEF CreateJitUser
<1>4. ASSUME NEW g \in GrantId, NEW grp \in Group, NEW d \in Device, NEW dur \in Durations,
             CreateJitGroup(g, grp, d, dur)
      PROVE  LedgerAudited'
  BY <1>4, OpeningKeepsAudit DEF CreateJitGroup
<1>5. ASSUME NEW h \in GrantId, RevokeWindow(h)  PROVE LedgerAudited'
  <2> SUFFICES ASSUME NEW g \in DOMAIN grants'
               PROVE  AuditedRow(grants', audit', g)
    BY DEF LedgerAudited, AuditedRow
  <2>1. h \in DOMAIN grants /\ grants' = Revoked(grants, h)
        /\ audit' = audit \cup {<<"jit.revoke", h>>}
    BY <1>5 DEF RevokeWindow
  <2>2. g \in DOMAIN grants  BY <2>1 DEF Revoked, WithStatus
  <2>3. g = h \/ grants'[g] = grants[g]  BY <2>1, <2>2 DEF Revoked, WithStatus
  <2> QED BY <2>1, <2>2, <2>3 DEF LedgerAudited, AuditedRow
<1>6. ASSUME NEW u \in User, NEW d \in Device, ReadActiveJit(u, d)  PROVE LedgerAudited'
  BY <1>6, ExpiringKeepsAudit DEF ReadActiveJit
<1> QED BY <1>1, <1>2, <1>3, <1>4, <1>5, <1>6 DEF ConsoleStep

LEMMA AuditStep ==
  ASSUME SystemTypeInv, LedgerAudited, [SystemNext]_vars
  PROVE  LedgerAudited'
<1>a. TypeInv /\ Agent!AgentTypeOK  BY DEF SystemTypeInv, ServerInv, AgentInv
<1>1. CASE UNCHANGED <<grants, audit>>  BY <1>1 DEF LedgerAudited
<1>2. CASE SyncOrBrowse  BY <1>2, <1>a, ConsoleKeepsAudit DEF SyncOrBrowse
<1>3. CASE ReportExpired
  <2>1. CASE UNCHANGED jitVars  BY <1>1, <2>1 DEF jitVars
  <2>2. CASE JitExpiredRpc(loop.win.nonce, PC)
    <3>1. loop.win \in Agent!Window  BY <1>3, <1>a, ThreadWindow DEF ReportExpired, Agent!Reported
    <3>2. loop.win.nonce \in Nonce  BY <3>1 DEF Agent!Window
    <3>3. loop.win.nonce \notin DOMAIN grants
      BY <1>a, <3>2, JitSystemAssumption DEF JitSystemAssumption, TypeInv, TypeOK
    <3> QED BY <1>1, <2>2, <3>3 DEF JitExpiredRpc
  <2> QED BY <1>3, <2>1, <2>2 DEF ReportExpired
<1>4. CASE SystemNext /\ ~SyncOrBrowse /\ ~ReportExpired
  <2>1. UNCHANGED <<grants, audit>>
    BY <1>4 DEF SystemNext, Tick, AdvanceClock, Online, Connect, Offline, ReceiveStaleGrant, Disconnect,
       ReceiveGrant, ReceiveRevoke, Receive, EvaluateUnderJit, BrokerThread, CrashService, LosePower,
       DropSocket, Restart, jitVars
  <2> QED BY <1>1, <2>1
<1>5. CASE UNCHANGED vars  BY <1>1, <1>5 DEF vars, jitVars
<1> QED BY <1>2, <1>3, <1>4, <1>5

\* docs/SPEC.md criterion 7: with a real agent reporting back, every window in
\* the table has its 'jit.grant' entry and every revoked one its 'jit.revoke'.
THEOREM EveryWindowAudited == SystemSpec => []LedgerAudited
<1>1. SystemInit => LedgerAudited  BY DEF SystemInit, Init, LedgerAudited
<1>2. SystemTypeInv /\ LedgerAudited /\ [SystemNext]_vars => LedgerAudited'  BY AuditStep
<1> QED BY <1>1, <1>2, SystemTypeInvariant, PTL DEF SystemSpec

-----------------------------------------------------------------------------
(* The local revoke. It holds for a PC with one user, no launches under a  *)
(* window and no crash (the runs show how each of the three breaks it or   *)
(* takes it out of the agent's hands). The argument: the clock does not    *)
(* pass a thread in mid-step, so a window is armed while it still has time *)
(* to run and its task lies ahead; the watchdog's late delete may take the *)
(* file of the next window, but not its task.                              *)

OneUserOneThread ==
  /\ \A u, v \in User : u = v
  /\ Launchers = {}
  /\ Faults = {}

LocalInv ==
  /\ pc = "running" /\ pipe = Agent!Idle
  /\ \A w \in tasks : w.exp > now
  /\ rx.step = "arm" => rx.win.exp > now
  /\ rx.step = "clear" => admins = {}
  /\ loop.step = "delete" /\ admins # {} => tasks # {} \/ rx.step = "arm"
  /\ LocalRevokeArmed

LEMMA LocalStep ==
  ASSUME OneUserOneThread, SystemTypeInv, LocalInv, [SystemNext]_vars
  PROVE  LocalInv'
<1>a. TypeInv /\ WireInv /\ Agent!AgentTypeOK  BY DEF SystemTypeInv, ServerInv, AgentInv
<1>b. admins \subseteq User /\ tasks \subseteq Agent!Window /\ now \in Nat
  BY <1>a, JitServerAssumption DEF Agent!AgentTypeOK, JitServerAssumption, TypeInv, TypeOK
<1>c. \A w \in Agent!Window : w.sub \in User /\ w.exp \in Nat /\ w # NoFile
  BY JitSystemAssumption DEF Agent!Window, JitSystemAssumption
<1>d. \A u, v \in User : u = v  BY DEF OneUserOneThread
<1>e. file \in Agent!Window \cup {NoFile}  BY <1>a DEF Agent!AgentTypeOK
<1>f. /\ rx.step = "arm" => rx.win \in Agent!Window
      /\ loop.step \in {"remove", "delete", "report"} => loop.win \in Agent!Window
  BY <1>a, ThreadWindow
<1> USE DEF LocalInv, LocalRevokeArmed, LocallyRemovable, Agent!Idle, Agent!At
<1>1. CASE SyncOrBrowse \/ Online \/ Offline \/ ReceiveStaleGrant \/ UNCHANGED vars
  <2>1. UNCHANGED <<agentSide>> /\ now' = now
    BY <1>1 DEF SyncOrBrowse, ConsoleStep, SyncDirectory, ExpireDueJit, CreateJitUser, CreateJitGroup,
       OpenWindow, RevokeWindow, JitStateRpc, ReadActiveJit, Online, Connect, Offline, Disconnect,
       ReceiveStaleGrant, vars, jitVars
  <2> QED BY <2>1 DEF agentSide
<1>2. CASE Tick
  <2>1. rx = [step |-> "idle"] /\ loop = [step |-> "idle"] /\ pc = "running" /\ now' = now + 1
        /\ UNCHANGED <<pc, file, rx, pipe, loop>>
    BY <1>2 DEF Tick, BrokerSettled, AdvanceClock, Agent!RunDueTasks
  <2>2. admins' = admins \ {x.sub : x \in {y \in tasks : y.exp = now + 1}}
        /\ tasks' = {x \in tasks : x.exp > now + 1}
    BY <1>2, <2>1 DEF Tick, Agent!RunDueTasks
  <2>3. ASSUME NEW u \in admins'
        PROVE  \/ file' # NoFile /\ file'.sub = u
               \/ \E w \in tasks' : w.sub = u
    <3>1. u \in admins /\ \A x \in tasks : x.exp = now + 1 => x.sub # u  BY <2>2
    <3>2. tasks' = tasks  
      <4>1. ASSUME NEW x \in tasks  PROVE x.exp > now + 1
        <5>1. x.sub = u  BY <1>b, <1>c, <1>d, <3>1
        <5>2. x.exp # now + 1 /\ x.exp > now /\ x.exp \in Nat  BY <1>b, <1>c, <3>1, <5>1
        <5> QED BY <1>b, <5>2
      <4> QED BY <2>2, <4>1
    <3> QED BY <2>1, <3>1, <3>2
  <2> QED BY <2>1, <2>2, <2>3
<1>3. CASE ReceiveGrant
  <2> DEFINE w == [nonce |-> PushNonce(NextPush.grant, NextPush.user),
                   sub |-> NextPush.user, exp |-> NextPush.exp]
  <2>1. Agent!ApplyGrant(w) /\ now' = now  BY <1>3 DEF ReceiveGrant, Receive
  <2>2. w.sub \in User
    BY <1>3, <1>a, NextPushType DEF ReceiveGrant, Receive, GrantPush
  <2> HIDE DEF w
  <2>3. rx' = [step |-> "arm", win |-> w] /\ w.exp > now /\ admins' \subseteq User
        /\ UNCHANGED <<pc, file, tasks, pipe, loop>>
    BY <1>b, <2>1, <2>2 DEF Agent!ApplyGrant, Agent!AddMember
  <2>4. \A u \in admins' : w.sub = u  BY <1>d, <2>2, <2>3
  <2> QED BY <2>1, <2>3, <2>4
<1>4. CASE ReceiveRevoke
  <2>1. PICK v \in User \cup {NoOne} :
          /\ Agent!ApplyRevoke(v) /\ now' = now
    <3>1. wire[PC] \in Seq(Push) /\ wire[PC] # <<>>
      BY <1>4, <1>a, JitSystemAssumption DEF ReceiveRevoke, Receive, JitSystemAssumption, TypeInv, TypeOK
    <3>2. NextPush \in Push  BY <3>1, HeadTailProperties DEF NextPush
    <3>3. NextPush.user \in User \cup {NoOne}  BY <3>2 DEF Push, GrantPush, RevokePush
    <3> QED BY <1>4, <3>3 DEF ReceiveRevoke, Receive
  <2>2. UNCHANGED <<pc, file, tasks, pipe, loop>> /\ admins' = admins \ {v} /\ rx = [step |-> "idle"]
        /\ rx' = IF v = NoOne THEN [step |-> "idle"] ELSE [step |-> "clear"]
    BY <2>1 DEF Agent!ApplyRevoke, Agent!RemoveMember
  <2>3. v # NoOne => admins' = {}  BY <1>b, <1>d, <2>1, <2>2
  <2> QED BY <2>1, <2>2, <2>3
<1>5. CASE \E u \in Launchers : EvaluateUnderJit(u)
  BY <1>5 DEF OneUserOneThread
<1>6. CASE BrokerThread
  <2>1. now' = now  BY <1>6 DEF BrokerThread, jitVars
  <2>2. CASE Agent!ArmGranted
    <3>1. /\ rx.step = "arm" /\ file' = rx.win /\ rx' = [step |-> "idle"]
          /\ tasks' = {x \in tasks : x.nonce # rx.win.nonce} \cup {x \in {rx.win} : x.exp > now}
          /\ UNCHANGED <<pc, admins, pipe, loop>>
      BY <2>2 DEF Agent!ArmGranted, Agent!Arm
    <3>2. rx.win \in tasks' /\ \A x \in tasks' : x.exp > now  BY <3>1
    <3>3. file' # NoFile /\ \A u \in admins' : file'.sub = u  BY <1>b, <1>c, <1>d, <1>f, <3>1
    <3> QED BY <2>1, <3>1, <3>2, <3>3
  <2>3. CASE Agent!ClearRevoked
    BY <2>1, <2>3 DEF Agent!ClearRevoked, Agent!ClearArmed
  <2>4. CASE Agent!LaunchAdd \/ Agent!LaunchArm
    BY <2>4 DEF Agent!LaunchAdd, Agent!LaunchArm
  <2>5. CASE Agent!TickDue
    BY <2>1, <2>5 DEF Agent!TickDue
  <2>6. CASE Agent!TickRemove
    <3>1. /\ loop.step = "remove" /\ admins' = admins \ {loop.win.sub}
          /\ UNCHANGED <<pc, file, tasks, rx, pipe>>
      BY <2>6 DEF Agent!TickRemove, Agent!RemoveMember
    <3>2. admins' = {}  BY <1>b, <1>c, <1>d, <1>f, <3>1
    <3> QED BY <2>1, <3>1, <3>2
  <2>7. CASE Agent!TickDelete
    <3>1. /\ loop.step = "delete" /\ file' = NoFile /\ loop' = [step |-> "report", win |-> loop.win]
          /\ UNCHANGED <<pc, admins, tasks, rx, pipe>>
      BY <2>7 DEF Agent!TickDelete
    <3>2. ASSUME NEW u \in admins'
          PROVE  \/ \E w \in tasks' : w.sub = u
                 \/ rx'.step = "arm" /\ rx'.win.sub = u
      <4>1. CASE tasks # {}  BY <1>b, <1>c, <1>d, <3>1, <4>1
      <4>2. CASE rx.step = "arm"  BY <1>b, <1>c, <1>d, <1>f, <3>1, <4>2
      <4> QED BY <3>1, <4>1, <4>2
    <3> QED BY <2>1, <3>1, <3>2
  <2> QED BY <1>6, <2>2, <2>3, <2>4, <2>5, <2>6, <2>7 DEF BrokerThread
<1>7. CASE ReportExpired
  <2>1. loop.step = "report" /\ loop' = [step |-> "idle"] /\ UNCHANGED <<pc, admins, file, tasks, rx, pipe>>
        /\ now' = now
    BY <1>7 DEF ReportExpired, Agent!Reported, JitExpiredRpc, jitVars
  <2> QED BY <2>1
<1>8. CASE CrashService \/ LosePower
  BY <1>8 DEF CrashService, LosePower, OneUserOneThread
<1>9. CASE Restart
  BY <1>9 DEF Restart, Agent!Boot, Agent!StartService
<1> QED BY <1>1, <1>2, <1>3, <1>4, <1>5, <1>6, <1>7, <1>8, <1>9 DEF SystemNext

\* docs/SPEC.md criterion 6, "local revoke task written at grant", where it does
\* hold: on a PC with a single user, as long as nothing is started under the
\* window and the broker lives, whoever is an administrator has something on
\* the PC itself that will remove them.
THEOREM RevokeIsArmed == OneUserOneThread => (SystemSpec => []LocalRevokeArmed)
<1> SUFFICES ASSUME OneUserOneThread PROVE SystemSpec => []LocalRevokeArmed  OBVIOUS
<1>1. SystemInit => LocalInv
  BY DEF SystemInit, Agent!AgentInit, LocalInv, LocalRevokeArmed, Agent!Idle
<1>2. SystemTypeInv /\ LocalInv /\ [SystemNext]_vars => LocalInv'  BY LocalStep
<1>3. LocalInv => LocalRevokeArmed  BY DEF LocalInv
<1> QED BY <1>1, <1>2, <1>3, SystemTypeInvariant, PTL DEF SystemSpec

-----------------------------------------------------------------------------
(* The report of an elapsed window. What the PC arms carries the nonce of  *)
(* its ticket, and the console looks the report up among the ids of rows.  *)

\* A report names no row: the console answers it and changes nothing.
LEMMA ReportNamesNoRow ==
  ASSUME SystemTypeInv, Agent!Reported
  PROVE  loop.win.nonce \notin DOMAIN grants
<1>1. loop.step = "report"  BY DEF Agent!Reported
<1>2. loop.win \in Agent!Window  BY <1>1, ThreadWindow DEF SystemTypeInv, AgentInv
<1>3. loop.win.nonce \in Nonce  BY <1>2 DEF Agent!Window
<1>4. DOMAIN grants \subseteq GrantId
  BY DEF SystemTypeInv, ServerInv, TypeInv, TypeOK
<1> QED BY <1>3, <1>4, JitSystemAssumption DEF JitSystemAssumption

\* RealtimeChannel.JitExpiredAsync tells the console that a window elapsed on
\* the PC, and rpc.ts revokes the grant it names. In every run, for every set
\* of users, devices and grants, the report leaves the console's rows, audit
\* log and pushes as they were: it ends no window, whoever's it was.
THEOREM ReportsEndNothing == SystemSpec => [][ReportExpired => UNCHANGED jitVars]_vars
<1>1. ASSUME SystemTypeInv, ReportExpired
      PROVE  UNCHANGED jitVars
  <2>1. loop.win.nonce \notin DOMAIN grants  BY <1>1, ReportNamesNoRow DEF ReportExpired
  <2> QED BY <1>1, <2>1 DEF ReportExpired, JitExpiredRpc, jitVars
<1>2. SystemTypeInv /\ [SystemNext]_vars => [ReportExpired => UNCHANGED jitVars]_vars  BY <1>1
<1> QED BY <1>2, SystemTypeInvariant, PTL DEF SystemSpec
=============================================================================
