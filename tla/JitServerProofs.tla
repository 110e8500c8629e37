--------------------------- MODULE JitServerProofs ---------------------------
(***************************************************************************)
(* Theorems about JitServer, for every set of users, groups, devices and   *)
(* grant ids, every offer of durations and every value of the bounds.      *)
(***************************************************************************)
EXTENDS JitServer, FiniteSetTheorems, SequenceTheorems, TLAPS

(* The type invariant is inductive once the table is known to be finite:   *)
(* a fan-out is a sequence only if there are finitely many messages in it. *)
FiniteTable == IsFiniteSet(DOMAIN grants)
TypeInv == TypeOK /\ FiniteTable

-----------------------------------------------------------------------------
(* Fan-outs.                                                               *)

\* The image of a finite set under a function is finite.
LEMMA FiniteRange ==
  ASSUME NEW S, IsFiniteSet(S), NEW f, f = [x \in S |-> f[x]]
  PROVE  IsFiniteSet({f[x] : x \in S})
<1> DEFINE T == {f[x] : x \in S}
<1>1. f \in [S -> T]  OBVIOUS
<1>2. f \in Surjection(S, T)  BY <1>1 DEF Surjection
<1> QED BY <1>2, FS_Surjection

\* Any order of a finite set of pushes is a sequence of pushes.
LEMMA OrderIsSeq ==
  ASSUME NEW M, M \subseteq Push, IsFiniteSet(M), NEW q \in InSomeOrder(M)
  PROVE  q \in Seq(Push)
<1>1. Cardinality(M) \in Nat  BY FS_CardinalityType
<1>2. q \in [1..Cardinality(M) -> Push]  BY DEF InSomeOrder, SetToSeqs
<1> QED BY <1>1, <1>2

\* A row covers finitely many identities, all of them users.
LEMMA IdentitiesFinite ==
  ASSUME NEW r \in Grant
  PROVE  /\ GrantIdentities(r) \subseteq User
         /\ IsFiniteSet(GrantIdentities(r))
<1>1. GrantIdentities(r) \subseteq User  BY DEF GrantIdentities, Grant
<1> QED BY <1>1, FS_Subset, JitServerAssumption DEF JitServerAssumption

\* The pushes that open a window, and those that end one, are finitely many.
LEMMA GrantPushesFinite ==
  ASSUME NEW g \in GrantId, NEW r \in Grant
  PROVE  /\ GrantPushes(g, r) \subseteq Push
         /\ IsFiniteSet(GrantPushes(g, r))
<1> DEFINE ids == GrantIdentities(r)
           f == [u \in ids |-> [type |-> "jit-grant", grant |-> g, user |-> u, exp |-> r.exp]]
<1>1. ids \subseteq User /\ IsFiniteSet(ids)  BY IdentitiesFinite
<1>2. r.exp \in Nat  BY DEF Grant
<1>3. GrantPushes(g, r) \subseteq Push  BY <1>1, <1>2 DEF GrantPushes, Push, GrantPush
<1>4. GrantPushes(g, r) = {f[u] : u \in ids}  BY DEF GrantPushes
<1>5. IsFiniteSet({f[u] : u \in ids})
  <2> HIDE DEF f
  <2>1. f = [u \in ids |-> f[u]]  BY DEF f
  <2> QED BY <1>1, <2>1, FiniteRange
<1> QED BY <1>3, <1>4, <1>5

LEMMA RevokePushesFinite ==
  ASSUME NEW g \in GrantId, NEW r \in Grant
  PROVE  /\ RevokePushes(g, r) \subseteq Push
         /\ IsFiniteSet(RevokePushes(g, r))
<1> DEFINE sids == GrantIdentities(r) \cap Sid
           to == IF sids = {} THEN {NoOne} ELSE sids
           f == [u \in to |-> [type |-> "jit-revoke", grant |-> g, user |-> u]]
<1>1. sids \subseteq User /\ IsFiniteSet(sids)
  <2>1. GrantIdentities(r) \subseteq User /\ IsFiniteSet(GrantIdentities(r))  BY IdentitiesFinite
  <2>2. sids \in SUBSET GrantIdentities(r)  OBVIOUS
  <2> QED BY <2>1, <2>2, FS_Subset
<1>2. to \subseteq User \cup {NoOne} /\ IsFiniteSet(to)  BY <1>1, FS_Singleton
<1>3. RevokePushes(g, r) \subseteq Push  BY <1>2 DEF RevokePushes, Push, RevokePush
<1>4. RevokePushes(g, r) = {f[u] : u \in to}  BY DEF RevokePushes
<1>5. IsFiniteSet({f[u] : u \in to})
  <2> HIDE DEF f, to
  <2>1. f = [u \in to |-> f[u]]  BY DEF f
  <2> QED BY <1>2, <2>1, FiniteRange
<1> QED BY <1>3, <1>4, <1>5

LEMMA SweepPushesFinite ==
  ASSUME TypeInv, NEW d \in Device
  PROVE  /\ SweepPushes(d) \subseteq Push
         /\ IsFiniteSet(SweepPushes(d))
<1> DEFINE due == {x \in DueGrants(grants) : grants[x].dev = d}
           f == [g \in due |-> RevokePushes(g, grants[g])]
<1>1. due \in SUBSET DOMAIN grants  BY DEF DueGrants
<1>2. IsFiniteSet(due)  BY <1>1, FS_Subset DEF TypeInv, FiniteTable
<1>3. \A g \in due : RevokePushes(g, grants[g]) \subseteq Push /\ IsFiniteSet(RevokePushes(g, grants[g]))
  <2> SUFFICES ASSUME NEW g \in due
               PROVE  RevokePushes(g, grants[g]) \subseteq Push /\ IsFiniteSet(RevokePushes(g, grants[g]))
    OBVIOUS
  <2>1. g \in GrantId /\ grants[g] \in Grant  BY <1>1 DEF TypeInv, TypeOK
  <2> QED BY <2>1, RevokePushesFinite
<1>4. IsFiniteSet({f[g] : g \in due})
  <2> HIDE DEF f, due
  <2>1. f = [g \in due |-> f[g]]  BY DEF f
  <2> QED BY <1>2, <2>1, FiniteRange
<1>5. \A M \in {f[g] : g \in due} : IsFiniteSet(M)  BY <1>3
<1>6. IsFiniteSet(UNION {f[g] : g \in due})
  <2> HIDE DEF f, due
  <2> QED BY <1>4, <1>5, FS_UNION
<1>7. SweepPushes(d) = UNION {f[g] : g \in due}  BY DEF SweepPushes
<1> QED BY <1>3, <1>6, <1>7 DEF SweepPushes

\* Every batch of a sweep is one sequence of pushes per device.
LEMMA SweepBatchIsSeq ==
  ASSUME TypeInv, NEW b \in SweepBatches, NEW d \in Device
  PROVE  b[d] \in Seq(Push)
<1>1. b[d] \in InSomeOrder(SweepPushes(d))  BY DEF SweepBatches
<1> QED BY <1>1, SweepPushesFinite, OrderIsSeq

LEMMA SentIsSeq ==
  ASSUME TypeOK, NEW d \in Device, NEW q \in Seq(Push)
  PROVE  Sent(d, q) \in Seq(Push)
<1>1. wire[d] \in Seq(Push)  BY DEF TypeOK
<1> QED BY <1>1, ConcatProperties DEF Sent

-----------------------------------------------------------------------------
(* The table.                                                              *)

Table(t) ==
  /\ DOMAIN t \subseteq GrantId
  /\ IsFiniteSet(DOMAIN t)
  /\ \A g \in DOMAIN t : t[g] \in Grant
  /\ t = [g \in DOMAIN t |-> t[g]]

LEMMA WithStatusTable ==
  ASSUME NEW t, Table(t), NEW ids, NEW s \in Status
  PROVE  /\ Table(WithStatus(t, ids, s))
         /\ DOMAIN WithStatus(t, ids, s) = DOMAIN t
BY DEF Table, WithStatus, Grant

LEMMA WithRowTable ==
  ASSUME NEW t, Table(t), NEW g \in GrantId, NEW r \in Grant
  PROVE  Table(WithRow(t, g, r))
<1>1. IsFiniteSet(DOMAIN t \cup {g})  BY FS_AddElement DEF Table
<1>2. DOMAIN WithRow(t, g, r) = DOMAIN t \cup {g}  BY DEF WithRow
<1> QED BY <1>1, <1>2 DEF Table, WithRow

LEMMA RevokedTable ==
  ASSUME NEW t, Table(t), NEW g \in DOMAIN t
  PROVE  Table(Revoked(t, g)) /\ DOMAIN Revoked(t, g) = DOMAIN t
BY WithStatusTable DEF Revoked, Status

-----------------------------------------------------------------------------
(* Type correctness.                                                       *)

\* What opening a window does to the types, for either kind of window.
LEMMA OpenWindowTypes ==
  ASSUME TypeInv, NEW g \in GrantId, NEW r \in Grant, OpenWindow(g, r)
  PROVE  TypeInv'
<1>1. Table(Swept)  BY WithStatusTable DEF TypeInv, TypeOK, FiniteTable, Table, Swept, Status
<1>2. Table(grants')  BY <1>1, WithRowTable DEF OpenWindow
<1>3. audit' \subseteq AuditEntry
  <2>1. SweepAudit \subseteq AuditEntry
    BY DEF SweepAudit, DueGrants, AuditEntry, TypeInv, TypeOK
  <2>2. <<"jit.grant", g>> \in AuditEntry  BY DEF AuditEntry
  <2> QED BY <2>1, <2>2 DEF OpenWindow, TypeInv, TypeOK
<1>4. wire' \in [Device -> Seq(Push)]
  <2>1. PICK b \in SweepBatches, q \in InSomeOrder(GrantPushes(g, r)) :
          wire' = [d \in Device |-> Sent(d, IF d = r.dev THEN b[d] \o q ELSE b[d])]
    BY DEF OpenWindow
  <2>2. q \in Seq(Push)  BY GrantPushesFinite, OrderIsSeq
  <2>3. ASSUME NEW d \in Device
        PROVE  Sent(d, IF d = r.dev THEN b[d] \o q ELSE b[d]) \in Seq(Push)
    <3>1. b[d] \in Seq(Push)  BY SweepBatchIsSeq
    <3>2. b[d] \o q \in Seq(Push)  BY <2>2, <3>1, ConcatProperties
    <3> QED BY <3>1, <3>2, SentIsSeq DEF TypeInv
  <2> QED BY <2>1, <2>3
<1>5. UNCHANGED <<now, members, connected>>  BY DEF OpenWindow
<1> QED BY <1>2, <1>3, <1>4, <1>5 DEF TypeInv, TypeOK, FiniteTable, Table

\* Types survive every action of the console and of the socket.
LEMMA TypeStep == TypeInv /\ [Next]_jitVars => TypeInv'
<1> SUFFICES ASSUME TypeInv, [Next]_jitVars PROVE TypeInv'  OBVIOUS
<1>a. Table(grants)  BY DEF TypeInv, TypeOK, FiniteTable, Table
<1>b. TypeOK /\ FiniteTable  BY DEF TypeInv
<1>1. CASE AdvanceClock
  BY <1>1 DEF AdvanceClock, TypeInv, TypeOK, FiniteTable
<1>2. CASE SyncDirectory
  BY <1>2 DEF SyncDirectory, TypeInv, TypeOK, FiniteTable
<1>3. CASE ExpireDueJit
  <2>1. Table(Swept)  BY <1>a, WithStatusTable DEF Swept, Status
  <2>2. SweepAudit \subseteq AuditEntry  BY <1>b DEF SweepAudit, DueGrants, AuditEntry, TypeOK
  <2>3. PICK b \in SweepBatches : wire' = [d \in Device |-> Sent(d, b[d])]
    BY <1>3 DEF ExpireDueJit
  <2>4. \A d \in Device : Sent(d, b[d]) \in Seq(Push)  BY <1>b, SweepBatchIsSeq, SentIsSeq
  <2>5. wire' \in [Device -> Seq(Push)]  BY <2>3, <2>4
  <2> QED BY <1>3, <1>b, <2>1, <2>2, <2>5 DEF ExpireDueJit, TypeInv, TypeOK, FiniteTable, Table
<1>4. ASSUME NEW g \in GrantId, NEW u \in User, NEW d \in Device, NEW dur \in Durations,
             CreateJitUser(g, u, d, dur)
      PROVE  TypeInv'
  <2> DEFINE r == [user |-> u, group |-> NoOne, members |-> {}, dev |-> d,
                   exp |-> now + dur, status |-> "active"]
  <2>1. r \in Grant  BY <1>b, JitServerAssumption DEF Grant, Status, TypeOK, JitServerAssumption
  <2>2. OpenWindow(g, r)  BY <1>4 DEF CreateJitUser
  <2> HIDE DEF r
  <2> QED BY <2>1, <2>2, OpenWindowTypes
<1>5. ASSUME NEW g \in GrantId, NEW grp \in Group, NEW d \in Device, NEW dur \in Durations,
             CreateJitGroup(g, grp, d, dur)
      PROVE  TypeInv'
  <2> DEFINE r == [user |-> NoOne, group |-> grp, members |-> members[grp], dev |-> d,
                   exp |-> now + dur, status |-> "active"]
  <2>1. r \in Grant  BY <1>b, JitServerAssumption DEF Grant, Status, TypeOK, JitServerAssumption
  <2>2. OpenWindow(g, r)  BY <1>5 DEF CreateJitGroup
  <2> HIDE DEF r
  <2> QED BY <2>1, <2>2, OpenWindowTypes
<1>6. ASSUME NEW g \in GrantId, RevokeWindow(g)  PROVE TypeInv'
  <2>1. g \in DOMAIN grants /\ grants[g] \in Grant  BY <1>6, <1>b DEF RevokeWindow, TypeOK
  <2>2. Table(grants')  BY <1>6, <1>a, <2>1, RevokedTable DEF RevokeWindow
  <2>3. PICK q \in InSomeOrder(RevokePushes(g, grants[g])) :
          wire' = [wire EXCEPT ![grants[g].dev] = Sent(grants[g].dev, q)]
    BY <1>6 DEF RevokeWindow
  <2>4. q \in Seq(Push)  BY <2>1, RevokePushesFinite, OrderIsSeq
  <2>5. grants[g].dev \in Device  BY <2>1 DEF Grant
  <2>6. wire' \in [Device -> Seq(Push)]  BY <1>b, <2>3, <2>4, <2>5, SentIsSeq DEF TypeOK
  <2>7. audit' \subseteq AuditEntry  BY <1>6, <1>b DEF RevokeWindow, AuditEntry, TypeOK
  <2> QED BY <1>6, <1>b, <2>2, <2>6, <2>7 DEF RevokeWindow, TypeInv, TypeOK, FiniteTable, Table
<1>7. ASSUME NEW d \in Device, JitStateRpc(d)  PROVE TypeInv'
  <2>1. Table(Swept)  BY <1>a, WithStatusTable DEF Swept, Status
  <2> QED BY <1>7, <1>b, <2>1 DEF JitStateRpc, TypeInv, TypeOK, FiniteTable, Table
<1>8. ASSUME NEW u \in User, NEW d \in Device, ReadActiveJit(u, d)  PROVE TypeInv'
  <2>1. Table(grants')  BY <1>8, <1>a, WithStatusTable DEF ReadActiveJit, Status
  <2> QED BY <1>8, <1>b, <2>1 DEF ReadActiveJit, TypeInv, TypeOK, FiniteTable, Table
<1>9. ASSUME NEW d \in Device, Connect(d)  PROVE TypeInv'
  BY <1>9, <1>b DEF Connect, TypeInv, TypeOK, FiniteTable
<1>10. ASSUME NEW d \in Device, Disconnect(d)  PROVE TypeInv'
  <2>1. wire' \in [Device -> Seq(Push)]  BY <1>10, <1>b, EmptySeq DEF Disconnect, TypeOK
  <2> QED BY <1>10, <1>b, <2>1 DEF Disconnect, TypeInv, TypeOK, FiniteTable
<1>11. ASSUME NEW d \in Device, Receive(d)  PROVE TypeInv'
  <2>1. Tail(wire[d]) \in Seq(Push)  BY <1>11, <1>b, HeadTailProperties DEF Receive, TypeOK
  <2>2. wire' \in [Device -> Seq(Push)]  BY <1>11, <1>b, <2>1 DEF Receive, TypeOK
  <2> QED BY <1>11, <1>b, <2>2 DEF Receive, TypeInv, TypeOK, FiniteTable
<1>12. ASSUME NEW id \in GrantId, NEW d \in Device, JitExpiredRpc(id, d)  PROVE TypeInv'
  <2>1. Table(grants')  BY <1>12, <1>a, RevokedTable DEF JitExpiredRpc
  <2> QED BY <1>12, <1>b, <2>1 DEF JitExpiredRpc, TypeInv, TypeOK, FiniteTable, Table
<1>13. CASE UNCHANGED jitVars
  BY <1>13, <1>b DEF jitVars, TypeInv, TypeOK, FiniteTable
<1> QED BY <1>1, <1>2, <1>3, <1>4, <1>5, <1>6, <1>7, <1>8, <1>9, <1>10, <1>11, <1>12, <1>13
        DEF Next, ConsoleStep

LEMMA TypeInvariant == Spec => []TypeInv
<1>1. Init => TypeInv
  <2> SUFFICES ASSUME Init PROVE TypeInv  OBVIOUS
  <2>1. DOMAIN grants = {}  BY DEF Init
  <2>2. wire \in [Device -> Seq(Push)]  BY EmptySeq DEF Init
  <2> QED BY <2>1, <2>2, FS_EmptySet DEF Init, TypeInv, TypeOK, FiniteTable
<1> QED BY <1>1, TypeStep, PTL DEF Spec

\* The console's state keeps its shape: every row is a well-formed grant, every
\* audit entry names a grant id, every device's wire is a sequence of pushes.
THEOREM TypeCorrect == Spec => []TypeOK
<1>1. TypeInv => TypeOK  BY DEF TypeInv
<1> QED BY <1>1, TypeInvariant, PTL

-----------------------------------------------------------------------------
(* What a step may do to a row that exists: nothing, expire it when its    *)
(* time has come, or revoke it while it is active.                         *)

RowKept(g) ==
  /\ g \in DOMAIN grants'
  /\ \/ grants'[g] = grants[g]
     \/ /\ grants[g].status = "active" /\ grants[g].exp <= now
        /\ grants'[g] = [grants[g] EXCEPT !.status = "expired"]
     \/ /\ grants[g].status = "active"
        /\ grants'[g] = [grants[g] EXCEPT !.status = "revoked"]

\* The sweep's table, before a new row is added to it.
LEMMA SweptRow ==
  ASSUME NEW g \in DOMAIN grants
  PROVE  /\ g \in DOMAIN Swept
         /\ \/ Swept[g] = grants[g] /\ (grants[g].status = "active" => ~(grants[g].exp <= now))
            \/ /\ grants[g].status = "active" /\ grants[g].exp <= now
               /\ Swept[g] = [grants[g] EXCEPT !.status = "expired"]
BY DEF Swept, WithStatus, DueGrants

LEMMA RevokedRow ==
  ASSUME NEW h \in DOMAIN grants, NEW g \in DOMAIN grants
  PROVE  /\ g \in DOMAIN Revoked(grants, h)
         /\ \/ Revoked(grants, h)[g] = grants[g]
            \/ /\ grants[g].status = "active"
               /\ Revoked(grants, h)[g] = [grants[g] EXCEPT !.status = "revoked"]
BY DEF Revoked, WithStatus

LEMMA RowStep ==
  ASSUME TypeInv, [Next]_jitVars, NEW g \in DOMAIN grants
  PROVE  RowKept(g)
<1>1. CASE UNCHANGED grants
  BY <1>1 DEF RowKept
<1>2. CASE grants' = Swept
  BY <1>2, SweptRow DEF RowKept
<1>3. ASSUME NEW h \in GrantId, NEW r, OpenWindow(h, r)  PROVE RowKept(g)
  <2>1. g # h  BY <1>3 DEF OpenWindow
  <2>2. g \in DOMAIN grants' /\ grants'[g] = Swept[g]  BY <1>3, <2>1, SweptRow DEF OpenWindow, WithRow
  <2> QED BY <2>2, SweptRow DEF RowKept
<1>4. ASSUME NEW h \in DOMAIN grants, grants' = Revoked(grants, h)  PROVE RowKept(g)
  BY <1>4, RevokedRow DEF RowKept
<1>5. ASSUME NEW u \in User, NEW d \in Device, ReadActiveJit(u, d)  PROVE RowKept(g)
  <2> DEFINE ids == LapsedOnRead(grants, u, d)
  <2>1. ASSUME g \in ids  PROVE grants[g].status = "active" /\ grants[g].exp <= now
    <3>1. g \in Covering(grants, u, d) /\ ActiveJit(grants, u, d) = {}  BY <2>1 DEF LapsedOnRead
    <3>2. ~(grants[g].exp > now)  BY <3>1 DEF ActiveJit
    <3>3. grants[g].exp \in Nat /\ now \in Nat  BY DEF TypeInv, TypeOK, Grant
    <3> QED BY <3>1, <3>2, <3>3 DEF Covering
  <2>2. grants' = WithStatus(grants, ids, "expired")  BY <1>5 DEF ReadActiveJit
  <2> HIDE DEF ids
  <2> QED BY <2>1, <2>2 DEF RowKept, WithStatus
<1>6. CASE AdvanceClock \/ SyncDirectory \/ (\E d \in Device : Connect(d) \/ Disconnect(d) \/ Receive(d))
  BY <1>1, <1>6 DEF AdvanceClock, SyncDirectory, Connect, Disconnect, Receive
<1>7. CASE ExpireDueJit \/ \E d \in Device : JitStateRpc(d)
  BY <1>2, <1>7 DEF ExpireDueJit, JitStateRpc
<1>8. CASE \E h \in GrantId, u \in User, d \in Device, dur \in Durations : CreateJitUser(h, u, d, dur)
  BY <1>3, <1>8 DEF CreateJitUser
<1>9. CASE \E h \in GrantId, grp \in Group, d \in Device, dur \in Durations : CreateJitGroup(h, grp, d, dur)
  BY <1>3, <1>9 DEF CreateJitGroup
<1>10. CASE \E h \in GrantId : RevokeWindow(h)
  BY <1>4, <1>10 DEF RevokeWindow
<1>11. CASE \E id \in GrantId, d \in Device : JitExpiredRpc(id, d)
  BY <1>1, <1>4, <1>11 DEF JitExpiredRpc
<1>12. CASE \E u \in User, d \in Device : ReadActiveJit(u, d)
  BY <1>5, <1>12
<1>13. CASE UNCHANGED jitVars
  BY <1>1, <1>13 DEF jitVars
<1> QED BY <1>6, <1>7, <1>8, <1>9, <1>10, <1>11, <1>12, <1>13 DEF Next, ConsoleStep

\* An ended window is never rewritten and no row is ever lost, whichever of the
\* console's code paths runs.
THEOREM EndIsFinal == Spec => EndedStaysEnded
<1>1. TypeInv /\ [Next]_jitVars
        => [\A g \in DOMAIN grants :
              /\ g \in DOMAIN grants'
              /\ grants[g].status # "active" => grants'[g] = grants[g]]_jitVars
  BY RowStep DEF RowKept
<1> QED BY <1>1, TypeInvariant, PTL DEF Spec, EndedStaysEnded

-----------------------------------------------------------------------------
(* One active window per user and device, and per group and device. The    *)
(* argument: a row that is still active after the sweep is unexpired, so   *)
(* activeJit finds it if it covers the user, and createJit refuses.        *)

SameTarget(r, s) == r.dev = s.dev /\ r.user = s.user /\ r.group = s.group

LEMMA FreshTarget ==
  ASSUME TypeInv, Next,
         NEW h \in DOMAIN grants' \ DOMAIN grants,
         NEW g \in DOMAIN grants', g # h,
         grants'[g].status = "active"
  PROVE  ~SameTarget(grants'[g], grants'[h])
<1>1. ASSUME NEW k \in GrantId, NEW r, OpenWindow(k, r)
      PROVE  /\ k = h /\ grants'[h] = r
             /\ g \in DOMAIN grants /\ grants'[g] = Swept[g] /\ Swept[g] = grants[g]
             /\ grants[g].status = "active"
             /\ grants[g].exp > now
  <2>1. DOMAIN grants' = DOMAIN grants \cup {k}  BY <1>1 DEF OpenWindow, WithRow, Swept, WithStatus
  <2>2. k = h  BY <2>1
  <2>3. g \in DOMAIN grants  BY <2>1, <2>2
  <2>4. grants'[h] = r /\ grants'[g] = Swept[g]  BY <1>1, <2>2, <2>3 DEF OpenWindow, WithRow, Swept, WithStatus
  <2>5. grants[g] \in Grant /\ now \in Nat  BY <2>3 DEF TypeInv, TypeOK
  <2>6. [grants[g] EXCEPT !.status = "expired"].status = "expired"  BY <2>5 DEF Grant
  <2>7. Swept[g] = grants[g] /\ grants[g].status = "active" /\ ~(grants[g].exp <= now)
    BY <2>3, <2>4, <2>6, SweptRow
  <2>8. grants[g].exp \in Nat  BY <2>5 DEF Grant
  <2> QED BY <2>2, <2>3, <2>4, <2>5, <2>7, <2>8
<1>2. ASSUME NEW k \in GrantId, NEW u \in User, NEW d \in Device, NEW dur \in Durations,
             CreateJitUser(k, u, d, dur)
      PROVE  ~SameTarget(grants'[g], grants'[h])
  <2> DEFINE r == [user |-> u, group |-> NoOne, members |-> {}, dev |-> d,
                   exp |-> now + dur, status |-> "active"]
  <2>1. OpenWindow(k, r)  BY <1>2 DEF CreateJitUser
  <2>2. grants'[h] = r  BY <1>1, <2>1
  <2>3. g \in DOMAIN grants /\ grants'[g] = Swept[g] /\ Swept[g].status = "active" /\ Swept[g].exp > now
    <3> HIDE DEF r
    <3> QED BY <1>1, <2>1
  <2>4. g \in DOMAIN Swept  BY <2>3, SweptRow
  <2>5. ActiveJit(Swept, u, d) = {}  BY <1>2 DEF CreateJitUser
  <2>6. ~(Swept[g].dev = d /\ Covers(Swept[g], u))  BY <2>3, <2>4, <2>5 DEF ActiveJit, Covering
  <2> QED BY <2>2, <2>3, <2>6 DEF Covers, SameTarget
<1>3. ASSUME NEW k \in GrantId, NEW grp \in Group, NEW d \in Device, NEW dur \in Durations,
             CreateJitGroup(k, grp, d, dur)
      PROVE  ~SameTarget(grants'[g], grants'[h])
  <2> DEFINE r == [user |-> NoOne, group |-> grp, members |-> members[grp], dev |-> d,
                   exp |-> now + dur, status |-> "active"]
  <2>1. OpenWindow(k, r)  BY <1>3 DEF CreateJitGroup
  <2>2. grants'[h] = r  BY <1>1, <2>1
  <2>3. g \in DOMAIN grants /\ grants'[g] = Swept[g] /\ Swept[g].status = "active"
    <3> HIDE DEF r
    <3> QED BY <1>1, <2>1
  <2>4. g \in DOMAIN Swept  BY <2>3, SweptRow
  <2>5. ActiveGroupJit(Swept, grp, d) = {}  BY <1>3 DEF CreateJitGroup
  <2>6. ~(Swept[g].group = grp /\ Swept[g].dev = d)  BY <2>3, <2>4, <2>5 DEF ActiveGroupJit
  <2> QED BY <2>2, <2>3, <2>6 DEF SameTarget
<1>4. \/ \E k \in GrantId, u \in User, d \in Device, dur \in Durations : CreateJitUser(k, u, d, dur)
      \/ \E k \in GrantId, grp \in Group, d \in Device, dur \in Durations : CreateJitGroup(k, grp, d, dur)
  <2>1. DOMAIN grants' # DOMAIN grants  OBVIOUS
  <2>2. DOMAIN Swept = DOMAIN grants  BY DEF Swept, WithStatus
  <2>3. \A k \in DOMAIN grants : DOMAIN Revoked(grants, k) = DOMAIN grants  BY DEF Revoked, WithStatus
  <2>4. \A ids, s : DOMAIN WithStatus(grants, ids, s) = DOMAIN grants  BY DEF WithStatus
  <2> QED BY <2>1, <2>2, <2>3, <2>4
          DEF Next, ConsoleStep, AdvanceClock, SyncDirectory, ExpireDueJit, RevokeWindow, JitStateRpc,
              ReadActiveJit, Connect, Disconnect, Receive, JitExpiredRpc
<1> QED BY <1>2, <1>3, <1>4

LedgerInv == TypeInv /\ OneActiveWindow /\ ExpiredWasDue

LEMMA OneActiveStep ==
  ASSUME LedgerInv, [Next]_jitVars
  PROVE  OneActiveWindow'
<1> SUFFICES ASSUME NEW g \in DOMAIN grants', NEW h \in DOMAIN grants',
                    grants'[g].status = "active", grants'[h].status = "active",
                    SameTarget(grants'[g], grants'[h]), g # h
             PROVE  FALSE
  BY DEF OneActiveWindow, SameTarget
<1>1. CASE g \in DOMAIN grants /\ h \in DOMAIN grants
  <2>1. grants[g] \in Grant /\ grants[h] \in Grant  BY <1>1 DEF LedgerInv, TypeInv, TypeOK
  <2>2. \A k \in {g, h} : [grants[k] EXCEPT !.status = "expired"].status = "expired"
                        /\ [grants[k] EXCEPT !.status = "revoked"].status = "revoked"
    BY <2>1 DEF Grant
  <2>3. TypeInv  BY DEF LedgerInv
  <2>4. RowKept(g) /\ RowKept(h)  BY <1>1, <2>3, RowStep
  <2>5. grants'[g] = grants[g] /\ grants'[h] = grants[h]  BY <2>2, <2>4 DEF RowKept
  <2> QED BY <1>1, <2>5 DEF LedgerInv, OneActiveWindow, SameTarget
<1>2. CASE h \notin DOMAIN grants
  <2>1. Next  BY <1>2 DEF jitVars
  <2> QED BY <1>2, <2>1, FreshTarget DEF LedgerInv
<1>3. CASE g \notin DOMAIN grants
  <2>1. Next  BY <1>3 DEF jitVars
  <2>2. ~SameTarget(grants'[h], grants'[g])  BY <1>3, <2>1, FreshTarget DEF LedgerInv
  <2> QED BY <2>2 DEF SameTarget
<1> QED BY <1>1, <1>2, <1>3

\* A new row is active, so it cannot break the rule about expired ones.
LEMMA ExpiredStep ==
  ASSUME LedgerInv, [Next]_jitVars
  PROVE  ExpiredWasDue'
<1> SUFFICES ASSUME NEW g \in DOMAIN grants', grants'[g].status = "expired"
             PROVE  grants'[g].exp <= now'
  BY DEF ExpiredWasDue
<1>1. now \in Nat /\ now' \in Nat /\ now <= now'
  <2>1. now \in Nat  BY DEF LedgerInv, TypeInv, TypeOK
  <2>2. CASE AdvanceClock  BY <2>1, <2>2 DEF AdvanceClock
  <2>3. CASE ~AdvanceClock
    <3>1. now' = now
      BY <2>3 DEF Next, ConsoleStep, jitVars, SyncDirectory, ExpireDueJit, OpenWindow, CreateJitUser,
                  CreateJitGroup, RevokeWindow, JitStateRpc, ReadActiveJit, Connect, Disconnect,
                  Receive, JitExpiredRpc
    <3> QED BY <2>1, <3>1
  <2> QED BY <2>2, <2>3
<1>2. CASE g \in DOMAIN grants
  <2>1. grants[g] \in Grant /\ RowKept(g)  BY <1>2, RowStep DEF LedgerInv, TypeInv, TypeOK
  <2>2. grants'[g].exp = grants[g].exp /\ grants[g].exp \in Nat  BY <2>1 DEF RowKept, Grant
  <2>3. grants[g].exp <= now
    <3>1. CASE grants[g].status = "expired"  BY <1>2, <3>1 DEF LedgerInv, ExpiredWasDue
    <3>2. CASE grants[g].status # "expired"  BY <2>1, <3>2 DEF RowKept, Grant
    <3> QED BY <3>1, <3>2
  <2> QED BY <1>1, <2>2, <2>3
<1>3. CASE g \notin DOMAIN grants
  <2>1. ASSUME NEW k \in GrantId, NEW r, OpenWindow(k, r)  PROVE grants'[g] = r
    BY <1>3, <2>1 DEF OpenWindow, WithRow, Swept, WithStatus
  <2>2. DOMAIN grants' # DOMAIN grants  BY <1>3
  <2>3. /\ DOMAIN Swept = DOMAIN grants
        /\ \A k \in DOMAIN grants : DOMAIN Revoked(grants, k) = DOMAIN grants
        /\ \A ids, s : DOMAIN WithStatus(grants, ids, s) = DOMAIN grants
    BY DEF Swept, Revoked, WithStatus
  <2>4. \/ \E k \in GrantId, u \in User, d \in Device, dur \in Durations : CreateJitUser(k, u, d, dur)
        \/ \E k \in GrantId, grp \in Group, d \in Device, dur \in Durations : CreateJitGroup(k, grp, d, dur)
    BY <2>2, <2>3
       DEF Next, ConsoleStep, jitVars, AdvanceClock, SyncDirectory, ExpireDueJit, RevokeWindow, JitStateRpc,
           ReadActiveJit, Connect, Disconnect, Receive, JitExpiredRpc
  <2>5. ASSUME NEW k \in GrantId, NEW u \in User, NEW d \in Device, NEW dur \in Durations,
               CreateJitUser(k, u, d, dur)
        PROVE  grants'[g].status = "active"
    <3> DEFINE r == [user |-> u, group |-> NoOne, members |-> {}, dev |-> d,
                     exp |-> now + dur, status |-> "active"]
    <3>1. OpenWindow(k, r)  BY <2>5 DEF CreateJitUser
    <3>2. grants'[g] = r  BY <2>1, <3>1
    <3> QED BY <3>2
  <2>6. ASSUME NEW k \in GrantId, NEW grp \in Group, NEW d \in Device, NEW dur \in Durations,
               CreateJitGroup(k, grp, d, dur)
        PROVE  grants'[g].status = "active"
    <3> DEFINE r == [user |-> NoOne, group |-> grp, members |-> members[grp], dev |-> d,
                     exp |-> now + dur, status |-> "active"]
    <3>1. OpenWindow(k, r)  BY <2>6 DEF CreateJitGroup
    <3>2. grants'[g] = r  BY <2>1, <3>1
    <3> QED BY <3>2
  <2> QED BY <2>4, <2>5, <2>6
<1> QED BY <1>2, <1>3

LEMMA LedgerInvariant == Spec => []LedgerInv
<1>1. Init => OneActiveWindow /\ ExpiredWasDue  BY DEF Init, OneActiveWindow, ExpiredWasDue
<1>2. LedgerInv /\ TypeInv' /\ [Next]_jitVars => LedgerInv'  BY OneActiveStep, ExpiredStep DEF LedgerInv
<1>3. OneActiveWindow /\ ExpiredWasDue /\ TypeInv => LedgerInv  BY DEF LedgerInv
<1> QED BY <1>1, <1>2, <1>3, TypeInvariant, PTL DEF Spec

\* docs/SPEC.md criterion 5, for every fleet and every schedule of handlers.
THEOREM OneWindow == Spec => []OneActiveWindow
<1>1. LedgerInv => OneActiveWindow  BY DEF LedgerInv
<1> QED BY <1>1, LedgerInvariant, PTL

\* No code path ends a window before its time under the name of expiry.
THEOREM ExpiryIsDue == Spec => []ExpiredWasDue
<1>1. LedgerInv => ExpiredWasDue  BY DEF LedgerInv
<1> QED BY <1>1, LedgerInvariant, PTL

-----------------------------------------------------------------------------
(* Who has access. The rows that count are the active, unexpired ones, and *)
(* a row leaves them only by a revoke or because the clock reached it.     *)

LEMMA StableAccess ==
  ASSUME TypeInv, [Next]_jitVars, now' = now, DOMAIN grants' = DOMAIN grants,
         \A g \in DOMAIN grants : ~(grants[g].status = "active" /\ grants'[g].status = "revoked"),
         NEW u \in User, NEW d \in Device
  PROVE  HasAccess(u, d)' = HasAccess(u, d)
<1>1. ASSUME NEW g \in DOMAIN grants
      PROVE  (g \in ActiveJit(grants, u, d))' <=> g \in ActiveJit(grants, u, d)
  <2>1. RowKept(g) /\ grants[g] \in Grant /\ now \in Nat  BY RowStep DEF TypeInv, TypeOK
  <2>2. CASE grants'[g] = grants[g]
    BY <2>2 DEF ActiveJit, Covering, Covers
  <2>3. CASE /\ grants[g].status = "active" /\ grants[g].exp <= now
             /\ grants'[g] = [grants[g] EXCEPT !.status = "expired"]
    <3>1. grants'[g].status = "expired"  BY <2>1, <2>3 DEF Grant
    <3>2. ~(grants[g].exp > now)  BY <2>1, <2>3 DEF Grant
    <3> QED BY <3>1, <3>2 DEF ActiveJit, Covering
  <2>4. CASE /\ grants[g].status = "active"
             /\ grants'[g] = [grants[g] EXCEPT !.status = "revoked"]
    <3>1. grants'[g].status = "revoked"  BY <2>1, <2>4 DEF Grant
    <3> QED BY <2>4, <3>1
  <2> QED BY <2>1, <2>2, <2>3, <2>4 DEF RowKept
<1>2. ActiveJit(grants, u, d)' = ActiveJit(grants, u, d)
  BY <1>1 DEF ActiveJit, Covering
<1> QED BY <1>2 DEF HasAccess

\* Reading the state, sweeping it, reconnecting, or rewriting the directory under
\* a group window gives nobody access and takes it from nobody.
THEOREM AccessStable == Spec => AccessIsStable
<1>1. TypeInv /\ [Next]_jitVars
        => [\/ now' # now
            \/ DOMAIN grants' # DOMAIN grants
            \/ \E g \in DOMAIN grants : grants[g].status = "active" /\ grants'[g].status = "revoked"
            \/ \A u \in User, d \in Device : HasAccess(u, d)' = HasAccess(u, d)]_jitVars
  BY StableAccess
<1> QED BY <1>1, TypeInvariant, PTL DEF Spec, AccessIsStable

-----------------------------------------------------------------------------
(* The announcements. A fan-out sends every one of its messages, a batch   *)
(* that is sent to a connected device is on its wire, and an end enters    *)
(* the audit log only in a step that sends its fan-out.                    *)

EndPush(g, u) == [type |-> "jit-revoke", grant |-> g, user |-> u]

Told(d, g, u) == \E i \in DOMAIN wire'[d] : wire'[d][i] = EndPush(g, u)

\* A finite set in some order leaves none of its messages out.
LEMMA OrderIsComplete ==
  ASSUME NEW M, IsFiniteSet(M), NEW q \in InSomeOrder(M), NEW m \in M
  PROVE  \E k \in DOMAIN q : q[k] = m
<1> DEFINE n == Cardinality(M)
           D == 1..n
<1>1. n \in Nat  BY FS_CardinalityType
<1>2. q \in [D -> M] /\ \A i, j \in D : i # j => q[i] # q[j]  BY DEF InSomeOrder, SetToSeqs
<1>3. q \in Injection(D, M)  BY <1>2 DEF Injection, IsInjective
<1>4. Cardinality(D) = n
  <2>1. Cardinality(D) = IF 1 > n THEN 0 ELSE n - 1 + 1  BY <1>1, FS_Interval
  <2> QED BY <1>1, <2>1
<1> HIDE DEF n, D
<1>5. q \in Surjection(D, M)  BY <1>3, <1>4, FS_Injection DEF n
<1> QED BY <1>2, <1>5 DEF Surjection

\* What is sent to a connected device ends up on its wire.
LEMMA SentIsOnWire ==
  ASSUME TypeInv, NEW d \in Device, connected[d], NEW q \in Seq(Push), NEW k \in DOMAIN q
  PROVE  \E i \in DOMAIN Sent(d, q) : Sent(d, q)[i] = q[k]
<1>1. wire[d] \in Seq(Push)  BY DEF TypeInv, TypeOK
<1>2. Sent(d, q) = wire[d] \o q  BY DEF Sent
<1>3. Len(wire[d]) \in Nat /\ Len(q) \in Nat /\ DOMAIN q = 1..Len(q)  BY <1>1
<1>4. Len(wire[d]) + k \in DOMAIN (wire[d] \o q) /\ (wire[d] \o q)[Len(wire[d]) + k] = q[k]
  BY <1>1, <1>3, ConcatProperties
<1> QED BY <1>2, <1>4

\* A due row's fan-out is part of every batch of the sweep.
LEMMA SweepTells ==
  ASSUME TypeInv, NEW g \in DueGrants(grants), NEW u \in GrantIdentities(grants[g]) \cap Sid,
         NEW d \in Device, d = grants[g].dev, NEW b \in SweepBatches
  PROVE  \E k \in DOMAIN b[d] : b[d][k] = EndPush(g, u)
<1>1. EndPush(g, u) \in RevokePushes(g, grants[g])  BY DEF RevokePushes, EndPush
<1>2. EndPush(g, u) \in SweepPushes(d)  BY <1>1 DEF SweepPushes
<1>3. b[d] \in InSomeOrder(SweepPushes(d))  BY DEF SweepBatches
<1> QED BY <1>2, <1>3, SweepPushesFinite, OrderIsComplete

\* Opening a window tells the sweep's fan-outs too.
LEMMA OpenWindowTells ==
  ASSUME TypeInv, NEW h \in GrantId, NEW r \in Grant, OpenWindow(h, r),
         NEW g \in DueGrants(grants), NEW u \in GrantIdentities(grants[g]) \cap Sid,
         NEW d \in Device, d = grants[g].dev, connected[d]
  PROVE  Told(d, g, u)
<1>1. PICK b \in SweepBatches, q \in InSomeOrder(GrantPushes(h, r)) :
        wire' = [e \in Device |-> Sent(e, IF e = r.dev THEN b[e] \o q ELSE b[e])]
  BY DEF OpenWindow
<1>2. q \in Seq(Push) /\ b[d] \in Seq(Push)
  BY GrantPushesFinite, OrderIsSeq, SweepBatchIsSeq
<1>3. PICK k \in DOMAIN b[d] : b[d][k] = EndPush(g, u)  BY SweepTells
<1>4. CASE d # r.dev
  <2>1. wire'[d] = Sent(d, b[d])  BY <1>1, <1>4
  <2> QED BY <1>2, <1>3, <2>1, SentIsOnWire DEF Told
<1>5. CASE d = r.dev
  <2>1. wire'[d] = Sent(d, b[d] \o q)  BY <1>1, <1>5
  <2>2. b[d] \o q \in Seq(Push) /\ k \in DOMAIN (b[d] \o q) /\ (b[d] \o q)[k] = b[d][k]
    <3>1. Len(b[d]) \in Nat /\ Len(q) \in Nat /\ DOMAIN b[d] = 1..Len(b[d])  BY <1>2
    <3> QED BY <1>2, <1>3, <3>1, ConcatProperties
  <2>3. \E i \in DOMAIN Sent(d, b[d] \o q) : Sent(d, b[d] \o q)[i] = (b[d] \o q)[k]
    <3> DEFINE bq == b[d] \o q
    <3> HIDE DEF bq
    <3>1. bq \in Seq(Push) /\ k \in DOMAIN bq  BY <2>2 DEF bq
    <3>2. \E i \in DOMAIN Sent(d, bq) : Sent(d, bq)[i] = bq[k]  BY <3>1, SentIsOnWire
    <3> QED BY <3>2 DEF bq
  <2> QED BY <1>3, <2>1, <2>2, <2>3 DEF Told
<1> QED BY <1>4, <1>5

LEMMA EndTold ==
  ASSUME TypeInv, [Next]_jitVars, NEW g \in DOMAIN grants,
         {<<"jit.revoke", g>>, <<"jit.expired", g>>} \cap (audit' \ audit) # {},
         NEW d \in Device, d = grants[g].dev, connected[d],
         NEW u \in GrantIdentities(grants[g]) \cap Sid
  PROVE  Told(d, g, u)
<1>1. g \in GrantId /\ grants[g] \in Grant  BY DEF TypeInv, TypeOK
<1>2. <<"jit.expired", g>> \in SweepAudit => g \in DueGrants(grants)  BY DEF SweepAudit
<1>3. CASE ExpireDueJit
  <2>1. g \in DueGrants(grants)  BY <1>2, <1>3 DEF ExpireDueJit, SweepAudit
  <2>2. PICK b \in SweepBatches : wire' = [e \in Device |-> Sent(e, b[e])]
    BY <1>3 DEF ExpireDueJit
  <2>3. PICK k \in DOMAIN b[d] : b[d][k] = EndPush(g, u)  BY <2>1, SweepTells
  <2>4. wire'[d] = Sent(d, b[d]) /\ b[d] \in Seq(Push)  BY <2>2, SweepBatchIsSeq
  <2> QED BY <2>3, <2>4, SentIsOnWire DEF Told
<1>4. ASSUME NEW h \in GrantId, NEW v \in User, NEW e \in Device, NEW dur \in Durations,
             CreateJitUser(h, v, e, dur)
      PROVE  Told(d, g, u)
  <2> DEFINE r == [user |-> v, group |-> NoOne, members |-> {}, dev |-> e,
                   exp |-> now + dur, status |-> "active"]
  <2>1. r \in Grant
    BY JitServerAssumption DEF Grant, Status, TypeInv, TypeOK, JitServerAssumption
  <2>2. OpenWindow(h, r)  BY <1>4 DEF CreateJitUser
  <2> HIDE DEF r
  <2>3. g \in DueGrants(grants)  BY <1>2, <2>2 DEF OpenWindow, SweepAudit
  <2> QED BY <2>1, <2>2, <2>3, OpenWindowTells
<1>5. ASSUME NEW h \in GrantId, NEW grp \in Group, NEW e \in Device, NEW dur \in Durations,
             CreateJitGroup(h, grp, e, dur)
      PROVE  Told(d, g, u)
  <2> DEFINE r == [user |-> NoOne, group |-> grp, members |-> members[grp], dev |-> e,
                   exp |-> now + dur, status |-> "active"]
  <2>1. r \in Grant
    BY JitServerAssumption DEF Grant, Status, TypeInv, TypeOK, JitServerAssumption
  <2>2. OpenWindow(h, r)  BY <1>5 DEF CreateJitGroup
  <2> HIDE DEF r
  <2>3. g \in DueGrants(grants)  BY <1>2, <2>2 DEF OpenWindow, SweepAudit
  <2> QED BY <2>1, <2>2, <2>3, OpenWindowTells
<1>6. ASSUME NEW h \in GrantId, RevokeWindow(h)  PROVE Told(d, g, u)
  <2>1. g = h  BY <1>6 DEF RevokeWindow
  <2>2. PICK q \in InSomeOrder(RevokePushes(g, grants[g])) :
          wire' = [wire EXCEPT ![d] = Sent(d, q)]
    BY <1>6, <2>1 DEF RevokeWindow
  <2>3. EndPush(g, u) \in RevokePushes(g, grants[g])  BY DEF RevokePushes, EndPush
  <2>4. q \in Seq(Push) /\ IsFiniteSet(RevokePushes(g, grants[g]))
    BY <1>1, RevokePushesFinite, OrderIsSeq
  <2>5. PICK k \in DOMAIN q : q[k] = EndPush(g, u)  BY <2>3, <2>4, OrderIsComplete
  <2>6. wire'[d] = Sent(d, q)  BY <2>2 DEF TypeInv, TypeOK
  <2> QED BY <2>4, <2>5, <2>6, SentIsOnWire DEF Told
<1>7. CASE UNCHANGED audit  BY <1>7
<1>8. CASE UNCHANGED jitVars  BY <1>7, <1>8 DEF jitVars
<1> QED BY <1>3, <1>4, <1>5, <1>6, <1>7, <1>8
        DEF Next, ConsoleStep, SyncDirectory, JitStateRpc, ReadActiveJit, AdvanceClock, Connect,
            Disconnect, Receive, JitExpiredRpc

\* A revoke or an expiry that is audited is on the wire of a connected device in
\* the same step, once for every covered user with a SID, whatever order the
\* fan-outs leave in and however many windows end at once.
THEOREM EndAnnounced == Spec => EndIsAnnounced
<1> DEFINE Step ==
      \A g \in DOMAIN grants :
        LET told(u) == \E i \in DOMAIN wire'[grants[g].dev] :
                         wire'[grants[g].dev][i] = [type |-> "jit-revoke", grant |-> g, user |-> u]
        IN  /\ {<<"jit.revoke", g>>, <<"jit.expired", g>>} \cap (audit' \ audit) # {}
            /\ connected[grants[g].dev]
            => \A u \in GrantIdentities(grants[g]) \cap Sid : told(u)
<1>1. ASSUME TypeInv, [Next]_jitVars  PROVE Step
  <2> SUFFICES ASSUME NEW g \in DOMAIN grants,
                      {<<"jit.revoke", g>>, <<"jit.expired", g>>} \cap (audit' \ audit) # {},
                      connected[grants[g].dev],
                      NEW u \in GrantIdentities(grants[g]) \cap Sid
               PROVE  Told(grants[g].dev, g, u)
    BY DEF Told, EndPush
  <2>1. grants[g].dev \in Device  BY <1>1 DEF TypeInv, TypeOK, Grant
  <2> QED BY <1>1, <2>1, EndTold
<1>2. TypeInv /\ [Next]_jitVars => [Step]_jitVars  BY <1>1
<1> QED BY <1>2, TypeInvariant, PTL DEF Spec, EndIsAnnounced
=============================================================================
