---------------------------- MODULE ApprovalProofs ----------------------------
(***************************************************************************)
(* ApprovalSystem, for any number of handlers, users, files and requests:   *)
(* its types, the one row per open question, the audited decisions, the     *)
(* program as it was asked about, the waiter that will hear, what one       *)
(* approval opens, the call that never goes back, and that it keeps the     *)
(* promise of ApprovalPromise.                                              *)
(*                                                                          *)
(* Five inductive invariants, each over the types of TypeInv: LedgerInv     *)
(* (the table and the log), StandInv (what a handler, a job or an answer on *)
(* the wire stands for), TruthInv (what the wire says of a row), HearInv    *)
(* (what is still ahead of who waits) and OnceInv, over TruthInv (what one  *)
(* ticket opens).                                                           *)
(***************************************************************************)
EXTENDS ApprovalSystem, FiniteSetTheorems, SequenceTheorems, TLAPS

Plain == [type : {"result"}, to : Caller]
Pending == [type : {"result"}, to : Caller, req : ReqId]
News == [type : {"ticket", "request-denied"}, req : ReqId]
Message == Plain \cup Pending \cup News

LEMMA MessageKinds ==
  ASSUME NEW m \in Message
  PROVE  /\ m.type = "result" => m \in Plain \cup Pending /\ m.to \in Caller
         /\ m.type # "result" => m \in News /\ m.req \in ReqId
         /\ "req" \in DOMAIN m /\ m.type = "result" => m \in Pending /\ m.req \in ReqId
         /\ m \in Pending => "req" \in DOMAIN m
BY DEF Message, Plain, Pending, News

LEMMA CallerKinds ==
  ASSUME NEW x \in {Idle} \cup Asking \cup Holding
  PROVE  /\ x.step \in {"idle", "rpc", "http", "waiting", "timed-out", "unregistered"}
         /\ x.step = "idle" => x = Idle
         /\ x.step \in {"rpc", "http"} => x \in Asking
         /\ x.step \in {"waiting", "timed-out", "unregistered"} => x \in Holding
         /\ "req" \in DOMAIN x <=> x \in Holding
BY DEF Idle, Asking, Holding

LEMMA RemoveAtIs ==
  ASSUME NEW S, NEW s \in Seq(S), NEW i \in 1..Len(s)
  PROVE  /\ RemoveAt(s, i) \in Seq(S)
         /\ Len(RemoveAt(s, i)) = Len(s) - 1
         /\ \A j \in 1..Len(s) - 1 : RemoveAt(s, i)[j] = IF j < i THEN s[j] ELSE s[j + 1]
<1> DEFINE a == SubSeq(s, 1, i - 1)
           b == SubSeq(s, i + 1, Len(s))
<1>0. Len(s) \in Nat /\ \A j \in 1..Len(s) : s[j] \in S  BY LenProperties, ElementOfSeq
<1>1. /\ a \in Seq(S) /\ Len(a) = i - 1
      /\ \A j \in 1..i - 1 : a[j] = s[j]
  <2>1. 1 \in Int /\ i - 1 \in Int /\ \A j \in 1..i-1 : s[j] \in S  BY <1>0
  <2> QED BY <2>1, SubSeqProperties, <1>0
<1>2. /\ b \in Seq(S) /\ Len(b) = Len(s) - i
      /\ \A j \in 1..Len(s) - i : b[j] = s[i + j]
  <2>1. i + 1 \in Int /\ Len(s) \in Int /\ \A j \in i + 1..Len(s) : s[j] \in S  BY <1>0
  <2>2. /\ b \in Seq(S)
        /\ Len(b) = IF i + 1 <= Len(s) THEN Len(s) - (i + 1) + 1 ELSE 0
        /\ \A j \in 1..Len(s) - (i + 1) + 1 : b[j] = s[i + 1 + j - 1]
    BY <2>1, SubSeqProperties
  <2> QED BY <2>2, <1>0
<1> HIDE DEF a, b
<1>3. RemoveAt(s, i) = a \o b  BY DEF RemoveAt, a, b
<1>4. /\ a \o b \in Seq(S) /\ Len(a \o b) = Len(a) + Len(b)
      /\ \A j \in 1..Len(a) + Len(b) : (a \o b)[j] = IF j <= Len(a) THEN a[j] ELSE b[j - Len(a)]
  BY <1>1, <1>2, ConcatProperties
<1>5. Len(a) + Len(b) = Len(s) - 1  BY <1>0, <1>1, <1>2
<1>6. ASSUME NEW j \in 1..Len(s) - 1 PROVE (a \o b)[j] = IF j < i THEN s[j] ELSE s[j + 1]
  <2>1. CASE j < i  BY <2>1, <1>0, <1>1, <1>4, <1>5
  <2>2. CASE j >= i
    <3>1. (a \o b)[j] = b[j - (i - 1)]  BY <2>2, <1>0, <1>1, <1>4, <1>5
    <3>2. j - (i - 1) \in 1..Len(s) - i  BY <2>2, <1>0
    <3> QED BY <3>1, <3>2, <1>2, <2>2, <1>0
  <2>3. j < i \/ j >= i  BY <1>0
  <2> QED BY <2>1, <2>2, <2>3, Zenon
<1> QED BY <1>3, <1>4, <1>5, <1>6

-----------------------------------------------------------------------------
(* Sequences that lost some of their elements.                             *)

SubOf(t, s) ==
  \E f \in [1..Len(t) -> 1..Len(s)] :
    /\ \A i \in 1..Len(t) : t[i] = s[f[i]]
    /\ \A i, j \in 1..Len(t) : i # j => f[i] # f[j]

LEMMA SubOfTail ==
  ASSUME NEW S, NEW s \in Seq(S), s # <<>>
  PROVE  SubOf(Tail(s), s)
<1>1. /\ Len(s) \in Nat /\ Len(Tail(s)) = Len(s) - 1 /\ Len(Tail(s)) \in Nat
      /\ \A i \in 1..Len(Tail(s)) : Tail(s)[i] = s[i + 1]
  BY HeadTailProperties, LenProperties
<1> DEFINE f == [i \in 1..Len(Tail(s)) |-> i + 1]
<1>2. f \in [1..Len(Tail(s)) -> 1..Len(s)]  BY <1>1
<1>3. \A i \in 1..Len(Tail(s)) : Tail(s)[i] = s[f[i]]  BY <1>1
<1>4. \A i, j \in 1..Len(Tail(s)) : i # j => f[i] # f[j]  BY <1>1
<1> HIDE DEF f
<1> QED BY <1>2, <1>3, <1>4 DEF SubOf

LEMMA SubOfRemoveAt ==
  ASSUME NEW S, NEW s \in Seq(S), NEW k \in 1..Len(s)
  PROVE  SubOf(RemoveAt(s, k), s)
<1> DEFINE t == RemoveAt(s, k)
           f == [i \in 1..Len(t) |-> IF i < k THEN i ELSE i + 1]
<1>1. /\ Len(s) \in Nat /\ Len(t) = Len(s) - 1 /\ Len(t) \in Nat
      /\ \A i \in 1..Len(t) : t[i] = IF i < k THEN s[i] ELSE s[i + 1]
  <2>1. /\ t \in Seq(S) /\ Len(t) = Len(s) - 1
        /\ \A i \in 1..Len(s) - 1 : t[i] = IF i < k THEN s[i] ELSE s[i + 1]
    BY RemoveAtIs
  <2> HIDE DEF t
  <2>2. Len(s) \in Nat /\ Len(t) \in Nat  BY <2>1, LenProperties
  <2> QED BY <2>1, <2>2
<1> HIDE DEF t
<1>2. f \in [1..Len(t) -> 1..Len(s)]  BY <1>1
<1>3. \A i \in 1..Len(t) : t[i] = s[f[i]]  BY <1>1
<1>4. \A i, j \in 1..Len(t) : i # j => f[i] # f[j]  BY <1>1
<1> HIDE DEF f
<1>5. SubOf(t, s)  BY <1>2, <1>3, <1>4 DEF SubOf
<1> QED BY <1>5 DEF t

LEMMA SubOfEmpty == ASSUME NEW s PROVE SubOf(<<>>, s)
<1> DEFINE f == [i \in 1..0 |-> 0]
<1>1. Len(<<>>) = 0  BY EmptySeq
<1>2. f \in [1..0 -> 1..Len(s)] /\ \A i \in 1..0 : FALSE  OBVIOUS
<1> HIDE DEF f
<1>3. f \in [1..Len(<<>>) -> 1..Len(s)] /\ \A i \in 1..Len(<<>>) : FALSE  BY <1>1, <1>2
<1> QED BY <1>3 DEF SubOf

LEMMA SubOfSelf == ASSUME NEW S, NEW s \in Seq(S) PROVE SubOf(s, s)
<1> DEFINE f == [i \in 1..Len(s) |-> i]
<1>1. f \in [1..Len(s) -> 1..Len(s)]  OBVIOUS
<1>2. \A i \in 1..Len(s) : s[i] = s[f[i]]  OBVIOUS
<1>3. \A i, j \in 1..Len(s) : i # j => f[i] # f[j]  OBVIOUS
<1> HIDE DEF f
<1> QED BY <1>1, <1>2, <1>3 DEF SubOf

-----------------------------------------------------------------------------
(* The table.                                                              *)

\* No row is lost or changes what it asked; new ones may have come.
RowsKeep ==
  /\ DOMAIN requests \subseteq DOMAIN requests'
  /\ \A r \in DOMAIN requests : /\ requests'[r].user = requests[r].user
                                /\ requests'[r].file = requests[r].file

Stands(r, p) == r \in DOMAIN requests /\ HashOf[requests[r].file] = HashOf[p]

\* An evaluate writes at most one row, which stands for the question.
LEMMA Inserted ==
  ASSUME ServerTypeOK, NEW u \in User, NEW p \in File, NEW r \in ReqId,
         NEW s \in Status, InsertRequest(r, u, p, s)
  PROVE  /\ DOMAIN requests' = DOMAIN requests \cup {r}
         /\ \A x \in DOMAIN requests : requests'[x] = requests[x]
         /\ \A x \in DOMAIN requests' : requests'[x] \in Request
         /\ requests'[r].user = u /\ requests'[r].status = s
         /\ HashOf[requests'[r].file] = HashOf[p]
         /\ \/ r \notin DOMAIN requests /\ (s = "pending" => SamePending(u, p) = {})
            \/ s = "pending" /\ r \in SamePending(u, p)
<1>1. CASE s = "pending" /\ SamePending(u, p) # {}
  BY <1>1 DEF InsertRequest, SamePending, ServerTypeOK
<1>2. CASE ~(s = "pending" /\ SamePending(u, p) # {})
  <2>1. r \notin DOMAIN requests /\ requests' = WithRequest(r, u, p, s)
    BY <1>2 DEF InsertRequest
  <2>2. [user |-> u, file |-> p, status |-> s] \in Request  BY DEF Request
  <2> QED BY <1>2, <2>1, <2>2 DEF WithRequest, ServerTypeOK
<1> QED BY <1>1, <1>2

LEMMA Evaluated ==
  ASSUME ServerTypeOK, NEW u \in User, NEW p \in File, NEW r \in ReqId,
         NEW v \in Verdict, EvaluateForDevice(u, p, v, r)
  PROVE  /\ ServerTypeOK' /\ RowsKeep
         /\ \A x \in DOMAIN requests : requests'[x] = requests[x]
         /\ v = "pending" => Stands(r, p)' /\ requests'[r].status = "pending"
<1>1. CASE v = "allow"
  BY <1>1 DEF EvaluateForDevice, ServerTypeOK, RowsKeep
<1>2. ASSUME NEW s \in {"pending", "denied"}, InsertRequest(r, u, p, s)
      PROVE  /\ ServerTypeOK' /\ RowsKeep
             /\ \A x \in DOMAIN requests : requests'[x] = requests[x]
             /\ Stands(r, p)' /\ requests'[r].status = s
  <2>0. s \in Status  BY DEF Status
  <2>1. /\ DOMAIN requests' = DOMAIN requests \cup {r}
        /\ \A x \in DOMAIN requests : requests'[x] = requests[x]
        /\ \A x \in DOMAIN requests' : requests'[x] \in Request
        /\ requests'[r].status = s
        /\ HashOf[requests'[r].file] = HashOf[p]
    BY <2>0, <1>2, Inserted
  <2>2. decisions' = decisions /\ connected' = connected  BY DEF EvaluateForDevice
  <2> QED BY <2>1, <2>2 DEF ServerTypeOK, RowsKeep, Stands
<1>3. CASE v = "deny"  BY <1>3, <1>2 DEF EvaluateForDevice
<1>4. CASE v = "pending"  BY <1>4, <1>2 DEF EvaluateForDevice
<1> QED BY <1>1, <1>3, <1>4 DEF Verdict

\* The entries a verdict writes.
ActionsOf(v) == IF v = "approve" THEN ApprovalActions ELSE DenialActions

\* A decision changes pending rows and no other, ...
RowsDecided(ids, v) ==
  /\ DOMAIN requests' = DOMAIN requests
  /\ \A x \in Decidable(ids) : /\ requests[x].status = "pending" /\ x \in DOMAIN requests
                               /\ requests'[x].status = StatusOf(v)
  /\ \A x \in DOMAIN requests \ Decidable(ids) : requests'[x] = requests[x]

\* ... and what it announces is behind everything that is on the socket.
RowsAnnounced(ids, v) ==
  \E q \in Seq(News) :
    /\ wire' = IF connected THEN wire \o q ELSE wire
    /\ \A i \in 1..Len(q) : q[i].req \in Decidable(ids) /\ q[i] = Announcement(v, q[i].req)
    /\ \A i, j \in 1..Len(q) : q[i].req = q[j].req => i = j
    /\ \A x \in Decidable(ids) : \E i \in 1..Len(q) : q[i].req = x

LEMMA Decided ==
  ASSUME ServerTypeOK, NEW ids \in SUBSET ReqId, NEW v \in {"approve", "deny"},
         NEW a \in ActionsOf(v), DecideAll(ids, v, a)
  PROVE  /\ ServerTypeOK' /\ RowsKeep
         /\ RowsDecided(ids, v) /\ RowsAnnounced(ids, v)
         /\ decisions' = decisions \cup {<<a, x>> : x \in Decidable(ids)}
         /\ connected' = connected
<1> DEFINE mine == Decidable(ids)
<1>1. mine \subseteq DOMAIN requests /\ mine \subseteq ReqId
  BY DEF Decidable
<1>2. StatusOf(v) \in Status  BY DEF StatusOf, Status
<1>3. requests' = [r \in DOMAIN requests |->
                     IF r \in mine THEN [requests[r] EXCEPT !.status = StatusOf(v)] ELSE requests[r]]
  BY DEF DecideAll
<1>4. decisions' = decisions \cup {<<a, x>> : x \in mine} /\ connected' = connected
  BY DEF DecideAll
<1>5. \A x \in DOMAIN requests : requests[x] \in Request  BY DEF ServerTypeOK
<1>6. ServerTypeOK'
  <2>1. a \in ApprovalActions \cup DenialActions  BY DEF ActionsOf
  <2>2. \A x \in DOMAIN requests' : requests'[x] \in Request  BY <1>2, <1>3, <1>5 DEF Request
  <2> QED BY <1>1, <1>3, <1>4, <2>1, <2>2 DEF ServerTypeOK
<1>7. PICK order \in SetToSeqs(mine) : Publish([i \in DOMAIN order |-> Announcement(v, order[i])])
  BY DEF DecideAll
<1> DEFINE n == Cardinality(mine)
           q == [i \in 1..n |-> Announcement(v, order[i])]
<1>8. IsFiniteSet(mine) /\ n \in Nat
  BY <1>1, FS_Subset, FS_CardinalityType, RequestServerAssumption DEF RequestServerAssumption
<1>9. order \in [1..n -> mine] /\ \A i, j \in 1..n : i # j => order[i] # order[j]
  BY DEF SetToSeqs
<1>10. DOMAIN order = 1..n  BY <1>9
<1>11. \A x \in mine : \E i \in 1..n : order[i] = x
  <2>1. order \in Injection(1..n, mine)  BY <1>9 DEF Injection, IsInjective
  <2>2. Cardinality(1..n) = n  BY <1>8, FS_Interval
  <2>3. order \in Surjection(1..n, mine)  BY <2>1, <2>2, <1>8, FS_Injection
  <2> QED BY <2>3 DEF Surjection
<1>12. /\ q \in Seq(News) /\ Len(q) = n
       /\ \A i \in 1..n : q[i] = Announcement(v, order[i]) /\ q[i].req = order[i]
  <2>1. \A i \in 1..n : Announcement(v, order[i]) \in News /\ Announcement(v, order[i]).req = order[i]
    BY <1>1, <1>9 DEF Announcement, News
  <2>2. q \in [1..n -> News]  BY <2>1
  <2>3. q \in Seq(News)  BY <2>2, <1>8
  <2>4. DOMAIN q = 1..n /\ DOMAIN q = 1..Len(q)  BY <2>2, <2>3, LenProperties
  <2>5. Len(q) = n  BY <2>4, <2>3, <1>8, LenProperties
  <2> QED BY <2>1, <2>3, <2>5
<1>13. wire' = IF connected THEN wire \o q ELSE wire  BY <1>7, <1>10 DEF Publish
<1> HIDE DEF q, n
<1>14. /\ q \in Seq(News)
       /\ \A i \in 1..Len(q) : q[i].req \in mine /\ q[i] = Announcement(v, q[i].req)
       /\ \A i, j \in 1..Len(q) : q[i].req = q[j].req => i = j
       /\ \A x \in mine : \E i \in 1..Len(q) : q[i].req = x
  BY <1>9, <1>11, <1>12
<1>15. ASSUME NEW x \in mine
       PROVE  /\ requests[x].status = "pending" /\ requests'[x].status = StatusOf(v)
              /\ requests'[x].user = requests[x].user /\ requests'[x].file = requests[x].file
  <2>1. requests[x].status = "pending"  BY DEF Decidable
  <2>2. requests[x] \in [user : User, file : File, status : Status]  BY <1>1, <1>5 DEF Request
  <2>3. requests'[x] = [requests[x] EXCEPT !.status = StatusOf(v)]  BY <1>1, <1>3
  <2> QED BY <2>1, <2>2, <2>3
<1>16. DOMAIN requests' = DOMAIN requests  BY <1>3
<1>17. \A x \in DOMAIN requests \ mine : requests'[x] = requests[x]  BY <1>3
<1>18. RowsKeep  BY <1>15, <1>16, <1>17 DEF RowsKeep
<1>19. RowsDecided(ids, v)  BY <1>1, <1>15, <1>16, <1>17 DEF RowsDecided
<1>20. RowsAnnounced(ids, v)  BY <1>13, <1>14 DEF RowsAnnounced
<1> QED BY <1>4, <1>6, <1>18, <1>19, <1>20

-----------------------------------------------------------------------------
(* Types.  The answer to a call is on the wire only while the call is open, *)
(* and only once: that is why taking it off always finds a caller who asks. *)

WireTypes ==
  /\ wire \in Seq(Message)
  /\ ~connected => wire = <<>>
  /\ \A i \in 1..Len(wire) : wire[i].type = "result" => caller[wire[i].to].step = "rpc"
  /\ \A i, j \in 1..Len(wire) :
       wire[i].type = "result" /\ wire[j].type = "result" /\ wire[i].to = wire[j].to => i = j
  /\ \A c \in Caller : caller[c].step = "rpc" => connected

TypeInv == TypeOK /\ WireTypes

\* A wire that lost elements, while callers whose answers are left still ask.
LEMMA WireLost ==
  ASSUME WireTypes, wire' \in Seq(Message), SubOf(wire', wire),
         \A i \in 1..Len(wire') : wire'[i].type = "result" => caller'[wire'[i].to].step = "rpc",
         ~connected' => wire' = <<>>,
         \A c \in Caller : caller'[c].step = "rpc" => connected'
  PROVE  WireTypes'
<1>1. PICK f \in [1..Len(wire') -> 1..Len(wire)] :
        /\ \A i \in 1..Len(wire') : wire'[i] = wire[f[i]]
        /\ \A i, j \in 1..Len(wire') : i # j => f[i] # f[j]
  BY DEF SubOf
<1>2. ASSUME NEW i \in 1..Len(wire'), NEW j \in 1..Len(wire'),
             wire'[i].type = "result", wire'[j].type = "result", wire'[i].to = wire'[j].to
      PROVE  i = j
  <2>1. f[i] \in 1..Len(wire) /\ f[j] \in 1..Len(wire)  BY <1>1
  <2>2. f[i] = f[j]  BY <1>1, <1>2, <2>1 DEF WireTypes
  <2> QED BY <1>1, <2>2
<1> QED BY <1>2 DEF WireTypes

\* Nothing but the callers moved, and who had asked still asks.
LEMMA WireStays ==
  ASSUME TypeInv, wire' = wire, connected' = connected,
         \A c \in Caller : caller[c].step = "rpc" => caller'[c].step = "rpc",
         \A c \in Caller : caller'[c].step = "rpc" => connected
  PROVE  WireTypes'
<1>1. wire \in Seq(Message)  BY DEF TypeInv, WireTypes
<1>2. \A i \in 1..Len(wire) : wire[i] \in Message  BY <1>1, ElementOfSeq
<1>3. \A i \in 1..Len(wire) : wire[i].type = "result" => wire[i].to \in Caller  BY <1>2, MessageKinds
<1>4. SubOf(wire', wire)  BY <1>1, SubOfSelf
<1>5. \A i \in 1..Len(wire') : wire'[i].type = "result" => caller'[wire'[i].to].step = "rpc"
  BY <1>3 DEF TypeInv, WireTypes
<1> QED BY <1>1, <1>4, <1>5, WireLost DEF TypeInv, WireTypes

LEMMA EmptyWire ==
  ASSUME wire' = <<>>, \A c \in Caller : caller'[c].step # "rpc"
  PROVE  WireTypes'
BY EmptySeq DEF WireTypes

LEMMA HeldIs ==
  ASSUME TypeOK, NEW c \in Caller, caller[c] \in Asking, NEW r \in ReqId, NEW l \in BOOLEAN,
         NEW s \in {"waiting", "timed-out", "unregistered"}
  PROVE  Held(s, c, r, l) \in Holding /\ Held(s, c, r, l).step = s
BY DEF Held, Holding, Asking

LEMMA DisconnectTypes == ASSUME TypeInv, Disconnect PROVE TypeInv'
<1>1. \A c \in Caller : caller[c] \in {Idle} \cup Asking \cup Holding  BY DEF TypeInv, TypeOK
<1>2. ASSUME NEW c \in Caller
      PROVE  caller'[c] \in {Idle} \cup Asking \cup Holding /\ caller'[c].step # "rpc"
  <2>0. caller'[c] = CASE caller[c].step = "rpc" -> [caller[c] EXCEPT !.step = "http"]
           [] caller[c].step \in {"waiting", "timed-out"} -> [caller[c] EXCEPT !.linked = FALSE]
           [] OTHER -> caller[c]
    BY DEF Disconnect, FailPending
  <2>1. CASE caller[c].step = "rpc"
    <3>1. caller[c] \in Asking  BY <1>1, <2>1, CallerKinds
    <3> QED BY <2>0, <2>1, <3>1 DEF Asking
  <2>2. CASE caller[c].step \in {"waiting", "timed-out"}
    <3>1. caller[c] \in Holding  BY <1>1, <2>2, CallerKinds
    <3>2. caller'[c] = [caller[c] EXCEPT !.linked = FALSE]  BY <2>0, <2>2
    <3>3. caller'[c] \in Holding /\ caller'[c].step = caller[c].step
      BY <3>1, <3>2 DEF Holding
    <3> QED BY <2>2, <3>3
  <2>3. CASE caller[c].step \notin {"rpc", "waiting", "timed-out"}
    BY <2>0, <2>3, <1>1
  <2> QED BY <2>1, <2>2, <2>3
<1>3. caller' = [c \in Caller |-> caller'[c]]  BY DEF Disconnect, FailPending
<1>4. WireTypes'  BY <1>2, EmptyWire DEF Disconnect
<1>5. TypeOK'
  <2>1. ServerTypeOK'  BY DEF TypeInv, TypeOK, ServerTypeOK, Disconnect
  <2> QED BY <1>2, <1>3, <2>1 DEF TypeInv, TypeOK, Disconnect
<1> QED BY <1>4, <1>5 DEF TypeInv

LEMMA CrashTypes == ASSUME TypeInv, Crash PROVE TypeInv'
<1>1. \A c \in Caller : caller'[c].step # "rpc"  BY DEF Crash, Idle
<1>2. WireTypes'  BY <1>1, EmptyWire DEF Crash
<1>3. TypeOK'  BY DEF TypeInv, TypeOK, ServerTypeOK, Crash
<1> QED BY <1>2, <1>3 DEF TypeInv

\* A handler's own step: its record changes, the console and the wire do not.
LEMMA CallerStepTypes ==
  ASSUME TypeInv, UNCHANGED serverVars, UNCHANGED opened,
         DOMAIN jobs' \subseteq ReqId, \A r \in DOMAIN jobs' : jobs'[r] \in Name,
         caller' \in [Caller -> {Idle} \cup Asking \cup Holding],
         \A c \in Caller : caller[c].step = "rpc" => caller'[c].step = "rpc",
         \A c \in Caller : caller'[c].step = "rpc" => connected
  PROVE  TypeInv'
<1>1. WireTypes'  BY WireStays DEF serverVars
<1>2. TypeOK'  BY DEF TypeInv, TypeOK, ServerTypeOK, serverVars
<1> QED BY <1>1, <1>2 DEF TypeInv

LEMMA ConnectTypes == ASSUME TypeInv, Connect PROVE TypeInv'
<1>1. wire = <<>>  BY DEF TypeInv, WireTypes, Connect
<1>2. TypeOK'  BY DEF TypeInv, TypeOK, ServerTypeOK, Connect, agentVars
<1>3. WireTypes'  BY DEF TypeInv, WireTypes, Connect, agentVars
<1> QED BY <1>2, <1>3 DEF TypeInv

LEMMA AskTypes ==
  ASSUME TypeInv, NEW c \in Caller, NEW u \in User, NEW p \in File, Ask(c, u, p)
  PROVE  TypeInv'
<1> DEFINE x == [step |-> IF connected THEN "rpc" ELSE "http", user |-> u, file |-> p]
<1>1. x \in Asking /\ (x.step = "rpc" => connected)  BY DEF Asking
<1>2. caller' = [caller EXCEPT ![c] = x] /\ caller[c] = Idle  BY DEF Ask
<1> HIDE DEF x
<1>3. caller' \in [Caller -> {Idle} \cup Asking \cup Holding]  BY <1>1, <1>2 DEF TypeInv, TypeOK
<1>4. \A d \in Caller : d # c => caller'[d] = caller[d]  BY <1>2 DEF TypeInv, TypeOK
<1>5. caller'[c] = x /\ caller[c].step # "rpc"  BY <1>2 DEF TypeInv, TypeOK, Idle
<1>6. \A d \in Caller : caller[d].step = "rpc" => caller'[d].step = "rpc"  BY <1>4, <1>5
<1>7. \A d \in Caller : caller'[d].step = "rpc" => connected
  BY <1>1, <1>4, <1>5 DEF TypeInv, WireTypes
<1>8. UNCHANGED serverVars /\ UNCHANGED opened /\ UNCHANGED jobs  BY DEF Ask
<1> QED BY <1>3, <1>6, <1>7, <1>8, CallerStepTypes DEF TypeInv, TypeOK

\* One more message behind what is on the wire, of a kind that asks nobody.
LEMMA WireGrows ==
  ASSUME TypeInv, NEW q \in Seq(Message), connected, connected',
         wire' = wire \o q, UNCHANGED caller,
         \A i \in 1..Len(q) : q[i].type = "result" =>
           /\ caller[q[i].to].step = "rpc"
           /\ \A j \in 1..Len(wire) : IsAnswerTo(wire[j], q[i].to) => FALSE
           /\ \A j \in 1..Len(q) : q[j].type = "result" => i = j
  PROVE  WireTypes'
<1>1. /\ wire \in Seq(Message) /\ Len(wire) \in Nat /\ Len(q) \in Nat
      /\ wire' \in Seq(Message) /\ Len(wire') = Len(wire) + Len(q)
      /\ \A i \in 1..Len(wire) + Len(q) : wire'[i] = IF i <= Len(wire) THEN wire[i] ELSE q[i - Len(wire)]
  <2>1. wire \in Seq(Message)  BY DEF TypeInv, WireTypes
  <2> QED BY <2>1, ConcatProperties, LenProperties
<1>2. \A i \in 1..Len(wire) : wire[i].type = "result" => caller[wire[i].to].step = "rpc"
  BY DEF TypeInv, WireTypes
<1>3. ASSUME NEW i \in 1..Len(wire'), wire'[i].type = "result"
      PROVE  caller'[wire'[i].to].step = "rpc"
  <2>1. CASE i <= Len(wire)
    <3>1. i \in 1..Len(wire) /\ wire'[i] = wire[i]  BY <1>1, <2>1
    <3> QED BY <1>2, <1>3, <3>1
  <2>2. CASE i > Len(wire)
    <3>1. i - Len(wire) \in 1..Len(q) /\ wire'[i] = q[i - Len(wire)]  BY <1>1, <2>2
    <3> QED BY <1>3, <3>1
  <2>3. i <= Len(wire) \/ i > Len(wire)  BY <1>1
  <2> QED BY <2>1, <2>2, <2>3
<1>4. ASSUME NEW i \in 1..Len(wire'), NEW j \in 1..Len(wire'), i < j,
             wire'[i].type = "result", wire'[j].type = "result", wire'[i].to = wire'[j].to
      PROVE  FALSE
  <2>1. CASE j <= Len(wire)
    <3>1. i \in 1..Len(wire) /\ wire'[i] = wire[i] /\ j \in 1..Len(wire) /\ wire'[j] = wire[j]
      BY <1>1, <1>4, <2>1
    <3>2. i = j  BY <1>4, <3>1 DEF TypeInv, WireTypes
    <3> QED BY <3>2, <1>4, <1>1
  <2>2. CASE j > Len(wire) /\ i <= Len(wire)
    <3>1. i \in 1..Len(wire) /\ wire'[i] = wire[i]
          /\ j - Len(wire) \in 1..Len(q) /\ wire'[j] = q[j - Len(wire)]
      BY <1>1, <2>2
    <3> QED BY <1>4, <3>1 DEF IsAnswerTo
  <2>3. CASE i > Len(wire)
    <3>1. i - Len(wire) \in 1..Len(q) /\ wire'[i] = q[i - Len(wire)]
          /\ j - Len(wire) \in 1..Len(q) /\ wire'[j] = q[j - Len(wire)]
          /\ i - Len(wire) # j - Len(wire)
      BY <1>1, <1>4, <2>3
    <3> QED BY <1>4, <3>1
  <2>4. j <= Len(wire) \/ (j > Len(wire) /\ i <= Len(wire)) \/ i > Len(wire)  BY <1>1
  <2> QED BY <2>1, <2>2, <2>3, <2>4
<1>5. ASSUME NEW i \in 1..Len(wire'), NEW j \in 1..Len(wire'),
             wire'[i].type = "result", wire'[j].type = "result", wire'[i].to = wire'[j].to
      PROVE  i = j
  <2>1. i < j \/ j < i \/ i = j  BY <1>1
  <2> QED BY <2>1, <1>4, <1>5
<1> QED BY <1>1, <1>3, <1>5 DEF TypeInv, WireTypes

LEMMA RpcEvaluateTypes ==
  ASSUME TypeInv, NEW c \in Caller, NEW v \in Verdict, NEW r \in ReqId, RpcEvaluate(c, v, r)
  PROVE  TypeInv'
<1>1. caller[c] \in Asking /\ caller[c].step = "rpc"
  <2>1. caller[c] \in {Idle} \cup Asking \cup Holding  BY DEF TypeInv, TypeOK
  <2> QED BY <2>1, CallerKinds DEF RpcEvaluate
<1>2. caller[c].user \in User /\ caller[c].file \in File  BY <1>1 DEF Asking
<1>3. ServerTypeOK' /\ connected' = connected /\ connected
  <2>1. EvaluateForDevice(caller[c].user, caller[c].file, v, r) /\ connected  BY DEF RpcEvaluate
  <2>2. ServerTypeOK'  BY <1>2, <2>1, Evaluated DEF TypeInv, TypeOK
  <2>3. connected' = connected  BY <2>1 DEF EvaluateForDevice
  <2> QED BY <2>1, <2>2, <2>3
<1>4. TypeOK'  BY <1>3 DEF TypeInv, TypeOK, RpcEvaluate, agentVars
<1> DEFINE q == <<Answer(c, v, r)>>
<1>5. q \in Seq(Message) /\ Len(q) = 1 /\ q[1] = Answer(c, v, r)
  BY DEF Answer, Message, Plain, Pending
<1>6. q[1].to = c  BY <1>5 DEF Answer
<1>7. wire' = wire \o q  BY <1>3 DEF RpcEvaluate, Publish
<1>8. \A j \in 1..Len(wire) : ~IsAnswerTo(wire[j], c)
  <2>1. wire \in Seq(Message)  BY DEF TypeInv, WireTypes
  <2>2. DOMAIN wire = 1..Len(wire)  BY <2>1, LenProperties
  <2>3. ~RpcOutstanding(c)  BY DEF RpcEvaluate
  <2> QED BY <2>2, <2>3 DEF RpcOutstanding
<1> HIDE DEF q
<1>9. \A i \in 1..Len(q) : i = 1  BY <1>5
<1>10. WireTypes'
  <2>1. UNCHANGED caller  BY DEF RpcEvaluate, agentVars
  <2>2. \A i \in 1..Len(q) : q[i].type = "result" =>
           /\ caller[q[i].to].step = "rpc"
           /\ \A j \in 1..Len(wire) : IsAnswerTo(wire[j], q[i].to) => FALSE
           /\ \A j \in 1..Len(q) : q[j].type = "result" => i = j
    BY <1>1, <1>6, <1>8, <1>9
  <2> QED BY <2>1, <2>2, <1>3, <1>5, <1>7, WireGrows
<1> QED BY <1>4, <1>10 DEF TypeInv

LEMMA DecisionTypes ==
  ASSUME TypeInv, NEW ids \in SUBSET ReqId, NEW v \in {"approve", "deny"},
         NEW a \in ActionsOf(v), DecideAll(ids, v, a), UNCHANGED agentVars
  PROVE  TypeInv'
<1>1. ServerTypeOK  BY DEF TypeInv, TypeOK
<1>2. /\ ServerTypeOK' /\ connected' = connected
      /\ \E q \in Seq(News) : wire' = IF connected THEN wire \o q ELSE wire
  BY <1>1, Decided DEF RowsAnnounced
<1>3. TypeOK'  BY <1>2 DEF TypeInv, TypeOK, agentVars
<1>4. ASSUME ~connected PROVE WireTypes'
  <2>1. wire' = wire /\ connected' = connected  BY <1>2, <1>4
  <2>2. caller' = caller  BY DEF agentVars
  <2>3. \A c \in Caller : caller[c].step = "rpc" => connected  BY DEF TypeInv, WireTypes
  <2> QED BY <2>1, <2>2, <2>3, WireStays
<1>5. ASSUME connected PROVE WireTypes'
  <2>1. PICK q \in Seq(News) : wire' = wire \o q  BY <1>2, <1>5
  <2>2. \A i \in 1..Len(q) : q[i] \in News  BY <2>1, ElementOfSeq
  <2>3. q \in Seq(Message)
    <3>1. Len(q) \in Nat /\ q = [i \in 1..Len(q) |-> q[i]]  BY <2>1, LenProperties
    <3>2. \A i \in 1..Len(q) : q[i] \in Message  BY <2>2 DEF Message
    <3>3. q \in [1..Len(q) -> Message]  BY <3>1, <3>2
    <3> QED BY <3>1, <3>3
  <2>4. \A i \in 1..Len(q) : q[i].type # "result"  BY <2>2 DEF News
  <2> QED BY <1>2, <1>5, <2>1, <2>3, <2>4, WireGrows DEF agentVars
<1> QED BY <1>3, <1>4, <1>5 DEF TypeInv

LEMMA RpcFailsTypes ==
  ASSUME TypeInv, NEW c \in Caller, RpcFails(c) PROVE TypeInv'
<1>1. caller[c] \in Asking /\ caller[c].step = "rpc"
  <2>1. caller[c] \in {Idle} \cup Asking \cup Holding  BY DEF TypeInv, TypeOK
  <2> QED BY <2>1, CallerKinds DEF RpcFails
<1>2. /\ caller' = [caller EXCEPT ![c].step = "http"]
      /\ caller \in [Caller -> {Idle} \cup Asking \cup Holding]
  BY DEF RpcFails, TypeInv, TypeOK
<1>3. caller'[c] \in Asking /\ caller'[c].step = "http"  BY <1>1, <1>2 DEF Asking
<1>4. \A d \in Caller : d # c => caller'[d] = caller[d]  BY <1>2
<1>5. caller' \in [Caller -> {Idle} \cup Asking \cup Holding]  BY <1>2, <1>3
<1>6. TypeOK'
  <2>1. UNCHANGED <<requests, decisions, connected, jobs, opened>>  BY DEF RpcFails
  <2> QED BY <1>5, <2>1 DEF TypeInv, TypeOK, ServerTypeOK
<1>7. connected' = connected  BY DEF RpcFails
<1>8. wire \in Seq(Message) /\ DOMAIN wire = 1..Len(wire) /\ Len(wire) \in Nat
  <2>1. wire \in Seq(Message)  BY DEF TypeInv, WireTypes
  <2> QED BY <2>1, LenProperties
<1>9. \A d \in Caller : caller'[d].step = "rpc" => connected'
  BY <1>3, <1>4, <1>7 DEF TypeInv, WireTypes
<1>10. ~connected' => wire = <<>>  BY <1>7 DEF TypeInv, WireTypes
<1>11. WireTypes  BY DEF TypeInv
<1>12. CASE RpcOutstanding(c)
  <2>1. PICK k \in 1..Len(wire) : IsAnswerTo(wire[k], c) /\ wire' = RemoveAt(wire, k)
    BY <1>8, <1>12 DEF RpcFails
  <2>2. /\ wire' \in Seq(Message) /\ SubOf(wire', wire)
        /\ Len(wire') = Len(wire) - 1
        /\ \A j \in 1..Len(wire) - 1 : wire'[j] = IF j < k THEN wire[j] ELSE wire[j + 1]
    BY <1>8, <2>1, RemoveAtIs, SubOfRemoveAt
  <2>3. ASSUME NEW i \in 1..Len(wire'), wire'[i].type = "result"
        PROVE  caller'[wire'[i].to].step = "rpc"
    <3>1. PICK j \in 1..Len(wire) : j # k /\ wire'[i] = wire[j]
      <4>1. CASE i < k  BY <4>1, <2>2, <1>8
      <4>2. CASE i >= k
        <5>1. wire'[i] = wire[i + 1] /\ i + 1 \in 1..Len(wire) /\ i + 1 # k  BY <4>2, <2>2, <1>8
        <5> QED BY <5>1
      <4> QED BY <4>1, <4>2, <1>8
    <3>2. wire[j] \in Message  BY <1>8, ElementOfSeq
    <3>3. wire[j].to \in Caller  BY <2>3, <3>1, <3>2, MessageKinds
    <3>4. caller[wire[j].to].step = "rpc"  BY <2>3, <3>1 DEF TypeInv, WireTypes
    <3>5. wire[j].to # c
      BY <2>1, <2>3, <3>1 DEF TypeInv, WireTypes, IsAnswerTo
    <3> QED BY <3>1, <3>3, <3>4, <3>5, <1>4
  <2>4. ~connected' => wire' = <<>>
    <3>1. Len(wire) # 0  BY <2>1, <1>8
    <3> QED BY <3>1, <1>10, EmptySeq
  <2>5. WireTypes'  BY <2>2, <2>3, <2>4, <1>9, <1>11, WireLost
  <2> QED BY <2>5, <1>6 DEF TypeInv
<1>13. CASE ~RpcOutstanding(c)
  <2>1. wire' = wire  BY <1>13 DEF RpcFails
  <2>2. ASSUME NEW i \in 1..Len(wire'), wire'[i].type = "result"
        PROVE  caller'[wire'[i].to].step = "rpc"
    <3>1. wire[i] \in Message  BY <1>8, <2>1, ElementOfSeq
    <3>2. wire[i].to \in Caller  BY <2>1, <2>2, <3>1, MessageKinds
    <3>3. wire[i].to # c
      BY <1>8, <1>13, <2>1, <2>2 DEF RpcOutstanding, IsAnswerTo
    <3>4. caller[wire[i].to].step = "rpc"  BY <2>1, <2>2 DEF TypeInv, WireTypes
    <3> QED BY <2>1, <3>2, <3>3, <3>4, <1>4
  <2>3. SubOf(wire', wire)  BY <2>1, <1>8, SubOfSelf
  <2>4. WireTypes'  BY <2>1, <2>2, <2>3, <1>8, <1>9, <1>10, <1>11, WireLost
  <2> QED BY <2>4, <1>6 DEF TypeInv
<1> QED BY <1>12, <1>13

\* The console wrote at most one row and nothing moved on the PC's side.
LEMMA HttpTypes ==
  ASSUME TypeInv, NEW c \in Caller, caller[c].step = "http", NEW v \in Verdict, NEW r \in ReqId,
         EvaluateForDevice(caller[c].user, caller[c].file, v, r)
  PROVE  caller[c] \in Asking /\ ServerTypeOK' /\ connected' = connected
<1>1. caller[c] \in Asking
  <2>1. caller[c] \in {Idle} \cup Asking \cup Holding  BY DEF TypeInv, TypeOK
  <2> QED BY <2>1, CallerKinds
<1>2. caller[c].user \in User /\ caller[c].file \in File  BY <1>1 DEF Asking
<1>3. ServerTypeOK'  BY <1>2, Evaluated DEF TypeInv, TypeOK
<1>4. connected' = connected  BY DEF EvaluateForDevice
<1> QED BY <1>1, <1>3, <1>4

LEMMA HttpEvaluateTypes ==
  ASSUME TypeInv, NEW c \in Caller, NEW v \in Verdict, NEW r \in ReqId, HttpEvaluate(c, v, r)
  PROVE  TypeInv'
<1> DEFINE x == IF v = "pending" THEN Held("unregistered", c, r, FALSE) ELSE Idle
<1>1. caller[c].step = "http" /\ EvaluateForDevice(caller[c].user, caller[c].file, v, r)
      /\ caller' = [caller EXCEPT ![c] = x] /\ UNCHANGED <<wire, jobs, opened>>
  BY DEF HttpEvaluate
<1>2. caller[c] \in Asking /\ ServerTypeOK' /\ connected' = connected  BY <1>1, HttpTypes
<1>3. x \in {Idle} \cup Holding /\ x.step # "rpc"  BY <1>2, HeldIs DEF TypeInv, Idle
<1> HIDE DEF x
<1>4. caller \in [Caller -> {Idle} \cup Asking \cup Holding]  BY DEF TypeInv, TypeOK
<1>5. caller' \in [Caller -> {Idle} \cup Asking \cup Holding]  BY <1>1, <1>3, <1>4
<1>6. caller'[c] = x /\ \A d \in Caller : d # c => caller'[d] = caller[d]  BY <1>1, <1>4
<1>7. TypeOK'  BY <1>1, <1>2, <1>5 DEF TypeInv, TypeOK
<1>8. \A d \in Caller : caller[d].step = "rpc" => caller'[d].step = "rpc"  BY <1>1, <1>6
<1>9. \A d \in Caller : caller'[d].step = "rpc" => connected
  BY <1>3, <1>6 DEF TypeInv, WireTypes
<1>10. WireTypes'  BY <1>1, <1>2, <1>8, <1>9, WireStays
<1> QED BY <1>7, <1>10 DEF TypeInv

LEMMA HttpAnswerLostTypes ==
  ASSUME TypeInv, NEW c \in Caller, NEW v \in Verdict, NEW r \in ReqId, HttpAnswerLost(c, v, r)
  PROVE  TypeInv'
<1>1. caller[c].step = "http" /\ EvaluateForDevice(caller[c].user, caller[c].file, v, r)
      /\ UNCHANGED <<wire, caller, jobs, opened>>
  BY DEF HttpAnswerLost, agentVars
<1>2. ServerTypeOK' /\ connected' = connected  BY <1>1, HttpTypes
<1>3. TypeOK'  BY <1>1, <1>2 DEF TypeInv, TypeOK
<1>4. \A d \in Caller : caller[d].step = "rpc" => connected  BY DEF TypeInv, WireTypes
<1>5. WireTypes'  BY <1>1, <1>2, <1>4, WireStays
<1> QED BY <1>3, <1>5 DEF TypeInv

LEMMA HttpGivesUpTypes ==
  ASSUME TypeInv, NEW c \in Caller, HttpGivesUp(c) PROVE TypeInv'
<1>1. /\ caller[c].step = "http" /\ caller' = [caller EXCEPT ![c] = Idle]
      /\ UNCHANGED serverVars /\ UNCHANGED jobs /\ UNCHANGED opened
  BY DEF HttpGivesUp
<1>2. caller \in [Caller -> {Idle} \cup Asking \cup Holding]  BY DEF TypeInv, TypeOK
<1>3. caller' \in [Caller -> {Idle} \cup Asking \cup Holding]  BY <1>1, <1>2
<1>4. caller'[c] = Idle /\ \A d \in Caller : d # c => caller'[d] = caller[d]  BY <1>1, <1>2
<1>5. \A d \in Caller : caller[d].step = "rpc" => caller'[d].step = "rpc"  BY <1>1, <1>4
<1>6. \A d \in Caller : caller'[d].step = "rpc" => connected
  BY <1>4 DEF TypeInv, WireTypes, Idle
<1> QED BY <1>1, <1>3, <1>5, <1>6, CallerStepTypes DEF TypeInv, TypeOK

LEMMA WaitTimesOutTypes ==
  ASSUME TypeInv, NEW c \in Caller, WaitTimesOut(c) PROVE TypeInv'
<1>1. /\ caller[c].step = "waiting" /\ caller' = [caller EXCEPT ![c].step = "timed-out"]
      /\ UNCHANGED serverVars /\ UNCHANGED jobs /\ UNCHANGED opened
  BY DEF WaitTimesOut
<1>2. caller \in [Caller -> {Idle} \cup Asking \cup Holding]  BY DEF TypeInv, TypeOK
<1>3. caller[c] \in Holding  BY <1>1, <1>2, CallerKinds
<1>4. caller'[c] \in Holding /\ caller'[c].step = "timed-out"  BY <1>1, <1>2, <1>3 DEF Holding
<1>5. \A d \in Caller : d # c => caller'[d] = caller[d]  BY <1>1, <1>2
<1>6. caller' \in [Caller -> {Idle} \cup Asking \cup Holding]  BY <1>1, <1>2, <1>4
<1>7. \A d \in Caller : caller[d].step = "rpc" => caller'[d].step = "rpc"  BY <1>1, <1>5
<1>8. \A d \in Caller : caller'[d].step = "rpc" => connected
  BY <1>4, <1>5 DEF TypeInv, WireTypes
<1> QED BY <1>1, <1>6, <1>7, <1>8, CallerStepTypes DEF TypeInv, TypeOK

LEMMA RemoveWaiterTypes ==
  ASSUME TypeInv, NEW c \in Caller, RemoveWaiter(c) PROVE TypeInv'
<1>1. /\ caller[c].step = "timed-out"
      /\ UNCHANGED serverVars /\ UNCHANGED jobs /\ UNCHANGED opened
      /\ caller' = [x \in Caller |->
           IF x = c THEN [caller[c] EXCEPT !.step = "unregistered", !.linked = FALSE]
           ELSE IF x \in InTable(caller[c].req) THEN [caller[x] EXCEPT !.linked = FALSE]
           ELSE caller[x]]
  BY DEF RemoveWaiter
<1>2. \A d \in Caller : caller[d] \in {Idle} \cup Asking \cup Holding  BY DEF TypeInv, TypeOK
<1>3. ASSUME NEW d \in Caller
      PROVE  /\ caller'[d] \in {Idle} \cup Asking \cup Holding
             /\ caller[d].step = "rpc" <=> caller'[d].step = "rpc"
  <2>1. CASE d = c
    <3>1. caller[d] \in Holding  BY <1>1, <1>2, <2>1, CallerKinds
    <3>2. caller'[d] = [caller[d] EXCEPT !.step = "unregistered", !.linked = FALSE]  BY <1>1, <2>1
    <3>3. caller'[d] \in Holding /\ caller'[d].step = "unregistered"  BY <3>1, <3>2 DEF Holding
    <3> QED BY <1>1, <2>1, <3>3
  <2>2. CASE d # c /\ d \in InTable(caller[c].req)
    <3>1. caller[d].step \in {"waiting", "timed-out"}  BY <2>2 DEF InTable
    <3>2. caller[d] \in Holding  BY <1>2, <3>1, CallerKinds
    <3>3. caller'[d] = [caller[d] EXCEPT !.linked = FALSE]  BY <1>1, <2>2
    <3>4. caller'[d] \in Holding /\ caller'[d].step = caller[d].step  BY <3>2, <3>3 DEF Holding
    <3> QED BY <3>1, <3>4
  <2>3. CASE d # c /\ d \notin InTable(caller[c].req)
    BY <1>1, <1>2, <2>3
  <2> QED BY <2>1, <2>2, <2>3
<1>4. caller' \in [Caller -> {Idle} \cup Asking \cup Holding]  BY <1>1, <1>3
<1>5. \A d \in Caller : caller'[d].step = "rpc" => connected
  BY <1>3 DEF TypeInv, WireTypes
<1> QED BY <1>1, <1>3, <1>4, <1>5, CallerStepTypes DEF TypeInv, TypeOK

LEMMA RegisterTypes ==
  ASSUME TypeInv, NEW c \in Caller, Register(c) PROVE TypeInv'
<1>1. /\ caller[c].step = "unregistered" /\ caller' = [caller EXCEPT ![c] = Idle]
      /\ UNCHANGED serverVars /\ UNCHANGED opened
      /\ jobs' = [r \in DOMAIN jobs \cup {caller[c].req} |->
                    IF r = caller[c].req THEN NameOf[caller[c].file] ELSE jobs[r]]
  BY DEF Register
<1>2. caller \in [Caller -> {Idle} \cup Asking \cup Holding]  BY DEF TypeInv, TypeOK
<1>3. caller[c] \in Holding  BY <1>1, <1>2, CallerKinds
<1>4. caller[c].req \in ReqId /\ NameOf[caller[c].file] \in Name  BY <1>3 DEF Holding, Name
<1>5. DOMAIN jobs' \subseteq ReqId /\ \A r \in DOMAIN jobs' : jobs'[r] \in Name
  BY <1>1, <1>4 DEF TypeInv, TypeOK
<1>6. caller' \in [Caller -> {Idle} \cup Asking \cup Holding]  BY <1>1, <1>2
<1>7. caller'[c] = Idle /\ \A d \in Caller : d # c => caller'[d] = caller[d]  BY <1>1, <1>2
<1>8. \A d \in Caller : caller[d].step = "rpc" => caller'[d].step = "rpc"  BY <1>1, <1>7
<1>9. \A d \in Caller : caller'[d].step = "rpc" => connected
  BY <1>7 DEF TypeInv, WireTypes, Idle
<1> QED BY <1>1, <1>5, <1>6, <1>8, <1>9, CallerStepTypes

\* What the receive loop takes off the wire.
LEMMA TakenIs ==
  ASSUME TypeInv, wire # <<>>, Taken
  PROVE  /\ Head(wire) = wire[1] /\ Head(wire) \in Message
         /\ wire' \in Seq(Message) /\ SubOf(wire', wire) /\ connected
         /\ Len(wire) \in Nat /\ 1 \in 1..Len(wire) /\ Len(wire') = Len(wire) - 1
         /\ \A i \in 1..Len(wire') : wire'[i] = wire[i + 1] /\ i + 1 \in 1..Len(wire)
<1>1. wire \in Seq(Message)  BY DEF TypeInv, WireTypes
<1>2. /\ Head(wire) = wire[1] /\ Head(wire) \in Message /\ Tail(wire) \in Seq(Message)
      /\ Len(Tail(wire)) = Len(wire) - 1 /\ Len(wire) \in Nat /\ Len(wire) # 0
      /\ \A i \in 1..Len(Tail(wire)) : Tail(wire)[i] = wire[i + 1]
  BY <1>1, HeadTailProperties, LenProperties, EmptySeq
<1>3. SubOf(Tail(wire), wire)  BY <1>1, SubOfTail
<1>4. connected  BY DEF TypeInv, WireTypes
<1> QED BY <1>2, <1>3, <1>4 DEF Taken

\* A message that answers nobody is taken, and nobody who asks stops asking.
LEMMA NewsTakenTypes ==
  ASSUME TypeInv, wire # <<>>, Taken, Head(wire).type # "result",
         UNCHANGED <<requests, decisions, connected>>,
         DOMAIN jobs' \subseteq ReqId, \A r \in DOMAIN jobs' : jobs'[r] \in Name,
         opened' \subseteq ReqId \X Name \X (Caller \cup {"nobody"}),
         caller' \in [Caller -> {Idle} \cup Asking \cup Holding],
         \A c \in Caller : caller[c].step = "rpc" <=> caller'[c].step = "rpc"
  PROVE  TypeInv'
<1>1. TypeOK'  BY DEF TypeInv, TypeOK, ServerTypeOK
<1>2. /\ wire' \in Seq(Message) /\ SubOf(wire', wire) /\ connected
      /\ \A i \in 1..Len(wire') : wire'[i] = wire[i + 1] /\ i + 1 \in 1..Len(wire)
  BY TakenIs
<1>3. ASSUME NEW i \in 1..Len(wire'), wire'[i].type = "result"
      PROVE  caller'[wire'[i].to].step = "rpc"
  <2>1. wire'[i] = wire[i + 1] /\ i + 1 \in 1..Len(wire)  BY <1>2
  <2>2. wire'[i].to \in Caller  BY <1>2, <1>3, ElementOfSeq, MessageKinds
  <2>3. caller[wire'[i].to].step = "rpc"  BY <1>3, <2>1 DEF TypeInv, WireTypes
  <2> QED BY <2>2, <2>3
<1>4. WireTypes'  BY <1>2, <1>3, WireLost DEF TypeInv
<1> QED BY <1>1, <1>4 DEF TypeInv

LEMMA ReceiveResultTypes == ASSUME TypeInv, ReceiveResult PROVE TypeInv'
<1> DEFINE m == Head(wire)
           c == m.to
           x == IF "req" \in DOMAIN m THEN Held("waiting", c, m.req, TRUE) ELSE Idle
<1>1. /\ wire # <<>> /\ m.type = "result" /\ Taken /\ caller' = [caller EXCEPT ![c] = x]
      /\ UNCHANGED <<requests, decisions, connected, jobs, opened>>
  BY DEF ReceiveResult, Arriving
<1>2. /\ m = wire[1] /\ m \in Message
      /\ wire' \in Seq(Message) /\ SubOf(wire', wire) /\ connected
      /\ Len(wire) \in Nat /\ 1 \in 1..Len(wire)
      /\ \A i \in 1..Len(wire') : wire'[i] = wire[i + 1] /\ i + 1 \in 1..Len(wire)
  BY <1>1, TakenIs
<1> HIDE DEF m
<1>3. c \in Caller /\ ("req" \in DOMAIN m => m.req \in ReqId)  BY <1>1, <1>2, MessageKinds
<1>4. caller[c].step = "rpc"  BY <1>1, <1>2 DEF TypeInv, WireTypes
<1>5. caller[c] \in Asking
  <2>1. caller[c] \in {Idle} \cup Asking \cup Holding  BY <1>3 DEF TypeInv, TypeOK
  <2> QED BY <1>4, <2>1, CallerKinds
<1>6. x \in {Idle} \cup Holding /\ x.step # "rpc"  BY <1>3, <1>5, HeldIs DEF TypeInv, Idle
<1> HIDE DEF x, c
<1>7. caller \in [Caller -> {Idle} \cup Asking \cup Holding]  BY DEF TypeInv, TypeOK
<1>8. caller' \in [Caller -> {Idle} \cup Asking \cup Holding]  BY <1>1, <1>6, <1>7
<1>9. caller'[c] = x /\ \A d \in Caller : d # c => caller'[d] = caller[d]  BY <1>1, <1>3, <1>7
<1>10. TypeOK'  BY <1>1, <1>8 DEF TypeInv, TypeOK, ServerTypeOK
<1>11. ASSUME NEW i \in 1..Len(wire'), wire'[i].type = "result"
       PROVE  caller'[wire'[i].to].step = "rpc"
  <2>1. wire'[i] = wire[i + 1] /\ i + 1 \in 1..Len(wire) /\ i + 1 # 1  BY <1>2
  <2>2. wire'[i].to \in Caller  BY <1>2, <1>11, ElementOfSeq, MessageKinds
  <2>3. caller[wire'[i].to].step = "rpc"  BY <1>11, <2>1 DEF TypeInv, WireTypes
  <2>4. wire'[i].to # c  BY <1>1, <1>2, <1>11, <2>1 DEF TypeInv, WireTypes, c
  <2> QED BY <1>9, <2>2, <2>3, <2>4
<1>12. \A d \in Caller : caller'[d].step = "rpc" => connected'  BY <1>1, <1>2
<1>13. WireTypes'  BY <1>1, <1>2, <1>11, <1>12, WireLost DEF TypeInv
<1> QED BY <1>10, <1>13 DEF TypeInv

LEMMA CompleteTypes ==
  ASSUME TypeInv, NEW r, Complete(r)
  PROVE  /\ caller' \in [Caller -> {Idle} \cup Asking \cup Holding]
         /\ \A c \in Caller : caller[c].step = "rpc" <=> caller'[c].step = "rpc"
<1>1. caller' = [c \in Caller |->
        IF c \notin InTable(r) THEN caller[c]
        ELSE IF caller[c].step = "waiting" THEN Idle ELSE [caller[c] EXCEPT !.linked = FALSE]]
  BY DEF Complete
<1>2. ASSUME NEW d \in Caller
      PROVE  /\ caller'[d] \in {Idle} \cup Asking \cup Holding
             /\ caller[d].step = "rpc" <=> caller'[d].step = "rpc"
  <2>0. caller[d] \in {Idle} \cup Asking \cup Holding  BY DEF TypeInv, TypeOK
  <2>1. CASE d \notin InTable(r)  BY <1>1, <2>0, <2>1
  <2>2. CASE d \in InTable(r) /\ caller[d].step = "waiting"
    BY <1>1, <2>2 DEF Idle
  <2>3. CASE d \in InTable(r) /\ caller[d].step # "waiting"
    <3>1. caller[d].step = "timed-out"  BY <2>3 DEF InTable
    <3>2. caller[d] \in Holding  BY <2>0, <3>1, CallerKinds
    <3>3. caller'[d] = [caller[d] EXCEPT !.linked = FALSE]  BY <1>1, <2>3
    <3>4. caller'[d] \in Holding /\ caller'[d].step = caller[d].step  BY <3>2, <3>3 DEF Holding
    <3> QED BY <3>1, <3>4
  <2> QED BY <2>1, <2>2, <2>3
<1> QED BY <1>1, <1>2

\* The handlers a ticket reaches hold the id and a file of their own.
LEMMA InTableIs ==
  ASSUME TypeInv, NEW r, NEW c \in InTable(r)
  PROVE  c \in Caller /\ caller[c] \in Holding /\ caller[c].req = r /\ r \in ReqId /\ caller[c].file \in File
<1>1. c \in Caller /\ caller[c].step \in {"waiting", "timed-out"} /\ caller[c].req = r
  BY DEF InTable
<1>2. caller[c] \in {Idle} \cup Asking \cup Holding  BY <1>1 DEF TypeInv, TypeOK
<1>3. caller[c] \in Holding  BY <1>1, <1>2, CallerKinds
<1> QED BY <1>1, <1>3 DEF Holding

LEMMA ReceiveDenialTypes == ASSUME TypeInv, ReceiveDenial PROVE TypeInv'
<1>1. /\ wire # <<>> /\ Head(wire).type # "result" /\ Taken /\ Complete(Head(wire).req)
      /\ UNCHANGED <<requests, decisions, connected, jobs, opened>>
  BY DEF ReceiveDenial, Arriving
<1>2. /\ caller' \in [Caller -> {Idle} \cup Asking \cup Holding]
      /\ \A c \in Caller : caller[c].step = "rpc" <=> caller'[c].step = "rpc"
  BY <1>1, CompleteTypes
<1> QED BY <1>1, <1>2, NewsTakenTypes DEF TypeInv, TypeOK

LEMMA ReceiveTicketTypes == ASSUME TypeInv, ReceiveTicket PROVE TypeInv'
<1> DEFINE r == Head(wire).req
<1>1. /\ wire # <<>> /\ Head(wire).type # "result" /\ Taken
      /\ TicketToWaiters(r) \/ TicketToJob(r) \/ TicketDropped(r)
      /\ UNCHANGED <<requests, decisions, connected>>
  BY DEF ReceiveTicket, Arriving
<1> HIDE DEF r
<1>2. CASE TicketToWaiters(r)
  <2>1. Complete(r) /\ UNCHANGED jobs  BY <1>2 DEF TicketToWaiters
  <2>2. PICK started \in SUBSET Openers(r) :
          opened' = opened \cup {<<r, NameOf[caller[c].file], c>> : c \in started}
    BY <1>2 DEF TicketToWaiters
  <2>3. opened' \subseteq ReqId \X Name \X (Caller \cup {"nobody"})
    <3>1. \A c \in started : c \in Caller /\ r \in ReqId /\ NameOf[caller[c].file] \in Name
      BY InTableIs DEF Openers, Name
    <3>2. opened \subseteq ReqId \X Name \X (Caller \cup {"nobody"})  BY DEF TypeInv, TypeOK
    <3> QED BY <2>2, <3>1, <3>2
  <2>4. /\ caller' \in [Caller -> {Idle} \cup Asking \cup Holding]
        /\ \A c \in Caller : caller[c].step = "rpc" <=> caller'[c].step = "rpc"
    BY <2>1, CompleteTypes
  <2>5. DOMAIN jobs' \subseteq ReqId /\ \A x \in DOMAIN jobs' : jobs'[x] \in Name
    BY <2>1 DEF TypeInv, TypeOK
  <2> QED BY <1>1, <2>3, <2>4, <2>5, NewsTakenTypes
<1>3. CASE TicketToJob(r)
  <2>0. /\ r \in DOMAIN jobs /\ jobs' = [x \in DOMAIN jobs \ {r} |-> jobs[x]] /\ caller' = caller
        /\ opened' = opened \cup {<<r, jobs[r], "nobody">>} \/ opened' = opened
    BY <1>3 DEF TicketToJob
  <2>1. r \in ReqId /\ jobs[r] \in Name /\ opened \subseteq ReqId \X Name \X (Caller \cup {"nobody"})
    BY <2>0 DEF TypeInv, TypeOK
  <2>2. opened' \subseteq ReqId \X Name \X (Caller \cup {"nobody"})  BY <2>0, <2>1
  <2>3. DOMAIN jobs' \subseteq ReqId /\ \A x \in DOMAIN jobs' : jobs'[x] \in Name
    BY <2>0 DEF TypeInv, TypeOK
  <2>4. caller' \in [Caller -> {Idle} \cup Asking \cup Holding]  BY <2>0 DEF TypeInv, TypeOK
  <2>5. \A c \in Caller : caller[c].step = "rpc" <=> caller'[c].step = "rpc"  BY <2>0
  <2> QED BY <1>1, <2>2, <2>3, <2>4, <2>5, NewsTakenTypes
<1>4. CASE TicketDropped(r)
  <2>1. UNCHANGED <<caller, jobs, opened>>  BY <1>4 DEF TicketDropped, agentVars
  <2>2. \A c \in Caller : caller[c].step = "rpc" <=> caller'[c].step = "rpc"  BY <2>1
  <2>3. /\ DOMAIN jobs' \subseteq ReqId /\ \A x \in DOMAIN jobs' : jobs'[x] \in Name
        /\ caller' \in [Caller -> {Idle} \cup Asking \cup Holding]
        /\ opened' \subseteq ReqId \X Name \X (Caller \cup {"nobody"})
    BY <2>1 DEF TypeInv, TypeOK
  <2> QED BY <1>1, <2>2, <2>3, NewsTakenTypes
<1> QED BY <1>1, <1>2, <1>3, <1>4

\* Every decision of a route is a DecideAll whose entries are those of its verdict.
LEMMA DecisionIs ==
  ASSUME Decision
  PROVE  \E ids \in SUBSET ReqId, v \in {"approve", "deny"} : \E a \in ActionsOf(v) : DecideAll(ids, v, a)
<1>1. CASE \E r \in ReqId, v \in {"approve", "deny"} : DecideOne(r, v)
  <2>1. PICK r \in ReqId, v \in {"approve", "deny"} : DecideOne(r, v)  BY <1>1
  <2> DEFINE a == IF v = "approve" THEN "request.approve" ELSE "request.deny"
  <2>2. {r} \in SUBSET ReqId /\ a \in ActionsOf(v)  BY DEF ActionsOf, ApprovalActions, DenialActions
  <2>3. DecideAll({r}, v, a)  BY <2>1 DEF DecideOne
  <2> QED BY <2>2, <2>3
<1>2. CASE \E ids \in SUBSET ReqId, v \in {"approve", "deny"} : DecideBatch(ids, v)
  <2>1. PICK ids \in SUBSET ReqId, v \in {"approve", "deny"} : DecideBatch(ids, v)  BY <1>2
  <2> DEFINE a == IF v = "approve" THEN "request.approved" ELSE "request.denied"
  <2>2. a \in ActionsOf(v)  BY DEF ActionsOf, ApprovalActions, DenialActions
  <2>3. DecideAll(ids, v, a)  BY <2>1 DEF DecideBatch
  <2> QED BY <2>2, <2>3
<1> QED BY <1>1, <1>2 DEF Decision

LEMMA TypesHoldAtFirst == Init => TypeInv
<1> SUFFICES ASSUME Init PROVE TypeInv  OBVIOUS
<1>1. wire \in Seq(Message) /\ Len(wire) = 0  BY EmptySeq DEF Init
<1>2. \A c \in Caller : caller[c] = Idle /\ Idle.step # "rpc"  BY DEF Init, Idle
<1>3. WireTypes
  <2>1. \A i \in 1..Len(wire) : FALSE  BY <1>1
  <2> QED BY <1>1, <1>2, <2>1 DEF WireTypes, Init
<1>4. TypeOK  BY DEF Init, TypeOK, ServerTypeOK
<1> QED BY <1>3, <1>4 DEF TypeInv

LEMMA TypesAreKept == TypeInv /\ [Next]_vars => TypeInv'
<1> SUFFICES ASSUME TypeInv, [Next]_vars PROVE TypeInv'  OBVIOUS
<1>1. CASE Connect  BY <1>1, ConnectTypes
<1>2. CASE Disconnect  BY <1>2, DisconnectTypes
<1>3. CASE Crash  BY <1>3, CrashTypes
<1>4. CASE \E c \in Caller, u \in User, p \in File : Ask(c, u, p)  BY <1>4, AskTypes
<1>5. ASSUME NEW c \in Caller, HandlerStep(c) PROVE TypeInv'
  <2>1. CASE \E v \in Verdict, r \in ReqId : RpcEvaluate(c, v, r)  BY <2>1, RpcEvaluateTypes
  <2>2. CASE \E v \in Verdict, r \in ReqId : HttpEvaluate(c, v, r)  BY <2>2, HttpEvaluateTypes
  <2>3. CASE \E v \in Verdict, r \in ReqId : HttpAnswerLost(c, v, r)  BY <2>3, HttpAnswerLostTypes
  <2>4. CASE RpcFails(c)  BY <2>4, RpcFailsTypes
  <2>5. CASE HttpGivesUp(c)  BY <2>5, HttpGivesUpTypes
  <2>6. CASE WaitTimesOut(c)  BY <2>6, WaitTimesOutTypes
  <2>7. CASE RemoveWaiter(c)  BY <2>7, RemoveWaiterTypes
  <2>8. CASE Register(c)  BY <2>8, RegisterTypes
  <2> QED BY <1>5, <2>1, <2>2, <2>3, <2>4, <2>5, <2>6, <2>7, <2>8 DEF HandlerStep
<1>6. CASE ReceiveResult  BY <1>6, ReceiveResultTypes
<1>7. CASE ReceiveTicket  BY <1>7, ReceiveTicketTypes
<1>8. CASE ReceiveDenial  BY <1>8, ReceiveDenialTypes
<1>9. CASE Decision /\ UNCHANGED agentVars  BY <1>9, DecisionIs, DecisionTypes
<1>10. CASE UNCHANGED vars
  <2>1. UNCHANGED <<requests, decisions, connected, wire, caller, jobs, opened>>
    BY <1>10 DEF vars, serverVars, agentVars
  <2>2. TypeOK'  BY <2>1 DEF TypeInv, TypeOK, ServerTypeOK
  <2>3. WireTypes'  BY <2>1 DEF TypeInv, WireTypes
  <2> QED BY <2>2, <2>3 DEF TypeInv
<1> QED BY <1>1, <1>2, <1>3, <1>4, <1>5, <1>6, <1>7, <1>8, <1>9, <1>10 DEF Next, Receive

-----------------------------------------------------------------------------
(* The ledger: who may write the table and the log of decisions.           *)

\* Nothing is logged about a request that was never asked.
Logged == \A d \in decisions : d[2] \in DOMAIN requests

Ledger == OnePending /\ DecisionAudited /\ Logged

LedgerInv == TypeInv /\ Ledger

LEMMA WhoWrites ==
  ASSUME TypeInv, [Next]_vars
  PROVE  \/ UNCHANGED <<requests, decisions>>
         \/ \E u \in User, p \in File, v \in Verdict, r \in ReqId : EvaluateForDevice(u, p, v, r)
         \/ \E ids \in SUBSET ReqId, v \in {"approve", "deny"} : \E a \in ActionsOf(v) : DecideAll(ids, v, a)
<1> DEFINE Quiet == UNCHANGED <<requests, decisions>>
           Evaluates == \E u \in User, p \in File, v \in Verdict, r \in ReqId : EvaluateForDevice(u, p, v, r)
<1>1. ASSUME NEW c \in Caller, caller[c].step \in {"rpc", "http"}
      PROVE  caller[c].user \in User /\ caller[c].file \in File
  <2>1. caller[c] \in {Idle} \cup Asking \cup Holding  BY DEF TypeInv, TypeOK
  <2>2. caller[c] \in Asking  BY <1>1, <2>1, CallerKinds
  <2> QED BY <2>2 DEF Asking
<1>2. ASSUME NEW c \in Caller, HandlerStep(c) PROVE Quiet \/ Evaluates
  <2>1. CASE \E v \in Verdict, r \in ReqId : RpcEvaluate(c, v, r)
    <3>1. PICK v \in Verdict, r \in ReqId : RpcEvaluate(c, v, r)  BY <2>1
    <3>2. caller[c].step = "rpc" /\ EvaluateForDevice(caller[c].user, caller[c].file, v, r)
      BY <3>1 DEF RpcEvaluate
    <3> QED BY <1>1, <3>2
  <2>2. CASE \E v \in Verdict, r \in ReqId : HttpEvaluate(c, v, r)
    <3>1. PICK v \in Verdict, r \in ReqId : HttpEvaluate(c, v, r)  BY <2>2
    <3>2. caller[c].step = "http" /\ EvaluateForDevice(caller[c].user, caller[c].file, v, r)
      BY <3>1 DEF HttpEvaluate
    <3> QED BY <1>1, <3>2
  <2>3. CASE \E v \in Verdict, r \in ReqId : HttpAnswerLost(c, v, r)
    <3>1. PICK v \in Verdict, r \in ReqId : HttpAnswerLost(c, v, r)  BY <2>3
    <3>2. caller[c].step = "http" /\ EvaluateForDevice(caller[c].user, caller[c].file, v, r)
      BY <3>1 DEF HttpAnswerLost
    <3> QED BY <1>1, <3>2
  <2>4. CASE RpcFails(c)  BY <2>4 DEF RpcFails
  <2>5. CASE HttpGivesUp(c)  BY <2>5 DEF HttpGivesUp, serverVars
  <2>6. CASE WaitTimesOut(c)  BY <2>6 DEF WaitTimesOut, serverVars
  <2>7. CASE RemoveWaiter(c)  BY <2>7 DEF RemoveWaiter, serverVars
  <2>8. CASE Register(c)  BY <2>8 DEF Register, serverVars
  <2> QED BY <1>2, <2>1, <2>2, <2>3, <2>4, <2>5, <2>6, <2>7, <2>8 DEF HandlerStep
<1>3. CASE Connect \/ Disconnect \/ Crash  BY <1>3 DEF Connect, Disconnect, Crash
<1>4. CASE \E c \in Caller, u \in User, p \in File : Ask(c, u, p)  BY <1>4 DEF Ask, serverVars
<1>5. CASE Receive  BY <1>5 DEF Receive, ReceiveResult, ReceiveTicket, ReceiveDenial
<1>6. CASE Decision /\ UNCHANGED agentVars  BY <1>6, DecisionIs
<1>7. CASE UNCHANGED vars  BY <1>7 DEF vars, serverVars
<1> QED BY <1>2, <1>3, <1>4, <1>5, <1>6, <1>7 DEF Next

LEMMA EvaluateKeepsLedger ==
  ASSUME ServerTypeOK, Ledger, NEW u \in User, NEW p \in File, NEW v \in Verdict, NEW r \in ReqId,
         EvaluateForDevice(u, p, v, r)
  PROVE  Ledger'
<1>1. decisions' = decisions  BY DEF EvaluateForDevice
<1>2. ASSUME UNCHANGED requests PROVE Ledger'
  <2>1. requests' = requests /\ decisions' = decisions  BY <1>1, <1>2
  <2>2. OnePending' /\ Logged'  BY <2>1 DEF Ledger, OnePending, Logged
  <2>3. DecisionAudited'  BY <2>1 DEF Ledger, DecisionAudited
  <2> QED BY <2>2, <2>3 DEF Ledger
<1>3. ASSUME NEW s \in {"pending", "denied"}, InsertRequest(r, u, p, s) PROVE Ledger'
  <2>0. s \in Status  BY DEF Status
  <2>1. /\ DOMAIN requests' = DOMAIN requests \cup {r}
        /\ \A x \in DOMAIN requests : requests'[x] = requests[x]
        /\ requests'[r].user = u /\ requests'[r].status = s
        /\ HashOf[requests'[r].file] = HashOf[p]
        /\ \/ r \notin DOMAIN requests /\ (s = "pending" => SamePending(u, p) = {})
           \/ s = "pending" /\ r \in SamePending(u, p)
    BY <2>0, <1>3, Inserted
  <2>2. OnePending'
    <3> SUFFICES ASSUME NEW x \in DOMAIN requests', NEW y \in DOMAIN requests',
                        requests'[x].status = "pending", requests'[y].status = "pending",
                        requests'[x].user = requests'[y].user,
                        HashOf[requests'[x].file] = HashOf[requests'[y].file],
                        x # y
                 PROVE  FALSE
      BY DEF OnePending
    <3>1. CASE x \in DOMAIN requests /\ y \in DOMAIN requests
      BY <2>1, <3>1 DEF Ledger, OnePending
    <3>2. ASSUME NEW z \in DOMAIN requests, requests[z].status = "pending", requests[z].user = u,
                 HashOf[requests[z].file] = HashOf[p], r \notin DOMAIN requests, s = "pending"
          PROVE  FALSE
      <4>1. z \in SamePending(u, p)  BY <3>2 DEF SamePending
      <4>2. r \notin SamePending(u, p)  BY <3>2 DEF SamePending
      <4> QED BY <2>1, <3>2, <4>1, <4>2
    <3>3. CASE x \notin DOMAIN requests
      <4>1. x = r /\ y \in DOMAIN requests  BY <2>1, <3>3
      <4> QED BY <2>1, <3>2, <3>3, <4>1
    <3>4. CASE y \notin DOMAIN requests
      <4>1. y = r /\ x \in DOMAIN requests  BY <2>1, <3>4
      <4> QED BY <2>1, <3>2, <3>4, <4>1
    <3> QED BY <3>1, <3>3, <3>4
  <2>3. Logged'  BY <1>1, <2>1 DEF Ledger, Logged
  <2>4. DecisionAudited'
    <3> SUFFICES ASSUME NEW x \in DOMAIN requests'
                 PROVE  /\ decisions' \cap (ApprovalActions \X {x}) # {} <=> requests'[x].status = "approved"
                        /\ decisions' \cap (DenialActions \X {x}) # {} => requests'[x].status = "denied"
      BY DEF DecisionAudited
    <3>1. CASE x \in DOMAIN requests
      BY <1>1, <2>1, <3>1 DEF Ledger, DecisionAudited
    <3>2. CASE x \notin DOMAIN requests
      <4>1. x = r /\ requests'[x].status # "approved"  BY <2>1, <3>2
      <4>2. ASSUME NEW A PROVE decisions' \cap (A \X {x}) = {}
        BY <1>1, <3>2 DEF Ledger, Logged
      <4> QED BY <4>1, <4>2
    <3> QED BY <3>1, <3>2
  <2> QED BY <2>2, <2>3, <2>4 DEF Ledger
<1>4. CASE v = "allow"  BY <1>2, <1>4 DEF EvaluateForDevice
<1>5. CASE v = "deny"  BY <1>3, <1>5 DEF EvaluateForDevice
<1>6. CASE v = "pending"  BY <1>3, <1>6 DEF EvaluateForDevice
<1> QED BY <1>4, <1>5, <1>6 DEF Verdict

LEMMA DecideKeepsLedger ==
  ASSUME ServerTypeOK, Ledger, NEW ids \in SUBSET ReqId, NEW v \in {"approve", "deny"},
         NEW a \in ActionsOf(v), DecideAll(ids, v, a)
  PROVE  Ledger'
<1> DEFINE mine == Decidable(ids)
<1>1. /\ DOMAIN requests' = DOMAIN requests
      /\ \A x \in mine : requests[x].status = "pending" /\ x \in DOMAIN requests
                         /\ requests'[x].status = StatusOf(v)
      /\ \A x \in DOMAIN requests \ mine : requests'[x] = requests[x]
      /\ decisions' = decisions \cup {<<a, x>> : x \in mine}
  <2>1. RowsDecided(ids, v) /\ decisions' = decisions \cup {<<a, x>> : x \in Decidable(ids)}
    BY Decided
  <2> QED BY <2>1 DEF RowsDecided
<1> HIDE DEF mine
<1>2. OnePending'
  <2> SUFFICES ASSUME NEW x \in DOMAIN requests', NEW y \in DOMAIN requests',
                      requests'[x].status = "pending", requests'[y].status = "pending",
                      requests'[x].user = requests'[y].user,
                      HashOf[requests'[x].file] = HashOf[requests'[y].file]
               PROVE  x = y
    BY DEF OnePending
  <2>1. StatusOf(v) # "pending"  BY DEF StatusOf
  <2>2. x \notin mine /\ y \notin mine  BY <1>1, <2>1
  <2>3. requests'[x] = requests[x] /\ requests'[y] = requests[y]  BY <1>1, <2>2
  <2> QED BY <1>1, <2>3 DEF Ledger, OnePending
<1>3. Logged'  BY <1>1 DEF Ledger, Logged
<1>4. DecisionAudited'
  <2> SUFFICES ASSUME NEW x \in DOMAIN requests'
               PROVE  /\ decisions' \cap (ApprovalActions \X {x}) # {} <=> requests'[x].status = "approved"
                      /\ decisions' \cap (DenialActions \X {x}) # {} => requests'[x].status = "denied"
    BY DEF DecisionAudited
  <2>0. /\ decisions \cap (ApprovalActions \X {x}) # {} <=> requests[x].status = "approved"
        /\ decisions \cap (DenialActions \X {x}) # {} => requests[x].status = "denied"
    BY <1>1 DEF Ledger, DecisionAudited
  <2>1. CASE x \notin mine
    <3>1. ASSUME NEW A PROVE decisions' \cap (A \X {x}) = decisions \cap (A \X {x})
      BY <1>1, <2>1
    <3> QED BY <1>1, <2>0, <2>1, <3>1
  <2>2. CASE x \in mine
    <3>1. /\ decisions \cap (ApprovalActions \X {x}) = {}
          /\ decisions \cap (DenialActions \X {x}) = {}
      BY <1>1, <2>0, <2>2
    <3>2. ASSUME NEW A, decisions \cap (A \X {x}) = {}
          PROVE  decisions' \cap (A \X {x}) # {} <=> a \in A
      <4>1. ASSUME a \in A PROVE decisions' \cap (A \X {x}) # {}
        <5>1. <<a, x>> \in decisions' /\ <<a, x>> \in A \X {x}  BY <1>1, <2>2, <4>1
        <5> QED BY <5>1
      <4>2. ASSUME NEW d \in decisions' \cap (A \X {x}) PROVE a \in A
        <5>1. d \notin decisions  BY <3>2
        <5>2. PICK y \in mine : d = <<a, y>>  BY <1>1, <5>1
        <5> QED BY <5>2
      <4> QED BY <4>1, <4>2
    <3>3. CASE v = "approve"
      <4>1. a \in ApprovalActions /\ a \notin DenialActions
        BY <3>3 DEF ActionsOf, ApprovalActions, DenialActions
      <4> QED BY <1>1, <2>2, <3>1, <3>2, <3>3, <4>1 DEF StatusOf
    <3>4. CASE v = "deny"
      <4>1. a \in DenialActions /\ a \notin ApprovalActions
        BY <3>4 DEF ActionsOf, ApprovalActions, DenialActions
      <4> QED BY <1>1, <2>2, <3>1, <3>2, <3>4, <4>1 DEF StatusOf
    <3> QED BY <3>3, <3>4
  <2> QED BY <2>1, <2>2
<1> QED BY <1>2, <1>3, <1>4 DEF Ledger

LEMMA LedgerIsKept == LedgerInv /\ [Next]_vars => LedgerInv'
<1> SUFFICES ASSUME LedgerInv, [Next]_vars PROVE LedgerInv'  OBVIOUS
<1>1. TypeInv' /\ TypeInv /\ ServerTypeOK /\ Ledger  BY TypesAreKept DEF LedgerInv, TypeInv, TypeOK
<1>2. CASE UNCHANGED <<requests, decisions>>
  BY <1>1, <1>2 DEF LedgerInv, Ledger, OnePending, DecisionAudited, Logged
<1>3. CASE \E u \in User, p \in File, v \in Verdict, r \in ReqId : EvaluateForDevice(u, p, v, r)
  BY <1>1, <1>3, EvaluateKeepsLedger DEF LedgerInv
<1>4. CASE \E ids \in SUBSET ReqId, v \in {"approve", "deny"} : \E a \in ActionsOf(v) : DecideAll(ids, v, a)
  BY <1>1, <1>4, DecideKeepsLedger DEF LedgerInv
<1> QED BY <1>1, <1>2, <1>3, <1>4, WhoWrites

LEMMA LedgerHoldsAtFirst == Init => LedgerInv
BY TypesHoldAtFirst DEF LedgerInv, Ledger, OnePending, DecisionAudited, Logged, Init

-----------------------------------------------------------------------------
(* How each part of the state may move in a step.                          *)

\* The alternatives of Next, one level deep.
LEMMA Steps ==
  ASSUME [Next]_vars
  PROVE  \/ Connect \/ Disconnect \/ Crash
         \/ ReceiveResult \/ ReceiveTicket \/ ReceiveDenial
         \/ \E d \in Caller, u \in User, p \in File : Ask(d, u, p)
         \/ \E d \in Caller : RpcFails(d)
         \/ \E d \in Caller : HttpGivesUp(d)
         \/ \E d \in Caller : WaitTimesOut(d)
         \/ \E d \in Caller : RemoveWaiter(d)
         \/ \E d \in Caller : Register(d)
         \/ \E d \in Caller, v \in Verdict, r \in ReqId : RpcEvaluate(d, v, r)
         \/ \E d \in Caller, v \in Verdict, r \in ReqId : HttpEvaluate(d, v, r)
         \/ \E d \in Caller, v \in Verdict, r \in ReqId : HttpAnswerLost(d, v, r)
         \/ Decision /\ UNCHANGED agentVars
         \/ UNCHANGED vars
BY DEF Next, HandlerStep, Receive

\* The same call, still standing for the same program.
SameCall(c) ==
  /\ caller[c] \in Holding /\ caller'[c] \in Holding
  /\ caller'[c].req = caller[c].req /\ caller'[c].file = caller[c].file
  /\ caller'[c].linked => caller[c].linked
  /\ caller'[c].step = "waiting" => caller[c].step = "waiting"

\* A call that begins to wait, on the answer at the head of the wire.
BeginsToWait(c) ==
  /\ ReceiveResult /\ Head(wire).to = c /\ "req" \in DOMAIN Head(wire)
  /\ caller'[c] = Held("waiting", c, Head(wire).req, TRUE)

\* A call that is answered over HTTP, and will be remembered.
AnsweredOverHttp(c) ==
  \E r \in ReqId :
    /\ caller[c].step = "http" /\ HttpEvaluate(c, "pending", r)
    /\ caller'[c] = Held("unregistered", c, r, FALSE)

LEMMA CallerMoves ==
  ASSUME TypeInv, [Next]_vars, NEW c \in Caller
  PROVE  \/ caller'[c] = caller[c]
         \/ caller'[c] \in {Idle} \cup Asking /\ (caller[c].step = "rpc" => caller'[c].step # "rpc")
         \/ SameCall(c)
         \/ BeginsToWait(c)
         \/ AnsweredOverHttp(c)
<1> DEFINE Goal == \/ caller'[c] = caller[c]
                   \/ caller'[c] \in {Idle} \cup Asking /\ (caller[c].step = "rpc" => caller'[c].step # "rpc")
                   \/ SameCall(c)
                   \/ BeginsToWait(c)
                   \/ AnsweredOverHttp(c)
<1> SUFFICES Goal  OBVIOUS
<1>0. /\ caller \in [Caller -> {Idle} \cup Asking \cup Holding]
      /\ caller[c] \in {Idle} \cup Asking \cup Holding
  BY DEF TypeInv, TypeOK
<1>1. ASSUME caller' = caller PROVE Goal  BY <1>1
<1>2. ASSUME NEW d \in Caller, caller' = [caller EXCEPT ![d] = Idle] PROVE Goal
  <2>1. CASE d = c  BY <1>0, <1>2, <2>1 DEF Idle
  <2>2. CASE d # c  BY <1>0, <1>2, <2>2
  <2> QED BY <2>1, <2>2
<1>3. ASSUME caller[c].step \in {"waiting", "timed-out"},
             caller'[c] = [caller[c] EXCEPT !.linked = FALSE]
      PROVE  Goal
  <2>1. caller[c] \in Holding  BY <1>0, <1>3, CallerKinds
  <2>2. SameCall(c)  BY <1>3, <2>1 DEF SameCall, Holding
  <2> QED BY <2>2
<1>4. ASSUME NEW r, Complete(r) PROVE Goal
  <2>1. caller'[c] = IF c \notin InTable(r) THEN caller[c]
          ELSE IF caller[c].step = "waiting" THEN Idle ELSE [caller[c] EXCEPT !.linked = FALSE]
    BY <1>4 DEF Complete
  <2>2. CASE c \notin InTable(r)  BY <2>1, <2>2
  <2>3. CASE c \in InTable(r) /\ caller[c].step = "waiting"  BY <2>1, <2>3 DEF Idle
  <2>4. CASE c \in InTable(r) /\ caller[c].step # "waiting"
    <3>1. caller[c].step \in {"waiting", "timed-out"}  BY <2>4 DEF InTable
    <3>2. caller'[c] = [caller[c] EXCEPT !.linked = FALSE]  BY <2>1, <2>4
    <3> QED BY <1>3, <3>1, <3>2
  <2> QED BY <2>2, <2>3, <2>4
<1>5. CASE Connect  BY <1>1, <1>5 DEF Connect, agentVars
<1>6. CASE Disconnect
  <2>0. caller'[c] = CASE caller[c].step = "rpc" -> [caller[c] EXCEPT !.step = "http"]
           [] caller[c].step \in {"waiting", "timed-out"} -> [caller[c] EXCEPT !.linked = FALSE]
           [] OTHER -> caller[c]
    BY <1>6 DEF Disconnect, FailPending
  <2>1. CASE caller[c].step = "rpc"
    <3>1. caller[c] \in Asking  BY <1>0, <2>1, CallerKinds
    <3>2. caller'[c] = [caller[c] EXCEPT !.step = "http"]  BY <2>0, <2>1
    <3>3. caller'[c] \in Asking /\ caller'[c].step # "rpc"  BY <3>1, <3>2 DEF Asking
    <3> QED BY <3>3
  <2>2. CASE caller[c].step \in {"waiting", "timed-out"}
    <3>1. caller'[c] = [caller[c] EXCEPT !.linked = FALSE]  BY <2>0, <2>2
    <3> QED BY <1>3, <2>2, <3>1
  <2>3. CASE caller[c].step \notin {"rpc", "waiting", "timed-out"}
    <3>1. caller'[c] = caller[c]  BY <2>0, <2>3
    <3> QED BY <3>1
  <2> QED BY <2>1, <2>2, <2>3
<1>7. CASE Crash  BY <1>7 DEF Crash, Idle
<1>8. CASE ReceiveResult
  <2> DEFINE e == Head(wire).to
             x == IF "req" \in DOMAIN Head(wire) THEN Held("waiting", e, Head(wire).req, TRUE) ELSE Idle
  <2>1. caller' = [caller EXCEPT ![e] = x]  BY <1>8 DEF ReceiveResult
  <2>2. CASE e # c  BY <1>0, <2>1, <2>2
  <2>3. CASE e = c
    <3>1. caller'[c] = x  BY <1>0, <2>1, <2>3
    <3>2. CASE "req" \in DOMAIN Head(wire)
      <4>1. BeginsToWait(c)  BY <1>8, <2>3, <3>1, <3>2 DEF BeginsToWait
      <4> QED BY <4>1
    <3>3. CASE "req" \notin DOMAIN Head(wire)
      <4>1. caller'[c] = Idle  BY <3>1, <3>3
      <4> QED BY <4>1 DEF Idle
    <3> QED BY <3>2, <3>3
  <2> QED BY <2>2, <2>3
<1>9. CASE ReceiveTicket
  <2> DEFINE r == Head(wire).req
  <2>1. Complete(r) \/ caller' = caller
    BY <1>9 DEF ReceiveTicket, TicketToWaiters, TicketToJob, TicketDropped, agentVars
  <2> HIDE DEF r
  <2> QED BY <1>1, <1>4, <2>1
<1>10. CASE ReceiveDenial  BY <1>4, <1>10 DEF ReceiveDenial
<1>11. ASSUME NEW d \in Caller, NEW u \in User, NEW p \in File, Ask(d, u, p) PROVE Goal
  <2> DEFINE x == [step |-> IF connected THEN "rpc" ELSE "http", user |-> u, file |-> p]
  <2>1. x \in Asking  BY DEF Asking
  <2>2. caller' = [caller EXCEPT ![d] = x] /\ caller[d] = Idle  BY <1>11 DEF Ask
  <2> HIDE DEF x
  <2>3. CASE d = c  BY <1>0, <2>1, <2>2, <2>3 DEF Idle
  <2>4. CASE d # c  BY <1>0, <2>2, <2>4
  <2> QED BY <2>3, <2>4
<1>12. ASSUME NEW d \in Caller, RpcFails(d) PROVE Goal
  <2>1. caller[d].step = "rpc" /\ caller' = [caller EXCEPT ![d].step = "http"]  BY <1>12 DEF RpcFails
  <2>2. CASE d = c
    <3>1. caller[c] \in Asking  BY <1>0, <2>1, <2>2, CallerKinds
    <3>2. caller'[c] \in Asking /\ caller'[c].step = "http"  BY <1>0, <2>1, <2>2, <3>1 DEF Asking
    <3> QED BY <3>2
  <2>3. CASE d # c  BY <1>0, <2>1, <2>3
  <2> QED BY <2>2, <2>3
<1>13. ASSUME NEW d \in Caller, HttpGivesUp(d) PROVE Goal  BY <1>2, <1>13 DEF HttpGivesUp
<1>14. ASSUME NEW d \in Caller, Register(d) PROVE Goal  BY <1>2, <1>14 DEF Register
<1>15. ASSUME NEW d \in Caller, WaitTimesOut(d) PROVE Goal
  <2>1. caller[d].step = "waiting" /\ caller' = [caller EXCEPT ![d].step = "timed-out"]
    BY <1>15 DEF WaitTimesOut
  <2>2. CASE d = c
    <3>1. caller[c] \in Holding  BY <1>0, <2>1, <2>2, CallerKinds
    <3>2. SameCall(c)  BY <1>0, <2>1, <2>2, <3>1 DEF SameCall, Holding
    <3> QED BY <3>2
  <2>3. CASE d # c  BY <1>0, <2>1, <2>3
  <2> QED BY <2>2, <2>3
<1>16. ASSUME NEW d \in Caller, RemoveWaiter(d) PROVE Goal
  <2>1. caller[d].step = "timed-out"
        /\ caller'[c] = IF c = d THEN [caller[d] EXCEPT !.step = "unregistered", !.linked = FALSE]
                        ELSE IF c \in InTable(caller[d].req) THEN [caller[c] EXCEPT !.linked = FALSE]
                        ELSE caller[c]
    BY <1>16 DEF RemoveWaiter
  <2>2. CASE c = d
    <3>1. caller[c] \in Holding  BY <1>0, <2>1, <2>2, CallerKinds
    <3>2. caller'[c] = [caller[c] EXCEPT !.step = "unregistered", !.linked = FALSE]  BY <2>1, <2>2
    <3>3. SameCall(c)  BY <3>1, <3>2 DEF SameCall, Holding
    <3> QED BY <3>3
  <2>3. CASE c # d /\ c \in InTable(caller[d].req)
    <3>1. caller[c].step \in {"waiting", "timed-out"}  BY <2>3 DEF InTable
    <3>2. caller'[c] = [caller[c] EXCEPT !.linked = FALSE]  BY <2>1, <2>3
    <3> QED BY <1>3, <3>1, <3>2
  <2>4. CASE c # d /\ c \notin InTable(caller[d].req)
    <3>1. caller'[c] = caller[c]  BY <2>1, <2>4
    <3> QED BY <3>1
  <2> QED BY <2>2, <2>3, <2>4
<1>17. ASSUME NEW d \in Caller, NEW v \in Verdict, NEW r \in ReqId, HttpEvaluate(d, v, r) PROVE Goal
  <2> DEFINE x == IF v = "pending" THEN Held("unregistered", d, r, FALSE) ELSE Idle
  <2>1. caller' = [caller EXCEPT ![d] = x] /\ caller[d].step = "http"  BY <1>17 DEF HttpEvaluate
  <2>2. CASE d # c  BY <1>0, <2>1, <2>2
  <2>3. CASE d = c
    <3>1. caller'[c] = x  BY <1>0, <2>1, <2>3
    <3>2. CASE v = "pending"
      <4>1. AnsweredOverHttp(c)  BY <1>17, <2>1, <2>3, <3>1, <3>2 DEF AnsweredOverHttp
      <4> QED BY <4>1
    <3>3. CASE v # "pending"
      <4>1. caller'[c] = Idle  BY <3>1, <3>3
      <4> QED BY <4>1 DEF Idle
    <3> QED BY <3>2, <3>3
  <2> QED BY <2>2, <2>3
<1>18. CASE \E d \in Caller, v \in Verdict, r \in ReqId : RpcEvaluate(d, v, r)
  BY <1>1, <1>18 DEF RpcEvaluate, agentVars
<1>19. CASE \E d \in Caller, v \in Verdict, r \in ReqId : HttpAnswerLost(d, v, r)
  BY <1>1, <1>19 DEF HttpAnswerLost, agentVars
<1>20. CASE UNCHANGED agentVars  BY <1>1, <1>20 DEF agentVars
<1>21. CASE UNCHANGED vars  BY <1>1, <1>21 DEF vars, agentVars
<1> HIDE DEF Goal
<1>22. CASE \E d \in Caller, u \in User, p \in File : Ask(d, u, p)  BY <1>11, <1>22
<1>23. CASE \E d \in Caller, v \in Verdict, r \in ReqId : HttpEvaluate(d, v, r)  BY <1>17, <1>23
<1>24. CASE \E d \in Caller : RpcFails(d)  BY <1>12, <1>24
<1>25. CASE \E d \in Caller : HttpGivesUp(d)  BY <1>13, <1>25
<1>26. CASE \E d \in Caller : Register(d)  BY <1>14, <1>26
<1>27. CASE \E d \in Caller : WaitTimesOut(d)  BY <1>15, <1>27
<1>28. CASE \E d \in Caller : RemoveWaiter(d)  BY <1>16, <1>28
<1> QED
  BY <1>5, <1>6, <1>7, <1>8, <1>9, <1>10, <1>18, <1>19, <1>20, <1>21, <1>22, <1>23, <1>24, <1>25,
     <1>26, <1>27, <1>28, Steps

\* A job is remembered by a call that holds its id, ...
LEMMA JobMoves ==
  ASSUME TypeInv, [Next]_vars, NEW r \in DOMAIN jobs'
  PROVE  \/ r \in DOMAIN jobs /\ jobs'[r] = jobs[r]
         \/ \E c \in Caller : caller[c] \in Holding /\ caller[c].req = r /\ jobs'[r] = NameOf[caller[c].file]
<1> DEFINE Goal == \/ r \in DOMAIN jobs /\ jobs'[r] = jobs[r]
                   \/ \E c \in Caller : caller[c] \in Holding /\ caller[c].req = r /\ jobs'[r] = NameOf[caller[c].file]
<1> SUFFICES Goal  OBVIOUS
<1>1. ASSUME jobs' = jobs PROVE Goal  BY <1>1
<1>2. CASE Connect \/ Disconnect \/ ReceiveResult \/ ReceiveDenial
  BY <1>1, <1>2 DEF Connect, Disconnect, ReceiveResult, ReceiveDenial, agentVars
<1>3. CASE Crash
  <2>1. DOMAIN jobs' = {}  BY <1>3 DEF Crash
  <2> QED BY <2>1
<1>4. CASE ReceiveTicket
  <2> DEFINE t == Head(wire).req
  <2>1. jobs' = jobs \/ jobs' = [x \in DOMAIN jobs \ {t} |-> jobs[x]]
    BY <1>4 DEF ReceiveTicket, TicketToWaiters, TicketToJob, TicketDropped, agentVars
  <2> HIDE DEF t
  <2>2. CASE jobs' = [x \in DOMAIN jobs \ {t} |-> jobs[x]]
    <3>1. r \in DOMAIN jobs /\ jobs'[r] = jobs[r]  BY <2>2
    <3> QED BY <3>1
  <2> QED BY <1>1, <2>1, <2>2
<1>5. CASE \E d \in Caller, u \in User, p \in File : Ask(d, u, p)  BY <1>1, <1>5 DEF Ask
<1>6. CASE \E d \in Caller : RpcFails(d)  BY <1>1, <1>6 DEF RpcFails
<1>7. CASE \E d \in Caller : HttpGivesUp(d)  BY <1>1, <1>7 DEF HttpGivesUp
<1>8. CASE \E d \in Caller : WaitTimesOut(d)  BY <1>1, <1>8 DEF WaitTimesOut
<1>9. CASE \E d \in Caller : RemoveWaiter(d)  BY <1>1, <1>9 DEF RemoveWaiter
<1>10. CASE \E d \in Caller : Register(d)
  <2>1. PICK d \in Caller : Register(d)  BY <1>10
  <2>2. caller[d] \in Holding
    <3>1. caller[d] \in {Idle} \cup Asking \cup Holding  BY DEF TypeInv, TypeOK
    <3> QED BY <2>1, <3>1, CallerKinds DEF Register
  <2>3. jobs' = [x \in DOMAIN jobs \cup {caller[d].req} |->
                   IF x = caller[d].req THEN NameOf[caller[d].file] ELSE jobs[x]]
    BY <2>1 DEF Register
  <2>4. CASE r = caller[d].req
    <3>1. jobs'[r] = NameOf[caller[d].file]  BY <2>3, <2>4
    <3> QED BY <2>2, <2>4, <3>1
  <2>5. CASE r # caller[d].req
    <3>1. r \in DOMAIN jobs /\ jobs'[r] = jobs[r]  BY <2>3, <2>5
    <3> QED BY <3>1
  <2> QED BY <2>4, <2>5
<1>11. CASE \E d \in Caller, v \in Verdict, q \in ReqId : RpcEvaluate(d, v, q)
  BY <1>1, <1>11 DEF RpcEvaluate, agentVars
<1>12. CASE \E d \in Caller, v \in Verdict, q \in ReqId : HttpEvaluate(d, v, q)
  BY <1>1, <1>12 DEF HttpEvaluate
<1>13. CASE \E d \in Caller, v \in Verdict, q \in ReqId : HttpAnswerLost(d, v, q)
  BY <1>1, <1>13 DEF HttpAnswerLost, agentVars
<1>14. CASE UNCHANGED agentVars  BY <1>1, <1>14 DEF agentVars
<1>15. CASE UNCHANGED vars  BY <1>1, <1>15 DEF vars, agentVars
<1> HIDE DEF Goal
<1> QED
  BY <1>2, <1>3, <1>4, <1>5, <1>6, <1>7, <1>8, <1>9, <1>10, <1>11, <1>12, <1>13, <1>14, <1>15, Steps

\* ... and a path is started when its ticket arrives, from a job or for a call, whose
\* question named the hash and the path of the row.
StartedByJob(o) == o[1] \in DOMAIN jobs /\ o[2] = jobs[o[1]] /\ o[3] = "nobody"

StartedByWaiter(o) ==
  \E c \in Caller : /\ caller[c] \in Holding /\ caller[c].req = o[1]
                    /\ o[2] = NameOf[caller[c].file]
                    /\ NameOf[caller[c].file] = NameOf[requests[o[1]].file]

LEMMA OpenedMoves ==
  ASSUME TypeInv, [Next]_vars, opened' # opened
  PROVE  /\ ReceiveTicket /\ Head(wire).type = "ticket" /\ wire # <<>>
         /\ requests' = requests /\ opened \subseteq opened'
         /\ \A o \in opened' : \/ o \in opened
                               \/ /\ o[1] = Head(wire).req
                                  /\ StartedByJob(o) \/ StartedByWaiter(o)
<1>1. ReceiveTicket
  <2>1. ~(Connect \/ Disconnect \/ Crash \/ ReceiveResult \/ ReceiveDenial)
    BY DEF Connect, Disconnect, Crash, ReceiveResult, ReceiveDenial, agentVars
  <2>2. ~\E d \in Caller, u \in User, p \in File : Ask(d, u, p)  BY DEF Ask
  <2>3. ~\E d \in Caller : RpcFails(d)  BY DEF RpcFails
  <2>4. ~\E d \in Caller : HttpGivesUp(d)  BY DEF HttpGivesUp
  <2>5. ~\E d \in Caller : WaitTimesOut(d)  BY DEF WaitTimesOut
  <2>6. ~\E d \in Caller : RemoveWaiter(d)  BY DEF RemoveWaiter
  <2>7. ~\E d \in Caller : Register(d)  BY DEF Register
  <2>8. ~\E d \in Caller, v \in Verdict, r \in ReqId : RpcEvaluate(d, v, r)
    BY DEF RpcEvaluate, agentVars
  <2>9. ~\E d \in Caller, v \in Verdict, r \in ReqId : HttpEvaluate(d, v, r)  BY DEF HttpEvaluate
  <2>10. ~\E d \in Caller, v \in Verdict, r \in ReqId : HttpAnswerLost(d, v, r)
    BY DEF HttpAnswerLost, agentVars
  <2>11. ~UNCHANGED agentVars /\ ~UNCHANGED vars  BY DEF vars, agentVars
  <2> QED
    BY <2>1, <2>2, <2>3, <2>4, <2>5, <2>6, <2>7, <2>8, <2>9, <2>10, <2>11, Steps
<1> DEFINE r == Head(wire).req
<1>2. /\ wire # <<>> /\ Head(wire).type = "ticket" /\ requests' = requests
      /\ TicketToWaiters(r) \/ TicketToJob(r) \/ TicketDropped(r)
  BY <1>1 DEF ReceiveTicket, Arriving
<1> HIDE DEF r
<1>3. ASSUME NEW o \in opened', o \notin opened
      PROVE  o[1] = r /\ (StartedByJob(o) \/ StartedByWaiter(o))
  <2>1. CASE TicketToWaiters(r)
    <3>1. PICK started \in SUBSET Openers(r) :
            opened' = opened \cup {<<r, NameOf[caller[c].file], c>> : c \in started}
      BY <2>1 DEF TicketToWaiters
    <3>2. PICK c \in started : o = <<r, NameOf[caller[c].file], c>>  BY <1>3, <3>1
    <3>3. /\ c \in Caller /\ caller[c] \in Holding /\ caller[c].req = r
          /\ NameOf[caller[c].file] = NameOf[requests[r].file]
      BY <3>2, InTableIs DEF Openers
    <3> QED BY <3>2, <3>3 DEF StartedByWaiter
  <2>2. CASE TicketToJob(r)
    <3>1. r \in DOMAIN jobs /\ o = <<r, jobs[r], "nobody">>  BY <1>3, <2>2 DEF TicketToJob
    <3> QED BY <3>1 DEF StartedByJob
  <2>3. CASE TicketDropped(r)
    <3>1. opened' = opened  BY <2>3 DEF TicketDropped, agentVars
    <3> QED BY <3>1
  <2> QED BY <1>2, <2>1, <2>2, <2>3
<1>4. opened \subseteq opened'
  BY <1>2 DEF TicketToWaiters, TicketToJob, TicketDropped, agentVars
<1> QED BY <1>1, <1>2, <1>3, <1>4 DEF r

\* A message is what was there already, the answer to a call, or a decision.
LEMMA WireMoves ==
  ASSUME TypeInv, [Next]_vars, NEW i \in 1..Len(wire')
  PROVE  \/ \E j \in 1..Len(wire) : wire'[i] = wire[j]
         \/ \E d \in Caller, v \in Verdict, r \in ReqId : RpcEvaluate(d, v, r) /\ wire'[i] = Answer(d, v, r)
         \/ \E ids \in SUBSET ReqId, v \in {"approve", "deny"} : \E a \in ActionsOf(v) :
              DecideAll(ids, v, a) /\ wire'[i].req \in Decidable(ids)
              /\ wire'[i] = Announcement(v, wire'[i].req)
<1> DEFINE Goal ==
      \/ \E j \in 1..Len(wire) : wire'[i] = wire[j]
      \/ \E d \in Caller, v \in Verdict, r \in ReqId : RpcEvaluate(d, v, r) /\ wire'[i] = Answer(d, v, r)
      \/ \E ids \in SUBSET ReqId, v \in {"approve", "deny"} : \E a \in ActionsOf(v) :
           DecideAll(ids, v, a) /\ wire'[i].req \in Decidable(ids)
           /\ wire'[i] = Announcement(v, wire'[i].req)
<1> SUFFICES Goal  OBVIOUS
<1>0. /\ wire \in Seq(Message) /\ Len(wire) \in Nat /\ DOMAIN wire = 1..Len(wire)
      /\ ServerTypeOK
  <2>1. wire \in Seq(Message) /\ ServerTypeOK  BY DEF TypeInv, TypeOK, WireTypes
  <2> QED BY <2>1, LenProperties
<1>1. ASSUME wire' = wire PROVE Goal  BY <1>1
<1>2. ASSUME wire' = <<>> PROVE Goal  BY <1>2, EmptySeq
<1>3. ASSUME wire # <<>>, Taken PROVE Goal  BY <1>3, TakenIs
<1>4. CASE Connect  BY <1>1, <1>4 DEF Connect
<1>5. CASE Disconnect \/ Crash  BY <1>2, <1>5 DEF Disconnect, Crash
<1>6. CASE ReceiveResult \/ ReceiveTicket \/ ReceiveDenial
  BY <1>3, <1>6 DEF ReceiveResult, ReceiveTicket, ReceiveDenial, Arriving
<1>7. CASE \E d \in Caller, u \in User, p \in File : Ask(d, u, p)  BY <1>1, <1>7 DEF Ask, serverVars
<1>8. CASE \E d \in Caller : RpcFails(d)
  <2>1. PICK d \in Caller : RpcFails(d)  BY <1>8
  <2>2. CASE RpcOutstanding(d)
    <3>1. PICK k \in 1..Len(wire) : wire' = RemoveAt(wire, k)  BY <1>0, <2>1, <2>2 DEF RpcFails
    <3>2. SubOf(wire', wire)  BY <1>0, <3>1, SubOfRemoveAt
    <3> QED BY <3>2 DEF SubOf
  <2>3. CASE ~RpcOutstanding(d)  BY <1>1, <2>1, <2>3 DEF RpcFails
  <2> QED BY <2>2, <2>3
<1>9. CASE \E d \in Caller : HttpGivesUp(d)  BY <1>1, <1>9 DEF HttpGivesUp, serverVars
<1>10. CASE \E d \in Caller : WaitTimesOut(d)  BY <1>1, <1>10 DEF WaitTimesOut, serverVars
<1>11. CASE \E d \in Caller : RemoveWaiter(d)  BY <1>1, <1>11 DEF RemoveWaiter, serverVars
<1>12. CASE \E d \in Caller : Register(d)  BY <1>1, <1>12 DEF Register, serverVars
<1>13. CASE \E d \in Caller, v \in Verdict, r \in ReqId : RpcEvaluate(d, v, r)
  <2>1. PICK d \in Caller, v \in Verdict, r \in ReqId : RpcEvaluate(d, v, r)  BY <1>13
  <2> DEFINE q == <<Answer(d, v, r)>>
  <2>2. q \in Seq(Message) /\ Len(q) = 1 /\ q[1] = Answer(d, v, r)
    BY DEF Answer, Message, Plain, Pending
  <2>3. wire' = wire \o q
    <3>1. connected /\ Publish(q)  BY <2>1 DEF RpcEvaluate
    <3> HIDE DEF q
    <3> QED BY <3>1 DEF Publish
  <2> HIDE DEF q
  <2>4. /\ Len(wire') = Len(wire) + 1
        /\ \A j \in 1..Len(wire) + 1 : wire'[j] = IF j <= Len(wire) THEN wire[j] ELSE q[j - Len(wire)]
    <3>1. q \in Seq(Message) /\ wire \in Seq(Message)  BY <1>0, <2>2
    <3>2. /\ Len(wire \o q) = Len(wire) + Len(q)
          /\ \A j \in 1..Len(wire) + Len(q) :
               (wire \o q)[j] = IF j <= Len(wire) THEN wire[j] ELSE q[j - Len(wire)]
      BY <3>1, ConcatProperties
    <3>3. Len(q) = 1  BY <2>2
    <3> QED BY <2>3, <3>2, <3>3
  <2>5. CASE i <= Len(wire)
    <3>1. i \in 1..Len(wire) /\ wire'[i] = wire[i]  BY <1>0, <2>4, <2>5
    <3> QED BY <3>1
  <2>6. CASE i > Len(wire)
    <3>1. wire'[i] = Answer(d, v, r)  BY <1>0, <2>2, <2>4, <2>6
    <3> QED BY <2>1, <3>1
  <2>7. i <= Len(wire) \/ i > Len(wire)  BY <1>0, <2>4
  <2> QED BY <2>5, <2>6, <2>7
<1>14. CASE \E d \in Caller, v \in Verdict, r \in ReqId : HttpEvaluate(d, v, r)
  BY <1>1, <1>14 DEF HttpEvaluate
<1>15. CASE \E d \in Caller, v \in Verdict, r \in ReqId : HttpAnswerLost(d, v, r)
  BY <1>1, <1>15 DEF HttpAnswerLost
<1>16. CASE Decision
  <2>1. PICK ids \in SUBSET ReqId, v \in {"approve", "deny"} : \E a \in ActionsOf(v) : DecideAll(ids, v, a)
    BY <1>16, DecisionIs
  <2>2. PICK a \in ActionsOf(v) : DecideAll(ids, v, a)  BY <2>1
  <2>3. RowsAnnounced(ids, v)  BY <1>0, <2>2, Decided
  <2>4. PICK q \in Seq(News) :
          /\ wire' = IF connected THEN wire \o q ELSE wire
          /\ \A j \in 1..Len(q) : q[j].req \in Decidable(ids) /\ q[j] = Announcement(v, q[j].req)
    BY <2>3 DEF RowsAnnounced
  <2>5. CASE connected
    <3>1. /\ Len(q) \in Nat /\ Len(wire') = Len(wire) + Len(q)
          /\ \A j \in 1..Len(wire) + Len(q) : wire'[j] = IF j <= Len(wire) THEN wire[j] ELSE q[j - Len(wire)]
      <4>1. \A j \in 1..Len(q) : q[j] \in Message  BY ElementOfSeq DEF Message
      <4>2. Len(q) \in Nat /\ q = [j \in 1..Len(q) |-> q[j]]  BY LenProperties
      <4>3. q \in [1..Len(q) -> Message]  BY <4>1, <4>2
      <4>4. q \in Seq(Message)  BY <4>2, <4>3
      <4> QED BY <1>0, <2>4, <2>5, <4>2, <4>4, ConcatProperties
    <3>2. CASE i <= Len(wire)
      <4>1. i \in 1..Len(wire) /\ wire'[i] = wire[i]  BY <1>0, <3>1, <3>2
      <4> QED BY <4>1
    <3>3. CASE i > Len(wire)
      <4>1. i - Len(wire) \in 1..Len(q) /\ wire'[i] = q[i - Len(wire)]  BY <1>0, <3>1, <3>3
      <4>2. wire'[i].req \in Decidable(ids) /\ wire'[i] = Announcement(v, wire'[i].req)
        BY <2>4, <4>1
      <4> QED BY <2>2, <4>2
    <3>4. i <= Len(wire) \/ i > Len(wire)  BY <1>0, <3>1
    <3> QED BY <3>2, <3>3, <3>4
  <2>6. CASE ~connected
    <3>1. wire' = wire  BY <2>4, <2>6
    <3> QED BY <1>1, <3>1
  <2> QED BY <2>5, <2>6
<1>17. CASE UNCHANGED vars  BY <1>1, <1>17 DEF vars, serverVars
<1> HIDE DEF Goal
<1> QED
  BY <1>4, <1>5, <1>6, <1>7, <1>8, <1>9, <1>10, <1>11, <1>12, <1>13, <1>14, <1>15, <1>16, <1>17, Steps

\* What a step does to the table.
LEMMA RowsMove ==
  ASSUME TypeInv, [Next]_vars
  PROVE  /\ RowsKeep
         /\ \A r \in DOMAIN requests : requests[r].status # "pending" => requests'[r].status = requests[r].status
<1> DEFINE Goal ==
      /\ RowsKeep
      /\ \A r \in DOMAIN requests : requests[r].status # "pending" => requests'[r].status = requests[r].status
<1> SUFFICES Goal  OBVIOUS
<1>0. ServerTypeOK  BY DEF TypeInv, TypeOK
<1>1. CASE UNCHANGED <<requests, decisions>>  BY <1>1 DEF RowsKeep
<1>2. CASE \E u \in User, p \in File, v \in Verdict, r \in ReqId : EvaluateForDevice(u, p, v, r)
  <2>1. PICK u \in User, p \in File, v \in Verdict, r \in ReqId : EvaluateForDevice(u, p, v, r)  BY <1>2
  <2>2. RowsKeep /\ \A x \in DOMAIN requests : requests'[x] = requests[x]  BY <1>0, <2>1, Evaluated
  <2> QED BY <2>2
<1>3. CASE \E ids \in SUBSET ReqId, v \in {"approve", "deny"} : \E a \in ActionsOf(v) : DecideAll(ids, v, a)
  <2>1. PICK ids \in SUBSET ReqId, v \in {"approve", "deny"} : \E a \in ActionsOf(v) : DecideAll(ids, v, a)
    BY <1>3
  <2>2. RowsKeep /\ RowsDecided(ids, v)  BY <1>0, <2>1, Decided
  <2>3. \A x \in DOMAIN requests : requests[x].status # "pending" => requests'[x] = requests[x]
    BY <2>2 DEF RowsDecided
  <2> QED BY <2>2, <2>3
<1> HIDE DEF Goal
<1> QED BY <1>1, <1>2, <1>3, WhoWrites

-----------------------------------------------------------------------------
(* The program a request stands for.  What is handed over is what a handler *)
(* of the PC holds, a job of it, or an answer on its way: all of them were  *)
(* asked about with the hash of the row, which keeps it for good.           *)

HandlersStand == \A c \in Caller : caller[c] \in Holding => Stands(caller[c].req, caller[c].file)
FoundUnder(r, n) == \E f \in File : NameOf[f] = n /\ Stands(r, f)
JobsStand == \A r \in DOMAIN jobs : FoundUnder(r, jobs[r])
OpenedStand ==
  \A o \in opened : /\ FoundUnder(o[1], o[2])
                    /\ o[3] # "nobody" => o[2] = NameOf[requests[o[1]].file]
AnswersStand ==
  \A i \in 1..Len(wire) : wire[i] \in Pending => Stands(wire[i].req, caller[wire[i].to].file)

StandInv == TypeInv /\ HandlersStand /\ JobsStand /\ OpenedStand /\ AnswersStand

StandsNext(r, p) == r \in DOMAIN requests' /\ HashOf[requests'[r].file] = HashOf[p]

LEMMA StandsKept ==
  ASSUME RowsKeep, NEW r, NEW p, Stands(r, p) PROVE StandsNext(r, p)
BY DEF RowsKeep, Stands, StandsNext

\* What was found under a path is still the hash of the row.
FoundNext(r, n) == \E f \in File : NameOf[f] = n /\ StandsNext(r, f)

LEMMA FoundKept ==
  ASSUME RowsKeep, NEW r, NEW n, FoundUnder(r, n) PROVE FoundNext(r, n)
<1>1. PICK f \in File : NameOf[f] = n /\ Stands(r, f)  BY DEF FoundUnder
<1>2. StandsNext(r, f)  BY <1>1, StandsKept
<1> QED BY <1>1, <1>2 DEF FoundNext

\* A handler that holds an id found its file under its path.
LEMMA HandlerFound ==
  ASSUME HandlersStand, NEW c \in Caller, caller[c] \in Holding
  PROVE  FoundUnder(caller[c].req, NameOf[caller[c].file])
<1>1. Stands(caller[c].req, caller[c].file) /\ caller[c].file \in File
  BY DEF HandlersStand, Holding
<1> QED BY <1>1 DEF FoundUnder

LEMMA NotHolding == ASSUME NEW x \in {Idle} \cup Asking PROVE x \notin Holding
BY DEF Idle, Asking, Holding

\* Who still waits for the answer of its RPC has not moved.
LEMMA StillAsking ==
  ASSUME TypeInv, [Next]_vars, NEW c \in Caller, caller[c].step = "rpc", caller'[c].step = "rpc"
  PROVE  caller'[c] = caller[c]
<1>1. ~SameCall(c)  BY DEF SameCall, Holding
<1>2. ~BeginsToWait(c)  BY DEF BeginsToWait, Held
<1>3. ~AnsweredOverHttp(c)  BY DEF AnsweredOverHttp
<1> QED BY <1>1, <1>2, <1>3, CallerMoves

LEMMA StandingIsKept == StandInv /\ [Next]_vars => StandInv'
<1> SUFFICES ASSUME StandInv, [Next]_vars PROVE StandInv'  OBVIOUS
<1>1. TypeInv /\ TypeInv' /\ RowsKeep /\ ServerTypeOK
  BY TypesAreKept, RowsMove DEF StandInv, TypeInv, TypeOK
<1>2. ASSUME NEW c \in Caller, caller'[c] \in Holding
      PROVE  StandsNext(caller'[c].req, caller'[c].file)
  <2>1. CASE caller'[c] = caller[c]  BY <1>1, <1>2, <2>1, StandsKept DEF StandInv, HandlersStand
  <2>2. CASE SameCall(c)
    <3>1. Stands(caller[c].req, caller[c].file)  BY <2>2 DEF SameCall, StandInv, HandlersStand
    <3>2. StandsNext(caller[c].req, caller[c].file)  BY <1>1, <3>1, StandsKept
    <3> QED BY <2>2, <3>2 DEF SameCall
  <2>3. CASE BeginsToWait(c)
    <3>1. wire # <<>> /\ Taken /\ Head(wire).type = "result"
      BY <2>3 DEF BeginsToWait, ReceiveResult, Arriving
    <3>2. Head(wire) = wire[1] /\ Head(wire) \in Message /\ 1 \in 1..Len(wire)  BY <1>1, <3>1, TakenIs
    <3>3. wire[1] \in Pending /\ wire[1].to = c  BY <2>3, <3>1, <3>2, MessageKinds DEF BeginsToWait
    <3>4. Stands(wire[1].req, caller[c].file)  BY <3>2, <3>3 DEF StandInv, AnswersStand
    <3>5. StandsNext(wire[1].req, caller[c].file)  BY <1>1, <3>4, StandsKept
    <3>6. caller'[c].req = wire[1].req /\ caller'[c].file = caller[c].file
      BY <2>3, <3>2 DEF BeginsToWait, Held
    <3> QED BY <3>5, <3>6
  <2>4. CASE AnsweredOverHttp(c)
    <3>1. PICK r \in ReqId : /\ caller[c].step = "http" /\ HttpEvaluate(c, "pending", r)
                             /\ caller'[c] = Held("unregistered", c, r, FALSE)
      BY <2>4 DEF AnsweredOverHttp
    <3>2. caller[c] \in Asking
      <4>1. caller[c] \in {Idle} \cup Asking \cup Holding  BY <1>1 DEF TypeInv, TypeOK
      <4> QED BY <3>1, <4>1, CallerKinds
    <3>3. caller[c].user \in User /\ caller[c].file \in File  BY <3>2 DEF Asking
    <3>4. EvaluateForDevice(caller[c].user, caller[c].file, "pending", r)  BY <3>1 DEF HttpEvaluate
    <3> DEFINE p == caller[c].file
    <3>5. r \in DOMAIN requests' /\ HashOf[requests'[r].file] = HashOf[p]
      <4>1. \A u \in User, x \in File : EvaluateForDevice(u, x, "pending", r) =>
              r \in DOMAIN requests' /\ HashOf[requests'[r].file] = HashOf[x]
        BY <1>1, Evaluated DEF Verdict, Stands
      <4> QED BY <3>3, <3>4, <4>1
    <3>6. caller'[c].req = r /\ caller'[c].file = p  BY <3>1 DEF Held
    <3> QED BY <3>5, <3>6 DEF StandsNext
  <2>5. CASE caller'[c] \in {Idle} \cup Asking  BY <1>2, <2>5, NotHolding
  <2> QED BY <1>1, <2>1, <2>2, <2>3, <2>4, <2>5, CallerMoves
<1>3. HandlersStand'  BY <1>2 DEF HandlersStand, Stands, StandsNext
<1>4. JobsStand'
  <2>1. ASSUME NEW r \in DOMAIN jobs' PROVE FoundNext(r, jobs'[r])
    <3>1. FoundUnder(r, jobs'[r])
      <4>1. CASE r \in DOMAIN jobs /\ jobs'[r] = jobs[r]  BY <4>1 DEF StandInv, JobsStand
      <4>2. CASE \E c \in Caller :
                   caller[c] \in Holding /\ caller[c].req = r /\ jobs'[r] = NameOf[caller[c].file]
        <5>1. PICK c \in Caller :
                caller[c] \in Holding /\ caller[c].req = r /\ jobs'[r] = NameOf[caller[c].file]
          BY <4>2
        <5>2. FoundUnder(caller[c].req, NameOf[caller[c].file])  BY <5>1, HandlerFound DEF StandInv
        <5> QED BY <5>1, <5>2
      <4> QED BY <1>1, <4>1, <4>2, JobMoves
    <3> QED BY <1>1, <3>1, FoundKept
  <2> QED BY <2>1 DEF JobsStand, FoundUnder, FoundNext, Stands, StandsNext
<1>5. OpenedStand'
  <2>1. ASSUME NEW o \in opened'
        PROVE  /\ FoundUnder(o[1], o[2])
               /\ o[3] # "nobody" => o[2] = NameOf[requests[o[1]].file]
    <3>1. CASE o \in opened  BY <3>1 DEF StandInv, OpenedStand
    <3>2. CASE o \notin opened
      <4>1. StartedByJob(o) \/ StartedByWaiter(o)  BY <1>1, <3>2, OpenedMoves
      <4>2. CASE StartedByJob(o)  BY <4>2 DEF StartedByJob, StandInv, JobsStand
      <4>3. CASE StartedByWaiter(o)
        <5>1. PICK c \in Caller : /\ caller[c] \in Holding /\ caller[c].req = o[1]
                                  /\ o[2] = NameOf[caller[c].file]
                                  /\ NameOf[caller[c].file] = NameOf[requests[o[1]].file]
          BY <4>3 DEF StartedByWaiter
        <5>2. FoundUnder(caller[c].req, NameOf[caller[c].file])  BY <5>1, HandlerFound DEF StandInv
        <5> QED BY <5>1, <5>2
      <4> QED BY <4>1, <4>2, <4>3
    <3> QED BY <3>1, <3>2
  <2>2. ASSUME NEW o \in opened'
        PROVE  /\ FoundNext(o[1], o[2])
               /\ o[3] # "nobody" => o[2] = NameOf[requests'[o[1]].file]
    <3>1. FoundNext(o[1], o[2])  BY <1>1, <2>1, FoundKept
    <3>2. o[1] \in DOMAIN requests  BY <2>1 DEF FoundUnder, Stands
    <3>3. requests'[o[1]].file = requests[o[1]].file  BY <1>1, <3>2 DEF RowsKeep
    <3> QED BY <2>1, <3>1, <3>3
  <2> QED BY <2>2 DEF OpenedStand, FoundUnder, FoundNext, Stands, StandsNext
<1>6. ASSUME NEW i \in 1..Len(wire'), wire'[i] \in Pending
      PROVE  StandsNext(wire'[i].req, caller'[wire'[i].to].file)
  <2>0. wire'[i].type = "result" /\ wire'[i].to \in Caller  BY <1>6 DEF Pending
  <2>1. caller'[wire'[i].to].step = "rpc"  BY <1>1, <2>0 DEF TypeInv, WireTypes
  <2>2. CASE \E j \in 1..Len(wire) : wire'[i] = wire[j]
    <3>1. PICK j \in 1..Len(wire) : wire'[i] = wire[j]  BY <2>2
    <3>2. caller[wire'[i].to].step = "rpc"  BY <1>1, <2>0, <3>1 DEF TypeInv, WireTypes
    <3>3. caller'[wire'[i].to] = caller[wire'[i].to]  BY <1>1, <2>0, <2>1, <3>2, StillAsking
    <3>4. Stands(wire'[i].req, caller[wire'[i].to].file)  BY <1>6, <3>1 DEF StandInv, AnswersStand
    <3> QED BY <1>1, <3>3, <3>4, StandsKept
  <2>3. CASE \E d \in Caller, v \in Verdict, r \in ReqId : RpcEvaluate(d, v, r) /\ wire'[i] = Answer(d, v, r)
    <3>1. PICK d \in Caller, v \in Verdict, r \in ReqId : RpcEvaluate(d, v, r) /\ wire'[i] = Answer(d, v, r)
      BY <2>3
    <3>2. v = "pending" /\ wire'[i].req = r /\ wire'[i].to = d  BY <1>6, <3>1 DEF Answer, Pending
    <3>3. caller[d] \in Asking
      <4>1. caller[d] \in {Idle} \cup Asking \cup Holding  BY <1>1 DEF TypeInv, TypeOK
      <4> QED BY <3>1, <4>1, CallerKinds DEF RpcEvaluate
    <3>4. caller[d].user \in User /\ caller[d].file \in File  BY <3>3 DEF Asking
    <3>5. EvaluateForDevice(caller[d].user, caller[d].file, "pending", r) /\ caller' = caller
      BY <3>1, <3>2 DEF RpcEvaluate, agentVars
    <3>6. \A u \in User, x \in File : EvaluateForDevice(u, x, "pending", r) =>
              r \in DOMAIN requests' /\ HashOf[requests'[r].file] = HashOf[x]
      BY <1>1, Evaluated DEF Verdict, Stands
    <3> QED BY <3>2, <3>4, <3>5, <3>6 DEF StandsNext
  <2>4. CASE wire'[i].type \in {"ticket", "request-denied"}  BY <2>0, <2>4
  <2>5. ASSUME NEW v, NEW r, wire'[i] = Announcement(v, r)
        PROVE  wire'[i].type \in {"ticket", "request-denied"}
    BY <2>5 DEF Announcement
  <2> QED BY <1>1, <2>2, <2>3, <2>4, <2>5, WireMoves
<1>7. AnswersStand'  BY <1>6 DEF AnswersStand, Stands, StandsNext
<1> QED BY <1>1, <1>3, <1>4, <1>5, <1>7 DEF StandInv

LEMMA StandingAtFirst == Init => StandInv
<1> SUFFICES ASSUME Init PROVE StandInv  OBVIOUS
<1>1. TypeInv  BY TypesHoldAtFirst
<1>2. HandlersStand
  <2>1. Idle \notin Holding  BY NotHolding
  <2> QED BY <2>1 DEF Init, HandlersStand
<1>3. JobsStand /\ OpenedStand  BY DEF Init, JobsStand, OpenedStand
<1>4. AnswersStand
  <2>1. Len(wire) = 0  BY EmptySeq DEF Init
  <2> QED BY <2>1 DEF AnswersStand
<1> QED BY <1>1, <1>2, <1>3, <1>4 DEF StandInv

LEMMA StandingIsSameWhenAsked == StandInv => SameWhenAsked
<1> SUFFICES ASSUME StandInv PROVE SameWhenAsked  OBVIOUS
<1>1. \A c \in Caller : "req" \in DOMAIN caller[c] => caller[c] \in Holding
  <2>1. \A c \in Caller : caller[c] \in {Idle} \cup Asking \cup Holding  BY DEF StandInv, TypeInv, TypeOK
  <2> QED BY <2>1, CallerKinds
<1> QED BY <1>1 DEF SameWhenAsked, StandInv, HandlersStand, JobsStand, OpenedStand, FoundUnder, Stands

-----------------------------------------------------------------------------
(* The promise.  A ticket on the wire is true of the row, because a decided *)
(* row is decided for good; so what it opens was approved.                  *)

NewsTrue ==
  \A i \in 1..Len(wire) : wire[i] \in News =>
    /\ wire[i].req \in DOMAIN requests
    /\ requests[wire[i].req].status = IF wire[i].type = "ticket" THEN "approved" ELSE "denied"

TruthInv == TypeInv /\ NewsTrue

LEMMA TruthIsKept == TruthInv /\ [Next]_vars => TruthInv'
<1> SUFFICES ASSUME TruthInv, [Next]_vars PROVE TruthInv'  OBVIOUS
<1>1. /\ TypeInv /\ TypeInv' /\ RowsKeep /\ ServerTypeOK
      /\ \A r \in DOMAIN requests : requests[r].status # "pending" => requests'[r].status = requests[r].status
  BY TypesAreKept, RowsMove DEF TruthInv, TypeInv, TypeOK
<1>2. ASSUME NEW i \in 1..Len(wire'), wire'[i] \in News
      PROVE  /\ wire'[i].req \in DOMAIN requests'
             /\ requests'[wire'[i].req].status = IF wire'[i].type = "ticket" THEN "approved" ELSE "denied"
  <2>1. CASE \E j \in 1..Len(wire) : wire'[i] = wire[j]
    BY <1>1, <1>2, <2>1 DEF TruthInv, NewsTrue, RowsKeep
  <2>2. ASSUME NEW d, NEW v, NEW r, wire'[i] = Answer(d, v, r) PROVE FALSE
    BY <1>2, <2>2 DEF Answer, News
  <2>3. CASE \E ids \in SUBSET ReqId, v \in {"approve", "deny"} : \E a \in ActionsOf(v) :
               DecideAll(ids, v, a) /\ wire'[i].req \in Decidable(ids)
               /\ wire'[i] = Announcement(v, wire'[i].req)
    <3>1. PICK ids \in SUBSET ReqId, v \in {"approve", "deny"} : \E a \in ActionsOf(v) :
               DecideAll(ids, v, a) /\ wire'[i].req \in Decidable(ids)
               /\ wire'[i] = Announcement(v, wire'[i].req)
      BY <2>3
    <3>2. RowsDecided(ids, v)  BY <1>1, <3>1, Decided
    <3>3. wire'[i].req \in DOMAIN requests' /\ requests'[wire'[i].req].status = StatusOf(v)
      BY <3>1, <3>2 DEF RowsDecided
    <3>4. wire'[i].type = IF v = "approve" THEN "ticket" ELSE "request-denied"
      BY <3>1 DEF Announcement
    <3> QED BY <3>3, <3>4 DEF StatusOf
  <2> QED BY <1>1, <2>1, <2>2, <2>3, WireMoves
<1>3. NewsTrue'  BY <1>2 DEF NewsTrue
<1> QED BY <1>1, <1>3 DEF TruthInv

LEMMA TruthAtFirst == Init => TruthInv
<1> SUFFICES ASSUME Init PROVE TruthInv  OBVIOUS
<1>1. Len(wire) = 0  BY EmptySeq DEF Init
<1> QED BY <1>1, TypesHoldAtFirst DEF TruthInv, NewsTrue

\* What an evaluate does to the table, seen from outside.
LEMMA Asked ==
  ASSUME ServerTypeOK, NEW u \in User, NEW p \in File, NEW v \in Verdict, NEW r \in ReqId,
         EvaluateForDevice(u, p, v, r)
  PROVE  \/ requests' = requests
         \/ /\ r \notin DOMAIN requests /\ DOMAIN requests' = DOMAIN requests \cup {r}
            /\ \A x \in DOMAIN requests : requests'[x] = requests[x]
            /\ requests'[r].status \in {"pending", "denied"}
<1>1. ASSUME NEW s \in {"pending", "denied"}, InsertRequest(r, u, p, s)
      PROVE  \/ requests' = requests
             \/ /\ r \notin DOMAIN requests /\ DOMAIN requests' = DOMAIN requests \cup {r}
                /\ \A x \in DOMAIN requests : requests'[x] = requests[x]
                /\ requests'[r].status \in {"pending", "denied"}
  BY <1>1 DEF InsertRequest, WithRequest
<1>2. CASE v = "allow"  BY <1>2 DEF EvaluateForDevice
<1>3. CASE v = "deny"  BY <1>1, <1>3 DEF EvaluateForDevice
<1>4. CASE v = "pending"  BY <1>1, <1>4 DEF EvaluateForDevice
<1> QED BY <1>2, <1>3, <1>4 DEF Verdict

-----------------------------------------------------------------------------
(* Hearing.  A handler in the table has the decision of its request ahead   *)
(* of it on the wire, if there is one; so has an answer that will put a     *)
(* handler there: nothing that is sent after it may be handled before it.   *)

Told(r, k) == \E i \in 1..Len(wire) : i > k /\ wire[i] \in News /\ wire[i].req = r

\* The question is open, or its decision is behind position k of the wire.
Awaits(r, k) == r \in DOMAIN requests /\ (requests[r].status = "pending" \/ Told(r, k))

AnswersAwait == \A i \in 1..Len(wire) : wire[i] \in Pending => Awaits(wire[i].req, i)

Listening(c) == caller[c].step = "waiting" /\ caller[c].linked

WaitersAwait == \A c \in Caller : Listening(c) => connected /\ Awaits(caller[c].req, 0)

HearInv == TypeInv /\ AnswersAwait /\ WaitersAwait

\* The news of r behind position k are now behind position m.
NewsKept(r, k, m) ==
  \A i \in 1..Len(wire) : i > k /\ wire[i] \in News /\ wire[i].req = r =>
    \E j \in 1..Len(wire') : j > m /\ wire'[j] = wire[i]

LEMMA AwaitsKept ==
  ASSUME TypeInv, [Next]_vars, NEW r \in ReqId, NEW k \in 0..Len(wire), NEW m \in 0..k,
         Awaits(r, k), NewsKept(r, k, m), connected
  PROVE  Awaits(r, m)'
<1>1. /\ RowsKeep /\ ServerTypeOK
      /\ wire \in Seq(Message) /\ Len(wire) \in Nat
  <2>1. wire \in Seq(Message) /\ ServerTypeOK  BY DEF TypeInv, TypeOK, WireTypes
  <2> QED BY <2>1, RowsMove, LenProperties
<1>2. r \in DOMAIN requests'  BY <1>1 DEF Awaits, RowsKeep
<1>3. CASE Told(r, k)
  <2>1. Told(r, m)'  BY <1>3 DEF Told, NewsKept
  <2> QED BY <1>2, <2>1 DEF Awaits
<1>4. ASSUME requests[r].status = "pending", requests'[r] = requests[r] PROVE Awaits(r, m)'
  BY <1>2, <1>4 DEF Awaits
<1>5. CASE requests[r].status = "pending"
  <2>1. CASE UNCHANGED <<requests, decisions>>  BY <1>4, <1>5, <2>1
  <2>2. CASE \E u \in User, p \in File, v \in Verdict, x \in ReqId : EvaluateForDevice(u, p, v, x)
    <3>1. PICK u \in User, p \in File, v \in Verdict, x \in ReqId : EvaluateForDevice(u, p, v, x)  BY <2>2
    <3>2. \A y \in DOMAIN requests : requests'[y] = requests[y]  BY <1>1, <3>1, Evaluated
    <3> QED BY <1>4, <1>5, <3>2 DEF Awaits
  <2>3. CASE \E ids \in SUBSET ReqId, v \in {"approve", "deny"} : \E a \in ActionsOf(v) : DecideAll(ids, v, a)
    <3>1. PICK ids \in SUBSET ReqId, v \in {"approve", "deny"} : \E a \in ActionsOf(v) : DecideAll(ids, v, a)
      BY <2>3
    <3>2. RowsDecided(ids, v) /\ RowsAnnounced(ids, v)  BY <1>1, <3>1, Decided
    <3>3. CASE r \notin Decidable(ids)
      <4>1. requests'[r] = requests[r]  BY <3>2, <3>3 DEF RowsDecided, Awaits
      <4> QED BY <1>4, <1>5, <4>1
    <3>4. CASE r \in Decidable(ids)
      <4>1. PICK q \in Seq(News) : /\ wire' = wire \o q
                                   /\ \E i \in 1..Len(q) : q[i].req = r
        BY <3>2, <3>4 DEF RowsAnnounced
      <4>2. PICK i \in 1..Len(q) : q[i].req = r  BY <4>1
      <4>3. q[i] \in News /\ Len(q) \in Nat  BY ElementOfSeq, LenProperties
      <4>4. q \in Seq(Message)
        <5>1. \A j \in 1..Len(q) : q[j] \in Message  BY ElementOfSeq DEF Message
        <5>2. q = [j \in 1..Len(q) |-> q[j]]  BY LenProperties
        <5>3. q \in [1..Len(q) -> Message]  BY <5>1, <5>2
        <5> QED BY <4>3, <5>3
      <4>5. /\ Len(wire') = Len(wire) + Len(q)
            /\ \A j \in 1..Len(wire) + Len(q) : wire'[j] = IF j <= Len(wire) THEN wire[j] ELSE q[j - Len(wire)]
        BY <1>1, <4>1, <4>4, ConcatProperties
      <4>6. /\ Len(wire) + i \in 1..Len(wire') /\ Len(wire) + i > m
            /\ wire'[Len(wire) + i] = q[i]
        BY <1>1, <4>3, <4>5
      <4>7. Told(r, m)'  BY <4>2, <4>3, <4>6 DEF Told
      <4> QED BY <1>2, <4>7 DEF Awaits
    <3> QED BY <3>3, <3>4
  <2> QED BY <2>1, <2>2, <2>3, WhoWrites
<1> QED BY <1>3, <1>5 DEF Awaits

\* What is announced at one moment: requests that were open, each of them once.
JustDecided(q) ==
  /\ \A i \in 1..Len(q) : q[i].req \in DOMAIN requests /\ requests[q[i].req].status = "pending"
  /\ \A i, j \in 1..Len(q) : q[i].req = q[j].req => i = j

\* The ways in which the wire moves.
LEMMA WireKinds ==
  ASSUME TypeInv, [Next]_vars
  PROVE  \/ wire' = wire
         \/ Disconnect \/ Crash
         \/ wire # <<>> /\ Taken /\ (ReceiveResult \/ ReceiveTicket \/ ReceiveDenial)
         \/ \E m \in 1..Len(wire) : wire[m].type = "result" /\ wire' = RemoveAt(wire, m)
         \/ \E d \in Caller, v \in Verdict, r \in ReqId : RpcEvaluate(d, v, r)
         \/ \E q \in Seq(News) : wire' = wire \o q /\ JustDecided(q)
<1> DEFINE Goal ==
         \/ wire' = wire
         \/ Disconnect \/ Crash
         \/ wire # <<>> /\ Taken /\ (ReceiveResult \/ ReceiveTicket \/ ReceiveDenial)
         \/ \E m \in 1..Len(wire) : wire[m].type = "result" /\ wire' = RemoveAt(wire, m)
         \/ \E d \in Caller, v \in Verdict, r \in ReqId : RpcEvaluate(d, v, r)
         \/ \E q \in Seq(News) : wire' = wire \o q /\ JustDecided(q)
<1> SUFFICES Goal  OBVIOUS
<1>0. DOMAIN wire = 1..Len(wire) /\ ServerTypeOK
  <2>1. wire \in Seq(Message) /\ ServerTypeOK  BY DEF TypeInv, TypeOK, WireTypes
  <2> QED BY <2>1, LenProperties
<1>1. ASSUME wire' = wire PROVE Goal  BY <1>1
<1>2. CASE Connect  BY <1>1, <1>2 DEF Connect
<1>3. CASE Disconnect \/ Crash  BY <1>3
<1>4. CASE ReceiveResult \/ ReceiveTicket \/ ReceiveDenial
  <2>1. wire # <<>> /\ Taken  BY <1>4 DEF ReceiveResult, ReceiveTicket, ReceiveDenial, Arriving
  <2> QED BY <1>4, <2>1
<1>5. CASE \E d \in Caller, u \in User, p \in File : Ask(d, u, p)  BY <1>1, <1>5 DEF Ask, serverVars
<1>6. CASE \E d \in Caller : RpcFails(d)
  <2>1. PICK d \in Caller : RpcFails(d)  BY <1>6
  <2>2. wire' = wire \/ \E m \in 1..Len(wire) : IsAnswerTo(wire[m], d) /\ wire' = RemoveAt(wire, m)
    BY <1>0, <2>1 DEF RpcFails
  <2>3. CASE \E m \in 1..Len(wire) : IsAnswerTo(wire[m], d) /\ wire' = RemoveAt(wire, m)
    <3>1. PICK m \in 1..Len(wire) : IsAnswerTo(wire[m], d) /\ wire' = RemoveAt(wire, m)  BY <2>3
    <3>2. wire[m].type = "result"  BY <3>1 DEF IsAnswerTo
    <3> QED BY <3>1, <3>2
  <2> QED BY <1>1, <2>2, <2>3
<1>7. CASE \E d \in Caller : HttpGivesUp(d)  BY <1>1, <1>7 DEF HttpGivesUp, serverVars
<1>8. CASE \E d \in Caller : WaitTimesOut(d)  BY <1>1, <1>8 DEF WaitTimesOut, serverVars
<1>9. CASE \E d \in Caller : RemoveWaiter(d)  BY <1>1, <1>9 DEF RemoveWaiter, serverVars
<1>10. CASE \E d \in Caller : Register(d)  BY <1>1, <1>10 DEF Register, serverVars
<1>11. CASE \E d \in Caller, v \in Verdict, r \in ReqId : RpcEvaluate(d, v, r)  BY <1>11
<1>12. CASE \E d \in Caller, v \in Verdict, r \in ReqId : HttpEvaluate(d, v, r)
  BY <1>1, <1>12 DEF HttpEvaluate
<1>13. CASE \E d \in Caller, v \in Verdict, r \in ReqId : HttpAnswerLost(d, v, r)
  BY <1>1, <1>13 DEF HttpAnswerLost
<1>14. CASE Decision
  <2>1. PICK ids \in SUBSET ReqId, v \in {"approve", "deny"} : \E a \in ActionsOf(v) : DecideAll(ids, v, a)
    BY <1>14, DecisionIs
  <2>2. RowsAnnounced(ids, v)  BY <1>0, <2>1, Decided
  <2>3. PICK q \in Seq(News) :
          /\ wire' = IF connected THEN wire \o q ELSE wire
          /\ \A i \in 1..Len(q) : q[i].req \in Decidable(ids)
          /\ \A i, j \in 1..Len(q) : q[i].req = q[j].req => i = j
    BY <2>2 DEF RowsAnnounced
  <2>4. JustDecided(q)  BY <2>3 DEF JustDecided, Decidable
  <2> QED BY <1>1, <2>3, <2>4
<1>15. CASE UNCHANGED vars  BY <1>1, <1>15 DEF vars, serverVars
<1> HIDE DEF Goal
<1> QED
  BY <1>2, <1>3, <1>4, <1>5, <1>6, <1>7, <1>8, <1>9, <1>10, <1>11, <1>12, <1>13, <1>14, <1>15, Steps

LEMMA GrownWire ==
  ASSUME TypeInv, NEW q \in Seq(Message), wire' = wire \o q
  PROVE  /\ Len(wire) \in Nat /\ Len(wire') = Len(wire) + Len(q) /\ Len(q) \in Nat
         /\ \A i \in 1..Len(wire) : i \in 1..Len(wire') /\ wire'[i] = wire[i]
         /\ \A i \in 1..Len(wire') : i > Len(wire) => i - Len(wire) \in 1..Len(q) /\ wire'[i] = q[i - Len(wire)]
<1>1. wire \in Seq(Message)  BY DEF TypeInv, WireTypes
<1>2. /\ Len(wire) \in Nat /\ Len(q) \in Nat /\ Len(wire') = Len(wire) + Len(q)
      /\ \A j \in 1..Len(wire) + Len(q) : wire'[j] = IF j <= Len(wire) THEN wire[j] ELSE q[j - Len(wire)]
  BY <1>1, LenProperties, ConcatProperties
<1> QED BY <1>2

\* Where a pending answer that is left on the wire was, and what was behind it.
LEMMA PositionsKept ==
  ASSUME TypeInv, [Next]_vars, NEW i \in 1..Len(wire'), NEW r, wire'[i] \in Pending
  PROVE  \/ \E k \in 1..Len(wire) : wire'[i] = wire[k] /\ i <= k /\ NewsKept(r, k, i)
         \/ \E d \in Caller, v \in Verdict, x \in ReqId : RpcEvaluate(d, v, x) /\ wire'[i] = Answer(d, v, x)
<1> DEFINE Goal ==
      \/ \E k \in 1..Len(wire) : wire'[i] = wire[k] /\ i <= k /\ NewsKept(r, k, i)
      \/ \E d \in Caller, v \in Verdict, x \in ReqId : RpcEvaluate(d, v, x) /\ wire'[i] = Answer(d, v, x)
<1> SUFFICES Goal  OBVIOUS
<1>0. wire \in Seq(Message) /\ Len(wire) \in Nat
  <2>1. wire \in Seq(Message)  BY DEF TypeInv, WireTypes
  <2> QED BY <2>1, LenProperties
<1>1. CASE wire' = wire
  <2>1. NewsKept(r, i, i) /\ i <= i /\ i \in 1..Len(wire)  BY <1>1 DEF NewsKept
  <2> QED BY <1>1, <2>1
<1>2. CASE Disconnect \/ Crash
  <2>1. Len(wire') = 0  BY <1>2, EmptySeq DEF Disconnect, Crash
  <2> QED BY <2>1
<1>3. CASE wire # <<>> /\ Taken
  <2>1. /\ Len(wire') = Len(wire) - 1
        /\ \A j \in 1..Len(wire') : wire'[j] = wire[j + 1] /\ j + 1 \in 1..Len(wire)
    BY <1>3, TakenIs
  <2>2. ASSUME NEW j \in 1..Len(wire), j > i + 1 PROVE j - 1 \in 1..Len(wire') /\ j - 1 > i /\ wire'[j - 1] = wire[j]
    <3>1. j - 1 \in 1..Len(wire') /\ j - 1 > i /\ (j - 1) + 1 = j  BY <1>0, <2>1, <2>2
    <3> QED BY <2>1, <3>1
  <2>3. NewsKept(r, i + 1, i)  BY <2>2 DEF NewsKept
  <2> QED BY <1>0, <2>1, <2>3
<1>4. CASE \E m \in 1..Len(wire) : wire[m].type = "result" /\ wire' = RemoveAt(wire, m)
  <2>1. PICK m \in 1..Len(wire) : wire[m].type = "result" /\ wire' = RemoveAt(wire, m)  BY <1>4
  <2>2. /\ Len(wire') = Len(wire) - 1
        /\ \A j \in 1..Len(wire) - 1 : wire'[j] = IF j < m THEN wire[j] ELSE wire[j + 1]
    BY <1>0, <2>1, RemoveAtIs
  <2>3. wire[m] \notin News  BY <2>1 DEF News
  <2>4. ASSUME NEW j \in 1..Len(wire), j < m PROVE j \in 1..Len(wire') /\ wire'[j] = wire[j]
    BY <1>0, <2>2, <2>4
  <2>5. ASSUME NEW j \in 1..Len(wire), j > m PROVE j - 1 \in 1..Len(wire') /\ wire'[j - 1] = wire[j]
    <3>1. j - 1 \in 1..Len(wire) - 1 /\ ~(j - 1 < m) /\ (j - 1) + 1 = j  BY <1>0, <2>5
    <3> QED BY <2>2, <3>1
  <2>6. CASE i < m
    <3>1. i \in 1..Len(wire) /\ wire'[i] = wire[i]  BY <1>0, <2>2, <2>6
    <3>2. NewsKept(r, i, i)
      <4> SUFFICES ASSUME NEW j \in 1..Len(wire), j > i, wire[j] \in News
                   PROVE  \E n \in 1..Len(wire') : n > i /\ wire'[n] = wire[j]
        BY DEF NewsKept
      <4>1. CASE j < m  BY <2>4, <4>1
      <4>2. CASE j > m
        <5>1. j - 1 > i  BY <1>0, <2>6, <4>2
        <5> QED BY <2>5, <4>2, <5>1
      <4>3. j # m  BY <2>3
      <4> QED BY <1>0, <4>1, <4>2, <4>3
    <3> QED BY <3>1, <3>2
  <2>7. CASE i >= m
    <3>1. i + 1 \in 1..Len(wire) /\ wire'[i] = wire[i + 1]  BY <1>0, <2>2, <2>7
    <3>2. NewsKept(r, i + 1, i)
      <4> SUFFICES ASSUME NEW j \in 1..Len(wire), j > i + 1
                   PROVE  \E n \in 1..Len(wire') : n > i /\ wire'[n] = wire[j]
        BY DEF NewsKept
      <4>1. j > m /\ j - 1 > i  BY <1>0, <2>7
      <4> QED BY <2>5, <4>1
    <3> QED BY <3>1, <3>2
  <2> QED BY <1>0, <2>6, <2>7
<1>5. ASSUME NEW q \in Seq(Message), wire' = wire \o q
      PROVE  i <= Len(wire) => Goal
  <2> SUFFICES ASSUME i <= Len(wire) PROVE Goal  OBVIOUS
  <2>1. i \in 1..Len(wire) /\ wire'[i] = wire[i] /\ \A j \in 1..Len(wire) : j \in 1..Len(wire') /\ wire'[j] = wire[j]
    BY <1>0, <1>5, GrownWire
  <2>2. NewsKept(r, i, i)  BY <2>1 DEF NewsKept
  <2> QED BY <2>1, <2>2
<1>6. CASE \E q \in Seq(News) : wire' = wire \o q
  <2>1. PICK q \in Seq(News) : wire' = wire \o q  BY <1>6
  <2>2. q \in Seq(Message)
    <3>1. \A j \in 1..Len(q) : q[j] \in Message  BY ElementOfSeq DEF Message
    <3>2. Len(q) \in Nat /\ q = [j \in 1..Len(q) |-> q[j]]  BY LenProperties
    <3>3. q \in [1..Len(q) -> Message]  BY <3>1, <3>2
    <3> QED BY <3>2, <3>3
  <2>3. i <= Len(wire)
    <3> SUFFICES ASSUME i > Len(wire) PROVE FALSE  BY <1>0, <2>1, <2>2, GrownWire
    <3>1. i - Len(wire) \in 1..Len(q) /\ wire'[i] = q[i - Len(wire)]  BY <2>1, <2>2, GrownWire
    <3>2. wire'[i] \in News  BY <3>1, ElementOfSeq
    <3> QED BY <3>2 DEF News, Pending
  <2> QED BY <1>5, <2>1, <2>2, <2>3
<1>7. CASE \E d \in Caller, v \in Verdict, x \in ReqId : RpcEvaluate(d, v, x)
  <2>1. PICK d \in Caller, v \in Verdict, x \in ReqId : RpcEvaluate(d, v, x)  BY <1>7
  <2> DEFINE q == <<Answer(d, v, x)>>
  <2>2. q \in Seq(Message) /\ Len(q) = 1 /\ q[1] = Answer(d, v, x)
    BY DEF Answer, Message, Plain, Pending
  <2>3. connected /\ Publish(q)  BY <2>1 DEF RpcEvaluate
  <2> HIDE DEF q
  <2>4. wire' = wire \o q  BY <2>3 DEF Publish
  <2>5. CASE i > Len(wire)
    <3>1. i - Len(wire) \in 1..Len(q) /\ wire'[i] = q[i - Len(wire)]  BY <2>2, <2>4, <2>5, GrownWire
    <3>2. i - Len(wire) = 1  BY <2>2, <3>1
    <3> QED BY <2>1, <2>2, <3>1, <3>2
  <2>6. i <= Len(wire) \/ i > Len(wire)  BY <1>0, <2>2, <2>4, GrownWire
  <2> QED BY <1>5, <2>2, <2>4, <2>5, <2>6
<1> HIDE DEF Goal
<1> QED BY <1>1, <1>2, <1>3, <1>4, <1>6, <1>7, WireKinds

\* FailPending and a crash leave nobody listening.
LEMMA ListenersStayOnline ==
  ASSUME TypeInv, NEW c \in Caller, Listening(c), Listening(c)'
  PROVE  ~Disconnect /\ ~Crash
<1>1. ASSUME Disconnect PROVE FALSE
  <2>1. caller[c] \in Holding
    <3>1. caller[c] \in {Idle} \cup Asking \cup Holding  BY DEF TypeInv, TypeOK
    <3> QED BY <3>1, CallerKinds DEF Listening
  <2>2. caller'[c] = CASE caller[c].step = "rpc" -> [caller[c] EXCEPT !.step = "http"]
           [] caller[c].step \in {"waiting", "timed-out"} -> [caller[c] EXCEPT !.linked = FALSE]
           [] OTHER -> caller[c]
    BY <1>1 DEF Disconnect, FailPending
  <2>3. caller'[c] = [caller[c] EXCEPT !.linked = FALSE]  BY <2>2 DEF Listening
  <2>4. ~caller'[c].linked  BY <2>1, <2>3 DEF Holding
  <2> QED BY <2>4 DEF Listening
<1>2. ASSUME Crash PROVE FALSE  BY <1>2 DEF Crash, Listening, Idle
<1> QED BY <1>1, <1>2

\* Who listens for r before and after a step loses no news of it.
LEMMA ListenersKept ==
  ASSUME TypeInv, [Next]_vars, NEW c \in Caller, NEW r \in ReqId,
         Listening(c), caller[c].req = r, Listening(c)'
  PROVE  NewsKept(r, 0, 0)
<1>0. wire \in Seq(Message) /\ Len(wire) \in Nat
  <2>1. wire \in Seq(Message)  BY DEF TypeInv, WireTypes
  <2> QED BY <2>1, LenProperties
<1>1. ~Disconnect /\ ~Crash  BY ListenersStayOnline
<1>2. ASSUME NEW x, Complete(x) PROVE x # r
  <2> SUFFICES ASSUME x = r PROVE FALSE  OBVIOUS
  <2>1. c \in InTable(x)  BY DEF InTable, Listening
  <2>2. caller'[c] = Idle  BY <1>2, <2>1 DEF Complete, Listening
  <2> QED BY <2>2 DEF Listening, Idle
<1>3. CASE wire' = wire  BY <1>3 DEF NewsKept
<1>4. ASSUME wire # <<>>, Taken, ReceiveResult \/ ReceiveTicket \/ ReceiveDenial
      PROVE  NewsKept(r, 0, 0)
  <2>1. /\ Len(wire') = Len(wire) - 1 /\ Head(wire) = wire[1]
        /\ \A j \in 1..Len(wire') : wire'[j] = wire[j + 1] /\ j + 1 \in 1..Len(wire)
    BY <1>4, TakenIs
  <2>2. ~(wire[1] \in News /\ wire[1].req = r)
    <3>1. CASE ReceiveResult
      <4>1. wire[1].type = "result"  BY <2>1, <3>1 DEF ReceiveResult, Arriving
      <4> QED BY <4>1 DEF News
    <3>2. CASE ReceiveDenial  BY <1>2, <2>1, <3>2 DEF ReceiveDenial
    <3>3. CASE ReceiveTicket
      <4> DEFINE x == Head(wire).req
      <4>1. TicketToWaiters(x) \/ TicketToJob(x) \/ TicketDropped(x)  BY <3>3 DEF ReceiveTicket
      <4> HIDE DEF x
      <4>2. CASE TicketToWaiters(x)
        <5>1. x # r  BY <1>2, <4>2 DEF TicketToWaiters
        <5> QED BY <2>1, <5>1 DEF x
      <4>3. CASE TicketToJob(x) \/ TicketDropped(x)
        <5>1. c \notin InTable(x)  BY <4>3 DEF TicketToJob, TicketDropped
        <5>2. x # r  BY <5>1 DEF InTable, Listening
        <5> QED BY <2>1, <5>2 DEF x
      <4> QED BY <4>1, <4>2, <4>3
    <3> QED BY <1>4, <3>1, <3>2, <3>3
  <2>3. ASSUME NEW j \in 1..Len(wire), j > 1 PROVE j - 1 \in 1..Len(wire') /\ j - 1 > 0 /\ wire'[j - 1] = wire[j]
    <3>1. j - 1 \in 1..Len(wire') /\ j - 1 > 0 /\ (j - 1) + 1 = j  BY <1>0, <2>1, <2>3
    <3> QED BY <2>1, <3>1
  <2> SUFFICES ASSUME NEW j \in 1..Len(wire), wire[j] \in News, wire[j].req = r
               PROVE  \E n \in 1..Len(wire') : n > 0 /\ wire'[n] = wire[j]
    BY DEF NewsKept
  <2>4. j > 1  BY <1>0, <2>2
  <2> QED BY <2>3, <2>4
<1>5. CASE \E m \in 1..Len(wire) : wire[m].type = "result" /\ wire' = RemoveAt(wire, m)
  <2>1. PICK m \in 1..Len(wire) : wire[m].type = "result" /\ wire' = RemoveAt(wire, m)  BY <1>5
  <2>2. /\ Len(wire') = Len(wire) - 1
        /\ \A j \in 1..Len(wire) - 1 : wire'[j] = IF j < m THEN wire[j] ELSE wire[j + 1]
    BY <1>0, <2>1, RemoveAtIs
  <2> SUFFICES ASSUME NEW j \in 1..Len(wire), wire[j] \in News
               PROVE  \E n \in 1..Len(wire') : n > 0 /\ wire'[n] = wire[j]
    BY DEF NewsKept
  <2>3. j # m  BY <2>1 DEF News
  <2>4. CASE j < m
    <3>1. j \in 1..Len(wire') /\ j > 0 /\ wire'[j] = wire[j]  BY <1>0, <2>2, <2>4
    <3> QED BY <3>1
  <2>5. CASE j > m
    <3>1. j - 1 \in 1..Len(wire) - 1 /\ ~(j - 1 < m) /\ (j - 1) + 1 = j  BY <1>0, <2>5
    <3>2. j - 1 \in 1..Len(wire') /\ j - 1 > 0 /\ wire'[j - 1] = wire[j]  BY <1>0, <2>2, <3>1
    <3> QED BY <3>2
  <2> QED BY <1>0, <2>3, <2>4, <2>5
<1>6. ASSUME NEW q \in Seq(Message), wire' = wire \o q PROVE NewsKept(r, 0, 0)
  <2>1. \A j \in 1..Len(wire) : j \in 1..Len(wire') /\ wire'[j] = wire[j]  BY <1>6, GrownWire
  <2> QED BY <2>1 DEF NewsKept
<1>7. CASE \E q \in Seq(News) : wire' = wire \o q
  <2>1. PICK q \in Seq(News) : wire' = wire \o q  BY <1>7
  <2>2. \A j \in 1..Len(q) : q[j] \in Message  BY ElementOfSeq DEF Message
  <2>3. Len(q) \in Nat /\ q = [j \in 1..Len(q) |-> q[j]]  BY LenProperties
  <2>4. q \in [1..Len(q) -> Message]  BY <2>2, <2>3
  <2>5. q \in Seq(Message)  BY <2>3, <2>4
  <2> QED BY <1>6, <2>1, <2>5
<1>8. CASE \E d \in Caller, v \in Verdict, x \in ReqId : RpcEvaluate(d, v, x)
  <2>1. PICK d \in Caller, v \in Verdict, x \in ReqId : RpcEvaluate(d, v, x)  BY <1>8
  <2> DEFINE q == <<Answer(d, v, x)>>
  <2>2. q \in Seq(Message)  BY DEF Answer, Message, Plain, Pending
  <2>3. connected /\ Publish(q)  BY <2>1 DEF RpcEvaluate
  <2> HIDE DEF q
  <2>4. wire' = wire \o q  BY <2>3 DEF Publish
  <2> QED BY <1>6, <2>2, <2>4
<1> QED BY <1>1, <1>3, <1>4, <1>5, <1>7, <1>8, WireKinds

LEMMA SocketStays ==
  ASSUME [Next]_vars, ~Disconnect, ~Crash, connected PROVE connected'
<1>1. CASE Connect  BY <1>1 DEF Connect
<1>2. CASE ReceiveResult \/ ReceiveTicket \/ ReceiveDenial
  BY <1>2 DEF ReceiveResult, ReceiveTicket, ReceiveDenial
<1>3. CASE \E d \in Caller, u \in User, p \in File : Ask(d, u, p)  BY <1>3 DEF Ask, serverVars
<1>4. CASE \E d \in Caller : RpcFails(d)  BY <1>4 DEF RpcFails
<1>5. CASE \E d \in Caller : HttpGivesUp(d)  BY <1>5 DEF HttpGivesUp, serverVars
<1>6. CASE \E d \in Caller : WaitTimesOut(d)  BY <1>6 DEF WaitTimesOut, serverVars
<1>7. CASE \E d \in Caller : RemoveWaiter(d)  BY <1>7 DEF RemoveWaiter, serverVars
<1>8. CASE \E d \in Caller : Register(d)  BY <1>8 DEF Register, serverVars
<1>9. ASSUME NEW u, NEW p, NEW v, NEW r, EvaluateForDevice(u, p, v, r) PROVE connected'
  BY <1>9 DEF EvaluateForDevice
<1>10. CASE \E d \in Caller, v \in Verdict, r \in ReqId : RpcEvaluate(d, v, r)
  BY <1>9, <1>10 DEF RpcEvaluate
<1>11. CASE \E d \in Caller, v \in Verdict, r \in ReqId : HttpEvaluate(d, v, r)
  BY <1>9, <1>11 DEF HttpEvaluate
<1>12. CASE \E d \in Caller, v \in Verdict, r \in ReqId : HttpAnswerLost(d, v, r)
  BY <1>9, <1>12 DEF HttpAnswerLost
<1>13. CASE Decision  BY <1>13, DecisionIs DEF DecideAll
<1>14. CASE UNCHANGED vars  BY <1>14 DEF vars, serverVars
<1> QED
  BY <1>1, <1>2, <1>3, <1>4, <1>5, <1>6, <1>7, <1>8, <1>10, <1>11, <1>12, <1>13, <1>14, Steps

LEMMA HearingIsKept == HearInv /\ [Next]_vars => HearInv'
<1> SUFFICES ASSUME HearInv, [Next]_vars PROVE HearInv'  OBVIOUS
<1>1. TypeInv /\ TypeInv' /\ ServerTypeOK /\ (wire # <<>> => connected)
  BY TypesAreKept DEF HearInv, TypeInv, TypeOK, WireTypes
<1>2. /\ wire \in Seq(Message) /\ Len(wire) \in Nat /\ (Len(wire) # 0 => wire # <<>>)
      /\ wire' \in Seq(Message) /\ Len(wire') \in Nat
  <2>1. wire \in Seq(Message) /\ wire' \in Seq(Message)  BY <1>1 DEF TypeInv, WireTypes
  <2> QED BY <2>1, LenProperties, EmptySeq
<1>3. AnswersAwait'
  <2> SUFFICES ASSUME NEW i \in 1..Len(wire'), wire'[i] \in Pending,
                      NEW r \in ReqId, r = wire'[i].req
               PROVE  Awaits(r, i)'
    BY DEF AnswersAwait, Awaits, Told, Pending
  <2>1. CASE \E k \in 1..Len(wire) : wire'[i] = wire[k] /\ i <= k /\ NewsKept(r, k, i)
    <3>1. PICK k \in 1..Len(wire) : wire'[i] = wire[k] /\ i <= k /\ NewsKept(r, k, i)  BY <2>1
    <3>2. Awaits(r, k)  BY <3>1 DEF HearInv, AnswersAwait
    <3>3. k \in 0..Len(wire) /\ i \in 0..k /\ connected  BY <1>1, <1>2, <3>1
    <3> QED BY <1>1, <3>1, <3>2, <3>3, AwaitsKept
  <2>2. CASE \E d \in Caller, v \in Verdict, x \in ReqId : RpcEvaluate(d, v, x) /\ wire'[i] = Answer(d, v, x)
    <3>1. PICK d \in Caller, v \in Verdict, x \in ReqId : RpcEvaluate(d, v, x) /\ wire'[i] = Answer(d, v, x)
      BY <2>2
    <3>2. v = "pending" /\ x = r  BY <3>1 DEF Answer, Pending
    <3>3. caller[d] \in Asking
      <4>1. caller[d] \in {Idle} \cup Asking \cup Holding  BY <1>1 DEF TypeInv, TypeOK
      <4> QED BY <3>1, <4>1, CallerKinds DEF RpcEvaluate
    <3>4. caller[d].user \in User /\ caller[d].file \in File  BY <3>3 DEF Asking
    <3>5. EvaluateForDevice(caller[d].user, caller[d].file, "pending", r)
      BY <3>1, <3>2 DEF RpcEvaluate
    <3>6. r \in DOMAIN requests' /\ requests'[r].status = "pending"
      <4>1. \A u \in User, p \in File : EvaluateForDevice(u, p, "pending", r) =>
              r \in DOMAIN requests' /\ requests'[r].status = "pending"
        BY <1>1, Evaluated DEF Verdict, Stands
      <4> QED BY <3>4, <3>5, <4>1
    <3> QED BY <3>6 DEF Awaits
  <2> QED BY <1>1, <2>1, <2>2, PositionsKept
<1>4. ASSUME NEW c \in Caller, Listening(c)' PROVE connected' /\ Awaits(caller[c].req, 0)'
  <2>1. caller'[c] \in Holding
    <3>1. caller'[c] \in {Idle} \cup Asking \cup Holding  BY <1>1 DEF TypeInv, TypeOK
    <3> QED BY <1>4, <3>1, CallerKinds DEF Listening
  <2>2. PICK r \in ReqId : r = caller'[c].req  BY <2>1 DEF Holding
  <2>3. CASE BeginsToWait(c)
    <3>1. /\ wire # <<>> /\ Taken /\ Head(wire).type = "result" /\ Head(wire).to = c
          /\ "req" \in DOMAIN Head(wire) /\ connected' = connected
          /\ caller'[c] = Held("waiting", c, Head(wire).req, TRUE)
      BY <2>3 DEF BeginsToWait, ReceiveResult, Arriving
    <3>2. /\ Head(wire) = wire[1] /\ Head(wire) \in Message /\ 1 \in 1..Len(wire) /\ connected
          /\ Len(wire') = Len(wire) - 1
          /\ \A j \in 1..Len(wire') : wire'[j] = wire[j + 1] /\ j + 1 \in 1..Len(wire)
      BY <1>1, <3>1, TakenIs
    <3>3. wire[1] \in Pending /\ wire[1].req = r  BY <2>2, <3>1, <3>2, MessageKinds DEF Held
    <3>4. Awaits(r, 1)  BY <3>2, <3>3 DEF HearInv, AnswersAwait
    <3>5. NewsKept(r, 1, 0)
      <4> SUFFICES ASSUME NEW j \in 1..Len(wire), j > 1
                   PROVE  \E n \in 1..Len(wire') : n > 0 /\ wire'[n] = wire[j]
        BY DEF NewsKept
      <4>1. j - 1 \in 1..Len(wire') /\ j - 1 > 0 /\ (j - 1) + 1 = j  BY <1>2, <3>2
      <4> QED BY <3>2, <4>1
    <3>6. 1 \in 0..Len(wire) /\ 0 \in 0..1  BY <1>2, <3>2
    <3>7. Awaits(r, 0)'  BY <1>1, <3>2, <3>4, <3>5, <3>6, AwaitsKept
    <3> QED BY <2>2, <3>1, <3>2, <3>7
  <2>4. ASSUME Listening(c), caller[c].req = r PROVE connected' /\ Awaits(caller[c].req, 0)'
    <3>1. connected /\ Awaits(r, 0)  BY <2>4 DEF HearInv, WaitersAwait
    <3>2. NewsKept(r, 0, 0)  BY <1>1, <1>4, <2>4, ListenersKept
    <3>3. 0 \in 0..Len(wire) /\ 0 \in 0..0  BY <1>2
    <3>4. Awaits(r, 0)'  BY <1>1, <3>1, <3>2, <3>3, AwaitsKept
    <3>5. connected'  BY <1>1, <1>4, <2>4, <3>1, ListenersStayOnline, SocketStays
    <3> QED BY <2>2, <3>4, <3>5
  <2>5. CASE caller'[c] = caller[c]  BY <1>4, <2>2, <2>4, <2>5 DEF Listening
  <2>6. CASE SameCall(c)  BY <1>4, <2>2, <2>4, <2>6 DEF Listening, SameCall
  <2>7. ~AnsweredOverHttp(c)
    <3> SUFFICES ASSUME NEW x \in ReqId, caller'[c] = Held("unregistered", c, x, FALSE) PROVE FALSE
      BY DEF AnsweredOverHttp
    <3>1. caller'[c].step = "unregistered"  BY DEF Held
    <3> QED BY <1>4, <3>1 DEF Listening
  <2>8. caller'[c] \notin {Idle} \cup Asking  BY <2>1, NotHolding
  <2> QED BY <1>1, <2>3, <2>5, <2>6, <2>7, <2>8, CallerMoves
<1>5. WaitersAwait'  BY <1>4 DEF WaitersAwait
<1> QED BY <1>1, <1>3, <1>5 DEF HearInv

LEMMA HearingAtFirst == Init => HearInv
<1> SUFFICES ASSUME Init PROVE HearInv  OBVIOUS
<1>1. Len(wire) = 0  BY EmptySeq DEF Init
<1>2. \A c \in Caller : ~Listening(c)  BY DEF Init, Listening, Idle
<1> QED BY <1>1, <1>2, TypesHoldAtFirst DEF HearInv, AnswersAwait, WaitersAwait

LEMMA HearingIsWaiterWillHear == HearInv => WaiterWillHear
<1> SUFFICES ASSUME HearInv, NEW c \in Caller, caller[c].step = "waiting" /\ caller[c].linked
             PROVE  /\ connected
                    /\ \/ requests[caller[c].req].status = "pending"
                       \/ \E i \in DOMAIN wire : wire[i].type # "result" /\ wire[i].req = caller[c].req
  BY DEF WaiterWillHear
<1>1. connected /\ Awaits(caller[c].req, 0)  BY DEF HearInv, WaitersAwait, Listening
<1>2. DOMAIN wire = 1..Len(wire)
  <2>1. wire \in Seq(Message)  BY DEF HearInv, TypeInv, WireTypes
  <2> QED BY <2>1, LenProperties
<1>3. CASE Told(caller[c].req, 0)  BY <1>1, <1>2, <1>3 DEF Told, News
<1> QED BY <1>1, <1>3 DEF Awaits

-----------------------------------------------------------------------------
(* Once.  A request is decided once, so its ticket is sent once, and before *)
(* it is handled nothing was opened for it; afterwards it does not come     *)
(* again.  What one ticket opens is one start for each of its waiters, or   *)
(* one for the job.                                                         *)

TicketsOnce == \A i, j \in 1..Len(wire) :
  wire[i].type = "ticket" /\ wire[j].type = "ticket" /\ wire[i].req = wire[j].req => i = j

TicketsFresh == \A i \in 1..Len(wire) : wire[i].type = "ticket" => \A o \in opened : o[1] # wire[i].req

OpenedApproved == \A o \in opened : o[1] \in DOMAIN requests /\ requests[o[1]].status = "approved"

OnceInv == TruthInv /\ TicketsOnce /\ TicketsFresh /\ OpenedApproved /\ OnceForEach

\* The starts that the ticket of r brings.
WaitersStarts(r, started) == {<<r, NameOf[caller[c].file], c>> : c \in started}

LEMMA OpenedHow ==
  ASSUME TypeInv, [Next]_vars, opened' # opened, NEW r, r = Head(wire).req
  PROVE  \/ \E started \in SUBSET Caller : opened' = opened \cup WaitersStarts(r, started)
         \/ opened' = opened \cup {<<r, jobs[r], "nobody">>}
<1>1. TicketToWaiters(r) \/ TicketToJob(r)
  <2>1. ReceiveTicket  BY OpenedMoves
  <2> QED BY <2>1 DEF ReceiveTicket, TicketDropped, agentVars
<1>2. CASE TicketToWaiters(r)
  <2>1. PICK started \in SUBSET Openers(r) : opened' = opened \cup WaitersStarts(r, started)
    BY <1>2 DEF TicketToWaiters, WaitersStarts
  <2>2. started \in SUBSET Caller  BY DEF Openers, InTable
  <2> QED BY <2>1, <2>2
<1>3. CASE TicketToJob(r)  BY <1>3 DEF TicketToJob
<1> QED BY <1>1, <1>2, <1>3

\* Of two tickets on the wire that a step leaves, both were there, in this order, or
\* the later one is new and its request was open.
LEMMA TicketsMove ==
  ASSUME TypeInv, [Next]_vars,
         NEW i \in 1..Len(wire'), NEW j \in 1..Len(wire'), i < j,
         wire'[i].type = "ticket", wire'[j].type = "ticket"
  PROVE  \/ \E k, m \in 1..Len(wire) : k < m /\ wire'[i] = wire[k] /\ wire'[j] = wire[m]
         \/ /\ wire'[j].req \in DOMAIN requests /\ requests[wire'[j].req].status = "pending"
            /\ \/ \E k \in 1..Len(wire) : wire'[i] = wire[k]
               \/ wire'[i].req # wire'[j].req
<1> DEFINE Goal ==
         \/ \E k, m \in 1..Len(wire) : k < m /\ wire'[i] = wire[k] /\ wire'[j] = wire[m]
         \/ /\ wire'[j].req \in DOMAIN requests /\ requests[wire'[j].req].status = "pending"
            /\ \/ \E k \in 1..Len(wire) : wire'[i] = wire[k]
               \/ wire'[i].req # wire'[j].req
<1> SUFFICES Goal  OBVIOUS
<1>0. wire \in Seq(Message) /\ Len(wire) \in Nat
  <2>1. wire \in Seq(Message)  BY DEF TypeInv, WireTypes
  <2> QED BY <2>1, LenProperties
<1>1. CASE wire' = wire  BY <1>1
<1>2. CASE Disconnect \/ Crash
  <2>1. Len(wire') = 0  BY <1>2, EmptySeq DEF Disconnect, Crash
  <2> QED BY <2>1
<1>3. CASE wire # <<>> /\ Taken
  <2>1. \A n \in 1..Len(wire') : wire'[n] = wire[n + 1] /\ n + 1 \in 1..Len(wire)  BY <1>3, TakenIs
  <2>2. i + 1 < j + 1  BY <1>0
  <2> QED BY <2>1, <2>2
<1>4. CASE \E m \in 1..Len(wire) : wire[m].type = "result" /\ wire' = RemoveAt(wire, m)
  <2>1. PICK m \in 1..Len(wire) : wire' = RemoveAt(wire, m)  BY <1>4
  <2>2. /\ Len(wire') = Len(wire) - 1
        /\ \A n \in 1..Len(wire) - 1 : wire'[n] = IF n < m THEN wire[n] ELSE wire[n + 1]
    BY <1>0, <2>1, RemoveAtIs
  <2>3. i \in 1..Len(wire) /\ i + 1 \in 1..Len(wire) /\ j \in 1..Len(wire) /\ j + 1 \in 1..Len(wire)
    BY <1>0, <2>2
  <2>4. wire'[i] = (IF i < m THEN wire[i] ELSE wire[i + 1]) /\ wire'[j] = (IF j < m THEN wire[j] ELSE wire[j + 1])
    BY <2>2
  <2>5. CASE j < m
    <3>1. i < m  BY <1>0, <2>5
    <3> QED BY <2>3, <2>4, <2>5, <3>1
  <2>6. CASE ~(j < m) /\ i < m
    <3>1. i < j + 1  BY <1>0
    <3> QED BY <2>3, <2>4, <2>6, <3>1
  <2>7. CASE ~(j < m) /\ ~(i < m)
    <3>1. i + 1 < j + 1  BY <1>0
    <3> QED BY <2>3, <2>4, <2>7, <3>1
  <2> QED BY <2>5, <2>6, <2>7
<1>5. ASSUME NEW q \in Seq(Message), wire' = wire \o q,
             \A n \in 1..Len(q) : q[n].type # "ticket" \/ JustDecided(q)
      PROVE  Goal
  <2>1. /\ Len(q) \in Nat
        /\ \A n \in 1..Len(wire) : n \in 1..Len(wire') /\ wire'[n] = wire[n]
        /\ \A n \in 1..Len(wire') : n > Len(wire) => n - Len(wire) \in 1..Len(q) /\ wire'[n] = q[n - Len(wire)]
    BY <1>5, GrownWire
  <2>2. CASE j <= Len(wire)
    <3>1. i \in 1..Len(wire) /\ j \in 1..Len(wire)  BY <1>0, <2>2
    <3> QED BY <2>1, <3>1
  <2>3. CASE j > Len(wire)
    <3>1. PICK n \in 1..Len(q) : n = j - Len(wire) /\ wire'[j] = q[n]  BY <2>1, <2>3
    <3>2. JustDecided(q)  BY <1>5, <3>1
    <3>3. wire'[j].req \in DOMAIN requests /\ requests[wire'[j].req].status = "pending"
      BY <3>1, <3>2 DEF JustDecided
    <3>4. CASE i <= Len(wire)
      <4>1. i \in 1..Len(wire)  BY <1>0, <3>4
      <4> QED BY <2>1, <3>3, <4>1
    <3>5. CASE i > Len(wire)
      <4>1. PICK o \in 1..Len(q) : o = i - Len(wire) /\ wire'[i] = q[o]  BY <2>1, <3>5
      <4>2. o # n  BY <1>0, <3>1, <4>1
      <4>3. wire'[i].req # wire'[j].req  BY <3>1, <3>2, <4>1, <4>2 DEF JustDecided
      <4> QED BY <3>3, <4>3
    <3>6. i <= Len(wire) \/ i > Len(wire)  BY <1>0
    <3> QED BY <3>4, <3>5, <3>6
  <2>4. j <= Len(wire) \/ j > Len(wire)  BY <1>0
  <2> QED BY <2>2, <2>3, <2>4
<1>6. CASE \E q \in Seq(News) : wire' = wire \o q /\ JustDecided(q)
  <2>1. PICK q \in Seq(News) : wire' = wire \o q /\ JustDecided(q)  BY <1>6
  <2>2. q \in Seq(Message)
    <3>1. \A n \in 1..Len(q) : q[n] \in Message  BY ElementOfSeq DEF Message
    <3>2. Len(q) \in Nat /\ q = [n \in 1..Len(q) |-> q[n]]  BY LenProperties
    <3>3. q \in [1..Len(q) -> Message]  BY <3>1, <3>2
    <3> QED BY <3>2, <3>3
  <2> QED BY <1>5, <2>1, <2>2
<1>7. CASE \E d \in Caller, v \in Verdict, x \in ReqId : RpcEvaluate(d, v, x)
  <2>1. PICK d \in Caller, v \in Verdict, x \in ReqId : RpcEvaluate(d, v, x)  BY <1>7
  <2> DEFINE q == <<Answer(d, v, x)>>
  <2>2. q \in Seq(Message) /\ Len(q) = 1 /\ q[1].type = "result"
    BY DEF Answer, Message, Plain, Pending
  <2>3. connected /\ Publish(q)  BY <2>1 DEF RpcEvaluate
  <2> HIDE DEF q
  <2>4. wire' = wire \o q  BY <2>3 DEF Publish
  <2>5. \A n \in 1..Len(q) : q[n].type # "ticket"  BY <2>2
  <2> QED BY <1>5, <2>2, <2>4, <2>5
<1> HIDE DEF Goal
<1> QED BY <1>1, <1>2, <1>3, <1>4, <1>6, <1>7, WireKinds

\* A ticket that is left on the wire is not of the request whose ticket was just
\* handled, and is one of a request for which nothing was opened.
LEMMA OnceIsKept == OnceInv /\ [Next]_vars => OnceInv'
<1> SUFFICES ASSUME OnceInv, [Next]_vars PROVE OnceInv'  OBVIOUS
<1>0. /\ TypeInv /\ TruthInv' /\ RowsKeep /\ wire \in Seq(Message) /\ Len(wire) \in Nat
      /\ wire' \in Seq(Message) /\ Len(wire') \in Nat
      /\ \A r \in DOMAIN requests : requests[r].status # "pending" => requests'[r].status = requests[r].status
  <2>1. TypeInv /\ TypeInv' /\ TruthInv' /\ wire \in Seq(Message) /\ wire' \in Seq(Message)
    BY TypesAreKept, TruthIsKept DEF OnceInv, TruthInv, TypeInv, WireTypes
  <2> QED BY <2>1, RowsMove, LenProperties
<1>1. ASSUME NEW i \in 1..Len(wire), wire[i].type = "ticket"
      PROVE  /\ wire[i].req \in DOMAIN requests /\ requests[wire[i].req].status = "approved"
             /\ \A o \in opened : o[1] # wire[i].req
  <2>1. wire[i] \in News  BY <1>0, <1>1, ElementOfSeq, MessageKinds
  <2> QED BY <1>1, <2>1 DEF OnceInv, TruthInv, NewsTrue, TicketsFresh
<1>2. ASSUME NEW i \in 1..Len(wire'), NEW j \in 1..Len(wire'), i < j,
             wire'[i].type = "ticket", wire'[j].type = "ticket"
      PROVE  wire'[i].req # wire'[j].req
  <2>1. CASE \E k, m \in 1..Len(wire) : k < m /\ wire'[i] = wire[k] /\ wire'[j] = wire[m]
    <3>1. PICK k, m \in 1..Len(wire) : k < m /\ wire'[i] = wire[k] /\ wire'[j] = wire[m]  BY <2>1
    <3>2. k # m  BY <3>1
    <3> QED BY <1>2, <3>1, <3>2 DEF OnceInv, TicketsOnce
  <2>2. CASE /\ wire'[j].req \in DOMAIN requests /\ requests[wire'[j].req].status = "pending"
             /\ \E k \in 1..Len(wire) : wire'[i] = wire[k]
    <3>1. PICK k \in 1..Len(wire) : wire'[i] = wire[k]  BY <2>2
    <3>2. requests[wire'[i].req].status = "approved"  BY <1>1, <1>2, <3>1
    <3> QED BY <2>2, <3>2
  <2> QED BY <1>0, <1>2, <2>1, <2>2, TicketsMove
<1>3. TicketsOnce'
  <2> SUFFICES ASSUME NEW i \in 1..Len(wire'), NEW j \in 1..Len(wire'), i # j,
                      wire'[i].type = "ticket", wire'[j].type = "ticket"
               PROVE  wire'[i].req # wire'[j].req
    BY DEF TicketsOnce
  <2>1. i < j \/ j < i  BY <1>0
  <2> QED BY <1>2, <2>1
<1>4. CASE opened' = opened
  <2>1. OnceForEach' /\ OpenedApproved'
    BY <1>0, <1>4 DEF OnceInv, OnceForEach, OpenedApproved, RowsKeep
  <2>2. TicketsFresh'
    <3> SUFFICES ASSUME NEW i \in 1..Len(wire'), wire'[i].type = "ticket", NEW o \in opened
                 PROVE  o[1] # wire'[i].req
      BY <1>4 DEF TicketsFresh
    <3>1. o[1] \in DOMAIN requests /\ requests[o[1]].status = "approved"  BY DEF OnceInv, OpenedApproved
    <3>2. CASE \E k \in 1..Len(wire) : wire'[i] = wire[k]  BY <1>1, <3>2
    <3>3. ASSUME NEW d, NEW v, NEW r, wire'[i] = Answer(d, v, r) PROVE FALSE
      BY <3>3 DEF Answer
    <3>4. CASE \E ids \in SUBSET ReqId, v \in {"approve", "deny"} : \E a \in ActionsOf(v) :
                 DecideAll(ids, v, a) /\ wire'[i].req \in Decidable(ids)
                 /\ wire'[i] = Announcement(v, wire'[i].req)
      BY <3>1, <3>4 DEF Decidable
    <3> QED BY <1>0, <3>2, <3>3, <3>4, WireMoves
  <2> QED BY <1>0, <1>3, <2>1, <2>2 DEF OnceInv
<1>5. CASE opened' # opened
  <2>1. /\ wire # <<>> /\ Head(wire).type = "ticket" /\ ReceiveTicket /\ requests' = requests
        /\ opened \subseteq opened' /\ \A o \in opened' : o \in opened \/ o[1] = Head(wire).req
    BY <1>0, <1>5, OpenedMoves
  <2>2. Taken  BY <2>1 DEF ReceiveTicket
  <2>3. /\ Head(wire) = wire[1] /\ 1 \in 1..Len(wire)
        /\ \A n \in 1..Len(wire') : wire'[n] = wire[n + 1] /\ n + 1 \in 1..Len(wire)
    BY <1>0, <2>1, <2>2, TakenIs
  <2>4. PICK r : r = Head(wire).req  OBVIOUS
  <2>5. r \in DOMAIN requests /\ requests[r].status = "approved" /\ \A o \in opened : o[1] # r
    BY <1>1, <2>1, <2>3, <2>4
  <2>6. TicketsFresh'
    <3> SUFFICES ASSUME NEW n \in 1..Len(wire'), wire'[n].type = "ticket", NEW o \in opened'
                 PROVE  o[1] # wire'[n].req
      BY DEF TicketsFresh
    <3>1. wire'[n] = wire[n + 1] /\ n + 1 \in 1..Len(wire) /\ n + 1 # 1  BY <1>0, <2>3
    <3>2. wire'[n].req # r  BY <2>1, <2>3, <2>4, <3>1 DEF OnceInv, TicketsOnce
    <3> QED BY <1>1, <2>1, <2>4, <3>1, <3>2
  <2>7. OpenedApproved'  BY <2>1, <2>4, <2>5 DEF OnceInv, OpenedApproved
  <2>8. OnceForEach'
    <3>1. CASE \E started \in SUBSET Caller : opened' = opened \cup WaitersStarts(r, started)
      <4>1. PICK started \in SUBSET Caller : opened' = opened \cup WaitersStarts(r, started)  BY <3>1
      <4>2. \A o \in WaitersStarts(r, started) :
              \E c \in Caller : o = <<r, NameOf[caller[c].file], c>> /\ o[1] = r /\ o[3] = c /\ o[3] # "nobody"
        BY ApprovalAssumption DEF WaitersStarts, ApprovalAssumption
      <4>3. ASSUME NEW o \in opened', NEW q \in opened', o[1] = q[1], o # q
            PROVE  o[3] # q[3] /\ "nobody" \notin {o[3], q[3]}
        <5>1. (o \in opened /\ q \in opened) \/ (o \in WaitersStarts(r, started) /\ q \in WaitersStarts(r, started))
          BY <2>5, <4>1, <4>2, <4>3
        <5>2. CASE o \in opened /\ q \in opened  BY <4>3, <5>2 DEF OnceInv, OnceForEach
        <5>3. CASE o \in WaitersStarts(r, started) /\ q \in WaitersStarts(r, started)
          <6>1. o[3] # q[3]  BY <4>2, <4>3, <5>3
          <6> QED BY <4>2, <5>3, <6>1
        <5> QED BY <5>1, <5>2, <5>3
      <4> QED BY <4>3 DEF OnceForEach
    <3>2. CASE opened' = opened \cup {<<r, jobs[r], "nobody">>}
      <4>1. ASSUME NEW o \in opened', NEW q \in opened', o[1] = q[1], o # q
            PROVE  o[3] # q[3] /\ "nobody" \notin {o[3], q[3]}
        <5>1. o \in opened /\ q \in opened  BY <2>5, <3>2, <4>1
        <5> QED BY <4>1, <5>1 DEF OnceInv, OnceForEach
      <4> QED BY <4>1 DEF OnceForEach
    <3> QED BY <1>0, <1>5, <2>4, <3>1, <3>2, OpenedHow
  <2> QED BY <1>0, <1>3, <2>6, <2>7, <2>8 DEF OnceInv
<1> QED BY <1>4, <1>5

LEMMA OnceAtFirst == Init => OnceInv
<1> SUFFICES ASSUME Init PROVE OnceInv  OBVIOUS
<1>1. Len(wire) = 0 /\ opened = {}  BY EmptySeq DEF Init
<1> QED BY <1>1, TruthAtFirst DEF OnceInv, TicketsOnce, TicketsFresh, OpenedApproved, OnceForEach

(* The promise, by the mapping of Promise: the rows' status, the starts of  *)
(* each request.                                                            *)

StatusMap == [r \in ReqId |-> IF r \in DOMAIN requests THEN requests[r].status ELSE "none"]
OpenedMap == [r \in ReqId |-> {<<o[2], o[3]>> : o \in {x \in opened : x[1] = r}}]

LEMMA PromiseAtFirst == Init => Promise!Init
BY DEF Init, Promise!Init

LEMMA PromiseStep == OnceInv /\ [Next]_vars => [Promise!Next]_(Promise!promiseVars)
<1> SUFFICES ASSUME OnceInv, [Next]_vars
             PROVE  Promise!Next \/ (StatusMap' = StatusMap /\ OpenedMap' = OpenedMap)
  BY DEF Promise!promiseVars, StatusMap, OpenedMap
<1>0. TypeInv /\ ServerTypeOK /\ TypeInv'  BY TypesAreKept DEF OnceInv, TruthInv, TypeInv, TypeOK
<1>1. CASE opened' # opened
  <2>1. /\ wire # <<>> /\ Head(wire).type = "ticket" /\ ReceiveTicket /\ requests' = requests
        /\ opened \subseteq opened'
        /\ \A o \in opened' : o \in opened \/ o[1] = Head(wire).req
    BY <1>0, <1>1, OpenedMoves
  <2>2. Taken  BY <2>1 DEF ReceiveTicket
  <2>3. Head(wire) = wire[1] /\ wire[1] \in Message /\ 1 \in 1..Len(wire)  BY <1>0, <2>1, <2>2, TakenIs
  <2>4. wire[1] \in News /\ wire[1].req \in ReqId  BY <2>1, <2>3, MessageKinds
  <2>5. PICK r \in ReqId : r = wire[1].req  BY <2>4
  <2>6. r \in DOMAIN requests /\ requests[r].status = "approved"
    BY <2>1, <2>3, <2>4, <2>5 DEF OnceInv, TruthInv, NewsTrue
  <2>7. /\ OpenedMap[r] = {} /\ OpenedMap'[r] # {}
        /\ OpenedMap'[r] \subseteq Name \X (Caller \cup {"nobody"})
        /\ \A x \in ReqId \ {r} : OpenedMap'[x] = OpenedMap[x]
    <3>1. PICK o \in opened' : o \notin opened  BY <1>1, <2>1
    <3>2. o[1] = r  BY <2>1, <2>3, <2>5, <3>1
    <3>3. \A x \in opened : x[1] # r  BY <2>1, <2>3, <2>5 DEF OnceInv, TicketsFresh
    <3>4. OpenedMap[r] = {}  BY <3>3 DEF OpenedMap
    <3>5. <<o[2], o[3]>> \in OpenedMap'[r]  BY <3>2 DEF OpenedMap
    <3>6. opened' \subseteq ReqId \X Name \X (Caller \cup {"nobody"})  BY <1>0 DEF TypeInv, TypeOK
    <3>7. OpenedMap'[r] \subseteq Name \X (Caller \cup {"nobody"})  BY <3>6 DEF OpenedMap
    <3>8. ASSUME NEW x \in ReqId, x # r PROVE OpenedMap'[x] = OpenedMap[x]
      <4>1. {y \in opened' : y[1] = x} = {y \in opened : y[1] = x}  BY <2>1, <2>3, <2>5, <3>8
      <4> QED BY <4>1 DEF OpenedMap
    <3> QED BY <3>4, <3>5, <3>7, <3>8
  <2>8. StatusMap[r] = "approved" /\ StatusMap' = StatusMap  BY <2>1, <2>6 DEF StatusMap
  <2>9. OpenedMap' = [OpenedMap EXCEPT ![r] = OpenedMap'[r]]
    <3>1. PICK before : before = OpenedMap  OBVIOUS
    <3>2. PICK after : after = OpenedMap'  OBVIOUS
    <3>3. DOMAIN before = ReqId /\ DOMAIN after = ReqId  BY <3>1, <3>2 DEF OpenedMap
    <3>4. before = [x \in ReqId |-> before[x]] /\ after = [x \in ReqId |-> after[x]]
      BY <3>1, <3>2 DEF OpenedMap
    <3> HIDE DEF OpenedMap
    <3>5. \A x \in ReqId \ {r} : after[x] = before[x]  BY <2>7, <3>1, <3>2
    <3>6. after = [before EXCEPT ![r] = after[r]]  BY <3>3, <3>4, <3>5
    <3> QED BY <3>1, <3>2, <3>6
  <2>10. Promise!Open(r)  BY <2>7, <2>8, <2>9 DEF Promise!Open, StatusMap, OpenedMap
  <2> QED BY <2>10 DEF Promise!Next
<1>2. CASE opened' = opened
  <2>0. OpenedMap' = OpenedMap  BY <1>2 DEF OpenedMap
  <2>1. ASSUME requests' = requests PROVE StatusMap' = StatusMap  BY <2>1 DEF StatusMap
  <2>2. CASE \E u \in User, p \in File, v \in Verdict, r \in ReqId : EvaluateForDevice(u, p, v, r)
    <3>1. PICK u \in User, p \in File, v \in Verdict, r \in ReqId : EvaluateForDevice(u, p, v, r)  BY <2>2
    <3>2. CASE requests' = requests  BY <2>0, <2>1, <3>2
    <3>3. CASE requests' # requests
      <4>1. /\ r \notin DOMAIN requests /\ DOMAIN requests' = DOMAIN requests \cup {r}
            /\ \A x \in DOMAIN requests : requests'[x] = requests[x]
            /\ requests'[r].status \in {"pending", "denied"}
        BY <1>0, <3>1, <3>3, Asked
      <4>2. PICK s \in {"pending", "denied"} : s = requests'[r].status  BY <4>1
      <4>3. StatusMap[r] = "none"  BY <4>1 DEF StatusMap
      <4>4. StatusMap' = [StatusMap EXCEPT ![r] = s]  BY <4>1, <4>2 DEF StatusMap
      <4>5. Promise!Ask(r)  BY <2>0, <4>3, <4>4 DEF Promise!Ask, StatusMap, OpenedMap
      <4> QED BY <4>5 DEF Promise!Next
    <3> QED BY <3>2, <3>3
  <2>3. CASE \E ids \in SUBSET ReqId, v \in {"approve", "deny"} : \E a \in ActionsOf(v) : DecideAll(ids, v, a)
    <3>1. PICK ids \in SUBSET ReqId, v \in {"approve", "deny"} : \E a \in ActionsOf(v) : DecideAll(ids, v, a)
      BY <2>3
    <3>2. RowsDecided(ids, v)  BY <1>0, <3>1, Decided
    <3>3. PICK mine \in SUBSET ReqId : mine = Decidable(ids)  BY DEF Decidable
    <3>4. PICK s \in {"approved", "denied"} : s = StatusOf(v)  BY DEF StatusOf
    <3>5. /\ DOMAIN requests' = DOMAIN requests
          /\ \A x \in mine : requests[x].status = "pending" /\ x \in DOMAIN requests /\ requests'[x].status = s
          /\ \A x \in DOMAIN requests \ mine : requests'[x] = requests[x]
      BY <3>2, <3>3, <3>4 DEF RowsDecided
    <3>6. \A x \in mine : StatusMap[x] = "pending"  BY <3>5 DEF StatusMap
    <3>7. StatusMap' = [x \in ReqId |-> IF x \in mine THEN s ELSE StatusMap[x]]  BY <3>5 DEF StatusMap
    <3>8. Promise!Decide(mine, s)  BY <2>0, <3>6, <3>7 DEF Promise!Decide, StatusMap, OpenedMap
    <3> QED BY <3>8 DEF Promise!Next
  <2> QED BY <1>0, <2>0, <2>1, <2>2, <2>3, WhoWrites
<1> QED BY <1>1, <1>2

-----------------------------------------------------------------------------
(* A call and what is left of it. CallsEnd is the liveness of a call; that *)
(* nobody ever sets one back is its safety half.                           *)

\* The steps a call may have before it at most.
Left(step) ==
  CASE step = "rpc" -> 4
    [] step \in {"waiting", "http"} -> 3
    [] step = "timed-out" -> 2
    [] step = "unregistered" -> 1
    [] step = "idle" -> 0

\* A call stays where it stands, goes nearer its end or has ended; meanwhile it is
\* of the same user and about the same file.
GoesOn(x, y) ==
  /\ y.step # x.step => Left(y.step) < Left(x.step)
  /\ y # Idle => y.user = x.user /\ y.file = x.file

LEMMA StepsLeft ==
  /\ Left("rpc") = 4 /\ Left("waiting") = 3 /\ Left("http") = 3
  /\ Left("timed-out") = 2 /\ Left("unregistered") = 1 /\ Left("idle") = 0
BY DEF Left

LEMMA EndingGoesOn ==
  ASSUME NEW x \in Asking \cup Holding
  PROVE  GoesOn(x, Idle)
<1>1. x.step \in {"rpc", "http", "waiting", "timed-out", "unregistered"}  BY DEF Asking, Holding
<1> QED BY <1>1, StepsLeft DEF GoesOn, Idle

LEMMA UnlinkingGoesOn ==
  ASSUME NEW x \in Holding
  PROVE  GoesOn(x, [x EXCEPT !.linked = FALSE])
BY DEF GoesOn, Holding

\* The steps of a handler itself: its answer, its timers and its cleaning up.
LEMMA MovingGoesOn ==
  ASSUME NEW x \in Asking \cup Holding, NEW y \in Asking \cup Holding,
         y.user = x.user, y.file = x.file,
         <<x.step, y.step>> \in {<<"rpc", "http">>, <<"rpc", "waiting">>, <<"http", "unregistered">>,
                                <<"waiting", "timed-out">>, <<"timed-out", "unregistered">>}
  PROVE  GoesOn(x, y)
<1>1. Left(y.step) < Left(x.step)  BY StepsLeft
<1> QED BY <1>1 DEF GoesOn

LEMMA CompletingGoesOn ==
  ASSUME TypeInv, NEW r, Complete(r), NEW c \in Caller, caller[c] # Idle
  PROVE  GoesOn(caller[c], caller'[c])
<1>0. caller[c] \in Asking \cup Holding  BY DEF TypeInv, TypeOK
<1>1. caller'[c] = IF c \notin InTable(r) THEN caller[c]
        ELSE IF caller[c].step = "waiting" THEN Idle ELSE [caller[c] EXCEPT !.linked = FALSE]
  BY DEF Complete
<1>2. CASE caller'[c] = caller[c]  BY <1>2 DEF GoesOn
<1>3. CASE caller'[c] = Idle  BY <1>0, <1>3, EndingGoesOn
<1>4. CASE c \in InTable(r) /\ caller'[c] = [caller[c] EXCEPT !.linked = FALSE]
  BY <1>4, InTableIs, UnlinkingGoesOn
<1> QED BY <1>1, <1>2, <1>3, <1>4

LEMMA CallGoesOn ==
  ASSUME TypeInv, [Next]_vars, NEW c \in Caller, caller[c] # Idle
  PROVE  GoesOn(caller[c], caller'[c])
<1> DEFINE Goal == GoesOn(caller[c], caller'[c])
<1> SUFFICES Goal  OBVIOUS
<1>0. /\ caller \in [Caller -> {Idle} \cup Asking \cup Holding]
      /\ caller[c] \in Asking \cup Holding
  BY DEF TypeInv, TypeOK
<1>1. ASSUME caller'[c] = caller[c] PROVE Goal  BY <1>1 DEF GoesOn
<1>2. ASSUME caller'[c] = Idle PROVE Goal  BY <1>0, <1>2, EndingGoesOn
<1>3. CASE Disconnect
  <2>0. caller'[c] = CASE caller[c].step = "rpc" -> [caller[c] EXCEPT !.step = "http"]
           [] caller[c].step \in {"waiting", "timed-out"} -> [caller[c] EXCEPT !.linked = FALSE]
           [] OTHER -> caller[c]
    BY <1>3 DEF Disconnect, FailPending
  <2>1. CASE caller[c].step = "rpc"
    <3>1. caller'[c] = [caller[c] EXCEPT !.step = "http"]  BY <2>0, <2>1
    <3>2. caller[c] \in Asking  BY <1>0, <2>1, CallerKinds
    <3>3. caller'[c] \in Asking /\ caller'[c].step = "http"
          /\ caller'[c].user = caller[c].user /\ caller'[c].file = caller[c].file
      BY <3>1, <3>2 DEF Asking
    <3> QED BY <2>1, <3>2, <3>3, MovingGoesOn
  <2>2. CASE caller[c].step \in {"waiting", "timed-out"}
    <3>1. caller'[c] = [caller[c] EXCEPT !.linked = FALSE]  BY <2>0, <2>2
    <3>2. caller[c] \in Holding  BY <1>0, <2>2, CallerKinds
    <3> QED BY <3>1, <3>2, UnlinkingGoesOn
  <2>3. CASE caller[c].step \notin {"rpc", "waiting", "timed-out"}
    <3>1. caller'[c] = caller[c]  BY <2>0, <2>3
    <3> QED BY <1>1, <3>1
  <2> QED BY <2>1, <2>2, <2>3
<1>4. CASE Crash  BY <1>2, <1>4 DEF Crash
<1>5. CASE ReceiveResult
  <2> DEFINE e == Head(wire).to
             x == IF "req" \in DOMAIN Head(wire) THEN Held("waiting", e, Head(wire).req, TRUE) ELSE Idle
  <2>1. caller' = [caller EXCEPT ![e] = x]  BY <1>5 DEF ReceiveResult
  <2>2. CASE e # c  BY <1>0, <1>1, <2>1, <2>2
  <2>3. CASE e = c
    <3>1. caller'[c] = x  BY <1>0, <2>1, <2>3
    <3>2. Head(wire) = wire[1] /\ Head(wire) \in Message /\ 1 \in 1..Len(wire) /\ Head(wire).type = "result"
      BY <1>5, TakenIs DEF ReceiveResult, Arriving
    <3>3. caller[c].step = "rpc"  BY <2>3, <3>2 DEF TypeInv, WireTypes
    <3>4. caller[c] \in Asking  BY <1>0, <3>3, CallerKinds
    <3>5. CASE "req" \in DOMAIN Head(wire)
      <4>1. Head(wire).req \in ReqId  BY <3>2, <3>5, MessageKinds
      <4>2. caller'[c] = Held("waiting", c, Head(wire).req, TRUE)  BY <2>3, <3>1, <3>5
      <4>3. caller'[c] \in Holding /\ caller'[c].step = "waiting"
            /\ caller'[c].user = caller[c].user /\ caller'[c].file = caller[c].file
        BY <3>4, <4>1, <4>2 DEF Held, Holding, Asking
      <4> QED BY <3>3, <3>4, <4>3, MovingGoesOn
    <3>6. CASE "req" \notin DOMAIN Head(wire)
      <4>1. caller'[c] = Idle  BY <3>1, <3>6
      <4> QED BY <1>2, <4>1
    <3> QED BY <3>5, <3>6
  <2> QED BY <2>2, <2>3
<1>6. CASE ReceiveTicket
  <2> DEFINE r == Head(wire).req
  <2>1. Complete(r) \/ caller' = caller
    BY <1>6 DEF ReceiveTicket, TicketToWaiters, TicketToJob, TicketDropped, agentVars
  <2> HIDE DEF r
  <2> QED BY <1>1, <2>1, CompletingGoesOn
<1>7. CASE ReceiveDenial  BY <1>7, CompletingGoesOn DEF ReceiveDenial
<1>8. ASSUME NEW d \in Caller, NEW u \in User, NEW p \in File, Ask(d, u, p) PROVE Goal
  <2>1. d # c  BY <1>8 DEF Ask
  <2>2. caller'[c] = caller[c]  BY <1>0, <1>8, <2>1 DEF Ask
  <2> QED BY <1>1, <2>2
<1>9. ASSUME NEW d \in Caller, RpcFails(d) \/ WaitTimesOut(d) PROVE Goal
  <2>1. PICK step \in {"http", "timed-out"} :
          /\ caller' = [caller EXCEPT ![d].step = step]
          /\ <<caller[d].step, step>> \in {<<"rpc", "http">>, <<"waiting", "timed-out">>}
    BY <1>9 DEF RpcFails, WaitTimesOut
  <2>2. CASE d # c
    <3>1. caller'[c] = caller[c]  BY <1>0, <2>1, <2>2
    <3> QED BY <1>1, <3>1
  <2>3. CASE d = c
    <3>1. caller'[c] = [caller[c] EXCEPT !.step = step]  BY <1>0, <2>1, <2>3
    <3>2. caller[c] \in IF step = "http" THEN Asking ELSE Holding  BY <1>0, <2>1, <2>3, CallerKinds
    <3>3. caller'[c] \in Asking \cup Holding /\ caller'[c].step = step
          /\ caller'[c].user = caller[c].user /\ caller'[c].file = caller[c].file
      BY <3>1, <3>2 DEF Asking, Holding
    <3> QED BY <1>0, <2>1, <2>3, <3>3, MovingGoesOn
  <2> QED BY <2>2, <2>3
<1>10. ASSUME NEW d \in Caller, HttpGivesUp(d) \/ Register(d) PROVE Goal
  <2>1. caller' = [caller EXCEPT ![d] = Idle]  BY <1>10 DEF HttpGivesUp, Register
  <2>2. caller'[c] \in {caller[c], Idle}  BY <1>0, <2>1
  <2> QED BY <1>1, <1>2, <2>2
<1>11. ASSUME NEW d \in Caller, RemoveWaiter(d) PROVE Goal
  <2>1. caller[d].step = "timed-out"
        /\ caller'[c] = IF c = d THEN [caller[d] EXCEPT !.step = "unregistered", !.linked = FALSE]
                        ELSE IF c \in InTable(caller[d].req) THEN [caller[c] EXCEPT !.linked = FALSE]
                        ELSE caller[c]
    BY <1>11 DEF RemoveWaiter
  <2>2. CASE c = d
    <3>1. caller[c] \in Holding  BY <1>0, <2>1, <2>2, CallerKinds
    <3>2. caller'[c] = [caller[c] EXCEPT !.step = "unregistered", !.linked = FALSE]  BY <2>1, <2>2
    <3>3. caller'[c] \in Holding /\ caller'[c].step = "unregistered"
          /\ caller'[c].user = caller[c].user /\ caller'[c].file = caller[c].file
      BY <3>1, <3>2 DEF Holding
    <3> QED BY <2>1, <2>2, <3>1, <3>3, MovingGoesOn
  <2>3. CASE c # d /\ c \in InTable(caller[d].req)
    <3>1. caller'[c] = [caller[c] EXCEPT !.linked = FALSE]  BY <2>1, <2>3
    <3> QED BY <2>3, <3>1, InTableIs, UnlinkingGoesOn
  <2>4. CASE c # d /\ c \notin InTable(caller[d].req)
    <3>1. caller'[c] = caller[c]  BY <2>1, <2>4
    <3> QED BY <1>1, <3>1
  <2> QED BY <2>2, <2>3, <2>4
<1>12. ASSUME NEW d \in Caller, NEW v \in Verdict, NEW r \in ReqId, HttpEvaluate(d, v, r) PROVE Goal
  <2> DEFINE x == IF v = "pending" THEN Held("unregistered", d, r, FALSE) ELSE Idle
  <2>1. caller' = [caller EXCEPT ![d] = x] /\ caller[d].step = "http"  BY <1>12 DEF HttpEvaluate
  <2>2. CASE d # c  BY <1>0, <1>1, <2>1, <2>2
  <2>3. CASE d = c /\ v = "pending"
    <3>1. caller'[c] = Held("unregistered", c, r, FALSE)  BY <1>0, <2>1, <2>3
    <3>2. caller[c] \in Asking  BY <1>0, <2>1, <2>3, CallerKinds
    <3>3. caller'[c] \in Holding /\ caller'[c].step = "unregistered"
          /\ caller'[c].user = caller[c].user /\ caller'[c].file = caller[c].file
      BY <3>1, <3>2 DEF Held, Holding, Asking
    <3> QED BY <2>1, <2>3, <3>2, <3>3, MovingGoesOn
  <2>4. CASE d = c /\ v # "pending"
    <3>1. caller'[c] = Idle  BY <1>0, <2>1, <2>4
    <3> QED BY <1>2, <3>1
  <2> QED BY <2>2, <2>3, <2>4
<1>13. CASE \/ Connect \/ UNCHANGED agentVars \/ UNCHANGED vars
            \/ \E d \in Caller, v \in Verdict, r \in ReqId : RpcEvaluate(d, v, r)
            \/ \E d \in Caller, v \in Verdict, r \in ReqId : HttpAnswerLost(d, v, r)
  <2>1. caller' = caller  BY <1>13 DEF Connect, RpcEvaluate, HttpAnswerLost, vars, agentVars
  <2> QED BY <1>1, <2>1
<1> HIDE DEF Goal
<1>14. CASE \E d \in Caller, u \in User, p \in File : Ask(d, u, p)  BY <1>8, <1>14
<1>15. CASE \E d \in Caller : RpcFails(d)  BY <1>9, <1>15
<1>16. CASE \E d \in Caller : WaitTimesOut(d)  BY <1>9, <1>16
<1>17. CASE \E d \in Caller : HttpGivesUp(d)  BY <1>10, <1>17
<1>18. CASE \E d \in Caller : Register(d)  BY <1>10, <1>18
<1>19. CASE \E d \in Caller : RemoveWaiter(d)  BY <1>11, <1>19
<1>20. CASE \E d \in Caller, v \in Verdict, r \in ReqId : HttpEvaluate(d, v, r)  BY <1>12, <1>20
<1> QED
  BY <1>3, <1>4, <1>5, <1>6, <1>7, <1>13, <1>14, <1>15, <1>16, <1>17, <1>18, <1>19, <1>20, Steps

-----------------------------------------------------------------------------
(* Theorems.                                                               *)

\* Rows, handlers, jobs and started programs are of their types: a reply that is
\* taken off the wire always finds the handler that asked.
THEOREM ApprovalTyping == Spec => []TypeOK
<1>1. TypeInv => TypeOK  BY DEF TypeInv
<1> QED BY <1>1, TypesHoldAtFirst, TypesAreKept, PTL DEF Spec

\* insertRequest: an open question is one row, however many handlers ask it and by
\* whichever way.
THEOREM QuestionsAreOneRow == Spec => []OnePending
<1>1. LedgerInv => OnePending  BY DEF LedgerInv, Ledger
<1> QED BY <1>1, LedgerHoldsAtFirst, LedgerIsKept, PTL DEF Spec

\* Over the single and the batch routes, the audit log and the row agree.
THEOREM DecisionsAreAudited == Spec => []DecisionAudited
<1>1. LedgerInv => DecisionAudited  BY DEF LedgerInv, Ledger
<1> QED BY <1>1, LedgerHoldsAtFirst, LedgerIsKept, PTL DEF Spec

\* The file of a waiter had, when it was asked about, the hash the row has; so had
\* one found under the path of a remembered job and of every start, and a waiter's
\* start is of the row's own path. Of the bytes at the moment of the start nothing is
\* said: they are hashed when the question is asked and not again.
THEOREM ProgramsWereTheSame == Spec => []SameWhenAsked
<1> QED BY StandingAtFirst, StandingIsKept, StandingIsSameWhenAsked, PTL DEF Spec

\* What it takes for a start to be of the very bytes that were approved: no file that
\* is asked about is ever replaced under its path.
NeverReplaced == \A f, g \in File : NameOf[f] = NameOf[g] => HashOf[f] = HashOf[g]

UnreplacedStart ==
  \A o \in opened : \A f \in File :
    NameOf[f] = o[2] => HashOf[f] = HashOf[requests[o[1]].file]

\* Then whatever is found under the path of a start is what the row names, jobs
\* that nothing is compared for included.
THEOREM UnreplacedProgramsAreTheSame ==
  ASSUME NeverReplaced
  PROVE  Spec => []UnreplacedStart
<1>1. StandInv => UnreplacedStart
  BY DEF StandInv, OpenedStand, FoundUnder, Stands, NeverReplaced, UnreplacedStart
<1> QED BY <1>1, StandingAtFirst, StandingIsKept, PTL DEF Spec

\* A handler in the table of waiters has its decision to come, or ahead on the wire.
THEOREM WaitersWillHear == Spec => []WaiterWillHear
<1> QED BY HearingAtFirst, HearingIsKept, HearingIsWaiterWillHear, PTL DEF Spec

\* An approval starts the program once for each handler that waited, or for the job:
\* no ticket comes twice, and none opens for a handler and for the job.
THEOREM OpenedOnceForEach == Spec => []OnceForEach
<1>1. OnceInv => OnceForEach  BY DEF OnceInv
<1> QED BY <1>1, OnceAtFirst, OnceIsKept, PTL DEF Spec

\* What docs/SPEC.md calls one-shot holds while the broker serves one call at a time:
\* two starts on one approval are of two handlers that waited for it together.
THEOREM OneShotForOneHandler ==
  ASSUME \A c, d \in Caller : c = d
  PROVE  Spec => []OneShot
<1>1. OnceInv => OneShot
  <2> SUFFICES ASSUME OnceInv, NEW o \in opened, NEW q \in opened, o[1] = q[1], o # q PROVE FALSE
    BY DEF OneShot
  <2>1. o[3] # q[3] /\ o[3] # "nobody" /\ q[3] # "nobody"  BY DEF OnceInv, OnceForEach
  <2>2. opened \subseteq ReqId \X Name \X (Caller \cup {"nobody"})  BY DEF OnceInv, TruthInv, TypeInv, TypeOK
  <2>3. o[3] \in Caller /\ q[3] \in Caller  BY <2>1, <2>2
  <2> QED BY <2>1, <2>3
<1> QED BY <1>1, OnceAtFirst, OnceIsKept, PTL DEF Spec

\* Whatever is lost, retried or restarted: asked once, decided once, and opened only
\* once approved, at one moment.
THEOREM ApprovalIsThePromise == Spec => ImplementsPromise
<1>1. Init => Promise!Init  BY PromiseAtFirst
<1>2. OnceInv /\ [Next]_vars => [Promise!Next]_(Promise!promiseVars)  BY PromiseStep
<1> QED BY <1>1, <1>2, OnceAtFirst, OnceIsKept, PTL DEF Spec, ImplementsPromise, Promise!Spec

\* Once asked, a call only comes nearer its end, for its own user and program,
\* whatever the console, the socket and the other handlers of the PC do: a ticket,
\* a denial, a lost socket and another handler's clean-up never set it back, so it
\* is over after four moves. That each move is made is CallsEnd.
THEOREM CallsNeverGoBack ==
  Spec => [][\A c \in Caller : caller[c] # Idle => GoesOn(caller[c], caller'[c])]_vars
<1>1. TypeInv /\ [Next]_vars
        => [\A c \in Caller : caller[c] # Idle => GoesOn(caller[c], caller'[c])]_vars
  BY CallGoesOn
<1> QED BY <1>1, TypesHoldAtFirst, TypesAreKept, PTL DEF Spec
===============================================================================
