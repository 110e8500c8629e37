---------------------------- MODULE RequestServer ----------------------------
(***************************************************************************)
(* The console's half of an elevation request: the requests table          *)
(* (src/lib/db/requests.ts), the verdict on a program                      *)
(* (evaluateForDevice, src/lib/evaluate.ts), the three routes that decide  *)
(* (approve, deny, batch) and what they put on the device's socket.        *)
(*                                                                         *)
(* One PC: the rows of another never meet these. The policy is any at any  *)
(* moment, so a program's verdict is a free choice. Every handler is       *)
(* synchronous once its body is parsed, hence one action each.             *)
(***************************************************************************)
EXTENDS Integers, Sequences, FiniteSets, SequencesExt

CONSTANTS
  User,      \* directory rows
  File,      \* files a user may ask to open, each as it is found when it is hashed
  NameOf,    \* its path
  HashOf,    \* what it holds then: a program copied elsewhere is one hash under two
             \* paths, a file replaced between two questions two hashes under one
  ReqId,     \* ids randomUUID may return
  MaxWire    \* BOUND: undelivered messages on the socket

ASSUME RequestServerAssumption ==
  /\ IsFiniteSet(ReqId)
  /\ DOMAIN NameOf = File /\ DOMAIN HashOf = File
  /\ MaxWire \in Nat

VARIABLES
  requests,   \* the table, keyed by id
  decisions,  \* audit entries about decisions: <<action, id>>
  connected,  \* the PC's socket is in the hub and ready
  wire        \* messages sent to the PC and not yet handled

serverVars == <<requests, decisions, connected, wire>>

Name == {NameOf[f] : f \in File}
Status == {"pending", "approved", "denied"}
Request == [user : User, file : File, status : Status]

ApprovalActions == {"request.approve", "request.approved"}
DenialActions == {"request.deny", "request.denied"}

ServerTypeOK ==
  /\ DOMAIN requests \subseteq ReqId
  /\ \A r \in DOMAIN requests : requests[r] \in Request
  /\ decisions \subseteq (ApprovalActions \cup DenialActions) \X ReqId
  /\ connected \in BOOLEAN

-----------------------------------------------------------------------------
\* MUTANT: the row of the same question is taken whatever became of it.
SameQuestion(u, f) ==
  {r \in DOMAIN requests : requests[r].user = u /\ HashOf[requests[r].file] = HashOf[f]}

\* MUTANT: the path is compared, not the hash.
SamePendingPath(u, f) ==
  {r \in DOMAIN requests : /\ requests[r].status = "pending"
                           /\ requests[r].user = u
                           /\ NameOf[requests[r].file] = NameOf[f]}

\* MUTANT: the hash is not compared.
SamePendingUser(u, f) ==
  {r \in DOMAIN requests : requests[r].status = "pending" /\ requests[r].user = u}

\* The pending rows insertRequest takes for the same question: same user, same
\* hash, wherever the file lay when it was hashed.
SamePending(u, f) ==
  {r \in DOMAIN requests : /\ requests[r].status = "pending"
                           /\ requests[r].user = u
                           /\ HashOf[requests[r].file] = HashOf[f]}

WithRequest(r, u, f, s) ==
  [x \in DOMAIN requests \cup {r} |->
     IF x = r THEN [user |-> u, file |-> f, status |-> s] ELSE requests[x]]

\* insertRequest: r is the row that stands for the question afterwards.
InsertRequest(r, u, f, s) ==
  IF s = "pending" /\ SamePending(u, f) # {}
    THEN r \in SamePending(u, f) /\ UNCHANGED requests
    ELSE r \in ReqId \ DOMAIN requests /\ requests' = WithRequest(r, u, f, s)

\* evaluateForDevice. An allow writes no row; a deny writes one that is denied
\* already. (The request-pending message before the reply only paints the tray.)
EvaluateForDevice(u, f, verdict, r) ==
  /\ CASE verdict = "allow"   -> UNCHANGED requests
       [] verdict = "deny"    -> InsertRequest(r, u, f, "denied")
       [] verdict = "pending" -> InsertRequest(r, u, f, "pending")
  /\ UNCHANGED <<decisions, connected>>

-----------------------------------------------------------------------------
\* MUTANT: the UPDATE has no status = 'pending'.
AnyStatus(ids) == ids \cap DOMAIN requests

\* decideRequest changes a row that is pending, and no other.
Decidable(ids) == {r \in ids \cap DOMAIN requests : requests[r].status = "pending"}

StatusOf(verdict) == IF verdict = "approve" THEN "approved" ELSE "denied"

\* MUTANT: one announcement for both outcomes.
TicketAnyway(verdict, r) == [type |-> "ticket", req |-> r]

Announcement(verdict, r) ==
  [type |-> IF verdict = "approve" THEN "ticket" ELSE "request-denied", req |-> r]

Publish(msgs) == wire' = IF connected THEN wire \o msgs ELSE wire

\* Each decided row is audited and announced in the order of the ids.
DecideAll(ids, verdict, action) ==
  LET mine == Decidable(ids)
  IN  /\ mine # {}
      /\ Len(wire) < MaxWire
      /\ requests' = [r \in DOMAIN requests |->
                        IF r \in mine THEN [requests[r] EXCEPT !.status = StatusOf(verdict)]
                                      ELSE requests[r]]
      /\ decisions' = decisions \cup {<<action, r>> : r \in mine}
      /\ \E order \in SetToSeqs(mine) :
           Publish([i \in DOMAIN order |-> Announcement(verdict, order[i])])
      /\ UNCHANGED connected

\* The approve and deny routes (an id that is not pending is answered 409).
DecideOne(r, verdict) ==
  DecideAll({r}, verdict, IF verdict = "approve" THEN "request.approve" ELSE "request.deny")

\* The batch route names its audit entries after the status.
DecideBatch(ids, verdict) ==
  DecideAll(ids, verdict, IF verdict = "approve" THEN "request.approved" ELSE "request.denied")
=============================================================================
