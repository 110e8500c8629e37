---------------------------- MODULE ConsoleProofs ----------------------------
(***************************************************************************)
(* Parts of the console that share no state with each other: each safety   *)
(* property its run checks, for every value of its constants.              *)
(***************************************************************************)
EXTENDS Integers, LoginLimiter, UacPrompts, UpdatePolicy, Welcome, ListenSettings,
        ProgramRules, LiveHub, FiniteSetTheorems, WellFoundedInduction, TLAPS

(* The limiter of the sign-ins                                             *)

Buckets == [there : BOOLEAN, count : Nat, reset : Nat, blocked : Int, level : 0..MaxLevel]

\* The longer of the cool-downs of the address and of the user at it
WaitOf(buckets, name) == Larger(buckets[Address].blocked, buckets[name].blocked)

\* What the last refusal said is what the buckets still say: a tick shortens both,
\* and no other attempt has come between.
LimiterInv ==
    /\ limBuckets \in [Keys -> Buckets]
    /\ limAnswer \in [to : Keys, refused : BOOLEAN, wait : Int]
    /\ limAnswer.refused =>
          /\ limAnswer.to \in Logins
          /\ limAnswer.wait > 0 => limAnswer.wait = WaitOf(limBuckets, limAnswer.to)

\* A window that ended forgets the count of a bucket, never its cool-down.
LEMMA WindowKeepsBlock ==
    ASSUME NEW b \in Buckets
    PROVE  InWindow(b) \in Buckets /\ InWindow(b).blocked = b.blocked
BY LimitsArePositive DEF InWindow, Buckets

\* An attempt lengthens the cool-down of a bucket only by tripping it.
LEMMA AttemptBlocks ==
    ASSUME NEW b \in Buckets
    PROVE  /\ Attempted(b) \in Buckets
           /\ b.blocked > 0 \/ ~Trips(b) => Attempted(b).blocked = b.blocked
<1>. DEFINE w == InWindow(b)
            level == IF w.level < MaxLevel THEN w.level + 1 ELSE MaxLevel
<1>1. w \in Buckets /\ w.blocked = b.blocked
  BY WindowKeepsBlock
<1>. HIDE DEF w
<1>2. level \in 1..MaxLevel
  BY <1>1, LimitsArePositive DEF Buckets
<1>3. 2 ^ (level - 1) \in Int
  <2>1. level - 1 \in Nat
    BY <1>2, LimitsArePositive
  <2>2. \A n \in Nat : 2 ^ n \in Int
    BY SMT
  <2>. QED BY <2>1, <2>2
<1>4. Cooldown * 2 ^ (level - 1) \in Int
  <2>1. \A n \in Int : Cooldown * n \in Int
    BY LimitsArePositive
  <2>. QED BY <1>3, <2>1
<1>5. Attempted(b) = CASE w.blocked > 0 -> w
          [] w.blocked = 0 /\ Trips(b) ->
                [w EXCEPT !.level = level, !.blocked = Cooldown * 2 ^ (level - 1)]
          [] OTHER -> [w EXCEPT !.count = @ + 1]
  BY DEF Attempted, w
<1>6. CASE w.blocked > 0
  BY <1>1, <1>5, <1>6
<1>7. CASE w.blocked = 0 /\ Trips(b)
  <2>1. Attempted(b) = [w EXCEPT !.level = level, !.blocked = Cooldown * 2 ^ (level - 1)]
    BY <1>5, <1>7
  <2>. DEFINE block == Cooldown * 2 ^ (level - 1)
  <2>2. block \in Int /\ level \in 0..MaxLevel
    BY <1>2, <1>4, LimitsArePositive
  <2>. HIDE DEF block, level
  <2>3. [w EXCEPT !.level = level, !.blocked = block] \in Buckets
    BY <1>1, <2>2 DEF Buckets
  <2>. QED BY <1>1, <1>7, <2>1, <2>3 DEF block
<1>8. CASE ~(w.blocked > 0) /\ ~(w.blocked = 0 /\ Trips(b))
  <2>1. Attempted(b) = [w EXCEPT !.count = @ + 1]
    BY <1>5, <1>8
  <2>. QED BY <1>1, <2>1 DEF Buckets
<1>. QED BY <1>6, <1>7, <1>8

\* Pruning forgets only buckets without a cool-down.
LEMMA PrunedKeepsBlocks ==
    ASSUME NEW buckets \in [Keys -> Buckets]
    PROVE  /\ Pruned(buckets) \in [Keys -> Buckets]
           /\ \A k \in Keys : Pruned(buckets)[k].blocked = buckets[k].blocked
BY LimitsArePositive DEF Pruned, NoBucket, Buckets

\* Nobody has been refused yet.
LEMMA LimiterInvInit == LimiterInit => LimiterInv
BY LimitsArePositive DEF LimiterInit, LimiterInv, NoBucket, NoAnswer, Buckets, Keys

\* An attempt keeps the invariant, and while a refusal lasts repeats it.
LEMMA SignInKept ==
    ASSUME LimiterInv, NEW name \in Logins, NEW right \in BOOLEAN, SignIn(name, right)
    PROVE  /\ LimiterInv'
           /\ limAnswer'.to = name
           /\ WaitOf(limBuckets, name) > 0 =>
                 limAnswer'.refused /\ limAnswer'.wait = WaitOf(limBuckets, name)
<1>. DEFINE old == IF limPruned >= PruneEvery THEN Pruned(limBuckets) ELSE limBuckets
            address == [old EXCEPT ![Address] = Attempted(@)]
            both == [address EXCEPT ![name] = Attempted(@)]
            wait == WaitOf(old, name)
<1>1. Address \in Keys /\ name \in Keys /\ name # Address
  BY AddressIsNoUser DEF Keys
<1>2. old \in [Keys -> Buckets] /\ wait = WaitOf(limBuckets, name)
  BY <1>1, PrunedKeepsBlocks DEF LimiterInv, WaitOf
<1>3. \/ /\ wait > 0
         /\ limBuckets' = old /\ limAnswer' = [to |-> name, refused |-> TRUE, wait |-> wait]
      \/ /\ wait = 0 /\ limBuckets' = address
         /\ limAnswer' = [to |-> name, refused |-> TRUE, wait |-> address[Address].blocked]
      \/ /\ wait = 0 /\ ~Trips(old[Address]) /\ limBuckets' = both
         /\ limAnswer' = [to |-> name, refused |-> TRUE, wait |-> both[name].blocked]
      \/ /\ wait = 0 /\ limBuckets' \in {both, [both EXCEPT ![Address] = NoBucket, ![name] = NoBucket]}
         /\ limAnswer' = [NoAnswer EXCEPT !.to = name]
  BY DEF SignIn, WaitOf
<1>. HIDE DEF old
<1>4. /\ Attempted(old[Address]) \in Buckets /\ Attempted(old[name]) \in Buckets
      /\ ~Trips(old[Address]) => Attempted(old[Address]).blocked = old[Address].blocked
  BY <1>1, <1>2, AttemptBlocks
<1>5. /\ address \in [Keys -> Buckets] /\ both \in [Keys -> Buckets]
      /\ address[Address] = Attempted(old[Address]) /\ address[name] = old[name]
      /\ both[Address] = Attempted(old[Address]) /\ both[name] = Attempted(old[name])
  BY <1>1, <1>2, <1>4
<1>6. [both EXCEPT ![Address] = NoBucket, ![name] = NoBucket] \in [Keys -> Buckets]
  <2>1. NoBucket \in Buckets
    BY LimitsArePositive DEF NoBucket, Buckets
  <2>. QED BY <1>5, <2>1
<1>. HIDE DEF address, both
<1>7. /\ old[Address].blocked \in Int /\ old[name].blocked \in Int
      /\ address[Address].blocked \in Int /\ both[name].blocked \in Int
  BY <1>1, <1>2, <1>5 DEF Buckets
<1>8. wait = Larger(old[Address].blocked, old[name].blocked) /\ wait \in Int
  BY <1>7 DEF WaitOf, Larger
<1>. HIDE DEF wait
<1>9. limBuckets' \in [Keys -> Buckets]
  BY <1>2, <1>3, <1>5, <1>6
<1>10. /\ limAnswer' \in [to : Keys, refused : BOOLEAN, wait : Int] /\ limAnswer'.to = name
       /\ wait > 0 => limAnswer'.refused /\ limAnswer'.wait = wait
  <2>1. CASE limAnswer' = [NoAnswer EXCEPT !.to = name] /\ wait = 0
    <3>1. NoAnswer \in [to : Keys, refused : BOOLEAN, wait : Int]
      BY DEF NoAnswer, Keys
    <3>. QED BY <1>1, <2>1, <3>1
  <2>2. ASSUME NEW told \in Int, limAnswer' = [to |-> name, refused |-> TRUE, wait |-> told],
               wait > 0 => told = wait
        PROVE  /\ limAnswer' \in [to : Keys, refused : BOOLEAN, wait : Int] /\ limAnswer'.to = name
               /\ wait > 0 => limAnswer'.refused /\ limAnswer'.wait = wait
    BY <1>1, <2>2
  <2>. QED BY <1>3, <1>7, <1>8, <2>1, <2>2
<1>11. limAnswer'.refused /\ limAnswer'.wait > 0 => limAnswer'.wait = WaitOf(limBuckets', name)
  <2>1. CASE wait > 0
    BY <1>3, <1>8, <2>1 DEF WaitOf, wait
  <2>2. CASE wait = 0 /\ limBuckets' = address /\ limAnswer'.wait = address[Address].blocked
    <3>1. address[name].blocked <= 0 /\ address[name].blocked \in Int
      BY <1>5, <1>7, <1>8, <2>2 DEF Larger
    <3>. QED BY <1>7, <2>2, <3>1 DEF WaitOf, Larger
  <2>3. CASE /\ wait = 0 /\ ~Trips(old[Address]) /\ limBuckets' = both
             /\ limAnswer'.wait = both[name].blocked
    <3>1. both[Address].blocked <= 0 /\ both[Address].blocked \in Int
      BY <1>4, <1>5, <1>7, <1>8, <2>3 DEF Larger
    <3>. QED BY <1>7, <2>3, <3>1 DEF WaitOf, Larger
  <2>4. CASE limAnswer' = [NoAnswer EXCEPT !.to = name]
    BY <2>4 DEF NoAnswer
  <2>. QED BY <1>3, <1>8, <2>1, <2>2, <2>3, <2>4
<1>. QED BY <1>2, <1>9, <1>10, <1>11 DEF LimiterInv

\* A tick takes one from every cool-down and from the wait that was told.
LEMMA TickKept ==
    ASSUME LimiterInv, LimiterTick
    PROVE  /\ LimiterInv' /\ limAnswer'.refused = limAnswer.refused
           /\ limAnswer.wait > 0 => limAnswer'.wait <= limAnswer.wait
<1>1. /\ limBuckets' = [k \in Keys |->
             [limBuckets[k] EXCEPT !.reset = Before(@), !.blocked = Before(@)]]
      /\ limAnswer' = [limAnswer EXCEPT !.wait = Before(@)]
  BY DEF LimiterTick
<1>2. \A n \in Int : Before(n) \in Int /\ (n > 0 => Before(n) = n - 1 /\ Before(n) <= n)
  BY DEF Before
<1>3. \A n \in Nat : Before(n) \in Nat
  BY DEF Before
<1>4. limBuckets' \in [Keys -> Buckets]
  BY <1>1, <1>2, <1>3 DEF LimiterInv, Buckets
<1>5. /\ limAnswer' \in [to : Keys, refused : BOOLEAN, wait : Int]
      /\ limAnswer'.to = limAnswer.to /\ limAnswer'.refused = limAnswer.refused
      /\ limAnswer'.wait = Before(limAnswer.wait) /\ limAnswer.wait \in Int
  BY <1>1, <1>2 DEF LimiterInv
<1>6. ASSUME limAnswer.refused, limAnswer'.wait > 0
      PROVE  limAnswer'.wait = WaitOf(limBuckets', limAnswer'.to)
  <2>1. limAnswer.wait > 0 /\ limAnswer'.wait = limAnswer.wait - 1
    BY <1>5, <1>6 DEF Before
  <2>2. limAnswer.wait = WaitOf(limBuckets, limAnswer.to) /\ limAnswer.to \in Keys
    BY <1>6, <2>1 DEF LimiterInv
  <2>3. \A k \in Keys : /\ limBuckets'[k].blocked = Before(limBuckets[k].blocked)
                        /\ limBuckets[k].blocked \in Int
    BY <1>1 DEF LimiterInv, Buckets
  <2>4. Address \in Keys
    BY DEF Keys
  <2>. QED BY <1>5, <1>6, <2>1, <2>2, <2>3, <2>4 DEF WaitOf, Larger, Before
<1>. QED BY <1>2, <1>4, <1>5, <1>6 DEF LimiterInv

\* The sentence of RefusalHolds, of one step
RefusalKept ==
    limAnswer.refused /\ limAnswer.wait > 0 /\ limAnswer'.to = limAnswer.to
       => limAnswer'.refused /\ limAnswer'.wait <= limAnswer.wait

\* Every step keeps the invariant, and with it what was refused.
LEMMA LimiterStep ==
    LimiterInv /\ [LimiterNext]_limVars => LimiterInv' /\ RefusalKept
<1>. SUFFICES ASSUME LimiterInv, [LimiterNext]_limVars PROVE LimiterInv' /\ RefusalKept
  OBVIOUS
<1>a. limAnswer.wait \in Int
  BY DEF LimiterInv
<1>1. ASSUME NEW name \in Logins, NEW right \in BOOLEAN, SignIn(name, right)
      PROVE  LimiterInv' /\ RefusalKept
  <2>1. /\ LimiterInv' /\ limAnswer'.to = name
        /\ WaitOf(limBuckets, name) > 0 =>
              limAnswer'.refused /\ limAnswer'.wait = WaitOf(limBuckets, name)
    BY <1>1, SignInKept
  <2>2. limAnswer.refused /\ limAnswer.wait > 0 =>
           limAnswer.wait = WaitOf(limBuckets, limAnswer.to)
    BY DEF LimiterInv
  <2>. QED BY <1>a, <2>1, <2>2 DEF RefusalKept
<1>2. CASE DeviceAsks \/ UNCHANGED limVars
  BY <1>a, <1>2 DEF DeviceAsks, limVars, LimiterInv, RefusalKept
<1>3. CASE LimiterRestarts
  <2>1. LimiterInv'
    BY <1>3, LimitsArePositive DEF LimiterRestarts, LimiterInv, NoBucket, NoAnswer, Buckets, Keys
  <2>2. limAnswer.refused => limAnswer'.to # limAnswer.to
    BY <1>3, AddressIsNoUser DEF LimiterRestarts, LimiterInv, NoAnswer
  <2>. QED BY <2>1, <2>2 DEF RefusalKept
<1>4. CASE LimiterTick
  BY <1>4, TickKept DEF RefusalKept
<1>. QED BY <1>1, <1>2, <1>3, <1>4 DEF LimiterNext

\* RefusalHolds, for any logins, windows and cool-downs: however attempts of any users,
\* ends of windows and prunings mix, a sign-in that was refused is refused for as long
\* as the answer said, unless a restart of the console forgets it.
THEOREM RefusalsHold == LimiterSpec => RefusalHolds
<1>1. LimiterInv /\ [LimiterNext]_limVars => [RefusalKept]_limVars
  BY LimiterStep
<1>2. LimiterInv /\ [LimiterNext]_limVars => LimiterInv'
  BY LimiterStep
<1>3. LimiterSpec => [][RefusalKept]_limVars
  BY <1>1, <1>2, LimiterInvInit, PTL DEF LimiterSpec
<1>. QED BY <1>3 DEF RefusalHolds, RefusalKept

----------------------------------------------------------------------------
(* Windows' own prompts                                                    *)

Reports ==
    [kind : {"seen"}, who : {{p} : p \in Prompts}, verdict : {""}]
      \cup [kind : {"closed"}, who : (SUBSET Prompts) \ {{}}, verdict : Verdicts]

RowOK ==
    /\ uacRow \in [count : Nat, outcome : {"prompted"} \cup Verdicts, old : BOOLEAN]
    /\ uacHeard \in [seen : SUBSET Prompts, closed : SUBSET Prompts, late : BOOLEAN, silent : Nat]
CarriedOK ==
    /\ uacWire = NotLinked \/ uacWire \in Seq(Reports)
    /\ uacHttp \subseteq Prompts /\ uacClosers \subseteq Prompts
    /\ uacCall \in [who : SUBSET Prompts, by : {"none", "socket", "answered", "http"}]
    /\ uacTray \in [on : BOOLEAN, saw : SUBSET Prompts, busy : BOOLEAN]

\* A row that will count the next appearance has been told of a closing since it
\* counted last, and every report of a closing tells one that was not told before:
\* so what is counted beyond the first is paid for by a closing or a silence.
Armed == IF uacRow.outcome # "prompted" THEN 1 ELSE 0
CountInv ==
    ~uacHeard.late =>
       /\ uacRow.count > 0 =>
             uacRow.count + Armed <= Cardinality(uacHeard.closed) + uacHeard.silent + 1
       /\ uacRow.count <= Cardinality(uacHeard.seen \cup uacHeard.closed) + uacHeard.silent

UacInv == RowOK /\ CarriedOK /\ CountInv

\* No prompt has been seen, counted or told of.
LEMMA UacInvInit == UacInit => UacInv
<1>. SUFFICES ASSUME UacInit PROVE UacInv
  OBVIOUS
<1>1. RowOK /\ CarriedOK
  <2>1. <<>> \in Seq(Reports)
    OBVIOUS
  <2>. QED BY <2>1 DEF UacInit, RowOK, CarriedOK, NoReport
<1>2. Cardinality({}) = 0
  BY FS_EmptySet
<1>3. CountInv
  <2>1. uacRow.count = 0 /\ uacHeard.silent = 0 /\ uacHeard.seen \cup uacHeard.closed = {}
    BY DEF UacInit
  <2>. QED BY <1>2, <2>1 DEF CountInv
<1>. QED BY <1>1, <1>3 DEF UacInv

\* Of finitely many prompts, fewer than all are at least one fewer.
LEMMA PromptSets ==
    ASSUME NEW S \in SUBSET Prompts, NEW T \in SUBSET S
    PROVE  /\ Cardinality(S) \in Nat /\ Cardinality(T) \in Nat
           /\ Cardinality(T) <= Cardinality(S)
           /\ T # S => Cardinality(T) + 1 <= Cardinality(S)
<1>1. IsFiniteSet(S) /\ IsFiniteSet(T)
  BY UacBounds, FS_Subset
<1>2. /\ Cardinality(S) \in Nat /\ Cardinality(T) \in Nat
      /\ Cardinality(T) <= Cardinality(S)
      /\ Cardinality(T) = Cardinality(S) => T = S
  BY <1>1, FS_CardinalityType, FS_Subset
<1>. QED BY <1>2

\* handleUacSeen counts a prompt again only after a closing or a silence.
LEMMA SeenKept ==
    ASSUME UacInv, NEW p \in Prompts, HandleUacSeen(p)
    PROVE  RowOK' /\ CountInv'
<1>. DEFINE closed == uacHeard.closed
            all == uacHeard.seen \cup closed
            counts == uacRow.count > 0 /\ (uacRow.outcome # "prompted" \/ uacRow.old)
<1>1. /\ uacRow' = [count |-> IF uacRow.count = 0 THEN 1
                             ELSE IF counts THEN uacRow.count + 1 ELSE uacRow.count,
                    outcome |-> "prompted", old |-> FALSE]
      /\ uacHeard' = [uacHeard EXCEPT !.seen = @ \cup {p},
             !.late = @ \/ p \in uacHeard.closed, !.silent = IF uacRow.old THEN @ + 1 ELSE @]
      /\ uacRow.count \in Nat
  <2>1. uacRow.count \in Nat
    BY DEF UacInv, RowOK
  <2>2. counts <=> uacRow.count # 0 /\ ShouldCount(uacRow)
    BY <2>1 DEF ShouldCount
  <2>. QED BY <2>1, <2>2 DEF HandleUacSeen, UpsertUacPrompt
<1>2. uacRow' \in [count : Nat, outcome : {"prompted"} \cup Verdicts, old : BOOLEAN]
  BY <1>1
<1>3. /\ uacHeard' \in [seen : SUBSET Prompts, closed : SUBSET Prompts,
                        late : BOOLEAN, silent : Nat]
      /\ uacHeard'.closed = closed /\ uacHeard'.seen = uacHeard.seen \cup {p}
      /\ uacHeard'.late <=> uacHeard.late \/ p \in closed
      /\ uacHeard'.silent = IF uacRow.old THEN uacHeard.silent + 1 ELSE uacHeard.silent
  <2>. DEFINE late == uacHeard.late \/ p \in closed
              silent == IF uacRow.old THEN uacHeard.silent + 1 ELSE uacHeard.silent
  <2>1. /\ uacHeard' = [uacHeard EXCEPT !.seen = @ \cup {p}, !.late = late, !.silent = silent]
        /\ late \in BOOLEAN /\ silent \in Nat
    BY <1>1 DEF UacInv, RowOK
  <2>. HIDE DEF late, silent
  <2>2. /\ uacHeard' \in [seen : SUBSET Prompts, closed : SUBSET Prompts,
                          late : BOOLEAN, silent : Nat]
        /\ uacHeard'.closed = closed /\ uacHeard'.seen = uacHeard.seen \cup {p}
        /\ uacHeard'.late = late /\ uacHeard'.silent = silent
    BY <2>1 DEF UacInv, RowOK
  <2>. QED BY <2>2 DEF late, silent
<1>4. ASSUME ~uacHeard'.late
      PROVE  /\ uacRow'.count > 0 =>
                   uacRow'.count + Armed' <= Cardinality(closed) + uacHeard'.silent + 1
             /\ uacRow'.count <= Cardinality(all \cup {p}) + uacHeard'.silent
  <2>1. closed \in SUBSET Prompts /\ all \in SUBSET Prompts /\ all \cup {p} \in SUBSET Prompts
    BY DEF UacInv, RowOK
  <2>2. /\ Cardinality(closed) \in Nat /\ Cardinality(all) \in Nat
        /\ Cardinality(all \cup {p}) \in Nat
        /\ Cardinality(all) <= Cardinality(all \cup {p})
        /\ Cardinality(closed) + 1 <= Cardinality(all \cup {p})
    <3>1. closed # all \cup {p}
      BY <1>3, <1>4
    <3>. QED BY <2>1, <3>1, PromptSets
  <2>3. /\ uacRow.count > 0 =>
              uacRow.count + Armed <= Cardinality(closed) + uacHeard.silent + 1
        /\ uacRow.count <= Cardinality(all) + uacHeard.silent
    BY <1>3, <1>4 DEF UacInv, CountInv
  <2>4. Armed' = 0 /\ Armed = (IF uacRow.outcome # "prompted" THEN 1 ELSE 0)
    BY <1>1 DEF Armed
  <2>5. uacHeard.silent \in Nat /\ uacRow.old \in BOOLEAN
    BY DEF UacInv, RowOK
  <2>6. uacRow'.count = IF uacRow.count = 0 THEN 1
                        ELSE IF counts THEN uacRow.count + 1 ELSE uacRow.count
    BY <1>1
  <2>. HIDE DEF closed, all
  <2>7. CASE uacRow.count = 0
    BY <1>1, <1>3, <2>2, <2>4, <2>5, <2>6, <2>7
  <2>8. CASE uacRow.count > 0 /\ uacRow.old
    BY <1>1, <1>3, <2>2, <2>3, <2>4, <2>5, <2>6, <2>8
  <2>9. CASE uacRow.count > 0 /\ ~uacRow.old
    BY <1>1, <1>3, <2>2, <2>3, <2>4, <2>5, <2>6, <2>9
  <2>. QED BY <1>1, <2>7, <2>8, <2>9
<1>5. uacHeard'.seen \cup uacHeard'.closed = all \cup {p}
  BY <1>3
<1>. QED BY <1>2, <1>3, <1>4, <1>5 DEF CountInv, RowOK

\* handleUacCanceled counts only a program it did not know.
LEMMA ClosingKept ==
    ASSUME UacInv, NEW closings \in SUBSET Prompts, closings # {}, NEW verdict \in Verdicts,
           HandleUacCanceled(closings, verdict)
    PROVE  RowOK' /\ CountInv'
<1>. DEFINE closed == uacHeard.closed
            all == uacHeard.seen \cup closed
<1>1. /\ uacRow' = [count |-> IF uacRow.count = 0 THEN 1 ELSE uacRow.count,
                    outcome |-> verdict, old |-> FALSE]
      /\ uacHeard' = [uacHeard EXCEPT !.closed = @ \cup closings,
             !.late = @ \/ closings \cap uacHeard.closed # {}]
      /\ uacRow.count \in Nat
  BY DEF HandleUacCanceled, UpsertUacPrompt, UacInv, RowOK
<1>2. uacRow' \in [count : Nat, outcome : {"prompted"} \cup Verdicts, old : BOOLEAN]
  BY <1>1
<1>3. /\ uacHeard' \in [seen : SUBSET Prompts, closed : SUBSET Prompts,
                        late : BOOLEAN, silent : Nat]
      /\ uacHeard'.closed = closed \cup closings /\ uacHeard'.seen = uacHeard.seen
      /\ uacHeard'.late <=> uacHeard.late \/ closings \cap closed # {}
      /\ uacHeard'.silent = uacHeard.silent
  BY <1>1 DEF UacInv, RowOK
<1>4. ASSUME ~uacHeard'.late
      PROVE  /\ uacRow'.count > 0 =>
                   uacRow'.count + Armed' <= Cardinality(closed \cup closings) + uacHeard.silent + 1
             /\ uacRow'.count <= Cardinality(all \cup closings) + uacHeard.silent
  <2>1. /\ closed \in SUBSET Prompts /\ closed \cup closings \in SUBSET Prompts
        /\ all \in SUBSET Prompts /\ all \cup closings \in SUBSET Prompts
    BY DEF UacInv, RowOK
  <2>2. /\ Cardinality(closed) \in Nat /\ Cardinality(closed \cup closings) \in Nat
        /\ Cardinality(closed) + 1 <= Cardinality(closed \cup closings)
    <3>1. closed # closed \cup closings
      BY <1>3, <1>4
    <3>. QED BY <2>1, <3>1, PromptSets
  <2>3. /\ Cardinality(all) \in Nat /\ Cardinality(all \cup closings) \in Nat
        /\ Cardinality(all) <= Cardinality(all \cup closings)
        /\ Cardinality(closed \cup closings) <= Cardinality(all \cup closings)
    BY <2>1, PromptSets
  <2>4. /\ uacRow.count > 0 =>
              uacRow.count + Armed <= Cardinality(closed) + uacHeard.silent + 1
        /\ uacRow.count <= Cardinality(all) + uacHeard.silent
    BY <1>3, <1>4 DEF UacInv, CountInv
  <2>5. Armed' \in {0, 1} /\ Armed \in {0, 1}
    BY DEF Armed
  <2>6. uacHeard.silent \in Nat
    BY DEF UacInv, RowOK
  <2>7. uacRow'.count = IF uacRow.count = 0 THEN 1 ELSE uacRow.count
    BY <1>1
  <2>. HIDE DEF closed, all
  <2>8. CASE uacRow.count = 0
    BY <2>2, <2>3, <2>5, <2>6, <2>7, <2>8
  <2>9. CASE uacRow.count > 0
    BY <1>1, <2>2, <2>3, <2>4, <2>5, <2>6, <2>7, <2>9
  <2>. QED BY <1>1, <2>8, <2>9
<1>5. uacHeard'.seen \cup uacHeard'.closed = all \cup closings
  BY <1>3
<1>. QED BY <1>2, <1>3, <1>4, <1>5 DEF CountInv, RowOK

\* A report of a closing is one the console knows, on the socket or not.
LEMMA ReportsKept ==
    ASSUME CarriedOK, NEW closings \in SUBSET Prompts, closings # {}, NEW verdict \in Verdicts,
           ReportClosed(closings, verdict)
    PROVE  uacWire' = NotLinked \/ uacWire' \in Seq(Reports)
<1>1. ReportOf("closed", closings, verdict) \in Reports
  <2>1. closings \in (SUBSET Prompts) \ {{}}
    OBVIOUS
  <2>. QED BY <2>1 DEF ReportOf, Reports
<1>. QED BY <1>1 DEF ReportClosed, SocketUp, CarriedOK

\* Nothing but a report that is handled, or a silence, touches the row.
LEMMA RowKept == ASSUME UacInv, [UacNext]_uacVars PROVE RowOK' /\ CountInv'
<1>1. CASE UNCHANGED <<uacRow, uacHeard>>
  BY <1>1 DEF UacInv, RowOK, CountInv, Armed
<1>2. CASE HandleAgentRpc
  <2>. DEFINE m == Head(uacWire)
  <2>1. m \in Reports
    BY <1>2 DEF HandleAgentRpc, SocketUp, UacInv, CarriedOK
  <2>2. CASE m.kind = "seen"
    <3>1. PICK p \in Prompts : m.who = {p}
      BY <2>1, <2>2 DEF Reports
    <3>2. HandleUacSeen(p)
      BY <1>2, <2>2, <3>1 DEF HandleAgentRpc
    <3>. QED BY <3>2, SeenKept
  <2>3. CASE m.kind # "seen"
    <3>1. m.who \in SUBSET Prompts /\ m.who # {} /\ m.verdict \in Verdicts
      BY <2>1, <2>3 DEF Reports
    <3>2. HandleUacCanceled(m.who, m.verdict)
      BY <1>2, <2>3 DEF HandleAgentRpc
    <3>. QED BY <3>1, <3>2, ClosingKept
  <2>. QED BY <2>2, <2>3
<1>3. ASSUME NEW p \in Prompts, HttpArrives(p) \/ HttpAnswerLost(p)
      PROVE  RowOK' /\ CountInv'
  BY <1>3, SeenKept DEF HttpArrives, HttpAnswerLost
<1>4. CASE Silence
  <2>1. uacRow' = [uacRow EXCEPT !.old = TRUE] /\ UNCHANGED uacHeard
    BY <1>4 DEF Silence
  <2>2. RowOK'
    BY <2>1 DEF UacInv, RowOK
  <2>3. uacRow'.count = uacRow.count /\ uacRow'.outcome = uacRow.outcome
    BY <2>1 DEF UacInv, RowOK
  <2>. QED BY <2>1, <2>2, <2>3 DEF UacInv, CountInv, Armed
<1>. QED BY <1>1, <1>2, <1>3, <1>4
       DEF UacNext, uacVars, telemetryVars, WatchTick, SocketAnswers, SocketTimesOut, NoteOpen,
           NoteOpenSkips, NoteGone, NoteClosed, Appear, Close, HttpGivesUp, TrayTick, TrayRequests,
           TrayComesOrGoes, Drop, Relink

\* What is on its way and what each watcher holds are prompts there are.
LEMMA CarriedKept == ASSUME CarriedOK, [UacNext]_uacVars PROVE CarriedOK'
<1>. DEFINE Calls == [who : SUBSET Prompts, by : {"none", "socket", "answered", "http"}]
            Trays == [on : BOOLEAN, saw : SUBSET Prompts, busy : BOOLEAN]
            WireOK == uacWire = NotLinked \/ uacWire \in Seq(Reports)
<1>1. NoReport \in Calls /\ uacCall \in Calls /\ uacTray \in Trays
  BY DEF NoReport, CarriedOK
<1>2. CASE UNCHANGED <<uacWire, uacHttp, uacClosers, uacCall, uacTray>>
  BY <1>2 DEF CarriedOK
<1>3. CASE HandleAgentRpc
  <2>1. uacWire' \in Seq(Reports)
    BY <1>3 DEF HandleAgentRpc, SocketUp, CarriedOK
  <2>2. uacCall' \in Calls /\ UNCHANGED <<uacHttp, uacClosers, uacTray>>
    BY <1>1, <1>3 DEF HandleAgentRpc
  <2>. QED BY <2>1, <2>2 DEF CarriedOK
<1>4. ASSUME NEW p \in Prompts, NoteOpen(p)
      PROVE  CarriedOK'
  <2>1. ReportOf("seen", {p}, "") \in Reports
    BY DEF ReportOf, Reports
  <2>2. CASE SocketUp
    <3>1. /\ uacWire' = Append(uacWire, ReportOf("seen", {p}, ""))
          /\ uacCall' = [who |-> {p}, by |-> "socket"]
          /\ UNCHANGED <<uacHttp, uacClosers, uacTray>>
      BY <1>4, <2>2 DEF NoteOpen
    <3>2. uacWire \in Seq(Reports)
      BY <2>2 DEF SocketUp, CarriedOK
    <3>3. uacWire' \in Seq(Reports)
      <4>1. \A wire \in Seq(Reports), m \in Reports : Append(wire, m) \in Seq(Reports)
        OBVIOUS
      <4>. QED BY <2>1, <3>1, <3>2, <4>1
    <3>. QED BY <3>1, <3>3 DEF CarriedOK
  <2>3. CASE ~SocketUp
    <3>1. /\ uacHttp' = uacHttp \cup {p} /\ uacCall' = [who |-> {p}, by |-> "http"]
          /\ UNCHANGED <<uacWire, uacClosers, uacTray>>
      BY <1>4, <2>3 DEF NoteOpen
    <3>. QED BY <3>1 DEF CarriedOK
  <2>. QED BY <2>2, <2>3
<1>5. CASE SocketAnswers \/ SocketTimesOut \/ \E late \in BOOLEAN : HttpGivesUp(late)
  BY <1>1, <1>5 DEF SocketAnswers, SocketTimesOut, HttpGivesUp, NoteOpenEnds, CarriedOK
<1>6. ASSUME NEW p \in Prompts, HttpArrives(p) \/ HttpAnswerLost(p) \/ NoteGone(p)
      PROVE  CarriedOK'
  BY <1>1, <1>6 DEF HttpArrives, HttpAnswerLost, NoteGone, NoteOpenEnds, brokerVars, CarriedOK
<1>7. ASSUME NEW p \in Prompts, NEW v \in Verdicts, NoteClosed(p, v)
      PROVE  CarriedOK'
  <2>1. uacWire' = NotLinked \/ uacWire' \in Seq(Reports)
    BY <1>7, ReportsKept DEF NoteClosed, CarriedOK
  <2>. QED BY <1>7, <2>1 DEF NoteClosed, CarriedOK
<1>8. ASSUME NEW v \in Verdicts, TrayTick(v)
      PROVE  CarriedOK'
  <2>1. uacWire' = NotLinked \/ uacWire' \in Seq(Reports)
    <3>1. uacTray.saw \in SUBSET Prompts
      BY DEF CarriedOK
    <3>. QED BY <1>8, <3>1, ReportsKept DEF TrayTick, CarriedOK
  <2>2. uacTray' \in Trays
    <3>1. Open \in SUBSET Prompts
      BY DEF Open
    <3>2. CASE uacTray' = [uacTray EXCEPT !.saw = @ \cup Open]
      BY <1>1, <3>1, <3>2
    <3>3. CASE uacTray' = [uacTray EXCEPT !.saw = {}, !.busy = v # "approved"]
      BY <1>1, <3>3
    <3>. QED BY <1>8, <3>2, <3>3 DEF TrayTick
  <2>. QED BY <1>8, <2>1, <2>2 DEF TrayTick, brokerVars, CarriedOK
<1>9. CASE TrayComesOrGoes \/ \E busy \in BOOLEAN : TrayRequests(busy)
  <2>1. uacTray' \in Trays
    <3>1. CASE uacTray' = [on |-> ~uacTray.on, saw |-> {}, busy |-> FALSE]
      BY <3>1
    <3>2. ASSUME NEW busy \in BOOLEAN, uacTray' = [uacTray EXCEPT !.busy = busy]
          PROVE  uacTray' \in Trays
      BY <1>1, <3>2
    <3>. QED BY <1>9, <3>1, <3>2 DEF TrayComesOrGoes, TrayRequests
  <2>. QED BY <1>9, <2>1 DEF TrayComesOrGoes, TrayRequests, brokerVars, CarriedOK
<1>10. CASE Drop \/ Relink
  <2>1. <<>> \in Seq(Reports)
    OBVIOUS
  <2>. QED BY <1>1, <1>10, <2>1 DEF Drop, Relink, brokerVars, CarriedOK
<1>. QED BY <1>2, <1>3, <1>4, <1>5, <1>6, <1>7, <1>8, <1>9, <1>10
       DEF UacNext, uacVars, brokerVars, telemetryVars, WatchTick, NoteOpenSkips, Appear, Close, Silence

\* CountedOnce: however the reports of a prompt are doubled, delayed and mixed with those of
\* others, for any number of prompts and mishaps, none is counted twice, unless a
\* report comes after the closing of its own prompt.
THEOREM PromptsCountedOnce == UacSpec => []CountedOnce
<1>1. UacInv /\ [UacNext]_uacVars => UacInv'
  BY RowKept, CarriedKept DEF UacInv
<1>2. UacInv => CountedOnce
  BY DEF UacInv, CountInv, CountedOnce
<1>. QED BY <1>1, <1>2, UacInvInit, PTL DEF UacSpec

----------------------------------------------------------------------------
(* The update policy of a device                                           *)

PolicyBodies ==
    [mode : UpdateModes \cup {"", "other"}, schedule : Times \cup {"", "bad"}]
Cards == [of : {"none", "device", "group"}, id : GroupIds \cup {"none"},
          drawn : PolicyBodies, draft : PolicyBodies]
PolicyRows == [name : GroupNames, priority : Priorities, policy : PolicyBodies]

\* There are finitely many groups, each with a name of its own: so one comes first.
PolicyInv ==
    /\ IsFiniteSet(Existing) /\ Existing \subseteq GroupIds
    /\ polGroups \in [Existing -> PolicyRows]
    /\ \A g, h \in Existing : polGroups[g].name = polGroups[h].name => g = h
    /\ polDevice \in PolicyBodies /\ polDevice.mode # "other"
    /\ polCard \in Cards

\* What the routes make of a body is a policy again.
LEMMA NormalizedBody ==
    ASSUME NEW body \in Bodies \cup PolicyBodies
    PROVE  Normalized(body) \in PolicyBodies
BY DEF Bodies, PolicyBodies, Normalized, UpdateModes

\* There are no groups at first.
LEMMA PolicyInvInit == PolicyInit => PolicyInv
<1>. SUFFICES ASSUME PolicyInit PROVE PolicyInv
  OBVIOUS
<1>1. Existing = {} /\ IsFiniteSet(Existing)
  BY FS_EmptySet DEF PolicyInit, Existing
<1>2. polGroups \in [Existing -> PolicyRows]
  BY <1>1 DEF PolicyInit
<1>3. Inherit \in PolicyBodies /\ Inherit.mode = ""
  BY DEF Inherit, PolicyBodies, UpdateModes
<1>4. NoCard \in Cards
  BY <1>3 DEF NoCard, Cards
<1>. QED BY <1>1, <1>2, <1>3, <1>4 DEF PolicyInit, PolicyInv

\* A used name is refused, whatever is created, renamed or edited.
LEMMA PolicyInvStep == PolicyInv /\ [PolicyNext]_polVars => PolicyInv'
<1>. SUFFICES ASSUME PolicyInv, [PolicyNext]_polVars PROVE PolicyInv'
  OBVIOUS
<1>. DEFINE GroupsOK == /\ IsFiniteSet(Existing) /\ Existing \subseteq GroupIds
                        /\ polGroups \in [Existing -> PolicyRows]
                        /\ \A g, h \in Existing : polGroups[g].name = polGroups[h].name => g = h
            DeviceOK == polDevice \in PolicyBodies /\ polDevice.mode # "other"
            CardOK == polCard \in Cards
<1>0. GroupsOK /\ DeviceOK /\ CardOK
  BY DEF PolicyInv
<1>s. UNCHANGED polGroups => GroupsOK'
  BY <1>0 DEF Existing
<1>1. ASSUME NEW g \in GroupIds, NEW name \in GroupNames, NEW priority \in Priorities,
             CreateGroup(g, name, priority)
      PROVE  PolicyInv'
  <2>. DEFINE row == [name |-> name, priority |-> priority, policy |-> Inherit]
  <2>1. Existing' = Existing \cup {g} /\ g \notin Existing
        /\ polGroups' = [h \in Existing \cup {g} |-> IF h = g THEN row ELSE polGroups[h]]
        /\ \A h \in Existing : polGroups[h].name # name
    BY <1>1 DEF CreateGroup, NameTaken, Existing
  <2>2. row \in PolicyRows /\ row.name = name
    BY DEF PolicyRows, PolicyBodies, Inherit, UpdateModes
  <2>3. IsFiniteSet(Existing')
    BY <1>0, <2>1, FS_AddElement
  <2>. HIDE DEF row
  <2>4. polGroups' \in [Existing' -> PolicyRows]
    BY <1>0, <2>1, <2>2
  <2>5. \A h, i \in Existing' : polGroups'[h].name = polGroups'[i].name => h = i
    BY <1>0, <2>1, <2>2
  <2>. QED BY <1>0, <1>1, <2>3, <2>4, <2>5 DEF CreateGroup, PolicyInv
<1>2. ASSUME NEW g \in GroupIds, NEW name \in GroupNames, NEW priority \in Priorities,
             RenameGroup(g, name, priority)
      PROVE  PolicyInv'
  <2>1. /\ g \in Existing /\ \A h \in Existing : h # g => polGroups[h].name # name
        /\ polGroups' = [polGroups EXCEPT ![g].name = name, ![g].priority = priority]
    BY <1>2 DEF RenameGroup, NameTaken
  <2>2. Existing' = Existing
    BY <2>1 DEF Existing
  <2>3. polGroups' \in [Existing -> PolicyRows]
    BY <1>0, <2>1 DEF PolicyRows
  <2>4. polGroups'[g].name = name /\ \A h \in Existing : h # g => polGroups'[h] = polGroups[h]
    BY <1>0, <2>1 DEF PolicyRows
  <2>5. \A h, i \in Existing : polGroups'[h].name = polGroups'[i].name => h = i
    BY <1>0, <2>1, <2>4
  <2>. QED BY <1>0, <1>2, <2>2, <2>3, <2>5 DEF RenameGroup, PolicyInv
<1>3. ASSUME NEW g \in GroupIds, DeleteGroup(g)
      PROVE  PolicyInv'
  <2>1. Existing' = Existing \ {g} /\ polGroups' = [h \in Existing \ {g} |-> polGroups[h]]
    BY <1>3 DEF DeleteGroup, Existing
  <2>2. IsFiniteSet(Existing')
    BY <1>0, <2>1, FS_Subset
  <2>. QED BY <1>0, <1>3, <2>1, <2>2 DEF DeleteGroup, PolicyInv
<1>4. ASSUME NEW g, NEW body \in PolicyBodies \cup Bodies, SetGroupPolicy(g, body)
      PROVE  GroupsOK' /\ UNCHANGED polDevice
  <2>1. g \in Existing /\ polGroups' = [polGroups EXCEPT ![g].policy = Normalized(body)]
    BY <1>4 DEF SetGroupPolicy
  <2>2. Existing' = Existing
    BY <2>1 DEF Existing
  <2>3. Normalized(body) \in PolicyBodies
    BY NormalizedBody
  <2>4. polGroups' \in [Existing -> PolicyRows]
    BY <1>0, <2>1, <2>3 DEF PolicyRows
  <2>5. \A h \in Existing : polGroups'[h].name = polGroups[h].name
    BY <1>0, <2>1 DEF PolicyRows
  <2>6. \A h, i \in Existing' : polGroups'[h].name = polGroups'[i].name => h = i
    BY <1>0, <2>2, <2>5
  <2>7. IsFiniteSet(Existing') /\ Existing' \subseteq GroupIds /\ polGroups' \in [Existing' -> PolicyRows]
    BY <1>0, <2>2, <2>4
  <2>8. UNCHANGED polDevice
    BY <1>4 DEF SetGroupPolicy
  <2>. QED BY <2>6, <2>7, <2>8
<1>5. ASSUME NEW body \in PolicyBodies \cup Bodies, SetDevicePolicy(body)
      PROVE  DeviceOK' /\ UNCHANGED polGroups
  <2>1. Normalized(body) \in PolicyBodies
    BY NormalizedBody
  <2>2. Normalized(body).mode = body.mode /\ body.mode # "other"
    BY <1>5 DEF SetDevicePolicy, DeviceAccepts, GroupAccepts, Normalized, UpdateModes
  <2>. QED BY <1>5, <2>1, <2>2 DEF SetDevicePolicy
<1>6. CASE UNCHANGED <<polGroups, polDevice, polCard>>
  BY <1>0, <1>s, <1>6 DEF PolicyInv
<1>7. ASSUME NEW g \in GroupIds, NEW body \in Bodies, SetGroupPolicy(g, body), UNCHANGED polCard
      PROVE  PolicyInv'
  BY <1>0, <1>4, <1>7 DEF PolicyInv
<1>8. ASSUME NEW body \in Bodies, SetDevicePolicy(body), UNCHANGED polCard
      PROVE  PolicyInv'
  BY <1>0, <1>5, <1>8, <1>s DEF SetDevicePolicy, PolicyInv
<1>9. DeviceCard \in Cards /\ \A g \in Existing : GroupCard(g) \in Cards
  BY <1>0 DEF DeviceCard, GroupCard, Cards, PolicyRows
<1>10. CASE Draw
  <2>1. polCard' \in Cards
    BY <1>0, <1>9, <1>10 DEF Draw
  <2>. QED BY <1>0, <1>10, <1>s, <2>1 DEF Draw, PolicyInv
<1>11. CASE Edit
  <2>1. PICK body \in Bodies : polCard' = [polCard EXCEPT !.draft = Normalized(body)]
    BY <1>11 DEF Edit
  <2>2. Normalized(body) \in PolicyBodies
    BY NormalizedBody
  <2>3. polCard' \in Cards
    BY <1>0, <2>1, <2>2 DEF Cards
  <2>. QED BY <1>0, <1>11, <1>s, <2>3 DEF Edit, PolicyInv
<1>12. CASE SaveGroupPolicy
  <2>1. polCard.draft \in PolicyBodies
    BY <1>0 DEF Cards
  <2>2. GroupsOK' /\ UNCHANGED polDevice
    BY <1>4, <1>12, <2>1 DEF SaveGroupPolicy
  <2>3. polCard.id \in Existing' /\ polCard' = [polCard EXCEPT !.drawn = polGroups'[polCard.id].policy]
    BY <1>12 DEF SaveGroupPolicy, SetGroupPolicy, Existing
  <2>4. polCard' \in Cards
    BY <1>0, <2>2, <2>3 DEF Cards, PolicyRows
  <2>. QED BY <1>0, <2>2, <2>4 DEF PolicyInv
<1>13. ASSUME NEW clear \in BOOLEAN, SaveDevicePolicy(clear)
       PROVE  PolicyInv'
  <2>. DEFINE body == IF clear THEN Inherit ELSE polCard.draft
  <2>1. body \in PolicyBodies
    BY <1>0 DEF Cards, Inherit, PolicyBodies, UpdateModes
  <2>2. SetDevicePolicy(body)
    BY <1>13 DEF SaveDevicePolicy
  <2>. HIDE DEF body
  <2>3. polCard' \in Cards
    BY <1>0, <1>13, <1>9 DEF SaveDevicePolicy
  <2>. QED BY <1>0, <1>5, <1>s, <2>1, <2>2, <2>3 DEF PolicyInv
<1>. QED BY <1>1, <1>2, <1>3, <1>6, <1>7, <1>8, <1>10, <1>11, <1>12, <1>13
       DEF PolicyNext, polVars, AddMember, RemoveMember

\* Of finitely many groups with names of their own one comes before all the others:
\* no chain of groups, each coming before the one it follows, goes on for ever.
LEMMA OneComesFirst ==
    ASSUME NEW W, IsFiniteSet(W), W # {}, NEW rows,
           \A g \in W : rows[g].priority \in Int /\ rows[g].name \in Int,
           \A g, h \in W : rows[g].name = rows[h].name => g = h
    PROVE  \E g \in W : \A h \in W :
              \/ rows[g].priority > rows[h].priority
              \/ rows[g].priority = rows[h].priority /\ rows[g].name <= rows[h].name
<1>. DEFINE Earlier(g, h) == \/ rows[g].priority > rows[h].priority
                             \/ rows[g].priority = rows[h].priority /\ rows[g].name <= rows[h].name
            Above(g) == {h \in W : h # g /\ Earlier(h, g)}
            Family == {Above(g) : g \in W}
            R == StrictSubsetOrdering(W)
<1>1. \A g, h \in W : Earlier(g, h) \/ Earlier(h, g)
  OBVIOUS
<1>2. \A g, h, i \in W : Earlier(g, h) /\ Earlier(h, i) => Earlier(g, i)
  OBVIOUS
<1>3. \A g, h \in W : Earlier(g, h) /\ Earlier(h, g) => g = h
  <2>1. \A g, h \in W : Earlier(g, h) /\ Earlier(h, g) => rows[g].name = rows[h].name
    OBVIOUS
  <2>. QED BY <2>1
<1>. HIDE DEF Earlier
<1>4. Family \subseteq FiniteSubsetsOf(W)
  BY FS_Subset DEF FiniteSubsetsOf
<1>5. IsWellFoundedOn(R, FiniteSubsetsOf(W))
  BY FS_StrictSubsetOrderingWellFounded
<1>6. Family # {}
  <2>1. PICK g : g \in W
    OBVIOUS
  <2>2. Above(g) \in Family
    BY <2>1
  <2>. QED BY <2>2
<1>7. PICK g \in W : \A h \in W : <<Above(h), Above(g)>> \notin R
  <2>. HIDE DEF R, Family
  <2>1. PICK a \in Family : \A b \in Family : <<b, a>> \notin R
    BY <1>4, <1>5, <1>6, WFMin
  <2>. HIDE DEF Above
  <2>2. PICK g \in W : a = Above(g)
    BY DEF Family
  <2>3. \A h \in W : Above(h) \in Family
    BY DEF Family
  <2>. QED BY <2>1, <2>2, <2>3
<1>8. ASSUME NEW h \in Above(g) PROVE FALSE
  <2>1. \A i \in Above(h) : i \in Above(g)
    BY <1>2, <1>3, <1>8
  <2>2. h \in Above(g) /\ h \notin Above(h)
    BY <1>8
  <2>3. <<Above(h), Above(g)>> \in R
    BY <2>1, <2>2 DEF R, StrictSubsetOrdering
  <2>. QED BY <1>7, <1>8, <2>3
<1>9. \A h \in W : Earlier(g, h)
  BY <1>1, <1>8
<1>. QED BY <1>9 DEF Earlier

\* What effectiveUpdatePolicy takes of the groups with a policy is the one that comes
\* first, and it outranks every other.
LEMMA FirstDecides ==
    ASSUME PolicyInv, WithPolicy # {}
    PROVE  First \in WithPolicy /\ (\A h \in WithPolicy : ComesFirst(First, h)) /\ Decides(First)
<1>1. IsFiniteSet(WithPolicy)
  BY FS_Subset DEF PolicyInv, WithPolicy
<1>2. /\ \A g \in WithPolicy : polGroups[g].priority \in Int /\ polGroups[g].name \in Int
      /\ \A g, h \in WithPolicy : polGroups[g].name = polGroups[h].name => g = h
  BY NamesAreOrdered DEF PolicyInv, WithPolicy, PolicyRows
<1>3. \E g \in WithPolicy : \A h \in WithPolicy : ComesFirst(g, h)
  BY <1>1, <1>2, OneComesFirst DEF ComesFirst
<1>4. First \in WithPolicy /\ \A h \in WithPolicy : ComesFirst(First, h)
  BY <1>3 DEF First
<1>5. \A h \in WithPolicy \ {First} : ~ComesFirst(h, First)
  <2>. SUFFICES ASSUME NEW h \in WithPolicy \ {First}, ComesFirst(h, First) PROVE FALSE
    OBVIOUS
  <2>1. polGroups[h].name = polGroups[First].name
    BY <1>2, <1>4 DEF ComesFirst
  <2>. QED BY <1>2, <1>4, <2>1
<1>. QED BY <1>4, <1>5 DEF Decides, Outranked

\* FirstDecides as a state predicate, for before and after a step
FirstOK ==
    WithPolicy # {} => First \in WithPolicy /\ Decides(First) /\ \A h \in WithPolicy : ComesFirst(First, h)

\* The sentence of OnlyTheirDevicesMove, of one step
MovesTheirs ==
    Effective' # Effective =>
       \/ polDevice' # polDevice
       \/ /\ polDevice.mode = ""
          /\ \E g \in polMembers \cup polMembers' : Touched(g) /\ (Decides(g) \/ Decides(g)')

\* Whatever changed: if the group that decided was let be, it still sets a policy;
\* another that comes before it now was touched, or the two would be in one place.
LEMMA OthersStay ==
    ASSUME PolicyInv, PolicyInv', FirstOK, FirstOK'
    PROVE  MovesTheirs
<1>. SUFFICES ASSUME Effective' # Effective, polDevice' = polDevice
              PROVE  /\ polDevice.mode = ""
                     /\ \E g \in polMembers \cup polMembers' : Touched(g) /\ (Decides(g) \/ Decides(g)')
  BY DEF MovesTheirs
<1>1. polDevice.mode = "" /\ polDevice.mode \notin UpdateModes
  <2>1. polDevice.mode \notin UpdateModes
    BY DEF Effective
  <2>. QED BY <2>1 DEF PolicyInv, PolicyBodies
<1>2. \A g \in WithPolicy : g \in polMembers /\ (~Touched(g) => g \in WithPolicy' /\ polGroups'[g] = polGroups[g])
  BY DEF WithPolicy, Touched
<1>3. \A g \in WithPolicy' : g \in polMembers' /\ (~Touched(g) => g \in WithPolicy)
  BY DEF WithPolicy, Touched
<1>4. CASE WithPolicy = {} /\ WithPolicy' = {}
  BY <1>1, <1>4 DEF Effective
<1>5. CASE WithPolicy = {} /\ WithPolicy' # {}
  <2>1. First' \in WithPolicy' /\ Decides(First)'
    BY <1>5 DEF FirstOK
  <2>. QED BY <1>1, <1>3, <1>5, <2>1
<1>6. CASE WithPolicy # {}
  <2>1. First \in WithPolicy /\ Decides(First) /\ \A h \in WithPolicy : ComesFirst(First, h)
    BY <1>6 DEF FirstOK
  <2>2. CASE Touched(First)
    BY <1>1, <1>2, <2>1, <2>2
  <2>3. CASE ~Touched(First)
    <3>. PICK f : f = First
      OBVIOUS
    <3>. PICK f1 : f1 = First'
      OBVIOUS
    <3>1. f \in WithPolicy' /\ polGroups'[f] = polGroups[f]
      BY <1>2, <2>1, <2>3
    <3>2. f1 \in WithPolicy' /\ Decides(First)' /\ ComesFirst(First, f)'
      BY <3>1 DEF FirstOK
    <3>3. f1 # f
      BY <1>1, <1>6, <3>1 DEF Effective
    <3>4. CASE Touched(f1)
      BY <1>1, <1>3, <3>2, <3>4
    <3>5. CASE ~Touched(f1)
      <4>1. f1 \in WithPolicy /\ polGroups'[f1] = polGroups[f1]
        BY <1>3, <3>2, <3>5 DEF WithPolicy, Touched
      <4>2. f \in Existing /\ f1 \in Existing
        BY <2>1, <4>1 DEF WithPolicy
      <4>3. /\ polGroups[f].name \in Int /\ polGroups[f].priority \in Int
            /\ polGroups[f1].name \in Int /\ polGroups[f1].priority \in Int
        BY <4>2, NamesAreOrdered DEF PolicyInv, PolicyRows
      <4>4. \/ polGroups[f1].priority > polGroups[f].priority
            \/ polGroups[f1].priority = polGroups[f].priority /\ polGroups[f1].name <= polGroups[f].name
        BY <3>1, <3>2, <4>1 DEF ComesFirst
      <4>5. \/ polGroups[f].priority > polGroups[f1].priority
            \/ polGroups[f].priority = polGroups[f1].priority /\ polGroups[f].name <= polGroups[f1].name
        BY <2>1, <4>1 DEF ComesFirst
      <4>6. polGroups[f].name = polGroups[f1].name
        BY <4>3, <4>4, <4>5
      <4>. QED BY <3>3, <4>2, <4>6 DEF PolicyInv
    <3>. QED BY <3>4, <3>5
  <2>. QED BY <2>2, <2>3
<1>. QED BY <1>4, <1>5, <1>6

\* OnlyTheirDevicesMove, for any groups, names and times: editing a group, its row or
\* its members, moves only devices that are or were in it and have no policy of their
\* own, and only if the group decides for them before or after.
THEOREM OnlyTheirsMove == PolicySpec => OnlyTheirDevicesMove
<1>1. PolicyInit => PolicyInv
  BY PolicyInvInit
<1>2. PolicyInv /\ [PolicyNext]_polVars => PolicyInv'
  BY PolicyInvStep
<1>3. PolicyInv => FirstOK
  BY FirstDecides DEF FirstOK
<1>4. PolicyInv /\ PolicyInv' /\ FirstOK /\ FirstOK' => [MovesTheirs]_polVars
  BY OthersStay
<1>. QED BY <1>1, <1>2, <1>3, <1>4, PTL DEF PolicySpec, OnlyTheirDevicesMove, MovesTheirs

----------------------------------------------------------------------------
(* The way into the console                                                *)
\* Where each hop leads, and which are drawn
LEMMA Hops ==
    /\ Hop("console") = "console" /\ Hop("setup") = "setup" /\ Hop("login") = "login"
    /\ Hop("/") = RootHop /\ Hop("/dashboard") = MiddlewareHop
    /\ Hop("/elevations") = LayoutHop /\ Hop("layout") = LayoutHop
    /\ Hop("/setup") = SetupHop /\ Hop("/login") = LoginHop
BY DEF Hop

\* The three parties agree who has to set up, who to sign in and who may go on.
LEMMA Directions ==
    /\ NeedsAdmin => WizardPending
    /\ WizardPending => RootHop = "/setup" /\ LayoutHop = "/setup" /\ SetupHop = "setup"
    /\ ~WizardPending => RootHop = "/dashboard"
    /\ ~WizardPending /\ Session => LayoutHop = "console" /\ SetupHop = "/dashboard"
    /\ ~WizardPending /\ ~Session => LayoutHop = "/login" /\ SetupHop = "/login"
    /\ NeedsAdmin => LoginHop = "/setup"
    /\ ~NeedsAdmin => LoginHop = "login"
    /\ Session => MiddlewareHop = "layout"
    /\ MiddlewareHop \in {"layout", "/login"}
BY DEF WizardPending, RootHop, LayoutHop, SetupHop, LoginHop, MiddlewareHop, Session

\* In each of the three cases, five hops are enough.
LEMMA Lands == EveryUrlLands
<1>. SUFFICES ASSUME NEW url \in Urls
     PROVE  /\ Landing(url) \in {"console", "setup", "login"}
            /\ Landing(url) = "console" => Session /\ ~WizardPending
  BY DEF EveryUrlLands, LocalOffered, EntraAvailable
<1>0. url \in {"/", "/dashboard", "/elevations", "/setup", "/login"}
  BY DEF Urls
<1>1. CASE WizardPending
  <2>1. Hop("/setup") = "setup" /\ Hop("/") = "/setup" /\ Hop("/elevations") = "/setup"
        /\ Hop("layout") = "/setup" /\ Hop("setup") = "setup" /\ Hop("login") = "login"
    BY <1>1, Hops, Directions
  <2>2. Hop("/login") \in {"/setup", "login"} /\ Hop("/dashboard") \in {"layout", "/login"}
    BY Hops, Directions
  <2>3. Landing(url) \in {"setup", "login"}
    BY <1>0, <2>1, <2>2 DEF Landing
  <2>. QED BY <2>3
<1>2. CASE ~WizardPending /\ Session
  <2>1. /\ Hop("/setup") = "/dashboard" /\ Hop("/") = "/dashboard" /\ Hop("/elevations") = "console"
        /\ Hop("layout") = "console" /\ Hop("console") = "console" /\ Hop("login") = "login"
        /\ Hop("/dashboard") = "layout" /\ Hop("/login") = "login"
    BY <1>2, Hops, Directions
  <2>. QED BY <1>0, <1>2, <2>1 DEF Landing
<1>3. CASE ~WizardPending /\ ~Session
  <2>1. /\ Hop("/setup") = "/login" /\ Hop("/") = "/dashboard" /\ Hop("/elevations") = "/login"
        /\ Hop("layout") = "/login" /\ Hop("login") = "login" /\ Hop("/login") = "login"
    BY <1>3, Hops, Directions
  <2>2. Hop("/dashboard") \in {"layout", "/login"}
    BY Hops, Directions
  <2>3. Landing(url) = "login"
    BY <1>0, <2>1, <2>2 DEF Landing
  <2>. QED BY <2>3
<1>. QED BY <1>1, <1>2, <1>3

\* EveryUrlLands: in every state the console may be in, a path that the root, the
\* middleware, the layout, the wizard and the sign-in page redirect in turn ends at a
\* page that is drawn, and at the console only for who is signed in.
THEOREM NoUrlGoesRound == WelcomeSpec => []EveryUrlLands
BY Lands, PTL

----------------------------------------------------------------------------
(* The addresses of the console                                            *)
\* Only the machine's addresses change, to ones that others can dial.
ListenInv ==
    lisEnv \in [bind : BindNames, web : RawPorts \cup {0}, agent : RawPorts \cup {0},
                explicit : EnvUrls, public : EnvUrls, addresses : SUBSET Addresses]

\* consoleAgentOrigin passes the wildcard it is bound to over for an address.
LEMMA DialableInstallers == ASSUME ListenInv PROVE InstallersCanDial
<1>. SUFFICES ASSUME lisEnv.addresses # {}, NEW o \in ConsoleAgentOrigins PROVE o.host \notin Wildcard
  BY DEF InstallersCanDial
<1>1. Bind \in {"127.0.0.1", "::1", "0.0.0.0", "::", "[::]", "10.0.0.9", "fd00::9"}
  BY DEF Bind, ListenInv, BindNames
<1>2. \A a \in lisEnv.addresses : a \notin Wildcard
  BY AddressesAreForOthers DEF ListenInv
<1>3. Bind \notin Wildcard => Bracketed(Bind) \notin Wildcard
  BY <1>1 DEF Bracketed, Wildcard
<1>4. "proxy.example" \notin Wildcard /\ "127.0.0.1" \notin Wildcard
  BY DEF Wildcard
<1>5. CASE lisEnv.explicit = "proxy.example"
  BY <1>4, <1>5 DEF ConsoleAgentOrigins, Origin
<1>6. CASE lisEnv.explicit # "proxy.example" /\ lisEnv.public = "proxy.example"
  BY <1>4, <1>6 DEF ConsoleAgentOrigins, Origin
<1>7. CASE lisEnv.explicit # "proxy.example" /\ lisEnv.public # "proxy.example"
  <2>1. CASE Bind \in Wildcard
    BY <1>2, <1>7, <2>1 DEF ConsoleAgentOrigins, Origin
  <2>2. CASE Bind \notin Wildcard
    BY <1>3, <1>4, <1>7, <2>2 DEF ConsoleAgentOrigins, Origin
  <2>. QED BY <2>1, <2>2
<1>. QED BY <1>5, <1>6, <1>7

\* consoleAgentOrigin and expectedAgentOrigin read the same variables in one order.
LEMMA AgreeingOrigins == ASSUME ListenInv PROVE OriginsAgree
<1>. SUFFICES ASSUME lisEnv.agent = 0 \/ IsPort(lisEnv.agent), ExpectedAgentOrigin # NoOrigin
              PROVE  /\ ConsoleAgentOrigins = {ExpectedAgentOrigin}
                     /\ \A o \in ConsoleAgentOrigins : ValidateAgentOrigin(o)
  BY DEF OriginsAgree
<1>1. CASE lisEnv.explicit = "proxy.example"
  <2>1. ConsoleAgentOrigins = {Origin("proxy.example", 443)}
    BY <1>1 DEF ConsoleAgentOrigins
  <2>2. ExpectedAgentOrigin = Origin("proxy.example", 443)
    BY <1>1 DEF ExpectedAgentOrigin
  <2>. QED BY <2>1, <2>2 DEF ValidateAgentOrigin
<1>2. CASE lisEnv.explicit # "proxy.example"
  <2>1. lisEnv.explicit = "unset" /\ lisEnv.public = "proxy.example"
    BY <1>2 DEF ExpectedAgentOrigin
  <2>2. AgentPort = IF lisEnv.agent = 0 THEN 3001 ELSE ParseListenPort(lisEnv.agent, 443)
    BY DEF AgentPort, ParseListenPort, IsPort
  <2>3. ExpectedAgentOrigin = Origin("proxy.example", AgentPort)
    BY <2>1, <2>2 DEF ExpectedAgentOrigin
  <2>4. ConsoleAgentOrigins = {Origin("proxy.example", AgentPort)}
    BY <2>1 DEF ConsoleAgentOrigins
  <2>. QED BY <2>3, <2>4 DEF ValidateAgentOrigin
<1>. QED BY <1>1, <1>2

\* AddressesFit, for any addresses of the machine and any numbers given as ports: the
\* address baked into an installer can be dialled and is the one checked later, what is
\* shown to other computers is not this one, and no header names a host.
THEOREM GivenAddressesFit == ListenSpec => []AddressesFit
<1>1. ListenInit => ListenInv
  <2>1. "unset" \in BindNames /\ "unset" \in EnvUrls
    BY DEF BindNames, EnvUrls
  <2>2. ASSUME NEW url \in EnvUrls, lisEnv = [bind |-> "unset", web |-> 0, agent |-> 0,
               explicit |-> "unset", public |-> url, addresses |-> Addresses]
        PROVE  ListenInv
    BY <2>1, <2>2 DEF ListenInv
  <2>. QED BY <2>2 DEF ListenInit, ListenInv
<1>2. ListenInv /\ [ListenNext]_lisVars => ListenInv'
  BY DEF ListenInv, ListenNext, AddressesChange, lisVars
<1>3. ListenInv => AddressesFit
  <2>. SUFFICES ASSUME ListenInv PROVE AddressesFit
    OBVIOUS
  <2>1. LanUrlsAreForOthers
    BY DEF LanUrlsAreForOthers, LanHosts, AdvertisedHosts, Loopback
  <2>2. HostIsNamed
    BY DEF HostIsNamed, RequestHost, Trusted
  <2>. QED BY <2>1, <2>2, DialableInstallers, AgreeingOrigins DEF AddressesFit
<1>. QED BY <1>1, <1>2, <1>3, PTL DEF ListenSpec

----------------------------------------------------------------------------
(* The rules about programs                                                *)
\* What the engine needs of the rules that match, to allow and to refuse
LEMMA AllowedBy ==
    ASSUME NEW rules, NEW p, NEW groups
    PROVE  EvaluateElevation(rules, p, groups, FALSE) = "allow" <=>
             /\ p.publisher # "" /\ p.name \notin HardBans
             /\ ~\E r \in rules : Matches(r, p, groups) /\ r.effect = "deny"
             /\ \E r \in rules : Matches(r, p, groups) /\ r.effect = "allow"
<1>. DEFINE matching == {r \in rules : Matches(r, p, groups)}
            Some(effect) == \E r \in matching : r.effect = effect
<1>1. /\ Some("deny") <=> \E r \in rules : Matches(r, p, groups) /\ r.effect = "deny"
      /\ Some("allow") <=> \E r \in rules : Matches(r, p, groups) /\ r.effect = "allow"
  OBVIOUS
<1>2. CASE p.publisher = ""
  BY <1>2 DEF EvaluateElevation
<1>3. CASE p.publisher # "" /\ p.name \in HardBans
  BY <1>3 DEF EvaluateElevation
<1>4. CASE p.publisher # "" /\ p.name \notin HardBans
  <2>1. EvaluateElevation(rules, p, groups, FALSE) =
          IF Some("deny") THEN "deny" ELSE IF Some("allow") THEN "allow" ELSE "pending"
    BY <1>4 DEF EvaluateElevation
  <2>. HIDE DEF Some
  <2>. QED BY <1>1, <1>4, <2>1
<1>. QED BY <1>2, <1>3, <1>4

\* A rule that covers a request, to the pages, matches it in the engine.
LEMMA LabelIsTrue == OnAllowlistIsAllowed
<1>. SUFFICES ASSUME NEW p \in Programs, Covered(p), ~Blocked(p),
                     ~\E r \in Rows : r.effect = "deny" /\ Matches(r, p, rulGroups)
              PROVE  Verdict(p, FALSE) = "allow"
  BY DEF OnAllowlistIsAllowed
<1>1. PICK r \in Rows : PolicyCovers(r, p)
  BY DEF Covered
<1>2. r.effect = "allow" /\ Matches(r, p, rulGroups)
  BY <1>1 DEF PolicyCovers, Matches, BindOk
<1>. QED BY <1>2, AllowedBy DEF Blocked, Verdict

\* The verdict of an engine that has one rule, a draft of the form
LEMMA OneRule ==
    ASSUME NEW rule, NEW p, NEW groups, p.publisher # "", ~rule.exception, rule.effect \in Effects
    PROVE  EvaluateElevation({rule}, p, groups, FALSE) =
             IF p.name \in HardBans THEN "deny"
             ELSE IF Matches(rule, p, groups)
                  THEN IF rule.effect = "require_approval" THEN "pending" ELSE rule.effect
                  ELSE "pending"
<1>. DEFINE matching == {r \in {rule} : Matches(r, p, groups)}
            Some(effect) == \E r \in matching : r.effect = effect
<1>1. CASE p.name \in HardBans
  BY <1>1 DEF EvaluateElevation
<1>2. CASE p.name \notin HardBans
  <2>1. EvaluateElevation({rule}, p, groups, FALSE) =
          IF Some("deny") THEN "deny" ELSE IF Some("allow") THEN "allow" ELSE "pending"
    BY <1>2 DEF EvaluateElevation
  <2>2. \A e : Some(e) <=> Matches(rule, p, groups) /\ rule.effect = e
    OBVIOUS
  <2>. HIDE DEF Some
  <2>. QED BY <1>2, <2>1, <2>2 DEF Effects
<1>. QED BY <1>1, <1>2

\* The verdict of an engine that has none
LEMMA NoRules ==
    ASSUME NEW p, NEW groups, p.publisher # ""
    PROVE  EvaluateElevation({}, p, groups, FALSE) = IF p.name \in HardBans THEN "deny" ELSE "pending"
<1>1. CASE p.name \in HardBans
  BY <1>1 DEF EvaluateElevation
<1>2. CASE p.name \notin HardBans
  BY <1>2 DEF EvaluateElevation
<1>. QED BY <1>1, <1>2

\* The trial and the engine, on a draft that becomes the only rule
LEMMA TrialIsTrue == PreviewIsEngine
<1>. SUFFICES ASSUME NEW groups \in SUBSET Groups, NEW d \in AllDrafts, NEW p \in Programs,
                     Accepted(FormRule(d)), p.publisher # ""
              PROVE  LET rule == FormRule(d)
                         says == Described(rule, p, groups)
                         does == EvaluateElevation({rule}, p, groups, FALSE)
                     IN  CASE says = "miss" -> does = EvaluateElevation({}, p, groups, FALSE)
                           [] says = "hard-banned" -> does = "deny"
                           [] says = "require_approval" -> does = "pending"
                           [] OTHER -> does = says
  BY DEF PreviewIsEngine
<1>. DEFINE rule == FormRule(d)
            says == Described(rule, p, groups)
            does == EvaluateElevation({rule}, p, groups, FALSE)
<1>1. rule.effect \in Effects /\ ~rule.exception /\ rule.bind \in {"all", "group"}
  BY DEF FormRule, AllDrafts
<1>2. rule.bind # "all" => rule.to # ""
  BY DEF Accepted
<1>p. /\ Probe(rule).hash = rule.hash /\ Probe(rule).publisher = rule.publisher
      /\ Probe(rule).name = rule.name /\ Probe(rule).pattern = rule.pattern
      /\ Probe(rule).effect = "allow" /\ Probe(rule).bind = "all"
  BY DEF FormRule, Probe
<1>. HIDE DEF rule
<1>3. PreviewMatches(rule, p, groups) <=> Matches(rule, p, groups)
  <2>1. ScopeHolds(rule, groups) <=> BindOk(rule, groups)
    BY <1>1, <1>2 DEF ScopeHolds, BindOk
  <2>2. PolicyCovers(Probe(rule), p) <=> /\ rule.hash = p.hash /\ rule.publisher = p.publisher
                                         /\ rule.name \in {"", p.name} /\ p.args \in rule.pattern
    BY <1>p DEF PolicyCovers
  <2>. QED BY <2>1, <2>2 DEF PreviewMatches, Matches
<1>4. EvaluateElevation({}, p, groups, FALSE) = IF p.name \in HardBans THEN "deny" ELSE "pending"
  BY NoRules
<1>5. does = IF p.name \in HardBans THEN "deny"
             ELSE IF Matches(rule, p, groups)
                  THEN IF rule.effect = "require_approval" THEN "pending" ELSE rule.effect
                  ELSE "pending"
  BY <1>1, OneRule
<1>6. says = IF ~Matches(rule, p, groups) THEN "miss"
             ELSE IF p.name \in HardBans THEN "hard-banned" ELSE rule.effect
  BY <1>3 DEF Described
<1>. HIDE DEF says, does
<1>7. (CASE says = "miss" -> does = EvaluateElevation({}, p, groups, FALSE)
         [] says = "hard-banned" -> does = "deny"
         [] says = "require_approval" -> does = "pending"
         [] OTHER -> does = says)
  BY <1>1, <1>4, <1>5, <1>6 DEF Effects
<1>. QED BY <1>7 DEF says, does, rule

\* What the table holds is never told apart, what waits is a program that was asked for.
RulesInv ==
    /\ DOMAIN rulRules = Slots
    /\ DOMAIN rulWaiting = Hashes
    /\ \A h \in Hashes : rulWaiting[h] \in Programs \cup {NoProgram}

\* No route or page writes anything else.
LEMMA RulesInvStep == RulesInv /\ [RulesNext]_rulVars => RulesInv'
<1>. SUFFICES ASSUME RulesInv, [RulesNext]_rulVars PROVE RulesInv'
  OBVIOUS
<1>1. ASSUME NEW i, NEW rule, Insert(i, rule), UNCHANGED rulWaiting PROVE RulesInv'
  BY <1>1 DEF Insert, RulesInv
<1>2. ASSUME NEW p \in Programs, NEW jit \in BOOLEAN, Evaluate(p, jit) PROVE RulesInv'
  <2>1. rulWaiting' = rulWaiting \/ rulWaiting' = [rulWaiting EXCEPT ![p.hash] = p]
    BY <1>2 DEF Evaluate
  <2>2. UNCHANGED rulRules
    BY <1>2 DEF Evaluate
  <2>. QED BY <2>1, <2>2 DEF RulesInv
<1>3. ASSUME NEW i \in Slots, NEW h \in Hashes, NEW scope, AllowFromRequest(i, h, scope) PROVE RulesInv'
  BY <1>3 DEF AllowFromRequest, Insert, RulesInv
<1>4. ASSUME NEW h \in Hashes, RequestDecided(h) PROVE RulesInv'
  BY <1>4 DEF RequestDecided, RulesInv
<1>5. ASSUME NEW i \in Slots, RemoveRule(i) PROVE RulesInv'
  BY <1>5 DEF RemoveRule, RulesInv
<1>6. CASE UNCHANGED <<rulRules, rulWaiting>>
  BY <1>6 DEF RulesInv
<1>. QED BY <1>1, <1>2, <1>3, <1>4, <1>5, <1>6
         DEF RulesNext, rulVars, SilentAllow, SubmitForm, PutRule, GroupsSynced

\* The table holds one rule more, so what it lets in and did not is let in by this one.
LEMMA OnlyWhatWasAsked ==
    ASSUME RulesInv, NEW i \in Slots, NEW h \in Hashes, NEW scope \in {"device", "all"},
           AllowFromRequest(i, h, scope), NEW p \in Programs,
           EvaluateElevation(Rows', p, rulGroups, FALSE) = "allow", Verdict(p, FALSE) # "allow"
    PROVE  SameQuestion(p, rulWaiting[h])
<1>. DEFINE asked == rulWaiting[h]
            rule == RuleFromRequest(asked, scope)
<1>1. asked \in Programs /\ rulRules[i] = NoRule /\ rulRules' = [rulRules EXCEPT ![i] = rule]
  BY DEF AllowFromRequest, Insert, RulesInv
<1>2. rule.hash = asked.hash /\ rule.publisher = asked.publisher /\ rule.name = asked.name
      /\ rule.pattern = {asked.args}
  BY DEF RuleFromRequest, PinnedPattern
<1>3. asked.name # ""
  BY <1>1, FilesHaveNames DEF Names
<1>. HIDE DEF rule, asked
<1>4. Rows \subseteq Rows' /\ Rows' \subseteq Rows \cup {rule}
  BY <1>1 DEF Rows, RulesInv
<1>5. PICK rows : rows = Rows'
  OBVIOUS
<1>6. /\ p.publisher # "" /\ p.name \notin HardBans
      /\ ~\E r \in rows : Matches(r, p, rulGroups) /\ r.effect = "deny"
      /\ \E r \in rows : Matches(r, p, rulGroups) /\ r.effect = "allow"
  <2>1. EvaluateElevation(rows, p, rulGroups, FALSE) = "allow"
    BY <1>5
  <2>. QED BY <2>1, AllowedBy
<1>7. ~(/\ p.publisher # "" /\ p.name \notin HardBans
        /\ ~\E r \in Rows : Matches(r, p, rulGroups) /\ r.effect = "deny"
        /\ \E r \in Rows : Matches(r, p, rulGroups) /\ r.effect = "allow")
  BY AllowedBy DEF Verdict
<1>8. Matches(rule, p, rulGroups)
  BY <1>4, <1>5, <1>6, <1>7
<1>9. SameQuestion(p, asked)
  BY <1>2, <1>3, <1>8 DEF Matches, SameQuestion
<1>. QED BY <1>9 DEF asked

\* PagesTellTheEngine, for any programs, groups, rules and expressions: the trial of a
\* draft and the label beside a request, both worked out by the matcher of the pages,
\* say what evaluateElevation decides.
THEOREM PagesAreTrue == RulesSpec => []PagesTellTheEngine
BY TrialIsTrue, LabelIsTrue, PTL DEF PagesTellTheEngine

\* The sentence of AllowIsExact, of one step
AllowsAsked ==
    \A i \in Slots, h \in Hashes : (\E scope \in {"device", "all"} : AllowFromRequest(i, h, scope))
       => \A p \in Programs :
             EvaluateElevation(Rows', p, rulGroups, FALSE) = "allow" /\ Verdict(p, FALSE) # "allow"
                => SameQuestion(p, rulWaiting[h])

\* AllowIsExact, for any programs, rules and groups: a rule made of a request by its
\* button lets in the same file with the same arguments, and nothing else it did not
\* find let in before.
THEOREM AllowsNothingElse == RulesSpec => AllowIsExact
<1>1. RulesInit => RulesInv
  BY DEF RulesInit, RulesInv
<1>2. RulesInv /\ [RulesNext]_rulVars => RulesInv'
  BY RulesInvStep
<1>3. RulesInv => [AllowsAsked]_rulVars
  BY OnlyWhatWasAsked DEF AllowsAsked
<1>. QED BY <1>1, <1>2, <1>3, PTL DEF RulesSpec, AllowIsExact, AllowsAsked

----------------------------------------------------------------------------
(* Who hears of a device                                                   *)

Pages ==
    [source : {"connecting", "open"}, event : BOOLEAN, again : BOOLEAN,
     fetch : {NoFetch, Asked, "drawn"}, read : [online : BOOLEAN, mode : Modes],
     shows : [online : BOOLEAN, mode : Modes]]

\* The page and the setting are of their types; of the PC only its fields matter.
HubInv ==
    /\ hubPage \in Pages /\ hubMode \in Modes /\ hubReplay \in BOOLEAN
    /\ DOMAIN hubPc = {"socket", "tray", "offer", "aside"}
    /\ PageWillHear

\* What a page has that does not show what there is.
Hears(page) == page.event \/ page.source = "connecting" \/ page.again \/ page.fetch = Asked

LEMMA HubInvInit == HubInit => HubInv
<1>. SUFFICES ASSUME HubInit PROVE HubInv
  OBVIOUS
<1>1. hubPage \in Pages /\ hubMode \in Modes
  BY DEF HubInit, Pages, Picture, Modes
<1>2. hubPc.socket = NoSocket /\ DOMAIN hubPc = {"socket", "tray", "offer", "aside"}
  BY DEF HubInit
<1>. QED BY <1>1, <1>2 DEF HubInv, HubInit, PageWillHear, PcLinked

\* Whatever is announced, every page that is open has an event on the way.
LEMMA Announced ==
    ASSUME HubInv, PublishConsole
    PROVE  hubPage' \in Pages /\ hubReplay' \in BOOLEAN /\ Hears(hubPage')
BY DEF HubInv, PublishConsole, Pages, Hears

\* A step that leaves the setting, the sockets and the page to themselves.
LEMMA PageStands ==
    ASSUME HubInv, UNCHANGED <<hubSockets, hubMode, hubReplay, hubPage>>
    PROVE  hubReplay => Coming' = Picture' \/ Hears(hubPage')
BY DEF HubInv, PageWillHear, Coming, Picture, Hears

\* A step of the page itself
LEMMA PageMoves ==
    ASSUME HubInv, NEW page, page \in Pages, Page(page),
           hubReplay => (IF page.fetch = "drawn" THEN page.read ELSE page.shows) = Picture \/ Hears(page)
    PROVE  HubInv'
<1>1. hubPage' = page /\ UNCHANGED <<hubSockets, hubBeat, hubMode, hubReplay, hubPc, hubWire>>
  BY DEF Page
<1>. QED BY <1>1 DEF HubInv, PageWillHear, Coming, Picture, Hears, PcLinked

LEMMA HubInvStep == HubInv /\ [HubNext]_hubVars => HubInv'
<1>. SUFFICES ASSUME HubInv, [HubNext]_hubVars PROVE HubInv'
  OBVIOUS
<1>0. /\ hubPage \in Pages /\ hubMode \in Modes /\ Picture \in [online : BOOLEAN, mode : Modes]
      /\ PcLinked => hubPc.socket \in hubSockets
  BY DEF HubInv, Picture, PageWillHear
<1>1. ASSUME NEW s \in Sockets, DeviceConnects(s) PROVE HubInv'
  <2>1. hubPc'.socket = s /\ DOMAIN hubPc' = {"socket", "tray", "offer", "aside"} /\ s \in hubSockets'
    BY <1>1 DEF DeviceConnects, HubInv
  <2>2. PublishConsole /\ hubMode' = hubMode
    BY <1>1 DEF DeviceConnects
  <2>. QED BY <2>1, <2>2, Announced DEF HubInv, PageWillHear, Hears, PcLinked
<1>2. ASSUME NEW s \in Sockets, SocketCloses(s) PROVE HubInv'
  <2>1. PublishConsole /\ hubMode' = hubMode /\ hubSockets' = hubSockets \ {s}
    BY <1>2 DEF SocketCloses, Unregister
  <2>2. DOMAIN hubPc' = {"socket", "tray", "offer", "aside"} /\ (PcLinked' => hubPc'.socket \in hubSockets')
    BY <1>0, <1>2, <2>1 DEF SocketCloses, HubInv, PcLinked, NoSocket
  <2>. QED BY <2>1, <2>2, Announced DEF HubInv, PageWillHear, Hears
<1>3. CASE PcVanishes
  <2>1. DOMAIN hubPc' = {"socket", "tray", "offer", "aside"} /\ ~PcLinked'
    BY <1>3 DEF PcVanishes, HubInv, PcLinked
  <2>. QED BY <1>3, <2>1, PageStands DEF PcVanishes, HubInv, PageWillHear, Hears
<1>4. CASE Beat \/ BeatAges
  BY <1>4, PageStands DEF Beat, BeatAges, HubInv, PageWillHear, Hears, PcLinked
<1>5. CASE PcHears \/ NoteUacOfferFromRpc \/ TrayStartsOrEnds
  <2>1. DOMAIN hubPc' = {"socket", "tray", "offer", "aside"} /\ hubPc'.socket = hubPc.socket
    BY <1>5 DEF PcHears, NoteUacOfferFromRpc, TrayStartsOrEnds, HubInv
  <2>2. UNCHANGED <<hubSockets, hubMode, hubReplay, hubPage>>
    BY <1>5 DEF PcHears, NoteUacOfferFromRpc, TrayStartsOrEnds
  <2>. QED BY <1>0, <2>1, <2>2, PageStands DEF HubInv, PageWillHear, Hears, PcLinked
<1>6. ASSUME NEW m \in Modes, SetMode(m) PROVE HubInv'
  <2>1. PublishConsole /\ hubMode' = m /\ UNCHANGED <<hubSockets, hubPc>>
    BY <1>6 DEF SetMode
  <2>. QED BY <1>0, <2>1, Announced DEF HubInv, PageWillHear, Hears, PcLinked
<1>7. CASE AnythingElse
  <2>1. PublishConsole /\ UNCHANGED <<hubMode, hubSockets, hubPc>>
    BY <1>7 DEF AnythingElse
  <2>. QED BY <1>0, <2>1, Announced DEF HubInv, PageWillHear, Hears, PcLinked
<1>8. CASE ConsoleRestarts
  <2>1. /\ hubReplay' = FALSE /\ hubMode' = hubMode /\ hubPage' \in Pages
        /\ DOMAIN hubPc' = {"socket", "tray", "offer", "aside"} /\ hubPc'.socket = NoSocket
    BY <1>0, <1>8 DEF ConsoleRestarts, HubInv, Pages
  <2>. QED BY <2>1, <1>0 DEF HubInv, PageWillHear, PcLinked
<1>9. CASE SourceOpens
  <2>1. PICK page : page = [hubPage EXCEPT !.source = "open", !.event = hubReplay]
    OBVIOUS
  <2>2. page \in Pages /\ (hubReplay => Hears(page)) /\ Page(page)
    BY <1>0, <1>9, <2>1 DEF SourceOpens, HubInv, Pages, Hears
  <2>. QED BY <2>2, PageMoves
<1>10. CASE SourceDrops
  <2>1. PICK page : page = [hubPage EXCEPT !.source = "connecting", !.event = FALSE]
    OBVIOUS
  <2>2. page \in Pages /\ Hears(page) /\ Page(page)
    BY <1>0, <1>10, <2>1 DEF SourceDrops, Pages, Hears
  <2>. QED BY <2>2, PageMoves
<1>11. CASE PageHears
  <2>1. PICK page : page = [hubPage EXCEPT !.event = FALSE, !.fetch = IF @ = NoFetch THEN Asked ELSE @,
                                           !.again = hubPage.fetch # NoFetch]
    OBVIOUS
  <2>2. page \in Pages /\ Hears(page) /\ Page(page)
    BY <1>0, <1>11, <2>1 DEF PageHears, Pages, Hears
  <2>. QED BY <2>2, PageMoves
<1>12. CASE PageIsDrawn
  <2>1. PICK page : page = [hubPage EXCEPT !.fetch = "drawn", !.read = Picture]
    OBVIOUS
  <2>2. page \in Pages /\ page.fetch = "drawn" /\ page.read = Picture /\ Page(page)
    BY <1>0, <1>12, <2>1 DEF PageIsDrawn, Pages
  <2>. QED BY <2>2, PageMoves
<1>13. CASE PageArrives
  <2>1. PICK page : page = [hubPage EXCEPT !.shows = hubPage.read, !.again = FALSE,
                                           !.fetch = IF hubPage.again THEN Asked ELSE NoFetch]
    OBVIOUS
  <2>2. /\ page \in Pages /\ page.shows = hubPage.read /\ page.fetch # "drawn" /\ Page(page)
        /\ page.source = hubPage.source /\ page.event = hubPage.event
        /\ hubPage.again => page.fetch = Asked
    BY <1>0, <1>13, <2>1 DEF PageArrives, Pages, NoFetch, Asked
  <2>3. hubReplay => page.shows = Picture \/ Hears(page)
    BY <1>13, <2>2 DEF PageArrives, HubInv, PageWillHear, Coming, Hears, Asked
  <2>. QED BY <2>2, <2>3, PageMoves
<1>14. CASE UNCHANGED hubVars
  BY <1>14, PageStands DEF hubVars, HubInv, PageWillHear, Hears, PcLinked
<1>. QED BY <1>1, <1>2, <1>3, <1>4, <1>5, <1>6, <1>7, <1>8, <1>9, <1>10, <1>11, <1>12, <1>13, <1>14 DEF HubNext

\* Through drops, restarts, half-open sockets and refreshes under way, a page that
\* does not show what there is has something to come that will make it look; and
\* the console lists the socket its PC speaks through.
THEOREM NoPageIsForgotten == HubSpec => []PageWillHear
<1>1. HubInv => PageWillHear
  BY DEF HubInv
<1>. QED BY <1>1, HubInvInit, HubInvStep, PTL DEF HubSpec
=============================================================================
