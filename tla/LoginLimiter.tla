---------------------------- MODULE LoginLimiter ----------------------------
(***************************************************************************)
(* The limiters of rate-limit.ts: sign-ins, by address and by address and  *)
(* user, and the requests of a device.  Times are kept as what is left of  *)
(* them; one address is modelled, every other has its own buckets.         *)
(***************************************************************************)
EXTENDS Naturals

CONSTANTS Logins,           \* the user names tried from the address
          MaxAttempts, LoginWindow, Cooldown, MaxLevel,    \* of the sign-ins
          PruneEvery,
          MaxRequests, DeviceWindow                   \* of a device

ASSUME LimitsArePositive ==
    /\ MaxAttempts \in Nat \ {0} /\ LoginWindow \in Nat \ {0} /\ Cooldown \in Nat \ {0}
    /\ MaxLevel \in Nat \ {0} /\ PruneEvery \in Nat \ {0}
    /\ MaxRequests \in Nat \ {0} /\ DeviceWindow \in Nat \ {0}

VARIABLES
    limBuckets,   \* loginBuckets, by key
    limPruned,    \* time since the last pruning
    limAnswer,    \* the last answer: for whom, refused, and what is left of the wait
    limDevice     \* the bucket of a device

limVars == <<limBuckets, limPruned, limAnswer, limDevice>>

\* The key of the address alone, which is no key of a user at it
Address == "address"
ASSUME AddressIsNoUser == Address \notin Logins
Keys == {Address} \cup Logins
NoBucket == [there |-> FALSE, count |-> 0, reset |-> 0, blocked |-> 0, level |-> 0]
NoAnswer == [to |-> Address, refused |-> FALSE, wait |-> 0]
Before(n) == IF n = 0 THEN 0 ELSE n - 1
Larger(m, n) == IF m > n THEN m ELSE n

LimiterInit ==
    /\ limBuckets = [k \in Keys |-> NoBucket]
    /\ limPruned = PruneEvery
    /\ limAnswer = NoAnswer
    /\ limDevice = [count |-> 0, reset |-> 0]

----------------------------------------------------------------------------
\* MUTANT: a bucket is dropped with its window.
PrunedByWindow(buckets) == [k \in Keys |-> IF buckets[k].reset = 0 THEN NoBucket ELSE buckets[k]]

\* A bucket is dropped once neither its window nor its cool-down runs.
Pruned(buckets) ==
    [k \in Keys |-> IF buckets[k].reset = 0 /\ buckets[k].blocked = 0 THEN NoBucket ELSE buckets[k]]

\* The window restarts; a cool-down and its level go on.
InWindow(b) ==
    IF b.there /\ b.reset > 0 THEN b
    ELSE [b EXCEPT !.there = TRUE, !.count = 0, !.reset = LoginWindow]

\* attemptLoginKey: still blocked, over the limit, or counted
Trips(b) == InWindow(b).count >= MaxAttempts
Attempted(b) ==
    LET w == InWindow(b)
        level == IF w.level < MaxLevel THEN w.level + 1 ELSE MaxLevel
    IN  CASE w.blocked > 0 -> w
          [] w.blocked = 0 /\ Trips(b) ->
                [w EXCEPT !.level = level, !.blocked = Cooldown * 2 ^ (level - 1)]
          [] OTHER -> [w EXCEPT !.count = @ + 1]

\* checkLoginRateLimit; a right password forgets both buckets.
SignIn(name, right) ==
    LET old == IF limPruned >= PruneEvery THEN Pruned(limBuckets) ELSE limBuckets
        wait == Larger(old[Address].blocked, old[name].blocked)
        address == [old EXCEPT ![Address] = Attempted(@)]
        both == [address EXCEPT ![name] = Attempted(@)]
    IN  /\ limPruned' = IF limPruned >= PruneEvery THEN 0 ELSE limPruned
        /\ \/ /\ wait > 0 /\ ~right
              /\ limBuckets' = old
              /\ limAnswer' = [to |-> name, refused |-> TRUE, wait |-> wait]
           \/ /\ wait = 0 /\ Trips(old[Address]) /\ ~right
              /\ limBuckets' = address
              /\ limAnswer' = [to |-> name, refused |-> TRUE, wait |-> address[Address].blocked]
           \/ /\ wait = 0 /\ ~Trips(old[Address]) /\ Trips(old[name]) /\ ~right
              /\ limBuckets' = both
              /\ limAnswer' = [to |-> name, refused |-> TRUE, wait |-> both[name].blocked]
           \/ /\ wait = 0 /\ ~Trips(old[Address]) /\ ~Trips(old[name])
              /\ limBuckets' = IF right THEN [both EXCEPT ![Address] = NoBucket, ![name] = NoBucket]
                               ELSE both
              /\ limAnswer' = [NoAnswer EXCEPT !.to = name]
        /\ UNCHANGED limDevice

\* checkDeviceRateLimit
DeviceAsks ==
    LET b == IF limDevice.reset = 0 THEN [count |-> 0, reset |-> DeviceWindow] ELSE limDevice
    IN  /\ b.count < MaxRequests
        /\ limDevice' = [b EXCEPT !.count = @ + 1]
        /\ UNCHANGED <<limBuckets, limPruned, limAnswer>>

\* A restart of the console forgets everything.
LimiterRestarts ==
    /\ limBuckets' = [k \in Keys |-> NoBucket] /\ limPruned' = PruneEvery
    /\ limDevice' = [count |-> 0, reset |-> 0] /\ limAnswer' = NoAnswer

LimiterTick ==
    /\ limBuckets' = [k \in Keys |->
          [limBuckets[k] EXCEPT !.reset = Before(@), !.blocked = Before(@)]]
    /\ limPruned' = IF limPruned < PruneEvery THEN limPruned + 1 ELSE limPruned
    /\ limAnswer' = [limAnswer EXCEPT !.wait = Before(@)]
    /\ limDevice' = [limDevice EXCEPT !.reset = Before(@)]

LimiterNext ==
    \/ \E name \in Logins, right \in BOOLEAN : SignIn(name, right)
    \/ DeviceAsks \/ LimiterRestarts \/ LimiterTick

LimiterSpec == LimiterInit /\ [][LimiterNext]_limVars

----------------------------------------------------------------------------
\* A refusal holds for as long as it says (Retry-After), and asking again before
\* that neither shortens nor lengthens it: not when the window of attempts ends
\* in between, nor when the buckets are pruned.  After it, a user at an address
\* with others may be refused anew, when the bucket of the address trips.
RefusalHolds ==
    [][limAnswer.refused /\ limAnswer.wait > 0 /\ limAnswer'.to = limAnswer.to
          => limAnswer'.refused /\ limAnswer'.wait <= limAnswer.wait]_limVars
=============================================================================
