---------------------------- MODULE UpdateCheck ----------------------------
(***************************************************************************)
(* How the console learns of a newer release of itself (self-update.ts,    *)
(* self-update-service.ts).  Sweep ticks and requests share one cached     *)
(* verdict and one back-off; each reads the channel and the verdict, asks  *)
(* GitHub, and writes when the answer comes.  A release is its tag, whether *)
(* it is a prerelease, and the installers it carries for this platform.    *)
(* Not modelled: the names and URLs of the installers, timestamps.         *)
(***************************************************************************)
EXTENDS Integers, Sequences, FiniteSets

CONSTANTS Callers,      \* concurrent calls of checkForUpdate
          Releases,     \* what GitHub may list
          Installed,    \* this console's version: <<base, build>>
          AuditWindow,  \* the announcements looked back on: 10 in the code
          MaxAudit      \* BOUND: announcements in the log at one time

VARIABLES
    chkChannel,   \* setup_state.update_channel
    chkCache,     \* the cached verdict: none, or one
    chkLimited,   \* rateLimitedUntilMs lies ahead
    chkCalls,     \* the calls in flight: what each read before it asked
    chkAudit,     \* the versions of the console.update.available rows, oldest first
    chkTimers     \* the sweep's timers

chkVars == <<chkChannel, chkCache, chkLimited, chkCalls, chkAudit, chkTimers>>

Channels == {"official", "nightly"}

\* tagVersion: sanitizeClientVersion keeps three segments, so no build is left.
TagVersion(tag) == <<tag[1], 0>>

\* compareVersions looks at the base, compareFullVersions at the build as well.
BaseNewer(a, b) == a[1] > b[1]
FullNewer(a, b) == a[1] > b[1] \/ (a[1] = b[1] /\ a[2] > b[2])
IsUpdateAvailable(version, channel) ==
    IF channel = "nightly" THEN FullNewer(version, Installed) ELSE BaseNewer(version, Installed)

\* matchPlatformAsset: of the two Windows installers the EXE is preferred.
MatchAsset(release) == IF "exe" \in release.assets THEN "exe" ELSE "msi"

\* pickLatestForPlatform, the rows before the sort and after it
Eligible(listed, channel) ==
    {r \in listed : /\ ~r.draft /\ r.assets # {}
                    /\ channel = "nightly" \/ ~r.prerelease}
RanksBelow(a, b, channel) ==
    \/ IF channel = "nightly" THEN FullNewer(TagVersion(b.tag), TagVersion(a.tag))
                              ELSE BaseNewer(TagVersion(b.tag), TagVersion(a.tag))
    \/ a.tag[1] = b.tag[1] /\ ~a.prerelease /\ b.prerelease
PickLatest(listed, channel) ==
    {r \in Eligible(listed, channel) :
        \A other \in Eligible(listed, channel) : ~RanksBelow(r, other, channel)}

\* candidateToCheck asks isUpdateAvailable without naming the channel.
CandidateToCheck(picked, channel) ==
    LET version == IF picked = {} THEN <<0, 0>> ELSE TagVersion((CHOOSE r \in picked : TRUE).tag)
    IN  [channel |-> channel, version |-> version, error |-> FALSE,
         available |-> picked # {} /\ IsUpdateAvailable(version, "official")]
NoVerdict(channel) ==
    [channel |-> channel, version |-> <<0, 0>>, error |-> TRUE, available |-> FALSE]

CheckInit ==
    /\ chkChannel = "official" /\ chkCache = {} /\ chkLimited = FALSE
    /\ chkCalls = [c \in Callers |-> {}]
    /\ chkAudit = <<>> /\ chkTimers = {}

----------------------------------------------------------------------------
(* checkForUpdate, up to its await and after it                            *)
\* During the back-off a cached verdict is the answer, and nothing is asked.
MayAsk == ~(chkLimited /\ chkCache # {})

Asks(c, channel) ==
    /\ chkCalls[c] = {}
    /\ chkCalls' = IF MayAsk
                   THEN [chkCalls EXCEPT ![c] = {[channel |-> channel, previous |-> chkCache]}]
                   ELSE chkCalls

\* The route of Check now, and of an apply, which checks again before it acts.
BeginCheck(c) ==
    /\ Asks(c, chkChannel)
    /\ UNCHANGED <<chkChannel, chkCache, chkLimited, chkAudit, chkTimers>>

\* PUT /api/configuration/update/channel saves, then checks.
SaveChannel(c, channel) ==
    /\ chkChannel' = channel
    /\ Asks(c, channel)
    /\ UNCHANGED <<chkCache, chkLimited, chkAudit, chkTimers>>

\* MUTANT: the log is read oldest first.
AnnouncedFirst(version) == \E i \in DOMAIN chkAudit : i <= AuditWindow /\ chkAudit[i] = version

\* The audit log is asked for its last rows of this kind.
HasAnnouncedBefore(version) ==
    \E i \in DOMAIN chkAudit : i > Len(chkAudit) - AuditWindow /\ chkAudit[i] = version
AnnounceIfChanged(previous, next) ==
    LET changed == \A p \in previous : p.version # next.version \/ p.available # next.available
    IN  chkAudit' = IF changed /\ next.available /\ ~HasAnnouncedBefore(next.version)
                    THEN Append(chkAudit, next.version) ELSE chkAudit

Answered(c) ==
    \E call \in chkCalls[c], listed \in SUBSET Releases :
        \E picked \in SUBSET PickLatest(listed, call.channel) :
            /\ Cardinality(picked) = IF PickLatest(listed, call.channel) = {} THEN 0 ELSE 1
            /\ LET next == CandidateToCheck(picked, call.channel)
               IN  AnnounceIfChanged(call.previous, next) /\ chkCache' = {next}
            /\ Len(chkAudit') <= MaxAudit
            /\ chkCalls' = [chkCalls EXCEPT ![c] = {}]
            /\ UNCHANGED <<chkChannel, chkLimited, chkTimers>>

\* No answer, or the rate limit: the verdict read before the call is kept.
Unanswered(c) ==
    \E call \in chkCalls[c], limited \in BOOLEAN :
        /\ chkLimited' = (chkLimited \/ limited)
        /\ chkCache' = IF call.previous = {} THEN {NoVerdict(call.channel)}
                       ELSE {[p EXCEPT !.error = TRUE] : p \in call.previous}
        /\ chkCalls' = [chkCalls EXCEPT ![c] = {}]
        /\ UNCHANGED <<chkChannel, chkAudit, chkTimers>>

\* pruneAudit, the daily sweep of the audit log: the oldest rows go.
PruneAudit ==
    /\ \E n \in 1..Len(chkAudit) : chkAudit' = SubSeq(chkAudit, n + 1, Len(chkAudit))
    /\ UNCHANGED <<chkChannel, chkCache, chkLimited, chkCalls, chkTimers>>

CooldownEnds ==
    /\ chkLimited /\ chkLimited' = FALSE
    /\ UNCHANGED <<chkChannel, chkCache, chkCalls, chkAudit, chkTimers>>

----------------------------------------------------------------------------
(* The sweep: a delayed first tick, then one every six hours               *)
StartUpdateSweep ==
    /\ chkTimers = {} /\ chkTimers' = {"boot"}
    /\ UNCHANGED <<chkChannel, chkCache, chkLimited, chkCalls, chkAudit>>

Tick(c) ==
    /\ chkTimers # {} /\ chkTimers' = {"sweep"}
    /\ Asks(c, chkChannel)
    /\ UNCHANGED <<chkChannel, chkCache, chkLimited, chkAudit>>

StopUpdateSweep ==
    /\ chkTimers # {} /\ chkTimers' = {}
    /\ UNCHANGED <<chkChannel, chkCache, chkLimited, chkCalls, chkAudit>>

----------------------------------------------------------------------------
CheckNext ==
    \/ \E c \in Callers : BeginCheck(c) \/ Answered(c) \/ Unanswered(c) \/ Tick(c)
    \/ \E c \in Callers, channel \in Channels : SaveChannel(c, channel)
    \/ PruneAudit \/ CooldownEnds \/ StartUpdateSweep \/ StopUpdateSweep

CheckSpec == CheckInit /\ [][CheckNext]_chkVars

----------------------------------------------------------------------------
\* Whoever asked, in whatever order the answers come, though releases are
\* withdrawn, the channel goes to and fro and old rows are pruned: of two rows of
\* the log that announce one version, AuditWindow rows of others lie between.  The
\* comment of hasAnnouncedBefore promises "once per NEW version only"; with a log
\* that is looked back on for ten rows this is what is left of it.
AnnouncementsApart ==
    \A i, j \in DOMAIN chkAudit :
        i < j /\ j - i <= AuditWindow => chkAudit[i] # chkAudit[j]

\* The verdict kept is of the channel the administrator chose, once every call
\* is answered.  Refuted: the slower answer stays, and it is of the older channel.
VerdictOfChannel ==
    (\A c \in Callers : chkCalls[c] = {}) =>
        \A verdict \in chkCache : verdict.channel = chkChannel
=============================================================================
