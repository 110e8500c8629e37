---------------------------- MODULE ProgramRules ----------------------------
(***************************************************************************)
(* The rules about programs: the policies table and its routes, the        *)
(* verdict on a program (policy.ts, evaluate.ts), the risk it is shown     *)
(* with, the page that writes a rule by hand and tries it on recent        *)
(* requests, and the button that makes a rule of a request.                *)
(*                                                                         *)
(* One user of the directory at one PC asks.  A hash, a publisher and a    *)
(* file name stand for all their spellings in other cases; an argument     *)
(* pattern is the set of arguments it matches.  Arguments have no space    *)
(* around them.  Not modelled: the names of rules and which of two allow   *)
(* rules says whether children are elevated.  What becomes of a request is *)
(* RequestServer.                                                          *)
(***************************************************************************)
EXTENDS Naturals, FiniteSets

CONSTANTS
    Programs,      \* what may be started: hash, publisher, name, args, signs of danger
    HardBans,      \* names of shells and scripting hosts
    Groups,        \* of the directory
    Expressions,   \* raw expressions, and the arguments each matches
    Drafts,        \* what administrators write in the form
    MaxRules       \* BOUND: rows of the policies table

VARIABLES
    rulRules,      \* the table: slots, NoRule where there is no row
    rulGroups,     \* the user's groups
    rulWaiting,    \* by hash, the program of the pending row, if there is one
    rulAnswer      \* the last answer to the PC

rulVars == <<rulRules, rulGroups, rulWaiting, rulAnswer>>

Effects == {"allow", "deny", "require_approval"}
Hashes == {p.hash : p \in Programs}
Names == {p.name : p \in Programs}
Args == {p.args : p \in Programs}
AnyArgs == Args
Broken == {"not an expression"}
NoRule == [effect |-> "none"]
NoProgram == [hash |-> ""]
Slots == 1..MaxRules

\* A file has a name; a rule without one is for any name.
ASSUME FilesHaveNames == "" \notin Names

----------------------------------------------------------------------------
(* The verdict                                                             *)
BindOk(rule, groups) ==
    CASE rule.bind = "all" -> TRUE
      [] rule.bind = "user" -> rule.to = "this user"
      [] rule.bind = "group" -> rule.to \in groups
      [] rule.bind = "device" -> rule.to = "this PC"

Matches(rule, program, groups) ==
    /\ rule.hash = program.hash /\ rule.publisher = program.publisher
    /\ rule.name \in {"", program.name}
    /\ program.args \in rule.pattern
    /\ BindOk(rule, groups)

EvaluateElevation(rules, program, groups, jit) ==
    LET matching == {r \in rules : Matches(r, program, groups)}
        SomeRule(effect) == \E r \in matching : r.effect = effect
    IN  CASE program.publisher = "" -> "deny"
          [] program.publisher # "" /\ jit -> "allow"
          [] program.publisher # "" /\ ~jit /\ program.name \in HardBans ->
                IF \E r \in matching : r.exception /\ r.effect = "require_approval"
                THEN "pending" ELSE "deny"
          [] OTHER -> IF SomeRule("deny") THEN "deny"
                      ELSE IF SomeRule("allow") THEN "allow" ELSE "pending"

Rows == {rulRules[i] : i \in Slots} \ {NoRule}
Verdict(program, jit) == EvaluateElevation(Rows, program, rulGroups, jit)

\* assessRisk: the worst of what is said of the program.
Risk(program, jit) ==
    CASE program.name \in HardBans \/ program.signs \cap {"lolbin", "script", "encoded"} # {} ->
            "critical"
      [] program.name \notin HardBans /\ program.signs \cap {"lolbin", "script", "encoded"} = {}
         /\ (jit \/ program.publisher = "" \/ "writable place" \in program.signs) -> "high"
      [] OTHER -> "low"

----------------------------------------------------------------------------
(* Rules                                                                   *)
\* What the routes accept: POST, and PUT of an existing row.
Accepted(rule) ==
    /\ rule.pattern # Broken
    /\ rule.hash # "" /\ rule.publisher # ""
    /\ ~(rule.name \in HardBans /\ rule.effect = "allow")
    /\ ~(rule.exception /\ rule.effect = "allow")
    /\ rule.bind # "all" => rule.to # ""

\* A draft of the form
ArgumentPattern(text, mode) ==
    IF text = "" THEN AnyArgs ELSE IF mode = "literal" THEN {text} ELSE Expressions[text]
FormRule(d) ==
    [effect |-> d.effect, hash |-> d.hash, publisher |-> d.publisher, name |-> d.name,
     pattern |-> ArgumentPattern(d.text, d.mode),
     bind |-> d.bind, to |-> IF d.bind = "all" THEN "" ELSE d.to, exception |-> FALSE]

\* MUTANT: no arguments mean any.
PinnedUnlessEmpty(args) == IF args = "" THEN AnyArgs ELSE {args}

\* A rule made of a request: its arguments and no others, here or everywhere.
PinnedPattern(args) == {args}
RuleFromRequest(program, scope) ==
    [effect |-> "allow", hash |-> program.hash, publisher |-> program.publisher,
     name |-> program.name, pattern |-> PinnedPattern(program.args),
     bind |-> scope, to |-> IF scope = "device" THEN "this PC" ELSE "", exception |-> FALSE]

----------------------------------------------------------------------------
(* What the pages say                                                      *)
\* allowPolicyCoversRequest, the pages' own matcher
PolicyCovers(rule, program) ==
    /\ rule.effect = "allow"
    /\ rule.hash = program.hash /\ rule.publisher = program.publisher
    /\ rule.name \in {"", program.name}
    /\ program.args \in rule.pattern
    /\ \/ rule.bind = "all"
       \/ rule.bind = "device" /\ rule.to = "this PC"

ScopeHolds(rule, groups) ==
    CASE rule.bind = "all" -> TRUE
      [] rule.bind = "device" -> rule.to = "this PC"
      [] OTHER -> rule.to # "" /\ rule.to \in groups

\* MUTANT: bound as the draft is.
ProbeBound(rule) == [rule EXCEPT !.effect = "allow", !.exception = FALSE]

\* The probe is the draft as an allow rule for everyone.
Probe(rule) == [rule EXCEPT !.effect = "allow", !.bind = "all", !.to = "", !.exception = FALSE]
PreviewMatches(rule, program, groups) ==
    PolicyCovers(Probe(rule), program) /\ ScopeHolds(rule, groups)
Described(rule, program, groups) ==
    CASE ~PreviewMatches(rule, program, groups) -> "miss"
      [] PreviewMatches(rule, program, groups) /\ program.name \in HardBans -> "hard-banned"
      [] OTHER -> rule.effect

\* The button beside a request: on the allowlist, impossible, or a choice.
Covered(program) == \E r \in Rows : PolicyCovers(r, program)
Blocked(program) == program.publisher = "" \/ program.name \in HardBans
Scopes(program) == IF Covered(program) \/ Blocked(program) THEN {} ELSE {"device", "all"}

----------------------------------------------------------------------------
RulesInit ==
    /\ rulRules = [i \in Slots |-> NoRule]
    /\ rulGroups \in SUBSET Groups
    /\ rulWaiting = [h \in Hashes |-> NoProgram]
    /\ rulAnswer = [decision |-> "none"]

\* A pending row of the same program stands for this question too, as it is.
Evaluate(program, jit) ==
    LET verdict == Verdict(program, jit)
        joins == rulWaiting[program.hash] # NoProgram
    IN  /\ rulAnswer' = [decision |-> verdict, risk |-> Risk(program, jit),
                         ticket |-> IF verdict # "allow" THEN "none"
                                    ELSE IF jit THEN "jit" ELSE "elevate"]
        /\ rulWaiting' = IF verdict = "pending" /\ ~joins
                         THEN [rulWaiting EXCEPT ![program.hash] = program] ELSE rulWaiting
        /\ UNCHANGED <<rulRules, rulGroups>>

\* The watcher's question: nothing is written, and a JIT window does not count.
SilentAllow(program, jit) ==
    /\ rulAnswer' = [decision |-> IF ~jit /\ Verdict(program, FALSE) = "allow"
                                  THEN "silent" ELSE "not silent"]
    /\ UNCHANGED <<rulRules, rulGroups, rulWaiting>>

Insert(i, rule) ==
    /\ Accepted(rule) /\ rulRules' = [rulRules EXCEPT ![i] = rule]

\* The form refuses a group that was not chosen, and a broken expression.
SubmitForm(i, d) ==
    /\ rulRules[i] = NoRule
    /\ d.bind = "group" => d.to # ""
    /\ Insert(i, FormRule(d))
    /\ UNCHANGED <<rulGroups, rulWaiting, rulAnswer>>

\* A rule no page writes: PUT, by a script, of a row there is.
PutRule(i, rule) ==
    /\ rulRules[i] # NoRule
    /\ Insert(i, rule)
    /\ UNCHANGED <<rulGroups, rulWaiting, rulAnswer>>

RemoveRule(i) ==
    /\ rulRules[i] # NoRule /\ rulRules' = [rulRules EXCEPT ![i] = NoRule]
    /\ UNCHANGED <<rulGroups, rulWaiting, rulAnswer>>

\* "Allow on this PC", "Allow everywhere"; the question whether to approve the
\* request as well comes after, and it may be declined.
AllowFromRequest(i, h, scope) ==
    LET program == rulWaiting[h]
    IN  /\ rulRules[i] = NoRule /\ program # NoProgram /\ scope \in Scopes(program)
        /\ Insert(i, RuleFromRequest(program, scope))
        /\ rulWaiting' \in {rulWaiting, [rulWaiting EXCEPT ![h] = NoProgram]}
        /\ UNCHANGED <<rulGroups, rulAnswer>>

\* Approved, denied; a sync of the directory.
RequestDecided(h) ==
    /\ rulWaiting[h] # NoProgram /\ rulWaiting' = [rulWaiting EXCEPT ![h] = NoProgram]
    /\ UNCHANGED <<rulRules, rulGroups, rulAnswer>>
GroupsSynced ==
    /\ rulGroups' \in SUBSET Groups
    /\ UNCHANGED <<rulRules, rulWaiting, rulAnswer>>

\* For the binds and the exception the form does not offer.
ScriptRules ==
    {[effect |-> "require_approval", hash |-> p.hash, publisher |-> p.publisher, name |-> "",
      pattern |-> AnyArgs, bind |-> b, to |-> IF b = "user" THEN "this user" ELSE "another PC",
      exception |-> TRUE] : p \in {q \in Programs : q.name \in HardBans}, b \in {"user", "device"}}

RulesNext ==
    \/ \E p \in Programs, jit \in BOOLEAN : Evaluate(p, jit) \/ SilentAllow(p, jit)
    \/ \E i \in Slots : \/ \E d \in Drafts : SubmitForm(i, d)
                        \/ \E r \in ScriptRules : PutRule(i, r)
                        \/ RemoveRule(i)
                        \/ \E h \in Hashes, scope \in {"device", "all"} : AllowFromRequest(i, h, scope)
    \/ \E h \in Hashes : RequestDecided(h)
    \/ GroupsSynced

RulesSpec == RulesInit /\ [][RulesNext]_rulVars

----------------------------------------------------------------------------
AllDrafts ==
    [effect : Effects, hash : Hashes, publisher : {p.publisher : p \in Programs},
     name : Names \cup {""}, text : DOMAIN Expressions \cup {""}, mode : {"literal", "regex"},
     bind : {"all", "group"}, to : Groups \cup {""}]

\* The trial on the page "using the same matching rules as the engine"
\* (match-preview.tsx:46) says what the engine would decide if the draft became
\* the first rule, though it has a matcher of its own, which knows no groups and
\* no other effect.
PreviewIsEngine ==
    \A groups \in SUBSET Groups, d \in AllDrafts, p \in Programs :
       LET rule == FormRule(d)
           says == Described(rule, p, groups)
           does == EvaluateElevation({rule}, p, groups, FALSE)
       IN  Accepted(rule) /\ p.publisher # "" =>
              CASE says = "miss" -> does = EvaluateElevation({}, p, groups, FALSE)
                [] says = "hard-banned" -> does = "deny"
                [] says = "require_approval" -> does = "pending"
                [] OTHER -> does = says

\* "On allowlist", beside a request, is true of the next such question, unless a
\* rule denies it; the label, too, comes from the pages' own matcher.
OnAllowlistIsAllowed ==
    \A p \in Programs : Covered(p) /\ ~Blocked(p) =>
       \/ Verdict(p, FALSE) = "allow"
       \/ \E r \in Rows : r.effect = "deny" /\ Matches(r, p, rulGroups)

\* What the pages say by the matcher of their own is what evaluateElevation decides.
PagesTellTheEngine == PreviewIsEngine /\ OnAllowlistIsAllowed

\* A rule made of a request lets in what was asked, the same file with the same
\* arguments, and nothing else: also when it was asked for with no arguments, where
\* an empty pattern would mean any.
SameQuestion(p, q) ==
    p.hash = q.hash /\ p.publisher = q.publisher /\ p.name = q.name /\ p.args = q.args
AllowIsExact ==
    [][\A i \in Slots, h \in Hashes : (\E scope \in {"device", "all"} : AllowFromRequest(i, h, scope))
          => \A p \in Programs :
                EvaluateElevation(Rows', p, rulGroups, FALSE) = "allow" /\ Verdict(p, FALSE) # "allow"
                   => SameQuestion(p, rulWaiting[h])]_rulVars
=============================================================================
