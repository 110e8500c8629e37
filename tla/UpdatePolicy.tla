---------------------------- MODULE UpdatePolicy ----------------------------
(***************************************************************************)
(* Which update policy a device is under: its own, or that of its groups   *)
(* (update-policy.ts, db/device-groups.ts), the routes that change it and  *)
(* the card of a group and the control of a device on the devices page,    *)
(* which edit drafts against what they were last drawn with.  A time is    *)
(* text: one of Times, or "bad".  Names are numbers in their order.  Not   *)
(* modelled: permissions, audit entries, wording.                          *)
(***************************************************************************)
EXTENDS Integers, FiniteSets

CONSTANTS GroupIds,
          GroupNames,  \* names, in the order of the alphabet
          Priorities,
          Times       \* times of the day

ASSUME NamesAreOrdered == GroupNames \subseteq Int /\ Priorities \subseteq Int

VARIABLES
    polGroups,   \* the rows: a function from the ids there are
    polMembers,  \* the groups the device has a membership row of
    polDevice,   \* the device's own policy
    polCard      \* what an editor drew, and its draft: of a group, or of the device

polVars == <<polGroups, polMembers, polDevice, polCard>>

UpdateModes == {"auto", "scheduled", "manual"}
Inherit == [mode |-> "", schedule |-> ""]
Policies == {Inherit} \cup [mode : {"auto", "manual"}, schedule : {""}]
                      \cup [mode : {"scheduled"}, schedule : Times]
GroupRows == [name : GroupNames, priority : Priorities, policy : Policies]
Existing == DOMAIN polGroups

\* MUTANT: of all groups.
WithPolicyAnywhere == {g \in Existing : polGroups[g].policy.mode # ""}

\* groupsWithPolicyForDevice: by priority, then by name
WithPolicy == {g \in polMembers \cap Existing : polGroups[g].policy.mode # ""}
ComesFirst(g, h) ==
    \/ polGroups[g].priority > polGroups[h].priority
    \/ polGroups[g].priority = polGroups[h].priority /\ polGroups[g].name <= polGroups[h].name
First == CHOOSE g \in WithPolicy : \A h \in WithPolicy : ComesFirst(g, h)

\* effectiveUpdatePolicy
Effective ==
    CASE polDevice.mode \in UpdateModes -> [policy |-> polDevice, source |-> "device"]
      [] polDevice.mode \notin UpdateModes /\ WithPolicy # {} ->
            [policy |-> polGroups[First].policy, source |-> "group"]
      [] OTHER -> [policy |-> [mode |-> "auto", schedule |-> ""], source |-> "default"]

NoCard == [of |-> "none", id |-> "none", drawn |-> Inherit, draft |-> Inherit]

PolicyInit ==
    /\ polGroups = [g \in {} |-> [name |-> 1, priority |-> 0, policy |-> Inherit]]
    /\ polMembers = {} /\ polDevice = Inherit /\ polCard = NoCard

----------------------------------------------------------------------------
(* The routes under /api/devices                                           *)
NameTaken(name, except) == \E g \in Existing \ {except} : polGroups[g].name = name

\* A new group sets no policy; a used name is refused.
CreateGroup(g, name, priority) ==
    /\ g \notin Existing /\ ~NameTaken(name, g)
    /\ polGroups' = [h \in Existing \cup {g} |->
          IF h = g THEN [name |-> name, priority |-> priority, policy |-> Inherit] ELSE polGroups[h]]
    /\ UNCHANGED <<polMembers, polDevice, polCard>>

\* renameDeviceGroup: the name, the priority, or both
RenameGroup(g, name, priority) ==
    /\ g \in Existing /\ ~NameTaken(name, g)
    /\ polGroups' = [polGroups EXCEPT ![g].name = name, ![g].priority = priority]
    /\ UNCHANGED <<polMembers, polDevice, polCard>>

DeleteGroup(g) ==
    /\ g \in Existing
    /\ polMembers' = polMembers \ {g}
    /\ polGroups' = [h \in Existing \ {g} |-> polGroups[h]]
    /\ UNCHANGED <<polDevice, polCard>>

\* The members route does not look whether the group is there.
AddMember(g) ==
    /\ polMembers' = polMembers \cup {g}
    /\ UNCHANGED <<polGroups, polDevice, polCard>>
RemoveMember(g) ==
    /\ polMembers' = polMembers \ {g}
    /\ UNCHANGED <<polGroups, polDevice, polCard>>

\* What the routes make of a body: a mode they know, and a time if it needs one.
Bodies == [mode : UpdateModes \cup {"", "other"}, schedule : Times]
             \cup [mode : {"scheduled"}, schedule : {"bad"}]
Normalized(body) ==
    IF body.mode = "scheduled" THEN body ELSE [mode |-> body.mode, schedule |-> ""]

GroupAccepts(body) ==
    body.mode \in UpdateModes /\ (body.mode = "scheduled" => body.schedule # "bad")
DeviceAccepts(body) == body.mode = "" \/ GroupAccepts(body)

SetGroupPolicy(g, body) ==
    /\ g \in Existing /\ GroupAccepts(body)
    /\ polGroups' = [polGroups EXCEPT ![g].policy = Normalized(body)]
    /\ UNCHANGED <<polMembers, polDevice>>
SetDevicePolicy(body) ==
    /\ DeviceAccepts(body)
    /\ polDevice' = Normalized(body)
    /\ UNCHANGED <<polGroups, polMembers>>

----------------------------------------------------------------------------
(* The editors of the page                                                 *)
DeviceCard == [of |-> "device", id |-> "none", drawn |-> polDevice, draft |-> polDevice]
GroupCard(g) == [of |-> "group", id |-> g,
                 drawn |-> polGroups[g].policy, draft |-> polGroups[g].policy]

\* Drawn again with other props, an editor forgets its draft.
Draw ==
    /\ \E card \in {DeviceCard} \cup {GroupCard(g) : g \in Existing} :
          polCard' = IF card.id = polCard.id /\ card.of = polCard.of /\ card.drawn = polCard.drawn
                     THEN polCard ELSE card
    /\ UNCHANGED <<polGroups, polMembers, polDevice>>

\* A cleared time input holds no time; the one first shown is a time.
Edit ==
    /\ polCard.of # "none"
    /\ \E body \in Bodies :
          /\ body.mode \in UpdateModes \cup (IF polCard.of = "device" THEN {""} ELSE {})
          /\ polCard' = [polCard EXCEPT !.draft = Normalized(body)]
    /\ UNCHANGED <<polGroups, polMembers, polDevice>>

\* The buttons that are drawn and not disabled.
CardButtons ==
    (IF polCard.of # "none" /\ polCard.draft.mode # polCard.drawn.mode
        /\ (polCard.of = "group" => polCard.draft.mode # "") THEN {"set"} ELSE {})
    \cup (IF polCard.of = "device" /\ polCard.drawn.mode # "" THEN {"clear"} ELSE {})

\* savePolicy of the group's card; the device's, whose "clear" sends no mode.
SaveGroupPolicy ==
    /\ "set" \in CardButtons /\ polCard.of = "group"
    /\ SetGroupPolicy(polCard.id, polCard.draft)
    /\ polCard' = [polCard EXCEPT !.drawn = polGroups'[polCard.id].policy]
SaveDevicePolicy(clear) ==
    /\ (IF clear THEN "clear" ELSE "set") \in CardButtons /\ polCard.of = "device"
    /\ SetDevicePolicy(IF clear THEN Inherit ELSE polCard.draft)
    /\ polCard' = DeviceCard

----------------------------------------------------------------------------
PolicyNext ==
    \/ \E g \in GroupIds, name \in GroupNames, priority \in Priorities :
          CreateGroup(g, name, priority) \/ RenameGroup(g, name, priority)
    \/ \E g \in GroupIds : DeleteGroup(g) \/ AddMember(g) \/ RemoveMember(g)
    \/ \E g \in GroupIds, body \in Bodies : SetGroupPolicy(g, body) /\ UNCHANGED polCard
    \/ \E body \in Bodies : SetDevicePolicy(body) /\ UNCHANGED polCard
    \/ Draw \/ Edit \/ SaveGroupPolicy \/ \E clear \in BOOLEAN : SaveDevicePolicy(clear)

PolicySpec == PolicyInit /\ [][PolicyNext]_polVars

----------------------------------------------------------------------------
\* What an administrator does to a group, its row or its members, moves only the
\* devices that are in it before or after and have no policy of their own; and it
\* moves none when the group sets no policy, or is outranked, before and after.
Outranked(g) == \E h \in WithPolicy \ {g} : ComesFirst(h, g)
Decides(g) == g \in WithPolicy /\ ~Outranked(g)
Touched(g) ==
    \/ (g \in polMembers) # (g \in polMembers')
    \/ (g \in Existing) # (g \in Existing')
    \/ g \in Existing \cap Existing' /\ polGroups'[g] # polGroups[g]
OnlyTheirDevicesMove ==
    [][Effective' # Effective =>
          \/ polDevice' # polDevice
          \/ /\ polDevice.mode = ""
             /\ \E g \in polMembers \cup polMembers' : Touched(g) /\ (Decides(g) \/ Decides(g)')]_polVars
=============================================================================
