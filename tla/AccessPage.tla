----------------------------- MODULE AccessPage -----------------------------
(***************************************************************************)
(* The page "Admins & Roles" (access-client.tsx, roles-panel.tsx), in the  *)
(* browser of one administrator, over the tables of Access, which another  *)
(* administrator edits at the same time.  The users it shows are those of  *)
(* the last rendering, like the roles; only the roles' permissions are     *)
(* kept apart here.  Not modelled: names, the texts of errors.             *)
(***************************************************************************)
EXTENDS Access

CONSTANT Viewer     \* whose browser it is

VARIABLES
    apgShown,    \* the roles' permissions as last rendered, and what the viewer may do
    apgRole,     \* the selected role and the permissions ticked for it
    apgUser,     \* the user whose roles are edited, and the roles ticked
    apgBusy      \* a change of password is under way

apgVars == <<apgShown, apgRole, apgUser, apgBusy>>
pageVars == <<accVars, apgVars>>

Nobody == "none"
Rendered == [roles |-> accRoles, can |-> PermissionsNow(Viewer)]
ShownRoles == Predefined \cup {r \in CustomRoles : apgShown.roles[r] # {}}
ShownPermissions(r) == RolePermissions(apgShown.roles, r)
Toggled(set, x) == (set \ {x}) \cup ({x} \ set)

AccessPageInit ==
    /\ AccessInit
    /\ apgShown = Rendered
    /\ apgRole = [id |-> "master", picks |-> Permissions]
    /\ apgUser = [id |-> Nobody, picks |-> {}]
    /\ apgBusy = FALSE

\* The page is for those who manage users or roles.
OpenPage ==
    /\ accReset = "done" /\ Viewer \in accSessions
    /\ PermissionsNow(Viewer) \cap MasterPermissions # {}
    /\ apgShown' = Rendered
    /\ apgRole' = [id |-> "master", picks |-> Permissions]
    /\ apgUser' = [id |-> Nobody, picks |-> {}]
    /\ apgBusy' = FALSE
    /\ UNCHANGED accVars

\* router.refresh: what is drawn follows the tables, what is ticked stays.
Refreshed == apgShown' = Rendered'

----------------------------------------------------------------------------
(* Users.  "Save roles" and "Disable" send a PATCH to a route that has     *)
(* none: the answer is 405 without a body, and reading it throws.          *)
UserButtons(u) ==
    (IF "users" \in apgShown.can /\ Exists(u) THEN {"edit"} ELSE {})
    \cup (IF "users" \in apgShown.can /\ Exists(u) /\ u # Viewer THEN {"disable"} ELSE {})
    \cup (IF "users" \in apgShown.can /\ apgUser.id = u THEN {"tick", "save"} ELSE {})

OpenRoleEditor(u) ==
    /\ "edit" \in UserButtons(u)
    /\ apgUser' = IF apgUser.id = u THEN [id |-> Nobody, picks |-> {}]
                  ELSE [id |-> u, picks |-> accUsers[u].roles]
    /\ UNCHANGED <<accVars, apgShown, apgRole, apgBusy>>

ToggleEditingRole(u, r) ==
    /\ "tick" \in UserButtons(u) /\ r \in ShownRoles
    /\ apgUser' = [apgUser EXCEPT !.picks = Toggled(@, r)]
    /\ UNCHANGED <<accVars, apgShown, apgRole, apgBusy>>

\* What the form sends: a password typed before the kind became "sso" is sent
\* too, and refused.
CreateUser(u, kind, typed, roles) ==
    /\ "users" \in apgShown.can /\ roles \subseteq ShownRoles
    /\ CreatePortalUser(Viewer, u, kind, typed, roles) /\ Refreshed
    /\ UNCHANGED <<apgRole, apgUser, apgBusy>>

\* The form to change one's own password; busy ends however the call ends.
SubmitPassword == ~apgBusy /\ apgBusy' = TRUE /\ UNCHANGED <<accVars, apgShown, apgRole, apgUser>>
PasswordAnswered(current, new) ==
    /\ apgBusy /\ apgBusy' = FALSE
    /\ ChangePassword(Viewer, current, new) \/ UNCHANGED accVars
    /\ UNCHANGED <<apgShown, apgRole, apgUser>>

----------------------------------------------------------------------------
(* Roles                                                                   *)
RoleButtons ==
    IF apgRole.id \in ShownRoles \ Predefined /\ "roles" \in apgShown.can
    THEN {"tick", "save", "delete"} ELSE {}

\* Only a click on a row ticks the permissions of the role it selects.
SelectRole(r) ==
    /\ r \in ShownRoles
    /\ apgRole' = [id |-> r, picks |-> ShownPermissions(r)]
    /\ UNCHANGED <<accVars, apgShown, apgUser, apgBusy>>

TogglePerm(p) ==
    /\ "tick" \in RoleButtons
    /\ apgRole' = [apgRole EXCEPT !.picks = Toggled(@, p)]
    /\ UNCHANGED <<accVars, apgShown, apgUser, apgBusy>>

SaveRolePerms ==
    /\ "save" \in RoleButtons
    /\ UpdateRole(Viewer, apgRole.id, apgRole.picks) /\ Refreshed
    /\ UNCHANGED <<apgRole, apgUser, apgBusy>>

\* Confirmed, then deleted: the first other role is selected.
RemoveRole ==
    /\ "delete" \in RoleButtons
    /\ DeleteRole(Viewer, apgRole.id) /\ Refreshed
    /\ apgRole' = [apgRole EXCEPT !.id = "master"]
    /\ UNCHANGED <<apgUser, apgBusy>>

CreateCustomRole(r, permissions) ==
    /\ "roles" \in apgShown.can
    /\ CreateRole(Viewer, r, permissions) /\ Refreshed
    /\ apgRole' = [apgRole EXCEPT !.id = r]
    /\ UNCHANGED <<apgUser, apgBusy>>

----------------------------------------------------------------------------
\* Another administrator, elsewhere
ElsewhereRoles(s) ==
    /\ \E r \in CustomRoles : DeleteRole(s, r) \/ UpdateRole(s, r, {"users"})
    /\ UNCHANGED apgVars

AccessPageNext ==
    \/ OpenDatabase /\ UNCHANGED apgVars
    \/ OpenPage
    \/ \E u \in Users : OpenRoleEditor(u) \/ \E r \in RoleIds : ToggleEditingRole(u, r)
    \/ \E u \in Users, kind \in {"local", "sso"}, typed \in {""} \cup Passwords,
          roles \in SUBSET RoleIds : CreateUser(u, kind, typed, roles)
    \/ SubmitPassword
    \/ \E current, new \in Passwords : PasswordAnswered(current, new)
    \/ \E r \in RoleIds : SelectRole(r)
    \/ \E p \in Permissions : TogglePerm(p)
    \/ SaveRolePerms \/ RemoveRole
    \/ \E r \in CustomRoles, permissions \in SUBSET Permissions : CreateCustomRole(r, permissions)
    \/ \E s \in Users : ElsewhereRoles(s)

AccessPageSpec == AccessPageInit /\ [][AccessPageNext]_pageVars

----------------------------------------------------------------------------
\* "Sync editPerms when selection changes" (roles-panel.tsx:36): what is ticked
\* for a role that was just selected is what that role grants.  Refuted: a role
\* that was just created, or that followed a deletion, shows the old ticks.
TicksFollowSelection ==
    [][apgRole'.id # apgRole.id /\ apgRole'.id \in CustomRoles
          => apgRole'.picks = RolePermissions(apgShown'.roles, apgRole'.id)]_pageVars
=============================================================================
