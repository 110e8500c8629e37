------------------------------- MODULE Access -------------------------------
(***************************************************************************)
(* Who may use the console: the portal users and roles (portal.ts), their  *)
(* routes under /api/portal, the ways in (local sign-in, Entra, the first  *)
(* administrator), and the database as it is opened (first-run.ts,         *)
(* bootstrap.ts).  Each operation is synchronous between two awaits.       *)
(* A user is known by his email: the cookie carries no other key that is   *)
(* looked up.  Not modelled: names and their duplicates, object ids of     *)
(* Entra (a mismatch is a refused sign-in), audit entries.  The limiter of *)
(* sign-ins is LoginLimiter.                                               *)
(***************************************************************************)
EXTENDS Naturals, FiniteSets

CONSTANTS Users,         \* emails
          Viewers,       \* predefined roles that grant neither master permission
          CustomRoles,   \* ids of roles that are not predefined
          OtherPermissions,   \* besides the two that make a master
          Passwords,     \* passwords the policy accepts
          Requests       \* the patches that are sent

ASSUME NoEmptyPassword == "" \notin Passwords
ASSUME RolesAreApart == "master" \notin Viewers \cup CustomRoles /\ Viewers \cap CustomRoles = {}
ASSUME ViewersView == Viewers # {} => OtherPermissions # {}

VARIABLES
    accUsers,      \* portal_users with portal_user_roles
    accRoles,      \* portal_roles: the permissions of the custom ones, {} for no row
    accSessions,   \* emails there is an unexpired cookie for
    accReset,      \* what the one-time cleanup will do: clear, keep, or done
    accBoot        \* emails of first-administrator requests past the check

accVars == <<accUsers, accRoles, accSessions, accReset, accBoot>>

\* portal.users.manage and portal.roles.manage
MasterPermissions == {"users", "roles"}
Permissions == MasterPermissions \cup OtherPermissions
Predefined == {"master"} \cup Viewers
RoleIds == Predefined \cup CustomRoles

NoUser == [kind |-> "none", password |-> "", disabled |-> FALSE, roles |-> {}]
UserRows == [kind : {"local", "sso"}, password : {""} \cup Passwords,
             disabled : BOOLEAN, roles : SUBSET RoleIds]

RolePermissions(roles, r) ==
    CASE r = "master" -> Permissions
      [] r \in Viewers -> OtherPermissions
      [] OTHER -> roles[r]
RoleExists(roles, r) == RolePermissions(roles, r) # {}
PermissionsForRoles(roles, ids) == UNION {RolePermissions(roles, r) : r \in ids}

Exists(u) == accUsers[u].kind # "none"
IsMaster(user, roles) ==
    /\ user.kind # "none" /\ ~user.disabled
    /\ MasterPermissions \subseteq PermissionsForRoles(roles, user.roles)
Masters(users, roles) == {u \in Users : IsMaster(users[u], roles)}
NeedsSetup == \A u \in Users : ~Exists(u)

\* readSessionFromToken: a cookie is worth what its user is worth now.
PermissionsNow(u) ==
    IF Exists(u) /\ ~accUsers[u].disabled
    THEN PermissionsForRoles(accRoles, accUsers[u].roles) ELSE {}
Can(s, permission) == s \in accSessions /\ permission \in PermissionsNow(s)

FirstMaster(password) ==
    [kind |-> "local", password |-> password, disabled |-> FALSE, roles |-> {"master"}]

\* An older installer may have left a user and a cookie behind.
AccessInit ==
    /\ accReset \in {"clear", "keep", "done"}
    /\ \E left \in SUBSET Users, password \in Passwords :
          /\ accReset = "done" => left = {}
          /\ accUsers = [u \in Users |-> IF u \in left THEN FirstMaster(password) ELSE NoUser]
          /\ accSessions = left
    /\ accRoles = [r \in CustomRoles |-> {}]
    /\ accBoot = {}

----------------------------------------------------------------------------
(* Opening the database, when the console starts: the cleanup if it is     *)
(* still to be done (custom roles stay), then the bootstrap file, which is *)
(* for an empty console.                                                   *)
NoUsers == [u \in Users |-> NoUser]
AfterReset == IF accReset = "clear" THEN NoUsers ELSE accUsers
OpenDatabase ==
    /\ accUsers' = AfterReset /\ accReset' = "done" /\ accBoot' = {}
    /\ UNCHANGED <<accRoles, accSessions>>
OpenWithBootstrap(u, password) ==
    /\ accReset # "clear"    \* the cleanup discards the file
    /\ accUsers' = IF NeedsSetup THEN [NoUsers EXCEPT ![u] = FirstMaster(password)] ELSE accUsers
    /\ accReset' = "done" /\ accBoot' = {}
    /\ UNCHANGED <<accRoles, accSessions>>

\* POST /api/setup/bootstrap: it is asked whether there is a user, then the
\* body is awaited, then the user is created, if his email is still free.
BootstrapArrives(u) ==
    /\ accReset = "done" /\ NeedsSetup
    /\ accBoot' = accBoot \cup {u}
    /\ UNCHANGED <<accUsers, accRoles, accSessions, accReset>>
Bootstrap(u, password) ==
    /\ u \in accBoot /\ accBoot' = accBoot \ {u}
    /\ IF Exists(u) THEN UNCHANGED <<accUsers, accSessions>>
       ELSE /\ accUsers' = [accUsers EXCEPT ![u] = FirstMaster(password)]
            /\ accSessions' = accSessions \cup {u}
    /\ UNCHANGED <<accRoles, accReset>>

----------------------------------------------------------------------------
(* Sessions                                                                *)
LocalLogin(u, password) ==
    /\ accReset = "done" /\ Exists(u) /\ ~accUsers[u].disabled /\ PermissionsNow(u) # {}
    /\ accUsers[u].kind = "local" /\ accUsers[u].password = password /\ password # ""
    /\ accSessions' = accSessions \cup {u}
    /\ UNCHANGED <<accUsers, accRoles, accReset, accBoot>>

\* The callback takes any user that has no local password.
EntraCallback(u) ==
    /\ accReset = "done" /\ Exists(u) /\ ~accUsers[u].disabled /\ PermissionsNow(u) # {}
    /\ ~(accUsers[u].kind = "local" /\ accUsers[u].password # "")
    /\ accSessions' = accSessions \cup {u}
    /\ UNCHANGED <<accUsers, accRoles, accReset, accBoot>>

\* Signed out, or the cookie expired.
SessionEnds(u) ==
    /\ u \in accSessions /\ accSessions' = accSessions \ {u}
    /\ UNCHANGED <<accUsers, accRoles, accReset, accBoot>>

\* POST /api/auth/password
ChangePassword(s, current, new) ==
    /\ accReset = "done" /\ s \in accSessions /\ PermissionsNow(s) # {}
    /\ accUsers[s].kind = "local" /\ accUsers[s].password = current /\ current # ""
    /\ accUsers' = [accUsers EXCEPT ![s].password = new]
    /\ UNCHANGED <<accRoles, accSessions, accReset, accBoot>>

----------------------------------------------------------------------------
(* Users                                                                   *)
CreatePortalUser(s, u, kind, password, roles) ==
    /\ accReset = "done" /\ Can(s, "users") /\ ~Exists(u)
    /\ roles # {} /\ \A r \in roles : RoleExists(accRoles, r)
    /\ (kind = "local") = (password # "")
    /\ accUsers' = [accUsers EXCEPT ![u] =
          [kind |-> kind, password |-> password, disabled |-> FALSE, roles |-> roles]]
    /\ UNCHANGED <<accRoles, accSessions, accReset, accBoot>>

\* A patch leaves a field alone, or says what it becomes.
Patches == [kind : {"keep", "local", "sso"}, password : {""} \cup Passwords,
            disabled : {"keep", "yes", "no"}, setRoles : BOOLEAN, roles : SUBSET RoleIds]
ASSUME RequestsArePatches == Requests \subseteq Patches
Keep == [kind |-> "keep", password |-> "", disabled |-> "keep", setRoles |-> FALSE, roles |-> {}]

Next1(user, p) ==
    LET kind == IF p.kind = "keep" THEN user.kind ELSE p.kind
    IN  [kind |-> kind,
         password |-> IF kind = "sso" THEN "" ELSE IF p.password # "" THEN p.password
                      ELSE user.password,
         disabled |-> IF p.disabled = "keep" THEN user.disabled ELSE p.disabled = "yes",
         roles |-> IF p.setRoles THEN {r \in p.roles : RoleExists(accRoles, r)} ELSE user.roles]

\* MUTANT: those who are disabled count as well.
WouldLeaveNoAccount(users, u, next) ==
    /\ ~IsMaster(next, accRoles)
    /\ \A v \in Users \ {u} : ~IsMaster([users[v] EXCEPT !.disabled = FALSE], accRoles)

\* wouldLeaveNoMaster, asked before anything is written
WouldLeaveNoMaster(users, u, next) ==
    ~IsMaster(next, accRoles) /\ Masters(users, accRoles) \ {u} = {}

\* patchUser: all of it, or an error and nothing
Patched(users, u, p) ==
    IF users[u].kind = "none" \/ WouldLeaveNoMaster(users, u, Next1(users[u], p)) THEN users
    ELSE [users EXCEPT ![u] = Next1(users[u], p)]

\* checkStepUpPassword; the one the admin types in is right or the change is refused.
StepUp(s, p, typed) ==
    p.password # "" /\ accUsers[s].kind = "local" => typed = accUsers[s].password

\* PUT /api/portal/users/<id>
UpdateUser(s, u, p, typed) ==
    /\ accReset = "done" /\ Can(s, "users") /\ StepUp(s, p, typed)
    /\ accUsers' = Patched(accUsers, u, p)
    /\ UNCHANGED <<accRoles, accSessions, accReset, accBoot>>

\* PATCH /api/portal/users with a list of ids, each patched in its turn; those
\* that are refused do not undo the others.  Two stand for any number.  With one
\* id, any field may be patched.
PatchUsers(s, u, v, p) ==
    /\ accReset = "done" /\ Can(s, "users")
    /\ u # v => p.kind = "keep" /\ p.password = ""
    /\ accUsers' = IF u = v THEN Patched(accUsers, u, p)
                   ELSE Patched(Patched(accUsers, u, p), v, p)
    /\ UNCHANGED <<accRoles, accSessions, accReset, accBoot>>

\* DELETE: a local administrator not himself, and not the last master.
DeletePortalUser(s, u) ==
    /\ accReset = "done" /\ Can(s, "users") /\ Exists(u)
    /\ ~(accUsers[u].kind = "local" /\ u = s)
    /\ ~WouldLeaveNoMaster(accUsers, u, NoUser)
    /\ accUsers' = [accUsers EXCEPT ![u] = NoUser]
    /\ UNCHANGED <<accRoles, accSessions, accReset, accBoot>>

----------------------------------------------------------------------------
(* Roles                                                                   *)
CreateRole(s, r, permissions) ==
    /\ accReset = "done" /\ Can(s, "roles") /\ accRoles[r] = {} /\ permissions # {}
    /\ accRoles' = [accRoles EXCEPT ![r] = permissions]
    /\ UNCHANGED <<accUsers, accSessions, accReset, accBoot>>

\* A custom role is given other permissions, whoever holds it.
UpdateRole(s, r, permissions) ==
    /\ accReset = "done" /\ Can(s, "roles") /\ accRoles[r] # {} /\ permissions # {}
    /\ accRoles' = [accRoles EXCEPT ![r] = permissions]
    /\ UNCHANGED <<accUsers, accSessions, accReset, accBoot>>

\* MUTANT: whoever holds it.
DeleteRoleInUse(s, r) ==
    /\ accReset = "done" /\ Can(s, "roles") /\ accRoles[r] # {}
    /\ accRoles' = [accRoles EXCEPT ![r] = {}]
    /\ UNCHANGED <<accUsers, accSessions, accReset, accBoot>>

DeleteRole(s, r) ==
    /\ accReset = "done" /\ Can(s, "roles") /\ accRoles[r] # {}
    /\ \A u \in Users : r \notin accUsers[u].roles
    /\ accRoles' = [accRoles EXCEPT ![r] = {}]
    /\ UNCHANGED <<accUsers, accSessions, accReset, accBoot>>

----------------------------------------------------------------------------
AccessNext ==
    \/ OpenDatabase
    \/ \E u \in Users, password \in Passwords :
          OpenWithBootstrap(u, password) \/ Bootstrap(u, password) \/ LocalLogin(u, password)
    \/ \E u \in Users : EntraCallback(u) \/ SessionEnds(u) \/ BootstrapArrives(u)
    \/ \E s \in Users, current, new \in Passwords : ChangePassword(s, current, new)
    \/ \E s, u \in Users, kind \in {"local", "sso"}, password \in {""} \cup Passwords,
          roles \in SUBSET RoleIds : CreatePortalUser(s, u, kind, password, roles)
    \/ \E s, u \in Users, p \in Requests :
          \E typed \in {""} \cup (IF p.password = "" THEN {} ELSE Passwords) : UpdateUser(s, u, p, typed)
    \/ \E s, u, v \in Users, p \in Requests : PatchUsers(s, u, v, p)
    \/ \E s, u \in Users : DeletePortalUser(s, u)
    \/ \E s \in Users, r \in CustomRoles :
          \/ \E permissions \in SUBSET Permissions :
                CreateRole(s, r, permissions) \/ UpdateRole(s, r, permissions)
          \/ DeleteRole(s, r)

AccessSpec == AccessInit /\ [][AccessNext]_accVars

----------------------------------------------------------------------------
AccessTypeOK ==
    /\ accUsers \in [Users -> UserRows \cup {NoUser}]
    /\ accRoles \in [CustomRoles -> SUBSET Permissions]
    /\ accSessions \subseteq Users
    /\ accReset \in {"clear", "keep", "done"}
    /\ accBoot \subseteq Users

\* A user never holds a role that is gone: an administrator who creates a role
\* later would give it to him unseen, and until then the count of masters and
\* the session read different permissions.
AssignedRolesExist ==
    \A u \in Users : \A r \in accUsers[u].roles : RoleExists(accRoles, r)

\* "keep at least one enabled Master Admin" (portal.ts:288): nothing done to
\* users, one by one, in bulk or by deletion, takes the last of them.  Only the
\* edit of a role can (and the cleanup of an unused console).
UserEditsKeepAMaster ==
    [][accReset = "done" /\ accRoles' = accRoles /\ Masters(accUsers, accRoles) # {}
          => Masters(accUsers', accRoles) # {}]_accVars

\* The same without the exception: what the message promises.  Refuted by
\* UpdateRole of the one custom role that makes a master.
AlwaysAMaster ==
    [][accReset = "done" /\ Masters(accUsers, accRoles) # {}
          => Masters(accUsers', accRoles') # {}]_accVars
=============================================================================
