---------------------------- MODULE AccessProofs ----------------------------
(***************************************************************************)
(* Portal users and roles, for every set of users, roles and passwords:    *)
(* the rows keep their shape, a user never holds a role that is gone, and  *)
(* no edit of users takes the last enabled master administrator.           *)
(***************************************************************************)
EXTENDS Access, TLAPS

\* What a patch makes of a row is a row.
LEMMA NextRow ==
    ASSUME NEW user \in UserRows, NEW p \in Patches
    PROVE  Next1(user, p) \in UserRows
<1>1. DEFINE kind == IF p.kind = "keep" THEN user.kind ELSE p.kind
<1>2. kind \in {"local", "sso"}
  BY DEF UserRows, Patches
<1>3. user.password \in {""} \cup Passwords /\ p.password \in {""} \cup Passwords
  BY DEF UserRows, Patches
<1>4. user.disabled \in BOOLEAN /\ user.roles \in SUBSET RoleIds /\ p.roles \in SUBSET RoleIds
  BY DEF UserRows, Patches
<1>5. (IF p.setRoles THEN {r \in p.roles : RoleExists(accRoles, r)} ELSE user.roles)
         \in SUBSET RoleIds
  BY <1>4
<1>6. (IF p.disabled = "keep" THEN user.disabled ELSE p.disabled = "yes") \in BOOLEAN
  BY <1>4
<1>7. QED
  BY <1>2, <1>3, <1>5, <1>6 DEF Next1, UserRows

\* patchUser leaves a table of rows.
LEMMA PatchedRows ==
    ASSUME NEW users \in [Users -> UserRows \cup {NoUser}], NEW u \in Users, NEW p \in Patches
    PROVE  Patched(users, u, p) \in [Users -> UserRows \cup {NoUser}]
<1>1. CASE users[u].kind = "none"
  BY <1>1 DEF Patched
<1>2. CASE users[u].kind # "none"
  <2>1. NoUser.kind = "none"
    BY DEF NoUser
  <2>2. Next1(users[u], p) \in UserRows
    BY <1>2, <2>1, NextRow
  <2>3. QED
    BY <2>2 DEF Patched
<1>3. QED
  BY <1>1, <1>2

\* patchUser asks before it writes, and touches one user: someone stays master.
LEMMA PatchedKeepsAMaster ==
    ASSUME NEW users \in [Users -> UserRows \cup {NoUser}], NEW u \in Users, NEW p \in Patches,
           Masters(users, accRoles) # {}
    PROVE  Masters(Patched(users, u, p), accRoles) # {}
<1>1. DEFINE next == Next1(users[u], p)
<1>2. CASE users[u].kind = "none" \/ WouldLeaveNoMaster(users, u, next)
  BY <1>2 DEF Patched
<1>3. CASE users[u].kind # "none" /\ ~WouldLeaveNoMaster(users, u, next)
  <2>1. Patched(users, u, p) = [users EXCEPT ![u] = next]
    BY <1>3 DEF Patched
  <2>2. CASE IsMaster(next, accRoles)
    <3>1. u \in Masters(Patched(users, u, p), accRoles)
      BY <2>1, <2>2 DEF Masters
    <3>2. QED
      BY <3>1
  <2>3. CASE ~IsMaster(next, accRoles)
    <3>1. PICK v \in Masters(users, accRoles) : v # u
      BY <1>3, <2>3 DEF WouldLeaveNoMaster
    <3>2. v \in Users /\ [users EXCEPT ![u] = next][v] = users[v]
      BY <3>1 DEF Masters
    <3>3. v \in Masters(Patched(users, u, p), accRoles)
      BY <2>1, <3>1, <3>2 DEF Masters
    <3>4. QED
      BY <3>3
  <2>4. QED
    BY <2>2, <2>3
<1>4. QED
  BY <1>2, <1>3

\* Every role held is there: of a table, under some roles.
RolesHeldExist(users, roles) == \A u \in Users : \A r \in users[u].roles : RoleExists(roles, r)

\* patchUser drops the roles it does not know.
LEMMA PatchedRolesExist ==
    ASSUME NEW users \in [Users -> UserRows \cup {NoUser}], NEW u \in Users, NEW p \in Patches,
           RolesHeldExist(users, accRoles)
    PROVE  RolesHeldExist(Patched(users, u, p), accRoles)
<1>1. DEFINE next == Next1(users[u], p)
<1>2. \A r \in next.roles : RoleExists(accRoles, r)
  BY DEF Next1, RolesHeldExist
<1>3. CASE Patched(users, u, p) = users
  BY <1>3
<1>4. CASE Patched(users, u, p) = [users EXCEPT ![u] = next]
  <2>1. \A v \in Users : Patched(users, u, p)[v] = IF v = u THEN next ELSE users[v]
    BY <1>4
  <2>2. QED
    BY <2>1, <1>2 DEF RolesHeldExist
<1>5. QED
  BY <1>3, <1>4 DEF Patched

----------------------------------------------------------------------------
\* The tables keep their shape through every operation.
THEOREM AccessTyping == AccessSpec => []AccessTypeOK
<1>1. AccessInit => AccessTypeOK
  <2>1. \A password \in Passwords : FirstMaster(password) \in UserRows
    BY DEF FirstMaster, UserRows, RoleIds, Predefined
  <2>2. QED
    BY <2>1 DEF AccessInit, AccessTypeOK
<1>2. AccessTypeOK /\ [AccessNext]_accVars => AccessTypeOK'
  <2>1. SUFFICES ASSUME AccessTypeOK, [AccessNext]_accVars
                 PROVE  AccessTypeOK'
    OBVIOUS
  <2>2. \A password \in Passwords : FirstMaster(password) \in UserRows
    BY DEF FirstMaster, UserRows, RoleIds, Predefined
  <2>3. NoUsers \in [Users -> UserRows \cup {NoUser}]
    BY DEF NoUsers
  <2>4. CASE OpenDatabase
    BY <2>1, <2>3, <2>4 DEF OpenDatabase, AfterReset, AccessTypeOK
  <2>5. ASSUME NEW u \in Users, NEW password \in Passwords,
               OpenWithBootstrap(u, password) \/ Bootstrap(u, password) \/ LocalLogin(u, password)
        PROVE  AccessTypeOK'
    BY <2>1, <2>2, <2>3, <2>5
      DEF OpenWithBootstrap, Bootstrap, LocalLogin, AccessTypeOK
  <2>6. ASSUME NEW u \in Users, EntraCallback(u) \/ SessionEnds(u) \/ BootstrapArrives(u)
        PROVE  AccessTypeOK'
    BY <2>1, <2>6 DEF EntraCallback, SessionEnds, BootstrapArrives, AccessTypeOK
  <2>7. ASSUME NEW s \in Users, NEW current \in Passwords, NEW new \in Passwords,
               ChangePassword(s, current, new)
        PROVE  AccessTypeOK'
    <3>1. NoUser.kind # "local"
      BY DEF NoUser
    <3>2. accUsers[s] \in UserRows
      BY <2>1, <2>7, <3>1 DEF ChangePassword, AccessTypeOK
    <3>3. [accUsers[s] EXCEPT !.password = new] \in UserRows
      BY <3>2 DEF UserRows
    <3>4. accUsers' = [accUsers EXCEPT ![s] = [accUsers[s] EXCEPT !.password = new]]
      BY <2>1, <2>7 DEF ChangePassword, AccessTypeOK
    <3>5. QED
      BY <2>1, <2>7, <3>3, <3>4 DEF ChangePassword, AccessTypeOK
  <2>8. ASSUME NEW s \in Users, NEW u \in Users, NEW kind \in {"local", "sso"},
               NEW password \in {""} \cup Passwords, NEW roles \in SUBSET RoleIds,
               CreatePortalUser(s, u, kind, password, roles)
        PROVE  AccessTypeOK'
    <3>1. [kind |-> kind, password |-> password, disabled |-> FALSE, roles |-> roles] \in UserRows
      BY DEF UserRows
    <3>2. QED
      BY <2>1, <2>8, <3>1 DEF CreatePortalUser, AccessTypeOK
  <2>9. ASSUME NEW s \in Users, NEW u \in Users, NEW p \in Requests,
               NEW typed \in {""} \cup Passwords, UpdateUser(s, u, p, typed)
        PROVE  AccessTypeOK'
    BY <2>1, <2>9, PatchedRows, RequestsArePatches DEF UpdateUser, AccessTypeOK
  <2>10. ASSUME NEW s \in Users, NEW u \in Users, NEW v \in Users, NEW p \in Requests,
                PatchUsers(s, u, v, p)
         PROVE  AccessTypeOK'
    <3>1. p \in Patches
      BY RequestsArePatches
    <3>2. Patched(accUsers, u, p) \in [Users -> UserRows \cup {NoUser}]
      BY <2>1, <3>1, PatchedRows DEF AccessTypeOK
    <3>3. Patched(Patched(accUsers, u, p), v, p) \in [Users -> UserRows \cup {NoUser}]
      BY <3>1, <3>2, PatchedRows
    <3>4. QED
      BY <2>1, <2>10, <3>2, <3>3 DEF PatchUsers, AccessTypeOK
  <2>11. ASSUME NEW s \in Users, NEW u \in Users, DeletePortalUser(s, u)
         PROVE  AccessTypeOK'
    BY <2>1, <2>11 DEF DeletePortalUser, AccessTypeOK
  <2>12. ASSUME NEW s \in Users, NEW r \in CustomRoles, NEW permissions \in SUBSET Permissions,
                CreateRole(s, r, permissions) \/ UpdateRole(s, r, permissions)
         PROVE  AccessTypeOK'
    BY <2>1, <2>12 DEF CreateRole, UpdateRole, AccessTypeOK
  <2>13. ASSUME NEW s \in Users, NEW r \in CustomRoles, DeleteRole(s, r)
         PROVE  AccessTypeOK'
    BY <2>1, <2>13 DEF DeleteRole, AccessTypeOK
  <2>14. CASE UNCHANGED accVars
    BY <2>1, <2>14 DEF accVars, AccessTypeOK
  <2>15. QED
    BY <2>1, <2>4, <2>5, <2>6, <2>7, <2>8, <2>9, <2>10, <2>11, <2>12, <2>13, <2>14
      DEF AccessNext
<1>3. QED
  BY <1>1, <1>2, PTL DEF AccessSpec
\* The role of the first administrator is never gone.
LEMMA MasterExists == \A roles : RoleExists(roles, "master")
<1>1. "users" \in Permissions
  BY DEF Permissions, MasterPermissions
<1>2. \A roles : RolePermissions(roles, "master") = Permissions
  BY RolesAreApart DEF RolePermissions
<1>3. QED
  BY <1>1, <1>2 DEF RoleExists

\* Nobody holds a role that is gone.
THEOREM AccessRolesExist == AccessSpec => []AssignedRolesExist
<1>1. AccessInit => AssignedRolesExist
  <2>1. SUFFICES ASSUME AccessInit, NEW u \in Users, NEW r \in accUsers[u].roles
                 PROVE  RoleExists(accRoles, r)
    BY DEF AssignedRolesExist
  <2>2. r = "master"
    <3>1. PICK left \in SUBSET Users, password \in Passwords :
             accUsers = [v \in Users |-> IF v \in left THEN FirstMaster(password) ELSE NoUser]
      BY <2>1 DEF AccessInit
    <3>2. accUsers[u] \in {FirstMaster(password), NoUser}
      BY <3>1
    <3>3. FirstMaster(password).roles = {"master"} /\ NoUser.roles = {}
      BY DEF FirstMaster, NoUser
    <3>4. QED
      BY <2>1, <3>2, <3>3
  <2>3. QED
    BY <2>2, MasterExists
<1>2. AccessTypeOK /\ AssignedRolesExist /\ [AccessNext]_accVars => AssignedRolesExist'
  <2>1. SUFFICES ASSUME AccessTypeOK, AssignedRolesExist, [AccessNext]_accVars
                 PROVE  AssignedRolesExist'
    OBVIOUS
  <2>2. RolesHeldExist(accUsers, accRoles)
    BY <2>1 DEF AssignedRolesExist, RolesHeldExist
  <2>3. RoleExists(accRoles, "master") /\ NoUser.roles = {}
    BY MasterExists DEF NoUser
  <2>4. ASSUME accRoles' = accRoles, RolesHeldExist(accUsers', accRoles)
        PROVE  AssignedRolesExist'
    BY <2>4 DEF AssignedRolesExist, RolesHeldExist, RoleExists, RolePermissions
  <2>5. \A password : FirstMaster(password).roles = {"master"}
    BY DEF FirstMaster
  <2>6. CASE OpenDatabase
    BY <2>2, <2>3, <2>4, <2>6 DEF OpenDatabase, AfterReset, NoUsers, RolesHeldExist
  <2>7. ASSUME NEW u \in Users, NEW password \in Passwords,
               OpenWithBootstrap(u, password) \/ Bootstrap(u, password) \/ LocalLogin(u, password)
        PROVE  AssignedRolesExist'
    <3>1. CASE OpenWithBootstrap(u, password)
      BY <2>2, <2>3, <2>4, <2>5, <3>1 DEF OpenWithBootstrap, NoUsers, RolesHeldExist
    <3>2. CASE Bootstrap(u, password)
      <4>1. \A v \in Users : accUsers'[v] \in {accUsers[v], FirstMaster(password)}
        <5>1. CASE Exists(u)
          BY <3>2, <5>1 DEF Bootstrap
        <5>2. CASE ~Exists(u)
          BY <2>1, <3>2, <5>2 DEF Bootstrap, AccessTypeOK
        <5>3. QED
          BY <5>1, <5>2
      <4>2. RolesHeldExist(accUsers', accRoles)
        BY <2>2, <2>3, <2>5, <4>1 DEF RolesHeldExist
      <4>3. QED
        BY <2>4, <3>2, <4>2 DEF Bootstrap
    <3>3. CASE LocalLogin(u, password)
      BY <2>2, <2>4, <3>3 DEF LocalLogin
    <3>4. QED
      BY <2>7, <3>1, <3>2, <3>3
  <2>8. ASSUME NEW u \in Users, EntraCallback(u) \/ SessionEnds(u) \/ BootstrapArrives(u)
        PROVE  AssignedRolesExist'
    BY <2>2, <2>4, <2>8 DEF EntraCallback, SessionEnds, BootstrapArrives
  <2>9. ASSUME NEW s \in Users, NEW current \in Passwords, NEW new \in Passwords,
               ChangePassword(s, current, new)
        PROVE  AssignedRolesExist'
    <3>1. \A v \in Users : accUsers'[v] =
             IF v = s THEN [accUsers[s] EXCEPT !.password = new] ELSE accUsers[v]
      BY <2>1, <2>9 DEF ChangePassword, AccessTypeOK
    <3>2. NoUser.kind # "local"
      BY DEF NoUser
    <3>3. accUsers[s] \in UserRows
      BY <2>1, <2>9, <3>2 DEF ChangePassword, AccessTypeOK
    <3>4. [accUsers[s] EXCEPT !.password = new].roles = accUsers[s].roles
      BY <3>3 DEF UserRows
    <3>5. \A v \in Users : accUsers'[v].roles = accUsers[v].roles
      BY <3>1, <3>4
    <3>6. RolesHeldExist(accUsers', accRoles)
      BY <2>2, <3>5 DEF RolesHeldExist
    <3>7. QED
      BY <2>4, <2>9, <3>6 DEF ChangePassword
  <2>10. ASSUME NEW s \in Users, NEW u \in Users, NEW kind \in {"local", "sso"},
                NEW password \in {""} \cup Passwords, NEW roles \in SUBSET RoleIds,
                CreatePortalUser(s, u, kind, password, roles)
         PROVE  AssignedRolesExist'
    <3>1. \A v \in Users : accUsers'[v].roles = IF v = u THEN roles ELSE accUsers[v].roles
      BY <2>1, <2>10 DEF CreatePortalUser, AccessTypeOK
    <3>2. RolesHeldExist(accUsers', accRoles)
      BY <2>2, <2>10, <3>1 DEF RolesHeldExist, CreatePortalUser
    <3>3. QED
      BY <2>4, <2>10, <3>2 DEF CreatePortalUser
  <2>11. ASSUME NEW s \in Users, NEW u \in Users, NEW p \in Requests,
                NEW typed \in {""} \cup Passwords, UpdateUser(s, u, p, typed)
         PROVE  AssignedRolesExist'
    BY <2>1, <2>2, <2>4, <2>11, PatchedRolesExist, RequestsArePatches DEF UpdateUser, AccessTypeOK
  <2>12. ASSUME NEW s \in Users, NEW u \in Users, NEW v \in Users, NEW p \in Requests,
                PatchUsers(s, u, v, p)
         PROVE  AssignedRolesExist'
    <3>1. p \in Patches
      BY RequestsArePatches
    <3>2. /\ Patched(accUsers, u, p) \in [Users -> UserRows \cup {NoUser}]
          /\ RolesHeldExist(Patched(accUsers, u, p), accRoles)
      BY <2>1, <2>2, <3>1, PatchedRows, PatchedRolesExist DEF AccessTypeOK
    <3>3. RolesHeldExist(Patched(Patched(accUsers, u, p), v, p), accRoles)
      BY <3>1, <3>2, PatchedRolesExist
    <3>4. QED
      BY <2>4, <2>12, <3>2, <3>3 DEF PatchUsers
  <2>13. ASSUME NEW s \in Users, NEW u \in Users, DeletePortalUser(s, u)
         PROVE  AssignedRolesExist'
    <3>1. \A v \in Users : accUsers'[v] = IF v = u THEN NoUser ELSE accUsers[v]
      BY <2>1, <2>13 DEF DeletePortalUser, AccessTypeOK
    <3>2. RolesHeldExist(accUsers', accRoles)
      BY <2>2, <2>3, <3>1 DEF RolesHeldExist
    <3>3. QED
      BY <2>4, <2>13, <3>2 DEF DeletePortalUser
  <2>14. ASSUME NEW s \in Users, NEW r \in CustomRoles, NEW permissions \in SUBSET Permissions,
                CreateRole(s, r, permissions) \/ UpdateRole(s, r, permissions)
         PROVE  AssignedRolesExist'
    <3>1. \A q : RoleExists(accRoles, q) => RoleExists(accRoles', q)
      <4>1. permissions # {} /\ accRoles' = [accRoles EXCEPT ![r] = permissions]
        BY <2>14 DEF CreateRole, UpdateRole
      <4>2. \A q : q # r => accRoles'[q] = accRoles[q]
        BY <2>1, <4>1 DEF AccessTypeOK
      <4>3. accRoles'[r] = permissions
        BY <2>1, <4>1 DEF AccessTypeOK
      <4>4. QED
        BY <4>1, <4>2, <4>3 DEF RoleExists, RolePermissions
    <3>2. accUsers' = accUsers
      BY <2>14 DEF CreateRole, UpdateRole
    <3>3. QED
      BY <2>2, <3>1, <3>2 DEF AssignedRolesExist, RolesHeldExist
  <2>15. ASSUME NEW s \in Users, NEW r \in CustomRoles, DeleteRole(s, r)
         PROVE  AssignedRolesExist'
    <3>1. \A q : q # r => accRoles'[q] = accRoles[q]
      BY <2>1, <2>15 DEF DeleteRole, AccessTypeOK
    <3>2. \A q : q # r /\ RoleExists(accRoles, q) => RoleExists(accRoles', q)
      BY <3>1 DEF RoleExists, RolePermissions
    <3>3. accUsers' = accUsers /\ \A u \in Users : r \notin accUsers[u].roles
      BY <2>15 DEF DeleteRole
    <3>4. QED
      BY <2>2, <3>2, <3>3 DEF AssignedRolesExist, RolesHeldExist
  <2>16. CASE UNCHANGED accVars
    BY <2>2, <2>4, <2>16 DEF accVars
  <2>17. QED
    BY <2>1, <2>6, <2>7, <2>8, <2>9, <2>10, <2>11, <2>12, <2>13, <2>14, <2>15, <2>16
      DEF AccessNext
<1>3. QED
  BY <1>1, <1>2, AccessTyping, PTL DEF AccessSpec

\* What is done to users, one, several or by deletion, never takes the last
\* enabled master administrator.
THEOREM AccessKeepsAMaster == AccessSpec => UserEditsKeepAMaster
<1>1. ASSUME AccessTypeOK, [AccessNext]_accVars, accReset = "done", accRoles' = accRoles,
             Masters(accUsers, accRoles) # {}
      PROVE  Masters(accUsers', accRoles) # {}
  <2>1. PICK m \in Users : IsMaster(accUsers[m], accRoles)
    BY <1>1 DEF Masters
  <2>2. accUsers[m].kind # "none"
    BY <2>1 DEF IsMaster
  <2>3. ASSUME accUsers' = accUsers
        PROVE  Masters(accUsers', accRoles) # {}
    BY <1>1, <2>3
  <2>4. ASSUME NEW u \in Users, u # m, \A v \in Users : v # u => accUsers'[v] = accUsers[v]
        PROVE  Masters(accUsers', accRoles) # {}
    BY <2>1, <2>4 DEF Masters
  <2>5. CASE OpenDatabase
    BY <1>1, <2>3, <2>5 DEF OpenDatabase, AfterReset
  <2>6. ASSUME NEW u \in Users, NEW password \in Passwords,
               OpenWithBootstrap(u, password) \/ Bootstrap(u, password) \/ LocalLogin(u, password)
        PROVE  Masters(accUsers', accRoles) # {}
    <3>1. CASE Bootstrap(u, password)
      <4>1. CASE Exists(u)
        BY <2>3, <3>1, <4>1 DEF Bootstrap
      <4>2. CASE ~Exists(u)
        <5>1. \A v \in Users : v # u => accUsers'[v] = accUsers[v]
          BY <1>1, <3>1, <4>2 DEF Bootstrap, AccessTypeOK
        <5>2. QED
          BY <2>2, <2>4, <4>2, <5>1 DEF Exists
      <4>3. QED
        BY <4>1, <4>2
    <3>2. CASE OpenWithBootstrap(u, password) \/ LocalLogin(u, password)
      BY <2>2, <2>3, <3>2 DEF OpenWithBootstrap, LocalLogin, NeedsSetup, Exists
    <3>3. QED
      BY <2>6, <3>1, <3>2
  <2>7. ASSUME NEW u \in Users, EntraCallback(u) \/ SessionEnds(u) \/ BootstrapArrives(u)
        PROVE  Masters(accUsers', accRoles) # {}
    BY <2>3, <2>7 DEF EntraCallback, SessionEnds, BootstrapArrives
  <2>8. ASSUME NEW s \in Users, NEW current \in Passwords, NEW new \in Passwords,
               ChangePassword(s, current, new)
        PROVE  Masters(accUsers', accRoles) # {}
    <3>1. \A v \in Users : accUsers'[v] =
             IF v = s THEN [accUsers[s] EXCEPT !.password = new] ELSE accUsers[v]
      BY <1>1, <2>8 DEF ChangePassword, AccessTypeOK
    <3>2. NoUser.kind # "local"
      BY DEF NoUser
    <3>3. accUsers[s] \in UserRows
      BY <1>1, <2>8, <3>2 DEF ChangePassword, AccessTypeOK
    <3>4. LET row == [accUsers[s] EXCEPT !.password = new]
          IN  /\ row.kind = accUsers[s].kind /\ row.roles = accUsers[s].roles
              /\ row.disabled = accUsers[s].disabled
      BY <3>3 DEF UserRows
    <3>5. IsMaster(accUsers'[m], accRoles)
      BY <2>1, <3>1, <3>4 DEF IsMaster
    <3>6. QED
      BY <3>5 DEF Masters
  <2>9. ASSUME NEW s \in Users, NEW u \in Users, NEW kind \in {"local", "sso"},
               NEW password \in {""} \cup Passwords, NEW roles \in SUBSET RoleIds,
               CreatePortalUser(s, u, kind, password, roles)
        PROVE  Masters(accUsers', accRoles) # {}
    <3>1. \A v \in Users : v # u => accUsers'[v] = accUsers[v]
      BY <1>1, <2>9 DEF CreatePortalUser, AccessTypeOK
    <3>2. u # m
      BY <2>2, <2>9 DEF CreatePortalUser, Exists
    <3>3. QED
      BY <2>4, <3>1, <3>2
  <2>10. ASSUME NEW s \in Users, NEW u \in Users, NEW p \in Requests,
                NEW typed \in {""} \cup Passwords, UpdateUser(s, u, p, typed)
         PROVE  Masters(accUsers', accRoles) # {}
    BY <1>1, <2>10, PatchedKeepsAMaster, RequestsArePatches DEF UpdateUser, AccessTypeOK
  <2>11. ASSUME NEW s \in Users, NEW u \in Users, NEW v \in Users, NEW p \in Requests,
                PatchUsers(s, u, v, p)
         PROVE  Masters(accUsers', accRoles) # {}
    <3>1. p \in Patches
      BY RequestsArePatches
    <3>2. /\ Patched(accUsers, u, p) \in [Users -> UserRows \cup {NoUser}]
          /\ Masters(Patched(accUsers, u, p), accRoles) # {}
      BY <1>1, <3>1, PatchedRows, PatchedKeepsAMaster DEF AccessTypeOK
    <3>3. Masters(Patched(Patched(accUsers, u, p), v, p), accRoles) # {}
      BY <3>1, <3>2, PatchedKeepsAMaster
    <3>4. QED
      BY <2>11, <3>2, <3>3 DEF PatchUsers
  <2>12. ASSUME NEW s \in Users, NEW u \in Users, DeletePortalUser(s, u)
         PROVE  Masters(accUsers', accRoles) # {}
    <3>1. ~IsMaster(NoUser, accRoles)
      BY DEF IsMaster, NoUser
    <3>2. PICK n \in Masters(accUsers, accRoles) : n # u
      BY <2>12, <3>1 DEF DeletePortalUser, WouldLeaveNoMaster
    <3>3. n \in Users /\ accUsers'[n] = accUsers[n]
      BY <1>1, <2>12, <3>2 DEF DeletePortalUser, AccessTypeOK, Masters
    <3>4. QED
      BY <3>2, <3>3 DEF Masters
  <2>13. ASSUME NEW s \in Users, NEW r \in CustomRoles, NEW permissions \in SUBSET Permissions,
                CreateRole(s, r, permissions) \/ UpdateRole(s, r, permissions)
         PROVE  Masters(accUsers', accRoles) # {}
    BY <2>3, <2>13 DEF CreateRole, UpdateRole
  <2>14. ASSUME NEW s \in Users, NEW r \in CustomRoles, DeleteRole(s, r)
         PROVE  Masters(accUsers', accRoles) # {}
    BY <2>3, <2>14 DEF DeleteRole
  <2>15. CASE UNCHANGED accVars
    BY <2>3, <2>15 DEF accVars
  <2>16. QED
    BY <1>1, <2>5, <2>6, <2>7, <2>8, <2>9, <2>10, <2>11, <2>12, <2>13, <2>14, <2>15
      DEF AccessNext
<1>2. QED
  BY <1>1, AccessTyping, PTL DEF AccessSpec, UserEditsKeepAMaster

=============================================================================
