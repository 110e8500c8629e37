SPECIFICATION ConsoleSpec
CONSTANTS
  p1 = p1
  r1 = r1
  r2 = r2
  Posts = {p1}
  Updaters = {r1, r2}
  c1 = c1
  c2 = c2
  t1 = t1
  t2 = t2
  Changes = {c1, c2}
  Targets = {t1, t2}
  NoTarget = NoTarget
  ann = ann
  ben = ben
  Callers = {ann, ben}
  Releases <- SomeReleases
  Installed <- Version1
  AuditWindow = 1
  MaxAudit = 3
  v1 = v1
  v2 = v2
  Versions = {v1}
  NoVersion = NoVersion
  MaxPolls = 1
  MaxClicks = 1
  Binds = {"loopback", "custom"}
  Ports = {1, 2}
  MaxReads = 2
  MaxChanges = 1
  RawPorts = {0, 3000, 70000}
  Addresses = {"10.0.0.9", "10.1.0.9"}
  MaxVersion = 3
  MaxFaults = 2
  Schedules = {0, 10, 720, 1430, 1440}
  g1 = g1
  g2 = g2
  GroupIds = {g1, g2}
  GroupNames = {1, 2}
  Priorities = {0}
  Times = {"02:00"}
  Users = {"u1", "u2"}
  Viewers = {}
  CustomRoles = {"c1"}
  OtherPermissions = {}
  Requests <- SomeRequests
  Passwords = {"p1"}
  Viewer = "u1"
  Logins = {"a", "b"}
  MaxAttempts = 1
  LoginWindow = 2
  Cooldown = 2
  MaxLevel = 2
  PruneEvery = 2
  MaxRequests = 2
  DeviceWindow = 2
  Programs <- SomePrograms
  HardBans = {"shell"}
  Groups = {"g"}
  Expressions <- SomeExpressions
  Drafts <- SomeDrafts
  MaxRules = 2
  s1 = s1
  s2 = s2
  Sockets = {s1, s2}
  MaxUpsets = 3
  Prompts = {1, 2}
  MaxMishaps = 2
INVARIANTS
  HeldLogIsALock
  AnnouncementsApart
  AddressesFit
  RowTellsTruth
  DueIsNear
  AssignedRolesExist
  EveryUrlLands
  PagesTellTheEngine
  CountedOnce
  PageWillHear
PROPERTIES
  KeepsUpdatePromise
  KeepsNetPromise
  PageRecovers
  SamePortRecovers
  NoRepush
  DevicesCatchUp
  OnlyTheirDevicesMove
  UserEditsKeepAMaster
  RefusalHolds
  AllowIsExact
  PageCatchesUp
  TrayIsServed
