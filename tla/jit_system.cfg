SPECIFICATION SystemSpec
CONSTANTS
  u1 = u1
  u2 = u2
  grp = grp
  g1 = g1
  g2 = g2
  d1 = d1
  User = {u1, u2}
  Sid = {u1}
  Group = {grp}
  GrantId = {g1}
  Device = {d1}
  PC = d1
  NoOne = NoOne
  NoFile = NoFile
  Launchers = {u1, u2}
  MaxLaunches = 2
  TicketTtl = 2
  Faults = {"crash", "power"}
  Durations = {1, 2}
  Horizon = 3
  MaxWire = 1
INVARIANTS
  SystemTypeOK
  OnlyCoveredUsersAdmin
  BoundedOverrun
  LedgerAudited

