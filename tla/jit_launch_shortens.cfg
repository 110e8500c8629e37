SPECIFICATION SystemSpec
CONSTANTS
  u1 = u1
  u2 = u2
  grp = grp
  g1 = g1
  g2 = g2
  d1 = d1
  User = {u1}
  Sid = {u1}
  Group = {}
  GrantId = {g1}
  Device = {d1}
  PC = d1
  NoOne = NoOne
  NoFile = NoFile
  Launchers = {u1}
  MaxLaunches = 1
  TicketTtl = 1
  Faults = {}
  Durations = {2}
  Horizon = 3
  MaxWire = 1
PROPERTIES
  MemberUntilExpiry
