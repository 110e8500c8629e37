SPECIFICATION SystemSpec
CONSTANTS
  u1 = u1
  u2 = u2
  grp = grp
  g1 = g1
  g2 = g2
  d1 = d1
  User = {u1}
  Sid = {u1}
  Group = {}
  GrantId = {g1}
  Device = {d1}
  PC = d1
  NoOne = NoOne
  NoFile = NoFile
  Launchers = {}
  MaxLaunches = 0
  TicketTtl = 1
  Faults = {}
  Durations = {1}
  Horizon = 2
  MaxWire = 1
PROPERTIES
  ReportEndsWindow
