SPECIFICATION Spec
CONSTANTS
  u1 = u1
  u2 = u2
  User = {u1, u2}
  Sid = {u1}
  grp = grp
  Group = {grp}
  d1 = d1
  d2 = d2
  Device = {d1, d2}
  g1 = g1
  g2 = g2
  GrantId = {g1, g2}
  NoOne = NoOne
  Durations = {1, 2}
  Horizon = 3
  MaxWire = 1
SYMMETRY Symmetry
INVARIANTS
  OneActiveWindow
  ExpiredWasDue
PROPERTIES
  EndedStaysEnded
  EndIsAnnounced
  AccessIsStable
