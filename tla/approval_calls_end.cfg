SPECIFICATION FairSpec
CONSTANTS
  u1 = u1
  r1 = r1
  r2 = r2
  c1 = c1
  c2 = c2
  User = {u1}
  File = {"setup"}
  NameOf <- Names
  HashOf <- Hashes
  ReqId = {r1, r2}
  Caller = {c1, c2}
  Faults = {"socket", "crash"}
  MaxWire = 2
PROPERTIES
  CallsEnd
