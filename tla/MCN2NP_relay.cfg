CONSTANTS
  c1 = c1  c2 = c2  c3 = c3  r1 = r1  r2 = r2  u1 = u1  u2 = u2
  Clients = {c1, c2, c3}
  Relays = {r1, r2}
  Home <- OneAbroad
  Methods = {"DATA"}
  Modules <- OneWithout
  Users = {u1, u2}
  Senders = {c1}
  Repliers = {c1}
  Leavers = {c2}
  Punched <- OneDirect
  Stopped = {r2}
  MaxSends = 2
  None = None
SPECIFICATION Spec
INVARIANTS InOrder AckedMeansTreated OwnPacketsOnly NoStaleEntry
SYMMETRY UserSymmetry
CHECK_DEADLOCK FALSE
