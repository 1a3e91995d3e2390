SPECIFICATION Spec
CONSTANTS
  None = None
  Earlier = earlier
  Connections = {c1, c2}
  SessionNames = {n1, n2}
  Savers = {s1}
  Assigners = {a1}
  Droppers = {x1}
  Deleters = {y1}
  Servers = {v1, v2}
  Groups = {g1}
  Uploads = {u1}
  Downloads = {d1}
  MaxCommands = 4
  MaxRestarts = 1
SYMMETRY CommandSymmetry
INVARIANTS
  TypeOK
  GroupsExist
  OwnCredentials
  NoOtherDirLeft
PROPERTIES
  SaveKeepsGroup
CHECK_DEADLOCK FALSE
