SPECIFICATION Spec
CONSTANTS
  a = a
  b = b
  c = c
  d = d
  e = e
  u = u
  l = l
  s = s
  B1 = B1
  B2 = B2
  Path <- Paths
  Backup <- Backups
  Real <- MCReal
  Trees <- MCTrees
  NewFiles <- NewName
  Read <- MCRead
  Unprintable <- Odd
  KeepPos <- Keeps
  Base <- MCBase
  None = None
INVARIANTS
  TypeOK
  NothingLost
  KeepsOne
  Cleaned
SYMMETRY
  Symmetry
