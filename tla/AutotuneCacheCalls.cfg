SPECIFICATION Spec
CONSTANTS
  c1 = c1
  c2 = c2
  c3 = c3
  here = here
  there = there
  Calls = {c1, c2, c3}
  Dirs = {here, there}
  DirOf <- TwoHosts
  K = 2
INVARIANTS
  TypeOK
  EntriesAreSound
  NoNeedlessSearch
