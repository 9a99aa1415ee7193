CONSTANTS
  Nodes = {n1, n2, n3}
  Threads = {t1, t2}
  None = none
  MaxRemote = 1
  MaxComing = 2
SPECIFICATION FairSpec
INVARIANTS RepliesAreTrue CommandsAreWarranted
PROPERTY LockIsReleased
