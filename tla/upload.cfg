SPECIFICATION FairSpec
CONSTANTS
  root = root
  sub = sub
  f1 = f1
  f2 = f2
  f3 = f3
  w1 = w1
  w2 = w2
  File = {f1, f2, f3}
  Dir = {root, sub}
  Root = root
  Within <- InSub
  Added = f1
  Worker = {w1, w2}
  Nothing = Nothing
INVARIANTS
  LockComplete
  NoUseAfterDestroy
  TemporaryFilesRemoved
  ProgressHonest
PROPERTIES
  Exits
\* The process ends.
CHECK_DEADLOCK FALSE
