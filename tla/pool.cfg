SPECIFICATION FairSpec
CONSTANTS
  w1 = w1
  w2 = w2
  w3 = w3
  Worker = {w1, w2, w3}
  MaxTasks = 5
  MaxWakes = 2
  Free = Free
INVARIANTS
  TypeOK
  WorkConserving
  AllWoken
PROPERTIES
  DestructorReturns
  ImplementsTaskPool
