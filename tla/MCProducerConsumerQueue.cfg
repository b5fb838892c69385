SPECIFICATION Spec
CONSTANTS
  t1 = t1
  t2 = t2
  t3 = t3
  Thread <- MCThread
  Overload <- MCOverload
  MaxPushes = 4
INVARIANTS
  TypeOK
  FirstInFirstOut
  OneOwner
  NoSleeperForgotten
PROPERTIES
  NothingAfterClear
