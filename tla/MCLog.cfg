SPECIFICATION FairSpec
CONSTANTS
  t1 = t1
  t2 = t2
  t3 = t3
  Thread <- Threads
  FirstByMain = FALSE
PROPERTIES
  LogReturns
