SPECIFICATION FairSpec
CONSTANTS
  w1 = w1
  w2 = w2
  w3 = w3
  f1 = f1
  f2 = f2
  f3 = f3
  c1 = c1
  c2 = c2
  c3 = c3
  Worker <- Workers0
  FindItem <- Finds2
  CompareItem <- Compares2
  Main = Main
  None = None
PROPERTIES
  Terminates
\* With no thread main polls for ever: the process stops making steps.
CHECK_DEADLOCK FALSE
