SPECIFICATION Spec
CONSTANTS
  w1 = w1
  w2 = w2
  w3 = w3
  f1 = f1
  f2 = f2
  f3 = f3
  c1 = c1
  c2 = c2
  c3 = c3
  Worker <- Workers3
  FindItem <- Finds3
  CompareItem <- Compares3
  Main = Main
  None = None
SYMMETRY Symmetry
INVARIANTS
  TypeOK
  TokensMatchWork
  NoWorkAfterExit
  OwnedOnce
  FreesOnce
  StaysQuiet
  NoLateFind
