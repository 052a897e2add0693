SPECIFICATION FDSpec
CONSTANTS
  w1 = w1
  w2 = w2
  top = top
  sub = sub
  other = other
  fa = fa
  fb = fb
  fc = fc
  fe = fe
  Worker <- Workers2
  FindItem <- Subs
  CompareItem <- Buckets
  Main = Main
  None = None
  File <- Files
  Sources <- TwoSources
  Contents <- Tree
  Size <- MCSize
  Digest <- MCDigest
  Index <- MCIndex
INVARIANTS
  CountsShown
