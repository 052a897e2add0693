SPECIFICATION Spec
CONSTANTS
  fa = fa
  fb = fb
  fc = fc
  UIntMax = 7
  ULongMax = 31
  Processors = 2
  Scale = 2
  Worker <- Threads
  Entry <- Entries
  File <- Files
  NameLen <- Names
  Data <- FileData
  Disks <- SortedDisks
  CommandLine <- Lines
  Digits <- Base3
  Width = 2
  Gone = Gone
  Zero = 0
  MaxChanged = 1
INVARIANTS
  TypeOK
  BufferFits
  IndexInRange
  StableGrouped
  NamedOnce
PROPERTIES
  Finishes
