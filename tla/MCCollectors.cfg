CONSTANTS
  Owners = {a, b}
  Defs = {1, 2}
  Size <- BySize
  Budget = 3
  Tasks = {t1, t2, t3}
  Nobody = Nobody
  None = None
  MaxArmed = 3
  MaxRuns = 1
  MaxOps = 7
  MaxFaults = 1
  Keys = {1, 2}
  Garbage = 0
  Found <- FoundFiles
  FirstSave = 10
  MaxBoots = 3
  MaxSaves = 2
SPECIFICATION MCSpec
INVARIANTS NoDeadFile LiveIsOnDisk NeverTakenAway
 
PROPERTY DirectoryKept
SYMMETRY Symmetry
CHECK_DEADLOCK FALSE
