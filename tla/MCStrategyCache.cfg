SPECIFICATION Spec
CONSTANTS
  p1 = p1
  p2 = p2
  n1 = n1
  n2 = n2
  old = old
  new = new
  split = split
  Missing = Missing
  Torn = Torn
  None = None
  Procs = {p1, p2}
  Networks = {n1, n2}
  Profiles = {old, new}
  Candidates = {split}
  Has <- MCHas
  MaxEntries = 1
  MaxAge = 1
  Skew = 0
  Faults = {"damage", "clock"}
  MaxClock = 2
SYMMETRY Symmetry
INVARIANTS LoadedWasSaved NeverTorn NoneRevived SavedIsKept
