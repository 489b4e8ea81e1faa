\* Two workers with crashes, repeated and delayed uploads and a purge; swaps
\* that fail are a part of MCRecords.
SPECIFICATION Spec
CONSTANTS
  day1 = day1
  day2 = day2
  Keys = {day1, day2}
  DateOf <- MCDateOf
  NoDb = NoDb
  Unreadable = Unreadable
  Procs = {p1, p2}
  NoProc = NoProc
  Files = {f1, f2, f3}
  NoFile = NoFile
  Snapshots <- MCSnapshots
  MaxAt = 2
  SwapMayFail = FALSE
SYMMETRY Symmetry
INVARIANTS
  Consistent
  StatsLabelled
PROPERTIES
  NeverBackwards
  NoReplay
