\* One part at a time; what each leaves stored or computes.
SPECIFICATION PartsSpec
CONSTANTS
  d1 = d1
  d2 = d2
  e1 = e1
  e2 = e2
  e3 = e3
  None = None
  Absent = Absent
  Garbage = Garbage
  Unsound = Unsound
  Unlimited = Unlimited
  NoDb = NoDb
  \* Two databases, one generation kept, two faults.
  Members = {d1, d2}
  Order <- MCOrder
  Retention = 1
  MaxVersion = 1
  MaxGens = 2
  MaxFaults = 2
  \* Three generations, one bundle kept, two mishaps.
  Generations = {1, 2, 3}
  OffRetention = 1
  MaxMishaps = 2
  \* Three versions of the owner's data, three interruptions.
  MaxContent = 3
  MaxTrips = 3
  \* Two runtimes, two captures, one thing that breaks.
  Runtimes = {d1, d2}
  MaxUsage = 1
  MaxCaptures = 2
  MaxBreaks = 1
  \* Three generations of the runtime, one slip of launchd or the disk.
  Gens = {e1, e2, e3}
  MaxPid = 4
  MaxSlips = 1
  \* Two issues on two pages of the list, three changes of the remote clock.
  Issues = {d1, d2}
  PageLimit = 1
  Budget = 2
  MaxClock = 3
  MaxErrors = 1
  MaxOverruns = 1
  \* Two signed requests, two processes of the host.
  Signed = {d1, d2}
  Serving = {e1, e2}
  MaxAge = 2
  Slow = 1
  \* Two days, dated and undated revisions, two edits of the files.
  Days = {1, 2}
  Usd = {1}
  Cards = {None}
  PerUsd = 2
  MaxEdits = 2
  \* One card that changes three times.
  MaxTime = 3
  MaxMoves = 3
  \* Two runs of two agents around a day of two hours.
  Agents = {d1, d2}
  Projects = {e1}
  Runs = {e2, e3}
  DayStart = 1
  DayEnd = 3
  LastHour = 3
  Midnights = {1, 3}
  \* Three snapshots at four instants.
  Gap = 2
  Now = 3
  MaxSnaps = 3
  \* One worker whose swaps may fail, two uploads.
  Keys = {e1, e2, e3}
  DateOf <- MCDateOf
  Snapshots <- MCSnapshots
  Procs = {e1}
  Files = {e2, e3}
  MaxAt = 2
  SwapMayFail = TRUE
  \* All tables over three keys of two days, with counters 0 and 1.
  Tables <- MCTables
  \* Two contours, one restart within three poll intervals.
  N = 2
  MaxRestarts = 1
  Window = 3
  Base = 1
  Cap = 2
  MaxUnclean = 1
  Helpers = TRUE
  \* Two commits of the poller, two losses.
  MaxData = 2
  MaxIdle = 1
  MaxLosses = 2
  \* Three requests of one address at a time, two failures allowed.
  Clients = {e1, e2, e3}
  MaxFailures = 2
  LoginWindow = 3
  LoginLock = 3
INVARIANTS
  RebuildFaithful
  SettledIsFresh
  ServedOnce
  FlowMeasured
  SharesAdd
  OneInstance
PROPERTIES
  BackupKept
  OffsiteKept
  Migrated
  RuntimeProven
  CostsRight
  IngestForward
  LockLimits
CHECK_DEADLOCK FALSE
