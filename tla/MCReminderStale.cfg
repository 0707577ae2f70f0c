\* A reminder created, or a refill read, while the occurrence leaves its series.
SPECIFICATION MCSpec
CONSTANTS
  Events = {e1, e2}
  Reminders = {m1, m2}
  NoEvent = noevent
  Window = 1
  Offset = 0
  Horizon = 2
  Rules = {}
  Mixes <- OnlyStale
  Syncs = {s1, s2}
  Uids = {u1}
  EventIds = {i1, i2, i3}
  MaxStamp = 3
  MaxEdits = 4
  None = none
  Unset = unset
  DayLength = 8
  GapDay = 1
  FoldDay = 2
  LastDay = 3
  Starts <- SomeStarts
  SeriesRules <- SomeSeries
  Windows <- SomeWindows
  MaxOccurrences = 8
  MaxSeries = 3
  Parts = {"reminders"}
SYMMETRY Symmetry
INVARIANTS OnNoOther
\* The clock stops at the horizon.
CHECK_DEADLOCK FALSE
