\* Reminders set, refilled, copied by splits and deleted, or their events moved, over
\* four units of time; two synchronisations of a feed of one entry, with four
\* changes of it or of its events; series over four days of four hours, one of which
\* skips an hour and one repeats it, with one edit to three.
SPECIFICATION MCSpec
CONSTANTS
  Events = {e1, e2}
  Reminders = {m1, m2}
  NoEvent = noevent
  Window = 2
  Offset = 2
  Horizon = 3
  Rules <- SomeRules
  Mixes <- AllMixes
  Syncs = {s1, s2}
  Uids = {u1}
  EventIds = {i1, i2, i3}
  MaxStamp = 3
  MaxEdits = 4
  None = none
  Unset = unset
  DayLength = 8
  GapDay = 1
  FoldDay = 2
  LastDay = 3
  Starts <- SomeStarts
  SeriesRules <- SomeSeries
  Windows <- SomeWindows
  MaxOccurrences = 8
  MaxSeries = 3
  Parts = {"reminders", "import", "series"}
SYMMETRY Symmetry
INVARIANTS NoneForgotten EventOnce RuleFits AgendaAsPlanned
PROPERTIES SentStaysSent RuleKept
\* The clock stops at the horizon; edits end.
CHECK_DEADLOCK FALSE
