\* Up to three pushes, two at once, to one device; two registrations at once for a cap
\* of one; two processes, whose lock may be cut, two reminders.
SPECIFICATION MCSpec
CONSTANTS
  Tasks = {t1, t2}
  Users = {u1, u2}
  Endpoints = {e1, e2}
  Ids = {i1, i2, i3}
  Kinds = {reminder, alert}
  TTLs = {1, 2}
  MaxFailures = 2
  MinFailing = 1
  MaxDevices = 1
  MaxTime = 1
  Mixes <- MCMixes
  e1 = e1
  e2 = e2
  Mixed = Mixed
  None = None
  Runners = {t1, t2}
  NoRunner = norunner
  DeadRunner = dead
  Notifications = {u1, u2}
  MaxAttempts = 2
  MaxConcurrent = 1
  LockMayBeLost = TRUE
  MaxFaults = 1
SYMMETRY MCSymmetry
INVARIANTS NeverAnotherKind DevicesCapped SentOnce
\* Pushes, registrations, faults and time end.
CHECK_DEADLOCK FALSE
