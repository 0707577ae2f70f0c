\* The reminders: the lock never lost, two reminders and one fault, or three, one more
\* than the channel takes beside the one being pushed, and none. The attempts: two
\* addresses, a table of one pair, over three windows. The objects: one key, two
\* requests at once; the group deleted as a whole in half the behaviours.
SPECIFICATION MCSpec
CONSTANTS
  Runners = {s1, s2}
  NoRunner = norunner
  DeadRunner = dead
  Notifications = {n1, n2, n3}
  MaxAttempts = 2
  MaxConcurrent = 1
  LockMayBeLost = FALSE
  MaxFaults = 1
  Addresses = {a1, a2}
  Emails = {x1}
  Attempts = {l1, l2}
  NoPair = nopair
  MaxFailures = 2
  Window = 1
  Lockout = 1
  MaxTracked = 1
  MaxPairsPerIp = 1
  Horizon = 3
  Keys = {k1}
  Events = {e1}
  Users = {u1}
  Transfers = {p1, p2}
  Nil = none
  Sweeps <- WholeGroup
  Abandoned <- WholeGroup
  Wholesale = {TRUE, FALSE}
  MinAge = 1
  Spare = {n3}
  Parts = {"reminders", "channel", "login", "objects"}
PROPERTIES KeepsPromise DueEnds AttemptsEnd OrphansGo
\* Time, reminders, faults and keys end.
CHECK_DEADLOCK FALSE
