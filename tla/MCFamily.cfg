\* Two requests at once on two expenses, two categories of which one at a time, one
\* grocery item, a cap from the start but where it may be set; two subjects and two
\* requests at a limit of two; two keys and two requests, the group deleted as a whole
\* in half the behaviours; two links, two sessions and one reset of one account, a
\* link good for as long as the cooldown.
SPECIFICATION MCSpec
CONSTANTS
  Requests = {p1, p2}
  Spenders = {p1, p2}
  Entries = {e1, e2}
  Categories = {c1, c2}
  Items = {i1}
  Amounts = {4}
  FamilyCaps = {0, 5}
  CategoryCaps = {4}
  CategoriesMax = 1
  Spending <- AllSpending
  None = none
  Unset = none
  Subjects = {s1, s2}
  Limit = 2
  Window = 2
  Drifts <- Around
  Horizon = 2
  Keys = {e1, e2}
  Transfers = {p1, p2}
  Nil = none
  Events = {v1}
  Users = {u1}
  Sweeps <- WholeGroup
  Abandoned <- WholeGroup
  Wholesale = {TRUE, FALSE}
  MinAge = 1
  Callers = {p1, p2}
  Links = {e1, e2}
  Nothing = none
  Sessions = {e1, e2}
  Resets = {t1}
  Cooldown = 1
  LinkLife = 1
  MaxPasswords = 3
  LastTime = 3
  Mixes <- AllStarts
SYMMETRY Symmetry
\* Ids are given once, the clocks stop at the horizon.
CHECK_DEADLOCK FALSE
INVARIANTS NoDeadlock WindowCeiling NoCircle LinksWorkOnce OldSessionsEnd NoBytesLost
PROPERTIES CrossingsAlerted AlertsTrue ObjectsGoFirst
