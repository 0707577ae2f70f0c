\* Three addresses for a table of two pairs, two emails for a share of one, while
\* locks end; one pair over three windows;
\* three users, one group and two requests in each of the four mixes.
SPECIFICATION MCSpec
CONSTANTS
  Addresses = {a1, a2, a3}
  Emails = {x1, x2}
  Attempts = {p1, p2}
  NoPair = nopair
  MaxFailures = 2
  Window = 1
  Lockout = 1
  MaxTracked = 2
  MaxPairsPerIp = 1
  Horizon = 6
  TableHorizon = 2
  Requests = {p1, p2}
  Users = {a1, a2, a3}
  Groups = {g1}
  Tokens = {t1}
  Nobody = nobody
  NoGroup = nogroup
  MaxGroupsPerUser = 2
  Mixes <- AllMixes
SYMMETRY Symmetry
INVARIANTS TableBounded NoBurst SuccessionNeverCollides GroupsAreOwned OwnerlessIsDormant
PROPERTIES InvitationAdmitsOne
\* The clock stops at the horizon; once everybody is gone nothing is left to do.
CHECK_DEADLOCK FALSE
