\* A member removed while it is being made owner.
SPECIFICATION GroupSpec
CONSTANTS
  Users = {u1, u2, u3}
  Groups = {g1}
  Tokens = {t1}
  Requests = {p1, p2}
  Nobody = nobody
  NoGroup = nogroup
  MaxGroupsPerUser = 2
  Mixes <- Removals
SYMMETRY Symmetry
PROPERTIES NobodyRemovesTheOwner
\* Once everybody is gone nothing is left to do.
CHECK_DEADLOCK FALSE
