\* One account, two processes; the periods scaled down to one unit of time.
SPECIFICATION FairSpec
CONSTANTS
  Accounts = {a1}
  Runners = {r1, r2}
  NoRunner = none
  DeadRunner = dead
  Grace = 1
  Retention = 1
  Notice = 1
  Horizon = 5
  MaxKills = 1
INVARIANTS OneWarning StampsTellTheTruth
PROPERTIES  PostponedOnce DueAccountsArePurged
