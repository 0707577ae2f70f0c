----------------------- MODULE AccountLifecycle_proofs -----------------------
(* Theorems about AccountLifecycle, for every set of accounts and processes,  *)
(* every duration and every horizon.                                          *)
EXTENDS AccountLifecycle, TLAPS

USE RunnersAssumption, DurationsAssumption DEF Never, Day

\* The rows keep their shape through every write of the handlers and the pass.
LEMMA RowWrites ==
    ASSUME NEW row \in Row, NEW t \in Nat
    PROVE  /\ DeactivatedRow(row, t) \in Row /\ ReactivatedRow(row) \in Row
           /\ RecordRefusal(row, t) \in Row /\ PurgedRow(row, t) \in Row
BY DEF Row, DeactivatedRow, ReactivatedRow, RecordRefusal, PurgedRow

\* A pass and its held row, the lock and the set of running processes stay
\* consistent through every step, crashes and lost locks included.
LEMMA TypeStep == TypeOK /\ [Next]_vars => TypeOK'
<1> SUFFICES ASSUME TypeOK, [Next]_vars PROVE TypeOK'
  OBVIOUS
<1> USE DEF TypeOK, JobTypeOK, rowVars, history, jobVars
<1>1. ASSUME NEW a \in Accounts, CheckDeletion(a) PROVE TypeOK'
  BY <1>1 DEF CheckDeletion
<1>2. ASSUME NEW a \in Accounts, RequestDeletion(a) PROVE TypeOK'
  BY <1>2 DEF RequestDeletion, Row
<1>3. ASSUME NEW a \in Accounts, CancelDeletion(a) PROVE TypeOK'
  BY <1>3 DEF CancelDeletion, Row
<1>4. ASSUME NEW a \in Accounts, Deactivate(a) PROVE TypeOK'
  <2>1. DeactivatedRow(users[a], now) \in Row
    BY RowWrites
  <2>2. users' \in [Accounts -> Row]
    BY <1>4, <2>1 DEF Deactivate
  <2> QED
    BY <1>4, <2>2 DEF Deactivate
<1>5. ASSUME NEW a \in Accounts, Reactivate(a) PROVE TypeOK'
  <2>1. ReactivatedRow(users[a]) \in Row
    BY RowWrites
  <2>2. users' \in [Accounts -> Row]
    BY <1>5, <2>1 DEF Reactivate
  <2> QED
    BY <1>5, <2>2 DEF Reactivate
<1>6. ASSUME NEW a \in Accounts, RequestReactivation(a) PROVE TypeOK'
  BY <1>6 DEF RequestReactivation
<1>7. ASSUME NEW a \in Accounts, RefuseReactivation(a) PROVE TypeOK'
  <2>1. RecordRefusal(users[a], now) \in Row
    BY RowWrites
  <2>2. users' \in [Accounts -> Row]
    BY <1>7, <2>1 DEF RefuseReactivation
  <2> QED
    BY <1>7, <2>2 DEF RefuseReactivation
<1>8. ASSUME NEW r \in Runners, StartPass(r) PROVE TypeOK'
  BY <1>8 DEF StartPass, Acquire, PassState, Idle
<1>9. ASSUME NEW r \in Runners, NEW a \in Accounts, SendNotice(r, a) PROVE TypeOK'
  <2> DEFINE q == [pass[r] EXCEPT !.todo = pass[r].todo \ {a}, !.held = {a}, !.at = now]
  <2>0. pass[r].phase = "warn"
    BY <1>9 DEF SendNotice, InWarn
  <2>1. q \in PassState /\ q.phase = "warn" /\ q.held = {a}
    BY <2>0 DEF PassState
  <2>2. pass' = [pass EXCEPT ![r] = q]
    BY <1>9 DEF SendNotice
  <2> HIDE DEF q
  <2>3. mailed' \in [Accounts -> Day] /\ copies' \in [Accounts -> Nat]
    BY <1>9 DEF SendNotice
  <2>4. UNCHANGED <<now, users, requests, deleting, lock, running, refusedOn, kills>>
    BY <1>9 DEF SendNotice
  <2> QED
    BY <2>0, <2>1, <2>2, <2>3, <2>4
<1>10. ASSUME NEW r \in Runners, NEW a \in Accounts, SkipNotice(r, a) PROVE TypeOK'
  BY <1>10 DEF SkipNotice, InWarn, Take, PassState
<1>11. ASSUME NEW r \in Runners, NEW a \in Accounts, StampNotice(r, a) PROVE TypeOK'
  <2>1. pass[r].at \in Day /\ users[a] \in Row
    BY DEF PassState
  <2>2. users' \in [Accounts -> Row]
    BY <1>11, <2>1 DEF StampNotice, Row
  <2> DEFINE q == [pass[r] EXCEPT !.held = {}, !.at = Never]
  <2>3. q \in PassState /\ q.phase = pass[r].phase /\ q.held = {}
    BY DEF PassState
  <2>4. pass' = [pass EXCEPT ![r] = q]
    BY <1>11 DEF StampNotice
  <2> HIDE DEF q
  <2>5. UNCHANGED <<now, requests, deleting, lock, running, mailed, refusedOn, copies, kills>>
    BY <1>11 DEF StampNotice
  <2> QED
    BY <2>2, <2>3, <2>4, <2>5
<1>12. ASSUME NEW r \in Runners, StartPurges(r) PROVE TypeOK'
  BY <1>12 DEF StartPurges, InWarn, PassState
<1>13. ASSUME NEW r \in Runners, NEW a \in Accounts, PurgeAccount(r, a) PROVE TypeOK'
  <2>1. PurgedRow(users[a], now) \in Row
    BY RowWrites
  <2>2. users' \in [Accounts -> Row]
    BY <1>13, <2>1 DEF PurgeAccount
  <2> QED
    BY <1>13, <2>2 DEF PurgeAccount, Take, PassState
<1>14. ASSUME NEW r \in Runners, EndPass(r) PROVE TypeOK'
  BY <1>14 DEF EndPass, Release, Idle, PassState
<1>15. ASSUME NEW r \in Runners, KillRunner(r) PROVE TypeOK'
  BY <1>15 DEF KillRunner, Killed, Idle, PassState
<1>16. ASSUME NEW r \in Runners, LoseLock(r) PROVE TypeOK'
  BY <1>16 DEF LoseLock, ConnectionCut
<1>17. CASE DropDeadSession
  BY <1>17 DEF DropDeadSession, DeadSessionDropped
<1>18. CASE Tick
  BY <1>18 DEF Tick
<1>19. CASE UNCHANGED vars
  BY <1>19 DEF vars
<1> QED
  BY <1>1, <1>2, <1>3, <1>4, <1>5, <1>6, <1>7, <1>8, <1>9, <1>10, <1>11, <1>12,
     <1>13, <1>14, <1>15, <1>16, <1>17, <1>18, <1>19
  DEF Next, Handler, PassStep

\* TypeOK is an invariant.
THEOREM TypeCorrect == Spec => []TypeOK
<1>1. Init => TypeOK
  BY DEF Init, TypeOK, JobInit, JobTypeOK, Row, PassState, Idle
<1> QED
  BY <1>1, TypeStep, PTL DEF Spec

\* The stamps of the rows and the history agree through every step.
LEMMA TruthStep ==
    IndInv /\ [Next]_vars =>
    (StampsTellTheTruth /\ DatesArePast /\ HeldRowsAreFrozen /\ VoidWarningsAreOld)'
<1> SUFFICES ASSUME IndInv, [Next]_vars
             PROVE (/\ StampsTellTheTruth /\ DatesArePast
                    /\ HeldRowsAreFrozen /\ VoidWarningsAreOld)'
  OBVIOUS
<1>0. TypeOK /\ TypeOK'
  BY TypeStep DEF IndInv
<1> DEFINE Rest == StampsTellTheTruth /\ DatesArePast /\ HeldRowsAreFrozen /\ VoidWarningsAreOld
<1> USE DEF StampsTellTheTruth, DatesArePast, HeldRowsAreFrozen, VoidWarningsAreOld,
            Held, LastDate, Later, Deleted, Deactivated, Active, RowFree, Row, PassState,
            rowVars, history, jobVars
<1>d. Rest
  BY DEF IndInv
<1>t. /\ now \in Nat /\ users \in [Accounts -> Row] /\ mailed \in [Accounts -> Day]
      /\ refusedOn \in [Accounts -> Day] /\ pass \in [Runners -> PassState]
  BY <1>0 DEF TypeOK
<1> SUFFICES Rest'
  BY <1>0 DEF IndInv
<1>1. ASSUME NEW a \in Accounts, CheckDeletion(a) PROVE Rest'
  BY <1>d, <1>t, <1>1 DEF CheckDeletion
<1>2. ASSUME NEW a \in Accounts, RequestDeletion(a) PROVE Rest'
  BY <1>d, <1>t, <1>2 DEF RequestDeletion
<1>3. ASSUME NEW a \in Accounts, CancelDeletion(a) PROVE Rest'
  BY <1>d, <1>t, <1>3 DEF CancelDeletion
<1>4. ASSUME NEW a \in Accounts, Deactivate(a) PROVE Rest'
  BY <1>d, <1>t, <1>4 DEF Deactivate, DeactivatedRow
<1>5. ASSUME NEW a \in Accounts, Reactivate(a) PROVE Rest'
  BY <1>d, <1>t, <1>5 DEF Reactivate, ReactivatedRow
<1>6. ASSUME NEW a \in Accounts, RequestReactivation(a) PROVE Rest'
  BY <1>d, <1>t, <1>6 DEF RequestReactivation
<1>7. ASSUME NEW a \in Accounts, RefuseReactivation(a) PROVE Rest'
  BY <1>d, <1>t, <1>7 DEF RefuseReactivation, RecordRefusal
<1>8. ASSUME NEW r \in Runners, StartPass(r) PROVE Rest'
  <2>1. pass[r].held = {}
    BY <1>0, <1>8 DEF StartPass, Acquire, TypeOK
  <2>2. pass'[r].held = {} /\ \A s \in Runners \ {r} : pass'[s] = pass[s]
    BY <1>8, <1>t DEF StartPass, Idle
  <2> QED
    BY <1>d, <1>t, <1>8, <2>1, <2>2 DEF StartPass
<1>9. ASSUME NEW r \in Runners, NEW a \in Accounts, SendNotice(r, a) PROVE Rest'
  <2>1. /\ users' = users /\ refusedOn' = refusedOn /\ now' = now
        /\ mailed' = [mailed EXCEPT ![a] = now]
        /\ NoticeDue(users[a], a \in requests, now) /\ RowFree(a)
    BY <1>9 DEF SendNotice
  <2>2. /\ pass'[r].held = {a} /\ pass'[r].at = now /\ pass[r].held = {}
        /\ \A s \in Runners \ {r} : pass'[s] = pass[s]
    BY <1>9, <1>t DEF SendNotice, InWarn
  <2>3. /\ users[a].deleted_at = Never /\ users[a].deactivated_at # Never
        /\ users[a].notice_sent_at = Never
    BY <2>1 DEF NoticeDue
  <2>4. now >= LastDate(a)
    BY <1>d, <1>t
  <2>5. StampsTellTheTruth'
    BY <1>d, <1>t, <2>1, <2>3
  <2>6. DatesArePast'
    BY <1>d, <1>t, <2>1
  <2>7. HeldRowsAreFrozen'
    <3> SUFFICES ASSUME NEW s \in Runners, NEW b \in Accounts, b \in pass'[s].held
                 PROVE  HeldRowsAreFrozen!(s, b)'
      OBVIOUS
    <3>1. CASE s = r
      BY <3>1, <1>d, <1>t, <2>1, <2>2, <2>3, <2>4
    <3>2. CASE s # r
      <4>1. b \in pass[s].held /\ b # a
        BY <3>2, <2>1, <2>2
      <4> QED
        BY <3>2, <4>1, <1>d, <1>t, <2>1, <2>2
    <3> QED
      BY <3>1, <3>2
  <2>8. VoidWarningsAreOld'
    <3> SUFFICES ASSUME NEW b \in Accounts \ {a}, ~Held(b)' PROVE ~Held(b)
      BY <1>d, <1>t, <2>1, <2>2
    <3> QED
      BY <2>2
  <2> QED
    BY <2>5, <2>6, <2>7, <2>8
<1>10. ASSUME NEW r \in Runners, NEW a \in Accounts, SkipNotice(r, a) PROVE Rest'
  BY <1>d, <1>t, <1>10 DEF SkipNotice, Take
<1>11. ASSUME NEW r \in Runners, NEW a \in Accounts, StampNotice(r, a) PROVE Rest'
  BY <1>d, <1>t, <1>11 DEF StampNotice
<1>12. ASSUME NEW r \in Runners, StartPurges(r) PROVE Rest'
  BY <1>d, <1>t, <1>12 DEF StartPurges, InWarn
<1>13. ASSUME NEW r \in Runners, NEW a \in Accounts, PurgeAccount(r, a) PROVE Rest'
  <2>1. \A s \in Runners : pass'[s].held = pass[s].held /\ pass'[s].at = pass[s].at
    BY <1>13, <1>t DEF PurgeAccount, Take
  <2>2. RowFree(a) /\ UNCHANGED <<now, mailed, refusedOn>>
    BY <1>13 DEF PurgeAccount
  <2>3. CASE StillDue(a)
    <3>1. users' = [users EXCEPT ![a] = PurgedRow(users[a], now)]
      BY <1>13, <2>3 DEF PurgeAccount
    <3> QED
      BY <3>1, <2>1, <2>2, <1>d, <1>t DEF PurgedRow
  <2>4. CASE ~StillDue(a)
    BY <1>13, <2>1, <2>2, <2>4, <1>d, <1>t DEF PurgeAccount
  <2> QED
    BY <2>3, <2>4
<1>14. ASSUME NEW r \in Runners, EndPass(r) PROVE Rest'
  <2>1. pass[r].held = {} /\ pass'[r].held = {} /\ \A s \in Runners \ {r} : pass'[s] = pass[s]
    BY <1>0, <1>14 DEF EndPass, Idle, TypeOK
  <2> QED
    BY <1>d, <1>t, <1>14, <2>1 DEF EndPass
<1>15. ASSUME NEW r \in Runners, KillRunner(r) PROVE Rest'
  <2>1. /\ pass'[r].held = {} /\ \A s \in Runners \ {r} : pass'[s] = pass[s]
        /\ mailed' = [a \in Accounts |-> IF a \in pass[r].held THEN Never ELSE mailed[a]]
        /\ UNCHANGED <<now, users, refusedOn>>
    BY <1>15, <1>t DEF KillRunner, Idle
  <2>2. StampsTellTheTruth'
    BY <1>d, <1>t, <2>1
  <2>3. DatesArePast'
    BY <1>d, <1>t, <2>1
  <2>4. HeldRowsAreFrozen'
    BY <1>d, <1>t, <2>1
  <2>5. VoidWarningsAreOld'
    BY <1>d, <1>t, <2>1
  <2> QED
    BY <2>2, <2>3, <2>4, <2>5
<1>16. ASSUME NEW r \in Runners, LoseLock(r) PROVE Rest'
  BY <1>d, <1>t, <1>16 DEF LoseLock
<1>17. CASE DropDeadSession
  BY <1>d, <1>t, <1>17 DEF DropDeadSession
<1>18. CASE Tick
  BY <1>d, <1>t, <1>18 DEF Tick
<1>19. CASE UNCHANGED vars
  BY <1>d, <1>t, <1>19 DEF vars
<1> QED
  BY <1>1, <1>2, <1>3, <1>4, <1>5, <1>6, <1>7, <1>8, <1>9, <1>10, <1>11, <1>12,
     <1>13, <1>14, <1>15, <1>16, <1>17, <1>18, <1>19
  DEF Next, Handler, PassStep

\* A warning leaves only for a row without a stamp, and everything that takes a
\* stamp away opens a new deadline, for which no warning has left yet.
LEMMA WarningStep == IndInv /\ [Next]_vars => (OneWarning /\ UnstampedIsUnwarned)'
<1> SUFFICES ASSUME IndInv, [Next]_vars PROVE (OneWarning /\ UnstampedIsUnwarned)'
  OBVIOUS
<1> DEFINE Once == OneWarning /\ UnstampedIsUnwarned
<1> USE DEF OneWarning, UnstampedIsUnwarned, Held, Deleted, Deactivated, Active, RowFree,
            Row, PassState, rowVars, history, jobVars
<1>d. Once /\ StampsTellTheTruth /\ HeldRowsAreFrozen
  BY DEF IndInv
<1>0. TypeOK
  BY DEF IndInv
<1>t. /\ now \in Nat /\ users \in [Accounts -> Row] /\ copies \in [Accounts -> Nat]
      /\ refusedOn \in [Accounts -> Day] /\ pass \in [Runners -> PassState]
  BY <1>0 DEF TypeOK
<1>1. ASSUME NEW a \in Accounts, CheckDeletion(a) PROVE Once'
  BY <1>d, <1>t, <1>1 DEF CheckDeletion
<1>2. ASSUME NEW a \in Accounts, RequestDeletion(a) PROVE Once'
  BY <1>d, <1>t, <1>2 DEF RequestDeletion
<1>3. ASSUME NEW a \in Accounts, CancelDeletion(a) PROVE Once'
  BY <1>d, <1>t, <1>3 DEF CancelDeletion
<1>4. ASSUME NEW a \in Accounts, Deactivate(a) PROVE Once'
  BY <1>d, <1>t, <1>4 DEF Deactivate, DeactivatedRow
<1>5. ASSUME NEW a \in Accounts, Reactivate(a) PROVE Once'
  BY <1>d, <1>t, <1>5 DEF Reactivate, ReactivatedRow
<1>6. ASSUME NEW a \in Accounts, RequestReactivation(a) PROVE Once'
  BY <1>d, <1>t, <1>6 DEF RequestReactivation
<1>7. ASSUME NEW a \in Accounts, RefuseReactivation(a) PROVE Once'
  BY <1>d, <1>t, <1>7 DEF RefuseReactivation, RecordRefusal, StampsTellTheTruth
<1>8. ASSUME NEW r \in Runners, StartPass(r) PROVE Once'
  <2>1. pass[r].held = {}
    BY <1>0, <1>8 DEF StartPass, Acquire, TypeOK
  <2>2. pass'[r].held = {} /\ \A s \in Runners \ {r} : pass'[s] = pass[s]
    BY <1>8, <1>t DEF StartPass, Idle
  <2> QED
    BY <1>d, <1>t, <1>8, <2>1, <2>2 DEF StartPass
<1>9. ASSUME NEW r \in Runners, NEW a \in Accounts, SendNotice(r, a) PROVE Once'
  <2>1. /\ users' = users /\ copies' = [copies EXCEPT ![a] = @ + 1]
        /\ NoticeDue(users[a], a \in requests, now) /\ RowFree(a)
    BY <1>9 DEF SendNotice
  <2>2. copies[a] = 0
    BY <1>d, <2>1 DEF NoticeDue
  <2>3. \A b \in Accounts : ~Held(b)' => ~Held(b) /\ b # a
    BY <1>9, <1>t DEF SendNotice, InWarn
  <2> QED
    BY <1>d, <1>t, <2>1, <2>2, <2>3
<1>10. ASSUME NEW r \in Runners, NEW a \in Accounts, SkipNotice(r, a) PROVE Once'
  BY <1>d, <1>t, <1>10 DEF SkipNotice, Take
<1>11. ASSUME NEW r \in Runners, NEW a \in Accounts, StampNotice(r, a) PROVE Once'
  BY <1>d, <1>t, <1>11 DEF StampNotice, HeldRowsAreFrozen
<1>12. ASSUME NEW r \in Runners, StartPurges(r) PROVE Once'
  BY <1>d, <1>t, <1>12 DEF StartPurges, InWarn
<1>13. ASSUME NEW r \in Runners, NEW a \in Accounts, PurgeAccount(r, a) PROVE Once'
  <2>1. \A s \in Runners : pass'[s].held = pass[s].held
    BY <1>13, <1>t DEF PurgeAccount, Take
  <2>2. copies' = copies
    BY <1>13 DEF PurgeAccount
  <2>3. CASE StillDue(a)
    <3>1. users' = [users EXCEPT ![a] = PurgedRow(users[a], now)]
      BY <1>13, <2>3 DEF PurgeAccount
    <3> QED
      BY <3>1, <2>1, <2>2, <1>d, <1>t DEF PurgedRow
  <2>4. CASE ~StillDue(a)
    BY <1>13, <2>1, <2>2, <2>4, <1>d, <1>t DEF PurgeAccount
  <2> QED
    BY <2>3, <2>4
<1>14. ASSUME NEW r \in Runners, EndPass(r) PROVE Once'
  <2>1. pass[r].held = {} /\ pass'[r].held = {} /\ \A s \in Runners \ {r} : pass'[s] = pass[s]
    BY <1>0, <1>14 DEF EndPass, Idle, TypeOK
  <2> QED
    BY <1>d, <1>t, <1>14, <2>1 DEF EndPass
<1>15. ASSUME NEW r \in Runners, KillRunner(r) PROVE Once'
  <2>1. /\ pass'[r].held = {} /\ \A s \in Runners \ {r} : pass'[s] = pass[s]
        /\ copies' = [a \in Accounts |-> IF a \in pass[r].held THEN 0 ELSE copies[a]]
        /\ users' = users
    BY <1>15, <1>t DEF KillRunner, Idle
  <2> QED
    BY <1>d, <1>t, <2>1
<1>16. ASSUME NEW r \in Runners, LoseLock(r) PROVE Once'
  BY <1>d, <1>t, <1>16 DEF LoseLock
<1>17. CASE DropDeadSession
  BY <1>d, <1>t, <1>17 DEF DropDeadSession
<1>18. CASE Tick
  BY <1>d, <1>t, <1>18 DEF Tick
<1>19. CASE UNCHANGED vars
  BY <1>d, <1>t, <1>19 DEF vars
<1> QED
  BY <1>1, <1>2, <1>3, <1>4, <1>5, <1>6, <1>7, <1>8, <1>9, <1>10, <1>11, <1>12,
     <1>13, <1>14, <1>15, <1>16, <1>17, <1>18, <1>19
  DEF Next, Handler, PassStep

LEMMA IndInvHolds == Spec => []IndInv
<1>1. Init => IndInv
  <2>1. Init => TypeOK
    BY DEF Init, TypeOK, JobInit, JobTypeOK, Row, PassState, Idle
  <2>2. ASSUME Init PROVE StampsTellTheTruth /\ DatesArePast /\ VoidWarningsAreOld
    BY <2>2 DEF Init, StampsTellTheTruth, DatesArePast, VoidWarningsAreOld, Deleted,
       LastDate, Later
  <2>3. ASSUME Init PROVE HeldRowsAreFrozen /\ OneWarning /\ UnstampedIsUnwarned
    BY <2>3 DEF Init, HeldRowsAreFrozen, Idle, OneWarning, UnstampedIsUnwarned
  <2> QED
    BY <2>1, <2>2, <2>3 DEF IndInv
<1>2. IndInv /\ [Next]_vars => IndInv'
  BY TypeStep, TruthStep, WarningStep DEF IndInv
<1> QED
  BY <1>1, <1>2, PTL DEF Spec

\* The stamps on which the purge decides are the dates of what happened.
THEOREM StampsAreTrue == Spec => []StampsTellTheTruth
BY IndInvHolds, PTL DEF IndInv

\* One warning per deadline, whatever passes overlap.
THEOREM WarnedOnce == Spec => []OneWarning
BY IndInvHolds, PTL DEF IndInv

\* What a handler may do to a row that a pass decided on: never a purge; and on a
\* deactivated row that stays so and has its first refusal dated, nothing that moves
\* the date.
LEMMA HandlerRows ==
    ASSUME TypeOK, NEW b \in Accounts, Handler(b), NEW a \in Accounts
    PROVE  /\ users'[a].deleted_at = users[a].deleted_at
           /\ (/\ Deactivated(a) /\ Deactivated(a)' /\ ~Deleted(a)
               /\ users[a].refused_at # Never)
              => DeactivationPurgeAt(users'[a]) = DeactivationPurgeAt(users[a])
<1> DEFINE G == /\ users'[a].deleted_at = users[a].deleted_at
                /\ (/\ Deactivated(a) /\ Deactivated(a)' /\ ~Deleted(a)
                    /\ users[a].refused_at # Never)
                   => DeactivationPurgeAt(users'[a]) = DeactivationPurgeAt(users[a])
<1>0. users \in [Accounts -> Row]
  BY DEF TypeOK
<1> USE <1>0 DEF Row, Deactivated, Deleted, Active
<1>1. CASE UNCHANGED users
  BY <1>1
<1>2. CASE RequestDeletion(b)
  BY <1>2 DEF RequestDeletion, DeactivationPurgeAt
<1>3. CASE CancelDeletion(b)
  BY <1>3 DEF CancelDeletion, DeactivationPurgeAt
<1>4. CASE Deactivate(b)
  BY <1>4 DEF Deactivate, DeactivatedRow
<1>5. CASE Reactivate(b)
  BY <1>5 DEF Reactivate, ReactivatedRow
<1>6. CASE RefuseReactivation(b)
  <2>1. users' = [users EXCEPT ![b] = RecordRefusal(users[b], now)]
    BY <1>6 DEF RefuseReactivation
  <2>2. users[b].refused_at # Never => RecordRefusal(users[b], now) = users[b]
    BY DEF RecordRefusal
  <2>3. RecordRefusal(users[b], now).deleted_at = users[b].deleted_at
    BY DEF RecordRefusal
  <2> QED
    BY <2>1, <2>2, <2>3
<1> QED
  BY <1>1, <1>2, <1>3, <1>4, <1>5, <1>6 DEF Handler, CheckDeletion, RequestReactivation

\* Whoever is purged was still due on its locked row, and no warning of its was
\* being sent.
LEMMA OnlyPurgesDelete ==
    ASSUME TypeOK, [Next]_vars, NEW a \in Accounts, ~Deleted(a), Deleted(a)'
    PROVE  StillDue(a) /\ RowFree(a) /\ UNCHANGED <<now, mailed, refusedOn>>
<1> USE DEF TypeOK, Row, Deleted, Deactivated, Active
<1>1. ASSUME NEW b \in Accounts, Handler(b) PROVE FALSE
  BY <1>1, HandlerRows
<1>2. ASSUME NEW r \in Runners, NEW b \in Accounts, StampNotice(r, b) PROVE FALSE
  BY <1>2 DEF StampNotice
<1>3. ASSUME NEW r \in Runners, NEW b \in Accounts, PurgeAccount(r, b)
      PROVE  b = a /\ StillDue(b)
  BY <1>3 DEF PurgeAccount
<1>4. ASSUME UNCHANGED users PROVE FALSE
  BY <1>4
<1> QED
  BY <1>1, <1>2, <1>3, <1>4
  DEF Next, PassStep, StartPass, StartPurges, EndPass, SendNotice, SkipNotice, PurgeAccount,
      KillRunner, LoseLock, DropDeadSession, Tick, vars, rowVars, history

\* No account is purged early, unwarned, or on a stale candidate list.
THEOREM PurgesAreEarned == Spec => PurgeIsEarned
<1>1. IndInv /\ [Next]_vars => EarnedPurges
  <2> SUFFICES ASSUME IndInv, [Next]_vars, NEW a \in Accounts, ~Deleted(a), Deleted(a)',
                      ~ /\ users[a].deletion_requested_at # Never
                        /\ now > users[a].deletion_requested_at + Grace
               PROVE  FairlyWarned(a)
    BY DEF EarnedPurges
  <2>1. StillDue(a) /\ RowFree(a)
    BY OnlyPurgesDelete DEF IndInv
  <2>2. /\ users[a].deactivated_at # Never /\ now >= DeactivationPurgeAt(users[a])
        /\ ~Suspended(users[a], a \in requests) /\ users[a].deleted_at = Never
    BY <2>1 DEF StillDue, PurgeDue
  <2>3. /\ users[a].refused_at = refusedOn[a]
        /\ users[a].notice_sent_at # Never =>
              users[a].notice_sent_at = mailed[a] /\ mailed[a] >= LastDate(a)
        /\ users[a].notice_sent_at = Never => mailed[a] <= LastDate(a)
    BY <2>1, <2>2 DEF IndInv, StampsTellTheTruth, VoidWarningsAreOld, Deleted, Held, LastDate
  <2>4. now \in Nat /\ users[a] \in Row /\ mailed[a] \in Day /\ refusedOn[a] \in Day
    BY DEF IndInv, TypeOK
  <2> QED
    BY <2>2, <2>3, <2>4
    DEF FairlyWarned, DeactivationPurgeAt, Suspended, LastDate, Later, Row
<1> QED
  BY <1>1, IndInvHolds, PTL DEF Spec, PurgeIsEarned

\* Refusals and new requests postpone the purge once.
THEOREM PostponesOnce == Spec => PostponedOnce
<1>1. IndInv /\ [Next]_vars => FixedDates
  <2> SUFFICES ASSUME IndInv, [Next]_vars, NEW a \in Accounts,
                      Deactivated(a), Deactivated(a)', ~Deleted(a)',
                      refusedOn[a] # Never, users[a].notice_sent_at # Never
               PROVE  DeactivationPurgeAt(users'[a]) = DeactivationPurgeAt(users[a])
    BY DEF FixedDates
  <2>0. users \in [Accounts -> Row] /\ now \in Nat
    BY DEF IndInv, TypeOK
  <2>1. ~Deleted(a) => users[a].refused_at # Never
    BY DEF IndInv, StampsTellTheTruth
  <2>2. CASE UNCHANGED users[a]
    BY <2>2
  <2>3. ASSUME NEW b \in Accounts, Handler(b)
        PROVE  DeactivationPurgeAt(users'[a]) = DeactivationPurgeAt(users[a])
    BY <2>1, <2>3, HandlerRows DEF IndInv, Deleted
  <2>4. ASSUME NEW r \in Runners, NEW b \in Accounts, StampNotice(r, b)
        PROVE  users'[a] = users[a]
    <3>1. b # a
      BY <2>4 DEF StampNotice, IndInv, HeldRowsAreFrozen
    <3> QED
      BY <2>0, <2>4, <3>1 DEF StampNotice
  <2>5. ASSUME NEW r \in Runners, NEW b \in Accounts, PurgeAccount(r, b)
        PROVE  users'[a] = users[a]
    <3>1. CASE StillDue(b)
      <4>1. PurgedRow(users[b], now).deleted_at # Never
        BY <2>0 DEF PurgedRow, Row
      <4>2. users' = [users EXCEPT ![b] = PurgedRow(users[b], now)]
        BY <2>5, <3>1 DEF PurgeAccount
      <4> QED
        BY <2>0, <4>1, <4>2 DEF Deleted
    <3>2. CASE ~StillDue(b)
      BY <2>5, <3>2 DEF PurgeAccount
    <3> QED
      BY <3>1, <3>2
  <2> QED
    BY <2>2, <2>3, <2>4, <2>5
    DEF Next, PassStep, StartPass, StartPurges, EndPass, SendNotice, SkipNotice,
        KillRunner, LoseLock, DropDeadSession, Tick, vars, rowVars, history
<1> QED
  BY <1>1, IndInvHolds, PTL DEF Spec, PostponedOnce
=============================================================================
