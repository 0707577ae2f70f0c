-------------------------- MODULE AccountLifecycle --------------------------
(***************************************************************************)
(* The life of an account's row in `users` and of its reactivation         *)
(* request: deletion request and cancellation (auth/mod.rs), deactivation, *)
(* reactivation and refusal by the superadmin (user_admin/admin.rs), the   *)
(* holder's request (auth/deactivated.rs), and the two steps of the purge  *)
(* pass that decide on it (jobs/account_purge.rs): warn, then purge.       *)
(*                                                                         *)
(* Every handler is one transaction that takes the row of the account      *)
(* before it decides, so each is one action, blocked while a pass holds    *)
(* the row through the sending of its email; delete_account alone decides  *)
(* before it writes.  Time is in days.                                     *)
(***************************************************************************)
EXTENDS Integers, FiniteSets, JobLock

CONSTANTS Accounts,
          Grace,      \* PURGE_GRACE_DAYS
          Retention,  \* DEACTIVATION_RETENTION_MONTHS, in days
          Notice,     \* DEACTIVATION_NOTICE_DAYS
          Horizon,    \* bound on the clock: the runs stop counting there
          MaxKills    \* bound on the times the processes are killed

ASSUME DurationsAssumption ==
    /\ Grace \in Nat /\ Retention \in Nat /\ Notice \in Nat
    /\ Notice <= Retention
    /\ Horizon \in Nat /\ MaxKills \in Nat

VARIABLES now,
          users,      \* the five timestamps of each row
          requests,   \* account_reactivation_requests: who has one pending
          deleting,   \* delete_account calls past their checks, not yet written
          pass,       \* per runner: the phase of its pass and its candidates
          mailed,     \* history: when the last warning left (forgotten if rolled back)
          refusedOn,  \* history: when the first refusal since the deactivation fell
          copies,     \* history: warnings sent since the row last lost its stamp
          kills

rowVars == <<users, requests, deleting>>
history == <<mailed, refusedOn, copies>>
vars == <<now, users, requests, deleting, pass, lock, running,
          mailed, refusedOn, copies, kills>>

Never == -1
Day == Nat \cup {Never}
Row == [deletion_requested_at : Day, deactivated_at : Day, notice_sent_at : Day,
        refused_at : Day, deleted_at : Day]

\* The row of a pass: `todo` is the candidate list read once at the start of a
\* phase, `held` the account whose row is locked while its warning is sent, and
\* `at` the now() of that transaction.
PassState == [phase : {"idle", "warn", "purge"}, todo : SUBSET Accounts,
              held : SUBSET Accounts, at : Day]
Idle == [phase |-> "idle", todo |-> {}, held |-> {}, at |-> Never]

TypeOK ==
    /\ JobTypeOK
    /\ now \in Nat
    /\ users \in [Accounts -> Row]
    /\ requests \subseteq Accounts /\ deleting \subseteq Accounts
    /\ pass \in [Runners -> PassState]
    /\ mailed \in [Accounts -> Day] /\ refusedOn \in [Accounts -> Day]
    /\ copies \in [Accounts -> Nat]
    /\ kills \in Nat
    /\ running = {r \in Runners : pass[r].phase # "idle"}
    /\ \A r \in Runners : pass[r].held # {} =>
          pass[r].phase = "warn" /\ \E a \in Accounts : pass[r].held = {a}

Init ==
    /\ JobInit
    /\ now = 0
    /\ users = [a \in Accounts |-> [deletion_requested_at |-> Never,
                   deactivated_at |-> Never, notice_sent_at |-> Never,
                   refused_at |-> Never, deleted_at |-> Never]]
    /\ requests = {} /\ deleting = {}
    /\ pass = [r \in Runners |-> Idle]
    /\ mailed = [a \in Accounts |-> Never] /\ refusedOn = [a \in Accounts |-> Never]
    /\ copies = [a \in Accounts |-> 0]
    /\ kills = 0

-----------------------------------------------------------------------------
(* The dates of jobs/account_purge.rs. *)

Later(d, e) == IF d > e THEN d ELSE e

\* Mutant: the thirty days after a refusal forgotten.
PurgeAtIgnoringRefusal(row) ==
    LET end == row.deactivated_at + Retention
    IN  IF row.notice_sent_at = Never THEN end + Notice
        ELSE Later(end, row.notice_sent_at + Notice)

\* deactivation_purge_at
DeactivationPurgeAt(row) ==
    LET end == row.deactivated_at + Retention
        afterNotice == IF row.notice_sent_at = Never THEN end + Notice
                       ELSE Later(end, row.notice_sent_at + Notice)
    IN  IF row.refused_at = Never THEN afterNotice
        ELSE Later(afterNotice, row.refused_at + Notice)

\* suspended: only the first request since the deactivation suspends.
Suspended(row, asked) == asked /\ row.refused_at = Never

\* purge_due
PurgeDue(row, asked, t) ==
    /\ row.deleted_at = Never
    /\ \/ row.deletion_requested_at # Never /\ t > row.deletion_requested_at + Grace
       \/ /\ ~Suspended(row, asked) /\ row.deactivated_at # Never
          /\ t >= DeactivationPurgeAt(row)

\* deactivation_notice_due
NoticeDue(row, asked, t) ==
    /\ row.deleted_at = Never /\ row.deletion_requested_at = Never
    /\ row.notice_sent_at = Never /\ ~Suspended(row, asked)
    /\ row.deactivated_at # Never
    /\ t >= row.deactivated_at + Retention - Notice

\* Mutant: every refusal is dated and clears the warning.
RecordEveryRefusal(row, t) == [row EXCEPT !.refused_at = t, !.notice_sent_at = Never]

\* record_refusal
RecordRefusal(row, t) ==
    IF row.refused_at # Never THEN row
    ELSE [row EXCEPT !.refused_at = t, !.notice_sent_at = Never]

\* Mutant: the stamps of the deactivation that ends are kept.
ReactivatedKeepingStamps(row) == [row EXCEPT !.deactivated_at = Never]

\* What deactivate_user and reactivate_user write.
DeactivatedRow(row, t) ==
    [row EXCEPT !.deactivated_at = t, !.notice_sent_at = Never, !.refused_at = Never]
ReactivatedRow(row) ==
    [row EXCEPT !.deactivated_at = Never, !.notice_sent_at = Never, !.refused_at = Never]

\* What purge_account writes on the anonymised row.
PurgedRow(row, t) == [row EXCEPT !.refused_at = Never, !.deleted_at = t]

Deleted(a) == users[a].deleted_at # Never
Deactivated(a) == users[a].deactivated_at # Never
Active(a) == ~Deleted(a) /\ ~Deactivated(a)
\* Mutant: no FOR UPDATE.
RowNeverLocked(a) == a \in Accounts

RowFree(a) == \A r \in Runners : a \notin pass[r].held

-----------------------------------------------------------------------------
(* The handlers. *)

\* delete_account: the session and the owned groups are checked first...
CheckDeletion(a) ==
    /\ Active(a) /\ a \notin deleting
    /\ deleting' = deleting \cup {a}
    /\ UNCHANGED <<now, users, requests, pass, jobVars, history, kills>>

\* ...then the row is updated, whatever it has become since.
RequestDeletion(a) ==
    /\ a \in deleting /\ RowFree(a)
    /\ deleting' = deleting \ {a}
    /\ users' = [users EXCEPT ![a].deletion_requested_at = now]
    /\ UNCHANGED <<now, requests, pass, jobVars, history, kills>>

CancelDeletion(a) ==
    /\ Active(a) /\ users[a].deletion_requested_at # Never /\ RowFree(a)
    /\ users' = [users EXCEPT ![a].deletion_requested_at = Never]
    /\ UNCHANGED <<now, requests, deleting, pass, jobVars, history, kills>>

Deactivate(a) ==
    /\ Active(a) /\ RowFree(a)
    /\ users' = [users EXCEPT ![a] = DeactivatedRow(@, now)]
    /\ refusedOn' = [refusedOn EXCEPT ![a] = Never]
    /\ copies' = [copies EXCEPT ![a] = 0]
    /\ UNCHANGED <<now, requests, deleting, pass, jobVars, mailed, kills>>

Reactivate(a) ==
    /\ Deactivated(a) /\ ~Deleted(a) /\ RowFree(a)
    /\ users' = [users EXCEPT ![a] = ReactivatedRow(@)]
    /\ requests' = requests \ {a}
    /\ refusedOn' = [refusedOn EXCEPT ![a] = Never]
    /\ copies' = [copies EXCEPT ![a] = 0]
    /\ UNCHANGED <<now, deleting, pass, jobVars, mailed, kills>>

RequestReactivation(a) ==
    /\ Deactivated(a) /\ ~Deleted(a) /\ a \notin requests /\ RowFree(a)
    /\ requests' = requests \cup {a}
    /\ UNCHANGED <<now, users, deleting, pass, jobVars, history, kills>>

RefuseReactivation(a) ==
    /\ Deactivated(a) /\ ~Deleted(a) /\ a \in requests /\ RowFree(a)
    /\ requests' = requests \ {a}
    /\ users' = [users EXCEPT ![a] = RecordRefusal(@, now)]
    /\ IF refusedOn[a] = Never
       THEN /\ refusedOn' = [refusedOn EXCEPT ![a] = now]
            /\ copies' = [copies EXCEPT ![a] = 0]
       ELSE UNCHANGED <<refusedOn, copies>>
    /\ UNCHANGED <<now, deleting, pass, jobVars, mailed, kills>>

-----------------------------------------------------------------------------
(* The pass of jobs/account_purge.rs: warnings, then purges. *)

\* The lock is taken and send_deactivation_notices reads its candidates.
StartPass(r) ==
    /\ Acquire(r)
    /\ pass' = [pass EXCEPT ![r] = [Idle EXCEPT !.phase = "warn",
                   !.todo = {a \in Accounts : Deactivated(a) /\ ~Deleted(a)
                                              /\ users[a].notice_sent_at = Never}]]
    /\ UNCHANGED <<now, rowVars, history, kills>>

InWarn(r) == pass[r].phase = "warn" /\ pass[r].held = {}

Take(r, a) == [pass EXCEPT ![r].todo = @ \ {a}]

\* The row is locked and read again, and the warning leaves; the row stays
\* locked until the stamp.
SendNotice(r, a) ==
    /\ InWarn(r) /\ a \in pass[r].todo /\ RowFree(a)
    /\ NoticeDue(users[a], a \in requests, now)
    /\ pass' = [pass EXCEPT ![r] = [@ EXCEPT !.todo = pass[r].todo \ {a}, !.held = {a}, !.at = now]]
    /\ mailed' = [mailed EXCEPT ![a] = now]
    /\ copies' = [copies EXCEPT ![a] = @ + 1]
    /\ UNCHANGED <<now, rowVars, jobVars, refusedOn, kills>>

\* Not due any more, or the email is refused: rolled back, tried on the next pass.
SkipNotice(r, a) ==
    /\ InWarn(r) /\ a \in pass[r].todo /\ RowFree(a)
    /\ pass' = Take(r, a)
    /\ UNCHANGED <<now, rowVars, jobVars, history, kills>>

StampNotice(r, a) ==
    /\ pass[r].held = {a}
    /\ users' = [users EXCEPT ![a].notice_sent_at = pass[r].at]
    /\ pass' = [pass EXCEPT ![r] = [@ EXCEPT !.held = {}, !.at = Never]]
    /\ UNCHANGED <<now, requests, deleting, jobVars, history, kills>>

\* purge_due_accounts reads its candidates.
StartPurges(r) ==
    /\ InWarn(r) /\ pass[r].todo = {}
    /\ pass' = [pass EXCEPT ![r] = [@ EXCEPT !.phase = "purge",
                   !.todo = {a \in Accounts : ~Deleted(a) /\
                       (Deactivated(a) \/ users[a].deletion_requested_at # Never)}]]
    /\ UNCHANGED <<now, rowVars, jobVars, history, kills>>

\* purge_account's second look, on the locked row.
StillDue(a) == PurgeDue(users[a], a \in requests, now)

PurgeAccount(r, a) ==
    /\ pass[r].phase = "purge" /\ a \in pass[r].todo /\ RowFree(a)
    /\ pass' = Take(r, a)
    /\ IF StillDue(a)
       THEN /\ users' = [users EXCEPT ![a] = PurgedRow(@, now)]
            /\ requests' = requests \ {a}
       ELSE UNCHANGED <<users, requests>>
    /\ UNCHANGED <<now, deleting, jobVars, history, kills>>

EndPass(r) ==
    /\ pass[r].phase = "purge" /\ pass[r].todo = {}
    /\ Release(r)
    /\ pass' = [pass EXCEPT ![r] = Idle]
    /\ UNCHANGED <<now, rowVars, history, kills>>

\* Killed in the middle of a pass: its open transaction is rolled back, so a
\* warning that had left is not stamped and will be sent again.
KillRunner(r) ==
    /\ kills < MaxKills /\ kills' = kills + 1
    /\ Killed(r)
    /\ pass' = [pass EXCEPT ![r] = Idle]
    /\ copies' = [a \in Accounts |-> IF a \in pass[r].held THEN 0 ELSE copies[a]]
    /\ mailed' = [a \in Accounts |-> IF a \in pass[r].held THEN Never ELSE mailed[a]]
    /\ UNCHANGED <<now, rowVars, refusedOn>>

LoseLock(r) == ConnectionCut(r) /\ UNCHANGED <<now, rowVars, pass, history, kills>>
DropDeadSession == DeadSessionDropped /\ UNCHANGED <<now, rowVars, pass, history, kills>>

Tick == /\ now < Horizon /\ now' = now + 1
        /\ UNCHANGED <<rowVars, pass, jobVars, history, kills>>

-----------------------------------------------------------------------------
Handler(a) ==
    \/ CheckDeletion(a) \/ RequestDeletion(a) \/ CancelDeletion(a)
    \/ Deactivate(a) \/ Reactivate(a)
    \/ RequestReactivation(a) \/ RefuseReactivation(a)

PassStep(r) ==
    \/ StartPass(r) \/ StartPurges(r) \/ EndPass(r)
    \/ \E a \in Accounts : SendNotice(r, a) \/ SkipNotice(r, a)
                           \/ StampNotice(r, a) \/ PurgeAccount(r, a)

Next ==
    \/ \E a \in Accounts : Handler(a)
    \/ \E r \in Runners : PassStep(r) \/ KillRunner(r) \/ LoseLock(r)
    \/ DropDeadSession
    \/ Tick

Spec == Init /\ [][Next]_vars

\* The loop of the job keeps ticking (interval, 1 h), every step of a pass ends
\* (a query and an email both have timeouts), the server drops a dead session
\* within a minute, and time goes on.  No fairness on any handler: nobody has to
\* call one.
FairSpec == /\ Spec
            /\ WF_vars(Tick) /\ WF_vars(DropDeadSession)
            /\ \A r \in Runners : WF_vars(PassStep(r))
-----------------------------------------------------------------------------
(* Properties. *)

\* The holder's own view of the second date: two years have passed, nothing of
\* the first request is pending, and thirty days have passed since the warning
\* of THIS deactivation and since the first refusal (or, for a warning that
\* never left, thirty days more than the two years).
FairlyWarned(a) ==
    LET since == users[a].deactivated_at
        fresh == mailed[a] # Never /\ mailed[a] >= Later(since, refusedOn[a])
    IN  /\ since # Never /\ now >= since + Retention
        /\ refusedOn[a] = Never => a \notin requests
        /\ refusedOn[a] # Never => now >= refusedOn[a] + Notice
        /\ now >= IF fresh THEN mailed[a] + Notice ELSE since + Retention + Notice

\* An account is purged only when a deletion request that still stands is older
\* than the grace period, or its holder was fairly warned (purge_account: the
\* candidates are read once, then every one is decided again on its locked row).
EarnedPurges ==
    \A a \in Accounts : (~Deleted(a) /\ Deleted(a)') =>
        \/ /\ users[a].deletion_requested_at # Never
           /\ now > users[a].deletion_requested_at + Grace
        \/ FairlyWarned(a)
PurgeIsEarned == [][EarnedPurges]_vars

\* A stay of deactivation postpones the purge once: once its first refusal is
\* dated and the holder warned again, no later request or refusal moves the
\* date (record_refusal, #313).
FixedDates ==
    \A a \in Accounts :
        (/\ Deactivated(a) /\ Deactivated(a)' /\ ~Deleted(a)'
         /\ refusedOn[a] # Never /\ users[a].notice_sent_at # Never)
        => DeactivationPurgeAt(users'[a]) = DeactivationPurgeAt(users[a])
PostponedOnce == [][FixedDates]_vars

\* One warning per deadline, even when two passes overlap because one lost its
\* lock (send_deactivation_notices locks the row through the sending); only a
\* kill between the sending and the stamp repeats it.
OneWarning == \A a \in Accounts : copies[a] <= 1

\* The history is what the rows say: the stamp of a row is the date of a
\* warning that left since the deactivation and the first refusal were dated.
StampsTellTheTruth ==
    \A a \in Accounts : ~Deleted(a) =>
        /\ users[a].refused_at = refusedOn[a]
        /\ users[a].notice_sent_at # Never =>
              /\ users[a].deactivated_at # Never
              /\ users[a].notice_sent_at = mailed[a]
              /\ mailed[a] >= Later(users[a].deactivated_at, refusedOn[a])

\* A deactivated account nobody gives back, whose date comes and is not
\* suspended, is purged: passes that crash or lose their lock only delay it.
DueAccountsArePurged ==
    \A a \in Accounts :
        <>[](/\ Deactivated(a) /\ ~Suspended(users[a], a \in requests)
             /\ DeactivationPurgeAt(users[a]) <= Horizon)
        => <>Deleted(a)

-----------------------------------------------------------------------------
(* What the proofs add to StampsTellTheTruth to make it inductive. *)

Held(a) == ~RowFree(a)
LastDate(a) == Later(users[a].deactivated_at, refusedOn[a])

\* Nothing is dated in the future.
DatesArePast ==
    \A a \in Accounts : /\ users[a].deactivated_at <= now
                         /\ refusedOn[a] <= now /\ mailed[a] <= now

\* While a warning is being sent its row is held by one pass, and unchanged
\* since that pass found the warning due.
HeldRowsAreFrozen ==
    \A r \in Runners, a \in Accounts : a \in pass[r].held =>
        /\ \A s \in Runners \ {r} : a \notin pass[s].held
        /\ users[a].deleted_at = Never /\ users[a].deactivated_at # Never
        /\ users[a].notice_sent_at = Never
        /\ mailed[a] = pass[r].at /\ pass[r].at # Never /\ mailed[a] >= LastDate(a)

\* A warning no stamp records any more is older than what made it void.
VoidWarningsAreOld ==
    \A a \in Accounts :
        (/\ ~Held(a) /\ users[a].deleted_at = Never /\ users[a].deactivated_at # Never
         /\ users[a].notice_sent_at = Never)
        => mailed[a] <= LastDate(a)

\* A row without a stamp has no warning out for its deadline.
UnstampedIsUnwarned ==
    \A a \in Accounts :
        (~Held(a) /\ users[a].deleted_at = Never /\ users[a].notice_sent_at = Never)
        => copies[a] = 0

IndInv == /\ TypeOK /\ StampsTellTheTruth /\ DatesArePast
          /\ HeldRowsAreFrozen /\ VoidWarningsAreOld
          /\ OneWarning /\ UnstampedIsUnwarned
=============================================================================
