# A verification project for Manage Our Home

Manage Our Home is a household application: groups of accounts share an agenda,
stocks, recipes, grocery lists, a budget and a message board. This directory models
the parts of it whose behaviour depends on what happens at the same time, checks
them with TLC on small instances, and proves properties of fourteen of them, for every
instance, with TLAPS.

## The system

The backend (`apps/api`, Rust: axum, sqlx) keeps its state in Postgres, at READ
COMMITTED, and the bytes of files in an S3 bucket. Any number of identical processes
serve requests; a request is one transaction or a few. Two transactions therefore
interleave between any two of their statements, and what orders them is what they
take: row locks (`FOR UPDATE`, `FOR KEY SHARE`, foreign keys, unique indexes) and
advisory locks. Background jobs run in every process, one at a time per job behind a
Postgres *session* advisory lock, which a lost connection or a killed process may
release or keep. The only state a process keeps to itself is the sockets of the message
board. The web frontend renders what the API answers; of it, only the page that follows
a thread has behaviour of its own.

| Component | State | Operations | What is hard | What makes it correct |
|---|---|---|---|---|
| single runner of a job (`jobs/single_runner.rs`) | an advisory lock, its session | take, release | connection cut under a pass, killed process whose session stays | one pass at a time while the session lives; the lock comes back |
| account lifecycle (`auth/mod.rs`, `auth/deactivated.rs`, `user_admin/admin.rs`, `jobs/account_purge.rs`) | five dates of `users`, `account_reactivation_requests` | request and cancel deletion; deactivate, reactivate; ask and be refused; warn, purge | a pass decides on a list it read before; warning and stamp are not one step; passes that overlap | nobody purged early or unwarned; one warning; one postponement; due accounts go |
| sign-in (`auth/mod.rs`, `auth/session.rs`, `auth/oauth_google.rs`, `auth/age_declaration.rs`, `auth/terms_acceptance.rs`) | `users`, links, resets, sessions | register, verify, sign in, set, change and reset a password, declare, revoke | what is read by one statement and decided by the next, of several requests of one address | a reset link gives one password; no older session outlives a new one |
| login throttle (`auth/throttle.rs`) | `login_throttle` | admit, succeed, purge | bursts, a full table, eviction, two advisory locks | bounds hold whatever runs at once; nobody waits for ever |
| rate limits (`rate_limit.rs`) | a row of instants per subject | admit, sweep, purge | replicas, two clocks, two admissions that sweep each other's rows | no window exceeds the limit; no circle of waits |
| groups (`groups/`) | `groups`, `group_members`, `invitations` | create, invite, accept, promote, remove, transfer, leave, delete; purge, reactivation, designation | roles read by plain SELECTs before the write; successions at once | a group with active members has an owner; successions do not collide |
| scheduling of reminders (`agenda/reminders.rs`, `agenda/events.rs`) | `event_reminders`, `scheduled_notifications` | create, refill, split, move, delete | refill and creation decide on stale reads | no occurrence forgotten, none reminded twice |
| recurrence (`agenda/recurrence.rs`, `agenda/events.rs`) | series, exclusions, completions | unroll, exclude, split, move, complete | instants stored, clock of Paris followed | what is listed is what was planned |
| Google Calendar import (`google_calendar/imports.rs`) | a feed, its events | synchronise, edit, delete, remove | two synchronisations at once, an event read before it is edited | an entry is one event; its rule fits it; a member's rule stays |
| sending of reminders (`jobs/scheduled_notifications.rs`) | `scheduled_notifications` | read due rows, email, push, mark | two sides and a bounded channel; two channels of which one may fail; kills | each reminder once, sent only once it reached somebody, each ends |
| push devices (`notifications/push.rs`, `notifications/preferences.rs`) | `push_subscriptions`, the pushes the services hold | register, count, push, settle, answer, forget | a push says nothing: the device is told what the server has counted | the text is of the kind pushed; few devices per account |
| message board (`messagerie/`, the thread page) | messages, listeners, sockets, pages | change, notify, subscribe, load, reconnect, stop | events are not replayed | a quiet page is current; no socket is cut early; a lost access ends it |
| stock, groceries, recipes (`stocks/`, `recipes/outcome.rs`) | `stock_items`, `grocery_items`, `recipe_plans` | edit, receive, generate, plan, do, abandon | quantities computed from what was read; lines locked in turn | nothing received twice, no update lost, one end of a planning |
| stored objects (`agenda/attachments.rs`, `avatar.rs`, `attachment_reconcile.rs`) | rows with a key, objects in the bucket | upload, delete, replace, sweep, reconcile | two stores without a common transaction | no bytes lost of a row that stays, none kept for ever without one |
| budget (`budget/`) | expenses, categories, links, caps, alerts | write, price, delete expenses; categories; caps | totals before and after a write; locks in two orders | every threshold crossed is alerted once and truly; no deadlock |

`PROJECT.json` lists these and all other components with their files; those that are not
modelled, and why, are under *Not modelled* below.

They interact through shared rows more than through calls: the purge of an account hands
its groups out, deletes their objects and ends its sessions; a deactivation refuses
sessions and starts the clock of the purge; a reminder is scheduled by the agenda, sent by
a job and counted on a device; the jobs share `JobLock`; a deleted group or event takes
reminders, attachments and expenses with it through foreign keys; a grocery item's price is
an expense, its reception a stock line; a split of a series moves its reminders and an
import writes its rule.

## Modules

| Module | Models | State and steps |
|---|---|---|
| `JobLock` | the session lock of a job | `lock` is the session that holds it, `running` the processes inside a pass. Extended by the two modules that have passes. |
| `AccountLifecycle` | dates of an account, warn-then-purge | Handlers take the row first, so each is one action; `delete_account` decides before it writes (two). A pass reads candidates (`StartPass`, `StartPurges`), holds a row while its mail goes (`SendNotice`, `StampNotice`), decides again on each locked row (`PurgeAccount`). |
| `SignIn` | one address and its sessions | `asked[p]` is what a request has read and where it is; what a statement writes, and the ones that follow under the same lock, are one step. A password is how many were set before it. |
| `LoginThrottle` | the throttle | a step is what runs between two waits; `att` is where each attempt is. |
| `RateLimit` | a sliding limit | an admission is lock, read, decide, write, sweep, commit; `given` remembers every admission. |
| `GroupTransactions` | group membership | `req` is what each open transaction has read and where it is; each plain SELECT is a step, a final write and its COMMIT another; `rows` are the rows locked by transactions that read after they wrote. |
| `ReminderSchedule` | which reminders exist | occurrences are a set of times; `read` holds the readings creation and refill decide on. |
| `Recurrence` | series over changes of hour | `repeating` is what the rows hold, `plan` what the edits asked for, occurrence by occurrence; the unroll is a function from a rule to instants, read by both. |
| `CalendarImport` | synchronisations of a feed | `sync[s]` is the feed fetched, the entries left and the rows locked; one entry is a read, a decision and a write. |
| `ReminderSend` | the sending pass | `pass[r]` holds an item per row still to settle, with its stage (listed, reading, retiring, handed, pushing) and what each channel answered. |
| `ReminderPromise` | what is promised of each row | the abstract specification `ReminderSend` implements, with `told <- Told`. |
| `PushDevices` | devices and their counts | `task[t]` is a push (count, send, note, record) or a registration (lock, write, commit); `service` holds the pushes not yet shown. |
| `MessageBoard` | events, sockets and pages | `NOTIFY` queues per listener, hubs per replica, a page's loads under way; `Recheck` closes a socket whose access is over. |
| `Pantry` | stock, list, planned recipes | the transactions that wait for rows or read what they write later are taken in steps, with the rows they lock; the others are one step. |
| `StoredObjects` | rows and bytes | rows are written, objects put, transactions committed in separate steps; `pass` is the reconciliation. |
| `Budget` | expenses and alerts | `holds` are the locks of each transaction, `WaitsFor` whom it waits for; a step is what a request does between two waits. |
| `*_proofs` | the theorems about the module they are named after, with their lemmas; `Family_proofs` holds those of `RateLimit`, `SignIn`, `StoredObjects` and `Budget`, `Agenda_proofs` those of `ReminderSchedule` and `CalendarImport`, `Members_proofs` those of `LoginThrottle` and `GroupTransactions`, `Notifications_proofs` those of `PushDevices` and `ReminderSend` | an inductive invariant each, in named parts |
| `MC*` | instances for TLC | symmetry, mixes of endpoints. |

`GroupTransactions`, `ReminderSchedule`, `Budget`, `Pantry`, `SignIn`, `PushDevices` and
`MessageBoard` choose in `Init` which operations a behaviour exercises (`Mixes`, of the budget `Spending`), or how
many. All at once are out of TLC's reach; each mix holds operations that can disturb each
other. A property that some operation really breaks names it in its premise, so that what
it claims, and what it does not, can be read in it.

Five `MC` modules put several components together. A behaviour then chooses a `part` and
exercises that component, the others staying as they start (or empty): nothing is interleaved that
does not share a row, and the states are added, not multiplied. Model values are shared
between the parts (a request is also a user), which keeps the symmetry sound for each.
Liveness is checked without symmetry (`progress`, `account_lifecycle`).

## Runs

| Run | Shows | Bounds, and why they are enough |
|---|---|---|
| `account_lifecycle` | no purge early or unwarned, one warning per deadline though passes overlap, one postponement, stamps that tell the truth, and the purge of every due account (under fairness) | one account: they share nothing but the lock and the list of candidates. Two processes, one kill, periods of one day, horizon five: deactivation, warning, refusal, second warning and purge fit |
| `members` | of the throttle: the table within its ceiling and an address within its share (`TableBounded`), the bound on a burst (`NoBurst`); of groups: no two hand-overs collide, a group is owned, or dormant after a purge, one account per invitation | three addresses for two rows, two emails for a share of one, two attempts at once, over the end of a lock; one pair over three windows; three users, one group, two requests at once, four mixes: an heir, an owner and a third make every role |
| `notifications` | each reminder once, the lock lost included (what a cut pass had read is `excused`); the text of a push of its kind; few devices | two reminders, two processes, two attempts, one fault (reminders deleted beside a pass are in `progress`); three pushes to a device of which two at once, a push beside registrations, two registrations at once for a cap of one |
| `progress` | the passes implement `ReminderPromise`; due reminders, login attempts and orphan objects end | two reminders and one fault, the lock never lost; three reminders and no fault, one more than the channel takes beside the one being pushed; two addresses and one row; one key and two requests |
| `agenda` | nothing forgotten, whatever the offset, nothing sent scheduled again; an entry of a feed is one event, its rule fits it, and a member's rule stays; series list what was planned | two events, two reminders, four units of time of which a window is two, an offset as long, three mixes; one entry (entries do not meet), two synchronisations, four changes; four days of eight half hours of which one skips an hour and one repeats it, two edits of an hourly series (one if it has an end), three of a daily one |
| `family` | of a limit: no window, shorter by what a purging clock is ahead, exceeds it, no circle of waits; of sign-in: a reset link gives one password, no session older than a new password outlives it; of budgets: alerts complete and true, no deadlock; of objects: no bytes lost, objects before rows | two subjects and two requests at a limit of two, a window of two, a clock that is right or one ahead; two requests, two links, two sessions, one reset in six mixes; two expenses of 4 against a cap of 5 (80 % at one, 100 % at two) and a category's of 4, the family's cap there from the start but in the mix that sets it; two keys, two requests and the reconciliation |
| `pantry` | nothing received twice or received and abandoned or deleted, no quantity lost, one end of a planning, no deadlock between outcomes | two requests, three lines, three items, two recipes, two articles, twelve mixes: each pair that shares a row, a reception beside an abandonment of the same items among them |
| `message_board` | a page that waits for nothing is current, but for four gaps named in the property; no socket cut before its grace; a lost access ends the socket (under fairness) | two pages, two replicas, a message made, changed and deleted, two faults, in three mixes |
| `group_removes_owner`, `reminder_stale`, `series_moves`, `board_reconnect` | each refutes one sentence of the code's own comments (see below) | — |

Every property of a passing run has a mutant in `PROJECT.json`: a definition replaced
by what a plausible bug would make of it, which violates the property. The mutated
forms are the definitions under "Mutant" comments.

`CHECK_DEADLOCK FALSE` stands where a system may stop for good: ids, keys or days run
out, or everybody is gone. Waits for each other are checked by `NoDeadlock` (Budget,
Pantry), `NoCircle` (RateLimit), `AttemptsEnd` (LoginThrottle) and `DueEnds` (ReminderSend).

### Fairness

No handler is fair: nobody has to call one. What is fair is what the code's
scheduling drives. A job's loop ticks for ever and each step of a pass is a query or a
call with a timeout, so `PassStep` is weakly fair; the server drops a dead session
within the keepalive bound, so `DropDeadSession` is; time goes on (`Tick`). In the
throttle an attempt waits for advisory locks and rows that others keep taking: its steps
are *strongly* fair, which stands for Postgres serving waiters in turn. In the
reconciliation `ReadKnown` and `DeleteOrphans` are strongly fair because a pass may fail
and start again: its query and the storage do not fail every day for ever. A transaction
whose object is put commits or dies (weak fairness); one that never ended would keep its
key from being an orphan. On the message board the periodic check of a socket's access
(`Recheck`) is weakly fair: it is a timer of the task that serves the socket.
`MCProgress` states the fairness of its three components again, each under its own part.

## What is proved

For every value of the constants that meets the assumptions named:

| Module | Theorem | States | From |
|---|---|---|---|
| `AccountLifecycle_proofs` | `TypeCorrect` | `Spec => []TypeOK` | `DurationsAssumption`, `RunnersAssumption` |
| | `StampsAreTrue` | `Spec => []StampsTellTheTruth` | |
| | `WarnedOnce` | `Spec => []OneWarning` | |
| | `PurgesAreEarned` | `Spec => PurgeIsEarned` | |
| | `PostponesOnce` | `Spec => PostponedOnce` | |
| `Family_proofs` | `NoWindowExceeds` | `LimitSpec => []WindowCeiling` | `RateAssumption` |
| | `NobodyWaitsInACircle` | `LimitSpec => []NoCircle` | |
| | `TypeCorrect` | `SignInSpec => []TypeOK` | `SignInAssumption` |
| | `ALinkWorksOnce` | `SignInSpec => []LinksWorkOnce` | |
| | `ANewPasswordEndsOldSessions` | `SignInSpec => []OldSessionsEnd` | |
| | `ObjectsTypeCorrect` | `ObjectsSpec => []ObjectsTypeOK` | `ObjectsAssumption` |
| | `NamedBytesAreKept` | `ObjectsSpec => []NoBytesLost` | |
| | `RowsOutliveObjects` | `ObjectsSpec => ObjectsGoFirst` | |
| | `BudgetTypeCorrect` | `BudgetSpec => []BudgetTypeOK` | `BudgetAssumption` |
| | `WritesWaitInNoCircle` | `BudgetSpec => []NoDeadlock` | |
| | `EveryCrossingIsAlerted` | `BudgetSpec => CrossingsAlerted` | |
| | `AlertsTellTheTruth` | `BudgetSpec => AlertsTrue` | |
| `Notifications_proofs` | `AccountsKeepFewDevices` | `Spec => []DevicesCapped` | `PushAssumption`, `InstanceAssumption` |
| | `TextsAreOfTheirKind` | `Spec => []NeverAnotherKind` | |
| | `SendTypeCorrect` | `SendSpec => []SendTypeOK` | `RunnersAssumption`, `BoundsAssumption` |
| | `RemindersGoOnce` | `SendSpec => []SentOnce` | |
| | `PromiseIsKept` | `SendSpec => KeepsPromise` | the same, and `~LockMayBeLost` |
| `Members_proofs` | `InvitationsAdmitOne` | `GroupSpec => InvitationAdmitsOne` | `InstanceAssumption` |
| | `GroupsKeepTheirOwner` | `GroupSpec => []GroupsAreOwned` | |
| | `SuccessionsDoNotCollide` | `GroupSpec => []SuccessionNeverCollides` | |
| | `OwnerlessGroupsAreDormant` | `GroupSpec => []OwnerlessIsDormant` | |
| | `TableKeepsItsBounds` | `Spec => []TableBounded` | `LimitsAssumption`, `TableAssumption` |
| | `BurstsAreBounded` | `Spec => []NoBurst` | the same, and `BurstAssumption` |
| `Agenda_proofs` | `SentOnce` | `Spec => SentStaysSent` | `DelaysAssumption`, `InstanceAssumption` |
| | `NobodyForgotten` | `Spec => []NoneForgotten` | |
| | `EntriesStayOne` | `ImportSpec => []EventOnce` | `ImportAssumption` |
| | `RulesFit` | `ImportSpec => []RuleFits` | |
| | `RulesStay` | `ImportSpec => RuleKept` | |
| `Recurrence_proofs` | `AgendaIsAsPlanned` | `SeriesSpec => []AgendaAsPlanned` | `SeriesAssumption` |
| | `SeriesTypesHold` | `SeriesSpec => []SeriesTypeOK` | |
| `Pantry_proofs` | `NothingIsLost` | `Spec => []NoUpdateLost` | `PantryAssumption`, `InstanceAssumption` |
| | `NothingIsReceivedTwice` | `Spec => []ReceivedOnce` | |
| | `EveryPlanningEndsOnce` | `Spec => []PlanningEndsOnce` | |
| | `OutcomesDoNotDeadlock` | `Spec => []NoDeadlock` | the same, and `Requests` finite |
| `MessageBoard_proofs` | `PagesCatchUp` | `Spec => []CaughtUp` | `BoardAssumption`, `InstanceAssumption` |
| | `NoSocketIsCut` | `Spec => []NoSocketCut` | |

An `InstanceAssumption` (`TableAssumption`) says what an instance must be for its constants to mean what they
stand for: what denotes "none" is none of the values, an initial state is made of the
instance's own rows, a table that is counted has finitely many addresses, emails or ids. One says
more: that of `ReminderSchedule` asks that the refill be at work wherever no event is
changed as a whole, which it is, being a job of every process. `BurstAssumption` is
that `MAX_FAILURES` (10) is more than one and `LOCKOUT` as long as `WINDOW` (15 minutes both).
`SeriesAssumption` is that a day is three hours at least, that the clock skips an hour
before it repeats one, and that rules step by an hour at least.

Each rests on an inductive invariant, proved action by action.

*Account lifecycle.* `StampsTellTheTruth` alone is not inductive: a stamp is written from
a date a pass took when it sent the mail, perhaps days before. What is missing is that
the row cannot have changed since (`HeldRowsAreFrozen`), that nothing is dated in the
future (`DatesArePast`), that a warning without a stamp is older than what made it void
(`VoidWarningsAreOld`), and, for `OneWarning`, that a row without a stamp has no copy out
(`UnstampedIsUnwarned`). The two action properties follow from the invariant before the
step and the one action that changes the row.

*Rate limit.* The ceiling needs that a subject is at one request at a time (`OneEach`),
that a row is swept or written by one (`RowsHeldOnce`), that instants are given in order
(`GivenInOrder`), that a row holds every admission that may still count (`LogRemembers`),
that a decision taken is still good when it is written (`DecisionsAreGood`), and that a
row chosen for a sweep stays over (`SweptAreOver`). A purge by a clock that is ahead forgets
admissions too soon: `lead` remembers by how much at most, and of a subject so purged every
one of these is about the window short of its lead (see the divergences). That nobody
waits in a circle needs only that a request sweeps last (`SweptLast`).

*Sign-in.* A link gives one password because whoever holds its row holds it alone and
found it unused (`HeldAlone`, `UsedIsUsed`). `OldSessionsEnd` is inductive beside them: a
session is opened on the account just read, or while a revocation is still to come, or is
excused: the one that made the change, those a failure leaves, and one opened on a password
whose revocation has ended since it was read.

*Push devices.* The cap needs that one registration of an account is past its lock
(`OneRegistration`), that one that has written keeps the rows it counted (`Written`,
`OneRow`), and that what the account will have at its commit is capped (`CappedAtCommit`).
That no text is of another kind needs that a push is one wherever it is (`Numbers`), that
none outlives its time (`OnTime`), that ids are not reused under a push (`IdsApart`), and
that the count of a device covers all it may still get and all that will be taken back
(`Covers`): the number, the kind and the time.

*Sending.* A reminder goes once because one that no cut pass had read is only in the pass
of the session that holds the lock (`Alone`), and whoever was reached is counted once, by
the item that reached him, until the row is settled (`Accounted`); attempts are left for
as long as a row is pending (`Trying`). Where no lock is lost, only its holder has a pass
(`Holding`), of rows nobody has settled (`Unsettled`): each step of the sending is then a
step of `ReminderPromise` or none, which is the refinement, proved.

*Objects.* The key a request has drawn is its own until its commit: no row names it and
nothing is about to delete it, and its object, once put, is younger than what the
reconciliation takes (`KeysAreOwn`). A key is named at one place (`OnePlace`), the row of an
account is held by one request (`OneHolder`), so that what a purge will delete is what its
commit takes from the rows, and what is deleted after a commit, or by the reconciliation,
no row names (`AllDoomed`). That objects go before rows needs that an event being deleted
gains no attachment (`EventsLocked`) and that the objects of rows about to go are gone
(`ObjectsGone`).

*Budget.* An expense is written by whoever holds the family's lock (`LocksFit`), on a row
nobody else has (`EntryHeld`), of a category (`CategoryKept`) and items (`ItemsHeld`) that
stay until the commit. What the watch read is then still true when the alerts are sent and
when the expense is committed (`WatchesTrue`, `AlertsSound`): beside it only an expense of
another month or the end of another category commits; the deletion of an expense and a
new cap of a category, which both properties name, are excepted. A new expense has an id
that is of nothing there and of no other request (`AllFresh`). Totals are compared without
an induction: of the sets of expenses for which two sums would not compare as they
should, there is a smallest (`Smallest`), and it lacks one expense. Writes wait in no
circle because whoever waits for a row holds the family's lock, and whoever holds that row
waits at most for a grocery item, whose holder waits for nobody.

*Groups.* Under all four lies `Base`: members and invitations are of groups that exist, a
group being created is of no other request but a succession that found it empty (`FreshGroup`),
a request that acts on a member has read its caller's role (`Sound`), and a locked row is
of a member and of one transaction (`Locks`). Steps are sorted by what they change: those
that only read (`Looks`), those that lock, those that commit. That a group is owned
(`Owned`) needs that whoever has locked members has an owner among them, and that nobody
about to demote or remove a member has the owner in hand. That successions do not collide
(`Seen`) needs that whoever waits for the members of a group has listed them all, those
that nobody sees yet excepted: a member who joined since is why the property names
`accept_invitation`. That an ownerless group is dormant (`Dormant`) needs that each group
whose owner is being purged is still to be handed out, or has an heir whose row is
locked, or is without any account that could have it (`Provided`), and a lemma
about the choice of heirs (`SomebodyInherits`): it leaves out nobody who could inherit.

*Throttle.* The bounds follow from what an insertion decided: whoever holds the table's
lock is alone (`OneInTable`), and the table as it will be once its row is written keeps
both (`RoomIsKept`), for others only take rows away meanwhile. A burst is bounded by what a
row says of the last admissions of its pair (`RowTells`): as many as it counts are of its
window, the first of them at its start, and of those before at most `MAX_FAILURES - 2` are
within a window of that. Once its window is over, its lock ended or the row purged, a new
window can reach at most `MAX_FAILURES - 2` admissions (`Spent`). What an
attempt decided is of the row still there (`Knows`), one attempt being past the lock of an
address (`OneInScope`).

*Scheduling.* Nothing is forgotten because a one-off event has a row for all it lists
(`OneOffsScheduled`), a series for all but the last unit of a window at any time, and for
all of it once the refill has run, unless the refill has it still to write (`InTime`,
`Refilled`), whatever the offset, and because what was read of an event covers what it lists when the rows are written
(`ReadsCover`): an edit only takes occurrences away, but for one of the whole, which
the property names.

*Recurrence.* First, what the unroll returns is brought to a closed form (`Unrolled`): the
clocks of a rule rise, two of them name one instant only where an hourly rule meets the
hour that is skipped (`Ats`), so the k-th has `k`, or `k - 1` past that hour, distinct
instants before it (`Sequence`); it is listed when that rank is under COUNT, the instant
not past UNTIL, and the cap not spent on the window before it. The walk remembers what it
produced after a gap only for two hours, and that is long enough (`WalkStep`). The
library's induction takes an operator and is of no use here; a set of naturals that holds
zero and the successor of each of its members is `Nat` all the same (`Naturally`), and so
is a walk a function (`WalkExists`).
Then the invariant, `Sound` of each event: its row has the rule planned, COUNT and UNTIL
included, and is excluded and completed at the instants of the ordinals the plan has, as
long as there is no reason for the plan not to be kept. `AgendaAsPlanned` alone is not
inductive: it looks at the windows of one horizon, and says nothing of a mark outside
them, which a later cut may carry inside. A cut leaves the ranks before it as they are
(`HeadSound`). After it they are lower by the number produced before, which is what COUNT
has lost (`TailSound`), and a mark carried over keeps its occurrence: the wall clock moves
with it between days that do not change hour (`QuietMove`, `Carried`). Where it does not,
or where the cut is on the skipped hour and would bring back the occurrence lost there,
the reason is recorded.

*Import.* Neither `EventOnce` nor `RuleFits` is inductive alone. While a feed is imported,
each of its events has its mapping and each mapping its event (`MappingsTrue`); a row is
locked by one synchronisation (`LocksApart`) and stays meanwhile (`LockedStay`), so that
what was read of it is true when it is written (`ReadTrue`) and the rule is dropped exactly
when it does not fit (`RowsSound`). A mapping to be inserted is of a uid nobody has mapped
and nobody else is inserting (`MapsSound`): what the commit adds has no twin.

*Pantry.* A row is locked by one request, a line inserted by one (`Exclusive`,
`FreshApart`); what a reception has locked is on the list, and what it adds fits in lines
it holds or inserts (`ReceptionSound`); what an outcome has read is what is there
(`OutcomeSound`). With these the histories add up (`Counted`). Outcomes do not deadlock
because each locks its selection, its recipe, then lines by id (`InOrder`): of finitely
many that wait, the one that waits for the last row in that order waits for nobody.

*Message board.* A page on an open socket shows the last change, has missed it by a named
gap, or has it still to come: by a load or a timer of its own (`PageComes`), or from the
socket, its queue or the replica that will hear of it (`SocketComes`, `Hears`).
That needs that an event waiting in a replica is of a change made (`Announced`), that
nothing shown is ahead of the changes (`NotAhead`), and that an open socket is of a
replica at work (`Placed`).

Only model-checked is liveness (`DueAccountsArePurged`, `DueEnds`, `AttemptsEnd`,
`OrphansGo`, `AccessEnds`), which is out of the prover's reach: every other property of a
passing run is the subject of a theorem.

## Abstractions worth knowing

- *Accounts.* `now()` is the start of the transaction. A warning whose transaction is
  rolled back by a kill between the mail and the stamp is forgotten by the history: the
  mail is sent again, as in the code. Scaled periods keep the order of the dates.
- *Sign-in.* One address. A session that expires is over at any time; a used link and a
  deleted one are the same; links die (24 h, 1 h) before the retention purge (48 h) could
  take them. Deadlocks between verify or reset and the purge are failures. Emails arrive.
- *Groups.* Of equal seniority any heir may be taken: the order of joining is not kept.
  The expiry of invitations is left out. Two owners are prevented by a unique index.
- *Sending.* A channel that answers "refused" though it delivered does not count as a
  copy. The bounded FIFO is a set; who has which channel is chosen freely.
- *Push devices.* A request to a push service, and a device's own, take less than a time
  to live (a minute at least). `record_device` writes failures read before the push.
- *Scheduling.* Ids are not given twice; a refill ends within a unit of time.
- *Recurrence.* A unit is half an hour. The BY* parts are left out. `plan` identifies an
  occurrence by its place among the distinct ones; what a comment says is not handled (the
  skipped hour in `split_series`), and a move within the day with a cut, or a mark it
  carries, on or put on a day that changes hour (a finding), are in `unkept`, which
  `AgendaAsPlanned` excepts. The cap is spent on an hour more, either side of a window, for
  a series that starts on the second pass of the repeated hour. An occurrence is located in
  an unroll to the end, not to a day after it: the cap is spent in order, so what is found
  is the same. Only what the agenda lists is completed: another instant would mark nothing. `Unset` stands for no rule, COUNT or UNTIL, and is none.
- *Import.* One entry; private events, entries gone upstream, texts and bounds are left
  out. A read that waits for an event reads it again, not the mapping that led to it. A failure is any: deadlock, foreign key, unique index.
- *Throttle.* Windows are fixed, not sliding: the bound on attempts in the length of a
  window is 2N-2, not N. An eviction, like a success, forgives. Pseudonyms and the /64
  grouping are model values.
- *Rate limit.* The clock and the row are read by two statements, as in the code. One limit.
- *Pantry.* Quantities are ones, an article a name and a unit; dates only decide which line
  of an article a reception adds to, here any. Who may write is left out: where `apply_done`
  asks it before it locks a recipe, the model lets whoever asks to add be one who may.
  `gone` is history: how often an item was received, abandoned or deleted. `delete_recipe` is left out: beside
  `apply_done` it may deadlock. Reception locks in no order, so it may too.
- *Message board.* One group. A page writing an edit, and the read watermark, are left out.
  A load that fails may be refused, or answered with an error page, which has no thread and
  stops the page for good: `CaughtUp` is of the pages that go on.
- *Objects.* A transaction commits, or dies, well within the 24 h an object must be old
  to be reconciled (the timeout on the storage is 30 s): the guard of `GrowOld`. The permits
  of the upload gate and the decoding of photos are left out.
- *Budget.* One month, one family. A cap of a category and the totals are read in one
  step. Authorization is left out.

## Where the code and its text part

With a run:

- `remove_member` deletes a member who has become the owner since its role was read
  (`group_removes_owner`).
- A refill, or the creation of a reminder, schedules an occurrence that left the series
  after it was read (`reminder_stale`).
- A series moved within the day carries an exclusion, or a completion, of the day that
  changes hour to an instant it does not have (`series_moves`).
- A page whose socket closed loads the thread before it connects again, not after: a
  change in between is not shown until the next event (`board_reconnect`).

Met while modelling, kept out of the properties by their premises or their histories:

- *Groups.* `create_group` counts memberships without a lock: two at once exceed the cap
  of ten of `docs/notes-issue-1-qa.md`, and `accept_invitation` counts none. `leave_group`
  counts members without a lock: the last two may leave together, though "the last
  remaining member must delete the group instead" (`groups/mod.rs:1040`). A member reactivated beside the purge of the owner: neither hands the group out. A member who
  joins while the purge hands the group out is not among the heirs, and a role that
  `change_role` or `remove_member` read before the purge may be written after it: each may
  leave a group without an owner beside an active member. "The second waits, then finds the
  owner" (`succession.rs:69`): not an owner who joined after the second began to wait;
  it then fails on the unique index, and its transaction with it. An account
  purged while it creates a group or accepts an invitation joins it. `delete_if_abandoned`
  (`account_purge.rs:416`) deletes a group an invitation was accepted into meanwhile.
- *Sign-in.* "Concurrent resends can't slip past the rate limit" (`auth/mod.rs:843`): two
  at once both read none and both issue. A password reset may be given to an account
  deactivated between the lock of the link and the write, which the comment at
  `auth/mod.rs:907` excludes. A sign-in by Google in flight binds its identity to a row
  purged meanwhile. A sign-in that read the old password keeps the session it opens once the
  revocation of a change or a reset has ended (`auth/mod.rs:947`): `OldSessionsEnd` excuses
  it. A session inserted by a sign-in in flight at the deactivation opens
  again after a reactivation. `change_password`, decided on the old password, may
  overwrite a reset that committed meanwhile.
- *Rate limit.* The comment at `rate_limit.rs:14` says the clock is the database's; the
  hourly purge sweeps by the clock of the process (`retention_purge.rs:125`). A process that
  is ahead forgets admissions that still count: for the subjects it purges, the window is
  shorter by its lead, which is what `WindowCeiling` says (`Window - lead[s]`).
- *Scheduling.* An event moved as a whole keeps the reminders of its old time and has none
  at the new. "Occurrences further than `NOTIFICATION_WINDOW_DAYS` out don't need to exist
  yet" (`scheduled_notifications.rs:38`) supposes offsets shorter than the window, but
  `create_reminder` refuses only negative ones (`reminders.rs:55`): a series reminded 30
  days ahead or more has its row only once it should have been sent, and is sent late.
  `NoneForgotten` promises the row, not the hour.
- *Recurrence.* An edit of a whole series leaves its exclusions and completions. A cut of
  an all-day series into one with hours loses the ones it carries. A series anchored on
  the second pass of the repeated hour goes on, once cut, on the first.
- *Import.* Events added between the listing and the removal of a feed survive it. A slower
  synchronisation with an older feed overwrites a newer one until the next.
- *Push devices.* Once a count was lost (a row deleted or moved with pushes on their way) a
  device may show a text of another kind.
- *Message board.* The gaps `CaughtUp` names: a change between the load of a page and its
  subscription, a read-back that failed and is only logged, a load asked by an event that
  fails and is not retried, two loads shown in the other order.
- *Pantry.* A line chosen for a reception is read without a lock and may have been renamed
  when it is added to. Two generations of a list at once may add an item twice.
- *Objects.* A group, an import or an account deleted while one of its events receives an
  upload leaves the object to the reconciliation (`delete_event` locks against this).
- *Budget.* `delete_budget_category` writes expenses without the family's lock, and may
  wait for a write that waits for it; `delete_budget_entry` may hide a crossing from a
  write beside it; `update_budget_category` changes a cap between two totals.

## Not modelled

- *Out of reach*: durations of answers (`auth/response_floor.rs`, `auth/timing.rs`), since
  TLC has no real time; encryption and the verification of tokens; the parsers of pages,
  barcodes, rules and calendar feeds.
- *Nothing that interleaves*: the notification centre (deduplicated insertions), the daily
  jobs that are one statement under `JobLock`, the recap (marked in the transaction that
  writes it), the export (one read-only transaction), the superadmin listings.
- *No state*: rendering, data types, wiring, migrations, deployment and tests. Most of the
  repository's lines are the web frontend and its pages, its validation texts and its
  styles: they render and check what one request holds.
- *Left out of what is partly modelled*: each component's note in `PROJECT.json`.
