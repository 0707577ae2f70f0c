---------------------------- MODULE ReminderSend ----------------------------
(***************************************************************************)
(* The sending pass of jobs/scheduled_notifications.rs: the due rows are   *)
(* read once, their recipients read again and emailed one by one by the    *)
(* reading side, then handed through a bounded channel to the pushing side *)
(* which pushes several at once and settles each row by its id.  Any api   *)
(* process may run the pass, one at a time under JobLock; a process may be *)
(* killed, its lock lost, a query may fail.                                *)
(*                                                                         *)
(* What `copies` counts is what the mailer and the push services confirmed. *)
(***************************************************************************)
EXTENDS Naturals, FiniteSets, JobLock

CONSTANTS Notifications,  \* rows of scheduled_notifications
          MaxAttempts,    \* MAX_SEND_ATTEMPTS
          MaxConcurrent,  \* MAX_CONCURRENT_REMINDERS
          LockMayBeLost,  \* whether a lock's connection may be cut under its pass
          MaxFaults       \* bound on the kills, the locks lost and the queries failed

ASSUME BoundsAssumption ==
    /\ MaxAttempts \in Nat \ {0} /\ MaxConcurrent \in Nat \ {0} /\ MaxFaults \in Nat
    /\ LockMayBeLost \in BOOLEAN

VARIABLES status, attempts,  \* the columns; "deleted" when the row is gone
          due,      \* fire_at <= now()
          pass,     \* per process: the notifications its pass has still to settle
          copies,   \* history: how many passes reached its recipient
          excused,  \* history: reached or read by a pass that could not see it through
          faults

columns == <<status, attempts>>
history == <<copies, excused>>
Told == {n \in Notifications : copies[n] > 0}
sendVars == <<status, attempts, due, pass, lock, running, copies, excused, faults>>

\* DueRow, then Reached: `mail` and `push` are "due" until tried, "none" outside
\* the member's channel; no device left answers "nobody".
Item == [n : Notifications, attempts : Nat,
         stage : {"listed", "reading", "retiring", "handed", "pushing"},
         mail : {"due", "none", "ok", "refused"},
         push : {"due", "none", "delivered", "refused", "nobody"}]
Listed(n) == [n |-> n, attempts |-> attempts[n], stage |-> "listed", mail |-> "due", push |-> "due"]
Stage(r, s) == {x \in pass[r] : x.stage = s}
Reached(x) == x.mail = "ok" \/ x.push = "delivered"
Refused(x) == x.mail = "refused" \/ x.push = "refused"

SendTypeOK ==
    /\ JobTypeOK
    /\ status \in [Notifications -> {"pending", "sent", "failed", "deleted"}]
    /\ attempts \in [Notifications -> 0..MaxAttempts]
    /\ due \subseteq Notifications
    /\ pass \in [Runners -> SUBSET Item]
    /\ \A r \in Runners : /\ r \notin running => pass[r] = {}
                          /\ \A x, y \in pass[r] : x.n = y.n => x = y
    /\ excused \subseteq Notifications
    /\ copies \in [Notifications -> Nat] /\ faults \in Nat

SendInit ==
    /\ JobInit
    /\ status = [n \in Notifications |-> "pending"]
    /\ attempts = [n \in Notifications |-> 0]
    /\ due = {}
    /\ pass = [r \in Runners |-> {}]
    /\ copies = [n \in Notifications |-> 0] /\ excused = {}
    /\ faults = 0

-----------------------------------------------------------------------------
(* Around the pass. *)

FallDue(n) ==
    /\ n \notin due /\ due' = due \cup {n}
    /\ UNCHANGED <<columns, pass, jobVars, history, faults>>

\* The deletion of the reminder or of the event takes the row along.
DeleteRow(n) ==
    /\ status[n] # "deleted" /\ status' = [status EXCEPT ![n] = "deleted"]
    /\ UNCHANGED <<attempts, due, pass, jobVars, history, faults>>

-----------------------------------------------------------------------------
(* send_due_notifications *)

DueRows == {n \in due : status[n] = "pending"}

StartPass(r) ==
    /\ Acquire(r)
    /\ pass' = [pass EXCEPT ![r] = {Listed(n) : n \in DueRows}]
    /\ UNCHANGED <<columns, due, history, faults>>

Becomes(r, x, y) == pass' = [pass EXCEPT ![r] = (@ \ {x}) \cup {y}]
Drop(r, x) == pass' = [pass EXCEPT ![r] = @ \ {x}]
Tell(x, y) ==
    IF Reached(y) /\ ~Reached(x)
    THEN copies' = [copies EXCEPT ![x.n] = @ + 1]
    ELSE UNCHANGED copies

\* reach: one at a time, unless the channel is full; the account is read
\* again, deactivated or purged, or with the channel it has now.
ReadRecipient(r, x) ==
    /\ x \in Stage(r, "listed") /\ Stage(r, "reading") \cup Stage(r, "retiring") = {}
    /\ Cardinality(Stage(r, "handed")) <= MaxConcurrent
    /\ \/ Becomes(r, x, [x EXCEPT !.stage = "retiring"])
       \/ \E c \in {"email", "push", "both"} :
              Becomes(r, x, [x EXCEPT !.stage = "reading",
                                      !.mail = IF c = "push" THEN "none" ELSE "due",
                                      !.push = IF c = "email" THEN "none" ELSE "due"])
    /\ UNCHANGED <<columns, due, jobVars, history, faults>>

\* The email, if the channel has one, then handed over.
Email(r, x) ==
    /\ x \in Stage(r, "reading")
    /\ \E m \in IF x.mail = "due" THEN {"ok", "refused"} ELSE {"none"} :
          LET y == [x EXCEPT !.stage = "handed", !.mail = m]
          IN  Becomes(r, x, y) /\ Tell(x, y)
    /\ UNCHANGED <<columns, due, jobVars, excused, faults>>

\* Mutant: the pushing side begins once the reading side has ended (no join!).
TakeAfterReading(r, x) ==
    /\ Stage(r, "listed") \cup Stage(r, "reading") = {}
    /\ x \in Stage(r, "handed") /\ Cardinality(Stage(r, "pushing")) < MaxConcurrent
    /\ Becomes(r, x, [x EXCEPT !.stage = "pushing"])
    /\ UNCHANGED <<columns, due, jobVars, history, faults>>

\* push_all takes the next while fewer than MaxConcurrent are in flight.
TakeHanded(r, x) ==
    /\ x \in Stage(r, "handed") /\ Cardinality(Stage(r, "pushing")) < MaxConcurrent
    /\ Becomes(r, x, [x EXCEPT !.stage = "pushing"])
    /\ UNCHANGED <<columns, due, jobVars, history, faults>>

\* push_devices: delivered to one at least, refused or unanswered, or nobody to push.
PushDevices(r, x) ==
    /\ x \in Stage(r, "pushing") /\ x.push = "due"
    /\ \E o \in {"delivered", "refused", "nobody"} :
          LET y == [x EXCEPT !.push = o] IN Becomes(r, x, y) /\ Tell(x, y)
    /\ UNCHANGED <<columns, due, jobVars, excused, faults>>

-----------------------------------------------------------------------------
(* The writes, by id: nothing is left of a deleted row. *)

WriteStatus(n, s) == status' = [status EXCEPT ![n] = IF @ = "deleted" THEN @ ELSE s]

retire(n) == WriteStatus(n, "failed") /\ UNCHANGED attempts
mark_sent(n) == WriteStatus(n, "sent") /\ UNCHANGED attempts

\* Mutant: the attempt is not counted.
mark_pending(n, before) == before \in Nat /\ WriteStatus(n, "pending") /\ UNCHANGED attempts

\* The attempt is counted on what the pass had read.
mark_failed(n, before) ==
    /\ attempts' = [attempts EXCEPT ![n] = before + 1]
    /\ WriteStatus(n, IF before + 1 >= MaxAttempts THEN "failed" ELSE "pending")

\* Mutants: nobody to push counts as sent; a channel that failed is tried again
\* though the other went through.
settle_nobody(x) ==
    IF Refused(x) /\ ~Reached(x) THEN mark_failed(x.n, x.attempts) ELSE mark_sent(x.n)
settle_each(x) ==
    CASE Refused(x)                 -> mark_failed(x.n, x.attempts)
      [] Reached(x) /\ ~Refused(x)  -> mark_sent(x.n)
      [] OTHER                      -> retire(x.n)

settle(x) ==
    CASE Reached(x)                 -> mark_sent(x.n)
      [] Refused(x) /\ ~Reached(x)  -> mark_failed(x.n, x.attempts)
      [] OTHER                      -> retire(x.n)

Settle(r, x) ==
    /\ x \in Stage(r, "pushing") /\ x.push # "due"
    /\ settle(x) /\ Drop(r, x)
    /\ UNCHANGED <<due, jobVars, history, faults>>

\* The recipient is gone.
Retire(r, x) ==
    /\ x \in Stage(r, "retiring")
    /\ retire(x.n) /\ Drop(r, x)
    /\ UNCHANGED <<due, jobVars, history, faults>>

EndPass(r) ==
    /\ pass[r] = {} /\ Release(r)
    /\ UNCHANGED <<columns, due, pass, history, faults>>

-----------------------------------------------------------------------------
(* Faults. *)

Fault == faults < MaxFaults /\ faults' = faults + 1

\* A query fails: logged, left pending for the next pass.
Unsent(r, x) ==
    /\ Fault /\ x \in pass[r] /\ x.stage # "listed"
    /\ Drop(r, x)
    /\ excused' = IF Reached(x) THEN excused \cup {x.n} ELSE excused
    /\ UNCHANGED <<columns, due, jobVars, copies>>

KillRunner(r) ==
    /\ Fault /\ Killed(r)
    /\ pass' = [pass EXCEPT ![r] = {}]
    /\ excused' = excused \cup {x.n : x \in {y \in pass[r] : Reached(y)}}
    /\ UNCHANGED <<columns, due, copies>>

LoseLock(r) ==
    /\ LockMayBeLost /\ Fault /\ ConnectionCut(r)
    /\ excused' = excused \cup {x.n : x \in pass[r]}
    /\ UNCHANGED <<columns, due, pass, copies>>

DropDeadSession == DeadSessionDropped /\ UNCHANGED <<columns, due, pass, history, faults>>

-----------------------------------------------------------------------------
PassStep(r) ==
    \/ StartPass(r) \/ EndPass(r)
    \/ \E x \in pass[r] : \/ ReadRecipient(r, x) \/ Email(r, x) \/ TakeHanded(r, x)
                          \/ PushDevices(r, x) \/ Settle(r, x) \/ Retire(r, x)

Around == \E n \in Notifications : FallDue(n) \/ DeleteRow(n)

SendNext ==
    \/ Around
    \/ \E r \in Runners : \/ PassStep(r) \/ KillRunner(r) \/ LoseLock(r)
                          \/ \E x \in pass[r] : Unsent(r, x)
    \/ DropDeadSession

SendSpec == SendInit /\ [][SendNext]_sendVars

\* The loop of every process ticks each minute, a pass goes on (the queries, the
\* mailer and push::client all have timeouts), a dead session is dropped.
FairSendSpec == SendSpec /\ WF_sendVars(DropDeadSession) /\ \A r \in Runners : WF_sendVars(PassStep(r))

-----------------------------------------------------------------------------
(* Properties. *)

\* "what makes each reminder go once whatever the number of replicas" (send_pass):
\* a reminder reaches its recipient in one pass only, whichever channels failed,
\* unless the pass that reached it was cut short before it could say so or lost
\* its lock.
SentOnce == \A n \in Notifications : copies[n] > 1 => n \in excused

\* Every due reminder ends: sent, given up or deleted, in spite of services that
\* refuse every time, processes that die and queries that fail.
DueEnds == \A n \in Notifications : n \in due ~> status[n] # "pending"

\* Without lost locks the passes keep the promise made of each row.
Promise == INSTANCE ReminderPromise WITH told <- Told
KeepsPromise == Promise!Spec
=============================================================================
