----------------------------- MODULE PushDevices -----------------------------
(***************************************************************************)
(* The devices that show the notifications of an account. A push carries   *)
(* nothing: the device asks which kind it got, and the server answers from *)
(* the pushes it has counted on the row of the device. The rows are        *)
(* written by the pushes sent at once, by the devices that ask, and by the *)
(* members who register their devices or forget them all.                  *)
(*                                                                         *)
(* A transaction that locks one row and writes it is one step. The push    *)
(* service keeps a push until its time to live, counted here from when the *)
(* server counted the push; a request to it, and the device's own, take    *)
(* less than that (MIN_TTL_SECS is a minute, the client waits seconds).    *)
(***************************************************************************)
EXTENDS Integers, FiniteSets, Functions

CONSTANTS
    Tasks,        \* pushes and registrations at work at once
    Users,
    Endpoints,    \* the devices, by the address the push service gives them
    Ids,          \* ids of rows, each given once
    Kinds,        \* PushKind
    TTLs,         \* times to live
    MaxFailures,  \* MAX_CONSECUTIVE_FAILURES
    MinFailing,   \* MIN_FAILING_DAYS
    MaxDevices,   \* MAX_DEVICES_PER_ACCOUNT
    MaxTime,      \* the clock stops, in an instance
    Mixes,        \* tasks at once, pushes sent, devices at first, registrations or none
    Mixed,        \* pushes of several kinds
    None          \* no kind, no time, the neutral text, no session

ASSUME PushAssumption ==
    /\ TTLs \subseteq Nat \ {0} /\ {MaxFailures, MinFailing, MaxDevices, MaxTime} \subseteq Nat
    /\ MaxDevices > 0 /\ None \notin Kinds \cup Users \cup Nat /\ Mixed \notin Kinds \cup {None}

VARIABLES
    rows,         \* push_subscriptions, by id
    spent,        \* the ids given
    service,      \* the pushes the push services hold
    task,         \* what each push or registration is at
    now,          \* the clock
    sent,         \* number of pushes sent
    mistaken,     \* history: the devices that showed a push with another's text
    reset,        \* history: the devices whose count was lost with pushes on their way
    beside        \* what is at work together

vars == <<rows, spent, service, task, now, sent, mistaken, reset, beside>>

Nothing == [kind |-> None, count |-> 0, until |-> 0]
Pending == [kind : Kinds \cup {Mixed}, count : Nat \ {0}, until : Nat] \cup {Nothing}
Row == [user : Users, endpoint : Endpoints, pending : Pending, failures : Nat, since : Nat \cup {None}]
Push == [n : Nat, endpoint : Endpoints, kind : Kinds, until : Nat]
Fresh(user, endpoint) == [user |-> user, endpoint |-> endpoint, pending |-> Nothing,
                          failures |-> 0, since |-> None]
Idle == [at |-> "idle"]

Greater(a, b) == IF a > b THEN a ELSE b

-----------------------------------------------------------------------------
(* The pending pushes of a device (push.rs).                               *)

Live(p) == p.count > 0 /\ p.until > now

PendingAfterPush(p, kind, ttl) ==
    IF ~Live(p) THEN [kind |-> kind, count |-> 1, until |-> now + ttl]
    ELSE [kind |-> IF p.kind = kind THEN kind ELSE Mixed,
          count |-> p.count + 1, until |-> Greater(p.until, now + ttl)]

\* A push refused never arrives: one less, the kind not taken back.
PendingAfterFailure(p) == IF p.count <= 1 THEN Nothing ELSE [p EXCEPT !.count = @ - 1]

\* A push without an answer may have been stored: it stays counted, and the
\* kind of a receipt is no longer known.
PendingAfterUnanswered(p) == IF p.count = 0 THEN Nothing ELSE [p EXCEPT !.kind = Mixed]

PendingAfterReceipt(p) == IF ~Live(p) \/ p.count = 1 THEN Nothing ELSE [p EXCEPT !.count = @ - 1]

\* The text of a receipt: of the kind when all are of one, the neutral one.
Text(p) == IF Live(p) /\ p.kind \in Kinds THEN p.kind ELSE None

-----------------------------------------------------------------------------
Busy(t) == task[t].at # "idle"
MayStart(t) == ~Busy(t) /\ Cardinality({u \in Tasks : Busy(u)}) < beside.tasks

\* The registrations that have written and not committed lock what they wrote.
Writing == {t \in Tasks : task[t].at = "commit"}
RowFree(id) == \A t \in Writing : rows[id].endpoint # task[t].endpoint /\ id \notin task[t].excess

OnTheirWay(e) ==
    (\E p \in service : p.endpoint = e) \/ (\E t \in Tasks : Busy(t) /\ task[t].op = "push"
                                                             /\ task[t].endpoint = e)

Update(id, r) == rows' = [rows EXCEPT ![id] = r]

\* Rows deleted, with the pushes counted on them.
Delete(ids) ==
    /\ rows' = [i \in DOMAIN rows \ ids |-> rows[i]]
    /\ reset' = reset \cup {e \in {rows[i].endpoint : i \in ids \cap DOMAIN rows} : OnTheirWay(e)}

Go(t, r) == task' = [task EXCEPT ![t] = r]

Init ==
    /\ beside \in Mixes
    /\ \E ids \in SUBSET Ids :
        /\ Cardinality(ids) = Cardinality(beside.endpoints) /\ spent = ids
        /\ \E owner \in [ids -> Users], endpoint \in [ids -> beside.endpoints] :
            /\ IsInjective(owner) /\ IsInjective(endpoint)
            /\ rows = [i \in ids |-> Fresh(owner[i], endpoint[i])]
    /\ service = {} /\ task = [t \in Tasks |-> Idle] /\ now = 0 /\ sent = 0
    /\ mistaken = {} /\ reset = {}

-----------------------------------------------------------------------------
(* push_device: one push to one device.                                    *)

\* push_devices reads the device, its failures included.
StartPush(t) ==
    /\ MayStart(t) /\ sent < beside.pushes
    /\ \E id \in DOMAIN rows, kind \in Kinds, ttl \in TTLs :
        Go(t, [op |-> "push", at |-> "count", id |-> id, endpoint |-> rows[id].endpoint,
               kind |-> kind, ttl |-> ttl, until |-> 0, outcome |-> None, n |-> sent,
               failures |-> rows[id].failures, since |-> rows[id].since])
    /\ sent' = sent + 1
    /\ UNCHANGED <<rows, spent, service, now, mistaken, reset>>

\* note_pending: nothing for a device gone meanwhile.
NotePending(id, pending) ==
    \/ id \in DOMAIN rows /\ RowFree(id) /\ Update(id, [rows[id] EXCEPT !.pending = pending])
    \/ id \notin DOMAIN rows /\ UNCHANGED rows

\* The push is counted before it is sent.
Count(t) ==
    LET r == task[t] IN
    /\ r.at = "count"
    /\ NotePending(r.id, IF r.id \in DOMAIN rows
                         THEN PendingAfterPush(rows[r.id].pending, r.kind, r.ttl) ELSE Nothing)
    /\ Go(t, [r EXCEPT !.at = "send", !.until = now + r.ttl])
    /\ UNCHANGED <<spent, service, now, sent, mistaken, reset>>

\* The push service takes the push, refuses it, knows the device no more,
\* or does not answer: then it may have the push or not.
Send(t) ==
    LET r == task[t]
        push == [n |-> r.n, endpoint |-> r.endpoint, kind |-> r.kind, until |-> r.until]
    IN
    /\ r.at = "send"
    /\ \/ \E outcome \in {"delivered", "unanswered"} :
            /\ service' = service \cup {push}
            /\ Go(t, [r EXCEPT !.at = "note", !.outcome = outcome])
       \/ \E outcome \in {"unanswered", "failed"} :
            UNCHANGED service /\ Go(t, [r EXCEPT !.at = "note", !.outcome = outcome])
       \/ /\ service' = {p \in service : p.endpoint # r.endpoint}
          /\ Go(t, [r EXCEPT !.at = "note", !.outcome = "gone"])
    /\ UNCHANGED <<rows, spent, now, sent, mistaken, reset>>

NoteOutcome(t) ==
    LET r == task[t]
        pending == rows[r.id].pending
    IN
    /\ r.at = "note"
    /\ \/ r.outcome = "delivered" /\ UNCHANGED rows
       \/ /\ r.outcome # "delivered"
          /\ NotePending(r.id, IF r.id \notin DOMAIN rows THEN Nothing
                               ELSE IF r.outcome = "unanswered" THEN PendingAfterUnanswered(pending)
                               ELSE PendingAfterFailure(pending))
    /\ Go(t, [r EXCEPT !.at = "record"])
    /\ UNCHANGED <<spent, service, now, sent, mistaken, reset>>

\* record_device: the device is gone, or has failed too often and too long.
Forgotten(r) ==
    \/ r.outcome = "gone"
    \/ /\ r.outcome \in {"failed", "unanswered"}
       /\ r.failures + 1 >= MaxFailures /\ r.since # None /\ now - r.since >= MinFailing

Record(t) ==
    LET r == task[t]
        failed == r.outcome # "delivered"
    IN
    /\ r.at = "record"
    /\ \/ r.id \notin DOMAIN rows /\ UNCHANGED <<rows, reset>>
       \/ /\ r.id \in DOMAIN rows /\ RowFree(r.id)
          /\ \/ Forgotten(r) /\ Delete({r.id})
             \/ /\ ~Forgotten(r)
                /\ Update(r.id, [rows[r.id] EXCEPT
                        !.failures = IF failed THEN r.failures + 1 ELSE 0,
                        !.since = IF ~failed THEN None ELSE IF r.since = None THEN now ELSE r.since])
                /\ UNCHANGED reset
    /\ Go(t, Idle)
    /\ UNCHANGED <<spent, service, now, sent, mistaken>>

\* The process stops: what the push did until then stays.
Stop(t) == Busy(t) /\ Go(t, Idle) /\ UNCHANGED <<rows, spent, service, now, sent, mistaken, reset>>

-----------------------------------------------------------------------------
(* received: a device shows a push. It asks with the session it has; no    *)
(* session, no network or no such device of the account: the neutral text. *)

Shows(push, text) ==
    /\ service' = service \ {push}
    /\ mistaken' = IF text \in {None, push.kind} THEN mistaken ELSE mistaken \cup {push.endpoint}
    /\ UNCHANGED <<spent, task, now, sent, reset>>

Arrive(push) ==
    \/ UNCHANGED rows /\ Shows(push, None)
    \/ \E id \in DOMAIN rows :
        LET pending == rows[id].pending IN
        /\ rows[id].endpoint = push.endpoint /\ RowFree(id)
        /\ Update(id, [rows[id] EXCEPT !.pending = PendingAfterReceipt(pending)])
        /\ \E text \in {Text(pending), None} : Shows(push, text)

\* Past its time to live a push no longer arrives; no request takes that long.
Tick ==
    /\ now < MaxTime /\ now' = now + 1
    /\ \A t \in Tasks : Busy(t) /\ task[t].op = "push" /\ task[t].at # "count" => task[t].until > now + 1
    /\ service' = {p \in service : p.until > now + 1}
    /\ UNCHANGED <<rows, spent, task, sent, mistaken, reset>>

-----------------------------------------------------------------------------
(* subscribe and unsubscribe_all.                                          *)

\* Mutant: the account is not locked.
NoLock(t) == {}
\* The registrations of the same account that hold its row.
LockedBy(t) == {s \in Tasks \ {t} : Busy(s) /\ task[s].op = "subscribe" /\ task[s].at # "lock"
                                   /\ task[s].user = task[t].user}

StartSubscribe(t) ==
    /\ MayStart(t) /\ beside.registers
    /\ \E user \in Users, endpoint \in Endpoints :
        Go(t, [op |-> "subscribe", at |-> "lock", user |-> user, endpoint |-> endpoint,
               id |-> None, excess |-> {}])
    /\ UNCHANGED <<rows, spent, service, now, sent, mistaken, reset>>

LockUser(t) ==
    /\ Busy(t) /\ task[t].at = "lock" /\ LockedBy(t) = {}
    /\ Go(t, [task[t] EXCEPT !.at = "write"])
    /\ UNCHANGED <<rows, spent, service, now, sent, mistaken, reset>>

\* The row of the endpoint, new or moved to the caller, and the devices
\* beyond the limit: the least in use, here any but the one registered.
WriteSubscription(t) ==
    LET r == task[t]
        same == {i \in DOMAIN rows : rows[i].endpoint = r.endpoint}
    IN
    /\ r.at = "write"
    /\ \A s \in Writing : task[s].endpoint # r.endpoint
    /\ \E id \in IF same = {} THEN Ids \ spent ELSE same :
        LET mine == {i \in DOMAIN rows : rows[i].user = r.user} \cup {id} IN
        \E excess \in SUBSET (mine \ {id}) :
            /\ Cardinality(mine \ excess) <= MaxDevices
            /\ excess # {} => Cardinality(mine \ excess) = MaxDevices
            /\ \A i \in (same \cup excess) : RowFree(i)
            /\ Go(t, [r EXCEPT !.at = "commit", !.id = id, !.excess = excess])
            /\ spent' = spent \cup {id}
    /\ UNCHANGED <<rows, service, now, sent, mistaken, reset>>

\* The same account again keeps the record of the device; another starts
\* with a fresh one.
CommitSubscription(t) ==
    LET r == task[t]
        kept == r.id \in DOMAIN rows /\ rows[r.id].user = r.user
        row == IF kept THEN rows[r.id]
               ELSE Fresh(r.user, r.endpoint)
        lost == {rows[i].endpoint : i \in r.excess} \cup IF kept THEN {} ELSE {r.endpoint}
    IN
    /\ r.at = "commit"
    /\ rows' = [i \in (DOMAIN rows \ r.excess) \cup {r.id} |-> IF i = r.id THEN row ELSE rows[i]]
    /\ reset' = reset \cup {e \in lost : OnTheirWay(e)}
    /\ Go(t, Idle)
    /\ UNCHANGED <<spent, service, now, sent, mistaken>>

UnsubscribeAll ==
    /\ beside.registers
    /\ \E user \in Users :
        LET ids == {i \in DOMAIN rows : rows[i].user = user} IN
        ids # {} /\ (\A i \in ids : RowFree(i)) /\ Delete(ids)
    /\ UNCHANGED <<spent, service, task, now, sent, mistaken>>

Next ==
    /\ \/ \E t \in Tasks :
           \/ StartPush(t) \/ Count(t) \/ Send(t) \/ NoteOutcome(t) \/ Record(t) \/ Stop(t)
           \/ StartSubscribe(t) \/ LockUser(t) \/ WriteSubscription(t) \/ CommitSubscription(t)
       \/ \E push \in service : Arrive(push)
       \/ Tick \/ UnsubscribeAll
    /\ UNCHANGED beside

Spec == Init /\ [][Next]_vars

-----------------------------------------------------------------------------
(* Properties. *)

TypeOK ==
    /\ DOMAIN rows \subseteq spent /\ spent \subseteq Ids
    /\ \A i \in DOMAIN rows : rows[i] \in Row
    /\ service \subseteq Push
    /\ now \in Nat /\ sent \in Nat /\ mistaken \subseteq Endpoints /\ reset \subseteq Endpoints

\* A device never shows a push with the text of another kind, whatever
\* pushes are sent, refused, unanswered, received and lost at once, as long
\* as the count of the device was not lost with pushes on their way: it is
\* when its row is deleted or moves to another account (Pending in push.rs).
NeverAnotherKind == mistaken \subseteq reset

\* No account keeps more than MaxDevices devices, however many register at
\* once (subscribe counts them under the lock of the account).
DevicesCapped ==
    \A user \in Users : Cardinality({i \in DOMAIN rows : rows[i].user = user}) <= MaxDevices

=============================================================================
