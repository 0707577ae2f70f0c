------------------------------ MODULE RateLimit ------------------------------
(***************************************************************************)
(* The sliding-window limits every replica shares (rate_limit.rs): at most *)
(* Limit admissions of a subject per Window. An admission is a             *)
(* transaction, under the advisory lock of its subject: it reads the       *)
(* database's clock and the subject's row, decides, writes the row back    *)
(* and sweeps the rows of the subjects whose admissions all left the       *)
(* window. The hourly purge sweeps too, by the clock of its replica.       *)
(*                                                                         *)
(* One limit; a subject is its bucket, and a row the admissions it holds,  *)
(* numbered to tell two of one instant apart. Subjects whose buckets share *)
(* a lock key only wait on each other and are left out.                    *)
(***************************************************************************)
EXTENDS Integers, FiniteSets

CONSTANTS
    Subjects,   \* who is counted
    Requests,   \* the requests in flight at once, on every replica
    Limit,      \* admissions a window may hold
    Window,     \* its length
    Drifts,     \* how far a replica's clock may be ahead of the database's
    Horizon,    \* the end of time, in an instance
    None        \* no admission

RateAssumption ==
    /\ Limit \in Nat /\ Window \in Nat \ {0} /\ Horizon \in Nat /\ Drifts \subseteq Int
    /\ None \notin [n : Nat, at : Int] /\ IsFiniteSet(Requests)

VARIABLES
    clock,      \* the database's clock
    last,       \* the number of each subject's last admission
    log,        \* rate_limit_log: the admissions a subject's row holds
    given,      \* every admission a subject was given
    request,    \* what each request is at
    lead        \* history: how far ahead the clocks were that purged a subject, at most

limitVars == <<clock, last, log, given, request, lead>>

Admission == [n : Nat, at : Int]
Idle == [at |-> "idle", subject |-> None, now |-> 0, entry |-> None, log |-> {}, writes |-> FALSE, swept |-> {}]

LimitInit ==
    /\ clock = 0 /\ last = [s \in Subjects |-> 0]
    /\ log = [s \in Subjects |-> {}] /\ given = [s \in Subjects |-> {}]
    /\ request = [r \in Requests |-> Idle] /\ lead = [s \in Subjects |-> 0]

-----------------------------------------------------------------------------
(* SlidingWindow, the decision.                                            *)

\* The admissions still in the window.
Within(admissions, now) == {a \in admissions : now - a.at < Window}

\* One more fits.
Fits(kept) == Cardinality(kept) < Limit

\* Every admission left the window at this time.
Forgets(admissions, now) == admissions # {} /\ Within(admissions, now) = {}

-----------------------------------------------------------------------------
(* Locks, held until the transaction ends.                                 *)

Busy(r) == request[r].at # "idle"

\* Mutant: no advisory lock.
LockedByNone(s) == FALSE
\* The advisory lock of a subject.
Locked(s) == \E r \in Requests : Busy(r) /\ request[r].subject = s

\* The rows a transaction wrote or swept.
Wrote(r) == request[r].at \in {"sweep", "commit"} /\ request[r].writes
Holds(r) == (IF Wrote(r) THEN {request[r].subject} ELSE {}) \cup request[r].swept
RowFree(r, s) == \A other \in Requests \ {r} : s \notin Holds(other)

\* The rows a sweep may take, at the instant its transaction read.
Expired(r) == {s \in Subjects \ {request[r].subject} : Forgets(log[s], request[r].now)}

\* Mutant: without SKIP LOCKED a held row is waited for.
Waits(r) == Expired(r)
\* What a sweep takes: a row another holds is skipped.
Sweepable(r) == {s \in Expired(r) : RowFree(r, s)}

-----------------------------------------------------------------------------
(* SlidingLimiter::admit.                                                  *)

Lock(r, s) ==
    /\ ~Busy(r) /\ ~Locked(s)
    /\ request' = [request EXCEPT ![r] = [Idle EXCEPT !.at = "read", !.subject = s]]
    /\ UNCHANGED <<clock, last, log, given, lead>>

\* The clock and the row are read: the clock does not move between the two.
Decide(r) ==
    LET kept == Within(log[request[r].subject], clock)
        entry == [n |-> last[request[r].subject] + 1, at |-> clock]
        new == IF Fits(kept) THEN kept \cup {entry} ELSE kept
    IN
    /\ request[r].at = "read"
    /\ request' = [request EXCEPT
         ![r] = [at |-> "write", subject |-> @.subject, now |-> clock, swept |-> {},
                 entry |-> IF Fits(kept) THEN entry ELSE None,
                 log |-> new, writes |-> new # log[@.subject]]]
    /\ UNCHANGED <<clock, last, log, given, lead>>

\* The row is written back if it changed, once whoever sweeps it is done.
Write(r) ==
    /\ request[r].at = "write"
    /\ request[r].writes => RowFree(r, request[r].subject)
    /\ request' = [request EXCEPT ![r].at = "sweep"]
    /\ UNCHANGED <<clock, last, log, given, lead>>

Sweep(r) ==
    /\ request[r].at = "sweep"
    /\ \A s \in Sweepable(r) : RowFree(r, s)
    /\ request' = [request EXCEPT ![r].at = "commit", ![r].swept = Sweepable(r)]
    /\ UNCHANGED <<clock, last, log, given, lead>>

Commit(r) ==
    LET q == request[r] IN
    /\ q.at = "commit"
    /\ log' = [s \in Subjects |-> IF s = q.subject /\ q.writes THEN q.log
                               ELSE IF s \in q.swept THEN {} ELSE log[s]]
    /\ IF q.entry = None THEN UNCHANGED <<last, given>>
       ELSE /\ last' = [last EXCEPT ![q.subject] = q.entry.n]
            /\ given' = [given EXCEPT ![q.subject] = @ \cup {q.entry}]
    /\ request' = [request EXCEPT ![r] = Idle]
    /\ UNCHANGED <<clock, lead>>

\* An error leaves nothing counted, and the request is not let through.
Fail(r) ==
    /\ Busy(r)
    /\ request' = [request EXCEPT ![r] = Idle]
    /\ UNCHANGED <<clock, last, log, given, lead>>

-----------------------------------------------------------------------------
\* purge_expired, of a pass begun at most now by the clock of its replica.
Purge(s, drift) ==
    /\ Forgets(log[s], clock + drift)
    /\ \A r \in Requests : s \notin Holds(r)
    /\ log' = [log EXCEPT ![s] = {}]
    /\ lead' = [lead EXCEPT ![s] = IF drift > @ THEN drift ELSE @]
    /\ UNCHANGED <<clock, last, given, request>>

Tick ==
    /\ clock < Horizon /\ clock' = clock + 1
    /\ UNCHANGED <<last, log, given, request, lead>>

Step(r) == \/ Decide(r) \/ Write(r) \/ Sweep(r) \/ Commit(r) \/ Fail(r)
           \/ \E s \in Subjects : Lock(r, s)

LimitNext ==
    \/ \E r \in Requests : Step(r)
    \/ \E s \in Subjects, drift \in Drifts : Purge(s, drift)
    \/ Tick

LimitSpec == LimitInit /\ [][LimitNext]_limitVars

-----------------------------------------------------------------------------
(* At most Limit admissions of a subject per Window, sliding, on whichever *)
(* replicas: the window that ends with an admission holds no more          *)
(* (rate_limit.rs, "at most `limit` admissions per `window`, sliding"). A  *)
(* purge by a clock that is ahead of the database's forgets an admission   *)
(* that much too soon: the window is then shorter by its lead, and by no   *)
(* more.                                                                   *)
WindowCeiling ==
    \A s \in Subjects : \A a \in given[s] :
        Cardinality({b \in given[s] : b.n <= a.n /\ a.at - b.at < Window - lead[s]}) <= Limit

\* Who a request waits for, to write its row or to sweep another.
Blockers(r) ==
    LET wanted == CASE request[r].at = "write" /\ request[r].writes -> {request[r].subject}
                    [] request[r].at = "sweep" -> Sweepable(r)
                    [] OTHER -> {}
    IN {other \in Requests \ {r} : wanted \cap Holds(other) # {}}

(* Requests never wait for each other in a circle: a row another admission *)
(* holds is skipped rather than waited on (rate_limit.rs:214).             *)
NoCircle ==
    \A S \in (SUBSET Requests) \ {{}} : \E r \in S : Blockers(r) \cap S = {}
=============================================================================
