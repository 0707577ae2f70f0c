--------------------------- MODULE LoginThrottle ---------------------------
(***************************************************************************)
(* The throttle on login attempts (auth/throttle.rs): counters per         *)
(* (address, email) pair in one Postgres table, shared by every replica.   *)
(* An attempt is one transaction, admitted and counted before the password *)
(* is looked at.  Under its address's advisory lock it decides on the      *)
(* address's pairs; a pair the table does not hold also takes the table's  *)
(* lock, purges, counts, and on a full table evicts.                       *)
(*                                                                         *)
(* A step is what runs between two waits: a lock and the reads made as     *)
(* soon as it is held are one step, the last writes and their COMMIT       *)
(* another.  The rows of the purge are deleted with the first of the two,  *)
(* and locked until the second (`purged`).                                 *)
(***************************************************************************)
EXTENDS Naturals, Sequences, FiniteSets

CONSTANTS Addresses, Emails,
          Attempts,       \* the attempts in flight at once
          NoPair,
          MaxFailures,    \* MAX_FAILURES
          Window, Lockout,
          MaxTracked,     \* MAX_TRACKED
          MaxPairsPerIp,  \* MAX_PAIRS_PER_IP
          Horizon         \* bound on the clock

ASSUME LimitsAssumption ==
    /\ MaxFailures \in Nat \ {0} /\ MaxTracked \in Nat \ {0} /\ MaxPairsPerIp \in Nat \ {0}
    /\ Window \in Nat /\ Lockout \in Nat /\ Horizon \in Nat

VARIABLES now,
          rows,   \* login_throttle: the pairs it holds, and their entries
          att,    \* the attempts in flight
          tries   \* history: when each pair was last admitted, since it was forgiven

vars == <<now, rows, att, tries>>

Pairs == Addresses \X Emails
Unlocked == 0   \* locked_until IS NULL: no lock ends before the clock starts
Entry == [attempts : 0..MaxFailures, window_start : Nat, locked_until : Nat]
Absent == [attempts |-> 0, window_start |-> 0, locked_until |-> Unlocked]
Idle == [at |-> "idle", pair |-> NoPair, decided |-> 0, entry |-> Absent, purged |-> {}, out |-> {}]

Held(R) == {k \in Pairs : R[k] # Absent}
Of(a) == {k \in Pairs : k[1] = a}

TypeOK ==
    /\ now \in Nat
    /\ rows \in [Pairs -> Entry]
    /\ att \in [Attempts -> [at : {"idle", "waiting", "update", "table", "write", "admitted"},
                             pair : Pairs \cup {NoPair}, decided : Nat, entry : Entry,
                             purged : SUBSET Pairs, out : SUBSET Pairs]]
    /\ \A k \in Held(rows) : rows[k].attempts > 0
    /\ tries \in [Pairs -> Seq(Nat)]

\* The clock starts away from Unlocked.
Init ==
    /\ now = 1
    /\ rows = [k \in Pairs |-> Absent]
    /\ att = [p \in Attempts |-> Idle]
    /\ tries = [k \in Pairs |-> <<>>]

-----------------------------------------------------------------------------
(* The decision: Entry and Table. *)

Fresh(t) == [attempts |-> 0, window_start |-> t, locked_until |-> Unlocked]
LockedAt(e, t) == e.locked_until > t
IsStale(e, t) == ~LockedAt(e, t) /\ (e.locked_until # Unlocked \/ t - e.window_start > Window)
\* Without truncated subtraction: no window starts after the clock that is read.
PurgeCutoff(e, t) == e.window_start + Window + Lockout <= t

\* The end of Table::admit, for a pair that is not locked.
Counted(e, t) ==
    LET f == IF IsStale(e, t) THEN Fresh(t) ELSE e
    IN  [f EXCEPT !.attempts = @ + 1,
                  !.locked_until = IF f.attempts + 1 >= MaxFailures THEN t + Lockout ELSE @]

StaleOf(R, a, t) == {k \in Held(R) \cap Of(a) : IsStale(R[k], t)}

\* refuse_at_share, of a pair the table does not hold
RefusedAtShare(R, a, t) == Cardinality((Held(R) \cap Of(a)) \ StaleOf(R, a, t)) >= MaxPairsPerIp

\* make_room, of a table that is full: the stale pairs go, then if need be one of
\* the addresses with most pairs: an unlocked one, the oldest; else the lock soonest
\* to end.
MakeRoom(R, t) ==
    LET live == {k \in Held(R) : ~IsStale(R[k], t)}
        size(k) == Cardinality(live \cap Of(k[1]))
        most == {k \in live : \A j \in live : size(j) <= size(k)}
        rank(k) == IF LockedAt(R[k], t) THEN <<1, R[k].locked_until>> ELSE <<0, R[k].window_start>>
        before(i, j) == i[1] < j[1] \/ (i[1] = j[1] /\ i[2] <= j[2])
        victims == {k \in most : \A j \in most : before(rank(k), rank(j))}
    IN  IF Cardinality(Held(R)) < MaxTracked THEN {{}}
        ELSE IF Cardinality(live) < MaxTracked THEN {Held(R) \ live}
        ELSE {(Held(R) \ live) \cup {k} : k \in victims}

-----------------------------------------------------------------------------
(* The locks. *)

\* SCOPE_LOCK and TABLE_LOCK, held to the end of the transaction.
\* Mutant: until the password was checked.
InsideAndAfter == {"update", "table", "write", "admitted"}
Inside == {"update", "table", "write"}
\* Mutant: no lock on the address.
ScopeAlwaysFree(p, a) == p \in Attempts /\ a \in Addresses
ScopeFree(p, a) == \A q \in Attempts \ {p} : att[q].at \in Inside => att[q].pair[1] # a
TableFree(p) == \A q \in Attempts \ {p} : att[q].at # "write"
RowFree(p, k) == \A q \in Attempts \ {p} : k \notin att[q].purged

Set(p, a) == att' = [att EXCEPT ![p] = a]

\* The admissions of k with the one at t, the last first: as many as NoBurst compares.
Remembered == 2 * MaxFailures - 1
Tried(k, t) == [i \in {j \in 1..Remembered : j <= Len(tries[k]) + 1} |->
                   IF i = 1 THEN t ELSE tries[k][i - 1]]

-----------------------------------------------------------------------------
(* LoginThrottle::admit *)

Try(p, k) ==
    /\ att[p] = Idle /\ Set(p, [Idle EXCEPT !.at = "waiting", !.pair = k])
    /\ UNCHANGED <<now, rows, tries>>

\* A pair not held, at the share: the address's stale pairs are deleted, and the
\* attempt refused.
Refused(p) ==
    LET k == att[p].pair IN
    /\ att[p].at = "waiting" /\ ScopeFree(p, k[1])
    /\ rows[k] = Absent /\ RefusedAtShare(rows, k[1], now)
    /\ \A j \in StaleOf(rows, k[1], now) : RowFree(p, j)
    /\ rows' = [j \in Pairs |-> IF j \in StaleOf(rows, k[1], now) THEN Absent ELSE rows[j]]
    /\ Set(p, Idle) /\ UNCHANGED <<now, tries>>

\* A pair held and locked: nothing changes.
Locked(p) ==
    LET k == att[p].pair IN
    /\ att[p].at = "waiting" /\ ScopeFree(p, k[1])
    /\ rows[k] # Absent /\ LockedAt(rows[k], now)
    /\ Set(p, Idle) /\ UNCHANGED <<now, rows, tries>>

\* A pair held: counted on what was read...
DecideHeld(p) ==
    LET k == att[p].pair IN
    /\ att[p].at = "waiting" /\ ScopeFree(p, k[1])
    /\ rows[k] # Absent /\ ~LockedAt(rows[k], now)
    /\ Set(p, [att[p] EXCEPT !.at = "update", !.decided = now, !.entry = Counted(rows[k], now)])
    /\ UNCHANGED <<now, rows, tries>>

\* Mutant: a row gone meanwhile is written all the same.
StillThereOrNot(k) == k \in Pairs
StillThere(k) == rows[k] # Absent

\* ...and updated, unless its row went meanwhile: then it is a new pair.
UpdateHeld(p) ==
    LET k == att[p].pair IN
    /\ att[p].at = "update" /\ RowFree(p, k)
    /\ IF StillThere(k)
       THEN /\ rows' = [rows EXCEPT ![k] = att[p].entry]
            /\ tries' = [tries EXCEPT ![k] = Tried(k, att[p].decided)]
            /\ Set(p, [Idle EXCEPT !.at = "admitted", !.pair = k])
       ELSE Set(p, [att[p] EXCEPT !.at = "table"]) /\ UNCHANGED <<rows, tries>>
    /\ UNCHANGED now

\* A pair not held, within the share.
DecideNew(p) ==
    LET k == att[p].pair IN
    /\ att[p].at = "waiting" /\ ScopeFree(p, k[1])
    /\ rows[k] = Absent /\ ~RefusedAtShare(rows, k[1], now)
    /\ Set(p, [att[p] EXCEPT !.at = "table"])
    /\ UNCHANGED <<now, rows, tries>>

\* The table's lock; what is past the cutoff is deleted, the rest counted and read
\* again, all of it if the table is full; the decision is Table::admit's.
LockTable(p) ==
    LET k == att[p].pair
        purged == {j \in Held(rows) : PurgeCutoff(rows[j], now)}
        R == [j \in Pairs |-> IF j \in purged THEN Absent ELSE rows[j]]
        mine == StaleOf(R, k[1], now)
        S == [j \in Pairs |-> IF j \in mine THEN Absent ELSE R[j]]
        decided == [att[p] EXCEPT !.at = "write", !.decided = now, !.purged = purged, !.entry = Absent]
        admitted == [decided EXCEPT !.entry = Counted(Fresh(now), now)]
    IN  /\ att[p].at = "table" /\ TableFree(p)
        /\ \A j \in purged : RowFree(p, j)
        /\ \/ RefusedAtShare(R, k[1], now) /\ Set(p, [decided EXCEPT !.out = mine])
           \/ /\ ~RefusedAtShare(R, k[1], now)
              /\ Cardinality(Held(R)) < MaxTracked /\ Set(p, [admitted EXCEPT !.out = mine])
           \/ /\ ~RefusedAtShare(R, k[1], now)
              /\ Cardinality(Held(R)) >= MaxTracked
              /\ \E out \in MakeRoom(S, now) : Set(p, [admitted EXCEPT !.out = mine \cup out])
        /\ UNCHANGED <<now, rows, tries>>

\* The deletions, by key, and the insertion.  A pair that is pushed out of a full
\* table is forgiven, and so is one renewed since it was read as stale.
WriteNew(p) ==
    LET k == att[p].pair
        gone == att[p].purged \cup att[p].out
        insert == att[p].entry # Absent
        forgiven == {j \in gone : rows[j] # Absent /\ ~IsStale(rows[j], now)}
        kept == [j \in Pairs |-> IF j \in forgiven THEN <<>> ELSE tries[j]]
    IN  /\ att[p].at = "write"
        /\ rows' = [j \in Pairs |-> IF insert /\ j = k THEN att[p].entry
                                    ELSE IF j \in gone THEN Absent ELSE rows[j]]
        /\ tries' = IF insert THEN [kept EXCEPT ![k] = Tried(k, att[p].decided)] ELSE kept
        /\ Set(p, IF insert THEN [Idle EXCEPT !.at = "admitted", !.pair = k] ELSE Idle)
        /\ UNCHANGED now

\* A transaction fails: nothing counted, nothing admitted.
Fail(p) ==
    /\ att[p].at \in {"waiting"} \cup Inside /\ Set(p, Idle)
    /\ UNCHANGED <<now, rows, tries>>

-----------------------------------------------------------------------------
(* After the password was checked. *)

\* Wrong, or the pair could not be cleared.
WrongPassword(p) ==
    /\ att[p].at = "admitted" /\ Set(p, Idle)
    /\ UNCHANGED <<now, rows, tries>>

\* record_success
RecordSuccess(p) ==
    LET k == att[p].pair IN
    /\ att[p].at = "admitted" /\ ScopeFree(p, k[1]) /\ RowFree(p, k)
    /\ rows' = [rows EXCEPT ![k] = Absent]
    /\ tries' = [tries EXCEPT ![k] = <<>>]
    /\ Set(p, Idle) /\ UNCHANGED now

\* purge_expired, from the hourly retention purge.
RetentionPurge ==
    LET old == {k \in Held(rows) : PurgeCutoff(rows[k], now)} IN
    /\ old # {} /\ \A p \in Attempts, k \in old : RowFree(p, k)
    /\ rows' = [k \in Pairs |-> IF k \in old THEN Absent ELSE rows[k]]
    /\ UNCHANGED <<now, att, tries>>

Tick == now < Horizon /\ now' = now + 1 /\ UNCHANGED <<rows, att, tries>>

-----------------------------------------------------------------------------
Enter(p) == Refused(p) \/ Locked(p) \/ DecideHeld(p) \/ DecideNew(p)

Step(p) == \/ Enter(p) \/ UpdateHeld(p) \/ LockTable(p) \/ WriteNew(p)

Next ==
    \/ \E p \in Attempts : \/ Step(p) \/ Fail(p) \/ WrongPassword(p) \/ RecordSuccess(p)
                           \/ \E k \in Pairs : Try(p, k)
    \/ RetentionPurge \/ Tick

Spec == Init /\ [][Next]_vars

\* A query ends; Postgres serves those who wait for an advisory lock or for a row
\* in turn.
FairSpec == Spec /\ \A p \in Attempts : SF_vars(Step(p))

-----------------------------------------------------------------------------
(* Properties. *)

\* "capping an attacker at ten argon2id runs per address per email per window,
\* concurrent requests included": windows being fixed, the end of one and the start
\* of the next make at most twice the bound less two in the length of a window,
\* whatever attempts run at once, unless a success or a full table forgave the pair.
NoBurst ==
    \A k \in Pairs : Len(tries[k]) = Remembered =>
        tries[k][1] - tries[k][Remembered] >= Window

\* MAX_TRACKED is the ceiling whatever happens at once: only an insertion under
\* the table's lock adds a row.
Ceiling == Cardinality(Held(rows)) <= MaxTracked

\* "a 51st email cannot slip past the share".
WithinShare == \A a \in Addresses : Cardinality(Held(rows) \cap Of(a)) <= MaxPairsPerIp

\* Both bounds of the table hold whatever attempts, successes and purges interleave
\* between the reads of an attempt and its insertion.
TableBounded == Ceiling /\ WithinShare

\* Nobody waits for ever on the two locks and the rows being deleted.
AttemptsEnd ==
    \A p \in Attempts : att[p].at # "idle" ~> att[p].at \in {"idle", "admitted"}
=============================================================================
