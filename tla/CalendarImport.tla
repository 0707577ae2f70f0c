---------------------------- MODULE CalendarImport ----------------------------
(***************************************************************************)
(* The synchronisation of a calendar feed with the events of a group       *)
(* (google_calendar/imports.rs), beside members who edit or delete those   *)
(* events and an administrator who removes the feed. A synchronisation     *)
(* fetches the feed, then writes every entry in one transaction: a row it  *)
(* read is locked until it ends. Any member may start one, so two may run. *)
(*                                                                         *)
(* Of an event only whether it lasts all day and how its rule steps is     *)
(* kept; its text, bounds and assignees, which one statement rewrites or   *)
(* repairs, are left out. There is one feed; its events bear its uids. The *)
(* events made private, which a synchronisation by another leaves alone,   *)
(* and the entries gone from the feed, whose events stay, are left out.    *)
(***************************************************************************)
EXTENDS Integers, FiniteSets

CONSTANTS
    Syncs,      \* the synchronisations at work at once
    Uids,       \* the entries of the feed
    EventIds,   \* ids of events, each given once
    MaxStamp,   \* versions of an entry, in an instance
    MaxEdits,   \* edits of events, in an instance
    None        \* no stamp, no mapping, no event

\* An entry has a version to begin with, and None denotes no mapping.
ImportAssumption ==
    /\ MaxStamp \in Nat \ {0}
    /\ None \notin [event : EventIds, stamp : 1..MaxStamp \cup {None}]

VARIABLES
    feed,       \* the feed: the version of each entry and whether it lasts all day
    imported,   \* calendar_imports: whether the feed is still one of the group's
    mapping,    \* calendar_import_events: the event and the version of each uid
    agenda,     \* events, by id
    edits,      \* edits made so far
    sync,       \* what each synchronisation is at
    removal     \* the events the removal of the feed takes along, once listed

importVars == <<feed, imported, mapping, agenda, edits, sync, removal>>

RuleKinds == {"none", "hourly", "daily"}
Event == [uid : Uids, allDay : BOOLEAN, rule : RuleKinds, gone : BOOLEAN]
Entry == [stamp : 1..MaxStamp \cup {None}, allDay : BOOLEAN]
Rest == [at |-> "idle", feed |-> <<>>, todo |-> {}, uid |-> None, seen |-> None, found |-> None,
         locked |-> {}, rows |-> <<>>, maps |-> <<>>]

ImportInit ==
    /\ feed = [u \in Uids |-> [stamp |-> 1, allDay |-> FALSE]]
    /\ imported = TRUE /\ mapping = [u \in Uids |-> None]
    /\ agenda = <<>> /\ edits = 0
    /\ sync = [s \in Syncs |-> Rest] /\ removal = None

\* A function with one entry written.
With(f, x, value) == [y \in DOMAIN f \cup {x} |-> IF y = x THEN value ELSE f[y]]

Present(e) == e \in DOMAIN agenda /\ ~agenda[e].gone
Running(s) == sync[s].at # "idle"

-----------------------------------------------------------------------------
(* Locks, held until the transaction ends.                                 *)

\* Mutant: the row is read without FOR UPDATE OF e.
WrittenBy(s) == DOMAIN sync[s].rows
\* The rows a synchronisation has read or written.
LockedBy(s) == sync[s].locked \cup DOMAIN sync[s].rows
RowFree(s, e) == \A other \in Syncs \ {s} : e \notin LockedBy(other)

\* The uids whose mapping a synchronisation has written.
Mapped(s) == DOMAIN sync[s].maps

\* Mutant: no unique index on the uids of an import.
NeverTaken(s, u) == FALSE
\* The uid has a mapping, or another is inserting it and is waited for.
Taken(s, u) == mapping[u] # None \/ \E other \in Syncs \ {s} : u \in Mapped(other)

-----------------------------------------------------------------------------
(* trigger_calendar_import.                                                *)

SetSync(s, r) ==
    /\ sync' = [sync EXCEPT ![s] = r]
    /\ UNCHANGED <<feed, imported, mapping, agenda, edits, removal>>

\* The feed is fetched and parsed before the transaction begins.
Fetch(s) ==
    /\ ~Running(s) /\ imported
    /\ SetSync(s, [Rest EXCEPT !.at = "next", !.feed = feed, !.todo = Uids])

\* The event of an entry is locked by another, and is waited for.
WaitRow(s, u) ==
    /\ sync[s].at = "next" /\ u \in sync[s].todo /\ sync[s].seen = None
    /\ mapping[u] # None /\ ~RowFree(s, mapping[u].event)
    /\ SetSync(s, [sync[s] EXCEPT !.uid = u, !.seen = mapping[u]])

\* The mapping of an entry and its event, locked; or none. Only the event is read
\* again after a wait: the mapping is the one first seen.
ReadRow(s, u) ==
    LET r == [sync[s] EXCEPT !.uid = u]
        seen == IF r.seen = None THEN mapping[u] ELSE r.seen
        e == seen.event
    IN
    /\ r.at = "next" /\ u \in r.todo /\ (r.seen # None => sync[s].uid = u)
    /\ \/ (seen # None => ~Present(e)) /\ SetSync(s, [r EXCEPT !.at = "insert"])
       \/ /\ seen # None /\ Present(e) /\ RowFree(s, e)
          /\ SetSync(s, [r EXCEPT !.at = "update", !.locked = @ \cup {e},
                            !.found = [event |-> e, stamp |-> seen.stamp,
                                       rule |-> agenda[e].rule]])

Done(r) ==
    [r EXCEPT !.at = "next", !.todo = @ \ {r.uid}, !.uid = None, !.seen = None, !.found = None]

DropsRule(allDay, rule) == allDay /\ rule = "hourly"

\* The version imported last is passed over; another gives the row the shape
\* of the entry, and may drop its rule.
Update(s) ==
    LET r == sync[s]
        e == r.found.event
        entry == r.feed[r.uid]
        same == entry.stamp # None /\ entry.stamp = r.found.stamp
        row == [allDay |-> entry.allDay, drops |-> DropsRule(entry.allDay, r.found.rule)]
        map == [event |-> e, stamp |-> entry.stamp]
    IN
    /\ r.at = "update"
    /\ \/ same /\ SetSync(s, Done(r))
       \/ /\ ~same /\ RowFree(s, e)
          /\ SetSync(s, [Done(r) EXCEPT !.rows = With(@, e, row), !.maps = With(@, r.uid, map)])

\* A new event and its mapping, which takes the import's row and the uid; a
\* mapping another committed in between is passed over.
Insert(s) ==
    LET r == sync[s]
        entry == r.feed[r.uid]
        used == DOMAIN agenda \cup UNION {DOMAIN sync[o].rows : o \in Syncs}
        new == CHOOSE e \in EventIds : e \notin used
        row == [allDay |-> entry.allDay, drops |-> FALSE]
        map == [event |-> new, stamp |-> entry.stamp]
    IN
    /\ r.at = "insert"
    /\ \/ mapping[r.uid] # None /\ SetSync(s, Done(r))
       \/ /\ imported /\ ~Taken(s, r.uid)
          /\ EventIds # used
          /\ SetSync(s, [Done(r) EXCEPT
                !.rows = With(@, new, row), !.maps = With(@, r.uid, map)])

\* An event as a synchronisation that wrote its row leaves it.
Written(s, e) ==
    LET row == sync[s].rows[e]
        old == agenda[e]
    IN IF e \in DOMAIN agenda
       THEN [old EXCEPT !.allDay = row.allDay, !.rule = IF row.drops THEN "none" ELSE @]
       ELSE [uid |-> CHOOSE u \in Mapped(s) : sync[s].maps[u].event = e,
             allDay |-> row.allDay, rule |-> "none", gone |-> FALSE]

\* Every entry written, the transaction commits.
Commit(s) ==
    /\ sync[s].at = "next" /\ sync[s].todo = {}
    /\ agenda' = [e \in DOMAIN agenda \cup DOMAIN sync[s].rows |->
                    IF e \in DOMAIN sync[s].rows THEN Written(s, e) ELSE agenda[e]]
    /\ mapping' = [u \in Uids |-> IF u \in Mapped(s) /\ (mapping[u] # None \/ imported)
                                 THEN sync[s].maps[u] ELSE mapping[u]]
    /\ sync' = [sync EXCEPT ![s] = Rest]
    /\ UNCHANGED <<feed, imported, edits, removal>>

\* A refused statement, a deadlock the database breaks or a lost connection:
\* nothing of the synchronisation stays.
Fail(s) ==
    /\ Running(s)
    /\ sync' = [sync EXCEPT ![s] = Rest]
    /\ UNCHANGED <<feed, imported, mapping, agenda, edits, removal>>

-----------------------------------------------------------------------------
(* What goes on beside.                                                    *)

\* An entry changes upstream: a new version, or one without a date.
Upstream(u) ==
    /\ edits < MaxEdits
    /\ \E stamp \in {None} \cup {n \in 1..MaxStamp : feed[u].stamp # None /\ n > feed[u].stamp} :
        feed' = [feed EXCEPT ![u] = [stamp |-> stamp, allDay |-> ~@.allDay]]
    /\ edits' = edits + 1
    /\ UNCHANGED <<imported, mapping, agenda, sync, removal>>

\* update_event, from the row read FOR NO KEY UPDATE to its commit: no rule
\* that steps by less than a day on an all-day event.
Patch(e) ==
    /\ Present(e) /\ edits < MaxEdits
    /\ \A s \in Syncs : e \notin LockedBy(s)
    /\ \E rule \in RuleKinds, allDay \in BOOLEAN :
        /\ ~(allDay /\ rule = "hourly")
        /\ agenda' = [agenda EXCEPT ![e].rule = rule, ![e].allDay = allDay]
    /\ edits' = edits + 1
    /\ UNCHANGED <<feed, imported, mapping, sync, removal>>

\* The events deleted, and by cascade their mappings.
Erase(events) ==
    /\ \A s \in Syncs : events \cap LockedBy(s) = {}
    /\ agenda' = [e \in DOMAIN agenda |->
                    IF e \in events THEN [agenda[e] EXCEPT !.gone = TRUE] ELSE agenda[e]]

WithoutMappingTo(events) ==
    [u \in Uids |-> IF mapping[u] # None /\ mapping[u].event \in events THEN None ELSE mapping[u]]

\* delete_event.
DeleteEvent(e) ==
    /\ Present(e) /\ edits < MaxEdits
    /\ Erase({e}) /\ mapping' = WithoutMappingTo({e})
    /\ edits' = edits + 1
    /\ UNCHANGED <<feed, imported, sync, removal>>

\* delete_calendar_import: the events are listed when they go too.
ListEvents ==
    /\ imported /\ removal = None
    /\ \E deleteEvents \in BOOLEAN :
        removal' = IF deleteEvents THEN {mapping[u].event : u \in {v \in Uids : mapping[v] # None}}
                   ELSE {}
    /\ UNCHANGED <<feed, imported, mapping, agenda, edits, sync>>

\* The events listed go, then the import with its mappings, once no
\* synchronisation holds a mapping of it.
Remove ==
    /\ imported /\ removal # None
    /\ \A s \in Syncs : Mapped(s) = {}
    /\ Erase(removal)
    /\ mapping' = [u \in Uids |-> None] /\ imported' = FALSE
    /\ UNCHANGED <<feed, edits, sync, removal>>

-----------------------------------------------------------------------------
SyncStep(s) ==
    \/ Fetch(s) \/ Update(s) \/ Insert(s) \/ Commit(s) \/ Fail(s)
    \/ \E u \in Uids : WaitRow(s, u) \/ ReadRow(s, u)

ImportNext ==
    \/ \E s \in Syncs : SyncStep(s)
    \/ \E u \in Uids : Upstream(u)
    \/ \E e \in EventIds : Patch(e) \/ DeleteEvent(e)
    \/ ListEvents \/ Remove

ImportSpec == ImportInit /\ [][ImportNext]_importVars

-----------------------------------------------------------------------------
(* An entry of the feed never becomes two events, whoever synchronises     *)
(* beside whom: the unique index on the uids of an import                  *)
(* (0010_google_calendar_import.sql:45).                                   *)
EventOnce ==
    \A e, f \in DOMAIN agenda : Present(e) /\ Present(f) /\ agenda[e].uid = agenda[f].uid => e = f

(* No all-day event keeps a rule that steps by less than a day, an edit    *)
(* and a synchronisation crossing each other (imports.rs:368, #372).       *)
RuleFits == \A e \in DOMAIN agenda : Present(e) /\ agenda[e].allDay => agenda[e].rule # "hourly"

(* A synchronisation takes no rule a member wrote, but one that steps by   *)
(* less than a day off an event it turns all-day (imports.rs:726, #372).   *)
RuleKept ==
    [][\A e \in DOMAIN agenda :
        edits' = edits /\ agenda'[e].rule # agenda[e].rule
            => agenda[e].rule = "hourly" /\ agenda'[e].allDay]_importVars
=============================================================================
