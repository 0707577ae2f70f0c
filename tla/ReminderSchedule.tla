-------------------------- MODULE ReminderSchedule --------------------------
(***************************************************************************)
(* Which reminders are scheduled: the rows of scheduled_notifications that *)
(* agenda/reminders.rs and the hourly refill materialise from what an      *)
(* event lists, and what agenda/events.rs does to them when the event      *)
(* changes.  An event's rule, exclusions and bounds are the set of the     *)
(* occurrences it lists; their unroll (agenda/recurrence.rs) is not        *)
(* modelled here.  A reminder of `Offset` is sent at occurrence - Offset.  *)
(*                                                                         *)
(* The handlers that change an event lock its row and are one step.  Two   *)
(* decide on a plain read: create_reminder on the event, the refill on     *)
(* every reminder with its event; their writes are a later step.           *)
(***************************************************************************)
EXTENDS Naturals, FiniteSets

CONSTANTS Events, Reminders,
          NoEvent,
          Window,    \* NOTIFICATION_WINDOW_DAYS
          Offset,    \* offset_minutes, in the unit of the clock: any that is not negative
          Horizon,   \* bound on the clock
          Rules,     \* what an event may list once moved or given another rule
          Mixes      \* the sets of operations a behaviour may exercise

ASSUME DelaysAssumption == /\ Window \in Nat /\ Offset \in Nat /\ Horizon \in Nat
                           /\ Rules \subseteq SUBSET (0..Horizon)

VARIABLES now,
          listed,    \* events: the occurrences each lists
          series,    \* the events with a rule
          event,     \* event_reminders: the event of each reminder
          rows,      \* scheduled_notifications: status by reminder and occurrence
          read,      \* the reads decided on: reminder, event and what it listed
          refilled,  \* the refill has run in this unit of time
          handlers   \* the operations this behaviour exercises

vars == <<now, listed, series, event, rows, read, refilled, handlers>>

Times == 0..Horizon
NoRow == "none"
Existing == {e \in Events : listed[e] # {} \/ e \in series}
Free == {m \in Reminders : event[m] = NoEvent /\ \A d \in read : d.reminder # m}

TypeOK ==
    /\ now \in Nat
    /\ listed \in [Events -> SUBSET Times] /\ series \subseteq Events
    /\ event \in [Reminders -> Events \cup {NoEvent}]
    /\ rows \in [Reminders -> [Times -> {NoRow, "pending", "sent"}]]
    /\ \A m \in Reminders : /\ event[m] \in Existing \cup {NoEvent}
                            /\ event[m] = NoEvent => \A o \in Times : rows[m][o] = NoRow
    /\ read \subseteq [reminder : Reminders, event : Events, listed : SUBSET Times,
                       series : BOOLEAN, new : BOOLEAN]
    /\ refilled \in BOOLEAN /\ handlers \in Mixes

\* One event, a series or not, without reminders yet.
Init ==
    /\ now = 0
    /\ \E e \in Events, L \in SUBSET Times :
          /\ L # {} /\ listed = [f \in Events |-> IF f = e THEN L ELSE {}]
          /\ series \in SUBSET {e}
          /\ e \notin series => Cardinality(L) = 1
    /\ event = [m \in Reminders |-> NoEvent]
    /\ rows = [m \in Reminders |-> [o \in Times |-> NoRow]]
    /\ read = {} /\ refilled = FALSE /\ handlers \in Mixes

-----------------------------------------------------------------------------
(* agenda/reminders.rs *)

\* Mutant: a one-off event is scheduled inside the window only, like a series.
WindowOnly(L, recurring) == {o \in L : now <= o /\ o <= now + Window}

\* reminder_occurrences: a one-off event's start, or the occurrences of a series in
\* [now, now + Window].
reminder_occurrences(L, recurring) ==
    IF recurring THEN {o \in L : now <= o /\ o <= now + Window} ELSE L

\* Mutant: no ON CONFLICT DO NOTHING, the row is written again.
Rewrite(row, O) == [o \in Times |-> IF o \in O THEN "pending" ELSE row[o]]

\* refill_notifications: ON CONFLICT DO NOTHING.
refill_notifications(row, O) ==
    [o \in Times |-> IF o \in O /\ row[o] = NoRow THEN "pending" ELSE row[o]]

\* create_reminder: the event is read...
CreateReminderRead(m, e) ==
    /\ "create_reminder" \in handlers
    /\ e \in Existing /\ m \in Free
    /\ read' = read \cup {[reminder |-> m, event |-> e, listed |-> listed[e],
                           series |-> e \in series, new |-> TRUE]}
    /\ UNCHANGED <<now, listed, series, event, rows, refilled>>

\* ...the reminder inserted and scheduled from that reading.  An event deleted
\* meanwhile fails its foreign key.
CreateReminderWrite(d) ==
    /\ d \in read /\ d.new
    /\ IF d.event \in Existing
       THEN /\ event' = [event EXCEPT ![d.reminder] = d.event]
            /\ rows' = [rows EXCEPT ![d.reminder] =
                          refill_notifications(@, reminder_occurrences(d.listed, d.series))]
       ELSE UNCHANGED <<event, rows>>
    /\ read' = read \ {d}
    /\ UNCHANGED <<now, listed, series, refilled>>

\* The reminders and the rows they scheduled go together.
WithoutReminders(M) ==
    /\ event' = [m \in Reminders |-> IF m \in M THEN NoEvent ELSE event[m]]
    /\ rows' = [m \in Reminders |-> IF m \in M THEN [o \in Times |-> NoRow] ELSE rows[m]]

delete_reminder(m) ==
    /\ "delete_reminder" \in handlers /\ event[m] # NoEvent
    /\ WithoutReminders({m})
    /\ UNCHANGED <<now, listed, series, read, refilled>>

-----------------------------------------------------------------------------
(* jobs/scheduled_notifications.rs: the refill, and the sending as ReminderSend *)
(* promises it.                                                                 *)

\* refill_recurring_reminders reads every reminder of a series with its event...
RefillRead ==
    /\ "refill" \in handlers /\ ~refilled
    /\ \A d \in read : d.new
    /\ read' = read \cup {[reminder |-> m, event |-> event[m], listed |-> listed[event[m]],
                           series |-> TRUE, new |-> FALSE] :
                          m \in {n \in Reminders : event[n] \in series}}
    /\ refilled' = TRUE
    /\ UNCHANGED <<now, listed, series, event, rows>>

\* ...then schedules each in a transaction of its own, which fails on its foreign
\* keys once the reminder is deleted.
RefillWrite(d) ==
    /\ d \in read /\ ~d.new
    /\ IF event[d.reminder] = d.event
       THEN rows' = [rows EXCEPT ![d.reminder] =
                       refill_notifications(@, reminder_occurrences(d.listed, d.series))]
       ELSE UNCHANGED rows
    /\ read' = read \ {d}
    /\ UNCHANGED <<now, listed, series, event, refilled>>

Send(m, o) ==
    /\ rows[m][o] = "pending" /\ o <= now + Offset
    /\ rows' = [rows EXCEPT ![m][o] = "sent"]
    /\ UNCHANGED <<now, listed, series, event, read, refilled>>

\* A unit of time, longer than the hour between two refills, which take much less.
Tick ==
    /\ now < Horizon /\ now' = now + 1
    /\ "refill" \in handlers => refilled /\ \A d \in read : d.new
    /\ refilled' = FALSE
    /\ UNCHANGED <<listed, series, event, rows, read>>

-----------------------------------------------------------------------------
(* agenda/events.rs *)

\* The rows still pending for the occurrences that leave are deleted.
LeaveSeries(row, gone) == [o \in Times |-> IF o \in gone /\ row[o] = "pending" THEN NoRow ELSE row[o]]

\* split_series: the occurrences `gone` leave series e for a new event f which
\* lists L; the reminders of e are copied to f, copy[m] being the copy of m, and
\* scheduled at once.
split_series(e, gone, f, L, recurring, copy) ==
    LET copied == {m \in Reminders : event[m] = e}
        copies == {copy[m] : m \in copied}
        scheduled == reminder_occurrences(L, recurring)
    IN  /\ "update_event" \in handlers
        /\ e \in series /\ f \notin Existing /\ \A d \in read : d.event # f
        /\ L # {}
        /\ copies \subseteq Free
        /\ \A m, n \in copied : m # n => copy[m] # copy[n]
        /\ listed' = [listed EXCEPT ![e] = @ \ gone, ![f] = L]
        /\ series' = IF recurring THEN series \cup {f} ELSE series
        /\ event' = [m \in Reminders |-> IF m \in copies THEN f ELSE event[m]]
        /\ rows' = [m \in Reminders |->
                      CASE m \in copied -> LeaveSeries(rows[m], gone)
                        [] m \in copies -> refill_notifications(rows[m], scheduled)
                        [] OTHER -> rows[m]]
        /\ UNCHANGED <<now, read, refilled>>

\* Scope `this`: one occurrence becomes an event of its own, moved or not.
SplitThis(e, o, f, o2, copy) == split_series(e, {o}, f, {o2}, FALSE, copy)

\* Scope `this_and_following`, from an occurrence that is not the first: whatever
\* comes from there on goes. The new event continues the rule, shifted or not, or
\* has the rule it is given, or none.
SplitFollowing(e, o, f, copy) ==
    /\ \E b \in listed[e] : b < o
    /\ \E start \in {o, o + 1} \cap Times :
        LET continued == {b + (start - o) : b \in {c \in listed[e] : c >= o}} \cap Times
            given(R) == {start} \cup {b \in R : b > start}
            split(L, recurring) == split_series(e, {b \in Times : b >= o}, f, L, recurring, copy)
        IN  split({start}, FALSE) \/ \E L \in {continued} \cup {given(R) : R \in Rules} : split(L, TRUE)

\* Scope `all`: the row is updated, with other bounds or another rule, and nothing
\* is done to its rows.
UpdateAll(e, L, recurring) ==
    /\ "update_all" \in handlers
    /\ e \in Existing /\ L # {} /\ (~recurring => Cardinality(L) = 1)
    /\ listed' = [listed EXCEPT ![e] = L]
    /\ series' = IF recurring THEN series \cup {e} ELSE series \ {e}
    /\ UNCHANGED <<now, event, rows, read, refilled>>

delete_event(e) ==
    /\ "delete_event" \in handlers /\ e \in Existing
    /\ listed' = [listed EXCEPT ![e] = {}] /\ series' = series \ {e}
    /\ WithoutReminders({m \in Reminders : event[m] = e})
    /\ UNCHANGED <<now, read, refilled>>

-----------------------------------------------------------------------------
Edit(e, f) ==
    \E copy \in [Reminders -> Reminders], o \in listed[e] :
        \/ \E o2 \in Times : SplitThis(e, o, f, o2, copy)
        \/ SplitFollowing(e, o, f, copy)

Next ==
    /\ \/ Tick \/ RefillRead
       \/ \E m \in Reminders : \/ delete_reminder(m)
                               \/ \E e \in Events : CreateReminderRead(m, e)
                               \/ \E o \in Times : Send(m, o)
       \/ \E d \in read : CreateReminderWrite(d) \/ RefillWrite(d)
       \/ \E e \in Events : \/ delete_event(e)
                            \/ \E L \in Rules, recurring \in BOOLEAN : UpdateAll(e, L, recurring)
                            \/ \E f \in Events \ {e} : Edit(e, f)
    /\ UNCHANGED handlers

Spec == Init /\ [][Next]_vars

-----------------------------------------------------------------------------
(* Properties. *)

\* A reminder is sent for an occurrence once: a row sent never becomes pending
\* again, whatever refills and edits find it (refill_notifications, LeaveSeries).
SentStaysSent ==
    [][\A m \in Reminders, o \in Times :
          rows[m][o] = "sent" => rows'[m][o] = "sent" \/ event'[m] = NoEvent]_vars

\* Nobody misses a reminder: an occurrence of an event with a reminder has its row,
\* at once if the event is a one-off, a window ahead if it is a series, through
\* refills and splits; so a reminder whose offset is shorter than the window has it
\* by the time it should be sent. Only occurrences already past when the reminder is
\* set may have none.  An event changed as a whole is another matter: nothing is
\* done to its rows.
NoneForgotten ==
    "update_all" \notin handlers => \A m \in Reminders, o \in Times :
        (/\ event[m] # NoEvent /\ o \in listed[event[m]] /\ now <= o
         /\ event[m] \in series => o < now + Window)
        => rows[m][o] # NoRow

\* reminders.rs: "a reminder is scheduled on the occurrences the agenda lists and
\* on no other".
OnNoOther ==
    \A m \in Reminders, o \in Times :
        rows[m][o] = "pending" => o \in listed[event[m]]
=============================================================================
