---------------------------- MODULE Agenda_proofs ----------------------------
(* That a reminder sent is never scheduled again, and that nobody misses one, *)
(* in ReminderSchedule, for every set of events and reminders and whatever    *)
(* reads, refills and edits interleave; then that an entry of a feed is one   *)
(* event and keeps its rule, in CalendarImport, for every number of           *)
(* synchronisations and entries.                                              *)
EXTENDS ReminderSchedule, CalendarImport, TLAPS

\* The refill is a job that always runs; what it does not make good is what an event
\* changed as a whole leaves.
InstanceAssumption ==
    NoEvent \notin Events /\ \A H \in Mixes : "refill" \in H \/ "update_all" \in H

Reading == [reminder : Reminders, event : Events, listed : SUBSET Times,
            series : BOOLEAN, new : BOOLEAN]
Status == {NoRow, "pending", "sent"}
NoRows == [o \in Times |-> NoRow]

\* A one-off event has a row for all it lists.
OneOffsScheduled ==
    \A m \in Reminders, o \in Times :
        event[m] # NoEvent /\ event[m] \notin series /\ o \in listed[event[m]] => rows[m][o] # NoRow

\* A row for all that is listed from now until t.
ScheduledUntil(m, t) ==
    \A o \in Times : o \in listed[event[m]] /\ now <= o /\ o <= t => rows[m][o] # NoRow

InTime == \A m \in Reminders : event[m] \in series => ScheduledUntil(m, now + Window - 1)

\* Once the refill has run, a series has its rows for a whole window, or the refill
\* has it still to write.
ToWrite(m) == \E d \in read : ~d.new /\ d.reminder = m /\ d.event = event[m]
Refilled ==
    refilled => \A m \in Reminders : event[m] \in series => ScheduledUntil(m, now + Window) \/ ToWrite(m)

\* What was read of an event that is still there covers what it lists: no edit but one
\* of the whole adds to it.
ReadsCover ==
    \A d \in read : d.event \in Existing => /\ listed[d.event] \subseteq d.listed
                                            /\ d.series <=> d.event \in series

Coverage == OneOffsScheduled /\ InTime /\ Refilled /\ ReadsCover
IInv == TypeOK /\ ("update_all" \notin handlers => Coverage)

-----------------------------------------------------------------------------
(* What the writes do to the rows of a reminder.                              *)

LEMMA RefillRows ==
    ASSUME NEW row \in [Times -> Status], NEW O
    PROVE  /\ refill_notifications(row, O) \in [Times -> Status]
           /\ \A o \in Times : /\ o \in O => refill_notifications(row, O)[o] # NoRow
                               /\ row[o] # NoRow => refill_notifications(row, O)[o] = row[o]
BY DEF refill_notifications, Status, NoRow

LEMMA LeaveRows ==
    ASSUME NEW row \in [Times -> Status], NEW gone
    PROVE  /\ LeaveSeries(row, gone) \in [Times -> Status]
           /\ \A o \in Times : /\ o \notin gone => LeaveSeries(row, gone)[o] = row[o]
                               /\ row[o] = "sent" => LeaveSeries(row, gone)[o] = "sent"
BY DEF LeaveSeries, Status, NoRow

\* A split, whatever its scope, in one statement.
Split(e, f) ==
    \E gone \in SUBSET Times, L \in SUBSET Times, recurring \in BOOLEAN,
       copy \in [Reminders -> Reminders] : split_series(e, gone, f, L, recurring, copy)

LEMMA EditSplits ==
    ASSUME TypeOK, DelaysAssumption, NEW e \in Events, NEW f \in Events, Edit(e, f)
    PROVE  Split(e, f)
<1>0. listed[e] \subseteq Times
  BY DEF TypeOK
<1>1. PICK copy \in [Reminders -> Reminders], o \in listed[e] :
        \/ \E o2 \in Times : SplitThis(e, o, f, o2, copy)
        \/ SplitFollowing(e, o, f, copy)
  BY DEF Edit
<1>2. CASE \E o2 \in Times : SplitThis(e, o, f, o2, copy)
  <2>1. PICK o2 \in Times : split_series(e, {o}, f, {o2}, FALSE, copy)
    BY <1>2 DEF SplitThis
  <2>2. {o} \in SUBSET Times /\ {o2} \in SUBSET Times
    BY <1>0
  <2> QED
    BY <2>1, <2>2 DEF Split
<1>3. CASE SplitFollowing(e, o, f, copy)
  <2> DEFINE gone == {b \in Times : b >= o}
             continued(start) == {b + (start - o) : b \in {c \in listed[e] : c >= o}} \cap Times
             given(start, R) == {start} \cup {b \in R : b > start}
  <2>1. PICK start \in Times :
           \/ split_series(e, gone, f, {start}, FALSE, copy)
           \/ \E L \in {continued(start)} \cup {given(start, R) : R \in Rules} :
                 split_series(e, gone, f, L, TRUE, copy)
    BY <1>3 DEF SplitFollowing
  <2>2. {start} \in SUBSET Times /\ gone \in SUBSET Times
    BY <2>1
  <2>3. \A L \in {continued(start)} \cup {given(start, R) : R \in Rules} : L \in SUBSET Times
    <3>1. \A R \in Rules : R \subseteq Times
      BY DelaysAssumption DEF DelaysAssumption, Times
    <3>2. \A R \in Rules : given(start, R) \subseteq Times
      BY <2>1, <3>1
    <3>3. continued(start) \subseteq Times
      OBVIOUS
    <3> HIDE DEF given, continued
    <3> QED
      BY <3>2, <3>3
  <2> HIDE DEF gone, continued, given
  <2> QED
    BY <2>1, <2>2, <2>3 DEF Split
<1> QED
  BY <1>1, <1>2, <1>3

\* What a split does, each effect by itself.
Effects(e, f, gone, L, recurring) ==
    /\ e \in series /\ f \notin Existing /\ f \notin series /\ \A d \in read : d.event # f
    /\ L # {}
    /\ listed' \in [Events -> SUBSET Times] /\ listed'[e] = listed[e] \ gone /\ listed'[f] = L
    /\ \A g \in Events \ {e, f} : listed'[g] = listed[g]
    /\ series' = IF recurring THEN series \cup {f} ELSE series
    /\ \A m \in Reminders :
          \/ /\ event'[m] = f /\ event[m] = NoEvent
             /\ rows'[m] = refill_notifications(rows[m], reminder_occurrences(L, recurring))
          \/ event'[m] = event[m] /\ event[m] = e /\ rows'[m] = LeaveSeries(rows[m], gone)
          \/ event'[m] = event[m] /\ event[m] # e /\ rows'[m] = rows[m]
    /\ event' \in [Reminders -> Events \cup {NoEvent}] /\ rows' = [m \in Reminders |-> rows'[m]]
    /\ UNCHANGED <<now, read, refilled>>

LEMMA SplitEffects ==
    ASSUME TypeOK, NEW e \in Events, NEW f \in Events \ {e}, NEW gone \in SUBSET Times,
           NEW L \in SUBSET Times, NEW recurring \in BOOLEAN, NEW copy \in [Reminders -> Reminders],
           split_series(e, gone, f, L, recurring, copy), NoEvent \notin Events
    PROVE  Effects(e, f, gone, L, recurring)
<1> DEFINE copied == {m \in Reminders : event[m] = e}
           copies == {copy[m] : m \in copied}
<1>1. /\ e \in series /\ f \notin Existing /\ \A d \in read : d.event # f
      /\ L # {} /\ copies \subseteq Free
      /\ listed' = [listed EXCEPT ![e] = @ \ gone, ![f] = L]
      /\ series' = IF recurring THEN series \cup {f} ELSE series
      /\ event' = [m \in Reminders |-> IF m \in copies THEN f ELSE event[m]]
      /\ rows' = [m \in Reminders |->
                      CASE m \in copied -> LeaveSeries(rows[m], gone)
                        [] m \in copies -> refill_notifications(rows[m], reminder_occurrences(L, recurring))
                        [] OTHER -> rows[m]]
      /\ UNCHANGED <<now, read, refilled>>
  BY DEF split_series
<1>2. copied \cap copies = {} /\ \A m \in copies : event[m] = NoEvent
  BY <1>1 DEF Free
<1>3. event' \in [Reminders -> Events \cup {NoEvent}]
  BY <1>1 DEF TypeOK
<1>4. listed' \in [Events -> SUBSET Times] /\ listed'[e] = listed[e] \ gone /\ listed'[f] = L
      /\ \A g \in Events \ {e, f} : listed'[g] = listed[g]
  BY <1>1 DEF TypeOK
<1>5. f \notin series
  BY <1>1 DEF Existing
<1>6. ASSUME NEW m \in Reminders
      PROVE  \/ event'[m] = f /\ rows'[m] = refill_notifications(rows[m], reminder_occurrences(L, recurring)) /\ event[m] = NoEvent
             \/ event'[m] = event[m] /\ event[m] = e /\ rows'[m] = LeaveSeries(rows[m], gone)
             \/ event'[m] = event[m] /\ event[m] # e /\ rows'[m] = rows[m]
  <2> HIDE DEF copies
  <2>1. CASE m \in copied
    BY <1>1, <1>2, <2>1
  <2>2. CASE m \in copies
    BY <1>1, <1>2, <2>2
  <2>3. CASE m \notin copied /\ m \notin copies
    BY <1>1, <1>2, <2>3
  <2> QED
    BY <2>1, <2>2, <2>3
<1>7. rows' = [m \in Reminders |-> rows'[m]]
  BY <1>1
<1> QED
  BY <1>1, <1>3, <1>4, <1>5, <1>6, <1>7 DEF Effects

LEMMA EditEffects ==
    ASSUME TypeOK, DelaysAssumption, InstanceAssumption,
           NEW e \in Events, NEW f \in Events \ {e}, Edit(e, f)
    PROVE  \E gone \in SUBSET Times, L \in SUBSET Times, recurring \in BOOLEAN :
              Effects(e, f, gone, L, recurring)
<1>1. PICK gone \in SUBSET Times, L \in SUBSET Times, recurring \in BOOLEAN,
           copy \in [Reminders -> Reminders] : split_series(e, gone, f, L, recurring, copy)
  BY EditSplits DEF Split
<1>2. NoEvent \notin Events
  BY DEF InstanceAssumption
<1>3. Effects(e, f, gone, L, recurring)
  BY <1>1, <1>2, SplitEffects
<1> QED
  BY <1>3

-----------------------------------------------------------------------------
(* Type correctness.                                                          *)

LEMMA TypeStep ==
    ASSUME DelaysAssumption, InstanceAssumption, TypeOK, [Next]_vars
    PROVE  TypeOK'
<1> USE DEF TypeOK, Status
<1>0. NoEvent \notin Events
  BY DEF InstanceAssumption
<1>1. CASE UNCHANGED vars
  BY <1>1 DEF vars, Existing
<1>2. ASSUME Next PROVE TypeOK'
  <2>0. handlers' = handlers
    BY <1>2 DEF Next
  <2>1. CASE Tick
    <3>1. now' = now + 1 /\ refilled' = FALSE /\ UNCHANGED <<listed, series, event, rows, read>>
      BY <2>1 DEF Tick
    <3>2. now' \in Nat
      BY <3>1
    <3>4. refilled' \in BOOLEAN
      BY <3>1, Zenon
    <3>3. Existing' = Existing
      BY <3>1 DEF Existing
    <3> HIDE DEF Existing
    <3> QED
      BY <2>0, <3>1, <3>2, <3>3, <3>4, Zenon
  <2>2. CASE RefillRead
    <3>1. /\ read' = read \cup {[reminder |-> m, event |-> event[m], listed |-> listed[event[m]],
                                 series |-> TRUE, new |-> FALSE] :
                                m \in {n \in Reminders : event[n] \in series}}
          /\ refilled' = TRUE /\ UNCHANGED <<now, listed, series, event, rows>>
      BY <2>2 DEF RefillRead
    <3>2. \A m \in Reminders : event[m] \in series =>
             [reminder |-> m, event |-> event[m], listed |-> listed[event[m]],
              series |-> TRUE, new |-> FALSE] \in Reading
      BY DEF Reading
    <3>3. read' \subseteq Reading
      BY <3>1, <3>2 DEF Reading
    <3> QED
      BY <2>0, <3>1, <3>3 DEF Existing, Reading
  <2>3. ASSUME NEW m \in Reminders, delete_reminder(m) PROVE TypeOK'
    BY <2>0, <2>3 DEF delete_reminder, WithoutReminders, Existing
  <2>4. ASSUME NEW m \in Reminders, NEW e \in Events, CreateReminderRead(m, e) PROVE TypeOK'
    <3>1. [reminder |-> m, event |-> e, listed |-> listed[e], series |-> e \in series,
           new |-> TRUE] \in Reading
      BY DEF Reading
    <3> QED
      BY <2>0, <2>4, <3>1 DEF CreateReminderRead, Existing, Reading
  <2>5. ASSUME NEW m \in Reminders, NEW o \in Times, Send(m, o) PROVE TypeOK'
    <3>1. rows[m][o] = "pending" /\ rows' = [rows EXCEPT ![m][o] = "sent"]
          /\ UNCHANGED <<now, listed, series, event, read, refilled>>
      BY <2>5 DEF Send
    <3>2. event[m] # NoEvent
      BY <3>1 DEF NoRow
    <3>3. rows' \in [Reminders -> [Times -> Status]]
          /\ \A n \in Reminders \ {m} : rows'[n] = rows[n]
      BY <3>1
    <3> QED
      BY <2>0, <3>1, <3>2, <3>3 DEF Existing
  <2>6. ASSUME NEW d \in read, CreateReminderWrite(d) PROVE TypeOK'
    <3>1. CASE d.event \in Existing
      <4> DEFINE row == refill_notifications(rows[d.reminder], reminder_occurrences(d.listed, d.series))
      <4>1. event' = [event EXCEPT ![d.reminder] = d.event] /\ rows' = [rows EXCEPT ![d.reminder] = row]
            /\ read' \subseteq read /\ UNCHANGED <<now, listed, series, refilled>>
        BY <2>6, <3>1 DEF CreateReminderWrite
      <4>2. d.reminder \in Reminders /\ d.event \in Events /\ d.event # NoEvent
        BY <1>0
      <4>3. row \in [Times -> Status]
        BY <4>2, RefillRows
      <4> HIDE DEF row
      <4>4. rows' \in [Reminders -> [Times -> Status]]
        BY <4>1, <4>2, <4>3
      <4>5. event' \in [Reminders -> Events \cup {NoEvent}]
        BY <4>1, <4>2
      <4>6. \A n \in Reminders : /\ event'[n] \in Existing \cup {NoEvent}
                                 /\ event'[n] = NoEvent => \A o \in Times : rows'[n][o] = NoRow
        BY <4>1, <4>2, <3>1
      <4> QED
        BY <2>0, <4>1, <4>4, <4>5, <4>6 DEF Existing
    <3>2. CASE d.event \notin Existing
      BY <2>0, <2>6, <3>2 DEF CreateReminderWrite, Existing
    <3> QED
      BY <3>1, <3>2
  <2>7. ASSUME NEW d \in read, RefillWrite(d) PROVE TypeOK'
    <3>1. CASE event[d.reminder] = d.event
      <4> DEFINE row == refill_notifications(rows[d.reminder], reminder_occurrences(d.listed, d.series))
      <4>1. rows' = [rows EXCEPT ![d.reminder] = row]
            /\ read' \subseteq read /\ UNCHANGED <<now, listed, series, event, refilled>>
        BY <2>7, <3>1 DEF RefillWrite
      <4>2. d.reminder \in Reminders /\ d.event \in Events /\ event[d.reminder] # NoEvent
        BY <1>0, <3>1
      <4>3. row \in [Times -> Status]
        BY <4>2, RefillRows
      <4> HIDE DEF row
      <4>4. rows' \in [Reminders -> [Times -> Status]]
        BY <4>1, <4>2, <4>3
      <4>5. \A n \in Reminders : event[n] = NoEvent => \A o \in Times : rows'[n][o] = NoRow
        BY <4>1, <4>2
      <4> QED
        BY <2>0, <4>1, <4>4, <4>5 DEF Existing
    <3>2. CASE event[d.reminder] # d.event
      BY <2>0, <2>7, <3>2 DEF RefillWrite, Existing
    <3> QED
      BY <3>1, <3>2
  <2>8. ASSUME NEW e \in Events, delete_event(e) PROVE TypeOK'
    BY <2>0, <2>8 DEF delete_event, WithoutReminders, Existing
  <2>9. ASSUME NEW e \in Events, NEW L \in Rules, NEW recurring \in BOOLEAN,
               UpdateAll(e, L, recurring)
        PROVE TypeOK'
    <3>1. L \in SUBSET Times
      BY DelaysAssumption DEF DelaysAssumption, Times
    <3>2. /\ L # {} /\ listed' = [listed EXCEPT ![e] = L]
          /\ series' = (IF recurring THEN series \cup {e} ELSE series \ {e})
          /\ UNCHANGED <<now, event, rows, read, refilled>>
      BY <2>9 DEF UpdateAll
    <3>3. \A g \in Existing : g \in Events /\ (listed'[g] # {} \/ g \in series')
      BY <3>2 DEF Existing
    <3> QED
      BY <2>0, <3>1, <3>2, <3>3 DEF Existing
  <2>10. ASSUME NEW e \in Events, NEW f \in Events \ {e}, Edit(e, f) PROVE TypeOK'
    <3>1. PICK gone \in SUBSET Times, L \in SUBSET Times, recurring \in BOOLEAN :
             Effects(e, f, gone, L, recurring)
      BY <2>10, EditEffects
    <3>2. /\ e \in series /\ L # {}
          /\ listed' \in [Events -> SUBSET Times] /\ listed'[e] = listed[e] \ gone /\ listed'[f] = L
          /\ \A g \in Events \ {e, f} : listed'[g] = listed[g]
          /\ series' = IF recurring THEN series \cup {f} ELSE series
          /\ \A m \in Reminders :
                \/ event'[m] = f /\ rows'[m] = refill_notifications(rows[m], reminder_occurrences(L, recurring))
                   /\ event[m] = NoEvent
                \/ event'[m] = event[m] /\ event[m] = e /\ rows'[m] = LeaveSeries(rows[m], gone)
                \/ event'[m] = event[m] /\ event[m] # e /\ rows'[m] = rows[m]
          /\ event' \in [Reminders -> Events \cup {NoEvent}] /\ rows' = [m \in Reminders |-> rows'[m]]
          /\ UNCHANGED <<now, read, refilled>>
      BY <3>1 DEF Effects
    <3>3. \A m \in Reminders : rows'[m] \in [Times -> Status]
      BY <3>2, RefillRows, LeaveRows
    <3>4. rows' \in [Reminders -> [Times -> Status]]
      BY <3>2, <3>3
    <3>5. \A g \in Existing \cup {f} : g \in Events /\ (listed'[g] # {} \/ g \in series')
      BY <3>2 DEF Existing
    <3>6. \A m \in Reminders : /\ event'[m] \in Existing' \cup {NoEvent}
                               /\ event'[m] = NoEvent => \A o \in Times : rows'[m][o] = NoRow
      BY <3>2, <3>5, <1>0 DEF Existing
    <3> QED
      BY <2>0, <3>2, <3>4, <3>6
  <2> QED
    BY <1>2, <2>1, <2>2, <2>3, <2>4, <2>5, <2>6, <2>7, <2>8, <2>9, <2>10 DEF Next
<1> QED
  BY <1>1, <1>2

-----------------------------------------------------------------------------
(* Nothing sent is scheduled again.                                           *)

LEMMA SentStep ==
    ASSUME InstanceAssumption, DelaysAssumption, TypeOK, [Next]_vars,
           NEW m \in Reminders, NEW o \in Times, rows[m][o] = "sent"
    PROVE  rows'[m][o] = "sent" \/ event'[m] = NoEvent
<1>0. NoEvent \notin Events /\ rows \in [Reminders -> [Times -> Status]]
      /\ read \subseteq Reading /\ event \in [Reminders -> Events \cup {NoEvent}]
  BY DEF InstanceAssumption, TypeOK, Reading, Status
<1>1. CASE UNCHANGED vars
  BY <1>1 DEF vars
<1>2. CASE Tick \/ RefillRead
  BY <1>2 DEF Tick, RefillRead
<1>3. ASSUME NEW n \in Reminders, delete_reminder(n) PROVE rows'[m][o] = "sent" \/ event'[m] = NoEvent
  BY <1>3 DEF delete_reminder, WithoutReminders
<1>4. ASSUME NEW n \in Reminders, NEW e \in Events, CreateReminderRead(n, e) PROVE rows'[m][o] = "sent"
  BY <1>4 DEF CreateReminderRead
<1>5. ASSUME NEW n \in Reminders, NEW u \in Times, Send(n, u) PROVE rows'[m][o] = "sent"
  BY <1>0, <1>5 DEF Send
<1>6. ASSUME NEW d \in read, CreateReminderWrite(d) \/ RefillWrite(d) PROVE rows'[m][o] = "sent"
  <2> DEFINE row == refill_notifications(rows[d.reminder], reminder_occurrences(d.listed, d.series))
  <2>1. rows' = [rows EXCEPT ![d.reminder] = row] \/ rows' = rows
    BY <1>6 DEF CreateReminderWrite, RefillWrite
  <2>2. d.reminder = m => row[o] = "sent"
    BY <1>0, RefillRows DEF NoRow
  <2> HIDE DEF row
  <2> QED
    BY <1>0, <2>1, <2>2
<1>7. ASSUME NEW e \in Events, delete_event(e) PROVE rows'[m][o] = "sent" \/ event'[m] = NoEvent
  BY <1>7 DEF delete_event, WithoutReminders
<1>8. ASSUME NEW e \in Events, NEW L \in Rules, NEW recurring \in BOOLEAN, UpdateAll(e, L, recurring)
      PROVE rows'[m][o] = "sent"
  BY <1>8 DEF UpdateAll
<1>9. ASSUME NEW e \in Events, NEW f \in Events \ {e}, Edit(e, f) PROVE rows'[m][o] = "sent"
  <2>1. PICK gone \in SUBSET Times, L \in SUBSET Times, recurring \in BOOLEAN :
           Effects(e, f, gone, L, recurring)
    BY <1>9, EditEffects
  <2>2. \/ rows'[m] = refill_notifications(rows[m], reminder_occurrences(L, recurring))
        \/ rows'[m] = LeaveSeries(rows[m], gone)
        \/ rows'[m] = rows[m]
    BY <2>1 DEF Effects
  <2> QED
    BY <1>0, <2>2, RefillRows, LeaveRows DEF NoRow
<1> QED
  BY <1>1, <1>2, <1>3, <1>4, <1>5, <1>6, <1>7, <1>8, <1>9 DEF Next

-----------------------------------------------------------------------------
(* Nobody is forgotten.                                                       *)

\* A step that moves no event and no reminder, and takes no row away.
LEMMA RowsOnlyAdded ==
    ASSUME UNCHANGED <<now, listed, series, event, refilled>>, Coverage,
           \A m \in Reminders, o \in Times : rows[m][o] # NoRow => rows'[m][o] # NoRow,
           listed \in [Events -> SUBSET Times], event \in [Reminders -> Events \cup {NoEvent}],
           NoEvent \notin Events, series \subseteq Events
    PROVE  OneOffsScheduled' /\ InTime'
<1>1. OneOffsScheduled'
  BY DEF Coverage, OneOffsScheduled
<1>2. InTime'
  BY DEF Coverage, InTime, ScheduledUntil
<1> QED
  BY <1>1, <1>2

LEMMA CoverageStep ==
    ASSUME DelaysAssumption, InstanceAssumption, TypeOK, Coverage, "update_all" \notin handlers, Next
    PROVE  Coverage'
<1>0. /\ NoEvent \notin Events /\ now \in Nat /\ Window \in Nat
      /\ Horizon \in Nat
      /\ listed \in [Events -> SUBSET Times] /\ series \subseteq Events
      /\ event \in [Reminders -> Events \cup {NoEvent}] /\ rows \in [Reminders -> [Times -> Status]]
      /\ read \subseteq Reading /\ "refill" \in handlers
      /\ \A m \in Reminders : event[m] \in Existing \cup {NoEvent}
      /\ Existing \subseteq Events /\ series \subseteq Existing
  BY DEF InstanceAssumption, DelaysAssumption, TypeOK, Status, Reading, Existing
<1>t. Times \subseteq Nat
  BY <1>0 DEF Times
<1>c. OneOffsScheduled /\ InTime /\ Refilled /\ ReadsCover
  BY DEF Coverage
<1>1. CASE Tick
  <2>1. /\ now' = now + 1 /\ refilled /\ refilled' = FALSE /\ (\A d \in read : d.new)
        /\ UNCHANGED <<listed, series, event, rows, read>>
    BY <1>0, <1>1 DEF Tick
  <2>2. OneOffsScheduled'
    BY <1>c, <2>1 DEF OneOffsScheduled
  <2>3. InTime'
    <3> SUFFICES ASSUME NEW m \in Reminders, event[m] \in series, NEW o \in Times, o \in listed[event[m]],
                        now + 1 <= o, o <= now + 1 + Window - 1
                 PROVE  rows[m][o] # NoRow
      BY <2>1 DEF InTime, ScheduledUntil
    <3>1. ScheduledUntil(m, now + Window)
      BY <1>c, <2>1 DEF Refilled, ToWrite
    <3>2. o \in Nat /\ now <= o /\ o <= now + Window
      BY <1>0, <1>t
    <3> QED
      BY <3>1, <3>2 DEF ScheduledUntil
  <2>4. Refilled'
    BY <2>1 DEF Refilled
  <2>5. ReadsCover'
    BY <1>c, <2>1 DEF ReadsCover, Existing
  <2> QED
    BY <2>2, <2>3, <2>4, <2>5 DEF Coverage
<1>2. CASE RefillRead
  <2> DEFINE D(m) == [reminder |-> m, event |-> event[m], listed |-> listed[event[m]],
                      series |-> TRUE, new |-> FALSE]
  <2>1. /\ read' = read \cup {D(m) : m \in {n \in Reminders : event[n] \in series}}
        /\ refilled' = TRUE /\ UNCHANGED <<now, listed, series, event, rows>>
    BY <1>2 DEF RefillRead
  <2>2. OneOffsScheduled' /\ InTime'
    BY <1>c, <2>1 DEF OneOffsScheduled, InTime, ScheduledUntil
  <2>3. Refilled'
    <3>1. ASSUME NEW m \in Reminders, event[m] \in series PROVE ToWrite(m)'
      <4>1. D(m) \in read' /\ ~D(m).new /\ D(m).reminder = m /\ D(m).event = event'[m]
        BY <2>1, <3>1
      <4> HIDE DEF D
      <4> QED
        BY <4>1 DEF ToWrite
    <3> QED
      BY <2>1, <3>1 DEF Refilled
  <2>4. ReadsCover'
    <3>1. Existing' = Existing
      BY <2>1 DEF Existing
    <3>2. ASSUME NEW m \in Reminders, event[m] \in series
          PROVE listed[D(m).event] \subseteq D(m).listed /\ (D(m).series <=> D(m).event \in series)
      BY <3>2
    <3> HIDE DEF D
    <3> QED
      BY <1>c, <2>1, <3>1, <3>2 DEF ReadsCover
  <2> QED
    BY <2>2, <2>3, <2>4 DEF Coverage
<1>3. ASSUME NEW n \in Reminders, delete_reminder(n) PROVE Coverage'
  <2>1. /\ event' = [m \in Reminders |-> IF m \in {n} THEN NoEvent ELSE event[m]]
        /\ rows' = [m \in Reminders |-> IF m \in {n} THEN NoRows ELSE rows[m]]
        /\ UNCHANGED <<now, listed, series, read, refilled>>
    BY <1>3 DEF delete_reminder, WithoutReminders, NoRows
  <2>2. \A m \in Reminders : event'[m] # NoEvent => event'[m] = event[m] /\ rows'[m] = rows[m]
    BY <2>1
  <2>3. OneOffsScheduled' /\ InTime'
    <3>1. \A m \in Reminders : event'[m] \in series => event'[m] # NoEvent
      BY <1>0
    <3> QED
      BY <1>c, <2>1, <2>2, <3>1 DEF OneOffsScheduled, InTime, ScheduledUntil
  <2>4. Refilled'
    <3> SUFFICES ASSUME refilled, NEW m \in Reminders, event'[m] \in series
                 PROVE  (ScheduledUntil(m, now + Window) \/ ToWrite(m))'
      BY <2>1 DEF Refilled
    <3>1. event'[m] = event[m] /\ rows'[m] = rows[m]
      BY <1>0, <2>2
    <3>2. ScheduledUntil(m, now + Window) \/ ToWrite(m)
      BY <1>c, <3>1 DEF Refilled
    <3> QED
      BY <2>1, <3>1, <3>2 DEF ScheduledUntil, ToWrite
  <2>5. ReadsCover'
    BY <1>c, <2>1 DEF ReadsCover, Existing
  <2> QED
    BY <2>3, <2>4, <2>5 DEF Coverage
<1>4. ASSUME NEW n \in Reminders, NEW e \in Events, CreateReminderRead(n, e) PROVE Coverage'
  <2> DEFINE D == [reminder |-> n, event |-> e, listed |-> listed[e], series |-> e \in series, new |-> TRUE]
  <2>1. read' = read \cup {D} /\ UNCHANGED <<now, listed, series, event, rows, refilled>>
    BY <1>4 DEF CreateReminderRead
  <2>2. OneOffsScheduled' /\ InTime'
    BY <1>c, <2>1 DEF OneOffsScheduled, InTime, ScheduledUntil
  <2>3. Refilled'
    <3> HIDE DEF D
    <3> SUFFICES ASSUME refilled, NEW m \in Reminders, event[m] \in series
                 PROVE  (ScheduledUntil(m, now + Window) \/ ToWrite(m))'
      BY <2>1 DEF Refilled
    <3>2. ScheduledUntil(m, now + Window) \/ ToWrite(m)
      BY <1>c DEF Refilled
    <3> QED
      BY <2>1, <3>2 DEF ScheduledUntil, ToWrite
  <2>4. ReadsCover'
    <3>1. Existing' = Existing
      BY <2>1 DEF Existing
    <3>2. D.event = e /\ D.listed = listed[e] /\ (D.series <=> e \in series)
      OBVIOUS
    <3> HIDE DEF D
    <3> QED
      BY <1>c, <2>1, <3>1, <3>2 DEF ReadsCover
  <2> QED
    BY <2>2, <2>3, <2>4 DEF Coverage
<1>5. ASSUME NEW n \in Reminders, NEW u \in Times, Send(n, u) PROVE Coverage'
  <2>1. rows' = [rows EXCEPT ![n][u] = "sent"] /\ UNCHANGED <<now, listed, series, event, read, refilled>>
    BY <1>5 DEF Send
  <2>2. \A m \in Reminders, o \in Times : rows[m][o] # NoRow => rows'[m][o] # NoRow
    BY <1>0, <2>1 DEF NoRow
  <2>3. OneOffsScheduled' /\ InTime'
    BY <1>0, <2>1, <2>2, RowsOnlyAdded
  <2>4. Refilled'
    <3> SUFFICES ASSUME refilled, NEW m \in Reminders, event[m] \in series
                 PROVE  (ScheduledUntil(m, now + Window) \/ ToWrite(m))'
      BY <2>1 DEF Refilled
    <3>2. ScheduledUntil(m, now + Window) \/ ToWrite(m)
      BY <1>c DEF Refilled
    <3> QED
      BY <2>1, <2>2, <3>2 DEF ScheduledUntil, ToWrite
  <2>5. ReadsCover'
    BY <1>c, <2>1 DEF ReadsCover, Existing
  <2> QED
    BY <2>3, <2>4, <2>5 DEF Coverage
<1>6. ASSUME NEW d \in read, d.new, d.event \in Existing, CreateReminderWrite(d) PROVE Coverage'
  <2> DEFINE n == d.reminder
             O == reminder_occurrences(d.listed, d.series)
             row == refill_notifications(rows[n], O)
  <2>1. /\ event' = [event EXCEPT ![n] = d.event] /\ rows' = [rows EXCEPT ![n] = row]
        /\ read' = read \ {d} /\ UNCHANGED <<now, listed, series, refilled>>
    BY <1>6 DEF CreateReminderWrite
  <2>2. n \in Reminders /\ d.event \in Events /\ d.event # NoEvent
    BY <1>0 DEF Reading
  <2>3. listed[d.event] \subseteq d.listed /\ (d.series <=> d.event \in series)
    BY <1>6, <1>c DEF ReadsCover
  <2>4. \A o \in Times : o \in O => row[o] # NoRow
    BY <1>0, <2>2, RefillRows
  <2>5. event'[n] = d.event /\ rows'[n] = row
        /\ \A m \in Reminders \ {n} : event'[m] = event[m] /\ rows'[m] = rows[m]
    BY <1>0, <2>1, <2>2
  <2>6. d.event \notin series => \A o \in listed[d.event] : o \in O
    BY <2>3 DEF reminder_occurrences
  <2>7. d.event \in series => \A o \in listed[d.event] : now <= o /\ o <= now + Window => o \in O
    BY <2>3 DEF reminder_occurrences
  <2> HIDE DEF n, O, row
  <2>8. OneOffsScheduled'
    BY <1>c, <2>1, <2>2, <2>4, <2>5, <2>6 DEF OneOffsScheduled
  <2>9. InTime'
    <3> SUFFICES ASSUME NEW m \in Reminders, event'[m] \in series, NEW o \in Times, o \in listed[event'[m]],
                        now <= o, o <= now + Window - 1
                 PROVE  rows'[m][o] # NoRow
      BY <2>1 DEF InTime, ScheduledUntil
    <3>1. CASE m = n
      <4>1. o <= now + Window
        BY <1>0, <1>t
      <4> QED
        BY <3>1, <4>1, <2>4, <2>5, <2>6, <2>7
    <3>2. CASE m # n
      BY <1>c, <2>5, <3>2 DEF InTime, ScheduledUntil
    <3> QED
      BY <3>1, <3>2
  <2>10. Refilled'
    <3> SUFFICES ASSUME refilled, NEW m \in Reminders, event'[m] \in series
                 PROVE  (ScheduledUntil(m, now + Window) \/ ToWrite(m))'
      BY <2>1 DEF Refilled
    <3>1. CASE m = n
      BY <3>1, <2>1, <2>4, <2>5, <2>7 DEF ScheduledUntil
    <3>2. CASE m # n
      <4>1. ScheduledUntil(m, now + Window) \/ ToWrite(m)
        BY <1>c, <2>5, <3>2 DEF Refilled
      <4> QED
        BY <1>6, <2>1, <2>5, <3>2, <4>1 DEF ScheduledUntil, ToWrite
    <3> QED
      BY <3>1, <3>2
  <2>11. ReadsCover'
    <3>1. Existing' = Existing
      BY <2>1 DEF Existing
    <3> QED
      BY <1>c, <2>1, <3>1 DEF ReadsCover
  <2> QED
    BY <2>8, <2>9, <2>10, <2>11 DEF Coverage
<1>7. ASSUME NEW d \in read, d.new, d.event \notin Existing, CreateReminderWrite(d) PROVE Coverage'
  <2>1. read' = read \ {d} /\ UNCHANGED <<now, listed, series, event, rows, refilled>>
    BY <1>7 DEF CreateReminderWrite
  <2>2. OneOffsScheduled' /\ InTime'
    BY <1>c, <2>1 DEF OneOffsScheduled, InTime, ScheduledUntil
  <2>3. Refilled'
    <3> SUFFICES ASSUME refilled, NEW m \in Reminders, event[m] \in series
                 PROVE  (ScheduledUntil(m, now + Window) \/ ToWrite(m))'
      BY <2>1 DEF Refilled
    <3>2. ScheduledUntil(m, now + Window) \/ ToWrite(m)
      BY <1>c DEF Refilled
    <3> QED
      BY <1>7, <2>1, <3>2 DEF ScheduledUntil, ToWrite
  <2>4. ReadsCover'
    BY <1>c, <2>1 DEF ReadsCover, Existing
  <2> QED
    BY <2>2, <2>3, <2>4 DEF Coverage
<1>8. ASSUME NEW d \in read, RefillWrite(d) PROVE Coverage'
  <2> DEFINE n == d.reminder
             O == reminder_occurrences(d.listed, d.series)
             row == refill_notifications(rows[n], O)
  <2>1. /\ rows' = (IF event[n] = d.event THEN [rows EXCEPT ![n] = row] ELSE rows)
        /\ read' = read \ {d} /\ UNCHANGED <<now, listed, series, event, refilled>>
    BY <1>8 DEF RefillWrite
  <2>2. n \in Reminders /\ d.event \in Events
    BY <1>0 DEF Reading
  <2>3. \A o \in Times : /\ o \in O => row[o] # NoRow
                         /\ rows[n][o] # NoRow => row[o] # NoRow
    BY <1>0, <2>2, RefillRows
  <2>4. event[n] = d.event /\ d.event \in series
        => \A o \in listed[d.event] : now <= o /\ o <= now + Window => o \in O
    BY <1>0, <1>c DEF ReadsCover, reminder_occurrences
  <2> HIDE DEF n, O, row
  <2>5. \A m \in Reminders, o \in Times : rows[m][o] # NoRow => rows'[m][o] # NoRow
    BY <1>0, <2>1, <2>2, <2>3
  <2>6. OneOffsScheduled' /\ InTime'
    BY <1>0, <2>1, <2>5, RowsOnlyAdded
  <2>7. Refilled'
    <3> SUFFICES ASSUME refilled, NEW m \in Reminders, event[m] \in series
                 PROVE  (ScheduledUntil(m, now + Window) \/ ToWrite(m))'
      BY <2>1 DEF Refilled
    <3>1. CASE m = n /\ event[n] = d.event
      <4>1. rows'[m] = row
        BY <1>0, <2>1, <2>2, <3>1
      <4> QED
        BY <3>1, <4>1, <2>1, <2>3, <2>4 DEF ScheduledUntil
    <3>2. CASE ~(m = n /\ event[n] = d.event)
      <4>1. ScheduledUntil(m, now + Window) \/ ToWrite(m)
        BY <1>c DEF Refilled
      <4>2. CASE ScheduledUntil(m, now + Window)
        BY <2>1, <2>5, <4>2 DEF ScheduledUntil
      <4>3. CASE ToWrite(m)
        BY <2>1, <3>2, <4>3 DEF ToWrite, n
      <4> QED
        BY <4>1, <4>2, <4>3
    <3> QED
      BY <3>1, <3>2
  <2>8. ReadsCover'
    BY <1>c, <2>1 DEF ReadsCover, Existing
  <2> QED
    BY <2>6, <2>7, <2>8 DEF Coverage
<1>9. ASSUME NEW e \in Events, delete_event(e) PROVE Coverage'
  <2>1. /\ listed' = [listed EXCEPT ![e] = {}] /\ series' = series \ {e}
        /\ event' = [m \in Reminders |-> IF event[m] = e THEN NoEvent ELSE event[m]]
        /\ rows' = [m \in Reminders |-> IF event[m] = e THEN NoRows ELSE rows[m]]
        /\ UNCHANGED <<now, read, refilled>>
    BY <1>9 DEF delete_event, WithoutReminders, NoRows
  <2>2. \A m \in Reminders : event'[m] # NoEvent =>
           /\ event'[m] = event[m] /\ event[m] # e /\ rows'[m] = rows[m]
           /\ listed'[event[m]] = listed[event[m]] /\ (event[m] \in series' <=> event[m] \in series)
    BY <1>0, <2>1
  <2>3. OneOffsScheduled'
    BY <1>c, <2>2 DEF OneOffsScheduled
  <2>4. InTime'
    <3>1. \A m \in Reminders : event'[m] \in series' => event'[m] # NoEvent
      BY <1>0, <2>1
    <3> QED
      BY <1>c, <2>1, <2>2, <3>1 DEF InTime, ScheduledUntil
  <2>5. Refilled'
    <3> SUFFICES ASSUME refilled, NEW m \in Reminders, event'[m] \in series'
                 PROVE  (ScheduledUntil(m, now + Window) \/ ToWrite(m))'
      BY <2>1 DEF Refilled
    <3>1. event'[m] # NoEvent
      BY <1>0, <2>1
    <3>2. ScheduledUntil(m, now + Window) \/ ToWrite(m)
      BY <1>c, <2>2, <3>1 DEF Refilled
    <3> QED
      BY <2>1, <2>2, <3>1, <3>2 DEF ScheduledUntil, ToWrite
  <2>6. ReadsCover'
    <3>1. \A g \in Events : g \in Existing' =>
             /\ g \in Existing /\ listed'[g] = listed[g] /\ (g \in series' <=> g \in series)
      BY <1>0, <2>1 DEF Existing
    <3>2. \A d \in read : d.event \in Events
      BY <1>0 DEF Reading
    <3> QED
      BY <1>c, <2>1, <3>1, <3>2 DEF ReadsCover
  <2> QED
    BY <2>3, <2>4, <2>5, <2>6 DEF Coverage
<1>10. ASSUME NEW e \in Events, NEW f \in Events \ {e}, Edit(e, f) PROVE Coverage'
  <2>1. PICK gone \in SUBSET Times, L \in SUBSET Times, recurring \in BOOLEAN :
           Effects(e, f, gone, L, recurring)
    BY <1>10, EditEffects
  <2> DEFINE O == reminder_occurrences(L, recurring)
  <2>2. /\ e \in series /\ f \notin Existing /\ f \notin series /\ \A d \in read : d.event # f
        /\ listed'[e] = listed[e] \ gone /\ listed'[f] = L
        /\ \A g \in Events \ {e, f} : listed'[g] = listed[g]
        /\ series' = (IF recurring THEN series \cup {f} ELSE series)
        /\ UNCHANGED <<now, read, refilled>>
    BY <2>1 DEF Effects
  <2>3. ~recurring => L = O
    BY DEF reminder_occurrences
  <2>4. recurring => \A o \in L : now <= o /\ o <= now + Window => o \in O
    BY DEF reminder_occurrences
  <2>5. ASSUME NEW m \in Reminders
        PROVE  \/ /\ event'[m] = f /\ event[m] = NoEvent
                  /\ \A o \in Times : o \in O => rows'[m][o] # NoRow
               \/ /\ event'[m] = event[m] /\ event[m] # f
                  /\ \A o \in Times : event[m] # NoEvent /\ o \in listed'[event[m]] =>
                        o \in listed[event[m]] /\ (rows[m][o] # NoRow => rows'[m][o] # NoRow)
    <3>1. \/ /\ event'[m] = f /\ event[m] = NoEvent
             /\ rows'[m] = refill_notifications(rows[m], O)
          \/ event'[m] = event[m] /\ event[m] = e /\ rows'[m] = LeaveSeries(rows[m], gone)
          \/ event'[m] = event[m] /\ event[m] # e /\ rows'[m] = rows[m]
      BY <2>1 DEF Effects
    <3>2. event[m] # f
      BY <1>0, <2>2
    <3>3. rows[m] \in [Times -> Status]
      BY <1>0
    <3> HIDE DEF O
    <3>4. CASE event'[m] = f /\ event[m] = NoEvent /\ rows'[m] = refill_notifications(rows[m], O)
      BY <3>3, <3>4, RefillRows
    <3>5. CASE event'[m] = event[m] /\ event[m] = e /\ rows'[m] = LeaveSeries(rows[m], gone)
      BY <2>2, <3>2, <3>3, <3>5, LeaveRows
    <3>6. CASE event'[m] = event[m] /\ event[m] # e /\ rows'[m] = rows[m]
      <4>1. CASE event[m] \in Events
        BY <2>2, <3>2, <3>6, <4>1
      <4>2. CASE event[m] = NoEvent
        BY <3>2, <3>6, <4>2
      <4> QED
        BY <1>0, <4>1, <4>2
    <3> QED
      BY <3>1, <3>4, <3>5, <3>6
  <2> HIDE DEF O
  <2>6. OneOffsScheduled'
    <3> SUFFICES ASSUME NEW m \in Reminders, NEW o \in Times, event'[m] # NoEvent,
                        event'[m] \notin series', o \in listed'[event'[m]]
                 PROVE  rows'[m][o] # NoRow
      BY DEF OneOffsScheduled
    <3>1. CASE event'[m] = f /\ \A u \in Times : u \in O => rows'[m][u] # NoRow
      BY <2>2, <2>3, <3>1
    <3>2. CASE event'[m] # f
      <4>1. event'[m] = event[m] /\ event[m] \notin series
        BY <2>2, <2>5, <3>2
      <4> QED
        BY <1>c, <2>5, <3>2, <4>1 DEF OneOffsScheduled
    <3> QED
      BY <2>5, <3>1, <3>2
  <2>7. InTime'
    <3> SUFFICES ASSUME NEW m \in Reminders, event'[m] \in series', NEW o \in Times, o \in listed'[event'[m]],
                        now <= o, o <= now + Window - 1
                 PROVE  rows'[m][o] # NoRow
      BY <2>2 DEF InTime, ScheduledUntil
    <3>1. CASE event'[m] = f /\ \A u \in Times : u \in O => rows'[m][u] # NoRow
      <4>1. o <= now + Window
        BY <1>0, <1>t
      <4> QED
        BY <2>2, <2>3, <2>4, <3>1, <4>1
    <3>2. CASE event'[m] # f
      <4>1. event'[m] = event[m] /\ event[m] \in series /\ event[m] # NoEvent
        BY <1>0, <2>2, <2>5, <3>2
      <4> QED
        BY <1>c, <2>5, <4>1 DEF InTime, ScheduledUntil
    <3> QED
      BY <2>5, <3>1, <3>2
  <2>8. Refilled'
    <3> SUFFICES ASSUME refilled, NEW m \in Reminders, event'[m] \in series'
                 PROVE  (ScheduledUntil(m, now + Window) \/ ToWrite(m))'
      BY <2>2 DEF Refilled
    <3>1. CASE event'[m] = f /\ \A u \in Times : u \in O => rows'[m][u] # NoRow
      BY <2>2, <2>4, <3>1 DEF ScheduledUntil
    <3>2. CASE event'[m] # f
      <4>1. event'[m] = event[m] /\ event[m] \in series /\ event[m] # NoEvent
        BY <1>0, <2>2, <2>5, <3>2
      <4>2. ScheduledUntil(m, now + Window) \/ ToWrite(m)
        BY <1>c, <2>2, <4>1 DEF Refilled
      <4> QED
        BY <2>2, <2>5, <3>2, <4>1, <4>2 DEF ScheduledUntil, ToWrite
    <3> QED
      BY <2>5, <3>1, <3>2
  <2>9. ReadsCover'
    <3>1. \A g \in Events \ {f} : g \in Existing' =>
             /\ g \in Existing /\ listed'[g] \subseteq listed[g] /\ (g \in series' <=> g \in series)
      BY <2>2 DEF Existing
    <3>2. \A d \in read : d.event \in Events \ {f}
      BY <1>0, <2>2 DEF Reading
    <3> QED
      BY <1>c, <2>2, <3>1, <3>2 DEF ReadsCover
  <2> QED
    BY <2>6, <2>7, <2>8, <2>9 DEF Coverage
<1>11. ~ \E e \in Events, L \in Rules, recurring \in BOOLEAN : UpdateAll(e, L, recurring)
  BY DEF UpdateAll
<1>12. ASSUME NEW d \in read, CreateReminderWrite(d) PROVE Coverage'
  <2>1. d.new
    BY <1>12 DEF CreateReminderWrite
  <2> QED
    BY <1>6, <1>7, <1>12, <2>1
<1> QED
  BY <1>1, <1>2, <1>3, <1>4, <1>5, <1>8, <1>9, <1>10, <1>11, <1>12 DEF Next

-----------------------------------------------------------------------------
(* The theorems.                                                              *)

LEMMA InitInvariant == ASSUME InstanceAssumption, DelaysAssumption, Init PROVE IInv
<1>0. NoEvent \notin Events
  BY DEF InstanceAssumption
<1>1. PICK e \in Events, L \in SUBSET Times :
         /\ L # {} /\ listed = [f \in Events |-> IF f = e THEN L ELSE {}] /\ series \in SUBSET {e}
  BY DEF Init
<1>2. /\ now = 0 /\ event = [m \in Reminders |-> NoEvent]
      /\ rows = [m \in Reminders |-> [o \in Times |-> NoRow]]
      /\ read = {} /\ refilled = FALSE /\ handlers \in Mixes
  BY DEF Init
<1>3. listed \in [Events -> SUBSET Times] /\ series \subseteq Events
  BY <1>1
<1>4. TypeOK
  <2>1. refilled \in BOOLEAN
    BY <1>2, Zenon
  <2> QED
    BY <1>2, <1>3, <2>1 DEF TypeOK
<1>5. Coverage
  BY <1>0, <1>2, <1>3 DEF Coverage, OneOffsScheduled, InTime, Refilled, ReadsCover
<1> QED
  BY <1>4, <1>5 DEF IInv

LEMMA NextInvariant == ASSUME InstanceAssumption, DelaysAssumption, IInv, [Next]_vars PROVE IInv'
<1>1. TypeOK'
  BY TypeStep DEF IInv
<1>2. ASSUME "update_all" \notin handlers' PROVE Coverage'
  <2>1. handlers' = handlers
    BY DEF Next, vars
  <2>2. TypeOK /\ Coverage
    BY <1>2, <2>1 DEF IInv
  <2>3. CASE Next
    BY <1>2, <2>1, <2>2, <2>3, CoverageStep
  <2>4. CASE UNCHANGED vars
    BY <2>2, <2>4 DEF vars, Coverage, OneOffsScheduled, InTime, ScheduledUntil, Refilled, ToWrite,
                      ReadsCover, Existing
  <2> QED
    BY <2>3, <2>4
<1> QED
  BY <1>1, <1>2 DEF IInv

\* A reminder is sent for an occurrence once, however refills, creations and splits that
\* read before find its row (refill_notifications, split_series).
THEOREM SentOnce == ASSUME InstanceAssumption PROVE Spec => SentStaysSent
<1>1. Init => IInv
  BY InitInvariant, DelaysAssumption
<1>2. IInv /\ [Next]_vars => IInv'
  BY NextInvariant, DelaysAssumption
<1>3. IInv /\ [Next]_vars
      => [\A m \in Reminders, o \in Times :
             rows[m][o] = "sent" => rows'[m][o] = "sent" \/ event'[m] = NoEvent]_vars
  BY SentStep, DelaysAssumption DEF IInv
<1> QED
  BY <1>1, <1>2, <1>3, PTL DEF Spec, SentStaysSent

\* Nobody misses a reminder: an occurrence has its row from the start, or a window ahead,
\* whatever reads of the refill and of the creation are stale, and whatever the offsets
\* (reminder_occurrences).
THEOREM NobodyForgotten == ASSUME InstanceAssumption PROVE Spec => []NoneForgotten
<1>1. Init => IInv
  BY InitInvariant, DelaysAssumption
<1>2. IInv /\ [Next]_vars => IInv'
  BY NextInvariant, DelaysAssumption
<1>3. IInv => NoneForgotten
  <2> SUFFICES ASSUME IInv, "update_all" \notin handlers,
                      NEW m \in Reminders, NEW o \in Times,
                      event[m] # NoEvent, o \in listed[event[m]], now <= o,
                      event[m] \in series => o < now + Window
               PROVE  rows[m][o] # NoRow
    BY DEF NoneForgotten
  <2>1. OneOffsScheduled /\ InTime /\ now \in Nat
    BY DEF IInv, Coverage, TypeOK
  <2>2. CASE event[m] \notin series
    BY <2>1, <2>2 DEF OneOffsScheduled
  <2>3. CASE event[m] \in series
    <3>1. o <= now + Window - 1
      BY <2>1, <2>3, DelaysAssumption DEF DelaysAssumption, Times
    <3> QED
      BY <2>1, <2>3, <3>1 DEF InTime, ScheduledUntil
  <2> QED
    BY <2>2, <2>3
<1> QED
  BY <1>1, <1>2, <1>3, PTL DEF Spec
-----------------------------------------------------------------------------
-----------------------------------------------------------------------------
(* CalendarImport.                                                            *)

Stamp == 1..MaxStamp \cup {None}
Mapping == [event : EventIds, stamp : Stamp]
RowWritten == [allDay : BOOLEAN, drops : BOOLEAN]
\* The functions from some of D.
Partial(D, V) == UNION {[E -> V] : E \in SUBSET D}
Rows == Partial(EventIds, RowWritten)
Maps == Partial(Uids, Mapping)
SyncRecord ==
    [at : {"idle", "next", "insert", "update"}, feed : [Uids -> Entry] \cup {<<>>},
     todo : SUBSET Uids, uid : Uids \cup {None}, seen : Mapping \cup {None},
     found : [event : EventIds, stamp : Stamp, rule : RuleKinds] \cup {None},
     locked : SUBSET EventIds, rows : Rows, maps : Maps]

ImportTypeOK ==
    /\ imported \in BOOLEAN /\ edits \in Nat /\ feed \in [Uids -> Entry]
    /\ mapping \in [Uids -> Mapping \cup {None}]
    /\ agenda \in Partial(EventIds, Event)
    /\ removal = None \/ removal \subseteq EventIds
    /\ sync \in [Syncs -> SyncRecord]

\* A mapping is of an event that is there, and as long as the feed is imported each
\* event that is there has its mapping.
MappingsTrue ==
    /\ \A u \in Uids : mapping[u] # None =>
          /\ imported /\ Present(mapping[u].event) /\ agenda[mapping[u].event].uid = u
    /\ imported => \A e \in DOMAIN agenda : Present(e) =>
          mapping[agenda[e].uid] # None /\ mapping[agenda[e].uid].event = e

\* A row is locked by one synchronisation, and stays while it is.
LocksApart == \A s, o \in Syncs : s # o => LockedBy(s) \cap LockedBy(o) = {}
LockedStay == \A s \in Syncs : \A e \in sync[s].locked : Present(e)

\* What a synchronisation has read of an event stays true until it writes it.
ReadTrue(r) ==
    /\ r.at # "idle" => r.feed \in [Uids -> Entry]
    /\ r.at \in {"insert", "update"} => r.uid \in r.todo
    /\ r.todo \cap DOMAIN r.maps = {}
    /\ r.seen # None => r.seen.event \in DOMAIN agenda /\ agenda[r.seen.event].uid = r.uid
    /\ r.at = "update" =>
          /\ r.found \in [event : EventIds, stamp : Stamp, rule : RuleKinds]
          /\ r.found.event \in r.locked
          /\ agenda[r.found.event].uid = r.uid /\ agenda[r.found.event].rule = r.found.rule

\* A mapping to be written is of a row to be written: of the event of that uid, or of
\* a new one, which nobody else is to map.
MapsSound(s, r) ==
    \A u \in DOMAIN r.maps : LET e == r.maps[u].event IN
        /\ e \in DOMAIN r.rows
        /\ e \in r.locked => agenda[e].uid = u
        /\ e \notin r.locked => /\ e \notin DOMAIN agenda /\ mapping[u] = None /\ imported
                                /\ \A o \in Syncs \ {s} : u \notin Mapped(o)
\* A row to be written is of one mapping, and drops the rule it does not fit.
RowsSound(r) ==
    /\ \A e \in DOMAIN r.rows :
          /\ \E u \in DOMAIN r.maps : r.maps[u].event = e
          /\ e \in r.locked => r.rows[e].drops = DropsRule(r.rows[e].allDay, agenda[e].rule)
    /\ \A u, v \in DOMAIN r.maps : r.maps[u].event = r.maps[v].event => u = v
SyncsSound == \A s \in Syncs : ReadTrue(sync[s]) /\ MapsSound(s, sync[s]) /\ RowsSound(sync[s])

ImportInv == /\ ImportTypeOK /\ MappingsTrue /\ LocksApart /\ LockedStay /\ SyncsSound
             /\ EventOnce /\ RuleFits
-----------------------------------------------------------------------------
\* One entry written.
LEMMA WithOne ==
    ASSUME NEW D, NEW V, NEW g \in Partial(D, V), NEW d \in D, NEW v \in V
    PROVE  With(g, d, v) \in Partial(D, V)
<1>1. PICK E \in SUBSET D : g \in [E -> V]
  BY DEF Partial
<1>2. With(g, d, v) \in [E \cup {d} -> V] /\ E \cup {d} \in SUBSET D
  BY <1>1 DEF With
<1> QED
  BY <1>2 DEF Partial

LEMMA RestHoldsNothing ==
    /\ DOMAIN <<>> = {} /\ <<>> \in Rows /\ <<>> \in Maps
    /\ Rest \in SyncRecord /\ Rest.at = "idle" /\ Rest.locked = {} /\ Rest.rows = <<>>
    /\ Rest.maps = <<>> /\ Rest.todo = {} /\ Rest.uid = None /\ Rest.seen = None /\ Rest.found = None
<1>1. DOMAIN <<>> = {}
  OBVIOUS
<1>2. <<>> \in [{} -> RowWritten] /\ <<>> \in [{} -> Mapping]
  OBVIOUS
<1>3. <<>> \in Rows /\ <<>> \in Maps
  BY <1>2 DEF Rows, Maps, Partial
<1> QED
  BY <1>1, <1>3 DEF Rest, SyncRecord

LEMMA RowsAre ==
    ASSUME NEW r \in SyncRecord
    PROVE  /\ r.at \in {"idle", "next", "insert", "update"} /\ r.todo \subseteq Uids
           /\ r.uid \in Uids \cup {None} /\ r.locked \subseteq EventIds
           /\ r.rows \in Rows /\ DOMAIN r.rows \subseteq EventIds
           /\ \A e \in DOMAIN r.rows : r.rows[e] \in RowWritten
           /\ r.maps \in Maps /\ DOMAIN r.maps \subseteq Uids
           /\ \A u \in DOMAIN r.maps : r.maps[u] \in Mapping
  BY DEF SyncRecord, Rows, Maps, Partial

LEMMA AgendaIs ==
    ASSUME ImportTypeOK
    PROVE  /\ DOMAIN agenda \subseteq EventIds /\ agenda = [e \in DOMAIN agenda |-> agenda[e]]
           /\ \A e \in DOMAIN agenda : /\ agenda[e] \in Event /\ agenda[e].uid \in Uids
                                       /\ agenda[e].rule \in RuleKinds /\ agenda[e].allDay \in BOOLEAN
                                       /\ agenda[e].gone \in BOOLEAN
  BY DEF ImportTypeOK, Event, Partial
-----------------------------------------------------------------------------
(* What one synchronisation does to what it holds.                            *)

LEMMA OneSyncMoves ==
    ASSUME ImportInv, NEW s \in Syncs, NEW r \in SyncRecord, SetSync(s, r),
           ReadTrue(r), MapsSound(s, r), RowsSound(r), \A e \in r.locked : Present(e),
           \A o \in Syncs \ {s} : (r.locked \cup DOMAIN r.rows) \cap LockedBy(o) = {},
           \A o \in Syncs \ {s} : \A u \in DOMAIN r.maps \cap Mapped(o) :
               sync[o].maps[u].event \in sync[o].locked
    PROVE  ImportInv'
<1> USE DEF SetSync
<1>1. /\ sync' \in [Syncs -> SyncRecord] /\ sync'[s] = r
      /\ \A o \in Syncs \ {s} : sync'[o] = sync[o]
  BY DEF ImportInv, ImportTypeOK
<1>2. ImportTypeOK'
  BY <1>1 DEF ImportInv, ImportTypeOK
<1>3. MappingsTrue' /\ EventOnce' /\ RuleFits'
  BY DEF ImportInv, MappingsTrue, EventOnce, RuleFits, Present
<1>4. LocksApart'
  <2> SUFFICES ASSUME NEW a \in Syncs, NEW b \in Syncs, a # b
               PROVE  LockedBy(a)' \cap LockedBy(b)' = {}
    BY DEF LocksApart
  <2>1. LockedBy(s)' = r.locked \cup DOMAIN r.rows /\ \A o \in Syncs \ {s} : LockedBy(o)' = LockedBy(o)
    BY <1>1 DEF LockedBy
  <2>2. LockedBy(a) \cap LockedBy(b) = {}
    BY DEF ImportInv, LocksApart
  <2> QED
    BY <2>1, <2>2
<1>5. LockedStay'
  BY <1>1 DEF ImportInv, LockedStay, Present
<1>6. SyncsSound'
  <2> SUFFICES ASSUME NEW o \in Syncs
               PROVE  (ReadTrue(sync[o]) /\ MapsSound(o, sync[o]) /\ RowsSound(sync[o]))'
    BY DEF SyncsSound
  <2>1. CASE o = s
    <3>1. \A p \in Syncs \ {s} : Mapped(p)' = Mapped(p)
      BY <1>1 DEF Mapped
    <3>2. MapsSound(s, r)'
      BY <3>1 DEF MapsSound
    <3> QED
      BY <1>1, <2>1, <3>2 DEF ReadTrue, RowsSound
  <2>2. CASE o # s
    <3>1. ReadTrue(sync[o]) /\ MapsSound(o, sync[o]) /\ RowsSound(sync[o])
      BY DEF ImportInv, SyncsSound
    <3>2. /\ \A p \in Syncs \ {s} : Mapped(p)' = Mapped(p)
          /\ Mapped(s)' = DOMAIN r.maps
      BY <1>1 DEF Mapped
    <3>3. sync'[o] = sync[o]
      BY <1>1, <2>2
    <3>4. MapsSound(o, sync[o])'
      BY <2>2, <3>1, <3>2, <3>3 DEF MapsSound, Mapped
    <3> QED
      BY <3>1, <3>3, <3>4 DEF ReadTrue, RowsSound
  <2> QED
    BY <2>1, <2>2
<1> QED
  BY <1>2, <1>3, <1>4, <1>5, <1>6 DEF ImportInv

\* What others do leaves what a synchronisation holds.
LEMMA OthersMove ==
    ASSUME ImportInv, sync' = sync, DOMAIN agenda' = DOMAIN agenda,
           \A e \in DOMAIN agenda : agenda'[e].uid = agenda[e].uid,
           \A s \in Syncs : \A e \in LockedBy(s) \cap DOMAIN agenda : agenda'[e] = agenda[e],
           \A u \in Uids : mapping[u] = None => mapping'[u] = None,
           imported' = imported \/ \A s \in Syncs : Mapped(s) = {}
    PROVE  LocksApart' /\ LockedStay' /\ SyncsSound'
<1>1. LocksApart'
  BY DEF ImportInv, LocksApart, LockedBy
<1>2. \A s \in Syncs : \A e \in sync[s].locked : e \in DOMAIN agenda /\ agenda'[e] = agenda[e]
  BY DEF ImportInv, LockedStay, Present, LockedBy
<1>3. LockedStay'
  BY <1>2 DEF ImportInv, LockedStay, Present
<1>4. SyncsSound'
  <2> SUFFICES ASSUME NEW s \in Syncs
               PROVE  (ReadTrue(sync[s]) /\ MapsSound(s, sync[s]) /\ RowsSound(sync[s]))'
    BY DEF SyncsSound
  <2>1. ReadTrue(sync[s]) /\ MapsSound(s, sync[s]) /\ RowsSound(sync[s]) /\ sync[s] \in SyncRecord
    BY DEF ImportInv, SyncsSound, ImportTypeOK
  <2>2. ReadTrue(sync[s])'
    BY <1>2, <2>1 DEF ReadTrue
  <2>3. RowsSound(sync[s])'
    BY <1>2, <2>1 DEF RowsSound
  <2>4. MapsSound(s, sync[s])'
    <3>1. DOMAIN sync[s].maps \subseteq Uids /\ \A o \in Syncs : Mapped(o)' = Mapped(o)
      BY <2>1, RowsAre DEF Mapped
    <3> QED
      BY <1>2, <2>1, <3>1 DEF MapsSound, Mapped
  <2> QED
    BY <2>2, <2>3, <2>4
<1> QED
  BY <1>1, <1>3, <1>4
-----------------------------------------------------------------------------
(* The steps of a synchronisation but its commit.                             *)

\* A synchronisation that holds nothing may begin, and one that fails holds nothing.
LEMMA Rests ==
    ASSUME ImportInv, NEW s \in Syncs, NEW r \in SyncRecord, SetSync(s, r),
           r.at \in {"idle", "next"}, r.at = "next" => r.feed \in [Uids -> Entry],
           r.locked = {}, r.rows = <<>>, r.maps = <<>>, r.seen = None
    PROVE  ImportInv'
<1>1. DOMAIN r.rows = {} /\ DOMAIN r.maps = {}
  BY RestHoldsNothing
<1>2. ReadTrue(r) /\ MapsSound(s, r) /\ RowsSound(r)
  BY <1>1 DEF ReadTrue, MapsSound, RowsSound
<1> QED
  BY <1>1, <1>2, OneSyncMoves

LEMMA FetchKeeps ==
    ASSUME ImportInv, NEW s \in Syncs, Fetch(s)
    PROVE  ImportInv'
<1> DEFINE r == [Rest EXCEPT !.at = "next", !.feed = feed, !.todo = Uids]
<1>1. SetSync(s, r) /\ feed \in [Uids -> Entry]
  BY DEF Fetch, ImportInv, ImportTypeOK
<1>2. /\ r \in SyncRecord /\ r.at = "next" /\ r.feed = feed
      /\ r.locked = {} /\ r.rows = <<>> /\ r.maps = <<>> /\ r.seen = None
  BY <1>1, RestHoldsNothing DEF Rest, SyncRecord
<1> HIDE DEF r
<1> QED
  BY <1>1, <1>2, Rests

LEMMA FailKeeps ==
    ASSUME ImportInv, NEW s \in Syncs, Fail(s)
    PROVE  ImportInv'
<1>1. SetSync(s, Rest)
  BY DEF Fail, SetSync
<1> QED
  BY <1>1, RestHoldsNothing, Rests

\* What a synchronisation has not written yet keeps what it holds apart and true.
LEMMA HeldApart ==
    ASSUME ImportInv, NEW s \in Syncs
    PROVE  LET r == sync[s] IN
           /\ r \in SyncRecord /\ ReadTrue(r) /\ MapsSound(s, r) /\ RowsSound(r)
           /\ \A x \in r.locked : Present(x)
           /\ \A o \in Syncs \ {s} : (r.locked \cup DOMAIN r.rows) \cap LockedBy(o) = {}
           /\ \A o \in Syncs \ {s} : \A v \in DOMAIN r.maps \cap Mapped(o) :
                sync[o].maps[v].event \in sync[o].locked
<1>1. \A o \in Syncs \ {s} : \A v \in DOMAIN sync[s].maps \cap Mapped(o) :
          sync[o].maps[v].event \in sync[o].locked
  BY DEF ImportInv, SyncsSound, MapsSound, Mapped
<1>2. sync[s] \in SyncRecord /\ ReadTrue(sync[s]) /\ MapsSound(s, sync[s]) /\ RowsSound(sync[s])
  BY DEF ImportInv, ImportTypeOK, SyncsSound
<1> QED
  BY <1>1, <1>2 DEF ImportInv, LockedStay, LocksApart, LockedBy

LEMMA WaitRowKeeps ==
    ASSUME ImportInv, NEW s \in Syncs, NEW u \in Uids, WaitRow(s, u)
    PROVE  ImportInv'
<1> DEFINE r == sync[s]
           p == [r EXCEPT !.uid = u, !.seen = mapping[u]]
<1>1. /\ r \in SyncRecord /\ ReadTrue(r) /\ MapsSound(s, r) /\ RowsSound(r)
      /\ \A x \in r.locked : Present(x)
      /\ \A o \in Syncs \ {s} : (r.locked \cup DOMAIN r.rows) \cap LockedBy(o) = {}
      /\ \A o \in Syncs \ {s} : \A v \in DOMAIN r.maps \cap Mapped(o) :
            sync[o].maps[v].event \in sync[o].locked
  BY HeldApart
<1>2. r.at = "next" /\ mapping[u] # None /\ SetSync(s, p)
  BY DEF WaitRow
<1>3. mapping[u] \in Mapping /\ mapping[u].event \in DOMAIN agenda /\ agenda[mapping[u].event].uid = u
  BY <1>2 DEF ImportInv, ImportTypeOK, MappingsTrue, Present
<1>4. /\ p \in SyncRecord /\ p.at = "next" /\ p.uid = u /\ p.seen = mapping[u] /\ p.locked = r.locked
      /\ p.rows = r.rows /\ p.maps = r.maps /\ p.feed = r.feed /\ p.todo = r.todo
  BY <1>1, <1>2, <1>3 DEF SyncRecord
<1> HIDE DEF p, r
<1>5. ReadTrue(p) /\ MapsSound(s, p) /\ RowsSound(p)
  BY <1>1, <1>2, <1>3, <1>4 DEF ReadTrue, MapsSound, RowsSound
<1> QED
  BY <1>1, <1>2, <1>4, <1>5, OneSyncMoves

LEMMA ReadRowKeeps ==
    ASSUME ImportInv, NEW s \in Syncs, NEW u \in Uids, ReadRow(s, u)
    PROVE  ImportInv'
<1> DEFINE r == sync[s]
           q == [r EXCEPT !.uid = u]
           seen == IF q.seen = None THEN mapping[u] ELSE q.seen
           e == seen.event
<1>1. /\ r \in SyncRecord /\ ReadTrue(r) /\ MapsSound(s, r) /\ RowsSound(r)
      /\ r.at = "next" /\ u \in r.todo /\ (r.seen # None => r.uid = u)
  BY HeldApart DEF ReadRow
<1>2. /\ \A x \in r.locked : Present(x)
      /\ \A o \in Syncs \ {s} : (r.locked \cup DOMAIN r.rows) \cap LockedBy(o) = {}
      /\ \A o \in Syncs \ {s} : \A v \in DOMAIN r.maps \cap Mapped(o) :
            sync[o].maps[v].event \in sync[o].locked
  BY HeldApart
<1>5. q.seen = r.seen /\ q \in SyncRecord
  BY <1>1 DEF SyncRecord
<1>6. seen \in Mapping \cup {None} /\ (seen # None /\ Present(e) => agenda[e].uid = u)
  BY <1>1, <1>5 DEF SyncRecord, ReadTrue, ImportInv, ImportTypeOK, MappingsTrue
<1>3. CASE seen = None \/ ~Present(e)
  <2> DEFINE p == [q EXCEPT !.at = "insert"]
  <2>1. SetSync(s, p)
    BY <1>3 DEF ReadRow
  <2>2. /\ p \in SyncRecord /\ p.at = "insert" /\ p.uid = u /\ p.seen = r.seen /\ p.locked = r.locked
        /\ p.rows = r.rows /\ p.maps = r.maps /\ p.feed = r.feed /\ p.todo = r.todo
    BY <1>1 DEF SyncRecord
  <2> HIDE DEF p
  <2>3. ReadTrue(p) /\ MapsSound(s, p) /\ RowsSound(p)
    BY <1>1, <2>2 DEF ReadTrue, MapsSound, RowsSound
  <2> QED
    BY <1>2, <2>1, <2>2, <2>3, OneSyncMoves
<1>4. CASE seen # None /\ Present(e)
  <2> DEFINE found == [event |-> e, stamp |-> seen.stamp, rule |-> agenda[e].rule]
             p == [q EXCEPT !.at = "update", !.locked = @ \cup {e}, !.found = found]
  <2>1. SetSync(s, p) /\ RowFree(s, e)
    BY <1>4 DEF ReadRow
  <2>2. seen \in Mapping /\ Present(e) /\ agenda[e].uid = u
    BY <1>4, <1>6
  <2>3. /\ found \in [event : EventIds, stamp : Stamp, rule : RuleKinds]
        /\ found.event = e /\ found.rule = agenda[e].rule
    BY <2>2, AgendaIs DEF ImportInv, Mapping, Present
  <2> HIDE DEF found
  <2>4. /\ p \in SyncRecord /\ p.at = "update" /\ p.uid = u /\ p.locked = r.locked \cup {e}
        /\ p.rows = r.rows /\ p.maps = r.maps /\ p.feed = r.feed /\ p.todo = r.todo
        /\ p.found = found /\ p.seen = r.seen
    BY <1>1, <2>2, <2>3 DEF SyncRecord, Mapping
  <2> HIDE DEF p
  <2>5. ReadTrue(p)
    BY <1>1, <2>2, <2>3, <2>4 DEF ReadTrue
  <2>6. e \notin r.locked => e \notin DOMAIN r.rows
    <3> SUFFICES ASSUME e \notin r.locked, e \in DOMAIN r.rows
                 PROVE  FALSE
      OBVIOUS
    <3>1. PICK v \in DOMAIN r.maps : r.maps[v].event = e
      BY <1>1 DEF RowsSound
    <3>2. e \notin DOMAIN agenda
      BY <1>1, <3>1 DEF MapsSound
    <3> QED
      BY <2>2, <3>2 DEF Present
  <2>7. MapsSound(s, p) /\ RowsSound(p)
    <3>1. \A v \in DOMAIN r.maps : r.maps[v].event \in DOMAIN r.rows
      BY <1>1 DEF MapsSound
    <3>2. \A x \in DOMAIN r.rows : x \in p.locked <=> x \in r.locked
      BY <2>4, <2>6
    <3> QED
      BY <1>1, <2>4, <3>1, <3>2 DEF MapsSound, RowsSound
  <2>8. /\ \A x \in p.locked : Present(x)
        /\ \A o \in Syncs \ {s} : (p.locked \cup DOMAIN p.rows) \cap LockedBy(o) = {}
    BY <1>2, <2>1, <2>2, <2>4 DEF RowFree
  <2> QED
    BY <1>2, <2>1, <2>4, <2>5, <2>7, <2>8, OneSyncMoves
<1> QED
  BY <1>3, <1>4
\* An entry written: what is left is as before, and one row and one mapping are added.
LEMMA DoneIs ==
    ASSUME NEW r \in SyncRecord
    PROVE  /\ Done(r) \in SyncRecord /\ Done(r).at = "next" /\ Done(r).todo = r.todo \ {r.uid}
           /\ Done(r).feed = r.feed /\ Done(r).locked = r.locked /\ Done(r).rows = r.rows
           /\ Done(r).maps = r.maps /\ Done(r).seen = None
  BY DEF SyncRecord, Done

Added(r, e, row, u, map) == [Done(r) EXCEPT !.rows = With(@, e, row), !.maps = With(@, u, map)]

LEMMA AddedIs ==
    ASSUME NEW r \in SyncRecord, NEW e \in EventIds, NEW row \in RowWritten,
           NEW u \in Uids, NEW map \in Mapping
    PROVE  LET p == Added(r, e, row, u, map) IN
           /\ p \in SyncRecord /\ p.at = "next" /\ p.todo = r.todo \ {r.uid}
           /\ p.feed = r.feed /\ p.locked = r.locked /\ p.seen = None
           /\ p.rows = With(r.rows, e, row) /\ p.maps = With(r.maps, u, map)
<1>1. r.rows \in Rows /\ r.maps \in Maps
  BY RowsAre
<1>2. With(r.rows, e, row) \in Rows
  BY <1>1, WithOne, Zenon DEF Rows
<1>3. With(r.maps, u, map) \in Maps
  BY <1>1, WithOne, Zenon DEF Maps
<1> QED
  BY <1>2, <1>3, DoneIs DEF SyncRecord, Added

LEMMA PassedOver ==
    ASSUME ImportInv, NEW s \in Syncs, SetSync(s, Done(sync[s])), sync[s].at \in {"insert", "update"}
    PROVE  ImportInv'
<1> DEFINE r == sync[s]
<1>1. r \in SyncRecord /\ ReadTrue(r) /\ MapsSound(s, r) /\ RowsSound(r)
  BY DEF ImportInv, ImportTypeOK, SyncsSound
<1>2. ReadTrue(Done(r)) /\ MapsSound(s, Done(r)) /\ RowsSound(Done(r))
  BY <1>1, DoneIs DEF ReadTrue, MapsSound, RowsSound
<1>3. \A o \in Syncs \ {s} : \A u \in DOMAIN r.maps \cap Mapped(o) :
            sync[o].maps[u].event \in sync[o].locked
  BY DEF ImportInv, SyncsSound, MapsSound, Mapped
<1>4. /\ \A x \in r.locked : Present(x)
      /\ \A o \in Syncs \ {s} : (r.locked \cup DOMAIN r.rows) \cap LockedBy(o) = {}
  BY DEF ImportInv, LockedStay, LocksApart, LockedBy
<1> QED
  BY <1>1, <1>2, <1>3, <1>4, DoneIs, OneSyncMoves

\* A row and its mapping, of an event whose row is held or is new.
LEMMA OneMoreRow ==
    ASSUME ImportInv, NEW s \in Syncs, NEW e \in EventIds, NEW row \in RowWritten, NEW map \in Mapping,
           sync[s].at \in {"insert", "update"}, map.event = e,
           SetSync(s, Added(sync[s], e, row, sync[s].uid, map)),
           e \in sync[s].locked =>
               /\ agenda[e].uid = sync[s].uid
               /\ row.drops = DropsRule(row.allDay, agenda[e].rule),
           e \notin sync[s].locked =>
               /\ e \notin DOMAIN agenda /\ imported /\ mapping[sync[s].uid] = None
               /\ \A o \in Syncs : e \notin DOMAIN sync[o].rows
               /\ \A o \in Syncs \ {s} : sync[s].uid \notin Mapped(o)
    PROVE  ImportInv'
<1> DEFINE r == sync[s]
           u == r.uid
           p == Added(r, e, row, u, map)
<1>1. r \in SyncRecord /\ ReadTrue(r) /\ MapsSound(s, r) /\ RowsSound(r)
  BY DEF ImportInv, ImportTypeOK, SyncsSound
<1>2. u \in Uids /\ u \in r.todo /\ u \notin DOMAIN r.maps
  BY <1>1, RowsAre DEF ReadTrue
<1>3. SetSync(s, p)
  OBVIOUS
<1>4. /\ p \in SyncRecord /\ p.at = "next" /\ p.todo = r.todo \ {u} /\ p.feed = r.feed
      /\ p.seen = None /\ p.locked = r.locked /\ p.rows = With(r.rows, e, row) /\ p.maps = With(r.maps, u, map)
  BY <1>1, <1>2, AddedIs
<1> HIDE DEF p
<1>5. /\ DOMAIN p.rows = DOMAIN r.rows \cup {e} /\ p.rows[e] = row
      /\ \A x \in DOMAIN r.rows \ {e} : p.rows[x] = r.rows[x]
  <2>1. /\ DOMAIN With(r.rows, e, row) = DOMAIN r.rows \cup {e} /\ With(r.rows, e, row)[e] = row
        /\ \A x \in DOMAIN r.rows \ {e} : With(r.rows, e, row)[x] = r.rows[x]
    BY DEF With
  <2> QED
    BY <1>4, <2>1
<1>6. /\ DOMAIN p.maps = DOMAIN r.maps \cup {u} /\ p.maps[u] = map
      /\ \A x \in DOMAIN r.maps : p.maps[x] = r.maps[x]
  <2>1. /\ DOMAIN With(r.maps, u, map) = DOMAIN r.maps \cup {u} /\ With(r.maps, u, map)[u] = map
        /\ \A x \in DOMAIN r.maps \ {u} : With(r.maps, u, map)[x] = r.maps[x]
    BY DEF With
  <2> QED
    BY <1>2, <1>4, <2>1
<1>7. ReadTrue(p)
  BY <1>1, <1>4, <1>6 DEF ReadTrue
\* No other entry has been written to this event.
<1>8. \A v \in DOMAIN r.maps : r.maps[v].event # e
  <2> SUFFICES ASSUME NEW v \in DOMAIN r.maps, r.maps[v].event = e
               PROVE  FALSE
    OBVIOUS
  <2>1. e \in DOMAIN r.rows /\ v # u /\ e \in r.locked => agenda[e].uid = v
    BY <1>1, <1>2 DEF MapsSound
  <2> QED
    BY <1>1, <1>2, <2>1 DEF MapsSound
<1>9. MapsSound(s, p)
  BY <1>1, <1>4, <1>5, <1>6, <1>8 DEF MapsSound
<1>10. RowsSound(p)
  <2>1. \A x \in DOMAIN p.rows : \E v \in DOMAIN p.maps : p.maps[v].event = x
    BY <1>1, <1>5, <1>6 DEF RowsSound
  <2>2. \A x \in DOMAIN p.rows : x \in p.locked => p.rows[x].drops = DropsRule(p.rows[x].allDay, agenda[x].rule)
    BY <1>1, <1>4, <1>5 DEF RowsSound
  <2>3. \A v, w \in DOMAIN p.maps : p.maps[v].event = p.maps[w].event => v = w
    BY <1>1, <1>6, <1>8 DEF RowsSound
  <2> QED
    BY <2>1, <2>2, <2>3 DEF RowsSound
<1>11. \A o \in Syncs \ {s} : \A v \in DOMAIN p.maps \cap Mapped(o) :
            sync[o].maps[v].event \in sync[o].locked
  <2> SUFFICES ASSUME NEW o \in Syncs \ {s}, NEW v \in DOMAIN p.maps \cap Mapped(o),
                      sync[o].maps[v].event \notin sync[o].locked
               PROVE  FALSE
    OBVIOUS
  <2>1. mapping[v] = None /\ imported /\ \A q \in Syncs \ {o} : v \notin Mapped(q)
    BY DEF ImportInv, SyncsSound, MapsSound, Mapped
  <2>2. v = u
    BY <1>6, <2>1 DEF Mapped
  <2>3. e \in r.locked
    BY <2>2
  <2>4. Present(e) /\ agenda[e].uid = u
    BY <2>3 DEF ImportInv, LockedStay
  <2> QED
    BY <2>1, <2>2, <2>4 DEF ImportInv, MappingsTrue, Present
<1>12. /\ \A x \in p.locked : Present(x)
       /\ \A o \in Syncs \ {s} : (p.locked \cup DOMAIN p.rows) \cap LockedBy(o) = {}
  <2>1. \A x \in p.locked : Present(x)
    BY <1>4 DEF ImportInv, LockedStay
  <2>2. \A o \in Syncs \ {s} : (r.locked \cup DOMAIN r.rows) \cap LockedBy(o) = {}
    BY DEF ImportInv, LocksApart, LockedBy
  <2>3. \A o \in Syncs \ {s} : e \notin LockedBy(o)
    BY <2>2 DEF ImportInv, LockedStay, Present, LockedBy
  <2> QED
    BY <1>4, <1>5, <2>1, <2>2, <2>3
<1> QED
  BY <1>3, <1>4, <1>7, <1>9, <1>10, <1>11, <1>12, OneSyncMoves
LEMMA UpdateKeeps ==
    ASSUME ImportInv, NEW s \in Syncs, Update(s)
    PROVE  ImportInv'
<1> DEFINE r == sync[s]
           e == r.found.event
           entry == r.feed[r.uid]
           row == [allDay |-> entry.allDay, drops |-> DropsRule(entry.allDay, r.found.rule)]
           map == [event |-> e, stamp |-> entry.stamp]
<1>1. r \in SyncRecord /\ ReadTrue(r) /\ r.at = "update"
  BY DEF ImportInv, ImportTypeOK, SyncsSound, Update
<1>2. SetSync(s, Done(r)) \/ SetSync(s, Added(r, e, row, r.uid, map))
  BY DEF Update, Added
<1>3. CASE SetSync(s, Done(r))
  BY <1>1, <1>3, PassedOver
<1>4. CASE SetSync(s, Added(r, e, row, r.uid, map))
  <2>1. r.uid \in Uids /\ r.feed \in [Uids -> Entry] /\ e \in EventIds /\ e \in r.locked
    BY <1>1, RowsAre DEF ReadTrue
  <2>2. entry.allDay \in BOOLEAN /\ entry.stamp \in Stamp
    BY <2>1 DEF Entry, Stamp
  <2>3. row \in RowWritten /\ map \in Mapping /\ map.event = e
    BY <2>1, <2>2 DEF RowWritten, Mapping, DropsRule
  <2>4. agenda[e].uid = r.uid /\ row.drops = DropsRule(row.allDay, agenda[e].rule)
    BY <1>1 DEF ReadTrue
  <2> HIDE DEF row, map
  <2> QED
    BY <1>1, <1>4, <2>1, <2>3, <2>4, OneMoreRow
<1> QED
  BY <1>2, <1>3, <1>4

LEMMA InsertKeeps ==
    ASSUME ImportInv, NEW s \in Syncs, Insert(s)
    PROVE  ImportInv'
<1> DEFINE r == sync[s]
           entry == r.feed[r.uid]
           used == DOMAIN agenda \cup UNION {DOMAIN sync[o].rows : o \in Syncs}
           new == CHOOSE e \in EventIds : e \notin used
           row == [allDay |-> entry.allDay, drops |-> FALSE]
           map == [event |-> new, stamp |-> entry.stamp]
<1>1. r \in SyncRecord /\ ReadTrue(r) /\ r.at = "insert"
  BY DEF ImportInv, ImportTypeOK, SyncsSound, Insert
<1>2. CASE mapping[r.uid] # None /\ SetSync(s, Done(r))
  BY <1>1, <1>2, PassedOver
<1>3. CASE /\ imported /\ ~Taken(s, r.uid) /\ EventIds # used
           /\ SetSync(s, Added(r, new, row, r.uid, map))
  <2>1. r.uid \in Uids /\ r.feed \in [Uids -> Entry]
    BY <1>1, RowsAre DEF ReadTrue
  <2>2. used \subseteq EventIds
    <3>1. \A o \in Syncs : DOMAIN sync[o].rows \subseteq EventIds
      BY RowsAre DEF ImportInv, ImportTypeOK
    <3> QED
      BY <3>1, AgendaIs DEF ImportInv
  <2>3. new \in EventIds /\ new \notin used
    <3>1. \E e \in EventIds : e \notin used
      BY <1>3, <2>2
    <3> QED
      BY <3>1
  <2>4. entry.allDay \in BOOLEAN /\ entry.stamp \in Stamp
    BY <2>1 DEF Entry, Stamp
  <2>5. row \in RowWritten /\ map \in Mapping /\ map.event = new
    BY <2>3, <2>4 DEF RowWritten, Mapping
  <2>6. new \notin DOMAIN agenda /\ \A o \in Syncs : new \notin DOMAIN sync[o].rows
    BY <2>3
  <2>7. new \notin r.locked
    BY <2>6 DEF ImportInv, LockedStay, Present
  <2>8. mapping[r.uid] = None /\ \A o \in Syncs \ {s} : r.uid \notin Mapped(o)
    BY <1>3 DEF Taken
  <2> HIDE DEF row, map, new, used
  <2> QED
    BY <1>1, <1>3, <2>3, <2>5, <2>6, <2>7, <2>8, OneMoreRow
<1> QED
  BY <1>2, <1>3 DEF Insert, Added

-----------------------------------------------------------------------------
(* The commit.                                                                *)

\* What the commit makes of the agenda: what was there keeps its entry and stays or is
\* gone, a row that turns all-day loses the rule it does not fit, and what is new bears
\* the entry it was written for.
LEMMA CommitAgenda ==
    ASSUME ImportInv, NEW s \in Syncs, Commit(s)
    PROVE  /\ agenda' \in Partial(EventIds, Event)
           /\ DOMAIN agenda' = DOMAIN agenda \cup DOMAIN sync[s].rows
           /\ \A e \in DOMAIN agenda :
                /\ agenda'[e].uid = agenda[e].uid /\ agenda'[e].gone = agenda[e].gone
                /\ e \notin DOMAIN sync[s].rows => agenda'[e] = agenda[e]
                /\ e \in DOMAIN sync[s].rows =>
                      /\ agenda'[e].allDay = sync[s].rows[e].allDay
                      /\ agenda'[e].rule = IF sync[s].rows[e].drops THEN "none" ELSE agenda[e].rule
           /\ \A e \in DOMAIN sync[s].rows \ DOMAIN agenda :
                /\ agenda'[e].rule = "none" /\ ~agenda'[e].gone /\ agenda'[e].uid \in Mapped(s)
                /\ sync[s].maps[agenda'[e].uid].event = e
<1> DEFINE r == sync[s]
           D == DOMAIN agenda \cup DOMAIN r.rows
<1>1. r \in SyncRecord /\ RowsSound(r)
  BY DEF ImportInv, ImportTypeOK, SyncsSound
<1>2. agenda' = [e \in D |-> IF e \in DOMAIN r.rows THEN Written(s, e) ELSE agenda[e]]
  BY DEF Commit
<1>3. /\ DOMAIN r.rows \subseteq EventIds /\ DOMAIN r.maps \subseteq Uids
      /\ \A e \in DOMAIN r.rows : r.rows[e].allDay \in BOOLEAN
  BY <1>1, RowsAre DEF RowWritten
<1>4. DOMAIN agenda \subseteq EventIds /\ \A e \in DOMAIN agenda : agenda[e] \in Event
  BY AgendaIs DEF ImportInv
<1>5. \A e \in DOMAIN r.rows \cap DOMAIN agenda :
        /\ Written(s, e) \in Event
        /\ Written(s, e).uid = agenda[e].uid /\ Written(s, e).gone = agenda[e].gone
        /\ Written(s, e).allDay = r.rows[e].allDay
        /\ Written(s, e).rule = IF r.rows[e].drops THEN "none" ELSE agenda[e].rule
  BY <1>3, <1>4 DEF Written, Event, RuleKinds
<1>6. \A e \in DOMAIN r.rows \ DOMAIN agenda :
        /\ Written(s, e) \in Event /\ Written(s, e).rule = "none" /\ ~Written(s, e).gone
        /\ Written(s, e).uid \in DOMAIN r.maps /\ r.maps[Written(s, e).uid].event = e
  <2> SUFFICES ASSUME NEW e \in DOMAIN r.rows \ DOMAIN agenda
               PROVE  /\ Written(s, e) \in Event /\ Written(s, e).rule = "none" /\ ~Written(s, e).gone
                      /\ Written(s, e).uid \in DOMAIN r.maps /\ r.maps[Written(s, e).uid].event = e
    OBVIOUS
  <2> DEFINE v == CHOOSE u \in Mapped(s) : sync[s].maps[u].event = e
  <2>1. v \in DOMAIN r.maps /\ r.maps[v].event = e
    BY <1>1 DEF RowsSound, Mapped
  <2>2. Written(s, e) = [uid |-> v, allDay |-> r.rows[e].allDay, rule |-> "none", gone |-> FALSE]
    BY DEF Written
  <2> HIDE DEF v
  <2> QED
    BY <1>3, <2>1, <2>2 DEF Event, RuleKinds
<1> DEFINE A == agenda'
<1>7. DOMAIN A = D /\ \A e \in D : A[e] = IF e \in DOMAIN r.rows THEN Written(s, e) ELSE agenda[e]
  BY <1>2
<1>8. A = [e \in D |-> A[e]] /\ \A e \in D : A[e] \in Event
  BY <1>2, <1>4, <1>5, <1>6
<1>9. A \in Partial(EventIds, Event)
  <2>1. A \in [D -> Event] /\ D \in SUBSET EventIds
    BY <1>3, <1>4, <1>8
  <2> QED
    BY <2>1 DEF Partial
<1> HIDE DEF A
<1>10. /\ \A e \in DOMAIN agenda :
            /\ A[e].uid = agenda[e].uid /\ A[e].gone = agenda[e].gone
            /\ e \notin DOMAIN r.rows => A[e] = agenda[e]
            /\ e \in DOMAIN r.rows =>
                  /\ A[e].allDay = r.rows[e].allDay
                  /\ A[e].rule = IF r.rows[e].drops THEN "none" ELSE agenda[e].rule
       /\ \A e \in DOMAIN r.rows \ DOMAIN agenda :
            /\ A[e].rule = "none" /\ ~A[e].gone
            /\ A[e].uid \in DOMAIN r.maps /\ r.maps[A[e].uid].event = e
  BY <1>5, <1>6, <1>7
<1> QED
  BY <1>7, <1>9, <1>10 DEF A, Mapped
LEMMA CommitKeeps ==
    ASSUME ImportAssumption, ImportInv, NEW s \in Syncs, Commit(s)
    PROVE  ImportInv'
<1> DEFINE r == sync[s]
           Stays(e) == e \in DOMAIN agenda' /\ ~agenda'[e].gone
<1>1. /\ r \in SyncRecord /\ ReadTrue(r) /\ MapsSound(s, r) /\ RowsSound(r)
      /\ DOMAIN r.maps \subseteq Uids /\ \A u \in DOMAIN r.maps : r.maps[u] \in Mapping
  BY RowsAre DEF ImportInv, ImportTypeOK, SyncsSound
<1>2. /\ agenda' \in Partial(EventIds, Event) /\ DOMAIN agenda' = DOMAIN agenda \cup DOMAIN r.rows
      /\ \A e \in DOMAIN agenda :
            /\ agenda'[e].uid = agenda[e].uid /\ agenda'[e].gone = agenda[e].gone
            /\ e \notin DOMAIN r.rows => agenda'[e] = agenda[e]
      /\ \A e \in DOMAIN r.rows \ DOMAIN agenda :
            /\ agenda'[e].rule = "none" /\ ~agenda'[e].gone
            /\ agenda'[e].uid \in DOMAIN r.maps /\ r.maps[agenda'[e].uid].event = e
  BY CommitAgenda DEF Mapped
<1>3. mapping' = [u \in Uids |-> IF u \in DOMAIN r.maps /\ (mapping[u] # None \/ imported)
                                THEN r.maps[u] ELSE mapping[u]]
  BY DEF Commit, Mapped
<1>4. /\ sync' \in [Syncs -> SyncRecord] /\ sync'[s] = Rest
      /\ \A o \in Syncs \ {s} : sync'[o] = sync[o]
  BY RestHoldsNothing DEF Commit, ImportInv, ImportTypeOK
<1>5. imported' = imported /\ feed' = feed /\ edits' = edits /\ removal' = removal
  BY DEF Commit
<1>6. ImportTypeOK'
  <2>1. mapping' \in [Uids -> Mapping \cup {None}]
    BY <1>1, <1>3 DEF ImportInv, ImportTypeOK
  <2> QED
    BY <1>2, <1>4, <1>5, <2>1 DEF ImportInv, ImportTypeOK
<1>7. None \notin Mapping
  BY DEF ImportAssumption, Mapping, Stamp
\* A row written is of the event of its entry, or of a new one.
<1>8. \A u \in DOMAIN r.maps : LET e == r.maps[u].event IN
        e \in DOMAIN r.rows /\ (e \in DOMAIN agenda => Present(e) /\ agenda[e].uid = u)
  BY <1>1 DEF MapsSound, ImportInv, LockedStay
<1>9. \A u \in DOMAIN r.maps : LET e == r.maps[u].event IN
        Stays(e) /\ agenda'[e].uid = u
  <2> SUFFICES ASSUME NEW u \in DOMAIN r.maps
               PROVE  Stays(r.maps[u].event) /\ agenda'[r.maps[u].event].uid = u
    OBVIOUS
  <2>1. CASE r.maps[u].event \in DOMAIN agenda
    BY <1>2, <1>8, <2>1 DEF Present
  <2>2. CASE r.maps[u].event \notin DOMAIN agenda
    BY <1>1, <1>2, <1>8, <2>2 DEF Present, RowsSound
  <2> QED
    BY <2>1, <2>2
<1>10. MappingsTrue'
  <2>1. ASSUME NEW u \in Uids, mapping'[u] # None
        PROVE  imported /\ Stays(mapping'[u].event) /\ agenda'[mapping'[u].event].uid = u
    <3>1. CASE u \in DOMAIN r.maps /\ (mapping[u] # None \/ imported)
      BY <1>3, <1>9, <3>1 DEF ImportInv, MappingsTrue
    <3>2. CASE ~(u \in DOMAIN r.maps /\ (mapping[u] # None \/ imported))
      <4>1. mapping'[u] = mapping[u]
        BY <1>3, <3>2
      <4>2. imported /\ Present(mapping[u].event) /\ agenda[mapping[u].event].uid = u
        BY <2>1, <4>1 DEF ImportInv, MappingsTrue
      <4> QED
        BY <1>2, <4>1, <4>2 DEF Present
    <3> QED
      BY <3>1, <3>2
  <2>2. ASSUME imported, NEW e \in DOMAIN agenda', Stays(e)
        PROVE  mapping'[agenda'[e].uid] # None /\ mapping'[agenda'[e].uid].event = e
    <3> DEFINE u == agenda'[e].uid
    <3>1. CASE e \in DOMAIN agenda
      <4>1. Present(e) /\ u = agenda[e].uid
        BY <1>2, <2>2, <3>1 DEF Present
      <4>2. mapping[u] # None /\ mapping[u].event = e /\ u \in Uids
        BY <2>2, <3>1, <4>1, AgendaIs DEF ImportInv, MappingsTrue
      <4>3. u \in DOMAIN r.maps => r.maps[u].event = e
        <5> SUFFICES ASSUME u \in DOMAIN r.maps
                     PROVE  r.maps[u].event = e
          OBVIOUS
        <5>1. r.maps[u].event \in r.locked
          BY <1>1, <4>2 DEF MapsSound
        <5>2. Present(r.maps[u].event) /\ agenda[r.maps[u].event].uid = u
          BY <1>8, <5>1 DEF ImportInv, LockedStay, Present
        <5> QED
          BY <4>1, <5>2 DEF ImportInv, EventOnce, Present
      <4> QED
        BY <1>1, <1>3, <1>7, <2>2, <4>2, <4>3
    <3>2. CASE e \notin DOMAIN agenda
      BY <1>1, <1>2, <1>3, <1>7, <2>2, <3>2
    <3> QED
      BY <3>1, <3>2
  <2> QED
    BY <1>5, <2>1, <2>2 DEF MappingsTrue, Present
<1>11. EventOnce'
  <2>1. CASE imported
    BY <1>5, <1>10, <2>1 DEF EventOnce, MappingsTrue, Present
  <2>2. CASE ~imported
    <3>1. DOMAIN r.rows \subseteq DOMAIN agenda
      BY <1>1, <2>2 DEF MapsSound, RowsSound, ImportInv, LockedStay, Present
    <3>2. DOMAIN agenda' = DOMAIN agenda /\ \A e \in DOMAIN agenda : Present(e)' <=> Present(e)
      BY <1>2, <3>1 DEF Present
    <3> QED
      BY <1>2, <3>2 DEF ImportInv, EventOnce
  <2> QED
    BY <2>1, <2>2
<1>12. RuleFits'
  <2> SUFFICES ASSUME NEW e \in DOMAIN agenda', Present(e)', agenda'[e].allDay
               PROVE  agenda'[e].rule # "hourly"
    BY DEF RuleFits
  <2>1. CASE e \notin DOMAIN agenda
    BY <1>2, <2>1
  <2>2. CASE e \in DOMAIN agenda /\ e \notin DOMAIN r.rows
    BY <1>2, <2>2 DEF ImportInv, RuleFits, Present
  <2>3. CASE e \in DOMAIN agenda /\ e \in DOMAIN r.rows
    <3>1. e \in r.locked
      BY <1>1, <2>3 DEF RowsSound, MapsSound
    <3>2. r.rows[e].drops = DropsRule(r.rows[e].allDay, agenda[e].rule)
      BY <1>1, <2>3, <3>1 DEF RowsSound
    <3>3. /\ agenda'[e].allDay = r.rows[e].allDay
          /\ agenda'[e].rule = IF r.rows[e].drops THEN "none" ELSE agenda[e].rule
      BY <2>3, CommitAgenda
    <3> QED
      BY <3>2, <3>3 DEF DropsRule
  <2> QED
    BY <2>1, <2>2, <2>3
<1>13. LocksApart'
  BY <1>4, RestHoldsNothing DEF ImportInv, LocksApart, LockedBy
<1>14. LockedStay'
  <2> SUFFICES ASSUME NEW o \in Syncs, NEW e \in sync'[o].locked
               PROVE  Present(e)'
    BY DEF LockedStay
  <2>1. e \in sync[o].locked
    BY <1>4, RestHoldsNothing
  <2> QED
    BY <1>2, <2>1 DEF ImportInv, LockedStay, Present
<1>15. SyncsSound'
  <2> SUFFICES ASSUME NEW o \in Syncs
               PROVE  (ReadTrue(sync[o]) /\ MapsSound(o, sync[o]) /\ RowsSound(sync[o]))'
    BY DEF SyncsSound
  <2>1. CASE o = s
    BY <1>4, <2>1, RestHoldsNothing DEF ReadTrue, MapsSound, RowsSound
  <2>2. CASE o # s
    <3> DEFINE q == sync[o]
    <3>1. sync'[o] = q /\ ReadTrue(q) /\ MapsSound(o, q) /\ RowsSound(q) /\ q \in SyncRecord
      BY <1>4, <2>2 DEF ImportInv, ImportTypeOK, SyncsSound
    <3>2. (q.locked \cup DOMAIN q.rows) \cap DOMAIN r.rows = {}
      BY <2>2 DEF ImportInv, LocksApart, LockedBy
    <3>3. \A e \in q.locked : e \in DOMAIN agenda /\ agenda'[e] = agenda[e]
      BY <1>2, <3>2 DEF ImportInv, LockedStay, Present
    <3>4. ReadTrue(q)'
      <4>1. q.seen # None => /\ q.seen.event \in DOMAIN agenda'
                             /\ agenda'[q.seen.event].uid = q.uid
        BY <1>1, <1>2, <3>1, CommitAgenda DEF ReadTrue
      <4> QED
        BY <3>1, <3>3, <4>1 DEF ReadTrue
    <3>5. RowsSound(q)'
      BY <3>1, <3>3 DEF RowsSound
    <3>6. \A p \in Syncs : \A u : u \in Mapped(p)' => p # s /\ u \in Mapped(p)
      BY <1>4, RestHoldsNothing DEF Mapped
    <3>7. DOMAIN q.maps \subseteq Uids
      BY <3>1, RowsAre
    <3>8. MapsSound(o, q)'
      <4> SUFFICES ASSUME NEW u \in DOMAIN q.maps
                   PROVE  LET e == q.maps[u].event IN
                          /\ e \in DOMAIN q.rows
                          /\ e \in q.locked => agenda'[e].uid = u
                          /\ e \notin q.locked =>
                               /\ e \notin DOMAIN agenda' /\ mapping'[u] = None /\ imported'
                               /\ \A p \in Syncs \ {o} : u \notin Mapped(p)'
        BY <3>1, <1>4, <2>2 DEF MapsSound
      <4> DEFINE e == q.maps[u].event
      <4>1. e \in DOMAIN q.rows /\ (e \in q.locked => agenda'[e].uid = u)
        BY <3>1, <3>3 DEF MapsSound
      <4>2. ASSUME e \notin q.locked
            PROVE  /\ e \notin DOMAIN agenda' /\ mapping'[u] = None /\ imported'
                   /\ \A p \in Syncs \ {o} : u \notin Mapped(p)'
        <5>1. /\ e \notin DOMAIN agenda /\ mapping[u] = None /\ imported
              /\ \A p \in Syncs \ {o} : u \notin Mapped(p)
          BY <3>1, <4>2 DEF MapsSound
        <5>2. u \notin DOMAIN r.maps
          BY <2>2, <5>1 DEF Mapped
        <5> QED
          BY <1>2, <1>3, <1>5, <3>2, <3>6, <3>7, <4>1, <5>1, <5>2
      <4> QED
        BY <4>1, <4>2
    <3> QED
      BY <3>1, <3>4, <3>5, <3>8 DEF ReadTrue, MapsSound, RowsSound
  <2> QED
    BY <2>1, <2>2
<1> QED
  BY <1>6, <1>10, <1>11, <1>12, <1>13, <1>14, <1>15 DEF ImportInv
-----------------------------------------------------------------------------
(* What goes on beside.                                                       *)

LEMMA UpstreamKeeps ==
    ASSUME ImportInv, NEW u \in Uids, Upstream(u)
    PROVE  ImportInv'
<1>1. PICK stamp \in {None} \cup {n \in 1..MaxStamp : feed[u].stamp # None /\ n > feed[u].stamp} :
        feed' = [feed EXCEPT ![u] = [stamp |-> stamp, allDay |-> ~@.allDay]]
  BY DEF Upstream
<1>2. /\ edits' = edits + 1
      /\ UNCHANGED <<imported, mapping, agenda, sync, removal>>
  BY DEF Upstream
<1>3. feed' \in [Uids -> Entry]
  <2>1. feed \in [Uids -> Entry] /\ stamp \in Stamp
    BY <1>1 DEF ImportInv, ImportTypeOK, Stamp
  <2>2. [stamp |-> stamp, allDay |-> ~feed[u].allDay] \in Entry
    BY <2>1 DEF Entry, Stamp
  <2> QED
    BY <1>1, <2>1, <2>2
<1>4. ImportTypeOK'
  BY <1>2, <1>3 DEF ImportInv, ImportTypeOK
<1>5. MappingsTrue' /\ EventOnce' /\ RuleFits'
  BY <1>2 DEF ImportInv, MappingsTrue, EventOnce, RuleFits, Present
<1>6. LocksApart' /\ LockedStay' /\ SyncsSound'
  BY <1>2, OthersMove DEF ImportInv
<1> QED
  BY <1>4, <1>5, <1>6 DEF ImportInv

LEMMA PatchKeeps ==
    ASSUME ImportInv, NEW e \in EventIds, Patch(e)
    PROVE  ImportInv'
<1>1. PICK rule \in RuleKinds, allDay \in BOOLEAN :
        /\ ~(allDay /\ rule = "hourly")
        /\ agenda' = [agenda EXCEPT ![e].rule = rule, ![e].allDay = allDay]
  BY DEF Patch
<1>2. /\ edits' = edits + 1 /\ UNCHANGED <<feed, imported, mapping, sync, removal>>
      /\ Present(e) /\ \A s \in Syncs : e \notin LockedBy(s)
  BY DEF Patch
<1>3. agenda[e] \in Event /\ e \in DOMAIN agenda
  BY <1>2, AgendaIs DEF ImportInv, Present
<1>4. /\ DOMAIN agenda' = DOMAIN agenda
      /\ \A x \in DOMAIN agenda \ {e} : agenda'[x] = agenda[x]
      /\ agenda'[e] \in Event /\ agenda'[e].uid = agenda[e].uid /\ agenda'[e].gone = agenda[e].gone
      /\ agenda'[e].rule = rule /\ agenda'[e].allDay = allDay
  BY <1>1, <1>3 DEF Event
<1>5. agenda' \in Partial(EventIds, Event)
  <2>1. PICK E \in SUBSET EventIds : agenda \in [E -> Event]
    BY DEF ImportInv, ImportTypeOK, Partial
  <2>2. agenda' \in [E -> Event]
    BY <1>1, <1>3, <1>4, <2>1
  <2> QED
    BY <2>2 DEF Partial
<1>6. ImportTypeOK'
  BY <1>2, <1>5 DEF ImportInv, ImportTypeOK
<1>7. \A x \in DOMAIN agenda : agenda'[x].uid = agenda[x].uid /\ (Present(x)' <=> Present(x))
  BY <1>4 DEF Present
<1>8. MappingsTrue' /\ EventOnce'
  BY <1>2, <1>4, <1>7 DEF ImportInv, MappingsTrue, EventOnce, Present
<1>9. RuleFits'
  BY <1>1, <1>4, <1>7 DEF ImportInv, RuleFits
<1>10. LocksApart' /\ LockedStay' /\ SyncsSound'
  BY <1>2, <1>4, <1>7, OthersMove
<1> QED
  BY <1>6, <1>8, <1>9, <1>10 DEF ImportInv

\* Events that go: no row a synchronisation holds.
LEMMA Erased ==
    ASSUME ImportInv, NEW gone, Erase(gone)
    PROVE  /\ agenda' \in Partial(EventIds, Event) /\ DOMAIN agenda' = DOMAIN agenda
           /\ \A x \in DOMAIN agenda :
                /\ agenda'[x].uid = agenda[x].uid /\ agenda'[x].rule = agenda[x].rule
                /\ agenda'[x].allDay = agenda[x].allDay
                /\ Present(x)' <=> Present(x) /\ x \notin gone
                /\ x \notin gone => agenda'[x] = agenda[x]
           /\ \A s \in Syncs : \A x \in LockedBy(s) \cap DOMAIN agenda : agenda'[x] = agenda[x]
<1>1. agenda' = [e \in DOMAIN agenda |->
                    IF e \in gone THEN [agenda[e] EXCEPT !.gone = TRUE] ELSE agenda[e]]
  BY DEF Erase
<1>2. \A e \in DOMAIN agenda : agenda[e] \in Event /\ [agenda[e] EXCEPT !.gone = TRUE] \in Event
  BY AgendaIs DEF ImportInv, Event
<1>3. DOMAIN agenda \in SUBSET EventIds
  BY AgendaIs DEF ImportInv
<1>4. agenda' \in [DOMAIN agenda -> Event]
  BY <1>1, <1>2
<1>5. agenda' \in Partial(EventIds, Event)
  BY <1>3, <1>4 DEF Partial
<1>6. \A x \in DOMAIN agenda :
        /\ agenda'[x].uid = agenda[x].uid /\ agenda'[x].rule = agenda[x].rule
        /\ agenda'[x].allDay = agenda[x].allDay
        /\ x \notin gone => agenda'[x] = agenda[x]
        /\ x \in gone => agenda'[x].gone
  BY <1>1, <1>2 DEF Event
<1>7. DOMAIN agenda' = DOMAIN agenda
  BY <1>1
<1>8. \A x \in DOMAIN agenda : Present(x)' <=> Present(x) /\ x \notin gone
  BY <1>6, <1>7 DEF Present
<1>9. \A s \in Syncs : \A x \in LockedBy(s) \cap DOMAIN agenda : agenda'[x] = agenda[x]
  BY <1>6 DEF Erase
<1> QED
  BY <1>5, <1>6, <1>7, <1>8, <1>9

LEMMA DeleteKeeps ==
    ASSUME ImportInv, NEW e \in EventIds, DeleteEvent(e)
    PROVE  ImportInv'
<1>1. /\ Present(e) /\ Erase({e}) /\ mapping' = WithoutMappingTo({e})
      /\ edits' = edits + 1 /\ UNCHANGED <<feed, imported, sync, removal>>
  BY DEF DeleteEvent
<1>2. /\ agenda' \in Partial(EventIds, Event) /\ DOMAIN agenda' = DOMAIN agenda
      /\ \A x \in DOMAIN agenda :
            /\ agenda'[x].uid = agenda[x].uid /\ agenda'[x].rule = agenda[x].rule
            /\ agenda'[x].allDay = agenda[x].allDay
            /\ Present(x)' <=> Present(x) /\ x # e
      /\ \A s \in Syncs : \A x \in LockedBy(s) \cap DOMAIN agenda : agenda'[x] = agenda[x]
  BY <1>1, Erased
<1>3. \A u \in Uids : /\ mapping[u] # None /\ mapping[u].event = e => mapping'[u] = None
                      /\ mapping[u] = None \/ mapping[u].event # e => mapping'[u] = mapping[u]
  BY <1>1 DEF WithoutMappingTo
<1>4. mapping' \in [Uids -> Mapping \cup {None}]
  BY <1>1 DEF WithoutMappingTo, ImportInv, ImportTypeOK
<1>5. ImportTypeOK'
  <2>1. /\ edits' \in Nat /\ imported' \in BOOLEAN /\ feed' \in [Uids -> Entry]
        /\ removal' = None \/ removal' \subseteq EventIds
        /\ sync' \in [Syncs -> SyncRecord]
    BY <1>1 DEF ImportInv, ImportTypeOK
  <2> QED
    BY <1>2, <1>4, <2>1 DEF ImportTypeOK
<1>6. MappingsTrue'
  <2>1. ASSUME NEW u \in Uids, mapping'[u] # None
        PROVE  mapping'[u] = mapping[u] /\ mapping[u] # None /\ mapping[u].event # e
    BY <1>3, <2>1
  <2>2. \A u \in Uids : mapping'[u] # None =>
           imported /\ LET x == mapping'[u].event IN
                       x \in DOMAIN agenda' /\ ~agenda'[x].gone /\ agenda'[x].uid = u
    BY <1>2, <2>1 DEF ImportInv, MappingsTrue, Present
  <2>3. imported => \A x \in DOMAIN agenda' : Present(x)' =>
           mapping'[agenda'[x].uid] # None /\ mapping'[agenda'[x].uid].event = x
    BY <1>2, <1>3, AgendaIs DEF ImportInv, MappingsTrue
  <2> QED
    BY <1>1, <2>2, <2>3 DEF MappingsTrue, Present
<1>7. EventOnce' /\ RuleFits'
  BY <1>2 DEF ImportInv, EventOnce, RuleFits
<1>8. LocksApart' /\ LockedStay' /\ SyncsSound'
  BY <1>1, <1>2, <1>3, OthersMove
<1> QED
  BY <1>5, <1>6, <1>7, <1>8 DEF ImportInv

LEMMA ListKeeps ==
    ASSUME ImportInv, ListEvents
    PROVE  ImportInv'
<1>1. UNCHANGED <<feed, imported, mapping, agenda, edits, sync>>
  BY DEF ListEvents
<1>2. removal' \subseteq EventIds
  BY DEF ListEvents, ImportInv, ImportTypeOK, Mapping
<1>3. ImportTypeOK'
  BY <1>1, <1>2 DEF ImportInv, ImportTypeOK
<1>4. MappingsTrue' /\ EventOnce' /\ RuleFits'
  BY <1>1 DEF ImportInv, MappingsTrue, EventOnce, RuleFits, Present
<1>5. LocksApart' /\ LockedStay' /\ SyncsSound'
  BY <1>1, OthersMove DEF ImportInv
<1> QED
  BY <1>3, <1>4, <1>5 DEF ImportInv

LEMMA RemoveKeeps ==
    ASSUME ImportInv, Remove
    PROVE  ImportInv'
<1>1. /\ Erase(removal) /\ mapping' = [u \in Uids |-> None] /\ imported' = FALSE
      /\ \A s \in Syncs : Mapped(s) = {}
      /\ UNCHANGED <<feed, edits, sync, removal>>
  BY DEF Remove
<1>2. /\ agenda' \in Partial(EventIds, Event) /\ DOMAIN agenda' = DOMAIN agenda
      /\ \A x \in DOMAIN agenda :
            /\ agenda'[x].uid = agenda[x].uid /\ agenda'[x].rule = agenda[x].rule
            /\ agenda'[x].allDay = agenda[x].allDay
            /\ Present(x)' => Present(x)
      /\ \A s \in Syncs : \A x \in LockedBy(s) \cap DOMAIN agenda : agenda'[x] = agenda[x]
  BY <1>1, Erased
<1>3. ImportTypeOK' /\ MappingsTrue'
  BY <1>1, <1>2 DEF ImportInv, ImportTypeOK, MappingsTrue
<1>4. EventOnce' /\ RuleFits'
  BY <1>2 DEF ImportInv, EventOnce, RuleFits
<1>5. LocksApart' /\ LockedStay' /\ SyncsSound'
  BY <1>1, <1>2, OthersMove
<1> QED
  BY <1>3, <1>4, <1>5 DEF ImportInv
-----------------------------------------------------------------------------
LEMMA ImportBegins ==
    ASSUME ImportAssumption, ImportInit
    PROVE  ImportInv
<1>1. agenda = <<>> /\ DOMAIN agenda = {}
  BY RestHoldsNothing DEF ImportInit
<1>2. agenda \in Partial(EventIds, Event)
  <2>1. agenda \in [{} -> Event] /\ {} \in SUBSET EventIds
    BY <1>1
  <2> QED
    BY <2>1 DEF Partial
<1>3. feed \in [Uids -> Entry]
  BY DEF ImportInit, ImportAssumption, Entry
<1>4. sync \in [Syncs -> SyncRecord] /\ \A s \in Syncs : sync[s] = Rest
  BY RestHoldsNothing DEF ImportInit
<1>5. ImportTypeOK
  BY <1>2, <1>3, <1>4 DEF ImportTypeOK, ImportInit
<1>6. MappingsTrue /\ EventOnce /\ RuleFits
  BY <1>1 DEF ImportInit, MappingsTrue, EventOnce, RuleFits
<1>7. LocksApart /\ LockedStay /\ SyncsSound
  BY <1>4, RestHoldsNothing DEF LocksApart, LockedBy, LockedStay, SyncsSound, ReadTrue, MapsSound, RowsSound
<1> QED
  BY <1>5, <1>6, <1>7 DEF ImportInv

LEMMA ImportStep ==
    ASSUME ImportAssumption, ImportInv, [ImportNext]_importVars
    PROVE  ImportInv'
<1>1. CASE UNCHANGED importVars
  <2>1. ImportTypeOK' /\ MappingsTrue' /\ EventOnce' /\ RuleFits'
    BY <1>1 DEF importVars, ImportInv, ImportTypeOK, MappingsTrue, EventOnce, RuleFits, Present
  <2>2. LocksApart' /\ LockedStay' /\ SyncsSound'
    BY <1>1, OthersMove DEF importVars
  <2> QED
    BY <2>1, <2>2 DEF ImportInv
<1>2. ASSUME NEW s \in Syncs, SyncStep(s)
      PROVE  ImportInv'
  BY <1>2, FetchKeeps, UpdateKeeps, InsertKeeps, CommitKeeps, FailKeeps, WaitRowKeeps, ReadRowKeeps DEF SyncStep
<1>3. ASSUME NEW u \in Uids, Upstream(u)
      PROVE  ImportInv'
  BY <1>3, UpstreamKeeps
<1>4. ASSUME NEW e \in EventIds, Patch(e) \/ DeleteEvent(e)
      PROVE  ImportInv'
  BY <1>4, PatchKeeps, DeleteKeeps
<1>5. CASE ListEvents \/ Remove
  BY <1>5, ListKeeps, RemoveKeeps
<1> QED
  BY <1>1, <1>2, <1>3, <1>4, <1>5 DEF ImportNext

LEMMA ImportHolds == ImportAssumption => (ImportSpec => []ImportInv)
<1>1. ASSUME ImportAssumption
      PROVE  ImportSpec => []ImportInv
  <2>1. ImportInit => ImportInv
    BY <1>1, ImportBegins
  <2>2. ImportInv /\ [ImportNext]_importVars => ImportInv'
    BY <1>1, ImportStep
  <2> QED
    BY <2>1, <2>2, PTL DEF ImportSpec
<1> QED
  BY <1>1

(* An entry of a feed never becomes two events, whatever synchronisations run *)
(* beside one another and beside whatever edits (trigger_calendar_import).    *)
THEOREM EntriesStayOne == ImportAssumption => (ImportSpec => []EventOnce)
<1>1. ImportInv => EventOnce
  BY DEF ImportInv
<1> QED
  BY <1>1, ImportHolds, PTL

(* No all-day event keeps an hourly rule, an edit and a synchronisation       *)
(* crossing each other (update_event, drops_rule_on_reimport).                *)
THEOREM RulesFit == ImportAssumption => (ImportSpec => []RuleFits)
<1>1. ImportInv => RuleFits
  BY DEF ImportInv
<1> QED
  BY <1>1, ImportHolds, PTL

(* A synchronisation takes a rule only off an event it turns all-day, and one *)
(* that steps by less than a day.                                             *)
THEOREM RulesStay == ImportAssumption => (ImportSpec => RuleKept)
<1> DEFINE Kept == \A e \in DOMAIN agenda :
        edits' = edits /\ agenda'[e].rule # agenda[e].rule
            => agenda[e].rule = "hourly" /\ agenda'[e].allDay
<1>1. ASSUME ImportInv, [ImportNext]_importVars
      PROVE  [Kept]_importVars
  <2>1. CASE agenda' = agenda
    BY <2>1
  <2>2. CASE edits' # edits
    BY <2>2
  <2>3. ASSUME NEW s \in Syncs, Commit(s)
        PROVE  Kept
    <3> SUFFICES ASSUME NEW e \in DOMAIN agenda, agenda'[e].rule # agenda[e].rule
                 PROVE  agenda[e].rule = "hourly" /\ agenda'[e].allDay
      OBVIOUS
    <3>1. /\ e \in DOMAIN sync[s].rows /\ sync[s].rows[e].drops
          /\ agenda'[e].allDay = sync[s].rows[e].allDay
      BY <1>1, <2>3, CommitAgenda
    <3>2. sync[s].rows[e].drops = DropsRule(sync[s].rows[e].allDay, agenda[e].rule)
      <4>1. MapsSound(s, sync[s]) /\ RowsSound(sync[s])
        BY <1>1 DEF ImportInv, SyncsSound
      <4>2. e \in sync[s].locked
        BY <3>1, <4>1 DEF MapsSound, RowsSound
      <4> QED
        BY <3>1, <4>1, <4>2 DEF RowsSound
    <3> QED
      BY <3>1, <3>2 DEF DropsRule
  <2>4. CASE Remove
    BY <1>1, <2>4, Erased DEF Remove
  <2>5. ASSUME NEW s \in Syncs, SyncStep(s), ~Commit(s)
        PROVE  agenda' = agenda
    BY <2>5 DEF SyncStep, Fetch, Update, Insert, Fail, WaitRow, ReadRow, SetSync
  <2>6. ASSUME NEW e \in EventIds, Patch(e) \/ DeleteEvent(e)
        PROVE  edits' # edits
    BY <1>1, <2>6 DEF Patch, DeleteEvent, ImportInv, ImportTypeOK
  <2>7. UNCHANGED importVars => agenda' = agenda
    BY DEF importVars
  <2> QED
    BY <1>1, <2>1, <2>2, <2>3, <2>4, <2>5, <2>6, <2>7 DEF ImportNext, Upstream, ListEvents
<1>2. ImportInv /\ [ImportNext]_importVars => [Kept]_importVars
  BY <1>1
<1>3. ASSUME ImportAssumption
      PROVE  ImportSpec => [][Kept]_importVars
  <2>1. ImportSpec => []ImportInv
    BY <1>3, ImportHolds
  <2> QED
    BY <1>2, <2>1, PTL DEF ImportSpec
<1> QED
  BY <1>3 DEF RuleKept
=============================================================================
