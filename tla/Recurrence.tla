------------------------------ MODULE Recurrence ------------------------------
(***************************************************************************)
(* The occurrences of the recurring events of a group, through the edits   *)
(* that take one out of its series, split it, move it or complete a task.  *)
(*                                                                         *)
(* A series is stored as an instant and a rule, and unrolled on the clock  *)
(* of Paris: agenda/recurrence.rs. Twice in an instance that clock changes,*)
(* skipping an hour, then repeating one. `plan` is what the edits ask for, *)
(* occurrence by occurrence; `repeating` is what the rows hold, where each *)
(* edit is written as bounds, counts and instants.                         *)
(*                                                                         *)
(* A unit of time is half an hour, so that a second off an hour is another *)
(* instant: it stands for the second too. Durations, assignees and the BY* *)
(* parts of a rule are left out, and so are edits of events without a rule.*)
(***************************************************************************)
EXTENDS Integers, Sequences, FiniteSets, FiniteSetsExt

CONSTANTS
    DayLength,      \* units in a day
    GapDay,         \* the day that skips an hour, its second
    FoldDay,        \* a later day that repeats that hour
    LastDay,        \* the last day looked at
    Starts,         \* the instants a first series may start at
    SeriesRules,    \* rules: their step, hours or days, their COUNT and their UNTIL,
                    \* and the edits made to a series of this rule, in an instance
    Windows,        \* the windows asked for
    MaxOccurrences, \* MAX_OCCURRENCES
    MaxSeries,      \* events, in an instance
    Unset           \* no rule, no COUNT, no UNTIL

SeriesAssumption ==
    /\ DayLength \in Nat /\ DayLength >= 6   \* three hours
    /\ {GapDay, FoldDay, LastDay} \subseteq Nat /\ GapDay < FoldDay /\ FoldDay < LastDay
    /\ Starts \subseteq Int /\ MaxOccurrences \in Nat \ {0}
    /\ Unset \notin Int \cup [step : Nat, count : Int \cup {Unset}, until : Int \cup {Unset}]
    /\ \A r \in SeriesRules :
         /\ r.step \in Nat /\ r.step >= 2      \* an hour
         /\ r.count \in Nat \ {0} \/ r.count = Unset
         /\ r.until \in Int \/ r.until = Unset
         /\ r.edits \in Nat
    /\ Windows \subseteq Int \X Int
    /\ \A w \in Windows : w[1] <= w[2] /\ w[2] <= (LastDay + 1) * DayLength

VARIABLES
    repeating,      \* events, by the order of their creation
    plan,           \* history: the occurrences asked for
    unkept,         \* history: why the code says an event may not keep its plan
    editsLeft       \* edits still to make

seriesVars == <<repeating, plan, unkept, editsLeft>>

Hour == 2
Second == 1

-----------------------------------------------------------------------------
(* The clock of Paris.                                                     *)

Winter == Hour
Summer == 2 * Hour
GapAt == GapDay * DayLength + Hour - Winter
FoldAt == FoldDay * DayLength + 2 * Hour - Summer
ZoneOffset(t) == IF t >= GapAt /\ t < FoldAt THEN Summer ELSE Winter

Wall(t) == t + ZoneOffset(t)
\* The instants a wall clock names: one, two, or none.
Named(w) == {t \in {w - Winter, w - Summer} : Wall(t) = w}

Date(t) == Wall(t) \div DayLength
StartOfDay(d) == Min(Named(d * DayLength))
ChangesOn(d) == d \in {GapDay, FoldDay}

IsSecondPass(t) == t # Min(Named(Wall(t)))
FirstPass(t) == Min(Named(Wall(t)))
SecondPass(t) == Max(Named(Wall(t)))
FollowsSkippedHour(t) == Named(Wall(t) - Hour) = {}

-----------------------------------------------------------------------------
(* The unroll (occurrences_in).                                            *)

\* The rrule library walks the wall clocks of a rule; a skipped one is read with
\* the offset before the gap, a repeated one on its first pass.
Resolve(w) == IF Named(w) = {} THEN w - Winter ELSE Min(Named(w))
\* The steps from an anchor that matter: what is further is past the last day.
Steps(anchor, step) ==
    LET n == ((LastDay + 2) * DayLength - anchor) \div step + 1 IN IF n > 0 THEN n ELSE 0

\* The rule set is refused: it ends before it starts.
Refused(rule, anchor) == rule.until # Unset /\ rule.until < anchor

\* first_time: what was produced in the hour after a gap, and forgotten two
\* hours later.
FirstTime(seen, t) == FollowsSkippedHour(t) => t \notin seen
SeenAfter(seen, t) ==
    IF FollowsSkippedHour(t) THEN seen \cup {t}
    ELSE IF seen # {} /\ t > Max(seen) + 2 * Hour THEN {} ELSE seen

\* COUNT and MAX_OCCURRENCES are spent on distinct instants, the latter in the
\* window only; the walk stops past the window, and where the rule ends.
NotWalked == [seen |-> {}, distinct |-> 0, past |-> FALSE, dates |-> {}]
Walked(w, rule, t, after, before) ==
    IF \/ w.past
       \/ Cardinality(w.dates) >= MaxOccurrences
       \/ rule.count # Unset /\ w.distinct >= rule.count
       \/ rule.until # Unset /\ t > rule.until
    THEN w
    ELSE IF ~FirstTime(w.seen, t) THEN [w EXCEPT !.seen = SeenAfter(@, t)]
    ELSE [seen |-> SeenAfter(w.seen, t), distinct |-> w.distinct + 1, past |-> t > before,
          dates |-> w.dates \cup ({t} \cap (after..before))]

OccurrencesIn(rule, anchor, after, before) ==
    LET walk[k \in 0..Steps(anchor, rule.step)] ==
            IF k = 0 THEN NotWalked
            ELSE Walked(walk[k - 1], rule, Resolve(Wall(anchor) + (k - 1) * rule.step), after, before)
    IN walk[Steps(anchor, rule.step)].dates

-----------------------------------------------------------------------------
(* Listing and finding occurrences.                                        *)

\* expand_occurrences.
ExpandTimed(rule, start, from, to) ==
    IF ~IsSecondPass(start) THEN OccurrencesIn(rule, start, from - Second, to + Second)
    ELSE LET wide == OccurrencesIn(rule, FirstPass(start), from - Second - Hour, to + Second + Hour)
         IN {SecondPass(t) : t \in wide} \cap (from..to)

\* An all-day rule ends on the day its UNTIL names in UTC.
AllDayRule(rule) ==
    [rule EXCEPT !.until = IF @ = Unset THEN Unset ELSE StartOfDay(@ \div DayLength)]

\* expand_all_day_occurrences.
ExpandAllDay(rule, start, from, to) ==
    {StartOfDay(Date(t)) : t \in OccurrencesIn(AllDayRule(rule), StartOfDay(Date(start)), from, to)}

Anchor(s) == IF s.allDay THEN StartOfDay(Date(s.start)) ELSE FirstPass(s.start)
Unrolls(s) == ~Refused(IF s.allDay THEN AllDayRule(s.rule) ELSE s.rule, Anchor(s))

\* expand_series before the exclusions.
Expand(s, from, to) ==
    IF s.allDay THEN ExpandAllDay(s.rule, s.start, from, to) ELSE ExpandTimed(s.rule, s.start, from, to)

\* An exclusion names an instant, or a day.
Excludes(s, t) ==
    IF s.allDay THEN \E x \in s.exdates : Date(x) = Date(t) ELSE t \in s.exdates

\* row_spans: the row on its own when it has no rule, or one that does not unroll.
Listed(s, from, to) ==
    IF s.rule = Unset \/ ~Unrolls(s) THEN {s.start} \cap (from..to)
    ELSE {t \in Expand(s, from, to) : ~Excludes(s, t)}

\* Mutant: the excluded occurrences are not counted.
BeforeListed(s, t) == Cardinality({u \in Listed(s, s.start - DayLength, t) : u < t})
\* locate_occurrence: how many the rule produces before the one that starts then.
ProducedBefore(s, t) == Cardinality({u \in Expand(s, s.start - DayLength, t + DayLength) : u < t})
\* The occurrences that can be located: each in the unroll to a day after it, which
\* the cap ends where it ends this one, being spent in order.
Located(s) == {t \in Expand(s, s.start - DayLength, (LastDay + 1) * DayLength) : ~Excludes(s, t)}

-----------------------------------------------------------------------------
(* What the edits ask for, occurrence by occurrence.                       *)

\* The k-th after the start, on the second pass of a repeated hour if the start is.
Kth(p, k) ==
    LET t == Resolve(Wall(p.start) + k * p.step) IN
    IF p.allDay THEN StartOfDay(Date(p.start) + k * (p.step \div DayLength))
    ELSE IF IsSecondPass(p.start) THEN SecondPass(t) ELSE t
\* Up to the end asked for, read on the day it names or on the first pass.
Within(p, t) ==
    p.until # Unset => IF p.allDay THEN Date(t) <= p.until \div DayLength ELSE FirstPass(t) <= p.until

Every(p) ==
    IF p.step = Unset THEN {p.start}
    ELSE {t \in {Kth(p, k) : k \in 0..Steps(p.start, p.step)} : Within(p, t)}
\* An occurrence is known by its place among the distinct ones.
Ordinal(p, t) == Cardinality({u \in Every(p) : u <= t})
Planned(p) == {t \in Every(p) : p.count # Unset => Ordinal(p, t) <= p.count}

\* The ordinals after the n-th, counted from there.
From(ordinals, n) == {k - n : k \in {o \in ordinals : o > n}}

\* An occurrence of the hour that is skipped, put on the next.
Displaced(p, t) == ~p.allDay /\ (Wall(t) - Wall(p.start)) % p.step # 0

-----------------------------------------------------------------------------
(* The edits.                                                              *)

Moved(s, x, t, to) == IF s.allDay THEN StartOfDay(Date(x) + Date(to) - Date(t)) ELSE x + to - t
\* carried_over: the instants from t on, moved as the series moves.
CarriedOver(s, instants, t, to) ==
    {Moved(s, x, t, to) : x \in {y \in instants : IF s.allDay THEN Date(y) >= Date(t) ELSE y >= t}}

\* truncated_before.
TruncatedBefore(s, t) ==
    [s.rule EXCEPT !.count = Unset,
                   !.until = IF s.allDay THEN Date(t) * DayLength - Second ELSE FirstPass(t) - Second]

\* continued_after.
ContinuedAfter(rule, produced) ==
    [rule EXCEPT !.count = IF @ = Unset THEN Unset ELSE @ - produced]

\* Where an occurrence may be moved: all-day by a day, another within its day.
Moves(s, t) ==
    IF s.allDay THEN {t, StartOfDay(Date(t) + 1)}
    ELSE {u \in t - DayLength..t + DayLength : Date(u) = Date(t) /\ Wall(u) % Hour = Wall(t) % Hour}

\* Why the new series may not keep the plan: cut on a skipped hour, or moved
\* within the day with something on, or moved to, a day the clock changes.
Reasons(i, t, to, carried) ==
    (IF Displaced(plan[i], t) THEN {"skipped hour"} ELSE {})
    \cup IF /\ ~repeating[i].allDay /\ to # t
            /\ \E x \in {t} \cup carried :
                 ChangesOn(Date(x)) \/ ChangesOn((Wall(x) + Wall(to) - Wall(t)) \div DayLength)
         THEN {"moved"} ELSE {}

EditLeft == editsLeft > 0 /\ editsLeft' = editsLeft - 1
NewSeries(i, s, p, cut, planned, why) ==
    /\ Len(repeating) < MaxSeries
    /\ repeating' = Append([repeating EXCEPT ![i] = cut], s)
    /\ plan' = Append([plan EXCEPT ![i] = planned], p)
    /\ unkept' = Append(unkept, why)

\* split_series, this occurrence: a one-off event takes its place, completed
\* if it was.
split_this(i, t, to) ==
    LET s == repeating[i]
        p == plan[i]
        done == IF t \in s.done THEN {to} ELSE {}
        wasDone == IF Ordinal(p, t) \in p.done THEN {1} ELSE {}
    IN
    /\ EditLeft
    /\ NewSeries(i, [s EXCEPT !.start = to, !.rule = Unset, !.exdates = {}, !.done = done],
                    [p EXCEPT !.start = to, !.step = Unset, !.skipped = {}, !.done = wasDone],
                    [s EXCEPT !.exdates = @ \cup {t}, !.done = @ \ {t}],
                    [p EXCEPT !.skipped = @ \cup {Ordinal(p, t)}, !.done = @ \ {Ordinal(p, t)}],
                    unkept[i])

\* split_series, this one and the following: the series is cut before it and
\* another carries on, with its exclusions and completions from there.
split_following(i, t, to) ==
    LET s == repeating[i]
        p == plan[i]
        produced == ProducedBefore(s, t)
        carried == {x \in s.exdates \cup s.done : x >= t}
        tail == [s EXCEPT !.start = to, !.rule = ContinuedAfter(@, produced),
                          !.exdates = CarriedOver(s, @, t, to), !.done = CarriedOver(s, @, t, to)]
        n == Ordinal(p, t) - 1
    IN
    /\ EditLeft
    /\ produced > 0 /\ Unrolls(tail)
    /\ NewSeries(i, tail,
                    [p EXCEPT !.start = to, !.count = IF @ = Unset THEN Unset ELSE @ - n,
                              !.skipped = From(@, n), !.done = From(@, n)],
                    [s EXCEPT !.rule = TruncatedBefore(s, t), !.done = {x \in @ : x < t}],
                    [p EXCEPT !.count = Unset, !.done = {k \in @ : k <= n},
                              !.until = (IF s.allDay THEN Date(t) * DayLength ELSE t) - Second],
                    unkept[i] \cup Reasons(i, t, to, carried))

\* set_occurrence_completion, of a task and of an occurrence the agenda lists. Asked of
\* another instant, it would mark nothing the agenda lists.
Complete(i, t) ==
    /\ EditLeft
    /\ \E completed \in BOOLEAN :
        /\ repeating' = [repeating EXCEPT ![i].done = IF completed THEN @ \cup {t} ELSE @ \ {t}]
        /\ plan' = [plan EXCEPT ![i].done = IF completed THEN @ \cup {Ordinal(plan[i], t)}
                                            ELSE @ \ {Ordinal(plan[i], t)}]
    /\ UNCHANGED unkept

SeriesInit ==
    \E start \in Starts, allDay \in BOOLEAN, r \in SeriesRules :
        LET s == [start |-> start, allDay |-> allDay,
                  rule |-> [step |-> r.step, count |-> r.count, until |-> r.until],
                  exdates |-> {}, done |-> {}]
        IN
        /\ allDay => r.step % DayLength = 0 /\ start = StartOfDay(Date(start))
        /\ Unrolls(s)
        /\ repeating = <<s>> /\ unkept = <<{}>> /\ editsLeft = r.edits
        /\ plan = <<[start |-> start, allDay |-> allDay, step |-> r.step, count |-> r.count,
                     until |-> r.until, skipped |-> {}, done |-> {}]>>

SeriesNext ==
    \E i \in DOMAIN repeating :
      /\ repeating[i].rule # Unset /\ Unrolls(repeating[i])
      /\ \E t \in Located(repeating[i]) :
        \/ Complete(i, t)
        \/ \E to \in Moves(repeating[i], t) : split_this(i, t, to) \/ split_following(i, t, to)

SeriesSpec == SeriesInit /\ [][SeriesNext]_seriesVars

-----------------------------------------------------------------------------
(* Properties.                                                             *)

\* Every window lists what was planned, a second either side of it at most,
\* unless there are more than the cap; and what was done is done.
Kept(i) ==
    LET s == repeating[i]
        p == plan[i]
        planned == Planned(p)
        kept == {t \in planned : Ordinal(p, t) \notin p.skipped}
        whole == Listed(s, -DayLength, (LastDay + 1) * DayLength)
        margin == IF IsSecondPass(p.start) THEN Second + Hour ELSE Second
    IN
    /\ \A w \in Windows :
        LET listed == Listed(s, w[1], w[2]) IN
        Cardinality({FirstPass(t) : t \in planned} \cap ((w[1] - margin)..(w[2] + margin)))
          <= MaxOccurrences =>
            /\ listed \subseteq kept \cap ((w[1] - Second)..(w[2] + Second))
            /\ kept \cap (w[1]..w[2]) \subseteq listed
    /\ s.done \cap whole = {t \in planned : Ordinal(p, t) \in p.done} \cap whole

(* Whatever is excluded, split, moved and completed, on the nights the     *)
(* clock changes too, the events of the group list the occurrences asked   *)
(* for and no other, but for what split_series does not handle and what it *)
(* leaves behind (recurrence.rs, split_series).                            *)
AgendaAsPlanned == \A i \in DOMAIN repeating : unkept[i] = {} => Kept(i)

(* "A move within the day keeps its Paris wall clock on both sides of a    *)
(* change of hour, since the offset is the same at both ends of it"        *)
(* (carried_over).                                                         *)
MovesKeepTheClock == \A i \in DOMAIN repeating : unkept[i] \subseteq {"moved"} => Kept(i)
=============================================================================
