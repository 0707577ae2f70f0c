------------------------------ MODULE MCAgenda ------------------------------
(* ReminderSchedule, CalendarImport and Recurrence for TLC. A behaviour      *)
(* exercises one of the three and leaves the others as they start. Events,   *)
(* reminders and synchronisations are interchangeable.                       *)
EXTENDS ReminderSchedule, CalendarImport, Recurrence, TLC

CONSTANT Parts  \* what a behaviour may exercise

VARIABLE part

ASSUME SeriesAssumption
ASSUME ImportAssumption

\* Reminders set, refilled, copied by splits and deleted.
Splits == {"create_reminder", "refill", "update_event", "delete_reminder"}
\* Events deleted under what reads them.
Deletions == {"create_reminder", "refill", "delete_reminder", "delete_event"}
\* Events moved and given other rules, with refills.
WholeMoves == {"create_reminder", "refill", "update_all"}
\* What the refuted claim is about.
Stale == {"create_reminder", "refill", "update_event"}
AllMixes == {Splits, Deletions, WholeMoves}
OnlyStale == {Stale}

\* An event moved to one time, or given three.
SomeRules == {{2}, {1, 2, 3}}

\* A series that starts on the evening before the change, at the start of the day
\* of it, after it, and on the second pass of the hour that is repeated.
SomeStarts == {-2, 0, 4, 16}
\* Hourly by a count or an end, every two hours, daily by a count or an end; the
\* edits made to each.
SomeSeries ==
    {[step |-> 2, count |-> 5, until |-> Unset, edits |-> 2],
     [step |-> 2, count |-> Unset, until |-> 23, edits |-> 1],
     [step |-> 4, count |-> Unset, until |-> Unset, edits |-> 2],
     [step |-> 8, count |-> 3, until |-> Unset, edits |-> 3],
     [step |-> 8, count |-> Unset, until |-> 23, edits |-> 3]}
\* What the refuted claim is about.
DailySeries == {[step |-> 8, count |-> Unset, until |-> Unset, edits |-> 2]}
\* Everything, and what starts or ends within a day that changes hour.
SomeWindows == {<<-8, 32>>, <<5, 12>>, <<11, 20>>, <<13, 27>>}

\* No series, where a behaviour exercises another part.
NoSeries == repeating = <<>> /\ plan = <<>> /\ unkept = <<>> /\ editsLeft = 0

MCInit ==
    /\ part \in Parts
    /\ Init /\ (part # "reminders" => /\ listed \in [Events -> {{}, {0}}]
                                      /\ series = {} /\ handlers = WholeMoves)
    /\ ImportInit
    /\ IF part = "series" THEN SeriesInit ELSE NoSeries
MCNext ==
    /\ \/ part = "reminders" /\ Next /\ UNCHANGED <<importVars, seriesVars>>
       \/ part = "import" /\ ImportNext /\ UNCHANGED <<vars, seriesVars>>
       \/ part = "series" /\ SeriesNext /\ UNCHANGED <<vars, importVars>>
    /\ UNCHANGED part
MCSpec == MCInit /\ [][MCNext]_<<vars, importVars, seriesVars, part>>

Symmetry == Permutations(Events) \cup Permutations(Reminders) \cup Permutations(Syncs)
=============================================================================
