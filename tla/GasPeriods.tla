----------------------------- MODULE GasPeriods -----------------------------
(***************************************************************************)
(* The owner's gas meter readings: one row per day, boundaries where the   *)
(* meter was replaced or reset, and the audit trail                        *)
(* (adapters/ydb/owner_data.py:_application_gas_update,                    *)
(* application/owner_context.py:update_gas); and what the gas calculation  *)
(* makes of them (application/gas.py:GasService.intervals, model, context, *)
(* daily_values, savings; analytics/gas_savings.py).                       *)
(*                                                                         *)
(* A page may be old: the form names a reading that has been moved or      *)
(* deleted since.  The revision of the readings counts the rows of the     *)
(* audit trail.  Time is counted in half days: a reading is taken for noon *)
(* of its day, 2 * day + 1.  What the telemetry says of an interval is the *)
(* constant Seen.                                                          *)
(***************************************************************************)
EXTENDS Integers, FiniteSets, FiniteSetsExt, SequencesExt

CONSTANTS
    Days, Volumes, MaxEdits,
    Actions,      \* times of the owner's interventions
    Seen,         \* day -> does telemetry cover 80 percent of it, with flame?
    MinBaseline   \* MIN_BASELINE_INTERVALS

VARIABLES
    readings,    \* rows of gas_readings: id, day, value, meter_segment
    boundaries,  \* days of gas_meter_boundaries
    audit        \* gas_reading_audit

meter == <<readings, boundaries, audit>>

NoReading == 0          \* a form with reading_id null: a new reading is wanted
AnyReading == -1        \* a form without reading_id, of an earlier release
Default == 0            \* the segment before the first boundary
Ids == 1 .. MaxEdits

MeterInit == readings = {} /\ boundaries = {} /\ audit = <<>>

-----------------------------------------------------------------------------
\* A segment is named after the boundary that begins it.
Segment(bounds, day) ==
    LET before == {b \in bounds : b <= day}
    IN  IF before = {} THEN Default ELSE CHOOSE b \in before : \A c \in before : c <= b

On(day) == {r \in readings : r.day = day}
Existing(id, day) == IF id \in Ids THEN {r \in readings : r.id = id} ELSE On(day)

\* The conflicts that a page which is not up to date runs into.
Admitted(id, day, delete) ==
    /\ id \in Ids =>
          /\ Existing(id, day) # {}
          /\ \A r \in Existing(id, day) :
                /\ delete => r.day = day
                /\ r.day # day => r.day \notin boundaries
          /\ On(day) \subseteq Existing(id, day)
    /\ id = NoReading => On(day) = {}

\* A new boundary moves the later readings of its segment to a new one.
Resegmented(rows, bounds, day) == {[r EXCEPT !.segment = Segment(bounds, r.day)] : r \in rows}

Bounded(day, reset) == IF reset THEN boundaries \cup {day} ELSE boundaries
Kept(day, reset) ==
    IF reset /\ day \notin boundaries
    THEN Resegmented(readings, Bounded(day, reset), day) ELSE readings

\* The counter of one meter does not run backwards.
Fits(value, day, others, bounds) ==
    \A c \in others : Segment(bounds, c.day) = Segment(bounds, day) =>
        (c.day < day => c.value <= value) /\ (c.day > day => value <= c.value)

Snapshot(rows) == {[day |-> r.day, value |-> r.value] : r \in rows}
Audited(id, day, action, before, after) ==
    audit' = Append(audit, [id |-> id, day |-> day, action |-> action,
                            before |-> Snapshot(before), after |-> Snapshot(after)])

FreshId == CHOOSE id \in Ids : \A k \in DOMAIN audit : audit[k].id # id

Unchanged(old, day, value, reset) ==
    \E r \in old : r.day = day /\ r.value = value /\ (reset => day \in boundaries)

SaveReading(id, day, value, reset) ==
    /\ Admitted(id, day, FALSE)
    /\ LET old == Existing(id, day)
           bounds == Bounded(day, reset)
           moved == \E r \in old : r.day # day
           row == [id |-> IF old = {} THEN FreshId ELSE (CHOOSE r \in old : TRUE).id,
                   day |-> day, value |-> value, segment |-> Segment(bounds, day)]
       IN  /\ ~Unchanged(old, day, value, reset)
           /\ Fits(value, day, readings \ old, bounds)
           /\ boundaries' = bounds
           /\ readings' = {r \in Kept(day, reset) : r.id # row.id /\ r.day # day} \cup {row}
           /\ Audited(row.id, day,
                      CASE moved -> "move" [] reset /\ ~moved -> "reset"
                        [] old = {} /\ ~reset -> "create" [] OTHER -> "update", old, {row})

\* A form may delete a reading and set the boundary of its day at once.
DeleteReading(id, day, reset) ==
    /\ Admitted(id, day, TRUE)
    /\ \E r \in Existing(id, day) :
          /\ boundaries' = Bounded(day, reset)
          /\ readings' = {k \in Kept(day, reset) : k.day # r.day}
          /\ Audited(r.id, day, "delete", {r}, {})

UpdateGas ==
    /\ Len(audit) < MaxEdits
    /\ \E id \in Ids \cup {NoReading, AnyReading}, day \in Days, reset \in BOOLEAN :
          \/ \E value \in Volumes : SaveReading(id, day, value, reset)
          \/ DeleteReading(id, day, reset)

\* gas_for_report: the page of a day shows what was said on that day, of that day, and
\* of the reading that stands there now.
OfDay(entry, day) == \E s \in entry.before \cup entry.after : s.day = day
Visible(day) ==
    {k \in DOMAIN audit : \/ audit[k].day = day \/ OfDay(audit[k], day)
                          \/ \E r \in On(day) : audit[k].id = r.id}

-----------------------------------------------------------------------------
(* What the calculation of the gas volumes takes for granted.              *)

\* One reading a day, and one row a reading.
OneRow == \A r, s \in readings : r.day = s.day \/ r.id = s.id => r = s

\* Every row carries the segment that its day belongs to now.
SegmentsCurrent == \A r \in readings : r.segment = Segment(boundaries, r.day)

\* Within a segment the counter does not run backwards, whatever was moved,
\* corrected or deleted and whenever the boundaries were added.
MeterMonotone ==
    \A r, s \in readings : r.segment = s.segment /\ r.day < s.day => r.value <= s.value

\* The audit trail tells the whole story: its last entry of a reading is what
\* the table holds, and each entry begins where the one before it ended.
EntriesOf(id) == SelectSeq(audit, LAMBDA e : e.id = id)
AuditComplete ==
    \A id \in Ids :
        LET trail == EntriesOf(id) IN
        /\ Snapshot({r \in readings : r.id = id}) = IF trail = <<>> THEN {} ELSE Last(trail).after
        /\ \A k \in DOMAIN trail : trail[k].before = IF k = 1 THEN {} ELSE trail[k - 1].after

\* What a page shows of the past of a day explains what it shows there now, also where the
\* reading was moved in from another day or away to one.
DayIsExplained ==
    \A day \in Days :
        LET told == {k \in Visible(day) : OfDay(audit[k], day)}
        IN  /\ Snapshot(On(day)) = IF told = {} THEN {} ELSE {s \in audit[Max(told)].after : s.day = day}
            /\ \A r \in On(day), k \in DOMAIN audit : audit[k].id = r.id => k \in Visible(day)

MeterSound == OneRow /\ SegmentsCurrent /\ MeterMonotone /\ AuditComplete /\ DayIsExplained

-----------------------------------------------------------------------------
(* Intervals between readings, and what they measure.                      *)

Never == 2 * (Max(Days) + 2)
NextDay(i) == 2 * (i.to + 1)

\* Two readings one after the other measure what was burnt between them, if
\* the meter is the same and both days are over by the time `before`.
Intervals(rows, before) ==
    LET Pair(r, s) == r.segment = s.segment /\ ~\E t \in rows : r.day < t.day /\ t.day < s.day
        Interval(p) == [from |-> p[1].day, to |-> p[2].day, volume |-> p[2].value - p[1].value]
        pairs == {p \in rows \X rows : p[1].day < p[2].day /\ Pair(p[1], p[2])}
    IN  {i \in {Interval(p) : p \in pairs} : i.volume >= 0 /\ NextDay(i) <= before}

\* The gas model is fitted to the intervals that telemetry covers; from three
\* on the newest fifth checks the model that the others choose.
UsableFor(is) == {i \in is : \A d \in i.from .. i.to - 1 : Seen[d]}
Newest(is, n) == {i \in is : Cardinality({j \in is : j.to > i.to}) < n}
HeldOut(is, least) ==
    IF Cardinality(is) < least THEN {}
    ELSE Newest(is, Max({1, (Cardinality(is) + 4) \div 5}))
Model(rows, before) ==
    LET usable == UsableFor(Intervals(rows, before))
        heldout == HeldOut(usable, 3)
    IN  [fitted |-> usable, chosenBy |-> usable \ heldout, checkedBy |-> heldout,
         end |-> IF usable = {} THEN 0 ELSE Max({i.to : i \in usable})]

\* context: a report from midnight to midnight is measured if a chain of
\* intervals leads from the day it begins to the day it ends.
Measured(rows, a, b) ==
    LET inside == {i \in Intervals(rows, Never) : a <= i.from /\ i.to <= b}
    IN  IF /\ \E i \in inside : i.from = a
           /\ \E i \in inside : i.to = b
           /\ \A i \in inside : i.to = b \/ \E j \in inside : j.from = i.to
        THEN MapThenSumSet(LAMBDA i : i.volume, inside) ELSE -1

\* daily_values: only two readings on two days running measure a day.
MeasuredDay(rows, d) ==
    LET exact == {i \in Intervals(rows, Never) : i.from = d /\ i.to = d + 1}
    IN  IF exact = {} THEN -1 ELSE (CHOOSE i \in exact : TRUE).volume

-----------------------------------------------------------------------------
(* savings: intervals before and after an intervention.                    *)

\* The reading may have been taken at any time of its day.
Prior(is, when) == {i \in is : NextDay(i) <= when}
Following(is, when) == {i \in is : when + 2 <= 2 * i.from}
LastOf(is) == CHOOSE i \in is : \A j \in is : j.to <= i.to
FirstOf(is) == CHOOSE i \in is : \A j \in is : i.from <= j.from

\* fit_weather_baseline, as to which interval serves for what.
Baseline(is) == [fitted |-> is \ HeldOut(is, 5), checkedBy |-> HeldOut(is, 5)]

OthersBetween(when, before, after) ==
    {w \in Actions \ {when} : 2 * before.from + 1 <= w /\ w <= 2 * after.to + 1}

\* No interval after the intervention: the model estimates one that begins a
\* day later and is as long as the last one before.
Estimated(before, when, end) ==
    [from |-> (when + 3) \div 2, to |-> Min({end \div 2, (when + 3) \div 2 + before.to - before.from}),
     volume |-> -1]

Comparison(rows, when, end) ==
    LET is == Intervals(rows, end)
        prior == Prior(is, when)
        following == Following(is, when)
        before == LastOf(prior)
        after == IF following = {} THEN Estimated(before, when, end) ELSE FirstOf(following)
    IN  [when |-> when, before |-> before, after |-> after, baseline |-> Baseline(prior),
         measured |-> following # {}, frozen |-> Model(rows, when),
         status |-> IF OthersBetween(when, before, after) # {} THEN "confounded" ELSE "estimated"]
Savings(rows, end) ==
    {c \in {Comparison(rows, w, end) : w \in {w \in Actions : Prior(Intervals(rows, end), w) # {}}} :
        /\ c.after.from < c.after.to
        /\ Cardinality(Prior(Intervals(rows, end), c.when)) >= MinBaseline
        /\ Cardinality(c.baseline.fitted) >= MinBaseline}

-----------------------------------------------------------------------------
Value(day) == (CHOOSE r \in readings : r.day = day).value
SameMeter(a, b) == On(a) # {} /\ On(b) # {} /\ Segment(boundaries, a) = Segment(boundaries, b)

\* A report counts as measured exactly if its first and its last day have a
\* reading of one meter, and then its volume is their difference, however
\* many readings lie between them and whatever was moved or reset.
MeasuredIsTheMeter ==
    \A a, b \in Days : a < b =>
        /\ Measured(readings, a, b) = IF SameMeter(a, b) THEN Value(b) - Value(a) ELSE -1
        /\ b = a + 1 => MeasuredDay(readings, a) = Measured(readings, a, b)

\* An intervention is judged by gas that was certainly burnt before it and by
\* gas that was certainly burnt a day after it, at whatever hour the meter
\* was read; and by a gas model that knows nothing of what came after.
JudgedFairly ==
    \A c \in Savings(readings, Never) :
        /\ \A at \in 2 * c.before.to .. 2 * c.before.to + 1 : at < c.when
        /\ \A at \in 2 * c.after.from .. 2 * c.after.from + 1 : at >= c.when + 2
        /\ 2 * (c.frozen.end + 1) <= c.when \/ c.frozen.fitted = {}
        /\ \A i \in c.baseline.fitted \cup c.baseline.checkedBy : i.to < c.after.from
        /\ \A w \in Actions \ {c.when} :
              2 * (c.before.from + 1) <= w /\ w < 2 * c.after.to => c.status = "confounded"

\* Correcting what the meter showed later does not change what an earlier
\* moment knew: the intervals of the past, which old predictions rest on.
Past(rows, bounds, d) == <<{<<r.day, r.value>> : r \in {r \in rows : r.day < d}}, {b \in bounds : b < d}>>
PastStays ==
    \A d \in Days : Past(readings, boundaries, d) = Past(readings', boundaries', d)
        => Intervals(readings, 2 * d) = Intervals(readings', 2 * d)
=============================================================================
