----------------------------- MODULE LongPeriods -----------------------------
(* The calendar and what is counted by it: domain/periods.py, the periods that   *)
(* are due and when one is analysed again (application/period_schedule.py), and  *)
(* the month or season put together from the reports of its days                 *)
(* (application/long_periods.py).  A day is as long as the clocks make it: it    *)
(* runs from one local midnight to the next.                                     *)
EXTENDS Integers, FiniteSets, FiniteSetsExt, Functions

CONSTANTS Midnight,              \* the instant each day begins, as a function on 0..n
          Week, MonthStarts, Boundaries,
          Facts,                 \* [count, ratio, over, target, known] of a daily report
          First,                 \* the first day with a sample
          MaxChanges, MaxReports

LastDay == Cardinality(DOMAIN Midnight) - 2
VARIABLES today, seasons,        \* the current day; the days on which seasons begin
          daily,                 \* the stored daily reports
          data,                  \* how often the samples of a day have changed
          saved, bought,         \* the latest report of a period; every analysis made
          changes
periods == <<today, seasons, daily, data, saved, bought, changes>>

NoReport == [observed |-> -1, signature |-> <<>>]
PeriodKeys == {"weekly", "monthly", "seasonal"} \X (0..LastDay)

PeriodsInit ==
  /\ today = First + 1 /\ seasons \in Boundaries
  /\ daily = {} /\ data = [d \in 0..LastDay |-> 0]
  /\ saved = [k \in PeriodKeys |-> NoReport] /\ bought = {} /\ changes = 0
-----------------------------------------------------------------------------
\* calendar_period and season_period: from one boundary to the next.
After(starts, d) == Min({s \in starts : s > d} \union {LastDay})
From(starts, d) == Max({s \in starts : s <= d})
WeekStarts == {d \in 0..LastDay : d % Week = 0}
Period(kind, starts, d) == [kind |-> kind, first |-> From(starts, d), after |-> After(starts, d)]
ObservedTo(p, cutoff) == [kind |-> p.kind, first |-> p.first, after |-> p.after,
                          observed |-> IF p.after < cutoff THEN p.after ELSE cutoff]
Whole(p) == p.observed = p.after

\* scheduled_periods: complete weeks and months; a season that is complete, or
\* the running one up to the last Monday.
Monday == From(WeekStarts, today)
Calendar(kind, starts) ==
  {p \in {ObservedTo(Period(kind, starts, d), LastDay) : d \in First..(today - 1)} : p.after <= today}
RunsTo == Monday
Season(d) == LET p == Period("seasonal", seasons, d)
                 full == ObservedTo(p, today)
             IN IF Whole(full) THEN full ELSE ObservedTo(p, RunsTo)
Seasonal == {p \in {Season(s) : s \in seasons} : p.observed > p.first /\ p.after > First}
Scheduled == Calendar("weekly", WeekStarts) \union Calendar("monthly", MonthStarts) \union Seasonal

\* The latest week, month and the running season come before the rest, and of
\* the rest the latest first.
Leading(all, kind) == {p \in all : /\ p.kind = kind
                         /\ IF kind = "seasonal" THEN p.first = From(seasons, today - 1)
                            ELSE \A q \in all : q.kind = kind => q.first <= p.first}
Order == <<"weekly", "monthly", "seasonal">>
Rank(all, p) == IF p \in Leading(all, p.kind) THEN CHOOSE i \in 1..3 : Order[i] = p.kind ELSE 4 + LastDay - p.first

\* schedule_signature and _already_current: a season that goes on is analysed
\* once for a week, whatever is corrected in between.
Signature(p) == <<p, seasons, [d \in p.first..(p.observed - 1) |-> data[d]]>>
Stored(p) == saved[<<p.kind, p.first>>]
Unchanged(p) == Stored(p).signature = Signature(p)
AlreadyCurrent(p) == Unchanged(p) \/ (p.kind = "seasonal" /\ ~Whole(p) /\ Stored(p).observed >= p.observed)

\* Reports made, of days and of longer periods.
Working == Cardinality(bought) + Cardinality(daily) < MaxReports

RunSchedule ==
  /\ Working
  /\ LET all == Scheduled
         due == {<<Rank(all, p), p>> : p \in {p \in all : ~AlreadyCurrent(p)}}
     IN \E <<rank, p>> \in due :
          /\ \A other \in due : rank <= other[1]
          /\ saved' = [saved EXCEPT ![<<p.kind, p.first>>] = [observed |-> p.observed, signature |-> Signature(p)]]
          /\ bought' = bought \union {<<p, Cardinality({b \in bought : b[1] = p}) + 1>>}
  /\ UNCHANGED <<today, seasons, daily, data, changes>>

NextDay == /\ today < LastDay /\ today' = today + 1
           /\ UNCHANGED <<seasons, daily, data, saved, bought, changes>>
OwnerMovesSeasons ==
  /\ changes < MaxChanges /\ changes' = changes + 1
  /\ \E b \in Boundaries \ {seasons} : seasons' = b
  /\ UNCHANGED <<today, daily, data, saved, bought>>
DataChanges ==
  /\ changes < MaxChanges /\ changes' = changes + 1
  /\ \E d \in First..(today - 1) : data' = [data EXCEPT ![d] = @ + 1]
  /\ UNCHANGED <<today, seasons, daily, saved, bought>>

\* A daily report: of yesterday, of a day that goes on, of another day's
\* end (another time zone), by this release or a second one beside an older; what
\* a report says that is left out of a longer one is of no interest.  A daily report
\* is not an input of a signature, and so is stored before anything is analysed.
SaveDaily ==
  /\ bought = {} /\ Cardinality(daily) < MaxReports - 1
  /\ \E d \in {today - 1, today}, early \in {0, 1}, shift \in {0, 1} :
       \E f \in IF early + shift = 0 THEN Facts ELSE {CHOOSE g \in Facts : TRUE} :
       /\ d = today => early = 1 /\ shift = 0
       /\ early + shift < 2
       /\ daily' = daily \union {[start |-> Midnight[d], end |-> Midnight[d + 1] - shift, version |-> Cardinality(daily),
                                  done |-> early = 0, facts |-> f]}
  /\ UNCHANGED <<today, seasons, data, saved, bought, changes>>

PeriodsNext == RunSchedule \/ NextDay \/ OwnerMovesSeasons \/ DataChanges \/ SaveDaily
-----------------------------------------------------------------------------
\* aggregate_long_period.  Of every start the version generated last.
Begin(p) == Midnight[p.first]
End(p) == Midnight[p.observed]
Rows(p) == {r \in daily : r.start >= Begin(p) /\ r.end <= End(p)}
Streamed(p) == {r \in Rows(p) : \A s \in Rows(p) : s.start = r.start => s.version <= r.version}
Expected(p) == p.first..(p.observed - 1)
DayOf(p, r) == {d \in Expected(p) : r.start = Midnight[d] /\ r.end = Midnight[d + 1]}
Used(p) == {r \in Streamed(p) : DayOf(p, r) # {} /\ r.done}
Length(r) == r.end - r.start
Total(of) == MapThenSumSet(LAMBDA r : of[r], DOMAIN of)

Included(p, used) == {d \in Expected(p) : \E r \in used : d \in DayOf(p, r)}
DayLength(d) == Midnight[d + 1] - Midnight[d]
\* _longest_missing_seconds: what is missing in a row, up to each day.
MissingTo(p, included) ==
  LET run[d \in (p.first - 1)..(p.observed - 1)] ==
        IF d < p.first \/ d \in included THEN 0 ELSE run[d - 1] + DayLength(d)
  IN run
LongestMissing(p, included) == Max(Range(MissingTo(p, included)))

Aggregate(p) ==
  LET used == Used(p)
      rated == {r \in used : r.facts.over > 0}
      aimed == {r \in used : r.facts.known > 0}
  IN [seconds |-> Total([r \in used |-> Length(r)]), gap |-> LongestMissing(p, Included(p, used)),
      count |-> Total([r \in used |-> r.facts.count]),
      \* a rate is weighted by what it is a share of, a target by the time it is known
      ratio |-> <<Total([r \in rated |-> r.facts.ratio * r.facts.over]), Total([r \in rated |-> r.facts.over])>>,
      target |-> <<Total([r \in aimed |-> r.facts.target * Length(r) * r.facts.known]),
                   Total([r \in aimed |-> Length(r) * r.facts.known])>>]
-----------------------------------------------------------------------------
(* The periods that are due are the calendar: of the days that are over, every   *)
(* whole week, month and season is due exactly once, and the running season as   *)
(* far as its last Monday; nothing reaches into a day that is not over.          *)
Over == First..(today - 1)
Holding(all, kind, d) == {p \in all : p.kind = kind /\ d \in p.first..(p.observed - 1)}
SameIn(starts, d) == {e \in 0..(LastDay - 1) : From(starts, e) = From(starts, d)}
Once(all, kind, starts, d) ==
  Cardinality(Holding(all, kind, d)) =
    IF SameIn(starts, d) \subseteq 0..(today - 1) \/ (kind = "seasonal" /\ d < Monday) THEN 1 ELSE 0
ScheduleIsTheCalendar ==
  LET all == Scheduled
  IN /\ \A p \in all : p.observed <= today
     /\ \A d \in Over : /\ Once(all, "weekly", WeekStarts, d) /\ Once(all, "monthly", MonthStarts, d)
                        /\ Once(all, "seasonal", seasons, d)

(* A season that goes on is analysed at most once up to the same Monday, though  *)
(* samples, boundaries and reports change all the time.                          *)
OncePerCheckpoint == \A b \in bought : b[1].kind = "seasonal" /\ ~Whole(b[1]) => b[2] = 1

(* A long period is counted instant by instant: an instant counts if the latest  *)
(* report of its day is complete and covers exactly the local day, and then      *)
(* once; the gap is the longest run of instants that do not count; means stay    *)
(* between the values they are made of.                                          *)
Instants ==
  UNION {r.start..(r.end - 1) :
           r \in {r \in daily : /\ r.done /\ \E d \in 0..LastDay : r.start = Midnight[d] /\ r.end = Midnight[d + 1]
                               /\ ~\E s \in daily : s.start = r.start /\ s.version > r.version}}
Between(pair, values) == pair[2] > 0 => /\ pair[1] >= Min(values) * pair[2] /\ pair[1] <= Max(values) * pair[2]
Silent(p, length, counted) ==
  \E u \in Begin(p)..(End(p) - length) : (u..(u + length - 1)) \intersect counted = {}
CountedByInstants ==
  LET instants == Instants IN
  bought = {} => \A p \in Scheduled :
    LET a == Aggregate(p)
        counted == instants \intersect (Begin(p)..(End(p) - 1))
    IN /\ a.seconds = Cardinality(counted)
       /\ Silent(p, a.gap, counted) /\ ~Silent(p, a.gap + 1, counted)
       /\ Between(a.ratio, {f.ratio : f \in Facts}) /\ Between(a.target, {f.target : f \in Facts})
=============================================================================
