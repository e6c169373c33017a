----------------------------- MODULE Comparisons -----------------------------
(* application/comparison_context.py with application/period_comparison.py: what *)
(* a report says of a manual change, from a window before it and one after it,   *)
(* and which earlier day a day is compared with.  The house is a line of hours,  *)
(* each with its weather, its mode, hot water being made or not, or no samples   *)
(* at all; a window knows what most of its hours tell.                           *)
(* Apart from it, in the last section, the hours in which the house was heated   *)
(* and which of them may be compared (analytics/heating.py): hours of the report *)
(* at hand and of earlier ones, the same hour often in several of them, the list *)
(* cut to a bound, and comparisons among hours of one mode and one target.       *)
EXTENDS Integers, FiniteSets, FiniteSetsExt, SequencesExt

CONSTANTS Hours,                 \* [known, weather, dhw, mode]: what an hour may be like
          Day, Longest, Shortest, \* a day; the longest and shortest window
          MaxHours, MaxActions,
          Warmer, WarmerDay,     \* differences of weather that still compare
          Clocked, HourFacts,    \* what a report says of an hour: [request, outdoor, target, mode, cover, clean, steady]
          Maximum,               \* max_windows
          MaxKnown               \* bound: hours in all reports together

VARIABLES house,                 \* the hours observed so far
          actions,               \* the owner's changes: [at, exact]
          packets                \* the report at hand, then the earlier ones: hour -> facts
comparisons == <<house, actions>>
heating == <<packets>>

ComparisonsInit == house = <<>> /\ actions = {}
Observe == /\ Len(house) < MaxHours /\ \E h \in Hours : house' = Append(house, h)
           /\ UNCHANGED actions
\* A change is told at any time, of any time that is past.
Report == /\ Cardinality(actions) < MaxActions
          /\ \E at \in 0..Len(house), exact \in BOOLEAN : actions' = actions \union {[at |-> at, exact |-> exact]}
          /\ UNCHANGED house
ComparisonsNext == Observe \/ Report
-----------------------------------------------------------------------------
\* window_from_report: hour i runs from i - 1 to i; a mode is one of an hour of the day.
Unknown == "unknown"
In(start, end) == {i \in (start + 1)..end : i \in DOMAIN house}
Known(start, end) == {i \in In(start, end) : house[i].known}
Enough(start, end) == 10 * Cardinality(Known(start, end)) >= 7 * (end - start)
Sum(S, Of(_)) == MapThenSumSet(Of, S)

\* The median of hours that are all hot water or all not.
MedianShare(start, end) ==
  LET hot == Cardinality({i \in Known(start, end) : house[i].dhw})
      cold == Cardinality(Known(start, end)) - hot
  IN IF hot + cold = 0 THEN -1 ELSE IF hot > cold THEN 100 ELSE IF hot = cold THEN 50 ELSE 0

Window(start, end) ==
  [start |-> start, end |-> end, covered |-> Enough(start, end),
   weather |-> IF Enough(start, end)
               THEN <<Sum(Known(start, end), LAMBDA i : house[i].weather), Cardinality(Known(start, end))>>
               ELSE <<0, 0>>,
   dhw |-> MedianShare(start, end),
   mode |-> IF Enough(start, end) THEN {<<i % Day, house[i].mode>> : i \in Known(start, end)} ELSE {}]

\* Do two means differ by no more than that?
Near(a, b, most) == LET d == a[1] * b[2] - b[1] * a[2] IN -most * a[2] * b[2] <= d /\ d <= most * a[2] * b[2]

\* compare_periods: why two windows do not compare.
Others(before, after, own) == {a \in actions : a.at \in before.start..after.end /\ a.at # own}
OthersBetween(before, after, own) == {a \in actions : a.at \in before.end..after.start /\ a.at # own}
Seconds(before, after, own) == Others(before, after, own)
Confounders(before, after, own) ==
  {c \in {"second_intervention", "weather", "dhw", "mode"} :
     \/ c = "second_intervention" /\ Seconds(before, after, own) # {}
     \/ c = "weather" /\ before.weather[2] > 0 /\ after.weather[2] > 0 /\ ~Near(before.weather, after.weather, Warmer)
     \/ c = "dhw" /\ before.dhw >= 0 /\ after.dhw >= 0 /\ before.dhw # after.dhw
     \/ c = "mode" /\ before.mode # {} /\ after.mode # {} /\ before.mode # after.mode}
Unknowns(before, after) ==
  {u \in {"weather", "dhw", "mode"} :
     \/ u = "weather" /\ (before.weather[2] = 0 \/ after.weather[2] = 0)
     \/ u = "dhw" /\ (before.dhw < 0 \/ after.dhw < 0)
     \/ u = "mode" /\ (before.mode = {} \/ after.mode = {})}
Flags(before, after) == {w \in {before, after} : ~w.covered}
Comparable(before, after, own) ==
  Confounders(before, after, own) = {} /\ Unknowns(before, after) = {} /\ Flags(before, after) = {}

\* build_comparison_context: equal windows, the first day after the change left
\* out, where the time of the change is known and there is something after it.
Duration(at) == LET left == Len(house) - (at + Day) IN IF left < Longest THEN left ELSE Longest
Latest == {a \in actions : Cardinality({b \in actions : b.at > a.at}) < 2}
Assessed == {a \in Latest : a.exact /\ Duration(a.at) >= Shortest}
Before(a) == Window(a.at - Duration(a.at), a.at)
Following(a) == Window(a.at + Day, a.at + Day + Duration(a.at))
Outcome(a) == Comparable(Before(a), Following(a), a.at)

\* select_baseline: of the earlier days that are like this one, the nearest.
Days == {Window(Day * (d - 1), Day * d) : d \in 1..(Len(house) \div Day)}
SameWater(target, day) == target.dhw >= 0 /\ day.dhw >= 0 /\ target.dhw = day.dhw
Water(target, day) == SameWater(target, day)
Candidates(target) ==
  IF target.weather[2] = 0 \/ target.mode = {} THEN {}
  ELSE {day \in Days : /\ day.end <= target.start /\ day.covered
                       /\ day.weather[2] > 0 /\ Water(target, day)
                       /\ Near(target.weather, day.weather, WarmerDay) /\ day.mode = target.mode}
Baseline(target) == {c \in Candidates(target) : \A d \in Candidates(target) : d.end <= c.end}
-----------------------------------------------------------------------------
(* A change is said to have had an effect only if nothing else happened: from    *)
(* the beginning of the first window to the end of the second there is no other  *)
(* change, not inside a window either; the windows are equally long, the second  *)
(* begins a day later, and of either window most hours are known.                *)
Hidden(start, end) == {i \in (start + 1)..end : i \notin DOMAIN house \/ ~house[i].known}
OutcomesAreIsolated ==
  \A a \in Assessed : Outcome(a) =>
    LET before == Before(a)
        after == Following(a)
    IN /\ \A b \in actions : b.at # a.at => b.at < before.start \/ b.at > after.end
       /\ before.end = a.at /\ after.start = a.at + Day /\ after.end <= Len(house)
       /\ after.end - after.start = before.end - before.start
       /\ \A w \in {before, after} : 10 * Cardinality(Hidden(w.start, w.end)) <= 3 * (w.end - w.start)

(* The day that is chosen for comparison compares: whatever the two disagree on, *)
(* only the owner's changes or the later day's own gaps can stand in the way.    *)
ChosenCompares ==
  \A target \in Days : \A day \in Baseline(target) :
    /\ Confounders(day, target, -1) \subseteq {"second_intervention"}
    /\ Unknowns(day, target) = {} /\ Flags(day, target) \subseteq {target}

-----------------------------------------------------------------------------
Unmeasured == -1
HeatingInit == packets = << <<>>, <<>> >>

KnownHours == {<<i, h>> \in (DOMAIN packets) \X Clocked : h \in DOMAIN packets[i]}
\* An hour of temporal_evidence becomes part of a stored report.
Learn(i, h, facts) ==
    /\ h \notin DOMAIN packets[i] /\ Cardinality(KnownHours) < MaxKnown
    /\ packets' = [packets EXCEPT ![i] = [x \in DOMAIN @ \cup {h} |-> IF x = h THEN facts ELSE @[x]]]
HeatingNext == \E i \in DOMAIN packets, h \in Clocked, facts \in HourFacts : Learn(i, h, facts)

\* _window.
Activity(f) ==
    IF f.cover < 70 \/ f.request = Unmeasured THEN "unknown" ELSE IF f.request > 0 THEN "active" ELSE "inactive"
Eligible(f) == Activity(f) = "active" /\ f.clean /\ f.outdoor # Unmeasured /\ f.steady

\* deduplicated: an hour is told by the first report that has it.
Teller(h) == CHOOSE i \in DOMAIN packets : h \in DOMAIN packets[i] /\ \A j \in DOMAIN packets : h \in DOMAIN packets[j] => i <= j
Row(h) == packets[Teller(h)][h]
Told == {h \in Clocked : \E i \in DOMAIN packets : h \in DOMAIN packets[i]}
InOrder(hours) == SetToSortSeq(hours, LAMBDA a, b : a < b)
\* rows[-n:]
LastOf(seq, n) == IF Len(seq) <= n THEN seq ELSE SubSeq(seq, Len(seq) - n + 1, Len(seq))

\* round() goes to the even one of two.
Round(p, q) == LET below == p \div q IN
               IF 2 * (p % q) > q \/ (2 * (p % q) = q /\ below % 2 = 1) THEN below + 1 ELSE below
Place(index, n) == Round(index * (n - 1), Maximum - 1)
Weather(hours) ==
    SetToSortSeq(hours, LAMBDA a, b : Row(a).outdoor < Row(b).outdoor \/ (Row(a).outdoor = Row(b).outdoor /\ a < b))
\* _balanced_cap: spread over the weather.
BalancedCap(hours) ==
    LET n == Cardinality(hours) IN
    IF n <= Maximum THEN InOrder(hours)
    ELSE IF Maximum = 1 THEN LastOf(InOrder(hours), 1)
    ELSE [index \in 1 .. Maximum |-> Weather(hours)[Place(index - 1, n) + 1]]

\* build_heating_evidence.
Classed(kind) == {h \in Told : Activity(Row(h)) = kind}
Taken == {h \in Told : Eligible(Row(h))}
Half == IF Maximum \div 2 > 1 THEN Maximum \div 2 ELSE 1
Active == BalancedCap(Taken)
Inactive == LastOf(InOrder(Classed("inactive")), Half)
Unclear == LastOf(InOrder(Classed("unknown") \cup (Classed("active") \ Taken)), Half)

\* _comparisons: groups of at least two.
Alike(h) == <<Row(h).mode, Row(h).target>>
Groups == {{h \in Range(Active) : Alike(h) = key} : key \in {Alike(h) : h \in Range(Active)}}
Compared == {group \in Groups : Cardinality(group) > 1}

(* However the hours overlap and however many there are: each is counted once, as the report   *)
(* at hand tells it; the list is full, has no hour twice and keeps the coldest and the warmest *)
(* weather; only clean hours of heating are in it, and hours are compared only with hours of   *)
(* the same mode and the same target (build_heating_evidence, _balanced_cap, _comparisons).    *)
EvidenceIsFair ==
    /\ Len(Active) = IF Cardinality(Taken) < Maximum THEN Cardinality(Taken) ELSE Maximum
    /\ IsInjective(Active)
    /\ \A h \in Range(Active) : LET f == Row(h) IN f.request > 0 /\ f.clean /\ f.cover >= 70 /\ f.steady
    /\ \A h \in Range(Active) \cup Range(Inactive) : h \in DOMAIN packets[1] => Row(h) = packets[1][h]
    /\ Cardinality(Taken) > 0 /\ Maximum > 1 =>
          \A h \in Taken : \E a, b \in Range(Active) : Row(a).outdoor <= Row(h).outdoor /\ Row(h).outdoor <= Row(b).outdoor
    /\ \A group \in Compared : \A a, b \in group : Row(a).mode = Row(b).mode /\ Row(a).target = Row(b).target
    /\ Range(Active) \cap (Range(Inactive) \cup Range(Unclear)) = {}
=============================================================================
