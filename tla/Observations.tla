---------------------------- MODULE Observations ----------------------------
(***************************************************************************)
(* What the daily analysis says of a series of readings: the events of a   *)
(* room's temperature and of a burner (analytics/events.py), the shares of *)
(* a period spent around the set point and the burner's cycles             *)
(* (metrics.py), short flame flags without heat behind them (flame.py) and *)
(* the share of a period that was observed at all (quality.py).            *)
(*                                                                         *)
(* A series is a function from instants to values; it grows by readings    *)
(* that arrive in any order.  Instants are units of the shortest gap that  *)
(* is always bridged (60 s, or 600 s of quality.py's cap: see Sparse).     *)
(***************************************************************************)
EXTENDS Integers, FiniteSets, FiniteSetsExt, SequencesExt

CONSTANTS
    Instants,        \* bound: instants that readings carry
    Temperatures,    \* of the room, the set point and the flow
    Unknown,         \* a set point reported as absent
    Present,         \* the set point in force now, or Unknown
    Band,            \* comfort_band_c
    Windows,         \* bound: spans that are left out of the comparison
    LongestPulse, Response, Rise,  \* maximum_pulse_minutes, response_window_minutes, minimum_flow_rise_c
    Heartbeat,       \* the cadence a radio sensor is known to keep
    Plenty, Sparse,  \* gaps enough for a median alone; the longest cadence that is believed
    Period,          \* <<first, last>> instant of the period
    Amounts          \* bound: how much of each series a trace may hold

VARIABLES room, targets, ignored, states, carrier, amounts

observations == <<room, targets, ignored, states, carrier, amounts>>

Flags == {{}, {"fl", "ch"}, {"fl", "dhw"}, {"fl", "ch", "dhw"}}

ObservationsInit ==
    /\ room = <<>> /\ targets = <<>> /\ states = <<>> /\ carrier = <<>>
    /\ ignored \in Windows /\ amounts \in Amounts

Reading(f, t, v) == [u \in DOMAIN f \cup {t} |-> IF u = t THEN v ELSE f[u]]
Observe ==
    /\ \E t \in Instants :
          \/ /\ Cardinality(DOMAIN room) < amounts.room /\ t \notin DOMAIN room
             /\ \E v \in Temperatures : room' = Reading(room, t, v)
             /\ UNCHANGED <<targets, states, carrier>>
          \/ /\ Cardinality(DOMAIN targets) < amounts.targets /\ t \notin DOMAIN targets
             /\ \E v \in Temperatures \cup {Unknown} : targets' = Reading(targets, t, v)
             /\ UNCHANGED <<room, states, carrier>>
          \/ /\ Cardinality(DOMAIN states) < amounts.states /\ t \notin DOMAIN states
             /\ \E flags \in Flags : states' = Reading(states, t, flags)
             /\ UNCHANGED <<room, targets, carrier>>
          \/ /\ Cardinality(DOMAIN carrier) < amounts.carrier /\ t \notin DOMAIN carrier
             /\ \E v \in Temperatures : carrier' = Reading(carrier, t, v)
             /\ UNCHANGED <<room, targets, states>>
    /\ UNCHANGED <<ignored, amounts>>

-----------------------------------------------------------------------------
Sorted(ts) == [k \in 1 .. Cardinality(ts) |-> CHOOSE t \in ts : Cardinality({u \in ts : u < t}) = k - 1]
Times(f) == Sorted(DOMAIN f)
Gaps(f) == LET s == Times(f) IN SortSeq([k \in 1 .. Len(s) - 1 |-> s[k + 1] - s[k]], <)
TwiceMedian(gaps) == gaps[(Len(gaps) + 1) \div 2] + gaps[Len(gaps) \div 2 + 1]
After(f, t) == Min({u \in DOMAIN f : u > t})
Newest(f) == Max(DOMAIN f)
Inside(t, windows) == \E w \in windows : w[1] <= t /\ t < w[2]

\* _maximum_continuous_gap, four times: the events' idea of an unbroken series.
EventGap(f) == IF Len(Gaps(f)) = 0 THEN 4
               ELSE Max({4, 5 * Min({TwiceMedian(Gaps(f)), 6 * Gaps(f)[1]})})
\* The metrics' idea of it (_segments), four times.
MetricGap(f) == Max({4, 5 * TwiceMedian(Gaps(f))})
\* _segments: the instants whose value is taken to hold until the next.
Segments(f) == IF Cardinality(DOMAIN f) < 2 THEN {}
               ELSE LET longest == MetricGap(f) IN {t \in DOMAIN f \ {Newest(f)} : 4 * (After(f, t) - t) <= longest}

\* _target_transitions: polling that repeats a value changes nothing.
Before(f, t) == {u \in DOMAIN f : u < t}
Transitions == {t \in DOMAIN targets :
                   Before(targets, t) = {} \/ targets[Max(Before(targets, t))] # targets[t]}
\* The set point in force: never the present one where a history was recorded.
Target(t) == IF Transitions = {} THEN Present
             ELSE LET known == {u \in Transitions : u <= t} IN IF known = {} THEN Unknown ELSE targets[Max(known)]

Side(error) == IF error > Band THEN "above" ELSE IF error < -Band THEN "below" ELSE "none"
Size(error) == IF error < 0 THEN -error ELSE error

-----------------------------------------------------------------------------
\* detect_temperature_events, reading by reading.
Never == -1
Quiet == [kind |-> "none", from |-> Never, peak |-> 0, seen |-> Never, events |-> {}]

\* close_active
Closed(s, t) == [s EXCEPT !.kind = "none", !.from = Never, !.peak = 0,
    !.events = IF s.kind = "none" THEN @
               ELSE @ \cup {[kind |-> s.kind, from |-> s.from, to |-> t, severe |-> s.peak > 2 * Band]}]

\* The set points that came into force since the reading before this one.
Changed(s, t) == {u \in Transitions : s.seen < u /\ u <= t}
Silent(s, t, longest) == s.seen # Never /\ 4 * (t - s.seen) > longest

Compared(s, t) ==
    LET error == room[t] - Target(t)
        kind == Side(error)
    IN  IF kind # s.kind
        THEN [Closed(s, t) EXCEPT !.kind = kind, !.from = IF kind = "none" THEN Never ELSE t,
                                  !.peak = IF kind = "none" THEN 0 ELSE Size(error)]
        ELSE [s EXCEPT !.peak = IF kind = "none" THEN @ ELSE Max({@, Size(error)})]

Judge(s, t, longest) ==
    LET unbroken == IF Silent(s, t, longest) THEN Closed(s, s.seen) ELSE s
        current == IF s.seen # Never /\ Changed(s, t) # {} THEN Closed(unbroken, Min(Changed(s, t))) ELSE unbroken
    IN  [(IF Inside(t, ignored) \/ Target(t) = Unknown THEN Closed(current, t) ELSE Compared(current, t))
            EXCEPT !.seen = t]

TemperatureEvents ==
    IF room = <<>> \/ (Present = Unknown /\ Transitions = {}) THEN {}
    ELSE LET longest == EventGap(room)
         IN  Closed(FoldLeft(LAMBDA s, t : Judge(s, t, longest), Quiet, Times(room)), Newest(room)).events

\* temperature_metrics: each segment is cut where the set point changes.
Cuts(t) == {t} \cup {u \in Transitions : t < u /\ u < After(room, t)}
Shares ==
    LET whole == {t \in Segments(room) : ~Inside(t, ignored)}
        parts == {q \in UNION {{<<t, u>> : u \in Cuts(t)} : t \in whole} : Target(q[2]) # Unknown}
        Length(q) == Min({After(room, q[1])} \cup {u \in Cuts(q[1]) : u > q[2]}) - q[2]
        Error(q) == room[q[1]] - Target(q[2])
        Time(sides) == MapThenSumSet(Length, {q \in parts : Side(Error(q)) \in sides})
        Degrees(sign) == MapThenSumSet(LAMBDA q : Length(q) * Max({0, sign * Error(q)}), parts)
    IN  [whole |-> Time({"none", "above", "below"}), inside |-> Time({"none"}), above |-> Time({"above"}),
         below |-> Time({"below"}), warm |-> Degrees(1), cold |-> Degrees(-1)]

-----------------------------------------------------------------------------
\* detect_unconfirmed_burner_pulses: the flame's cycles, whatever the gaps between
\* readings, and those of them that the carrier of heat says nothing of.
Flame(f, s, t) ==
    IF "fl" \in f[t] THEN [s EXCEPT !.from = IF @ = Never THEN t ELSE @]
    ELSE [from |-> Never, cycles |-> s.cycles \cup (IF s.from = Never THEN {} ELSE {<<s.from, t>>})]
FlameCycles == FoldLeft(LAMBDA s, t : Flame(states, s, t), [from |-> Never, cycles |-> {}], Times(states)).cycles

Answers(c) == {t \in DOMAIN carrier : c[1] < t /\ t <= c[2] + Response}
Baseline(c) == Max(Before(carrier, c[1]))
Warmed(c) == \E t \in Answers(c) \cap DOMAIN carrier : carrier[t] - carrier[Baseline(c)] >= Rise
Pulses == {c \in FlameCycles :
    /\ c[2] - c[1] <= LongestPulse
    /\ Before(carrier, c[1]) # {} /\ c[1] - Baseline(c) <= Response
    /\ c[2] + Response \in Answers(c)      \* read through the window: at its last instant
    /\ ~Warmed(c)}

\* _purpose_flame_samples
Other(purpose) == IF purpose = "ch" THEN "dhw" ELSE "ch"
Burning(purpose) ==
    LET pulses == Pulses
    IN  [t \in DOMAIN states |-> {"fl", purpose} \subseteq states[t] /\ Other(purpose) \notin states[t]
                                 /\ ~Inside(t, pulses)]

\* detect_burner_events
Event(f, s, t, longest) ==
    LET gone == s.seen # Never /\ 4 * (t - s.seen) > longest
        from == IF gone THEN Never ELSE s.from
        kind == IF \E w \in ignored : from < w[2] /\ t >= w[1] THEN "control" ELSE "cycle"
    IN  IF f[t] THEN [s EXCEPT !.from = IF from = Never THEN t ELSE from, !.seen = t]
        ELSE [from |-> Never, seen |-> t,
              cycles |-> s.cycles \cup (IF from = Never THEN {} ELSE {[from |-> from, to |-> t, kind |-> kind]})]
BurnerEvents(f) ==
    LET longest == EventGap(f)
    IN  FoldLeft(LAMBDA s, t : Event(f, s, t, longest), [from |-> Never, seen |-> Never, cycles |-> {}], Times(f)).cycles

\* burner_metrics, segment by segment.
Adjacent(f, s, t) == s.ended = t
Segment(f, s, t) ==
    LET from == IF f[t] THEN (IF Adjacent(f, s, t) /\ s.from # Never THEN s.from ELSE t) ELSE Never
        over == Adjacent(f, s, t) /\ ~f[t] /\ s.from # Never
    IN  [from |-> from, ended |-> After(f, t), cycles |-> s.cycles \cup (IF over THEN {<<s.from, t>>} ELSE {})]
BurnerCycles(f) ==
    LET kept == {t \in Segments(f) : ~Inside(t, ignored)}
        s == FoldLeft(LAMBDA x, t : Segment(f, x, t), [from |-> Never, ended |-> Never, cycles |-> {}],
                      Sorted(kept))
    IN  \* the last reading, of whatever time, ends the cycle that is still open
        IF s.from # Never /\ ~f[Newest(f)] THEN s.cycles \cup {<<s.from, Newest(f)>>} ELSE s.cycles
Duty(f) ==
    LET kept == {t \in Segments(f) : ~Inside(t, ignored)}
        Time(ts) == MapThenSumSet(LAMBDA t : After(f, t) - t, ts)
    IN  <<Time({t \in kept : f[t]}), Time(kept)>>

-----------------------------------------------------------------------------
\* assess_quality: four times the gap that is accepted, and the time it leaves observed.
Accepted(f, known) ==
    IF known THEN Max({4, 10 * Heartbeat})
    ELSE LET middle == TwiceMedian(Gaps(f))
             cadence == IF Len(Gaps(f)) >= Plenty THEN middle ELSE Min({middle, 6 * Gaps(f)[1]})
         IN  Max({4, 5 * Min({cadence, 2 * Sparse})})
InPeriod(f) == [t \in {u \in DOMAIN f : Period[1] <= u /\ u <= Period[2]} |-> f[t]]
ObservedTime(f, known) ==
    IF Cardinality(DOMAIN InPeriod(f)) < 2 THEN 0
    ELSE LET g == InPeriod(f)
             accepted == Accepted(g, known)
         IN  MapThenSumSet(LAMBDA t : Min({4 * (After(g, t) - t), accepted}), DOMAIN g \ {Newest(g)})

-----------------------------------------------------------------------------
Alike(t, u) ==  \* two readings of the room between which nothing changed
    /\ 4 * (u - t) <= EventGap(room) /\ {t, u} \cap {v \in {t, u} : Inside(v, ignored)} = {}
    /\ Target(t) # Unknown /\ \A v \in t .. u : Target(v) = Target(t)
    /\ Side(room[t] - Target(t)) = Side(room[u] - Target(u))

(* An event of the room's temperature lies on one side of the band at every reading of it,     *)
(* spans no silence of the sensor, no moment at which the set point changes and no time that   *)
(* is left out; and two readings between which nothing changed are never told apart            *)
(* (detect_temperature_events; polls that repeat a set point do not split an event).           *)
EventsAreWhole ==
    LET events == TemperatureEvents
        Covers(e, t) == e.from <= t /\ t <= e.to
    IN  /\ \A e \in events :
              /\ \A t \in DOMAIN room : e.from <= t /\ t < e.to =>
                    /\ ~Inside(t, ignored) /\ Target(t) # Unknown /\ Side(room[t] - Target(t)) = e.kind
                    /\ \A u \in t .. e.to - 1 : Target(u) = Target(t)
                    /\ After(room, t) <= e.to => 4 * (After(room, t) - t) <= EventGap(room)
              /\ e.severe => \E t \in DOMAIN room : Covers(e, t) /\ Size(room[t] - Target(t)) > 2 * Band
        /\ \A t \in {u \in DOMAIN room : u # Newest(room)} :
              Alike(t, After(room, t)) /\ Side(room[t] - Target(t)) # "none" =>
                 \E e \in events : e.kind = Side(room[t] - Target(t)) /\ Covers(e, t) /\ Covers(e, After(room, t))

(* The shares and degree hours of a period are those of the set point in force at each moment, *)
(* known moments only: no set point is projected before it was first reported, into a time of  *)
(* which it is reported absent, or over its own change (temperature_metrics).                  *)
SharesFollowTheTarget ==
    LET Held(t) == {s \in Segments(room) : s <= t /\ t < After(room, s) /\ ~Inside(s, ignored)}
        moments == {t \in 0 .. Max(Instants) : Held(t) # {} /\ Target(t) # Unknown}
        Error(t) == room[Max(Held(t))] - Target(t)
    IN  Transitions # {} \/ Present # Unknown =>
          /\ Shares.whole = Cardinality(moments)
          /\ Shares.inside = Cardinality({t \in moments : Side(Error(t)) = "none"})
          /\ Shares.above = Cardinality({t \in moments : Side(Error(t)) = "above"})
          /\ Shares.cold = MapThenSumSet(LAMBDA t : Max({0, -Error(t)}), moments)
          /\ Shares.warm - Shares.cold = MapThenSumSet(Error, moments)

(* A short flame is left out only where the carrier was read before it, through its window,    *)
(* and never warmed; what did warm the carrier, or was not read, still counts as heating or as *)
(* hot water, never as both (flame.py, _purpose_flame_samples).                                *)
ConfirmedHeatCounts ==
    \A c \in FlameCycles :
        LET answered == \E t \in DOMAIN carrier : c[1] < t /\ t <= c[2] + Response /\ Before(carrier, c[1]) # {}
                                                  /\ carrier[t] - carrier[Max(Before(carrier, c[1]))] >= Rise
            read == {t \in DOMAIN carrier : t < c[1]} # {} /\ c[2] + Response \in DOMAIN carrier
        IN  /\ answered \/ ~read =>
                 \A p \in {"ch", "dhw"} : states[c[1]] = {"fl", p} => Burning(p)[c[1]] /\ ~Burning(Other(p))[c[1]]
            /\ c \in Pulses => \A p \in {"ch", "dhw"}, t \in DOMAIN states : c[1] <= t /\ t < c[2] => ~Burning(p)[t]

(* A burner's cycle is burning at every reading of it and was observed throughout, whichever   *)
(* way it is counted; the last reading of all may end one after a silence (see the README).    *)
CyclesAreObserved ==
    \A p \in {"ch", "dhw"} :
        LET f == Burning(p)
            Whole(from, to, longest) ==
                /\ ~f[to]
                /\ \A t \in DOMAIN f : from <= t /\ t < to => f[t] /\ 4 * (After(f, t) - t) <= longest
        IN  /\ \A e \in BurnerEvents(f) : Whole(e.from, e.to, EventGap(f))
            /\ \A c \in BurnerCycles(f) :
                  Whole(c[1], c[2], MetricGap(f)) \/ c = <<c[1], Newest(f)>>
            /\ Duty(f)[1] <= Duty(f)[2]
            /\ Cardinality(DOMAIN f) > 1 /\ ignored = {} /\ Segments(f) = DOMAIN f \ {Newest(f)}
                  /\ EventGap(f) = MetricGap(f) => BurnerCycles(f) = {<<e.from, e.to>> : e \in BurnerEvents(f)}

(* One more reading of a sensor with a known heartbeat never lowers the share of the period    *)
(* that counts as observed, and no share exceeds the period (assess_quality; where the cadence *)
(* is guessed, a burst of readings may lower it).                                              *)
ReadingsOnlyAdd ==
    [][/\ ObservedTime(room', TRUE) >= ObservedTime(room, TRUE)
       /\ \A known \in BOOLEAN : ObservedTime(room', known) <= 4 * (Period[2] - Period[1])]_observations

=============================================================================
