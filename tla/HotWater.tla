------------------------------ MODULE HotWater ------------------------------
(***************************************************************************)
(* Hot water and its interaction with space heating, as analytics/dhw.py   *)
(* reads it from the samples of a period: episodes of hot water, what they *)
(* were, how long heating had to wait, and the time below the target.      *)
(*                                                                         *)
(* The boiler, the tank and the room report at times of their own; a trace *)
(* of reports grows sample by sample, in any order.                        *)
(***************************************************************************)
EXTENDS Integers, FiniteSets, FiniteSetsExt, SequencesExt, Functions

CONSTANTS
    Shapes,       \* bound: periods and the samples of each kind in them
    Floor,        \* gaps up to this one are always accepted
    ReturnWindow, \* how long a return of heating is waited for
    LongReturn,   \* a longer one is a defect
    Lookback,     \* how recent activity of heating shows demand
    Temperatures  \* of the tank

VARIABLES
    states,   \* time -> OpenTherm flags
    tank,     \* time -> temperature
    target,   \* time -> set point; Null: not known
    mode,     \* time -> whether the selected mode heats water
    worked,   \* times at which the work time of heating grows
    room,     \* what the room says of demand
    lost,     \* windows without connection
    shape     \* the period is 1 .. shape.end; samples of 0 are context

water == <<states, tank, target, mode, worked, room, lost, shape>>

Null == -1
Off == 0
On == 1
End == shape.end
Flags == {{}, {"ch"}, {"fl", "dhw"}, {"fl", "ch", "dhw"}}

WaterInit ==
    /\ states = <<>> /\ tank = <<>> /\ target = <<>> /\ mode = <<>> /\ worked = {}
    /\ shape \in Shapes /\ room \in shape.rooms /\ lost \in shape.lost

With(f, t, v) == [u \in DOMAIN f \cup {t} |-> IF u = t THEN v ELSE f[u]]
\* A device reports a value for a time.
Told(f, most, t, values, next) ==
    t \notin DOMAIN f /\ Cardinality(DOMAIN f) < most /\ \E v \in values : next = With(f, t, v)

Sample ==
    /\ \E t \in 0 .. End :
          \/ Told(states, shape.states, t, Flags, states') /\ UNCHANGED <<tank, target, mode, worked>>
          \/ Told(tank, shape.tank, t, Temperatures, tank') /\ UNCHANGED <<states, target, mode, worked>>
          \/ Told(target, shape.target, t, {50, Null}, target') /\ UNCHANGED <<states, tank, mode, worked>>
          \/ Told(mode, shape.mode, t, {Off, On}, mode') /\ UNCHANGED <<states, tank, target, worked>>
          \/ /\ t \notin worked /\ Cardinality(worked) < shape.worked /\ worked' = worked \cup {t}
             /\ UNCHANGED <<states, tank, target, mode>>
    /\ UNCHANGED <<room, lost, shape>>

-----------------------------------------------------------------------------
Sorted(ts) == [k \in 1 .. Cardinality(ts) |-> CHOOSE t \in ts : Cardinality({u \in ts : u < t}) = k - 1]
At(f, t) == LET past == {u \in DOMAIN f : u <= t} IN IF past = {} THEN Null ELSE f[Max(past)]

\* _maximum_gap, doubled: three medians of the distances, at least Floor.
TwiceMaximumGap(ts) ==
    LET s == Sorted(ts)
        gaps == SortSeq([k \in 1 .. Len(s) - 1 |-> s[k + 1] - s[k]], <)
        n == Len(gaps)
    IN  IF n = 0 THEN 2 * Floor
        ELSE Max({2 * Floor, 3 * (gaps[(n + 1) \div 2] + gaps[n \div 2 + 1])})
Near(ts, a, b) == 2 * (b - a) <= TwiceMaximumGap(ts)

\* _state_intervals: <<from, to, flags>> between samples that are near.
Intervals ==
    LET ts == DOMAIN states
        Following(t) == Min({u \in ts : u > t})
    IN  {<<Max({t, 1}), Following(t), states[t]>> :
            t \in {t \in ts : /\ \E u \in ts : u > t
                              /\ Max({t, 1}) < Following(t) /\ Near(ts, t, Following(t))
                              /\ \A w \in lost : ~(Max({t, 1}) < w[2] /\ Following(t) > w[1])}}

\* _dhw_episodes: maximal runs of intervals with hot water.
Hot == {i \in Intervals : "dhw" \in i[3]}
Starts == {i[1] : i \in {i \in Hot : \A j \in Hot : j[2] # i[1]}}
RunFrom(t) == {i \in Hot : i[1] >= t /\ \A u \in t .. i[1] - 1 : \E j \in Hot : j[1] <= u /\ u < j[2]}
Episodes == {[start |-> t, end |-> Max({i[2] : i \in RunFrom(t)}),
              flame |-> \E i \in RunFrom(t) : "fl" \in i[3]] : t \in Starts}

\* _timestamp_window_is_continuous.
Continuous(ts, a, b) ==
    LET inside == {t \in ts : a <= t /\ t <= b}
        s == Sorted(inside)
    IN  b <= a \/ /\ a \in inside
                  /\ \A k \in 1 .. Len(s) - 1 : Near(ts, s[k], s[k + 1])
                  /\ Near(ts, Max(inside), b)

\* classify_heating_demand.
Recent(t) == {u \in t - Lookback .. t - 1 : u >= 0}
ChRecent(t) == \E u \in Recent(t) \cap DOMAIN states : "ch" \in states[u]
ChSeen(t) == Recent(t) \cap DOMAIN states # {}
Operational(t) == ChRecent(t) \/ Recent(t) \cap worked # {}
Demand(t) ==
    IF ~room.enabled THEN "none"
    ELSE IF Operational(t) THEN IF room.deficit < 0 /\ ~room.status THEN "unknown" ELSE "confirmed"
    ELSE IF room.deficit > 0 /\ room.status THEN "confirmed"
    ELSE IF ChSeen(t) /\ room.deficit <= 0 /\ ~room.status THEN "none" ELSE "unknown"

\* _first_return: heating alone, or its work time, after the episode.
FollowUp(e) == Min({End, e.end + ReturnWindow})
Returns(e) == {t \in e.end .. FollowUp(e) : t \in worked \/ (t \in DOMAIN states /\ states[t] \cap {"ch", "dhw"} = {"ch"})}
Returned(e) == IF Returns(e) = {} THEN Null ELSE Min(Returns(e))

\* A slip: the samples are taken for continuous.
Trusting(e) == TRUE
Reliable(e) == Continuous(DOMAIN states, e.start, IF Returned(e) = Null THEN e.end ELSE Returned(e))

\* The tank until the follow-up is over, and its first peak.
Heated(e) == {t \in DOMAIN tank : e.start <= t /\ t <= FollowUp(e)}
Peak(e) == Max({tank[t] : t \in Heated(e)})
PeakAt(e) == Min({t \in Heated(e) : tank[t] = Peak(e)})

\* _target_is_stable, with the quarter of an hour before.
TargetStable(e) ==
    LET expected == At(target, e.start)
    IN  /\ expected # Null /\ At(target, e.start - Lookback) = expected
        /\ \A t \in DOMAIN target : e.start - Lookback < t /\ t <= e.end => target[t] = expected

\* The boiler's own disinfection: hot beyond a set point that did not move,
\* or while the mode does not heat water.
Disinfection(e) ==
    /\ e.flame /\ Heated(e) # {} /\ Peak(e) \in 55 .. 65
    /\ Continuous(DOMAIN states, e.start, e.end)
    /\ Continuous(DOMAIN tank, e.start, PeakAt(e))
    /\ At(tank, e.start) # Null /\ Peak(e) - At(tank, e.start) >= 3
    /\ \/ At(mode, e.start) = Off /\ At(mode, e.end) = Off
       \/ At(mode, e.start) # Off /\ TargetStable(e) /\ At(target, e.start) < 55
          /\ Peak(e) - At(target, e.start) >= 3

Class(e) == IF Disinfection(e) THEN "disinfection" ELSE IF At(mode, e.start) = Off THEN "unmanaged" ELSE "ordinary"

\* What the report says of an ordinary episode.
Waited(e) == Class(e) = "ordinary" /\ Reliable(e) /\ Demand(e.start) = "confirmed" /\ Returned(e) # Null
LongWait(e) == Waited(e) /\ Returned(e) - e.end > LongReturn

Parts(a, b) == {a} \cup {t \in DOMAIN target : a < t /\ t < b}

\* _temperature_target_metrics: <<evaluated, below>>.
BelowTarget ==
    LET ts == DOMAIN tank
        Following(t) == Min({u \in ts : u > t})
        spans == {<<t, Following(t)>> : t \in {t \in ts : /\ \E u \in ts : u > t
                                               /\ t >= 1 /\ Near(ts, t, Following(t))}}
        parts == UNION {{<<p, Min({s[2]} \cup {q \in Parts(s[1], s[2]) : q > p}), tank[s[1]]>> :
                            p \in Parts(s[1], s[2])} : s \in spans}
        judged == {p \in parts : At(target, p[1]) # Null /\ At(mode, p[1]) # Off}
        Length(p) == p[2] - p[1]
    IN  <<MapThenSumSet(Length, judged),
          MapThenSumSet(Length, {p \in judged : At(target, p[1]) - p[3] > 1})>>

-----------------------------------------------------------------------------
\* A pause of heating that the report confirms was observed all along: at no
\* moment of it is the state of the boiler unknown, and heating never had the
\* boiler to itself.
PausesAreObserved ==
    \A e \in Episodes : Waited(e) =>
        \A t \in e.start .. Returned(e) - 1 :
            \E u \in DOMAIN states : /\ u <= t /\ Near(DOMAIN states, u, t + 1)
                                     /\ \A v \in DOMAIN states : ~(u < v /\ v <= t)
                                     /\ states[u] # {"ch"}

\* The time below the target is the time at which the temperature last known
\* is below the target that was set then.
BelowIsBelow ==
    LET ts == DOMAIN tank
        Judged(t) == /\ t >= 1 /\ \E u \in ts : u > t
                     /\ At(tank, t) # Null /\ At(target, t) # Null
                     /\ LET u == Max({v \in ts : v <= t}) IN u >= 1 /\ Near(ts, u, Min({v \in ts : v > t}))
    IN  mode = <<>> =>
          BelowTarget = <<Cardinality({t \in 0 .. End : Judged(t)}),
                          Cardinality({t \in 0 .. End : Judged(t) /\ At(target, t) - At(tank, t) > 1})>>
=============================================================================
