---------------------------- MODULE Reliability -----------------------------
(***************************************************************************)
(* What a report says of outages: analytics/reliability.py turns events of *)
(* the controller and the times of its telemetry into incidents of the     *)
(* boiler, their impact, uptimes and the time between failures.            *)
(*                                                                         *)
(* Events and samples come in any order; an event that was lost never      *)
(* comes.  The unit of time is the tolerance of two minutes or longer.     *)
(***************************************************************************)
EXTENDS Integers, FiniteSets, FiniteSetsExt

CONSTANTS
    AsOf,       \* the end of the period
    MaxAge,     \* telemetry older than this is a gap
    Tolerance,  \* between an incident and its cause
    Patience,   \* a lost connection is pending for so long
    Runtime,    \* a battery lasts so long at least
    Histories   \* bound: how much of each kind may be known

VARIABLES
    known,     \* kind of event or flag -> (time -> "lost" or "found")
    heard,     \* "zont", "adapter" or "activity" -> times of samples
    history    \* the kinds that are reported

outages == <<known, heard, history>>

Never == -1
Kinds == {"boiler", "mains", "flags", "controller", "link"}
Sources == {"zont", "adapter", "activity"}
Past == 0 .. AsOf - 1

OutagesInit ==
    /\ known = [k \in Kinds |-> <<>>] /\ history \in Histories
    /\ heard = [s \in Sources |-> IF s # "activity" /\ history[s] = 0 THEN Past ELSE {}]

Told(f, t, v) == [u \in DOMAIN f \cup {t} |-> IF u = t THEN v ELSE f[u]]
Learn ==
    /\ \E t \in Past :
          \/ \E k \in Kinds, v \in {"lost", "found"} :
                /\ t \notin DOMAIN known[k] /\ Cardinality(DOMAIN known[k]) < history[k]
                /\ known' = [known EXCEPT ![k] = Told(@, t, v)] /\ UNCHANGED heard
          \* A source of which nothing is left out is always heard.
          \/ \E s \in Sources :
                /\ t \notin heard[s] /\ Cardinality(heard[s]) < history[s]
                /\ heard' = [heard EXCEPT ![s] = @ \cup {t}] /\ UNCHANGED known
    /\ UNCHANGED history

-----------------------------------------------------------------------------
First(ts) == IF ts = {} THEN Never ELSE Min(ts)
Last(ts) == IF ts = {} THEN Never ELSE Max(ts)
Are(f, v) == {t \in DOMAIN f : f[t] = v}
Distance(t, u) == IF t > u THEN t - u ELSE u - t

\* A loss counts unless one is open; what follows it closes it.
Opening(f) == {t \in Are(f, "lost") : \A u \in Are(f, "lost") : u < t => \E v \in Are(f, "found") : u < v /\ v < t}
Closing(f, t) == First({v \in Are(f, "found") : v > t})
\* _intervals_from_events, and the same of the status flags.
IntervalsOf(f) == {<<t, IF Closing(f, t) = Never THEN AsOf ELSE Closing(f, t)>> : t \in Opening(f)}

\* _merge_intervals and _union_intervals.
Merged(is, tolerance) ==
    LET starts == {i[1] : i \in {i \in is : \A j \in is : j[1] < i[1] => j[2] + tolerance < i[1]}}
    IN  {<<s, Max({i[2] : i \in {i \in is : i[1] >= s /\ \A t \in starts : t > s => i[1] < t}})>> : s \in starts}
Union(is) == Merged(is, 0)

\* _subtract_intervals, one inclusion after the other.
Cut(fragments, inc) ==
    UNION {IF inc[2] <= f[1] \/ inc[1] >= f[2] THEN {f}
           ELSE {g \in {<<f[1], inc[1]>>, <<inc[2], f[2]>>} : g[1] < g[2]} : f \in fragments}
Subtract(is, included) == FoldSet(LAMBDA inc, fragments : Cut(fragments, inc), Union(is), Union(included))

\* _telemetry_gap_intervals, _freshness and _first_sustained_at.
Next(ts, t) == First({u \in ts : u > t})
Gaps(ts) ==
    {<<t + MaxAge, Next(ts, t)>> : t \in {t \in ts : Next(ts, t) - t > MaxAge}}
    \cup {<<t + MaxAge, AsOf>> : t \in {t \in ts : Next(ts, t) = Never /\ AsOf - t > MaxAge}}
Fresh(ts) == ts # {} /\ AsOf - Max(ts) <= MaxAge
Sustained(ts, after) ==
    First({t \in ts : LET second == Next(ts, t)
                          third == Next(ts, second)
                      IN  /\ t >= after /\ second # Never /\ third # Never
                          /\ second - t <= MaxAge /\ third - second <= MaxAge})

Power == Merged(IntervalsOf(known["mains"]) \cup IntervalsOf(known["flags"]), Tolerance)
Controller == Merged(IntervalsOf(known["controller"]) \cup Gaps(heard["zont"]), Tolerance)

\* _classify_incident, _reconcile_incident; an open incident ends where
\* telemetry is sustained again.
ByPower(lost) == \E p \in Power : Distance(lost, p[1]) <= Tolerance
Cause(lost) ==
    IF ByPower(lost) THEN "power_outage"
    ELSE IF \E c \in Controller : c[1] - Tolerance <= lost /\ lost <= c[2] + Tolerance THEN "zont_restart"
    ELSE "boiler_or_adapter"
Active(lost, restored) == \E t \in heard["activity"] : lost < t /\ t < restored
Impact(lost, restored) ==
    IF ByPower(lost) THEN "failure"
    ELSE IF restored # Never /\ Active(lost, restored) THEN "running" ELSE "unknown"
Incident(lost) ==
    LET closed == Closing(known["boiler"], lost)
        restored == IF closed # Never THEN closed ELSE Sustained(heard["adapter"], lost)
    IN  [lost |-> lost, restored |-> restored, inferred |-> closed = Never /\ restored # Never,
         cause |-> Cause(lost), impact |-> Impact(lost, restored)]
Incidents == {Incident(t) : t \in Opening(known["boiler"])}
Of(impact) == {i \in Incidents : i.impact = impact}
Open == {i \in Incidents : i.restored = Never}

\* Uptimes of the controller and of the boiler.
LatestOn == Last(Are(known["controller"], "found"))
LatestOff == Last(Are(known["controller"], "lost"))
ZontAnchor == IF LatestOn >= LatestOff THEN Sustained(heard["zont"], LatestOn) ELSE Never
ZontOnline == ZontAnchor # Never /\ Fresh(heard["zont"])

Restores ==
    (Are(known["boiler"], "found") \ {i.restored : i \in Of("running")})
    \cup {i.restored : i \in {i \in Incidents : i.inferred}}
BoilerAnchor ==
    IF Restores # {} THEN Max(Restores)
    ELSE IF Open = {} THEN Sustained(heard["adapter"], 0) ELSE Never
BoilerOnline == BoilerAnchor # Never /\ Open = {} /\ Fresh(heard["zont"]) /\ Fresh(heard["adapter"])

\* Operating time: everything observed but what may have been downtime.
Ended(i) == IF i.restored = Never THEN AsOf ELSE i.restored
Downtime == {<<i.lost, Ended(i)>> : i \in Of("failure") \cup Of("unknown")}
Running == {<<i.lost, i.restored>> : i \in Of("running")}
ConfirmedPower ==
    {p \in Power : \E i \in Of("failure") : i.cause = "power_outage" /\ Distance(i.lost, p[1]) <= Tolerance}
Excluded == Union(Subtract(Controller, Running) \cup ConfirmedPower \cup Downtime)
Overlap(a, b, is) == MapThenSumSet(LAMBDA i : Max({0, Min({b, i[2]}) - Max({a, i[1]})}), is)
ObservedFrom ==
    LET sustained == Sustained(heard["adapter"], 0)
    IN  IF sustained = Never THEN Never ELSE Max({sustained, First(Are(known["boiler"], "found"))})
OperatingTime == LET from == ObservedFrom IN Max({0, AsOf - from - Overlap(from, AsOf, Excluded)})

\* What is restored for certain, and not seen through a gap.
Repairs ==
    {i \in Of("failure") : /\ i.restored # Never /\ ~i.inferred
                           /\ \A g \in Gaps(heard["zont"]) : ~(g[1] < i.restored /\ g[2] > i.lost)}

\* _connection_status: a loss that was not made good; the mains by their events alone.
Unanswered(f) == {t \in Opening(f) : Closing(f, t) = Never}
LinkLost == First(Unanswered(known["link"]))
LinkFound == Last(Are(known["link"], "found"))
Connection ==
    IF LinkLost # Never THEN IF AsOf - LinkLost >= Patience THEN "lost" ELSE "pending"
    ELSE IF LinkFound = Never THEN "unknown"
    ELSE IF heard["zont"] # {} /\ Max(heard["zont"]) >= LinkFound THEN "connected" ELSE "awaiting"
MainsLost == First(Unanswered(known["mains"]))
Depleted ==
    /\ LinkLost # Never /\ MainsLost # Never /\ LinkLost - MainsLost >= Runtime
    /\ \A t \in heard["zont"] : t <= LinkLost
    /\ \A t \in Are(known["flags"], "found") : t <= MainsLost

-----------------------------------------------------------------------------
In(t, is) == \E i \in is : i[1] <= t /\ t < i[2]

\* The time between failures counts each moment at most once and only moments
\* at which the boiler may be taken to have worked: none of a confirmed or
\* unexplained loss, none of an outage of the mains that was a failure, and
\* none of a silent controller unless the boiler was seen at work.
OperatingTimeIsHonest ==
    LET from == ObservedFrom
        down == Downtime \cup ConfirmedPower
        worked == Running
        silent == Controller
    IN  from # Never =>
            OperatingTime = Cardinality({t \in from .. AsOf - 1 :
                                            ~In(t, down) /\ (In(t, worked) \/ ~In(t, silent))})

\* An uptime that is shown as running was not interrupted: since its anchor
\* no loss of the boiler was a failure or is unexplained, and the controller
\* was not switched off.
UptimeIsUnbroken ==
    /\ BoilerOnline => \A i \in Of("failure") \cup Of("unknown") : i.lost <= BoilerAnchor
    /\ ZontOnline => \A t \in Are(known["controller"], "lost") : t <= ZontAnchor

\* A repair time covers time in which the controller was listening all along.
RepairsAreObserved ==
    \A i \in Repairs : \A t \in i.lost .. i.restored - 1 : ~In(t, Gaps(heard["zont"]))

\* What is said of the connection is what was heard last, of telemetry and of events; a
\* battery is held to be empty only where the mains were off all the time since, and then
\* the controller is not held to be at work.
ConnectionIsHeard ==
    LET last == Last(DOMAIN known["link"]) IN
    /\ Connection = "connected" =>
          known["link"][last] = "found" /\ \E t \in heard["zont"] : t >= last
    /\ Connection \in {"lost", "pending"} <=> last # Never /\ known["link"][last] = "lost"
    /\ Depleted =>
          /\ \A t \in MainsLost + 1 .. AsOf : \A k \in {"mains", "flags"} :
                t \in DOMAIN known[k] => known[k][t] = "lost"
          /\ \A t \in heard["zont"] : t <= LinkLost
=============================================================================
