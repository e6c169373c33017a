------------------------------ MODULE Evidence ------------------------------
(***************************************************************************)
(* The packet of measurements that a report and the model's reasoning rest *)
(* on (analytics/evidence.py): statistics over time of irregular samples,  *)
(* burner cycles and the flow error while heating is requested, and the    *)
(* reduction of a packet that is too large.                                *)
(*                                                                         *)
(* Samples arrive in any order, and two of one time may contradict each    *)
(* other.  Durations are doubled: three medians may end between two units. *)
(***************************************************************************)
EXTENDS Integers, FiniteSets, FiniteSetsExt, SequencesExt

CONSTANTS
    Until,     \* the period is 1 .. Until; samples of 0 precede it
    Ceiling,   \* longest gap between states that is bridged
    Values,    \* of a signal
    Amounts,   \* bound: how much of each kind is reported
    Sizes      \* bound: inputs of the reduction

VARIABLES
    flow, wanted,   \* time -> values reported: a measurement and its set point
    burner,         \* time -> sets of flags reported
    cut,            \* windows to be left out
    amount,         \* what this trace may hold
    packet          \* what is to be sent

evidence == <<flow, wanted, burner, cut, amount, packet>>

Start == 1
Nothing == [base |-> 0, hours |-> 0, kept |-> {}, cuts |-> 0, sources |-> 0, cap |-> 0, notes |-> {}]
FlagSets == {{}, {"ch"}, {"fl", "ch"}, {"fl", "dhw"}}

EvidenceInit ==
    /\ flow = <<>> /\ wanted = <<>> /\ burner = <<>> /\ cut = {}
    /\ \/ amount \in Amounts /\ packet = Nothing
       \/ amount = [kind \in {"flow", "wanted", "burner", "cut"} |-> 0] /\ packet \in Sizes

Add(f, t, v) == [u \in DOMAIN f \cup {t} |-> (IF u \in DOMAIN f THEN f[u] ELSE {}) \cup (IF u = t THEN {v} ELSE {})]
Reported(f) == MapThenSumSet(LAMBDA t : Cardinality(f[t]), DOMAIN f)
Arrive ==
    /\ \E t \in 0 .. Until :
          \/ /\ Reported(flow) < amount.flow /\ \E v \in Values : flow' = Add(flow, t, v)
             /\ UNCHANGED <<wanted, burner, cut>>
          \/ /\ Reported(wanted) < amount.wanted /\ \E v \in Values : wanted' = Add(wanted, t, v)
             /\ UNCHANGED <<flow, burner, cut>>
          \/ /\ Reported(burner) < amount.burner /\ \E f \in FlagSets : burner' = Add(burner, t, f)
             /\ UNCHANGED <<flow, wanted, cut>>
          \/ /\ Cardinality(cut) < amount.cut /\ \E u \in t + 1 .. Until : cut' = cut \cup {<<t, u>>}
             /\ UNCHANGED <<flow, wanted, burner>>
    /\ UNCHANGED <<amount, packet>>

-----------------------------------------------------------------------------
\* _normalise_series: readings that contradict each other make the time unknown.
Clear(f) == {t \in DOMAIN f : Cardinality(f[t]) = 1}
Unknown(f) == DOMAIN f \ Clear(f)
ValueAt(f, t) == CHOOSE v \in f[t] : TRUE

Latest(ts, t) == LET past == {u \in ts : u <= t} IN IF past = {} THEN -1 ELSE Max(past)
Following(ts, t) == Min({u \in ts : u > t})
Sorted(ts) == [k \in 1 .. Cardinality(ts) |-> CHOOSE t \in ts : Cardinality({u \in ts : u < t}) = k - 1]
\* Three medians of the distances, doubled.
Medians(ts) ==
    LET s == Sorted(ts)
        gaps == SortSeq([k \in 1 .. Len(s) - 1 |-> s[k + 1] - s[k]], <)
        n == Len(gaps)
    IN  IF n = 0 THEN 0 ELSE 3 * (gaps[(n + 1) \div 2] + gaps[n \div 2 + 1])
\* _cadence_seconds
Cadence(f) == LET median == Medians(Clear(f)) IN IF median = 0 THEN 0 ELSE Max({2, median})

\* _usable_until: a set point holds, a measurement expires; both end where the
\* series becomes unknown.
UsableUntil(f, held, t, end) ==
    Min({2 * end} \cup {2 * u : u \in {u \in Unknown(f) : u >= t}} \cup (IF held THEN {} ELSE {2 * t + Cadence(f)}))

Pieces(times, a, b) ==
    LET ts == {a, b} \cup {t \in times : a < t /\ t < b} IN {<<t, Following(ts, t)>> : t \in ts \ {b}}
Positive(x) == Max({0, x})

\* _statistic: <<observed, weighted>>, doubled.
Statistic(f, held, a, b) ==
    LET known == {p \in Pieces(DOMAIN f, a, b) : Latest(Clear(f), p[1]) >= 0}
        Length(p) == Positive(UsableUntil(f, held, Latest(Clear(f), p[1]), p[2]) - 2 * p[1])
    IN  <<MapThenSumSet(Length, known),
          MapThenSumSet(LAMBDA p : Length(p) * ValueAt(f, Latest(Clear(f), p[1])), known)>>

\* _state_intervals.
States == Clear(burner)
Bridged == Min({2 * Ceiling, Max({2, Medians(States)})})
Intervals ==
    {<<Max({t, Start}), Following(States, t), ValueAt(burner, t)>> :
        t \in {t \in States : /\ \E u \in States : u > t
                              /\ 2 * (Following(States, t) - t) <= Bridged /\ Following(States, t) > Start}}

\* Hot water is left out as well; _split_state_intervals cuts at the edges.
Exclusions == cut \cup {<<i[1], i[2]>> : i \in {i \in Intervals : "dhw" \in i[3]}}
Excluded(a, b) == \E e \in Exclusions : e[1] < b /\ e[2] > a
Edges == UNION {{e[1], e[2]} : e \in Exclusions}
Valid ==
    {v \in UNION {{<<p[1], p[2], i[3]>> : p \in Pieces(Edges, i[1], i[2])} : i \in Intervals} : ~Excluded(v[1], v[2])}

Heating(flags) == "ch" \in flags /\ "dhw" \notin flags
Demand == {<<v[1], v[2]>> : v \in {v \in Valid : Heating(v[3])}}

\* Burner cycles: a start is counted where the flame was seen to be out.
SeenOut(v) == \E w \in Valid : w[2] = v[1] /\ "fl" \notin w[3]
StartsAt == {v[1] : v \in {v \in Valid : "fl" \in v[3] /\ Heating(v[3]) /\ SeenOut(v)}}

\* _derived_statistic of the flow error, where heating was requested.
Requested(a, b) == \E d \in Demand : d[1] <= a /\ b <= d[2]
FlowError ==
    LET times == DOMAIN flow \cup DOMAIN wanted \cup Edges \cup UNION {{d[1], d[2]} : d \in Demand}
        known == {p \in Pieces(times, Start, Until) :
                    /\ Latest(Clear(flow), p[1]) >= 0 /\ Latest(Clear(wanted), p[1]) >= 0
                    /\ ~Excluded(p[1], p[2]) /\ Requested(p[1], p[2])}
        Length(p) == Positive(Min({UsableUntil(flow, FALSE, Latest(Clear(flow), p[1]), p[2]),
                                   UsableUntil(wanted, TRUE, Latest(Clear(wanted), p[1]), p[2])}) - 2 * p[1])
        Value(p) == ValueAt(flow, Latest(Clear(flow), p[1])) - ValueAt(wanted, Latest(Clear(wanted), p[1]))
    IN  <<MapThenSumSet(Length, known), MapThenSumSet(LAMBDA p : Length(p) * Value(p), known)>>

-----------------------------------------------------------------------------
(* The reduction: whole hours first, then listed exclusions, then sources. *)
(* A packet is [base, hours, kept, cuts, sources, cap]; every hour tells   *)
(* of every source, and a note about what is left out takes room itself.   *)

Note == 1
Margin == 2
Size(p) == p.base + Cardinality(p.kept) * p.sources + p.cuts + p.sources + Note * Cardinality(p.notes)

\* _bounded_windows: real hours, spread evenly, the first and the last.
Rounded(n, d) == (2 * n + d) \div (2 * d)
Spread(hours, most) ==
    IF hours <= most THEN 1 .. hours
    ELSE IF most = 1 THEN {1} ELSE {1 + Rounded(i * (hours - 1), most - 1) : i \in 0 .. most - 1}

Fewer(p) ==
    LET Fits(n) == Size([p EXCEPT !.kept = Spread(p.hours, n)]) <= p.cap - 2 * Margin
        ns == {n \in 1 .. p.hours : Fits(n)}
    IN  IF ns # {} THEN [p EXCEPT !.kept = Spread(p.hours, Max(ns))]
        ELSE [p EXCEPT !.kept = {}, !.notes = @ \cup {"size cap"}]
Noted(p) == IF Cardinality(p.kept) < p.hours THEN [p EXCEPT !.notes = @ \cup {"hours"}] ELSE p
\* As many of a part as may stay, and a note when some do not.
Dropped(p, part) ==
    LET Fits(n) == Size([p EXCEPT ![part] = n]) <= p.cap - Margin
        ns == {n \in 0 .. p[part] : Fits(n)}
        n == IF ns = {} THEN 0 ELSE Max(ns)
    IN  IF n < p[part] THEN [p EXCEPT ![part] = n, !.notes = @ \cup {part}] ELSE p
Reduced(p) == Dropped(Dropped(Noted(Fewer(p)), "cuts"), "sources")

-----------------------------------------------------------------------------
\* The statistics do not depend on how a period is cut into samples: they are
\* those of every instant at which the series is known, and a contradiction
\* or a gap is not filled with what was known before.
Halves == 2 * Start .. 2 * Until - 1
KnownHalves(f, held) ==
    LET cadence == Cadence(f)
        Since(h) == Latest(Clear(f), h \div 2)
    IN  {h \in Halves : /\ Since(h) >= 0 /\ (held \/ h < 2 * Since(h) + cadence)
                        /\ \A u \in Unknown(f) : ~(Since(h) <= u /\ 2 * u <= h)}
TimeWeighted ==
    \A f \in {flow, wanted}, held \in BOOLEAN :
        LET hs == KnownHalves(f, held)
        IN  Statistic(f, held, Start, Until)
                = <<Cardinality(hs), MapThenSumSet(LAMBDA h : ValueAt(f, Latest(Clear(f), h \div 2)), hs)>>

\* The flow error is that of the instants at which heating alone was requested,
\* nothing was left out and both values were known.
RequestedAt(h) ==
    /\ \E i \in Intervals : 2 * i[1] <= h /\ h < 2 * i[2] /\ Heating(i[3])
    /\ \A e \in Exclusions : ~(2 * e[1] <= h /\ h < 2 * e[2])
FlowErrorIsOfHeating ==
    LET hs == {h \in KnownHalves(flow, FALSE) \cap KnownHalves(wanted, TRUE) : RequestedAt(h)}
    IN  FlowError = <<Cardinality(hs),
                      MapThenSumSet(LAMBDA h : ValueAt(flow, Latest(Clear(flow), h \div 2))
                                               - ValueAt(wanted, Latest(Clear(wanted), h \div 2)), hs)>>

\* A burner start is one that was seen: the instant before it was observed
\* with the flame out, and neither instant was left out.
StartsAreSeen ==
    \A t \in StartsAt :
        /\ \E u \in States : u < t /\ Following(States, u) >= t /\ "fl" \notin ValueAt(burner, u)
        /\ \A e \in Exclusions : ~(e[1] < t + 1 /\ e[2] > t - 1)

\* A packet that is sent holds no numbers of a source it does not name, fits
\* unless nothing is left to leave out, and keeps the first and the last hour
\* of those it keeps.
PacketIsWhole ==
    LET p == Reduced(packet)
    IN  /\ p.sources < packet.sources => p.kept = {}
        /\ Size(p) <= p.cap \/ (p.kept = {} /\ p.cuts = 0 /\ p.sources = 0)
        /\ Cardinality(p.kept) > 1 => {1, p.hours} \subseteq p.kept
=============================================================================
