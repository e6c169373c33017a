---------------------------- MODULE GasExposure -----------------------------
(***************************************************************************)
(* Burner telemetry as the gas model sees it: the sufficient statistics of *)
(* a window (analytics/gas.py:integrate_exposure, application/gas.py:      *)
(* GasService.window, _slice), the estimate of a window and its split by   *)
(* purpose (estimate_exposure, estimate_gas_purpose_split).                *)
(*                                                                         *)
(* The boiler reports its flags, its modulation and a temperature at times *)
(* of its own.  A report is good for Fresh units of time; a set point holds *)
(* until the next one.  A day has Day units.                               *)
(***************************************************************************)
EXTENDS Integers, FiniteSets, FiniteSetsExt, SequencesExt, Functions

CONSTANTS
    MaxUnit,     \* bound: the trace covers 0 .. MaxUnit
    MaxReports,  \* bound: reports of the boiler
    Fresh,       \* FRESHNESS, 15 minutes
    Day,         \* a local day
    Bins         \* ranges of modulation

VARIABLES
    flags,   \* time -> set of OpenTherm flags, or Unreadable
    mods,    \* time -> range of modulation
    temps    \* time -> temperature; Null ends the one before

trace == <<flags, mods, temps>>

Unreadable == {"unreadable"}
Null == -1
FlagSets == {{}, {"fl", "ch"}, {"fl", "dhw"}, {"fl", "ch", "dhw"}, Unreadable}
Purposes == {"heating", "dhw", "ambiguous"}

TraceInit == flags = <<>> /\ mods = <<>> /\ temps = <<>>

Reports == Cardinality(DOMAIN flags) + Cardinality(DOMAIN mods) + Cardinality(DOMAIN temps)
With(f, t, v) == [u \in DOMAIN f \cup {t} |-> IF u = t THEN v ELSE f[u]]

\* A report of the boiler is stored, in any order.
Report ==
    /\ Reports < MaxReports
    /\ \E t \in 0 .. MaxUnit :
          \/ /\ t \notin DOMAIN flags /\ \E f \in FlagSets : flags' = With(flags, t, f)
             /\ UNCHANGED <<mods, temps>>
          \/ /\ t \notin DOMAIN mods /\ \E m \in Bins : mods' = With(mods, t, m)
             /\ UNCHANGED <<flags, temps>>
          \/ /\ t \notin DOMAIN temps /\ \E v \in {1, Null} : temps' = With(temps, t, v)
             /\ UNCHANGED <<flags, mods>>

-----------------------------------------------------------------------------
(* _slice: the window is cut at every report and where one expires.        *)

Read(f, a, b) == Restrict(f, {t \in DOMAIN f : a <= t /\ t <= b})
Latest(f, t) == LET past == {u \in DOMAIN f : u <= t} IN IF past = {} THEN Null ELSE Max(past)

ReadFrom(a) == a - Fresh

Point(fs, ms, t) ==
    LET f == Latest(fs, t)
        m == Latest(ms, t)
        known == f # Null /\ fs[f] # Unreadable /\ t - f < Fresh
    IN  [known |-> known, on |-> known /\ "fl" \in fs[f],
         bin |-> IF m # Null /\ t - m < Fresh THEN ms[m] ELSE Null,
         \* Only an exclusive mode says what the gas was burnt for.
         purpose |-> IF known /\ {"ch", "dhw"} \cap fs[f] = {"ch"} THEN "heating"
                     ELSE IF known /\ {"ch", "dhw"} \cap fs[f] = {"dhw"} THEN "dhw" ELSE "ambiguous"]

NoBins == [m \in Bins |-> 0]
NoExposure ==
    [minutes |-> 0, observed |-> 0, flame |-> 0, bins |-> NoBins, unknown |-> 0,
     of |-> [p \in Purposes |-> [minutes |-> 0, bins |-> NoBins, unknown |-> 0]],
     hours |-> 0, degrees |-> 0]

Burn(e, p, n) ==
    LET Into(x) == IF p.bin = Null THEN [x EXCEPT !.unknown = @ + n] ELSE [x EXCEPT !.bins[p.bin] = @ + n]
    IN  [Into(e) EXCEPT !.flame = @ + n,
                        !.of[p.purpose] = [Into(@) EXCEPT !.minutes = @ + n]]

\* integrate_exposure: what lasts longer than a report is good for is a gap.
Integrated(fs, ms, cuts) ==
    LET Segment(t, e) ==
            LET p == Point(fs, ms, t)
                n == Min({u \in cuts : u > t}) - t
                seen == [e EXCEPT !.observed = @ + n]
            IN  IF n > Fresh \/ ~p.known THEN e ELSE IF p.on THEN Burn(seen, p, n) ELSE seen
    IN  FoldSet(Segment, NoExposure, cuts \ {Max(cuts)})

\* The time for which a temperature is known, and its integral.
Held(a, b, held) ==
    LET read == Read(temps, IF held THEN a ELSE a - Fresh, b + Fresh)
        old == Latest(temps, a)
        all == IF held /\ old # Null THEN With(read, old, temps[old]) ELSE read
        Until(t) == Min({b} \cup {u \in DOMAIN all : u > t} \cup (IF held THEN {} ELSE {t + Fresh}))
        Span(t) == Max({0, Until(t) - Max({a, t})})
        known == {t \in DOMAIN all : all[t] # Null}
    IN  [hours |-> MapThenSumSet(Span, known),
         degrees |-> MapThenSumSet(LAMBDA t : Span(t) * all[t], known)]

Slice(a, b) ==
    LET fs == Read(flags, ReadFrom(a), b + Fresh)
        ms == Read(mods, ReadFrom(a), b)
        times == {a, b} \cup DOMAIN fs \cup DOMAIN ms
                 \cup {t + Fresh : t \in DOMAIN fs \cup DOMAIN ms}
        room == Held(a, b, FALSE)
    IN  [Integrated(fs, ms, {t \in times : a <= t /\ t <= b})
            EXCEPT !.minutes = b - a, !.hours = room.hours, !.degrees = Held(a, b, TRUE).degrees]

\* window: the sum of the slices of its local days.
Days(a, b) == {<<Max({a, d * Day}), Min({b, (d + 1) * Day})>> : d \in a \div Day .. (b - 1) \div Day}
AddBins(v, w) == [m \in Bins |-> v[m] + w[m]]
Plus(e, f) ==
    [minutes |-> e.minutes + f.minutes, observed |-> e.observed + f.observed,
     flame |-> e.flame + f.flame, bins |-> AddBins(e.bins, f.bins), unknown |-> e.unknown + f.unknown,
     of |-> [p \in Purposes |-> [minutes |-> e.of[p].minutes + f.of[p].minutes,
                                 bins |-> AddBins(e.of[p].bins, f.of[p].bins),
                                 unknown |-> e.of[p].unknown + f.of[p].unknown]],
     hours |-> e.hours + f.hours, degrees |-> e.degrees + f.degrees]
Window(a, b) == FoldSet(LAMBDA d, e : Plus(e, Slice(d[1], d[2])), NoExposure, Days(a, b))

-----------------------------------------------------------------------------
(* The estimate: a gap burns like what was observed, and too large a gap   *)
(* leaves the volume unknown.  A volume is a multiple of 1 / observed.     *)

Dot(bins, rates) == MapThenSumSet(LAMBDA m : bins[m] * rates[m], Bins)
Assigned(e) == Dot(e.bins, [m \in Bins |-> 1]) + e.unknown
ObservedVolume(e, model) ==
    Dot(e.bins, model.rates) + (e.unknown + Max({0, e.flame - Assigned(e)})) * model.mean

EstimateExposure(e, model) ==
    LET volume == ObservedVolume(e, model)
    IN  [status |-> IF model.mean = Null \/ e.minutes = 0 \/ 5 * e.observed < 4 * e.minutes
                       \/ (e.flame = 0 /\ 20 * e.observed < 19 * e.minutes)
                    THEN "unknown"
                    ELSE IF e.observed < e.minutes \/ e.unknown > 0
                            \/ \E m \in model.unsupported : e.bins[m] > 0 THEN "extrapolated"
                    ELSE "estimated",
         volume |-> volume * e.minutes, gap |-> volume * (e.minutes - e.observed)]

\* What was observed is divided among the purposes; the gap is not.
Component(part, model) == Dot(part.bins, model.rates) + part.unknown * model.mean
PurposeSplit(e, model) == [p \in Purposes |-> Component(e.of[p], model)]

-----------------------------------------------------------------------------
Windows == {<<a, b>> \in (0 .. MaxUnit + 1) \X (0 .. MaxUnit + 1) : a < b}

\* The statistics of a window do not depend on where it was cut: those of its
\* days, of its parts and of the whole agree, although a report that precedes
\* a part, a stale modulation and an expiring state reach across the cut.
WindowsAddUp ==
    LET slices == {<<w[1], w[2], Slice(w[1], w[2])>> : w \in Windows}
        Of(a, b) == {s[3] : s \in {s \in slices : s[1] = a /\ s[2] = b}}
    IN  /\ \A s, t \in slices : s[2] = t[1] => Of(s[1], t[2]) = {Plus(s[3], t[3])}
        /\ \A s \in slices : s[3] = FoldSet(LAMBDA t, e : Plus(e, t[3]), NoExposure,
                                            {t \in slices : <<t[1], t[2]>> \in Days(s[1], s[2])})

\* Time without a fresh readable report is never observed, and flame time is
\* part of observed time.
GapsAreNotIdle ==
    \A <<a, b>> \in Windows :
        LET e == Slice(a, b)
            Known(t) == LET f == Latest(flags, t)
                        IN  f # Null /\ flags[f] # Unreadable /\ t - f < Fresh
        IN  e.observed = Cardinality({t \in a .. b - 1 : Known(t)}) /\ e.flame <= e.observed

\* The parts of the split and the part that is left out make up the total of
\* the model, whatever the modulation is known for.
SplitConserves ==
    \A <<a, b>> \in Windows :
        LET e == Slice(a, b)
            model == [rates |-> [m \in Bins |-> 3 * m], mean |-> 2, unsupported |-> {}]
            estimate == EstimateExposure(e, model)
            parts == PurposeSplit(e, model)
        IN  estimate.status # "unknown" =>
              estimate.volume = MapThenSumSet(LAMBDA p : parts[p], Purposes) * e.observed + estimate.gap
=============================================================================
