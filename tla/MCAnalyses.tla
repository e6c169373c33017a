----------------------------- MODULE MCAnalyses -----------------------------
(***************************************************************************)
(* What a paid answer rests on, side by side: two invocations and two      *)
(* packets of one report (its inputs changed between them), one of which   *)
(* may be known under its legacy key, over two billing months; and beside  *)
(* them, each on its own, the analyses that make the facts of a packet.    *)
(* part says which of them a behaviour is about; the others stay as they   *)
(* begin.                                                                  *)
(***************************************************************************)
EXTENDS AiLedger, TLC

CONSTANT Absent
VARIABLES part,
    flags, mods, temps,                                             \* GasExposure
    states, tank, target, mode, worked, room, lost, shape,          \* HotWater
    known, heard, history,                                          \* Reliability
    flow, wanted, burner, cut, amount, packet,                      \* Evidence
    rooms, targets, ignored, statuses, carrier, amounts,            \* Observations
    today, seasons, daily, data, saved, bought, changes,            \* LongPeriods
    house, actions, packets                                         \* Comparisons

MCKeys == {"k1", "k2", "old1", "old2"}
MCLegacy == [k \in {"k1", "k2"} |-> IF k = "k1" THEN "old1" ELSE "old2"]
MCJobOf == [k \in MCKeys |-> "report"]
MCEstimate == [k \in MCKeys |-> IF k = "k1" THEN 2 ELSE 1]

Symmetric == Permutations(Callers) \cup Permutations(Results)

Exposure == INSTANCE GasExposure WITH MaxUnit <- 3, MaxReports <- 3, Fresh <- 2, Day <- 2, Bins <- {1}

\* Periods of states alone, with a tank and its target, with a room that cooled or was not seen.
Cold == [enabled |-> TRUE, status |-> TRUE, deficit |-> 1]
Calm == [enabled |-> TRUE, status |-> FALSE, deficit |-> 0]
Span(end, s, t, g, m, w, r, l) ==
    [end |-> end, states |-> s, tank |-> t, target |-> g, mode |-> m, worked |-> w, rooms |-> r, lost |-> l]
Water == INSTANCE HotWater WITH
    Shapes <- {Span(6, 3, 0, 0, 0, 1, {Cold}, {{}}), Span(3, 3, 0, 0, 0, 1, {Cold, Calm}, {{}, {<<1, 2>>}}),
               Span(3, 2, 2, 0, 1, 0, {Cold}, {{}}), Span(4, 0, 3, 2, 0, 0, {Cold}, {{}})},
    Floor <- 1, ReturnWindow <- 4, LongReturn <- 1, Lookback <- 1, Temperatures <- {45, 58}

\* How many reports of each kind a house has; 0 for a source: always heard.
Quiet == [k \in {"boiler", "mains", "flags", "controller", "link", "zont", "adapter", "activity"} |-> 0]
Outages == INSTANCE Reliability WITH AsOf <- 4, MaxAge <- 2, Tolerance <- 1, Patience <- 2, Runtime <- 1,
    Histories <- {[Quiet EXCEPT !["boiler"] = 2, !["mains"] = 2, !["activity"] = 1],
                  [Quiet EXCEPT !["boiler"] = 2, !["controller"] = 2, !["activity"] = 1],
                  [Quiet EXCEPT !["boiler"] = 2, !["flags"] = 2, !["zont"] = 2],
                  [Quiet EXCEPT !["boiler"] = 2, !["adapter"] = 3, !["activity"] = 1],
                  [Quiet EXCEPT !["link"] = 2, !["mains"] = 2, !["zont"] = 1],
                  [Quiet EXCEPT !["link"] = 2, !["mains"] = 1, !["flags"] = 1, !["zont"] = 1]}

Few == [flow |-> 0, wanted |-> 0, burner |-> 0, cut |-> 0]
Packed == [base |-> 0, hours |-> 0, kept |-> {}, cuts |-> 0, sources |-> 0, cap |-> 9, notes |-> {}]
Evident == INSTANCE Evidence WITH Until <- 3, Ceiling <- 3, Values <- {1, 2},
    Amounts <- {[Few EXCEPT !.flow = 3], [Few EXCEPT !.flow = 2, !.wanted = 1, !.burner = 2],
                [Few EXCEPT !.burner = 3, !.cut = 1]},
    Sizes <- {Packed} \cup {[Packed EXCEPT !.base = b, !.hours = 4, !.kept = 1 .. 4, !.cuts = 3, !.sources = s, !.cap = 12] :
                            b \in {2, 6, 10}, s \in 1 .. 3}

\* A room with one target, with two; a burner alone, with the carrier's temperature.
Seen(r, t, s, c) == [room |-> r, targets |-> t, states |-> s, carrier |-> c]
Signals == INSTANCE Observations WITH Instants <- {0, 1, 2, 8, 9}, Temperatures <- {0, 3}, Present <- 3, Band <- 1,
    Windows <- {{}, {<<2, 3>>}}, LongestPulse <- 2, Response <- 1, Rise <- 2, Heartbeat <- 1, Plenty <- 3, Sparse <- 2,
    Period <- <<0, 11>>, Amounts <- {Seen(4, 0, 0, 0), Seen(2, 2, 0, 0), Seen(0, 0, 4, 0), Seen(0, 0, 2, 2)},
    room <- rooms, states <- statuses, Unknown <- Absent

\* Six days, two with an hour more or less; a week of two days.
Midnights == [d \in 0 .. 6 |-> IF d <= 3 THEN 2 * d ELSE IF d <= 5 THEN 2 * d - 1 ELSE 2 * d]
Long == INSTANCE LongPeriods WITH
    Midnight <- Midnights,
    Boundaries <- {{0, 5}, {0, 1, 4}},
    Facts <- {[count |-> 1, ratio |-> 1, over |-> 2, target |-> 3, known |-> 1],
              [count |-> 0, ratio |-> 2, over |-> 1, target |-> 1, known |-> 0]},
    Week <- 2, MonthStarts <- {0, 5}, First <- 1, MaxChanges <- 1, MaxReports <- 3

Heated(request, outdoor, goal, clean) ==
    [request |-> request, outdoor |-> outdoor, target |-> goal, mode |-> 1, cover |-> 90, clean |-> clean, steady |-> TRUE]
Hour(k, weather, dhw, m) == [known |-> k, weather |-> weather, dhw |-> dhw, mode |-> m]
Compared == INSTANCE Comparisons WITH
    Hours <- {Hour(FALSE, 0, FALSE, 0), Hour(TRUE, 0, FALSE, 1), Hour(TRUE, 2, TRUE, 1)},
    Day <- 2, Longest <- 2, Shortest <- 1, MaxHours <- 6, MaxActions <- 2, Warmer <- 3, WarmerDay <- 2,
    Clocked <- 0 .. 3, Maximum <- 2, MaxKnown <- 4,
    HourFacts <- {Heated(1, 0, 20, TRUE), Heated(1, 5, 21, TRUE), Heated(0, 5, 20, TRUE), Heated(1, 9, 20, FALSE)}

-----------------------------------------------------------------------------
exposureVars == <<flags, mods, temps>>
waterVars == <<states, tank, target, mode, worked, room, lost, shape>>
outageVars == <<known, heard, history>>
factVars == <<flow, wanted, burner, cut, amount, packet>>
signalVars == <<rooms, targets, ignored, statuses, carrier, amounts>>
longVars == <<today, seasons, daily, data, saved, bought, changes>>
comparedVars == <<house, actions>>
windowVars == <<packets>>

Parts == {"ledger", "exposure", "water", "outages", "facts", "signals", "long", "compared", "windows"}
\* What a part may begin with is of no interest while another one is looked at.
AnalysesInit ==
    /\ part \in Parts
    /\ Init /\ (part # "ledger" => \A k \in Keys : calls[k].state = "none" /\ cache[k] = NoResult)
    /\ Water!WaterInit /\ (part # "water" => shape.end = 6)
    /\ Outages!OutagesInit /\ (part # "outages" => history["mains"] = 2 /\ history["link"] = 0)
    /\ Evident!EvidenceInit /\ (part # "facts" => amount.flow = 3)
    /\ Signals!ObservationsInit /\ (part # "signals" => ignored = {} /\ amounts = Seen(4, 0, 0, 0))
    /\ Long!PeriodsInit /\ (part # "long" => seasons = {0, 5})
    /\ Exposure!TraceInit /\ Compared!ComparisonsInit /\ Compared!HeatingInit

Rest(mine) ==
    /\ UNCHANGED part
    /\ IF mine = "ledger" THEN TRUE ELSE UNCHANGED vars
    /\ IF mine = "exposure" THEN TRUE ELSE UNCHANGED exposureVars
    /\ IF mine = "water" THEN TRUE ELSE UNCHANGED waterVars
    /\ IF mine = "outages" THEN TRUE ELSE UNCHANGED outageVars
    /\ IF mine = "facts" THEN TRUE ELSE UNCHANGED factVars
    /\ IF mine = "signals" THEN TRUE ELSE UNCHANGED signalVars
    /\ IF mine = "long" THEN TRUE ELSE UNCHANGED longVars
    /\ IF mine = "compared" THEN TRUE ELSE UNCHANGED comparedVars
    /\ IF mine = "windows" THEN TRUE ELSE UNCHANGED windowVars
AnalysesNext ==
    \/ part = "ledger" /\ Next /\ Rest("ledger")
    \/ part = "exposure" /\ Exposure!Report /\ Rest("exposure")
    \/ part = "water" /\ Water!Sample /\ Rest("water")
    \/ part = "outages" /\ Outages!Learn /\ Rest("outages")
    \/ part = "facts" /\ Evident!Arrive /\ Rest("facts")
    \/ part = "signals" /\ Signals!Observe /\ Rest("signals")
    \/ part = "long" /\ Long!PeriodsNext /\ Rest("long")
    \/ part = "compared" /\ Compared!ComparisonsNext /\ Rest("compared")
    \/ part = "windows" /\ Compared!HeatingNext /\ Rest("windows")
AnalysesSpec == AnalysesInit /\ [][AnalysesNext]_<<part, vars, exposureVars, waterVars, outageVars, factVars,
                                                   signalVars, longVars, comparedVars, windowVars>>

-----------------------------------------------------------------------------
(* However few samples a house has and in whatever order they come: what is said of its burner *)
(* adds up and no gap counts as idle time, heat is not split away (GasExposure); heating is    *)
(* held to have paused for hot water only where that was observed (HotWater); no outage, repair *)
(* or uptime is claimed for a time nobody heard of (Reliability); means are weighted by time,   *)
(* and a packet is cut without losing what it says it has (Evidence); deviations, cycles and    *)
(* shares are of readings and not of silences (Observations).                                   *)
FactsAreObserved ==
    /\ [](/\ part = "exposure" => Exposure!WindowsAddUp /\ Exposure!GapsAreNotIdle /\ Exposure!SplitConserves
          /\ part = "water" => Water!PausesAreObserved /\ Water!BelowIsBelow
          /\ part = "outages" => Outages!OperatingTimeIsHonest /\ Outages!UptimeIsUnbroken /\ Outages!RepairsAreObserved
                                 /\ Outages!ConnectionIsHeard
          /\ part = "facts" => /\ Evident!TimeWeighted /\ Evident!FlowErrorIsOfHeating /\ Evident!StartsAreSeen
                               /\ Evident!PacketIsWhole
          /\ part = "signals" => /\ Signals!EventsAreWhole /\ Signals!SharesFollowTheTarget
                                 /\ Signals!ConfirmedHeatCounts /\ Signals!CyclesAreObserved)
    /\ Signals!ReadingsOnlyAdd

(* A long period is the calendar's, is analysed once at each of its checkpoints and counts its  *)
(* days by instants (LongPeriods); an action is judged by periods that nothing else changed and *)
(* that compare (Comparisons); and hours of heating are told once, fairly chosen and compared   *)
(* among their like (Comparisons).                                                              *)
PeriodsCompare ==
    /\ part = "long" => Long!ScheduleIsTheCalendar /\ Long!OncePerCheckpoint /\ Long!CountedByInstants
    /\ part = "compared" => Compared!OutcomesAreIsolated /\ Compared!ChosenCompares
    /\ part = "windows" => Compared!EvidenceIsFair
=============================================================================
