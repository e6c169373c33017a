--------------------------- MODULE MCRepositories ---------------------------
(***************************************************************************)
(* The repositories of the database, side by side: three invocations that  *)
(* compete for one job row, clocks one unit apart, and beside them, each   *)
(* on its own, the repositories no job row protects: part says which of    *)
(* them a behaviour is about, and the others keep their initial state.     *)
(***************************************************************************)
EXTENDS JobLease, TLC

CONSTANTS o1, o2, o3

VARIABLES part,
    samples, events, revision, bounds, journal, published, checkpoint, unseen, writes,  \* TelemetryStore
    readings, boundaries, audit,                                                        \* GasPeriods
    tariffs, tariffAudit, month, told,                                                  \* GasCosts
    rows, ownerAudit, views, ownerProfile, ownerSettings, ownerProposals, revisions, serial,
    rec, interventions, recAudit, renders, world, profile, today,                       \* Feedback
    settings, proposals, review, reviewRuns, catalog, hour, work,                       \* ModelReview
    content, marker, inputs, cache, prints, calc, runs,                                 \* GasCache
    reports, projected, saves, searches, step, catalogue, again, stamps, fetched, answer, newest

Symmetric == Permutations(Owners) \cup Permutations(Fingerprints)

Store == INSTANCE TelemetryStore WITH Devices <- {"d"}, EventIds <- {"e"}, MaxTime <- 2, MaxWrites <- 3
\* Four days of readings, one of them without telemetry, and two actions to judge.
Meter == INSTANCE GasPeriods WITH Days <- 1..4, Volumes <- {1, 2}, MaxEdits <- 3, Actions <- {5, 7},
                                  Seen <- [d \in 1..4 |-> d # 2], MinBaseline <- 1
\* Three months; one price in another currency, one time unit without a volume.
Costs == INSTANCE GasCosts WITH Months <- 1..3, Prices <- {1, 3}, MaxSaves <- 3, Parts <- 2,
            Currency <- [p \in 1..3 |-> IF p = 3 THEN "eur" ELSE "rub"],
            Burnt <- [u \in 2..7 |-> IF u = 7 THEN -1 ELSE u % 3]
Owner == INSTANCE OwnerRepository WITH Days <- {1, 2}, Sources <- {1}, Proposals <- {"p", "q"}, MaxWrites <- 3,
            audit <- ownerAudit, profile <- ownerProfile, settings <- ownerSettings, proposals <- ownerProposals
Answers == INSTANCE Feedback WITH Notes <- {"a", "b"}, Parameters <- {"p"}, Skew <- 1, Patience <- 2,
                                  MaxCalls <- 3, MaxNow <- 2, Fields <- {"max"}, Entries <- {1, 2}, MaxRevisions <- 3
Model(price, score, deprecated) == [price |-> price, score |-> score, deprecated |-> deprecated]
Catalogues == {[a |-> Model(2, 1, FALSE), b |-> Model(1, 1, FALSE)], [a |-> Model(2, 1, TRUE), b |-> Model(1, 0, FALSE)]}
Models == INSTANCE ModelReview WITH Reviewers <- {"r1", "r2"}, Models <- {"a", "b"}, Catalogs <- Catalogues,
            Lease <- 1, Retry <- 1, Interval <- 2, MaxRetries <- 2, MaxHour <- 1, MaxSettings <- 1,
            MaxProposals <- 2, MaxRuns <- 2
Cache == INSTANCE GasCache WITH Calculations <- {"c"}, MaxDay <- 3, Values <- {1}, MaxChanges <- 2, MaxRuns <- 2,
                                revision <- inputs
Latest == INSTANCE LatestReport WITH Ids <- {1, 2}, Ends <- {1, 2}, Moments <- {1, 2}, PageSize <- 1,
                                     MaxSaves <- 3, MaxSearches <- 1

-----------------------------------------------------------------------------
storeVars == <<samples, events, revision, bounds, journal, published, checkpoint, unseen, writes>>
meterVars == <<readings, boundaries, audit>>
costVars == <<tariffs, tariffAudit, month, told>>
profileVars == <<profile, today>>
ownerVars == <<rows, ownerAudit, views, ownerProfile, ownerSettings, ownerProposals, revisions, serial>>
answerVars == <<rec, interventions, recAudit, renders, world>>
modelVars == <<settings, proposals, review, reviewRuns, catalog, hour, work>>
cacheVars == <<content, marker, inputs, cache, prints, calc, runs>>
latestVars == <<reports, projected, saves, searches, step, catalogue, again, stamps, fetched, answer, newest>>

Parts == {"jobs", "store", "meter", "costs", "profile", "owner", "answers", "models", "cache", "latest"}

RepositoriesInit ==
    /\ part \in Parts
    /\ Init /\ Store!Init /\ Meter!MeterInit /\ Costs!TariffInit /\ Answers!ProfileInit /\ Owner!OwnedInit
    /\ Answers!FeedbackInit /\ Models!ReviewInit /\ Cache!CacheInit /\ Latest!LatestInit
    /\ part # "models" => settings.model = "a" /\ proposals = <<>> /\ catalog = CHOOSE c \in Catalogues : TRUE

Rest(mine) ==
    /\ UNCHANGED part
    /\ IF mine = "jobs" THEN TRUE ELSE UNCHANGED vars
    /\ IF mine = "store" THEN TRUE ELSE UNCHANGED storeVars
    /\ IF mine = "meter" THEN TRUE ELSE UNCHANGED meterVars
    /\ IF mine = "costs" THEN TRUE ELSE UNCHANGED costVars
    /\ IF mine = "profile" THEN TRUE ELSE UNCHANGED profileVars
    /\ IF mine = "owner" THEN TRUE ELSE UNCHANGED ownerVars
    /\ IF mine = "answers" THEN TRUE ELSE UNCHANGED answerVars
    /\ IF mine = "models" THEN TRUE ELSE UNCHANGED modelVars
    /\ IF mine = "cache" THEN TRUE ELSE UNCHANGED cacheVars
    /\ IF mine = "latest" THEN TRUE ELSE UNCHANGED latestVars
RepositoriesNext ==
    \/ part = "jobs" /\ Next /\ Rest("jobs")
    \/ part = "store" /\ Store!Next /\ Rest("store")
    \/ part = "meter" /\ Meter!UpdateGas /\ Rest("meter")
    \/ part = "costs" /\ (Costs!NextMonth \/ Costs!SaveTariff) /\ Rest("costs")
    \/ part = "profile" /\ Answers!ProfileNext /\ Rest("profile")
    \/ part = "owner" /\ Owner!OwnedNext /\ Rest("owner")
    \/ part = "answers" /\ Answers!FeedbackNext /\ Rest("answers")
    \/ part = "models" /\ Models!ReviewNext /\ Rest("models")
    \/ part = "cache" /\ Cache!CacheNext /\ Rest("cache")
    \/ part = "latest" /\ Latest!LatestNext /\ Rest("latest")
RepositoriesSpec == RepositoriesInit /\ [][RepositoriesNext]_<<part, vars, storeVars, meterVars, costVars, profileVars, ownerVars, answerVars, modelVars, cacheVars, latestVars>>

-----------------------------------------------------------------------------
(* What is stored of the telemetry is described truly whatever order writers, repeated writes  *)
(* and readers come in: the bounds of a series, the markers of the days that changed and the   *)
(* one row of an event (TelemetryStore); and the report a search returns was the latest at     *)
(* some moment of the search, from projections that say what their reports say (LatestReport). *)
StoreSound ==
    /\ part = "store" => Store!BoundsExact /\ Store!MarkersCover /\ Store!EventsCanonical
    /\ part = "latest" => Latest!LatestIsLatest /\ Latest!ProjectionsAreTrue /\ Latest!ReadersAgree

(* What the owner told is neither lost nor overruled: one reading of a day in an audit without *)
(* holes and segments of a monotone meter, the last word on a field of the profile, answers    *)
(* counted once, an audit that replays to the rows stored, decisions on the settings they were *)
(* made for, and corrections that leave the present alone (GasPeriods, Feedback,               *)
(* OwnerRepository).                                                                           *)
OwnerDataSound ==
    /\ [](/\ part = "meter" => Meter!MeterSound
          /\ part = "profile" => Answers!OwnerHasTheLastWord /\ Answers!ObservedOnce
          /\ part = "answers" => Answers!FeedbackSound
          /\ part = "owner" => /\ Owner!AuditReplays /\ Owner!MovesLoseNothing /\ Owner!DecidedOnItsBase
                               /\ Owner!EditsAreOfWhatWasRead)
    /\ Owner!VersionsStay /\ Owner!PastCorrectionsStayInThePast

(* What gas cost adds up over months, currencies and missing tariffs; a save of a tariff names *)
(* exactly the months it decides and the costs of all others stay as they are; volumes are     *)
(* those of the meter, an intervention is judged by gas burnt surely before and after it, and  *)
(* a late correction does not change what an earlier moment knew (GasCosts, GasPeriods).  A    *)
(* calculation that is answered from the cache is the one the inputs of that moment give, and  *)
(* every cached day is what its samples say, whatever changed while it was computed (GasCache).*)
GasSound ==
    /\ [](/\ part = "costs" => Costs!TariffsAudited /\ Costs!CostsAddUp
          /\ part = "meter" => Meter!MeasuredIsTheMeter /\ Meter!JudgedFairly
          /\ part = "cache" => Cache!AnswersAreTrue /\ Cache!CacheIsTrue)
    /\ [][part = "costs" => Costs!AffectedExact /\ Costs!NothingElseAffected /\ Costs!OtherCostsStay]_costVars
    /\ [][part = "meter" => Meter!PastStays]_meterVars

(* One review of the model at a time; the owner is asked once about a replacement and never    *)
(* about a model he no longer uses; what he decided stays decided (ModelReview).               *)
ReviewSound == Models!ReviewSound
=============================================================================
