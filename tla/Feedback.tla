------------------------------ MODULE Feedback ------------------------------
(***************************************************************************)
(* The owner's answer to one recommendation and the history of his         *)
(* interventions (adapters/ydb/feedback.py).  Calls come from machines     *)
(* whose clocks are up to Skew apart; the report of the recommendation is  *)
(* calculated again and the device is configured again meanwhile.          *)
(*                                                                         *)
(* The second part is the owner's profile of a device: revisions of fields *)
(* that are entered by hand or observed in the configuration, effective    *)
(* from some time (adapters/ydb/owner_data.py:_application_profile_update, *)
(* _application_profile_observe, _profile_state).                          *)
(***************************************************************************)
EXTENDS Integers, FiniteSets, FiniteSetsExt, SequencesExt

CONSTANTS
    Notes, Parameters,  \* what an owner writes, and what he has changed
    Skew, Patience,     \* Patience: the 48 hours of a new recommendation
    MaxCalls, MaxNow,   \* bounds
    Fields, Entries,    \* of the profile
    MaxRevisions        \* bound: of the profile

VARIABLES
    rec,            \* row of recommendations: status, note, updated
    interventions,  \* rows of interventions with experiment and prediction
    recAudit,       \* recommendation_audit
    renders,        \* publication changes of scope render
    world,          \* time, revision of the report, and of the configuration
    profile,        \* rows of owner_profile_revisions, as they were recorded
    today

feedback == <<rec, interventions, recAudit, renders, world>>

None == [parameter |-> "none", performed |-> 0]
NoSnapshot == [config |-> 0, late |-> FALSE]
Experiments == [parameter : Parameters, performed : 0 .. MaxNow]

FeedbackInit ==
    /\ rec = [status |-> "new", note |-> "", updated |-> 0]
    /\ interventions = <<>> /\ recAudit = <<>> /\ renders = 0
    /\ world = [now |-> 0, report |-> 1, config |-> 1, found |-> 0]

-----------------------------------------------------------------------------
\* ORDER BY applied_at DESC.
Latest(rows) == CHOOSE i \in DOMAIN rows : \A j \in DOMAIN rows : rows[j].at <= rows[i].at

Previous == IF rec.status = "applied" /\ interventions # <<>>
            THEN {interventions[Latest(interventions)]} ELSE {}

CurrentNote == IF Previous = {} THEN rec.note ELSE (CHOOSE p \in Previous : TRUE).note

\* A request that says what is stored already changes nothing.
Known(status, note, experiment) ==
    /\ rec.status = status /\ CurrentNote = note
    /\ experiment = None \/ \E p \in Previous : p.experiment = experiment

\* The configuration known at the time of recording; it may be too recent.
ControlSnapshot(experiment) ==
    [config |-> world.config, late |-> world.found > experiment.performed]

\* Later than anything recorded before, whatever the clocks say.
UpdatedAt(clock) == IF clock > rec.updated THEN clock ELSE rec.updated + 1

\* The prediction of the first application is kept when it is corrected.
Prediction == IF Previous = {} THEN world.report ELSE (CHOOSE p \in Previous : TRUE).prediction

Intervention(note, experiment, at) ==
    LET before == IF Previous = {} THEN [experiment |-> None, snapshot |-> NoSnapshot]
                  ELSE LET p == CHOOSE p \in Previous : TRUE
                       IN  [experiment |-> p.experiment, snapshot |-> p.snapshot]
        recorded == IF experiment = None THEN before
                    ELSE [experiment |-> experiment, snapshot |-> ControlSnapshot(experiment)]
    IN  [at |-> at, note |-> note, experiment |-> recorded.experiment,
         snapshot |-> recorded.snapshot, prediction |-> Prediction]

SetFeedback(status, note, experiment) ==
    /\ status = "rejected" => experiment = None
    /\ ~Known(status, note, experiment)
    /\ \E clock \in 0 .. Skew : \E at \in {UpdatedAt(world.now - clock)} :
          /\ rec' = [status |-> status, note |-> IF status = "applied" THEN "" ELSE note,
                     updated |-> at]
          /\ interventions' = IF status = "applied"
                              THEN Append(interventions, Intervention(note, experiment, at))
                              ELSE interventions
          /\ recAudit' = Append(recAudit, [status |-> status, note |-> note,
                                           experiment |-> experiment, at |-> at])
    /\ renders' = renders + 1
    /\ UNCHANGED world

\* expire_stale_recommendations: only a recommendation nobody has answered.
Expire ==
    /\ rec.status = "new" /\ world.now >= Patience
    /\ rec' = [rec EXCEPT !.status = "ignored", !.updated = UpdatedAt(world.now)]
    /\ renders' = renders + 1
    /\ UNCHANGED <<interventions, recAudit, world>>

\* The report is calculated again, the configuration is discovered again.
WorldGoesOn ==
    /\ world.now < MaxNow
    /\ \E report \in {0, 1}, config \in {0, 1} :
        world' = [now |-> world.now + 1, report |-> world.report + report,
                  config |-> world.config + config,
                  found |-> IF config = 1 THEN world.now + 1 ELSE world.found]
    /\ UNCHANGED <<rec, interventions, recAudit, renders>>

FeedbackNext ==
    \/ WorldGoesOn \/ Expire
    \/ /\ Len(recAudit) < MaxCalls
       /\ \E status \in {"applied", "rejected"}, note \in Notes, experiment \in {None} \cup Experiments :
            /\ experiment # None => experiment.performed <= world.now
            /\ SetFeedback(status, note, experiment)

-----------------------------------------------------------------------------
\* intervention_history: newest first, and an experiment counts once.
History ==
    LET newest(i, j) == interventions[i].at > interventions[j].at
        order == SetToSortSeq(DOMAIN interventions, newest)
    IN  SelectSeq(order, LAMBDA i : \A j \in DOMAIN interventions :
            interventions[j].at > interventions[i].at =>
                \/ interventions[i].experiment = None
                \/ interventions[j].experiment # interventions[i].experiment)

\* What is shown and corrected is what was recorded last.
LastIsCurrent ==
    recAudit # <<>> =>
        /\ rec.status = Last(recAudit).status /\ CurrentNote = Last(recAudit).note
        /\ rec.status = "applied" => Latest(interventions) = Len(interventions)

\* A request whose answer was lost can be repeated.
RepeatIsKnown ==
    recAudit # <<>> =>
        Known(Last(recAudit).status, Last(recAudit).note, Last(recAudit).experiment)

\* However often an application is corrected, it is judged by what was
\* predicted when it was first recorded, and no experiment is counted twice.
EvidenceIsFixed ==
    LET applied == SelectSeq([k \in DOMAIN recAudit |-> k], LAMBDA k : recAudit[k].status = "applied")
    IN  /\ Len(interventions) = Len(applied)
        /\ \A i \in 2 .. Len(applied) : applied[i] = applied[i - 1] + 1 =>
              interventions[i].prediction = interventions[i - 1].prediction
        /\ \A i, j \in DOMAIN History : i # j => LET a == interventions[History[i]]
                                                     b == interventions[History[j]]
                                                 IN  a.experiment = None \/ a.experiment # b.experiment

FeedbackSound == LastIsCurrent /\ RepeatIsKnown /\ EvidenceIsFixed

-----------------------------------------------------------------------------
(* The profile.                                                            *)

Unknown == 0   \* an explicit null of the owner

NoValue == [value |-> -1, source |-> "none"]
ProfileInit == profile = <<>> /\ today = 0

DayGoesOn == today < MaxRevisions /\ today' = today + 1 /\ UNCHANGED profile

\* Sorted by effective_at, then recorded_at.
RowsAsOf(rows, f, at) ==
    LET list == SelectSeq(rows, LAMBDA r : r.field = f /\ r.effective <= at)
        ahead(j, k) == list[j].effective < list[k].effective
                          \/ (list[j].effective = list[k].effective /\ j < k)
        order == SetToSortSeq(DOMAIN list, ahead)
    IN  [k \in DOMAIN list |-> list[order[k]]]

Applied(state, row) ==
    CASE row.reset -> [state EXCEPT !.current = state.auto, !.manual = FALSE]
      [] row.source = "auto" ->
            [state EXCEPT !.auto = row, !.current = IF state.manual THEN @ ELSE row]
      [] OTHER -> [state EXCEPT !.current = row, !.manual = TRUE]

ProfileState(rows, f, at) ==
    LET end == FoldLeft(Applied, [current |-> NoValue, auto |-> NoValue, manual |-> FALSE],
                        RowsAsOf(rows, f, at))
    IN  [value |-> end.current.value, source |-> end.current.source]

Recorded(f, reset, value, source, effective) ==
    profile' = Append(profile, [field |-> f, reset |-> reset, value |-> value,
                                source |-> source, effective |-> effective])

\* A reset resumes what is observed; it needs a value that was entered by hand.
UpdateProfile(f, reset, value, effective) ==
    LET old == ProfileState(profile, f, effective) IN
    /\ IF reset THEN old.source = "manual"
       ELSE ~(old.source = "manual" /\ old.value = value)
    /\ Recorded(f, reset, value, "manual", effective)

Observe(f, value) ==
    LET seen == SelectSeq(profile, LAMBDA r : r.field = f /\ r.source = "auto") IN
    /\ seen # <<>> => Last(seen).value # value
    /\ Recorded(f, FALSE, value, "auto", today)

ProfileNext ==
    \/ DayGoesOn
    \/ /\ Len(profile) < MaxRevisions /\ UNCHANGED today
       /\ \E f \in Fields :
            \/ \E value \in Entries \cup {Unknown}, effective \in 0 .. MaxRevisions :
                  \/ UpdateProfile(f, FALSE, value, effective)
                  \/ value = Unknown /\ UpdateProfile(f, TRUE, value, effective)
            \/ \E value \in Entries : Observe(f, value)

\* At every moment the owner's last word counts, until it is taken back; then
\* the observation in force counts, whatever order the rows were recorded in.
OwnerHasTheLastWord ==
    \A f \in Fields, at \in 0 .. MaxRevisions :
        LET LastOf(rows) ==
                {r \in rows : \A s \in rows : profile[s].effective < profile[r].effective
                    \/ (profile[s].effective = profile[r].effective /\ s <= r)}
            Told(auto) == {r \in DOMAIN profile :
                profile[r].field = f /\ profile[r].effective <= at /\ (profile[r].source = "auto" <=> auto)}
            words == {profile[r] : r \in LastOf(Told(FALSE))}
            seen == {profile[r] : r \in LastOf(Told(TRUE))}
            rules == IF \E w \in words : ~w.reset THEN words ELSE seen
        IN  ProfileState(profile, f, at) \in
                IF rules = {} THEN {NoValue}
                ELSE {[value |-> r.value, source |-> r.source] : r \in rules}

\* An observation is recorded once as long as it stays the same.
ObservedOnce ==
    \A f \in Fields :
        LET seen == SelectSeq(profile, LAMBDA r : r.field = f /\ r.source = "auto")
        IN  \A k \in 2 .. Len(seen) : seen[k].value # seen[k - 1].value
=============================================================================
