---------------------------- MODULE ModelReview ----------------------------
(***************************************************************************)
(* AI settings and the review of the models they name                      *)
(* (application/ai_settings.py, application/model_review.py,               *)
(* adapters/ydb/model_settings.py).  A reviewer is one call of             *)
(* run_if_due: it works from settings read before, claims the review under *)
(* a lease, reads the public catalog and writes what it found; the owner   *)
(* decides on proposals from a page that may be old and edits the          *)
(* settings meanwhile.  One profile stands for the two.                    *)
(***************************************************************************)
EXTENDS Integers, FiniteSets, SequencesExt

CONSTANTS
    Reviewers, Models,
    Catalogs,     \* what the public catalog may say: model -> facts
    Lease,        \* LEASE_SECONDS
    Retry,        \* six hours
    Interval,     \* review_interval_days
    MaxRetries,
    MaxHour, MaxSettings, MaxRuns, MaxProposals  \* bounds

VARIABLES
    settings,   \* head of ai_settings_revisions: revision and the model
    proposals,  \* model_review_proposals
    review,     \* row of model_review_state
    reviewRuns, \* model_review_runs
    catalog, hour,
    work        \* reviewer -> its local state

review_vars == <<settings, proposals, review, reviewRuns, catalog, hour, work>>

Never == -1
NoRun == 0
IdleWork == [step |-> "idle", revision |-> 0, model |-> "", run |-> NoRun, moment |-> 0,
             status |-> "", found |-> {}]

\* compared: its evaluations compare, or the present model is about to be shut down.
Proposal(revision, current, candidate, compared) ==
    [status |-> "open", version |-> 1, revision |-> revision, current |-> current,
     candidate |-> candidate, compared |-> compared]

\* A proposal of an earlier release may be waiting.
ReviewInit ==
    /\ settings \in [revision : {0}, model : Models]
    /\ proposals \in {<<>>} \cup {<<Proposal(0, settings.model, m, FALSE)>> : m \in Models \ {settings.model}}
    /\ reviewRuns = <<>>
    /\ review = [run |-> NoRun, until |-> Never, due |-> Never, success |-> Never,
                 failed |-> FALSE, attempts |-> 0]
    /\ catalog \in Catalogs /\ hour = 0
    /\ work = [i \in Reviewers |-> IdleWork]

-----------------------------------------------------------------------------
(* What a model costs and how well it did in the local evaluation.  A      *)
(* score of 0 means that there is no evaluation to compare with.           *)

Comparable(old, new) == old.score > 0 /\ new.score > 0 /\ new.score >= old.score

\* _candidate: comparable evaluations must show that quality does not suffer,
\* unless the present model is about to be shut down.
Candidates(current, facts) ==
    {m \in DOMAIN facts \ {current} :
        /\ ~facts[m].deprecated
        /\ \/ facts[current].deprecated
           \/ /\ Comparable(facts[current], facts[m])
              /\ facts[m].price < facts[current].price \/ facts[m].score > facts[current].score}

-----------------------------------------------------------------------------
(* One call of run_if_due.                                                 *)

At(i, step) == work[i].step = step
Open(p) == p.status \in {"open", "deferred"}

ReadSettings(i) ==
    /\ At(i, "idle")
    /\ work' = [work EXCEPT ![i] = [IdleWork EXCEPT !.step = "read",
                    !.revision = settings.revision, !.model = settings.model]]
    /\ UNCHANGED <<settings, proposals, review, reviewRuns, catalog, hour>>

NextDue ==
    IF review.failed /\ review.due # Never THEN review.due
    ELSE IF review.success # Never THEN review.success + Interval ELSE review.due

\* A run that nobody works on any more is marked when the next one begins.
Interrupted(rows) ==
    [k \in DOMAIN rows |-> IF rows[k].status = "running"
                           THEN [rows[k] EXCEPT !.status = "interrupted"] ELSE rows[k]]

Claimable(trigger) == review.until <= hour /\ (trigger = "scheduled" => NextDue <= hour)

Claim(i) ==
    /\ At(i, "read") /\ Len(reviewRuns) < MaxRuns
    /\ \E trigger \in {"scheduled", "manual"} :
        IF Claimable(trigger)
        THEN LET run == Len(reviewRuns) + 1 IN
             /\ review' = [review EXCEPT !.run = run, !.until = hour + Lease, !.attempts = @ + 1]
             /\ reviewRuns' = Append(Interrupted(reviewRuns),
                                     [status |-> "running", revision |-> work[i].revision])
             /\ work' = [work EXCEPT ![i].step = "claimed", ![i].run = run, ![i].moment = hour]
        ELSE work' = [work EXCEPT ![i] = IdleWork] /\ UNCHANGED <<review, reviewRuns>>
    /\ UNCHANGED <<settings, proposals, catalog, hour>>

\* The catalog may be incomplete, or unreachable.
Fetch(i) ==
    /\ At(i, "claimed")
    /\ LET model == work[i].model IN
       \/ work' = [work EXCEPT ![i].step = "fetched", ![i].status = "unverified"]
       \/ /\ model \in DOMAIN catalog
          /\ LET found == Candidates(model, catalog) IN
             \E choice \in {{}} \cup {{m} : m \in found} :
                /\ (choice = {}) <=> (found = {})
                /\ work' = [work EXCEPT ![i].step = "fetched", ![i].found = choice,
                               ![i].status = IF choice = {} THEN "no_change" ELSE "proposal"]
    /\ UNCHANGED <<settings, proposals, review, reviewRuns, catalog, hour>>

Finished(state, w) ==
    LET free == [state EXCEPT !.run = NoRun, !.until = Never] IN
    CASE w.status # "unverified" ->
            [free EXCEPT !.success = w.moment, !.due = w.moment + Interval,
                         !.failed = FALSE, !.attempts = 0]
      [] state.attempts < MaxRetries -> [free EXCEPT !.failed = TRUE, !.due = w.moment + Retry]
      [] OTHER -> [free EXCEPT !.failed = TRUE, !.due = w.moment + Interval, !.attempts = 0]

Identity(p) == <<p.revision, p.current, p.candidate>>

\* A slip: what he rejected may be proposed again.
Waiting(p) == Open(p)
Answered(p) == Open(p) \/ p.status = "rejected"
\* What the owner has open or has rejected is not proposed to him again; what
\* the review did not find again is superseded.
Concluded(w) ==
    LET found == {<<w.revision, w.model, m>> : m \in w.found}
        known == {Identity(proposals[k]) : k \in {k \in DOMAIN proposals : Answered(proposals[k])}}
        kept == [k \in DOMAIN proposals |->
                    IF Open(proposals[k]) /\ Identity(proposals[k]) \notin found
                    THEN [proposals[k] EXCEPT !.status = "superseded", !.version = @ + 1]
                    ELSE proposals[k]]
    IN  kept \o SetToSeq({Proposal(w.revision, w.model, f[3], TRUE) : f \in found \ known})

\* Only the run that still holds the lease may write its result.
Finish(i) ==
    /\ At(i, "fetched")
    /\ LET w == work[i] IN
       IF review.run # w.run THEN UNCHANGED <<review, reviewRuns, proposals>>
       ELSE /\ reviewRuns' = [reviewRuns EXCEPT ![w.run].status = w.status]
            /\ review' = Finished(review, w)
            /\ proposals' = IF w.status = "unverified" THEN proposals ELSE Concluded(w)
            /\ Len(proposals') <= MaxProposals
    /\ work' = [work EXCEPT ![i] = IdleWork]
    /\ UNCHANGED <<settings, catalog, hour>>

Die(i) ==
    /\ ~At(i, "idle")
    /\ work' = [work EXCEPT ![i] = IdleWork]
    /\ UNCHANGED <<settings, proposals, review, reviewRuns, catalog, hour>>

-----------------------------------------------------------------------------
(* The owner.                                                              *)

\* The page names the revision it has shown: an edit of older ones fails, and
\* one that changes nothing leaves the revision as it is.
SaveSettings ==
    /\ settings.revision < MaxSettings
    /\ \E m \in Models \ {settings.model} :
          settings' = [revision |-> settings.revision + 1, model |-> m]
    /\ UNCHANGED <<proposals, review, reviewRuns, catalog, hour, work>>

\* state: a page that is shown supersedes what the present rule would not have proposed.
ShowPage ==
    /\ \E k \in DOMAIN proposals :
          LET p == proposals[k] IN Open(p) /\ p.revision = settings.revision /\ ~p.compared
    /\ proposals' = [k \in DOMAIN proposals |->
          LET p == proposals[k] IN
          IF Open(p) /\ p.revision = settings.revision /\ ~p.compared
          THEN [p EXCEPT !.status = "superseded", !.version = @ + 1] ELSE p]
    /\ UNCHANGED <<settings, review, reviewRuns, catalog, hour, work>>

\* The catalog is read again before a proposal is accepted; the settings, and
\* the proposal's version, are compared in the transaction that changes both.
Acceptable(p) ==
    /\ p.revision = settings.revision
    /\ {p.current, p.candidate} \subseteq DOMAIN catalog
    /\ p.candidate \in Candidates(p.current, catalog)

Decide(k, shown, status) ==
    /\ Open(proposals[k]) /\ proposals[k].version = shown
    /\ IF status = "accepted"
       THEN /\ Acceptable(proposals[k])
            /\ settings' = [revision |-> settings.revision + 1, model |-> proposals[k].candidate]
       ELSE UNCHANGED settings
    /\ proposals' = [proposals EXCEPT ![k].status = status, ![k].version = @ + 1]
    /\ UNCHANGED <<review, reviewRuns, catalog, hour, work>>

World ==
    /\ hour < MaxHour /\ hour' = hour + 1
    /\ catalog' \in Catalogs
    /\ UNCHANGED <<settings, proposals, review, reviewRuns, work>>

Owner ==
    \/ SaveSettings \/ ShowPage
    \/ \E k \in DOMAIN proposals, shown \in {1, 2},
          status \in {"accepted", "rejected", "deferred"} : Decide(k, shown, status)

ReviewNext ==
    \/ \E i \in Reviewers : ReadSettings(i) \/ Claim(i) \/ Fetch(i) \/ Finish(i) \/ Die(i)
    \/ Owner \/ World

ReviewSpec == ReviewInit /\ [][ReviewNext]_review_vars

-----------------------------------------------------------------------------
\* At most one run is going on, and it is the one that holds the lease.
OneRun == \A k \in DOMAIN reviewRuns : reviewRuns[k].status = "running" => review.run = k

\* The owner is asked once about a replacement: no two proposals for the same
\* settings wait for his answer, and a rejected one does not come back.
AskedOnce ==
    \A j, k \in DOMAIN proposals : j # k /\ Identity(proposals[j]) = Identity(proposals[k]) =>
        ~(Open(proposals[j]) /\ proposals[k].status \in {"open", "deferred", "rejected"})

\* A proposal for the settings in force names the model that is in use, however
\* long the review took and whatever the owner changed meanwhile.
AboutTheModelInUse ==
    \A k \in DOMAIN proposals :
        proposals[k].revision = settings.revision => proposals[k].current = settings.model

\* A decision is final.
DecisionIsFinal ==
    \A k \in DOMAIN proposals :
        /\ k \in DOMAIN proposals'
        /\ Identity(proposals'[k]) = Identity(proposals[k])
        /\ ~Open(proposals[k]) => proposals'[k] = proposals[k]

\* One review of the model at a time; the owner is asked once about a replacement and never
\* about a model he no longer uses; what he decided stays decided.
ReviewSound == [](OneRun /\ AskedOnce /\ AboutTheModelInUse) /\ [][DecisionIsFinal]_review_vars
=============================================================================
