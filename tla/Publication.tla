---------------------------- MODULE Publication ----------------------------
(***************************************************************************)
(* The bounded publisher: application/incremental_publication.py with its  *)
(* index in YDB (adapters/ydb/publication.py), the objects of the bucket   *)
(* (cloud/publication.py) and the change journal that feeds it             *)
(* (adapters/ydb/telemetry.py:_record_publication_change).                 *)
(*                                                                         *)
(* Owners, collectors and report jobs change what a page is made of.  A    *)
(* change is numbered by `rev`, and the number is also the version of what *)
(* was changed.  A publisher takes the lease, reads the committed `meta`,  *)
(* marks the items the journal names, renders a batch into the bucket and  *)
(* saves items, checkpoint and counters in one transaction.                *)
(*                                                                         *)
(* An object's ETag is the number of writes it has seen: every body has a  *)
(* fresh uuid in it, so no two writes share an ETag.  A page stands for    *)
(* the HTML and JSON pair of a report.                                     *)
(***************************************************************************)
EXTENDS Integers, FiniteSets, Functions

CONSTANTS
    Publishers, Nobody,
    Reports,
    Compares,       \* <<a, b>>: the page of a compares with the gas of b
    BatchSize,
    IndexAttempts,  \* SITE_INDEX_ATTEMPTS
    Kinds,          \* kinds of change that occur
    MaxChanges,     \* bound: changes of the sources
    MaxFaults       \* bound: killed publishers, lost answers of a save, and
                    \* leases that end while their owner runs

ASSUME PublishersAssumption == Nobody \notin Publishers \cup Reports
ASSUME ReportsAssumption == IsFiniteSet(Reports)
ASSUME ComparesAssumption ==
    Compares \subseteq {c \in Reports \X Reports : c[1] # c[2]}
ASSUME BoundsAssumption ==
    /\ {BatchSize, IndexAttempts} \subseteq Nat \ {0}
    /\ {MaxChanges, MaxFaults} \subseteq Nat

VARIABLES
    rev,       \* source_revision: the newest row of the journal
    sources,   \* versions of everything a page is made of
    reports,   \* canonical reports, with their derived gas context
    journal,   \* publication_changes: scope -> revision of its one row
    meta,      \* metadata rows "publication:"
    items,     \* publication_items
    pages, manifest, index,   \* objects of the bucket
    lease,     \* who holds the job lease "publication"
    pub,       \* publisher -> its run
    faults

stored == <<meta, items>>
bucket == <<pages, manifest, index>>
world == <<rev, sources, reports, journal>>
vars == <<rev, sources, reports, journal, meta, items, pages, manifest, index,
          lease, pub, faults>>

Scopes == ({"report", "render", "telemetry", "telemetry-gas"} \X Reports)
             \cup {<<"tariff", Nobody>>}
TelemetryScopes == {"telemetry", "telemetry-gas"}

-----------------------------------------------------------------------------
(* What a page is made of.                                                 *)

\* A report's gas volume follows its own telemetry and the fitted model.
Volume(gas) == [facts |-> gas.facts, model |-> gas.model]

GasInputs(s) == [facts |-> s.facts, model |-> s.model, tariff |-> s.tariff]

GasOf(inputs, r) ==
    [facts |-> inputs.facts[r], model |-> inputs.model, tariff |-> inputs.tariff]

Baselines(r) == {b \in Reports : <<r, b>> \in Compares}

\* _period_gas: a comparison is priced from the gas stored in the other report.
Comparison(r, canonical) == [b \in Baselines(r) |-> Volume(canonical[b].gas)]

\* GasService.refresh and refresh_cost, from inputs captured before.
Refreshed(r, report, inputs, flags) ==
    [report EXCEPT
        !.gas = IF "gas" \in flags THEN GasOf(inputs, r)
                                   ELSE [@ EXCEPT !.tariff = inputs.tariff],
        !.compared = Comparison(r, reports)]

\* `raced` is history: the report was replaced while its gas was refreshed,
\* and the gas was not refreshed since.
Page(report, mark, config, raced) ==
    [report |-> report, mark |-> mark, config |-> config, raced |-> raced]

-----------------------------------------------------------------------------
NoPage == [ver |-> 0]
NoItem == [dirty |-> {}, digest |-> NoPage, etag |-> 0, shown |-> NoPage]
NoMetrics == [by |-> Nobody, added |-> 0, completed |-> 0, requeued |-> 0, saves |-> 0]
NoMeta == [checkpoint |-> 0, model |-> 0, config |-> 0, manifest |-> 0,
           unpublished |-> 0, metrics |-> NoMetrics]
NoInputs == [facts |-> <<>>, model |-> 0, tariff |-> 0]

Idle == [step |-> "idle", upper |-> 0, config |-> 0, old |-> NoMeta, meta |-> NoMeta,
         prev |-> <<>>, items |-> <<>>, partial |-> FALSE, recovering |-> FALSE,
         snap |-> NoInputs, todo |-> {}, item |-> Nobody, report |-> NoPage,
         raced |-> FALSE, page |-> NoPage, etag |-> 0, events |-> NoMetrics, shows |-> 0, tries |-> 0]

Published(i) == i.etag # 0
Dirty(is) == {r \in DOMAIN is : is[r].dirty # {}}
Unpublished(is) == {r \in DOMAIN is : ~Published(is[r])}

FirstReport(r) ==
    [ver |-> 1,
     gas |-> [facts |-> 1, model |-> 1, tariff |-> 1],
     compared |-> [b \in Baselines(r) |-> [facts |-> 1, model |-> 1]]]

NeverPublished ==
    /\ meta = NoMeta
    /\ items = <<>>
    /\ pages = [r \in Reports |-> [etag |-> 0, page |-> NoPage]]
    /\ manifest = [etag |-> 0, listed |-> <<>>]
    /\ index = [etag |-> 0, shows |-> 0]

AllUpToDate ==
    LET page(r) == Page(FirstReport(r), 1, 1, FALSE) IN
    /\ meta = [NoMeta EXCEPT !.checkpoint = 1, !.model = 1, !.config = 1, !.manifest = 1]
    /\ items = [r \in Reports |-> [dirty |-> {}, digest |-> FirstReport(r), etag |-> 1,
                                   shown |-> page(r)]]
    /\ pages = [r \in Reports |-> [etag |-> 1, page |-> page(r)]]
    /\ manifest = [etag |-> 1, listed |-> [r \in Reports |-> 1]]
    /\ index = [etag |-> 1, shows |-> 1]

\* The archive starts empty, or as an earlier publication left it.
Init ==
    /\ rev = 1
    /\ sources = [mark |-> [r \in Reports |-> 1], facts |-> [r \in Reports |-> 1],
                  model |-> 1, tariff |-> 1, config |-> 1]
    /\ reports = [r \in Reports |-> FirstReport(r)]
    /\ journal = [s \in Scopes |-> IF s[1] = "report" THEN 1 ELSE 0]
    /\ lease = Nobody
    /\ pub = [p \in Publishers |-> Idle]
    /\ faults = 0
    /\ NeverPublished \/ AllUpToDate

-----------------------------------------------------------------------------
(* Changes of the sources, each with its row in the journal: one row per   *)
(* scope, moved to the newest revision.  A change of the configuration has *)
(* no row: a publisher compares its digest with the one in meta.           *)

Journalled(scope) ==
    /\ rev' = rev + 1
    /\ journal' = [journal EXCEPT ![scope] = rev + 1]
    /\ UNCHANGED <<meta, items, pages, manifest, index, lease, pub, faults>>

\* save_report: a report generated anew, from the current inputs.
SaveReport(r) ==
    /\ reports' = [reports EXCEPT ![r] =
                     [ver |-> rev + 1, gas |-> GasOf(GasInputs(sources), r),
                      compared |-> Comparison(r, reports)]]
    /\ UNCHANGED sources
    /\ Journalled(<<"report", r>>)

Feedback(r) ==
    /\ sources' = [sources EXCEPT !.mark[r] = rev + 1]
    /\ UNCHANGED reports
    /\ Journalled(<<"render", r>>)

\* save_samples: late samples in the period of r; those at a calibration
\* change the fitted model too.
Telemetry(r, calibrates) ==
    /\ sources' = [sources EXCEPT !.facts[r] = rev + 1,
                                  !.model = IF calibrates THEN rev + 1 ELSE @]
    /\ UNCHANGED reports
    /\ Journalled(<<IF calibrates THEN "telemetry-gas" ELSE "telemetry", r>>)

Tariff ==
    /\ sources' = [sources EXCEPT !.tariff = rev + 1]
    /\ UNCHANGED reports
    /\ Journalled(<<"tariff", Nobody>>)

Configure ==
    /\ sources' = [sources EXCEPT !.config = @ + 1]
    /\ UNCHANGED <<rev, reports, journal, meta, items, pages, manifest, index,
                   lease, pub, faults>>

\* Bounds: MaxChanges, and none before the first run has committed.
Change ==
    /\ meta.checkpoint > 0
    /\ (rev - 1) + (sources.config - 1) < MaxChanges
    /\ \/ \E r \in Reports :
            \/ "report" \in Kinds /\ SaveReport(r)
            \/ "render" \in Kinds /\ Feedback(r)
            \/ "telemetry" \in Kinds /\ Telemetry(r, FALSE)
            \/ "telemetry-gas" \in Kinds /\ Telemetry(r, TRUE)
       \/ "tariff" \in Kinds /\ Tariff
       \/ "config" \in Kinds /\ Configure

-----------------------------------------------------------------------------
(* Leases.  Leases and JobLease model the row; here it is who holds it.    *)

Set(p, run) == pub' = [pub EXCEPT ![p] = run]
Leave(p) ==
    /\ lease' = IF lease = p THEN Nobody ELSE lease
    /\ Set(p, Idle)

\* Any error of a run: the lease is released, nothing is saved.
Fail(p) ==
    /\ Leave(p)
    /\ UNCHANGED <<world, stored, bucket, faults>>

Fenced(p) == lease = p

Fault == faults < MaxFaults /\ faults' = faults + 1

-----------------------------------------------------------------------------
(* The start of a run: meta, then the revision up to which it will look.   *)

ManifestCurrent(m) == m.manifest # 0 /\ manifest.etag = m.manifest

\* A slip of valid_entry: what was published once is taken to be there.
ValidOnce(r, is) == Published(is[r])

\* valid_entry: both objects still have the ETags their item recorded.
Valid(r, is) == Published(is[r]) /\ pages[r].etag = is[r].etag

NothingToDo ==
    /\ rev = meta.checkpoint
    /\ meta.config = sources.config
    /\ ManifestCurrent(meta)
    /\ Dirty(items) = {}
    /\ \A r \in DOMAIN items : Valid(r, items)

\* An invocation is a fresh uuid: which idle name it gets does not matter.
IdleName == CHOOSE p \in Publishers : pub[p].step = "idle"

Begin(p) ==
    /\ pub[p].step = "idle" /\ p = IdleName
    /\ lease = Nobody
    /\ lease' = p
    /\ Set(p, [Idle EXCEPT !.step = IF NothingToDo THEN "index" ELSE "load",
                           !.upper = rev, !.config = sources.config])
    /\ UNCHANGED <<world, stored, bucket, faults>>

-----------------------------------------------------------------------------
(* What the changes since the checkpoint require of each item.             *)

Since(checkpoint, upper) ==
    {s \in Scopes : journal[s] > checkpoint /\ journal[s] <= upper}

Telemetric(changes) == {s \in changes : s[1] \in TelemetryScopes}
Calibrating(changes) == {s \in changes : s[1] = "telemetry-gas"}

\* A slip of remember_model: whatever model was loaded becomes the baseline.
RememberedAlways(baseline, model, upper) == model

\* A model loaded from inputs newer than upper is no baseline.
Remembered(baseline, model, upper) == IF rev = upper THEN model ELSE baseline

\* The source windows of an item hold its own period and its baselines'.
Overlaps(r, period) == period = r \/ <<r, period>> \in Compares

\* _remember: a report whose content the item has seen already is no news.
News(changes, is) ==
    {r \in Reports : <<"report", r>> \in changes
                     /\ (r \in DOMAIN is => is[r].digest # reports[r])}

Needed(r, changes, news, broad) ==
    UNION {
        IF r \in news THEN {"render", "gas"} ELSE {},
        IF Baselines(r) \cap news # {} THEN {"render", "cost"} ELSE {},
        IF <<"render", r>> \in changes THEN {"render"} ELSE {},
        IF <<"tariff", Nobody>> \in changes THEN {"render", "cost"} ELSE {},
        IF broad \/ \E s \in Telemetric(changes) : Overlaps(r, s[2])
           THEN {"render", "gas"} ELSE {}}

Enqueue(i, flags) == [i EXCEPT !.dirty = @ \cup flags]

Remember(i, r) == [i EXCEPT !.digest = reports[r]]

\* _queue: never published first, then the rest, at most BatchSize of them.
Batch(is) ==
    {q \in SUBSET Dirty(is) :
        /\ Cardinality(q) <= BatchSize
        /\ Cardinality(q) = BatchSize \/ q = Dirty(is)
        /\ \A r \in q, s \in Dirty(is) \ q : Published(is[r]) => Published(is[s])}

\* Transitions of the queue before anything is rendered; a slip of them
\* that counts flags added to what is pending already.
EventsMerged(prev, is) ==
    [NoMetrics EXCEPT
        !.added = Cardinality(Dirty(is) \ DOMAIN prev),
        !.requeued = Cardinality({r \in Dirty(is) \cap DOMAIN prev :
                                    is[r].dirty # prev[r].dirty})]

Events(prev, is) ==
    [NoMetrics EXCEPT
        !.added = Cardinality(Dirty(is) \ DOMAIN prev),
        !.requeued = Cardinality({r \in Dirty(is) \cap DOMAIN prev : prev[r].dirty = {}})]

\* What a run that looks up to run.upper finds.  Inputs of the gas model
\* have changed, and the model with them:
Changes(run) == Since(meta.checkpoint, run.upper)
Recalibrated(run) == Calibrating(Changes(run)) # {}
Broad(run) == Recalibrated(run) /\ meta.model # sources.model

\* A batch of the backlog, or of telemetry alone, needs only the items it
\* touches; anything else needs the whole index.
Hourly(run) ==
    Changes(run) # {} /\ Changes(run) = Telemetric(Changes(run)) /\ ~Broad(run)

Partial(run) ==
    /\ run.upper = meta.checkpoint \/ Hourly(run)
    /\ meta.config = run.config
    /\ ManifestCurrent(meta)
    /\ Dirty(items) # {} \/ Hourly(run)

Recovering(run) == ~Partial(run) /\ meta.manifest = 0

Affected(run) == {r \in DOMAIN items : \E s \in Changes(run) : Overlaps(r, s[2])}

Stored(run) ==
    IF Partial(run) THEN Restrict(items, Dirty(items) \cup Affected(run)) ELSE items

NewsOf(run) ==
    CASE Recovering(run) -> Reports
      [] Partial(run) -> {}
      [] OTHER -> News(Changes(run), items)

Known(run) ==
    IF Recovering(run) THEN [r \in Reports |-> NoItem]
    ELSE [r \in DOMAIN Stored(run) \cup NewsOf(run) |->
             IF r \in DOMAIN Stored(run) THEN Stored(run)[r] ELSE NoItem]

\* Everything is rendered after a loss, after a change of configuration,
\* and where an object is not the one that was recorded.
Renewed(run, r) ==
    \/ Recovering(run)
    \/ ~Partial(run) /\ (meta.config # run.config \/ ~Valid(r, Known(run)))

Required(run, r) ==
    (IF Renewed(run, r) THEN {"render", "gas"} ELSE {})
        \cup IF Recovering(run) THEN {}
             ELSE Needed(r, Changes(run), NewsOf(run), Broad(run))

LoadedItems(run) ==
    [r \in DOMAIN Known(run) |->
        LET i == Known(run)[r] IN
        Enqueue(IF r \in NewsOf(run) THEN Remember(i, r) ELSE i, Required(run, r))]

LoadedModel(run) ==
    IF Recalibrated(run) THEN Remembered(meta.model, sources.model, run.upper) ELSE meta.model

Load(p) ==
    LET run == pub[p]
        loaded == LoadedItems(run)
    IN
    /\ run.step = "load"
    /\ \E batch \in Batch(loaded) :
         Set(p, [run EXCEPT
            !.step = "next",
            !.old = meta,
            !.meta = [meta EXCEPT !.checkpoint = run.upper, !.model = LoadedModel(run),
                                  !.config = run.config],
            !.prev = Stored(run), !.items = loaded,
            !.partial = Partial(run), !.recovering = Recovering(run),
            !.snap = IF Recalibrated(run) \/ \E r \in batch : loaded[r].dirty # {"render"}
                     THEN GasInputs(sources) ELSE NoInputs,
            !.todo = batch,
            !.events = Events(Stored(run), loaded)])
    /\ UNCHANGED <<world, stored, bucket, lease, faults>>

-----------------------------------------------------------------------------
(* One item of the batch: read the report, bring its gas context up to     *)
(* date, render, and replace its objects.                                  *)

Captured(run) == run.snap # NoInputs
Derived(run) == Captured(run) /\ run.items[run.item].dirty # {"render"}

Take(p) ==
    LET run == pub[p] IN
    /\ run.step = "next" /\ run.todo # {}
    /\ Fenced(p)
    /\ \E r \in run.todo :
         Set(p, LET taken == [run EXCEPT !.item = r, !.todo = @ \ {r},
                                         !.report = reports[r], !.raced = FALSE]
                IN  [taken EXCEPT !.step = IF Derived(taken) THEN "refresh" ELSE "render"])
    /\ UNCHANGED <<world, stored, bucket, lease, faults>>

\* _dependents: items that compare with r, when its gas has changed.
Dependents(is, r, changed) ==
    [a \in DOMAIN is |->
        IF changed /\ <<a, r>> \in Compares THEN Enqueue(is[a], {"render", "cost"}) ELSE is[a]]

\* persist_refresh fails when the report was saved anew in between; its gas
\* has changed when it was refreshed from other inputs.
Persisted(run) == reports[run.item] = run.report

NewBody(run) == Refreshed(run.item, run.report, run.snap, run.items[run.item].dirty)

GasChanged(run) ==
    /\ Persisted(run) /\ "gas" \in run.items[run.item].dirty
    /\ NewBody(run).gas # run.report.gas

\* A partial run loads the items that depend on a report now.
Missed(run) ==
    IF run.partial /\ GasChanged(run)
    THEN {a \in DOMAIN items : <<a, run.item>> \in Compares} \ DOMAIN run.items
    ELSE {}

Widened(is, extra) ==
    [a \in DOMAIN is \cup extra |-> IF a \in extra THEN items[a] ELSE is[a]]

Marked(run) == Dependents(Widened(run.items, Missed(run)), run.item, GasChanged(run))

Again(run) == Dirty(Marked(run)) \ Dirty(Widened(run.items, Missed(run)))

\* refresh and persist_refresh: inputs other than those captured are an
\* error; a report saved anew in between is rendered as it is.
Refresh(p) ==
    LET run == pub[p] IN
    /\ run.step = "refresh"
    /\ run.snap = GasInputs(sources)
    /\ reports' = IF Persisted(run) THEN [reports EXCEPT ![run.item] = NewBody(run)] ELSE reports
    /\ Set(p, [run EXCEPT
         !.step = "render",
         !.report = reports'[run.item], !.raced = ~Persisted(run),
         !.items = Marked(run), !.prev = Widened(run.prev, Missed(run)),
         !.events.requeued = @ + Cardinality(Again(run)),
         !.meta.model = IF "gas" \in run.items[run.item].dirty
                        THEN Remembered(@, run.snap.model, run.upper) ELSE @])
    /\ UNCHANGED <<rev, sources, journal, stored, bucket, lease, faults>>

\* Render, with the feedback there is now; then _replace: get, the fence, and
\* a put conditional on the ETag that was got.
Prepare(p) ==
    LET run == pub[p]
        r == run.item
        i == run.items[r]
        raced == run.raced \/ (Published(i) /\ "gas" \notin i.dirty /\ i.shown.raced)
    IN
    /\ run.step = "render"
    /\ Fenced(p)
    /\ Set(p, [run EXCEPT !.step = "put", !.etag = pages[r].etag,
                          !.page = Page(run.report, sources.mark[r], run.config, raced)])
    /\ UNCHANGED <<world, stored, bucket, lease, faults>>

\* The precondition of a conditional put, after a slip that has none.
MatchesAny(current, expected) == TRUE
Matches(current, expected) == current = expected

PutPage(p) ==
    LET run == pub[p]
        r == run.item
        done == [dirty |-> {}, digest |-> run.report, etag |-> pages[r].etag + 1,
                 shown |-> run.page]
    IN
    /\ run.step = "put" /\ r # Nobody
    /\ Matches(pages[r].etag, run.etag)
    /\ pages' = [pages EXCEPT ![r] = [etag |-> @.etag + 1, page |-> run.page]]
    /\ Set(p, [run EXCEPT !.step = "next", !.item = Nobody,
                          !.items[r] = done,
                          !.page = NoPage, !.report = NoPage, !.raced = FALSE, !.etag = 0,
                          !.events.completed = @ + 1])
    /\ UNCHANGED <<world, stored, manifest, index, lease, faults>>

-----------------------------------------------------------------------------
(* After the batch: the manifest, then one transaction.                    *)

\* Entries of the manifest: published items with the write they stand for.
Entries(is) == [r \in DOMAIN is \ Unpublished(is) |-> is[r].etag]

\* In a partial run, the stored entries with those of the loaded items.
Listing(run) ==
    IF run.partial
    THEN [r \in {r \in DOMAIN items \ DOMAIN run.items : Published(items[r])}
               \cup DOMAIN Entries(run.items) |->
            IF r \in DOMAIN run.items THEN run.items[r].etag ELSE items[r].etag]
    ELSE Entries(run.items)

\* A slip: the items that left the backlog in this run are not taken off.
UnpublishedKept(run) ==
    IF run.partial THEN run.old.unpublished ELSE Cardinality(Unpublished(run.items))

\* _unpublished: exact after a full load, by difference after a partial one.
UnpublishedCount(run) ==
    IF run.partial
    THEN run.old.unpublished + Cardinality(Unpublished(run.items))
                             - Cardinality(Unpublished(run.prev))
    ELSE Cardinality(Unpublished(run.items))

Counted(p, run) ==
    LET e == run.events
        o == run.old.metrics
    IN  IF o = NoMetrics \/ e.added + e.completed + e.requeued > 0
        THEN [by |-> p, saves |-> o.saves + 1,
              added |-> o.added + e.added, completed |-> o.completed + e.completed,
              requeued |-> o.requeued + e.requeued]
        ELSE o

Finish(p) ==
    LET run == pub[p]
        write == \/ Entries(run.items) # Entries(run.prev)
                 \/ run.recovering
                 \/ ~ManifestCurrent(run.old)
    IN
    /\ run.step = "next" /\ run.todo = {}
    /\ Fenced(p)
    /\ Set(p, [run EXCEPT
         !.step = IF write THEN "put" ELSE "save",
         !.etag = IF write THEN manifest.etag ELSE 0,
         !.snap = NoInputs,
         !.meta.unpublished = UnpublishedCount(run),
         !.meta.metrics = Counted(p, run)])
    /\ UNCHANGED <<world, stored, bucket, lease, faults>>

PutManifest(p) ==
    LET run == pub[p] IN
    /\ run.step = "put" /\ run.item = Nobody
    /\ Matches(manifest.etag, run.etag)
    /\ manifest' = [etag |-> manifest.etag + 1, listed |-> Listing(run)]
    /\ Set(p, [run EXCEPT !.step = "save", !.meta.manifest = manifest.etag + 1, !.etag = 0])
    /\ UNCHANGED <<world, stored, pages, index, lease, faults>>

Conflict(p) ==
    LET run == pub[p] IN
    /\ run.step = "put"
    /\ ~Matches(IF run.item = Nobody THEN manifest.etag ELSE pages[run.item].etag, run.etag)
    /\ Fail(p)

\* Nothing was written since meta was read, or by this very save.
SavedAlready(run) == run.meta.metrics # run.old.metrics /\ meta.metrics = run.meta.metrics

Unmoved(run) ==
    /\ run.meta.metrics # run.old.metrics => meta.metrics = run.old.metrics
    /\ meta.checkpoint = run.old.checkpoint

\* Changed items are written and removed ones deleted; the others stay.
Altered(run) ==
    {r \in DOMAIN run.items : r \notin DOMAIN run.prev \/ run.prev[r] # run.items[r]}

Written(run) ==
    [r \in (DOMAIN items \ (DOMAIN run.prev \ DOMAIN run.items)) \cup Altered(run) |->
        IF r \in Altered(run) THEN run.items[r] ELSE items[r]]

ToIndex == [Idle EXCEPT !.step = "index"]

Save(p) ==
    LET run == pub[p] IN
    /\ run.step = "save"
    /\ Fenced(p)
    /\ \/ /\ SavedAlready(run)
          /\ Set(p, ToIndex)
          /\ UNCHANGED <<stored, faults>>
       \/ /\ ~SavedAlready(run) /\ Unmoved(run)
          /\ items' = Written(run)
          /\ meta' = run.meta
          /\ \/ Set(p, ToIndex) /\ UNCHANGED faults
             \/ Fault /\ UNCHANGED pub
    /\ UNCHANGED <<world, bucket, lease>>

Refuse(p) ==
    LET run == pub[p] IN
    /\ \/ run.step = "save" /\ ~SavedAlready(run) /\ ~Unmoved(run)
       \/ run.step \in {"next", "render", "save"} /\ ~Fenced(p)
       \/ run.step = "refresh" /\ run.snap # GasInputs(sources)
    /\ Fail(p)

-----------------------------------------------------------------------------
(* update_site_index: the ETag of the index first, then the committed      *)
(* meta and the manifest it names, then a put on that ETag.  No fence.     *)

IndexRead(p) ==
    /\ pub[p].step = "index"
    /\ Set(p, [pub[p] EXCEPT !.step = "committed", !.etag = index.etag, !.shows = index.shows])
    /\ UNCHANGED <<world, stored, bucket, lease, faults>>

IndexCommitted(p) ==
    LET run == pub[p] IN
    /\ run.step = "committed"
    /\ IF ~ManifestCurrent(meta) \/ meta.manifest = run.shows
       THEN Leave(p)
       ELSE /\ Set(p, [run EXCEPT !.step = "project", !.shows = meta.manifest])
            /\ UNCHANGED lease
    /\ UNCHANGED <<world, stored, bucket, faults>>

IndexPut(p) ==
    LET run == pub[p] IN
    /\ run.step = "project"
    /\ IF Matches(index.etag, run.etag)
       THEN /\ index' = [etag |-> index.etag + 1, shows |-> run.shows]
            /\ Leave(p)
       ELSE /\ IF run.tries + 1 < IndexAttempts
               THEN /\ Set(p, [ToIndex EXCEPT !.tries = run.tries + 1])
                    /\ UNCHANGED lease
               ELSE Leave(p)
            /\ UNCHANGED index
    /\ UNCHANGED <<world, stored, pages, manifest, faults>>

-----------------------------------------------------------------------------
(* A lease ends: of a dead publisher in time, of a running one when it     *)
(* stalls.  A publisher dies anywhere; its objects stay as they are.       *)
Expire ==
    /\ lease # Nobody
    /\ lease' = Nobody
    /\ IF pub[lease].step = "idle" THEN UNCHANGED faults ELSE Fault
    /\ UNCHANGED <<world, stored, bucket, pub>>

Crash(p) ==
    /\ pub[p].step # "idle"
    /\ Fault
    /\ Set(p, Idle)
    /\ UNCHANGED <<world, stored, bucket, lease>>

\* Someone else touches an object of the bucket: it is another write.
Damage ==
    /\ Fault
    /\ \/ \E r \in Reports :
            /\ pages[r].etag > 0
            /\ pages' = [pages EXCEPT ![r].etag = @ + 1]
            /\ UNCHANGED manifest
       \/ /\ manifest.etag > 0
          /\ manifest' = [manifest EXCEPT !.etag = @ + 1]
          /\ UNCHANGED pages
    /\ UNCHANGED <<world, stored, index, lease, pub>>

Run(p) ==
    \/ Load(p) \/ Take(p) \/ Refresh(p) \/ Prepare(p)
    \/ PutPage(p) \/ Finish(p) \/ PutManifest(p) \/ Conflict(p)
    \/ Save(p) \/ Refuse(p)
    \/ IndexRead(p) \/ IndexCommitted(p) \/ IndexPut(p)

Next ==
    \/ \E p \in Publishers : Begin(p) \/ Run(p) \/ Crash(p)
    \/ Expire
    \/ Damage
    \/ Change

Spec == Init /\ [][Next]_vars

(* A timer starts publishers again and again, some started one goes on,    *)
(* and the lease of a dead one ends.  Nothing is asked of any one publisher. *)
LeaseOfDead == lease # Nobody /\ pub[lease].step = "idle"

Fairness ==
    WF_vars((\E p \in Publishers : Begin(p) \/ Run(p)) \/ (LeaseOfDead /\ Expire))

FairSpec == Spec /\ Fairness
-----------------------------------------------------------------------------
\* The committed index owes nothing to r: no row of the journal is ahead of
\* the checkpoint, and the item is clean.
Unread(r) ==
    \E s \in Since(meta.checkpoint, rev) :
        \/ s[1] \in {"tariff", "telemetry-gas"}
        \/ s[1] = "telemetry" /\ Overlaps(r, s[2])
        \/ s[1] \in {"report", "render"} /\ s[2] = r

Settled(r) ==
    /\ meta.config = sources.config
    /\ ~Unread(r)
    /\ r \in DOMAIN items => items[r].dirty = {}

(* A checkpoint never acknowledges a change that is not published: an item *)
(* that is clean and has nothing unread in the journal was last published  *)
(* from the current report, the current telemetry, gas model and tariffs,  *)
(* feedback and configuration, whatever changed while it was rendered and  *)
(* whoever died or lost the lease.  (The gas of a page whose report someone *)
(* replaced between its reading and persist_refresh is not promised: it is  *)
(* rendered as it was found.)                                              *)
(* (incremental_publication.py:_run, publication.py:save).                 *)
NoChangeLost ==
    meta.checkpoint > 0 =>
        \A r \in Reports : Settled(r) =>
            /\ r \in DOMAIN items
            /\ LET shown == items[r].shown IN
               /\ shown.report.ver = reports[r].ver
               /\ shown.raced \/ shown.report.gas = GasOf(GasInputs(sources), r)
               /\ shown.mark = sources.mark[r] /\ shown.config = sources.config

(* A comparison is published again when the report it compares with gets   *)
(* another gas volume, also when that report is finished in a later batch  *)
(* (test_comparison_is_requeued_when_its_source_finishes_in_later_batch):  *)
(* with both settled, the page shows the stored volume.                    *)
ComparisonsFollow ==
    meta.checkpoint > 0 =>
        \A r \in Reports :
            Settled(r) /\ (\A b \in Baselines(r) : Settled(b)) =>
                items[r].shown.report.compared = Comparison(r, reports)

(* The monitoring counters account for the queue: what was added and what  *)
(* was made dirty again, less what was rendered, is what is dirty now, each *)
(* transition counted once although commits lose their answers and runs    *)
(* fail (publication.py:save, queue_metrics).                              *)
QueueConserved ==
    meta.metrics.added + meta.metrics.requeued - meta.metrics.completed
        = Cardinality(Dirty(items))

(* The count that partial runs carry forward by difference stays the       *)
(* number of items that were never published: pending_items skips its      *)
(* search for them when it is zero.                                        *)
UnpublishedExact == meta.unpublished = Cardinality(Unpublished(items))

(* An object never goes back: whatever write reaches a page, a publisher   *)
(* that lost its lease included, shows no older report, feedback, model or *)
(* telemetry than the page shows already; and the browser index moves only *)
(* to a newer committed manifest                                           *)
(* (cloud/publication.py:_replace and update_site_index).                  *)
NotOlder(new, old) ==
    /\ new.report.ver >= old.report.ver /\ new.mark >= old.mark
    /\ new.report.gas.model >= old.report.gas.model
    /\ new.report.gas.facts >= old.report.gas.facts
    /\ new.report.gas.tariff >= old.report.gas.tariff

ObjectsForward ==
    [][/\ \A r \in Reports :
             pages[r].etag > 0 => NotOlder(pages'[r].page, pages[r].page)
       /\ index'.shows >= index.shows
       /\ index.shows <= meta.manifest]_vars

(* When the sources rest, everything is published: every page current and  *)
(* as recorded, the manifest listing it, and the index showing that        *)
(* manifest, whatever failed before.                                       *)
AllPublished ==
    /\ ManifestCurrent(meta) /\ index.shows = meta.manifest
    /\ \A r \in Reports :
          /\ Settled(r) /\ r \in DOMAIN items /\ Valid(r, items)
          /\ pages[r].page = items[r].shown
          /\ r \in DOMAIN manifest.listed /\ manifest.listed[r] = pages[r].etag

EverythingIsPublished == <>[]AllPublished
=============================================================================
