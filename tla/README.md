# ZontAnalyzer in TLA+

ZontAnalyzer collects the telemetry of ZONT heating controllers, computes daily,
weekly, monthly and seasonal reports, has some of them interpreted by a paid
OpenAI model, and publishes them as a static site. In the cloud it is a set of
short-lived invocations — a timer-driven scheduler, a worker for user requests, a
web function — that share nothing but one YDB database, an object store and
the outside services. Any of them may be killed between two statements, run
twice, or run beside another one that believes it is alone. The program's
answer is a small number of protocols over database rows; they are what this
directory specifies, model-checks with TLC and, where possible, proves with TLAPS.
Around the protocols stand algorithms whose input is full of holes (samples,
readings, calendars); they are checked against definitions of what they should say.

Paths below are relative to `src/zont_analyzer/` of the repository, those that
begin with `tools/` to its root.

## 1. Inventory

| Component | State it keeps | Operations | Hard behaviour | What makes it correct |
|---|---|---|---|---|
| **Job leases** `adapters/ydb/jobs.py` | table `jobs`: owner, attempt, lease end, state, checkpoint | acquire, reopen_completed, renew, checkpoint, complete, release; `_queue` of user jobs | expired owners that keep running, clocks that disagree, lost answers, takeover in the middle of work | an attempt has one owner; a lease is honoured; a takeover resumes; "completed" is true |
| **AI ledger** `adapters/ydb/ai_usage.py`, `adapters/openai/provider.py` | `llm_calls`, `ai_response_cache`, `ai_budget_months` | reserve, mark_sent, mark_unknown, finish_success/error, cached; `analyze` | two invocations with the same packet, an answer lost after dispatch, late settlement, months, the budget limit | each request is paid once; the counters are sums of the ledger; answers never diverge |
| **Report jobs** `cloud/report_jobs.py`, `application/analysis.py` | a job row and a write lock per report, checkpoint phases | run, run_scheduled: collect, analyze, AI handoff, save, publish, complete | inputs change while a report is computed; two lanes own the same report; death between save and completion | a version is computed from the inputs of its commit; a reuse is fresh; a retry does not buy again |
| **User jobs** `cloud/user_jobs.py` | rows `m5:*` whose checkpoint is the request | enqueue, status, drain, scheduled review | clicks during a run, stale workers writing an outcome, requests that wait for an operator | the status shown is true; a failed request keeps its identity |
| **Report store** `adapters/ydb/reports.py`, `latest_report.py` | reports with revisions, projections of their times, recommendations, outbox, journal | save_report, replace_context, readers by period, search for the latest | a save that races inputs, another save, a takeover; a search over pages while reports are saved | all fences are tested where the row is written; the answer was the latest |
| **Heavy-work lease** `cloud/heavy_work.py` | one job row | acquire, release | a parent that kills its child late, clocks that differ | one long operation at a time |
| **Scheduler** `cloud/scheduler.py` | a JSON state in its own lease's checkpoint: next lane, sync slot, deferred keys | sync, daily, weekly, monthly, seasonal, review lanes | starvation of a lane, resume after a kill, deferred reports | every lane gets its turn; no work is lost or done twice |
| **Collection** `application/collection.py`, `adapters/ydb/telemetry.py`, `sample_bounds.py` | coverage windows, learned window sizes, samples, bounds, change markers | ensure_period, write_window, write_history_window | partial failures, request limits, splitting, writers of an earlier release | a period is complete only if every window is; bounds cover every sample; no source starves |
| **Ingestion** `application/ingestion.py`, `adapters/zont_readonly/` | cursors, recovery of a lost connection | sync, recover | overlapping reads, buffered history uploaded late | what the service could serve is stored |
| **Publication** `adapters/ydb/publication.py`, `application/*publication.py`, `cloud/publication.py` | change journal, checkpoint, dirty items, counters, the site in the bucket | load, render a batch, replace objects, save progress, project the index | repeated saves after a lost answer, two publishers, uploads ahead of the checkpoint | no change is lost; progress is counted once; objects only move forward |
| **Owner data** `application/feedback.py`, `owner_context.py`, `adapters/ydb/owner*.py`, `feedback.py` | versioned profile, meter readings, tariffs, feedback with audit | put, correct, move, delete, restore | edits from two tabs, corrections in the past, clocks apart | a stale edit is refused; audits replay; corrections leave the past's knowledge alone |
| **Gas accounting** `application/gas*.py`, `analytics/gas*.py` | calibration, cost and statistics caches | integrate, fit, split, cost, compare | boundaries, missing readings, inputs that change during a calculation | quantities are conserved; answers belong to one state |
| **AI settings, model review** `application/ai_settings.py`, `model_review.py` | versioned settings, proposals, a lease | review, propose, decide | concurrent edits, stale proposals, a catalogue that fails | the owner is asked once, and his decision stays |
| **Analytics** `analytics/` | none | pure algorithms over samples | gaps, sparse and contradictory samples | nothing is claimed for a time nobody measured |
| **Periods** `domain/periods.py`, `application/long_periods.py`, `comparison_context.py` | signatures of what was analysed | due periods, aggregation, comparison | days of 23 and 25 hours, moving ends, confounded windows | counted by instants; only comparable periods are compared |
| **Cloud runtime** `cloud/runtime.py`, `web_api.py` | one running child, counters, sessions | receive, run a job in a child, bound it | a child that exits between a poll and a question | one job at a time, answered truly |
| **Local installation** `application/regeneration.py`, `publication.py`, `pilot.py` | files of the archive, marks of the worker | regenerate, republish, cycle | processes that die between files | what is shown was stored; nothing old comes back |
| **Tools** `tools/` | plans, exports, migration records | import, verify, compact, copy, upload, migrate, clean | killed anywhere, repeated, beside live writers | nothing lost, doubled or charged twice |
| **Rendering, monitoring, evaluation** | counters | formatting and I/O | — | — |

How they interact: the scheduler and the user worker take the heavy-work lease,
then a job lease, then the lock `report-write:<id>` of the report; the analysis
reads telemetry and owner data, whose writers raise the revision `publication` in
the same transaction; the AI ledger stands between the analysis and the network;
the report store commits the report, the job's checkpoint and a journal entry at
once; publication consumes the journal. Every arrow is a serializable YDB
transaction or a network call; there are no in-process callbacks between them.

## 2. Plan

Order of importance; a tick is done.

1. ✔ `Leases`, `JobLease`: the rows and the lease protocol. Everything else rests on it. ✔ Proved.
2. ✔ `AiLedger`: what costs money. ✔ Proved, budget sums included.
3. ✔ `ReportRegister` (abstract), `ReportJobs`: all writers of one report,
   composed of the row operators of `Leases` and an abstraction of `AiLedger`. ✔ Proved, refinement included.
4. ✔ `UserQueue`: several user jobs, the scan of the keys, the review job, reconciliation. ✔ Its properties proved.
5. ✔ `Scheduler`: lanes, sync slot, saved state under a lease; `HeavyWork` beside it.
   ✔ Safety proved. Left: the moving end of a running season.
6. ✔ `Collection`, `TelemetryStore`: windows, splits, failures, rotation of sources,
   cursors, recovery of a connection, stored samples. ✔ Safety proved.
7. ✔ `Publication`: journal, progress, objects, index. ✔ Its safety properties proved.
8. ✔ Owner data: `GasPeriods`, `GasCosts`, `OwnerRepository`, `Feedback` (with the profile), `ModelReview`.
   ✔ `OwnerRepository` and `ModelReview` proved.
9. ✔ Algorithms: `GasExposure`, `GasCache`, `Evidence`, `Observations`, `HotWater`, `Reliability`,
   `LongPeriods`, `Comparisons`. ✔ `GasCache` proved.
10. ✔ What runs the program and its tools: `Invocations`, `LocalArchive`, `PilotWorker`,
    `SqliteImport`, `Compaction`, `SnapshotTransfer`, `StorageMaintenance`.

Modules that are proved about declare no RECURSIVE operator.

## 3. The modules

| Module | Models |
|---|---|
| `Leases` | a row of `jobs` and what each call of `JobLeaseRepository` and `_queue` makes of it: pure operators of the row and a clock reading |
| `JobLease` | owners that call them, with skewed clocks, lost answers, crashes |
| `AiLedger` | the ledger and `OpenAIAnalyst.analyze`, one action per transaction or network step |
| `ReportRegister` | the abstract promise: a report moves from one version computed from present inputs to the next |
| `ReportJobs` | the scheduled lane, explicit runs and user regenerations of one report, with expiring leases, changing inputs and clicks |
| `UserQueue` | clicks and the calls of `drain`: several requests, in the order of their keys |
| `Scheduler` | the calls of the timer: telemetry slot, lane rotation, search of the calendar, preemption and deferral, in a state saved under a lease |
| `HeavyWork` | the row that long operations share, their budgets, and parents that kill children |
| `Collection` | a polling slot, the runs of `sync`, coverage and its windows, recovery of a lost connection |
| `TelemetryStore` | one telemetry transaction: samples, events, bounds, revision and journal, beside writers of an earlier release |
| `Publication` | the bounded publisher from lease to browser index |
| `LatestReport` | readers of the report table by period, and the paged search for the latest report |
| `GasPeriods` | meter readings and boundaries with their audit; intervals, model age, hold-out, savings |
| `GasCosts` | monthly tariffs and corrections; what a volume costs, and what a correction computes again |
| `GasCache` | cached statistics and fingerprints of the gas calculation while samples arrive |
| `GasExposure` | burner telemetry as the gas model sees it, and the split of a volume by purpose |
| `OwnerRepository`, `Feedback`, `ModelReview` | versioned edits of the owner, his profile and his answers to recommendations, and the review of AI models |
| `Evidence`, `Observations`, `HotWater`, `Reliability` | the analyses, over samples that arrive in any order |
| `LongPeriods`, `Comparisons` | the calendar, monthly and seasonal aggregation; windows around a change, and the hours of heating that are compared |
| `Invocations` | the serving function: threads, one child, pipe, bound, stop |
| `LocalArchive`, `PilotWorker` | the archive and the worker of a local installation |
| `SqliteImport`, `Compaction`, `SnapshotTransfer`, `StorageMaintenance` | the operator's tools |
| `*Proofs` | theorems about the module before them; `RepositoryProofs` about those that `MCRepositories` puts side by side |
| `MC*` | constants, symmetry and compositions for TLC |

An operator whose comment begins with "A slip of" is a deliberately wrong variant of
the definition below it — the bug a property is meant to catch. No specification uses
them; each shows, put in the place of the original, that its property can fail.

`TypeOK` of `JobLease`, `AiLedger`, `ReportJobs`, `Scheduler`, `Publication`, `UserQueue` and `Collection` is a theorem, so no run
repeats it (where the proofs need more sorts than the specification, it stands in the proofs' module).

### Side by side

Three modules compose many components in one specification: `MCRepositories`
(`JobLease` and nine stores that no job row protects), `MCAnalyses` (`AiLedger` and eight
analyses) and `MCOperations` (`UserQueue` and eight programs around it; `QueueSpec` is `UserQueue` alone). The components of
one composition do not share state: the code has no transaction over two of them, and
what one may assume of another (say, that a revision is raised) is in both. So
`part` says which of them a behaviour is about, the others keep their initial value, and where
`part` is another one, an initial value that is free is pinned to one of its members — otherwise TLC
would multiply the initial states of nine components. A property of a composition names the parts: `part = "store" =>
Store!BoundsExact`. Each part has the instance of a run of its own, and one command checks all of them.
Constants of an instanced module are given in its `INSTANCE ... WITH`; an `ASSUME` of such a module is
not evaluated there, so instanced modules have none and name what they expect in comments.

### Leases, JobLease

A call is one transaction, hence one function of the row. A missing row is a row
in state `absent`, attempt 0: `acquire` treats both alike. `held` is what an
owner was *told*; after a lost answer it differs from the table. `now` is the
slowest clock and a call reads anything in `now..now + MaxSkew`, so readings need not be
monotonic between calls. An owner is one invocation's uuid, so a dead owner never
returns. `closing` marks an owner whose `complete` or `release` was not answered: it may only
repeat the call. After a refused call the caller gives up, as all callers in the
repository do by raising.

### AiLedger

`caller[c].step` is the place in `analyze`: cached, legacy key, reserve, dispatch
gate, network, result. Between any two the invocation may die, and other
invocations do whatever they do. A packet's key is given by the constants, with
the pre-9.2 key of the same packet (`Legacy`), which may hold an old answer.
`dispatched` is a history variable: requests that reached the provider. `Reconcile` is the operator
who settles an unresolved call through the same `_finish`; the repository has no
other way out of `sent` and `unknown`. The charge is any number up to the
estimate: the code counts every prompt byte as a token and bounds the output, and
the model assumes that the provider bills no more. Where the code calls `_finish`
twice with the same outcome nothing changes; so does the model.

### ReportJobs

An invocation runs `ReportJobRunner._run` (lanes `scheduled`, `requested`) or one
job of `drain` (`regenerate`), one action per transaction. `inputs` is the version
of everything a report is computed from and `pub` the publication revision, which
every write of inputs and every save of any report raises. `worker[w].facts` is the version
`_analyze` read; it is `Torn` when inputs changed between the first and the last
table it read. The checkpoint is a record that has just the JSON fields it has in
the code. The ledger is reduced to one state per packet: none, unresolved,
answered, error.

What is abstracted, and why it is harmless:

* *Time.* `until` is 0 or 1 and the clock stands at 0. `Expire` may end a lease at
  any moment, as if its owner (then in `stalled`) had stalled; TLC covers more than the code's
  timing allows. The one place where timing is used is `Timely`: an invocation's
  deadline lies at least 35 s before the end of its leases (`timeout - 5` against
  `timeout + 30`), and a dispatch needs room for the request and the save before
  the deadline, so at a dispatch the leases are alive. This assumes that a
  monotonic clock and the database's clock advance at the same pace.
* *The AI setting.* The owner may switch AI on or off at any time, and nothing else depends on the setting; so each reading of it is a choice (`AISwitch`).
  With AI off no invocation asks: a handed-over packet is dropped, and a regeneration stores a report without interpretation, over one that has it too
  (`cloud/user_jobs.py:187`, `application/analysis.py:301-302`); it then does not look for an unresolved request either. With AI on, a missing key or
  confirmation raises; so does a user's question with AI off.
* *`should_use_ai`* (`application/analysis.py:907-919`). A regeneration forces the request. For the lanes the data may be too poor or the day too ordinary to ask;
  what the data are like is not modelled, so `CheckFacts` has the choice.
* *The recommendation policy.* An interpretation is reused only if it was made under the policy of this release (`cloud/report_jobs.py:456-459`,
  `application/analysis.py:962-966`). `report.policy` says whether it was: `TRUE` for all that is saved, `FALSE` for `OlderReport`, the version of an earlier release that may be
  stored at the start. Neither a scheduled run nor the fallback of `Refused` keeps the interpretation of that one. The modelled report is of a period that has a policy.
  Seasons of more than 31 days are computed without one: there the comparison of none with none keeps the interpretation in the scheduled lane, and the
  fallback, which asks for the present policy by name, never does. `InterpretationKept` claims nothing about these seasons.
* *Uuids.* A member of `Workers` runs once; three invocations overlap or follow each other.
* *`Refused`, `pending`.* A worker may give up for lack of time at each place where
  the code looks at the deadline.
* *The identical payload.* `save_report` returns early if the stored payload equals the new
  one; `generated_at` makes that impossible for two computations.
* *Not modelled:* imported artifacts, the moving end of a season, the heavy-work
  lease (it only removes interleavings), recommendations and the outbox.

`replace_context` raises the report's revision and leaves `pub` alone, so the
revision test of `save_report` is what stops a save over a refreshed context.

### Scheduler

One timer call, from `acquire` to `release`, one action per `save()` or piece of
work between two saves. `saved` is the JSON checkpoint, `inv[i].mem` the copy a call loaded and writes
back whole; `lane` is `next_lane` counted from 1, `slot` whether `sync` is in the
state, `synced` whether `last_sync` is. `pending`, `deferred` and `cursor` are the
keys `<lane>_pending`, `<lane>_deferred`, `<lane>_cursor`.

Time is a number of days. `day` is the newest day whose report is due; a call sees
the clock as `yesterday`, which is `day`, or `day + 1` between midnight and the
report delay, and keeps it although the day may end during the call. A
period of a lane is `Span` days, so weeks, months and seasons differ in length
and in whether they wait for their daily reports (`Long`). The same deadline is tested in many
places: each test is an alternative (`EndTurns`, `SkipReports`, a cut `Search`, the
`release` branch of `FetchAll`). `retry_at` is abstracted: `Retry` may or may not find an
entry due. The lease of a living call may end (`Expire`, at most `MaxStalls`).

Not modelled: recommendation maintenance, the returns before it (import,
baselines), a running season that is reported again as it grows, reports stored by user
requests, and what `run_scheduled` does, which is `ReportJobs`.

### UserQueue, HeavyWork

`UserQueue` has one row per key with the request as its checkpoint: `status`, `nonce` (0 where the
JSON has no `request_nonce`), `saved` for phase `saved`. The holder of a row is the
call with its unexpired lease, so `Expire` clears it. A call of `drain`
takes the heavy-work lease and reads the keys (`Scan`, one action, as nothing happens between), then
works through its snapshot of keys: rows may meanwhile be taken by another call. `pay` is the request as
it was read at `acquire`. The ledger is the nonce of the report's unresolved
call, if any; `Dispatch` needs it to be none, as `mark_sent` does. It does not need the lease: a call that lost it may still send what it prepared,
so `StoredIsNotBought` speaks of the call that has it. `Other` is the
scheduler, which competes for the heavy-work lease. No liveness is stated: eight requests that wait
for reconciliation fill every place of the scan for ever (`cloud/user_jobs.py:265`), and nothing
in the repository promises otherwise.

`HeavyWork` has the row itself. A parent starts a child with a budget; the child looks at
the time, takes the lease for what remains plus `Grace`, works and releases it or is killed by its
parent, which needs up to `Reaping` to do so. Clocks differ by `MaxSkew`. `OneAtATime` holds when
`Grace > Reaping + MaxSkew`, and TLC refutes it when they are equal; the code's 30 s are grace for both.

### Collection, TelemetryStore

`Collection` is one device and the service in front of it. `Tick` lets the house measure something or not; a record can be read at
once, or is late (`buffered`) until `Arrive`; while the link is down all records are buffered, and `Reconnect` uploads them. `served` remembers
when a record became readable. A `slot` is what `_sync` keeps in the scheduler's state: the reference and the start stay as they are until
it completes. `run` is one `IngestionService.sync`: the recovery pass under the coverage prefix of the restoration, if one is pending, then
`ensure_period`, then the connection events, which `NoteEvent` takes one by one between reading the state and saving it. `queues` are the
windows of every source that are left; the sources take turns from `next_source_value` on. A `Request` fails (`Failing`), is cut in halves (`Splitting`, with the
learned window in `hints`) or is stored (`Storing`: records, coverage and cursors in one transaction, whose answer may be lost). A row in state failed
counts as no row wherever rows are read, so `coverage` holds the others only; `checked` are those read since the slot was opened. `broken` are the
methods of the service that always fail: history types go in one bundled request, so they fail together. Late records, lost answers, failed requests,
deadlines and killed runs share the bound `MaxFaults`. Times are in units of the shortest window.

`slot.owed` is a history variable: what the service could give when the slot was opened (`Owed`), from the first slot's start on and inside the
horizon, provided the program can know of it. A record that appears late counts if it is inside the overlap, or if the loss of connection it waited for can
be read too. Beyond that nothing is owed: a record that arrives after the overlap with no lost connection to explain it is not looked for again (`scheduler.overlap_minutes`
is the promise), nor is one whose lost connection lies before the first slot, beyond the horizon or in the very second of a reconnection.

Not modelled: the report jobs' own call of `ensure_period` (`cloud/report_jobs.py:369`), which writes the same tables with the same operators, the local worker,
whose cycles open no slot, and units, roles and names of the series.

`TelemetryStore` looks into one such transaction: old writers, which know neither bounds nor markers, go on
beside new ones; bounds are extended only from the revision they were read at, the markers of the hours that changed
stand in the journal until the publisher has acknowledged them, and an event that is told twice has one row.

### Publication

One run from lease to index, one action per transaction or object write: `Begin` (lease, revision up to which it will look),
`Load` (committed metadata, the items that the journal since the checkpoint concerns, or all of them), then per item `Take`,
`Refresh` (derived gas, stored at once), `Prepare` (get, fence), `PutPage` (conditional on the ETag), then `Finish`,
`PutManifest`, `Save` and the projection of the index (`IndexRead`, `IndexCommitted`, `IndexPut`), which has no fence.
`rev` numbers the changes and is the version of what was changed. An ETag is the number of writes an object has seen: every body
has a fresh uuid in it. A page stands for a report's HTML and JSON. `Damage` touches an object behind the publisher's
back, `Expire` ends the lease of a running publisher, `Crash` kills it; a `Fault` of `Save` loses its answer.

`NoChangeLost` is the promise of the module's docstring: an item that is clean and has nothing unread in the journal shows the present
report, feedback, gas model, tariffs and configuration. `ComparisonsFollow` is the same promise for the pages that compare with
another report, and it fails (see Findings).

Not modelled: `latest.html`, the local-file mode (see `LocalArchive`), paging and views of the audit, journal payloads of
releases that merged several changes into a row, reports that vanish.

### Owner data and gas

`GasPeriods` has a row per day, segments between replacements of the meter and the audit that counts as the revision; a page
may be old. Time is in half days, a reading being taken at noon. What the calculation makes of readings (intervals, age of the
model, hold-out, savings before and after an intervention) is derived from them, with telemetry as the constant `Seen`.
`GasCosts` has tariffs by month with their audit, a currency per price, and units of volume `Burnt`; a save names the
months it decides. `GasCache` is the cached statistics of a window, read and written in several transactions while the collector
stores samples and marks days. `OwnerRepository` and `Feedback` are the versioned writes: each method one
transaction with an `expected_version` read in an earlier one; the profile in `Feedback` shares no state with the feedback. `ModelReview` has two reviewers with settings read earlier, a lease,
a public catalogue that changes or fails, and the owner who edits settings and decides proposals from an old page.
`LatestReport` reads the table page by page with a projection that some writers do not keep; a page is the rows after the last
one in the order of time and identity, and the catalogue read so far is a set of rows.

The regression itself (nonnegative least squares and its errors), plausibility texts and the ages of facts are not modelled.
`completed_reports` reads at most 1000 rows in ascending order (`adapters/ydb/reports.py:487`), so beyond a thousand reports it keeps the oldest; the
model's `CompletedReports` says so, and nothing in the repository promises the newest.

### Analyses

Samples arrive one by one in any order (`Report`, `Sample`, `Learn`, `Arrive`, `Observe`), so a reachable state is any bounded history; the operators
translate the functions of `analytics/`, and the properties say what the result may claim of that history: no pause, outage, cycle
or share for a time without samples, means weighted by time, a packet cut without losing what it says it has, windows that add up.
Not modelled: scores and wording, morning advice, statistics of heating windows beyond their choice, the quality score's gate for hot water,
inference of a recirculation (`analytics/dhw.py:250-257`). `LongPeriods` has a calendar of six days of which two
have an hour more or less; `Comparisons` a line of hours with weather, mode and up to two actions and, apart from it, the hours of heating.

### Programs and tools

`Invocations` is the serving function: a request, its body and deadline, monitoring and timer routes, one child with
a pipe and a bound; time is a choice. Pages, the API's routes and sessions are not modelled. `LocalArchive` has two processes, an OS lock each for report
and publication, and four files replaced one after another. `PilotWorker` has the cycle of a local worker: arrivals, recalculation
of changed days, manual reports, faults between any two writes; the log outbox, health ages, change of policy and paths are not modelled.
`SqliteImport` imports three backups of one installation, killed and repeated at any page. `Compaction` applies a reviewed plan, old or new, in small batches.
`SnapshotTransfer` copies tables while writers may not have stopped, and uploads with a progress mark in or after the transaction. `StorageMaintenance`
moves published pages, moves them back and cleans up, beside a publisher that holds the same lease.

## 4. What TLC checks

Bounds are named constants in the modules' guards. Deadlock is checked where a system never stops
(`publication`); elsewhere invocations are used up or the clock stops, so a final state is expected
(`CHECK_DEADLOCK FALSE`). Symmetry is used on owners, workers, callers, results and fingerprints,
which the specifications treat alike; no liveness property is checked under symmetry.

| Run | Instance | States | Shows |
|---|---|---|---|
| `repositories` | 3 owners, 1 job, TTL 2 or 3, skew 1, clock to 3, 3 attempts; beside them the stores, two or three writes each | 613 thousand | `FencingTokens`, `LeaseMargin`, `ConfirmedCompletions`, `OwnershipHistory`; `StoreSound`, `OwnerDataSound`, `GasSound`, `ReviewSound` |
| `analyses` | 2 invocations, 2 packets of one report, 2 legacy keys, budget 2, estimates 2 and 1, 2 months; beside them the analyses, three to nine samples each | 459 thousand | `AtMostOneDispatch`, `OneUnresolvedPerJob`, `BudgetConserved`, `BudgetCap`, `SameAnswer`, `LedgerForward`; `FactsAreObserved`, `PeriodsCompare` |
| `report_user` | 2 invocations of the scheduled lane (with AI) or regeneration, 2 changes, 2 clicks, one may stall, AI on or off at every reading, no report or one of an earlier release at the start, other reports saved up to revision 1, refreshes up to revision 2 | 2.45 million | `DoneMeansSaved`, `SuccessIsReal`, `ReuseIsFresh`, `NoPurchaseAfterSave`, `InterpretationKept`, `ImplementsRegister` |
| `scheduler_safety` | 2 calls, daily lane, 2 days, window 2, scan limit 2, 1 stalled call, 1 crash | 1.54 million | `NoDoubleWork`, `WorkIsKept` |
| `scheduler_turns` | 1 call at a time, 3 lanes with 2-day seasons, 2 days, 1 crash, 1 stalled call, fair timers | 223 thousand | `LongSeasonsAreWhole`, `LanesAlternate` |
| `scheduler_catch_up` | 1 call at a time, daily lane, 3 days, window 3, scan limit 2, fair timers and runs | 75 thousand | `CatchesUp` |
| `operations` | 2 calls of drain, a report and the review, 2 clicks, 1 crash, 1 late call; beside them the service, the archive, the worker and the tools | 1.25 million | `RequestKept`, `StoredIsNotBought`; `ServiceSound`, `ToolsSound` |
| `publication` | 2 publishers, 2 reports of which one compares with the other, batch of 1, 1 change of any kind, 1 fault, fair | 218 thousand | `NoChangeLost`, `QueueConserved`, `UnpublishedExact`, `ObjectsForward`, `EverythingIsPublished` |
| `collection` | 2 history sources and the events, 3 units of time, overlap 2, window 2, 1 lost connection, 1 fault, fair | 460 thousand | `NothingLost`, `CoverageGrows`, `SlotsComplete`, `OthersArrive` |
| `user_queue_again` | 1 call at a time, 2 clicks, 1 crash | violation | `StartedAgain` |
| `publication_compared` | the instance of `publication`, with telemetry that enters the gas model as the only kind of change | violation | `ComparisonsFollow` |
| `collection_stuck` | the instance of `collection` with one history source and no fault | violation | `RecoveryCloses` |

The composed properties are conjunctions, one line per part, of the named properties of the components:

* `StoreSound`: `BoundsExact`, `MarkersCover`, `EventsCanonical` (`TelemetryStore`); `LatestIsLatest`, `ProjectionsAreTrue`, `ReadersAgree` (`LatestReport`).
* `OwnerDataSound`: `MeterSound`; `OwnerHasTheLastWord`, `ObservedOnce`; `FeedbackSound`; `AuditReplays`, `MovesLoseNothing`, `DecidedOnItsBase`,
  `EditsAreOfWhatWasRead`, `VersionsStay`, `PastCorrectionsStayInThePast`.
* `GasSound`: `TariffsAudited`, `CostsAddUp`, `AffectedExact`, `NothingElseAffected`, `OtherCostsStay`; `MeasuredIsTheMeter`, `JudgedFairly`, `PastStays`;
  `AnswersAreTrue`, `CacheIsTrue`.
* `ReviewSound`: `OneRun`, `AskedOnce`, `AboutTheModelInUse`, `DecisionIsFinal`.
* `FactsAreObserved`: `WindowsAddUp`, `GapsAreNotIdle`, `SplitConserves`; `PausesAreObserved`, `BelowIsBelow`; `OperatingTimeIsHonest`, `UptimeIsUnbroken`,
  `RepairsAreObserved`, `ConnectionIsHeard`; `TimeWeighted`, `FlowErrorIsOfHeating`, `StartsAreSeen`, `PacketIsWhole`; `EventsAreWhole`, `SharesFollowTheTarget`,
  `ConfirmedHeatCounts`, `CyclesAreObserved`, `ReadingsOnlyAdd`.
* `PeriodsCompare`: `ScheduleIsTheCalendar`, `OncePerCheckpoint`, `CountedByInstants`; `OutcomesAreIsolated`, `ChosenCompares`; `EvidenceIsFair`.
* `ServiceSound`: `NoStrayWork`, `AnswersAreTrue`; `ArchiveIsStored`, `ResultsAreHonest`, `ResultsStay`, `NeverOlder`; `InterpretedOnce`, `NothingIsStale`,
  `NeverEarly`; `OneAtATime`.
* `ToolsSound`: `ChargedOnce`, `CompleteIsTheBackup`, `NothingGoesMissing`; `CompactedExactly`, `HistoryStays`; `CopyIsOneState`, `UploadIsTheCopy`;
  `PublicationIsStored`, `PageIsLeftAlone`.

Why the bounds suffice: three owners are needed for "taken over, and taken over
again while the first still acts"; three attempts let a job be acquired, reopened
and acquired; skew 1 against TTL 2 lets two owners disagree about a live lease. In
the ledger, budget 2 refuses the second packet unless the first was charged less than its
estimate or in the other month, which also separates reservation from settlement. In the report run one change can fall into any gap between
two transactions; the second one tells "changed" from "changed back to what
the checkpoint says"; a stalled invocation, whose two leases may end independently, gives two live workers that both
believe they own the report. Revision 1 of other reports tells a publication that changed from inputs that changed. The report of an
earlier release starts with its refreshes used up (`MaxRevision + 1`): refreshes race with saves in the histories that begin without a report. A third invocation, and the explicitly
requested lane with its own fence (`SourceRevision`), are covered by the theorems.
A publisher's fault may fall before or after any object write, and the change into any gap; two reports in batches of one make every
full publication a sequence of runs. In `collection` a window of two units can be halved, the four records of two units exceed the limit of one transaction,
one request per run makes every slot a sequence of runs, and three units of time hold a lost connection, the buffered record and what follows. For the analyses, gaps are longer than what is bridged and shorter in the same history. For the
proved modules the bounds no longer matter: the theorems hold for all of them.

The scheduler's bounds: three days against a scan limit of two give a list that is longer
than one call looks at and whose length changes; two calls, one of them late,
are what it takes to overwrite a later state; one season of two days is
chosen before, between and after its daily reports.

The properties in words are in the comments above them. The ones a
reader may not expect:

* `LeaseMargin`: for an owner that was told `until` and has not begun to close
  its lease, every fenced call made before `until` on every clock succeeds. It
  depends on `renew` never shortening a lease.
* `OneUnresolvedPerJob` needs the test in `mark_sent`, not only the one in `reserve`:
  two packets can both be prepared before either is sent.
* `ImplementsRegister` is a refinement: with `report.revision` and `report.facts` for
  the register's variables, every step is `Commit`, `Refresh`, `ChangeInputs` or a
  stutter. In particular no stored version is torn and none is older than
  the inputs at its commit.
* `InterpretationKept` forbids the loss of an interpretation, not the decision against one: a save may replace it by none only if its run did not ask. With AI off a
  regeneration is such a run. That follows from the code and no document promises otherwise, so it is an exception in the property.
* `NoPurchaseAfterSave` is the code's own comment, "A retry after a committed save
  must never buy the same period again" (`cloud/report_jobs.py:451`). It holds for
  scheduled runs beside regenerations. It would not hold if an explicit run (lane
  `requested`) were added: a packet that a scheduled run prepared and handed over
  for lack of time is bought by the next scheduled run without a look at the
  stored report (`cloud/report_jobs.py:433-444`), although the explicit run has
  stored one meanwhile. The comment speaks of a *retry* and of buying *again*,
  so this is recorded as a hazard and not as a disagreement with the code.
* `LanesAlternate` has the condition the documentation names (`docs/cloud/cloud_first_m8.md`):
  the other queues depend on the completion of missing daily reports. While yesterday's report is missing, every call begins with the
  daily lane (`cloud/scheduler.py:133`), so a daily report that keeps failing takes every turn.
* `NothingLost` is about slots that close; a slot whose device was silent between its reconnection and the slot's reference stays open
  (`Silent` in `SlotsComplete`), which is the third finding below. That a closed slot has lost nothing does not rest on the recovery alone: what was stored under the prefix of a
  restoration, what the ordinary coverage says and what the overlap asks again have to meet without a gap.

### Findings

* `StartedAgain` is broken by one crash. The success outcome has no nonce and is written in
  one transaction, the job completed in the next (`cloud/user_jobs.py:338-342`). A call that dies
  in between leaves a live request without a nonce; the next call fails on it,
  the failure keeps the payload without nonce, and so does every further click.
* `ComparisonsFollow` is broken by one death. `_run` stores a report's refreshed gas (`application/incremental_publication.py:537`)
  long before it saves the index, in which the pages that compare with it are marked (line 640). The repeated run finds the gas unchanged,
  does not mark them, and a page rendered before keeps the old comparison for good.
* `RecoveryCloses` is broken by a device that comes back and measures a little later. The slot's reference stays until the slot completes (`cloud/scheduler.py:185-196`), and
  `sync` looks for a sample only between the restoration and one second after that reference (`application/ingestion.py:414-416`). If the first sample is later than that, the recovery never closes and the
  slot never completes; with an open slot no report is made (`cloud/scheduler.py:256`). `docs/reports/report-sync-reliability.md:75-79` lets a recovery close when valid telemetry appears after the restoration.
  Only a manual `sync` or the local worker, which use the present moment, get out of it.

### Fairness

`Scheduler.FairSpec`: the platform's timer fires again and again and every call
ends (the platform kills it otherwise), which is weak fairness of `Start` and
`Proceed`; the lease of a dead call ends. Strong fairness of `FetchInTime` and `Turn` says that
telemetry is not incomplete, nor the deadline missed, at *every* call. `HealthySpec` adds,
for `CatchesUp` only, that repeated runs succeed, that calls after the report delay
have the minutes for a search, and that in the end searches are not cut short. The last assumption is
needed: the cursor is saved past the period at which the time ran out
(`cloud/scheduler.py:323-327`), so cut searches in step with complete ones can pass the same
day every time; TLC shows it when the assumption is dropped.

`Publication.FairSpec` is weak fairness of one disjunction: a timer starts publishers again and again, some started one goes on, and the lease of
a dead one ends in time. Nothing is asked of any one publisher, and faults are bounded. `Collection.FairSpec` is weak fairness of `Work`: the timer
starts runs and a run goes on; a service that answers, where it is needed, is a hypothesis of the property (`broken = {}`).

## 5. What TLAPS proves

The theorems hold for every number of owners, jobs, callers, keys, workers, calls, lanes, days, publishers, reports and sources, any set of comparisons, any window, overlap, limit and horizon, any skew, TTL, budget, estimate and bound, from the
assumptions named in the modules (`NoOwner` is no owner; TTLs and estimates are positive; legacy keys are no request keys and
keys, which are digests, are finitely many; lanes are distinct names; reports are finitely many and none compares with itself; keys of requests are a list without repetition; history sources are finitely many; a charge never exceeds the estimate, which is part of the action).

| Module | Theorems about properties of a run | Further |
|---|---|---|
| `JobLeaseProofs` | `Fencing`, `MarginIsSafe`, `HonestCompletion`, `HistoryHolds` (an action property) | `TypeCorrect` |
| `AiLedgerProofs` | `PaidOnce`, `SingleUnresolved`, `BudgetRespected`, `BudgetAddsUp`, `AnswersAgree`, `OnlyForward` (action) | `TypeCorrect` |
| `ReportJobsProofs` | `DoneIsSaved`, `FreshReuse`, `HonestSuccess`, `Implements` (refinement), `KeepsInterpretation`, `NeverBoughtAgain` (action) | `TypeCorrect` |
| `SchedulerProofs` | `WorkedOnce`, `WholeSeasons`, `KeepsWork` (action) | `TypeCorrect` |
| `PublicationProofs` | `NothingLost`, `QueueConservation`, `UnpublishedCorrect`, `MovesForward` (action) | `TypeCorrect` |
| `UserQueueProofs` | `KeepsRequest`, `NotBoughtAgain` (both action) | `TypeCorrect` |
| `CollectionProofs` | `LosesNothing`, `OnlyGrows` (both action) | `TypeCorrect`, `Invariance` |
| `RepositoryProofs` | — | the parts of composed properties below |

Hence every safety property of the runs about the first seven is a theorem. `RepositoryProofs` has those parts of the properties of `repositories` that concern five of its
components: `BoundsTold`, `ChangesMarked`, `OneRowOfAnEvent` (`TelemetryStore`), `SearchAnswersTruly`, `ProjectionsTrue` (`LatestReport`), `AuditReplays`, `EditsAreOfWhatWasRead`,
`MovesLoseNothing`, `DecidedOnItsBase`, `VersionsStay`, `PastCorrectionsStayInThePast` (`OwnerRepository`), `AnswersTrue`, `CacheTrue` (`GasCache`) and all of `ReviewSound` (`ModelReview`).
These modules are instantiated, not extended, by the run's module, so what a proof needs of their constants stands in the theorem: bounds of time are natural numbers (`MaxTime`, `MaxDay`),
days are (`Days`), identities, ends and moments of reports are finitely many and a page has room for one (`Sized`).

**JobLease.** The four predicates are not inductive. The strengthening `Inv` adds that a
released row has expired by the clock that wrote it (`ReleasedExpired`), hence cannot look
alive again, and that no owner was told of a later end than the row's own while
the attempt is the row's (`NeverShortened`). One lemma per action shows `Inv'`; the action property
`OwnershipHistory` follows from the same case distinction.

**AiLedger.** `PaidOnce` rests on `DispatchGate`: at most one caller stands
between the gate and the network for a key, only while the key is `sent` or
later, and nothing has been dispatched for it yet. `BudgetRespected` needs that months of calls are
known (`MonthsKnown`); `AnswersAgree` needs where in `analyze` a
result may be held (`ResultsInPlace`) and that lookups concern request keys (`LookupKeys`).
`BudgetAddsUp` is about sums over finite sets, which are folds, and an induction over sets cannot be cited here. The proof goes around it:
a sum of weights `w` over `S` *is* the number of units `{<<x, n>> : x \in S, n \in 1 .. w[x]}` (`Units`, `Total`). That the fold is that number
(`SumsAreTotal`) follows by a minimal counterexample in the well-founded order of strict subsets, and what a step does to a sum then follows from facts about
cardinalities (adding an element, replacing one). With these, `Balanced` — reserved is the sum of open calls, charged that of settled ones — is preserved by
opening a call (`OpensBalance`), by settling it in a later month than it was reserved in (`SettlesBalance`), and by everything else (`KeepsBalance`).

**ReportJobs.** Leases may end at any moment, so the invariant never says what holds while a lease is good. It speaks of owner and attempt, which change
together at every takeover. `Reads`: facts whose revision has not moved are the present inputs; this is what `save_report`'s test of the revision turns into
freshness. `Carries`: while nobody took the row over, it is as the invocation left it. `LaneRowOK`, `UserRowOK`: what a row claims of the stored report.
`Keeps`: with the lock not taken over, an invocation at a report interpreted under the present policy keeps or buys an interpretation, or is in a lane
that decided not to ask. `FirstOnly`: where only the scheduled lane makes reports,
one that still asks for a paid answer has no stored report to ask for. `Implements` shows each step of `ReportJobs` to be a step of `ReportRegister` or a stutter.
One theorem has a hypothesis, and it is needed: `NeverBoughtAgain` assumes that no requested run shares the report (see above); the run is such an instance.
`KeepsInterpretation` has none. That AI is off, that a requested run does not use it, or that there is nothing to ask are exceptions that the property itself
names (`DeclinedAI`), and what is proved is that nothing else loses an interpretation: no failed or refused purchase, no takeover, no concurrent lane, and never a scheduled run.

**Scheduler.** All of it rests on the fence of `save`: what a call that still holds the lease has in memory is what is saved (`Fenced`). So one lemma
about the operators on the memory (displace, defer, retry, advance) serves for the memory and for the checkpoint, and a call that lost
its lease matters to nobody. `Turning` says that the report a call runs is the one its lane has in work. `Once` and `Whole` are the properties themselves. That a season
remains ripe while days end needs arithmetic of periods and spans for any `Span`.

**UserQueue.** The invariant says what a row tells truly (`Truthful`: `saved` if and only if the report of the row's nonce is stored; nonces are given once), and what a call has in hand
as long as it has the row's lease (`Agrees`: from `acquire` to the outcome its copy is the row's request, and what it is about to buy or to save is not stored). Nothing is said of a call
that lost the lease: its writes are refused. Three lemmas say that a step of one call disturbs no other (`GoesOn`, `Writes`, `Frees`).

**Publication.** `NoChangeLost` speaks of clean items and of a journal that has been read; the invariant must speak of all items at all times. `Good` says of an
item, a revision `c` and the journal: whatever changed up to `c` and is not flagged is shown, and the gas that is stored for it to show is current. `Sound` is that of
a table of items. The invariant has it twice: of the committed rows with their checkpoint (`Committed`), and of the rows as they would be after the save of the
run that holds the lease, with the revision up to which that run looked (`After`, `Holds`). A run without the lease needs no invariant: `Fenced` refuses its
save, and until then it changes nothing but objects and the gas stored in a report.
So there are three arguments. What others do while a run is under way is a case of `Newer`: each scope of the journal either is as it was, and then what it is about
is as it was, or has a row beyond the revision the run captured; and stored gas that was current is current still. `NewerSound` shows that `Sound` survives this.
Loading moves from the checkpoint to the captured revision: what the journal announced in between is flagged (`Upgrade`), and where the gas model turned out to be unchanged
there is nothing to flag (`NothingOwed`); the latter needs that the remembered model is never newer than the checkpoint, which is what `Remembered` — the test of the revision
after the model was loaded — is for. Rendering clears an item's flags, and its page is then fresh (`Making`). A page is exempt from freshness of gas where its report was replaced
between reading and `persist_refresh`; the exemption is carried from page to page until the gas is computed again (`Exempt`).
A save may be committed and its answer lost: `Based` or `Saved` says which, and the second leaves nothing to be done.
The counters are in the same invariant: what a run adds to them is the difference of the dirty items it will leave and those it found (`Accounts`), and saving replaces one number by
the other (`AfterCounts`, cardinalities of tables that agree but for the loaded items).
`ObjectsForward` is about runs that have lost the lease as well: one of them may still put the page it prepared. `PagesInv` says that stored reports and sources are
never older than the pages shown or than what any run has in hand (`Dated`, `Shown`), and `Leads` that what the holder of the lease has in hand is no older than what is published
or what a run that lost the lease may still put: the holder read it later. A page in the making is therefore newer than the object it replaces, unless the object's ETag
has moved since it was read (`Putting`), and then the conditional put is refused. The index has a shorter chain: what it shows is at most the committed manifest's number, which is
at most that of the manifest that was written last (`IndexInv`).

**Collection.** `NothingLost` is one sentence about the end of a slot; the invariant follows a record from the service to the database. `ServiceOK`: what is late because a
connection was lost becomes readable the moment it is restored, and not before. `RowsOK` says what a row of the coverage is worth. It does not stand for the records of its window, only for those
that were there when it was read: an ordinary row for those that came in time, a row that was read in this slot for those that were there before the slot was opened, a row under the prefix of a
restoration for those that were there before it. A late record is then stored by one of three ways. It is inside the overlap, and the slot asks again (`Rechecked`, `AllCovered`); or its lost
connection was handled by a recovery, whose rows begin at that loss or earlier (`LossesOK`); or the loss is still on record (`Known`), and then the slot cannot be complete.
The last case is where it could go wrong: events are noted one by one, `handled` and `restore` let old ones be ignored, and several losses are merged into the oldest. `Passed` says
what the events already looked at have left in the state, `NotingOK` that whatever is not yet known is among those to come. `SlotOK` ties the slots together: what the last complete one covered, the next
one need not ask, since cursors and start follow it. `QueuesOK` is the collection itself: in a run without errors every unit of time is covered or still in a queue (`Accounted`), through
windows, halves and bundles; that the maximal intervals of a finite set of units contain all of them (`Intervals`) needs a minimal counterexample in a well-founded order, as no induction can be cited.
`CoverageGrows` is an action property of the same invariant; that `handled` never goes back is the part that needs it.

**TelemetryStore.** Writers of an earlier release extend samples and know nothing of bounds, so bounds are worth nothing by themselves. `BoundsOK` says that their revisions never run ahead
of the devices' and that they are exact if all are the present ones; a read-modify-write from an older revision then leaves bounds that readers do not trust. `UnseenOK` follows
a change of the calibration that nobody has acknowledged: some scope and hour of the journal has a marker that covers it, and that is younger than every older such change. The last half is what the
publisher's checkpoint needs, since it may stop at any revision.

**LatestReport.** The search lists the table twice and looks for what is new in between. While the first listing is under way there may be no moment at which the table was as listed. `SearchInv` says why the answer
is right nevertheless: once it is complete either there was such a moment (`Snapshot`), or a report is missing from it that the second listing will meet or has met (`Noticed`), and then the search starts again.

**OwnerRepository.** `OwnedInv` follows each entry of the audit to the record it is about: an identity once given is the record's (`IdentitiesOK`), a day without a reading lost its last
one to a move (`VacantOK`), what an author has read is the record or an earlier version of it (`ViewsOK`, not of readings, which count again from one after a move), an accepted proposal's settings are in
their place (`AcceptedOK`). `AuditReplays` is a fold over the audit. `Replayed` says directly what a set of entries leaves behind, every record being that of its last entry unless that one moves it away; `OneEntryMore` shows that this satisfies
the recursion of the fold and `FoldsAreReplayed`, by a minimal counterexample, that nothing else does. `PastCorrectionsStayInThePast` needs that the greatest revision in the order of (time, number) exists and is unique.

**GasCache.** A calculation reads markers, samples and caches in transactions of their own while samples arrive. `WasAt(r, days, marks)` says of days and markers that they were those of revision `r`: a day whose present marker is not younger than `r` has the
content it had then. Everything cached or in the hands of a calculation was true of some such past (`TrueSnapshot`, `TruePrint`); that the markers under which it was stored are still the present ones
then makes it true of the present, which is the code's test.

**ModelReview.** `ReviewInv` ties a reviewer at work to the settings that he read, to the run that he claimed and to the facts that he was given (`WorkOK`), and every proposal to the settings it was made for (`ProposalsOK`). A run whose lease ended may still
finish; that it cannot ask again about what was decided meanwhile follows from the revision in its hands being an old one.

Only model-checked: all liveness (`LanesAlternate`, `CatchesUp`, `EverythingIsPublished`, `SlotsComplete`, `OthersArrive`), since the provers have neither
fairness nor ENABLED; and what
`RepositoryProofs` leaves of the composed properties: meter readings, tariffs, feedback and `ReadersAgree` of `repositories`, and the analyses, service and tools. Of these, the ones about analyses compare recursive functions over histories with their definitions, which is induction over data.

## 6. Not modelled

Building and truncating the text of an AI packet, the regression of the gas model, scores and wording of analyses, rendering, the site's pages and API,
sessions and the proxy, metrics and logs, schema and paging of the database, recommendation maintenance and its outbox, the moving end of a running season, the
evaluation of models, `infra/` and `deploy/`. `PROJECT.json` names the status of each component:

* modelled: Job leases; Heavy work lease
* partly: AI ledger and paid requests; Report jobs; User jobs (regeneration queue); Report store; Scheduler; Collection and coverage; Ingestion and connection recovery; Publication; Owner data: feedback, profile, readings, tariffs; Gas accounting; AI settings and model review; Analytics; Periods and calendar; YDB access; Cloud runtime and web API; Evaluation, command line, deployment and tools
* not modelled: Domain models and configuration; Monitoring and telemetry export; Report rendering

