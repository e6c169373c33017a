----------------------------- MODULE LatestReport -----------------------------
(***************************************************************************)
(* The search for the report generated last (adapters/ydb/latest_report.py)*)
(* over a table read page by page, with a disposable projection of each    *)
(* report's time, while reports are saved by writers that keep the         *)
(* projection and by others that do not.                                   *)
(***************************************************************************)
EXTENDS Integers, FiniteSets, FiniteSetsExt, SequencesExt

CONSTANTS Ids, Ends, Moments,   \* of reports: identities, ends of periods, times of generation
          PageSize,             \* _PAGE_SIZE; batches of payloads are of one report
          MaxSaves, MaxSearches \* bounds

VARIABLES
    reports,     \* id -> what is stored
    projected,   \* id -> the disposable projection in app_meta
    saves, searches,
    step,        \* of the search under way
    catalogue,   \* the rows it has listed
    again,       \* what it lists at the end, to compare
    stamps,      \* id -> the time it goes by
    fetched,     \* a payload read whose projection is not written yet
    answer,
    newest       \* history: what was newest at some moment of this search

latest == <<reports, projected, saves, searches, step, catalogue, again, stamps, fetched, answer, newest>>

None == [id |-> 0, generated |-> 0]
LatestInit ==
    /\ reports = <<>> /\ projected = <<>> /\ saves = 0 /\ searches = 0
    /\ step = "idle" /\ catalogue = {} /\ again = {} /\ stamps = <<>> /\ fetched = <<>>
    /\ answer = None /\ newest = {}

Set(f, k, v) == [x \in DOMAIN f \cup {k} |-> IF x = k THEN v ELSE f[x]]
Row(id) == [id |-> id, end |-> reports[id].end, revision |-> reports[id].revision]
\* The rule of the table's former reader: the latest, then the earliest period, then the lowest id.
Later(a, b) == a.generated > b.generated \/
               (a.generated = b.generated /\ (a.end < b.end \/ (a.end = b.end /\ a.id < b.id)))
Newest(rs) ==
    IF DOMAIN rs = {} THEN None
    ELSE LET item(i) == [id |-> i, end |-> rs[i].end, generated |-> rs[i].generated]
             best == CHOOSE i \in DOMAIN rs : \A j \in DOMAIN rs \ {i} : Later(item(i), item(j))
         IN  [id |-> best, generated |-> rs[best].generated]

\* save_report, and cache_parameters where the writer binds it to the same transaction.
SaveReport(id, end, generated, projects) ==
    LET old == IF id \in DOMAIN reports THEN reports[id].revision ELSE 0
        new == [end |-> end, generated |-> generated, revision |-> old + 1]
    IN  /\ saves < MaxSaves /\ saves' = saves + 1
        /\ reports' = Set(reports, id, new)
        /\ projected' = IF projects THEN Set(projected, id, new) ELSE projected
        /\ newest' = IF step = "idle" THEN newest ELSE newest \cup {Newest(reports')}
        /\ UNCHANGED <<searches, step, catalogue, again, stamps, fetched, answer>>

LatestReport ==
    /\ step = "idle" /\ searches < MaxSearches /\ searches' = searches + 1
    /\ step' = "list" /\ newest' = {Newest(reports)}
    /\ catalogue' = {} /\ again' = {} /\ stamps' = <<>> /\ fetched' = <<>> /\ answer' = None
    /\ UNCHANGED <<reports, projected, saves>>

\* _catalogue: one page of the table, the reports that follow the last one listed.
After(listed) == IF listed = {} THEN -1 ELSE Max({row.id : row \in listed})
Page(listed) ==
    LET rest == {i \in DOMAIN reports : i > After(listed)}
    IN  {Row(i) : i \in {i \in rest : Cardinality({j \in rest : j < i}) < PageSize}}
LastPage(page) == Cardinality(page) < PageSize
ListPage ==
    /\ step = "list" /\ catalogue' = catalogue \cup Page(catalogue)
    /\ step' = IF ~LastPage(Page(catalogue)) THEN "list" ELSE IF catalogue' = {} THEN "compare" ELSE "cached"
    /\ UNCHANGED <<reports, projected, saves, searches, again, stamps, fetched, answer, newest>>

Usable(row) == /\ row.id \in DOMAIN projected
               /\ projected[row.id].revision = row.revision /\ projected[row.id].end = row.end
ReadCached ==
    /\ step = "cached" /\ step' = "fill"
    /\ stamps' = [i \in {row.id : row \in {row \in catalogue : Usable(row)}} |-> projected[i].generated]
    /\ UNCHANGED <<reports, projected, saves, searches, catalogue, again, fetched, answer, newest>>

Missing == {row \in catalogue : row.id \notin DOMAIN stamps}
Same(row) == row.id \in DOMAIN reports /\ Row(row.id) = row
\* "reports changed while latest report was selected": the search is given up.
GiveUp == step' = "idle" /\ UNCHANGED <<reports, projected, saves, searches, catalogue, again, stamps, fetched, answer, newest>>
\* _fill: the payload of a report without a projection.
Fetch ==
    /\ step = "fill" /\ Missing # {} /\ fetched = <<>>
    /\ LET row == CHOOSE first \in Missing : \A other \in Missing : first.id <= other.id
       IN  IF ~Same(row) THEN GiveUp
           ELSE /\ fetched' = <<row, reports[row.id].generated>>
                /\ UNCHANGED <<reports, projected, saves, searches, step, catalogue, again, stamps, answer, newest>>
\* _save_cache_batch: the projection is written where the report is still the one that was read.
Project ==
    /\ step = "fill" /\ fetched # <<>>
    /\ LET row == fetched[1]
       IN  IF ~Same(row) THEN GiveUp
           ELSE /\ projected' = Set(projected, row.id, [end |-> row.end, generated |-> fetched[2], revision |-> row.revision])
                /\ stamps' = Set(stamps, row.id, fetched[2]) /\ fetched' = <<>>
                /\ UNCHANGED <<reports, saves, searches, step, catalogue, again, answer, newest>>

Choose ==
    /\ step = "fill" /\ Missing = {} /\ fetched = <<>>
    /\ LET item(row) == [id |-> row.id, end |-> row.end, generated |-> stamps[row.id]]
           best == CHOOSE row \in catalogue : \A other \in catalogue \ {row} : Later(item(row), item(other))
       IN  IF ~Same(best) \/ reports[best.id].generated # stamps[best.id] THEN GiveUp
           ELSE /\ answer' = [id |-> best.id, generated |-> stamps[best.id]] /\ step' = "compare"
                /\ UNCHANGED <<reports, projected, saves, searches, catalogue, again, stamps, fetched, newest>>

\* The table is listed once more; a report saved meanwhile makes the search fail.
Compare ==
    /\ step = "compare"
    /\ again' = again \cup Page(again)
    /\ step' = IF ~LastPage(Page(again)) THEN "compare" ELSE IF again' = catalogue THEN "done" ELSE "idle"
    /\ UNCHANGED <<reports, projected, saves, searches, catalogue, stamps, fetched, answer, newest>>
Return == step = "done" /\ step' = "idle" /\ UNCHANGED <<reports, projected, saves, searches, catalogue, again, stamps, fetched, answer, newest>>

LatestNext ==
    \/ \E id \in Ids, end \in Ends, generated \in Moments, projects \in BOOLEAN : SaveReport(id, end, generated, projects)
    \/ LatestReport \/ ListPage \/ ReadCached \/ Fetch \/ Project \/ Choose \/ Compare \/ Return

LatestSpec == LatestInit /\ [][LatestNext]_latest

-----------------------------------------------------------------------------
(* The readers of the table by period (adapters/ydb/reports.py).  Ends are days, a report is   *)
(* of the day before its end, and rows that an index orders alike come in any order.           *)
Best(ids, bound) ==
    {i \in ids : Cardinality({j \in ids : reports[j].end > reports[i].end
                                          \/ (reports[j].end = reports[i].end /\ j < i)}) < bound}
FirstPages(ids, bound) ==
    {page \in kSubset(Min({bound, Cardinality(ids)}), ids) : \A i \in page, j \in ids \ page : reports[i].end >= reports[j].end}
\* prior_reports: where the first page is full, the rows as old as its last one are read again, page by
\* page, and after each the best are kept; the orders the rows may come in give all that may be answered.
PriorReports(before, bound) ==
    LET ids == {i \in DOMAIN reports : reports[i].end <= before}
        Tied(page) == {i \in ids : reports[i].end = Min({reports[j].end : j \in page})}
    IN  UNION {IF Cardinality(page) < bound THEN {page}
               ELSE {FoldLeft(LAMBDA kept, i : Best(kept \cup {i}, bound), page \ Tied(page), rows) : rows \in SetToSeqs(Tied(page))}
               : page \in FirstPages(ids, bound)}

Complete(id, now) == reports[id].end <= now /\ reports[id].generated >= reports[id].end
\* completed_reports: the bound holds for rows, the oldest first, before it is seen which are complete.
CompletedReports(now, bound) ==
    LET due == {i \in DOMAIN reports : reports[i].end <= now}
    IN  {i \in due : Complete(i, now) /\ Cardinality({j \in due : reports[j].end < reports[i].end}) < bound}
\* latest_completed_daily_report_start: of the rows that have begun, the latest first, the first complete one.
LatestCompleted(now) ==
    LET rows == SetToSortSeq({i \in DOMAIN reports : reports[i].end - 1 < now},
                             LAMBDA i, j : reports[i].end > reports[j].end \/ (reports[i].end = reports[j].end /\ i > j))
        found == SelectInSeq(rows, LAMBDA i : Complete(i, now))
    IN  IF found = 0 THEN 0 ELSE reports[rows[found]].end

-----------------------------------------------------------------------------
(* What the search answers was the newest report at one moment of the search, by the rule for  *)
(* equal times too, although it never sees the table at one moment: a report saved between two *)
(* pages, by a writer that knows nothing of the projection, is noticed or comes later.         *)
LatestIsLatest == step = "done" => answer \in newest

(* A projection of a report's present revision tells the time of that revision.                *)
ProjectionsAreTrue ==
    \A id \in DOMAIN projected : projected[id].revision = reports[id].revision =>
        projected[id].generated = reports[id].generated /\ projected[id].end = reports[id].end

(* Whatever order equal rows come in, the reports before a day are the same ones, the latest of *)
(* them; the day last completed is that of a complete report, also where later ones are not,    *)
(* and it is the latest of those the bounded list has while the bound is not reached.           *)
ReadersAgree ==
    \A now \in Ends \cup Moments :
        /\ \A bound \in 1 .. Cardinality(Ids) :
              PriorReports(now, bound) = {Best({i \in DOMAIN reports : reports[i].end <= now}, bound)}
        /\ LatestCompleted(now) = Max({0} \cup {reports[i].end : i \in CompletedReports(now, Cardinality(Ids))})

=============================================================================
