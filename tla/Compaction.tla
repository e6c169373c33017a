----------------------------- MODULE Compaction -----------------------------
(* tools/cleanup_ydb_storage.py, cleanup_configuration_snapshots.py,            *)
(* cleanup_chart_cache.py and compact_configuration_export.py: an operator      *)
(* exports the recorded settings of a device and the chart packets of a report, *)
(* reviews a plan made of that export, and applies it in small transactions     *)
(* that touch nothing unless every row still is what the plan saw.  Settings go *)
(* on being recorded, the report is refreshed and read meanwhile, the operator  *)
(* may stop anywhere and apply the same plan, or an older one, again.           *)
EXTENDS Integers, FiniteSets, FiniteSetsExt

CONSTANTS Settings,        \* what a device may be set to
          MaxRows, MaxReports, MaxPlans,
          BatchSize        \* rows of a transaction

VARIABLES rows,            \* config_snapshots of the device
          ids, device,     \* the last event number, and the settings the device has
          report,          \* version of the saved report
          packet, legacy,  \* chart packets: under the present key, under the old keys
          export,          \* what an export has read so far, table by table
          plans,           \* the reviewed plans
          plan, left,      \* the plan being applied, and the batches it still has
          phase, removals
storage == <<rows, ids, device, report, packet, legacy, export, plans, plan, left, phase, removals>>

NoPlan == [sources |-> {}, report |-> 0, expected |-> 0, after |-> 0, old |-> {}]
NoPacket == 0
NoExport == [rows |-> {}, report |-> 0, packet |-> NoPacket, legacy |-> {}, tables |-> 0]

\* A row recorded before the compact form carries runtime values with the
\* setting; the same setting may be recorded again and again.
Row(id, setting, compact) == [id |-> id, setting |-> setting, compact |-> compact]
StorageInit ==
  /\ \E f \in [1..MaxRows - 2 -> Settings] : rows = {Row(i, f[i], FALSE) : i \in 1..MaxRows - 2} /\ device = f[MaxRows - 2]
  /\ ids = MaxRows - 2 /\ report = 2 /\ packet \in {NoPacket, 1} /\ legacy \in {{}, {2}, {1, 2}}
  /\ export = NoExport /\ plans = {} /\ plan = NoPlan /\ left = {} /\ phase = "idle" /\ removals = 0

InForce(store, id) ==
  LET before == {r \in store : r.id <= id}
  IN IF before = {} THEN {} ELSE {r.setting : r \in {s \in before : \A b \in before : b.id <= s.id}}
\* A discovery records the settings when they changed.
Discover ==
  /\ ids < MaxRows
  /\ \E s \in Settings : s # device /\ device' = s /\ rows' = rows \union {Row(ids + 1, s, TRUE)} /\ ids' = ids + 1
  /\ UNCHANGED <<report, packet, legacy, export, plans, plan, left, phase, removals>>

\* A later import of the old installation takes a row away (SqliteImport).
Reimport ==
  /\ phase = "idle" /\ removals = 0 /\ removals' = 1
  /\ \E r \in rows : rows' = rows \ {r}
  /\ UNCHANGED <<ids, device, report, packet, legacy, export, plans, plan, left, phase>>

\* The packet of the report is the one under its present key, or an old one.
Packets == {p \in {packet} \union legacy : p = report}
Refresh ==   \* the owner's data changed: the packet goes over to the new version
  /\ report < MaxReports
  /\ report' = report + 1 /\ packet' = IF Packets # {} THEN report + 1 ELSE packet
  /\ UNCHANGED <<rows, ids, device, legacy, export, plans, plan, left, phase, removals>>
Read ==
  /\ Packets # {} /\ packet' = report
  /\ UNCHANGED <<rows, ids, device, report, legacy, export, plans, plan, left, phase, removals>>

\* compact(): the first row of every run of one setting stands for the run.
Compacted(r) == [r EXCEPT !.compact = TRUE]
Starts(source) == {r \in source : \A b \in source : b.id < r.id => InForce(source, r.id - 1) # {r.setting}}
RunOf(source, f) == {r \in source : r.id >= f.id /\ \A g \in Starts(source) : g.id <= r.id => g.id <= f.id}
Place(run, r) == Cardinality({b \in run : b.id < r.id}) \div BatchSize
Batches(source) ==
  UNION {{[target |-> Compacted(f), first |-> f, rows |-> {r \in RunOf(source, f) : Place(RunOf(source, f), r) = n}]
             : n \in {Place(RunOf(source, f), r) : r \in RunOf(source, f)}} : f \in Starts(source)}

\* An export reads one table after the other; only the fences of the cleanup
\* notice what changed in between.
Export ==
  /\ phase = "idle" /\ Cardinality(plans) < MaxPlans
  /\ \/ export.tables = 0 /\ export' = [export EXCEPT !.rows = rows, !.tables = 1]
     \/ export.tables = 1 /\ export' = [export EXCEPT !.report = report, !.tables = 2]
     \/ export.tables = 2 /\ export' = [export EXCEPT !.packet = packet, !.legacy = legacy, !.tables = 3]
  /\ UNCHANGED <<rows, ids, device, report, packet, legacy, plans, plan, left, phase, removals>>

\* The plan: a report whose packet the present code can read, and the rows under
\* old keys that may then go.
After(e) == IF e.packet = e.report THEN e.packet ELSE IF e.report \in e.legacy THEN e.report ELSE NoPacket
Planned(e) == [sources |-> e.rows, report |-> IF After(e) = NoPacket \/ e.legacy = {} THEN 0 ELSE e.report,
               expected |-> e.packet, after |-> After(e), old |-> e.legacy]
Plan ==
  /\ phase = "idle" /\ export.tables = 3
  /\ plans' = plans \union {Planned(export)} /\ export' = NoExport
  /\ UNCHANGED <<rows, ids, device, report, packet, legacy, plan, left, phase, removals>>

\* A plan is only applied if it is the one its export gives.
Apply ==
  /\ phase = "idle"
  /\ \E p \in plans : plan' = p /\ left' = Batches(p.sources)
  /\ phase' = "rows"
  /\ UNCHANGED <<rows, ids, device, report, packet, legacy, export, plans, removals>>

\* One batch: the target may only come into being in the transaction that finds
\* the row it was made of, and every row must be there as it was exported.
Batch == CHOOSE b \in left : \A c \in left : Min({r.id : r \in b.rows}) <= Min({r.id : r \in c.rows})
Complete(b) == b.target \in rows
Conflicted(b) ==
  \/ ~Complete(b) /\ b.first \notin rows
  \/ ~Complete(b) /\ ~b.rows \subseteq rows
ApplyBatch ==
  /\ phase = "rows" /\ left # {} /\ ~Conflicted(Batch)
  /\ rows' = (rows \ (Batch.rows \ {Batch.target})) \union {Batch.target}
  /\ left' = left \ {Batch}
  /\ UNCHANGED <<ids, device, report, packet, legacy, export, plans, plan, phase, removals>>
BatchConflict ==
  /\ phase = "rows" /\ left # {} /\ Conflicted(Batch)
  /\ phase' = "idle" /\ left' = {} /\ plan' = NoPlan
  /\ UNCHANGED <<rows, ids, device, report, packet, legacy, export, plans, removals>>
RowsDone ==
  /\ phase = "rows" /\ left = {} /\ phase' = "charts"
  /\ UNCHANGED <<rows, ids, device, report, packet, legacy, export, plans, plan, left, removals>>

\* The packet of a report: nothing unless the report, the packet under the
\* present key and the old rows are the exported ones.
SameReport == report = plan.report
ChartConflict == ~SameReport \/ packet \notin {plan.after, plan.expected} \/ (packet # plan.after /\ ~plan.old \subseteq legacy)
ApplyChart ==
  /\ phase = "charts"
  /\ IF plan.report = 0 \/ ChartConflict THEN UNCHANGED <<packet, legacy>>
     ELSE packet' = plan.after /\ legacy' = legacy \ plan.old
  /\ phase' = "applied"
  /\ UNCHANGED <<rows, ids, device, report, export, plans, plan, left, removals>>

Leave == /\ phase # "idle" /\ phase' = "idle" /\ left' = {} /\ plan' = NoPlan
         /\ UNCHANGED <<rows, ids, device, report, packet, legacy, export, plans, removals>>

StorageNext == \/ Discover \/ Reimport \/ Refresh \/ Read \/ Export \/ Plan \/ Apply \/ ApplyBatch \/ BatchConflict
               \/ RowsDone \/ ApplyChart \/ Leave

\* verify_exports: of the exported rows exactly the compacted ones are left.
Expected == {Compacted(f) : f \in Starts(plan.sources)}
Strict == {r \in rows : \E s \in plan.sources : s.id = r.id} = Expected

-----------------------------------------------------------------------------
(* No step of the cleanup, finished or cut short, of this plan or an older one, *)
(* changes which settings were in force when any of the rows was recorded, nor  *)
(* takes from a report the chart packet it was published with.                  *)
HistoryStays ==
  [][removals' = removals =>
     /\ \A i \in 1..ids : InForce(rows', i) = InForce(rows, i)
     /\ report' = report /\ Packets # {} => Packets' # {}]_storage

(* A plan applied to the end leaves just the compacted timeline of its rows.    *)
CompactedExactly == phase \in {"charts", "applied"} => Strict
=============================================================================
