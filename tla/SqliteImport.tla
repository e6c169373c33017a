---------------------------- MODULE SqliteImport ----------------------------
(* tools/import_sqlite.py and tools/verify_sqlite_import.py: the one-way import *)
(* of a closed backup of the old installation.  It may be cut short anywhere,   *)
(* started again, and repeated with a later backup; every row is written in one *)
(* transaction with a record (migration_records) of what it came from, and the  *)
(* rows that left the source are removed in a second pass.  A backup is a set   *)
(* of rows; one table stands for each kind of row the importer tells apart:     *)
(* samples and settings (written by the page), readings (with the audit rows    *)
(* that enrich them), audits (a surrogate key), calls (charged to a month),     *)
(* changes (coalesced by what they are about), the chart and ledger sidecars.   *)
EXTENDS Integers, Sequences, FiniteSets, FiniteSetsExt

CONSTANTS Backups,       \* the backups made of the old installation
          Months, MaxRuns, MaxSpent

VARIABLES file,          \* the backup lying at the path
          opened,        \* the rows the running import reads
          pass, left,    \* the pass it is in, and what the pass has still to look at
          target, records, budget, serial, raised,
          state,         \* metadata sqlite_import_state
          runs, spent
imported == <<file, opened, pass, left, target, records, budget, serial, raised, state, runs, spent>>

Scans == <<"samples", "settings", "readings", "audits", "calls", "changes">>
Passes == [i \in 1..6 |-> <<"scan", Scans[i]>>] \o [i \in 1..6 |-> <<"clean", Scans[7 - i]>>]
          \o <<<<"scan", "charts">>, <<"clean", "charts">>, <<"scan", "ledger">>, <<"clean", "ledger">>>>
Idle == 0
Table == Passes[pass][2]
Scanning(tables) == pass # Idle /\ Passes[pass][1] = "scan" /\ Table \in tables /\ left # {}
Cleaning(tables) == pass # Idle /\ Passes[pass][1] = "clean" /\ Table \in tables /\ left # {}

\* A tariff carries the corrections recorded for it.
Enrich(rows, r) ==
  [r EXCEPT !.val = <<r.val, IF r.table = "readings" THEN {a.val : a \in {b \in rows : b.table = "audits" /\ b.key = r.id}}
                                                     ELSE {}>>]
Read(rows, table) == {Enrich(rows, r) : r \in {s \in rows : s.table = table}}
Recorded(table) == {m \in records : m.row.table = table}
Known(r) == {m \in records : m.row.table = r.table /\ m.row.id = r.id}
At(table, key) == {t \in target : t.table = table /\ t.key = key}

ImportInit ==
  /\ file \in Backups /\ opened = {} /\ pass = Idle /\ left = {}
  /\ target = {} /\ records = {} /\ serial = 0
  /\ raised = [t \in {"settings", "changes"} |-> 0]
  /\ budget = [m \in Months |-> [reserved |-> 0, charged |-> 0]]
  /\ state = [state |-> "none", of |-> {}] /\ runs = 0 /\ spent = 0

\* What a pass begins with: the rows of its table, or the records made of them.
Work(rows, p) ==
  IF p = Idle \/ p > Len(Passes) THEN {}
  ELSE IF Passes[p][1] = "scan" THEN Read(rows, Passes[p][2]) ELSE {m.row : m \in Recorded(Passes[p][2])}

Begin ==
  /\ pass = Idle /\ runs < MaxRuns
  /\ runs' = runs + 1 /\ opened' = file /\ pass' = 1 /\ left' = Read(file, Scans[1])
  /\ state' = [state |-> "running", of |-> file]
  /\ UNCHANGED <<file, target, records, budget, serial, raised, spent>>

Stopped == /\ pass' = Idle /\ left' = {} /\ opened' = {}

\* The next rows of the pass, in the order of the source: one transaction's worth.
Page(n) == {r \in left : Cardinality({s \in left : s.id < r.id}) < n}
One == CHOOSE r \in left : \A s \in left : r.id <= s.id

\* A first audit row draws the next number; a known one keeps its own.
TargetKey(r) ==
  IF r.table # "audits" THEN r.key
  ELSE IF Known(r) # {} THEN (CHOOSE m \in Known(r) : TRUE).key ELSE serial + 1
Image(r) == [table |-> r.table, key |-> TargetKey(r), val |-> r.val]
Same(r) == [row |-> r, key |-> TargetKey(r)] \in records /\ Image(r) \in target
Moved(r) == {t \in target : \E m \in Known(r) : t.table = r.table /\ t.key = m.key /\ m.key # TargetKey(r)}

\* What a row counts for in the month it is of.
LegacyUsage(r) == [reserved |-> 0, charged |-> r.tokens]
LedgerAmounts(r) == IF r.pending THEN [reserved |-> r.tokens, charged |-> 0] ELSE [reserved |-> 0, charged |-> r.tokens]
Usage(r) == CASE r.table = "calls" -> LegacyUsage(r) [] r.table = "ledger" -> LedgerAmounts(r)
              [] OTHER -> [reserved |-> 0, charged |-> 0]
Used(rows, m, field) == MapThenSumSet(LAMBDA r : Usage(r)[field], {r \in rows : r.month = m})

\* What an earlier import counted for the same row is taken back first.
Adjust(old, new) ==
  [m \in Months |-> [f \in {"reserved", "charged"} |-> budget[m][f] + Used(new, m, f) - Used(old, m, f)]]

\* The rows of a transaction that are not there already are written, each with
\* its record; what the row was written as before, under another key, goes.
Write(rows) ==
  LET changed == {r \in rows : ~Same(r)}
      known   == UNION {Known(r) : r \in changed}
      images  == {Image(r) : r \in changed}
  IN /\ target' = {t \in target \ UNION {Moved(r) : r \in changed} :
                     ~\E i \in images : i.table = t.table /\ i.key = t.key} \union images
     /\ records' = (records \ known) \union {[row |-> r, key |-> TargetKey(r)] : r \in changed}
     /\ budget' = Adjust({m.row : m \in known}, changed)
     /\ serial' = serial + Cardinality({r \in changed : r.table = "audits" /\ Known(r) = {}})
     /\ left' = left \ rows
     /\ UNCHANGED <<file, opened, pass, raised, state, runs, spent>>

ImportSamples == Scanning({"samples"}) /\ Write(Page(2))
ImportPage == Scanning({"settings"}) /\ Write(Page(2))
ImportRow == Scanning({"readings", "audits", "calls", "changes"}) /\ Write({One})
ImportEntry == Scanning({"ledger"}) /\ Write({One})

\* A chart packet is bound to an accepted report: one that another accepted
\* packet contradicts ends the run.
Conflicting(r) == \E t \in At("charts", r.key) : t.val # r.val
ImportPacket == Scanning({"charts"}) /\ ~Conflicting(One) /\ Write({One})
Conflict ==
  /\ Scanning({"charts"}) /\ Conflicting(One) /\ Stopped
  /\ UNCHANGED <<file, target, records, budget, serial, raised, state, runs, spent>>

\* A record whose row is no longer in the source is removed with its target,
\* unless a newer change about the same thing has taken the target over.
Kept(r) == r.table = "changes" /\ \E s \in opened : s.table = "changes" /\ s.key = r.key
Remove(r) ==
  LET gone == ~\E s \in opened : s.table = r.table /\ s.id = r.id
      key  == (CHOOSE m \in Known(r) : TRUE).key
  IN /\ left' = left \ {r}
     /\ target' = IF gone /\ ~Kept(r) THEN target \ At(r.table, key) ELSE target
     /\ records' = IF gone THEN records \ Known(r) ELSE records
     /\ budget' = IF gone THEN Adjust({r}, {}) ELSE budget
     /\ UNCHANGED <<file, opened, pass, serial, raised, state, runs, spent>>
RemoveRow == Cleaning({Scans[i] : i \in 1..6}) /\ Remove(One)
RemovePacket == Cleaning({"charts"}) /\ Remove(One)
RemoveEntry == Cleaning({"ledger"}) /\ Remove(One)

\* The next pass; the deletions begin only if the file is still the one opened.
Raised(p) == [t \in DOMAIN raised |->
                IF Passes[p] # <<"scan", t>> THEN raised[t]
                ELSE Max({raised[t]} \union {r.id : r \in {s \in opened : s.table = t}})]
Checked(p) == p \in {6, Len(Passes)}
NextPass ==
  /\ pass # Idle /\ left = {} /\ pass < Len(Passes)
  /\ Checked(pass) => file = opened
  /\ pass' = pass + 1 /\ left' = Work(opened, pass + 1) /\ raised' = Raised(pass)
  /\ UNCHANGED <<file, opened, target, records, budget, serial, state, runs, spent>>

Refuse ==
  /\ pass # Idle /\ left = {} /\ Checked(pass) /\ file # opened
  /\ Stopped /\ raised' = Raised(pass)
  /\ UNCHANGED <<file, target, records, budget, serial, state, runs, spent>>

Finish ==
  /\ pass = Len(Passes) /\ left = {} /\ file = opened
  /\ state' = [state |-> "complete", of |-> opened] /\ Stopped
  /\ UNCHANGED <<file, target, records, budget, serial, raised, runs, spent>>

Crash == /\ pass # Idle /\ Stopped
         /\ UNCHANGED <<file, target, records, budget, serial, raised, state, runs, spent>>

\* A later backup is put in the file's place, and the cloud charges its own calls.
Replace == /\ \E b \in Backups : b # file /\ file' = b
           /\ UNCHANGED <<opened, pass, left, target, records, budget, serial, raised, state, runs, spent>>
Spend == /\ spent < MaxSpent /\ spent' = spent + 1
         /\ \E m \in Months : budget' = [budget EXCEPT ![m].charged = @ + 1]
         /\ UNCHANGED <<file, opened, pass, left, target, records, serial, raised, state, runs>>

ImportNext == \/ Begin \/ ImportSamples \/ ImportPage \/ ImportRow \/ ImportPacket \/ Conflict \/ ImportEntry
              \/ RemoveRow \/ RemovePacket \/ RemoveEntry \/ NextPass \/ Refuse \/ Finish \/ Crash
              \/ Replace \/ Spend

\* The verifier: every row has its record and its target, no record is stale,
\* no owner table holds more rows than the source, and the run was completed.
RowVerified(r) == \E m \in records : m.row = r /\ [table |-> r.table, key |-> m.key, val |-> r.val] \in target
PageVerified(rows) == \A r \in rows : RowVerified(r)
SidecarVerified(rows, table) == {m.row : m \in Recorded(table)} = Read(rows, table) /\ PageVerified(Read(rows, table))
Stale(rows, table) == {m \in Recorded(table) : m.row.id \notin {r.id : r \in Read(rows, table)}}
Owned == {"readings", "audits"}
Verified(rows) ==
  /\ state = [state |-> "complete", of |-> rows]
  /\ \A i \in 1..6 : PageVerified(Read(rows, Scans[i])) /\ Stale(rows, Scans[i]) = {}
  /\ \A table \in Owned : Cardinality({t \in target : t.table = table}) <= Cardinality(Read(rows, table))
  /\ \A table \in {"charts", "ledger"} : SidecarVerified(rows, table)

-----------------------------------------------------------------------------
(* Whatever was cut short or repeated, a month is charged for the recorded      *)
(* calls and ledger entries, once each, and for what the cloud spent itself     *)
(* (_adjust_legacy_budget, _adjust_ledger_budget).                              *)
ChargedOnce ==
  LET rows == {m.row : m \in records}
      all(field) == MapThenSumSet(LAMBDA m : budget[m][field], Months)
  IN /\ all("charged") = spent + MapThenSumSet(LAMBDA r : Usage(r).charged, rows)
     /\ \A m \in Months : budget[m].reserved = Used(rows, m, "reserved")

(* An import recorded as complete is one the verifier accepts: the target holds *)
(* the rows of that backup and nothing that left the source.                    *)
CompleteIsTheBackup ==
  state.state = "complete" =>
    /\ Verified(state.of)
    /\ Cardinality(target) = Cardinality(records)
    /\ \A r \in state.of : r.table \in DOMAIN raised => r.id <= raised[r.table]

(* A row that is in the backup being read and already has its place in the      *)
(* target does not lose it: deletions only concern what left the source.        *)
NothingGoesMissing ==
  [][\A r \in opened : \A m \in Known(r) :
       At(r.table, m.key) # {} /\ (r.table = "audits" \/ r.key = m.key) => At(r.table, m.key)' # {}]_imported
=============================================================================
