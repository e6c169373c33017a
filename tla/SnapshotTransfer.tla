-------------------------- MODULE SnapshotTransfer --------------------------
(* tools/transfer_ydb_snapshot.py and tools/upload_ydb_snapshot.py: a private   *)
(* copy of the imported database is written to files, table by table, compared  *)
(* with the database it came from, and uploaded into an empty namespace.  The   *)
(* upload marks how many rows of a table it has stored: with the rows, in a     *)
(* table that has an index, and after them where rows are written in bulk.  It  *)
(* may die anywhere and is then started again; the writers that should have     *)
(* been stopped may not have been.                                              *)
EXTENDS Integers, FiniteSets

CONSTANTS Indexed, Bulk,         \* tables that have an index, and those that have none
          Keys,                  \* keys of a table, in order
          MaxWrites, MaxExports, Batch

Tables == Indexed \union Bulk
VARIABLES source, past,          \* the imported database, and the states it has been in
          artifacts, exporting,  \* the exported copies; what the export has still to do
          target, state, progress,
          upload, written,       \* the copy being uploaded; rows in bulk not marked yet
          writes
transfer == <<source, past, artifacts, exporting, target, state, progress, upload, written, writes>>

None == "none"
Absent == [rows |-> [t \in Tables |-> {}], manifest |-> FALSE, made |-> FALSE, accepted |-> FALSE]
Nothing == [t \in Tables |-> {}]
Unmarked == [t \in Tables |-> -1]

TransferInit ==
  /\ \E n \in Keys : source = [t \in Tables |-> {<<k, 1>> : k \in {i \in Keys : i <= n}}]
  /\ past = {source} /\ artifacts = [e \in 1..MaxExports |-> Absent]
  /\ exporting = [of |-> 0, step |-> None, left |-> {}]
  /\ \E t \in Tables : target \in {Nothing, [Nothing EXCEPT ![t] = {<<1, 2>>}]}
  /\ state = [of |-> 0, status |-> None] /\ progress = Unmarked
  /\ upload = 0 /\ written = None /\ writes = 0

\* A writer that was not stopped: a row of the source is new or changed.
Overwrite(store, t, k, v) == [store EXCEPT ![t] = {r \in @ : r[1] # k} \union {<<k, v>>}]
SourceWrite ==
  /\ writes < MaxWrites /\ writes' = writes + 1
  /\ \E t \in Tables, k \in Keys : source' = Overwrite(source, t, k, writes + 2)
  /\ past' = past \union {source'}
  /\ UNCHANGED <<artifacts, exporting, target, state, progress, upload, written>>

-----------------------------------------------------------------------------
(* The export: into a directory of its own, each table in one snapshot read,    *)
(* then the manifest, then the whole comparison with the database.              *)
BeginExport ==
  /\ exporting.step = None
  /\ \E e \in 1..MaxExports :
       /\ ~artifacts[e].made /\ \A f \in 1..MaxExports : f < e => artifacts[f].made
       /\ exporting' = [of |-> e, step |-> "tables", left |-> Tables]
       /\ artifacts' = [artifacts EXCEPT ![e].made = TRUE]
  /\ UNCHANGED <<source, past, target, state, progress, upload, written, writes>>

ExportTable ==
  /\ exporting.step = "tables" /\ exporting.left # {}
  /\ \E t \in exporting.left :
       /\ artifacts' = [artifacts EXCEPT ![exporting.of].rows[t] = source[t]]
       /\ exporting' = [exporting EXCEPT !.left = @ \ {t}]
  /\ UNCHANGED <<source, past, target, state, progress, upload, written, writes>>

WriteManifest ==
  /\ exporting.step = "tables" /\ exporting.left = {}
  /\ artifacts' = [artifacts EXCEPT ![exporting.of].manifest = TRUE]
  /\ exporting' = [exporting EXCEPT !.step = "compare", !.left = Tables]
  /\ UNCHANGED <<source, past, target, state, progress, upload, written, writes>>

\* The merge of two ordered streams: what is missing, extra or changed.
Missing(file, store) == {r \in file : ~\E s \in store : s[1] = r[1]}
Extra(file, store) == {s \in store : ~\E r \in file : r[1] = s[1]}
Changed(file, store) == {r \in file : \E s \in store : s[1] = r[1] /\ s[2] # r[2]}
KeysOnly(file, store) == Missing(file, store) \union Extra(file, store)
Mismatches(file, store) == Missing(file, store) \union Extra(file, store) \union Changed(file, store)

CompareTable ==
  /\ exporting.step = "compare" /\ exporting.left # {}
  /\ \E t \in exporting.left :
       IF Mismatches(artifacts[exporting.of].rows[t], source[t]) = {}
       THEN exporting' = [exporting EXCEPT !.left = @ \ {t}] /\ UNCHANGED artifacts
       ELSE \* the artifact stays for diagnosis, without its manifest
            /\ exporting' = [of |-> 0, step |-> None, left |-> {}]
            /\ artifacts' = [artifacts EXCEPT ![exporting.of].manifest = FALSE]
  /\ UNCHANGED <<source, past, target, state, progress, upload, written, writes>>

Accept ==
  /\ exporting.step = "compare" /\ exporting.left = {}
  /\ exporting' = [of |-> 0, step |-> None, left |-> {}]
  /\ artifacts' = [artifacts EXCEPT ![exporting.of].accepted = TRUE]
  /\ UNCHANGED <<source, past, target, state, progress, upload, written, writes>>

-----------------------------------------------------------------------------
\* Two artifacts are the same copy if their manifests have the same digest.
Content(e) == artifacts[e].rows
Usable(e) == artifacts[e].manifest
Size(e, t) == Cardinality(artifacts[e].rows[t])

\* An upload begins in a namespace that holds nothing but the schema, or goes on
\* with the copy the namespace belongs to.
Belongs(e) == state.of # 0 /\ Content(state.of) = Content(e)
BeginUpload ==
  /\ upload = 0
  /\ \E e \in 1..MaxExports :
       /\ Usable(e) /\ exporting.of # e
       /\ upload' = e
       /\ IF state.status = None
          THEN target = Nothing /\ state' = [of |-> e, status |-> "loading"]
          ELSE Belongs(e) /\ UNCHANGED state
  /\ written' = None
  /\ UNCHANGED <<source, past, artifacts, exporting, target, progress, writes>>

Done(t) == IF progress[t] < 0 THEN 0 ELSE progress[t]
First(rows, n) == {r \in rows : Cardinality({s \in rows : s[1] < r[1]}) < n}
NextRows(t) == First(Content(upload)[t], Done(t) + Batch) \ First(Content(upload)[t], Done(t))
Stored(t) == [target EXCEPT ![t] = {r \in @ : ~\E n \in NextRows(t) : n[1] = r[1]} \union NextRows(t)]
Advanced(t) == Done(t) + Cardinality(NextRows(t))
Current == upload # 0 /\ written = None

\* Rows and progress in one transaction.
UploadIndexed ==
  /\ Current
  /\ \E t \in Indexed :
       /\ Done(t) < Size(upload, t)
       /\ target' = Stored(t) /\ progress' = [progress EXCEPT ![t] = Advanced(t)]
  /\ UNCHANGED <<source, past, artifacts, exporting, state, upload, written, writes>>

\* Rows in bulk; the marker comes after them.
UploadBulk ==
  /\ Current
  /\ \E t \in Bulk : Done(t) < Size(upload, t) /\ target' = Stored(t) /\ written' = t
  /\ UNCHANGED <<source, past, artifacts, exporting, state, progress, upload, writes>>
MarkBulk ==
  /\ upload # 0 /\ written # None
  /\ progress' = [progress EXCEPT ![written] = Advanced(written)] /\ written' = None
  /\ UNCHANGED <<source, past, artifacts, exporting, target, state, upload, writes>>
MarkEmpty ==
  /\ Current
  /\ \E t \in Tables : Size(upload, t) = 0 /\ progress[t] < 0 /\ progress' = [progress EXCEPT ![t] = 0]
  /\ UNCHANGED <<source, past, artifacts, exporting, target, state, upload, written, writes>>

Complete ==
  /\ Current /\ \A t \in Tables : progress[t] = Size(upload, t)
  /\ state' = [of |-> upload, status |-> "complete"] /\ upload' = 0
  /\ UNCHANGED <<source, past, artifacts, exporting, target, progress, written, writes>>

\* Either program is killed: an export that was comparing leaves its manifest.
Crash == /\ \/ upload # 0 /\ upload' = 0 /\ written' = None /\ UNCHANGED exporting
            \/ exporting.step # None /\ exporting' = [of |-> 0, step |-> None, left |-> {}]
               /\ UNCHANGED <<upload, written>>
         /\ UNCHANGED <<source, past, artifacts, target, state, progress, writes>>

CloudWrite ==
  /\ state.status = "complete" /\ writes < MaxWrites /\ writes' = writes + 1
  /\ \E t \in Tables, k \in Keys : target' = Overwrite(target, t, k, writes + 2)
  /\ UNCHANGED <<source, past, artifacts, exporting, state, progress, upload, written>>

TransferNext == \/ SourceWrite \/ BeginExport \/ ExportTable \/ WriteManifest \/ CompareTable \/ Accept
                \/ BeginUpload \/ UploadIndexed \/ UploadBulk \/ MarkBulk \/ MarkEmpty \/ Complete
                \/ Crash \/ CloudWrite

\* verify_snapshot with require_upload_complete.
Markers(e) == state = [of |-> e, status |-> "complete"] /\ \A t \in Tables : progress[t] = Size(e, t)
VerifiedCopy(e) == Markers(e) /\ \A t \in Tables : Mismatches(Content(e)[t], target[t]) = {}

-----------------------------------------------------------------------------
(* A copy whose export ended is a state the database was in, although its tables *)
(* were read one after the other and a writer may have been at work.            *)
CopyIsOneState == \A e \in 1..MaxExports : artifacts[e].accepted => Content(e) \in past

(* A marker counts rows that are stored: whatever died, a completed namespace   *)
(* holds the copy it belongs to, and nothing else till the cloud writes.        *)
UploadIsTheCopy ==
  /\ state.of # 0 /\ writes = 0 => \A t \in Tables : First(Content(state.of)[t], Done(t)) \subseteq target[t]
  /\ state.status = "complete" =>
       \/ VerifiedCopy(state.of)
       \/ writes > 0 /\ Markers(state.of)
=============================================================================
