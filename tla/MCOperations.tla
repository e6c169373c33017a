---------------------------- MODULE MCOperations ----------------------------
(***************************************************************************)
(* What runs the program and what an operator does with its stores, side   *)
(* by side: two calls of drain over a report and the review, and beside    *)
(* them, each on its own, the function that takes requests, the archive    *)
(* and the worker of a local installation, and the tools that move,        *)
(* shrink and copy what is stored.  part says which of them a behaviour is *)
(* about; the others stay as they begin.                                   *)
(***************************************************************************)
EXTENDS UserQueue, TLC

VARIABLES part,
    request, input, reply, busy, child, pipe, effects, counters, stopping, ready, writes,  \* Invocations
    archived, notes, pages, regeneration, running, publishing, procs, versions, polls, deaths, halved, \* LocalArchive
    clock, content, marks, events, reports, baseline, seeded, place, todo, today, late, held,
    status, asked, torn, arrivals, faults, manual,                                         \* PilotWorker
    file, opened, pass, left, target, records, budget, serial, raised, state, runs, spent, \* SqliteImport
    snapshots, ids, device, report, packet, legacy, export, plans, plan, batches, phase, removals, \* Compaction
    source, past, artifacts, exporting, copy, copyState, progress, upload, written, edits, \* SnapshotTransfer
    bucket, versioned, pointer, index, holder, pub, tool, files, rendered, tools, switches, \* StorageMaintenance
    now, row, op, calls                                                                    \* HeavyWork

MCReportAndReview == <<"a", "review">>
Symmetric == Permutations(Workers)

Service == INSTANCE Invocations WITH Requests <- {"r", "s"}, Statuses <- {"ok", "failure", "validation"}
Archive == INSTANCE LocalArchive WITH Processes <- {"p1", "p2"}, MaxVersions <- 3, MaxNotes <- 1, MaxPolls <- 1,
    MaxDeaths <- 1, stored <- archived, files <- pages, status <- regeneration, torn <- halved
Heavy == INSTANCE HeavyWork WITH Instances <- {"i", "j"}, Kinds <- [scheduler |-> 1, maintenance |-> 2],
    Reserve <- 1, Budgets <- {2}, Grace <- 3, Reaping <- 1, MaxSkew <- 1, MaxTime <- 5, MaxCalls <- 2
Worker == INSTANCE PilotWorker WITH LastDay <- 3, Catchup <- 2, MaxArrivals <- 1, MaxFaults <- 1, MaxManual <- 1

\* Three backups of one installation: as it was, with rows changed, added and
\* removed, and one with almost nothing left.
ARow(t, i, k, v, m, p, n) == [table |-> t, id |-> i, key |-> k, val |-> v, month |-> m, pending |-> p, tokens |-> n]
Plain(t, i, k, v) == ARow(t, i, k, v, 1, FALSE, 0)
MCBackups ==
    {{Plain("samples", 1, 1, 1), Plain("samples", 2, 2, 1), Plain("settings", 1, 1, 1), Plain("readings", 1, 1, 1),
      Plain("readings", 2, 2, 1), Plain("audits", 1, 1, 1), ARow("calls", 1, 1, 1, 1, FALSE, 2),
      Plain("changes", 1, 1, 1), Plain("charts", 1, 1, 1), ARow("ledger", 1, 1, 1, 1, TRUE, 3)},
     {Plain("samples", 1, 1, 1), Plain("samples", 2, 2, 2), Plain("samples", 3, 3, 1), Plain("settings", 1, 2, 1),
      Plain("readings", 1, 1, 1), Plain("readings", 2, 4, 1), Plain("audits", 2, 1, 2),
      ARow("calls", 1, 1, 2, 2, FALSE, 3), Plain("changes", 2, 1, 2), ARow("ledger", 1, 1, 2, 1, FALSE, 1)},
     {Plain("readings", 1, 1, 1), Plain("charts", 1, 1, 2), ARow("ledger", 2, 2, 2, 2, FALSE, 1)}}
Imports == INSTANCE SqliteImport WITH Backups <- MCBackups, Months <- {1, 2}, MaxRuns <- 2, MaxSpent <- 1
Shrinking == INSTANCE Compaction WITH Settings <- {1, 2}, MaxRows <- 4, MaxReports <- 3, MaxPlans <- 1, BatchSize <- 1,
    rows <- snapshots, left <- batches
Copying == INSTANCE SnapshotTransfer WITH Indexed <- {"i"}, Bulk <- {"b"}, Keys <- {1, 2}, MaxWrites <- 2,
    MaxExports <- 1, Batch <- 1, target <- copy, state <- copyState, writes <- edits
Upkeep == INSTANCE StorageMaintenance WITH MaxBody <- 4, MaxWork <- 6, MaxSwitches <- 2, Chunk <- 2

-----------------------------------------------------------------------------
serviceVars == <<request, input, reply, busy, child, pipe, effects, counters, stopping, ready, writes>>
archiveVars == <<archived, notes, pages, regeneration, running, publishing, procs, versions, polls, deaths, halved>>
workerVars == <<clock, content, marks, events, reports, baseline, seeded, place, todo, today, late, held,
                status, asked, torn, arrivals, faults, manual>>
importVars == <<file, opened, pass, left, target, records, budget, serial, raised, state, runs, spent>>
shrinkVars == <<snapshots, ids, device, report, packet, legacy, export, plans, plan, batches, phase, removals>>
copyVars == <<source, past, artifacts, exporting, copy, copyState, progress, upload, written, edits>>
upkeepVars == <<bucket, versioned, pointer, index, holder, pub, tool, files, rendered, tools, switches>>
heavyVars == <<now, row, op, calls>>

Parts == {"queue", "service", "archive", "worker", "import", "shrinking", "copying", "upkeep", "heavy"}

\* What a part may begin with is of no interest while another one is looked at.
OperationsInit ==
    /\ part \in Parts /\ Init
    /\ Service!InvocationsInit /\ (part # "service" => ready /\ writes)
    /\ Archive!ArchiveInit /\ (part # "archive" => pages["html"] = <<1, 0>>)
    /\ Worker!WorkerInit /\ (part # "worker" => marks[1] = 0 /\ reports[1].seen = -1)
    /\ Imports!ImportInit /\ (part # "import" => file = CHOOSE b \in MCBackups : TRUE)
    /\ Shrinking!StorageInit /\ (part # "shrinking" => packet = 1 /\ legacy = {} /\ \A r \in snapshots : r.setting = 1)
    /\ Copying!TransferInit /\ (part # "copying" => Cardinality(source["i"]) = 1 /\ copy = Copying!Nothing)
    /\ Heavy!HeavyInit
    /\ Upkeep!MaintenanceInit /\ (part # "upkeep" => versioned)

Rest(mine) ==
    /\ UNCHANGED part
    /\ IF mine = "queue" THEN TRUE ELSE UNCHANGED vars
    /\ IF mine = "service" THEN TRUE ELSE UNCHANGED serviceVars
    /\ IF mine = "archive" THEN TRUE ELSE UNCHANGED archiveVars
    /\ IF mine = "worker" THEN TRUE ELSE UNCHANGED workerVars
    /\ IF mine = "import" THEN TRUE ELSE UNCHANGED importVars
    /\ IF mine = "shrinking" THEN TRUE ELSE UNCHANGED shrinkVars
    /\ IF mine = "copying" THEN TRUE ELSE UNCHANGED copyVars
    /\ IF mine = "upkeep" THEN TRUE ELSE UNCHANGED upkeepVars
    /\ IF mine = "heavy" THEN TRUE ELSE UNCHANGED heavyVars
OperationsNext ==
    \/ part = "queue" /\ Next /\ Rest("queue")
    \/ part = "service" /\ Service!InvocationsNext /\ Rest("service")
    \/ part = "archive" /\ Archive!ArchiveNext /\ Rest("archive")
    \/ part = "worker" /\ Worker!WorkerNext /\ Rest("worker")
    \/ part = "import" /\ Imports!ImportNext /\ Rest("import")
    \/ part = "shrinking" /\ Shrinking!StorageNext /\ Rest("shrinking")
    \/ part = "copying" /\ Copying!TransferNext /\ Rest("copying")
    \/ part = "upkeep" /\ Upkeep!MaintenanceNext /\ Rest("upkeep")
    \/ part = "heavy" /\ Heavy!HeavyNext /\ Rest("heavy")
OperationsSpec == OperationsInit /\ [][OperationsNext]_<<part, vars, serviceVars, archiveVars, workerVars, importVars,
                                                         shrinkVars, copyVars, upkeepVars, heavyVars>>
\* The queue of the user's requests alone.
QueueSpec == OperationsSpec /\ part = "queue"

-----------------------------------------------------------------------------
(* A request that is answered left nothing working behind it, and its answer says what happened  *)
(* (Invocations); long operations of all instances exclude each other (HeavyWork); a local       *)
(* report, its pages and its result stay those of one version, whichever process dies or polls   *)
(* (LocalArchive); and a day of a local installation is interpreted once, not before it is over, *)
(* and is not left stale (PilotWorker).                                                          *)
ServiceSound ==
    /\ [](/\ part = "service" => Service!NoStrayWork /\ Service!AnswersAreTrue
          /\ part = "archive" => Archive!ArchiveIsStored /\ Archive!ResultsAreHonest
          /\ part = "worker" => Worker!InterpretedOnce
          /\ part = "heavy" => Heavy!OneAtATime)
    /\ Archive!ResultsStay /\ Archive!NeverOlder /\ Worker!NothingIsStale /\ Worker!NeverEarly

(* An import that is complete is the backup, charged once, and takes nothing away before it has  *)
(* what replaces it (SqliteImport); settings are compacted to when they changed (Compaction); a  *)
(* copied database is one that was, and an upload is that copy (SnapshotTransfer); and the       *)
(* published pages stay stored through migration, rollback and cleanup (StorageMaintenance).     *)
ToolsSound ==
    /\ [](/\ part = "import" => Imports!ChargedOnce /\ Imports!CompleteIsTheBackup
          /\ part = "shrinking" => Shrinking!CompactedExactly
          /\ part = "copying" => Copying!CopyIsOneState /\ Copying!UploadIsTheCopy
          /\ part = "upkeep" => Upkeep!PublicationIsStored)
    /\ Imports!NothingGoesMissing /\ Shrinking!HistoryStays /\ Upkeep!PageIsLeftAlone
=============================================================================
