----------------------------- MODULE LocalArchive -----------------------------
(***************************************************************************)
(* A report of the local archive: its regeneration by a background thread  *)
(* or the command line (application/regeneration.py) and the republication *)
(* that an owner's feedback asks for (_publish_report of publication.py).  *)
(*                                                                         *)
(* Every process does one thing at a time; two OS locks, of the report and *)
(* of the publication, keep processes apart and are dropped when one dies. *)
(* Each file is replaced atomically, the four of them one after another.   *)
(***************************************************************************)
EXTENDS Integers, FiniteSets

CONSTANTS Processes, MaxVersions, MaxNotes, MaxPolls, MaxDeaths

VARIABLES
    stored,     \* the version of the report in the database
    notes,      \* feedback the owner has left: what a page shows besides the report
    files,      \* html, json, manifest, latest; 0 for a file that is not there
    status,     \* durable state of the regeneration
    running, publishing,   \* who holds the report's lock and the publication's
    procs,      \* what each process does
    versions,   \* so many candidates were generated
    polls, deaths,
    torn        \* history: a process died between two files, or before the save

archive == <<stored, notes, files, status, running, publishing, procs, versions, polls, deaths, torn>>

NoProcess == "nobody"
Files == {"html", "json", "manifest", "latest"}
Idle == [at |-> "idle", candidate |-> 0, snapshot |-> [f \in Files |-> <<0, 0>>], left |-> {}, others |-> FALSE, page |-> <<0, 0>>]
Gone == <<0, 0>>                   \* <<version, notes>> of what a file shows

ArchiveInit ==
    /\ stored = 1 /\ notes = 0 /\ versions = 1 /\ polls = 0 /\ deaths = 0 /\ torn = FALSE
    /\ files \in {[f \in Files |-> Gone], [f \in Files |-> <<1, 0>>]}
    /\ status = [is |-> "idle", of |-> 0] /\ running = NoProcess /\ publishing = NoProcess
    /\ procs = [p \in Processes |-> Idle]

At(p) == procs[p].at
Goes(p, place) == procs' = [procs EXCEPT ![p].at = place]
Rests(p) == procs' = [procs EXCEPT ![p] = Idle]

-----------------------------------------------------------------------------
\* start and run_sync: the report's lock first; while it is held a click starts nothing.
Click(p) ==
    /\ At(p) = "idle" /\ versions < MaxVersions /\ running = NoProcess
    /\ running' = p /\ status' = [is |-> "queued", of |-> 0] /\ Goes(p, "queued")
    /\ UNCHANGED <<stored, notes, files, publishing, versions, polls, deaths, torn>>
Run(p) ==
    /\ At(p) = "queued" /\ status' = [is |-> "running", of |-> 0] /\ Goes(p, "computing")
    /\ UNCHANGED <<stored, notes, files, running, publishing, versions, polls, deaths, torn>>
\* AnalysisService.regenerate: a candidate that is not stored yet, or an exception.
Compute(p) ==
    /\ At(p) = "computing" /\ versions < MaxVersions
    /\ \/ /\ versions' = versions + 1
          /\ procs' = [procs EXCEPT ![p].at = "commit", ![p].candidate = versions + 1]
       \/ Goes(p, "failed") /\ UNCHANGED versions
    /\ UNCHANGED <<stored, notes, files, status, running, publishing, polls, deaths, torn>>

\* _publication_snapshot, under the publication lock.
Commit(p) ==
    /\ At(p) = "commit" /\ publishing = NoProcess /\ publishing' = p
    /\ procs' = [procs EXCEPT ![p].at = "html", ![p].snapshot = files, ![p].page = <<procs[p].candidate, notes>>]
    /\ UNCHANGED <<stored, notes, files, status, running, versions, polls, deaths, torn>>

\* _publish_report: the stored report is read under the lock; a newer export of
\* the same report, left by a regeneration, is kept and shown with today's feedback.
Newer == IF files.json[1] > stored THEN files.json[1] ELSE stored
Feedback(p) ==
    /\ At(p) = "idle" /\ publishing = NoProcess /\ notes < MaxNotes
    /\ notes' = notes + 1 /\ publishing' = p
    /\ procs' = [procs EXCEPT ![p].at = "html", ![p].page = <<Newer, notes + 1>>]
    /\ UNCHANGED <<stored, files, status, running, versions, polls, deaths, torn>>

\* _publish_report_locked: page, data, manifest, latest.  A manifest that is missing
\* beside other exports is not rebuilt, and latest.html then changes only if it
\* already shows this report.
Advertised(p) == files.manifest # Gone \/ ~procs[p].others
Write(p, f) ==
    /\ files' = [files EXCEPT ![f] = procs[p].page]
    /\ UNCHANGED <<stored, notes, status, running, publishing, versions, polls, deaths, torn>>
Skip == UNCHANGED <<stored, notes, files, status, running, publishing, versions, polls, deaths, torn>>
WriteHtml(p) ==
    /\ At(p) = "html" /\ Write(p, "html")
    /\ procs' = [procs EXCEPT ![p].at = "json", ![p].others = (files.html # Gone)]
WriteJson(p) ==
    /\ At(p) = "json" /\ Goes(p, "manifest")
    /\ IF procs[p].candidate = 0 /\ procs[p].page[1] # stored THEN Skip ELSE Write(p, "json")
WriteManifest(p) ==
    /\ At(p) = "manifest" /\ Goes(p, "latest")
    /\ IF Advertised(p) THEN Write(p, "manifest") ELSE Skip
WriteLatest(p) ==
    /\ At(p) = "latest" /\ Goes(p, IF procs[p].candidate = 0 THEN "published" ELSE "save")
    /\ IF Advertised(p) \/ files.latest # Gone THEN Write(p, "latest") ELSE Skip
Published(p) ==
    /\ At(p) = "published" /\ publishing' = NoProcess /\ Rests(p)
    /\ UNCHANGED <<stored, notes, files, status, running, versions, polls, deaths, torn>>

\* save_report, then the lock of the publication and the durable result.
Save(p) ==
    /\ At(p) = "save" /\ stored' = procs[p].candidate /\ publishing' = NoProcess /\ Goes(p, "saved")
    /\ UNCHANGED <<notes, files, status, running, versions, polls, deaths, torn>>
\* A file or the database refuses: what was replaced is put back, file by file.
Snapshot(p) == Files
Refused(p) ==
    /\ At(p) \in {"html", "json", "manifest", "latest", "save"} /\ procs[p].candidate # 0
    /\ procs' = [procs EXCEPT ![p].at = "restore", ![p].left = Snapshot(p)]
    /\ UNCHANGED <<stored, notes, files, status, running, publishing, versions, polls, deaths, torn>>
Restore(p) ==
    /\ At(p) = "restore"
    /\ \/ \E f \in procs[p].left :
             /\ files' = [files EXCEPT ![f] = procs[p].snapshot[f]]
             /\ procs' = [procs EXCEPT ![p].left = @ \ {f}] /\ UNCHANGED publishing
       \/ procs[p].left = {} /\ publishing' = NoProcess /\ Goes(p, "failed") /\ UNCHANGED files
    /\ UNCHANGED <<stored, notes, status, running, versions, polls, deaths, torn>>

Finish(p) ==
    /\ At(p) \in {"saved", "failed"}
    /\ status' = IF At(p) = "saved" THEN [is |-> "success", of |-> procs[p].candidate] ELSE [is |-> "error", of |-> 0]
    /\ Goes(p, "closing")
    /\ UNCHANGED <<stored, notes, files, running, publishing, versions, polls, deaths, torn>>
Close(p) ==
    /\ At(p) = "closing" /\ running' = NoProcess /\ Rests(p)
    /\ UNCHANGED <<stored, notes, files, status, publishing, versions, polls, deaths, torn>>

-----------------------------------------------------------------------------
Active == status.is \in {"queued", "running"}
\* status: a run that seems to go on is looked at under its lock.
Poll(p) ==
    /\ At(p) = "idle" /\ polls < MaxPolls /\ polls' = polls + 1
    /\ Active /\ Goes(p, "polling")
    /\ UNCHANGED <<stored, notes, files, status, running, publishing, versions, deaths, torn>>
TryLock(p) ==
    /\ At(p) = "polling"
    /\ IF running = NoProcess THEN running' = p /\ Goes(p, "healing") ELSE Rests(p) /\ UNCHANGED running
    /\ UNCHANGED <<stored, notes, files, status, publishing, versions, polls, deaths, torn>>
StillActive == Active
Heal(p) ==
    /\ At(p) = "healing" /\ running' = NoProcess /\ Rests(p)
    /\ status' = IF StillActive THEN [is |-> "interrupted", of |-> 0] ELSE status
    /\ UNCHANGED <<stored, notes, files, publishing, versions, polls, deaths, torn>>

\* The process is killed, or an exception escapes: the system drops its locks.
Die(p) ==
    /\ At(p) # "idle" /\ deaths < MaxDeaths /\ deaths' = deaths + 1 /\ Rests(p)
    /\ running' = IF running = p THEN NoProcess ELSE running
    /\ publishing' = IF publishing = p THEN NoProcess ELSE publishing
    /\ torn' = (torn \/ publishing = p)
    /\ UNCHANGED <<stored, notes, files, status, versions, polls>>

ArchiveNext ==
    \E p \in Processes :
        \/ Click(p) \/ Run(p) \/ Compute(p) \/ Commit(p) \/ Feedback(p)
        \/ WriteHtml(p) \/ WriteJson(p) \/ WriteManifest(p) \/ WriteLatest(p) \/ Published(p)
        \/ Save(p) \/ Refused(p) \/ Restore(p) \/ Finish(p) \/ Close(p)
        \/ Poll(p) \/ TryLock(p) \/ Heal(p) \/ Die(p)

-----------------------------------------------------------------------------
(* While nobody publishes, the archive's page and data are of one version, the one that is     *)
(* stored, whatever regenerations failed on the way; only a process that died inside a         *)
(* publication leaves anything else.  The manifest names no page that is not there, except     *)
(* while files are put back, which happens in no particular order.                             *)
ArchiveIsStored ==
    /\ publishing = NoProcess /\ ~torn =>
          /\ files.html[1] \in {0, stored} /\ files.json[1] \in {0, stored}
          /\ (files.html = Gone) = (files.json = Gone)
    /\ files.manifest # Gone /\ ~torn /\ (\A p \in Processes : At(p) # "restore") =>
          files.html # Gone /\ files.json # Gone

(* A result says what happened: a run that is alive is never reported as interrupted, a success *)
(* is of a version that was stored, and neither is replaced but by a later click (status reads *)
(* again under the lock of the run).                                                           *)
ResultsAreHonest ==
    /\ \A p \in Processes : At(p) \in {"queued", "computing", "commit", "save", "saved"} => running = p /\ Active
    /\ status.is = "success" => status.of <= stored
ResultsStay == [][status.is \in {"success", "error", "interrupted"} /\ status' # status => status'.is = "queued"]_archive

(* A page whose data file agrees with it never goes back to an older version, but when a       *)
(* regeneration that failed is undone; the stored report never does (_publish_report_locked    *)
(* keeps an export that is newer than the report it read).                                     *)
NeverOlder == [][/\ files'.html[1] < files.html[1] /\ files.html[1] = files.json[1] =>
                       \E p \in Processes : At(p) = "restore"
                 /\ stored' >= stored]_archive

=============================================================================
