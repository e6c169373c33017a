------------------------- MODULE StorageMaintenance -------------------------
(* tools/migrate_publication_storage.py and tools/cleanup_publication_storage.py *)
(* with the primitives of tools/publication_storage_admin.py: the published page *)
(* is moved from an object named by its digest to an object named by its period, *)
(* moved back, and what the move left behind is deleted, version by version.  A  *)
(* publisher of the deployed application is at work as well, holds the same      *)
(* lease, and may stop for any time before a write.  A page stands for a report  *)
(* with its manifest, and its ETag is its content.                               *)
EXTENDS Naturals, Sequences, SequencesExt, FiniteSets

CONSTANTS MaxBody,       \* pages ever rendered; page 1 is the published one
          MaxWork,       \* pages rendered and tools begun
          MaxSwitches,
          Chunk          \* deletions between two looks at the publication

Bodies == 1..MaxBody
Page == <<"page", 0>>
Old(b) == <<"old", b>>
Objects == {Page} \union {Old(b) : b \in Bodies}
None == "none"
Null == 0                \* the version written while versions are not kept

VARIABLES bucket,        \* the versions of every object, the latest one last
          versioned,     \* does the bucket keep versions now?
          pointer,       \* the committed publication
          index,         \* what a browser is told
          holder,        \* who holds the publication lease
          pub, tool,     \* the publisher, and the tool that is running
          files,         \* the private artifacts of the tools
          rendered, tools, switches
maintenance == <<bucket, versioned, pointer, index, holder, pub, tool, files, rendered, tools, switches>>

IdlePub == [at |-> None, over |-> 0, body |-> 0, from |-> 0]
NoPointer == [layout |-> None, body |-> 0, checkpoint |-> 0]
IdleTool == [at |-> None, seen |-> NoPointer, left |-> {}, chunk |-> {}]
NoFiles == [inventory |-> NoPointer, committed |-> NoPointer, plan |-> [of |-> NoPointer, store |-> <<>>, rows |-> {}]]

MaintenanceInit ==
  /\ pointer = [layout |-> "legacy", body |-> 1, checkpoint |-> 0] /\ index = pointer
  /\ bucket = [o \in Objects |-> IF o = Old(1) THEN <<[id |-> Null, body |-> 1]>> ELSE <<>>]
  /\ versioned \in BOOLEAN /\ holder = None /\ pub = IdlePub /\ tool = IdleTool /\ files = NoFiles
  /\ rendered = 1 /\ tools = 0 /\ switches = 0

Exists(o) == bucket[o] # <<>>
Current(o) == IF Exists(o) THEN Last(bucket[o]).body ELSE 0
Ids(o) == {bucket[o][i].id : i \in DOMAIN bucket[o]}
Fresh(o) == CHOOSE n \in 1..(Cardinality(Ids(o)) + 1) : n \notin Ids(o)

\* A new latest version; without versioning it takes the place of the null one.
Put(o, body) ==
  bucket' = [bucket EXCEPT ![o] = IF versioned THEN Append(@, [id |-> Fresh(o), body |-> body])
                                  ELSE Append(SelectSeq(@, LAMBDA v : v.id # Null), [id |-> Null, body |-> body])]
\* Only over what was read: an ETag that differs, or an object that appeared, refuses it.
Unchanged(o, over) == Current(o) = over

SwitchVersions ==
  /\ switches < MaxSwitches /\ switches' = switches + 1 /\ versioned' = ~versioned
  /\ UNCHANGED <<bucket, pointer, index, holder, pub, tool, files, rendered, tools>>

LeaseExpires ==
  /\ holder # None /\ tool.at # "deleting" /\ holder' = None
  /\ UNCHANGED <<bucket, versioned, pointer, index, pub, tool, files, rendered, tools, switches>>
-----------------------------------------------------------------------------
\* The publisher: it reads the page under the lease, writes over exactly that
\* page at some time, and commits under lease and checkpoint.
PubRead ==
  /\ pub.at = None /\ holder = None /\ rendered < MaxBody /\ rendered + tools < MaxWork
  /\ rendered' = rendered + 1 /\ holder' = "pub"
  /\ pub' = [at |-> "put", over |-> Current(Page), body |-> rendered + 1, from |-> pointer.checkpoint]
  /\ UNCHANGED <<bucket, versioned, pointer, index, tool, files, tools, switches>>
PubPut ==
  /\ pub.at = "put"
  /\ IF Unchanged(Page, pub.over)
     THEN Put(Page, pub.body) /\ pub' = [pub EXCEPT !.at = "commit"]
     ELSE pub' = IdlePub /\ UNCHANGED bucket
  /\ UNCHANGED <<versioned, pointer, index, holder, tool, files, rendered, tools, switches>>
PubCommit ==
  /\ pub.at = "commit"
  /\ IF holder = "pub" /\ pub.from = pointer.checkpoint
     THEN /\ pointer' = [layout |-> "stable", body |-> pub.body, checkpoint |-> pointer.checkpoint + 1]
          /\ pub' = [pub EXCEPT !.at = "index"]
     ELSE pub' = IdlePub /\ UNCHANGED pointer
  /\ UNCHANGED <<bucket, versioned, index, holder, tool, files, rendered, tools, switches>>
\* update_site_index: from what is committed, unless the page is not that one.
Committed(p) == Current(IF p.layout = "legacy" THEN Old(p.body) ELSE Page) = p.body
Projected == index' = IF Committed(pointer) THEN pointer ELSE index
PubIndex ==
  /\ pub.at = "index" /\ Projected /\ pub' = IdlePub
  /\ holder' = IF holder = "pub" THEN None ELSE holder
  /\ UNCHANGED <<bucket, versioned, pointer, tool, files, rendered, tools, switches>>
PubDies ==
  /\ pub.at # None /\ pub' = IdlePub
  /\ UNCHANGED <<bucket, versioned, pointer, index, holder, tool, files, rendered, tools, switches>>
-----------------------------------------------------------------------------
Fenced == holder = "tool"
Starts == /\ tool.at = None /\ rendered + tools < MaxWork /\ tools' = tools + 1
Leased == holder = None /\ holder' = "tool"
Goes(step) == tool' = [tool EXCEPT !.at = step]
Ends == tool' = IdleTool /\ holder' = IF Fenced THEN None ELSE holder

\* migrate, of a page that is stored under its digest: what is moved is written
\* to the private inventory first; no other page may be in its place already.
Inventory ==
  /\ Starts /\ Leased
  /\ pointer.layout = "legacy" /\ Committed(pointer) /\ index = pointer
  /\ Current(Page) \in {0, pointer.body}
  /\ files.inventory \in {NoPointer, pointer}
  /\ files' = [files EXCEPT !.inventory = pointer]
  /\ tool' = [IdleTool EXCEPT !.at = "copy", !.seen = pointer]
  /\ UNCHANGED <<bucket, versioned, pointer, index, pub, rendered, switches>>
Copy ==
  /\ tool.at = "copy" /\ Fenced
  /\ \/ ~Exists(Page) /\ Put(Page, tool.seen.body) /\ Goes("commit") /\ UNCHANGED holder
     \/ Current(Page) = tool.seen.body /\ Goes("commit") /\ UNCHANGED <<bucket, holder>>
     \/ Exists(Page) /\ Current(Page) # tool.seen.body /\ Ends /\ UNCHANGED bucket
  /\ UNCHANGED <<versioned, pointer, index, pub, files, rendered, tools, switches>>
CommitMove ==
  /\ tool.at = "commit" /\ Fenced
  /\ IF pointer.checkpoint = tool.seen.checkpoint
     THEN pointer' = [pointer EXCEPT !.layout = "stable"] /\ Goes("committed") /\ UNCHANGED holder
     ELSE Ends /\ UNCHANGED pointer
  /\ UNCHANGED <<bucket, versioned, index, pub, files, rendered, tools, switches>>
RecordMove ==
  /\ tool.at = "committed"
  /\ files' = [files EXCEPT !.committed = [tool.seen EXCEPT !.layout = "stable"]] /\ Goes("index")
  /\ UNCHANGED <<bucket, versioned, pointer, index, holder, pub, rendered, tools, switches>>
UpdateIndex ==
  /\ tool.at = "index" /\ Fenced /\ Projected /\ Ends
  /\ UNCHANGED <<bucket, versioned, pointer, pub, files, rendered, tools, switches>>
\* migrate, of a page that has been moved already.
Refresh ==
  /\ Starts /\ holder = None
  /\ pointer.layout = "stable" /\ Committed(pointer) /\ Projected
  /\ UNCHANGED <<bucket, versioned, pointer, holder, pub, tool, files, rendered, switches>>

\* rollback: only if nothing was published since, and the old object is there.
StillThere(p) == Current(Old(p.body)) = p.body
Intact(p) == StillThere(p)
Rollback ==
  /\ Starts /\ Leased
  /\ files.inventory # NoPointer /\ files.committed # NoPointer
  /\ pointer \in {files.inventory, files.committed}
  /\ Intact(files.inventory)
  /\ tool' = [IdleTool EXCEPT !.at = "restore", !.seen = pointer]
  /\ UNCHANGED <<bucket, versioned, pointer, index, pub, files, rendered, switches>>
Restore ==
  /\ tool.at = "restore" /\ Fenced
  /\ IF pointer.checkpoint = tool.seen.checkpoint
     THEN pointer' = files.inventory /\ Goes("index") /\ UNCHANGED holder
     ELSE Ends /\ UNCHANGED pointer
  /\ UNCHANGED <<bucket, versioned, index, pub, files, rendered, tools, switches>>
-----------------------------------------------------------------------------
\* snapshot: the publication that a cleanup relies on.
Stable == pointer.layout = "stable" /\ Committed(pointer) /\ index = pointer

\* candidates: every version of what is stored under a digest, and the versions
\* of the page that are not the latest, but never one without an identifier.
RowsOf(o) == {<<o, bucket[o][i].id>> : i \in DOMAIN bucket[o]}
Superseded(o) == {<<o, bucket[o][i].id>> : i \in 1..(Len(bucket[o]) - 1)}
Candidates == UNION {RowsOf(Old(b)) : b \in Bodies} \union {r \in Superseded(Page) : r[2] # Null}

\* Everything is read twice before the plan is written.
Prepare ==
  /\ Starts /\ Stable
  /\ tool' = [IdleTool EXCEPT !.at = "plan", !.seen = [of |-> pointer, store |-> bucket]]
  /\ UNCHANGED <<bucket, versioned, pointer, index, holder, pub, files, rendered, switches>>
WritePlan ==
  /\ tool.at = "plan"
  /\ files' = IF Stable /\ tool.seen = [of |-> pointer, store |-> bucket]
              THEN [files EXCEPT !.plan = [of |-> pointer, store |-> bucket, rows |-> Candidates]] ELSE files
  /\ tool' = IdleTool
  /\ UNCHANGED <<bucket, versioned, pointer, index, holder, pub, rendered, tools, switches>>

Apply ==
  /\ Starts /\ Leased
  /\ files.plan.of # NoPointer /\ Stable /\ files.plan = [of |-> pointer, store |-> bucket, rows |-> Candidates]
  /\ tool' = [IdleTool EXCEPT !.at = "look", !.left = Candidates, !.seen = pointer]
  /\ UNCHANGED <<bucket, versioned, pointer, index, pub, files, rendered, switches>>
\* Before and after every chunk: the lease, and the publication of the plan.
Look ==
  /\ tool.at = "look"
  /\ IF Fenced /\ Stable /\ pointer = tool.seen /\ tool.left # {}
     THEN /\ \E rows \in SUBSET tool.left :
               /\ Cardinality(rows) = (IF Cardinality(tool.left) < Chunk THEN Cardinality(tool.left) ELSE Chunk)
               /\ tool' = [tool EXCEPT !.at = "deleting", !.chunk = rows, !.left = @ \ rows]
          /\ UNCHANGED holder
     ELSE Ends
  /\ UNCHANGED <<bucket, versioned, pointer, index, pub, files, rendered, tools, switches>>
\* One exact version: within a chunk the lease is renewed as often as it must be.
DeleteVersion ==
  /\ tool.at = "deleting"
  /\ IF tool.chunk = {} THEN Goes("look") /\ UNCHANGED bucket
     ELSE \E r \in tool.chunk :
            /\ bucket' = [bucket EXCEPT ![r[1]] = SelectSeq(@, LAMBDA v : v.id # r[2])]
            /\ tool' = [tool EXCEPT !.chunk = @ \ {r}]
  /\ UNCHANGED <<versioned, pointer, index, holder, pub, files, rendered, tools, switches>>

ToolDies ==
  /\ tool.at # None /\ tool' = IdleTool
  /\ UNCHANGED <<bucket, versioned, pointer, index, holder, pub, files, rendered, tools, switches>>

ToolStep == \/ Inventory \/ Copy \/ CommitMove \/ RecordMove \/ UpdateIndex \/ Refresh \/ Rollback \/ Restore
            \/ Prepare \/ WritePlan \/ Apply \/ Look \/ DeleteVersion
MaintenanceNext == ToolStep \/ ToolDies \/ SwitchVersions \/ LeaseExpires
                   \/ PubRead \/ PubPut \/ PubCommit \/ PubIndex \/ PubDies
-----------------------------------------------------------------------------
(* The committed publication and the one a browser is sent to are always        *)
(* stored, whichever of publisher, migration, rollback and cleanup stopped or    *)
(* died where: what is named by its digest holds exactly its page.              *)
Found(p) == IF p.layout = "legacy" THEN StillThere(p) ELSE Exists(Page)
PublicationIsStored == Found(pointer) /\ Found(index)

(* No step of a tool changes the page that a reader of the period key sees,      *)
(* even one that a paused publisher has written over a version in the plan.      *)
PageIsLeftAlone == [][ToolStep /\ Exists(Page) => Current(Page)' = Current(Page)]_maintenance
=============================================================================
