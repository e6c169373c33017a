------------------------- MODULE PublicationProofs --------------------------
(***************************************************************************)
(* Nothing is lost between the journal and the site, for any number of     *)
(* publishers, reports and faults: proofs about                            *)
(* application/incremental_publication.py and adapters/ydb/publication.py. *)
(*                                                                         *)
(* The invariant says the same twice, of the committed rows and of what    *)
(* the holder of the lease would commit:                                   *)
(*                                                                         *)
(*   - an item owes nothing that is not flagged: what has changed up to    *)
(*     the checkpoint and is not flagged is shown (Good);                  *)
(*   - the counters are those of the items (Counted, Accounts).            *)
(*                                                                         *)
(* A publisher without the lease is of no interest to the tables: the      *)
(* fence of save refuses it, and until then it changes nothing but objects *)
(* and the gas stored in a report, which only becomes newer (Newer).       *)
(*                                                                         *)
(* Its objects are of interest: that they only move forward needs an       *)
(* invariant of its own (PagesInv, IndexInv), in the last part.            *)
(***************************************************************************)
EXTENDS Publication, FiniteSetTheorems, TLAPS

Steps == {"idle", "load", "next", "refresh", "render", "put", "save",
          "index", "committed", "project"}
Flags == {"render", "gas", "cost"}
Tables(S) == UNION {[D -> S] : D \in SUBSET Reports}

Gases == [facts : Nat, model : Nat, tariff : Nat]
Volumes == [facts : Nat, model : Nat]
Bodies == [ver : Nat, gas : Gases, compared : Tables(Volumes)]
Bodies0 == Bodies \cup {NoPage}
Pages == [report : Bodies0, mark : Nat, config : Nat, raced : BOOLEAN]
Pages0 == Pages \cup {NoPage}
Items == [dirty : SUBSET Flags, digest : Bodies0, etag : Nat, shown : Pages0]
Counters == [by : Publishers \cup {Nobody}, added : Nat, completed : Nat,
             requeued : Nat, saves : Nat]
Metas == [checkpoint : Nat, model : Nat, config : Nat, manifest : Nat,
          unpublished : Int, metrics : Counters]
Sources == [mark : [Reports -> Nat], facts : [Reports -> Nat],
            model : Nat, tariff : Nat, config : Nat]
Inputs == [facts : [Reports -> Nat], model : Nat, tariff : Nat]
Runs == [step : Steps, upper : Nat, config : Nat, old : Metas, meta : Metas,
         prev : Tables(Items), items : Tables(Items), partial : BOOLEAN,
         recovering : BOOLEAN, snap : Inputs \cup {NoInputs}, todo : SUBSET Reports,
         item : Reports \cup {Nobody}, report : Bodies0, raced : BOOLEAN,
         page : Pages0, etag : Nat, events : Counters, shows : Nat, tries : Nat]

\* What a run is about to render, and what it renders, it has loaded.
InHand(run) ==
    /\ run.todo \subseteq DOMAIN run.items
    /\ run.step \in {"refresh", "render"} => run.item \in DOMAIN run.items

TypeOK ==
    /\ rev \in Nat \ {0}
    /\ sources \in Sources
    /\ reports \in [Reports -> Bodies]
    /\ journal \in [Scopes -> Nat]
    /\ meta \in Metas
    /\ items \in Tables(Items)
    /\ pages \in [Reports -> [etag : Nat, page : Pages0]]
    /\ manifest \in [etag : Nat, listed : Tables(Nat)]
    /\ index \in [etag : Nat, shows : Nat]
    /\ lease \in Publishers \cup {Nobody}
    /\ pub \in [Publishers -> Runs]
    /\ \A p \in Publishers : InHand(pub[p])
    /\ faults \in Nat

-----------------------------------------------------------------------------

\* Tables are used through their domain.
LEMMA TableOf ==
  ASSUME NEW S, NEW f \in Tables(S)
  PROVE  /\ DOMAIN f \subseteq Reports
         /\ f \in [DOMAIN f -> S]
         /\ \A r \in DOMAIN f : r \in Reports /\ f[r] \in S
BY DEF Tables

LEMMA IsTable ==
  ASSUME NEW S, NEW D \in SUBSET Reports, NEW f \in [D -> S]
  PROVE  f \in Tables(S)
BY DEF Tables

LEMMA DirtyFinite ==
  ASSUME NEW S, NEW f \in Tables(S)
  PROVE  /\ Dirty(f) \subseteq Reports /\ Unpublished(f) \subseteq Reports
         /\ IsFiniteSet(Dirty(f)) /\ Cardinality(Dirty(f)) \in Nat
         /\ IsFiniteSet(Unpublished(f)) /\ Cardinality(Unpublished(f)) \in Nat
<1>1. Dirty(f) \subseteq Reports /\ Unpublished(f) \subseteq Reports
   BY TableOf DEF Dirty, Unpublished
<1> QED
   BY <1>1, ReportsAssumption, FS_Subset, FS_CardinalityType

\* A run with one field changed is a run.
LEMMA RunsClosed ==
  ASSUME NEW run \in Runs
  PROVE  /\ \A x \in Steps : [run EXCEPT !.step = x] \in Runs
         /\ \A x \in Nat : [run EXCEPT !.upper = x] \in Runs
         /\ \A x \in Nat : [run EXCEPT !.config = x] \in Runs
         /\ \A x \in Metas : [run EXCEPT !.old = x] \in Runs
         /\ \A x \in Metas : [run EXCEPT !.meta = x] \in Runs
         /\ \A x \in Tables(Items) : [run EXCEPT !.prev = x] \in Runs
         /\ \A x \in Tables(Items) : [run EXCEPT !.items = x] \in Runs
         /\ \A x \in BOOLEAN : [run EXCEPT !.partial = x] \in Runs
         /\ \A x \in BOOLEAN : [run EXCEPT !.recovering = x] \in Runs
         /\ \A x \in Inputs \cup {NoInputs} : [run EXCEPT !.snap = x] \in Runs
         /\ \A x \in SUBSET Reports : [run EXCEPT !.todo = x] \in Runs
         /\ \A x \in Reports \cup {Nobody} : [run EXCEPT !.item = x] \in Runs
         /\ \A x \in Bodies0 : [run EXCEPT !.report = x] \in Runs
         /\ \A x \in BOOLEAN : [run EXCEPT !.raced = x] \in Runs
         /\ \A x \in Pages0 : [run EXCEPT !.page = x] \in Runs
         /\ \A x \in Nat : [run EXCEPT !.etag = x] \in Runs
         /\ \A x \in Counters : [run EXCEPT !.events = x] \in Runs
         /\ \A x \in Nat : [run EXCEPT !.shows = x] \in Runs
         /\ \A x \in Nat : [run EXCEPT !.tries = x] \in Runs
<1>1. \A x \in Steps : [run EXCEPT !.step = x] \in Runs
   BY DEF Runs
<1>2. \A x \in Nat : [run EXCEPT !.upper = x] \in Runs
   BY DEF Runs
<1>3. \A x \in Nat : [run EXCEPT !.config = x] \in Runs
   BY DEF Runs
<1>4. \A x \in Metas : [run EXCEPT !.old = x] \in Runs
   BY DEF Runs
<1>5. \A x \in Metas : [run EXCEPT !.meta = x] \in Runs
   BY DEF Runs
<1>6. \A x \in Tables(Items) : [run EXCEPT !.prev = x] \in Runs
   BY DEF Runs
<1>7. \A x \in Tables(Items) : [run EXCEPT !.items = x] \in Runs
   BY DEF Runs
<1>8. \A x \in BOOLEAN : [run EXCEPT !.partial = x] \in Runs
   BY DEF Runs
<1>9. \A x \in BOOLEAN : [run EXCEPT !.recovering = x] \in Runs
   BY DEF Runs
<1>10. \A x \in Inputs \cup {NoInputs} : [run EXCEPT !.snap = x] \in Runs
   BY DEF Runs
<1>11. \A x \in SUBSET Reports : [run EXCEPT !.todo = x] \in Runs
   BY DEF Runs
<1>12. \A x \in Reports \cup {Nobody} : [run EXCEPT !.item = x] \in Runs
   BY DEF Runs
<1>13. \A x \in Bodies0 : [run EXCEPT !.report = x] \in Runs
   BY DEF Runs
<1>14. \A x \in BOOLEAN : [run EXCEPT !.raced = x] \in Runs
   BY DEF Runs
<1>15. \A x \in Pages0 : [run EXCEPT !.page = x] \in Runs
   BY DEF Runs
<1>16. \A x \in Nat : [run EXCEPT !.etag = x] \in Runs
   BY DEF Runs
<1>17. \A x \in Counters : [run EXCEPT !.events = x] \in Runs
   BY DEF Runs
<1>18. \A x \in Nat : [run EXCEPT !.shows = x] \in Runs
   BY DEF Runs
<1>19. \A x \in Nat : [run EXCEPT !.tries = x] \in Runs
   BY DEF Runs
<1> QED
  BY <1>1, <1>2, <1>3, <1>4, <1>5, <1>6, <1>7, <1>8, <1>9, <1>10, <1>11, <1>12, <1>13, <1>14, <1>15, <1>16, <1>17, <1>18, <1>19

LEMMA OthersClosed ==
  /\ \A i \in Items : \A x \in SUBSET Flags : [i EXCEPT !.dirty = x] \in Items
  /\ \A i \in Items : \A x \in Bodies0 : [i EXCEPT !.digest = x] \in Items
  /\ \A m \in Metas : \A x \in Nat : /\ [m EXCEPT !.checkpoint = x] \in Metas
                                     /\ [m EXCEPT !.model = x] \in Metas
                                     /\ [m EXCEPT !.config = x] \in Metas
                                     /\ [m EXCEPT !.manifest = x] \in Metas
  /\ \A m \in Metas : \A x \in Int : [m EXCEPT !.unpublished = x] \in Metas
  /\ \A m \in Metas : \A x \in Counters : [m EXCEPT !.metrics = x] \in Metas
  /\ \A e \in Counters : \A x \in Nat : /\ [e EXCEPT !.added = x] \in Counters
                                        /\ [e EXCEPT !.completed = x] \in Counters
                                        /\ [e EXCEPT !.requeued = x] \in Counters
<1>1. \A i \in Items : \A x \in SUBSET Flags : [i EXCEPT !.dirty = x] \in Items
   BY DEF Items
<1>2. \A i \in Items : \A x \in Bodies0 : [i EXCEPT !.digest = x] \in Items
   BY DEF Items
<1>3. \A m \in Metas : \A x \in Nat : /\ [m EXCEPT !.checkpoint = x] \in Metas
                                      /\ [m EXCEPT !.model = x] \in Metas
                                      /\ [m EXCEPT !.config = x] \in Metas
                                      /\ [m EXCEPT !.manifest = x] \in Metas
   BY DEF Metas
<1>4. \A m \in Metas : \A x \in Int : [m EXCEPT !.unpublished = x] \in Metas
   BY DEF Metas
<1>5. \A m \in Metas : \A x \in Counters : [m EXCEPT !.metrics = x] \in Metas
   BY DEF Metas
<1>6. \A e \in Counters : \A x \in Nat : /\ [e EXCEPT !.added = x] \in Counters
                                         /\ [e EXCEPT !.completed = x] \in Counters
                                         /\ [e EXCEPT !.requeued = x] \in Counters
   BY DEF Counters
<1> QED
   BY <1>1, <1>2, <1>3, <1>4, <1>5, <1>6

LEMMA Blanks ==
  /\ NoPage \in Bodies0 /\ NoPage \in Pages0
  /\ NoItem \in Items /\ NoMetrics \in Counters /\ NoMeta \in Metas
  /\ Idle \in Runs /\ InHand(Idle) /\ ToIndex \in Runs /\ InHand(ToIndex)
<1>1. NoPage \in Bodies0 /\ NoPage \in Pages0
   BY DEF Bodies0, Pages0
<1>2. NoItem \in Items
   BY <1>1 DEF NoItem, Items
<1>3. NoMetrics \in Counters
   BY DEF NoMetrics, Counters
<1>4. NoMeta \in Metas
   BY <1>3 DEF NoMeta, Metas
<1>6. <<>> \in Tables(Items)
  <2>1. <<>> \in [{} -> Items]
     OBVIOUS
  <2> QED
     BY <2>1, IsTable
<1>7. Idle \in Runs
   BY <1>1, <1>3, <1>4, <1>6 DEF Idle, Runs, Steps
<1>8. InHand(Idle)
   BY DEF Idle, InHand
<1>9. "index" \in Steps
   BY DEF Steps
<1>10. ToIndex \in Runs
   BY <1>7, <1>9, RunsClosed DEF ToIndex
<1>11. InHand(ToIndex)
   BY DEF Idle, ToIndex, InHand
<1> QED
   BY <1>1, <1>2, <1>3, <1>4, <1>7, <1>8, <1>10, <1>11

LEMMA ScopeNames ==
  /\ <<"tariff", Nobody>> \in Scopes
  /\ \A r \in Reports : /\ <<"report", r>> \in Scopes /\ <<"render", r>> \in Scopes
                        /\ <<"telemetry", r>> \in Scopes /\ <<"telemetry-gas", r>> \in Scopes
BY DEF Scopes

\* What is computed of a report.
LEMMA BodyParts ==
  ASSUME TypeOK, NEW r \in Reports, NEW inputs \in Inputs
  PROVE  /\ GasOf(inputs, r) \in Gases
         /\ GasInputs(sources) \in Inputs
         /\ \A reps \in [Reports -> Bodies] : Comparison(r, reps) \in Tables(Volumes)
         /\ \A body \in Bodies, flags \in SUBSET Flags : Refreshed(r, body, inputs, flags) \in Bodies
<1>1. GasOf(inputs, r) \in Gases
   BY DEF GasOf, Gases, Inputs
<1>2. GasInputs(sources) \in Inputs
   BY DEF TypeOK, GasInputs, Inputs, Sources
<1>3. \A reps \in [Reports -> Bodies] : Comparison(r, reps) \in Tables(Volumes)
  <2> TAKE reps \in [Reports -> Bodies]
  <2>1. Baselines(r) \in SUBSET Reports
     BY DEF Baselines
  <2>2. \A b \in Baselines(r) : Volume(reps[b].gas) \in Volumes
     BY <2>1 DEF Volume, Volumes, Bodies, Gases
  <2>3. Comparison(r, reps) \in [Baselines(r) -> Volumes]
     BY <2>2 DEF Comparison
  <2> QED
     BY <2>1, <2>3, IsTable
<1>4. ASSUME NEW body \in Bodies, NEW flags \in SUBSET Flags
      PROVE  Refreshed(r, body, inputs, flags) \in Bodies
  <2>1. Comparison(r, reports) \in Tables(Volumes)
     BY <1>3 DEF TypeOK
  <2>2. [body.gas EXCEPT !.tariff = inputs.tariff] \in Gases
     BY DEF Bodies, Gases, Inputs
  <2>3. ASSUME NEW gas \in Gases, NEW compared \in Tables(Volumes)
        PROVE  [body EXCEPT !.gas = gas, !.compared = compared] \in Bodies
     BY DEF Bodies
  <2>4. CASE "gas" \in flags
     BY <1>1, <2>1, <2>3, <2>4 DEF Refreshed
  <2>5. CASE "gas" \notin flags
    <3>1. Refreshed(r, body, inputs, flags)
             = [body EXCEPT !.gas = [body.gas EXCEPT !.tariff = inputs.tariff],
                            !.compared = Comparison(r, reports)]
       BY <2>5 DEF Refreshed
    <3> QED
       BY <3>1, <2>1, <2>2, <2>3
  <2> QED
     BY <2>4, <2>5
<1> QED
   BY <1>1, <1>2, <1>3, <1>4

LEMMA SetKeeps ==
  ASSUME TypeOK, NEW p \in Publishers, NEW run \in Runs, InHand(run), Set(p, run)
  PROVE  pub' \in [Publishers -> Runs] /\ \A q \in Publishers : InHand(pub'[q])
BY DEF TypeOK, Set

LEMMA FirstTypes ==
  ASSUME NEW r \in Reports
  PROVE  FirstReport(r) \in Bodies /\ Page(FirstReport(r), 1, 1, FALSE) \in Pages
<1>1. Baselines(r) \in SUBSET Reports
   BY DEF Baselines
<1>2. [b \in Baselines(r) |-> [facts |-> 1, model |-> 1]] \in [Baselines(r) -> Volumes]
   BY DEF Volumes
<1>3. [b \in Baselines(r) |-> [facts |-> 1, model |-> 1]] \in Tables(Volumes)
   BY <1>1, <1>2, IsTable
<1>4. FirstReport(r) \in Bodies
   BY <1>3 DEF FirstReport, Bodies, Gases
<1> QED
   BY <1>4 DEF Page, Pages, Bodies0

LEMMA InitType ==
  ASSUME Init
  PROVE  TypeOK
<1>1. /\ rev \in Nat \ {0} /\ lease \in Publishers \cup {Nobody} /\ faults \in Nat
      /\ journal \in [Scopes -> Nat]
   BY DEF Init
<1>2. sources \in Sources
   BY DEF Init, Sources
<1>3. reports \in [Reports -> Bodies]
   BY FirstTypes DEF Init
<1>4. pub \in [Publishers -> Runs] /\ \A p \in Publishers : InHand(pub[p])
   BY Blanks DEF Init
<1>5. CASE NeverPublished
  <2>1. <<>> \in [{} -> Items] /\ <<>> \in [{} -> Nat]
     OBVIOUS
  <2>2. <<>> \in Tables(Items) /\ <<>> \in Tables(Nat)
     BY <2>1, IsTable
  <2>3. pages \in [Reports -> [etag : Nat, page : Pages0]]
     BY <1>5, Blanks DEF NeverPublished
  <2> QED
     BY <1>1, <1>2, <1>3, <1>4, <1>5, <2>2, <2>3, Blanks DEF NeverPublished, TypeOK
<1>6. CASE AllUpToDate
  <2>1. meta \in Metas
    <3>1. meta = [[[[NoMeta EXCEPT !.checkpoint = 1] EXCEPT !.model = 1] EXCEPT !.config = 1]
                       EXCEPT !.manifest = 1]
       BY <1>6 DEF AllUpToDate
    <3> QED
       BY <3>1, OthersClosed, Blanks
  <2>2. \A r \in Reports : Page(FirstReport(r), 1, 1, FALSE) \in Pages0 /\ FirstReport(r) \in Bodies0
     BY FirstTypes DEF Pages0, Bodies0
  <2>3. items \in [Reports -> Items]
     BY <1>6, <2>2 DEF AllUpToDate, Items
  <2>4. items \in Tables(Items)
     BY <2>3, IsTable
  <2>5. pages \in [Reports -> [etag : Nat, page : Pages0]]
     BY <1>6, <2>2 DEF AllUpToDate
  <2>6. [r \in Reports |-> 1] \in Tables(Nat)
     BY IsTable
  <2>7. manifest \in [etag : Nat, listed : Tables(Nat)] /\ index \in [etag : Nat, shows : Nat]
     BY <1>6, <2>6 DEF AllUpToDate
  <2> QED
     BY <1>1, <1>2, <1>3, <1>4, <2>1, <2>4, <2>5, <2>7 DEF TypeOK
<1> QED
   BY <1>5, <1>6 DEF Init

\* Changes of the sources touch neither the index nor a run.
LEMMA ChangeType ==
  ASSUME TypeOK, Change
  PROVE  TypeOK'
<1>1. ASSUME NEW scope \in Scopes, Journalled(scope), sources' \in Sources,
             reports' \in [Reports -> Bodies]
      PROVE  TypeOK'
   BY <1>1 DEF TypeOK, Journalled
<1>2. ASSUME NEW r \in Reports, SaveReport(r)
      PROVE  TypeOK'
  <2>1. GasInputs(sources) \in Inputs
     BY DEF TypeOK, GasInputs, Inputs, Sources
  <2>2. GasOf(GasInputs(sources), r) \in Gases /\ Comparison(r, reports) \in Tables(Volumes)
     BY <2>1, BodyParts DEF TypeOK
  <2>3. [ver |-> rev + 1, gas |-> GasOf(GasInputs(sources), r),
         compared |-> Comparison(r, reports)] \in Bodies
     BY <2>2 DEF TypeOK, Bodies
  <2>4. reports' \in [Reports -> Bodies]
     BY <1>2, <2>3 DEF SaveReport, TypeOK
  <2>5. sources' \in Sources
     BY <1>2 DEF SaveReport, TypeOK
  <2> QED
     BY <1>1, <1>2, <2>4, <2>5, ScopeNames DEF SaveReport
<1>3. ASSUME NEW r \in Reports, Feedback(r)
      PROVE  TypeOK'
  <2>1. [sources.mark EXCEPT ![r] = rev + 1] \in [Reports -> Nat]
     BY DEF TypeOK, Sources
  <2>2. sources' = [sources EXCEPT !.mark = [sources.mark EXCEPT ![r] = rev + 1]]
     BY <1>3 DEF Feedback
  <2>3. sources' \in Sources /\ reports' \in [Reports -> Bodies]
     BY <1>3, <2>1, <2>2 DEF Feedback, TypeOK, Sources
  <2> QED
     BY <1>1, <1>3, <2>3, ScopeNames DEF Feedback
<1>4. ASSUME NEW r \in Reports, NEW calibrates \in BOOLEAN, Telemetry(r, calibrates)
      PROVE  TypeOK'
  <2>1. [sources.facts EXCEPT ![r] = rev + 1] \in [Reports -> Nat]
     BY DEF TypeOK, Sources
  <2>2. (IF calibrates THEN rev + 1 ELSE sources.model) \in Nat
     BY DEF TypeOK, Sources
  <2>3. sources' = [sources EXCEPT !.facts = [sources.facts EXCEPT ![r] = rev + 1],
                                   !.model = IF calibrates THEN rev + 1 ELSE sources.model]
     BY <1>4 DEF Telemetry
  <2>4. sources' \in Sources
     BY <2>1, <2>2, <2>3 DEF TypeOK, Sources
  <2>5. reports' \in [Reports -> Bodies]
     BY <1>4 DEF Telemetry, TypeOK
  <2>6. CASE calibrates
     BY <1>1, <1>4, <2>4, <2>5, <2>6, ScopeNames DEF Telemetry
  <2>7. CASE ~calibrates
     BY <1>1, <1>4, <2>4, <2>5, <2>7, ScopeNames DEF Telemetry
  <2> QED
     BY <2>6, <2>7
<1>5. ASSUME Tariff
      PROVE  TypeOK'
  <2>1. sources' \in Sources /\ reports' \in [Reports -> Bodies]
     BY <1>5 DEF Tariff, TypeOK, Sources
  <2> QED
     BY <1>1, <1>5, <2>1, ScopeNames DEF Tariff
<1>6. ASSUME Configure
      PROVE  TypeOK'
  <2>1. sources' \in Sources
     BY <1>6 DEF Configure, TypeOK, Sources
  <2> QED
     BY <1>6, <2>1 DEF Configure, TypeOK
<1> QED
   BY <1>2, <1>3, <1>4, <1>5, <1>6 DEF Change

\* A step that touches one run only, or none.
LEMMA OneRunType ==
  ASSUME TypeOK, NEW p \in Publishers, NEW run \in Runs, InHand(run), Set(p, run),
         lease' \in Publishers \cup {Nobody}, UNCHANGED <<world, stored, bucket, faults>>
  PROVE  TypeOK'
<1>1. pub' \in [Publishers -> Runs] /\ \A q \in Publishers : InHand(pub'[q])
   BY SetKeeps
<1> QED
   BY <1>1 DEF TypeOK, world, stored, bucket

LEMMA FailType ==
  ASSUME TypeOK, NEW p \in Publishers, Fail(p)
  PROVE  TypeOK'
BY OneRunType, Blanks DEF Fail, Leave, TypeOK

LEMMA BeginType ==
  ASSUME TypeOK, NEW p \in Publishers, Begin(p)
  PROVE  TypeOK'
<1> DEFINE next == [Idle EXCEPT !.step = IF NothingToDo THEN "index" ELSE "load",
                                !.upper = rev, !.config = sources.config]
<1>1. /\ (IF NothingToDo THEN "index" ELSE "load") \in Steps
      /\ rev \in Nat /\ sources.config \in Nat
   BY DEF Steps, TypeOK, Sources
<1>2. next = [[[Idle EXCEPT !.step = IF NothingToDo THEN "index" ELSE "load"]
                   EXCEPT !.upper = rev] EXCEPT !.config = sources.config]
   OBVIOUS
<1>3. next \in Runs
   BY <1>1, <1>2, Blanks, RunsClosed
<1>4. InHand(next)
   BY DEF Idle, InHand
<1>5. Set(p, next) /\ lease' \in Publishers /\ UNCHANGED <<world, stored, bucket, faults>>
   BY DEF Begin
<1> QED
   BY <1>3, <1>4, <1>5, OneRunType

-----------------------------------------------------------------------------
\* What a run loads.
LEMMA StoredFacts ==
  ASSUME TypeOK, NEW run
  PROVE  /\ Stored(run) \in Tables(Items)
         /\ DOMAIN Stored(run) \subseteq DOMAIN items
         /\ \A r \in DOMAIN Stored(run) : Stored(run)[r] = items[r]
         /\ Partial(run) => DOMAIN Stored(run) = Dirty(items) \cup Affected(run)
         /\ ~Partial(run) => Stored(run) = items
<1>1. items \in Tables(Items) /\ items \in [DOMAIN items -> Items] /\ DOMAIN items \subseteq Reports
   BY TableOf DEF TypeOK
<1>2. CASE Partial(run)
  <2>1. Dirty(items) \cup Affected(run) \subseteq DOMAIN items
     BY DEF Dirty, Affected
  <2>2. Stored(run) = [r \in Dirty(items) \cup Affected(run) |-> items[r]]
     BY <1>2 DEF Stored, Restrict
  <2>3. Stored(run) \in [Dirty(items) \cup Affected(run) -> Items]
     BY <1>1, <2>1, <2>2
  <2>4. Stored(run) \in Tables(Items)
     BY <1>1, <2>1, <2>3, IsTable
  <2> QED
     BY <1>2, <2>1, <2>2, <2>4
<1>3. CASE ~Partial(run)
   BY <1>1, <1>3 DEF Stored
<1> QED
   BY <1>2, <1>3

LEMMA KnownFacts ==
  ASSUME TypeOK, NEW run
  PROVE  /\ Known(run) \in Tables(Items)
         /\ Recovering(run) => Known(run) = [r \in Reports |-> NoItem]
         /\ ~Recovering(run) =>
               /\ DOMAIN Known(run) = DOMAIN Stored(run) \cup NewsOf(run)
               /\ \A r \in DOMAIN Stored(run) : Known(run)[r] = items[r]
               /\ \A r \in DOMAIN Known(run) \ DOMAIN Stored(run) : Known(run)[r] = NoItem
         /\ NewsOf(run) \subseteq DOMAIN Known(run)
<1>1. NewsOf(run) \subseteq Reports
   BY DEF NewsOf, News
<1>2. CASE Recovering(run)
  <2>1. Known(run) = [r \in Reports |-> NoItem]
     BY <1>2 DEF Known
  <2>2. Known(run) \in [Reports -> Items]
     BY <2>1, Blanks
  <2> QED
     BY <1>1, <1>2, <2>1, <2>2, IsTable
<1>3. CASE ~Recovering(run)
  <2> DEFINE D == DOMAIN Stored(run) \cup NewsOf(run)
  <2>1. Known(run) = [r \in D |-> IF r \in DOMAIN Stored(run) THEN Stored(run)[r] ELSE NoItem]
     BY <1>3 DEF Known
  <2>2. D \subseteq Reports /\ \A r \in DOMAIN Stored(run) : Stored(run)[r] \in Items /\ Stored(run)[r] = items[r]
     BY <1>1, StoredFacts, TableOf
  <2> HIDE DEF D
  <2>3. Known(run) \in [D -> Items]
     BY <2>1, <2>2, Blanks
  <2>4. Known(run) \in Tables(Items)
     BY <2>2, <2>3, IsTable
  <2>5. DOMAIN Known(run) = D
     BY <2>1
  <2>6. DOMAIN Stored(run) \subseteq D /\ NewsOf(run) \subseteq D
     BY DEF D
  <2>7. \A r \in DOMAIN Stored(run) : Known(run)[r] = items[r]
     BY <2>1, <2>2, <2>6
  <2>8. \A r \in DOMAIN Known(run) \ DOMAIN Stored(run) : Known(run)[r] = NoItem
     BY <2>1, <2>5
  <2>9. DOMAIN Known(run) = DOMAIN Stored(run) \cup NewsOf(run)
     BY <2>5 DEF D
  <2> QED
     BY <1>3, <2>4, <2>6, <2>7, <2>8, <2>9
<1> QED
   BY <1>2, <1>3

LEMMA RequiredFlags ==
  ASSUME NEW run, NEW r
  PROVE  Required(run, r) \in SUBSET Flags
<1>1. {"render", "gas"} \subseteq Flags /\ {"render", "cost"} \subseteq Flags /\ {"render"} \subseteq Flags
   BY DEF Flags
<1>2. Needed(r, Changes(run), NewsOf(run), Broad(run)) \subseteq Flags
   BY <1>1 DEF Needed
<1> QED
   BY <1>1, <1>2 DEF Required

\* An item is loaded as it is known, with flags and perhaps a new digest.
LEMMA LoadedFacts ==
  ASSUME TypeOK, NEW run
  PROVE  /\ LoadedItems(run) \in Tables(Items)
         /\ DOMAIN LoadedItems(run) = DOMAIN Known(run)
         /\ \A r \in DOMAIN Known(run) :
               /\ LoadedItems(run)[r].dirty = Known(run)[r].dirty \cup Required(run, r)
               /\ LoadedItems(run)[r].etag = Known(run)[r].etag
               /\ LoadedItems(run)[r].shown = Known(run)[r].shown
               /\ r \notin NewsOf(run) => LoadedItems(run)[r].digest = Known(run)[r].digest
<1> DEFINE start(r) == IF r \in NewsOf(run) THEN Remember(Known(run)[r], r) ELSE Known(run)[r]
<1>1. LoadedItems(run) = [r \in DOMAIN Known(run) |-> Enqueue(start(r), Required(run, r))]
   BY DEF LoadedItems
<1>2. DOMAIN LoadedItems(run) = DOMAIN Known(run)
   BY <1>1
<1>3. ASSUME NEW r \in DOMAIN Known(run)
      PROVE  /\ LoadedItems(run)[r] \in Items
             /\ LoadedItems(run)[r].dirty = Known(run)[r].dirty \cup Required(run, r)
             /\ LoadedItems(run)[r].etag = Known(run)[r].etag
             /\ LoadedItems(run)[r].shown = Known(run)[r].shown
             /\ r \notin NewsOf(run) => LoadedItems(run)[r].digest = Known(run)[r].digest
  <2>1. Known(run)[r] \in Items /\ r \in Reports
     BY KnownFacts, TableOf
  <2>2. reports[r] \in Bodies0
     BY <2>1 DEF TypeOK, Bodies0
  <2>3. /\ start(r) \in Items
        /\ start(r).dirty = Known(run)[r].dirty /\ start(r).etag = Known(run)[r].etag
        /\ start(r).shown = Known(run)[r].shown
        /\ r \notin NewsOf(run) => start(r).digest = Known(run)[r].digest
     BY <2>1, <2>2 DEF Remember, Items
  <2>4. Required(run, r) \in SUBSET Flags
     BY RequiredFlags
  <2>5. LoadedItems(run)[r] = [start(r) EXCEPT !.dirty = start(r).dirty \cup Required(run, r)]
     BY <1>1 DEF Enqueue
  <2> HIDE DEF start
  <2> QED
     BY <2>3, <2>4, <2>5 DEF Items
<1>4. LoadedItems(run) \in [DOMAIN Known(run) -> Items]
   BY <1>1, <1>2, <1>3
<1>5. DOMAIN Known(run) \subseteq Reports
   BY KnownFacts, TableOf
<1> QED
   BY <1>2, <1>3, <1>4, <1>5, IsTable

LEMMA LoadType ==
  ASSUME TypeOK, NEW p \in Publishers, Load(p)
  PROVE  TypeOK'
<1> DEFINE run == pub[p]
           loaded == LoadedItems(run)
           next(batch) ==
             [run EXCEPT
                !.step = "next",
                !.old = meta,
                !.meta = [meta EXCEPT !.checkpoint = run.upper, !.model = LoadedModel(run),
                                      !.config = run.config],
                !.prev = Stored(run), !.items = loaded,
                !.partial = Partial(run), !.recovering = Recovering(run),
                !.snap = IF Recalibrated(run) \/ \E r \in batch : loaded[r].dirty # {"render"}
                         THEN GasInputs(sources) ELSE NoInputs,
                !.todo = batch,
                !.events = Events(Stored(run), loaded)]
<1>1. PICK batch \in Batch(loaded) : Set(p, next(batch))
   BY DEF Load
<1>2. run \in Runs /\ run.upper \in Nat /\ run.config \in Nat
   BY DEF TypeOK, Runs
<1>3. loaded \in Tables(Items) /\ Stored(run) \in Tables(Items)
   BY LoadedFacts, StoredFacts
<1>4. batch \in SUBSET Dirty(loaded)
   BY <1>1 DEF Batch
<1>5. Dirty(loaded) \subseteq Reports /\ Dirty(loaded) \subseteq DOMAIN loaded
   BY <1>3, DirtyFinite DEF Dirty
<1>6. [meta EXCEPT !.checkpoint = run.upper, !.model = LoadedModel(run), !.config = run.config] \in Metas
  <2>1. LoadedModel(run) \in Nat /\ meta \in Metas
     BY DEF LoadedModel, Remembered, TypeOK, Metas, Sources
  <2>2. [meta EXCEPT !.checkpoint = run.upper, !.model = LoadedModel(run), !.config = run.config]
          = [[[meta EXCEPT !.checkpoint = run.upper] EXCEPT !.model = LoadedModel(run)]
                EXCEPT !.config = run.config]
     OBVIOUS
  <2> QED
     BY <1>2, <2>1, <2>2, OthersClosed, Zenon
<1>7. GasInputs(sources) \in Inputs
   BY DEF TypeOK, GasInputs, Inputs, Sources
<1>8. Events(Stored(run), loaded) \in Counters
  <2> DEFINE added == Dirty(loaded) \ DOMAIN Stored(run)
             requeued == {r \in Dirty(loaded) \cap DOMAIN Stored(run) : Stored(run)[r].dirty = {}}
  <2>1. Cardinality(added) \in Nat /\ Cardinality(requeued) \in Nat
     BY <1>5, ReportsAssumption, FS_Subset, FS_CardinalityType
  <2>2. Events(Stored(run), loaded) = [[NoMetrics EXCEPT !.added = Cardinality(added)]
                                             EXCEPT !.requeued = Cardinality(requeued)]
     BY DEF Events
  <2> HIDE DEF added, requeued, run, loaded
  <2>3. [NoMetrics EXCEPT !.added = Cardinality(added)] \in Counters
     BY <2>1, OthersClosed, Blanks
  <2> QED
     BY <2>1, <2>2, <2>3, OthersClosed
<1>9. next(batch) \in Runs
  <2> DEFINE snap == IF Recalibrated(run) \/ \E r \in batch : loaded[r].dirty # {"render"}
                     THEN GasInputs(sources) ELSE NoInputs
             m == [meta EXCEPT !.checkpoint = run.upper, !.model = LoadedModel(run),
                               !.config = run.config]
             e == Events(Stored(run), loaded)
             partial == Partial(run)
             recovering == Recovering(run)
  <2>1. /\ snap \in Inputs \cup {NoInputs} /\ m \in Metas /\ e \in Counters /\ meta \in Metas
        /\ partial \in BOOLEAN /\ recovering \in BOOLEAN /\ batch \in SUBSET Reports
        /\ "next" \in Steps /\ run \in Runs
     BY <1>2, <1>4, <1>5, <1>6, <1>7, <1>8 DEF Partial, Recovering, Steps, TypeOK
  <2> DEFINE half == [[[[[run EXCEPT !.step = "next"] EXCEPT !.old = meta] EXCEPT !.meta = m]
                          EXCEPT !.prev = Stored(run)] EXCEPT !.items = loaded]
  <2>2. next(batch) = [[[[[half EXCEPT !.partial = partial] EXCEPT !.recovering = recovering]
                           EXCEPT !.snap = snap] EXCEPT !.todo = batch] EXCEPT !.events = e]
     OBVIOUS
  <2> HIDE DEF snap, m, e, partial, recovering, loaded, run, next
  <2>3. half \in Runs
     BY <1>3, <2>1, RunsClosed, Zenon
  <2> HIDE DEF half
  <2>4. [[half EXCEPT !.partial = partial] EXCEPT !.recovering = recovering] \in Runs
     BY <2>1, <2>3, RunsClosed, Zenon
  <2>5. [[[[half EXCEPT !.partial = partial] EXCEPT !.recovering = recovering]
              EXCEPT !.snap = snap] EXCEPT !.todo = batch] \in Runs
     BY <2>1, <2>4, RunsClosed, Zenon
  <2> QED
     BY <2>1, <2>2, <2>5, RunsClosed, Zenon
<1>10. InHand(next(batch))
   BY <1>2, <1>4, <1>5 DEF InHand, Runs
<1>11. lease' \in Publishers \cup {Nobody} /\ UNCHANGED <<world, stored, bucket, faults>>
   BY DEF Load, TypeOK
<1> HIDE DEF next
<1> QED
   BY <1>1, <1>9, <1>10, <1>11, OneRunType

-----------------------------------------------------------------------------
\* The rest of a run.
LEMMA TakeType ==
  ASSUME TypeOK, NEW p \in Publishers, Take(p)
  PROVE  TypeOK'
<1> DEFINE run == pub[p]
           taken(r) == [run EXCEPT !.item = r, !.todo = @ \ {r}, !.report = reports[r], !.raced = FALSE]
           next(r) == [taken(r) EXCEPT !.step = IF Derived(taken(r)) THEN "refresh" ELSE "render"]
<1>1. PICK r \in run.todo : Set(p, next(r))
   BY DEF Take
<1>2. run \in Runs /\ r \in Reports /\ r \in DOMAIN run.items /\ run.todo \subseteq DOMAIN run.items
   BY DEF TypeOK, Runs, InHand
<1>3. taken(r) \in Runs
  <2>1. /\ run.todo \ {r} \in SUBSET Reports /\ reports[r] \in Bodies0
        /\ r \in Reports \cup {Nobody} /\ FALSE \in BOOLEAN
     BY <1>2 DEF TypeOK, Runs, Bodies0
  <2>2. taken(r) = [[[[run EXCEPT !.item = r] EXCEPT !.todo = run.todo \ {r}]
                          EXCEPT !.report = reports[r]] EXCEPT !.raced = FALSE]
     BY <1>2 DEF Runs
  <2> HIDE DEF taken, run
  <2> QED
     BY <1>2, <2>1, <2>2, RunsClosed, Zenon
<1>4. (IF Derived(taken(r)) THEN "refresh" ELSE "render") \in Steps
   BY DEF Steps
<1>5. next(r) \in Runs
   BY <1>3, <1>4, RunsClosed, Zenon
<1>6. InHand(next(r))
  <2>1. next(r).todo = run.todo \ {r} /\ next(r).items = run.items /\ next(r).item = r
     BY <1>2 DEF Runs
  <2> HIDE DEF next
  <2> QED
     BY <1>2, <2>1 DEF InHand
<1>7. lease' \in Publishers \cup {Nobody} /\ UNCHANGED <<world, stored, bucket, faults>>
   BY DEF Take, TypeOK
<1> HIDE DEF next
<1> QED
   BY <1>1, <1>5, <1>6, <1>7, OneRunType

\* A table over more items, the new ones as they are stored.
LEMMA WidenedFacts ==
  ASSUME TypeOK, NEW is \in Tables(Items), NEW extra \in SUBSET (DOMAIN items)
  PROVE  /\ Widened(is, extra) \in Tables(Items)
         /\ DOMAIN Widened(is, extra) = DOMAIN is \cup extra
         /\ \A a \in extra : Widened(is, extra)[a] = items[a]
         /\ \A a \in DOMAIN is \ extra : Widened(is, extra)[a] = is[a]
<1>1. /\ DOMAIN is \cup extra \subseteq Reports
      /\ \A a \in DOMAIN is : is[a] \in Items
      /\ \A a \in extra : items[a] \in Items
   BY TableOf DEF TypeOK
<1>2. Widened(is, extra) = [a \in DOMAIN is \cup extra |-> IF a \in extra THEN items[a] ELSE is[a]]
   BY DEF Widened
<1>3. Widened(is, extra) \in [DOMAIN is \cup extra -> Items]
   BY <1>1, <1>2
<1> QED
   BY <1>1, <1>2, <1>3, IsTable

LEMMA MissedStored ==
  ASSUME NEW run
  PROVE  /\ Missed(run) \in SUBSET (DOMAIN items) /\ Missed(run) \cap DOMAIN run.items = {}
         /\ ~run.partial => Missed(run) = {}
BY DEF Missed

\* Dependents get flags, never lose one.
LEMMA DependentsFacts ==
  ASSUME NEW is \in Tables(Items), NEW r, NEW changed
  PROVE  /\ Dependents(is, r, changed) \in Tables(Items)
         /\ DOMAIN Dependents(is, r, changed) = DOMAIN is
         /\ \A a \in DOMAIN is :
               /\ \/ Dependents(is, r, changed)[a] = is[a]
                  \/ Dependents(is, r, changed)[a].dirty = is[a].dirty \cup {"render", "cost"}
               /\ Dependents(is, r, changed)[a].digest = is[a].digest
               /\ Dependents(is, r, changed)[a].etag = is[a].etag
               /\ Dependents(is, r, changed)[a].shown = is[a].shown
<1> DEFINE deps == Dependents(is, r, changed)
<1>1. deps = [a \in DOMAIN is |->
                IF changed /\ <<a, r>> \in Compares THEN Enqueue(is[a], {"render", "cost"}) ELSE is[a]]
   BY DEF Dependents
<1>2. ASSUME NEW a \in DOMAIN is
      PROVE  /\ deps[a] \in Items
             /\ deps[a] = is[a] \/ deps[a].dirty = is[a].dirty \cup {"render", "cost"}
             /\ deps[a].digest = is[a].digest /\ deps[a].etag = is[a].etag
             /\ deps[a].shown = is[a].shown
  <2>1. is[a] \in Items
     BY TableOf
  <2>2. is[a].dirty \cup {"render", "cost"} \in SUBSET Flags
     BY <2>1 DEF Items, Flags
  <2>3. deps[a] = is[a] \/ deps[a] = [is[a] EXCEPT !.dirty = is[a].dirty \cup {"render", "cost"}]
     BY <1>1 DEF Enqueue
  <2> HIDE DEF deps
  <2> QED
     BY <2>1, <2>2, <2>3 DEF Items
<1>3. DOMAIN deps = DOMAIN is /\ deps \in [DOMAIN is -> Items]
   BY <1>1, <1>2
<1>4. DOMAIN is \in SUBSET Reports
   BY TableOf
<1> QED
   BY <1>2, <1>3, <1>4, IsTable

LEMMA MarkedFacts ==
  ASSUME TypeOK, NEW run \in Runs
  PROVE  /\ Marked(run) \in Tables(Items) /\ Widened(run.prev, Missed(run)) \in Tables(Items)
         /\ DOMAIN Marked(run) = DOMAIN run.items \cup Missed(run)
         /\ IsFiniteSet(Again(run)) /\ Cardinality(Again(run)) \in Nat
<1>1. run.items \in Tables(Items) /\ run.prev \in Tables(Items)
   BY DEF Runs
<1>2. /\ Widened(run.items, Missed(run)) \in Tables(Items)
      /\ Widened(run.prev, Missed(run)) \in Tables(Items)
      /\ DOMAIN Widened(run.items, Missed(run)) = DOMAIN run.items \cup Missed(run)
   BY <1>1, MissedStored, WidenedFacts
<1>3. Marked(run) \in Tables(Items) /\ DOMAIN Marked(run) = DOMAIN run.items \cup Missed(run)
   BY <1>2, DependentsFacts DEF Marked
<1>4. Again(run) \in SUBSET Reports
   BY <1>3, DirtyFinite DEF Again
<1> QED
   BY <1>2, <1>3, <1>4, ReportsAssumption, FS_Subset, FS_CardinalityType

LEMMA RefreshType ==
  ASSUME TypeOK, NEW p \in Publishers, Refresh(p)
  PROVE  TypeOK'
<1> DEFINE run == pub[p]
           more == [run.events EXCEPT !.requeued = run.events.requeued + Cardinality(Again(run))]
           model == IF "gas" \in run.items[run.item].dirty
                    THEN Remembered(run.meta.model, run.snap.model, run.upper) ELSE run.meta.model
           m == [run.meta EXCEPT !.model = model]
           next == [run EXCEPT
                      !.step = "render",
                      !.report = reports'[run.item], !.raced = ~Persisted(run),
                      !.items = Marked(run), !.prev = Widened(run.prev, Missed(run)),
                      !.events.requeued = @ + Cardinality(Again(run)),
                      !.meta.model = IF "gas" \in run.items[run.item].dirty
                                     THEN Remembered(@, run.snap.model, run.upper) ELSE @]
<1>1. /\ run.step = "refresh" /\ run.snap = GasInputs(sources) /\ Set(p, next)
      /\ reports' = IF Persisted(run) THEN [reports EXCEPT ![run.item] = NewBody(run)] ELSE reports
   BY DEF Refresh
<1>2. /\ run \in Runs /\ run.item \in DOMAIN run.items /\ run.item \in Reports
      /\ run.items[run.item].dirty \in SUBSET Flags /\ run.todo \subseteq DOMAIN run.items
  <2>1. run \in Runs /\ InHand(run)
     BY DEF TypeOK
  <2>2. run.items \in Tables(Items)
     BY <2>1 DEF Runs
  <2>3. run.item \in DOMAIN run.items /\ run.todo \subseteq DOMAIN run.items
     BY <1>1, <2>1 DEF InHand
  <2>4. run.item \in Reports /\ run.items[run.item] \in Items
     BY <2>2, <2>3, TableOf
  <2> QED
     BY <2>1, <2>3, <2>4 DEF Items
<1>3. GasInputs(sources) \in Inputs
   BY DEF TypeOK, GasInputs, Inputs, Sources
<1>4. Persisted(run) => NewBody(run) \in Bodies
   BY <1>1, <1>2, <1>3, BodyParts DEF Persisted, NewBody, TypeOK
<1>5. reports' \in [Reports -> Bodies]
   BY <1>1, <1>4 DEF TypeOK
<1>6. more \in Counters /\ m \in Metas
  <2>1. run.events \in Counters /\ run.meta \in Metas /\ run.events.requeued \in Nat /\ model \in Nat
     BY <1>1, <1>2, <1>3 DEF Runs, Counters, Metas, Remembered, Inputs
  <2> HIDE DEF model, run
  <2>2. Cardinality(Again(run)) \in Nat
     BY <1>2, MarkedFacts
  <2>3. run.events.requeued + Cardinality(Again(run)) \in Nat
     BY <2>1, <2>2
  <2> QED
     BY <2>1, <2>3, OthersClosed
<1>7. next \in Runs
  <2> DEFINE raced == ~Persisted(run)
             report == reports'[run.item]
             half == [[[run EXCEPT !.step = "render"] EXCEPT !.report = report] EXCEPT !.raced = raced]
  <2>1. /\ "render" \in Steps /\ raced \in BOOLEAN /\ report \in Bodies0
        /\ Marked(run) \in Tables(Items) /\ Widened(run.prev, Missed(run)) \in Tables(Items)
     BY <1>2, <1>5, MarkedFacts DEF Steps, Bodies0
  <2>2. next = [[[[half EXCEPT !.items = Marked(run)] EXCEPT !.prev = Widened(run.prev, Missed(run))]
                    EXCEPT !.events = more] EXCEPT !.meta = m]
     BY <1>2 DEF Runs, Counters, Metas
  <2> HIDE DEF raced, report, more, m, next, run
  <2>3. half \in Runs
     BY <1>2, <2>1, RunsClosed, Zenon
  <2> HIDE DEF half
  <2>4. [[half EXCEPT !.items = Marked(run)] EXCEPT !.prev = Widened(run.prev, Missed(run))] \in Runs
     BY <2>1, <2>3, RunsClosed, Zenon
  <2> QED
     BY <1>6, <2>2, <2>4, RunsClosed, Zenon
<1>8. InHand(next)
  <2>1. next.items = Marked(run) /\ next.todo = run.todo /\ next.item = run.item
     BY <1>2 DEF Runs
  <2> HIDE DEF next, run
  <2> QED
     BY <1>2, <2>1, MarkedFacts DEF InHand
<1>9. pub' \in [Publishers -> Runs] /\ \A q \in Publishers : InHand(pub'[q])
  <2> HIDE DEF next
  <2> QED
     BY <1>1, <1>7, <1>8, SetKeeps
<1> QED
   BY <1>5, <1>9 DEF Refresh, TypeOK, stored, bucket

LEMMA PrepareType ==
  ASSUME TypeOK, NEW p \in Publishers, Prepare(p)
  PROVE  TypeOK'
<1> DEFINE run == pub[p]
           r == run.item
           i == run.items[r]
           raced == run.raced \/ (Published(i) /\ "gas" \notin i.dirty /\ i.shown.raced)
           page == Page(run.report, sources.mark[r], run.config, raced)
           next == [run EXCEPT !.step = "put", !.etag = pages[r].etag, !.page = page]
<1>1. Set(p, next) /\ run.step = "render"
   BY DEF Prepare
<1>2. run \in Runs /\ InHand(run) /\ run.items \in Tables(Items)
   BY DEF TypeOK, Runs
<1>3. r \in Reports
   BY <1>1, <1>2, TableOf DEF InHand
<1>4. page \in Pages0
  <2>1. sources.mark[r] \in Nat /\ run.report \in Bodies0 /\ run.config \in Nat
     BY <1>2, <1>3 DEF TypeOK, Sources, Runs
  <2>2. raced \in BOOLEAN
     OBVIOUS
  <2> HIDE DEF raced
  <2> QED
     BY <2>1, <2>2 DEF Page, Pages, Pages0
<1>5. pages[r].etag \in Nat /\ "put" \in Steps
   BY <1>3 DEF TypeOK, Steps
<1>6. next \in Runs
  <2> HIDE DEF page, run
  <2> QED
     BY <1>2, <1>4, <1>5, RunsClosed, Zenon
<1>7. InHand(next)
   BY <1>2 DEF InHand, Runs
<1>8. lease' \in Publishers \cup {Nobody} /\ UNCHANGED <<world, stored, bucket, faults>>
   BY DEF Prepare, TypeOK
<1> HIDE DEF next
<1> QED
   BY <1>1, <1>6, <1>7, <1>8, OneRunType

LEMMA PutPageType ==
  ASSUME TypeOK, NEW p \in Publishers, PutPage(p)
  PROVE  TypeOK'
<1> DEFINE run == pub[p]
           r == run.item
           done == [dirty |-> {}, digest |-> run.report, etag |-> pages[r].etag + 1,
                    shown |-> run.page]
           now == [run.items EXCEPT ![r] = done]
           more == [run.events EXCEPT !.completed = run.events.completed + 1]
           next == [run EXCEPT !.step = "next", !.item = Nobody, !.items[r] = done,
                               !.page = NoPage, !.report = NoPage, !.raced = FALSE, !.etag = 0,
                               !.events.completed = @ + 1]
<1>1. /\ Set(p, next) /\ run.step = "put" /\ r # Nobody
      /\ pages' = [pages EXCEPT ![r] = [etag |-> @.etag + 1, page |-> run.page]]
   BY DEF PutPage
<1>2. run \in Runs /\ InHand(run) /\ run.items \in Tables(Items)
   BY DEF TypeOK, Runs
<1>3. r \in Reports /\ run.page \in Pages0 /\ run.report \in Bodies0 /\ pages[r].etag \in Nat
   BY <1>1, <1>2 DEF Runs, TypeOK
<1>4. done \in Items
   BY <1>3 DEF Items
<1>5. now \in Tables(Items) /\ DOMAIN now = DOMAIN run.items
  <2>1. run.items \in [DOMAIN run.items -> Items] /\ DOMAIN run.items \in SUBSET Reports
     BY <1>2, TableOf
  <2>2. now \in [DOMAIN run.items -> Items]
     BY <1>4, <2>1
  <2> QED
     BY <2>1, <2>2, IsTable
<1>6. more \in Counters
   BY <1>2, OthersClosed DEF Runs, Counters
<1>7. next \in Runs
  <2> DEFINE half == [[[[run EXCEPT !.step = "next"] EXCEPT !.item = Nobody] EXCEPT !.items = now]
                        EXCEPT !.page = NoPage]
  <2>1. /\ "next" \in Steps /\ Nobody \in Reports \cup {Nobody} /\ FALSE \in BOOLEAN /\ 0 \in Nat
        /\ NoPage \in Pages0 /\ NoPage \in Bodies0
     BY Blanks DEF Steps
  <2>2. next = [[[[half EXCEPT !.report = NoPage] EXCEPT !.raced = FALSE] EXCEPT !.etag = 0]
                  EXCEPT !.events = more]
     BY <1>2 DEF Runs, Counters
  <2> HIDE DEF now, more, next, run
  <2>3. half \in Runs
     BY <1>2, <1>5, <2>1, RunsClosed, Zenon
  <2> HIDE DEF half
  <2>4. [[half EXCEPT !.report = NoPage] EXCEPT !.raced = FALSE] \in Runs
     BY <2>1, <2>3, RunsClosed, Zenon
  <2> QED
     BY <1>6, <2>1, <2>2, <2>4, RunsClosed, Zenon
<1>8. InHand(next)
  <2>1. next.items = now /\ next.todo = run.todo /\ next.step = "next"
     BY <1>2 DEF Runs
  <2> HIDE DEF next, now
  <2> QED
     BY <1>2, <1>5, <2>1 DEF InHand
<1>9. pub' \in [Publishers -> Runs] /\ \A q \in Publishers : InHand(pub'[q])
  <2> HIDE DEF next
  <2> QED
     BY <1>1, <1>7, <1>8, SetKeeps
<1>10. pages' \in [Reports -> [etag : Nat, page : Pages0]]
   BY <1>1, <1>3 DEF TypeOK
<1> QED
   BY <1>9, <1>10 DEF PutPage, TypeOK, world, stored

LEMMA CountedType ==
  ASSUME NEW p \in Publishers, NEW run \in Runs
  PROVE  Counted(p, run) \in Counters /\ UnpublishedCount(run) \in Int
<1>1. run.events \in Counters /\ run.old.metrics \in Counters /\ run.old.unpublished \in Int
   BY DEF Runs, Metas
<1>2. run.items \in Tables(Items) /\ run.prev \in Tables(Items)
   BY DEF Runs
<1>3. UnpublishedCount(run) \in Int
   BY <1>1, <1>2, DirtyFinite DEF UnpublishedCount
<1>4. Counted(p, run) \in Counters
   BY <1>1 DEF Counted, Counters
<1> QED
   BY <1>3, <1>4

LEMMA FinishType ==
  ASSUME TypeOK, NEW p \in Publishers, Finish(p)
  PROVE  TypeOK'
<1> DEFINE run == pub[p]
           write == \/ Entries(run.items) # Entries(run.prev)
                    \/ run.recovering
                    \/ ~ManifestCurrent(run.old)
           m == [[run.meta EXCEPT !.unpublished = UnpublishedCount(run)] EXCEPT !.metrics = Counted(p, run)]
           step == IF write THEN "put" ELSE "save"
           etag == IF write THEN manifest.etag ELSE 0
           next == [run EXCEPT !.step = IF write THEN "put" ELSE "save",
                               !.etag = IF write THEN manifest.etag ELSE 0,
                               !.snap = NoInputs,
                               !.meta.unpublished = UnpublishedCount(run),
                               !.meta.metrics = Counted(p, run)]
<1>1. Set(p, next)
   BY DEF Finish
<1>2. run \in Runs /\ InHand(run) /\ run.meta \in Metas
   BY DEF TypeOK, Runs
<1>3. m \in Metas
   BY <1>2, CountedType, OthersClosed
<1>4. /\ step \in Steps /\ etag \in Nat /\ NoInputs \in Inputs \cup {NoInputs}
   BY DEF Steps, TypeOK
<1>5. next = [[[[run EXCEPT !.step = step] EXCEPT !.etag = etag] EXCEPT !.snap = NoInputs] EXCEPT !.meta = m]
   BY <1>2 DEF Runs, Metas
<1>6. next \in Runs
  <2> HIDE DEF step, etag, m, next, run
  <2> QED
     BY <1>2, <1>3, <1>4, <1>5, RunsClosed, Zenon
<1>7. InHand(next)
  <2>1. next.items = run.items /\ next.todo = run.todo /\ next.step \in {"put", "save"}
     BY <1>2 DEF Runs
  <2> HIDE DEF next
  <2> QED
     BY <1>2, <2>1 DEF InHand
<1>8. lease' \in Publishers \cup {Nobody} /\ UNCHANGED <<world, stored, bucket, faults>>
   BY DEF Finish, TypeOK
<1> HIDE DEF next
<1> QED
   BY <1>1, <1>6, <1>7, <1>8, OneRunType

LEMMA ListingType ==
  ASSUME TypeOK, NEW run \in Runs
  PROVE  Listing(run) \in Tables(Nat)
<1>1. /\ run.items \in Tables(Items) /\ DOMAIN run.items \subseteq Reports /\ DOMAIN items \subseteq Reports
      /\ \A r \in DOMAIN run.items : run.items[r].etag \in Nat
      /\ \A r \in DOMAIN items : items[r].etag \in Nat
  <2>1. run.items \in Tables(Items) /\ items \in Tables(Items)
     BY DEF Runs, TypeOK
  <2>2. /\ DOMAIN run.items \subseteq Reports /\ \A r \in DOMAIN run.items : run.items[r] \in Items
        /\ DOMAIN items \subseteq Reports /\ \A r \in DOMAIN items : items[r] \in Items
     BY <2>1, TableOf
  <2>3. \A i \in Items : i.etag \in Nat
     BY DEF Items
  <2> QED
     BY <2>1, <2>2, <2>3
<1>2. Entries(run.items) \in Tables(Nat)
  <2> DEFINE D == DOMAIN run.items \ Unpublished(run.items)
  <2>1. Entries(run.items) = [r \in D |-> run.items[r].etag]
     BY DEF Entries
  <2>2. Entries(run.items) \in [D -> Nat] /\ D \in SUBSET Reports
     BY <1>1, <2>1
  <2> QED
     BY <2>2, IsTable
<1>3. CASE ~run.partial
   BY <1>2, <1>3 DEF Listing
<1>4. CASE run.partial
  <2> DEFINE D == {r \in DOMAIN items \ DOMAIN run.items : Published(items[r])}
                     \cup DOMAIN Entries(run.items)
             entry(r) == IF r \in DOMAIN run.items THEN run.items[r].etag ELSE items[r].etag
  <2>1. Listing(run) = [r \in D |-> entry(r)]
     BY <1>4 DEF Listing
  <2>2. DOMAIN Entries(run.items) \subseteq DOMAIN run.items
     BY DEF Entries
  <2>3. D \in SUBSET Reports /\ \A r \in D : entry(r) \in Nat
     BY <1>1, <2>2
  <2> HIDE DEF D, entry
  <2>4. Listing(run) \in [D -> Nat]
     BY <2>1, <2>3
  <2> QED
     BY <2>3, <2>4, IsTable
<1> QED
   BY <1>3, <1>4

LEMMA PutManifestType ==
  ASSUME TypeOK, NEW p \in Publishers, PutManifest(p)
  PROVE  TypeOK'
<1> DEFINE run == pub[p]
           m == [run.meta EXCEPT !.manifest = manifest.etag + 1]
           next == [run EXCEPT !.step = "save", !.meta.manifest = manifest.etag + 1, !.etag = 0]
<1>1. Set(p, next) /\ manifest' = [etag |-> manifest.etag + 1, listed |-> Listing(run)]
   BY DEF PutManifest
<1>2. run \in Runs /\ InHand(run) /\ run.meta \in Metas /\ manifest.etag + 1 \in Nat
   BY DEF TypeOK, Runs
<1>3. m \in Metas /\ "save" \in Steps /\ 0 \in Nat
   BY <1>2, OthersClosed DEF Steps
<1>4. next = [[[run EXCEPT !.step = "save"] EXCEPT !.meta = m] EXCEPT !.etag = 0]
   BY <1>2 DEF Runs, Metas
<1>5. next \in Runs
  <2> HIDE DEF m, next, run
  <2> QED
     BY <1>2, <1>3, <1>4, RunsClosed, Zenon
<1>6. InHand(next)
  <2>1. next.items = run.items /\ next.todo = run.todo /\ next.step = "save"
     BY <1>2 DEF Runs
  <2> HIDE DEF next
  <2> QED
     BY <1>2, <2>1 DEF InHand
<1>7. pub' \in [Publishers -> Runs] /\ \A q \in Publishers : InHand(pub'[q])
  <2> HIDE DEF next
  <2> QED
     BY <1>1, <1>5, <1>6, SetKeeps
<1>8. manifest' \in [etag : Nat, listed : Tables(Nat)]
   BY <1>1, <1>2, ListingType
<1> QED
   BY <1>7, <1>8 DEF PutManifest, TypeOK, world, stored

LEMMA WrittenType ==
  ASSUME TypeOK, NEW run \in Runs
  PROVE  Written(run) \in Tables(Items)
<1> DEFINE D == (DOMAIN items \ (DOMAIN run.prev \ DOMAIN run.items)) \cup Altered(run)
           value(r) == IF r \in Altered(run) THEN run.items[r] ELSE items[r]
<1>1. Written(run) = [r \in D |-> value(r)]
   BY DEF Written
<1>2. run.items \in Tables(Items) /\ items \in Tables(Items) /\ Altered(run) \subseteq DOMAIN run.items
   BY DEF TypeOK, Runs, Altered
<1>3. D \in SUBSET Reports /\ \A r \in D : value(r) \in Items
   BY <1>2, TableOf
<1> HIDE DEF D, value
<1>4. Written(run) \in [D -> Items]
   BY <1>1, <1>3
<1> QED
   BY <1>3, <1>4, IsTable

LEMMA SaveType ==
  ASSUME TypeOK, NEW p \in Publishers, Save(p)
  PROVE  TypeOK'
<1>1. pub[p] \in Runs /\ pub[p].meta \in Metas
   BY DEF TypeOK, Runs
<1>2. pub' \in [Publishers -> Runs] /\ \A q \in Publishers : InHand(pub'[q])
   BY SetKeeps, Blanks DEF Save, TypeOK
<1>3. items' \in Tables(Items) /\ meta' \in Metas /\ faults' \in Nat
   BY <1>1, WrittenType DEF Save, Fault, stored, TypeOK
<1> QED
   BY <1>2, <1>3 DEF Save, TypeOK, world, bucket

LEMMA IndexType ==
  ASSUME TypeOK, NEW p \in Publishers, IndexRead(p) \/ IndexCommitted(p) \/ IndexPut(p)
  PROVE  TypeOK'
<1> DEFINE run == pub[p]
<1>1. run \in Runs /\ run.shows \in Nat /\ run.tries \in Nat /\ InHand(run)
   BY DEF TypeOK, Runs
<1>2. /\ index.etag \in Nat /\ index.shows \in Nat /\ meta.manifest \in Nat
      /\ {"index", "committed", "project"} \subseteq Steps
   BY DEF TypeOK, Metas, Steps
<1>3. CASE IndexRead(p)
  <2> DEFINE next == [run EXCEPT !.step = "committed", !.etag = index.etag, !.shows = index.shows]
  <2>1. Set(p, next) /\ lease' = lease /\ UNCHANGED <<world, stored, bucket, faults>>
     BY <1>3 DEF IndexRead
  <2>2. next = [[[run EXCEPT !.step = "committed"] EXCEPT !.etag = index.etag] EXCEPT !.shows = index.shows]
     OBVIOUS
  <2>3. InHand(next)
     BY <1>1 DEF InHand, Runs
  <2> HIDE DEF next, run
  <2>4. next \in Runs
     BY <1>1, <1>2, <2>2, RunsClosed
  <2> QED
     BY <2>1, <2>3, <2>4, OneRunType DEF TypeOK
<1>4. CASE IndexCommitted(p)
  <2> DEFINE next == [run EXCEPT !.step = "project", !.shows = meta.manifest]
  <2>1. CASE Leave(p)
     BY <1>4, <2>1, OneRunType, Blanks DEF IndexCommitted, Leave, TypeOK
  <2>2. CASE Set(p, next) /\ UNCHANGED lease
    <3>1. InHand(next)
       BY <1>1 DEF InHand, Runs
    <3>2. UNCHANGED <<world, stored, bucket, faults>>
       BY <1>4 DEF IndexCommitted
    <3>3. next = [[run EXCEPT !.step = "project"] EXCEPT !.shows = meta.manifest]
       OBVIOUS
    <3> HIDE DEF next, run
    <3>4. next \in Runs
       BY <1>1, <1>2, <3>3, RunsClosed
    <3> QED
       BY <2>2, <3>1, <3>2, <3>4, OneRunType DEF TypeOK
  <2> QED
     BY <1>4, <2>1, <2>2 DEF IndexCommitted
<1>5. CASE IndexPut(p)
  <2> DEFINE next == [ToIndex EXCEPT !.tries = run.tries + 1]
  <2>1. next \in Runs /\ InHand(next)
    <3>1. run.tries + 1 \in Nat
       BY <1>1
    <3> HIDE DEF run
    <3>2. next \in Runs
       BY <3>1, Blanks, RunsClosed
    <3>3. InHand(next)
       BY Blanks DEF InHand, ToIndex, Idle
    <3> QED
       BY <3>2, <3>3
  <2>2. lease' \in Publishers \cup {Nobody}
     BY <1>5 DEF IndexPut, Leave, TypeOK
  <2>3. Set(p, Idle) \/ Set(p, next)
     BY <1>5 DEF IndexPut, Leave
  <2>4. pub' \in [Publishers -> Runs] /\ \A q \in Publishers : InHand(pub'[q])
    <3> HIDE DEF next
    <3> QED
       BY <2>1, <2>3, SetKeeps, Blanks
  <2>5. index' \in [etag : Nat, shows : Nat]
     BY <1>1, <1>2, <1>5 DEF IndexPut, TypeOK
  <2> QED
     BY <1>5, <2>2, <2>4, <2>5 DEF IndexPut, TypeOK, world, stored
<1> QED
   BY <1>3, <1>4, <1>5

LEMMA FaultType ==
  ASSUME TypeOK, Expire \/ Damage \/ \E p \in Publishers : Crash(p)
  PROVE  TypeOK'
<1>1. CASE Expire
   BY <1>1 DEF Expire, Fault, TypeOK, world, stored, bucket
<1>2. CASE Damage
  <2>1. pages' \in [Reports -> [etag : Nat, page : Pages0]]
    <3>1. ASSUME NEW r \in Reports, pages' = [pages EXCEPT ![r].etag = @ + 1]
          PROVE  pages' \in [Reports -> [etag : Nat, page : Pages0]]
      <4>1. [pages[r] EXCEPT !.etag = pages[r].etag + 1] \in [etag : Nat, page : Pages0]
         BY DEF TypeOK
      <4>2. pages' = [pages EXCEPT ![r] = [pages[r] EXCEPT !.etag = pages[r].etag + 1]]
         BY <3>1
      <4> QED
         BY <4>1, <4>2 DEF TypeOK
    <3> QED
       BY <1>2, <3>1 DEF Damage, TypeOK
  <2>2. manifest' \in [etag : Nat, listed : Tables(Nat)]
     BY <1>2 DEF Damage, TypeOK
  <2> QED
     BY <1>2, <2>1, <2>2 DEF Damage, Fault, TypeOK, world, stored
<1>3. ASSUME NEW p \in Publishers, Crash(p)
      PROVE  TypeOK'
  <2>1. pub' \in [Publishers -> Runs] /\ \A q \in Publishers : InHand(pub'[q])
     BY <1>3, SetKeeps, Blanks DEF Crash
  <2> QED
     BY <1>3, <2>1 DEF Crash, Fault, TypeOK, world, stored, bucket
<1> QED
   BY <1>1, <1>2, <1>3

LEMMA TypeStep ==
  ASSUME TypeOK, [Next]_vars
  PROVE  TypeOK'
<1>1. CASE UNCHANGED vars
   BY <1>1 DEF vars, TypeOK
<1>2. ASSUME NEW p \in Publishers, Run(p)
      PROVE  TypeOK'
   BY <1>2, LoadType, TakeType, RefreshType, PrepareType, PutPageType, FinishType,
      PutManifestType, FailType, SaveType, IndexType DEF Run, Conflict, Refuse
<1> QED
   BY <1>1, <1>2, BeginType, ChangeType, FaultType DEF Next

(* Every variable keeps its type, and a run renders only what it loaded.   *)
THEOREM TypeCorrect == Spec => []TypeOK
<1>1. Init => TypeOK
   BY InitType
<1>2. TypeOK /\ [Next]_vars => TypeOK'
   BY TypeStep
<1> QED
   BY <1>1, <1>2, PTL DEF Spec

-----------------------------------------------------------------------------
\* No telemetry has come to the period of r, nor any that may change the
\* model, since c; nor a tariff.
Quiet(r, c, jour) ==
    /\ jour[<<"telemetry", r>>] <= c
    /\ \A b \in Reports : jour[<<"telemetry-gas", b>>] <= c
Unpriced(c, jour) == jour[<<"tariff", Nobody>>] <= c

Current(gas, r, src) == gas = GasOf(GasInputs(src), r)
CurrentVolume(gas, r, src) == gas.facts = src.facts[r] /\ gas.model = src.model

\* What is stored in the report of r is current, but for what came after c.
StoredVolume(r, c, exempt, jour, reps, src) ==
    Quiet(r, c, jour) => exempt \/ CurrentVolume(reps[r].gas, r, src)
StoredGas(r, c, exempt, jour, reps, src) ==
    Quiet(r, c, jour) /\ Unpriced(c, jour) => exempt \/ Current(reps[r].gas, r, src)

\* So is a body that is shown, or is to be shown.
Fresh(body, r, c, exempt, jour, reps, src) ==
    /\ jour[<<"report", r>>] <= c => body.ver = reps[r].ver
    /\ Quiet(r, c, jour) /\ Unpriced(c, jour) => exempt \/ Current(body.gas, r, src)

\* What the item of r shows, if it is clean, and what is stored for it to
\* show, if it is not flagged.
Clean(i, r, c, cfg, jour, reps, src) ==
    /\ i.digest = i.shown.report
    /\ i.shown.config = cfg
    /\ jour[<<"render", r>>] <= c => i.shown.mark = src.mark[r]
    /\ Fresh(i.shown.report, r, c, i.shown.raced, jour, reps, src)

Good(i, r, c, cfg, jour, reps, src) ==
    /\ "gas" \notin i.dirty =>
          /\ Published(i) /\ i.shown \in Pages
          /\ StoredVolume(r, c, i.shown.raced, jour, reps, src)
          /\ "cost" \notin i.dirty => StoredGas(r, c, i.shown.raced, jour, reps, src)
    /\ i.dirty = {} => Clean(i, r, c, cfg, jour, reps, src)

Sound(is, c, cfg, jour, reps, src) ==
    \A r \in DOMAIN is : Good(is[r], r, c, cfg, jour, reps, src)

\* The page in the making may be exempt: its report was replaced, now or
\* when its gas was refreshed last.
Exempt(run) ==
    LET i == run.items[run.item] IN
    run.raced \/ (Published(i) /\ "gas" \notin i.dirty /\ i.shown.raced)

Queued(m) == m.added + m.requeued - m.completed

\* What the table would be after the save of run.
After(is, run) ==
    [r \in DOMAIN is \cup DOMAIN run.items |->
        IF r \in DOMAIN run.items THEN run.items[r] ELSE is[r]]

-----------------------------------------------------------------------------
\* The journal and the sources.
Numbered ==
    /\ \A s \in Scopes : journal[s] <= rev
    /\ sources.model \in 1 .. rev
    /\ \A r \in Reports : journal[<<"telemetry-gas", r>>] <= sources.model

\* The committed rows.
Committed ==
    /\ meta.checkpoint <= rev /\ meta.model <= meta.checkpoint
    /\ meta.checkpoint > 0 => meta.manifest # 0
    /\ meta.manifest # 0 => DOMAIN items = Reports
    /\ Sound(items, meta.checkpoint, meta.config, journal, reports, sources)
    /\ Queued(meta.metrics) = Cardinality(Dirty(items))
    /\ meta.unpublished = Cardinality(Unpublished(items))

\* What a run has loaded is what is stored.
Based(run) ==
    /\ meta = run.old
    /\ DOMAIN run.prev = DOMAIN run.items \cap DOMAIN items
    /\ \A r \in DOMAIN run.prev : items[r] = run.prev[r]
    /\ ~run.partial => DOMAIN run.prev = DOMAIN items

\* Its save was committed, and the answer lost.
Saved(run) ==
    /\ run.step = "save"
    /\ meta = run.meta
    /\ items = After(items, run)

\* What the run will commit.
Bounds(run) ==
    /\ run.upper \in 1 .. rev
    /\ run.meta.checkpoint = run.upper /\ run.meta.config = run.config
    /\ run.meta.model <= run.upper
    /\ run.recovering => DOMAIN run.items = Reports
    /\ ~run.recovering => run.meta.manifest # 0 /\ DOMAIN items = Reports
    /\ run.step = "save" => run.meta.manifest # 0
    /\ DOMAIN run.prev \subseteq DOMAIN run.items

\* Inputs of the gas are captured for every item that is to be refreshed.
Batched(run) ==
    /\ run.todo \subseteq Dirty(run.items)
    /\ \A r \in run.todo : run.items[r].dirty # {"render"} => Captured(run)

\* The item in hand, its report, and its page.
Making(run) ==
    /\ run.item \in Dirty(run.items) /\ run.item \notin run.todo
    /\ run.step \in {"render", "put"} =>
          LET exempt == IF run.step = "put" THEN run.page.raced ELSE Exempt(run) IN
          /\ run.report \in Bodies
          /\ Fresh(run.report, run.item, run.upper, exempt, journal, reports, sources)
          /\ StoredVolume(run.item, run.upper, exempt, journal, reports, sources)
          /\ StoredGas(run.item, run.upper, exempt, journal, reports, sources)
    /\ run.step = "put" =>
          /\ run.page \in Pages
          /\ run.page.report = run.report /\ run.page.config = run.config
          /\ journal[<<"render", run.item>>] <= run.upper =>
                run.page.mark = sources.mark[run.item]

Accounts(p, run) ==
    /\ Queued(run.events) = Cardinality(Dirty(run.items)) - Cardinality(Dirty(run.prev))
    /\ run.step = "save" \/ (run.step = "put" /\ run.item = Nobody) =>
          /\ run.meta.unpublished = UnpublishedCount(run)
          /\ run.meta.metrics = Counted(p, run)

Loaded == {"next", "refresh", "render", "put", "save"}

Holds(p) ==
    LET run == pub[p] IN
    /\ run.step = "load" =>
          run.upper \in 1 .. rev /\ meta.checkpoint <= run.upper /\ run.item = Nobody
    /\ run.step \in Loaded =>
          /\ Based(run) \/ Saved(run)
          /\ Bounds(run) /\ Batched(run) /\ Accounts(p, run)
          /\ run.step \in {"next", "save"} => run.item = Nobody
          /\ run.item # Nobody => Making(run)
          /\ Sound(After(items, run), run.upper, run.config, journal, reports, sources)

Inv ==
    /\ TypeOK
    /\ Numbered
    /\ Committed
    /\ lease \in Publishers => Holds(lease)

-----------------------------------------------------------------------------
\* The world moves on from revision n: a scope is as it was, with what it
\* is about, or its row is newer; stored gas that was current stays so.
Newer(n, jour, reps, src, jour2, reps2, src2) ==
    /\ \A s \in Scopes : jour2[s] = jour[s] \/ jour2[s] > n
    /\ \A r \in Reports :
          /\ jour2[<<"report", r>>] <= n => reps2[r].ver = reps[r].ver
          /\ jour2[<<"render", r>>] <= n => src2.mark[r] = src.mark[r]
          /\ jour2[<<"telemetry", r>>] <= n /\ jour2[<<"telemetry-gas", r>>] <= n =>
                src2.facts[r] = src.facts[r]
          /\ src2.facts[r] = src.facts[r] /\ src2.model = src.model =>
                /\ CurrentVolume(reps[r].gas, r, src) => CurrentVolume(reps2[r].gas, r, src2)
                /\ src2.tariff = src.tariff /\ Current(reps[r].gas, r, src) =>
                      Current(reps2[r].gas, r, src2)
    /\ (\A b \in Reports : jour2[<<"telemetry-gas", b>>] <= n) => src2.model = src.model
    /\ jour2[<<"tariff", Nobody>>] <= n => src2.tariff = src.tariff

LEMMA NewerScopes ==
  ASSUME NEW jour \in [Scopes -> Nat], NEW jour2 \in [Scopes -> Nat], NEW reps, NEW reps2,
         NEW src, NEW src2, NEW n \in Nat, NEW c \in Nat, c <= n, NEW r \in Reports,
         Newer(n, jour, reps, src, jour2, reps2, src2)
  PROVE  /\ jour2[<<"report", r>>] <= c => jour[<<"report", r>>] <= c /\ reps2[r].ver = reps[r].ver
         /\ jour2[<<"render", r>>] <= c => jour[<<"render", r>>] <= c /\ src2.mark[r] = src.mark[r]
         /\ Quiet(r, c, jour2) => /\ Quiet(r, c, jour) /\ src2.facts[r] = src.facts[r]
                                  /\ src2.model = src.model
         /\ Unpriced(c, jour2) => Unpriced(c, jour) /\ src2.tariff = src.tariff
<1>1. ASSUME NEW s \in Scopes, jour2[s] <= c
      PROVE  jour2[s] <= n /\ jour[s] <= c
  <2>1. jour2[s] \in Nat /\ jour2[s] <= n
     BY <1>1
  <2>2. jour2[s] = jour[s]
     BY <2>1 DEF Newer
  <2> QED
     BY <1>1, <2>1, <2>2
<1>2. ASSUME jour2[<<"report", r>>] <= c
      PROVE  jour[<<"report", r>>] <= c /\ reps2[r].ver = reps[r].ver
   BY <1>1, <1>2, ScopeNames DEF Newer
<1>3. ASSUME jour2[<<"render", r>>] <= c
      PROVE  jour[<<"render", r>>] <= c /\ src2.mark[r] = src.mark[r]
   BY <1>1, <1>3, ScopeNames DEF Newer
<1>4. ASSUME Quiet(r, c, jour2)
      PROVE  Quiet(r, c, jour) /\ src2.facts[r] = src.facts[r] /\ src2.model = src.model
  <2>1. \A b \in Reports : jour2[<<"telemetry-gas", b>>] <= n /\ jour[<<"telemetry-gas", b>>] <= c
     BY <1>1, <1>4, ScopeNames DEF Quiet
  <2>2. jour2[<<"telemetry", r>>] <= n /\ jour[<<"telemetry", r>>] <= c
     BY <1>1, <1>4, ScopeNames DEF Quiet
  <2> QED
     BY <2>1, <2>2 DEF Newer, Quiet
<1>5. ASSUME Unpriced(c, jour2)
      PROVE  Unpriced(c, jour) /\ src2.tariff = src.tariff
   BY <1>1, <1>5, ScopeNames DEF Newer, Unpriced
<1> QED
   BY <1>2, <1>3, <1>4, <1>5

\* What was fresh, stored or good for c stays so.
LEMMA NewerFresh ==
  ASSUME NEW jour \in [Scopes -> Nat], NEW jour2 \in [Scopes -> Nat], NEW reps, NEW reps2,
         NEW src, NEW src2, NEW n \in Nat, NEW c \in Nat, c <= n, NEW r \in Reports,
         Newer(n, jour, reps, src, jour2, reps2, src2),
         NEW body, NEW exempt
  PROVE  /\ Fresh(body, r, c, exempt, jour, reps, src) =>
               Fresh(body, r, c, exempt, jour2, reps2, src2)
         /\ StoredVolume(r, c, exempt, jour, reps, src) =>
               StoredVolume(r, c, exempt, jour2, reps2, src2)
         /\ StoredGas(r, c, exempt, jour, reps, src) =>
               StoredGas(r, c, exempt, jour2, reps2, src2)
<1>0. /\ jour2[<<"report", r>>] <= c => jour[<<"report", r>>] <= c /\ reps2[r].ver = reps[r].ver
      /\ jour2[<<"render", r>>] <= c => jour[<<"render", r>>] <= c /\ src2.mark[r] = src.mark[r]
      /\ Quiet(r, c, jour2) => /\ Quiet(r, c, jour) /\ src2.facts[r] = src.facts[r]
                               /\ src2.model = src.model
      /\ Unpriced(c, jour2) => Unpriced(c, jour) /\ src2.tariff = src.tariff
   BY NewerScopes
<1>1. ASSUME Quiet(r, c, jour2), StoredVolume(r, c, exempt, jour, reps, src)
      PROVE  exempt \/ CurrentVolume(reps2[r].gas, r, src2)
   BY <1>0, <1>1 DEF StoredVolume, Newer
<1>2. ASSUME Quiet(r, c, jour2), Unpriced(c, jour2), StoredGas(r, c, exempt, jour, reps, src)
      PROVE  exempt \/ Current(reps2[r].gas, r, src2)
   BY <1>0, <1>2 DEF StoredGas, Newer
<1>3. ASSUME Quiet(r, c, jour2), Unpriced(c, jour2), Fresh(body, r, c, exempt, jour, reps, src)
      PROVE  exempt \/ Current(body.gas, r, src2)
   BY <1>0, <1>3 DEF Fresh, Current, GasOf, GasInputs
<1>4. ASSUME jour2[<<"report", r>>] <= c, Fresh(body, r, c, exempt, jour, reps, src)
      PROVE  body.ver = reps2[r].ver
   BY <1>0, <1>4 DEF Fresh
<1> QED
   BY <1>1, <1>2, <1>3, <1>4 DEF Fresh, StoredVolume, StoredGas

LEMMA NewerSound ==
  ASSUME NEW jour \in [Scopes -> Nat], NEW jour2 \in [Scopes -> Nat], NEW reps, NEW reps2,
         NEW src, NEW src2, NEW n \in Nat, NEW c \in Nat, c <= n, NEW cfg,
         Newer(n, jour, reps, src, jour2, reps2, src2),
         NEW is \in Tables(Items), Sound(is, c, cfg, jour, reps, src)
  PROVE  Sound(is, c, cfg, jour2, reps2, src2)
<1>1. SUFFICES ASSUME NEW r \in DOMAIN is
               PROVE  Good(is[r], r, c, cfg, jour2, reps2, src2)
   BY DEF Sound
<1>2. r \in Reports /\ Good(is[r], r, c, cfg, jour, reps, src)
   BY TableOf DEF Sound
<1>0. \A body, exempt :
         /\ Fresh(body, r, c, exempt, jour, reps, src) =>
               Fresh(body, r, c, exempt, jour2, reps2, src2)
         /\ StoredVolume(r, c, exempt, jour, reps, src) =>
               StoredVolume(r, c, exempt, jour2, reps2, src2)
         /\ StoredGas(r, c, exempt, jour, reps, src) =>
               StoredGas(r, c, exempt, jour2, reps2, src2)
   BY <1>2, NewerFresh
<1>5. jour2[<<"render", r>>] <= c => jour[<<"render", r>>] <= c /\ src2.mark[r] = src.mark[r]
  <2>1. <<"render", r>> \in Scopes
     BY <1>2, ScopeNames
  <2>2. jour[<<"render", r>>] \in Nat /\ jour2[<<"render", r>>] \in Nat
     BY <2>1
  <2>3. /\ jour2[<<"render", r>>] = jour[<<"render", r>>] \/ jour2[<<"render", r>>] > n
        /\ jour2[<<"render", r>>] <= n => src2.mark[r] = src.mark[r]
     BY <1>2, <2>1 DEF Newer
  <2> QED
     BY <2>2, <2>3
<1>3. "gas" \notin is[r].dirty =>
         /\ StoredVolume(r, c, is[r].shown.raced, jour2, reps2, src2)
         /\ "cost" \notin is[r].dirty => StoredGas(r, c, is[r].shown.raced, jour2, reps2, src2)
   BY <1>0, <1>2 DEF Good
<1>4. is[r].dirty = {} => Clean(is[r], r, c, cfg, jour2, reps2, src2)
   BY <1>0, <1>2, <1>5 DEF Good, Clean
<1> QED
   BY <1>2, <1>3, <1>4 DEF Good

-----------------------------------------------------------------------------
\* Counting: a part of a finite set gives way to another set.
LEMMA Exchange ==
  ASSUME NEW A, IsFiniteSet(A), NEW B \in SUBSET A, NEW C, IsFiniteSet(C), (A \ B) \cap C = {}
  PROVE  /\ IsFiniteSet((A \ B) \cup C)
         /\ Cardinality((A \ B) \cup C) = Cardinality(A) - Cardinality(B) + Cardinality(C)
<1>1. IsFiniteSet(B) /\ IsFiniteSet(A \ B)
   BY FS_Subset
<1>2. Cardinality(A \ B) = Cardinality(A) - Cardinality(A \cap B)
   BY FS_Difference
<1>3. A \cap B = B
   OBVIOUS
<1>4. Cardinality((A \ B) \cup C)
         = Cardinality(A \ B) + Cardinality(C) - Cardinality((A \ B) \cap C)
   BY <1>1, FS_Union
<1>5. Cardinality((A \ B) \cap C) = 0
   BY FS_EmptySet
<1>6. /\ Cardinality(A) \in Nat /\ Cardinality(B) \in Nat /\ Cardinality(C) \in Nat
      /\ Cardinality(A \ B) \in Nat
   BY <1>1, FS_CardinalityType
<1>7. IsFiniteSet((A \ B) \cup C)
   BY <1>1, FS_Union
<1> QED
   BY <1>2, <1>3, <1>4, <1>5, <1>6, <1>7

\* Events of a load count what is dirty now and was not before.
LEMMA EventsCount ==
  ASSUME NEW prev \in Tables(Items), NEW is \in Tables(Items), Dirty(prev) \subseteq Dirty(is)
  PROVE  Queued(Events(prev, is)) = Cardinality(Dirty(is)) - Cardinality(Dirty(prev))
<1> DEFINE added == Dirty(is) \ DOMAIN prev
           requeued == {r \in Dirty(is) \cap DOMAIN prev : prev[r].dirty = {}}
<1>1. IsFiniteSet(Dirty(is)) /\ added \in SUBSET Dirty(is) /\ requeued \in SUBSET Dirty(is)
   BY DirtyFinite
<1>2. /\ IsFiniteSet(added) /\ IsFiniteSet(requeued)
      /\ Cardinality(added) \in Nat /\ Cardinality(requeued) \in Nat
   BY <1>1, FS_Subset, FS_CardinalityType
<1>3. added \cup requeued = Dirty(is) \ Dirty(prev) /\ added \cap requeued = {}
   BY DEF Dirty
<1>4. Dirty(is) \cap Dirty(prev) = Dirty(prev)
   OBVIOUS
<1>5. Cardinality(Dirty(is) \ Dirty(prev)) = Cardinality(Dirty(is)) - Cardinality(Dirty(prev))
   BY <1>1, <1>4, FS_Difference
<1>6. Queued(Events(prev, is)) = Cardinality(added) + Cardinality(requeued)
  <2>1. /\ Events(prev, is).added = Cardinality(added)
        /\ Events(prev, is).requeued = Cardinality(requeued)
        /\ Events(prev, is).completed = 0
     BY DEF Events, NoMetrics
  <2> HIDE DEF added, requeued
  <2> QED
     BY <1>2, <2>1 DEF Queued
<1> HIDE DEF added, requeued
<1>7. Cardinality(added \cup requeued) = Cardinality(added) + Cardinality(requeued)
  <2>1. Cardinality(added \cup requeued)
           = Cardinality(added) + Cardinality(requeued) - Cardinality(added \cap requeued)
     BY <1>2, FS_Union
  <2>2. Cardinality(added \cap requeued) = 0
     BY <1>3, FS_EmptySet
  <2> QED
     BY <1>2, <2>1, <2>2
<1> QED
   BY <1>3, <1>5, <1>6, <1>7

\* What the table would be, and what is counted in it.
LEMMA AfterTable ==
  ASSUME NEW is \in Tables(Items), NEW run \in Runs
  PROVE  /\ After(is, run) \in Tables(Items)
         /\ DOMAIN After(is, run) = DOMAIN is \cup DOMAIN run.items
         /\ \A r \in DOMAIN run.items : After(is, run)[r] = run.items[r]
         /\ \A r \in DOMAIN is \ DOMAIN run.items : After(is, run)[r] = is[r]
<1> DEFINE D == DOMAIN is \cup DOMAIN run.items
           value(r) == IF r \in DOMAIN run.items THEN run.items[r] ELSE is[r]
<1>1. After(is, run) = [r \in D |-> value(r)]
   BY DEF After
<1>2. run.items \in Tables(Items)
   BY DEF Runs
<1>3. D \in SUBSET Reports /\ \A r \in D : value(r) \in Items
   BY <1>2, TableOf
<1>4. After(is, run) \in Tables(Items)
  <2> HIDE DEF D, value
  <2>1. After(is, run) \in [D -> Items]
     BY <1>1, <1>3
  <2> QED
     BY <1>3, <2>1, IsTable
<1> QED
   BY <1>1, <1>4

LEMMA AfterCounts ==
  ASSUME NEW is \in Tables(Items), NEW run \in Runs,
         DOMAIN run.prev = DOMAIN run.items \cap DOMAIN is,
         \A r \in DOMAIN run.prev : is[r] = run.prev[r]
  PROVE  /\ Cardinality(Dirty(After(is, run)))
              = Cardinality(Dirty(is)) - Cardinality(Dirty(run.prev)) + Cardinality(Dirty(run.items))
         /\ Cardinality(Unpublished(After(is, run)))
              = Cardinality(Unpublished(is)) - Cardinality(Unpublished(run.prev))
                   + Cardinality(Unpublished(run.items))
<1> DEFINE new == After(is, run)
<1>1. run.items \in Tables(Items) /\ run.prev \in Tables(Items) /\ new \in Tables(Items)
   BY AfterTable DEF Runs
<1>2. /\ IsFiniteSet(Dirty(is)) /\ IsFiniteSet(Dirty(run.items))
      /\ IsFiniteSet(Unpublished(is)) /\ IsFiniteSet(Unpublished(run.items))
   BY <1>1, DirtyFinite
<1>3. /\ DOMAIN new = DOMAIN is \cup DOMAIN run.items
      /\ \A r \in DOMAIN run.items : new[r] = run.items[r]
      /\ \A r \in DOMAIN is \ DOMAIN run.items : new[r] = is[r]
   BY AfterTable
<1> HIDE DEF new
<1>4. /\ Dirty(run.prev) \in SUBSET Dirty(is)
      /\ Dirty(new) = (Dirty(is) \ Dirty(run.prev)) \cup Dirty(run.items)
      /\ (Dirty(is) \ Dirty(run.prev)) \cap Dirty(run.items) = {}
   BY <1>3 DEF Dirty
<1>5. /\ Unpublished(run.prev) \in SUBSET Unpublished(is)
      /\ Unpublished(new) = (Unpublished(is) \ Unpublished(run.prev)) \cup Unpublished(run.items)
      /\ (Unpublished(is) \ Unpublished(run.prev)) \cap Unpublished(run.items) = {}
   BY <1>3 DEF Unpublished
<1>6. Cardinality(Dirty(new))
         = Cardinality(Dirty(is)) - Cardinality(Dirty(run.prev)) + Cardinality(Dirty(run.items))
   BY <1>2, <1>4, Exchange
<1>7. Cardinality(Unpublished(new))
         = Cardinality(Unpublished(is)) - Cardinality(Unpublished(run.prev))
              + Cardinality(Unpublished(run.items))
   BY <1>2, <1>5, Exchange
<1> QED
   BY <1>6, <1>7 DEF new

\* Loading more items adds the same to both sides.
LEMMA WidenedCount ==
  ASSUME TypeOK, NEW is \in Tables(Items), NEW extra \in SUBSET (DOMAIN items),
         extra \cap DOMAIN is = {}
  PROVE  Cardinality(Dirty(Widened(is, extra)))
           = Cardinality(Dirty(is)) + Cardinality({a \in extra : items[a].dirty # {}})
<1> DEFINE more == {a \in extra : items[a].dirty # {}}
           new == Widened(is, extra)
<1>1. IsFiniteSet(Dirty(is)) /\ Cardinality(Dirty(is)) \in Nat
   BY DirtyFinite
<1>2. IsFiniteSet(more) /\ Cardinality(more) \in Nat
  <2>1. more \in SUBSET Reports
     BY TableOf DEF TypeOK
  <2> HIDE DEF more
  <2> QED
     BY <2>1, ReportsAssumption, FS_Subset, FS_CardinalityType
<1>3. /\ DOMAIN new = DOMAIN is \cup extra
      /\ \A a \in extra : new[a] = items[a]
      /\ \A a \in DOMAIN is \ extra : new[a] = is[a]
   BY WidenedFacts
<1> HIDE DEF new
<1>4. Dirty(new) = Dirty(is) \cup more /\ Dirty(is) \cap more = {}
   BY <1>3 DEF Dirty
<1> HIDE DEF more
<1>5. Cardinality(Dirty(is) \cup more) = Cardinality(Dirty(is)) + Cardinality(more)
  <2>1. Cardinality(Dirty(is) \cup more)
           = Cardinality(Dirty(is)) + Cardinality(more) - Cardinality(Dirty(is) \cap more)
     BY <1>1, <1>2, FS_Union
  <2>2. Cardinality(Dirty(is) \cap more) = 0
     BY <1>4, FS_EmptySet
  <2> QED
     BY <1>1, <1>2, <2>1, <2>2
<1> QED
   BY <1>4, <1>5 DEF more, new

-----------------------------------------------------------------------------
\* Steps that leave the index alone.
Moves ==
    /\ rev' >= rev /\ UNCHANGED <<meta, items>>
    /\ Newer(rev, journal, reports, sources, journal', reports', sources')
    /\ Numbered'

LEMMA MovesCommitted ==
  ASSUME TypeOK, TypeOK', Committed, Moves
  PROVE  Committed'
<1>1. /\ journal \in [Scopes -> Nat] /\ journal' \in [Scopes -> Nat] /\ rev \in Nat /\ rev' \in Nat
      /\ meta.checkpoint \in Nat /\ meta.checkpoint <= rev /\ items \in Tables(Items)
   BY DEF TypeOK, Metas, Committed
<1>2. Sound(items, meta.checkpoint, meta.config, journal, reports, sources)
   BY DEF Committed
<1>3. Newer(rev, journal, reports, sources, journal', reports', sources')
   BY DEF Moves
<1>4. Sound(items, meta.checkpoint, meta.config, journal', reports', sources')
   BY <1>1, <1>2, <1>3, NewerSound
<1>5. meta' = meta /\ items' = items /\ rev' >= rev
   BY DEF Moves
<1>6. meta.checkpoint <= rev'
   BY <1>1, <1>5
<1> QED
   BY <1>4, <1>5, <1>6 DEF Committed

\* A publisher's run is unaffected by what others do.
LEMMA MovesHolds ==
  ASSUME TypeOK, TypeOK', Moves, NEW q \in Publishers, Holds(q), pub'[q] = pub[q]
  PROVE  Holds(q)'
<1> DEFINE run == pub[q]
<1>0. run' = run
   OBVIOUS
<1>1. /\ journal \in [Scopes -> Nat] /\ journal' \in [Scopes -> Nat] /\ rev \in Nat /\ rev' \in Nat
      /\ run \in Runs /\ run.upper \in Nat /\ run.items \in Tables(Items) /\ items \in Tables(Items)
   BY DEF TypeOK, Runs
<1>2. meta' = meta /\ items' = items /\ rev' >= rev
   BY DEF Moves
<1>3. Newer(rev, journal, reports, sources, journal', reports', sources')
   BY DEF Moves
<1>4. CASE run.step = "load"
  <2>1. run.upper \in 1 .. rev' /\ meta'.checkpoint <= run.upper /\ run.item = Nobody
     BY <1>1, <1>2, <1>4 DEF Holds
  <2>2. run.step \notin Loaded
     BY <1>4 DEF Loaded
  <2> QED
     BY <2>1, <2>2 DEF Holds
<1>5. CASE run.step \in Loaded
  <2>1. run.step # "load"
     BY <1>5 DEF Loaded
  <2>2. /\ Based(run) \/ Saved(run)
        /\ Bounds(run) /\ Batched(run) /\ Accounts(q, run)
        /\ run.step \in {"next", "save"} => run.item = Nobody
        /\ run.item # Nobody => Making(run)
        /\ Sound(After(items, run), run.upper, run.config, journal, reports, sources)
     BY <1>5 DEF Holds
  <2>3. (Based(run) \/ Saved(run))'
     BY <1>2, <2>2 DEF Based, Saved
  <2>4. Bounds(run)'
     BY <1>1, <1>2, <2>2 DEF Bounds
  <2>5. Batched(run)' /\ Accounts(q, run)'
     BY <2>2 DEF Batched, Accounts
  <2>6. run.upper <= rev
     BY <1>1, <2>2 DEF Bounds
  <2>7. Sound(After(items, run), run.upper, run.config, journal', reports', sources')
    <3>1. After(items, run) \in Tables(Items)
       BY <1>1, AfterTable
    <3> QED
       BY <1>1, <1>3, <2>2, <2>6, <3>1, NewerSound
  <2>8. ASSUME run.item # Nobody
        PROVE  Making(run)'
    <3>1. Making(run) /\ run.item \in Reports
       BY <1>1, <2>2, <2>8 DEF Runs
    <3>2. \A body, exempt :
            /\ Fresh(body, run.item, run.upper, exempt, journal, reports, sources) =>
                  Fresh(body, run.item, run.upper, exempt, journal', reports', sources')
            /\ StoredVolume(run.item, run.upper, exempt, journal, reports, sources) =>
                  StoredVolume(run.item, run.upper, exempt, journal', reports', sources')
            /\ StoredGas(run.item, run.upper, exempt, journal, reports, sources) =>
                  StoredGas(run.item, run.upper, exempt, journal', reports', sources')
       BY <1>1, <1>3, <2>6, <3>1, NewerFresh
    <3>3. journal'[<<"render", run.item>>] <= run.upper =>
             /\ journal[<<"render", run.item>>] <= run.upper
             /\ sources'.mark[run.item] = sources.mark[run.item]
      <4>1. <<"render", run.item>> \in Scopes
         BY <3>1, ScopeNames
      <4>2. /\ journal'[<<"render", run.item>>] = journal[<<"render", run.item>>]
                  \/ journal'[<<"render", run.item>>] > rev
            /\ journal'[<<"render", run.item>>] <= rev =>
                  sources'.mark[run.item] = sources.mark[run.item]
         BY <1>3, <3>1, <4>1 DEF Newer
      <4> QED
         BY <1>1, <2>6, <4>1, <4>2
    <3> HIDE DEF run
    <3> QED
       BY <1>0, <3>1, <3>2, <3>3 DEF Making, Exempt
  <2> HIDE DEF run
  <2>9. Sound(After(items, run), run.upper, run.config, journal, reports, sources)'
     BY <1>0, <1>2, <2>7 DEF After
  <2> QED
     BY <2>1, <2>2, <2>3, <2>4, <2>5, <2>8, <2>9 DEF Holds, run
<1>6. CASE run.step # "load" /\ run.step \notin Loaded
   BY <1>6 DEF Holds
<1> QED
   BY <1>4, <1>5, <1>6

\* Nothing at all changes in the world.
LEMMA StillMoves ==
  ASSUME TypeOK, Numbered, UNCHANGED world, UNCHANGED stored
  PROVE  Moves
<1>1. rev' = rev /\ sources' = sources /\ reports' = reports /\ journal' = journal
   BY DEF world
<1>2. meta' = meta /\ items' = items
   BY DEF stored
<1>3. rev \in Nat
   BY DEF TypeOK
<1>4. Newer(rev, journal, reports, sources, journal', reports', sources')
   BY <1>1 DEF Newer
<1>5. Numbered'
   BY <1>1 DEF Numbered
<1> QED
   BY <1>1, <1>2, <1>3, <1>4, <1>5 DEF Moves

\* The gas of a report is refreshed from the sources there are.
LEMMA RefreshMoves ==
  ASSUME TypeOK, Numbered, NEW p \in Publishers, Refresh(p)
  PROVE  Moves
<1> DEFINE run == pub[p]
           r == run.item
<1>1. /\ rev' = rev /\ sources' = sources /\ journal' = journal /\ meta' = meta /\ items' = items
      /\ run.step = "refresh" /\ run.snap = GasInputs(sources)
      /\ reports' = IF Persisted(run) THEN [reports EXCEPT ![r] = NewBody(run)] ELSE reports
   BY DEF Refresh, stored
<1>2. /\ rev \in Nat /\ run.items \in Tables(Items) /\ InHand(run)
      /\ reports \in [Reports -> Bodies]
   BY DEF TypeOK, Runs
<1>3. r \in Reports
   BY <1>1, <1>2, TableOf DEF InHand
<1>4. ASSUME NEW x \in Reports
      PROVE  /\ reports'[x].ver = reports[x].ver
             /\ CurrentVolume(reports[x].gas, x, sources) => CurrentVolume(reports'[x].gas, x, sources)
             /\ Current(reports[x].gas, x, sources) => Current(reports'[x].gas, x, sources)
  <2>1. CASE ~Persisted(run) \/ x # r
     BY <1>1, <1>2, <2>1
  <2>2. CASE Persisted(run) /\ x = r
    <3> DEFINE flags == run.items[r].dirty
               gas == IF "gas" \in flags THEN GasOf(run.snap, r)
                      ELSE [reports[r].gas EXCEPT !.tariff = run.snap.tariff]
    <3>1. reports[r] = run.report /\ reports[r] \in Bodies
       BY <1>2, <1>3, <2>2 DEF Persisted
    <3>2. reports'[x] = NewBody(run)
       BY <1>1, <1>2, <1>3, <2>2
    <3>3. NewBody(run) = [reports[r] EXCEPT !.gas = gas, !.compared = Comparison(r, reports)]
       BY <3>1 DEF NewBody, Refreshed
    <3>4. reports'[x].ver = reports[x].ver /\ reports'[x].gas = gas
       BY <2>2, <3>1, <3>2, <3>3 DEF Bodies
    <3>5. reports[r].gas \in Gases
       BY <3>1 DEF Bodies
    <3>6. CurrentVolume(reports[r].gas, r, sources) => CurrentVolume(gas, r, sources)
       BY <1>1, <3>5 DEF CurrentVolume, GasOf, GasInputs, Gases
    <3>7. Current(reports[r].gas, r, sources) => Current(gas, r, sources)
       BY <1>1, <3>5 DEF Current, GasOf, GasInputs, Gases
    <3> QED
       BY <2>2, <3>4, <3>6, <3>7
  <2> QED
     BY <2>1, <2>2
<1>5. Newer(rev, journal, reports, sources, journal', reports', sources')
   BY <1>1, <1>4 DEF Newer
<1>6. Numbered'
   BY <1>1 DEF Numbered
<1> QED
   BY <1>1, <1>2, <1>5, <1>6 DEF Moves

\* Every change has a row that is newer.
LEMMA ChangeMoves ==
  ASSUME TypeOK, TypeOK', Numbered, Change
  PROVE  Moves
<1>1. /\ rev \in Nat /\ journal \in [Scopes -> Nat] /\ reports \in [Reports -> Bodies]
      /\ sources \in Sources
   BY DEF TypeOK
<1>2. ASSUME NEW scope \in Scopes, Journalled(scope)
      PROVE  /\ rev' = rev + 1 /\ rev' > rev /\ UNCHANGED <<meta, items>>
             /\ journal'[scope] = rev + 1 /\ \A s \in Scopes \ {scope} : journal'[s] = journal[s]
             /\ \A s \in Scopes : journal'[s] = journal[s] \/ journal'[s] > rev
             /\ \A s \in Scopes : journal'[s] <= rev'
   BY <1>1, <1>2 DEF Journalled, Numbered
<1>3. ASSUME NEW r \in Reports, SaveReport(r)
      PROVE  Moves
  <2> DEFINE body == [ver |-> rev + 1, gas |-> GasOf(GasInputs(sources), r),
                      compared |-> Comparison(r, reports)]
             scope == <<"report", r>>
  <2>1. sources' = sources /\ reports' = [reports EXCEPT ![r] = body]
     BY <1>3 DEF SaveReport
  <2>2. scope \in Scopes /\ Journalled(scope)
     BY <1>3, ScopeNames DEF SaveReport
  <2>3. \A x \in Reports \ {r} : reports'[x] = reports[x]
     BY <1>1, <2>1
  <2>4. reports'[r].gas = GasOf(GasInputs(sources), r)
     BY <1>1, <2>1
  <2>5. CurrentVolume(reports'[r].gas, r, sources) /\ Current(reports'[r].gas, r, sources)
     BY <2>4 DEF CurrentVolume, Current, GasOf, GasInputs
  <2>6. journal'[scope] > rev
     BY <1>1, <1>2, <2>2
  <2>7. Newer(rev, journal, reports, sources, journal', reports', sources')
    <3>1. \A s \in Scopes : journal'[s] = journal[s] \/ journal'[s] > rev
       BY <1>2, <2>2
    <3>2. ~(journal'[scope] <= rev)
       BY <1>1, <1>2, <2>2
    <3> HIDE DEF body
    <3> QED
       BY <2>1, <2>3, <2>5, <3>1, <3>2 DEF Newer
  <2>8. Numbered'
    <3>1. \A x \in Reports : <<"telemetry-gas", x>> \in Scopes \ {scope}
       BY ScopeNames
    <3> QED
       BY <1>1, <1>2, <2>1, <2>2, <3>1 DEF Numbered, Sources
  <2> QED
     BY <1>1, <1>2, <2>2, <2>7, <2>8 DEF Moves
<1>4. ASSUME NEW r \in Reports, Feedback(r)
      PROVE  Moves
  <2> DEFINE scope == <<"render", r>>
  <2>1. sources' = [sources EXCEPT !.mark[r] = rev + 1] /\ reports' = reports
     BY <1>4 DEF Feedback
  <2>2. scope \in Scopes /\ Journalled(scope)
     BY <1>4, ScopeNames DEF Feedback
  <2>3. /\ \A x \in Reports \ {r} : sources'.mark[x] = sources.mark[x]
        /\ sources'.facts = sources.facts /\ sources'.model = sources.model
        /\ sources'.tariff = sources.tariff
     BY <1>1, <2>1 DEF Sources
  <2>4. ~(journal'[scope] <= rev)
     BY <1>1, <1>2, <2>2
  <2>5. Newer(rev, journal, reports, sources, journal', reports', sources')
    <3>1. \A s \in Scopes : journal'[s] = journal[s] \/ journal'[s] > rev
       BY <1>2, <2>2
    <3> QED
       BY <2>1, <2>3, <2>4, <3>1 DEF Newer, CurrentVolume, Current, GasOf, GasInputs
  <2>6. Numbered'
    <3>1. \A x \in Reports : <<"telemetry-gas", x>> \in Scopes \ {scope}
       BY ScopeNames
    <3> QED
       BY <1>1, <1>2, <2>2, <2>3, <3>1 DEF Numbered, Sources
  <2> QED
     BY <1>1, <1>2, <2>2, <2>5, <2>6 DEF Moves
<1>5. ASSUME NEW r \in Reports, NEW calibrates \in BOOLEAN, Telemetry(r, calibrates)
      PROVE  Moves
  <2> DEFINE scope == <<IF calibrates THEN "telemetry-gas" ELSE "telemetry", r>>
  <2>1. /\ sources' = [sources EXCEPT !.facts[r] = rev + 1,
                                      !.model = IF calibrates THEN rev + 1 ELSE @]
        /\ reports' = reports
     BY <1>5 DEF Telemetry
  <2>2. scope \in Scopes /\ Journalled(scope)
     BY <1>5, ScopeNames DEF Telemetry
  <2>3. /\ \A x \in Reports \ {r} : sources'.facts[x] = sources.facts[x]
        /\ sources'.mark = sources.mark /\ sources'.tariff = sources.tariff
        /\ sources'.model = IF calibrates THEN rev + 1 ELSE sources.model
     BY <1>1, <2>1 DEF Sources
  <2>4. ~(journal'[scope] <= rev)
     BY <1>1, <1>2, <2>2
  <2>5. Newer(rev, journal, reports, sources, journal', reports', sources')
    <3>1. \A s \in Scopes : journal'[s] = journal[s] \/ journal'[s] > rev
       BY <1>2, <2>2
    <3>2. /\ journal'[<<"telemetry", r>>] <= rev /\ journal'[<<"telemetry-gas", r>>] <= rev => FALSE
          /\ (\A b \in Reports : journal'[<<"telemetry-gas", b>>] <= rev) =>
                sources'.model = sources.model
       BY <2>3, <2>4
    <3>3. ASSUME NEW x \in Reports
          PROVE  /\ journal'[<<"telemetry", x>>] <= rev /\ journal'[<<"telemetry-gas", x>>] <= rev =>
                       sources'.facts[x] = sources.facts[x]
                 /\ sources'.facts[x] = sources.facts[x] /\ sources'.model = sources.model =>
                    /\ CurrentVolume(reports[x].gas, x, sources) =>
                          CurrentVolume(reports'[x].gas, x, sources')
                    /\ sources'.tariff = sources.tariff /\ Current(reports[x].gas, x, sources) =>
                          Current(reports'[x].gas, x, sources')
      <4>1. journal'[<<"telemetry", x>>] <= rev /\ journal'[<<"telemetry-gas", x>>] <= rev =>
               sources'.facts[x] = sources.facts[x]
         BY <2>3, <3>2
      <4> QED
         BY <2>1, <4>1 DEF CurrentVolume, Current, GasOf, GasInputs
    <3> QED
       BY <2>1, <2>3, <3>1, <3>2, <3>3 DEF Newer
  <2>6. Numbered'
    <3>1. CASE calibrates
      <4>1. sources'.model = rev' /\ rev' \in Nat \ {0}
         BY <1>1, <1>2, <2>2, <2>3, <3>1
      <4>2. \A s \in Scopes : journal'[s] <= rev'
         BY <1>2, <2>2
      <4>3. \A x \in Reports : journal'[<<"telemetry-gas", x>>] <= rev'
         BY <4>2, ScopeNames
      <4> QED
         BY <4>1, <4>2, <4>3 DEF Numbered
    <3>2. CASE ~calibrates
      <4>1. \A x \in Reports : <<"telemetry-gas", x>> \in Scopes \ {scope}
         BY <3>2, ScopeNames
      <4> QED
         BY <1>1, <1>2, <2>2, <2>3, <3>2, <4>1 DEF Numbered, Sources
    <3> QED
       BY <3>1, <3>2
  <2> QED
     BY <1>1, <1>2, <2>2, <2>5, <2>6 DEF Moves
<1>6. ASSUME Tariff
      PROVE  Moves
  <2> DEFINE scope == <<"tariff", Nobody>>
  <2>1. sources' = [sources EXCEPT !.tariff = rev + 1] /\ reports' = reports
     BY <1>6 DEF Tariff
  <2>2. scope \in Scopes /\ Journalled(scope)
     BY <1>6, ScopeNames DEF Tariff
  <2>3. sources'.mark = sources.mark /\ sources'.facts = sources.facts /\ sources'.model = sources.model
     BY <1>1, <2>1 DEF Sources
  <2>4. ~(journal'[scope] <= rev)
     BY <1>1, <1>2, <2>2
  <2>5. Newer(rev, journal, reports, sources, journal', reports', sources')
    <3>1. \A s \in Scopes : journal'[s] = journal[s] \/ journal'[s] > rev
       BY <1>2, <2>2
    <3> QED
       BY <2>1, <2>3, <2>4, <3>1 DEF Newer, CurrentVolume, Current, GasOf, GasInputs
  <2>6. Numbered'
    <3>1. \A x \in Reports : <<"telemetry-gas", x>> \in Scopes \ {scope}
       BY ScopeNames
    <3> QED
       BY <1>1, <1>2, <2>2, <2>3, <3>1 DEF Numbered, Sources
  <2> QED
     BY <1>1, <1>2, <2>2, <2>5, <2>6 DEF Moves
<1>7. ASSUME Configure
      PROVE  Moves
  <2>1. /\ sources' = [sources EXCEPT !.config = @ + 1] /\ reports' = reports /\ journal' = journal
        /\ rev' = rev /\ meta' = meta /\ items' = items
     BY <1>7 DEF Configure
  <2>2. /\ sources'.mark = sources.mark /\ sources'.facts = sources.facts
        /\ sources'.model = sources.model /\ sources'.tariff = sources.tariff
     BY <1>1, <2>1 DEF Sources
  <2>3. Newer(rev, journal, reports, sources, journal', reports', sources')
     BY <2>1, <2>2 DEF Newer, CurrentVolume, Current, GasOf, GasInputs
  <2>4. Numbered'
     BY <2>1, <2>2 DEF Numbered
  <2> QED
     BY <1>1, <2>1, <2>3, <2>4 DEF Moves
<1> QED
   BY <1>3, <1>4, <1>5, <1>6, <1>7 DEF Change

-----------------------------------------------------------------------------
(* The archive as it is found.                                             *)

LEMMA InitInv ==
  ASSUME Init
  PROVE  Inv
<1>1. TypeOK
   BY InitType
<1>2. Numbered
  <2>1. rev = 1 /\ sources.model = 1 /\ \A s \in Scopes : journal[s] = 0 \/ journal[s] = 1
     BY DEF Init
  <2>2. \A s \in Scopes : journal[s] <= 1
     BY <2>1
  <2>3. \A r \in Reports : journal[<<"telemetry-gas", r>>] <= 1
     BY <2>2, ScopeNames
  <2> QED
     BY <2>1, <2>2, <2>3 DEF Numbered
<1>3. lease \notin Publishers
  <2>1. lease = Nobody
     BY DEF Init
  <2> QED
     BY <2>1, PublishersAssumption
<1>4. CASE NeverPublished
  <2>1. DOMAIN items = {} /\ meta = NoMeta
     BY <1>4 DEF NeverPublished
  <2>2. Dirty(items) = {} /\ Unpublished(items) = {}
     BY <2>1 DEF Dirty, Unpublished
  <2>3. Cardinality(Dirty(items)) = 0 /\ Cardinality(Unpublished(items)) = 0
     BY <2>2, FS_EmptySet
  <2>4. Queued(meta.metrics) = 0 /\ meta.checkpoint = 0 /\ meta.model = 0 /\ meta.manifest = 0
        /\ meta.unpublished = 0
     BY <2>1 DEF NoMeta, NoMetrics, Queued
  <2>5. Sound(items, meta.checkpoint, meta.config, journal, reports, sources)
     BY <2>1 DEF Sound
  <2>6. rev = 1
     BY DEF Init
  <2>7. Committed
     BY <2>3, <2>4, <2>5, <2>6 DEF Committed
  <2> QED
     BY <1>1, <1>2, <1>3, <2>7 DEF Inv
<1>5. CASE AllUpToDate
  <2>1. /\ meta = [NoMeta EXCEPT !.checkpoint = 1, !.model = 1, !.config = 1, !.manifest = 1]
        /\ items = [r \in Reports |-> [dirty |-> {}, digest |-> FirstReport(r), etag |-> 1,
                                       shown |-> Page(FirstReport(r), 1, 1, FALSE)]]
     BY <1>5 DEF AllUpToDate
  <2>2. Dirty(items) = {} /\ Unpublished(items) = {} /\ DOMAIN items = Reports
    <3>1. DOMAIN items = Reports /\ \A r \in Reports : items[r].dirty = {} /\ items[r].etag = 1
       BY <2>1
    <3> QED
       BY <3>1 DEF Dirty, Unpublished, Published
  <2>3. Cardinality(Dirty(items)) = 0 /\ Cardinality(Unpublished(items)) = 0
     BY <2>2, FS_EmptySet
  <2>4. Queued(meta.metrics) = 0 /\ meta.checkpoint = 1 /\ meta.model = 1 /\ meta.manifest = 1
        /\ meta.unpublished = 0 /\ meta.config = 1
     BY <2>1 DEF NoMeta, NoMetrics, Queued
  <2>5. ASSUME NEW r \in Reports
        PROVE  Good(items[r], r, 1, 1, journal, reports, sources)
    <3>1. /\ items[r].dirty = {} /\ items[r].digest = FirstReport(r) /\ items[r].etag = 1
          /\ items[r].shown = Page(FirstReport(r), 1, 1, FALSE)
       BY <2>1
    <3>2. /\ items[r].shown.report = FirstReport(r) /\ items[r].shown.mark = 1
          /\ items[r].shown.config = 1
       BY <3>1 DEF Page
    <3>3. reports[r] = FirstReport(r) /\ sources.mark[r] = 1
       BY DEF Init
    <3>4. Current(FirstReport(r).gas, r, sources) /\ CurrentVolume(FirstReport(r).gas, r, sources)
       BY DEF Init, Current, CurrentVolume, GasOf, GasInputs, FirstReport
    <3>5. items[r].shown \in Pages
       BY <3>1, FirstTypes
    <3>6. Clean(items[r], r, 1, 1, journal, reports, sources)
       BY <3>1, <3>2, <3>3, <3>4 DEF Clean, Fresh
    <3>7. /\ StoredVolume(r, 1, items[r].shown.raced, journal, reports, sources)
          /\ StoredGas(r, 1, items[r].shown.raced, journal, reports, sources)
       BY <3>3, <3>4 DEF StoredVolume, StoredGas
    <3>8. Published(items[r])
       BY <3>1 DEF Published
    <3> QED
       BY <3>5, <3>6, <3>7, <3>8 DEF Good
  <2>6. Sound(items, meta.checkpoint, meta.config, journal, reports, sources)
     BY <2>2, <2>4, <2>5 DEF Sound
  <2>7. rev = 1
     BY DEF Init
  <2>8. Committed
     BY <2>2, <2>3, <2>4, <2>6, <2>7 DEF Committed
  <2> QED
     BY <1>1, <1>2, <1>3, <2>8 DEF Inv
<1> QED
   BY <1>4, <1>5 DEF Init

-----------------------------------------------------------------------------
(* The steps of the holder of the lease.                                   *)

LEMMA BeginHolds ==
  ASSUME TypeOK, Committed, NEW p \in Publishers, Begin(p)
  PROVE  Holds(p)'
<1> DEFINE next == [Idle EXCEPT !.step = IF NothingToDo THEN "index" ELSE "load",
                                !.upper = rev, !.config = sources.config]
<1>1. pub' = [pub EXCEPT ![p] = next] /\ rev' = rev /\ meta' = meta
   BY DEF Begin, Set, world, stored
<1>2. pub'[p] = next
   BY <1>1 DEF TypeOK
<1>3. next.step \in {"index", "load"} /\ next.upper = rev /\ next.item = Nobody
   BY DEF Idle
<1>4. rev \in Nat \ {0} /\ meta.checkpoint <= rev
   BY DEF TypeOK, Committed
<1> HIDE DEF next
<1>5. next.step \notin Loaded
   BY <1>3 DEF Loaded
<1>6. next.upper \in 1 .. rev' /\ meta'.checkpoint <= next.upper
   BY <1>1, <1>3, <1>4
<1> QED
   BY <1>2, <1>3, <1>5, <1>6 DEF Holds

\* An item good for c0 is good for a later c, once it is flagged with what
\* has changed in between.
LEMMA Upgrade ==
  ASSUME NEW jour, NEW reps, NEW src, NEW c0, NEW c, NEW cfg0, NEW cfg, NEW r,
         NEW i, NEW j, NEW F, Good(i, r, c0, cfg0, jour, reps, src),
         j.dirty = i.dirty \cup F, j.etag = i.etag, j.shown = i.shown,
         F = {} => j.digest = i.digest,
         "gas" \notin F => /\ Quiet(r, c, jour) => Quiet(r, c0, jour)
                           /\ "cost" \notin F /\ Unpriced(c, jour) => Unpriced(c0, jour),
         F = {} => /\ cfg = cfg0
                   /\ jour[<<"render", r>>] <= c => jour[<<"render", r>>] <= c0
                   /\ jour[<<"report", r>>] <= c =>
                         jour[<<"report", r>>] <= c0 \/ i.digest = reps[r]
  PROVE  Good(j, r, c, cfg, jour, reps, src)
<1>1. ASSUME "gas" \notin j.dirty
      PROVE  /\ Published(j) /\ j.shown \in Pages
             /\ StoredVolume(r, c, j.shown.raced, jour, reps, src)
             /\ "cost" \notin j.dirty => StoredGas(r, c, j.shown.raced, jour, reps, src)
  <2>1. "gas" \notin i.dirty /\ "gas" \notin F
     BY <1>1
  <2>2. /\ Published(i) /\ i.shown \in Pages
        /\ StoredVolume(r, c0, i.shown.raced, jour, reps, src)
        /\ "cost" \notin i.dirty => StoredGas(r, c0, i.shown.raced, jour, reps, src)
     BY <2>1 DEF Good
  <2>3. Published(j)
     BY <2>2 DEF Published
  <2>4. StoredVolume(r, c, j.shown.raced, jour, reps, src)
     BY <2>1, <2>2 DEF StoredVolume
  <2>5. "cost" \notin j.dirty => StoredGas(r, c, j.shown.raced, jour, reps, src)
     BY <2>1, <2>2 DEF StoredGas
  <2> QED
     BY <2>2, <2>3, <2>4, <2>5
<1>2. ASSUME j.dirty = {}
      PROVE  Clean(j, r, c, cfg, jour, reps, src)
  <2>1. i.dirty = {} /\ F = {}
     BY <1>2
  <2>2. Clean(i, r, c0, cfg0, jour, reps, src)
     BY <2>1 DEF Good
  <2>3. /\ cfg = cfg0 /\ j.digest = i.digest
        /\ jour[<<"render", r>>] <= c => jour[<<"render", r>>] <= c0
        /\ jour[<<"report", r>>] <= c => jour[<<"report", r>>] <= c0 \/ i.digest = reps[r]
        /\ Quiet(r, c, jour) => Quiet(r, c0, jour)
        /\ Unpriced(c, jour) => Unpriced(c0, jour)
     BY <2>1
  <2>4. Fresh(i.shown.report, r, c, i.shown.raced, jour, reps, src)
     BY <2>2, <2>3 DEF Clean, Fresh
  <2> QED
     BY <2>2, <2>3, <2>4 DEF Clean
<1> QED
   BY <1>1, <1>2 DEF Good

LEMMA PartialFacts ==
  ASSUME TypeOK, NEW run \in Runs, Partial(run)
  PROVE  /\ meta.manifest # 0 /\ meta.config = run.config
         /\ ~Recovering(run) /\ NewsOf(run) = {}
         /\ Changes(run) = Telemetric(Changes(run)) /\ ~Broad(run)
<1>1. run.upper \in Nat /\ meta.checkpoint \in Nat /\ journal \in [Scopes -> Nat]
   BY DEF TypeOK, Runs, Metas
<1>2. CASE run.upper = meta.checkpoint
  <2>1. Changes(run) = {}
     BY <1>1, <1>2 DEF Changes, Since
  <2> QED
     BY <2>1 DEF Partial, ManifestCurrent, Recovering, NewsOf, Telemetric, Broad, Recalibrated, Calibrating
<1>3. CASE Hourly(run)
   BY <1>3 DEF Hourly, Partial, ManifestCurrent, Recovering, NewsOf
<1> QED
   BY <1>2, <1>3 DEF Partial

\* What a run that does not flag an item need not flag.
LEMMA NothingOwed ==
  ASSUME TypeOK, Numbered, Committed, NEW run \in Runs, NEW r \in DOMAIN items, NEW F,
         \/ r \in DOMAIN Known(run) /\ F = Required(run, r)
         \/ r \notin DOMAIN Known(run) /\ F = {},
         "gas" \notin F
  PROVE  /\ Quiet(r, run.upper, journal) => Quiet(r, meta.checkpoint, journal)
         /\ "cost" \notin F /\ Unpriced(run.upper, journal) => Unpriced(meta.checkpoint, journal)
         /\ F = {} =>
               /\ run.config = meta.config
               /\ journal[<<"render", r>>] <= run.upper => journal[<<"render", r>>] <= meta.checkpoint
               /\ journal[<<"report", r>>] <= run.upper =>
                     journal[<<"report", r>>] <= meta.checkpoint \/ items[r].digest = reports[r]
<1>1. /\ run.upper \in Nat /\ meta.checkpoint \in Nat /\ meta.model \in Nat
      /\ journal \in [Scopes -> Nat] /\ sources.model \in Nat
   BY DEF TypeOK, Runs, Metas, Sources
<1>2. r \in Reports
   BY TableOf DEF TypeOK
<1>3. ASSUME NEW s \in Scopes, s \notin Changes(run), journal[s] <= run.upper
      PROVE  journal[s] <= meta.checkpoint
   BY <1>1, <1>3 DEF Changes, Since
<1>4. ~Recovering(run)
  <2>1. Recovering(run) => r \in DOMAIN Known(run)
     BY <1>2, KnownFacts
  <2>2. Recovering(run) => "gas" \in Required(run, r)
     BY DEF Required, Renewed
  <2> QED
     BY <2>1, <2>2
<1>5. ASSUME r \notin DOMAIN Known(run)
      PROVE  Partial(run) /\ r \notin Affected(run)
   BY <1>4, <1>5, KnownFacts, StoredFacts
<1>6. ASSUME r \in DOMAIN Known(run)
      PROVE  /\ Needed(r, Changes(run), NewsOf(run), Broad(run)) \subseteq F
             /\ ~Renewed(run, r)
   BY <1>4, <1>6 DEF Required
<1>7. ~Broad(run)
  <2>1. Broad(run) => "gas" \in Needed(r, Changes(run), NewsOf(run), Broad(run))
     BY DEF Needed
  <2> QED
     BY <2>1, <1>5, <1>6, PartialFacts
<1>8. \A s \in Telemetric(Changes(run)) : ~Overlaps(r, s[2])
  <2>1. ASSUME NEW s \in Telemetric(Changes(run)), Overlaps(r, s[2])
        PROVE  "gas" \in Needed(r, Changes(run), NewsOf(run), Broad(run)) /\ r \in Affected(run)
     BY <2>1 DEF Needed, Affected, Telemetric
  <2> QED
     BY <2>1, <1>5, <1>6
<1>9. \A b \in Reports : <<"telemetry-gas", b>> \notin Changes(run)
  <2>1. SUFFICES ASSUME NEW b \in Reports, <<"telemetry-gas", b>> \in Changes(run)
                 PROVE  FALSE
     OBVIOUS
  <2>2. Recalibrated(run)
     BY <2>1 DEF Recalibrated, Calibrating
  <2>3. meta.model = sources.model
     BY <1>7, <2>2 DEF Broad
  <2>4. journal[<<"telemetry-gas", b>>] > meta.checkpoint
     BY <2>1 DEF Changes, Since
  <2>5. journal[<<"telemetry-gas", b>>] <= sources.model /\ meta.model <= meta.checkpoint
     BY <2>1 DEF Numbered, Committed
  <2>6. journal[<<"telemetry-gas", b>>] \in Nat
     BY <1>1, ScopeNames
  <2> QED
     BY <1>1, <2>3, <2>4, <2>5, <2>6
<1>10. <<"telemetry", r>> \notin Changes(run)
  <2> DEFINE s == <<"telemetry", r>>
  <2>1. s[1] \in TelemetryScopes /\ s[2] = r
     BY DEF TelemetryScopes
  <2>2. Overlaps(r, s[2])
     BY <2>1 DEF Overlaps
  <2>3. s \in Changes(run) => s \in Telemetric(Changes(run))
     BY <2>1 DEF Telemetric
  <2> HIDE DEF s
  <2>4. s \notin Changes(run)
     BY <2>2, <2>3, <1>8
  <2> QED
     BY <2>4 DEF s
<1>11. Quiet(r, run.upper, journal) => Quiet(r, meta.checkpoint, journal)
   BY <1>2, <1>3, <1>9, <1>10, ScopeNames DEF Quiet
<1>12. ASSUME NEW s \in Changes(run), s[1] \notin TelemetryScopes
       PROVE  r \in DOMAIN Known(run) /\ ~Partial(run)
  <2>1. Changes(run) # Telemetric(Changes(run))
     BY <1>12 DEF Telemetric
  <2> QED
     BY <2>1, <1>5, PartialFacts
<1>13. /\ <<"tariff", Nobody>>[1] \notin TelemetryScopes /\ <<"render", r>>[1] \notin TelemetryScopes
       /\ <<"report", r>>[1] \notin TelemetryScopes
   BY DEF TelemetryScopes
<1>14. ASSUME "cost" \notin F, Unpriced(run.upper, journal)
       PROVE  Unpriced(meta.checkpoint, journal)
  <2>1. <<"tariff", Nobody>> \notin Changes(run)
    <3>1. ASSUME <<"tariff", Nobody>> \in Changes(run)
          PROVE  "cost" \in Needed(r, Changes(run), NewsOf(run), Broad(run))
       BY <3>1 DEF Needed
    <3> QED
       BY <3>1, <1>6, <1>12, <1>13, <1>14
  <2> QED
     BY <1>3, <1>14, <2>1, ScopeNames DEF Unpriced
<1>15. ASSUME F = {}
       PROVE  run.config = meta.config
   BY <1>5, <1>6, PartialFacts DEF Renewed
<1>16. ASSUME F = {}, journal[<<"render", r>>] <= run.upper
       PROVE  journal[<<"render", r>>] <= meta.checkpoint
  <2>1. <<"render", r>> \notin Changes(run)
    <3>1. ASSUME <<"render", r>> \in Changes(run)
          PROVE  "render" \in Needed(r, Changes(run), NewsOf(run), Broad(run))
       BY <3>1 DEF Needed
    <3> QED
       BY <3>1, <1>6, <1>12, <1>13, <1>16
  <2> QED
     BY <1>2, <1>3, <1>16, <2>1, ScopeNames
<1>17. ASSUME F = {}, journal[<<"report", r>>] <= run.upper, items[r].digest # reports[r]
       PROVE  journal[<<"report", r>>] <= meta.checkpoint
  <2>1. <<"report", r>> \notin Changes(run)
    <3>1. ASSUME <<"report", r>> \in Changes(run)
          PROVE  FALSE
      <4>1. r \in DOMAIN Known(run) /\ ~Partial(run)
         BY <3>1, <1>12, <1>13
      <4>2. r \in NewsOf(run)
         BY <1>2, <1>4, <1>17, <3>1, <4>1 DEF NewsOf, News
      <4>3. "gas" \in Needed(r, Changes(run), NewsOf(run), Broad(run))
         BY <4>2 DEF Needed
      <4> QED
         BY <4>1, <4>3, <1>6
    <3> QED
       BY <3>1
  <2> QED
     BY <1>2, <1>3, <1>17, <2>1, ScopeNames
<1> QED
   BY <1>11, <1>14, <1>15, <1>16, <1>17

\* What is loaded is good up to upper, and so is what was left out.
LEMMA LoadedSound ==
  ASSUME TypeOK, Numbered, Committed, NEW run \in Runs, NEW next \in Runs,
         next.items = LoadedItems(run)
  PROVE  Sound(After(items, next), run.upper, run.config, journal, reports, sources)
<1> DEFINE new == After(items, next)
<1>1. /\ LoadedItems(run) \in Tables(Items) /\ DOMAIN LoadedItems(run) = DOMAIN Known(run)
      /\ items \in Tables(Items)
   BY LoadedFacts DEF TypeOK
<1>2. /\ DOMAIN new = DOMAIN items \cup DOMAIN Known(run)
      /\ \A r \in DOMAIN Known(run) : new[r] = LoadedItems(run)[r]
      /\ \A r \in DOMAIN items \ DOMAIN Known(run) : new[r] = items[r]
  <2>1. /\ DOMAIN new = DOMAIN items \cup DOMAIN next.items
        /\ \A r \in DOMAIN next.items : new[r] = next.items[r]
        /\ \A r \in DOMAIN items \ DOMAIN next.items : new[r] = items[r]
     BY <1>1, AfterTable
  <2> HIDE DEF new
  <2> QED
     BY <1>1, <2>1
<1> HIDE DEF new
<1>3. SUFFICES ASSUME NEW r \in DOMAIN new
               PROVE  Good(new[r], r, run.upper, run.config, journal, reports, sources)
   BY DEF Sound, new
<1>4. r \in Reports
  <2>1. DOMAIN items \subseteq Reports /\ DOMAIN Known(run) \subseteq Reports
     BY <1>1, TableOf, KnownFacts
  <2> QED
     BY <1>2, <2>1
<1>5. CASE r \in DOMAIN Known(run) /\ "gas" \in Required(run, r)
  <2>1. "gas" \in new[r].dirty
     BY <1>2, <1>5, LoadedFacts
  <2> QED
     BY <2>1 DEF Good
<1>6. CASE r \in DOMAIN Known(run) /\ "gas" \notin Required(run, r)
  <2>1. ~Recovering(run)
     BY <1>6 DEF Required, Renewed
  <2>2. r \notin NewsOf(run) /\ Needed(r, Changes(run), NewsOf(run), Broad(run)) \subseteq Required(run, r)
     BY <1>6, <2>1 DEF Required, Needed
  <2>3. r \in DOMAIN Stored(run) /\ r \in DOMAIN items /\ Known(run)[r] = items[r]
     BY <1>6, <2>1, <2>2, KnownFacts, StoredFacts
  <2>4. /\ new[r].dirty = items[r].dirty \cup Required(run, r)
        /\ new[r].etag = items[r].etag /\ new[r].shown = items[r].shown
        /\ new[r].digest = items[r].digest
     BY <1>2, <1>6, <2>2, <2>3, LoadedFacts
  <2>5. Good(items[r], r, meta.checkpoint, meta.config, journal, reports, sources)
     BY <2>3 DEF Committed, Sound
  <2> DEFINE F == Required(run, r)
  <2>6. /\ Quiet(r, run.upper, journal) => Quiet(r, meta.checkpoint, journal)
        /\ "cost" \notin F /\ Unpriced(run.upper, journal) => Unpriced(meta.checkpoint, journal)
        /\ F = {} =>
              /\ run.config = meta.config
              /\ journal[<<"render", r>>] <= run.upper => journal[<<"render", r>>] <= meta.checkpoint
              /\ journal[<<"report", r>>] <= run.upper =>
                    journal[<<"report", r>>] <= meta.checkpoint \/ items[r].digest = reports[r]
     BY <1>6, <2>3, NothingOwed
  <2> HIDE DEF F
  <2> QED
     BY <2>4, <2>5, <2>6, Upgrade DEF F
<1>7. CASE r \notin DOMAIN Known(run)
  <2>1. r \in DOMAIN items /\ new[r] = items[r]
     BY <1>2, <1>7
  <2>2. Good(items[r], r, meta.checkpoint, meta.config, journal, reports, sources)
     BY <2>1 DEF Committed, Sound
  <2> DEFINE F == {}
  <2>3. /\ Quiet(r, run.upper, journal) => Quiet(r, meta.checkpoint, journal)
        /\ "cost" \notin F /\ Unpriced(run.upper, journal) => Unpriced(meta.checkpoint, journal)
        /\ F = {} =>
              /\ run.config = meta.config
              /\ journal[<<"render", r>>] <= run.upper => journal[<<"render", r>>] <= meta.checkpoint
              /\ journal[<<"report", r>>] <= run.upper =>
                    journal[<<"report", r>>] <= meta.checkpoint \/ items[r].digest = reports[r]
     BY <1>7, <2>1, NothingOwed
  <2>4. new[r].dirty = items[r].dirty \cup F
     BY <2>1
  <2> QED
     BY <2>1, <2>2, <2>3, <2>4, Upgrade
<1> QED
   BY <1>5, <1>6, <1>7

LEMMA LoadHolds ==
  ASSUME TypeOK, TypeOK', Numbered, Committed, NEW p \in Publishers, Holds(p), Load(p)
  PROVE  Holds(p)'
<1> DEFINE run == pub[p]
           loaded == LoadedItems(run)
<1>0. PICK next : next = pub'[p]
   OBVIOUS
<1>1. PICK batch \in Batch(loaded) :
        next = [run EXCEPT
                !.step = "next",
                !.old = meta,
                !.meta = [meta EXCEPT !.checkpoint = run.upper, !.model = LoadedModel(run),
                                      !.config = run.config],
                !.prev = Stored(run), !.items = loaded,
                !.partial = Partial(run), !.recovering = Recovering(run),
                !.snap = IF Recalibrated(run) \/ \E r \in batch : loaded[r].dirty # {"render"}
                         THEN GasInputs(sources) ELSE NoInputs,
                !.todo = batch,
                !.events = Events(Stored(run), loaded)]
   BY <1>0 DEF Load, Set, TypeOK
<1>2. /\ run.step = "load" /\ rev' = rev /\ sources' = sources /\ reports' = reports
      /\ journal' = journal /\ meta' = meta /\ items' = items
   BY DEF Load, world, stored
<1>3. run \in Runs /\ next \in Runs /\ meta \in Metas
   BY <1>0 DEF TypeOK
<1>4. /\ next.step = "next" /\ next.old = meta
      /\ next.meta = [meta EXCEPT !.checkpoint = run.upper, !.model = LoadedModel(run),
                                  !.config = run.config]
      /\ next.prev = Stored(run) /\ next.items = loaded
      /\ next.partial = Partial(run) /\ next.recovering = Recovering(run)
      /\ next.snap = IF Recalibrated(run) \/ \E r \in batch : loaded[r].dirty # {"render"}
                     THEN GasInputs(sources) ELSE NoInputs
      /\ next.todo = batch /\ next.events = Events(Stored(run), loaded)
      /\ next.upper = run.upper /\ next.config = run.config /\ next.item = run.item
   BY <1>1, <1>3 DEF Runs
<1>5. run.upper \in 1 .. rev /\ meta.checkpoint <= run.upper /\ run.item = Nobody
   BY <1>2 DEF Holds
<1>6. /\ next.meta.checkpoint = run.upper /\ next.meta.model = LoadedModel(run)
      /\ next.meta.config = run.config /\ next.meta.manifest = meta.manifest
   BY <1>3, <1>4 DEF Metas
<1>7. LoadedModel(run) <= run.upper
  <2>1. /\ sources.model <= rev /\ meta.model <= meta.checkpoint /\ rev \in Nat
        /\ sources.model \in Nat /\ meta.model \in Nat /\ meta.checkpoint \in Nat /\ run.upper \in Nat
     BY <1>3 DEF Numbered, Committed, TypeOK, Sources, Metas, Runs
  <2> QED
     BY <1>5, <2>1 DEF LoadedModel, Remembered
<1>8. ~Recovering(run) => meta.manifest # 0 /\ DOMAIN items = Reports
   BY <1>3, PartialFacts DEF Recovering, Committed
<1>9. DOMAIN loaded = DOMAIN Known(run) /\ loaded \in Tables(Items)
   BY LoadedFacts
<1>10. /\ DOMAIN Stored(run) = DOMAIN loaded \cap DOMAIN items
       /\ \A r \in DOMAIN Stored(run) : items[r] = Stored(run)[r]
       /\ ~Partial(run) => DOMAIN Stored(run) = DOMAIN items
  <2>1. CASE Partial(run)
     BY <1>3, <1>9, <2>1, PartialFacts, KnownFacts, StoredFacts
  <2>2. CASE ~Partial(run)
    <3>1. DOMAIN items \subseteq Reports
       BY TableOf DEF TypeOK
    <3>2. Stored(run) = items
       BY <2>2, StoredFacts
    <3>3. DOMAIN items \subseteq DOMAIN Known(run)
      <4>1. CASE Recovering(run)
         BY <3>1, <4>1, KnownFacts
      <4>2. CASE ~Recovering(run)
         BY <3>2, <4>2, KnownFacts
      <4> QED
         BY <4>1, <4>2
    <3> QED
       BY <1>9, <2>2, <3>2, <3>3
  <2> QED
     BY <2>1, <2>2
<1>11. (Based(next) \/ Saved(next))'
   BY <1>2, <1>4, <1>10 DEF Based
<1>12. Bounds(next)'
  <2>1. Recovering(run) => DOMAIN loaded = Reports
     BY <1>9, KnownFacts
  <2>2. DOMAIN Stored(run) \subseteq DOMAIN loaded
     BY <1>10
  <2> QED
     BY <1>2, <1>4, <1>5, <1>6, <1>7, <1>8, <2>1, <2>2 DEF Bounds
<1>13. Batched(next)'
  <2>1. batch \subseteq Dirty(loaded)
     BY DEF Batch
  <2>2. GasInputs(sources) # NoInputs
     BY DEF GasInputs, NoInputs, Numbered
  <2> QED
     BY <1>4, <2>1, <2>2 DEF Batched, Captured
<1>14. Accounts(p, next)'
  <2>1. Dirty(Stored(run)) \subseteq Dirty(loaded)
    <3>1. SUFFICES ASSUME NEW r \in DOMAIN Stored(run), Stored(run)[r].dirty # {}
                   PROVE  r \in DOMAIN loaded /\ loaded[r].dirty # {}
       BY DEF Dirty
    <3>2. r \in DOMAIN Known(run)
       BY <1>9, <1>10
    <3>3. loaded[r].dirty = Known(run)[r].dirty \cup Required(run, r)
       BY <3>2, LoadedFacts
    <3>4. CASE Recovering(run)
       BY <1>9, <3>2, <3>3, <3>4 DEF Required, Renewed
    <3>5. CASE ~Recovering(run)
      <4>1. Known(run)[r] = items[r] /\ Stored(run)[r] = items[r]
         BY <3>5, KnownFacts, StoredFacts
      <4>2. loaded[r].dirty # {}
         BY <3>1, <3>3, <4>1
      <4> QED
         BY <1>9, <3>2, <4>2
    <3> QED
       BY <3>4, <3>5
  <2>2. Stored(run) \in Tables(Items)
     BY StoredFacts
  <2>3. Queued(Events(Stored(run), loaded))
           = Cardinality(Dirty(loaded)) - Cardinality(Dirty(Stored(run)))
     BY <1>9, <2>1, <2>2, EventsCount
  <2> HIDE DEF loaded
  <2> QED
     BY <1>4, <2>3 DEF Accounts
<1>15. Sound(After(items, next), next.upper, next.config, journal, reports, sources)
   BY <1>3, <1>4, LoadedSound
<1>16. Sound(After(items, next), next.upper, next.config, journal, reports, sources)'
   BY <1>2, <1>15 DEF After
<1> QED
   BY <1>0, <1>4, <1>5, <1>11, <1>12, <1>13, <1>14, <1>16 DEF Holds

\* The run of a holder, once it has loaded.
LEMMA LoadedRun ==
  ASSUME TypeOK, NEW p \in Publishers, Holds(p), pub[p].step \in Loaded
  PROVE  LET run == pub[p] IN
         /\ Based(run) \/ Saved(run)
         /\ Bounds(run) /\ Batched(run) /\ Accounts(p, run)
         /\ run.step \in {"next", "save"} => run.item = Nobody
         /\ run.item # Nobody => Making(run)
         /\ \A r \in DOMAIN run.items :
               /\ r \in Reports /\ run.items[r] \in Items
               /\ Good(run.items[r], r, run.upper, run.config, journal, reports, sources)
         /\ Sound(After(items, run), run.upper, run.config, journal, reports, sources)
<1> DEFINE run == pub[p]
<1>1. /\ Based(run) \/ Saved(run)
      /\ Bounds(run) /\ Batched(run) /\ Accounts(p, run)
      /\ run.step \in {"next", "save"} => run.item = Nobody
      /\ run.item # Nobody => Making(run)
      /\ Sound(After(items, run), run.upper, run.config, journal, reports, sources)
   BY DEF Holds
<1>2. run \in Runs /\ items \in Tables(Items) /\ run.items \in Tables(Items)
   BY DEF TypeOK, Runs
<1>3. \A r \in DOMAIN run.items : r \in DOMAIN After(items, run) /\ After(items, run)[r] = run.items[r]
   BY <1>2, AfterTable
<1>4. \A r \in DOMAIN run.items : r \in Reports /\ run.items[r] \in Items
   BY <1>2, TableOf
<1> QED
   BY <1>1, <1>3, <1>4 DEF Sound

LEMMA TakeHolds ==
  ASSUME TypeOK, TypeOK', NEW p \in Publishers, Holds(p), Take(p)
  PROVE  Holds(p)'
<1> DEFINE run == pub[p]
<1>0. PICK next : next = pub'[p]
   OBVIOUS
<1>1. PICK r \in run.todo :
         next = LET taken == [run EXCEPT !.item = r, !.todo = @ \ {r},
                                         !.report = reports[r], !.raced = FALSE]
                IN  [taken EXCEPT !.step = IF Derived(taken) THEN "refresh" ELSE "render"]
   BY <1>0 DEF Take, Set, TypeOK
<1>2. /\ run.step = "next" /\ rev' = rev /\ sources' = sources /\ reports' = reports
      /\ journal' = journal /\ meta' = meta /\ items' = items
   BY DEF Take, world, stored
<1>3. run \in Runs /\ next \in Runs
   BY <1>0 DEF TypeOK
<1>4. /\ next.item = r /\ next.todo = run.todo \ {r} /\ next.report = reports[r] /\ next.raced = FALSE
      /\ next.upper = run.upper /\ next.config = run.config /\ next.old = run.old
      /\ next.meta = run.meta /\ next.prev = run.prev /\ next.items = run.items
      /\ next.partial = run.partial /\ next.recovering = run.recovering /\ next.snap = run.snap
      /\ next.events = run.events
      /\ next.step \in {"refresh", "render"}
      /\ next.step = "render" => ~(run.snap # NoInputs /\ run.items[r].dirty # {"render"})
   BY <1>1, <1>3 DEF Runs, Derived, Captured
<1>5. /\ Based(run) \/ Saved(run)
      /\ Bounds(run) /\ Batched(run) /\ Accounts(p, run)
      /\ \A x \in DOMAIN run.items :
            /\ x \in Reports /\ run.items[x] \in Items
            /\ Good(run.items[x], x, run.upper, run.config, journal, reports, sources)
      /\ Sound(After(items, run), run.upper, run.config, journal, reports, sources)
   BY <1>2, LoadedRun DEF Loaded
<1>6. r \in Dirty(run.items) /\ (run.items[r].dirty # {"render"} => run.snap # NoInputs)
   BY <1>1, <1>5 DEF Batched, Captured
<1>7. Based(next)'
   BY <1>2, <1>4, <1>5 DEF Based, Saved
<1>8. Bounds(next)'
   BY <1>2, <1>4, <1>5 DEF Bounds
<1>9. Batched(next)'
   BY <1>4, <1>5 DEF Batched, Captured
<1>10. Accounts(p, next)'
   BY <1>4, <1>5 DEF Accounts
<1>11. Making(next)'
  <2>1. next.item \in Dirty(next.items) /\ next.item \notin next.todo
     BY <1>4, <1>6
  <2>2. ASSUME next.step = "render"
        PROVE  /\ next.report \in Bodies
               /\ Fresh(next.report, next.item, next.upper, Exempt(next), journal, reports, sources)
               /\ StoredVolume(next.item, next.upper, Exempt(next), journal, reports, sources)
               /\ StoredGas(next.item, next.upper, Exempt(next), journal, reports, sources)
    <3> DEFINE i == run.items[r]
    <3>1. i.dirty = {"render"} /\ r \in DOMAIN run.items /\ r \in Reports
       BY <1>4, <1>5, <1>6, <2>2 DEF Dirty
    <3>2. Good(i, r, run.upper, run.config, journal, reports, sources)
       BY <1>5, <3>1
    <3>3. /\ Published(i) /\ StoredVolume(r, run.upper, i.shown.raced, journal, reports, sources)
          /\ StoredGas(r, run.upper, i.shown.raced, journal, reports, sources)
       BY <3>1, <3>2 DEF Good
    <3>4. Exempt(next) = i.shown.raced
      <4>1. i.shown \in Pages
         BY <3>1, <3>2 DEF Good
      <4>2. i.shown.raced \in BOOLEAN
         BY <4>1 DEF Pages
      <4> QED
         BY <1>4, <3>1, <3>3, <4>2 DEF Exempt
    <3>5. Fresh(reports[r], r, run.upper, i.shown.raced, journal, reports, sources)
       BY <3>3 DEF Fresh, StoredGas
    <3>6. reports[r] \in Bodies
       BY <3>1 DEF TypeOK
    <3> QED
       BY <1>4, <3>3, <3>4, <3>5, <3>6
  <2>3. next.step # "put"
     BY <1>4
  <2> QED
     BY <1>2, <2>1, <2>2, <2>3 DEF Making, Exempt
<1>12. Sound(After(items, next), next.upper, next.config, journal, reports, sources)'
   BY <1>2, <1>4, <1>5 DEF After
<1>13. next.step \in Loaded /\ next.step \notin {"next", "save", "load"}
   BY <1>4 DEF Loaded
<1> QED
   BY <1>0, <1>7, <1>8, <1>9, <1>10, <1>11, <1>12, <1>13 DEF Holds

\* A refresh adds flags to items, and takes nothing from them.
LEMMA MarkedItems ==
  ASSUME TypeOK, NEW run \in Runs, run.item \in DOMAIN run.items
  PROVE  LET before == After(items, run) IN
         /\ DOMAIN Marked(run) \subseteq DOMAIN before
         /\ DOMAIN run.items \subseteq DOMAIN Marked(run)
         /\ \A a \in DOMAIN Marked(run) :
               /\ \/ Marked(run)[a] = before[a]
                  \/ Marked(run)[a].dirty = before[a].dirty \cup {"render", "cost"}
               /\ Marked(run)[a].digest = before[a].digest
               /\ Marked(run)[a].etag = before[a].etag
               /\ Marked(run)[a].shown = before[a].shown
         /\ Marked(run)[run.item] = run.items[run.item]
<1> DEFINE before == After(items, run)
           wide == Widened(run.items, Missed(run))
           r == run.item
<1>1. run.items \in Tables(Items) /\ items \in Tables(Items)
   BY DEF Runs, TypeOK
<1>2. /\ DOMAIN before = DOMAIN items \cup DOMAIN run.items
      /\ \A a \in DOMAIN run.items : before[a] = run.items[a]
      /\ \A a \in DOMAIN items \ DOMAIN run.items : before[a] = items[a]
   BY <1>1, AfterTable
<1>3. Missed(run) \in SUBSET (DOMAIN items) /\ Missed(run) \cap DOMAIN run.items = {}
   BY MissedStored
<1>4. /\ wide \in Tables(Items) /\ DOMAIN wide = DOMAIN run.items \cup Missed(run)
      /\ \A a \in Missed(run) : wide[a] = items[a]
      /\ \A a \in DOMAIN run.items \ Missed(run) : wide[a] = run.items[a]
   BY <1>1, <1>3, WidenedFacts
<1> HIDE DEF before, wide
<1>5. \A a \in DOMAIN wide : a \in DOMAIN before /\ wide[a] = before[a]
   BY <1>2, <1>3, <1>4
<1>6. /\ DOMAIN Marked(run) = DOMAIN wide
      /\ \A a \in DOMAIN wide :
            /\ \/ Marked(run)[a] = wide[a]
               \/ Marked(run)[a].dirty = wide[a].dirty \cup {"render", "cost"}
            /\ Marked(run)[a].digest = wide[a].digest
            /\ Marked(run)[a].etag = wide[a].etag
            /\ Marked(run)[a].shown = wide[a].shown
   BY <1>4, DependentsFacts DEF Marked, wide
<1>7. Marked(run)[r] = run.items[r]
  <2>1. <<r, r>> \notin Compares
     BY ComparesAssumption
  <2>2. wide[r] = run.items[r] /\ r \in DOMAIN wide
     BY <1>3, <1>4
  <2> QED
     BY <2>1, <2>2 DEF Marked, Dependents, wide
<1> QED
   BY <1>4, <1>5, <1>6, <1>7 DEF before

\* What is stored of the report in hand once its gas has been refreshed.
LEMMA RefreshedBody ==
  ASSUME TypeOK, NEW p \in Publishers, Refresh(p), pub[p].item \in Reports,
         NEW c,
         LET run == pub[p]
             i == run.items[run.item]
         IN  Good(i, run.item, c, run.config, journal, reports, sources),
         NEW exempt,
         LET run == pub[p]
             i == run.items[run.item]
         IN  exempt = (~Persisted(run)
                         \/ (Published(i) /\ "gas" \notin i.dirty /\ i.shown.raced))
  PROVE  LET run == pub[p] IN
         /\ Quiet(run.item, c, journal) =>
               exempt \/ CurrentVolume(reports'[run.item].gas, run.item, sources)
         /\ Quiet(run.item, c, journal) =>
               exempt \/ Current(reports'[run.item].gas, run.item, sources)
<1> DEFINE run == pub[p]
           r == run.item
           i == run.items[r]
           gas == IF "gas" \in i.dirty THEN GasOf(run.snap, r)
                  ELSE [reports[r].gas EXCEPT !.tariff = run.snap.tariff]
<1>1. /\ run.snap = GasInputs(sources) /\ reports \in [Reports -> Bodies]
      /\ reports' = IF Persisted(run) THEN [reports EXCEPT ![r] = NewBody(run)] ELSE reports
   BY DEF Refresh, TypeOK
<1>2. CASE ~Persisted(run)
   BY <1>2
<1>3. CASE Persisted(run)
  <2>1. reports[r] = run.report /\ reports[r] \in Bodies /\ reports[r].gas \in Gases
     BY <1>1, <1>3 DEF Persisted, Bodies
  <2>2. NewBody(run) = [reports[r] EXCEPT !.gas = gas, !.compared = Comparison(r, reports)]
     BY <2>1 DEF NewBody, Refreshed
  <2>3. reports'[r].gas = gas
     BY <1>1, <1>3, <2>1, <2>2 DEF Bodies
  <2>4. ASSUME Quiet(r, c, journal), ~exempt
        PROVE  Current(gas, r, sources)
    <3>1. CASE "gas" \in i.dirty
       BY <1>1, <3>1 DEF Current
    <3>2. CASE "gas" \notin i.dirty
      <4>1. Published(i) /\ StoredVolume(r, c, i.shown.raced, journal, reports, sources)
         BY <3>2 DEF Good
      <4>2. ~i.shown.raced
         BY <2>4, <3>2, <4>1
      <4>3. CurrentVolume(reports[r].gas, r, sources)
         BY <2>4, <4>1, <4>2 DEF StoredVolume
      <4>4. gas = [reports[r].gas EXCEPT !.tariff = run.snap.tariff]
         BY <3>2
      <4> HIDE DEF gas
      <4> QED
         BY <1>1, <2>1, <4>3, <4>4 DEF Current, CurrentVolume, GasOf, GasInputs, Gases
    <3> QED
       BY <3>1, <3>2
  <2>5. Current(gas, r, sources) => CurrentVolume(gas, r, sources)
     BY DEF Current, CurrentVolume, GasOf, GasInputs
  <2> HIDE DEF gas
  <2> QED
     BY <2>3, <2>4, <2>5
<1> QED
   BY <1>2, <1>3

\* What it makes dirty is what it counts.
LEMMA MarkedCount ==
  ASSUME TypeOK, NEW run \in Runs, DOMAIN run.prev \subseteq DOMAIN run.items
  PROVE  Cardinality(Dirty(Marked(run))) - Cardinality(Dirty(Widened(run.prev, Missed(run))))
           = Cardinality(Dirty(run.items)) - Cardinality(Dirty(run.prev)) + Cardinality(Again(run))
<1> DEFINE wide == Widened(run.items, Missed(run))
           more == {a \in Missed(run) : items[a].dirty # {}}
           new == Dirty(Marked(run))
<1>1. run.items \in Tables(Items) /\ run.prev \in Tables(Items)
   BY DEF Runs
<1>2. /\ Missed(run) \in SUBSET (DOMAIN items) /\ Missed(run) \cap DOMAIN run.items = {}
      /\ Missed(run) \cap DOMAIN run.prev = {}
   BY MissedStored
<1>3. wide \in Tables(Items)
   BY <1>1, <1>2, WidenedFacts
<1>4. Cardinality(Dirty(wide)) = Cardinality(Dirty(run.items)) + Cardinality(more)
   BY <1>1, <1>2, WidenedCount
<1>5. Cardinality(Dirty(Widened(run.prev, Missed(run)))) = Cardinality(Dirty(run.prev)) + Cardinality(more)
   BY <1>1, <1>2, WidenedCount
<1>6. Marked(run) \in Tables(Items)
   BY MarkedFacts
<1>7. Dirty(wide) \subseteq new
  <2> HIDE DEF wide
  <2>1. /\ DOMAIN Marked(run) = DOMAIN wide
        /\ \A a \in DOMAIN wide :
              \/ Marked(run)[a] = wide[a]
              \/ Marked(run)[a].dirty = wide[a].dirty \cup {"render", "cost"}
     BY <1>3, DependentsFacts DEF Marked, wide
  <2> QED
     BY <2>1 DEF Dirty
<1>8. Again(run) = new \ Dirty(wide)
   BY DEF Again
<1>9. IsFiniteSet(new) /\ IsFiniteSet(Dirty(wide))
   BY <1>3, <1>6, DirtyFinite
<1> HIDE DEF wide, new
<1>10. Cardinality(Again(run)) = Cardinality(new) - Cardinality(Dirty(wide))
  <2>1. Cardinality(new \ Dirty(wide)) = Cardinality(new) - Cardinality(new \cap Dirty(wide))
     BY <1>9, FS_Difference
  <2>2. new \cap Dirty(wide) = Dirty(wide)
     BY <1>7
  <2> QED
     BY <1>8, <2>1, <2>2
<1>11. Cardinality(more) \in Nat
  <2>1. more \in SUBSET Reports
    <3>1. DOMAIN items \subseteq Reports
       BY TableOf DEF TypeOK
    <3> QED
       BY <1>2, <3>1
  <2> HIDE DEF more
  <2> QED
     BY <2>1, ReportsAssumption, FS_Subset, FS_CardinalityType
<1> HIDE DEF more
<1>12. /\ Cardinality(new) \in Nat /\ Cardinality(Dirty(wide)) \in Nat
       /\ Cardinality(Dirty(run.items)) \in Nat /\ Cardinality(Dirty(run.prev)) \in Nat
   BY <1>1, <1>9, DirtyFinite, FS_CardinalityType
<1> QED
   BY <1>4, <1>5, <1>10, <1>11, <1>12 DEF new

LEMMA RefreshHolds ==
  ASSUME TypeOK, TypeOK', Numbered, NEW p \in Publishers, Holds(p), Refresh(p)
  PROVE  Holds(p)'
<1> DEFINE run == pub[p]
           r == run.item
           i == run.items[r]
<1>0. PICK next : next = pub'[p]
   OBVIOUS
<1>1. next = [run EXCEPT
         !.step = "render",
         !.report = reports'[r], !.raced = ~Persisted(run),
         !.items = Marked(run), !.prev = Widened(run.prev, Missed(run)),
         !.events.requeued = @ + Cardinality(Again(run)),
         !.meta.model = IF "gas" \in i.dirty
                        THEN Remembered(@, run.snap.model, run.upper) ELSE @]
   BY <1>0 DEF Refresh, Set, TypeOK
<1>2. /\ run.step = "refresh" /\ run.snap = GasInputs(sources)
      /\ rev' = rev /\ sources' = sources /\ journal' = journal /\ meta' = meta /\ items' = items
   BY DEF Refresh, stored
<1>3. run \in Runs /\ next \in Runs /\ run.meta \in Metas /\ run.events \in Counters
   BY <1>0 DEF TypeOK, Runs
<1>4. /\ next.item = r /\ next.todo = run.todo /\ next.report = reports'[r]
      /\ next.raced = ~Persisted(run)
      /\ next.upper = run.upper /\ next.config = run.config /\ next.old = run.old
      /\ next.prev = Widened(run.prev, Missed(run)) /\ next.items = Marked(run)
      /\ next.partial = run.partial /\ next.recovering = run.recovering /\ next.snap = run.snap
      /\ next.step = "render"
  <2>1. /\ next.item = r /\ next.todo = run.todo /\ next.report = reports'[r]
        /\ next.raced = ~Persisted(run) /\ next.step = "render"
     BY <1>1, <1>3 DEF Runs
  <2>2. next.prev = Widened(run.prev, Missed(run)) /\ next.items = Marked(run)
     BY <1>1, <1>3 DEF Runs
  <2>3. next.upper = run.upper /\ next.config = run.config /\ next.old = run.old
     BY <1>1, <1>3 DEF Runs
  <2>4. next.partial = run.partial /\ next.recovering = run.recovering /\ next.snap = run.snap
     BY <1>1, <1>3 DEF Runs
  <2> QED
     BY <2>1, <2>2, <2>3, <2>4
<1>5. /\ next.meta.checkpoint = run.meta.checkpoint /\ next.meta.config = run.meta.config
      /\ next.meta.manifest = run.meta.manifest
      /\ next.meta.model = IF "gas" \in i.dirty
                           THEN Remembered(run.meta.model, run.snap.model, run.upper)
                           ELSE run.meta.model
   BY <1>1, <1>3 DEF Runs, Metas
<1>6. /\ next.events.added = run.events.added /\ next.events.completed = run.events.completed
      /\ next.events.requeued = run.events.requeued + Cardinality(Again(run))
   BY <1>1, <1>3 DEF Runs, Counters
<1>7. /\ Based(run)
      /\ Bounds(run) /\ Batched(run) /\ Accounts(p, run)
      /\ r # Nobody => Making(run)
      /\ \A x \in DOMAIN run.items :
            /\ x \in Reports /\ run.items[x] \in Items
            /\ Good(run.items[x], x, run.upper, run.config, journal, reports, sources)
      /\ Sound(After(items, run), run.upper, run.config, journal, reports, sources)
   BY <1>2, LoadedRun DEF Loaded, Saved
<1>8. r \in DOMAIN run.items /\ r \in Reports /\ r # Nobody /\ Making(run)
  <2>1. r \in DOMAIN run.items
     BY <1>2 DEF TypeOK, InHand
  <2>2. r \in Reports
     BY <1>7, <2>1
  <2> QED
     BY <1>7, <2>1, <2>2, PublishersAssumption
<1>9. run.items \in Tables(Items) /\ run.prev \in Tables(Items) /\ items \in Tables(Items)
   BY <1>3 DEF Runs, TypeOK
<1>10. /\ Missed(run) \in SUBSET (DOMAIN items) /\ Missed(run) \cap DOMAIN run.items = {}
       /\ ~run.partial => Missed(run) = {}
   BY MissedStored
<1>11. /\ DOMAIN next.prev = DOMAIN run.prev \cup Missed(run)
       /\ \A a \in Missed(run) : next.prev[a] = items[a]
       /\ \A a \in DOMAIN run.prev \ Missed(run) : next.prev[a] = run.prev[a]
  <2> DEFINE wide == Widened(run.prev, Missed(run))
  <2>1. /\ DOMAIN wide = DOMAIN run.prev \cup Missed(run)
        /\ \A a \in Missed(run) : wide[a] = items[a]
        /\ \A a \in DOMAIN run.prev \ Missed(run) : wide[a] = run.prev[a]
     BY <1>9, <1>10, WidenedFacts
  <2> HIDE DEF wide
  <2>2. next.prev = wide
     BY <1>4 DEF wide
  <2> QED
     BY <2>1, <2>2
<1>12. DOMAIN next.items = DOMAIN run.items \cup Missed(run)
   BY <1>3, <1>4, MarkedFacts
<1>13. Based(next)'
   BY <1>2, <1>4, <1>7, <1>10, <1>11, <1>12 DEF Based
<1>14. Bounds(next)'
  <2>1. next.meta.model <= run.upper
    <3>1. /\ run.meta.model <= run.upper /\ sources.model <= rev
          /\ run.snap.model = sources.model
       BY <1>2, <1>7 DEF Bounds, Numbered, GasInputs
    <3> QED
       BY <1>5, <3>1 DEF Remembered
  <2>2. run.recovering => DOMAIN next.items = Reports
    <3>1. DOMAIN items \subseteq Reports
       BY <1>9, TableOf
    <3> QED
       BY <1>7, <1>10, <1>12, <3>1 DEF Bounds
  <2>3. DOMAIN next.prev \subseteq DOMAIN next.items
     BY <1>7, <1>11, <1>12 DEF Bounds
  <2> QED
     BY <1>2, <1>4, <1>5, <1>7, <2>1, <2>2, <2>3 DEF Bounds
<1>15. /\ DOMAIN next.items \subseteq DOMAIN After(items, run)
       /\ \A a \in DOMAIN next.items :
             /\ \/ next.items[a] = After(items, run)[a]
                \/ next.items[a].dirty = After(items, run)[a].dirty \cup {"render", "cost"}
             /\ next.items[a].digest = After(items, run)[a].digest
             /\ next.items[a].etag = After(items, run)[a].etag
             /\ next.items[a].shown = After(items, run)[a].shown
       /\ next.items[r] = run.items[r]
   BY <1>3, <1>4, <1>8, MarkedItems
<1>16. \A a \in DOMAIN run.items : After(items, run)[a] = run.items[a]
   BY <1>3, <1>9, AfterTable
<1>17. Dirty(run.items) \subseteq Dirty(next.items)
   BY <1>12, <1>15, <1>16 DEF Dirty
<1>18. next.snap # NoInputs
   BY <1>2, <1>4 DEF GasInputs, NoInputs, Numbered
<1>19. Batched(next)'
   BY <1>4, <1>7, <1>17, <1>18 DEF Batched, Captured
<1>20. Accounts(p, next)'
  <2>1. Cardinality(Dirty(next.items)) - Cardinality(Dirty(next.prev))
           = Cardinality(Dirty(run.items)) - Cardinality(Dirty(run.prev)) + Cardinality(Again(run))
     BY <1>3, <1>4, <1>7, MarkedCount DEF Bounds
  <2>2. Queued(run.events) = Cardinality(Dirty(run.items)) - Cardinality(Dirty(run.prev))
     BY <1>7 DEF Accounts
  <2>3. Cardinality(Again(run)) \in Nat
     BY <1>3, MarkedFacts
  <2>4. run.events.added \in Nat /\ run.events.completed \in Nat /\ run.events.requeued \in Nat
     BY <1>3 DEF Counters
  <2>5. Queued(next.events) = Cardinality(Dirty(next.items)) - Cardinality(Dirty(next.prev))
     BY <1>6, <2>1, <2>2, <2>3, <2>4 DEF Queued
  <2> QED
     BY <1>4, <2>5 DEF Accounts
<1>21. Making(next)'
  <2>1. next.item \in Dirty(next.items) /\ next.item \notin next.todo
     BY <1>4, <1>8, <1>17 DEF Making
  <2>2. Exempt(next) = (~Persisted(run) \/ (Published(i) /\ "gas" \notin i.dirty /\ i.shown.raced))
     BY <1>4, <1>15 DEF Exempt
  <2>3. /\ Quiet(r, run.upper, journal) =>
               Exempt(next) \/ CurrentVolume(reports'[r].gas, r, sources)
        /\ Quiet(r, run.upper, journal) =>
               Exempt(next) \/ Current(reports'[r].gas, r, sources)
     BY <1>7, <1>8, <2>2, RefreshedBody
  <2>4. /\ Fresh(reports'[r], r, run.upper, Exempt(next), journal, reports', sources)
        /\ StoredVolume(r, run.upper, Exempt(next), journal, reports', sources)
        /\ StoredGas(r, run.upper, Exempt(next), journal, reports', sources)
     BY <2>3 DEF Fresh, StoredVolume, StoredGas
  <2>5. reports'[r] \in Bodies
     BY <1>8 DEF TypeOK
  <2> QED
     BY <1>2, <1>4, <2>1, <2>4, <2>5 DEF Making, Exempt
<1>22. Sound(After(items, next), next.upper, next.config, journal, reports, sources)'
  <2>1. Moves
     BY RefreshMoves
  <2>2. After(items, run) \in Tables(Items) /\ journal \in [Scopes -> Nat]
     BY <1>3, <1>9, AfterTable DEF TypeOK
  <2>3. Newer(rev, journal, reports, sources, journal', reports', sources')
     BY <2>1 DEF Moves
  <2>4. run.upper \in Nat /\ rev \in Nat /\ run.upper <= rev /\ journal' \in [Scopes -> Nat]
     BY <1>3, <1>7 DEF TypeOK, Runs, Bounds
  <2>5. Sound(After(items, run), run.upper, run.config, journal', reports', sources')
     BY <1>7, <2>2, <2>3, <2>4, NewerSound
  <2>6. SUFFICES ASSUME NEW x \in DOMAIN After(items, next)
                 PROVE  Good(After(items, next)[x], x, run.upper, run.config,
                             journal', reports', sources')
     BY <1>2, <1>4 DEF Sound, After
  <2>7. /\ DOMAIN After(items, next) = DOMAIN items \cup DOMAIN next.items
        /\ \A a \in DOMAIN next.items : After(items, next)[a] = next.items[a]
        /\ \A a \in DOMAIN items \ DOMAIN next.items : After(items, next)[a] = items[a]
     BY <1>3, <1>9, AfterTable
  <2>8. /\ DOMAIN After(items, run) = DOMAIN items \cup DOMAIN run.items
        /\ \A a \in DOMAIN items \ DOMAIN run.items : After(items, run)[a] = items[a]
     BY <1>3, <1>9, AfterTable
  <2>9. x \in DOMAIN After(items, run)
     BY <1>15, <2>7, <2>8
  <2>10. Good(After(items, run)[x], x, run.upper, run.config, journal', reports', sources')
     BY <2>5, <2>9 DEF Sound
  <2>11. CASE x \notin DOMAIN next.items
    <3>1. After(items, next)[x] = After(items, run)[x]
       BY <1>12, <2>7, <2>8, <2>11
    <3> QED
       BY <2>10, <3>1
  <2>12. CASE x \in DOMAIN next.items
    <3>1. After(items, next)[x] = next.items[x]
       BY <2>7, <2>12
    <3>2. CASE next.items[x] = After(items, run)[x]
       BY <2>10, <3>1, <3>2
    <3>3. CASE next.items[x].dirty = After(items, run)[x].dirty \cup {"render", "cost"}
      <4> DEFINE F == {"render", "cost"}
                 old == After(items, run)[x]
                 new == next.items[x]
      <4>1. new.dirty = old.dirty \cup F /\ new.etag = old.etag /\ new.shown = old.shown
         BY <1>15, <2>12, <3>3
      <4>2. F # {} /\ "cost" \in F
         OBVIOUS
      <4>3. Good(old, x, run.upper, run.config, journal', reports', sources')
         BY <2>10
      <4> HIDE DEF F, old, new, run
      <4>4. Good(new, x, run.upper, run.config, journal', reports', sources')
         BY <4>1, <4>2, <4>3, Upgrade
      <4> QED
         BY <3>1, <4>4 DEF new
    <3> QED
       BY <1>15, <2>12, <3>2, <3>3
  <2> QED
     BY <2>11, <2>12
<1>23. next.step \in Loaded /\ next.step \notin {"next", "save", "load"}
   BY <1>4 DEF Loaded
<1> QED
   BY <1>0, <1>13, <1>14, <1>19, <1>20, <1>21, <1>22, <1>23 DEF Holds

\* The item in hand of a publisher that renders or puts a page.
LEMMA InMaking ==
  ASSUME TypeOK, NEW p \in Publishers, Holds(p),
         LET run == pub[p] IN
         \/ run.step = "render"
         \/ run.step = "put" /\ run.item # Nobody
  PROVE  LET run == pub[p] IN
         /\ Based(run)
         /\ run.item \in Reports /\ run.item # Nobody
         /\ run.item \in DOMAIN run.items /\ run.items[run.item] \in Items
         /\ Making(run)
         /\ Good(run.items[run.item], run.item, run.upper, run.config, journal, reports, sources)
<1> DEFINE run == pub[p]
<1>1. run.step \in Loaded /\ run.step # "save"
   BY DEF Loaded
<1>2. /\ Based(run) \/ Saved(run)
      /\ run.item # Nobody => Making(run)
      /\ \A r \in DOMAIN run.items :
            /\ r \in Reports /\ run.items[r] \in Items
            /\ Good(run.items[r], r, run.upper, run.config, journal, reports, sources)
   BY <1>1, LoadedRun
<1>3. run.item \in DOMAIN run.items
   BY <1>2 DEF TypeOK, InHand, Making, Dirty
<1> QED
   BY <1>1, <1>2, <1>3, PublishersAssumption DEF Saved

LEMMA PrepareHolds ==
  ASSUME TypeOK, TypeOK', NEW p \in Publishers, Holds(p), Prepare(p)
  PROVE  Holds(p)'
<1> DEFINE run == pub[p]
           r == run.item
           i == run.items[r]
           raced == run.raced \/ (Published(i) /\ "gas" \notin i.dirty /\ i.shown.raced)
           page == Page(run.report, sources.mark[r], run.config, raced)
<1>0. PICK next : next = pub'[p]
   OBVIOUS
<1>1. next = [run EXCEPT !.step = "put", !.etag = pages[r].etag, !.page = page]
   BY <1>0 DEF Prepare, Set, TypeOK
<1>2. /\ run.step = "render" /\ rev' = rev /\ sources' = sources /\ reports' = reports
      /\ journal' = journal /\ meta' = meta /\ items' = items
   BY DEF Prepare, world, stored
<1>3. run \in Runs /\ next \in Runs
   BY <1>0 DEF TypeOK
<1>4. /\ next.item = r /\ next.todo = run.todo /\ next.report = run.report /\ next.page = page
      /\ next.upper = run.upper /\ next.config = run.config /\ next.old = run.old
      /\ next.meta = run.meta /\ next.prev = run.prev /\ next.items = run.items
      /\ next.partial = run.partial /\ next.recovering = run.recovering /\ next.snap = run.snap
      /\ next.events = run.events /\ next.step = "put"
   BY <1>1, <1>3 DEF Runs
<1>5. /\ Bounds(run) /\ Batched(run) /\ Accounts(p, run)
      /\ Sound(After(items, run), run.upper, run.config, journal, reports, sources)
   BY <1>2, LoadedRun DEF Loaded
<1>6. /\ Based(run) /\ r \in Reports /\ r # Nobody /\ r \in DOMAIN run.items /\ Making(run)
      /\ Good(i, r, run.upper, run.config, journal, reports, sources)
   BY <1>2, InMaking
<1>7. raced = Exempt(run)
   BY DEF Exempt
<1>8. page \in Pages
  <2>1. "gas" \notin i.dirty => i.shown \in Pages
     BY <1>6 DEF Good
  <2>2. raced \in BOOLEAN
     BY <1>3, <2>1 DEF Runs, Pages
  <2>3. run.report \in Bodies
     BY <1>2, <1>6 DEF Making
  <2>4. sources.mark[r] \in Nat /\ run.config \in Nat
     BY <1>3, <1>6 DEF TypeOK, Sources, Runs
  <2> HIDE DEF raced
  <2> QED
     BY <2>2, <2>3, <2>4 DEF Page, Pages, Bodies0
<1>9. /\ page.report = run.report /\ page.config = run.config /\ page.mark = sources.mark[r]
      /\ page.raced = raced
   BY DEF Page
<1> HIDE DEF page, raced
<1>10. Based(next)'
   BY <1>2, <1>4, <1>6 DEF Based
<1>11. Bounds(next)'
   BY <1>2, <1>4, <1>5 DEF Bounds
<1>12. Batched(next)'
   BY <1>4, <1>5 DEF Batched, Captured
<1>13. Accounts(p, next)'
   BY <1>4, <1>5, <1>6 DEF Accounts
<1>14. Making(next)'
   BY <1>2, <1>4, <1>6, <1>7, <1>8, <1>9 DEF Making
<1>15. Sound(After(items, next), next.upper, next.config, journal, reports, sources)'
   BY <1>2, <1>4, <1>5 DEF After
<1>16. next.step \in Loaded /\ next.step \notin {"next", "save", "load"}
   BY <1>4 DEF Loaded
<1> QED
   BY <1>0, <1>10, <1>11, <1>12, <1>13, <1>14, <1>15, <1>16 DEF Holds

LEMMA PutPageHolds ==
  ASSUME TypeOK, TypeOK', NEW p \in Publishers, Holds(p), PutPage(p)
  PROVE  Holds(p)'
<1> DEFINE run == pub[p]
           r == run.item
           done == [dirty |-> {}, digest |-> run.report, etag |-> pages[r].etag + 1,
                    shown |-> run.page]
<1>0. PICK next : next = pub'[p]
   OBVIOUS
<1>1. next = [run EXCEPT !.step = "next", !.item = Nobody,
                          !.items[r] = done,
                          !.page = NoPage, !.report = NoPage, !.raced = FALSE, !.etag = 0,
                          !.events.completed = @ + 1]
   BY <1>0 DEF PutPage, Set, TypeOK
<1>2. /\ run.step = "put" /\ r # Nobody /\ rev' = rev /\ sources' = sources /\ reports' = reports
      /\ journal' = journal /\ meta' = meta /\ items' = items
   BY DEF PutPage, world, stored
<1>3. run \in Runs /\ next \in Runs /\ run.events \in Counters /\ run.items \in Tables(Items)
   BY <1>0 DEF TypeOK, Runs
<1>4. /\ next.item = Nobody /\ next.step = "next" /\ next.todo = run.todo
      /\ next.items = [run.items EXCEPT ![r] = done]
      /\ next.upper = run.upper /\ next.config = run.config /\ next.old = run.old
      /\ next.meta = run.meta /\ next.prev = run.prev
      /\ next.partial = run.partial /\ next.recovering = run.recovering /\ next.snap = run.snap
  <2>1. next.item = Nobody /\ next.step = "next" /\ next.todo = run.todo
     BY <1>1, <1>3 DEF Runs
  <2>2. next.items = [run.items EXCEPT ![r] = done]
     BY <1>1, <1>3 DEF Runs
  <2>3. /\ next.upper = run.upper /\ next.config = run.config /\ next.old = run.old
        /\ next.meta = run.meta
     BY <1>1, <1>3 DEF Runs
  <2>4. /\ next.prev = run.prev /\ next.partial = run.partial /\ next.recovering = run.recovering
        /\ next.snap = run.snap
     BY <1>1, <1>3 DEF Runs
  <2> QED
     BY <2>1, <2>2, <2>3, <2>4
<1>5. /\ next.events.added = run.events.added /\ next.events.requeued = run.events.requeued
      /\ next.events.completed = run.events.completed + 1
   BY <1>1, <1>3 DEF Runs, Counters
<1>6. /\ Bounds(run) /\ Batched(run) /\ Accounts(p, run)
      /\ Sound(After(items, run), run.upper, run.config, journal, reports, sources)
   BY <1>2, LoadedRun DEF Loaded
<1>7. Based(run) /\ r \in Reports /\ r \in DOMAIN run.items /\ Making(run)
   BY <1>2, InMaking
<1>8. /\ DOMAIN next.items = DOMAIN run.items /\ next.items[r] = done
      /\ \A x \in DOMAIN run.items \ {r} : next.items[x] = run.items[x]
   BY <1>4, <1>7
<1>9. /\ done.dirty = {} /\ done.digest = run.report /\ done.shown = run.page
      /\ done.etag = pages[r].etag + 1
   OBVIOUS
<1>10. Good(done, r, run.upper, run.config, journal, reports, sources)
  <2>1. Published(done)
    <3>1. pages[r].etag \in Nat
       BY <1>7 DEF TypeOK
    <3> QED
       BY <1>9, <3>1 DEF Published
  <2> HIDE DEF done
  <2>2. /\ run.page \in Pages /\ run.page.report = run.report /\ run.page.config = run.config
        /\ Fresh(run.report, r, run.upper, run.page.raced, journal, reports, sources)
        /\ StoredVolume(r, run.upper, run.page.raced, journal, reports, sources)
        /\ StoredGas(r, run.upper, run.page.raced, journal, reports, sources)
        /\ journal[<<"render", r>>] <= run.upper => run.page.mark = sources.mark[r]
     BY <1>2, <1>7 DEF Making
  <2>3. Clean(done, r, run.upper, run.config, journal, reports, sources)
     BY <1>9, <2>2 DEF Clean
  <2> QED
     BY <1>9, <2>1, <2>2, <2>3 DEF Good
<1> HIDE DEF done
<1>11. Dirty(next.items) = Dirty(run.items) \ {r} /\ r \in Dirty(run.items) /\ r \notin run.todo
   BY <1>7, <1>8, <1>9 DEF Dirty, Making
<1>12. Based(next)'
   BY <1>2, <1>4, <1>7, <1>8 DEF Based
<1>13. Bounds(next)'
   BY <1>2, <1>4, <1>6, <1>8 DEF Bounds
<1>14. Batched(next)'
   BY <1>4, <1>6, <1>8, <1>11 DEF Batched, Captured, Dirty
<1>15. Accounts(p, next)'
  <2>1. Cardinality(Dirty(next.items)) = Cardinality(Dirty(run.items)) - 1
    <3> DEFINE D == Dirty(run.items)
    <3>1. IsFiniteSet(D) /\ Cardinality(D) \in Nat
       BY <1>3, DirtyFinite
    <3>2. Dirty(next.items) = D \ {r} /\ r \in D
       BY <1>11
    <3> HIDE DEF D
    <3>3. Cardinality(D \ {r}) = IF r \in D THEN Cardinality(D) - 1 ELSE Cardinality(D)
       BY <3>1, FS_RemoveElement
    <3> QED
       BY <3>2, <3>3 DEF D
  <2>2. Queued(run.events) = Cardinality(Dirty(run.items)) - Cardinality(Dirty(run.prev))
     BY <1>6 DEF Accounts
  <2>3. run.prev \in Tables(Items)
     BY <1>3 DEF Runs
  <2>4. /\ run.events.added \in Nat /\ run.events.completed \in Nat /\ run.events.requeued \in Nat
        /\ Cardinality(Dirty(run.items)) \in Nat /\ Cardinality(Dirty(run.prev)) \in Nat
     BY <1>3, <2>3, DirtyFinite DEF Counters
  <2>5. Queued(next.events) = Cardinality(Dirty(next.items)) - Cardinality(Dirty(next.prev))
     BY <1>4, <1>5, <2>1, <2>2, <2>4 DEF Queued
  <2> QED
     BY <1>4, <2>5 DEF Accounts
<1>16. Sound(After(items, next), next.upper, next.config, journal, reports, sources)'
  <2>1. /\ DOMAIN After(items, next) = DOMAIN After(items, run)
        /\ After(items, next)[r] = done
        /\ \A x \in DOMAIN After(items, run) \ {r} : After(items, next)[x] = After(items, run)[x]
     BY <1>7, <1>8 DEF After
  <2>2. Sound(After(items, next), run.upper, run.config, journal, reports, sources)
     BY <1>6, <1>10, <2>1 DEF Sound
  <2> QED
     BY <1>2, <1>4, <2>2 DEF After
<1>17. next.step \in Loaded /\ next.step # "load"
   BY <1>4 DEF Loaded
<1> QED
   BY <1>0, <1>4, <1>12, <1>13, <1>14, <1>15, <1>16, <1>17 DEF Holds

LEMMA FinishHolds ==
  ASSUME TypeOK, TypeOK', NEW p \in Publishers, Holds(p), Finish(p)
  PROVE  Holds(p)'
<1> DEFINE run == pub[p]
           write == \/ Entries(run.items) # Entries(run.prev)
                    \/ run.recovering
                    \/ ~ManifestCurrent(run.old)
<1>0. PICK next : next = pub'[p]
   OBVIOUS
<1>1. next = [run EXCEPT
         !.step = IF write THEN "put" ELSE "save",
         !.etag = IF write THEN manifest.etag ELSE 0,
         !.snap = NoInputs,
         !.meta.unpublished = UnpublishedCount(run),
         !.meta.metrics = Counted(p, run)]
   BY <1>0 DEF Finish, Set, TypeOK
<1>2. /\ run.step = "next" /\ run.todo = {} /\ rev' = rev /\ sources' = sources
      /\ reports' = reports /\ journal' = journal /\ meta' = meta /\ items' = items
   BY DEF Finish, world, stored
<1>3. run \in Runs /\ next \in Runs /\ run.meta \in Metas
   BY <1>0 DEF TypeOK, Runs
<1> HIDE DEF write
<1>4. /\ next.item = run.item /\ next.todo = run.todo
      /\ next.step = IF write THEN "put" ELSE "save"
      /\ next.upper = run.upper /\ next.config = run.config /\ next.old = run.old
      /\ next.prev = run.prev /\ next.items = run.items
      /\ next.partial = run.partial /\ next.recovering = run.recovering
      /\ next.events = run.events
   BY <1>1, <1>3 DEF Runs
<1>5. /\ next.meta.checkpoint = run.meta.checkpoint /\ next.meta.config = run.meta.config
      /\ next.meta.manifest = run.meta.manifest /\ next.meta.model = run.meta.model
      /\ next.meta.unpublished = UnpublishedCount(run)
      /\ next.meta.metrics = Counted(p, run)
   BY <1>1, <1>3 DEF Runs, Metas
<1>6. /\ Based(run) /\ Bounds(run) /\ Batched(run) /\ Accounts(p, run) /\ run.item = Nobody
      /\ Sound(After(items, run), run.upper, run.config, journal, reports, sources)
   BY <1>2, LoadedRun DEF Loaded, Saved
<1>7. Based(next)'
   BY <1>2, <1>4, <1>6 DEF Based
<1>8. next.step = "save" => run.meta.manifest # 0
   BY <1>4, <1>6 DEF write, Bounds
<1>9. Bounds(next)'
   BY <1>2, <1>4, <1>5, <1>6, <1>8 DEF Bounds
<1>10. Batched(next)'
   BY <1>2, <1>4 DEF Batched
<1>11. Accounts(p, next)'
   BY <1>4, <1>5, <1>6 DEF Accounts, UnpublishedCount, Counted
<1>12. Sound(After(items, next), next.upper, next.config, journal, reports, sources)'
   BY <1>2, <1>4, <1>6 DEF After
<1>13. next.step \in Loaded /\ next.step # "load" /\ next.item = Nobody
   BY <1>4, <1>6 DEF Loaded
<1> QED
   BY <1>0, <1>7, <1>9, <1>10, <1>11, <1>12, <1>13 DEF Holds

LEMMA PutManifestHolds ==
  ASSUME TypeOK, TypeOK', NEW p \in Publishers, Holds(p), PutManifest(p)
  PROVE  Holds(p)'
<1> DEFINE run == pub[p]
<1>0. PICK next : next = pub'[p]
   OBVIOUS
<1>1. next = [run EXCEPT !.step = "save", !.meta.manifest = manifest.etag + 1, !.etag = 0]
   BY <1>0 DEF PutManifest, Set, TypeOK
<1>2. /\ run.step = "put" /\ run.item = Nobody /\ rev' = rev /\ sources' = sources
      /\ reports' = reports /\ journal' = journal /\ meta' = meta /\ items' = items
   BY DEF PutManifest, world, stored
<1>3. /\ run \in Runs /\ next \in Runs /\ run.meta \in Metas /\ manifest.etag \in Nat
   BY <1>0 DEF TypeOK, Runs
<1>4. /\ next.item = run.item /\ next.todo = run.todo /\ next.step = "save"
      /\ next.upper = run.upper /\ next.config = run.config /\ next.old = run.old
      /\ next.prev = run.prev /\ next.items = run.items
      /\ next.partial = run.partial /\ next.recovering = run.recovering
      /\ next.events = run.events /\ next.snap = run.snap
   BY <1>1, <1>3 DEF Runs
<1>5. /\ next.meta.checkpoint = run.meta.checkpoint /\ next.meta.config = run.meta.config
      /\ next.meta.manifest = manifest.etag + 1 /\ next.meta.model = run.meta.model
      /\ next.meta.unpublished = run.meta.unpublished
      /\ next.meta.metrics = run.meta.metrics
   BY <1>1, <1>3 DEF Runs, Metas
<1>6. /\ Based(run) /\ Bounds(run) /\ Batched(run) /\ Accounts(p, run)
      /\ Sound(After(items, run), run.upper, run.config, journal, reports, sources)
   BY <1>2, LoadedRun DEF Loaded, Saved
<1>7. Based(next)'
   BY <1>2, <1>4, <1>6 DEF Based
<1>8. next.meta.manifest # 0
   BY <1>3, <1>5
<1>9. Bounds(next)'
   BY <1>2, <1>4, <1>5, <1>6, <1>8 DEF Bounds
<1>10. Batched(next)'
   BY <1>4, <1>6 DEF Batched, Captured
<1>11. Accounts(p, next)'
   BY <1>2, <1>4, <1>5, <1>6 DEF Accounts, UnpublishedCount, Counted
<1>12. Sound(After(items, next), next.upper, next.config, journal, reports, sources)'
   BY <1>2, <1>4, <1>6 DEF After
<1>13. next.step \in Loaded /\ next.step # "load" /\ next.item = Nobody
   BY <1>2, <1>4 DEF Loaded
<1> QED
   BY <1>0, <1>7, <1>9, <1>10, <1>11, <1>12, <1>13 DEF Holds

\* A save writes what the run would commit; written again, it is the same.
LEMMA WrittenIs ==
  ASSUME TypeOK, NEW run \in Runs, DOMAIN run.prev \subseteq DOMAIN run.items
  PROVE  /\ Based(run) => Written(run) = After(items, run)
         /\ items = After(items, run) => Written(run) = items
<1>1. Altered(run) \subseteq DOMAIN run.items
   BY DEF Altered
<1>2. Written(run) = [r \in DOMAIN items \cup Altered(run) |->
                        IF r \in Altered(run) THEN run.items[r] ELSE items[r]]
  <2>1. (DOMAIN items \ (DOMAIN run.prev \ DOMAIN run.items)) \cup Altered(run)
            = DOMAIN items \cup Altered(run)
     OBVIOUS
  <2> QED
     BY <2>1 DEF Written
<1>3. ASSUME Based(run)
      PROVE  Written(run) = After(items, run)
  <2>1. ASSUME NEW r \in DOMAIN run.items \ Altered(run)
        PROVE  r \in DOMAIN items /\ run.items[r] = items[r]
     BY <1>3, <2>1 DEF Altered, Based
  <2>2. DOMAIN items \cup Altered(run) = DOMAIN items \cup DOMAIN run.items
     BY <1>1, <2>1
  <2>3. \A r \in DOMAIN items \cup DOMAIN run.items :
           (IF r \in Altered(run) THEN run.items[r] ELSE items[r])
             = (IF r \in DOMAIN run.items THEN run.items[r] ELSE items[r])
     BY <1>1, <2>1
  <2> QED
     BY <1>2, <2>2, <2>3 DEF After
<1>4. ASSUME items = After(items, run)
      PROVE  Written(run) = items
  <2>1. items \in Tables(Items)
     BY DEF TypeOK
  <2>2. /\ DOMAIN items = DOMAIN items \cup DOMAIN run.items
        /\ \A r \in DOMAIN run.items : items[r] = run.items[r]
     BY <1>4, <2>1, AfterTable
  <2>3. DOMAIN items \cup Altered(run) = DOMAIN items
     BY <1>1, <2>2
  <2>4. \A r \in DOMAIN items :
           (IF r \in Altered(run) THEN run.items[r] ELSE items[r]) = items[r]
     BY <1>1, <2>2
  <2>5. items = [r \in DOMAIN items |-> items[r]]
     BY <2>1, TableOf
  <2> QED
     BY <1>2, <2>3, <2>4, <2>5
<1> QED
   BY <1>3, <1>4

\* The counters of a run that is saved count what it leaves.
LEMMA SavedCounts ==
  ASSUME TypeOK, Committed, NEW p \in Publishers, NEW run \in Runs,
         Based(run), Accounts(p, run), run.step = "save"
  PROVE  /\ Queued(run.meta.metrics) = Cardinality(Dirty(After(items, run)))
         /\ run.meta.unpublished = Cardinality(Unpublished(After(items, run)))
<1> DEFINE e == run.events
           o == run.old.metrics
           new == After(items, run)
<1>1. /\ run.items \in Tables(Items) /\ run.prev \in Tables(Items) /\ items \in Tables(Items)
      /\ run.old = meta /\ meta \in Metas
   BY DEF Runs, TypeOK, Based
<1>2. /\ e.added \in Nat /\ e.completed \in Nat /\ e.requeued \in Nat
      /\ o.added \in Nat /\ o.completed \in Nat /\ o.requeued \in Nat
   BY DEF Runs, Metas, Counters
<1>3. /\ Cardinality(Dirty(new))
            = Cardinality(Dirty(items)) - Cardinality(Dirty(run.prev)) + Cardinality(Dirty(run.items))
      /\ Cardinality(Unpublished(new))
            = Cardinality(Unpublished(items)) - Cardinality(Unpublished(run.prev))
                 + Cardinality(Unpublished(run.items))
   BY <1>1, AfterCounts DEF Based
<1>4. /\ Cardinality(Dirty(items)) \in Nat /\ Cardinality(Dirty(run.prev)) \in Nat
      /\ Cardinality(Dirty(run.items)) \in Nat /\ Cardinality(Unpublished(items)) \in Nat
      /\ Cardinality(Unpublished(run.prev)) \in Nat /\ Cardinality(Unpublished(run.items)) \in Nat
   BY <1>1, DirtyFinite
<1>5. /\ Queued(e) = Cardinality(Dirty(run.items)) - Cardinality(Dirty(run.prev))
      /\ run.meta.unpublished = UnpublishedCount(run)
      /\ run.meta.metrics = Counted(p, run)
   BY DEF Accounts
<1>6. /\ Queued(o) = Cardinality(Dirty(items))
      /\ run.old.unpublished = Cardinality(Unpublished(items))
   BY <1>1 DEF Committed
<1>7. Queued(run.meta.metrics) = Queued(o) + Queued(e)
  <2>1. CASE o = NoMetrics \/ e.added + e.completed + e.requeued > 0
    <3>1. run.meta.metrics = [by |-> p, saves |-> o.saves + 1,
                              added |-> o.added + e.added, completed |-> o.completed + e.completed,
                              requeued |-> o.requeued + e.requeued]
       BY <1>5, <2>1 DEF Counted
    <3>2. /\ run.meta.metrics.added = o.added + e.added
          /\ run.meta.metrics.completed = o.completed + e.completed
          /\ run.meta.metrics.requeued = o.requeued + e.requeued
       BY <3>1
    <3> HIDE DEF e, o
    <3> QED
       BY <1>2, <3>2 DEF Queued
  <2>2. CASE ~(o = NoMetrics \/ e.added + e.completed + e.requeued > 0)
    <3>1. run.meta.metrics = o
       BY <1>5, <2>2 DEF Counted
    <3>2. e.added = 0 /\ e.completed = 0 /\ e.requeued = 0
       BY <1>2, <2>2
    <3> HIDE DEF e, o
    <3> QED
       BY <1>2, <3>1, <3>2 DEF Queued
  <2> QED
     BY <2>1, <2>2
<1>8. Queued(run.meta.metrics) = Cardinality(Dirty(new))
   BY <1>3, <1>4, <1>5, <1>6, <1>7
<1>9. run.meta.unpublished = Cardinality(Unpublished(new))
  <2>1. CASE run.partial
     BY <1>3, <1>4, <1>5, <1>6, <2>1 DEF UnpublishedCount
  <2>2. CASE ~run.partial
    <3>1. Unpublished(run.prev) = Unpublished(items)
       BY <2>2 DEF Based, Unpublished
    <3> QED
       BY <1>3, <1>4, <1>5, <2>2, <3>1 DEF UnpublishedCount
  <2> QED
     BY <2>1, <2>2
<1> QED
   BY <1>8, <1>9

LEMMA SaveStep ==
  ASSUME TypeOK, TypeOK', Numbered, Committed, NEW p \in Publishers, Holds(p), Save(p)
  PROVE  Committed' /\ Holds(p)'
<1> DEFINE run == pub[p]
<1>1. /\ run.step = "save" /\ rev' = rev /\ sources' = sources /\ reports' = reports
      /\ journal' = journal /\ run \in Runs /\ items \in Tables(Items)
   BY DEF Save, world, TypeOK
<1>2. /\ Based(run) \/ Saved(run)
      /\ Bounds(run) /\ Batched(run) /\ Accounts(p, run) /\ run.item = Nobody
      /\ Sound(After(items, run), run.upper, run.config, journal, reports, sources)
   BY <1>1, LoadedRun DEF Loaded
<1>3. \/ pub' = pub
      \/ pub'[p] = ToIndex
   BY DEF Save, Set, TypeOK
<1>4. ASSUME pub'[p] = ToIndex
      PROVE  Holds(p)'
  <2>1. ToIndex.step = "index"
     BY DEF ToIndex, Idle
  <2>2. pub'[p].step # "load" /\ pub'[p].step \notin Loaded
     BY <1>4, <2>1 DEF Loaded
  <2> QED
     BY <2>2 DEF Holds
<1>5. CASE UNCHANGED stored
  <2>1. Moves
     BY <1>1, <1>5, StillMoves DEF world
  <2>2. pub' = pub => Holds(p)'
     BY <2>1, MovesHolds
  <2> QED
     BY <1>3, <1>4, <2>1, <2>2, MovesCommitted
<1>6. CASE ~SavedAlready(run) /\ items' = Written(run) /\ meta' = run.meta
  <2>1. CASE Saved(run)
    <3>1. Written(run) = items
       BY <1>1, <1>2, <2>1, WrittenIs DEF Saved, Bounds
    <3>2. UNCHANGED stored
       BY <1>6, <2>1, <3>1 DEF Saved, stored
    <3> QED
       BY <1>5, <3>2
  <2>2. CASE Based(run)
    <3>1. items' = After(items, run)
       BY <1>1, <1>2, <1>6, <2>2, WrittenIs DEF Bounds
    <3>2. /\ Queued(run.meta.metrics) = Cardinality(Dirty(items'))
          /\ run.meta.unpublished = Cardinality(Unpublished(items'))
       BY <1>1, <1>2, <2>2, <3>1, SavedCounts
    <3>3. /\ DOMAIN items' = DOMAIN items \cup DOMAIN run.items
          /\ \A r \in DOMAIN run.items : items'[r] = run.items[r]
       BY <1>1, <3>1, AfterTable
    <3>4. DOMAIN items' = Reports
      <4>1. DOMAIN items \subseteq Reports /\ DOMAIN run.items \subseteq Reports
         BY <1>1, TableOf DEF Runs
      <4> QED
         BY <1>2, <3>3, <4>1 DEF Bounds
    <3>5. Sound(items', run.upper, run.config, journal, reports, sources)
       BY <1>2, <3>1
    <3>6. Committed'
       BY <1>1, <1>2, <1>6, <3>2, <3>4, <3>5 DEF Committed, Bounds
    <3>7. ASSUME pub' = pub
          PROVE  Holds(p)'
      <4>1. After(items', run) = items'
        <5>1. DOMAIN items' \cup DOMAIN run.items = DOMAIN items'
           BY <3>3
        <5>2. \A r \in DOMAIN items' :
                 (IF r \in DOMAIN run.items THEN run.items[r] ELSE items'[r]) = items'[r]
           BY <3>3
        <5>3. items' = [r \in DOMAIN items' |-> items'[r]]
           BY TableOf DEF TypeOK
        <5> QED
           BY <5>1, <5>2, <5>3 DEF After
      <4>0. PICK next : next = run
         OBVIOUS
      <4>2. next = pub'[p]
         BY <3>7, <4>0
      <4>3. Saved(next)'
         BY <1>1, <1>6, <4>0, <4>1 DEF Saved
      <4>4. Bounds(next)'
         BY <1>1, <1>2, <3>4, <4>0 DEF Bounds
      <4>5. Batched(next)' /\ Accounts(p, next)'
         BY <1>2, <4>0 DEF Batched, Accounts
      <4>6. Sound(After(items, next), next.upper, next.config, journal, reports, sources)'
         BY <1>1, <3>5, <4>0, <4>1
      <4>7. next.step \in Loaded /\ next.step # "load" /\ next.item = Nobody
         BY <1>1, <1>2, <4>0 DEF Loaded
      <4> QED
         BY <4>2, <4>3, <4>4, <4>5, <4>6, <4>7 DEF Holds
    <3> QED
       BY <1>3, <1>4, <3>6, <3>7
  <2> QED
     BY <1>2, <2>1, <2>2
<1> QED
   BY <1>5, <1>6 DEF Save

\* A publisher with no run, or at the index, holds nothing to save.
LEMMA HoldsNothing ==
  ASSUME NEW p \in Publishers,
         pub'[p].step \in {"idle", "index", "committed", "project"}
  PROVE  Holds(p)'
<1>1. pub'[p].step # "load" /\ pub'[p].step \notin Loaded
   BY DEF Loaded
<1> QED
   BY <1>1 DEF Holds

\* A publisher's step that leaves the index alone: only its own run is to
\* be looked at, and only if it holds the lease.
LEMMA OwnStep ==
  ASSUME Inv, TypeOK', Moves, NEW p \in Publishers, NEW run, Set(p, run),
         lease' \in Publishers => lease' = lease \/ lease' = p,
         lease' = p => Holds(p)'
  PROVE  Inv'
<1>1. TypeOK /\ Committed /\ (lease \in Publishers => Holds(lease))
   BY DEF Inv
<1>2. Committed' /\ Numbered'
   BY <1>1, MovesCommitted DEF Moves
<1>3. ASSUME NEW q \in Publishers, lease' = q, q # p
      PROVE  Holds(q)'
  <2>1. lease = q /\ Holds(q)
     BY <1>1, <1>3
  <2>2. pub'[q] = pub[q]
     BY <1>1, <1>3 DEF Set, TypeOK
  <2> QED
     BY <1>1, <2>1, <2>2, MovesHolds
<1>4. lease' \in Publishers => Holds(lease)'
   BY <1>3
<1> QED
   BY <1>2, <1>4 DEF Inv

LEMMA InvStep ==
  ASSUME Inv, [Next]_vars
  PROVE  Inv'
<1>1. TypeOK /\ TypeOK' /\ Numbered /\ Committed /\ (lease \in Publishers => Holds(lease))
   BY TypeStep DEF Inv
<1>2. CASE UNCHANGED vars
  <2>1. UNCHANGED world /\ UNCHANGED stored /\ lease' = lease /\ pub' = pub
     BY <1>2 DEF vars, world, stored
  <2>2. Moves
     BY <1>1, <2>1, StillMoves
  <2>3. Committed' /\ Numbered'
     BY <1>1, <2>2, MovesCommitted DEF Moves
  <2>4. \A q \in Publishers : lease = q => Holds(q)'
     BY <1>1, <2>1, <2>2, MovesHolds
  <2> QED
     BY <1>1, <2>1, <2>3, <2>4 DEF Inv
<1>3. ASSUME NEW p \in Publishers, Fail(p)
      PROVE  Inv'
  <2>1. UNCHANGED world /\ UNCHANGED stored /\ Set(p, Idle)
        /\ lease' = IF lease = p THEN Nobody ELSE lease
     BY <1>3 DEF Fail, Leave
  <2>2. Moves
     BY <1>1, <2>1, StillMoves
  <2>3. lease' # p
     BY <2>1, PublishersAssumption
  <2>4. lease' \in Publishers => lease' = lease
     BY <2>1, PublishersAssumption
  <2> QED
     BY <1>1, <2>1, <2>2, <2>3, <2>4, OwnStep
<1>4. ASSUME NEW p \in Publishers, NEW run, Set(p, run), UNCHANGED world, UNCHANGED stored,
             lease' = lease, Holds(p) => Holds(p)'
      PROVE  Inv'
  <2>1. Moves
     BY <1>1, <1>4, StillMoves
  <2>2. lease' = p => Holds(p)'
     BY <1>1, <1>4
  <2> QED
     BY <1>1, <1>4, <2>1, <2>2, OwnStep
<1>5. ASSUME NEW p \in Publishers, Run(p)
      PROVE  Inv'
  <2>1. CASE Load(p)
    <3>1. \E run : Set(p, run)
       BY <2>1 DEF Load
    <3>2. UNCHANGED world /\ UNCHANGED stored /\ lease' = lease
       BY <2>1 DEF Load
    <3>3. Holds(p) => Holds(p)'
       BY <1>1, <2>1, LoadHolds
    <3> QED
       BY <1>4, <3>1, <3>2, <3>3
  <2>2. CASE Take(p)
    <3>1. \E run : Set(p, run)
       BY <2>2 DEF Take
    <3>2. UNCHANGED world /\ UNCHANGED stored /\ lease' = lease
       BY <2>2 DEF Take
    <3>3. Holds(p) => Holds(p)'
       BY <1>1, <2>2, TakeHolds
    <3> QED
       BY <1>4, <3>1, <3>2, <3>3
  <2>3. CASE Refresh(p)
    <3>1. PICK run : Set(p, run)
       BY <2>3 DEF Refresh
    <3>2. Moves /\ lease' = lease
       BY <1>1, <2>3, RefreshMoves DEF Refresh
    <3>3. Holds(p) => Holds(p)'
       BY <1>1, <2>3, RefreshHolds
    <3> QED
       BY <1>1, <3>1, <3>2, <3>3, OwnStep
  <2>4. CASE Prepare(p)
    <3>1. \E run : Set(p, run)
       BY <2>4 DEF Prepare
    <3>2. UNCHANGED world /\ UNCHANGED stored /\ lease' = lease
       BY <2>4 DEF Prepare
    <3>3. Holds(p) => Holds(p)'
       BY <1>1, <2>4, PrepareHolds
    <3> QED
       BY <1>4, <3>1, <3>2, <3>3
  <2>5. CASE PutPage(p)
    <3>1. \E run : Set(p, run)
       BY <2>5 DEF PutPage
    <3>2. UNCHANGED world /\ UNCHANGED stored /\ lease' = lease
       BY <2>5 DEF PutPage
    <3>3. Holds(p) => Holds(p)'
       BY <1>1, <2>5, PutPageHolds
    <3> QED
       BY <1>4, <3>1, <3>2, <3>3
  <2>6. CASE Finish(p)
    <3>1. \E run : Set(p, run)
       BY <2>6 DEF Finish
    <3>2. UNCHANGED world /\ UNCHANGED stored /\ lease' = lease
       BY <2>6 DEF Finish
    <3>3. Holds(p) => Holds(p)'
       BY <1>1, <2>6, FinishHolds
    <3> QED
       BY <1>4, <3>1, <3>2, <3>3
  <2>7. CASE PutManifest(p)
    <3>1. \E run : Set(p, run)
       BY <2>7 DEF PutManifest
    <3>2. UNCHANGED world /\ UNCHANGED stored /\ lease' = lease
       BY <2>7 DEF PutManifest
    <3>3. Holds(p) => Holds(p)'
       BY <1>1, <2>7, PutManifestHolds
    <3> QED
       BY <1>4, <3>1, <3>2, <3>3
  <2>8. CASE Conflict(p) \/ Refuse(p)
     BY <1>3, <2>8 DEF Conflict, Refuse
  <2>9. CASE Save(p)
    <3>1. lease = p /\ lease' = lease /\ Holds(p)
       BY <1>1, <2>9 DEF Save, Fenced
    <3>2. Committed' /\ Holds(p)'
       BY <1>1, <2>9, <3>1, SaveStep
    <3>3. Numbered'
       BY <1>1, <2>9 DEF Save, world, Numbered
    <3>4. lease' \in Publishers => Holds(lease)'
       BY <3>1, <3>2
    <3> QED
       BY <1>1, <3>2, <3>3, <3>4 DEF Inv
  <2>10. CASE IndexRead(p)
    <3> DEFINE run == [pub[p] EXCEPT !.step = "committed", !.etag = index.etag, !.shows = index.shows]
    <3>1. Set(p, run) /\ UNCHANGED world /\ UNCHANGED stored /\ lease' = lease
       BY <2>10 DEF IndexRead
    <3>2. pub'[p].step = "committed"
       BY <1>1, <3>1 DEF Set, TypeOK, Runs
    <3>3. Holds(p)'
       BY <3>2, HoldsNothing
    <3> HIDE DEF run
    <3> QED
       BY <1>4, <3>1, <3>3
  <2>11. CASE IndexCommitted(p)
    <3>1. CASE Leave(p)
       BY <1>3, <2>11, <3>1 DEF IndexCommitted, Fail
    <3>2. CASE ~(~ManifestCurrent(meta) \/ meta.manifest = pub[p].shows)
      <4> DEFINE run == [pub[p] EXCEPT !.step = "project", !.shows = meta.manifest]
      <4>1. Set(p, run) /\ UNCHANGED world /\ UNCHANGED stored /\ lease' = lease
         BY <2>11, <3>2 DEF IndexCommitted
      <4>2. pub'[p].step = "project"
         BY <1>1, <4>1 DEF Set, TypeOK, Runs
      <4>3. Holds(p)'
         BY <4>2, HoldsNothing
      <4> HIDE DEF run
      <4> QED
         BY <1>4, <4>1, <4>3
    <3> QED
       BY <2>11, <3>1, <3>2 DEF IndexCommitted
  <2>12. CASE IndexPut(p)
    <3>0. UNCHANGED world /\ UNCHANGED stored
       BY <2>12 DEF IndexPut
    <3>1. CASE Leave(p)
      <4>1. Set(p, Idle) /\ lease' = IF lease = p THEN Nobody ELSE lease
         BY <3>1 DEF Leave
      <4>2. Moves
         BY <1>1, <3>0, StillMoves
      <4>3. lease' # p /\ (lease' \in Publishers => lease' = lease)
         BY <4>1, PublishersAssumption
      <4> QED
         BY <1>1, <4>1, <4>2, <4>3, OwnStep
    <3>2. CASE ~Leave(p)
      <4> DEFINE run == [ToIndex EXCEPT !.tries = pub[p].tries + 1]
      <4>1. Set(p, run) /\ lease' = lease
         BY <2>12, <3>2 DEF IndexPut
      <4>2. run.step = "index"
         BY DEF ToIndex, Idle
      <4>3. pub'[p].step = "index"
         BY <1>1, <4>1, <4>2 DEF Set, TypeOK
      <4>4. Holds(p)'
         BY <4>3, HoldsNothing
      <4> HIDE DEF run
      <4> QED
         BY <1>4, <3>0, <4>1, <4>4
    <3> QED
       BY <3>1, <3>2
  <2> QED
     BY <1>5, <2>1, <2>2, <2>3, <2>4, <2>5, <2>6, <2>7, <2>8, <2>9, <2>10, <2>11, <2>12 DEF Run
<1>6. ASSUME NEW p \in Publishers, Begin(p)
      PROVE  Inv'
  <2>1. PICK run : Set(p, run)
     BY <1>6 DEF Begin
  <2>2. UNCHANGED world /\ UNCHANGED stored /\ lease' = p
     BY <1>6 DEF Begin
  <2>3. Moves
     BY <1>1, <2>2, StillMoves
  <2>4. Holds(p)'
     BY <1>1, <1>6, BeginHolds
  <2> QED
     BY <1>1, <2>1, <2>2, <2>3, <2>4, OwnStep
<1>7. ASSUME NEW p \in Publishers, Crash(p)
      PROVE  Inv'
  <2>1. Set(p, Idle) /\ UNCHANGED world /\ UNCHANGED stored /\ lease' = lease
     BY <1>7 DEF Crash
  <2>2. pub'[p].step = "idle"
     BY <1>1, <2>1 DEF Set, TypeOK, Idle
  <2>3. Holds(p)'
     BY <2>2, HoldsNothing
  <2> QED
     BY <1>4, <2>1, <2>3
<1>8. CASE Expire
  <2>1. UNCHANGED world /\ UNCHANGED stored /\ lease' = Nobody
     BY <1>8 DEF Expire
  <2>2. Moves
     BY <1>1, <2>1, StillMoves
  <2>3. Committed' /\ Numbered'
     BY <1>1, <2>2, MovesCommitted DEF Moves
  <2> QED
     BY <1>1, <2>1, <2>3, PublishersAssumption DEF Inv
<1>9. ASSUME Moves, lease' = lease, pub' = pub
      PROVE  Inv'
  <2>1. Committed' /\ Numbered'
     BY <1>1, <1>9, MovesCommitted DEF Moves
  <2>2. \A q \in Publishers : lease = q => Holds(q)'
     BY <1>1, <1>9, MovesHolds
  <2> QED
     BY <1>1, <1>9, <2>1, <2>2 DEF Inv
<1>10. CASE Damage
  <2>1. UNCHANGED world /\ UNCHANGED stored /\ lease' = lease /\ pub' = pub
     BY <1>10 DEF Damage
  <2> QED
     BY <1>1, <1>9, <2>1, StillMoves
<1>11. CASE Change
  <2>1. lease' = lease /\ pub' = pub
     BY <1>11 DEF Change, SaveReport, Feedback, Telemetry, Tariff, Configure, Journalled
  <2> QED
     BY <1>1, <1>9, <1>11, <2>1, ChangeMoves
<1> QED
   BY <1>2, <1>5, <1>6, <1>7, <1>8, <1>10, <1>11 DEF Next

-----------------------------------------------------------------------------
(* What the publisher promises.                                            *)

LEMMA Invariance == Spec => []Inv
<1>1. Init => Inv
   BY InitInv
<1>2. Inv /\ [Next]_vars => Inv'
   BY InvStep
<1> QED
   BY <1>1, <1>2, PTL DEF Spec

(* The monitoring counters account for the queue: what was added and       *)
(* requeued, less what was rendered, is what is dirty.  A save whose       *)
(* answer was lost, and a run that fails, count nothing twice.             *)
THEOREM QueueConservation == Spec => []QueueConserved
<1>1. Inv => QueueConserved
   BY DEF Inv, Committed, Queued, QueueConserved
<1> QED
   BY <1>1, Invariance, PTL

(* The count that a partial run carries forward by difference is the       *)
(* number of items that were never published.                              *)
THEOREM UnpublishedCorrect == Spec => []UnpublishedExact
<1>1. Inv => UnpublishedExact
   BY DEF Inv, Committed, UnpublishedExact
<1> QED
   BY <1>1, Invariance, PTL

(* A checkpoint acknowledges no change that is not published: an item that *)
(* is clean, with nothing unread in the journal, shows what there is now.  *)
THEOREM NothingLost == Spec => []NoChangeLost
<1>1. ASSUME Inv
      PROVE  NoChangeLost
  <2>1. /\ meta.checkpoint \in Nat /\ rev \in Nat /\ journal \in [Scopes -> Nat]
        /\ \A s \in Scopes : journal[s] <= rev
     BY <1>1 DEF Inv, TypeOK, Metas, Numbered
  <2>2. SUFFICES ASSUME meta.checkpoint > 0, NEW r \in Reports, Settled(r)
                 PROVE  /\ r \in DOMAIN items
                        /\ items[r].shown.report.ver = reports[r].ver
                        /\ \/ items[r].shown.raced
                           \/ items[r].shown.report.gas = GasOf(GasInputs(sources), r)
                        /\ items[r].shown.mark = sources.mark[r]
                        /\ items[r].shown.config = sources.config
     BY DEF NoChangeLost
  <2>3. r \in DOMAIN items
     BY <1>1, <2>1, <2>2 DEF Inv, Committed
  <2>4. Good(items[r], r, meta.checkpoint, meta.config, journal, reports, sources)
     BY <1>1, <2>3 DEF Inv, Committed, Sound
  <2>5. items[r].dirty = {} /\ meta.config = sources.config /\ ~Unread(r)
     BY <2>2, <2>3 DEF Settled
  <2>6. Clean(items[r], r, meta.checkpoint, meta.config, journal, reports, sources)
     BY <2>4, <2>5 DEF Good
  <2>7. ASSUME NEW s \in Scopes,
               \/ s[1] \in {"tariff", "telemetry-gas"}
               \/ s[1] = "telemetry" /\ Overlaps(r, s[2])
               \/ s[1] \in {"report", "render"} /\ s[2] = r
        PROVE  journal[s] <= meta.checkpoint
    <3>1. s \notin Since(meta.checkpoint, rev)
       BY <2>5, <2>7 DEF Unread
    <3>2. journal[s] \in Nat /\ journal[s] <= rev
       BY <2>1
    <3> QED
       BY <2>1, <3>1, <3>2 DEF Since
  <2>8. /\ journal[<<"report", r>>] <= meta.checkpoint /\ journal[<<"render", r>>] <= meta.checkpoint
        /\ Quiet(r, meta.checkpoint, journal) /\ Unpriced(meta.checkpoint, journal)
    <3>1. journal[<<"report", r>>] <= meta.checkpoint /\ journal[<<"render", r>>] <= meta.checkpoint
       BY <2>7, ScopeNames
    <3>2. Unpriced(meta.checkpoint, journal)
       BY <2>7, ScopeNames DEF Unpriced
    <3>3. \A b \in Reports : journal[<<"telemetry-gas", b>>] <= meta.checkpoint
       BY <2>7, ScopeNames
    <3>4. journal[<<"telemetry", r>>] <= meta.checkpoint
       BY <2>7, ScopeNames DEF Overlaps
    <3> QED
       BY <3>1, <3>2, <3>3, <3>4 DEF Quiet
  <2> QED
     BY <2>3, <2>5, <2>6, <2>8 DEF Clean, Fresh, Current
<1> QED
   BY <1>1, Invariance, PTL

-----------------------------------------------------------------------------
(* Objects only move forward.  A page is prepared under the lease, from a   *)
(* report that was read under it, and whatever another run may still put    *)
(* was read before: so the page is not older than what others may put, or   *)
(* the ETag has moved.                                                      *)

NotBefore(new, old) ==
    /\ new.ver >= old.ver
    /\ new.gas.facts >= old.gas.facts /\ new.gas.model >= old.gas.model
    /\ new.gas.tariff >= old.gas.tariff

\* Versions are revisions, and stored gas is no newer than the sources.
Dated ==
    /\ sources.model <= rev /\ sources.tariff <= rev
    /\ \A r \in Reports :
          /\ sources.mark[r] <= rev /\ sources.facts[r] <= rev /\ reports[r].ver <= rev
          /\ reports[r].gas.facts <= sources.facts[r]
          /\ reports[r].gas.model <= sources.model /\ reports[r].gas.tariff <= sources.tariff

\* A page that is there is no newer than what it is made of.
Past(page, r, reps, src) ==
    /\ page \in Pages /\ page.report \in Bodies
    /\ NotBefore(reps[r], page.report) /\ page.mark <= src.mark[r]

Shown == \A r \in Reports : pages[r].etag > 0 => Past(pages[r].page, r, reports, sources)

\* The report a run has in hand, and the page it is about to put: an object
\* that is still as the run found it is no newer.
Putting(run, reps, pgs, src) ==
    /\ run.step \in {"load", "next"} => run.item = Nobody
    /\ run.item # Nobody =>
          /\ run.report \in Bodies /\ NotBefore(reps[run.item], run.report)
          /\ run.step = "put" =>
                /\ Past(run.page, run.item, reps, src) /\ run.page.report = run.report
                /\ run.etag <= pgs[run.item].etag
                /\ run.etag = pgs[run.item].etag /\ run.etag > 0 =>
                      NotOlder(run.page, pgs[run.item].page)

\* What the holder of the lease has in hand is no older than what is
\* published or may be put by a run that lost it.
Leads(p) ==
    LET run == pub[p] IN
    run.step \in {"refresh", "render"} /\ run.item # Nobody =>
        /\ pages[run.item].etag > 0 => NotBefore(run.report, pages[run.item].page.report)
        /\ \A q \in Publishers \ {p} :
              pub[q].step = "put" /\ pub[q].item = run.item => NotBefore(run.report, pub[q].report)

PagesInv ==
    /\ Dated
    /\ Shown
    /\ \A q \in Publishers : Putting(pub[q], reports, pages, sources)
    /\ lease \in Publishers => Leads(lease)

\* Reports and sources of a later state.
Later(reps, src, reps2, src2) ==
    \A r \in Reports : NotBefore(reps2[r], reps[r]) /\ src2.mark[r] >= src.mark[r]

LEMMA BodyTypes ==
  /\ \A b \in Bodies : /\ b.ver \in Nat /\ b.gas \in Gases
                       /\ b.gas.facts \in Nat /\ b.gas.model \in Nat /\ b.gas.tariff \in Nat
  /\ \A page \in Pages : page.mark \in Nat
BY DEF Bodies, Gases, Pages

LEMMA Ordered ==
  /\ \A b \in Bodies : NotBefore(b, b)
  /\ \A a, b, c \in Bodies : NotBefore(a, b) /\ NotBefore(b, c) => NotBefore(a, c)
<1>1. \A b \in Bodies : NotBefore(b, b)
   BY BodyTypes DEF NotBefore
<1>2. ASSUME NEW a \in Bodies, NEW b \in Bodies, NEW c \in Bodies, NotBefore(a, b), NotBefore(b, c)
      PROVE  NotBefore(a, c)
   BY <1>2, BodyTypes DEF NotBefore
<1> QED
   BY <1>1, <1>2

\* A page that was not ahead is not ahead later, nor is what a run has in
\* hand; an object that has moved is no longer as the run found it.
LEMMA PastLater ==
  ASSUME NEW reps \in [Reports -> Bodies], NEW reps2 \in [Reports -> Bodies],
         NEW src \in Sources, NEW src2 \in Sources, Later(reps, src, reps2, src2),
         NEW r \in Reports, NEW page, Past(page, r, reps, src)
  PROVE  Past(page, r, reps2, src2)
<1>1. NotBefore(reps2[r], reps[r]) /\ src2.mark[r] >= src.mark[r]
   BY DEF Later
<1>2. NotBefore(reps2[r], page.report)
   BY <1>1, Ordered DEF Past
<1>3. page.mark \in Nat /\ src.mark[r] \in Nat /\ src2.mark[r] \in Nat
   BY BodyTypes DEF Past, Sources
<1> QED
   BY <1>1, <1>2, <1>3 DEF Past

LEMMA PuttingLater ==
  ASSUME NEW reps \in [Reports -> Bodies], NEW reps2 \in [Reports -> Bodies],
         NEW src \in Sources, NEW src2 \in Sources, Later(reps, src, reps2, src2),
         NEW pgs \in [Reports -> [etag : Nat, page : Pages0]],
         NEW pgs2 \in [Reports -> [etag : Nat, page : Pages0]],
         \A r \in Reports : pgs2[r] = pgs[r] \/ pgs2[r].etag > pgs[r].etag,
         NEW run \in Runs, Putting(run, reps, pgs, src)
  PROVE  Putting(run, reps2, pgs2, src2)
<1>1. run.item \in Reports \cup {Nobody} /\ run.etag \in Nat
   BY DEF Runs
<1> SUFFICES ASSUME run.item # Nobody
             PROVE  Putting(run, reps2, pgs2, src2)
   BY DEF Putting
<1>2. run.item \in Reports
   BY <1>1
<1>3. run.report \in Bodies /\ NotBefore(reps2[run.item], run.report)
   BY <1>2, Ordered DEF Later, Putting
<1>4. CASE run.step # "put"
   BY <1>3, <1>4 DEF Putting
<1>5. CASE run.step = "put"
  <2>1. Past(run.page, run.item, reps2, src2) /\ run.page.report = run.report
     BY <1>2, <1>5, PastLater DEF Putting
  <2>2. /\ run.etag <= pgs[run.item].etag
        /\ run.etag = pgs[run.item].etag /\ run.etag > 0 => NotOlder(run.page, pgs[run.item].page)
     BY <1>5 DEF Putting
  <2>3. pgs[run.item].etag \in Nat /\ pgs2[run.item].etag \in Nat
     BY <1>2
  <2>4. CASE pgs2[run.item] = pgs[run.item]
     BY <1>3, <1>5, <2>1, <2>2, <2>4 DEF Putting
  <2>5. CASE pgs2[run.item].etag > pgs[run.item].etag
    <3>1. run.etag < pgs2[run.item].etag
       BY <1>1, <2>2, <2>3, <2>5
    <3>2. run.etag <= pgs2[run.item].etag /\ run.etag # pgs2[run.item].etag
       BY <1>1, <2>3, <3>1
    <3> QED
       BY <1>3, <1>5, <2>1, <3>2 DEF Putting
  <2> QED
     BY <1>2, <2>4, <2>5
<1> QED
   BY <1>4, <1>5

LEMMA InitPages ==
  ASSUME Init
  PROVE  PagesInv
<1>1. Dated
   BY DEF Init, Dated, FirstReport
<1>2. \A r \in Reports : NotBefore(FirstReport(r), FirstReport(r))
   BY FirstTypes, Ordered
<1>3. \A r \in Reports : Past(Page(FirstReport(r), 1, 1, FALSE), r, reports, sources)
   BY <1>2, FirstTypes DEF Init, Past, Page
<1>4. Shown
  <2>1. CASE NeverPublished
     BY <2>1 DEF NeverPublished, Shown
  <2>2. CASE AllUpToDate
    <3>1. \A r \in Reports : pages[r].page = Page(FirstReport(r), 1, 1, FALSE)
       BY <2>2 DEF AllUpToDate
    <3> QED
       BY <1>3, <3>1 DEF Shown
  <2> QED
     BY <2>1, <2>2 DEF Init
<1>5. \A q \in Publishers : Putting(pub[q], reports, pages, sources)
   BY DEF Init, Idle, Putting
<1>6. lease \notin Publishers
   BY PublishersAssumption DEF Init
<1> QED
   BY <1>1, <1>4, <1>5, <1>6 DEF PagesInv

\* The world and the pages of a later state, the runs being as they are.
LEMMA LaterPages ==
  ASSUME TypeOK, TypeOK', PagesInv, Dated', Later(reports, sources, reports', sources'),
         pub' = pub,
         \A r \in Reports : pages'[r] = pages[r]
                               \/ (pages'[r].etag > pages[r].etag /\ pages[r].etag > 0
                                     /\ pages'[r].page = pages[r].page),
         lease' \in {lease, Nobody}
  PROVE  PagesInv'
<1>1. /\ reports \in [Reports -> Bodies] /\ reports' \in [Reports -> Bodies]
      /\ sources \in Sources /\ sources' \in Sources
      /\ pages \in [Reports -> [etag : Nat, page : Pages0]]
      /\ pages' \in [Reports -> [etag : Nat, page : Pages0]]
   BY DEF TypeOK
<1>2. ASSUME NEW r \in Reports
      PROVE  pages'[r].page = pages[r].page /\ (pages'[r].etag > 0 <=> pages[r].etag > 0)
   BY <1>1
<1>3. Shown'
  <2>1. ASSUME NEW r \in Reports, pages'[r].etag > 0
        PROVE  Past(pages'[r].page, r, reports', sources')
    <3>1. Past(pages[r].page, r, reports, sources)
       BY <1>2, <2>1 DEF PagesInv, Shown
    <3> QED
       BY <1>1, <1>2, <3>1, PastLater
  <2> QED
     BY <2>1 DEF Shown
<1>4. \A q \in Publishers : Putting(pub[q], reports', pages', sources')
   BY <1>1, PuttingLater DEF TypeOK, PagesInv
<1>5. ASSUME lease' \in Publishers
      PROVE  Leads(lease)'
  <2>1. lease' = lease /\ lease \in Publishers
     BY <1>5, PublishersAssumption
  <2>2. Leads(lease) /\ pub[lease].item \in Reports \cup {Nobody}
     BY <2>1 DEF PagesInv, TypeOK, Runs
  <2> QED
     BY <1>2, <2>1, <2>2 DEF Leads
<1> QED
   BY <1>3, <1>4, <1>5 DEF PagesInv

LEMMA ChangePages ==
  ASSUME TypeOK, TypeOK', PagesInv, Change
  PROVE  PagesInv'
<1>1. /\ rev \in Nat /\ sources \in Sources /\ reports \in [Reports -> Bodies]
      /\ sources.model \in Nat /\ sources.tariff \in Nat
      /\ \A r \in Reports : sources.mark[r] \in Nat /\ sources.facts[r] \in Nat
      /\ \A r \in Reports : reports[r] \in Bodies /\ NotBefore(reports[r], reports[r])
   BY Ordered DEF TypeOK, Sources
<1>2. Dated
   BY DEF PagesInv
<1>3. UNCHANGED <<pub, pages, lease>>
   BY DEF Change, SaveReport, Feedback, Telemetry, Tariff, Configure, Journalled
<1>4. ASSUME NEW s \in Reports, SaveReport(s)
      PROVE  Dated' /\ Later(reports, sources, reports', sources')
  <2>1. /\ rev' = rev + 1 /\ sources' = sources
        /\ \A r \in Reports : r # s => reports'[r] = reports[r]
        /\ reports'[s].ver = rev + 1
        /\ reports'[s].gas = GasOf(GasInputs(sources), s)
     BY <1>1, <1>4 DEF SaveReport, Journalled
  <2>2. /\ reports'[s].gas.facts = sources.facts[s] /\ reports'[s].gas.model = sources.model
        /\ reports'[s].gas.tariff = sources.tariff
     BY <2>1 DEF GasOf, GasInputs
  <2>3. /\ reports[s].ver \in Nat /\ reports[s].gas.facts \in Nat
        /\ reports[s].gas.model \in Nat /\ reports[s].gas.tariff \in Nat
     BY <1>1, BodyTypes
  <2>4. NotBefore(reports'[s], reports[s])
     BY <1>1, <1>2, <2>1, <2>2, <2>3 DEF Dated, NotBefore
  <2>5. Later(reports, sources, reports', sources')
     BY <1>1, <2>1, <2>4 DEF Later
  <2>6. ASSUME NEW r \in Reports
        PROVE  /\ sources.mark[r] <= rev + 1 /\ sources.facts[r] <= rev + 1
               /\ reports'[r].ver <= rev + 1
               /\ reports'[r].gas.facts <= sources.facts[r]
               /\ reports'[r].gas.model <= sources.model /\ reports'[r].gas.tariff <= sources.tariff
    <3>1. CASE r = s
       BY <1>1, <1>2, <2>1, <2>2, <3>1 DEF Dated
    <3>2. CASE r # s
       BY <1>1, <1>2, <2>1, <3>2, BodyTypes DEF Dated
    <3> QED
       BY <3>1, <3>2
  <2>7. sources.model <= rev + 1 /\ sources.tariff <= rev + 1
     BY <1>1, <1>2 DEF Dated
  <2> QED
     BY <2>1, <2>5, <2>6, <2>7 DEF Dated
<1>5. ASSUME rev' \in {rev, rev + 1}, reports' = reports,
             sources'.model \in {sources.model, rev'}, sources'.tariff \in {sources.tariff, rev'},
             \A r \in Reports : /\ sources'.mark[r] \in {sources.mark[r], rev'}
                                /\ sources'.facts[r] \in {sources.facts[r], rev'}
      PROVE  Dated' /\ Later(reports, sources, reports', sources')
  <2>1. ASSUME NEW r \in Reports
        PROVE  /\ sources'.mark[r] <= rev' /\ sources'.facts[r] <= rev' /\ reports[r].ver <= rev'
               /\ reports[r].gas.facts <= sources'.facts[r]
               /\ reports[r].gas.model <= sources'.model /\ reports[r].gas.tariff <= sources'.tariff
               /\ sources'.mark[r] >= sources.mark[r]
    <3>1. /\ reports[r].ver \in Nat /\ reports[r].gas.facts \in Nat
          /\ reports[r].gas.model \in Nat /\ reports[r].gas.tariff \in Nat
       BY <1>1, BodyTypes
    <3> QED
       BY <1>1, <1>2, <1>5, <3>1 DEF Dated
  <2>2. sources'.model <= rev' /\ sources'.tariff <= rev'
     BY <1>1, <1>2, <1>5 DEF Dated
  <2> QED
     BY <1>1, <1>5, <2>1, <2>2 DEF Dated, Later
<1>6. CASE \E s \in Reports : Feedback(s)
  <2>1. PICK s \in Reports : Feedback(s)
     BY <1>6
  <2> QED
     BY <1>1, <1>3, <1>5, <2>1, LaterPages DEF Feedback, Journalled, Sources
<1>7. CASE \E s \in Reports : Telemetry(s, FALSE) \/ Telemetry(s, TRUE)
  <2>1. PICK s \in Reports, calibrates \in BOOLEAN : Telemetry(s, calibrates)
     BY <1>7
  <2>2. /\ rev' = rev + 1 /\ reports' = reports
        /\ sources' = [sources EXCEPT !.facts[s] = rev + 1,
                                      !.model = IF calibrates THEN rev + 1 ELSE @]
     BY <2>1 DEF Telemetry, Journalled
  <2>3. /\ sources'.model \in {sources.model, rev'} /\ sources'.tariff = sources.tariff
        /\ sources'.mark = sources.mark
        /\ \A r \in Reports : sources'.facts[r] \in {sources.facts[r], rev'}
     BY <1>1, <2>2 DEF Sources
  <2> QED
     BY <1>1, <1>3, <1>5, <2>2, <2>3, LaterPages
<1>8. CASE Tariff
   BY <1>1, <1>3, <1>5, <1>8, LaterPages DEF Tariff, Journalled, Sources
<1>9. CASE Configure
   BY <1>1, <1>3, <1>5, <1>9, LaterPages DEF Configure, Sources
<1> QED
   BY <1>3, <1>4, <1>6, <1>7, <1>8, <1>9, LaterPages DEF Change

\* A lease ends, or somebody touches an object.
LEMMA OutsidePages ==
  ASSUME TypeOK, TypeOK', PagesInv, Expire \/ Damage
  PROVE  PagesInv'
<1>1. /\ \A r \in Reports : NotBefore(reports[r], reports[r])
      /\ sources \in Sources /\ \A r \in Reports : sources.mark[r] \in Nat
   BY Ordered DEF TypeOK, Sources
<1>2. UNCHANGED <<rev, sources, reports, pub>>
   BY DEF Expire, Damage, world
<1>3. Later(reports, sources, reports', sources')
   BY <1>1, <1>2 DEF Later
<1>4. Dated'
   BY <1>2 DEF PagesInv, Dated
<1>5. CASE Expire
   BY <1>2, <1>3, <1>4, <1>5, LaterPages DEF Expire, bucket
<1>6. CASE Damage
  <2>1. \A r \in Reports : pages[r].etag \in Nat
     BY DEF TypeOK
  <2>2. \A r \in Reports : pages'[r] = pages[r]
                              \/ (pages'[r].etag > pages[r].etag /\ pages[r].etag > 0
                                    /\ pages'[r].page = pages[r].page)
    <3>1. CASE pages' = pages
       BY <3>1
    <3>2. CASE \E s \in Reports : pages[s].etag > 0 /\ pages' = [pages EXCEPT ![s].etag = @ + 1]
      <4>1. PICK s \in Reports : pages[s].etag > 0 /\ pages' = [pages EXCEPT ![s].etag = @ + 1]
         BY <3>2
      <4>2. \A r \in Reports : r # s => pages'[r] = pages[r]
         BY <4>1 DEF TypeOK
      <4>3. pages'[s].etag = pages[s].etag + 1 /\ pages'[s].page = pages[s].page
         BY <4>1 DEF TypeOK
      <4> QED
         BY <2>1, <4>1, <4>2, <4>3
    <3> QED
       BY <1>6, <3>1, <3>2 DEF Damage
  <2> QED
     BY <1>2, <1>3, <1>4, <1>6, <2>2, LaterPages DEF Damage
<1> QED
   BY <1>5, <1>6

\* A step of p after which p has no report in hand, or the one it had and no
\* page for it.
LEMMA AsidePages ==
  ASSUME TypeOK, TypeOK', PagesInv, NEW p \in Publishers, UNCHANGED <<rev, sources, reports, pages>>,
         \A q \in Publishers \ {p} : pub'[q] = pub[q],
         \/ pub'[p].item = Nobody
         \/ /\ pub'[p].step \in {"committed", "project"}
            /\ pub'[p].item = pub[p].item /\ pub'[p].report = pub[p].report,
         lease' \in {lease, Nobody, p}
  PROVE  PagesInv'
<1>1. PICK next : next = pub'[p]
   OBVIOUS
<1>2. Putting(next, reports, pages, sources)
   BY <1>1 DEF PagesInv, Putting
<1>3. \A q \in Publishers : Putting(pub'[q], reports, pages, sources)
   BY <1>1, <1>2 DEF PagesInv
<1>4. ASSUME lease' \in Publishers
      PROVE  Leads(lease)'
  <2>1. CASE lease' = p
     BY <1>1, <2>1 DEF Leads
  <2>2. CASE lease' # p
    <3>1. lease' = lease /\ lease \in Publishers /\ pub'[lease] = pub[lease]
       BY <1>4, <2>2, PublishersAssumption
    <3>2. Leads(lease)
       BY <3>1 DEF PagesInv
    <3>3. pub[lease].item # Nobody =>
             ~(next.step = "put" /\ next.item = pub[lease].item)
       BY <1>1
    <3> QED
       BY <1>1, <2>2, <3>1, <3>2, <3>3 DEF Leads
  <2> QED
     BY <2>1, <2>2
<1> QED
   BY <1>3, <1>4 DEF PagesInv, Dated, Shown

LEMMA TakePages ==
  ASSUME TypeOK, TypeOK', PagesInv, NEW p \in Publishers, Take(p)
  PROVE  PagesInv'
<1> DEFINE run == pub[p]
           taken(r) == [run EXCEPT !.item = r, !.todo = @ \ {r},
                                   !.report = reports[r], !.raced = FALSE]
           after(r) == [taken(r) EXCEPT !.step = IF Derived(taken(r)) THEN "refresh" ELSE "render"]
<1>1. PICK r \in run.todo : Set(p, after(r))
   BY DEF Take
<1>2. run \in Runs /\ r \in Reports /\ lease = p /\ lease' = lease
      /\ UNCHANGED <<rev, sources, reports, pages>>
   BY DEF Take, Fenced, TypeOK, Runs, world, bucket
<1>3. /\ pub'[p] = after(r) /\ \A q \in Publishers \ {p} : pub'[q] = pub[q]
   BY <1>1 DEF Set, TypeOK
<1>4. /\ after(r).item = r /\ after(r).report = reports[r]
      /\ after(r).step \in {"refresh", "render"}
   BY <1>2 DEF Runs
<1>5. PICK next : next = pub'[p]
   OBVIOUS
<1>6. next.item = r /\ next.report = reports[r] /\ next.step \in {"refresh", "render"}
  <2> HIDE DEF after
  <2> QED
     BY <1>3, <1>4, <1>5
<1> HIDE DEF after, taken
<1>7. reports[r] \in Bodies
   BY <1>2 DEF TypeOK
<1>8. Putting(next, reports, pages, sources)
   BY <1>2, <1>6, <1>7, PublishersAssumption, Ordered DEF Putting
<1>9. \A q \in Publishers : Putting(pub'[q], reports, pages, sources)
   BY <1>3, <1>5, <1>8 DEF PagesInv
<1>10. pages[r].etag > 0 => NotBefore(reports[r], pages[r].page.report)
   BY <1>2 DEF PagesInv, Shown, Past
<1>11. \A q \in Publishers \ {p} : pub[q].item = r => NotBefore(reports[r], pub[q].report)
   BY <1>2, PublishersAssumption DEF PagesInv, Putting
<1>12. Leads(p)'
   BY <1>2, <1>3, <1>5, <1>6, <1>10, <1>11 DEF Leads
<1> QED
   BY <1>2, <1>9, <1>12 DEF PagesInv, Dated, Shown

LEMMA PreparePages ==
  ASSUME TypeOK, TypeOK', PagesInv, NEW p \in Publishers, Prepare(p)
  PROVE  PagesInv'
<1> DEFINE run == pub[p]
           r == run.item
           i == run.items[r]
           raced == run.raced \/ (Published(i) /\ "gas" \notin i.dirty /\ i.shown.raced)
           page == Page(run.report, sources.mark[r], run.config, raced)
           after == [run EXCEPT !.step = "put", !.etag = pages[r].etag, !.page = page]
<1>1. /\ Set(p, after) /\ run.step = "render" /\ lease = p /\ lease' = lease
      /\ UNCHANGED <<rev, sources, reports, pages>>
   BY DEF Prepare, Fenced, world, bucket
<1>2. run \in Runs /\ InHand(run) /\ run.items \in Tables(Items)
   BY DEF TypeOK, Runs
<1>3. r \in Reports /\ r # Nobody
  <2>1. r \in DOMAIN run.items
     BY <1>1, <1>2 DEF InHand
  <2> QED
     BY <1>2, <2>1, TableOf, PublishersAssumption
<1>4. /\ pub'[p] = after /\ \A q \in Publishers \ {p} : pub'[q] = pub[q]
   BY <1>1 DEF Set, TypeOK
<1>5. /\ after.item = r /\ after.report = run.report /\ after.step = "put"
      /\ after.etag = pages[r].etag /\ after.page = page
   BY <1>2 DEF Runs
<1>6. PICK next : next = pub'[p]
   OBVIOUS
<1>7. /\ next.item = r /\ next.report = run.report /\ next.step = "put"
      /\ next.etag = pages[r].etag /\ next.page = page
  <2> HIDE DEF after, page
  <2> QED
     BY <1>4, <1>5, <1>6
<1>8. pub'[p].item = r /\ pub'[p].step = "put" /\ pub'[p].report = run.report
   BY <1>6, <1>7
<1> HIDE DEF after
<1>9. run.report \in Bodies /\ NotBefore(reports[r], run.report)
   BY <1>3 DEF PagesInv, Putting
<1>10. page.report = run.report /\ page.mark = sources.mark[r]
   BY DEF Page
<1>11. sources.mark[r] \in Nat /\ pages[r].etag \in Nat
   BY <1>3 DEF TypeOK, Sources
<1>12. page \in Pages
  <2>1. run.config \in Nat /\ run.report \in Bodies0
     BY <1>2 DEF Runs
  <2>2. raced \in BOOLEAN
     OBVIOUS
  <2> HIDE DEF raced
  <2> QED
     BY <1>11, <2>1, <2>2 DEF Page, Pages
<1>13. Past(page, r, reports, sources)
   BY <1>9, <1>10, <1>11, <1>12 DEF Past
<1>14. pages[r].etag > 0 => NotOlder(page, pages[r].page)
  <2> SUFFICES ASSUME pages[r].etag > 0
               PROVE  NotOlder(page, pages[r].page)
     OBVIOUS
  <2>1. lease \in Publishers /\ Leads(lease)
     BY <1>1 DEF PagesInv
  <2>2. NotBefore(run.report, pages[r].page.report)
     BY <1>1, <1>3, <2>1 DEF Leads
  <2>3. pages[r].page.mark <= sources.mark[r]
     BY <1>3 DEF PagesInv, Shown, Past
  <2>4. page.mark >= pages[r].page.mark
     BY <1>3, <1>10, <1>11, <2>3, BodyTypes DEF PagesInv, Shown, Past
  <2> HIDE DEF page
  <2> QED
     BY <1>10, <2>2, <2>4 DEF NotOlder, NotBefore
<1> HIDE DEF page
<1>15. Putting(next, reports, pages, sources)
   BY <1>3, <1>7, <1>9, <1>10, <1>11, <1>13, <1>14 DEF Putting
<1>16. \A q \in Publishers : Putting(pub'[q], reports, pages, sources)
   BY <1>4, <1>6, <1>15 DEF PagesInv
<1>17. Leads(p)'
   BY <1>8 DEF Leads
<1> QED
   BY <1>1, <1>16, <1>17 DEF PagesInv, Dated, Shown

\* Refreshed gas is that of the sources, or what was stored with the tariff of
\* the sources.
LEMMA RefreshedLater ==
  ASSUME TypeOK, Dated, NEW run \in Runs, run.item \in Reports,
         run.snap = GasInputs(sources), Persisted(run)
  PROVE  /\ NewBody(run).ver = reports[run.item].ver
         /\ NotBefore(NewBody(run), reports[run.item])
         /\ NewBody(run).gas.facts <= sources.facts[run.item]
         /\ NewBody(run).gas.model <= sources.model /\ NewBody(run).gas.tariff <= sources.tariff
<1> DEFINE r == run.item
           old == reports[r]
<1>1. /\ old \in Bodies /\ old.ver \in Nat /\ old.gas.facts \in Nat /\ old.gas.model \in Nat
      /\ old.gas.tariff \in Nat
      /\ sources.facts[r] \in Nat /\ sources.model \in Nat /\ sources.tariff \in Nat
   BY BodyTypes DEF TypeOK, Sources
<1>2. NewBody(run) = Refreshed(r, old, GasInputs(sources), run.items[r].dirty)
   BY DEF NewBody, Persisted
<1>3. PICK flags : flags = run.items[r].dirty
   OBVIOUS
<1>4. PICK new : new = NewBody(run)
   OBVIOUS
<1>5. /\ new.ver = old.ver
      /\ new.gas = IF "gas" \in flags THEN GasOf(GasInputs(sources), r)
                                      ELSE [old.gas EXCEPT !.tariff = GasInputs(sources).tariff]
   BY <1>1, <1>2, <1>3, <1>4 DEF Refreshed, Bodies
<1>6. /\ new.gas.facts \in {old.gas.facts, sources.facts[r]}
      /\ new.gas.model \in {old.gas.model, sources.model}
      /\ new.gas.tariff = sources.tariff
   BY <1>1, <1>5 DEF GasOf, GasInputs, Bodies, Gases
<1>7. /\ old.gas.facts <= sources.facts[r] /\ old.gas.model <= sources.model
      /\ old.gas.tariff <= sources.tariff
   BY DEF Dated
<1> QED
   BY <1>1, <1>4, <1>5, <1>6, <1>7 DEF NotBefore

LEMMA RefreshPages ==
  ASSUME TypeOK, TypeOK', PagesInv, NEW p \in Publishers, Refresh(p)
  PROVE  PagesInv'
<1> DEFINE run == pub[p]
           r == run.item
           after == [run EXCEPT
                      !.step = "render",
                      !.report = reports'[run.item], !.raced = ~Persisted(run),
                      !.items = Marked(run), !.prev = Widened(run.prev, Missed(run)),
                      !.events.requeued = @ + Cardinality(Again(run)),
                      !.meta.model = IF "gas" \in run.items[run.item].dirty
                                     THEN Remembered(@, run.snap.model, run.upper) ELSE @]
<1>1. /\ Set(p, after) /\ run.step = "refresh" /\ run.snap = GasInputs(sources)
      /\ reports' = IF Persisted(run) THEN [reports EXCEPT ![r] = NewBody(run)] ELSE reports
      /\ UNCHANGED <<rev, sources, pages, lease>>
   BY DEF Refresh, bucket
<1>2. run \in Runs /\ InHand(run) /\ run.items \in Tables(Items)
   BY DEF TypeOK, Runs
<1>3. r \in Reports /\ r # Nobody
  <2>1. r \in DOMAIN run.items
     BY <1>1, <1>2 DEF InHand
  <2> QED
     BY <1>2, <2>1, TableOf, PublishersAssumption
<1>4. /\ reports \in [Reports -> Bodies] /\ reports' \in [Reports -> Bodies]
      /\ \A s \in Reports : NotBefore(reports[s], reports[s])
      /\ sources \in Sources /\ \A s \in Reports : sources.mark[s] \in Nat
   BY Ordered DEF TypeOK, Sources
<1>5. Dated /\ Shown
   BY DEF PagesInv
<1>6. Dated' /\ Later(reports, sources, reports', sources')
  <2>1. CASE ~Persisted(run)
     BY <1>1, <1>4, <1>5, <2>1 DEF Dated, Later
  <2>2. CASE Persisted(run)
    <3>1. PICK new : new = NewBody(run)
       OBVIOUS
    <3>2. /\ new.ver = reports[r].ver /\ NotBefore(new, reports[r])
          /\ new.gas.facts <= sources.facts[r]
          /\ new.gas.model <= sources.model /\ new.gas.tariff <= sources.tariff
       BY <1>1, <1>2, <1>3, <1>5, <2>2, <3>1, RefreshedLater
    <3>3. reports' = [reports EXCEPT ![r] = new]
       BY <1>1, <2>2, <3>1
    <3> QED
       BY <1>1, <1>3, <1>4, <1>5, <3>2, <3>3 DEF Dated, Later
  <2> QED
     BY <2>1, <2>2
<1>7. /\ pub'[p] = after /\ \A q \in Publishers \ {p} : pub'[q] = pub[q]
   BY <1>1 DEF Set, TypeOK
<1>8. after.item = r /\ after.report = reports'[r] /\ after.step = "render"
   BY <1>2 DEF Runs
<1>9. PICK next : next = pub'[p]
   OBVIOUS
<1>10. next.item = r /\ next.report = reports'[r] /\ next.step = "render"
  <2> HIDE DEF after
  <2> QED
     BY <1>7, <1>8, <1>9
<1> HIDE DEF after
<1>11. reports'[r] \in Bodies /\ NotBefore(reports'[r], reports'[r]) /\ NotBefore(reports'[r], reports[r])
   BY <1>3, <1>4, <1>6, Ordered DEF Later
<1>12. Putting(next, reports', pages', sources')
   BY <1>3, <1>10, <1>11 DEF Putting
<1>13. ASSUME NEW q \in Publishers
       PROVE  Putting(pub'[q], reports', pages', sources')
  <2>1. CASE q = p
     BY <1>9, <1>12, <2>1
  <2>2. CASE q # p
    <3>1. Putting(pub[q], reports, pages, sources) /\ pub[q] \in Runs
       BY DEF PagesInv, TypeOK
    <3>2. /\ sources' = sources /\ pages' = pages
          /\ pages \in [Reports -> [etag : Nat, page : Pages0]]
       BY <1>1 DEF TypeOK
    <3> QED
       BY <1>4, <1>6, <1>7, <2>2, <3>1, <3>2, PuttingLater
  <2> QED
     BY <2>1, <2>2
<1>14. Shown'
  <2>1. ASSUME NEW s \in Reports, pages[s].etag > 0
        PROVE  Past(pages[s].page, s, reports', sources')
    <3>1. Past(pages[s].page, s, reports, sources) /\ sources' \in Sources
       BY <1>1, <1>4, <1>5, <2>1 DEF Shown
    <3> QED
       BY <1>4, <1>6, <3>1, PastLater
  <2> QED
     BY <1>1, <2>1 DEF Shown
<1>15. ASSUME lease \in Publishers
       PROVE  Leads(lease)'
  <2>1. CASE lease = p
    <3>1. pages[r].etag > 0 => NotBefore(reports'[r], pages[r].page.report)
       BY <1>3, <1>4, <1>5, <1>11, Ordered DEF Shown, Past
    <3>2. ASSUME NEW q \in Publishers \ {p}, pub[q].item = r
          PROVE  NotBefore(reports'[r], pub[q].report)
       BY <1>3, <1>4, <1>11, <3>2, Ordered DEF PagesInv, Putting
    <3> QED
       BY <1>1, <1>7, <1>9, <1>10, <2>1, <3>1, <3>2 DEF Leads
  <2>2. CASE lease # p
    <3>1. Leads(lease) /\ pub'[lease] = pub[lease]
       BY <1>7, <1>15, <2>2 DEF PagesInv
    <3> QED
       BY <1>1, <1>7, <1>9, <1>10, <2>2, <3>1 DEF Leads
  <2> QED
     BY <2>1, <2>2
<1> QED
   BY <1>1, <1>6, <1>13, <1>14, <1>15 DEF PagesInv

LEMMA PutPagePages ==
  ASSUME TypeOK, TypeOK', PagesInv, NEW p \in Publishers, PutPage(p)
  PROVE  PagesInv'
<1> DEFINE run == pub[p]
           r == run.item
           done == [dirty |-> {}, digest |-> run.report, etag |-> pages[r].etag + 1,
                    shown |-> run.page]
           after == [run EXCEPT !.step = "next", !.item = Nobody, !.items[r] = done,
                                !.page = NoPage, !.report = NoPage, !.raced = FALSE, !.etag = 0,
                                !.events.completed = @ + 1]
<1>1. /\ Set(p, after) /\ run.step = "put" /\ r # Nobody
      /\ pages' = [pages EXCEPT ![r] = [etag |-> @.etag + 1, page |-> run.page]]
      /\ UNCHANGED <<rev, sources, reports, lease>>
   BY DEF PutPage, world
<1>2. run \in Runs /\ r \in Reports /\ pages \in [Reports -> [etag : Nat, page : Pages0]]
      /\ pages' \in [Reports -> [etag : Nat, page : Pages0]]
   BY <1>1 DEF TypeOK, Runs
<1>3. /\ pub'[p] = after /\ \A q \in Publishers \ {p} : pub'[q] = pub[q]
   BY <1>1 DEF Set, TypeOK
<1>4. after.item = Nobody
   BY <1>2 DEF Runs
<1>5. PICK next : next = pub'[p]
   OBVIOUS
<1>6. next.item = Nobody
  <2> HIDE DEF after
  <2> QED
     BY <1>3, <1>4, <1>5
<1> HIDE DEF after
<1>7. /\ \A s \in Reports : s # r => pages'[s] = pages[s]
      /\ pages'[r].page = run.page /\ pages'[r].etag > pages[r].etag
   BY <1>1, <1>2
<1>8. Past(run.page, r, reports, sources) /\ run.page.report = run.report
   BY <1>1 DEF PagesInv, Putting
<1>9. Dated' /\ Shown'
   BY <1>1, <1>7, <1>8 DEF PagesInv, Dated, Shown
<1>10. Later(reports, sources, reports', sources')
   BY <1>1, Ordered DEF Later, TypeOK, Sources
<1>11. ASSUME NEW q \in Publishers
       PROVE  Putting(pub'[q], reports', pages', sources')
  <2>1. CASE q = p
     BY <1>5, <1>6, <2>1 DEF Putting
  <2>2. CASE q # p
    <3>1. Putting(pub[q], reports, pages, sources) /\ pub[q] \in Runs
       BY DEF PagesInv, TypeOK
    <3>2. /\ reports \in [Reports -> Bodies] /\ reports' \in [Reports -> Bodies]
          /\ sources \in Sources /\ sources' \in Sources
          /\ \A s \in Reports : pages'[s] = pages[s] \/ pages'[s].etag > pages[s].etag
       BY <1>7 DEF TypeOK
    <3> QED
       BY <1>2, <1>3, <1>10, <2>2, <3>1, <3>2, PuttingLater
  <2> QED
     BY <2>1, <2>2
<1>12. ASSUME lease \in Publishers
       PROVE  Leads(lease)'
  <2>1. CASE lease = p
     BY <1>1, <1>5, <1>6, <2>1 DEF Leads
  <2>2. CASE lease # p
    <3>1. Leads(lease) /\ pub'[lease] = pub[lease] /\ pub[lease].item \in Reports \cup {Nobody}
       BY <1>3, <1>12, <2>2 DEF PagesInv, TypeOK, Runs
    <3>2. \A q \in Publishers \ {lease} : pub'[q].item # Nobody => pub'[q] = pub[q]
       BY <1>3, <1>5, <1>6
    <3>3. ASSUME pub[lease].step \in {"refresh", "render"}, pub[lease].item = r
          PROVE  NotBefore(pub[lease].report, pages'[r].page.report)
       BY <1>1, <1>7, <1>8, <2>2, <3>1, <3>3 DEF Leads
    <3> QED
       BY <1>1, <1>7, <3>1, <3>2, <3>3 DEF Leads
  <2> QED
     BY <2>1, <2>2
<1> QED
   BY <1>1, <1>9, <1>11, <1>12 DEF PagesInv

\* What a load leaves of a run as it was.
LEMMA LoadShape ==
  ASSUME TypeOK, NEW p \in Publishers, Load(p)
  PROVE  \E next : /\ Set(p, next)
                   /\ next.item = pub[p].item /\ next.step = "next"
                   /\ next.meta.manifest = meta.manifest
<1> DEFINE run == pub[p]
           loaded == LoadedItems(run)
           m == [meta EXCEPT !.checkpoint = run.upper, !.model = LoadedModel(run),
                             !.config = run.config]
           after(batch) ==
             [run EXCEPT
                !.step = "next",
                !.old = meta,
                !.meta = [meta EXCEPT !.checkpoint = run.upper, !.model = LoadedModel(run),
                                      !.config = run.config],
                !.prev = Stored(run), !.items = loaded,
                !.partial = Partial(run), !.recovering = Recovering(run),
                !.snap = IF Recalibrated(run) \/ \E r \in batch : loaded[r].dirty # {"render"}
                         THEN GasInputs(sources) ELSE NoInputs,
                !.todo = batch,
                !.events = Events(Stored(run), loaded)]
<1>1. PICK batch : Set(p, after(batch))
   BY DEF Load
<1>2. run \in Runs
   BY DEF TypeOK
<1>3. after(batch).item = run.item /\ after(batch).step = "next" /\ after(batch).meta = m
   BY <1>2 DEF Runs
<1>4. m.manifest = meta.manifest
   BY DEF TypeOK, Metas
<1> HIDE DEF after, m
<1> QED
   BY <1>1, <1>3, <1>4

\* The other steps of a run leave the world and the pages.
LEMMA PagesStep ==
  ASSUME TypeOK, TypeOK', PagesInv, [Next]_vars
  PROVE  PagesInv'
<1>1. CASE UNCHANGED vars
  <2>1. UNCHANGED <<rev, sources, reports, pages, lease, pub>>
     BY <1>1 DEF vars
  <2> QED
     BY <2>1 DEF PagesInv, Dated, Shown, Leads
<1>2. ASSUME NEW p \in Publishers, NEW next, Set(p, next), next.item = Nobody,
             UNCHANGED <<rev, sources, reports, pages>>, lease' \in {lease, Nobody, p}
      PROVE  PagesInv'
   BY <1>2, AsidePages DEF Set, TypeOK
<1>3. ASSUME NEW p \in Publishers, Leave(p), UNCHANGED <<rev, sources, reports, pages>>
      PROVE  PagesInv'
  <2>1. Idle.item = Nobody /\ Set(p, Idle) /\ lease' \in {lease, Nobody, p}
     BY <1>3 DEF Leave, Idle
  <2> HIDE DEF Idle
  <2> QED
     BY <1>2, <1>3, <2>1
<1>4. ASSUME NEW p \in Publishers, Begin(p) \/ Crash(p)
      PROVE  PagesInv'
  <2> DEFINE begun == [Idle EXCEPT !.step = IF NothingToDo THEN "index" ELSE "load",
                                   !.upper = rev, !.config = sources.config]
  <2>1. Idle.item = Nobody /\ begun.item = Nobody
     BY DEF Idle
  <2>2. Set(p, Idle) \/ Set(p, begun)
     BY <1>4 DEF Begin, Crash
  <2>3. lease' \in {lease, Nobody, p} /\ UNCHANGED <<rev, sources, reports, pages>>
     BY <1>4 DEF Begin, Crash, world, bucket
  <2> HIDE DEF begun
  <2> QED
     BY <1>2, <2>1, <2>2, <2>3
<1>5. ASSUME NEW p \in Publishers, Load(p)
      PROVE  PagesInv'
  <2>1. pub[p] \in Runs /\ pub[p].item = Nobody
     BY <1>5 DEF TypeOK, PagesInv, Putting, Load
  <2>2. PICK next : Set(p, next) /\ next.item = pub[p].item
     BY <1>5, LoadShape
  <2>3. lease' = lease /\ UNCHANGED <<rev, sources, reports, pages>>
     BY <1>5 DEF Load, world, bucket
  <2> QED
     BY <1>2, <2>1, <2>2, <2>3
<1>6. ASSUME NEW p \in Publishers, Finish(p)
      PROVE  PagesInv'
  <2>1. pub[p] \in Runs /\ pub[p].item = Nobody
     BY <1>6 DEF TypeOK, PagesInv, Putting, Finish
  <2>2. /\ pub'[p].item = pub[p].item /\ \A q \in Publishers \ {p} : pub'[q] = pub[q]
        /\ lease' = lease /\ UNCHANGED <<rev, sources, reports, pages>>
     BY <1>6, <2>1 DEF Finish, Set, TypeOK, Runs, world, bucket
  <2> QED
     BY <2>1, <2>2, AsidePages
<1>7. ASSUME NEW p \in Publishers, PutManifest(p)
      PROVE  PagesInv'
  <2>1. pub[p] \in Runs /\ pub[p].item = Nobody
     BY <1>7 DEF TypeOK, PutManifest
  <2>2. /\ pub'[p].item = pub[p].item /\ \A q \in Publishers \ {p} : pub'[q] = pub[q]
        /\ lease' = lease /\ UNCHANGED <<rev, sources, reports, pages>>
     BY <1>7, <2>1 DEF PutManifest, Set, TypeOK, Runs, world
  <2> QED
     BY <2>1, <2>2, AsidePages
<1>8. ASSUME NEW p \in Publishers, Conflict(p) \/ Refuse(p)
      PROVE  PagesInv'
   BY <1>3, <1>8 DEF Conflict, Refuse, Fail, world, bucket
<1>9. ASSUME NEW p \in Publishers, Save(p)
      PROVE  PagesInv'
  <2>1. ToIndex.item = Nobody
     BY DEF ToIndex, Idle
  <2>2. /\ UNCHANGED <<rev, sources, reports, pages, lease>>
        /\ Set(p, ToIndex) \/ UNCHANGED pub
     BY <1>9 DEF Save, world, bucket
  <2>3. CASE Set(p, ToIndex)
     BY <1>2, <2>1, <2>2, <2>3
  <2>4. CASE UNCHANGED pub
     BY <2>2, <2>4 DEF PagesInv, Dated, Shown, Leads
  <2> QED
     BY <2>2, <2>3, <2>4
<1>10. ASSUME NEW p \in Publishers, IndexRead(p)
       PROVE  PagesInv'
  <2>1. pub[p] \in Runs
     BY DEF TypeOK
  <2>2. /\ pub'[p].item = pub[p].item /\ pub'[p].report = pub[p].report
        /\ pub'[p].step = "committed"
        /\ \A q \in Publishers \ {p} : pub'[q] = pub[q]
        /\ lease' = lease /\ UNCHANGED <<rev, sources, reports, pages>>
     BY <1>10, <2>1 DEF IndexRead, Set, TypeOK, Runs, world, bucket
  <2> QED
     BY <2>2, AsidePages
<1>11. ASSUME NEW p \in Publishers, IndexCommitted(p)
       PROVE  PagesInv'
  <2>1. CASE Leave(p)
     BY <1>3, <1>11, <2>1 DEF IndexCommitted, world, bucket
  <2>2. CASE ~Leave(p)
    <3>1. pub[p] \in Runs
       BY DEF TypeOK
    <3>2. /\ Set(p, [pub[p] EXCEPT !.step = "project", !.shows = meta.manifest])
          /\ lease' = lease /\ UNCHANGED <<rev, sources, reports, pages>>
       BY <1>11, <2>2 DEF IndexCommitted, world, bucket
    <3>3. /\ pub'[p].item = pub[p].item /\ pub'[p].report = pub[p].report
          /\ pub'[p].step = "project"
          /\ \A q \in Publishers \ {p} : pub'[q] = pub[q]
       BY <3>1, <3>2 DEF Set, TypeOK, Runs
    <3> QED
       BY <3>2, <3>3, AsidePages
  <2> QED
     BY <2>1, <2>2
<1>12. ASSUME NEW p \in Publishers, IndexPut(p)
       PROVE  PagesInv'
  <2> DEFINE again == [ToIndex EXCEPT !.tries = pub[p].tries + 1]
  <2>1. again.item = Nobody
     BY DEF ToIndex, Idle
  <2>2. UNCHANGED <<rev, sources, reports, pages>> /\ (Leave(p) \/ (Set(p, again) /\ lease' = lease))
     BY <1>12 DEF IndexPut, world
  <2> HIDE DEF again
  <2> QED
     BY <1>2, <1>3, <2>1, <2>2
<1>13. ASSUME NEW p \in Publishers, Run(p)
       PROVE  PagesInv'
   BY <1>5, <1>6, <1>7, <1>8, <1>9, <1>10, <1>11, <1>12, <1>13,
      TakePages, RefreshPages, PreparePages, PutPagePages DEF Run
<1> QED
   BY <1>1, <1>4, <1>13, OutsidePages, ChangePages DEF Next

-----------------------------------------------------------------------------
(* The browser index: the manifest it shows is committed, and the one that  *)
(* is committed was written.                                                *)

\* A run that projects has read the index before the committed manifest.
Projecting(run, idx, committed) ==
    /\ run.step = "committed" =>
          run.etag <= idx.etag /\ (run.etag = idx.etag => run.shows = idx.shows)
    /\ run.step = "project" =>
          /\ run.etag <= idx.etag /\ (run.etag = idx.etag => run.shows >= idx.shows)
          /\ run.shows <= committed

\* What the holder of the lease will commit.
Commits(run, committed, written) ==
    run.step \in Loaded =>
        committed <= run.meta.manifest /\ run.meta.manifest <= written

IndexInv ==
    /\ index.shows <= meta.manifest /\ meta.manifest <= manifest.etag
    /\ \A q \in Publishers : Projecting(pub[q], index, meta.manifest)
    /\ lease \in Publishers => Commits(pub[lease], meta.manifest, manifest.etag)

LEMMA InitIndex ==
  ASSUME Init
  PROVE  IndexInv
<1>1. index.shows <= meta.manifest /\ meta.manifest <= manifest.etag
  <2>1. CASE NeverPublished
     BY <2>1 DEF NeverPublished, NoMeta
  <2>2. CASE AllUpToDate
    <3>1. meta.manifest = 1 /\ manifest.etag = 1 /\ index.shows = 1
       BY <2>2 DEF AllUpToDate, NoMeta
    <3> QED
       BY <3>1
  <2> QED
     BY <2>1, <2>2 DEF Init
<1>2. \A q \in Publishers : Projecting(pub[q], index, meta.manifest)
   BY DEF Init, Idle, Projecting
<1>3. lease \notin Publishers
   BY PublishersAssumption DEF Init
<1> QED
   BY <1>1, <1>2, <1>3 DEF IndexInv

LEMMA IndexNumbers ==
  ASSUME TypeOK
  PROVE  /\ index.etag \in Nat /\ index.shows \in Nat /\ manifest.etag \in Nat
         /\ meta.manifest \in Nat
         /\ \A q \in Publishers : /\ pub[q].etag \in Nat /\ pub[q].shows \in Nat
                                  /\ pub[q].meta \in Metas /\ pub[q].meta.manifest \in Nat
BY DEF TypeOK, Runs, Metas

\* A step of p that commits nothing and leaves the index alone.
LEMMA AsideIndex ==
  ASSUME TypeOK, TypeOK', IndexInv, NEW p \in Publishers, UNCHANGED <<meta, index>>,
         manifest'.etag >= manifest.etag,
         \A q \in Publishers \ {p} : pub'[q] = pub[q],
         Projecting(pub'[p], index, meta.manifest),
         lease' \in {lease, Nobody, p},
         lease' = p => Commits(pub'[p], meta.manifest, manifest'.etag)
  PROVE  IndexInv'
<1>1. /\ index.shows <= meta.manifest /\ meta.manifest <= manifest.etag
      /\ \A q \in Publishers : Projecting(pub[q], index, meta.manifest)
   BY DEF IndexInv
<1>2. meta'.manifest <= manifest'.etag /\ index'.shows <= meta'.manifest
   BY <1>1, IndexNumbers, manifest'.etag \in Nat DEF TypeOK
<1>3. ASSUME lease' \in Publishers
      PROVE  Commits(pub'[lease'], meta.manifest, manifest'.etag)
  <2>1. CASE lease' = p
     BY <2>1
  <2>2. CASE lease' # p
    <3>1. lease' = lease /\ lease \in Publishers /\ pub'[lease] = pub[lease]
       BY <1>3, <2>2, PublishersAssumption
    <3>2. Commits(pub[lease], meta.manifest, manifest.etag)
       BY <3>1 DEF IndexInv
    <3>3. manifest'.etag \in Nat
       BY DEF TypeOK
    <3>4. Commits(pub[lease], meta.manifest, manifest'.etag)
       BY <3>1, <3>2, <3>3, IndexNumbers DEF Commits
    <3> QED
       BY <3>1, <3>4
  <2> QED
     BY <2>1, <2>2
<1> QED
   BY <1>1, <1>2, <1>3 DEF IndexInv

\* A run that has neither loaded nor read the index asks for nothing.
LEMMA NothingToIndex ==
  ASSUME TypeOK, TypeOK', IndexInv, NEW p \in Publishers, NEW next, Set(p, next),
         next.step \in {"idle", "load", "index"}, UNCHANGED <<meta, manifest, index>>,
         lease' \in {lease, Nobody, p}
  PROVE  IndexInv'
<1>1. pub'[p] = next /\ \A q \in Publishers \ {p} : pub'[q] = pub[q]
   BY DEF Set, TypeOK
<1>2. Projecting(pub'[p], index, meta.manifest) /\ Commits(pub'[p], meta.manifest, manifest'.etag)
   BY <1>1 DEF Projecting, Commits, Loaded
<1>3. manifest'.etag >= manifest.etag
   BY IndexNumbers
<1> QED
   BY <1>1, <1>2, <1>3, AsideIndex

\* A run goes on with what it loaded.
LEMMA GoingOn ==
  ASSUME TypeOK, TypeOK', IndexInv, NEW p \in Publishers, UNCHANGED <<meta, manifest, index, lease>>,
         \A q \in Publishers \ {p} : pub'[q] = pub[q],
         pub[p].step \in Loaded, pub'[p].step \in Loaded,
         pub'[p].meta.manifest = pub[p].meta.manifest
  PROVE  IndexInv'
<1>1. Projecting(pub'[p], index, meta.manifest)
   BY DEF Projecting, Loaded
<1>2. lease' = p => Commits(pub'[p], meta.manifest, manifest'.etag)
   BY DEF IndexInv, Commits
<1>3. manifest'.etag >= manifest.etag
   BY IndexNumbers
<1> QED
   BY <1>1, <1>2, <1>3, AsideIndex

LEMMA LoadIndex ==
  ASSUME TypeOK, TypeOK', IndexInv, NEW p \in Publishers, Load(p)
  PROVE  IndexInv'
<1>1. PICK next : Set(p, next) /\ next.step = "next" /\ next.meta.manifest = meta.manifest
   BY LoadShape
<1>2. pub'[p] = next /\ \A q \in Publishers \ {p} : pub'[q] = pub[q]
   BY <1>1 DEF Set, TypeOK
<1>3. UNCHANGED <<meta, manifest, index, lease>>
   BY DEF Load, stored, bucket
<1>4. Projecting(next, index, meta.manifest)
   BY <1>1 DEF Projecting
<1>5. Commits(next, meta.manifest, manifest.etag)
   BY <1>1, IndexNumbers DEF IndexInv, Commits
<1>6. manifest'.etag >= manifest.etag
   BY <1>3, IndexNumbers
<1> QED
   BY <1>2, <1>3, <1>4, <1>5, <1>6, AsideIndex

LEMMA RenderIndex ==
  ASSUME TypeOK, TypeOK', IndexInv, NEW p \in Publishers,
         Take(p) \/ Refresh(p) \/ Prepare(p) \/ PutPage(p) \/ Finish(p)
  PROVE  IndexInv'
<1>1. pub[p] \in Runs /\ pub[p].meta \in Metas
   BY DEF TypeOK, Runs
<1>2. UNCHANGED <<meta, manifest, index, lease>> /\ \A q \in Publishers \ {p} : pub'[q] = pub[q]
   BY DEF Take, Refresh, Prepare, PutPage, Finish, Set, TypeOK, stored, bucket
<1>3. CASE Take(p)
  <2> DEFINE run == pub[p]
             taken(r) == [run EXCEPT !.item = r, !.todo = @ \ {r},
                                     !.report = reports[r], !.raced = FALSE]
             after(r) == [taken(r) EXCEPT !.step = IF Derived(taken(r)) THEN "refresh" ELSE "render"]
  <2>1. PICK r \in run.todo : pub'[p] = after(r)
     BY <1>3 DEF Take, Set, TypeOK
  <2>2. after(r).step \in {"refresh", "render"} /\ after(r).meta = run.meta /\ run.step = "next"
     BY <1>1, <1>3 DEF Take, Runs
  <2> HIDE DEF after
  <2> QED
     BY <1>2, <2>1, <2>2, GoingOn DEF Loaded
<1>4. CASE Refresh(p)
  <2> DEFINE run == pub[p]
             after == [run EXCEPT
                        !.step = "render",
                        !.report = reports'[run.item], !.raced = ~Persisted(run),
                        !.items = Marked(run), !.prev = Widened(run.prev, Missed(run)),
                        !.events.requeued = @ + Cardinality(Again(run)),
                        !.meta.model = IF "gas" \in run.items[run.item].dirty
                                       THEN Remembered(@, run.snap.model, run.upper) ELSE @]
  <2>1. pub'[p] = after /\ run.step = "refresh"
     BY <1>4 DEF Refresh, Set, TypeOK
  <2>2. after.step = "render" /\ after.meta.manifest = run.meta.manifest
     BY <1>1 DEF Runs, Metas
  <2> HIDE DEF after
  <2> QED
     BY <1>2, <2>1, <2>2, GoingOn DEF Loaded
<1>5. CASE Prepare(p)
  <2>1. pub'[p].step = "put" /\ pub'[p].meta = pub[p].meta /\ pub[p].step = "render"
     BY <1>1, <1>5 DEF Prepare, Set, TypeOK, Runs
  <2> QED
     BY <1>2, <2>1, GoingOn DEF Loaded
<1>6. CASE PutPage(p)
  <2>1. pub'[p].step = "next" /\ pub'[p].meta = pub[p].meta /\ pub[p].step = "put"
     BY <1>1, <1>6 DEF PutPage, Set, TypeOK, Runs
  <2> QED
     BY <1>2, <2>1, GoingOn DEF Loaded
<1>7. CASE Finish(p)
  <2>1. /\ pub'[p].step \in {"put", "save"} /\ pub'[p].meta.manifest = pub[p].meta.manifest
        /\ pub[p].step = "next"
     BY <1>1, <1>7 DEF Finish, Set, TypeOK, Runs, Metas
  <2> QED
     BY <1>2, <2>1, GoingOn DEF Loaded
<1> QED
   BY <1>3, <1>4, <1>5, <1>6, <1>7

LEMMA ManifestIndex ==
  ASSUME TypeOK, TypeOK', IndexInv, NEW p \in Publishers, PutManifest(p)
  PROVE  IndexInv'
<1>1. pub[p] \in Runs /\ pub[p].meta \in Metas
   BY DEF TypeOK, Runs
<1>2. /\ UNCHANGED <<meta, index, lease>> /\ \A q \in Publishers \ {p} : pub'[q] = pub[q]
      /\ manifest'.etag = manifest.etag + 1
      /\ pub'[p].step = "save" /\ pub'[p].meta.manifest = manifest.etag + 1
   BY <1>1 DEF PutManifest, Set, TypeOK, Runs, Metas, stored
<1>3. Projecting(pub'[p], index, meta.manifest)
   BY <1>2 DEF Projecting
<1>4. meta.manifest <= manifest.etag
   BY DEF IndexInv
<1>5. Commits(pub'[p], meta.manifest, manifest'.etag)
   BY <1>2, <1>4, IndexNumbers DEF Commits
<1>6. manifest'.etag >= manifest.etag
   BY <1>2, IndexNumbers
<1> QED
   BY <1>2, <1>3, <1>5, <1>6, AsideIndex

\* Only the holder of the lease commits, and not an older manifest.
LEMMA SaveIndex ==
  ASSUME TypeOK, TypeOK', IndexInv, NEW p \in Publishers, Save(p)
  PROVE  IndexInv'
<1>1. lease = p /\ pub[p].step = "save" /\ UNCHANGED <<manifest, index, lease>>
   BY DEF Save, Fenced, bucket
<1>2. ToIndex.step = "index"
   BY DEF ToIndex, Idle
<1>3. CASE meta' = meta
  <2>1. CASE Set(p, ToIndex)
     BY <1>1, <1>2, <1>3, <2>1, NothingToIndex
  <2>2. CASE UNCHANGED pub
     BY <1>1, <1>3, <2>2 DEF IndexInv
  <2> QED
     BY <2>1, <2>2 DEF Save
<1>4. CASE meta' = pub[p].meta
  <2>1. /\ meta.manifest <= meta'.manifest /\ meta'.manifest <= manifest.etag
        /\ index.shows <= meta.manifest
     BY <1>1, <1>4 DEF IndexInv, Commits, Loaded
  <2>2. index.shows <= meta'.manifest /\ meta'.manifest \in Nat
     BY <1>4, <2>1, IndexNumbers
  <2>3. \A q \in Publishers : Projecting(pub[q], index, meta'.manifest)
     BY <2>1, <2>2, IndexNumbers DEF IndexInv, Projecting
  <2>4. Commits(pub[p], meta'.manifest, manifest.etag)
     BY <1>4, <2>1, <2>2 DEF Commits
  <2>5. pub' = pub \/ (pub'[p] = ToIndex /\ \A q \in Publishers \ {p} : pub'[q] = pub[q])
     BY DEF Save, Set, TypeOK
  <2>6. Projecting(ToIndex, index, meta'.manifest) /\ Commits(ToIndex, meta'.manifest, manifest.etag)
     BY <1>2 DEF Projecting, Commits, Loaded
  <2> QED
     BY <1>1, <2>1, <2>2, <2>3, <2>4, <2>5, <2>6 DEF IndexInv
<1> QED
   BY <1>3, <1>4 DEF Save, stored

\* The projection: first the index is read, then what is committed; the index
\* is put where it is as it was read.
LEMMA ProjectIndex ==
  ASSUME TypeOK, TypeOK', IndexInv, NEW p \in Publishers,
         IndexRead(p) \/ IndexCommitted(p) \/ IndexPut(p)
  PROVE  IndexInv'
<1> DEFINE run == pub[p]
<1>1. run \in Runs
   BY DEF TypeOK
<1>2. UNCHANGED <<meta, manifest>>
   BY DEF IndexRead, IndexCommitted, IndexPut, stored, bucket
<1>3. ASSUME Leave(p), UNCHANGED index
      PROVE  IndexInv'
   BY <1>2, <1>3, NothingToIndex DEF Leave, Idle
<1>4. CASE IndexRead(p)
  <2>1. /\ UNCHANGED <<index, lease>> /\ \A q \in Publishers \ {p} : pub'[q] = pub[q]
        /\ pub'[p].step = "committed" /\ pub'[p].etag = index.etag /\ pub'[p].shows = index.shows
     BY <1>1, <1>4 DEF IndexRead, Set, TypeOK, Runs, bucket
  <2>2. Projecting(pub'[p], index, meta.manifest)
     BY <2>1, IndexNumbers DEF Projecting
  <2>3. Commits(pub'[p], meta.manifest, manifest'.etag)
     BY <2>1 DEF Commits, Loaded
  <2>4. manifest'.etag >= manifest.etag
     BY <1>2, IndexNumbers
  <2> QED
     BY <1>2, <2>1, <2>2, <2>3, <2>4, AsideIndex
<1>5. CASE IndexCommitted(p)
  <2>1. CASE Leave(p)
     BY <1>3, <1>5, <2>1 DEF IndexCommitted, bucket
  <2>2. CASE ~Leave(p)
    <3> DEFINE after == [run EXCEPT !.step = "project", !.shows = meta.manifest]
    <3>0. /\ run.step = "committed" /\ UNCHANGED <<index, lease>> /\ Set(p, after)
       BY <1>5, <2>2 DEF IndexCommitted, bucket
    <3>1. /\ run.step = "committed" /\ UNCHANGED <<index, lease>>
          /\ \A q \in Publishers \ {p} : pub'[q] = pub[q]
          /\ pub'[p].step = "project" /\ pub'[p].etag = run.etag /\ pub'[p].shows = meta.manifest
       BY <1>1, <3>0 DEF Set, TypeOK, Runs
    <3>2. run.etag <= index.etag /\ index.shows <= meta.manifest
       BY <3>1 DEF IndexInv, Projecting
    <3>3. Projecting(pub'[p], index, meta.manifest)
       BY <3>1, <3>2, IndexNumbers DEF Projecting
    <3>4. Commits(pub'[p], meta.manifest, manifest'.etag)
       BY <3>1 DEF Commits, Loaded
    <3>5. manifest'.etag >= manifest.etag
       BY <1>2, IndexNumbers
    <3> QED
       BY <1>2, <3>1, <3>3, <3>4, <3>5, AsideIndex
  <2> QED
     BY <2>1, <2>2
<1>6. CASE IndexPut(p)
  <2>1. CASE index' = index
    <3> DEFINE again == [ToIndex EXCEPT !.tries = run.tries + 1]
    <3>1. again.step = "index"
       BY DEF ToIndex, Idle
    <3>2. Leave(p) \/ (Set(p, again) /\ lease' = lease)
       BY <1>6 DEF IndexPut
    <3> HIDE DEF again
    <3> QED
       BY <1>2, <1>3, <2>1, <3>1, <3>2, NothingToIndex
  <2>2. CASE index' # index
    <3>1. /\ run.step = "project" /\ run.etag = index.etag
          /\ index' = [etag |-> index.etag + 1, shows |-> run.shows] /\ Leave(p)
       BY <1>6, <2>2 DEF IndexPut, Matches
    <3>2. /\ pub'[p] = Idle /\ \A q \in Publishers \ {p} : pub'[q] = pub[q]
          /\ lease' \in {lease, Nobody} /\ (lease' = lease => lease # p \/ p = Nobody)
       BY <3>1 DEF Leave, Set, TypeOK
    <3>3. run.shows <= meta.manifest /\ meta.manifest <= manifest.etag
       BY <3>1 DEF IndexInv, Projecting
    <3>4. ASSUME NEW q \in Publishers
          PROVE  Projecting(pub'[q], index', meta'.manifest)
      <4>1. CASE q = p
         BY <3>2, <4>1 DEF Projecting, Idle
      <4>2. CASE q # p
        <5>1. Projecting(pub[q], index, meta.manifest) /\ pub'[q] = pub[q]
           BY <3>2, <4>2 DEF IndexInv
        <5>2. index'.etag = index.etag + 1
           BY <3>1
        <5> QED
           BY <1>2, <5>1, <5>2, IndexNumbers DEF Projecting
      <4> QED
         BY <4>1, <4>2
    <3>5. ASSUME lease' \in Publishers
          PROVE  Commits(pub'[lease'], meta'.manifest, manifest'.etag)
      <4>1. lease' = lease /\ lease \in Publishers /\ lease # p /\ pub'[lease] = pub[lease]
         BY <3>2, <3>5, PublishersAssumption
      <4> QED
         BY <1>2, <4>1 DEF IndexInv
    <3> QED
       BY <1>2, <3>1, <3>3, <3>4, <3>5 DEF IndexInv
  <2> QED
     BY <2>1, <2>2
<1> QED
   BY <1>4, <1>5, <1>6

LEMMA IndexStep ==
  ASSUME TypeOK, TypeOK', IndexInv, [Next]_vars
  PROVE  IndexInv'
<1>1. CASE UNCHANGED vars \/ Change
  <2>1. UNCHANGED <<meta, manifest, index, lease, pub>>
     BY <1>1 DEF vars, Change, SaveReport, Feedback, Telemetry, Tariff, Configure, Journalled
  <2> QED
     BY <2>1 DEF IndexInv
<1>2. CASE Expire \/ Damage
  <2>1. /\ UNCHANGED <<meta, index, pub>> /\ lease' \in {lease, Nobody}
        /\ manifest'.etag \in {manifest.etag, manifest.etag + 1}
     BY <1>2 DEF Expire, Damage, stored, bucket, TypeOK
  <2>2. ASSUME lease' \in Publishers
        PROVE  Commits(pub[lease'], meta.manifest, manifest'.etag)
    <3>1. lease' = lease /\ Commits(pub[lease], meta.manifest, manifest.etag)
       BY <2>1, <2>2, PublishersAssumption DEF IndexInv
    <3> QED
       BY <2>1, <2>2, <3>1, IndexNumbers DEF Commits
  <2>3. meta.manifest <= manifest'.etag
     BY <2>1, IndexNumbers DEF IndexInv
  <2> QED
     BY <2>1, <2>2, <2>3 DEF IndexInv
<1>3. ASSUME NEW p \in Publishers, Leave(p), UNCHANGED <<meta, manifest, index>>
      PROVE  IndexInv'
   BY <1>3, NothingToIndex DEF Leave, Idle
<1>4. ASSUME NEW p \in Publishers, Begin(p) \/ Crash(p)
      PROVE  IndexInv'
  <2> DEFINE begun == [Idle EXCEPT !.step = IF NothingToDo THEN "index" ELSE "load",
                                   !.upper = rev, !.config = sources.config]
  <2>1. Idle.step = "idle" /\ begun.step \in {"index", "load"}
     BY DEF Idle
  <2>2. Set(p, Idle) \/ Set(p, begun)
     BY <1>4 DEF Begin, Crash
  <2>3. lease' \in {lease, Nobody, p} /\ UNCHANGED <<meta, manifest, index>>
     BY <1>4 DEF Begin, Crash, stored, bucket
  <2> HIDE DEF begun
  <2> QED
     BY <2>1, <2>2, <2>3, NothingToIndex
<1>5. ASSUME NEW p \in Publishers, Run(p)
      PROVE  IndexInv'
   BY <1>3, <1>5, LoadIndex, RenderIndex, ManifestIndex, SaveIndex, ProjectIndex
      DEF Run, Conflict, Refuse, Fail, stored, bucket
<1> QED
   BY <1>1, <1>2, <1>4, <1>5 DEF Next

\* What a step may do to an object.
LEMMA ObjectsStep ==
  ASSUME TypeOK, TypeOK', PagesInv, IndexInv, Next
  PROVE  /\ \A r \in Reports : pages[r].etag > 0 => NotOlder(pages'[r].page, pages[r].page)
         /\ index'.shows >= index.shows
         /\ index.shows <= meta.manifest
<1>1. ASSUME NEW r \in Reports, pages[r].etag > 0
      PROVE  NotOlder(pages'[r].page, pages[r].page)
  <2>1. CASE pages'[r].page = pages[r].page
    <3>1. pages[r].page \in Pages /\ pages[r].page.report \in Bodies
       BY <1>1 DEF PagesInv, Shown, Past
    <3> QED
       BY <2>1, <3>1, BodyTypes DEF NotOlder
  <2>2. CASE pages'[r].page # pages[r].page
    <3>1. pages' # pages /\ ~Damage
       BY <2>2 DEF Damage, TypeOK
    <3>2. PICK p \in Publishers : PutPage(p)
       BY <3>1 DEF Next, Run, Begin, Load, Take, Refresh, Prepare, Finish, PutManifest,
          Conflict, Save, Refuse, Fail, IndexRead, IndexCommitted, IndexPut, Crash, Expire,
          Change, SaveReport, Feedback, Telemetry, Tariff, Configure, Journalled, bucket
    <3>3. /\ pub[p].step = "put" /\ pub[p].item # Nobody
          /\ pages[pub[p].item].etag = pub[p].etag
          /\ pages' = [pages EXCEPT ![pub[p].item] = [etag |-> @.etag + 1, page |-> pub[p].page]]
       BY <3>2 DEF PutPage, Matches
    <3>4. pub[p].item = r
       BY <2>2, <3>3 DEF TypeOK
    <3>5. pages'[r].page = pub[p].page
       BY <3>3, <3>4 DEF TypeOK
    <3>6. Putting(pub[p], reports, pages, sources)
       BY DEF PagesInv
    <3> QED
       BY <1>1, <3>3, <3>4, <3>5, <3>6 DEF Putting
  <2> QED
     BY <2>1, <2>2
<1>2. index'.shows >= index.shows
  <2>1. CASE index' = index
     BY <2>1, IndexNumbers
  <2>2. CASE index' # index
    <3>1. PICK p \in Publishers : IndexPut(p)
       BY <2>2 DEF Next, Run, Begin, Load, Take, Refresh, Prepare, PutPage, Finish, PutManifest,
          Conflict, Save, Refuse, Fail, IndexRead, IndexCommitted, Crash, Expire, Damage,
          Change, SaveReport, Feedback, Telemetry, Tariff, Configure, Journalled, bucket
    <3>2. /\ pub[p].step = "project" /\ pub[p].etag = index.etag
          /\ index'.shows = pub[p].shows
       BY <2>2, <3>1 DEF IndexPut, Matches
    <3> QED
       BY <3>2 DEF IndexInv, Projecting
  <2> QED
     BY <2>1, <2>2
<1> QED
   BY <1>1, <1>2 DEF IndexInv

-----------------------------------------------------------------------------
(* An object never goes back: no page shows an older report, feedback,      *)
(* model, telemetry or tariff than it showed, and the browser index moves   *)
(* only to a newer committed manifest, whatever a publisher that lost its   *)
(* lease still writes.                                                      *)
THEOREM MovesForward == Spec => ObjectsForward
<1>1. Init => PagesInv /\ IndexInv
   BY InitPages, InitIndex
<1>2. TypeOK /\ TypeOK' /\ PagesInv /\ IndexInv /\ [Next]_vars => (PagesInv /\ IndexInv)'
   BY PagesStep, IndexStep
<1>3. TypeOK /\ TypeOK' /\ PagesInv /\ IndexInv /\ [Next]_vars
         => [/\ \A r \in Reports :
                   pages[r].etag > 0 => NotOlder(pages'[r].page, pages[r].page)
             /\ index'.shows >= index.shows
             /\ index.shows <= meta.manifest]_vars
   BY ObjectsStep
<1> QED
   BY <1>1, <1>2, <1>3, TypeCorrect, PTL DEF Spec, ObjectsForward
==============================================================================
