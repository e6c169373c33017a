--------------------------- MODULE TelemetryStore ---------------------------
(***************************************************************************)
(* What a telemetry transaction keeps consistent: samples and source       *)
(* events, the revision of the device, the durable bounds of all samples   *)
(* and the publication markers of the hours it changed                     *)
(* (adapters/ydb/telemetry.py:_write_window_batch,                         *)
(* _record_publication_change; adapters/ydb/sample_bounds.py).  Writers of *)
(* an earlier release go on working on the same tables, and the publisher  *)
(* acknowledges what it has published.                                     *)
(***************************************************************************)
EXTENDS Integers, FiniteSets, FiniteSetsExt, Functions

CONSTANTS Devices, EventIds, MaxTime, MaxWrites

Times == 0 .. MaxTime
Hour(t) == t \div 2
Hours == {Hour(t) : t \in Times}
Values == {1, 2}

VARIABLES
    samples,   \* <<device, time>> -> value of a boiler flag
    events,    \* rows of source_events
    revision,  \* scope telemetry:<device>
    bounds,    \* app_meta telemetry-bounds:v1, or Absent
    journal,   \* publication_changes of the scopes telemetry and telemetry-gas
    published, \* revision of the scope publication
    checkpoint,
    unseen,    \* calibration changes not acknowledged yet: a history variable
    writes

tables == <<samples, events, revision, bounds, journal, published, checkpoint, unseen>>
vars == <<samples, events, revision, bounds, journal, published, checkpoint, unseen, writes>>

Absent == [first |-> -1, last |-> -1, revisions |-> <<>>]
NoTime == -1

\* Payload of a marker: which time of the gas calibration may have changed.
Broad == <<>>            \* {}: anything
Neutral == <<-1, -1>>    \* {"calibration": false}
NoMarkers == [k \in {} |-> Broad]

Init ==
    /\ samples = [k \in {} |-> 0] /\ events = {}
    /\ revision = [d \in Devices |-> 0]
    /\ bounds = Absent /\ journal = NoMarkers
    /\ published = 0 /\ checkpoint = 0 /\ unseen = {} /\ writes = 0

-----------------------------------------------------------------------------
(* The durable bounds of all samples.                                      *)

TimesOf(kept) == {k[2] : k \in DOMAIN kept}

\* The first and last sample of every series, and the revisions they belong to.
Bootstrap(kept, actual) ==
    IF TimesOf(kept) = {} THEN [first |-> NoTime, last |-> NoTime, revisions |-> actual]
    ELSE [first |-> Min(TimesOf(kept)), last |-> Max(TimesOf(kept)), revisions |-> actual]

\* A slip: any bounds that exist are trusted.
TrustedAlways(known, expected, actual) == known # Absent

\* The metadata is that of the revisions before this transaction or, when it
\* was repeated, of those after it.
Trusted(known, expected, actual) ==
    known # Absent /\ known.revisions \in {expected, actual}

Earlier(t, first) == IF first = NoTime THEN t ELSE Min({t, first})

Extended(kept, times, expected, actual) ==
    IF ~Trusted(bounds, expected, actual) THEN Bootstrap(kept, actual)
    ELSE IF times = {} THEN [bounds EXCEPT !.revisions = actual]
    ELSE [first |-> Earlier(Min(times), bounds.first), last |-> Max(times \cup {bounds.last}),
          revisions |-> actual]

\* sample_bounds: what a reader is told, and what it leaves behind.
Ensured == IF bounds # Absent /\ bounds.revisions = revision THEN bounds
           ELSE Bootstrap(samples, revision)

-----------------------------------------------------------------------------
(* The publication markers.                                                *)

Unconsumed(key) == key \in DOMAIN journal /\ journal[key].revision > checkpoint

\* A marker that nobody has consumed yet is never narrowed.
Merged(key, payload) ==
    IF ~Unconsumed(key) \/ journal[key].payload = payload THEN payload
    ELSE IF key[1] = "telemetry" \/ journal[key].payload \in {Broad, Neutral} THEN Broad
    ELSE <<Min({journal[key].payload[1], payload[1]}), Max({journal[key].payload[2], payload[2]})>>

\* All markers of one transaction, each at the next publication revision.
Marked(markers) ==
    LET keys == DOMAIN markers
        list == CHOOSE f \in [keys -> 1 .. Cardinality(keys)] : IsInjective(f)
    IN  /\ journal' = [k \in keys \cup DOMAIN journal |->
                         IF k \in keys
                         THEN [revision |-> published + list[k],
                               payload |-> IF markers[k] = Broad THEN Broad
                                           ELSE Merged(k, markers[k])]
                         ELSE journal[k]]
        /\ published' = published + Cardinality(keys)

HourMarkers(times) == [k \in {"telemetry"} \X {Hour(t) : t \in times} |-> Neutral]
GasMarkers(times) ==
    [k \in {"telemetry-gas"} \X {Hour(t) : t \in times} |->
        LET within == {t \in times : Hour(t) = k[2]} IN <<Min(within), Max(within)>>]

-----------------------------------------------------------------------------
(* A window of this release: only rows that differ are written, and an     *)
(* event keeps its source's id when the source corrects its time.          *)

\* The old key of a corrected event is deleted in the same transaction.
Moved(rows, news) == {r \in rows : r.id \notin {n.id : n \in news}}

Write(d) ==
    /\ \E keys \in SUBSET ({d} \X Times), value \in Values, id \in EventIds, at \in Times :
       \E incoming \in {{}, {[device |-> d, id |-> id, at |-> at]}} :
        LET rows == {k \in keys : ~(k \in DOMAIN samples /\ samples[k] = value)}
            news == {n \in incoming : n \notin events}
            previous == {r \in events : r.id \in {n.id : n \in news}}
            times == {k[2] : k \in rows}
            changed == times \cup {e.at : e \in news \cup previous}
            kept == [k \in DOMAIN samples \cup rows |-> IF k \in rows THEN value ELSE samples[k]]
            actual == [revision EXCEPT ![d] = @ + 1]
        IN  /\ Cardinality(keys) <= 2 /\ (rows # {} \/ news # {})
            /\ samples' = kept
            /\ events' = Moved(events, news) \cup news
            /\ revision' = actual
            /\ bounds' = Extended(kept, times, revision, actual)
            /\ Marked([k \in DOMAIN HourMarkers(changed) \cup DOMAIN GasMarkers(times) |->
                         IF k[1] = "telemetry" THEN Neutral ELSE GasMarkers(times)[k]])
            /\ unseen' = unseen \cup {[at |-> t, revision |-> published'] : t \in times}
    /\ UNCHANGED checkpoint

(* A window of a release that knows neither bounds nor calibration.        *)
WriteBefore(d) ==
    /\ \E t \in Times, value \in Values :
        /\ <<d, t>> \in DOMAIN samples => samples[<<d, t>>] # value
        /\ samples' = [k \in DOMAIN samples \cup {<<d, t>>} |->
                          IF k = <<d, t>> THEN value ELSE samples[k]]
        /\ revision' = [revision EXCEPT ![d] = @ + 1]
        /\ Marked([k \in {<<"telemetry", Hour(t)>>} |-> Broad])
        /\ unseen' = unseen \cup {[at |-> t, revision |-> published']}
    /\ UNCHANGED <<events, bounds, checkpoint>>

\* An import or a deletion in bulk takes the bounds away in its transaction.
Purge ==
    /\ \E k \in DOMAIN samples : samples' = Restrict(samples, DOMAIN samples \ {k})
    /\ bounds' = Absent
    /\ UNCHANGED <<events, revision, journal, published, checkpoint, unseen>>

ReadBounds ==
    /\ bounds # Ensured
    /\ bounds' = Ensured
    /\ UNCHANGED <<samples, events, revision, journal, published, checkpoint, unseen>>

\* The publisher has published everything up to the end of a transaction.
Acknowledge ==
    /\ checkpoint < published
    /\ \E r \in {published} \cup {u.revision : u \in unseen} :
          checkpoint' = r /\ unseen' = {u \in unseen : u.revision > r}
    /\ UNCHANGED <<samples, events, revision, bounds, journal, published>>

Next ==
    /\ writes < MaxWrites /\ writes' = writes + 1
    /\ \/ \E d \in Devices : Write(d) \/ WriteBefore(d)
       \/ Purge \/ ReadBounds \/ Acknowledge

Spec == Init /\ [][Next]_vars

-----------------------------------------------------------------------------
\* Every reader is told the first and last sample there are, whichever release
\* wrote them and whatever was deleted (sample_bounds.sample_bounds).
BoundsExact ==
    LET told == Ensured IN
    /\ TimesOf(samples) = {} <=> told.first = NoTime
    /\ TimesOf(samples) # {} =>
          told.first = Min(TimesOf(samples)) /\ told.last = Max(TimesOf(samples))

\* A change of the calibration inputs that is not acknowledged yet lies inside
\* what some unconsumed marker says may have changed
\* (_record_publication_change).
MarkersCover ==
    \A u \in unseen :
        LET Says(scope) == Unconsumed(<<scope, Hour(u.at)>>) /\
                LET payload == journal[<<scope, Hour(u.at)>>].payload IN
                payload = Broad \/ (payload # Neutral /\ u.at \in payload[1] .. payload[2])
        IN  Says("telemetry") \/ Says("telemetry-gas")

\* An event of the source has one row, whatever its time was corrected to.
EventsCanonical == \A r, s \in events : r.id = s.id => r = s
=============================================================================
