--------------------------- MODULE OwnerRepository ---------------------------
(***************************************************************************)
(* The versioned records of OwnerRepository (adapters/ydb/owner.py): gas   *)
(* readings, tariffs and meter boundaries with their audit, the revisions  *)
(* of a profile, the AI settings and the proposals to change them.         *)
(*                                                                         *)
(* Each method is one serializable transaction.  Its caller read a version *)
(* before, in another one, and hands it over as expected_version; between  *)
(* the two others write, move a reading away or decide a proposal.         *)
(***************************************************************************)
EXTENDS Integers, FiniteSets, FiniteSetsExt, SequencesExt

CONSTANTS
    Days,            \* keys of readings and boundaries, effective times of a profile
    Sources,         \* bound: the identities that a record may carry
    Proposals,       \* identities of proposals
    MaxWrites        \* bound: how much is written

VARIABLES
    rows,        \* <<table, day>> -> the record stored
    audit,       \* the audits' rows, in the order of their ids
    views,       \* what callers have read and may still act upon
    profile,     \* the revisions of one profile field
    settings,    \* versions of the AI settings, in order
    proposals,   \* what was proposed, and how it was decided
    revisions,   \* topics whose readers were told of a change
    serial       \* so many contents were written; names a content

owned == <<rows, audit, views, profile, settings, proposals, revisions, serial>>

Tables == {"reading", "tariff", "boundary"}
Unconditional == 0 - 1        \* expected_version=None
Absent == [version |-> 0, content |-> 0, source |-> 0]

OwnedInit ==
    /\ rows = <<>> /\ audit = <<>> /\ views = {} /\ profile = <<>> /\ settings = <<>>
    /\ proposals = <<>> /\ revisions = 0 /\ serial = 0

Stored(key) == IF key \in DOMAIN rows THEN rows[key] ELSE Absent
Put(f, key, row) == [k \in DOMAIN f \cup {key} |-> IF k = key THEN row ELSE f[k]]
Kept(f, key) == [k \in DOMAIN f \ {key} |-> f[k]]

\* A page of the interface, or a script, reads a record and its version.
Read(key) ==
    /\ Stored(key).version # 0 /\ views' = views \cup {[key |-> key, row |-> Stored(key)]}
    /\ UNCHANGED <<rows, audit, profile, settings, proposals, revisions, serial>>

\* _with_stable_identity: an identity, once given, is kept and cannot be changed.
SameIdentity(old, source) == old.source = 0 \/ source = 0 \/ old.source = source
Identity(old, source) == IF source = 0 THEN old.source ELSE source

\* A slip: only an author who is ahead of the record is refused.
NotAhead(key, expected) == expected = Unconditional \/ expected <= Stored(key).version
Expected(key, expected) == expected \in {Unconditional, Stored(key).version}

\* save_gas_reading, save_tariff, save_meter_boundary; seen is what the author had
\* read, and before what is replaced: the code's audit holds only the latter.
Save(table, day, expected, seen, source) ==
    LET key == <<table, day>>
        old == Stored(key)
        new == [version |-> old.version + 1, content |-> serial + 1, source |-> Identity(old, source)]
    IN  /\ serial < MaxWrites
        /\ Expected(key, expected) /\ SameIdentity(old, source)
        /\ rows' = Put(rows, key, new)
        /\ audit' = Append(audit, [table |-> table, day |-> day, act |-> "save", row |-> new,
                                  before |-> old.content, seen |-> seen])
        /\ serial' = serial + 1 /\ revisions' = revisions + 1
        /\ UNCHANGED <<views, profile, settings, proposals>>

SaveReading(day, expected, seen, source) == Save("reading", day, expected, seen, source)
SaveTariff(month, expected, seen, source) == Save("tariff", month, expected, seen, source)
SaveBoundary(day, expected, seen, source) == Save("boundary", day, expected, seen, source)

Free(from, to) == <<"reading", from>> \in DOMAIN rows /\ <<"reading", to>> \notin DOMAIN rows
\* move_gas_reading: the row, its version and two audit rows, in one transaction.
Move(from, to, expected) ==
    LET old == Stored(<<"reading", from>>)
        new == [old EXCEPT !.version = expected + 1]
    IN  /\ from # to /\ serial < MaxWrites
        /\ Free(from, to) /\ old.version = expected
        /\ rows' = Kept(Put(rows, <<"reading", to>>, new), <<"reading", from>>)
        /\ audit' = audit \o <<[table |-> "reading", day |-> from, act |-> "move_from", row |-> old,
                                before |-> 0, seen |-> 0],
                               [table |-> "reading", day |-> to, act |-> "move_to", row |-> new,
                                before |-> 0, seen |-> 0]>>
        /\ serial' = serial + 1 /\ revisions' = revisions + 1
        /\ UNCHANGED <<views, profile, settings, proposals>>

-----------------------------------------------------------------------------
\* save_profile_revision: revisions are numbered as they are recorded, whatever
\* the time from which they have effect.
Revise(at, expected) ==
    /\ serial < MaxWrites /\ expected \in {Unconditional, Len(profile)}
    /\ profile' = Append(profile, [at |-> at, content |-> serial + 1])
    /\ serial' = serial + 1 /\ revisions' = revisions + 1
    /\ UNCHANGED <<rows, audit, views, settings, proposals>>

\* profile: the last in the order (effective_at, revision) up to a time.
InEffect(at) ==
    CHOOSE k \in {j \in 1 .. Len(profile) : profile[j].at <= at} :
        \A j \in 1 .. Len(profile) :
            profile[j].at <= at => profile[j].at < profile[k].at \/ (profile[j].at = profile[k].at /\ j <= k)

-----------------------------------------------------------------------------
Undecided == "undecided"
\* save_ai_settings
SaveSettings(expected) ==
    /\ serial < MaxWrites /\ expected \in {Unconditional, Len(settings)}
    /\ settings' = Append(settings, serial + 1)
    /\ serial' = serial + 1 /\ revisions' = revisions + 1
    /\ UNCHANGED <<rows, audit, views, profile, proposals>>

\* create_model_proposal: the same proposal again is the same one; another under
\* its identity is refused.
Propose(id, base) ==
    /\ serial < MaxWrites /\ id \notin DOMAIN proposals
    /\ proposals' = Put(proposals, id, [content |-> serial + 1, base |-> base, decision |-> Undecided, version |-> 0])
    /\ serial' = serial + 1
    /\ UNCHANGED <<rows, audit, views, profile, settings, revisions>>

Decidable(id, expected) ==
    /\ proposals[id].decision = Undecided
    /\ Len(settings) = expected /\ proposals[id].base = Len(settings)

\* decide_model_proposal: one transaction writes the settings and the decision.
Decide(id, decision, expected) ==
    /\ id \in DOMAIN proposals /\ Decidable(id, expected)
    /\ settings' = IF decision = "accepted" THEN Append(settings, proposals[id].content) ELSE settings
    /\ revisions' = IF decision = "accepted" THEN revisions + 1 ELSE revisions
    /\ proposals' = [proposals EXCEPT ![id].decision = decision, ![id].version = Len(settings')]
    /\ UNCHANGED <<rows, audit, views, profile, serial>>

OwnedNext ==
    \/ \E table \in Tables, day \in Days : Read(<<table, day>>)
    \/ \E day \in Days, source \in Sources \cup {0} :
          \/ SaveReading(day, Unconditional, 0, source)
          \/ SaveTariff(day, Unconditional, 0, source)
          \/ SaveBoundary(day, Unconditional, 0, source)
    \/ \E v \in views : \E source \in Sources \cup {0} :
          LET day == v.key[2] expected == v.row.version seen == v.row.content
          IN  \/ v.key[1] = "reading" /\ SaveReading(day, expected, seen, source)
              \/ v.key[1] = "tariff" /\ SaveTariff(day, expected, seen, source)
              \/ v.key[1] = "boundary" /\ SaveBoundary(day, expected, seen, source)
    \/ \E v \in views : v.key[1] = "reading" /\ \E to \in Days : Move(v.key[2], to, v.row.version)
    \/ \E at \in Days, expected \in {Unconditional} \cup 0 .. MaxWrites : Revise(at, expected)
    \/ \E expected \in {Unconditional} \cup 0 .. MaxWrites : SaveSettings(expected)
    \/ \E id \in Proposals :
          \/ \E base \in 0 .. Len(settings) : Propose(id, base)
          \/ \E decision \in {"accepted", "rejected"}, expected \in 0 .. MaxWrites : Decide(id, decision, expected)

OwnedSpec == OwnedInit /\ [][OwnedNext]_owned

-----------------------------------------------------------------------------
(* The audit tells the whole history: replayed in the order of its ids it gives the records    *)
(* that are stored, those that were moved and those that took the place they left included     *)
(* (save_gas_reading, move_gas_reading, save_tariff, save_meter_boundary).                     *)
AuditReplays ==
    LET Replay(f, entry) == IF entry.act = "move_from" THEN Kept(f, <<entry.table, entry.day>>)
                            ELSE Put(f, <<entry.table, entry.day>>, entry.row)
    IN  FoldLeft(Replay, <<>>, audit) = rows

(* A conditional write replaces exactly what its author read, and the identity of a record is  *)
(* that of its first owner.  A gas reading is the exception: once moved, a new reading of the  *)
(* day it left counts its versions from one again, and an author of the old one may replace it.*)
EditsAreOfWhatWasRead ==
    \A k \in 1 .. Len(audit) :
        /\ audit[k].seen # 0 /\ audit[k].table # "reading" => audit[k].before = audit[k].seen
        /\ \A j \in 1 .. k : audit[j].table = audit[k].table /\ audit[j].day = audit[k].day /\ audit[j].row.source # 0
              /\ (\A i \in j .. k : audit[i].table = "reading" => audit[i].act = "save") =>
                 audit[k].row.source = audit[j].row.source

(* No reading is lost to another's move: what a step writes over was written under the same    *)
(* day, and every content read by an author is stored, replaced in its place or moved.         *)
MovesLoseNothing ==
    \A k \in 1 .. Len(audit) : audit[k].act = "move_to" =>
        \A j \in 1 .. k - 1 : audit[j].table = "reading" /\ audit[j].day = audit[k].day /\ audit[j].act # "move_from" =>
            \E i \in j + 1 .. k - 1 : audit[i].table = "reading" /\ audit[i].day = audit[k].day

(* A proposal changes only the settings it was made for, once: an accepted one directly follows *)
(* the version it is based on, and a version never changes (decide_model_proposal).            *)
DecidedOnItsBase ==
    /\ \A id \in DOMAIN proposals :
          /\ proposals[id].decision = "accepted" =>
                /\ proposals[id].version = proposals[id].base + 1
                /\ settings[proposals[id].version] = proposals[id].content
          /\ proposals[id].decision = "rejected" => proposals[id].version = proposals[id].base
    /\ \A a, b \in DOMAIN proposals : a # b /\ {proposals[a].decision, proposals[b].decision} = {"accepted"} =>
          proposals[a].version # proposals[b].version
VersionsStay == [][IsPrefix(settings, settings')]_owned

(* A revision changes what the profile says only from the time it has effect, and only up to   *)
(* the next one known by then: a correction of the past leaves the present alone (profile).    *)
PastCorrectionsStayInThePast ==
    [][\A at \in Days : (\E k \in 1 .. Len(profile) : profile[k].at <= at) /\ InEffect(at)' # InEffect(at) =>
          LET new == profile'[Len(profile')]
          IN  new.at <= at /\ ~\E k \in 1 .. Len(profile) : new.at < profile[k].at /\ profile[k].at <= at]_owned

=============================================================================
