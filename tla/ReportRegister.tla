--------------------------- MODULE ReportRegister ---------------------------
(***************************************************************************)
(* What saving a report promises, whoever saves it and however often it is *)
(* retried: a report is a register that moves from one fully computed      *)
(* version to the next.  Every version is computed from the inputs as they *)
(* are at the moment it is committed, never from a mixture of two input    *)
(* states and never from a state that has already passed.                  *)
(***************************************************************************)
EXTENDS Integers

VARIABLES
    inputs,    \* version of telemetry, events, feedback and owner data
    revision,  \* reports.revision, 0 while there is no report
    facts      \* version of the inputs the stored report was computed from

vars == <<inputs, revision, facts>>

\* An earlier release may have stored versions already.
Init == inputs = 0 /\ revision \in Nat /\ facts = 0

\* Telemetry, feedback or owner data arrive.
ChangeInputs ==
    /\ inputs' = inputs + 1
    /\ UNCHANGED <<revision, facts>>

\* A report computed from the present inputs is committed.
Commit ==
    /\ revision' = revision + 1
    /\ facts' = inputs
    /\ UNCHANGED inputs

\* Derived context of the stored report is replaced (replace_context).
Refresh ==
    /\ revision > 0
    /\ revision' = revision + 1
    /\ UNCHANGED <<inputs, facts>>

Next == ChangeInputs \/ Commit \/ Refresh

Spec == Init /\ [][Next]_vars
=============================================================================
