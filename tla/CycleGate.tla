------------------------------ MODULE CycleGate ------------------------------
(***************************************************************************)
(* What the programme-cycle service promises whoever reads one cycle: the  *)
(* application service, which takes files while it is open and quotes its  *)
(* version, and the pipeline service, which works the files of an opened   *)
(* cycle by the terms it opened on.  It opens once, on agreed terms, and   *)
(* closes for good; the terms stand from then on; and no change of either  *)
(* goes without a new version.                                             *)
(***************************************************************************)
EXTENDS Integers

CONSTANTS
  Agreed,    \* the terms a cycle may open on
  Undecided  \* the terms of a draft

VARIABLES
  phase,     \* "DRAFT" | "OPEN" | "CLOSED"
  version,   \* of the cycle's head
  terms      \* what its files are filled in and worked by

gateVars == <<phase, version, terms>>

Init == phase = "DRAFT" /\ version = 0 /\ terms = Undecided

\* A draft is edited, an open cycle revised, a closed one archived.
Amend ==
  /\ version' = version + 1
  /\ UNCHANGED <<phase, terms>>

Open ==
  /\ phase = "DRAFT" /\ phase' = "OPEN"
  /\ version' = version + 1
  /\ terms' \in Agreed

Close ==
  /\ phase = "OPEN" /\ phase' = "CLOSED"
  /\ version' = version + 1
  /\ UNCHANGED terms

Next == Amend \/ Open \/ Close

Spec == Init /\ [][Next]_gateVars

=============================================================================
