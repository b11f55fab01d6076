----------------------------- MODULE BlockScan -----------------------------
(***************************************************************************)
(* What the agent's monitor promises about the blocks it takes events      *)
(* from: it starts anywhere, then goes on without a gap and never takes a  *)
(* block twice.                                                            *)
(***************************************************************************)
EXTENDS Naturals

CONSTANT Blocks

VARIABLE scanned   \* the blocks whose events have become jobs

Init == scanned = {}

\* A range of blocks, the first one or the one that follows what is scanned.
Scan(from, to) ==
  /\ from <= to
  /\ scanned # {} => from - 1 \in scanned
  /\ \A b \in scanned : b < from
  /\ scanned' = scanned \cup (from .. to)

Next == \E from, to \in Blocks : Scan(from, to)

Spec == Init /\ [][Next]_scanned
=============================================================================
