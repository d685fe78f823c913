------------------------------ MODULE MCOutbox ------------------------------
(* Outbox on small instances.                                              *)
EXTENDS Outbox, FiniteSets

\* Two instances at once: two announcements that are news as long as nothing
\* fails, and one with faults.
Bound == faults = 0 \/ Cardinality(ledger) <= 2
=============================================================================
