----------------------------- MODULE MCSources ------------------------------
(* Sources on small instances, and the parser of its expressions.          *)
EXTENDS Sources, BillingExpression, TLC

\* Pairs of credentials: a third one while nothing is lost, given up, cleared
\* or imported, and two with all of it.
SessionBound ==
    \/ issued <= 2
    \/ /\ faults = 0 /\ cleared = {} /\ orphaned = {}
       /\ \A i \in Importers : imp[i] = IdleImp

\* The wish pool, too: the turn of the month, or an administrator's edits.
PoolBound == month = 1 \/ edited = {}
Bound == SessionBound /\ PoolBound

\* Groups of a price list and requests are interchangeable.
Symmetry == Permutations(PriceGroups) \cup Permutations(Clients)
=============================================================================
