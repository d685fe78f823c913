----------------------------- MODULE MCCatalog ------------------------------
(* Catalog on small instances.                                             *)
EXTENDS Catalog, TLC

Symmetry ==
    Permutations(Models) \cup Permutations(Rules) \cup Permutations(Admins)

\* Two instances at once: one model with rules, keywords and their edits, the
\* second of them while no catalog has left the model out, or one when it is
\* blocked; and two models that come and go without rules, up to the first edit.
Mentioned == known \cup run.seen \cup blocked \cup UNION {rules[r] : r \in DOMAIN rules}
Bound ==
    \/ Cardinality(Mentioned) <= 1 /\ (edits <= 1 \/ \A m \in Models : missed[m] <= Cardinality(blocked))
    \/ DOMAIN rules = {} /\ edits = 0
=============================================================================
