---------------------------- MODULE MCCollection ----------------------------
(* Collection on small instances.                                          *)
EXTENDS Collection, TLC

\* Sites, goroutines, requests and runs are interchangeable; only safety is
\* checked under this reduction.
Symmetry == Permutations(Sites) \cup Permutations(Goroutines)
                \cup Permutations(Requests) \cup Permutations(RunIds)

=============================================================================
