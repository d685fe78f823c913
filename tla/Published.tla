----------------------------- MODULE Published -----------------------------
(***************************************************************************)
(* What the public dashboard promises its pages: every page shows one      *)
(* committed revision as a whole, and a page that asks is never answered   *)
(* with less than was committed when it asked.                             *)
(***************************************************************************)
EXTENDS Naturals

CONSTANT Page

VARIABLES
    current,        \* the last committed revision
    asked,          \* per page: current when it last asked
    rows, history   \* per page: the revisions of the rows and of the history it
                    \* shows, 0 before the first

Init == /\ current \in Nat
        /\ asked = [p \in Page |-> 0]
        /\ rows = [p \in Page |-> 0] /\ history = rows

Advance == current' = current + 1 /\ UNCHANGED <<asked, rows, history>>
Ask(p) == asked' = [asked EXCEPT ![p] = current] /\ UNCHANGED <<current, rows, history>>
Answer(p) ==
    /\ \E r \in asked[p]..current : /\ rows' = [rows EXCEPT ![p] = r]
                                    /\ history' = [history EXCEPT ![p] = r]
    /\ UNCHANGED <<current, asked>>

Next == Advance \/ \E p \in Page : Ask(p) \/ Answer(p)

Spec == Init /\ [][Next]_<<current, asked, rows, history>>
=============================================================================
