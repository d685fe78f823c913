------------------------------ MODULE MCOrders ------------------------------
(* Orders, and the dashboard, on small instances.  They share no variable: *)
(* each is explored with the other in its initial state.                   *)
EXTENDS Orders, Dashboard

VARIABLE part
parts == <<part, vars, dashVars>>

BooksInit ==
    /\ part \in {"orders", "dashboard"}
    /\ Init /\ DashInit

StepOrders == part = "orders" /\ Next /\ UNCHANGED dashVars
StepDash == part = "dashboard" /\ DashNext /\ UNCHANGED vars

BooksNext == part' = part /\ (StepOrders \/ StepDash)

\* Fairness and DashFairness, each for the behaviours of its part.
BooksFairness ==
    /\ \A o \in Orders : WF_vars(part = "orders" /\ Notify(o))
    /\ WF_dashVars(part = "dashboard" /\ CommitRevision)
    /\ \A p \in Pages : /\ WF_dashVars(part = "dashboard" /\ PollMeta(p))
                        /\ WF_dashVars(part = "dashboard" /\ LoadStep(p))
                        /\ SF_dashVars(part = "dashboard" /\ LockCache(p))
                        /\ WF_dashVars(part = "dashboard" /\ ApplyPayload(p))

BooksSpec == BooksInit /\ [][BooksNext]_parts /\ BooksFairness
=============================================================================
