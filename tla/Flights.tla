------------------------------ MODULE Flights ------------------------------
(***************************************************************************)
(* What is promised of collections: a site is collected by one worker at a *)
(* time, under a run of its own, and only that worker changes what the     *)
(* site shows, to what this run has brought.  A run is recorded as         *)
(* successful only while its site shows it, and the record is not taken    *)
(* back before the flight has landed.  A crash ends all flights; what is   *)
(* shown and recorded stays.                                               *)
(***************************************************************************)
CONSTANTS Worker, Site, NoSite, Run, NoRun

VARIABLES
    at,             \* per worker: the site it collects
    run,            \* per worker: the run it collects under
    shown,          \* per site: the run that has brought what it shows
    succeeded       \* the runs recorded as successful

Landed == at = [w \in Worker |-> NoSite] /\ run = [w \in Worker |-> NoRun]

Init == Landed /\ shown = [s \in Site |-> NoRun] /\ succeeded = {}

Start(w, s) ==
    /\ at[w] = NoSite /\ \A v \in Worker : at[v] # s
    /\ at' = [at EXCEPT ![w] = s]
    /\ UNCHANGED <<run, shown, succeeded>>
Open(w, r) ==
    /\ at[w] # NoSite /\ run[w] = NoRun
    /\ r \notin succeeded
    /\ \A v \in Worker : run[v] # r
    /\ \A s \in Site : shown[s] # r
    /\ run' = [run EXCEPT ![w] = r]
    /\ UNCHANGED <<at, shown, succeeded>>
Show(w) ==
    /\ at[w] # NoSite /\ run[w] # NoRun
    /\ shown' = [shown EXCEPT ![at[w]] = run[w]]
    /\ UNCHANGED <<at, run, succeeded>>
Succeed(w) ==
    /\ at[w] # NoSite /\ run[w] # NoRun /\ shown[at[w]] = run[w]
    /\ succeeded' = succeeded \cup {run[w]}
    /\ UNCHANGED <<at, run, shown>>
Land(w) ==
    /\ at[w] # NoSite
    /\ at' = [at EXCEPT ![w] = NoSite] /\ run' = [run EXCEPT ![w] = NoRun]
    /\ UNCHANGED <<shown, succeeded>>

Crash == Landed' /\ UNCHANGED <<shown, succeeded>>
Forget(r) == /\ \A w \in Worker : run[w] # r
             /\ succeeded' = succeeded \ {r}
             /\ UNCHANGED <<at, run, shown>>

Next ==
    \/ Crash
    \/ \E w \in Worker, s \in Site : Start(w, s)
    \/ \E w \in Worker : Show(w) \/ Succeed(w) \/ Land(w)
    \/ \E w \in Worker, r \in Run : Open(w, r)
    \/ \E r \in Run : Forget(r)

Spec == Init /\ [][Next]_<<at, run, shown, succeeded>>
=============================================================================
