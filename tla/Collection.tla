----------------------------- MODULE Collection -----------------------------
(***************************************************************************)
(* The collection pipeline: the scheduler (internal/scheduler) claims due  *)
(* sites and starts one goroutine per claim, administrators start manual   *)
(* collections over HTTP, and both enter Collector.CollectSite             *)
(* (internal/collector), which holds a per-site claim and, while it talks  *)
(* to the site, one of HttpSlots concurrency slots.  The site and run rows *)
(* of SQLite survive a crash, everything else does not; every database     *)
(* call is one transaction and so one step.                                *)
(*                                                                         *)
(* What a source publishes is left to module Catalog; here a collection is *)
(* only applied or not, and a site remembers which run it was applied by.  *)
(***************************************************************************)
EXTENDS Naturals, FiniteSets

CONSTANTS
    Sites,          \* site rows
    Goroutines,     \* goroutines the scheduler may have running at once
    Requests,       \* concurrent POST /admin/sites/{id}/collect handlers
    NoSite,
    RunIds,         \* collection_runs ids; see FreeRun for when one is reused
    NoRun,          \* CollectSite's zero runID
    HttpSlots,      \* MaxHTTPConcurrency, three by default
    FailureStates,  \* the acquisition states finishFailure may write
    MaxFaults       \* bound on database writes that fail outside a context

Workers == Goroutines \cup Requests

ASSUME SlotsAssumption == HttpSlots \in Nat \ {0}
ASSUME FaultsAssumption == MaxFaults \in Nat
ASSUME WorkersAssumption == /\ IsFiniteSet(Workers)
                            /\ Goroutines \cap Requests = {}
ASSUME SitesAssumption == NoSite \notin Sites
ASSUME RunsAssumption == NoRun \notin RunIds
ASSUME StatesAssumption ==
    /\ "collection_failed" \in FailureStates
    /\ FailureStates \subseteq {"collection_failed", "login_expired",
                                "challenge_pending", "challenge_failed"}

VARIABLES
    \* rows of SQLite
    enabled,        \* sites.enabled
    deleted,        \* sites.deleted_at IS NOT NULL
    acq,            \* sites.acquisition_state
    next,           \* sites.next_run_at: passed, or which delay it waits for
    snapshotRun,    \* current_snapshots.run_id of the site's snapshots
    runStatus,      \* collection_runs.status, "none" for no such row and
                    \* "success" for partial too
    \* memory of the process
    phase,          \* life of the process
    dueList,        \* what is left of the sites dispatch read from ListDueSites
    active,         \* Scheduler.active
    activeSites,    \* Collector.activeSites
    slots,          \* occupancy of Collector.httpSlots
    pc, job, rid, verdict,  \* per goroutine or handler: where it is, its
                            \* site, its run and the failure it persists
    faults          \* writes on a background context that have failed so far

siteRows == <<enabled, deleted, next>>
dataRows == <<acq, snapshotRun, runStatus>>
rows == <<siteRows, dataRows>>
claims == <<dueList, active, activeSites>>
local == <<job, rid, verdict>>
vars == <<rows, phase, claims, slots, pc, local, faults>>

AcquisitionState == {"fresh", "stale", "collecting"} \cup FailureStates
NextRun == {"due", "retry", "interval"}
RunStatus == {"none", "running", "success", "failed"}

\* Between tryClaimSite and releaseSite.
Collecting == {"begin", "mark", "wait", "fetch", "waitDetail", "detail",
               "apply", "publish", "finish", "failRun", "failState", "release"}
\* While one of the HTTP slots is held.
Fetching == {"fetch", "detail"}
\* A scheduler goroutine after CollectSite and before it releases its claim.
Scheduling == {"schedule", "setNextRetry", "setNextInterval", "unclaim"}
PC == {"idle", "claim"} \cup Collecting \cup Scheduling

Running == phase \in {"up", "stopping"}
Listed(s) == enabled[s] /\ ~deleted[s] /\ next[s] = "due"
Collects(w, s) == job[w] = s /\ pc[w] \in Collecting
Owned(r) == \E w \in Workers : rid[w] = r

TypeOK ==
    /\ enabled \in [Sites -> BOOLEAN] /\ deleted \in [Sites -> BOOLEAN]
    /\ acq \in [Sites -> AcquisitionState]
    /\ next \in [Sites -> NextRun]
    /\ snapshotRun \in [Sites -> RunIds \cup {NoRun}]
    /\ runStatus \in [RunIds -> RunStatus]
    /\ phase \in {"up", "stopping", "stopped", "crashed"}
    /\ dueList \subseteq Sites /\ active \subseteq Sites
    /\ activeSites \subseteq Sites
    /\ slots \in 0..HttpSlots
    /\ pc \in [Workers -> PC]
    /\ job \in [Workers -> Sites \cup {NoSite}]
    /\ rid \in [Workers -> RunIds \cup {NoRun}]
    /\ verdict \in [Workers -> FailureStates]
    /\ faults \in 0..MaxFaults
    /\ \A w \in Workers : pc[w] # "idle" => job[w] \in Sites

\* The locals of workers none of which is running.
AllIdle == [pc |-> [w \in Workers |-> "idle"],
            job |-> [w \in Workers |-> NoSite],
            rid |-> [w \in Workers |-> NoRun],
            verdict |-> [w \in Workers |-> "collection_failed"]]

\* New sites are stale and never scheduled (next_run_at IS NULL is due).
Init ==
    /\ enabled \in [Sites -> BOOLEAN]
    /\ deleted = [s \in Sites |-> FALSE]
    /\ acq = [s \in Sites |-> "stale"]
    /\ next = [s \in Sites |-> "due"]
    /\ snapshotRun = [s \in Sites |-> NoRun]
    /\ runStatus = [r \in RunIds |-> "none"]
    /\ phase = "up"
    /\ dueList = {} /\ active = {} /\ activeSites = {}
    /\ slots = 0
    /\ pc = AllIdle.pc /\ job = AllIdle.job
    /\ rid = AllIdle.rid /\ verdict = AllIdle.verdict
    /\ faults = 0

-----------------------------------------------------------------------------
(* Helpers of the worker actions.                                          *)

Goto(w, from, to) == pc[w] = from /\ pc' = [pc EXCEPT ![w] = to]

\* Enter finishFailure with one of states, the states its code may map to.
Fail(w, from, states) ==
    /\ Goto(w, from, IF rid[w] = NoRun THEN "failState" ELSE "failRun")
    /\ verdict' \in {[verdict EXCEPT ![w] = state] : state \in states}
    /\ UNCHANGED <<job, rid>>

\* A worker whose goroutine or handler ends: its locals are gone.
Leave(w) ==
    /\ pc' = [pc EXCEPT ![w] = "idle"]
    /\ job' = [job EXCEPT ![w] = NoSite]

\* CollectSite returns: a handler ends, a goroutine calls scheduleNext.
Return(w) ==
    /\ rid' = [rid EXCEPT ![w] = NoRun]
    /\ verdict' = [verdict EXCEPT ![w] = "collection_failed"]
    /\ \/ w \in Requests /\ Leave(w)
       \/ /\ w \in Goroutines
          /\ pc' = [pc EXCEPT ![w] = "schedule"]
          /\ UNCHANGED job

\* A write on a background context fails: the error is only logged.
WriteFails == faults < MaxFaults /\ faults' = faults + 1

\* An id the insert may return.  SQLite hands out the highest id plus one; a
\* name of RunIds stands for such an id while a row or a worker refers to it.
FreeRun(r) ==
    /\ runStatus[r] = "none" /\ ~Owned(r)
    /\ \A s \in Sites : snapshotRun[s] # r

-----------------------------------------------------------------------------
(* The scheduler loop, and the start of a manual collection.               *)

\* Time passes: next_run_at lies in the past.
Tick(s) ==
    /\ next[s] # "due"
    /\ next' = [next EXCEPT ![s] = "due"]
    /\ UNCHANGED <<enabled, deleted, dataRows, phase, claims, slots, pc, local,
                   faults>>

\* dispatch reads the due sites; rows may change while it walks the list.
ListDue ==
    /\ phase = "up" /\ dueList = {}
    /\ dueList' = {s \in Sites : Listed(s)}
    /\ UNCHANGED <<rows, phase, active, activeSites, slots, pc, local, faults>>

\* Variant: dispatch does not test the scheduler's claim.
DispatchUntested(s) ==
    /\ Running /\ s \in dueList
    /\ dueList' = dueList \ {s} /\ active' = active \cup {s}
    /\ \E g \in Goroutines : /\ Goto(g, "idle", "claim")
                             /\ job' = [job EXCEPT ![g] = s]
    /\ UNCHANGED <<rows, phase, activeSites, slots, rid, verdict, faults>>

\* dispatch claims one of the listed sites for a new goroutine, or skips it.
Dispatch(s) ==
    /\ Running /\ s \in dueList
    /\ dueList' = dueList \ {s}
    /\ \/ s \in active /\ UNCHANGED <<active, pc, job>>
       \/ /\ s \notin active
          /\ active' = active \cup {s}
          /\ \E g \in Goroutines :
                /\ Goto(g, "idle", "claim")
                /\ job' = [job EXCEPT ![g] = s]
    /\ UNCHANGED <<rows, phase, activeSites, slots, rid, verdict, faults>>

\* CollectNow finds the site among the undeleted ones, enabled or not.
CollectNow(r, s) ==
    /\ phase = "up" /\ ~deleted[s]
    /\ Goto(r, "idle", "claim")
    /\ job' = [job EXCEPT ![r] = s]
    /\ UNCHANGED <<rows, phase, claims, slots, rid, verdict, faults>>

-----------------------------------------------------------------------------
(* CollectSite.                                                            *)

\* Variant: the claim is set without being tested.
ClaimSiteUntested(w) ==
    /\ Goto(w, "claim", "begin") /\ UNCHANGED local
    /\ activeSites' = activeSites \cup {job[w]}
    /\ UNCHANGED <<rows, phase, dueList, active, slots, faults>>

\* tryClaimSite: a site already being collected is an error.
ClaimSite(w) ==
    /\ pc[w] = "claim"
    /\ \/ job[w] \in activeSites /\ Return(w) /\ UNCHANGED activeSites
       \/ /\ job[w] \notin activeSites
          /\ activeSites' = activeSites \cup {job[w]}
          /\ Goto(w, "claim", "begin") /\ UNCHANGED local
    /\ UNCHANGED <<rows, phase, dueList, active, slots, faults>>

\* No adapter, an insert that fails on the caller's context, or a new run.
BeginRun(w) ==
    /\ \/ Fail(w, "begin", {"collection_failed"}) /\ UNCHANGED runStatus
       \/ Goto(w, "begin", "release") /\ UNCHANGED <<local, runStatus>>
       \/ /\ Goto(w, "begin", "mark")
          /\ \E r \in RunIds :
                /\ FreeRun(r)
                /\ rid' = [rid EXCEPT ![w] = r]
                /\ runStatus' = [runStatus EXCEPT ![r] = "running"]
          /\ UNCHANGED <<job, verdict>>
    /\ UNCHANGED <<siteRows, acq, snapshotRun, phase, claims, slots, faults>>

\* Set the collecting state; an error on the caller's context is logged.
MarkCollecting(w) ==
    /\ Goto(w, "mark", "wait")
    /\ acq' \in {acq, [acq EXCEPT ![job[w]] = "collecting"]}
    /\ UNCHANGED <<siteRows, snapshotRun, runStatus, phase, claims, slots,
                   local, faults>>

\* acquireHTTP, before Collect and before CollectDetails.
AcquireSlot(w) ==
    /\ slots < HttpSlots /\ slots' = slots + 1
    /\ Goto(w, "wait", "fetch") \/ Goto(w, "waitDetail", "detail")
    /\ UNCHANGED <<rows, phase, claims, local, faults>>

\* FetcherForSite fails, the context ends while waiting for a slot, or the
\* catalog just collected is empty.
GiveUp(w) ==
    /\ \/ Fail(w, "wait", FailureStates)
       \/ Fail(w, "waitDetail", {"collection_failed"})
    /\ UNCHANGED <<rows, phase, claims, slots, faults>>

\* Variant: releaseHTTP is not deferred, so an error keeps the slot.
ReleaseSlotOnSuccess(w) ==
    /\ \/ /\ Goto(w, "fetch", "apply") \/ Goto(w, "detail", "apply")
          /\ slots' = slots - 1 /\ UNCHANGED local
       \/ /\ Fail(w, "fetch", FailureStates) \/ Fail(w, "detail", FailureStates)
          /\ UNCHANGED slots
    /\ UNCHANGED <<rows, phase, claims, faults>>

\* Collect or CollectDetails returns or panics; the deferred releaseHTTP runs
\* before the error is handled.
ReleaseSlot(w) ==
    /\ slots' = slots - 1
    /\ \/ Goto(w, "fetch", "waitDetail") /\ UNCHANGED local
       \/ Goto(w, "fetch", "apply") /\ UNCHANGED local
       \/ Goto(w, "detail", "apply") /\ UNCHANGED local
       \/ Fail(w, "fetch", FailureStates)
       \/ Fail(w, "detail", FailureStates)
    /\ UNCHANGED <<rows, phase, claims, faults>>

\* ApplyCollection commits snapshots and the fresh state, or nothing.
Apply(w) ==
    /\ \/ /\ Goto(w, "apply", "publish")
          /\ acq' = [acq EXCEPT ![job[w]] = "fresh"]
          /\ snapshotRun' = [snapshotRun EXCEPT ![job[w]] = rid[w]]
          /\ UNCHANGED local
       \/ Fail(w, "apply", {"collection_failed"}) /\ UNCHANGED <<acq, snapshotRun>>
    /\ UNCHANGED <<siteRows, runStatus, phase, claims, slots, faults>>

\* Variant: releaseSite is called once the snapshots are committed, not deferred.
PublishReleases(w) ==
    /\ \/ Goto(w, "publish", "finish") /\ UNCHANGED local
       \/ Fail(w, "publish", {"collection_failed"})
    /\ activeSites' = activeSites \ {job[w]}
    /\ UNCHANGED <<rows, phase, dueList, active, slots, faults>>

\* RefreshMatchesForRawModels, RemoveRawModels and the announcements follow
\* the commit: a failed refresh or a panic still ends in finishFailure.
Publish(w) ==
    /\ \/ Goto(w, "publish", "finish") /\ UNCHANGED local
       \/ Fail(w, "publish", {"collection_failed"})
    /\ UNCHANGED <<rows, phase, claims, slots, faults>>

\* FinishCollectionRun of a success; its error is returned, not handled.
Finish(w) ==
    /\ Goto(w, "finish", "release")
    /\ \/ /\ runStatus' = [runStatus EXCEPT ![rid[w]] = "success"]
          /\ UNCHANGED faults
       \/ WriteFails /\ UNCHANGED runStatus
    /\ UNCHANGED <<siteRows, acq, snapshotRun, phase, claims, slots, local>>

\* finishFailure, first write: the run.
FailRun(w) ==
    /\ Goto(w, "failRun", "failState")
    /\ \/ /\ runStatus' = [runStatus EXCEPT ![rid[w]] = "failed"]
          /\ UNCHANGED faults
       \/ WriteFails /\ UNCHANGED runStatus
    /\ UNCHANGED <<siteRows, acq, snapshotRun, phase, claims, slots, local>>

\* Variant: the state is written on the caller's context, which may be over.
FailStateOnCaller(w) ==
    /\ Goto(w, "failState", "release")
    /\ acq' \in {acq, [acq EXCEPT ![job[w]] = verdict[w]]}
    /\ UNCHANGED <<siteRows, snapshotRun, runStatus, phase, claims, slots, local,
                   faults>>

\* Variant: releaseSite is not deferred and is missed after a failure.
FailStateKeepsClaim(w) ==
    /\ pc[w] = "failState" /\ Return(w)
    /\ acq' = [acq EXCEPT ![job[w]] = verdict[w]]
    /\ UNCHANGED <<siteRows, snapshotRun, runStatus, phase, claims, slots, faults>>

\* finishFailure, second write: the acquisition state.
FailState(w) ==
    /\ Goto(w, "failState", "release")
    /\ \/ acq' = [acq EXCEPT ![job[w]] = verdict[w]] /\ UNCHANGED faults
       \/ WriteFails /\ UNCHANGED acq
    /\ UNCHANGED <<siteRows, snapshotRun, runStatus, phase, claims, slots, local>>

\* The deferred releaseSite.
Release(w) ==
    /\ pc[w] = "release"
    /\ activeSites' = activeSites \ {job[w]}
    /\ Return(w)
    /\ UNCHANGED <<rows, phase, dueList, active, slots, faults>>

-----------------------------------------------------------------------------
(* scheduleNext, after CollectSite has released its claim.                 *)

\* GetSite: the state read here decides the delay; a deleted site has no row,
\* and a failed read leaves the schedule alone too.
ScheduleNext(w) ==
    /\ \/ /\ Goto(w, "schedule", "unclaim")
          /\ \/ deleted[job[w]] /\ UNCHANGED faults
             \/ ~deleted[job[w]] /\ WriteFails
       \/ /\ pc[w] = "schedule" /\ ~deleted[job[w]]
          /\ Goto(w, "schedule", IF acq[job[w]] \in FailureStates
                                    THEN "setNextRetry" ELSE "setNextInterval")
          /\ UNCHANGED faults
    /\ UNCHANGED <<rows, phase, claims, slots, local>>

SetNext(w) ==
    /\ Goto(w, "setNextRetry", "unclaim") \/ Goto(w, "setNextInterval", "unclaim")
    /\ \/ /\ next' = [next EXCEPT ![job[w]] =
                        IF pc[w] = "setNextRetry" THEN "retry" ELSE "interval"]
          /\ UNCHANGED faults
       \/ WriteFails /\ UNCHANGED next
    /\ UNCHANGED <<enabled, deleted, dataRows, phase, claims, slots, local>>

\* The deferred release of the scheduler's claim ends the goroutine.
Unclaim(w) ==
    /\ pc[w] = "unclaim"
    /\ active' = active \ {job[w]}
    /\ Leave(w)
    /\ UNCHANGED <<rows, phase, dueList, activeSites, slots, rid, verdict, faults>>

Step(w) ==
    \/ ClaimSite(w) \/ BeginRun(w) \/ MarkCollecting(w) \/ AcquireSlot(w)
    \/ GiveUp(w) \/ ReleaseSlot(w) \/ Apply(w) \/ Publish(w) \/ Finish(w)
    \/ FailRun(w) \/ FailState(w) \/ Release(w) \/ ScheduleNext(w)
    \/ SetNext(w) \/ Unclaim(w)

-----------------------------------------------------------------------------
(* Administrators, maintenance and the life of the process.                *)

\* UpdateSiteDetails: of what it edits only enabled matters here.
SetEnabled(s) ==
    /\ phase = "up" /\ ~deleted[s]
    /\ enabled' = [enabled EXCEPT ![s] = ~enabled[s]]
    /\ UNCHANGED <<deleted, next, dataRows, phase, claims, slots, pc, local, faults>>

DeleteSite(s) ==
    /\ phase = "up" /\ ~deleted[s]
    /\ deleted' = [deleted EXCEPT ![s] = TRUE]
    /\ enabled' = [enabled EXCEPT ![s] = FALSE]
    /\ UNCHANGED <<next, dataRows, phase, claims, slots, pc, local, faults>>

RestoreSite(s) ==
    /\ phase = "up" /\ deleted[s]
    /\ deleted' = [deleted EXCEPT ![s] = FALSE]
    /\ enabled' = [enabled EXCEPT ![s] = FALSE]
    /\ UNCHANGED <<next, dataRows, phase, claims, slots, pc, local, faults>>

\* Cleanup deletes runs started over 72 hours ago; a collection lasts minutes.
Cleanup(r) ==
    /\ phase = "up" /\ runStatus[r] # "none" /\ ~Owned(r)
    /\ runStatus' = [runStatus EXCEPT ![r] = "none"]
    /\ UNCHANGED <<siteRows, acq, snapshotRun, phase, claims, slots, pc, local, faults>>

\* SIGTERM: no new request and no new dispatch, but the current ones go on.
Shutdown ==
    /\ phase = "up" /\ phase' = "stopping"
    /\ UNCHANGED <<rows, claims, slots, pc, local, faults>>

\* Variant: Scheduler.Stop does not wait for the workers.
ExitEarly ==
    /\ phase = "stopping" /\ phase' = "stopped" /\ dueList = {}
    /\ active' = {} /\ activeSites' = {} /\ slots' = 0
    /\ pc' = AllIdle.pc /\ job' = AllIdle.job
    /\ rid' = AllIdle.rid /\ verdict' = AllIdle.verdict
    /\ UNCHANGED <<rows, dueList, faults>>

\* server.Shutdown has waited for the handlers, Scheduler.Stop for the rest.
Exit ==
    /\ phase = "stopping" /\ phase' = "stopped"
    /\ dueList = {} /\ \A w \in Workers : pc[w] = "idle"
    /\ UNCHANGED <<rows, claims, slots, pc, local, faults>>

\* The process dies, or leaves run because server.Shutdown timed out.
Crash ==
    /\ Running /\ phase' = "crashed"
    /\ dueList' = {} /\ active' = {} /\ activeSites' = {} /\ slots' = 0
    /\ pc' = AllIdle.pc /\ job' = AllIdle.job
    /\ rid' = AllIdle.rid /\ verdict' = AllIdle.verdict
    /\ UNCHANGED <<rows, faults>>

\* Variant: the start does not recover the interrupted collections.
RestartUnrecovered ==
    /\ ~Running /\ phase' = "up"
    /\ UNCHANGED <<rows, claims, slots, pc, local, faults>>

\* run: RecoverRunningCollectionRuns commits before the scheduler starts.
Restart ==
    /\ ~Running /\ phase' = "up"
    /\ runStatus' = [r \in RunIds |->
                        IF runStatus[r] = "running" THEN "failed" ELSE runStatus[r]]
    /\ acq' = [s \in Sites |->
                        IF acq[s] = "collecting" THEN "collection_failed" ELSE acq[s]]
    /\ UNCHANGED <<siteRows, snapshotRun, claims, slots, pc, local, faults>>

Next ==
    \/ ListDue \/ Shutdown \/ Exit \/ Crash \/ Restart
    \/ \E s \in Sites : \/ Tick(s) \/ Dispatch(s) \/ SetEnabled(s)
                        \/ DeleteSite(s) \/ RestoreSite(s)
    \/ \E r \in Requests, s \in Sites : CollectNow(r, s)
    \/ \E w \in Workers : Step(w)
    \/ \E r \in RunIds : Cleanup(r)

\* The loop and every goroutine keep running, contexts end, time passes and
\* maintenance keeps up; nothing obliges an administrator or a restart.
Fairness ==
    /\ WF_vars(ListDue)
    /\ \A s \in Sites : WF_vars(Tick(s)) /\ WF_vars(Dispatch(s))
    /\ \A w \in Workers : WF_vars(Step(w))
    /\ \A r \in RunIds : WF_vars(Cleanup(r))

Spec == Init /\ [][Next]_vars
FairSpec == Spec /\ Fairness

-----------------------------------------------------------------------------
(* Safety.                                                                 *)

\* Two collections of one site never run at once, whoever starts them: a
\* manual request and the scheduler share only Collector.activeSites.
NoOverlappingRuns ==
    \A v, w \in Workers :
        v # w /\ pc[v] \in Collecting /\ pc[w] \in Collecting => job[v] # job[w]

\* The scheduler never has two goroutines for a site, though its list of due
\* sites may be old when it reaches the site.
OneGoroutinePerSite ==
    \A v, w \in Goroutines :
        v # w /\ pc[v] # "idle" /\ pc[w] # "idle" => job[v] # job[w]

\* Every HTTP slot in use is held by a worker that is talking to its site: no
\* failure, panic or cancellation leaks one, and HttpSlots is never exceeded.
SlotsAccounted == slots = Cardinality({w \in Workers : pc[w] \in Fetching})

\* A run row says running only while some worker carries that run on; each
\* lost write accounts for at most one row left behind, and a crash for none.
RunningRowsOwned ==
    Running => Cardinality({r \in RunIds : runStatus[r] = "running" /\ ~Owned(r)})
                    <= faults

\* Without a lost write, a site shown as collecting is being collected: early
\* returns, failures, panics, crashes and restarts all take the state back.
CollectingIsLive ==
    Running /\ faults = 0 =>
        \A s \in Sites : acq[s] = "collecting" => \E w \in Workers : Collects(w, s)

\* A process that has stopped in good order leaves nothing to recover.
CleanStop ==
    phase = "stopped" /\ faults = 0 =>
        /\ \A s \in Sites : acq[s] # "collecting"
        /\ \A r \in RunIds : runStatus[r] # "running"

\* When a run is recorded as successful, the site's snapshots are that run's.
SnapshotOfSuccess ==
    [][\A w \in Workers :
          rid[w] \in RunIds /\ runStatus'[rid[w]] = "success"
              => snapshotRun'[job[w]] = rid[w]]_vars

\* However a collection ends, and whoever else asks for one, each is a flight:
\* alone with its site, under a fresh run, and it alone changes what the site
\* shows; a run is a success only while its site shows it, and stays one until the
\* flight has landed (CollectSite, RecoverRunningCollectionRuns, Cleanup).
Flight == INSTANCE Flights WITH
    Worker <- Workers, Site <- Sites, Run <- RunIds,
    at <- [w \in Workers |-> IF pc[w] \in Collecting THEN job[w] ELSE NoSite],
    run <- rid, shown <- snapshotRun,
    succeeded <- {r \in RunIds : runStatus[r] = "success"}
CollectionsAreFlights == Flight!Spec

-----------------------------------------------------------------------------
(* Liveness, under Fairness.                                               *)

\* A site that stays enabled in a process that stays up is collected again
\* and again, whatever fails and whoever else collects it: no path keeps its
\* claims, the HTTP slots or its schedule.
EnabledSiteKeepsCollecting ==
    \A s \in Sites :
        <>[](enabled[s] /\ phase = "up")
            => []<>(\E w \in Workers : pc[w] = "begin" /\ job[w] = s)

\* The collecting state of a site ends, unless the process does or a write
\* is lost.
CollectingEnds ==
    \A s \in Sites :
        acq[s] = "collecting" /\ Running
            ~> acq[s] # "collecting" \/ ~Running \/ faults > 0

-----------------------------------------------------------------------------
(* What the documents say and the code does not keep.                      *)

\* docs/operations.md: a failure never overwrites the last successful
\* snapshot.  But the snapshots commit before the steps that may still fail.
FailureKeepsSnapshot ==
    [][\A w \in Workers :
          rid[w] \in RunIds /\ runStatus'[rid[w]] = "failed"
              => snapshotRun'[job[w]] # rid[w]]_vars

=============================================================================
