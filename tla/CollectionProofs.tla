-------------------------- MODULE CollectionProofs --------------------------
(***************************************************************************)
(* Theorems about module Collection, for every number of sites, workers,   *)
(* runs and HTTP slots: its invariants, and that it implements Flights.    *)
(***************************************************************************)
EXTENDS Collection, FiniteSetTheorems, TLAPS

-----------------------------------------------------------------------------
(* Counting the workers that hold an HTTP slot.                            *)

Holders == {w \in Workers : pc[w] \in Fetching}

\* A worker that moves changes the number of slot holders by at most itself.
LEMMA HoldersChange ==
    ASSUME pc \in [Workers -> PC], NEW w \in Workers, NEW q \in PC,
           pc' = [pc EXCEPT ![w] = q]
    PROVE  /\ Cardinality(Holders) \in Nat
           /\ pc[w] \in Fetching /\ q \in Fetching
                => Cardinality(Holders') = Cardinality(Holders)
           /\ pc[w] \notin Fetching /\ q \notin Fetching
                => Cardinality(Holders') = Cardinality(Holders)
           /\ pc[w] \notin Fetching /\ q \in Fetching
                => Cardinality(Holders') = Cardinality(Holders) + 1
           /\ pc[w] \in Fetching /\ q \notin Fetching
                => /\ Cardinality(Holders') = Cardinality(Holders) - 1
                   /\ Cardinality(Holders) >= 1
<1>1. IsFiniteSet(Holders)
    BY WorkersAssumption, FS_Subset DEF Holders
<1>2. Cardinality(Holders) \in Nat
    BY <1>1, FS_CardinalityType
<1>3. q \in Fetching => Holders' = Holders \cup {w}
    BY DEF Holders
<1>4. q \notin Fetching => Holders' = Holders \ {w}
    BY DEF Holders
<1>5. pc[w] \in Fetching <=> w \in Holders
    BY DEF Holders
<1>6. w \in Holders => Cardinality(Holders) >= 1
    BY <1>1, <1>2, FS_EmptySet
<1>7. /\ Cardinality(Holders \cup {w}) = IF w \in Holders THEN Cardinality(Holders)
                                                      ELSE Cardinality(Holders) + 1
      /\ Cardinality(Holders \ {w}) = IF w \in Holders THEN Cardinality(Holders) - 1
                                                    ELSE Cardinality(Holders)
    BY <1>1, FS_AddElement, FS_RemoveElement
<1>. QED  BY <1>2, <1>3, <1>4, <1>5, <1>6, <1>7

-----------------------------------------------------------------------------
(* Types, and the count of the slots that the type of slots depends on.    *)

IInv == TypeOK /\ SlotsAccounted

\* The strengthened invariant holds initially.
LEMMA InitInv == Init => IInv
<1>. SUFFICES ASSUME Init PROVE IInv
    OBVIOUS
<1>1. TypeOK
    BY SlotsAssumption, FaultsAssumption, RunsAssumption, StatesAssumption
    DEF Init, TypeOK, AllIdle, AcquisitionState, NextRun, RunStatus, PC,
        Collecting, Scheduling
<1>2. {w \in Workers : pc[w] \in Fetching} = {}
    BY DEF Init, AllIdle, Fetching
<1>. QED  BY <1>1, <1>2, FS_EmptySet DEF IInv, SlotsAccounted, Init

\* A step of a worker away from the slots: it neither holds one nor takes one.
Quiet(w) ==
    /\ pc[w] \notin Fetching /\ slots' = slots
    /\ \E q \in PC \ Fetching : pc' = [pc EXCEPT ![w] = q]

\* A worker that neither takes nor frees a slot keeps the count of the slots.
LEMMA QuietSlots ==
    ASSUME IInv, NEW w \in Workers, Quiet(w)
    PROVE  SlotsAccounted'
<1>1. PICK q \in PC \ Fetching : pc' = [pc EXCEPT ![w] = q]
    BY DEF Quiet
<1>2. Cardinality(Holders') = Cardinality(Holders)
    BY <1>1, HoldersChange DEF Quiet, IInv, TypeOK
<1>. QED  BY <1>2 DEF Quiet, IInv, SlotsAccounted, Holders

\* Every step of a worker keeps the types and the count of the slots.
LEMMA StepInv ==
    ASSUME IInv, NEW w \in Workers, Step(w)
    PROVE  IInv'
<1>. USE SlotsAssumption, FaultsAssumption, StatesAssumption
     DEF rows, siteRows, dataRows, claims, local
<1>. TypeOK
    BY DEF IInv
<1>. SUFFICES TypeOK' /\ SlotsAccounted'
    BY DEF IInv
<1>1. CASE ClaimSite(w)
    <2>1. Quiet(w)
        BY <1>1
           DEF ClaimSite, Return, Leave, Goto, Quiet, Fetching, PC, Collecting,
               Scheduling
    <2>2. TypeOK'
        BY <1>1
           DEF ClaimSite, Return, Leave, Goto, TypeOK, PC, Collecting,
               Scheduling
    <2>. QED  BY <2>1, <2>2, QuietSlots
<1>2. CASE BeginRun(w)
    <2>1. Quiet(w)
        BY <1>2
           DEF BeginRun, Fail, Goto, Quiet, Fetching, PC, Collecting,
               Scheduling
    <2>2. TypeOK'
        BY <1>2
           DEF BeginRun, Fail, Goto, RunStatus, TypeOK, PC, Collecting,
               Scheduling
    <2>. QED  BY <2>1, <2>2, QuietSlots
<1>3. CASE MarkCollecting(w)
    <2>1. Quiet(w)
        BY <1>3
           DEF MarkCollecting, Goto, Quiet, Fetching, PC, Collecting,
               Scheduling
    <2>2. TypeOK'
        BY <1>3
           DEF MarkCollecting, Goto, AcquisitionState, TypeOK, PC, Collecting,
               Scheduling
    <2>. QED  BY <2>1, <2>2, QuietSlots
<1>4. CASE GiveUp(w)
    <2>1. Quiet(w)
        BY <1>4
           DEF GiveUp, Fail, Goto, Quiet, Fetching, PC, Collecting, Scheduling
    <2>2. TypeOK'
        BY <1>4 DEF GiveUp, Fail, Goto, TypeOK, PC, Collecting, Scheduling
    <2>. QED  BY <2>1, <2>2, QuietSlots
<1>5. CASE Apply(w)
    <2>1. Quiet(w)
        BY <1>5
           DEF Apply, Fail, Goto, Quiet, Fetching, PC, Collecting, Scheduling
    <2>2. TypeOK'
        BY <1>5
           DEF Apply, Fail, Goto, AcquisitionState, TypeOK, PC, Collecting,
               Scheduling
    <2>. QED  BY <2>1, <2>2, QuietSlots
<1>6. CASE Publish(w)
    <2>1. Quiet(w)
        BY <1>6
           DEF Publish, Fail, Goto, Quiet, Fetching, PC, Collecting, Scheduling
    <2>2. TypeOK'
        BY <1>6 DEF Publish, Fail, Goto, TypeOK, PC, Collecting, Scheduling
    <2>. QED  BY <2>1, <2>2, QuietSlots
<1>7. CASE Finish(w)
    <2>1. Quiet(w)
        BY <1>7
           DEF Finish, Goto, WriteFails, Quiet, Fetching, PC, Collecting,
               Scheduling
    <2>2. TypeOK'
        BY <1>7
           DEF Finish, Goto, WriteFails, RunStatus, TypeOK, PC, Collecting,
               Scheduling
    <2>. QED  BY <2>1, <2>2, QuietSlots
<1>8. CASE FailRun(w)
    <2>1. Quiet(w)
        BY <1>8
           DEF FailRun, Goto, WriteFails, Quiet, Fetching, PC, Collecting,
               Scheduling
    <2>2. TypeOK'
        BY <1>8
           DEF FailRun, Goto, WriteFails, RunStatus, TypeOK, PC, Collecting,
               Scheduling
    <2>. QED  BY <2>1, <2>2, QuietSlots
<1>9. CASE FailState(w)
    <2>1. Quiet(w)
        BY <1>9
           DEF FailState, Goto, WriteFails, Quiet, Fetching, PC, Collecting,
               Scheduling
    <2>2. TypeOK'
        BY <1>9
           DEF FailState, Goto, WriteFails, AcquisitionState, TypeOK, PC,
               Collecting, Scheduling
    <2>. QED  BY <2>1, <2>2, QuietSlots
<1>10. CASE Release(w)
    <2>1. Quiet(w)
        BY <1>10
           DEF Release, Return, Leave, Goto, Quiet, Fetching, PC, Collecting,
               Scheduling
    <2>2. TypeOK'
        BY <1>10
           DEF Release, Return, Leave, Goto, TypeOK, PC, Collecting, Scheduling
    <2>. QED  BY <2>1, <2>2, QuietSlots
<1>11. CASE ScheduleNext(w)
    <2>1. Quiet(w)
        BY <1>11
           DEF ScheduleNext, Goto, WriteFails, Quiet, Fetching, PC, Collecting,
               Scheduling
    <2>2. TypeOK'
        BY <1>11
           DEF ScheduleNext, Goto, WriteFails, TypeOK, PC, Collecting,
               Scheduling
    <2>. QED  BY <2>1, <2>2, QuietSlots
<1>12. CASE SetNext(w)
    <2>1. Quiet(w)
        BY <1>12
           DEF SetNext, Goto, WriteFails, Quiet, Fetching, PC, Collecting,
               Scheduling
    <2>2. TypeOK'
        BY <1>12
           DEF SetNext, Goto, WriteFails, NextRun, TypeOK, PC, Collecting,
               Scheduling
    <2>. QED  BY <2>1, <2>2, QuietSlots
<1>13. CASE Unclaim(w)
    <2>1. Quiet(w)
        BY <1>13
           DEF Unclaim, Leave, Quiet, Fetching, PC, Collecting, Scheduling
    <2>2. TypeOK'
        BY <1>13 DEF Unclaim, Leave, TypeOK, PC, Collecting, Scheduling
    <2>. QED  BY <2>1, <2>2, QuietSlots
<1>14. CASE AcquireSlot(w)
    <2>1. PICK q \in Fetching : pc' = [pc EXCEPT ![w] = q]
        BY <1>14 DEF AcquireSlot, Goto, Fetching
    <2>2. pc[w] \notin Fetching /\ q \in PC
        BY <1>14 DEF AcquireSlot, Goto, Fetching, PC, Collecting
    <2>3. Cardinality(Holders') = Cardinality(Holders) + 1
        BY <2>1, <2>2, HoldersChange DEF TypeOK
    <2>4. SlotsAccounted'
        BY <1>14, <2>3 DEF AcquireSlot, IInv, SlotsAccounted, Holders
    <2>5. TypeOK'
        BY <1>14, <2>2
           DEF AcquireSlot, Goto, TypeOK, PC, Collecting, Scheduling
    <2>. QED  BY <2>4, <2>5
<1>15. CASE ReleaseSlot(w)
    <2>1. PICK q \in PC \ Fetching : pc' = [pc EXCEPT ![w] = q]
        BY <1>15 DEF ReleaseSlot, Goto, Fail, Fetching, PC, Collecting
    <2>2. pc[w] \in Fetching
        BY <1>15 DEF ReleaseSlot, Goto, Fail, Fetching
    <2>3. /\ Cardinality(Holders') = Cardinality(Holders) - 1
          /\ Cardinality(Holders) >= 1
        BY <2>1, <2>2, HoldersChange DEF TypeOK
    <2>4. SlotsAccounted'
        BY <1>15, <2>3 DEF ReleaseSlot, IInv, SlotsAccounted, Holders
    <2>5. slots' \in 0..HttpSlots
        BY <1>15, <2>3 DEF ReleaseSlot, IInv, SlotsAccounted, Holders, TypeOK
    <2>6. TypeOK'
        BY <1>15, <2>5
           DEF ReleaseSlot, Goto, Fail, TypeOK, PC, Collecting, Scheduling
    <2>. QED  BY <2>4, <2>6
<1>. QED
    BY <1>1, <1>2, <1>3, <1>4, <1>5, <1>6, <1>7, <1>8, <1>9, <1>10, <1>11,
       <1>12,
       <1>13, <1>14, <1>15 DEF Step

\* Every step keeps the types and the count of the slots.
LEMMA NextInv == IInv /\ [Next]_vars => IInv'
<1>. SUFFICES ASSUME IInv, [Next]_vars PROVE IInv'
    OBVIOUS
<1>. USE SlotsAssumption, FaultsAssumption, StatesAssumption
     DEF rows, siteRows, dataRows, claims, local
<1>. TypeOK
    BY DEF IInv
<1>1. ASSUME NEW w \in Workers, Step(w) PROVE IInv'
    BY <1>1, StepInv
<1>2. ASSUME NEW s \in Sites, Dispatch(s) PROVE IInv'
    <2>1. CASE pc' = pc
        BY <1>2, <2>1 DEF Dispatch, Goto, IInv, TypeOK, SlotsAccounted
    <2>2. CASE \E g \in Goroutines : /\ Goto(g, "idle", "claim")
                                     /\ job' = [job EXCEPT ![g] = s]
        <3>1. PICK g \in Goroutines : /\ Goto(g, "idle", "claim")
                                      /\ job' = [job EXCEPT ![g] = s]
            BY <2>2
        <3>2. g \in Workers /\ Quiet(g)
            BY <1>2, <3>1 DEF Dispatch, Goto, Quiet, Fetching, PC, Workers
        <3>3. TypeOK'
            BY <1>2, <3>1 DEF Dispatch, Goto, TypeOK, PC, Workers
        <3>. QED  BY <3>2, <3>3, QuietSlots DEF IInv
    <2>. QED  BY <1>2, <2>1, <2>2 DEF Dispatch
<1>3. ASSUME NEW r \in Requests, NEW s \in Sites, CollectNow(r, s) PROVE IInv'
    <2>1. r \in Workers /\ Quiet(r)
        BY <1>3 DEF CollectNow, Goto, Quiet, Fetching, PC, Workers
    <2>2. TypeOK'
        BY <1>3 DEF CollectNow, Goto, TypeOK, PC, Workers
    <2>. QED  BY <2>1, <2>2, QuietSlots DEF IInv
<1>4. CASE Crash
    <2>1. {w \in Workers : pc'[w] \in Fetching} = {}
        BY <1>4 DEF Crash, AllIdle, Fetching
    <2>2. TypeOK'
        BY <1>4, RunsAssumption DEF Crash, AllIdle, TypeOK, PC
    <2>. QED  BY <1>4, <2>1, <2>2, FS_EmptySet DEF Crash, IInv, SlotsAccounted
<1>5. CASE Restart
    BY <1>5
       DEF Restart, IInv, TypeOK, SlotsAccounted, RunStatus, AcquisitionState
<1>6. CASE ListDue \/ Shutdown \/ Exit
    BY <1>6 DEF ListDue, Shutdown, Exit, IInv, TypeOK, SlotsAccounted
<1>7. ASSUME NEW s \in Sites, Tick(s) \/ SetEnabled(s) \/ DeleteSite(s) \/ RestoreSite(s)
      PROVE  IInv'
    BY <1>7 DEF Tick, SetEnabled, DeleteSite, RestoreSite, IInv, TypeOK,
                SlotsAccounted, NextRun
<1>8. ASSUME NEW r \in RunIds, Cleanup(r) PROVE IInv'
    BY <1>8 DEF Cleanup, IInv, TypeOK, SlotsAccounted, RunStatus
<1>9. CASE UNCHANGED vars
    BY <1>9 DEF vars, IInv, TypeOK, SlotsAccounted
<1>. QED
    BY <1>1, <1>2, <1>3, <1>4, <1>5, <1>6, <1>7, <1>8, <1>9 DEF Next

\* The state of the process and of its rows always has its type.
THEOREM TypeCorrect == Spec => []TypeOK
<1>1. IInv => TypeOK
    BY DEF IInv
<1>. QED  BY <1>1, InitInv, NextInv, PTL DEF Spec

\* No path through a collection leaks an HTTP slot or exceeds their number.
THEOREM SlotsNeverLeak == Spec => []SlotsAccounted
<1>1. IInv => SlotsAccounted
    BY DEF IInv
<1>. QED  BY <1>1, InitInv, NextInv, PTL DEF Spec

-----------------------------------------------------------------------------
(* The claim of a site.                                                    *)

\* Whoever collects a site holds its claim, no two collect the same, and only
\* a running process has workers.
ClaimInv ==
    /\ \A w \in Workers : pc[w] \in Collecting => job[w] \in activeSites
    /\ NoOverlappingRuns
    /\ ~Running => \A w \in Workers : pc[w] = "idle"

\* Every step keeps the claims exclusive.
LEMMA ClaimStep ==
    ASSUME ClaimInv, TypeOK, [Next]_vars
    PROVE  ClaimInv'
<1>. USE SlotsAssumption, FaultsAssumption, StatesAssumption, RunsAssumption
     DEF rows, siteRows, dataRows, claims, local
<1>1. ASSUME NEW w \in Workers, Step(w) PROVE ClaimInv'
    <2>1. CASE ClaimSite(w)
        BY <2>1
           DEF ClaimSite, Return, Leave, Goto, ClaimInv, NoOverlappingRuns,
               Running, TypeOK, Collecting
    <2>2. CASE BeginRun(w)
        BY <2>2
           DEF BeginRun, Fail, Goto, FreeRun, Owned, ClaimInv,
               NoOverlappingRuns, Running, TypeOK, Collecting
    <2>3. CASE MarkCollecting(w)
        BY <2>3
           DEF MarkCollecting, Goto, ClaimInv, NoOverlappingRuns, Running,
               TypeOK, Collecting
    <2>4. CASE AcquireSlot(w)
        BY <2>4
           DEF AcquireSlot, Goto, ClaimInv, NoOverlappingRuns, Running, TypeOK,
               Collecting
    <2>5. CASE GiveUp(w)
        BY <2>5
           DEF GiveUp, Fail, Goto, ClaimInv, NoOverlappingRuns, Running,
               TypeOK, Collecting
    <2>6. CASE ReleaseSlot(w)
        BY <2>6
           DEF ReleaseSlot, Fail, Goto, ClaimInv, NoOverlappingRuns, Running,
               TypeOK, Collecting
    <2>7. CASE Apply(w)
        BY <2>7
           DEF Apply, Fail, Goto, ClaimInv, NoOverlappingRuns, Running, TypeOK,
               Collecting
    <2>8. CASE Publish(w)
        BY <2>8
           DEF Publish, Fail, Goto, ClaimInv, NoOverlappingRuns, Running,
               TypeOK, Collecting
    <2>9. CASE Finish(w)
        BY <2>9
           DEF Finish, Goto, WriteFails, ClaimInv, NoOverlappingRuns, Running,
               TypeOK, Collecting
    <2>10. CASE FailRun(w)
        BY <2>10
           DEF FailRun, Goto, WriteFails, ClaimInv, NoOverlappingRuns, Running,
               TypeOK, Collecting
    <2>11. CASE FailState(w)
        BY <2>11
           DEF FailState, Goto, WriteFails, ClaimInv, NoOverlappingRuns,
               Running, TypeOK, Collecting
    <2>12. CASE Release(w)
        BY <2>12
           DEF Release, Return, Leave, Goto, ClaimInv, NoOverlappingRuns,
               Running, TypeOK, Collecting
    <2>13. CASE ScheduleNext(w)
        BY <2>13
           DEF ScheduleNext, Goto, WriteFails, ClaimInv, NoOverlappingRuns,
               Running, TypeOK, Collecting
    <2>14. CASE SetNext(w)
        BY <2>14
           DEF SetNext, Goto, WriteFails, ClaimInv, NoOverlappingRuns, Running,
               TypeOK, Collecting
    <2>15. CASE Unclaim(w)
        BY <2>15
           DEF Unclaim, Leave, ClaimInv, NoOverlappingRuns, Running, TypeOK,
               Collecting
    <2>. QED
        BY <1>1, <2>1, <2>2, <2>3, <2>4, <2>5, <2>6, <2>7, <2>8,
           <2>9, <2>10, <2>11, <2>12, <2>13, <2>14, <2>15 DEF Step
<1>2. ASSUME NEW s \in Sites, Dispatch(s) PROVE ClaimInv'
    BY <1>2
       DEF Dispatch, Goto, Workers, ClaimInv, NoOverlappingRuns, Running,
           TypeOK, Collecting
<1>3. ASSUME NEW r \in Requests, NEW s \in Sites, CollectNow(r, s) PROVE ClaimInv'
    BY <1>3
       DEF CollectNow, Goto, Workers, ClaimInv, NoOverlappingRuns, Running,
           TypeOK, Collecting
<1>4. CASE Crash
    BY <1>4
       DEF Crash, AllIdle, ClaimInv, NoOverlappingRuns, Running, TypeOK,
           Collecting
<1>5. CASE Restart
    BY <1>5
       DEF Restart, ClaimInv, NoOverlappingRuns, Running, TypeOK, Collecting
<1>6. CASE ListDue \/ Shutdown
    BY <1>6
       DEF ListDue, Shutdown, ClaimInv, NoOverlappingRuns, Running, TypeOK,
           Collecting
<1>7. CASE Exit
    BY <1>7 DEF Exit, ClaimInv, NoOverlappingRuns, Running, TypeOK, Collecting
<1>8. ASSUME NEW s \in Sites, Tick(s) \/ SetEnabled(s) \/ DeleteSite(s) \/ RestoreSite(s)
      PROVE  ClaimInv'
    BY <1>8
       DEF Tick, SetEnabled, DeleteSite, RestoreSite, ClaimInv,
           NoOverlappingRuns, Running, TypeOK, Collecting
<1>9. ASSUME NEW r \in RunIds, Cleanup(r) PROVE ClaimInv'
    BY <1>9
       DEF Cleanup, Owned, ClaimInv, NoOverlappingRuns, Running, TypeOK,
           Collecting
<1>10. CASE UNCHANGED vars
    BY <1>10 DEF vars, ClaimInv, NoOverlappingRuns, Running, TypeOK, Collecting
<1>. QED
    BY <1>1, <1>2, <1>3, <1>4, <1>5, <1>6, <1>7, <1>8, <1>9, <1>10 DEF Next

\* Two collections of one site never run at once.
THEOREM RunsNeverOverlap == Spec => []NoOverlappingRuns
<1>1. Init => ClaimInv
    BY DEF Init, AllIdle, ClaimInv, NoOverlappingRuns, Collecting, Running
<1>2. ClaimInv => NoOverlappingRuns
    BY DEF ClaimInv
<1>3. TypeOK /\ ClaimInv /\ [Next]_vars => ClaimInv'
    BY ClaimStep
<1>. QED  BY <1>1, <1>2, <1>3, TypeCorrect, PTL DEF Spec

-----------------------------------------------------------------------------
(* The collecting state.                                                   *)

\* Where a worker has not marked its site yet, or no longer leaves it marked.
Unmarked == {"begin", "mark", "publish", "finish", "release"}

MarkInv ==
    /\ faults = 0 => \A w \in Workers :
                        pc[w] \in Unmarked => acq[job[w]] # "collecting"
    /\ CollectingIsLive

\* Every step keeps the collecting state backed by a worker.
LEMMA MarkStep ==
    ASSUME MarkInv, TypeOK, ClaimInv, [Next]_vars
    PROVE  MarkInv'
<1>. USE SlotsAssumption, FaultsAssumption, StatesAssumption, RunsAssumption
     DEF rows, siteRows, dataRows, claims, local
<1>1. ASSUME NEW w \in Workers, Step(w) PROVE MarkInv'
    <2>1. CASE ClaimSite(w)
        BY <2>1
           DEF ClaimSite, Return, Leave, Goto, MarkInv, CollectingIsLive,
               Collects, Unmarked, Running, ClaimInv, NoOverlappingRuns,
               TypeOK, Collecting
    <2>2. CASE BeginRun(w)
        BY <2>2
           DEF BeginRun, Fail, Goto, FreeRun, Owned, MarkInv, CollectingIsLive,
               Collects, Unmarked, Running, ClaimInv, NoOverlappingRuns,
               TypeOK, Collecting
    <2>3. CASE MarkCollecting(w)
        BY <2>3
           DEF MarkCollecting, Goto, MarkInv, CollectingIsLive, Collects,
               Unmarked, Running, ClaimInv, NoOverlappingRuns, TypeOK,
               Collecting
    <2>4. CASE AcquireSlot(w)
        BY <2>4
           DEF AcquireSlot, Goto, MarkInv, CollectingIsLive, Collects,
               Unmarked, Running, ClaimInv, NoOverlappingRuns, TypeOK,
               Collecting
    <2>5. CASE GiveUp(w)
        BY <2>5
           DEF GiveUp, Fail, Goto, MarkInv, CollectingIsLive, Collects,
               Unmarked, Running, ClaimInv, NoOverlappingRuns, TypeOK,
               Collecting
    <2>6. CASE ReleaseSlot(w)
        BY <2>6
           DEF ReleaseSlot, Fail, Goto, MarkInv, CollectingIsLive, Collects,
               Unmarked, Running, ClaimInv, NoOverlappingRuns, TypeOK,
               Collecting
    <2>7. CASE Apply(w)
        BY <2>7
           DEF Apply, Fail, Goto, MarkInv, CollectingIsLive, Collects,
               Unmarked, Running, ClaimInv, NoOverlappingRuns, TypeOK,
               Collecting
    <2>8. CASE Publish(w)
        BY <2>8
           DEF Publish, Fail, Goto, MarkInv, CollectingIsLive, Collects,
               Unmarked, Running, ClaimInv, NoOverlappingRuns, TypeOK,
               Collecting
    <2>9. CASE Finish(w)
        BY <2>9
           DEF Finish, Goto, WriteFails, MarkInv, CollectingIsLive, Collects,
               Unmarked, Running, ClaimInv, NoOverlappingRuns, TypeOK,
               Collecting
    <2>10. CASE FailRun(w)
        BY <2>10
           DEF FailRun, Goto, WriteFails, MarkInv, CollectingIsLive, Collects,
               Unmarked, Running, ClaimInv, NoOverlappingRuns, TypeOK,
               Collecting
    <2>11. CASE FailState(w)
        BY <2>11
           DEF FailState, Goto, WriteFails, MarkInv, CollectingIsLive,
               Collects, Unmarked, Running, ClaimInv, NoOverlappingRuns,
               TypeOK, Collecting
    <2>12. CASE Release(w)
        BY <2>12
           DEF Release, Return, Leave, Goto, MarkInv, CollectingIsLive,
               Collects, Unmarked, Running, ClaimInv, NoOverlappingRuns,
               TypeOK, Collecting
    <2>13. CASE ScheduleNext(w)
        BY <2>13
           DEF ScheduleNext, Goto, WriteFails, MarkInv, CollectingIsLive,
               Collects, Unmarked, Running, ClaimInv, NoOverlappingRuns,
               TypeOK, Collecting
    <2>14. CASE SetNext(w)
        BY <2>14
           DEF SetNext, Goto, WriteFails, MarkInv, CollectingIsLive, Collects,
               Unmarked, Running, ClaimInv, NoOverlappingRuns, TypeOK,
               Collecting
    <2>15. CASE Unclaim(w)
        BY <2>15
           DEF Unclaim, Leave, MarkInv, CollectingIsLive, Collects, Unmarked,
               Running, ClaimInv, NoOverlappingRuns, TypeOK, Collecting
    <2>. QED
        BY <1>1, <2>1, <2>2, <2>3, <2>4, <2>5, <2>6, <2>7, <2>8,
           <2>9, <2>10, <2>11, <2>12, <2>13, <2>14, <2>15 DEF Step
<1>2. ASSUME NEW s \in Sites, Dispatch(s) PROVE MarkInv'
    BY <1>2
       DEF Dispatch, Goto, Workers, MarkInv, CollectingIsLive, Collects,
           Unmarked, Running, ClaimInv, NoOverlappingRuns, TypeOK, Collecting
<1>3. ASSUME NEW r \in Requests, NEW s \in Sites, CollectNow(r, s) PROVE MarkInv'
    BY <1>3
       DEF CollectNow, Goto, Workers, MarkInv, CollectingIsLive, Collects,
           Unmarked, Running, ClaimInv, NoOverlappingRuns, TypeOK, Collecting
<1>4. CASE Crash
    BY <1>4
       DEF Crash, AllIdle, MarkInv, CollectingIsLive, Collects, Unmarked,
           Running, ClaimInv, NoOverlappingRuns, TypeOK, Collecting
<1>5. CASE Restart
    BY <1>5
       DEF Restart, MarkInv, CollectingIsLive, Collects, Unmarked, Running,
           ClaimInv, NoOverlappingRuns, TypeOK, Collecting
<1>6. CASE ListDue \/ Shutdown
    BY <1>6
       DEF ListDue, Shutdown, MarkInv, CollectingIsLive, Collects, Unmarked,
           Running, ClaimInv, NoOverlappingRuns, TypeOK, Collecting
<1>7. CASE Exit
    BY <1>7
       DEF Exit, MarkInv, CollectingIsLive, Collects, Unmarked, Running,
           ClaimInv, NoOverlappingRuns, TypeOK, Collecting
<1>8. ASSUME NEW s \in Sites, Tick(s) \/ SetEnabled(s) \/ DeleteSite(s) \/ RestoreSite(s)
      PROVE  MarkInv'
    BY <1>8
       DEF Tick, SetEnabled, DeleteSite, RestoreSite, MarkInv,
           CollectingIsLive, Collects, Unmarked, Running, ClaimInv,
           NoOverlappingRuns, TypeOK, Collecting
<1>9. ASSUME NEW r \in RunIds, Cleanup(r) PROVE MarkInv'
    BY <1>9
       DEF Cleanup, Owned, MarkInv, CollectingIsLive, Collects, Unmarked,
           Running, ClaimInv, NoOverlappingRuns, TypeOK, Collecting
<1>10. CASE UNCHANGED vars
    BY <1>10
       DEF vars, MarkInv, CollectingIsLive, Collects, Unmarked, Running,
           ClaimInv, NoOverlappingRuns, TypeOK, Collecting
<1>. QED
    BY <1>1, <1>2, <1>3, <1>4, <1>5, <1>6, <1>7, <1>8, <1>9, <1>10 DEF Next

\* Without a lost write a site shown as collecting is being collected.
THEOREM CollectingBacked == Spec => []CollectingIsLive
<1>1. Init => ClaimInv /\ MarkInv
    BY DEF Init, AllIdle, ClaimInv, NoOverlappingRuns, Collecting, MarkInv,
           CollectingIsLive, Unmarked, Running
<1>2. MarkInv => CollectingIsLive
    BY DEF MarkInv
<1>3. TypeOK /\ ClaimInv /\ [Next]_vars => ClaimInv'
    BY ClaimStep
<1>4. TypeOK /\ ClaimInv /\ MarkInv /\ [Next]_vars => MarkInv'
    BY MarkStep
<1>. QED  BY <1>1, <1>2, <1>3, <1>4, TypeCorrect, PTL DEF Spec

-----------------------------------------------------------------------------
(* Runs and the snapshots they leave.                                      *)

\* Where a worker has a run that is not recorded as ended.
Carrying == {"mark", "wait", "fetch", "waitDetail", "detail", "apply",
             "publish", "finish", "failRun"}

\* A run belongs to one worker; a row still running has one; and the site of
\* a run that is applied, or recorded as successful, shows that run.
RunInv ==
    /\ \A w \in Workers : rid[w] # NoRun => pc[w] \in Collecting \ {"begin"}
    /\ \A w \in Workers : pc[w] \in Carrying => rid[w] # NoRun
    /\ \A v, w \in Workers : v # w /\ rid[v] = rid[w] => rid[v] = NoRun
    /\ Running /\ faults = 0 =>
          \A r \in RunIds : runStatus[r] = "running" =>
              \E w \in Workers : rid[w] = r /\ pc[w] \in Carrying
    /\ \A w \in Workers :
          rid[w] \in RunIds /\ (pc[w] \in {"publish", "finish"}
                                  \/ runStatus[rid[w]] = "success")
              => snapshotRun[job[w]] = rid[w]

\* Every step keeps runs apart and snapshots in step with them.
LEMMA RunStep ==
    ASSUME RunInv, TypeOK, ClaimInv, [Next]_vars
    PROVE  RunInv'
<1>. USE SlotsAssumption, FaultsAssumption, StatesAssumption, RunsAssumption
     DEF rows, siteRows, dataRows, claims, local
<1>1. ASSUME NEW w \in Workers, Step(w) PROVE RunInv'
    <2>1. CASE ClaimSite(w)
        BY <2>1
           DEF ClaimSite, Return, Leave, Goto, RunInv, Running, Carrying,
               ClaimInv, NoOverlappingRuns, TypeOK, Collecting
    <2>2. CASE BeginRun(w)
        BY <2>2
           DEF BeginRun, Fail, Goto, FreeRun, Owned, RunInv, Running, Carrying,
               ClaimInv, NoOverlappingRuns, TypeOK, Collecting
    <2>3. CASE MarkCollecting(w)
        BY <2>3
           DEF MarkCollecting, Goto, RunInv, Running, Carrying, ClaimInv,
               NoOverlappingRuns, TypeOK, Collecting
    <2>4. CASE AcquireSlot(w)
        BY <2>4
           DEF AcquireSlot, Goto, RunInv, Running, Carrying, ClaimInv,
               NoOverlappingRuns, TypeOK, Collecting
    <2>5. CASE GiveUp(w)
        BY <2>5
           DEF GiveUp, Fail, Goto, RunInv, Running, Carrying, ClaimInv,
               NoOverlappingRuns, TypeOK, Collecting
    <2>6. CASE ReleaseSlot(w)
        BY <2>6
           DEF ReleaseSlot, Fail, Goto, RunInv, Running, Carrying, ClaimInv,
               NoOverlappingRuns, TypeOK, Collecting
    <2>7. CASE Apply(w)
        BY <2>7
           DEF Apply, Fail, Goto, RunInv, Running, Carrying, ClaimInv,
               NoOverlappingRuns, TypeOK, Collecting
    <2>8. CASE Publish(w)
        BY <2>8
           DEF Publish, Fail, Goto, RunInv, Running, Carrying, ClaimInv,
               NoOverlappingRuns, TypeOK, Collecting
    <2>9. CASE Finish(w)
        BY <2>9
           DEF Finish, Goto, WriteFails, RunInv, Running, Carrying, ClaimInv,
               NoOverlappingRuns, TypeOK, Collecting
    <2>10. CASE FailRun(w)
        BY <2>10
           DEF FailRun, Goto, WriteFails, RunInv, Running, Carrying, ClaimInv,
               NoOverlappingRuns, TypeOK, Collecting
    <2>11. CASE FailState(w)
        BY <2>11
           DEF FailState, Goto, WriteFails, RunInv, Running, Carrying,
               ClaimInv, NoOverlappingRuns, TypeOK, Collecting
    <2>12. CASE Release(w)
        BY <2>12
           DEF Release, Return, Leave, Goto, RunInv, Running, Carrying,
               ClaimInv, NoOverlappingRuns, TypeOK, Collecting
    <2>13. CASE ScheduleNext(w)
        BY <2>13
           DEF ScheduleNext, Goto, WriteFails, RunInv, Running, Carrying,
               ClaimInv, NoOverlappingRuns, TypeOK, Collecting
    <2>14. CASE SetNext(w)
        BY <2>14
           DEF SetNext, Goto, WriteFails, RunInv, Running, Carrying, ClaimInv,
               NoOverlappingRuns, TypeOK, Collecting
    <2>15. CASE Unclaim(w)
        BY <2>15
           DEF Unclaim, Leave, RunInv, Running, Carrying, ClaimInv,
               NoOverlappingRuns, TypeOK, Collecting
    <2>. QED
        BY <1>1, <2>1, <2>2, <2>3, <2>4, <2>5, <2>6, <2>7, <2>8,
           <2>9, <2>10, <2>11, <2>12, <2>13, <2>14, <2>15 DEF Step
<1>2. ASSUME NEW s \in Sites, Dispatch(s) PROVE RunInv'
    BY <1>2
       DEF Dispatch, Goto, Workers, RunInv, Running, Carrying, ClaimInv,
           NoOverlappingRuns, TypeOK, Collecting
<1>3. ASSUME NEW r \in Requests, NEW s \in Sites, CollectNow(r, s) PROVE RunInv'
    BY <1>3
       DEF CollectNow, Goto, Workers, RunInv, Running, Carrying, ClaimInv,
           NoOverlappingRuns, TypeOK, Collecting
<1>4. CASE Crash
    BY <1>4
       DEF Crash, AllIdle, RunInv, Running, Carrying, ClaimInv,
           NoOverlappingRuns, TypeOK, Collecting
<1>5. CASE Restart
    BY <1>5
       DEF Restart, RunInv, Running, Carrying, ClaimInv, NoOverlappingRuns,
           TypeOK, Collecting
<1>6. CASE ListDue \/ Shutdown
    BY <1>6
       DEF ListDue, Shutdown, RunInv, Running, Carrying, ClaimInv,
           NoOverlappingRuns, TypeOK, Collecting
<1>7. CASE Exit
    BY <1>7
       DEF Exit, RunInv, Running, Carrying, ClaimInv, NoOverlappingRuns,
           TypeOK, Collecting
<1>8. ASSUME NEW s \in Sites, Tick(s) \/ SetEnabled(s) \/ DeleteSite(s) \/ RestoreSite(s)
      PROVE  RunInv'
    BY <1>8
       DEF Tick, SetEnabled, DeleteSite, RestoreSite, RunInv, Running,
           Carrying, ClaimInv, NoOverlappingRuns, TypeOK, Collecting
<1>9. ASSUME NEW r \in RunIds, Cleanup(r) PROVE RunInv'
    BY <1>9
       DEF Cleanup, Owned, RunInv, Running, Carrying, ClaimInv,
           NoOverlappingRuns, TypeOK, Collecting
<1>10. CASE UNCHANGED vars
    BY <1>10
       DEF vars, RunInv, Running, Carrying, ClaimInv, NoOverlappingRuns,
           TypeOK, Collecting
<1>. QED
    BY <1>1, <1>2, <1>3, <1>4, <1>5, <1>6, <1>7, <1>8, <1>9, <1>10 DEF Next

\* All the invariants together.
Inv == TypeOK /\ ClaimInv /\ MarkInv /\ RunInv

\* The strengthened invariant holds in every state.
LEMMA Invariance == Spec => []Inv
<1>1. Init => ClaimInv /\ MarkInv /\ RunInv
    BY DEF Init, AllIdle, ClaimInv, NoOverlappingRuns, Collecting, MarkInv,
           CollectingIsLive, Unmarked, Running, RunInv, Carrying
<1>2. TypeOK /\ ClaimInv /\ MarkInv /\ RunInv /\ [Next]_vars
          => ClaimInv' /\ MarkInv' /\ RunInv'
    BY ClaimStep, MarkStep, RunStep
<1>. QED  BY <1>1, <1>2, TypeCorrect, PTL DEF Spec, Inv

\* A worker gives up its run in a step that leaves the rows alone.
LEMMA RunKept ==
    ASSUME Inv, Next, NEW u \in Workers, rid[u] \in RunIds
    PROVE  (rid'[u] = rid[u] /\ job'[u] = job[u]) \/ UNCHANGED rows
<1>. USE RunsAssumption DEF rows, siteRows, dataRows, claims, local
<1>1. TypeOK /\ pc[u] \in Collecting \ {"begin"}
    BY DEF Inv, RunInv
<1>2. ASSUME NEW w \in Workers, Step(w)
      PROVE  (rid'[u] = rid[u] /\ job'[u] = job[u]) \/ UNCHANGED rows
    <2>1. CASE ClaimSite(w)
        BY <1>1, <2>1 DEF ClaimSite, Return, Leave, Goto, TypeOK, Collecting
    <2>2. CASE BeginRun(w)
        BY <1>1, <2>2 DEF BeginRun, Fail, Goto, TypeOK, Collecting
    <2>3. CASE MarkCollecting(w)
        BY <1>1, <2>3 DEF MarkCollecting, Goto, TypeOK, Collecting
    <2>4. CASE AcquireSlot(w)
        BY <1>1, <2>4 DEF AcquireSlot, Goto, TypeOK, Collecting
    <2>5. CASE GiveUp(w)
        BY <1>1, <2>5 DEF GiveUp, Fail, Goto, TypeOK, Collecting
    <2>6. CASE ReleaseSlot(w)
        BY <1>1, <2>6 DEF ReleaseSlot, Fail, Goto, TypeOK, Collecting
    <2>7. CASE Apply(w)
        BY <1>1, <2>7 DEF Apply, Fail, Goto, TypeOK, Collecting
    <2>8. CASE Publish(w)
        BY <1>1, <2>8 DEF Publish, Fail, Goto, TypeOK, Collecting
    <2>9. CASE Finish(w)
        BY <1>1, <2>9 DEF Finish, Goto, TypeOK, Collecting
    <2>10. CASE FailRun(w)
        BY <1>1, <2>10 DEF FailRun, Goto, TypeOK, Collecting
    <2>11. CASE FailState(w)
        BY <1>1, <2>11 DEF FailState, Goto, TypeOK, Collecting
    <2>12. CASE Release(w)
        BY <1>1, <2>12 DEF Release, Return, Leave, Goto, TypeOK, Collecting
    <2>13. CASE ScheduleNext(w)
        BY <1>1, <2>13 DEF ScheduleNext, Goto, TypeOK, Collecting
    <2>14. CASE SetNext(w)
        BY <1>1, <2>14 DEF SetNext, Goto, TypeOK, Collecting
    <2>15. CASE Unclaim(w)
        BY <1>1, <2>15 DEF Unclaim, Leave, TypeOK, Collecting
    <2>. QED
        BY <1>2, <2>1, <2>2, <2>3, <2>4, <2>5, <2>6, <2>7, <2>8,
           <2>9, <2>10, <2>11, <2>12, <2>13, <2>14, <2>15 DEF Step
<1>3. ASSUME NEW r \in Requests, NEW s \in Sites, CollectNow(r, s)
      PROVE  UNCHANGED rows
    BY <1>3 DEF CollectNow
<1>4. CASE Crash
    BY <1>4 DEF Crash
<1>5. CASE ListDue \/ Shutdown \/ Exit \/ Restart
    BY <1>5 DEF ListDue, Shutdown, Exit, Restart
<1>6. ASSUME NEW s \in Sites,
             Tick(s) \/ SetEnabled(s) \/ DeleteSite(s) \/ RestoreSite(s)
      PROVE  (rid'[u] = rid[u] /\ job'[u] = job[u]) \/ UNCHANGED rows
    BY <1>6 DEF Tick, SetEnabled, DeleteSite, RestoreSite
<1>7. ASSUME NEW r \in RunIds, Cleanup(r)
      PROVE  (rid'[u] = rid[u] /\ job'[u] = job[u]) \/ UNCHANGED rows
    BY <1>7 DEF Cleanup
<1>8. ASSUME NEW s \in Sites, Dispatch(s) PROVE UNCHANGED rows
    BY <1>8 DEF Dispatch
<1>. QED
    BY <1>2, <1>3, <1>4, <1>5, <1>6, <1>7, <1>8 DEF Next

\* A run recorded as successful is the one its site's snapshots come from.
THEOREM SuccessMeansApplied == Spec => SnapshotOfSuccess
<1>. DEFINE A == \A w \in Workers :
                    rid[w] \in RunIds /\ runStatus'[rid[w]] = "success"
                        => snapshotRun'[job[w]] = rid[w]
<1>1. Inv /\ Inv' /\ [Next]_vars => [A]_vars
    <2>. SUFFICES ASSUME Inv, Inv', Next, NEW w \in Workers,
                         rid[w] \in RunIds, runStatus'[rid[w]] = "success"
                  PROVE  snapshotRun'[job[w]] = rid[w]
        OBVIOUS
    <2>1. CASE rid'[w] = rid[w] /\ job'[w] = job[w]
        BY <2>1 DEF Inv, RunInv
    <2>2. CASE UNCHANGED rows
        BY <2>2 DEF Inv, RunInv, rows, dataRows
    <2>. QED  BY <2>1, <2>2, RunKept
<1>. QED  BY <1>1, Invariance, PTL DEF Spec, SnapshotOfSuccess

\* A process that has stopped in good order leaves nothing to recover.
THEOREM StopsClean == Spec => []CleanStop
<1>1. Init => CleanStop
    BY DEF Init, CleanStop
<1>2. Inv /\ CleanStop /\ [Next]_vars => CleanStop'
    <2>. SUFFICES ASSUME Inv, CleanStop, [Next]_vars, (phase = "stopped" /\ faults = 0)'
                  PROVE  /\ \A s \in Sites : acq'[s] # "collecting"
                         /\ \A r \in RunIds : runStatus'[r] # "running"
        BY DEF CleanStop
    <2>. USE DEF rows, siteRows, dataRows, claims, local
    <2>1. CASE Exit
        BY <2>1 DEF Exit, Inv, MarkInv, CollectingIsLive, RunInv, Running,
                    Collects, Collecting, Carrying
    <2>2. CASE phase = "stopped" /\ UNCHANGED <<acq, runStatus, faults>>
        BY <2>2 DEF CleanStop
    <2>3. ASSUME NEW w \in Workers, Step(w) PROVE FALSE
        <3>1. pc[w] # "idle" /\ phase' = phase
            BY <2>3 DEF Step, ClaimSite, BeginRun, MarkCollecting, AcquireSlot,
               GiveUp, ReleaseSlot, Apply, Publish, Finish, FailRun, FailState,
               Release, ScheduleNext, SetNext, Unclaim, Fail, Goto
        <3>. QED  BY <3>1 DEF Inv, ClaimInv, Running
    <2>4. ASSUME NEW s \in Sites, NEW r \in Requests, CollectNow(r, s) PROVE FALSE
        BY <2>4 DEF CollectNow
    <2>5. ASSUME NEW s \in Sites,
                 \/ Tick(s) \/ Dispatch(s) \/ SetEnabled(s) \/ DeleteSite(s)
                 \/ RestoreSite(s)
          PROVE  phase = "stopped" /\ UNCHANGED <<acq, runStatus, faults>>
        BY <2>5 DEF Tick, Dispatch, SetEnabled, DeleteSite, RestoreSite
    <2>6. ASSUME NEW r \in RunIds, Cleanup(r) PROVE FALSE
        BY <2>6 DEF Cleanup
    <2>7. ~(ListDue \/ Shutdown \/ Crash \/ Restart)
        BY DEF ListDue, Shutdown, Crash, Restart
    <2>8. CASE UNCHANGED vars
        BY <2>2, <2>8 DEF vars
    <2>. QED  BY <2>1, <2>2, <2>3, <2>4, <2>5, <2>6, <2>7, <2>8 DEF Next
<1>. QED  BY <1>1, <1>2, Invariance, PTL DEF Spec

-----------------------------------------------------------------------------
(* The scheduler's own claim.                                              *)

\* A goroutine holds the scheduler's claim of its site for as long as it
\* lives, and handlers never schedule.
GoroutineInv ==
    /\ \A g \in Goroutines : pc[g] # "idle" => job[g] \in active
    /\ OneGoroutinePerSite
    /\ \A r \in Requests : pc[r] \notin Scheduling

\* Every step keeps the scheduler's claims exclusive.
LEMMA GoroutineStep ==
    ASSUME GoroutineInv, Inv, [Next]_vars
    PROVE  GoroutineInv'
<1>. USE WorkersAssumption DEF rows, siteRows, dataRows, claims, local
<1>. TypeOK /\ ClaimInv
    BY DEF Inv
<1>1. ASSUME NEW w \in Workers, Step(w) PROVE GoroutineInv'
    <2>1. CASE ClaimSite(w)
        BY <2>1
           DEF ClaimSite, Return, Leave, Goto, GoroutineInv,
               OneGoroutinePerSite, TypeOK, Workers, Scheduling
    <2>2. CASE BeginRun(w)
        BY <2>2
           DEF BeginRun, Fail, Goto, FreeRun, Owned, GoroutineInv,
               OneGoroutinePerSite, TypeOK, Workers, Scheduling
    <2>3. CASE MarkCollecting(w)
        BY <2>3
           DEF MarkCollecting, Goto, GoroutineInv, OneGoroutinePerSite, TypeOK,
               Workers, Scheduling
    <2>4. CASE AcquireSlot(w)
        BY <2>4
           DEF AcquireSlot, Goto, GoroutineInv, OneGoroutinePerSite, TypeOK,
               Workers, Scheduling
    <2>5. CASE GiveUp(w)
        BY <2>5
           DEF GiveUp, Fail, Goto, GoroutineInv, OneGoroutinePerSite, TypeOK,
               Workers, Scheduling
    <2>6. CASE ReleaseSlot(w)
        BY <2>6
           DEF ReleaseSlot, Fail, Goto, GoroutineInv, OneGoroutinePerSite,
               TypeOK, Workers, Scheduling
    <2>7. CASE Apply(w)
        BY <2>7
           DEF Apply, Fail, Goto, GoroutineInv, OneGoroutinePerSite, TypeOK,
               Workers, Scheduling
    <2>8. CASE Publish(w)
        BY <2>8
           DEF Publish, Fail, Goto, GoroutineInv, OneGoroutinePerSite, TypeOK,
               Workers, Scheduling
    <2>9. CASE Finish(w)
        BY <2>9
           DEF Finish, Goto, WriteFails, GoroutineInv, OneGoroutinePerSite,
               TypeOK, Workers, Scheduling
    <2>10. CASE FailRun(w)
        BY <2>10
           DEF FailRun, Goto, WriteFails, GoroutineInv, OneGoroutinePerSite,
               TypeOK, Workers, Scheduling
    <2>11. CASE FailState(w)
        BY <2>11
           DEF FailState, Goto, WriteFails, GoroutineInv, OneGoroutinePerSite,
               TypeOK, Workers, Scheduling
    <2>12. CASE Release(w)
        BY <2>12
           DEF Release, Return, Leave, Goto, GoroutineInv, OneGoroutinePerSite,
               TypeOK, Workers, Scheduling
    <2>13. CASE ScheduleNext(w)
        BY <2>13
           DEF ScheduleNext, Goto, WriteFails, GoroutineInv,
               OneGoroutinePerSite, TypeOK, Workers, Scheduling
    <2>14. CASE SetNext(w)
        BY <2>14
           DEF SetNext, Goto, WriteFails, GoroutineInv, OneGoroutinePerSite,
               TypeOK, Workers, Scheduling
    <2>15. CASE Unclaim(w)
        BY <2>15
           DEF Unclaim, Leave, GoroutineInv, OneGoroutinePerSite, TypeOK,
               Workers, Scheduling
    <2>. QED
        BY <1>1, <2>1, <2>2, <2>3, <2>4, <2>5, <2>6, <2>7, <2>8,
           <2>9, <2>10, <2>11, <2>12, <2>13, <2>14, <2>15 DEF Step
<1>2. ASSUME NEW s \in Sites, Dispatch(s) PROVE GoroutineInv'
    BY <1>2
       DEF Dispatch, Goto, GoroutineInv, OneGoroutinePerSite, TypeOK, Workers,
           Scheduling
<1>3. ASSUME NEW r \in Requests, NEW s \in Sites, CollectNow(r, s)
      PROVE  GoroutineInv'
    BY <1>3
       DEF CollectNow, Goto, GoroutineInv, OneGoroutinePerSite, TypeOK,
           Workers, Scheduling
<1>4. CASE Crash
    BY <1>4
       DEF Crash, AllIdle, GoroutineInv, OneGoroutinePerSite, TypeOK, Workers,
           Scheduling
<1>5. CASE Restart \/ ListDue \/ Shutdown \/ Exit
    BY <1>5
       DEF Restart, ListDue, Shutdown, Exit, GoroutineInv, OneGoroutinePerSite,
           TypeOK, Workers, Scheduling
<1>6. ASSUME NEW s \in Sites, Tick(s) \/ SetEnabled(s) \/ DeleteSite(s) \/ RestoreSite(s)
      PROVE  GoroutineInv'
    BY <1>6
       DEF Tick, SetEnabled, DeleteSite, RestoreSite, GoroutineInv,
           OneGoroutinePerSite, TypeOK, Workers, Scheduling
<1>7. ASSUME NEW r \in RunIds, Cleanup(r) PROVE GoroutineInv'
    BY <1>7
       DEF Cleanup, GoroutineInv, OneGoroutinePerSite, TypeOK, Workers,
           Scheduling
<1>8. CASE UNCHANGED vars
    BY <1>8
       DEF vars, GoroutineInv, OneGoroutinePerSite, TypeOK, Workers, Scheduling
<1>. QED
    BY <1>1, <1>2, <1>3, <1>4, <1>5, <1>6, <1>7, <1>8 DEF Next

\* However old its list of due sites, the scheduler never has two goroutines
\* for one site.
THEOREM OneGoroutine == Spec => []OneGoroutinePerSite
<1>1. Init => GoroutineInv
    BY DEF Init, AllIdle, GoroutineInv, OneGoroutinePerSite, Workers, Scheduling
<1>2. Inv /\ GoroutineInv /\ [Next]_vars => GoroutineInv'
    BY GoroutineStep
<1>3. GoroutineInv => OneGoroutinePerSite
    BY DEF GoroutineInv
<1>. QED  BY <1>1, <1>2, <1>3, Invariance, PTL DEF Spec

-----------------------------------------------------------------------------
(* Rows left saying running.                                               *)

\* A run whose row says running and that nobody will record as ended: its
\* worker has gone, or is past the write that records it.
Doomed == {r \in RunIds :
              /\ runStatus[r] = "running"
              /\ \A w \in Workers :
                    rid[w] = r => pc[w] \in {"failState", "release"}}

\* Each lost write dooms at most one run.
DoomInv == Running => IsFiniteSet(Doomed) /\ Cardinality(Doomed) <= faults

\* A step of a worker dooms no run, or loses a write and dooms its own.
LEMMA WorkerDooms ==
    ASSUME Inv, NEW w \in Workers, Step(w)
    PROVE  \/ Doomed' \subseteq Doomed /\ faults' >= faults
           \/ Doomed' \subseteq Doomed \cup {rid[w]} /\ faults' = faults + 1
<1>. USE RunsAssumption, FaultsAssumption
     DEF rows, siteRows, dataRows, claims, local
<1>. TypeOK /\ RunInv
    BY DEF Inv
<1>1. CASE ClaimSite(w)
    BY <1>1
       DEF ClaimSite, Return, Leave, Goto, Doomed, RunInv, Carrying, TypeOK,
           Collecting
<1>2. CASE BeginRun(w)
    BY <1>2
       DEF BeginRun, Fail, Goto, FreeRun, Owned, Doomed, RunInv, Carrying,
           TypeOK, Collecting
<1>3. CASE MarkCollecting(w)
    BY <1>3
       DEF MarkCollecting, Goto, Doomed, RunInv, Carrying, TypeOK, Collecting
<1>4. CASE AcquireSlot(w)
    BY <1>4
       DEF AcquireSlot, Goto, Doomed, RunInv, Carrying, TypeOK, Collecting
<1>5. CASE GiveUp(w)
    BY <1>5
       DEF GiveUp, Fail, Goto, Doomed, RunInv, Carrying, TypeOK, Collecting
<1>6. CASE ReleaseSlot(w)
    BY <1>6
       DEF ReleaseSlot, Fail, Goto, Doomed, RunInv, Carrying, TypeOK,
           Collecting
<1>7. CASE Apply(w)
    BY <1>7
       DEF Apply, Fail, Goto, Doomed, RunInv, Carrying, TypeOK, Collecting
<1>8. CASE Publish(w)
    BY <1>8
       DEF Publish, Fail, Goto, Doomed, RunInv, Carrying, TypeOK, Collecting
<1>9. CASE Finish(w)
    BY <1>9
       DEF Finish, Goto, WriteFails, Doomed, RunInv, Carrying, TypeOK,
           Collecting
<1>10. CASE FailRun(w)
    BY <1>10
       DEF FailRun, Goto, WriteFails, Doomed, RunInv, Carrying, TypeOK,
           Collecting
<1>11. CASE FailState(w)
    BY <1>11
       DEF FailState, Goto, WriteFails, Doomed, RunInv, Carrying, TypeOK,
           Collecting
<1>12. CASE Release(w)
    BY <1>12
       DEF Release, Return, Leave, Goto, Doomed, RunInv, Carrying, TypeOK,
           Collecting
<1>13. CASE ScheduleNext(w)
    BY <1>13
       DEF ScheduleNext, Goto, WriteFails, Doomed, RunInv, Carrying, TypeOK,
           Collecting
<1>14. CASE SetNext(w)
    BY <1>14
       DEF SetNext, Goto, WriteFails, Doomed, RunInv, Carrying, TypeOK,
           Collecting
<1>15. CASE Unclaim(w)
    BY <1>15
       DEF Unclaim, Leave, Doomed, RunInv, Carrying, TypeOK, Collecting
<1>. QED
    BY <1>1, <1>2, <1>3, <1>4, <1>5, <1>6, <1>7, <1>8, <1>9, <1>10, <1>11,
       <1>12, <1>13, <1>14, <1>15 DEF Step

\* Every step keeps the number of doomed runs within the lost writes.
LEMMA DoomStep ==
    ASSUME DoomInv, Inv, [Next]_vars
    PROVE  DoomInv'
<1>. USE DEF rows, siteRows, dataRows, claims, local
<1>. TypeOK /\ faults \in Nat
    BY FaultsAssumption DEF Inv, TypeOK
<1>. SUFFICES ASSUME Running'
              PROVE  IsFiniteSet(Doomed') /\ Cardinality(Doomed') <= faults'
    BY DEF DoomInv
<1>1. ASSUME Running, Doomed' \subseteq Doomed, faults' \in Nat, faults' >= faults
      PROVE  IsFiniteSet(Doomed') /\ Cardinality(Doomed') <= faults'
    <2>1. /\ IsFiniteSet(Doomed') /\ Cardinality(Doomed') <= Cardinality(Doomed)
          /\ Cardinality(Doomed) \in Nat /\ Cardinality(Doomed') \in Nat
          /\ Cardinality(Doomed) <= faults
        BY <1>1, FS_Subset, FS_CardinalityType DEF DoomInv
    <2>. QED  BY <1>1, <2>1
<1>2. ASSUME Running, NEW r, Doomed' \subseteq Doomed \cup {r}, faults' = faults + 1
      PROVE  IsFiniteSet(Doomed') /\ Cardinality(Doomed') <= faults'
    <2>1. /\ IsFiniteSet(Doomed) /\ Cardinality(Doomed) \in Nat
          /\ Cardinality(Doomed) <= faults
        BY <1>2, FS_CardinalityType DEF DoomInv
    <2>2. /\ IsFiniteSet(Doomed \cup {r})
          /\ \/ Cardinality(Doomed \cup {r}) = Cardinality(Doomed)
             \/ Cardinality(Doomed \cup {r}) = Cardinality(Doomed) + 1
        BY <2>1, FS_AddElement
    <2>3. /\ IsFiniteSet(Doomed') /\ Cardinality(Doomed') \in Nat
          /\ Cardinality(Doomed') <= Cardinality(Doomed \cup {r})
        BY <1>2, <2>2, FS_Subset, FS_CardinalityType
    <2>. QED  BY <1>2, <2>1, <2>2, <2>3
<1>3. ASSUME NEW w \in Workers, Step(w)
      PROVE  IsFiniteSet(Doomed') /\ Cardinality(Doomed') <= faults'
    <2>1. Running
        BY <1>3 DEF Inv, ClaimInv, Running, Step, ClaimSite, BeginRun,
           MarkCollecting, AcquireSlot, GiveUp, ReleaseSlot, Apply, Publish,
           Finish, FailRun, FailState, Release, ScheduleNext, SetNext, Unclaim,
           Fail, Goto
    <2>2. faults' \in Nat
        BY <1>3, FaultsAssumption DEF Step, ClaimSite, BeginRun,
           MarkCollecting, AcquireSlot, GiveUp, ReleaseSlot, Apply, Publish,
           Finish, FailRun, FailState, Release, ScheduleNext, SetNext, Unclaim,
           WriteFails
    <2>. QED  BY <1>1, <1>2, <1>3, <2>1, <2>2, WorkerDooms
<1>4. CASE Restart
    <2>1. Doomed' = {}
        BY <1>4 DEF Restart, Doomed
    <2>. QED  BY <1>4, <2>1, FS_EmptySet DEF Restart
<1>5. ASSUME Running, Doomed' = Doomed, faults' = faults
      PROVE  IsFiniteSet(Doomed') /\ Cardinality(Doomed') <= faults'
    BY <1>1, <1>5
<1>6. ASSUME NEW s \in Sites, Dispatch(s)
      PROVE  IsFiniteSet(Doomed') /\ Cardinality(Doomed') <= faults'
    <2>1. Running /\ faults' = faults /\ Doomed' = Doomed
        BY <1>6, RunsAssumption DEF Dispatch, Goto, Doomed, Inv, RunInv, TypeOK, Collecting
    <2>. QED  BY <1>5, <2>1
<1>7. ASSUME NEW r \in Requests, NEW s \in Sites, CollectNow(r, s)
      PROVE  IsFiniteSet(Doomed') /\ Cardinality(Doomed') <= faults'
    <2>1. Running /\ faults' = faults /\ Doomed' = Doomed
        BY <1>7, RunsAssumption
           DEF CollectNow, Goto, Doomed, Running, Inv, RunInv, TypeOK, Collecting
    <2>. QED  BY <1>5, <2>1
<1>8. ASSUME NEW s \in Sites, Tick(s) \/ SetEnabled(s) \/ DeleteSite(s) \/ RestoreSite(s)
      PROVE  IsFiniteSet(Doomed') /\ Cardinality(Doomed') <= faults'
    <2>1. Running /\ faults' = faults /\ Doomed' = Doomed
        BY <1>8 DEF Tick, SetEnabled, DeleteSite, RestoreSite, Running, Doomed
    <2>. QED  BY <1>5, <2>1
<1>9. ASSUME NEW r \in RunIds, Cleanup(r)
      PROVE  IsFiniteSet(Doomed') /\ Cardinality(Doomed') <= faults'
    <2>1. Running /\ faults' = faults /\ Doomed' \subseteq Doomed
        BY <1>9 DEF Cleanup, Running, Doomed, TypeOK
    <2>. QED  BY <1>1, <2>1
<1>10. CASE ListDue \/ Shutdown \/ Exit \/ UNCHANGED vars
    <2>1. Running /\ faults' = faults /\ Doomed' = Doomed
        BY <1>10 DEF ListDue, Shutdown, Exit, vars, Running, Doomed
    <2>. QED  BY <1>5, <2>1
<1>11. ~Crash
    BY DEF Crash, Running
<1>. QED
    BY <1>3, <1>4, <1>6, <1>7, <1>8, <1>9, <1>10, <1>11 DEF Next

\* A row left saying running that no worker carries on is due to a lost write,
\* each to one of its own; crashes leave none behind.
THEOREM RunningOwned == Spec => []RunningRowsOwned
<1>1. Init => DoomInv
    <2>. SUFFICES ASSUME Init PROVE DoomInv
        OBVIOUS
    <2>1. Doomed = {} /\ faults = 0
        BY DEF Init, Doomed
    <2>. QED  BY <2>1, FS_EmptySet DEF DoomInv
<1>2. Inv /\ DoomInv /\ [Next]_vars => DoomInv'
    BY DoomStep
<1>3. Inv /\ DoomInv => RunningRowsOwned
    <2>. SUFFICES ASSUME Inv, DoomInv, Running
                  PROVE  Cardinality({r \in RunIds : runStatus[r] = "running" /\ ~Owned(r)})
                             <= faults
        BY DEF RunningRowsOwned
    <2>. DEFINE Left == {r \in RunIds : runStatus[r] = "running" /\ ~Owned(r)}
    <2>1. Left \subseteq Doomed
        BY DEF Doomed, Owned
    <2>2. faults \in Nat
        BY FaultsAssumption DEF Inv, TypeOK
    <2>3. /\ Cardinality(Doomed) \in Nat /\ Cardinality(Doomed) <= faults
          /\ Cardinality(Left) \in Nat /\ Cardinality(Left) <= Cardinality(Doomed)
        BY <2>1, FS_Subset, FS_CardinalityType DEF DoomInv
    <2>. QED  BY <2>2, <2>3
<1>. QED  BY <1>1, <1>2, <1>3, Invariance, PTL DEF Spec

-----------------------------------------------------------------------------
(* Collections are flights.                                                *)

\* A run under way is recorded as running, so that no new run, no clean-up and no
\* failure touches what was recorded as successful.
CarriedInv == \A w \in Workers : pc[w] \in Carrying => runStatus[rid[w]] = "running"

\* Every step keeps the record of a run under way.
LEMMA CarriedStep ==
    ASSUME CarriedInv, Inv, [Next]_vars
    PROVE  CarriedInv'
<1>. USE RunsAssumption DEF rows, siteRows, dataRows, claims, local
<1>0. RunInv /\ TypeOK /\ (~Running => \A w \in Workers : pc[w] = "idle")
    BY DEF Inv, ClaimInv
<1>1. ASSUME NEW w \in Workers, Step(w) PROVE CarriedInv'
    <2>1. CASE ClaimSite(w)
        BY <1>0, <2>1
           DEF ClaimSite, Return, Leave, Goto, RunInv, Carrying, CarriedInv, TypeOK,
               Collecting
    <2>2. CASE BeginRun(w)
        BY <1>0, <2>2
           DEF BeginRun, Fail, Goto, FreeRun, Owned, RunInv, Carrying, CarriedInv,
               TypeOK, Collecting
    <2>3. CASE MarkCollecting(w)
        BY <1>0, <2>3
           DEF MarkCollecting, Goto, RunInv, Carrying, CarriedInv, TypeOK, Collecting
    <2>4. CASE AcquireSlot(w)
        BY <1>0, <2>4
           DEF AcquireSlot, Goto, RunInv, Carrying, CarriedInv, TypeOK, Collecting
    <2>5. CASE GiveUp(w)
        BY <1>0, <2>5
           DEF GiveUp, Fail, Goto, RunInv, Carrying, CarriedInv, TypeOK, Collecting
    <2>6. CASE ReleaseSlot(w)
        BY <1>0, <2>6
           DEF ReleaseSlot, Fail, Goto, RunInv, Carrying, CarriedInv, TypeOK, Collecting
    <2>7. CASE Apply(w)
        BY <1>0, <2>7
           DEF Apply, Fail, Goto, RunInv, Carrying, CarriedInv, TypeOK, Collecting
    <2>8. CASE Publish(w)
        BY <1>0, <2>8
           DEF Publish, Fail, Goto, RunInv, Carrying, CarriedInv, TypeOK, Collecting
    <2>9. CASE Finish(w)
        BY <1>0, <2>9
           DEF Finish, Goto, WriteFails, RunInv, Carrying, CarriedInv, TypeOK, Collecting
    <2>10. CASE FailRun(w)
        BY <1>0, <2>10
           DEF FailRun, Goto, WriteFails, RunInv, Carrying, CarriedInv, TypeOK, Collecting
    <2>11. CASE FailState(w)
        BY <1>0, <2>11
           DEF FailState, Goto, WriteFails, RunInv, Carrying, CarriedInv, TypeOK,
               Collecting
    <2>12. CASE Release(w)
        BY <1>0, <2>12
           DEF Release, Return, Leave, Goto, RunInv, Carrying, CarriedInv, TypeOK,
               Collecting
    <2>13. CASE ScheduleNext(w)
        BY <1>0, <2>13
           DEF ScheduleNext, Goto, WriteFails, RunInv, Carrying, CarriedInv, TypeOK,
               Collecting
    <2>14. CASE SetNext(w)
        BY <1>0, <2>14
           DEF SetNext, Goto, WriteFails, RunInv, Carrying, CarriedInv, TypeOK, Collecting
    <2>15. CASE Unclaim(w)
        BY <1>0, <2>15
           DEF Unclaim, Leave, RunInv, Carrying, CarriedInv, TypeOK, Collecting
    <2>. QED
        BY <1>1, <2>1, <2>2, <2>3, <2>4, <2>5, <2>6, <2>7, <2>8,
           <2>9, <2>10, <2>11, <2>12, <2>13, <2>14, <2>15 DEF Step
<1>2. ASSUME NEW s \in Sites, Dispatch(s) PROVE CarriedInv'
    BY <1>0, <1>2
       DEF Dispatch, Goto, Workers, RunInv, Carrying, CarriedInv, TypeOK, Collecting
<1>3. ASSUME NEW r \in Requests, NEW s \in Sites, CollectNow(r, s) PROVE CarriedInv'
    BY <1>0, <1>3
       DEF CollectNow, Goto, Workers, RunInv, Carrying, CarriedInv, TypeOK, Collecting
<1>4. CASE Crash
    BY <1>0, <1>4
       DEF Crash, AllIdle, RunInv, Carrying, CarriedInv, TypeOK, Collecting
<1>5. CASE Restart
    BY <1>0, <1>5 DEF Restart, RunInv, Carrying, CarriedInv, TypeOK, Collecting
<1>6. CASE ListDue \/ Shutdown \/ Exit \/ UNCHANGED vars
    BY <1>0, <1>6
       DEF ListDue, Shutdown, Exit, vars, RunInv, Carrying, CarriedInv, TypeOK, Collecting
<1>7. ASSUME NEW s \in Sites, Tick(s) \/ SetEnabled(s) \/ DeleteSite(s) \/ RestoreSite(s)
      PROVE  CarriedInv'
    BY <1>0, <1>7
       DEF Tick, SetEnabled, DeleteSite, RestoreSite, RunInv, Carrying, CarriedInv,
           TypeOK, Collecting
<1>8. ASSUME NEW r \in RunIds, Cleanup(r) PROVE CarriedInv'
    BY <1>0, <1>8
       DEF Cleanup, Owned, RunInv, Carrying, CarriedInv, TypeOK, Collecting
<1>. QED
    BY <1>1, <1>2, <1>3, <1>4, <1>5, <1>6, <1>7, <1>8 DEF Next

\* What Flights sees of a state.
FlightsAt == [w \in Workers |-> IF pc[w] \in Collecting THEN job[w] ELSE NoSite]
Succeeded == {r \in RunIds : runStatus[r] = "success"}
FlightVars == <<FlightsAt, rid, snapshotRun, Succeeded>>

\* A worker's flight neither begins nor ends in a step.
SameFlight(w) == /\ pc'[w] \in Collecting <=> pc[w] \in Collecting
                 /\ pc[w] \in Collecting => job'[w] = job[w]

\* Nothing of it is seen when no flight, run, snapshot or success changes.
LEMMA UnseenStep ==
    ASSUME \A w \in Workers : SameFlight(w), UNCHANGED <<rid, snapshotRun>>,
           \A r \in RunIds : runStatus'[r] = "success" <=> runStatus[r] = "success"
    PROVE  UNCHANGED FlightVars
<1>1. FlightsAt' = FlightsAt
    BY DEF FlightsAt, SameFlight
<1>2. Succeeded' = Succeeded
    BY DEF Succeeded
<1>. QED  BY <1>1, <1>2 DEF FlightVars

\* One worker's flight begins or ends, the others go on.
LEMMA FlightsExcept ==
    ASSUME NEW w \in Workers, NEW s, \A v \in Workers \ {w} : SameFlight(v),
           s = IF pc'[w] \in Collecting THEN job'[w] ELSE NoSite
    PROVE  FlightsAt' = [FlightsAt EXCEPT ![w] = s]
<1>1. \A v \in Workers : FlightsAt'[v] = IF v = w THEN s ELSE FlightsAt[v]
    BY DEF FlightsAt, SameFlight
<1>2. FlightsAt = [v \in Workers |-> FlightsAt[v]] /\ FlightsAt' = [v \in Workers |-> FlightsAt'[v]]
    BY DEF FlightsAt
<1>. QED  BY <1>1, <1>2, Zenon

\* A claim starts a flight, a new run opens it, a commit shows, a record of success
\* and a release are those of Flights; nothing else is seen of a collection.
LEMMA FlightStep ==
    ASSUME Inv, CarriedInv, [Next]_vars
    PROVE  Flight!Next \/ UNCHANGED FlightVars
<1>. USE DEF rows, siteRows, dataRows, claims, local
<1>0. RunInv /\ TypeOK /\ ClaimInv /\ (~Running => \A w \in Workers : pc[w] = "idle")
    BY DEF Inv, ClaimInv
<1>1. ASSUME NEW w \in Workers, Step(w) PROVE Flight!Next \/ UNCHANGED FlightVars
    <2>1. CASE ClaimSite(w)
        <3>1. rid[w] = NoRun /\ job[w] \in Sites /\ FlightsAt[w] = NoSite
            BY <1>0, <2>1 DEF ClaimSite, RunInv, TypeOK, Collecting, FlightsAt
        <3>2. CASE job[w] \in activeSites
            <4>1. rid' = rid /\ snapshotRun' = snapshotRun /\ runStatus' = runStatus
                BY <1>0, <2>1, <3>1, <3>2 DEF ClaimSite, Return, Goto, TypeOK
            <4>2. \A v \in Workers : SameFlight(v)
                BY <1>0, <2>1, <3>2
                   DEF ClaimSite, Return, Leave, Goto, SameFlight, TypeOK, Collecting
            <4>. QED  BY <4>1, <4>2, UnseenStep
        <3>3. PICK s \in Sites : s = job[w]
            BY <3>1
        <3>4. CASE s \notin activeSites
            <4>1. /\ Goto(w, "claim", "begin") /\ UNCHANGED local
                  /\ UNCHANGED <<snapshotRun, runStatus>>
                BY <2>1, <3>3, <3>4 DEF ClaimSite, Return
            <4>2. FlightsAt' = [FlightsAt EXCEPT ![w] = s]
                <5>1. \A v \in Workers \ {w} : SameFlight(v)
                    BY <1>0, <4>1 DEF Goto, SameFlight, TypeOK
                <5>2. s = IF pc'[w] \in Collecting THEN job'[w] ELSE NoSite
                    BY <1>0, <3>3, <4>1 DEF Goto, TypeOK, Collecting
                <5>. QED  BY <5>1, <5>2, FlightsExcept
            <4>3. \A v \in Workers : FlightsAt[v] # s
                BY <1>0, <3>4, SitesAssumption DEF ClaimInv, FlightsAt
            <4>4. UNCHANGED <<rid, snapshotRun, Succeeded>>
                BY <4>1 DEF Succeeded
            <4>5. Flight!Start(w, s)
                BY <3>1, <4>2, <4>3, <4>4 DEF Flight!Start, FlightsAt, Succeeded
            <4>. QED  BY <4>5 DEF Flight!Next
        <3>. QED  BY <3>2, <3>3, <3>4
    <2>2. CASE BeginRun(w)
        <3>1. \A v \in Workers : SameFlight(v)
            BY <1>0, <2>2 DEF BeginRun, Fail, Goto, SameFlight, TypeOK, Collecting
        <3>2. CASE UNCHANGED <<rid, runStatus>>
            BY <2>2, <3>1, <3>2, UnseenStep DEF BeginRun
        <3>3. ASSUME NEW r \in RunIds, pc[w] = "begin", FreeRun(r),
                     rid' = [rid EXCEPT ![w] = r],
                     runStatus' = [runStatus EXCEPT ![r] = "running"]
              PROVE  Flight!Next
            <4>1. FlightsAt' = FlightsAt /\ snapshotRun' = snapshotRun
                BY <2>2, <3>1 DEF BeginRun, FlightsAt, SameFlight
            <4>2. r \notin Succeeded /\ Succeeded' = Succeeded
                BY <1>0, <3>3 DEF FreeRun, Succeeded, TypeOK
            <4>3. FlightsAt[w] # NoSite /\ rid[w] = NoRun
                BY <1>0, <3>3, SitesAssumption
                   DEF FlightsAt, RunInv, TypeOK, Collecting
            <4>4. (\A v \in Workers : rid[v] # r) /\ \A s \in Sites : snapshotRun[s] # r
                BY <3>3 DEF FreeRun, Owned
            <4>5. Flight!Open(w, r)
                BY <3>3, <4>1, <4>2, <4>3, <4>4
                   DEF Flight!Open, FlightsAt, Succeeded
            <4>. QED  BY <4>5 DEF Flight!Next
        <3>. QED  BY <2>2, <3>2, <3>3 DEF BeginRun, Fail, Goto
    <2>3. CASE MarkCollecting(w)
        BY <1>0, <2>3, UnseenStep
           DEF MarkCollecting, Goto, SameFlight, TypeOK, Collecting, Scheduling
    <2>4. CASE AcquireSlot(w)
        BY <1>0, <2>4, UnseenStep
           DEF AcquireSlot, Goto, SameFlight, TypeOK, Collecting, Scheduling
    <2>5. CASE GiveUp(w)
        BY <1>0, <2>5, UnseenStep
           DEF GiveUp, Fail, Goto, SameFlight, TypeOK, Collecting, Scheduling
    <2>6. CASE ReleaseSlot(w)
        BY <1>0, <2>6, UnseenStep
           DEF ReleaseSlot, Fail, Goto, SameFlight, TypeOK, Collecting, Scheduling
    <2>7. CASE Apply(w)
        <3>1. \A v \in Workers : SameFlight(v)
            BY <1>0, <2>7 DEF Apply, Fail, Goto, SameFlight, TypeOK, Collecting
        <3>2. UNCHANGED <<rid, runStatus>>
            BY <2>7 DEF Apply, Fail
        <3>3. CASE UNCHANGED snapshotRun
            BY <3>1, <3>2, <3>3, UnseenStep
        <3>4. CASE /\ pc[w] = "apply"
                   /\ snapshotRun' = [snapshotRun EXCEPT ![job[w]] = rid[w]]
            <4>1. FlightsAt[w] = job[w] /\ job[w] \in Sites /\ rid[w] # NoRun
                BY <1>0, <3>4 DEF FlightsAt, RunInv, Carrying, TypeOK, Collecting
            <4>2. FlightsAt' = FlightsAt /\ Succeeded' = Succeeded
                BY <3>1, <3>2 DEF FlightsAt, SameFlight, Succeeded
            <4>3. Flight!Show(w)
                BY <3>2, <3>4, <4>1, <4>2, SitesAssumption
                   DEF Flight!Show, FlightsAt, Succeeded
            <4>. QED  BY <4>3 DEF Flight!Next
        <3>. QED  BY <2>7, <3>3, <3>4 DEF Apply, Goto
    <2>8. CASE Publish(w)
        BY <1>0, <2>8, UnseenStep
           DEF Publish, Fail, Goto, SameFlight, TypeOK, Collecting, Scheduling
    <2>9. CASE Finish(w)
        <3>1. \A v \in Workers : SameFlight(v)
            BY <1>0, <2>9 DEF Finish, Goto, SameFlight, TypeOK, Collecting
        <3>2. UNCHANGED <<rid, snapshotRun>> /\ pc[w] = "finish"
            BY <2>9 DEF Finish, Goto
        <3>3. CASE UNCHANGED runStatus
            BY <3>1, <3>2, <3>3, UnseenStep
        <3>4. CASE runStatus' = [runStatus EXCEPT ![rid[w]] = "success"]
            <4>1. /\ FlightsAt[w] = job[w] /\ job[w] \in Sites /\ rid[w] \in RunIds
                  /\ rid[w] # NoRun /\ snapshotRun[job[w]] = rid[w]
                BY <1>0, <3>2, RunsAssumption
                   DEF FlightsAt, RunInv, Carrying, TypeOK, Collecting
            <4>2. FlightsAt' = FlightsAt
                BY <3>1 DEF FlightsAt, SameFlight
            <4>3. Succeeded' = Succeeded \cup {rid[w]}
                BY <1>0, <3>4, <4>1 DEF Succeeded, TypeOK
            <4>4. Flight!Succeed(w)
                BY <3>2, <4>1, <4>2, <4>3, SitesAssumption
                   DEF Flight!Succeed, FlightsAt, Succeeded
            <4>. QED  BY <4>4 DEF Flight!Next
        <3>. QED  BY <2>9, <3>3, <3>4 DEF Finish
    <2>10. CASE FailRun(w)
        <3>1. \A v \in Workers : SameFlight(v)
            BY <1>0, <2>10 DEF FailRun, Goto, SameFlight, TypeOK, Collecting
        <3>2. UNCHANGED <<rid, snapshotRun>> /\ runStatus[rid[w]] = "running"
            BY <2>10 DEF FailRun, Goto, CarriedInv, Carrying
        <3>3. \A r \in RunIds : runStatus'[r] = "success" <=> runStatus[r] = "success"
            BY <1>0, <2>10, <3>2 DEF FailRun, TypeOK
        <3>. QED  BY <3>1, <3>2, <3>3, UnseenStep
    <2>11. CASE FailState(w)
        BY <1>0, <2>11, UnseenStep
           DEF FailState, Goto, WriteFails, SameFlight, TypeOK, Collecting, Scheduling
    <2>12. CASE Release(w)
        <3>1. \A v \in Workers \ {w} : SameFlight(v)
            BY <1>0, <2>12 DEF Release, Return, Leave, SameFlight, TypeOK
        <3>2. pc'[w] \notin Collecting
            BY <1>0, <2>12 DEF Release, Return, Leave, TypeOK, Collecting
        <3>3. FlightsAt' = [FlightsAt EXCEPT ![w] = NoSite]
            BY <3>1, <3>2, FlightsExcept
        <3>4. /\ rid' = [rid EXCEPT ![w] = NoRun]
              /\ UNCHANGED <<snapshotRun, Succeeded>>
            BY <2>12 DEF Release, Return, Succeeded
        <3>5. FlightsAt[w] # NoSite
            BY <1>0, <2>12, SitesAssumption
               DEF Release, FlightsAt, TypeOK, Collecting
        <3>6. Flight!Land(w)
            BY <3>3, <3>4, <3>5 DEF Flight!Land, FlightsAt, Succeeded
        <3>. QED  BY <3>6 DEF Flight!Next
    <2>13. CASE ScheduleNext(w)
        BY <1>0, <2>13, UnseenStep
           DEF ScheduleNext, Goto, WriteFails, SameFlight, TypeOK, Collecting, Scheduling
    <2>14. CASE SetNext(w)
        BY <1>0, <2>14, UnseenStep
           DEF SetNext, Goto, WriteFails, SameFlight, TypeOK, Collecting, Scheduling
    <2>15. CASE Unclaim(w)
        BY <1>0, <2>15, UnseenStep
           DEF Unclaim, Leave, SameFlight, TypeOK, Collecting, Scheduling
    <2>. QED
        BY <1>1, <2>1, <2>2, <2>3, <2>4, <2>5, <2>6, <2>7, <2>8,
           <2>9, <2>10, <2>11, <2>12, <2>13, <2>14, <2>15 DEF Step
<1>2. ASSUME NEW s \in Sites, Dispatch(s) PROVE UNCHANGED FlightVars
    BY <1>0, <1>2, UnseenStep
       DEF Dispatch, Goto, Workers, SameFlight, TypeOK, Collecting, Scheduling
<1>3. ASSUME NEW r \in Requests, NEW s \in Sites, CollectNow(r, s) PROVE UNCHANGED FlightVars
    BY <1>0, <1>3, UnseenStep
       DEF CollectNow, Goto, Workers, SameFlight, TypeOK, Collecting, Scheduling
<1>4. CASE Crash
    <2>1. FlightsAt' = [w \in Workers |-> NoSite] /\ rid' = [w \in Workers |-> NoRun]
        BY <1>4 DEF Crash, AllIdle, FlightsAt, Collecting
    <2>2. UNCHANGED <<snapshotRun, Succeeded>>
        BY <1>4 DEF Crash, Succeeded
    <2>. QED  BY <2>1, <2>2
                 DEF Flight!Next, Flight!Crash, Flight!Landed, FlightsAt, Succeeded
<1>5. CASE Restart
    BY <1>0, <1>5, UnseenStep
       DEF Restart, SameFlight, TypeOK, Collecting, Scheduling
<1>6. CASE ListDue \/ Shutdown \/ Exit \/ UNCHANGED vars
    BY <1>0, <1>6, UnseenStep
       DEF ListDue, Shutdown, Exit, vars, SameFlight, TypeOK, Collecting, Scheduling
<1>7. ASSUME NEW s \in Sites, Tick(s) \/ SetEnabled(s) \/ DeleteSite(s) \/ RestoreSite(s)
      PROVE  UNCHANGED FlightVars
    BY <1>0, <1>7, UnseenStep
       DEF Tick, SetEnabled, DeleteSite, RestoreSite, SameFlight, TypeOK, Collecting,
           Scheduling
<1>8. ASSUME NEW r \in RunIds, Cleanup(r) PROVE Flight!Next
    <2>1. \A w \in Workers : rid[w] # r
        BY <1>8 DEF Cleanup, Owned
    <2>2. Succeeded' = Succeeded \ {r}
        BY <1>0, <1>8 DEF Cleanup, Succeeded, TypeOK
    <2>3. UNCHANGED <<FlightsAt, rid, snapshotRun>>
        BY <1>8 DEF Cleanup, FlightsAt
    <2>4. Flight!Forget(r)
        BY <2>1, <2>2, <2>3 DEF Flight!Forget, FlightsAt, Succeeded
    <2>. QED  BY <2>4 DEF Flight!Next
<1>. QED
    BY <1>1, <1>2, <1>3, <1>4, <1>5, <1>6, <1>7, <1>8 DEF Next

\* However a collection ends and whoever asks for another, each is a flight: alone
\* with its site, under a fresh run, and it alone changes what the site shows
\* (CollectSite implements Flights).
THEOREM CollectionsFly == Spec => CollectionsAreFlights
<1>1. Init => CarriedInv
    BY DEF Init, AllIdle, CarriedInv, Carrying
<1>2. Inv /\ CarriedInv /\ [Next]_vars => CarriedInv'
    BY CarriedStep
<1>3. Init => Flight!Init
    BY DEF Init, AllIdle, Collecting, Flight!Init, Flight!Landed
<1>4. Inv /\ CarriedInv /\ [Next]_vars => [Flight!Next]_FlightVars
    BY FlightStep
<1>. QED
    BY <1>1, <1>2, <1>3, <1>4, Invariance, PTL
       DEF Spec, CollectionsAreFlights, Flight!Spec, FlightVars, FlightsAt, Succeeded
=============================================================================
