----------------------------- MODULE Dashboard -----------------------------
(***************************************************************************)
(* The public dashboard: the payload cache of the server                   *)
(* (internal/httpserver/server.go), the queries it is filled from          *)
(* (internal/store/query.go), the data revision (meta.go, runs.go) and the *)
(* pages that poll it (web/public/dashboard-state.js).                     *)
(*                                                                         *)
(* What a query returns is told apart by two counters: the commits that    *)
(* advance the revision (collections, failed runs, edits of sites, news),  *)
(* and the changes that show in a row without a commit that does (matches  *)
(* and blocked models written after a collection, a row that turns stale   *)
(* or loses its samples with age).                                         *)
(***************************************************************************)
EXTENDS Naturals

CONSTANTS
    Pages,
    NoPage,
    MaxRevision, MaxShape, MaxDashFaults   \* bounds

ASSUME DashboardAssumption ==
    /\ NoPage \notin Pages
    /\ MaxRevision \in Nat \ {0, 1} /\ {MaxShape, MaxDashFaults} \subseteq Nat

VARIABLES
    revision,       \* app_meta.data_revision, and what was committed with it
    shape,          \* the changes that have not advanced it
    cache,          \* publicDashboardCache
    cacheLock,      \* its mutex: the page whose request holds it
    page,           \* per page: the poll in progress, and what it has read
    shown,          \* per page: the payload it shows
    lastAsked,      \* history: the revision when a page's request was sent
    dashFaults      \* polls that failed and restarts

dashVars == <<revision, shape, cache, cacheLock, page, shown, lastAsked, dashFaults>>

Content == [revision : 0..MaxRevision, shape : 0..MaxShape]
Now == [revision |-> revision, shape |-> shape]
NoContent == [revision |-> 0, shape |-> 0]
Payload == [revision : 0..MaxRevision, rows : Content, history : Content]
NoPayload == [revision |-> 0, rows |-> NoContent, history |-> NoContent]
NoPoll == [pc |-> "idle", attempt |-> 0, got |-> NoPayload]

DashTypeOK ==
    /\ revision \in 1..MaxRevision /\ shape \in 0..MaxShape
    /\ cache \in Payload
    /\ cacheLock \in Pages \cup {NoPage}
    /\ page \in [Pages -> [pc : {"idle", "fetch", "revision", "rows", "history", "check", "apply"},
                           attempt : 0..2, got : Payload]]
    /\ \A p \in Pages : cacheLock = p <=> page[p].pc \in {"revision", "rows", "history", "check"}
    /\ shown \in [Pages -> Payload]
    /\ lastAsked \in [Pages -> 0..MaxRevision]
    /\ dashFaults \in 0..MaxDashFaults

DashInit ==
    /\ revision = 1 /\ shape = 0
    /\ cache = NoPayload /\ cacheLock = NoPage
    /\ page = [p \in Pages |-> NoPoll]
    /\ shown = [p \in Pages |-> NoPayload]
    /\ lastAsked = [p \in Pages |-> 0]
    /\ dashFaults = 0

readers == <<cache, cacheLock, page, shown, lastAsked, dashFaults>>

-----------------------------------------------------------------------------
(* Writers.                                                                *)

\* incrementRevision inside the transaction of the change, BumpRevision after
\* the rules were applied.
CommitRevision ==
    /\ revision < MaxRevision /\ revision' = revision + 1
    /\ UNCHANGED <<shape, readers>>

\* RefreshMatches and RemoveRawModels after ApplyCollection; and time.  Another
\* collection follows.
ChangeShape ==
    /\ shape < MaxShape /\ shape' = shape + 1
    /\ revision < MaxRevision
    /\ UNCHANGED <<revision, readers>>

-----------------------------------------------------------------------------
(* A page polls the revision and fetches the dashboard when it has changed.*)

To(p, pc) == page' = [page EXCEPT ![p].pc = pc]

\* /api/v1/meta; without a revision in the answer the page fetches anyway.
PollMeta(p) ==
    /\ page[p].pc = "idle"
    /\ \E meta \in {revision, 0} :
          /\ shown[p].revision = 0 \/ meta # shown[p].revision
          /\ lastAsked' = [lastAsked EXCEPT ![p] = revision]
    /\ To(p, "fetch")
    /\ UNCHANGED <<revision, shape, cache, cacheLock, shown, dashFaults>>

LockCache(p) ==
    /\ page[p].pc = "fetch" /\ cacheLock = NoPage
    /\ cacheLock' = p
    /\ page' = [page EXCEPT ![p].pc = "revision", ![p].attempt = 1]
    /\ UNCHANGED <<revision, shape, cache, shown, lastAsked, dashFaults>>

AnswerWith(p, payload) ==
    /\ cacheLock' = NoPage
    /\ page' = [page EXCEPT ![p] = [pc |-> "apply", attempt |-> 0, got |-> payload]]

\* Variant: a filled cache is good.
ReadRevisionOnce(p) ==
    /\ page[p].pc = "revision"
    /\ IF cache # NoPayload
         THEN AnswerWith(p, cache)
         ELSE /\ page' = [page EXCEPT ![p].pc = "rows", ![p].got.revision = revision]
              /\ UNCHANGED cacheLock
    /\ UNCHANGED <<revision, shape, cache, shown, lastAsked, dashFaults>>

ReadRevision(p) ==
    /\ page[p].pc = "revision"
    /\ IF cache # NoPayload /\ cache.revision = revision
         THEN AnswerWith(p, cache)
         ELSE /\ page' = [page EXCEPT ![p].pc = "rows", ![p].got.revision = revision]
              /\ UNCHANGED cacheLock
    /\ UNCHANGED <<revision, shape, cache, shown, lastAsked, dashFaults>>

ReadRows(p) ==
    /\ page[p].pc = "rows"
    /\ page' = [page EXCEPT ![p].pc = "history", ![p].got.rows = Now]
    /\ UNCHANGED <<revision, shape, cache, cacheLock, shown, lastAsked, dashFaults>>

ReadHistory(p) ==
    /\ page[p].pc = "history"
    /\ page' = [page EXCEPT ![p].pc = "check", ![p].got.history = Now]
    /\ UNCHANGED <<revision, shape, cache, cacheLock, shown, lastAsked, dashFaults>>

\* The revision is read again: it has moved, the second attempt fails the
\* request.
CheckRevision(p) ==
    /\ page[p].pc = "check"
    /\ \/ /\ page[p].got.revision = revision
          /\ cache' = page[p].got /\ AnswerWith(p, page[p].got)
       \/ /\ page[p].got.revision # revision /\ page[p].attempt = 1
          /\ page' = [page EXCEPT ![p].pc = "revision", ![p].attempt = 2]
          /\ UNCHANGED <<cache, cacheLock, dashFaults>>
       \/ /\ page[p].got.revision # revision /\ page[p].attempt = 2
          /\ page' = [page EXCEPT ![p] = NoPoll] /\ cacheLock' = NoPage
          /\ UNCHANGED cache
    /\ UNCHANGED <<revision, shape, shown, lastAsked, dashFaults>>

ApplyPayload(p) ==
    /\ page[p].pc = "apply"
    /\ shown' = [shown EXCEPT ![p] = page[p].got]
    /\ page' = [page EXCEPT ![p] = NoPoll]
    /\ UNCHANGED <<revision, shape, cache, cacheLock, lastAsked, dashFaults>>

DashFault == dashFaults < MaxDashFaults /\ dashFaults' = dashFaults + 1

\* The connection ends or a query fails: the mutex is released, the page keeps
\* what it shows and polls again.
PollFails(p) ==
    /\ page[p].pc # "idle" /\ DashFault
    /\ cacheLock' = IF cacheLock = p THEN NoPage ELSE cacheLock
    /\ page' = [page EXCEPT ![p] = NoPoll]
    /\ UNCHANGED <<revision, shape, cache, shown, lastAsked>>

RestartServer ==
    /\ DashFault
    /\ cache' = NoPayload /\ cacheLock' = NoPage
    /\ page' = [p \in Pages |-> NoPoll]
    /\ UNCHANGED <<revision, shape, shown, lastAsked>>


-----------------------------------------------------------------------------

LoadStep(p) == ReadRevision(p) \/ ReadRows(p) \/ ReadHistory(p) \/ CheckRevision(p)
PollStep(p) == PollMeta(p) \/ LockCache(p) \/ LoadStep(p) \/ ApplyPayload(p)

DashNext ==
    \/ CommitRevision \/ ChangeShape \/ RestartServer
    \/ \E p \in Pages : PollStep(p) \/ PollFails(p)

\* The scheduler collects on, an open page polls on, and of the requests that
\* wait for the mutex each gets it in its turn.
DashFairness ==
    /\ WF_dashVars(CommitRevision)
    /\ \A p \in Pages : /\ WF_dashVars(PollMeta(p)) /\ WF_dashVars(LoadStep(p))
                        /\ SF_dashVars(LockCache(p)) /\ WF_dashVars(ApplyPayload(p))

DashSpec == DashInit /\ [][DashNext]_dashVars /\ DashFairness

-----------------------------------------------------------------------------
(* Properties.                                                             *)

\* A page gets what was committed when it asked, or later, whoever filled the
\* cache and whatever was committed during the request; and its rows and its
\* history were committed together, although they are read by two queries while
\* collections commit.
Publication == INSTANCE Published WITH
    Page <- Pages, current <- revision, asked <- lastAsked,
    rows <- [p \in Pages |-> shown[p].rows.revision],
    history <- [p \in Pages |-> shown[p].history.revision]
AnswersAreFresh == Publication!Spec

\* Matches that changed without advancing the revision reach every page: the
\* next commit carries them.
ShapeReachesPages ==
    \A k \in 1..MaxShape : \A p \in Pages :
        (shape >= k) ~> (shown[p].rows.shape >= k)
=============================================================================
