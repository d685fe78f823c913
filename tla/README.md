# RelayScope in TLA+

RelayScope collects the prices and the health of AI relay sites on a schedule,
shows them on a public dashboard, pushes announcements to subscribers and sells
membership and wishes for LDC, the points of an external payment platform. It is
one Go process over one SQLite database (WAL, four connections,
`busy_timeout` 5 s). Everything hard about it lies between those two: goroutines
and HTTP handlers that share rows, mutexes and channels, work from rows read
earlier, and may be cut off at any point by a context, a crash or an error,
after which only the rows are left.

This directory holds models of those parts, configurations for TLC and proofs
for TLAPS. `PROJECT.json` maps every definition to the lines it models.

## Inventory

Paths are relative to `src/internal` unless they start with `src/`.

| Component | State | Operations | What makes it correct | Modelled |
|---|---|---|---|---|
| Scheduler (`scheduler`) | `active` claims, a wait group; `sites.next_run_at` | list due sites, claim and start a goroutine, reschedule, `Stop` | one goroutine per site, claims come back, enabled sites go on being collected, a clean stop | `Collection` |
| Collector (`collector`) | `activeSites`, three HTTP slots, the matcher under a RW mutex | `CollectSite`, `CollectNow`, `ReloadMatcher` | runs of one site never overlap, slots and claims come back on every path, run and site rows tell the truth | `Collection`; the matcher in `Catalog` |
| Run and site rows (`store/runs.go`, `store/sites.go`) | `collection_runs`, `sites` | start, finish and recover a run; edit, delete, restore a site | no run stays running without an owner | `Collection` |
| Catalog (`store/collection_apply.go`, `query.go`) | raw models, groups, snapshots, buckets, absence counts | `ApplyCollection`, `RemoveRawModels`, `Cleanup`, queries | nothing vanishes on one bad pass | `Catalog` |
| Rules and matcher (`store/rules_matches.go`, `matcher`) | standard models, rules, blocked models, matches | rule edits, `RefreshAllMatches`, `RefreshMatchesForRawModels` | stored matches are what the current rules say | `Catalog` |
| Dashboard cache and poller (`httpserver/server.go`, `store/meta.go`, `src/web/public`) | the revision in `app_meta`, one cached payload under a mutex, what each page shows | advance the revision, load with two attempts, poll | an answer is of one revision, none older than the one current at the question, readers catch up | `Dashboard`, `Published` |
| LDC orders and refunds (`store/ldc_orders.go`, `store/membership_refunds.go`, `httpserver`) | `ldc_orders`, `order_refund_attempts`; handlers in flight | create, charge, notify, poll, expire, refund | a benefit is granted once and for money, money goes back at most once | `Orders` |
| Payment platform (`payment`) | charges and refunds at a third party | create, verify, refund, notify | (environment) | by its outcomes in `Orders` |
| Membership time (`store/membership.go`, `membership_refunds.go`, `redeem.go`) | expiry, sold intervals, preregistrations, codes | pay, redeem, set by hand, register, refund | no moment is sold twice, a refund takes its own order's time only | `Membership` |
| Announcements and outbox (`store/announcements.go`, `store/notifications.go`, `notifier`) | version ledger, subscriptions, outbox; queueing goroutines, one dispatcher | find news, queue, send, retry, subscribe, change channel, delete | news reaches every subscriber, bounded repeats, silence after deletion | `Outbox` |
| Free tier (`httpserver/user_routes.go`, `notifier`, `src/web/public`) | subscriptions in the order of their ids | check the limit, insert, grant a push | what is pushed, what is paused and what the limit counts agree | `FreeTier` |
| Wish pool and monthly credit (`store/wishes.go`, `store/wish_credits.go`) | targets, status, pledges, grants | wish, pledge, refund, edit, delete | reached means paid for, credit is not spent twice or lost | `WishPool` |
| Renewal reminders (`store/renewal_reminders.go`, `notifier`) | one claim row per membership and kind | list, claim, send, release | every promised reminder goes out, and again only when no answer came | `Reminders` |
| Source sessions (`session/provider.go`, `store/sessions.go`, `httpserver/sessionimport.go`) | credentials per site, two rotation mutexes | load, rotate, save, import, delete | a single-use token is not sent twice nor left behind used | `Sessions` |
| Browser session sync (`session/sync.go`, `httpserver/routes.go`) | pairings, tokens, attempts in memory | pair, exchange, authorize, check, claim, save, finish | a code or token is used once and in time, attempts are bounded | `SessionSync`, `Tickets` |
| Logins (`admin/auth.go`, `linuxdo/oauth.go`, `store/sessions_user.go`) | failures, sessions and CSRF tokens in memory; OAuth states in memory, user sessions in SQLite | log in, log out, begin, callback, clean up | guessing is slow, a state logs in once and only where it was begun | `AdminAuth`, `OAuthLogin`, `Tickets` |
| Rate limiters (`notifier/ratelimit.go`, `httpserver/user_routes.go`) | a window of events per user; tokens of a bucket | `allow`, `wait` | never more than the limit in a window | `RateLimiter`, `TokenBucket` |
| Billing expressions (`pricing/expr.go`) | none | parse, pick the standard tier | what is accepted is priced at its worth | `Expressions`, `BillingExpression` |
| Pricing decoders and routing observations (`pricing`, `adapter/pricing.go`, `store/routing_observations.go`) | prices stored beside models and groups | decode, lay over groups, show, answer machines | both readers of one price list agree | `Quotes` |
| Adapters of monitors, challenge solving, senders, configuration, pages | | | | no, see below |

**Interactions.** The scheduler and the administration handlers call the
collector; the collector asks the session provider for credentials, writes the
catalog, which advances the revision the dashboard's cache goes by, and hands new
announcement versions to `Dispatcher.Enqueue` in a goroutine; the dispatcher
shares subscriptions and outbox with the user handlers, obeys the free tier and
the token bucket, and runs the reminders in a second loop. Payment
notifications, polls, maintenance and refunds meet in the rows of `ldc_orders`,
which pay for membership time and wishes. The browser extension stores sessions
the provider then uses. Maintenance (`store.Cleanup`, expiry of orders) runs
beside all of it. Every database call is one transaction and one step of the
models, except where the code makes a single operation of two statements without
a transaction (`UpdateSubscriptionChannel`, the edit of a wish).

**Hard behaviours.** They are listed with their lines under `hazards` in
`PROJECT.json`: stale reads (a list of due sites, of subscriptions, of pending
session sites, a batch of the outbox, the state read for rescheduling), two-step
writes of which one may fail, single-use tokens of which the answer is lost,
answers of the platform that are lost or unclear, repeated notifications, time
read before a lock is granted, ids given out again, expiries that pass inside a
handler, and crashes between any two of these.

## Modules

| Module | What it is |
|---|---|
| `Collection` | scheduler, collector, run and site rows, process lifecycle |
| `Catalog` | models, absence, rules, matcher and matches of one site |
| `Dashboard` | revision, payload cache and polling pages; implements `Published` |
| `Orders` | orders, payment and refunds, with the platform as environment |
| `Membership` | the arithmetic of one user's membership time |
| `WishPool` | wishes, pledges and monthly credit |
| `Outbox` | announcements, subscriptions and the delivery of one site |
| `Reminders`, `FreeTier` | renewal reminders; the limit of the free tier |
| `Sessions` | stored credentials and their rotation |
| `SessionSync` | pairing and sync tokens of the extension; implements `Tickets` |
| `AdminAuth`, `OAuthLogin` | the two logins; the second implements `Tickets` |
| `RateLimiter`, `TokenBucket` | the two limiters |
| `Expressions`, `BillingExpression` | what authors write as a price, and the parser that reads it |
| `Quotes` | the way of a price list to pages and machines |
| `Sources` | `Sessions`, `Expressions`, `Quotes` and `WishPool` in one specification |
| `Flights`, `Published`, `Tickets` | abstract specifications of collections, of the dashboard, and of what is used once |
| `MCCollection`, `MCCatalog`, `MCOutbox`, `MCBillingExpression` | bounds and symmetry for TLC |
| `MCOrders`, `MCServices` | components that share no variable, in one run |
| `MCSources` | `Sources` with the parser, its bounds and symmetry |
| `CollectionProofs`, `CatalogProofs`, `OutboxProofs` | theorems about the module of that name |
| `OrdersProofs` | theorems about `Orders` and `Dashboard` |
| `BillingExpressionProofs` | theorems about `Expressions` and `BillingExpression` |
| `LoginProofs` | theorems about `AdminAuth`, `OAuthLogin` and `SessionSync` |
| `ServicesProofs` | theorems about `RateLimiter`, `TokenBucket`, `Reminders`, `FreeTier`, `Membership`, and about the composition in `MCServices` |
| `SourcesProofs` | theorems about `Sessions`, `Quotes`, `WishPool`, and about the composition of all four in `Sources` |

In `MCOrders`, `MCServices` and `Sources` a variable `part`, chosen at the start
and never changed, says which component takes steps; the others stay in an initial
state. The components of one such module do not interact in the code either, so
nothing is lost, and the run takes the sum of their states and not the product.

Variants of actions (`ClaimSiteUntested`, `RevokeInPlace`, ...) stand before the
action they vary, as a likely mistake in that code. No specification uses them;
replacing the action by its variant breaks the property `PROJECT.json` pairs it
with, which shows that the property depends on that line of the code.

### Collection

A worker is a scheduler goroutine or a handler of
`POST /admin/sites/{id}/collect`. Its `pc` follows `CollectSite` from claim to
release, one step per database call, lock or wait; `job`, `rid` and `verdict`
are its locals. `enabled`, `deleted`, `acq`, `next`, `snapshotRun` and
`runStatus` are columns and survive `Crash`; `dueList`, `active`, `activeSites`
and `slots` are memory and do not. `Restart` contains
`RecoverRunningCollectionRuns`, which commits before the scheduler starts.

- Writes on the caller's context (`StartCollectionRun`, the collecting state,
  `ApplyCollection`) may fail at any time, because contexts end. Writes on a
  background context (`FinishCollectionRun`, `finishFailure`, `scheduleNext`) fail
  only `MaxFaults` times.
- `Publish` stands for what follows the commit: match refresh, removal of blocked
  models, announcements. `partial` runs are counted as `success`.
- Run ids are a small set. A name is free again when no row, worker or snapshot
  refers to it; what it then denotes is the next id of the database.
- `next` keeps which delay a site waits for; `Tick` lets the delay pass.
- `Cleanup` removes runs older than 72 hours, which a collection (minutes) never
  is, so it does not touch the run of a worker.
- The limit of 100 sites per listing is left out. There are as many goroutines as
  sites, so that starting one never waits, as in Go.
- `Crash` also covers the return of `run` after `server.Shutdown` has timed out.

`Flights` is what the pipeline promises, without claims, slots, schedules and failures:
a worker starts on a site nobody else is at, opens a run nobody has used, shows
what it has brought, records the success and lands; all may crash, and old runs
are forgotten. A worker is at a site (`at`) from claim to release, and `snapshotRun` and the
runs that are `success` are what is shown and recorded; everything else is a stutter.

### Orders

`status`, `granted` and `attempt` are the rows; `charge`, `acked` and `transfers`
belong to the platform, `creating`, `polled`, `pc`, `job` and `result` to handlers
in flight. `granted` counts the benefit `MarkOrderPaid` gives in the transaction
that changes the status. A refund handler claims a durable attempt, asks the
platform, records the answer and marks the order; `Transfer` pays or does not and
answers clearly or not. Credit orders are paid from the monthly free credit and
never have a charge. `DeleteWish` takes the orders of the wish along and is
refused when one of them has a refund attempt, whose foreign key does not
cascade. `Crash` ends all handlers; the process is up again at once.

### Membership

`clock` is the machine's time, `expiry` and `prereg` are 0 for NULL, an order in
`owned` has an interval from `starts` to `ends`. A payment and a redemption read
the time before SQLite grants them the write lock, so that theirs may be up to
`MaxLag` older than that of a transaction committed before; a refund reads it with
the lock held. Orders of `LegacyOrders` were paid before intervals existed and
their refund is rolled back. `ExtendMembership` has no caller and no action.

### Outbox

A row of the outbox is a subscription and a version; `due` is a retry whose time
has come. `Announce` compares with the ledger, of which the first versions are
history and not news. `ListSubscriptions` and `EnqueueNotification` are the two
calls of `Enqueue`, `Check`, `Send` and `Record` the steps of the one dispatcher,
`UpdateChannel` and `Repoint` the two updates of a channel change. Ids of
subscriptions are numbers, because a new one is the highest in use plus one, and
an id in use is a row with an `owner`. A target outside of `Served` is one on a
platform for which the process has no sender.
A send has three outcomes: the platform takes the message and says so, it does
not take it, or it takes it and the answer is lost or later than the 30 seconds
of `dispatcher.go:164`. The code cannot tell the last two apart and retries, so
that a message may be taken several times with nothing failing on this side.
`owed`, `attempts`, `accepted`, `unheard` and `late` are history: who was subscribed
when a version became news, what was sent, what the platform took, what it took
without being heard, and what was sent for a subscription after its deletion. The subscribers are members (the free-tier
pause is left out), and rows of before content versions do not occur; the batch
limit of 50 and the rate limiter only delay.

### Catalog

The rows are those of one site: `known`, `removed` and `absent` are columns of
`raw_models`, `snap` says which models have groups with a snapshot, `matches` and
`primary` are `model_matches`. A rule is the set of names it matches (empty while
it is disabled) and `blocked` the set of names its site's keywords block, so that
terms, patterns and keywords are abstracted to what they select. `run` holds the
locals of the one collection of the site (`Collection` shows there is one):
`CollectSite` reads its keywords before it starts, matches each model under a
read lock of its own, commits (`ApplyCollection`), refreshes matches in two
transactions under one read lock, and takes the blocked models out last. `lent`
is the engine under that lock, for which `SwapEngine` waits. `reload` holds the
locals of handlers of `/admin/rules`: edit, list, swap, list models, write.

- All adapters report complete catalogs, so only those occur. A catalog names
  all models, none (which the collector reads as all), or some of them: the
  probe adapter observes models it does not catalogue.
- A refresh with an engine that still has a deleted rule violates the foreign
  key; then only `Abandon` or `EndReload` is possible, as after any other error.
- `generated` is a column that `UpdateRule` writes like the others, so a seed rule
  can be deleted after an update; `Restart` creates missing seed rules before it
  loads the rules. Ids of deleted rules can be used again.
- An absence counts when it is committed. A run that fails after that, in the match
  refresh, has counted it too, so that `RemovedOnlyAfterThree` speaks of committed
  catalogs and not of successful runs, as the documents do (see below).
- History: `missed` counts the committed catalogs in a row that did not name a model,
  `hidden` are the models a keyword has removed. `settled` becomes true when a
  whole reload after the last edit has ended, `contested` marks reloads that
  overlap another one or a collection that failed between its commit and its
  refresh: of these nothing is promised, because two reloads may leave the older
  engine in place (see `hazards`).
- Left out: groups, metrics, buckets, and the revision, which is in `Dashboard`.

### Dashboard

What a query returns is two counters: `revision`, and `shape` for what shows in a
row without advancing it (matches and blocked models written after the commit of
a collection, rows that turn stale with age). A request takes the cache's mutex,
reads the revision, and if the cache is of another one reads rows and history in
two queries and the revision again, twice at most. `page` is both the poll of a
browser and its request; `lastAsked` is the revision at which it asked.
`Published` is the promise: a page shows rows and history of one revision, none
older than the one current at its question. The refinement mapping takes the
revisions of what a page shows. A change of `shape` reaches the pages only with a
later commit: `ShapeReachesPages` therefore needs the next collection.

### WishPool

`wish` and `order` are rows, `credit` and `debited` the two columns of
`wish_credits` per user and month, `work` where a handler is between two store
calls. `CreateWishSite` looks up and inserts, `UpdateWishSite` sets the target and
the status in two updates, a pledge takes credit (one transaction with its order),
then creates a charge for what is left. Ids follow the greatest in use.
`edited` holds the wishes whose status an administrator has set since money last
decided it; of them nothing is promised. The month turns and memberships lapse
between any two calls.

### Reminders and FreeTier

One goroutine lists the candidates, and per candidate claims, sends on every
channel and releases the claim if no send came back as a success, although the
reminder may have arrived on a channel whose answer was lost (`silent`; `unheard`
counts the times it went out and no channel could say so); database calls, sends
and the process fail `MaxReminderFaults` times, and expiry and channels change under it.
`due` holds what was owed to a user whose membership and channels had not
changed within a unit of time in which the loop ran. A day is `DayLength` units,
so that the expiry lies inside a day and at its edge. `FreeTier` has the subscribe
handler's three calls, and the two rules for what is paused
(`pushGrantFor`, `notifyPausedSiteIds`); the order of ids decides both.

### Sessions

A token is the number of the pair it was issued in; `live` and `good` are what
the site accepts. A collection holds the credentials it began with, takes the
mutex of its kind, loads the row again, exchanges and saves; a 401 forces the
same once more. An import exchanges first or not, raises the login flag, then
stores. Histories: refresh tokens used, sent again after use, and `orphaned`:
those whose successor was lost, which the site gave up, or whose row was deleted
under a running collection. A replay after a loss is in the code
(`session/provider.go:320` keeps the old pair) and is the reason `NeverReplayed`
excludes the orphaned.

### SessionSync and Tickets

Codes and tokens with their deadlines live in maps under one mutex;
`cleanupLocked` opens most calls, so that `Drop` and `Attempts` are part of each
action. The batch handler is authorised, checks its sites against what is
pending, claims the token, saves all or nothing, verifies and finishes, as steps
of their own between which anything happens, expiry included. A removed entry is
"gone", or "spent" by its use. `Tickets` is the promise: a ticket opens once, may be
used or taken before its deadline, what it gives access to is had at most once,
and then it never opens again. A batch that took its token in time may store
after the deadline, as in the code.

### AdminAuth and OAuthLogin

`AdminAuth`: failures per address, lock, window, sessions and CSRF tokens with
one clean-up; `failed` remembers when the last comparisons of an address failed.
`OAuthLogin`: a login is its state, named by it in the map, in the browser's
cookie and in the address the provider sends it back to. A callback consumes the
state once the cookie agrees, then asks the provider twice, then starts the
session; any browser may be sent to any callback, also twice, answers may be
lost, the process may restart. It implements `Tickets`.

### RateLimiter and TokenBucket

The window reads the clock before the mutex, so events enter out of order by at
most `Lag`; `allowed` remembers when requests were really let in. The bucket counts
in parts of a token; workers poll it until they get one or are cancelled.

### Expressions, BillingExpression and Quotes

`Expressions` holds an expression while its author writes it: the `tier()` calls
finished so far and the text behind them, both sequences of tokens. It is apart
from the parser so that `Sources` can be composed without it.
`ParseBillingExpression` follows the recursive descent procedure by procedure
over token sequences, with fractions for the floats of the code, so that nothing
is rounded. What the calls of these procedures return is one recursive function,
`returned`, of the procedure and the position (or of what a loop has on its left):
`parseAtom` reads it at `parseExpression`, and so on round. `Value` is an
evaluator written independently of it, which splits a segment at its last operator
of the lowest precedence outside of parentheses and evaluates the parts, the
shorter ones first. The property compares the two in every environment.
`Quotes` takes one model from a price list through the two decoders (pages and
routing), the merge with observed groups and storage, to both readers.
`QuotesAgree` states the amounts exactly, the differences of the decoders included:
a rate under its other name multiplies the page's price alone
(`RateOfPagesOnly`); where a machine reads an output of 0 or none, the page shows
the price of input. The exchange rate is not stored (`json:"-"`,
`pricing/pricing.go:55`), so that the lowest price a page computes again for a
group without its own is the lowest of the others before conversion, whatever the
rate.

## Runs

| Run | Asks | Bounds |
|---|---|---|
| `CollectionScheduled` | Do two sites share one slot without leaking slots or goroutines, and does an orderly stop leave nothing behind? | 2 sites, 2 goroutines, 1 slot, 2 runs |
| `CollectionSite` | When the scheduler and an administrator collect one site, do runs overlap, do rows lie, does anybody but the run under way change what the site shows, is the site collected for ever? | 1 site, 2 workers, 1 lost write |
| `CollectionKeepsSnapshot` (violation) | Does a failure leave the last successful snapshot alone, as `operations.md` says? No: a failed match refresh comes after the commit. | 1 site, 1 worker |
| `OrdersBooks` | Is money sent back twice, a benefit granted twice, a payment never settled? Is an answer of the dashboard stale or of two revisions, or a page left behind? | 2 orders, 3 administrators, 2 lost writes; 2 pages, 3 revisions, 1 unrevised change, 1 fault |
| `OrdersAck` (violation) | Is an acknowledged payment booked? No: an order cancelled as expired is acknowledged and not booked. | 2 orders, 2 administrators |
| `OutboxDelivery` | Does news reach every subscriber, how often is it sent, what follows a deletion, is everything settled? | 1 user, 1 id given out again, 2 channels of which 1 is served, 3 versions, 1 retry, 2 faults |
| `OutboxChannel` (violation) | Does the queue follow a channel change? No: `Enqueue` inserts the target it read before. | 1 user, 2 versions, 2 channels |
| `CatalogRules` | Are stored matches what the rules say and blocked models out when rules are reloaded in the middle of collections? Does a model need three catalogs without it to be removed? | 2 models, 2 rules, 2 administrators, 2 edits |
| `CatalogBlocked` (violation) | Is no model with a blocked keyword public after a successful run? No: only those the run has observed are taken out. | 2 models, 1 rule, 1 edit |
| `Services` | Do tokens, logins, limits, reminders and membership time hold what they promise over expiry, restart and interleaving? | 2 codes, 1 token, 2 batches; 2 addresses; 2 browsers, 2 logins; 2 requests; 2 workers; 1 member, 2 channels, 2 faults; 3 sites, 4 subscriptions; 3 orders, 1 code; clocks of 4 to 12 units |
| `Sources` | Is a single-use token ever lost or sent twice, a price wrong or told differently to two readers, credit or a wish's status off? | 1 site, 1 import, 3 pairs; 7 tokens, 2 tiers; 2 groups, 2 items; 2 orders, 1 wish, 2 months |
| `QuoteIsExact` (violation) | Is a difference quoted at its worth? No: the coefficients of the subtrahend are added. | expressions of 7 tokens |

`OutboxDelivery`, `CatalogRules` and `Sources` join two instances by a CONSTRAINT,
because each has a dimension that only matters without the other: `OutboxDelivery`
has a second piece of news as long as nothing fails and faults with one;
`CatalogRules` has one model with rules and edits, of which the second comes while
no catalog has left the model out (or one, when it is blocked), and two models that come and go without rules,
up to the first edit; `Sources` has three pairs of tokens while nothing is lost,
given up, cleared or imported and two with all of it, and of the pool either the
turn of the month or an administrator's edits. Safety beyond these
constraints is covered by the theorems about the same properties, which have no
bounds. The constraint of
`OutboxDelivery` does not cut off the liveness property: what it bounds are new
announcements and faults, which no fairness obliges.

**Why the bounds are enough.** An overlap, a leak, a double refund or a token used
twice needs two actors on one row, and those runs have them; a third administrator
and a second lost write are there because a refund may be retried after a retry.
Two sites and one slot are the smallest contention for slots. A move of later
intervals needs two intervals beside one refunded earlier, a gift between them
and a clock that has passed part of the first. Two
news versions are the smallest batch of which a deletion can hit the rest. An id
given out again needs only one id. Two pages are one that fills the cache and one
that is answered from it; three revisions let a request be overtaken twice, so
that it runs out of attempts. Three pairs of tokens are one imported and two
that follow it, so that a rotation meets what the last one left. Seven tokens hold a product beside
a difference, a parenthesis and a unary minus. Clocks run past the longest
lifetime of what was made first, so that everything expires. Rules and keywords are arbitrary at
the start, so that the edits of `Catalog` (`MaxEdits`) are those made beside a
collection: two handlers racing need two of them. Symmetry is used in safety runs
only: sets of names in `Catalog` and `Collection`, orders with intervals in
`Services`, price groups and handlers of the pool in `Sources`. Deadlock is checked except in `Services`, `Sources`, `QuoteIsExact` and
`OrdersAck`, where clocks, ids and expressions end at their bounds.

**Fairness.** `Collection`: the loop of the scheduler, every worker, time and
maintenance go on (weak fairness of `ListDue`, `Dispatch`, `Step`, `Tick` and
`Cleanup`). A worker always goes on because every wait in `CollectSite` is bounded
by a context with a timeout; a slot that is contended is covered because a waiting
worker can also give up. Nothing obliges administrators, shutdown, crash or
restart, so that `EnabledSiteKeepsCollecting` speaks only of a process that stays
up. `Orders`: the platform repeats a notification until it is answered.
`Dashboard`: the scheduler commits on, an open page polls on, the steps of a request
end by its timeouts, and each request that waits for the mutex gets it in its turn
(strong fairness of `LockCache`, since Go's mutex does not starve a waiter).
`Outbox`: the ticker lists, the dispatcher's calls return (a send has 30 s), time
passes.

## Proofs

| Theorem | Property | For every |
|---|---|---|
| `TypeCorrect`, `SlotsNeverLeak` | types, `SlotsAccounted` | number of sites, workers, runs, slots, lost writes |
| `RunsNeverOverlap`, `OneGoroutine` | `NoOverlappingRuns`, `OneGoroutinePerSite` | same |
| `CollectingBacked`, `StopsClean`, `RunningOwned` | `CollectingIsLive`, `CleanStop`, `RunningRowsOwned` | same |
| `SuccessMeansApplied` | a success is recorded when the site shows that run (`SnapshotOfSuccess`) | same |
| `CollectionsFly` | `CollectionsAreFlights` (`Collection` implements `Flights`) | same |
| `OrdersTypeCorrect`, `RefundedOnce`, `TransfersRecorded`, `BenefitGrantedOnce`, `OnlyBookedIsRefunded` | types, `AtMostOneTransfer`, `TransferOnRecord`, `GrantedOnce`, `TransferOnlyBooked` | orders, administrators, lost writes |
| `MembershipTypeCorrect`, `TimeSoldOnce`, `RefundIsFair`, `LossIsFinal` | types, `SoldOnce`, `RefundTakesOwnShare`, `LostTimeStaysLost` | orders, codes, lengths, lags and clocks |
| `CatalogTypeCorrect`, `RemovalNeedsThree`, `BlockedGone`, `MatchesAreCurrent` | types, `RemovedOnlyAfterThree`, `BlockedStaysHidden`, `MatchesFollowRules` | finite sets of models and rules, any administrators, edits |
| `OutboxTypeCorrect`, `PendingLive`, `Attempts`, `Taking`, `Quiet`, `News` | types, `PendingIsLive`, `AttemptsBounded`, `TakenOnce`, `DeletedIsQuiet`, `NewsReachesSubscribers` | users, ids, channels, versions, goroutines, retries, faults |
| `DashInvariant`, `DashboardPublishes` | types, `AnswersAreFresh` (`Dashboard` implements `Published`) | pages, revisions, faults |
| `OAuthInvariant`, `LoginsAreSafe` | types, `LoginsHold` (the states implement `Tickets`) | browsers, logins, lifetimes |
| `SyncInvariant`, `ClaimedTokenIsHeld`, `SyncTicketsUsedOnce` | types, `ClaimIsHeld`, `SyncTicketsOnce` (codes and tokens implement `Tickets`) | codes, tokens, handlers, sites, lifetimes, limits |
| `AdminInvariant`, `AdministrationGuarded` | types, `AdminIsGuarded` | addresses, tokens, limits, lock times and windows |
| `LimiterInvariant`, `WindowLimits` | types, `WindowHolds` | handlers, limits, windows, lags |
| `BucketInvariant`, `BucketRateHolds` | types, `RateHolds` | rates, bursts, workers |
| `FreeInvariant`, `LimitSlipsLittle` | types, the free tier's part of `LimitsHold` | sites, channels, limits, finitely many requests |
| `ReminderInvariant`, `MembersAreReminded` | types, `RemindersKeepPromises` | members, channels, expiries, windows, faults |
| `ServicesTypesCorrect`, `LimitsAlwaysHold`, `ServicesKeepPromises` | `ServicesTypeOK`, `LimitsHold`, and all ten properties of the run, of `ServicesSpec` | all of these |
| `SessionsInvariant`, `StoredSessionsStayUsable` | types, `SessionsStayUsable` | sites, imports, pairs, faults |
| `PoolInvariant`, `PoolBooksKept` | types, `PoolKeepsBooks` | users, domains, pledges, wishes, amounts, months, handlers |
| `QuotesInvariant`, `QuotesAlwaysAgree` | types, `QuotesAgree` | finite sets of groups, numbers of items |
| `ExprInvariant` | types | lengths and numbers of tiers |
| `AcceptedIsExact` | what the parser accepts is worth what the expression evaluates to | expressions, amounts of tokens |
| `QuotedAtItsWorth` | `QuoteIsTheTiersPrice` | lengths, names and numbers of tiers |
| `SourcesTypesCorrect`, `SourcesKeepPromises` | `SourcesTypeOK`, and all of the run's properties, of `SourcesSpec` | all of these |

*Collection.* The type of `slots` depends on how many workers hold one, so types
and slot count are one induction (`IInv`), with `HoldersChange` counting how a
step of one worker changes the holders; the workers must be finite. On top of it
`ClaimInv` says that each collecting worker's site is in `activeSites` and that
no other worker collects it, which `NoOverlappingRuns` alone does not preserve;
`MarkInv` ties the collecting state to a worker in the part of `CollectSite` where
it may be set; `RunInv` gives each run row that says running an owner and each
owner past `Apply` the site's snapshots. `GoroutineInv` does for the scheduler's own
set what `ClaimInv` does for the collector's. Rows without an owner are counted
against lost writes: `DoomInv` says that the rows lost or about to be (`Doomed`) are
no more than the writes that failed since the start. For the refinement of
`Flights` a run under way must still say running (`CarriedInv`), or a failure could
take back a success; `FlightStep` then has one case per action, of which seven are
steps of `Flights` and the others change nothing it sees (`UnseenStep`). The stop is clean because it waits for
idle workers, of which none owns anything.

*Orders.* `RefundInv` says what an attempt knows of the money: at most one handler
is between claim and record, its attempt still says running, and nothing was
sent before it asks the platform. `BookInv` ties what was granted to status and
charge. Neither needs a bound on failures.

*Membership.* `SoldOnce` is inductive with the types and `OwnersPaid` (an order
with an interval is not pending, so no order gets a second one). Because no interval
passes the expiry, a new one starts behind all others whatever time the payment
has read; `RevokeFacts` shows that a refund moves exactly the intervals behind its
own, and by what it took out.

*Catalog.* A refresh writes for models listed some steps before and with an engine
listed before that, so types are kept only with what those locals hold
(`LocalsOK`). A model is not removed early because its counter never runs ahead of
the catalogs that have not named it (`AbsenceInv`). Matches follow one reload from
edit to last write: while nothing contests it no other reload is under way, what
it has listed is what the database holds (`AloneInv`), and what it will not write,
because it was admitted after the listing, a collection has refreshed with the new
engine (`CoverInv`); the read lock is why the engine a collection was lent is still
the one in place when it writes (`LentInv`).

*Outbox.* `DispatchInv` says what the dispatcher knows of the entry it works on:
its row was queued when the batch was read and nobody but the dispatcher settles
rows. With it the attempts of a row are its retries and one for the attempt under
way, and one per fault; what the platform took is once, and once per answer that was
lost and per fault (`CountInv`). `LateInv` is why a deletion is quiet although
ids are given out again: an id that was sent to after its deletion still has
rows. News is on its way in a row, in the versions a goroutine has yet to look at
or in the subscriptions it has read (`OnItsWay`), unless something failed.

*Dashboard.* A request reads its revision, the rows, the history and the revision
again in this order and revisions only grow (`ReadInOrder`): when the first and the
last agree, so do the two between them (`Whole`), and a cache whose revision is
still current answers every question asked so far. Each step is then a step or a
stutter of `Published`.

*OAuthLogin.* Cookies, callbacks and sessions carry a login only of the browser that
began it (`Carried`), and a state was admitted just when it is used (`Admitted`).

*SessionSync.* A handler between its claim and its end is alone with its token,
which is claimed or was dropped meanwhile, and has stored with it just when it is
about to verify (`Held`); what can still be had was not had (`AllUnused`). Each entry
of the maps moves in one of eight ways (`Moves`), each of them a step of its
ticket (`EntryIsTicket`); several may move in one step, as `Tickets` allows.

*AdminAuth.* The count of an address is reset by a clean-up, a lock and a restart,
so it does not bound the failures by itself. `CountsFailures` says which of the
failures remembered it stands for, the last ones; those before them are at least a
lock time old, or will be when the lock ends.

*RateLimiter and TokenBucket.* Events enter the window in the order of the lock
and not of the clock. `LatestAreKept` is what the limit follows from: whatever was
let in within a window less the lag is still among the events, in its place from
the end, up to the lag. For the bucket, `Paid` says of every token given that those
since then and what is left do not exceed the burst and what came in.

*Reminders.* `ClaimFirst` is why a reminder goes out again only after a send nobody
heard of: what some channel confirmed is claimed, and of what the loop has in hand
every send so far went unheard.
`NothingMissed` is the promise: what is owed was sent or is still on the list of the
loop. `GraceAssumption` is what puts it there: a query by times and a filter by
days find the same members only if the grace is two days or more and the window one.

*FreeTier.* Every request under way may have counted before the others inserted.
`PlacesKept` bounds the sites that are subscribed and those about to be inserted
(`SitesPassed`) together, which a step of a handler only moves from one to the other.

*Sessions.* `SessionInv` says where a refresh token is that may still be sent: with
one site (in its row or the collection that is exchanging or saving it) or in one
import, and never both (`Alone`). The site accepts it unless it was orphaned
(`Usable`), and a collection whose row was taken away holds one that is
(`LeftBehind`). The login flag is up wherever something is stored, in use or about
to be stored, unless an administrator cleared it (`FlagIsUp`).

*WishPool.* `MoneyHasWish` (orders that are pending or paid are of wishes in the table)
is what the books need beside the types: a deletion then accounts for all the money
of its wish. Sums over sets of orders are changed one order at a time by lemmas
about the fold they are defined with.

*Quotes.* A collection stores what the price list then says (`Followed`) or nothing
of it (`Unpriced`), and a new price list comes before a new collection. Both
decoders then multiply the same numbers (`EvidenceFacts`), and the model that is
stored without its rate yields the same quotes before conversion (`RateLeftOut`). The loops over price lists are functions
of the number of turns. `LoopExists` shows that there is such a function, and what
holds after each turn is shown by the first turn after which it would not
(`LeastNat`, `Upto`, in `BillingExpressionProofs`), which needs well-founded order and no induction scheme.

*Billing expressions.* The parser reduces from the left while it reads; the reference
looks for the last operator and evaluates what is on either side. `Means` says
what they have in common about a value that was read: the tokens from where the
procedure began to where it stands are a segment whose parentheses match
(`Closed`), and, with no difference in front of a variable and no `fixed`, the value
is worth in every environment what the segment evaluates to.
`MeansTerm` and `MeansUnary` add that the segment has no sum, and no sum and no product,
outside of parentheses. Each production keeps these if the calls it makes do: the
shapes give where the joined segment splits (`JoinedShape`, `EnclosedShape`,
`SignedShape`), and laws of fractions the worth (`SumsWorth`, `ScaleWorth`).
Both sides are recursive functions, about which the prover knows nothing
until they are shown to exist. `Remaining` orders the calls by the tokens left to
read and, at one position, by who calls whom; segments are ordered by their
length. What a call returns depends only on calls below it (`TurnAgrees`,
`EvaluateAgrees`), so that there is exactly one function (`FixpointExists`,
`FixpointUnique`, by the least measure at which one would differ), and it returns
only what the procedures keep (`ReturnedReads`). That subtracted variables are excepted is
what the run `QuoteIsExact` is about.

*Compositions.* A step of `ServicesSpec` or `SourcesSpec` is a step of one component
and a stutter of the others, so that each component's specification follows from
the composition's, and with it each theorem.

**Assumptions** are named beside the constants: a positive number of slots, finite
disjoint workers, `collection_failed` among the failure states, credit orders
among the wish orders, positive lengths and lifetimes, natural bounds, finite sets
of names, rules and price groups, finitely many requests at once, at least one target,
codes that are no tokens, expressions of at least four tokens (the longest atom),
a grace of two days or more and a renewal window of one or more for reminders (two
and three in the code), a lock no longer than the window of failures, markers such
as `NoPage` outside of their sets.

**Only model-checked.** Liveness (`EnabledSiteKeepsCollecting`, `CollectingEnds`,
`PaidIsSettled`, `ShapeReachesPages`, `QueuedIsSettled`), since the prover has no
reasoning about fairness. The five runs that expect a
violation refute what they check. Every other property of a run is a theorem.

## Where code and documents disagree

Each has a run that shows it, and an entry under `findings`: a failed run that
has replaced snapshots, a blocked model that stays public, a message queued for a
former channel, a payment acknowledged and not booked, a subtrahend that is
added. Met while modelling, and stated without a run:

- Without a "base" or "standard" tier `docs/decisions/0002` takes the first tier;
  `pricing/expr.go` takes the first that reduces to a price per token.
- The exchange rate of a model is not stored, so that the lowest price a page
  computes again for a group without one of its own is not converted.
- The rate is read from two fields by the decoder for pages and from one by the
  decoder for machines. With a completion ratio of 0 the page shows output at the
  price of input (`pricing/newapi.go:203-207`) and the machine reads an output of
  "0" (`pricing/routing.go:163-164`); with none the machine reads no output price
  and the page again that of input. Amounts per request and per token are compared
  as if they were alike (`ComparableAmount`).
- The comment at `notifier/dispatcher.go:337` says that a reminder is never sent
  twice for one expiry and kind ("同一有效期每档绝不重复发送"). When every send fails on
  this side after the platform took the reminder (15 s, `dispatcher.go:407`), the
  claim is released and the next loop sends it again; `RemindedOnce` counts these.
  For announcements `docs/reviews/2026-10-05/remediation.zh-CN.md:39` admits the
  same, and `TakenOnce` counts it.
- `docs/product-spec.md:90` removes a model after three successful collections
  without it. The absence is committed before the steps that may still fail
  (`collector/collector.go:191-196`), so that runs recorded as failed count; the cause
  is that of the run `CollectionKeepsSnapshot`.
- `httpserver/sessionimport.go:45` writes back the whole row of the site it read
  before a token exchange.

What the properties leave open, on purpose:

- `NoOverlappingRuns` and `Flights`: a run takes an id no row uses (`FreeRun`); that
  it is not the one a site's snapshot came from is stricter than SQLite, which may
  give a cleaned-up id out again.
- `LimitsHold`: the limit of the free tier may be exceeded by requests at once, by
  less than there are of them, although `httpserver/user_routes.go:399` says it is
  enforced.
- `LoginsHold`: `Logout` deletes its session; a delete that fails is ignored by the
  code and not modelled.
- `SessionsStayUsable` is about tokens and the login flag. An import that a rotation
  overwrites, or an edit that an import overwrites, is not excluded.
- `QuoteIsTheTiersPrice` lets any reducible tier stand where none is called "base" or
  "standard", and of a price per request asks only that there is a fixed amount.
- `PoolKeepsBooks`: wishes an administrator has edited are exempt; the run has one
  wish, so that one wish per domain is a matter of the theorem `PoolBooksKept`, as
  is the turn of the month together with edits.

## Not modelled

- Adapters: decoding of third-party formats without state of their own, under
  table tests over recorded payloads. What they return is chosen freely in
  `Catalog`.
- Challenge solving and the Telegram and Bark clients: network calls, present by
  their outcomes.
- Cryptography, hashing of passwords, cookies' attributes. Configuration,
  migrations, bootstrap: done before anything runs concurrently. Pages other than
  the dashboard's polling, feedback, preferences: rendering and single-row writes.
- Wording of messages, currencies, cache prices, history buckets and metrics.
- A panic while the matcher's read lock is held (`collector/collector.go:191`), and
  who wins when two reloads of the rules overlap (`collector/collector.go:287`): the code
  promises nothing there.

## Plan

1. Names: several rows with one username after a rename, and what an edit by name
   then reaches (`store/membership.go:174`).
2. `Catalog` and `Dashboard` joined at the commit, so that a change of `shape` is a
   write of the catalog and not a counter.
3. Availability evidence of the routing interface, and the cache prices of `Quotes`.
