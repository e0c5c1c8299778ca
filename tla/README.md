# Verification of the Tech_News backend

TLA+ modules, TLC runs and TLAPS proofs for the parts of `src/backend` where the
order of events decides what is right. `PROJECT.json` lists the components, the
runs, the findings, the hazards, and the source lines of every definition.

## 1. Inventory

The backend is a FastAPI process, Celery workers with a Beat scheduler, one
PostgreSQL database and Redis. Everything that runs for long passes through two
queues: the status column of `raw_articles`, and the table `event_outbox`.

| Component | State it keeps | Operations | What is hard | Module |
|---|---|---|---|---|
| Outbox dispatcher (`app/tasks/distribution_tasks.py`), administrators' replay (`app/services/replay_service.py`) | `event_outbox` (status, lease, retry count), checkpoints, dead letters, the rows the handlers write | lease a batch, mark DISPATCHING, run handlers in order, checkpoint, deliver or retry or give up; replay one or all dead | several workers, leases that lapse under a running worker, handlers that commit the caller's session, crashes between two commits, replays at any time | `Outbox` |
| Raw article queue (`celery_app.py`, `app/services/ingestion/pipeline.py`, `replenishment.py`, `app/tasks/admin.py`) | `raw_articles` (status, retry count), `processed_articles`, the broker's messages, the `ArticlePublished` rows | crawl, plan, recover stale, run the pipeline, replenish inline, replay filtered | messages sent before the commit they belong to, blind writes after a long await, early acknowledgement, two kinds of processes on one article, claims committed before the work | `RawArticleQueue` |
| AI gateway (`app/ai/`) | state, failures and opened_at of each provider's breaker, the day's spend, all in Redis | check, call with retries, fall back, record success or failure, charge | several Redis commands for one transition, check before spend, Redis failing in between | `AIGateway` |
| Enrichment coordinator and thumbnails (`app/editorial/coordinator.py`, `celery_app.py`, `thumbnail_service.py`) | thumbnail and its status, completed stages, score, the read model | store, download, recover, project two kinds of events, complete a stage | overlapping claims, lost updates of stages, events in either order, downloads that only a recovery sends | `Enrichment` |
| Homepage and expiration (`homepage_builder.py`, `news.py`, `news_ranking_engine.py`) | `homepage_projections`, the ranking in Redis, age and expiry of articles | read, validate, rebuild, cache, expire, purge | a cache and a projection that are compared while both change, lost refreshes, a lock that excludes nobody | `Homepage` |
| Daily briefing (`app/briefing/`, its routes, tasks and webhooks) | edition, stories, deliveries, preferences, stored webhook events | build, dispatch, test send, change preferences, verify, unsubscribe, receive webhooks | e-mails in the middle of a transaction that may be rolled back, two runs at once, events late and in any order | `Briefing` |
| Editorial workflow (`editorial_service.py`, `distribution_service.py`, `editorial_tasks.py`) | drafts, versions, publication records, jobs, events | edit, change status, schedule, publish | version numbers read and then inserted, copies kept across commits, several commits for one publication | `Editorial` |
| Article intelligence, distributed lock, recovery engine, newsletter, projection engine, other routes, front end, scripts | | | section 8 | none |

The components meet in the database. Producers (the pipeline, downloads, the
publishing pipeline, the expiration) add `EventOutbox` rows to a transaction of
theirs; the dispatcher turns them into timeline rows, read models and refreshed
projections. The planner and the recoveries move raw articles; Celery messages
carry ids and are no more than hints to look at a row. The pipeline run is the
hub: it takes raw articles from the queue, calls the gateway, stores the article
that thumbnails and stages then complete, and emits the event.

Correct means: the outbox loses no event, skips and reorders no handler and
ends every event; the queue publishes an article together with its event, keeps
one article per raw article, gives up only at the budget and forgets nothing;
the gateway overruns neither budget nor open circuit by more than its requests
in flight, and tries a provider again; a downloaded image shows, a claim is
owned; nobody is shown what has expired; a subscriber gets one briefing a day;
a text an editor saved is in the history, and a publication is announced. What
is hard to test about each is listed, with its line, under "hazards" in
`PROJECT.json`.

## 2. Plan

Done: the seven components above as models, `OutboxContract` as what the outbox
promises, and proofs of every invariant and action property that a run checks,
with the refinement of `OutboxContract` (section 5). Left, in this order:

1. What the code promises across modules, which so far is an assumption of one
   module about another: `Enrichment` uses the outbox as "handled at least once",
   which is `DeliveredComplete` of `Outbox`; an abstract specification that both
   refer to would say so in TLA+ instead of in this file.
2. `ArticleIntelligence`: the stages of the task of that name and the embedding
   status, composed with the run of `Enrichment` that sends it.

## 3. Modules

Each component module has its MC module, which only gives the constants their
values. In all of them a session is what SQLAlchemy and READ COMMITTED make of
it: it sees what others have committed, keeps the row it has loaded
(`expire_on_commit` is off), flushes at a commit or an explicit flush, and
writes a column only if its value differs from the loaded one. A step is what
lies between two points where another process can get in: a query that reads
shared rows, a commit, a Redis command, a message sent, a call of a provider.

Operators whose comment begins with "Mutant:" are not part of the model. They
are the plausible mistakes that show that a property can fail; each is paired
with a property under "mutants" in `PROJECT.json`.

A session, a run or a claim is a record; the set of all of them has a name
(`Run`, `Replay`, `PipelineRun`, ...) and its own line in `TypeOK`. Each module
ends with a part that begins with "Why they hold": the facts about the actors
that make the properties inductive. TLC has checked them on instances before
they were proved; no run repeats that.

### Outbox

A worker is one run of `process_event_outbox_task` with a session of its own.
`status`, `lease`, `retryCount`, `checkpoints` and `deadLetters` are the
committed columns and tables. `rowLock[e] = w` says that w's session has an
uncommitted `UPDATE ... SET status = 'DISPATCHING'` on the row: the next commit
of that session, whoever calls it, makes it durable; a rollback drops it. `rows`
and `cur` are the worker's copies of what the lease query returned, including
the retry count that it never reads again. Two history variables: `effects` is
how often a handler has committed its own writes for an event (0, 1, many), and
`overtaken` has the events whose lease lapsed, or that were replayed, while a
worker had them in hand. Nothing in the code prevents either; some properties
are about the other events, and `DeliveredComplete`, the order of checkpoints,
the timeline and the retry budget are about all of them.

| Action | Code |
|---|---|
| `Poll`, `PollNothing` | lease query and commit (`SKIP LOCKED`, `ORDER BY`, `LIMIT`) |
| `BeginDispatch`, `EndOfBatch` | the loop over the rows, the uncommitted UPDATE |
| `SkipHandler`, `StartHandler` | the checkpoint lookup |
| `HandlerFindsNone` | the timeline handler's look for its row |
| `HandlerCommits`, `HandlerReturns`, `HandlerSwallows`, `HandlerFails` | what a handler does to the session |
| `RecordCheckpoint` | insert and commit of the checkpoint |
| `Deliver`, `FinishFailed` | the final UPDATE and commit |
| `Crash`, `LeaseExpires` | death of the process, `NOW()` |
| `ReplayEvent`, `ReplayFailedBatch` | the administrators' replays |
| `Emit` | a producer's commit |

The registry (`HandlersFor`) is the code's. Handlers are told apart by what they
do to the session: those that commit it, the timeline handler that first looks
for its row and inserts one in a later step, the projection refresh that
swallows its failures, and the newsletter handler that always raises. `Concerns`
gives, for each event, the handlers that find something to write in its payload.

Two workers may both look for the timeline's row and find none. What keeps the
second row out is the unique index on `source_event_id` (`models/story.py:52`):
the second insert raises, the event is retried, and the retry finds the row.
`TimelineOnce` says that this is enough: one row at most, and one for each
delivered event that concerns a story. In the events that carry a `story_id`
today the timeline handler comes first, where the row lock of the uncommitted
DISPATCHING makes the second worker wait; the instance has the registry's other
case, `ArticlePublished` with a `story_id`, where an earlier handler has committed
that lock away.

### OutboxContract

What the outbox promises, without workers: an event waits, is worked on,
completes its handlers one after the other, is settled as delivered with all or
as dead with one missing, and waits again only if an administrator says so.
An event that was overtaken (`Overtake`, or `Reopen` of one that is worked on) is in
the hands of two workers from then on, and `Disturb` says what is left of the
promise: it may be settled again or die although it was complete, but delivered still
means that every handler is done, and what is done is not undone.
`Outbox` maps to it by `PhaseOf` (CREATED waits; LEASED, DISPATCHING and RETRYING
are worked on) and by the number of checkpoints (`DoneOf`). `outbox_safety` checks
the refinement, with lapsing leases and replays at any time, and
`OutboxRefinement` proves it step by step.

### RawArticleQueue

Four kinds of processes over the same rows. `plan[p]` is a planner's session:
`fresh` and `claimed` are the objects it has changed in memory or locked,
`toSend` the messages it sends before it commits. `run[p]` is a pipeline run,
of a Celery worker or inline in an API process: what it loaded, the slug it
chose, what the AI said, the row it found (`seen`). `replay[x]` is a replay of
filtered articles, with the status and retry count it loaded. Because sessions
do not autoflush and write only the columns that differ from what was loaded,
`CommitRun`, `Reject` and `ReplayFiltered` leave the status alone if the loaded
value is the one they assign, whatever the row has become.

`session[p]` is what the session of a process has flushed or changed and not
committed: rows, events, raw articles that are to be processed. A Celery worker's
lasts for one run. An API process has one for its whole list
(`replenishment.py:138-149`), logs an exception and goes on, so that what the
failed run had flushed stays in it (`RunRaises`) until the next run commits
(`CommitRun`), or the end of the list does (`CommitRest`), or a rollback drops it.
`abandoned` is a history variable: the rows such runs have left without their event.
Of a run that raises between the lookup and the flush of an existing row, the
change is flushed by whatever is flushed next; it is taken as flushed.

`title` stands for the slug of the current title and `TitlesOf` for those that the
source may give an article: a crawl that finds another text and every replay assign
the extracted title (`Rename`). `had` is a history variable, the titles so far. A
run keeps the slug of the title it loaded. `raw_article_id` has no unique index, only
the slug has.

| Action | Code |
|---|---|
| `Ingest`, `Revise` | a crawl's effect on an article |
| `SelectFresh`, `Send`, `ClaimStale`, `CommitPlan`, `PlannerFails` | the prioritization task with `enqueue_fresh_articles` and `recover_stale_ai_jobs` |
| `TimeOut` | fifteen minutes without an update |
| `Receive`, `Replenish`, `RunInline`, `CommitRest` | the two ways into the pipeline, and the end of the inline list |
| `Reject` ... `CommitRun`, `FlushConflict` | `process_raw_article_to_editorial` |
| `RunRollsBack`, `RunRaises`, `RunFails` | a run that rolls its session back itself; one whose exception the inline loop logs; a session lost with its list |
| `ClaimFiltered`, `SelectFiltered`, `LoadReplay`, `ReplayPasses`, `SendReplay`, `ReplayFiltered`, `ReplayDone`, `ReplayFails` | `tasks/admin.py` |

`Unparseable` has the raw articles with fewer than ten characters of text, which
a run sends to the dead letters (`Reject`).

Time enters twice. An article is stale when `TimeOut` has happened, which may be
while its run still goes on. A replay, however, is stopped by Celery's limit of
300 seconds, so it cannot hold an article from before it was queued until it is
stale; that is the last conjunct of `TimeOut`.

### Enrichment

`row` is what thumbnails and stages use of `processed_articles`, `read` the
image in the read model. `run[p]` is the pipeline run that stores an article
(again), `claim[r]` a recovery with the rows it holds `FOR UPDATE`, `task[t]` a
download with the copy it loaded, `handler[d]` the dispatcher at work on an
`ArticlePublished`. Each of the last three may call `mark_stage_complete`, whose
load and commit are two steps.

| Action | Code |
|---|---|
| `BeginRun`, `LoadReadModel`, `CommitRun`, `FailRun` | the article's part of `process_raw_article_to_editorial` |
| `Claim`, `RecoverArticle`, `GiveUpArticle`, `CommitClaims`, `FailRecovery` | `recover_pending_thumbnails_task`: select with `SKIP LOCKED`, send, commit |
| `TakeMessage`, `LoadRow`, `FinishDownload`, `FailDownload` | `download_thumbnail_task`: load, finalize with its event, complete the stage |
| `DispatchStep`, `FailHandler` | the projection of `ArticlePublished` and of the thumbnail's event, and the knowledge stage |

The outbox is used as `Outbox` shows it to be: an event is handled at least
once, in any order, possibly by two workers. The run sends no download itself:
its list of candidates (`pipeline.py:880`) is never filled.

### AIGateway

`state`, `failures` and `openedAt` are the three keys of each breaker, `spend`
the key of the day. `caller[c]` is a request: the provider it is at, its
attempts there, what it is about to do and, for a `get_state`, what that is for.

| Action | Code |
|---|---|
| `BeginRequest`, `CacheHit` | `_run_task` of `ai/service.py` |
| `GetState`, `GetOpenedAt`, `SetHalfOpen` | `get_state`, for a check, a success or a failure |
| `CheckBudget`, `CallReturns`, `RateLimited`, `Charge` | the budget, the attempts at a provider, the cost of an answer |
| `CountFailure`, `SetOpen`, `SetOpenedAt` | `record_failure` |
| `SetClosed`, `DeleteFailures`, `DeleteOpenedAt` | `record_success` |
| `RedisFails`, `Die` | the `except` of the command at hand; the death of a request |
| `RecoveryTimeout`, `FailuresExpire`, `NewDay` | `recovery_timeout_sec`, the TTL of the counter, the day in the key |

### Homepage

`life` says how an article stands with age and expiry, `latest` is the newest
`homepage_projections` row, `ranking` the Redis entry. A reader compares the
ranking with the projection, the projection with the articles, and rebuilds what
does not fit; a refresher (task, endpoint, event handler) rebuilds in any case,
after an expiration or without one. Of identities and versions the model keeps
what the code asks: is it still the latest one? `ShortLived` are articles whose
policy lets them live for less than a day; the repository's own policy says 72
hours, so that an article ages out of what is shown before it expires.

| Action | Code |
|---|---|
| `BeginRequest`, `ReadRanking`, `CheckIdentity`, `CheckRanking` | `list_articles`: the ranking, the projection's identity, its articles |
| `ReadProjection`, `CheckStories`, `StoreRanking` | its second choice, the projection, which it caches |
| `BeginRefresh`, `InvalidateCache`, `PurgeCache`, `ExpireArticles`, `EndRefresh` | the callers of a rebuild, `expire_articles` with its floor and grace |
| `SelectStories`, `CompareLatest`, `InsertProjection`, `ClearRanking`, `ReadMeta` | `HomepageBuilder`, in the hands of a reader or a refresher |
| `StepFails`, `BuildFails`, `RebuildFails`, `Die` | failing Redis commands, batches, builds and rebuilds, deaths |
| `Publish`, `DayPasses`, `ExpiryPasses`, `RankingExpires` | the run that publishes, time, the TTL in Redis |

### Briefing

One day. `worker[w]` is a session that dispatches or sends a test: the edition
it found or inserted, the items it erased and adds, its uncommitted deliveries.
`delivery` is what is committed, `calls` and `accepted` what the provider got.
The schema is that of the ORM models: one edition per date, one delivery per
edition and subscriber; an insert that would collide with an uncommitted one
waits for it, and takes its row if it is committed.

`form[f]` is a request about a subscription. It loads the row, changes its copy
and the columns that differ, flushes, may wait for the e-mail provider, and
commits; in between others load the row, and only the flush waits for another's.
An exception at any point drops the request, not its mail. `links` are the addresses
that were mailed a link. Two history variables: `proven` are the addresses a
subscriber has verified, and `stale` the subscribers for whom a request was
flushed whose copy was out of date.

| Action | Code |
|---|---|
| `StartRun`, `Select`, `WriteEdition`, `ListDue` | `dispatch_due_subscribers`, `get_or_create_daily_edition` |
| `CheckDelivery`, `InsertDelivery`, `Send`, `Commit`, `Rollback` | `dispatch_delivery` and the end of the run |
| `LoseSubscriber`, `LoseMessage` | the exception that costs one subscriber, before and after the insert: the second leaves the row QUEUED |
| `StartTest` | `send_test_briefing`, for the test-send route |
| `SavePreferences`, `RequestVerification`, `Verify`, `Unsubscribe` | the requests of `briefing_routes.py`: their load and what they make of the copy |
| `Flush`, `Save`, `Fail` | the UPDATE and the mail, the commit, an exception |
| `Receive`, `CommitHook` | the provider's webhook with `can_transition` |

A webhook event is known by a key: its type and message or, if the payload has no
id, the message alone, so that of such events only the first is ever applied.
Nothing in the code clears `unsubscribed`: who has left by the link may be verified
and enabled again, but is not on the list of a run any more.

At this commit the scheduled dispatch does not run: `briefing_tasks.py:29` imports a
module that does not exist, so that nothing registers the task. Its body,
`dispatch_due_briefings_task`, can be called, and the model is of what it does on the
five-minute schedule that the file states.

### Editorial

`draft` and `versions` are committed rows, `record` the publication records and
`event` those that have an `ArticlePublished`, which is committed after them. An
editor loads a draft, or a draft and its last version, and commits later; a
publisher is a run of `check_and_publish_scheduled_drafts_task` over the drafts
it has selected, or a request for one. `granted` is a history variable: how
often a draft was scheduled or asked for.

| Action | Code |
|---|---|
| `LoadDraft`, `UpdateDraft`, `TransitionStatus`, `LeaveDraft` | `EditorialService` and its routes |
| `StartSchedule`, `StartPublish` | the scheduled run, the publish route |
| `Plan` | the record, manifest and jobs, which `plan_distribution` commits |
| `Publish` | event, status and decision |
| `FailPublisher` | an exception or a death; the session is not rolled back |

## 4. Runs

| Run | Expected | Question |
|---|---|---|
| `outbox_safety` | pass | What holds when leases lapse, workers crash, handlers fail and events are replayed at any moment, and does the dispatcher then implement `OutboxContract`? |
| `outbox_live` | pass | Is every event settled where leases outlive the work and only settled events are replayed? |
| `queue_safety` | pass | Are article, event and status consistent, with one article for each title, if a worker and an API process run it at the same time, runs raise exceptions and a crawl renames it? |
| `queue_budget` | pass | Do overlapping planners, a replay and a crawl keep one retry budget? |
| `queue_live` | pass | Does every article leave the AI queue though messages are lost, and is a claimed one in somebody's hands? |
| `enrichment` | pass | Does a downloaded image show, is each claim downloaded once, and does no article wait for ever? |
| `enrichment_scored` | violation | Is an enrichment completed when its stages are? No. |
| `ai_gateway` | pass | How far can concurrent requests overrun budget and open circuit? |
| `ai_gateway_stuck` | violation | Is an open circuit always probed again? No, even without a fault. |
| `homepage` | pass | Is nothing expired ranked, and does what has expired leave although refreshes are lost? |
| `briefing` | pass | Does each subscriber get one briefing, at a verified address, and is no delivery taken back? |
| `editorial` | pass | Is the history complete, and is each publication asked for, done once and announced? |

Bounds. Two processes of a kind are enough for every overlap in the code, which
never involves a third: all interaction is through one row (or one Redis key) at
a time and each session sees only committed values. One subscriber, draft or
article is enough where rows of different ones never meet; the exceptions have
two: the batch of the outbox, the two raw articles of `queue_live`, and the two
kinds of articles of `homepage`, which compete for a place. Two events in
one batch cover the order of the query and a batch that is interrupted between
its rows. `MaxRetries` is 2 instead of 3 in the runs about
the counters (a first and a last attempt, and a copy that is one behind), and 1
in the other runs of the queue. In `queue_safety` one article may have two
titles, between which a crawl moves it once, and `MaxArticles = 2` leaves room
for both rows that `OneArticle` then allows; for an article that was not renamed
that is one row more than it allows. `briefing` has two sessions, two webhooks
and two requests at once, and the constraint `Apart` of `MCBriefing` explores
them in parts: both sessions with two of webhook events, a test send and a
fault; both with one request about a subscription, one with two, and none with
three, of which two overlap. Sessions do no more than read subscriptions, and
requests no more than ask whether a message was accepted, so that the
combinations left out relate nothing new. Two events with two hooks come in any
order, one overtaking the other between its load and its commit. In `enrichment`
two runs and two images make a download that overtakes a second run, and two
faults a claim that fails twice. In `ai_gateway` one failure opens a circuit, so
that opening, probing and closing fit in a behaviour of two requests with two
attempts each; `ai_gateway_stuck` has a threshold of two and needs no fault.
`MinStories`, `Floor` and `MaxStories` of `homepage` are the code's 8, the floor
of 5 and the homepage's maximum in an instance of two articles, so that too few,
enough and too many all occur. Elsewhere one crash, fault, replay or revision at
most in a behaviour; each may come at any step, and the violations need no
second. Symmetry is used in runs of safety properties only.

Deadlock is checked except where the bounds, or the end of the day, stop the
system: the runs of `Briefing`, `Editorial` and `Enrichment`.

In `outbox_live` the constants `LeaseMayLapse` and `ReplayInFlight` are FALSE. A
lease lasts 60 seconds while Celery lets the task run for 300, so the first is an
assumption that every batch is done within a minute, and the second that
administrators replay settled events only. The code enforces neither, and
`EventuallySettled` is the one property that needs them: a replay of an event that a
worker has in hand can strand it for ever (section 6). Everything else about the
outbox is checked and proved with both TRUE.

Fairness is weak, of what Beat or the process itself repeats, and never of what
people, providers or faults do:

- `Outbox`: polls (every 30 seconds), each worker's next step, time. `HandlerFails`
  stays enabled as long as a handler runs, and a worker may take it each time.
- `RawArticleQueue`: the planner (every five minutes), workers taking messages,
  whatever runs, the hourly recovery, the fifteen minutes passing.
- `Enrichment`: the recovery (every five minutes), runs, downloads, the dispatcher.
  The bound on faults is below an event's retries, so that the outbox delivers.
- `AIGateway`: requests go on and new ones begin, as the pipeline keeps making
  them, and the recovery timeout passes.
- `Homepage`: people keep reading, what has begun goes on, and Redis forgets the
  ranking after its hour. Nothing is assumed of the refreshes.
- `Editorial`: the run that Beat starts every minute and the requests go on.

## 5. Proofs

Eight modules prove, for every value of the constants, what section 4 shows on
an instance: any number of workers, articles, requests and subscribers, any
limits, batches and bounds.

| Module | Theorem | Property |
|---|---|---|
| `OutboxProofs` | `TypeCorrect` | `TypeOK` |
| | `DeliveryComplete` | `DeliveredComplete` |
| | `OrderedCheckpoints` | `CheckpointedInOrder` |
| | `TimelineUnique` | `TimelineOnce` |
| | `CheckpointedEffect` | `CheckpointMeansEffect` |
| | `BudgetKept` | `RetryBudget` |
| `OutboxRefinement` | `OneOwner` | `SingleOwner` |
| | `NothingStranded` | `InFlightHasLease` |
| | `Refinement` | `ImplementsContract` |
| `RawArticleQueueProofs` | `TypeCorrect` | `TypeOK` |
| | `RowsKept` | `ArticleInv` (no run) |
| | `EventsFollow` | `PublishedTogether` |
| | `ProcessedStored` | `ProcessedHasArticle` |
| | `AtMostOneArticle` | `OneArticle` |
| | `BudgetKept` | `RetryBudget` |
| | `GivenUpLast` * | `GivenUpExhausted` |
| | `ClaimHeld` | `ClaimedIsHeld` |
| `AIGatewayProofs` | `TypeCorrect` | `TypeOK` |
| | `OverrunBounded` | `BudgetOverrun` |
| | `OpenCircuitHolds` | `OpenStopsCalls` |
| `BriefingProofs` | `TypeCorrect` | `TypeOK` |
| | `OnlyVerified` | `EnabledIsVerified` |
| | `SentIsAccepted` | `SentMeansAccepted` |
| | `SentOncePerRollback` | `SentOnce` |
| | `StoriesStay` | `StoriesKept` |
| | `StatusForward` | `NeverUnsent` |
| `EditorialProofs` | `TypeCorrect` | `TypeOK` |
| | `NothingForgotten` | `HistoryComplete` |
| | `EventsFollow` | `EventFollows` |
| | `NoneTwice` * | `PublishedOnce` |
| `EnrichmentProofs` | `TypeCorrect` | `TypeOK` |
| | `RecoveringOwned` | `RecoveringIsOwned` |
| | `DownloadsAreBounded` | `DownloadsBounded` |
| | `ShownAfterDownload` | `ShownOnceDownloaded` |
| `HomepageProofs` | `TypeCorrect` | `TypeOK` |
| | `ExpiredNotRanked` | `NoExpiredRanked` |

### Assumptions

The constants have the assumptions that their modules name: bounds are natural
numbers, the limits of the code are positive, kinds of actors are disjoint, a
placeholder such as `NoWorker` is none of what it stands in for, and the requests
of `AIGateway`, which two bounds count, are finitely many. TLC evaluates each of
them in a run.

Theorems with a * have a hypothesis besides:

- `GivenUpLast`: there is one replay at a time. Two overlapping ones count from
  copies of their own, and `queue_budget` with a second replay violates the property.
- `NoneTwice`: there is one scheduled run at a time, besides any number of requests,
  which is what a worker with a concurrency of one makes of Beat's messages. Two
  scheduled runs may select the same draft and both publish it; `editorial` with a
  second scheduled run violates the property.

### Why the properties need an invariant

Hardly any of the properties is inductive: each relates what is committed to what a
session will commit later, and what the session knows has to be said as well.

`Outbox`. `DeliveredComplete` needs `PrefixDone`: every handler behind a
worker's position is checkpointed. Checkpoints are never removed, so that stays
true whatever other workers do, and it is what a stale worker's `Deliver` relies
on. `CheckpointMeansEffect` needs `ReturnedEffect`, since a handler that has
returned is checkpointed by a later step. `RetryBudget` needs `CopiesInBudget`:
every copy that a worker holds is below the limit, because only events below it
can be leased, and so is every event with a lease. `TimelineOnce` is inductive
with `CheckpointMeansEffect`: a delivered event has its checkpoint, that has its
row, and the index admits no second one. For one owner `HeldIsLeased` says that
whatever is in a worker's hands and not overtaken is in flight under a running
lease, so that no poll selects it; `HeldOnce`, `LockedIsCurrent` and
`HeldExists`, that a worker's own batch has no event twice, its lock is on the
row it is at, and what it holds was emitted. The refinement adds
`OpenWhileCalled`: the handler being called is not checkpointed unless the event
was overtaken, so that `RecordCheckpoint` adds exactly one and is the contract's
step, and a batch that fails has one missing. Each action is then one step of
`OutboxContract` (a poll that leases a batch moves several events at once, as a
replay of a batch does) or a stutter; what a worker does to an overtaken event
is a `Disturb`.

`RawArticleQueue`. All about articles rests on `ArticleInv`. `SlugsApart` says
that no session sees two rows with one slug, committed or its own, and that two
sessions have written neither the same row nor the same slug: that is
PostgreSQL's unique index at work between a flush and a commit. `TitlesKept`
says that every slug is of a title some raw article has had, and a run's of one
of its own; a crawl or a replay only adds to `had`. `OwnTitleSlug` follows a run
from the slug it chose to the row it writes, so that the rows of a raw article
whose titles no other has had are those with the plain slug of one of them, one
for each. `EventsOK` says which row in a session has its event there, or a run
that is still to add it, or neither because an inline run has left it; `DoneOK`,
that who is to become processed in a session has a row in it. The budget needs
`ClaimedIsLocked` (what a planner has claimed cannot change under it, and
nothing that is being replayed is stale) and `FilteredInBudget` (only what is
within the budget is filtered); `GivenUpExhausted` needs `ReplayedIsOpen`;
`ClaimedIsHeld` needs `ClaimedHeldFirmly`, which adds that the replay will
indeed write a status, because what it loaded was the claim.

`AIGateway`. Both bounds count the requests in flight. `OwingWithinBudget` adds
to what is spent the requests that may still be charged; `PendingBounded` adds
to the calls made the pairs of a request and an attempt that it may still make
without asking the breaker again (`MayAttempt`). A step lets a request gain such
a right only by a check while budget or circuit allow it, or through a Redis
command that fails, which is a fault of the bound. The rest is the cardinality
of a finite set that gains or loses one element.

`Briefing`. `OneEdition` and `OneDelivery` say who may have the uncommitted row
of the day and of a subscriber; `RunOK`, how far a run has come with each;
`MessagesAccepted`, that a message on record anywhere, in a session's copy or a
webhook's, is the provider's. For `EnabledIsVerified`, `FormOK` has three parts:
a row is written by one request at a time (`OneForm`), the row under a request
that is not stale is the one it has loaded (`Held`), and its copy verifies only
the address that it has, or one the request knows to be the user's (`Honest`).
`CallsCounted` is `SentOnce` with the call that has not been recorded yet, and
`EmptyRefilled` gives `StoriesKept`: only a run that saw the edition empty
selects stories again.

`Editorial`. `VersionsOK` says that the numbers have no gap and an editor's number
is still one of them. `ArtifactsOK` gives each run between its two commits an artifact
of its own without an event, so that records without events can be counted.
`GrantsCounted` counts, for each draft, the publications made and those still
to be made against what was asked for.

`Enrichment`. `Unstored`, `StoredByRun` and `FirstImage` say what an article
looks like before it is stored and until it is stored again: no event of its
publication carries an image, so that no order of events takes one away.
`ClaimsOK` has the recoveries' claims disjoint, locked and as they were found;
`TasksOK`, that a task which loaded a settled status does not write over
another; `SentCounted`, that a message was sent by a recovery that has it in
hand or has committed, or by a fault.

`Homepage`. `ChosenUnexpired` says of whatever a request has chosen, and by which
of the four ways, that it contains nothing expired since the request began;
`SinceExpired`, that what is so counted is still expired, since nothing revives
an expired article.

### How the proofs are laid out

A theorem of the form `Spec => []P` is a lemma for the initial state, one for a
step, and the temporal step by `PTL`. The step has one case per action and,
under it, one per conjunct that the action can disturb. Where several invariants
depend on the same step (`Briefing`, `Editorial`, `Enrichment`,
`RawArticleQueue`), one lemma first shows, together with the types, that each
action is one of a few named kinds of steps (`Moves`: a run inserts, sends,
commits, rolls back, ...; `StepKinds`: a step renames, prepares a session,
commits one, or leaves the articles alone); the other lemmas then go by kinds
and know nothing of the actions.

Proving brought to light three things about the models, which are changed
accordingly: the bound of `rollbacks` in `Briefing`'s type was true but not
inductive and is now `0..faults`; a `CASE` in `RawArticleQueue` had overlapping
guards, of which TLC takes the first one and the logic some one, and is now an
`IF`; and `AIGateway` had not said that its requests are finitely many.

## 6. Findings

Two runs end in a violation of what the repository says of itself; each is
described under "findings" in `PROJECT.json`: a circuit that stays open for
ever (`ai_gateway_stuck`), and enrichments that are never completed because the
article has a score from the start (`enrichment_scored`).

More divergences have a configuration each, to be run by hand. All end in a
violation.

| Command | What the repository says, and what the code does |
|---|---|
| `tlc -config MCOutboxStuck.cfg MCOutbox` | Expired leases are reclaimed. A replay of an event that a worker is handling clears its lease (`replay_service.py:89`); the worker commits DISPATCHING and dies, and no poll selects the row again. |
| `tlc -config MCOutboxStale.cfg MCOutbox` | Terminal states are immutable. A worker whose lease has lapsed turns DELIVERED into RETRYING (`distribution_tasks.py:404`). |
| `tlc -config MCOutboxOnce.cfg MCOutbox` | A handler executes at most once per event. A worker that dies between the handler's commit and the checkpoint (`distribution_tasks.py:346`) has it executed again. |
| `tlc -config MCOutboxHealthy.cfg MCOutbox` | Events die only if something fails. The handler of `NewsletterSubscriptionCreated` always raises (`newsletter/handlers.py:30`). |
| `tlc -config MCRawArticleAI.cfg MCRawArticleQueue` | The idempotency check prevents a second AI call. It compares `ai_confidence` with 99.0 (`pipeline.py:648`), which no enrichment stores. |
| `tlc -config MCRawArticleClaim.cfg MCRawArticleQueue` | Claimed filtered records are retried. If the recovery fails after its claim (`admin.py:264`), the others stay in "recovering". |
| `tlc -config MCRawArticleInline.cfg MCRawArticleQueue` | An article and its event are committed in one transaction. The inline loop logs an exception and goes on in the session (`replenishment.py:146`); what was flushed is committed without its event. |
| `tlc -config MCRawArticleRenamed.cfg MCRawArticleQueue` | A raw article has one article: runs look for its row. Two runs that loaded different titles (`pipeline.py:379`, `admin.py:149`) both find none, their slugs differ, and nothing else is unique (`models/article.py:106`). |
| `tlc -config MCBriefingBypass.cfg MCBriefing` | "Zero verification bypass" (`briefing_routes.py:169`). A request that moves the address and one that verifies the old one load the same row; both commit the columns they changed (line 206), and the new address is enabled and verified. |
| `tlc -config MCBriefingBounced.cfg MCBriefing` | "BOUNCED cannot become DELIVERED" (`webhooks.py:29-30`). Two webhooks load the same status, and each is checked against its copy. |
| `tlc -config MCBriefingQueued.cfg MCBriefing` | A delivery goes from QUEUED to SENT or FAILED. An exception between the flush of the row and its outcome is logged (`briefing/service.py:766`), the row is committed as QUEUED (line 773), and later runs take it for done. |
| `tlc -config MCBriefingImmutable.cfg MCBriefing` | Editions are immutable. A second run fills an edition that the first one committed empty (`briefing/service.py:486`). |
| `tlc -config MCEditorialUndated.cfg MCEditorial` | Scheduled drafts are published. Nothing in the program sets `publish_at`, by which the run finds them (`editorial_tasks.py:27`). |

Facts that reading for the models brought up, without a run:

- The lock around a homepage rebuild excludes nobody (`core/redis.py:107-109`
  drops what `acquire` returns), so two rebuilds may store the same version, and
  a reader may cache its ids under another projection's identity.
  `NoExpiredRanked` and `ExpiredLeaves` hold nevertheless.
- Readers do not notice that an article has passed its 24th hour; it is shown
  until the next expiration. The refresh event of `expire_articles`
  (`news_ranking_engine.py:385-397`) is added after the function's last commit.
- The pipeline's own thumbnail dispatch is dead code (`pipeline.py:880`, 913-919),
  and an article's retry count for thumbnails never exceeds 1.
- The COALESCE of the read model's upsert (`projectors.py:160-163`, 183-184)
  keeps an image from being dropped, not from being replaced: a late
  `ArticlePublished` that carries an older image puts it back over a newer one.
  `ShownOnceDownloaded` is about articles published and downloaded once.
- A download, a handler of the dispatcher and a run each load the list of completed
  stages and write it later (`coordinator.py:36`), so a stage can be lost. No
  property shows it: `EnrichmentCompletes` fails earlier, by the score.
- An edition's stories are rewritten as long as a run that saw it empty is on its
  way; `StoriesKept` is about editions that were never committed empty.
- The intelligence task of an article is sent before the article is committed
  (`pipeline.py:908-910`); a worker may find none and leave "queued" for good.
  Its docstring says that a failing stage does not prevent later ones, but the
  session is not rolled back after a database error.
- Two overlapping administrators' replays of one article count from copies of
  their own, and the article can be given up with fewer retries on record than
  it had: `GivenUpExhausted` is checked and proved with one replay at a time, as in the
  deployed worker with a concurrency of one.
- A second raw article with a title that is already published takes over the
  published row instead of getting one under the suffixed slug, since the lookup
  also matches the plain slug; `ProcessedHasArticle` and `OneArticle` are
  therefore about titles that no other raw article has.

## 7. Only model-checked

`EventuallySettled`, `QueuedLeaves`, `PendingLeaves`, `ExpiredLeaves` and
`ScheduledLeaves` are liveness under fairness, and so is `OpenCircuitProbed`, which
`ai_gateway_stuck` refutes. A proof of "leads to" under weak fairness needs
`ENABLED`, which the prover does not reach, so they stay with TLC on the instances
of section 4. Every other property of a passing run is proved. The violations of
section 6 are counterexamples and need no proof.

## 8. Not modelled

Inside the modelled components: the contents of articles, e-mails and drafts,
scores, slugs as strings, prompts and the parsing of answers; the properties do
not depend on them. A crawl is reduced to the status it stores and whether the
content changed, an AI call or a download to its outcome, a ranking to a choice
among the candidates, which may leave some out (a low score, the topic of another
one) but not all. Also left out: the response cache of the gateway; click
tracking and the story ranking of the briefing; comment threads, patches and
fact checks of drafts, and the executor of distribution jobs, which nothing
sends; the category desks and per-card caches of the homepage; the thumbnail
replay service, which nothing calls.

Components without a module:

- Article intelligence and embeddings: five stages that write columns of one
  article which nothing else waits for. Planned (section 2).
- Distributed lock: nobody depends on whether it was acquired, so it is no state.
- Recovery engine: `RECOVERY_MODE` is no field of the settings, so that it
  always dry-runs, and its probes read mocked metrics.
- Newsletter: its router is not part of the application and its tasks import a
  session factory that does not exist. The one handler that runs is in `Outbox`.
- Projection engine: only a script run by hand and tests use it.
- Accounts, workspaces, telemetry and the other routes: one transaction per
  request, on tables that the pipeline does not touch.
- Front end, migrations, scripts: no behaviour of the running backend.
