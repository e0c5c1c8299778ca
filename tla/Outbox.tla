------------------------------- MODULE Outbox -------------------------------
(***************************************************************************)
(* The transactional outbox dispatcher: app/tasks/distribution_tasks.py    *)
(* over the tables of app/core/events/models.py, with the admin replay of  *)
(* app/services/replay_service.py.                                         *)
(*                                                                         *)
(* A worker is one run of process_event_outbox_task with its own database  *)
(* session.  It leases a batch, then walks the batch: an uncommitted       *)
(* UPDATE to DISPATCHING (which holds the row lock until the next commit   *)
(* or rollback of that session), the handlers in order with one checkpoint *)
(* each, and the final status.  Everything a worker has not committed is   *)
(* lost by a rollback or a crash.                                          *)
(***************************************************************************)
EXTENDS Integers, Sequences, FiniteSets

CONSTANTS
    Worker,         \* concurrent runs of the dispatcher task
    NoWorker,       \* "no session holds the row lock"
    Event,          \* ids of event_outbox rows, in created_at order
    TypeOf,         \* event_type of each row
    Concerns,       \* handlers that find something to write in its payload
    MaxRetries,     \* EventOutbox.max_retries
    BatchSize,      \* :batch_size of the lease query
    FaultsHappen,   \* may a handler meet a database, Redis or network error?
    LeaseMayLapse,  \* may a lease expire while its worker still runs?
    ReplayInFlight, \* may an admin replay an event a worker is handling?
                    \*   (both may; the runs about liveness say FALSE)
    MaxCrashes,     \* bound: worker crashes in a behaviour
    MaxReplays      \* bound: admin replays in a behaviour

EventType ==
    {"ArticlePublished", "ArticleThumbnailUpdated", "ArticleImpactScoreUpdated",
     "ArticleSubmittedForReview", "ArticleApproved", "ArticleRejected",
     "ArticleScheduled", "ArticleArchived", "NewsletterSubscriptionCreated",
     "ProjectionRefreshRequested", "StoryCreated", "ArticleAssignedToStory",
     "StoriesMerged", "StoryReawakened", "DailyBriefingEditionGenerated"}

-----------------------------------------------------------------------------
(* The handler registry.                                                   *)

\* Commit the caller's session themselves, before the dispatcher records
\* the checkpoint.
SelfCommitting ==
    {"article_published_projection", "article_lifecycle_updated",
     "article_thumbnail_updated", "article_impact_score_updated",
     "stories_merged_projection"}

\* Looks for a timeline row with this source_event_id (UNIQUE) first, then
\* inserts one and commits it itself.
Guarded == {"story_timeline_event"}

\* Logs and rolls back its own failures instead of raising them.
Swallowing == {"projection_refresh"}

\* Raises each time: it builds a TimelineNode from columns the table lacks.
Raising == {"newsletter_subscription_created"}

Handler == SelfCommitting \cup Guarded \cup Swallowing \cup Raising

ASSUME WorkerAssumption == NoWorker \notin Worker
ASSUME EventAssumption == Event \subseteq Nat \ {0}
ASSUME TypeAssumption == TypeOf \in [Event -> EventType]
ASSUME ConcernsAssumption == Concerns \in [Event -> SUBSET Handler]
ASSUME BoundAssumption ==
    /\ MaxRetries \in Nat \ {0}
    /\ BatchSize \in Nat \ {0}
    /\ MaxCrashes \in Nat
    /\ MaxReplays \in Nat
    /\ FaultsHappen \in BOOLEAN
    /\ LeaseMayLapse \in BOOLEAN
    /\ ReplayInFlight \in BOOLEAN

\* _get_handlers_for_event: the handlers of the type, then those that every
\* story-related event has as well.  Other types have none.
HandlersFor(type) ==
    CASE type = "ArticlePublished" ->
            <<"article_published_projection", "article_lifecycle_updated",
              "story_timeline_event">>
      [] type = "ArticleThumbnailUpdated" -> <<"article_thumbnail_updated">>
      [] type = "ArticleImpactScoreUpdated" -> <<"article_impact_score_updated">>
      [] type \in {"ArticleSubmittedForReview", "ArticleApproved",
                   "ArticleRejected", "ArticleScheduled", "ArticleArchived"} ->
            <<"article_lifecycle_updated">>
      [] type = "NewsletterSubscriptionCreated" -> <<"newsletter_subscription_created">>
      [] type = "ProjectionRefreshRequested" -> <<"projection_refresh">>
      [] type = "StoriesMerged" ->
            <<"story_timeline_event", "stories_merged_projection">>
      [] type \in {"StoryCreated", "ArticleAssignedToStory", "StoryReawakened"} ->
            <<"story_timeline_event">>
      [] OTHER -> << >>

HandlersOf(e) == HandlersFor(TypeOf[e])
HandlerSet(e) == {HandlersOf(e)[i] : i \in DOMAIN HandlersOf(e)}

-----------------------------------------------------------------------------
VARIABLES
    status,      \* EventOutbox.status, committed
    lease,       \* lease_expires_at: "none" (NULL), "valid", "expired"
    retryCount,  \* EventOutbox.retry_count
    checkpoints, \* outbox_dispatch_checkpoints, as <<event, handler>>
    deadLetters, \* events with a dead_letter_events row
    rowLock,     \* session with an uncommitted DISPATCHING on the row
    rows,        \* leased_rows a worker has still to process
    cur,         \* the row a worker is processing
    idx,         \* position in the row's handler list
    pc,          \* where the worker is
    effects,     \* history: committed executions per event and handler
    overtaken,   \* history: events whose lease lapsed, or that were replayed,
                 \*   while a worker held them
    crashes,     \* bound counter
    replays      \* bound counter

dbVars == <<status, lease, retryCount, checkpoints, deadLetters, effects>>
workerVars == <<rows, cur, idx, pc>>
boundVars == <<crashes, replays>>
vars == <<dbVars, rowLock, workerVars, boundVars, overtaken>>

Status == {"ABSENT", "CREATED", "LEASED", "DISPATCHING", "RETRYING",
           "DELIVERED", "DEAD_LETTER"}
Terminal == {"DELIVERED", "DEAD_LETTER"}
InFlight == {"LEASED", "DISPATCHING"}

\* What the lease query RETURNs: retry_count is a copy, never read again.
Row == [id: Event, retry_count: Nat]
NoRow == [id |-> 0, retry_count |-> 0]

\* Executions are counted 0, 1, Many.
Many == 2
Count(n) == IF n < Many THEN n + 1 ELSE Many

TypeOK ==
    /\ status \in [Event -> Status]
    /\ lease \in [Event -> {"none", "valid", "expired"}]
    /\ retryCount \in [Event -> Nat]
    /\ checkpoints \in SUBSET (Event \X Handler)
    /\ deadLetters \in SUBSET Event
    /\ rowLock \in [Event -> Worker \cup {NoWorker}]
    /\ rows \in [Worker -> SUBSET Row]
    /\ cur \in [Worker -> Row \cup {NoRow}]
    /\ idx \in [Worker -> Nat]
    /\ pc \in [Worker -> {"idle", "next", "handler", "running", "checked",
                          "returned", "failed"}]
    /\ effects \in [Event -> [Handler -> 0..Many]]
    /\ overtaken \in SUBSET Event
    /\ crashes \in 0..MaxCrashes
    /\ replays \in 0..MaxReplays

Init ==
    /\ status = [e \in Event |-> "ABSENT"]
    /\ lease = [e \in Event |-> "none"]
    /\ retryCount = [e \in Event |-> 0]
    /\ checkpoints = {}
    /\ deadLetters = {}
    /\ rowLock = [e \in Event |-> NoWorker]
    /\ rows = [w \in Worker |-> {}]
    /\ cur = [w \in Worker |-> NoRow]
    /\ idx = [w \in Worker |-> 0]
    /\ pc = [w \in Worker |-> "idle"]
    /\ effects = [e \in Event |-> [h \in Handler |-> 0]]
    /\ overtaken = {}
    /\ crashes = 0
    /\ replays = 0

-----------------------------------------------------------------------------
(* Sessions.                                                               *)

\* What a commit of w's session makes of the status column.
CommittedStatus(w) ==
    [e \in Event |-> IF rowLock[e] = w THEN "DISPATCHING" ELSE status[e]]

Unlocked(w) ==
    [e \in Event |-> IF rowLock[e] = w THEN NoWorker ELSE rowLock[e]]

Commit(w) == status' = CommittedStatus(w) /\ rowLock' = Unlocked(w)
Rollback(w) == rowLock' = Unlocked(w) /\ UNCHANGED status

\* An UPDATE of row e by w waits for any other session's uncommitted one.
CanUpdate(w, e) == rowLock[e] \in {w, NoWorker}

EventOf(w) == cur[w].id
HandlerOf(w) == HandlersOf(EventOf(w))[idx[w]]

\* Is the event in the batch of a live worker?
Holds(w, e) == (\E r \in rows[w] : r.id = e) \/ cur[w].id = e
Held(e) == \E w \in Worker : Holds(w, e)

-----------------------------------------------------------------------------
(* Producers.                                                              *)

\* EventOutbox(...) added to a producer's transaction, once that commits
\* (created_at is older, so rows may appear out of its order).
Emit(e) ==
    /\ status[e] = "ABSENT"
    /\ status' = [status EXCEPT ![e] = "CREATED"]
    /\ UNCHANGED <<lease, retryCount, checkpoints, deadLetters, effects,
                   rowLock, workerVars, boundVars, overtaken>>

-----------------------------------------------------------------------------
(* The dispatcher.                                                         *)

\* Mutant: lease_expires_at < NOW() is dropped.
PollableLeased(e) == status[e] \in {"CREATED", "RETRYING"} \cup InFlight

\* Mutant: expired leases are not reclaimed.
PollableNoReclaim(e) == status[e] \in {"CREATED", "RETRYING"}

\* WHERE clause of the candidates CTE (NULL < NOW() is not true).
Pollable(e) ==
    \/ status[e] \in {"CREATED", "RETRYING"}
    \/ status[e] \in InFlight /\ lease[e] = "expired"

\* FOR UPDATE SKIP LOCKED
Candidates == {e \in Event : Pollable(e) /\ rowLock[e] = NoWorker}

\* ORDER BY created_at ... LIMIT :batch_size
Batch == {e \in Candidates : Cardinality({f \in Candidates : f < e}) < BatchSize}

\* Lease the batch and commit; an empty result ends the task.
Poll(w) ==
    /\ pc[w] = "idle"
    /\ Batch # {}
    /\ status' = [e \in Event |-> IF e \in Batch THEN "LEASED" ELSE status[e]]
    /\ lease' = [e \in Event |-> IF e \in Batch THEN "valid" ELSE lease[e]]
    /\ rows' = [rows EXCEPT ![w] =
                   {[id |-> e, retry_count |-> retryCount[e]] : e \in Batch}]
    /\ pc' = [pc EXCEPT ![w] = "next"]
    /\ UNCHANGED <<retryCount, checkpoints, deadLetters, effects, rowLock,
                   cur, idx, boundVars, overtaken>>

PollNothing(w) ==
    /\ pc[w] = "idle"
    /\ Batch = {}
    /\ UNCHANGED vars

\* UPDATE ... SET status = 'DISPATCHING' WHERE id = :id, flushed only.
\* RETURNING gives the rows in no particular order.
BeginDispatch(w) ==
    /\ pc[w] = "next"
    /\ \E r \in rows[w] :
        /\ CanUpdate(w, r.id)
        /\ rowLock' = [rowLock EXCEPT ![r.id] = w]
        /\ rows' = [rows EXCEPT ![w] = @ \ {r}]
        /\ cur' = [cur EXCEPT ![w] = r]
    /\ idx' = [idx EXCEPT ![w] = 1]
    /\ pc' = [pc EXCEPT ![w] = "handler"]
    /\ UNCHANGED <<dbVars, boundVars, overtaken>>

EndOfBatch(w) ==
    /\ pc[w] = "next"
    /\ rows[w] = {}
    /\ pc' = [pc EXCEPT ![w] = "idle"]
    /\ UNCHANGED <<dbVars, rowLock, rows, cur, idx, boundVars, overtaken>>

HasHandler(w) == pc[w] = "handler" /\ idx[w] <= Len(HandlersOf(EventOf(w)))

\* A checkpoint is found: continue with the next handler.
SkipHandler(w) ==
    /\ HasHandler(w)
    /\ <<EventOf(w), HandlerOf(w)>> \in checkpoints
    /\ idx' = [idx EXCEPT ![w] = @ + 1]
    /\ UNCHANGED <<dbVars, rowLock, rows, cur, pc, boundVars, overtaken>>

\* Mutant: the checkpoint is committed before the handler runs.
StartHandlerMarked(w) ==
    /\ HasHandler(w)
    /\ <<EventOf(w), HandlerOf(w)>> \notin checkpoints
    /\ checkpoints' = checkpoints \cup {<<EventOf(w), HandlerOf(w)>>}
    /\ pc' = [pc EXCEPT ![w] = "running"]
    /\ UNCHANGED <<status, lease, retryCount, deadLetters, effects, rowLock,
                   rows, cur, idx, boundVars, overtaken>>

\* No checkpoint: call the handler.
StartHandler(w) ==
    /\ HasHandler(w)
    /\ <<EventOf(w), HandlerOf(w)>> \notin checkpoints
    /\ pc' = [pc EXCEPT ![w] = "running"]
    /\ UNCHANGED <<dbVars, rowLock, rows, cur, idx, boundVars, overtaken>>

\* The timeline handler finds no row with this source_event_id.
HandlerFindsNone(w) ==
    LET e == EventOf(w)
        h == HandlerOf(w)
    IN  /\ pc[w] = "running"
        /\ h \in Guarded \cap Concerns[e]
        /\ effects[e][h] = 0
        /\ pc' = [pc EXCEPT ![w] = "checked"]
        /\ UNCHANGED <<dbVars, rowLock, rows, cur, idx, boundVars, overtaken>>

\* Mutant: no unique index on source_event_id.
HandlerCommitsAgain(w) ==
    LET e == EventOf(w)
        h == HandlerOf(w)
    IN  /\ \/ pc[w] = "running" /\ h \notin Guarded
           \/ pc[w] = "checked"
        /\ h \in Concerns[e] \ Raising
        /\ Commit(w)
        /\ effects' = [effects EXCEPT ![e][h] = Count(@)]
        /\ pc' = [pc EXCEPT ![w] = "returned"]
        /\ UNCHANGED <<lease, retryCount, checkpoints, deadLetters, rows, cur,
                       idx, boundVars, overtaken>>

\* The handler writes and commits its own rows; this commits DISPATCHING too.
\* The unique index lets one session insert the timeline's row, however many
\* found none.
HandlerCommits(w) ==
    LET e == EventOf(w)
        h == HandlerOf(w)
    IN  /\ \/ pc[w] = "running" /\ h \notin Guarded
           \/ pc[w] = "checked"
        /\ h \in Concerns[e] \ Raising
        /\ h \in Guarded => effects[e][h] = 0
        /\ Commit(w)
        /\ effects' = [effects EXCEPT ![e][h] = Count(@)]
        /\ pc' = [pc EXCEPT ![w] = "returned"]
        /\ UNCHANGED <<lease, retryCount, checkpoints, deadLetters, rows, cur,
                       idx, boundVars, overtaken>>

\* The handler returns without a commit: the payload has nothing for it, or
\* its row is already there.
HandlerReturns(w) ==
    LET e == EventOf(w)
        h == HandlerOf(w)
    IN  /\ pc[w] = "running"
        /\ \/ h \notin Concerns[e] \cup Raising
           \/ h \in Guarded /\ effects[e][h] > 0
        /\ pc' = [pc EXCEPT ![w] = "returned"]
        /\ UNCHANGED <<dbVars, rowLock, rows, cur, idx, boundVars, overtaken>>

\* The handler rolls the session back after a failure and returns normally.
HandlerSwallows(w) ==
    /\ pc[w] = "running"
    /\ HandlerOf(w) \in Swallowing
    /\ FaultsHappen
    /\ Rollback(w)
    /\ pc' = [pc EXCEPT ![w] = "returned"]
    /\ UNCHANGED <<lease, retryCount, checkpoints, deadLetters, effects,
                   rows, cur, idx, boundVars, overtaken>>

\* A handler that always raises, an error in it (before or after a commit of
\* its own), or a unique constraint another worker's rows make it violate.
Raises(w) ==
    \/ FaultsHappen
    \/ HandlerOf(w) \in Raising
    \/ pc[w] = "checked" /\ effects[EventOf(w)][HandlerOf(w)] > 0
    \/ pc[w] = "returned" /\ <<EventOf(w), HandlerOf(w)>> \in checkpoints

\* Mutant: log the failure and go on with the next handler.
HandlerFailsOn(w) ==
    /\ pc[w] \in {"running", "checked", "returned"}
    /\ Raises(w)
    /\ Rollback(w)
    /\ idx' = [idx EXCEPT ![w] = @ + 1]
    /\ pc' = [pc EXCEPT ![w] = "handler"]
    /\ UNCHANGED <<lease, retryCount, checkpoints, deadLetters, effects,
                   rows, cur, boundVars, overtaken>>

\* Rollback and leave the loop.
HandlerFails(w) ==
    /\ pc[w] \in {"running", "checked", "returned"}
    /\ Raises(w)
    /\ Rollback(w)
    /\ pc' = [pc EXCEPT ![w] = "failed"]
    /\ UNCHANGED <<lease, retryCount, checkpoints, deadLetters, effects,
                   rows, cur, idx, boundVars, overtaken>>

\* Insert the checkpoint (its key is unique) and commit.
RecordCheckpoint(w) ==
    /\ pc[w] = "returned"
    /\ <<EventOf(w), HandlerOf(w)>> \notin checkpoints
    /\ Commit(w)
    /\ checkpoints' = checkpoints \cup {<<EventOf(w), HandlerOf(w)>>}
    /\ idx' = [idx EXCEPT ![w] = @ + 1]
    /\ pc' = [pc EXCEPT ![w] = "handler"]
    /\ UNCHANGED <<lease, retryCount, deadLetters, effects, rows, cur, boundVars,
                   overtaken>>

\* Every handler has succeeded or was skipped.  The lease is left as it is.
Deliver(w) ==
    /\ pc[w] = "handler"
    /\ idx[w] > Len(HandlersOf(EventOf(w)))
    /\ CanUpdate(w, EventOf(w))
    /\ status' = [status EXCEPT ![EventOf(w)] = "DELIVERED"]
    /\ rowLock' = Unlocked(w)
    /\ cur' = [cur EXCEPT ![w] = NoRow]
    /\ idx' = [idx EXCEPT ![w] = 0]
    /\ pc' = [pc EXCEPT ![w] = "next"]
    /\ UNCHANGED <<lease, retryCount, checkpoints, deadLetters, effects, rows,
                   boundVars, overtaken>>

\* Mutant: a budget that counts down.
NewRetryCountDown(w) == cur[w].retry_count - 1

\* new_retry_count, from the row as it was leased
NewRetryCount(w) == cur[w].retry_count + 1

\* Mutant: off by one.
RetriesExhaustedLate(w) == NewRetryCount(w) > MaxRetries

RetriesExhausted(w) == NewRetryCount(w) >= MaxRetries

\* A handler failed: RETRYING, or DEAD_LETTER with a dead_letter_events row.
FinishFailed(w) ==
    LET e == EventOf(w)
        dead == RetriesExhausted(w)
    IN  /\ pc[w] = "failed"
        /\ CanUpdate(w, e)
        /\ status' = [status EXCEPT ![e] = IF dead THEN "DEAD_LETTER" ELSE "RETRYING"]
        /\ retryCount' = [retryCount EXCEPT ![e] = NewRetryCount(w)]
        /\ lease' = [lease EXCEPT ![e] = "none"]
        /\ deadLetters' = IF dead THEN deadLetters \cup {e} ELSE deadLetters
        /\ rowLock' = Unlocked(w)
        /\ cur' = [cur EXCEPT ![w] = NoRow]
        /\ idx' = [idx EXCEPT ![w] = 0]
        /\ pc' = [pc EXCEPT ![w] = "next"]
        /\ UNCHANGED <<checkpoints, effects, rows, boundVars, overtaken>>

-----------------------------------------------------------------------------
(* Crashes, time and administrators.                                       *)

\* The worker process dies (or the task is killed, or an exception leaves
\* it): the session's transaction is rolled back, its memory is gone.
Crash(w) ==
    /\ pc[w] # "idle"
    /\ crashes < MaxCrashes
    /\ crashes' = crashes + 1
    /\ Rollback(w)
    /\ rows' = [rows EXCEPT ![w] = {}]
    /\ cur' = [cur EXCEPT ![w] = NoRow]
    /\ idx' = [idx EXCEPT ![w] = 0]
    /\ pc' = [pc EXCEPT ![w] = "idle"]
    /\ UNCHANGED <<lease, retryCount, checkpoints, deadLetters, effects, replays,
                   overtaken>>

\* A worker goes on with e although others may take it from now on.
Overtake(E) == overtaken' = overtaken \cup {e \in E : Held(e)}

\* NOW() passes lease_expires_at, which only the lease query reads.
LeaseExpires(e) ==
    /\ status[e] \in InFlight
    /\ lease[e] = "valid"
    /\ LeaseMayLapse \/ ~Held(e)
    /\ lease' = [lease EXCEPT ![e] = "expired"]
    /\ Overtake({e})
    /\ UNCHANGED <<status, retryCount, checkpoints, deadLetters, effects,
                   rowLock, workerVars, boundVars>>

\* Both replays reset the row and leave checkpoints and dead letters alone.
Reset(E) ==
    /\ \A e \in E : rowLock[e] = NoWorker
    /\ replays < MaxReplays
    /\ replays' = replays + 1
    /\ status' = [e \in Event |-> IF e \in E THEN "CREATED" ELSE status[e]]
    /\ retryCount' = [e \in Event |-> IF e \in E THEN 0 ELSE retryCount[e]]
    /\ lease' = [e \in Event |-> IF e \in E THEN "none" ELSE lease[e]]
    /\ Overtake(E)
    /\ UNCHANGED <<checkpoints, deadLetters, effects, rowLock, workerVars, crashes>>

\* replay_event: whatever the status
ReplayEvent(e) ==
    /\ status[e] # "ABSENT"
    /\ ReplayInFlight \/ ~Held(e)
    /\ Reset({e})

\* replay_failed_batch: WHERE status IN ('FAILED', 'DEAD_LETTER')
ReplayFailedBatch ==
    LET dead == {e \in Event : status[e] = "DEAD_LETTER"}
    IN  /\ dead # {}
        /\ ReplayInFlight \/ \A e \in dead : ~Held(e)
        /\ Reset(dead)

WorkerStep(w) ==
    \/ BeginDispatch(w)
    \/ EndOfBatch(w)
    \/ SkipHandler(w)
    \/ StartHandler(w)
    \/ HandlerFindsNone(w)
    \/ HandlerCommits(w)
    \/ HandlerReturns(w)
    \/ HandlerSwallows(w)
    \/ HandlerFails(w)
    \/ RecordCheckpoint(w)
    \/ Deliver(w)
    \/ FinishFailed(w)

Next ==
    \/ \E e \in Event : Emit(e) \/ LeaseExpires(e) \/ ReplayEvent(e)
    \/ \E w \in Worker : Poll(w) \/ PollNothing(w) \/ WorkerStep(w) \/ Crash(w)
    \/ ReplayFailedBatch

Spec == Init /\ [][Next]_vars

\* Beat starts a poll every 30 seconds, a running task runs on, time passes.
\* Nothing makes producers emit, handlers succeed or administrators replay.
Fairness ==
    /\ \A w \in Worker : WF_vars(Poll(w)) /\ WF_vars(WorkerStep(w))
    /\ \A e \in Event : WF_vars(LeaseExpires(e))

FairSpec == Spec /\ Fairness

-----------------------------------------------------------------------------
(* Safety, with leases that lapse under a running worker, crashes and      *)
(* replays of any event at any time.                                       *)

\* An event is DELIVERED only when every handler registered for its type has
\* a committed checkpoint, however many workers, stale leases, crashes and
\* replays it has been through.
DeliveredComplete ==
    \A e \in Event :
        status[e] = "DELIVERED" => \A h \in HandlerSet(e) : <<e, h>> \in checkpoints

\* Contract 2: a handler is checkpointed only after the handlers before it in
\* the registry's order, even if two workers walk the same event.
CheckpointedInOrder ==
    \A e \in Event : \A j \in DOMAIN HandlersOf(e) :
        <<e, HandlersOf(e)[j]>> \in checkpoints =>
            \A i \in 1..j : <<e, HandlersOf(e)[i]>> \in checkpoints

\* A story's timeline shows an event at most once, and a delivered event that
\* concerns it exactly once: of two workers that both looked before either
\* inserted, the second fails, and its retry finds the row.
TimelineOnce ==
    \A e \in Event, h \in Guarded :
        /\ effects[e][h] <= 1
        /\ status[e] = "DELIVERED" /\ h \in HandlerSet(e) \cap Concerns[e] =>
              effects[e][h] = 1

\* No checkpoint without the effect it stands for: what a retry skips has been
\* committed (all handlers but the one that swallows its failures).
CheckpointMeansEffect ==
    \A e \in Event : \A h \in Concerns[e] \ Swallowing :
        <<e, h>> \in checkpoints => effects[e][h] > 0

\* The retry budget is never exceeded, and an event is dead exactly at the
\* budget and with a dead_letter_events row, although every worker writes
\* the counter from its own copy of the row.
RetryBudget ==
    \A e \in Event :
        /\ retryCount[e] <= MaxRetries
        /\ status[e] \in {"CREATED", "RETRYING"} => retryCount[e] < MaxRetries
        /\ status[e] = "DEAD_LETTER" => retryCount[e] = MaxRetries /\ e \in deadLetters

-----------------------------------------------------------------------------
(* Why they hold: the facts about the workers that make them inductive.    *)

\* A worker that is past "next" has a row and a position in its handlers.
CursorOK ==
    \A w \in Worker :
        /\ pc[w] \in {"handler", "running", "checked", "returned", "failed"} =>
              cur[w] \in Row
        /\ pc[w] \in {"handler", "running", "checked", "returned"} =>
              idx[w] \in Nat \ {0}
        /\ pc[w] \in {"running", "checked", "returned"} =>
              idx[w] <= Len(HandlersOf(EventOf(w)))

\* Behind its position every handler is checkpointed.
PrefixDone ==
    \A w \in Worker : pc[w] \in {"handler", "running", "checked", "returned"} =>
        \A i \in DOMAIN HandlersOf(EventOf(w)) :
            i < idx[w] => <<EventOf(w), HandlersOf(EventOf(w))[i]>> \in checkpoints

\* A handler that has something to write has written it when it returns.
ReturnedEffect ==
    \A w \in Worker :
        pc[w] = "returned" /\ HandlerOf(w) \in Concerns[EventOf(w)] \ Swallowing =>
            effects[EventOf(w)][HandlerOf(w)] > 0

\* Whatever can be leased, and every copy made when it was, is below the limit.
CopiesInBudget ==
    /\ \A e \in Event :
        lease[e] # "none" \/ status[e] = "ABSENT" => retryCount[e] < MaxRetries
    /\ \A w \in Worker :
        /\ \A r \in rows[w] : r.retry_count < MaxRetries
        /\ cur[w].retry_count < MaxRetries

IInv ==
    /\ TypeOK
    /\ CursorOK
    /\ PrefixDone
    /\ ReturnedEffect
    /\ CopiesInBudget
    /\ DeliveredComplete
    /\ CheckpointedInOrder
    /\ TimelineOnce
    /\ CheckpointMeansEffect
    /\ RetryBudget

-----------------------------------------------------------------------------
(* What the documentation says.  It is true of every event but those whose  *)
(* lease lapsed, or that were replayed, while a worker held them.           *)

\* EventOutbox: terminal states are immutable unless an administrator resets
\* them to CREATED.  For what is not overtaken, ImplementsContract implies it.
TerminalImmutable ==
    [][\A e \in Event :
          status[e] \in Terminal => status'[e] \in {status[e], "CREATED"}]_vars

\* FOR UPDATE SKIP LOCKED and the lease keep every event in one worker's
\* hands: through crashes, retries, and replays of what nobody holds, a
\* second worker comes in only after a lapse or a replay under the first.
SingleOwner ==
    \A v, w \in Worker, e \in Event \ overtaken :
        Holds(v, e) /\ Holds(w, e) => v = w

\* Every event that is in flight carries the lease by which it is reclaimed
\* if its worker dies (a NULL lease never expires), unless it was overtaken.
InFlightHasLease ==
    \A e \in Event \ overtaken : status[e] \in InFlight => lease[e] # "none"

\* Expired leases are reclaimed: every event is eventually delivered or dead.
EventuallySettled ==
    \A e \in Event : (status[e] # "ABSENT") ~> (status[e] \in Terminal)

-----------------------------------------------------------------------------
(* Why they hold: what a worker has in hand is its own until overtaken.     *)

\* Whatever is in a worker's hands is in flight under a lease that runs.
HeldIsLeased ==
    \A w \in Worker, e \in Event \ overtaken :
        Holds(w, e) => status[e] \in InFlight /\ lease[e] = "valid"

\* A worker has each of its events once.
HeldOnce ==
    \A w \in Worker : \A r, s \in rows[w] : cur[w].id # r.id /\ (r.id = s.id => r = s)

\* A session's uncommitted DISPATCHING is on the row it is processing.
LockedIsCurrent ==
    /\ \A e \in Event, w \in Worker : rowLock[e] = w => cur[w].id = e
    /\ \A w \in Worker : pc[w] \in {"idle", "next"} => cur[w] = NoRow

\* What a worker has in hand has been emitted.
HeldExists == \A w \in Worker, e \in Event : Holds(w, e) => status[e] # "ABSENT"

OwnerInv == SingleOwner /\ InFlightHasLease /\ HeldIsLeased /\ HeldOnce /\ LockedIsCurrent

\* Only handlers of the event's type are checkpointed, and the one that is
\* called, or has failed, is not, unless another worker overtook the caller.
OpenWhileCalled ==
    /\ \A e \in Event, h \in Handler : <<e, h>> \in checkpoints => h \in HandlerSet(e)
    /\ \A w \in Worker : pc[w] \in {"running", "checked", "returned", "failed"} =>
          /\ idx[w] \in DOMAIN HandlersOf(EventOf(w))
          /\ EventOf(w) \notin overtaken =>
                <<EventOf(w), HandlerOf(w)>> \notin checkpoints

-----------------------------------------------------------------------------
(* What docstrings say, and the code does not (README, divergences).       *)

\* OutboxDispatchCheckpoint: at-most-once execution of a handler per event,
\* even when a worker crashes or retries.
ExecutedAtMostOnce ==
    \A e \in Event, h \in Handler : effects[e][h] <= 1

\* The handlers in the registry do what their docstrings say: without a
\* failing database, Redis or network no event ends up dead.
HealthyNeverDead ==
    \A e \in Event : status[e] = "DEAD_LETTER" => FaultsHappen

-----------------------------------------------------------------------------
(* The refinement mapping to OutboxContract.                               *)

PhaseOf(e) ==
    CASE status[e] = "ABSENT" -> "absent"
      [] status[e] = "CREATED" -> "waiting"
      [] status[e] = "DELIVERED" -> "delivered"
      [] status[e] = "DEAD_LETTER" -> "dead"
      [] OTHER -> "working"

DoneOf(e) == Cardinality({h \in Handler : <<e, h>> \in checkpoints})

OC == INSTANCE OutboxContract WITH
          Handlers <- [e \in Event |-> HandlersOf(e)],
          phase <- [e \in Event |-> PhaseOf(e)],
          done <- [e \in Event |-> DoneOf(e)]

\* The dispatcher implements the contract, whatever lapses and whoever replays:
\* every step of a worker, a crash or a replay is one step of OutboxContract or
\* invisible to it.
ImplementsContract == OC!Contract

=============================================================================
