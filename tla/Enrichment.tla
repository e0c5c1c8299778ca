----------------------------- MODULE Enrichment -----------------------------
(***************************************************************************)
(* Thumbnails and enrichment stages of published articles: the pipeline    *)
(* run that stores and publishes an article, the download tasks, their     *)
(* recovery, the dispatcher that projects the events into the read model,  *)
(* and the coordinator that both sides call when a stage is done           *)
(* (celery_app.py, ingestion/thumbnail_service.py, ingestion/pipeline.py,  *)
(* editorial/coordinator.py, tasks/distribution_tasks.py,                  *)
(* apps/tnt/projectors.py).                                                *)
(*                                                                         *)
(* Every task has a session at READ COMMITTED; it keeps the row it loaded  *)
(* and writes a column only if its value differs from the loaded one.  Of  *)
(* the outbox this module uses what Outbox shows: an event is handled at   *)
(* least once, by one worker or by two whose lease lapsed, in any order.   *)
(***************************************************************************)
EXTENDS Integers, FiniteSets

CONSTANTS
    Article,
    Pipeline,    \* processes that run process_raw_article_to_editorial
    Downloader,  \* workers that run download_thumbnail_task
    Recoverer,   \* runs of recover_pending_thumbnails_task
    Dispatcher,  \* workers of the outbox
    MaxRuns,     \* bound: pipeline runs of all articles
    MaxImages,   \* bound: finished downloads
    MaxFaults    \* bound: exceptions and deaths, fewer than an event's retries

ASSUME BoundAssumption == MaxRuns \in Nat /\ MaxImages \in Nat /\ MaxFaults \in Nat

VARIABLES
    row,      \* processed_articles
    read,     \* thumbnail_local of the read model, "absent" without a row
    lock,     \* articles locked FOR UPDATE by a recovery
    messages, \* download messages of each article in the broker
    outbox,   \* events not DELIVERED yet
    run,      \* the pipeline runs
    task,     \* the download tasks
    claim,    \* the recoveries
    handler,  \* handlers of ArticlePublished
    published, \* history: committed runs of each article
    finalized, \* history: committed downloads of each article
    sent,      \* history: download messages sent for each article
    runs, images, faults   \* bound counters

rows == <<row, read>>
queues == <<messages, outbox>>
history == <<published, finalized, sent>>
bounds == <<runs, images, faults>>
vars == <<rows, lock, queues, run, task, claim, handler, history, bounds>>

Stage == {"thumbnail", "knowledge"}

\* Images are numbered as they are stored; 0 stands for NULL.
Image == 0..MaxImages

\* "given_up" stands for the statuses of an article without a usable candidate.
Status == {"pending", "recovering", "downloaded", "failed", "given_up"}
Row == [thumb : Image, status : Status, retries : 0..3, stages : SUBSET Stage,
        scored : BOOLEAN, completed : BOOLEAN]
NoRow == [thumb |-> 0, status |-> "absent", retries |-> 0, stages |-> {},
          scored |-> FALSE, completed |-> FALSE]

\* Mutant: the status has no default.
StoredRowUnset == [NoRow EXCEPT !.scored = TRUE]

\* calculate_final_score is positive whatever the article: quality alone adds
\* 2, and the run asserts it before it writes the read model.
StoredRow == [NoRow EXCEPT !.status = "pending", !.scored = TRUE]

NoImage == -1     \* no row in the read model
Event == [type : {"published", "thumbnail"}, article : Article, thumb : Image, id : Nat]
Published(a, thumb) == [type |-> "published", article |-> a, thumb |-> thumb,
                        id |-> published[a]]
Updated(a, thumb) == [type |-> "thumbnail", article |-> a, thumb |-> thumb,
                      id |-> finalized[a]]

Loaded == Row \cup {NoRow}
IdleRun == [pc |-> "idle", article |-> {}, copy |-> NoRow, read |-> NoImage]
IdleTask == [pc |-> "idle", article |-> {}, copy |-> NoRow]
IdleClaim == [todo |-> {}, outcome |-> [a \in Article |-> "pending"], held |-> {}]
IdleHandler == [pc |-> "idle", event |-> {}, copy |-> NoRow]

\* A run and a task have an article each, or none.
Current == {{}} \cup {{a} : a \in Article}

PipelineRun == [pc : {"idle", "flushed", "read"}, article : Current, copy : Loaded,
                read : Image \cup {NoImage}]
DownloadTask == [pc : {"idle", "download", "loaded"}, article : Current, copy : Loaded]
Recovery == [todo : SUBSET Article, held : SUBSET Article, outcome : [Article -> Status]]
Handling == [pc : {"idle", "projected", "loaded"},
             event : SUBSET {e \in Event : e.type = "published"}, copy : Loaded]

TypeOK ==
    /\ row \in [Article -> Loaded]
    /\ read \in [Article -> Image \cup {NoImage}]
    /\ lock \in SUBSET Article
    /\ messages \in [Article -> Nat] /\ outbox \in SUBSET Event
    /\ run \in [Pipeline -> PipelineRun] /\ task \in [Downloader -> DownloadTask]
    /\ claim \in [Recoverer -> Recovery] /\ handler \in [Dispatcher -> Handling]
    /\ published \in [Article -> Nat] /\ finalized \in [Article -> Nat]
    /\ sent \in [Article -> Nat]
    /\ runs \in 0..MaxRuns /\ images \in 0..MaxImages /\ faults \in 0..MaxFaults

Init ==
    /\ row = [a \in Article |-> NoRow]
    /\ read = [a \in Article |-> NoImage]
    /\ lock = {}
    /\ messages = [a \in Article |-> 0] /\ outbox = {}
    /\ run = [p \in Pipeline |-> IdleRun]
    /\ task = [t \in Downloader |-> IdleTask]
    /\ claim = [r \in Recoverer |-> IdleClaim]
    /\ handler = [d \in Dispatcher |-> IdleHandler]
    /\ published = [a \in Article |-> 0] /\ finalized = [a \in Article |-> 0]
    /\ sent = [a \in Article |-> 0]
    /\ runs = 0 /\ images = 0 /\ faults = 0

\* Mutant: the message is left out.
SendNever(a) == sent' = [sent EXCEPT ![a] = @ + 1] /\ UNCHANGED messages

Send(a) ==
    /\ messages' = [messages EXCEPT ![a] = @ + 1]
    /\ sent' = [sent EXCEPT ![a] = @ + 1]

-----------------------------------------------------------------------------
(* process_raw_article_to_editorial, from the lookup of the row on.  Runs  *)
(* of one article exclude each other here; RawArticleQueue lets them meet. *)

\* The row is loaded, or inserted and flushed.
BeginRun(p, a) ==
    /\ run[p].pc = "idle"
    /\ \A q \in Pipeline : a \notin run[q].article
    /\ runs < MaxRuns
    /\ runs' = runs + 1
    /\ run' = [run EXCEPT ![p] = [IdleRun EXCEPT !.pc = "flushed", !.article = {a},
                   !.copy = IF row[a] = NoRow THEN StoredRow ELSE row[a]]]
    /\ UNCHANGED <<rows, lock, queues, task, claim, handler, history, images, faults>>

\* The run sends no download: its list of candidates is never filled.
LoadReadModel(p, a) ==
    /\ run[p].pc = "flushed" /\ a \in run[p].article
    /\ run' = [run EXCEPT ![p] = [@ EXCEPT !.pc = "read", !.read = read[a]]]
    /\ UNCHANGED <<rows, lock, queues, task, claim, handler, history, bounds>>

\* Row, read model and event in one transaction; the read model gets the
\* run's copy of the thumbnail.
CommitRun(p, a) ==
    /\ run[p].pc = "read" /\ a \in run[p].article
    /\ a \notin lock
    /\ row' = [row EXCEPT ![a] = IF @ = NoRow THEN StoredRow ELSE @]
    /\ read' = [read EXCEPT ![a] = IF run[p].copy.thumb = run[p].read THEN @
                                   ELSE run[p].copy.thumb]
    /\ outbox' = outbox \cup {Published(a, run[p].copy.thumb)}
    /\ published' = [published EXCEPT ![a] = @ + 1]
    /\ run' = [run EXCEPT ![p] = IdleRun]
    /\ UNCHANGED <<lock, messages, task, claim, handler, finalized, sent, bounds>>

FailRun(p) ==
    /\ run[p].pc # "idle"
    /\ faults < MaxFaults
    /\ faults' = faults + 1
    /\ run' = [run EXCEPT ![p] = IdleRun]
    /\ UNCHANGED <<rows, lock, queues, task, claim, handler, history, runs, images>>

-----------------------------------------------------------------------------
(* The coordinator.                                                        *)

\* mark_stage_complete: what the caller writes with its own columns.  The
\* score is calculated only for an article that has none.
Marked(current, copy, stage) ==
    LET stages == copy.stages \cup {stage}
        scores == Stage \subseteq stages /\ ~copy.scored
    IN  [current EXCEPT !.stages = IF stage \in copy.stages THEN @ ELSE stages,
                        !.completed = @ \/ scores,
                        !.scored = @ \/ scores]

-----------------------------------------------------------------------------
(* download_thumbnail_task.                                                *)

\* The message is acknowledged when it is taken.
TakeMessage(t, a) ==
    /\ task[t].pc = "idle"
    /\ messages[a] > 0
    /\ messages' = [messages EXCEPT ![a] = @ - 1]
    /\ task' = [task EXCEPT ![t] = [IdleTask EXCEPT !.pc = "download", !.article = {a}]]
    /\ UNCHANGED <<rows, lock, outbox, run, claim, handler, history, bounds>>

\* The row is loaded by finalize_thumbnail_update, or long before by the AI
\* recovery of an image, whose copy finalize_thumbnail_update then gets.
LoadRow(t, a) ==
    /\ task[t].pc = "download" /\ a \in task[t].article
    /\ task' = [task EXCEPT ![t] = [@ EXCEPT !.pc = "loaded", !.copy = row[a]]]
    /\ UNCHANGED <<rows, lock, queues, run, claim, handler, history, bounds>>

\* finalize_thumbnail_update: thumbnail, event and stage in one transaction,
\* with a stored image or with the fallback, which has none.
Finalize(t, a, thumb) ==
    LET copy == task[t].copy
        status == IF thumb = 0 THEN "failed" ELSE "downloaded"
        written == [row[a] EXCEPT !.thumb = IF thumb = copy.thumb THEN @ ELSE thumb,
                                  !.status = IF status = copy.status THEN @ ELSE status]
    IN  /\ row' = [row EXCEPT ![a] = Marked(written, copy, "thumbnail")]
        /\ outbox' = outbox \cup {Updated(a, thumb)}
        /\ finalized' = [finalized EXCEPT ![a] = @ + 1]

FinishDownload(t, a, thumb) ==
    /\ task[t].pc = "loaded" /\ a \in task[t].article
    /\ a \notin lock
    /\ images < MaxImages
    /\ images' = images + 1
    /\ thumb \in {0, images'}
    /\ Finalize(t, a, thumb)
    /\ task' = [task EXCEPT ![t] = IdleTask]
    /\ UNCHANGED <<read, lock, messages, run, claim, handler, published, sent, runs, faults>>

FailDownload(t) ==
    /\ task[t].pc # "idle"
    /\ faults < MaxFaults
    /\ faults' = faults + 1
    /\ task' = [task EXCEPT ![t] = IdleTask]
    /\ UNCHANGED <<rows, lock, queues, run, claim, handler, history, runs, images>>

-----------------------------------------------------------------------------
(* recover_pending_thumbnails_task.                                        *)

\* Mutant: rows that another recovery holds are taken too.
ClaimableLocked == {a \in Article : row[a].status = "pending" /\ row[a].retries < 3}

\* Mutant: the comparison is the wrong way round.
ClaimableRetried == {a \in Article : row[a].status = "pending" /\ row[a].retries >= 3} \ lock

\* FOR UPDATE SKIP LOCKED; any pending article may be two minutes old.
Claimable == {a \in Article : row[a].status = "pending" /\ row[a].retries < 3} \ lock

Claim(r) ==
    /\ claim[r].held = {}
    /\ Claimable # {}
    /\ lock' = lock \cup Claimable
    /\ claim' = [claim EXCEPT ![r] = [IdleClaim EXCEPT !.todo = Claimable, !.held = Claimable]]
    /\ UNCHANGED <<rows, queues, run, task, handler, history, bounds>>

LastRetry(a) == row[a].retries + 1 >= 3

Decide(r, a, status) ==
    claim' = [claim EXCEPT ![r] = [todo |-> @.todo \ {a}, held |-> @.held,
                                   outcome |-> [@.outcome EXCEPT ![a] = status]]]

\* An article with candidates: the message is sent within the transaction.
RecoverArticle(r, a) ==
    /\ a \in claim[r].todo
    /\ ~LastRetry(a)
    /\ Send(a)
    /\ Decide(r, a, "recovering")
    /\ UNCHANGED <<rows, lock, outbox, run, task, handler, published, finalized, bounds>>

\* No candidates, or no retry left.
GiveUpArticle(r, a) ==
    /\ a \in claim[r].todo
    /\ Decide(r, a, IF LastRetry(a) THEN "failed" ELSE "given_up")
    /\ UNCHANGED <<rows, lock, queues, run, task, handler, history, bounds>>

RecoveredStatus(r, a) == claim[r].outcome[a]

CommitClaims(r) ==
    /\ claim[r].held # {} /\ claim[r].todo = {}
    /\ row' = [a \in Article |->
                 IF a \in claim[r].held
                 THEN [row[a] EXCEPT !.status = RecoveredStatus(r, a), !.retries = @ + 1]
                 ELSE row[a]]
    /\ lock' = lock \ claim[r].held
    /\ claim' = [claim EXCEPT ![r] = IdleClaim]
    /\ UNCHANGED <<read, queues, run, task, handler, history, bounds>>

FailRecovery(r) ==
    /\ claim[r].held # {}
    /\ faults < MaxFaults
    /\ faults' = faults + 1
    /\ lock' = lock \ claim[r].held
    /\ claim' = [claim EXCEPT ![r] = IdleClaim]
    /\ UNCHANGED <<rows, queues, run, task, handler, history, runs, images>>

-----------------------------------------------------------------------------
(* The projections.                                                        *)

\* Mutant: the payload's thumbnail replaces the read model's.
CoalescedPayload(thumb, current) == thumb

\* COALESCE(excluded.thumbnail_local, articles.thumbnail_local)
Coalesced(thumb, current) == IF thumb # 0 THEN thumb ELSE current

\* handle_article_published: the upsert is committed first; extraction and
\* the other projectors follow.
ProjectArticle(d, e) ==
    /\ handler[d].pc = "idle"
    /\ e \in outbox /\ e.type = "published"
    /\ read' = [read EXCEPT ![e.article] = IF @ = NoImage THEN e.thumb
                                           ELSE Coalesced(e.thumb, @)]
    /\ handler' = [handler EXCEPT ![d] = [pc |-> "projected", event |-> {e}, copy |-> NoRow]]
    /\ UNCHANGED <<row, lock, queues, run, task, claim, history, bounds>>

LoadKnowledge(d, e) ==
    /\ handler[d].pc = "projected" /\ e \in handler[d].event
    /\ handler' = [handler EXCEPT ![d] = [@ EXCEPT !.pc = "loaded", !.copy = row[e.article]]]
    /\ UNCHANGED <<rows, lock, queues, run, task, claim, history, bounds>>

\* The stage is committed with the checkpoint, which only one worker gets.
MarkKnowledge(d, e) ==
    /\ handler[d].pc = "loaded" /\ e \in handler[d].event \cap outbox
    /\ e.article \notin lock
    /\ row' = [row EXCEPT ![e.article] = Marked(@, handler[d].copy, "knowledge")]
    /\ outbox' = outbox \ {e}
    /\ handler' = [handler EXCEPT ![d] = IdleHandler]
    /\ UNCHANGED <<read, lock, messages, run, task, claim, history, bounds>>

\* The event is tried again, unless another worker has delivered it.
FailHandler(d) ==
    /\ handler[d].pc # "idle"
    /\ IF handler[d].event \subseteq outbox
       THEN faults < MaxFaults /\ faults' = faults + 1
       ELSE handler[d].pc = "loaded" /\ faults' = faults
    /\ handler' = [handler EXCEPT ![d] = IdleHandler]
    /\ UNCHANGED <<rows, lock, queues, run, task, claim, history, runs, images>>

\* handle_thumbnail_updated: an UPDATE, which a missing row leaves undone.
Projected(e) == IF read[e.article] = NoImage THEN NoImage ELSE e.thumb

\* The update is committed; unless the worker dies, so is the checkpoint.
ProjectThumbnail(e) ==
    /\ e \in outbox /\ e.type = "thumbnail"
    /\ read' = [read EXCEPT ![e.article] = Projected(e)]
    /\ \/ outbox' = outbox \ {e} /\ UNCHANGED faults
       \/ faults < MaxFaults /\ faults' = faults + 1 /\ UNCHANGED outbox
    /\ UNCHANGED <<row, lock, messages, run, task, claim, handler, history, runs, images>>

-----------------------------------------------------------------------------
RunStep(p) == \E a \in Article : LoadReadModel(p, a) \/ CommitRun(p, a)

DownloadStep(t) ==
    \E a \in Article :
        \/ TakeMessage(t, a) \/ LoadRow(t, a)
        \/ \E thumb \in Image : FinishDownload(t, a, thumb)

RecoverStep(r) ==
    \/ Claim(r) \/ CommitClaims(r)
    \/ \E a \in Article : RecoverArticle(r, a) \/ GiveUpArticle(r, a)

DispatchStep ==
    \E e \in outbox :
        \/ ProjectThumbnail(e)
        \/ \E d \in Dispatcher : ProjectArticle(d, e) \/ LoadKnowledge(d, e) \/ MarkKnowledge(d, e)

Next ==
    \/ \E p \in Pipeline : \/ RunStep(p) \/ FailRun(p)
                           \/ \E a \in Article : BeginRun(p, a)
    \/ \E t \in Downloader : DownloadStep(t) \/ FailDownload(t)
    \/ \E r \in Recoverer : RecoverStep(r) \/ FailRecovery(r)
    \/ DispatchStep
    \/ \E d \in Dispatcher : FailHandler(d)

Spec == Init /\ [][Next]_vars

\* Beat starts the recovery every five minutes; tasks, runs and the
\* dispatcher go on while they live.
FairSpec ==
    /\ Spec
    /\ \A p \in Pipeline : WF_vars(RunStep(p))
    /\ \A t \in Downloader : WF_vars(DownloadStep(t))
    /\ \A r \in Recoverer : WF_vars(RecoverStep(r))
    /\ WF_vars(DispatchStep)

-----------------------------------------------------------------------------
(* Properties.                                                             *)

\* A message or a task is left to settle the article's status, or one failed.
Owned(a) ==
    \/ messages[a] > 0
    \/ \E t \in Downloader : a \in task[t].article
    \/ faults > 0

\* The recovery sends its messages before it commits "recovering", and a
\* worker may take one at once; still nobody leaves an article in that status
\* without a message or a task, unless a task failed.
RecoveringIsOwned ==
    \A a \in Article : row[a].status = "recovering" => Owned(a)

\* An article is claimed once, also by recoveries that overlap and while its
\* first download still runs: one message, and one more for each claim that was
\* rolled back.
DownloadsBounded ==
    \A a \in Article : sent[a] <= 1 + faults

\* An article that was published and downloaded once shows its image as soon
\* as its events are delivered, in whatever order and however often they were
\* handled, and whoever overtook whom while the article was stored.
ShownOnceDownloaded ==
    \A a \in Article :
        published[a] = 1 /\ finalized[a] = 1 /\ (\A e \in outbox : e.article # a)
            => read[a] = row[a].thumb

\* The run that stores an article sends no download, and a recovery may be
\* rolled back: still no article waits for its thumbnail for ever.
PendingLeaves ==
    \A a \in Article : row[a].status = "pending" ~> row[a].status # "pending"

-----------------------------------------------------------------------------
(* Why they hold: with TypeOK, what follows is an inductive invariant.     *)

\* Nothing is done for an article before the run that stores it commits; such
\* a run has the article's new row, and has found no row in the read model.
Unstored(a) ==
    /\ row[a] = NoRow /\ read[a] = NoImage
    /\ finalized[a] = 0 /\ messages[a] = 0
    /\ \A t \in Downloader : a \notin task[t].article
    /\ \A e \in outbox : e.article # a
    /\ \A p \in Pipeline :
           a \in run[p].article => run[p].copy = StoredRow /\ run[p].read = NoImage

StoredByRun ==
    \A a \in Article : IF published[a] = 0 THEN Unstored(a) ELSE row[a] # NoRow

\* A status that no download and no recovery takes back.
Settled == {"downloaded", "failed", "given_up"}

\* A settled status that a task has loaded is settled still: what it writes is
\* never left out for being what it loaded.
TasksOK ==
    \A t \in Downloader :
        /\ task[t].pc = "idle" => task[t].article = {}
        /\ task[t].pc = "loaded" /\ task[t].copy.status \in Settled =>
               \A a \in task[t].article : row[a].status \in Settled

\* A recovery's articles are locked, by it alone, and wait as it found them;
\* one whose message it sent has that message, a task, or a failure.
ClaimsOK ==
    /\ \A r \in Recoverer :
           /\ claim[r].todo \subseteq claim[r].held /\ claim[r].held \subseteq lock
           /\ \A a \in claim[r].held : row[a].status = "pending" /\ row[a].retries < 3
           /\ \A a \in claim[r].held \ claim[r].todo :
                  /\ claim[r].outcome[a] # "pending"
                  /\ claim[r].outcome[a] = "recovering" => Owned(a)
    /\ \A r, q \in Recoverer : r # q => claim[r].held \cap claim[q].held = {}

Decided(a) == \E r \in Recoverer : a \in claim[r].held \ claim[r].todo

\* A message was sent by a recovery that has the article in hand or has
\* committed, or by one that a fault rolled back.
SentCounted ==
    \A a \in Article :
        /\ sent[a] <= 1 + faults
        /\ row[a].status \in {"absent", "pending"} /\ ~Decided(a) => sent[a] <= faults

Thumbnails(a) == {e \in outbox : e.article = a /\ e.type = "thumbnail"}

\* Until an article is run a second time its publication carries no image, so
\* that no handler of it takes one away; what a first download stored is in
\* the read model or in the event to come.
FirstImage ==
    \A a \in Article : published[a] = 1 =>
        /\ read[a] # NoImage
        /\ \A e \in outbox : e.article = a /\ e.type = "published" => e.thumb = 0
        /\ finalized[a] = 0 =>
               /\ row[a].thumb = 0 /\ Thumbnails(a) = {}
               /\ \A t \in Downloader :
                      a \in task[t].article => task[t].copy.thumb = 0
        /\ finalized[a] = 1 =>
               /\ \A e \in Thumbnails(a) : e.thumb = row[a].thumb
               /\ Thumbnails(a) = {} => read[a] = row[a].thumb

-----------------------------------------------------------------------------
\* coordinator.py:20-21: "Once all REQUIRED_STAGES are complete, transitions
\* the status, runs the scoring engine, and triggers the CQRS read model
\* update event."
EnrichmentCompletes ==
    \A a \in Article : row[a].stages = Stage => row[a].completed

=============================================================================
