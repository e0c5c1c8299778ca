--------------------------- MODULE RawArticleQueue ---------------------------
(***************************************************************************)
(* Raw articles on their way to publication: the planner that queues them  *)
(* for the AI workers and recovers the ones that time out, and the         *)
(* pipeline run that turns one into a processed article                    *)
(* (celery_app.py, app/services/ingestion/pipeline.py), the inline runs of *)
(* the API process (replenishment.py) and the replay of filtered articles  *)
(* (app/tasks/admin.py).                                                   *)
(*                                                                         *)
(* Every session is at READ COMMITTED with autoflush off: it writes the    *)
(* values it loaded and changed in memory, whatever the row has become.    *)
(* A Celery worker opens one for each run; an API process has one for its  *)
(* whole list, and an exception leaves in it what the run had flushed.     *)
(* Celery removes a message from the broker when a worker takes it, so a   *)
(* run that dies is not redelivered.                                       *)
(***************************************************************************)
EXTENDS Integers, FiniteSets

CONSTANTS
    Raw,          \* ids of raw_articles
    TitlesOf,     \* generate_slug(title), for the titles each may be given
    Unparseable,  \* raw articles with less than 10 characters of text
    Planner,      \* runs of the prioritization task
    Celery,       \* Celery workers
    Api,          \* API processes that replenish inline
    Replayer,     \* workers that replay filtered articles
    Nobody,       \* "no session holds the row lock"
    EnqueueLimit, \* OPERATIONAL_BATCH_LIMIT
    RecoverLimit, \* LIMIT of the stale query
    MaxRetries,   \* retry_count at which an article is given up
    MaxArticles,  \* bound: processed_articles ever inserted
    MaxFaults,    \* bound: exceptions and process deaths
    MaxRevisions  \* bound: crawls that find a stored article changed

Proc == Celery \cup Api

ASSUME ActorAssumption == Nobody \notin Planner \cup Proc \cup Replayer
ASSUME RawAssumption == Raw \subseteq Nat \ {0} /\ Unparseable \subseteq Raw
ASSUME TitleAssumption == \A r \in Raw : TitlesOf[r] # {} /\ IsFiniteSet(TitlesOf[r])
ASSUME LimitAssumption ==
    /\ EnqueueLimit \in Nat \ {0}
    /\ RecoverLimit \in Nat \ {0}
    /\ MaxRetries \in Nat \ {0}
    /\ MaxArticles \in Nat
    /\ MaxFaults \in Nat
    /\ MaxRevisions \in Nat

VARIABLES
    status,     \* RawArticle.status, committed
    retries,    \* RawArticle.retry_count
    stale,      \* is updated_at more than 15 minutes ago?
    title,      \* generate_slug(RawArticle.title)
    had,        \* history: the titles a raw article has had
    rawLock,    \* session that selected the row FOR UPDATE
    queue,      \* process_raw_article messages in the broker, per raw article
    article,    \* processed_articles by id (ids are 1, 2, ...)
    published,  \* article ids with an ArticlePublished row in event_outbox
    abandoned,  \* history: article ids of inline runs that raised an exception
    plan,       \* the planner runs
    run,        \* the pipeline runs
    session,    \* what each process has flushed or changed and not committed
    todo,       \* what an API process has still to process inline
    replay,     \* the replay runs
    faults,     \* bound counter
    revisions   \* bound counter

titles == <<title, had>>
rawVars == <<status, retries, stale, titles>>
store == <<article, published, abandoned>>
vars == <<rawVars, rawLock, queue, store, plan, run, session, todo, replay,
          faults, revisions>>

Status == {"absent", "filtered", "recovering", "fetched", "ai_queued",
           "processed", "dead_letter"}

\* Slugs are the title's, or that with the raw id appended.
Title == UNION {TitlesOf[r] : r \in Raw}
BaseSlug(t) == <<t, 0>>
OwnSlug(t, r) == <<t, r>>
Slug == Title \X (Raw \cup {0})

\* ai_confidence in hundredths: 0.9 from a COMPLETED enrichment (the default
\* of category_confidence), 95.0 from the heuristic fallback.
Completed == 90
Heuristic == 9500
Enriched == 9900

Article == [raw : Raw, slug : Slug, confidence : {Completed, Heuristic}]
NoArticle == [raw |-> 0, slug |-> <<>>, confidence |-> 0]
Id == 1..MaxArticles
Stored == {a \in Id : article[a] # NoArticle}

\* What a planner has selected; what a run has loaded (its title as a slug),
\* looked up and flushed; what a replay has still to replay, and what it has
\* loaded.
Plan == [pc : {"idle", "fresh", "stale"}, fresh : SUBSET Raw, claimed : SUBSET Raw,
         toSend : SUBSET Raw]
Run == [pc : {"idle", "loaded", "slug", "enriched", "found", "flushed"},
        raw : Raw \cup {0}, loaded : Status, slug : Slug \cup {<<>>},
        ai : {"none", "kept", "completed", "heuristic"}, target : Id \cup {0},
        seen : Article \cup {NoArticle}]
Replay == [pc : {"idle", "claimed", "extracting", "passed"}, todo : SUBSET Raw,
           raw : Raw \cup {0}, loaded : Status, retries : Nat]

\* What the next commit of a session writes: rows, events, raw articles to be
\* processed with the status they were loaded with; and which rows are those
\* of runs that raised an exception (history).
Session == [rows : [Id -> Article \cup {NoArticle}], events : SUBSET Id,
            done : SUBSET (Raw \X Status), left : SUBSET Id]

IdlePlan == [pc |-> "idle", fresh |-> {}, claimed |-> {}, toSend |-> {}]
IdleRun == [pc |-> "idle", raw |-> 0, loaded |-> "absent", slug |-> <<>>,
            ai |-> "none", target |-> 0, seen |-> NoArticle]
IdleReplay == [pc |-> "idle", todo |-> {}, raw |-> 0, loaded |-> "absent", retries |-> 0]
NewSession == [rows |-> [a \in Id |-> NoArticle], events |-> {}, done |-> {}, left |-> {}]

TypeOK ==
    /\ status \in [Raw -> Status]
    /\ retries \in [Raw -> Nat]
    /\ stale \in [Raw -> BOOLEAN]
    /\ title \in [Raw -> Title]
    /\ had \in [Raw -> SUBSET Title]
    /\ rawLock \in [Raw -> Planner \cup {Nobody}]
    /\ queue \in [Raw -> Nat]
    /\ article \in [Id -> Article \cup {NoArticle}]
    /\ published \in SUBSET Id
    /\ abandoned \in SUBSET Id
    /\ plan \in [Planner -> Plan]
    /\ run \in [Proc -> Run]
    /\ session \in [Proc -> Session]
    /\ todo \in [Api -> SUBSET Raw]
    /\ replay \in [Replayer -> Replay]
    /\ faults \in 0..MaxFaults
    /\ revisions \in 0..MaxRevisions

Init ==
    /\ status = [r \in Raw |-> "absent"]
    /\ retries = [r \in Raw |-> 0]
    /\ stale = [r \in Raw |-> FALSE]
    /\ title \in {t \in [Raw -> Title] : \A r \in Raw : t[r] \in TitlesOf[r]}
    /\ had = [r \in Raw |-> {title[r]}]
    /\ rawLock = [r \in Raw |-> Nobody]
    /\ queue = [r \in Raw |-> 0]
    /\ article = [a \in Id |-> NoArticle]
    /\ published = {}
    /\ abandoned = {}
    /\ plan = [p \in Planner |-> IdlePlan]
    /\ run = [p \in Proc |-> IdleRun]
    /\ session = [p \in Proc |-> NewSession]
    /\ todo = [p \in Api |-> {}]
    /\ replay = [x \in Replayer |-> IdleReplay]
    /\ faults = 0
    /\ revisions = 0

-----------------------------------------------------------------------------
(* Crawls.                                                                 *)

\* A new feed item is stored with its title, eligible for the AI or filtered.
Ingest(r) ==
    /\ status[r] = "absent"
    /\ \E s \in {"fetched", "filtered"} : status' = [status EXCEPT ![r] = s]
    /\ UNCHANGED <<retries, stale, titles, rawLock, queue, store, plan, run,
                   session, todo, replay, faults, revisions>>

\* The title that was extracted with the text is stored with it.
Rename(r) ==
    \E t \in TitlesOf[r] : /\ title' = [title EXCEPT ![r] = t]
                          /\ had' = [had EXCEPT ![r] = @ \cup {t}]

\* The crawl of a stored article, whatever its status: it finds another text,
\* or rejects the same one again.  The status is not written if it is what
\* the crawl loaded.
Revise(r) ==
    /\ status[r] # "absent"
    /\ rawLock[r] = Nobody
    /\ revisions < MaxRevisions
    /\ revisions' = revisions + 1
    /\ \E s \in {"fetched", "filtered", status[r]} :
        status' = [status EXCEPT ![r] = s]
    /\ stale' = [stale EXCEPT ![r] = FALSE]
    /\ \/ Rename(r)
       \/ status'[r] \in {"filtered", status[r]} /\ UNCHANGED titles
    /\ UNCHANGED <<retries, rawLock, queue, store, plan, run, session, todo,
                   replay, faults>>

-----------------------------------------------------------------------------
(* The planner: queue what was fetched, recover what timed out.            *)

AtMost(n, S) == {T \in SUBSET S :
                    Cardinality(T) = IF Cardinality(S) < n THEN Cardinality(S) ELSE n}

\* enqueue_fresh_articles, the query: the most credible sources first.  The
\* rows are not locked and "ai_queued" stays in memory until the commit.
SelectFresh(p) ==
    /\ plan[p].pc = "idle"
    /\ \E F \in AtMost(EnqueueLimit, {r \in Raw : status[r] = "fetched"}) :
        plan' = [plan EXCEPT ![p] = [pc |-> "fresh", fresh |-> F, claimed |-> {},
                                     toSend |-> F]]
    /\ UNCHANGED <<rawVars, rawLock, queue, store, run, session, todo, replay,
                   faults, revisions>>

\* process_raw_article_task.delay: the message is out before the commit.
Send(p) ==
    /\ \E r \in plan[p].toSend :
        /\ queue' = [queue EXCEPT ![r] = @ + 1]
        /\ plan' = [plan EXCEPT ![p].toSend = @ \ {r}]
    /\ UNCHANGED <<rawVars, rawLock, store, run, session, todo, replay, faults,
                   revisions>>

\* Mutant: one attempt less.
ExhaustedEarly(r) == retries[r] + 1 >= MaxRetries

Exhausted(r) == retries[r] >= MaxRetries

\* Mutant: nothing is recovered.
ClaimStaleNone(p) ==
    /\ plan[p].pc = "fresh"
    /\ plan[p].toSend = {}
    /\ plan' = [plan EXCEPT ![p].pc = "stale"]
    /\ UNCHANGED <<rawVars, rawLock, queue, store, run, session, todo, replay,
                   faults, revisions>>

\* recover_stale_ai_jobs, the query: FOR UPDATE SKIP LOCKED.
ClaimStale(p) ==
    /\ plan[p].pc = "fresh"
    /\ plan[p].toSend = {}
    /\ \E S \in AtMost(RecoverLimit, {r \in Raw : /\ status[r] = "ai_queued"
                                                  /\ stale[r]
                                                  /\ rawLock[r] = Nobody}) :
        /\ rawLock' = [r \in Raw |-> IF r \in S THEN p ELSE rawLock[r]]
        /\ plan' = [plan EXCEPT ![p] = [@ EXCEPT !.pc = "stale", !.claimed = S,
                                              !.toSend = {r \in S : ~Exhausted(r)}]]
    /\ UNCHANGED <<rawVars, queue, store, run, session, todo, replay, faults,
                   revisions>>

\* The commit writes every change at once; it waits for other sessions' locks.
CommitPlan(p) ==
    LET F == plan[p].fresh
        C == plan[p].claimed
    IN  /\ plan[p].pc = "stale"
        /\ plan[p].toSend = {}
        /\ \A r \in F : rawLock[r] \in {Nobody, p}
        /\ status' = [r \in Raw |-> IF r \in C /\ Exhausted(r) THEN "dead_letter"
                                    ELSE IF r \in F THEN "ai_queued" ELSE status[r]]
        /\ retries' = [r \in Raw |-> IF r \in C /\ ~Exhausted(r)
                                     THEN retries[r] + 1 ELSE retries[r]]
        /\ stale' = [r \in Raw |-> stale[r] /\ r \notin F \cup C]
        /\ rawLock' = [r \in Raw |-> IF rawLock[r] = p THEN Nobody ELSE rawLock[r]]
        /\ plan' = [plan EXCEPT ![p] = IdlePlan]
        /\ UNCHANGED <<titles, queue, store, run, session, todo, replay, faults,
                       revisions>>

\* A Redis or database error, or the worker's death: the messages stay sent.
PlannerFails(p) ==
    /\ plan[p].pc # "idle"
    /\ faults < MaxFaults
    /\ faults' = faults + 1
    /\ rawLock' = [r \in Raw |-> IF rawLock[r] = p THEN Nobody ELSE rawLock[r]]
    /\ plan' = [plan EXCEPT ![p] = IdlePlan]
    /\ UNCHANGED <<rawVars, queue, store, run, session, todo, replay,
                   revisions>>

\* Fifteen minutes without an update: a replay that loaded the row before it
\* was queued has been stopped by the time limit of five minutes.
TimeOut(r) ==
    /\ status[r] = "ai_queued"
    /\ ~stale[r]
    /\ \A x \in Replayer : replay[x].raw # r
    /\ stale' = [stale EXCEPT ![r] = TRUE]
    /\ UNCHANGED <<status, retries, titles, rawLock, queue, store, plan, run,
                   session, todo, replay, faults, revisions>>

-----------------------------------------------------------------------------
(* Pipeline runs: process_raw_article_to_editorial.                        *)

\* What session p sees of the table: its own changes too.
Written(p) == {a \in Id : session[p].rows[a] # NoArticle}
Seen(p, a) == IF a \in Written(p) THEN session[p].rows[a] ELSE article[a]
Visible(p) == Stored \cup Written(p)

Begin(p, r) ==
    run' = [run EXCEPT ![p] = [IdleRun EXCEPT !.pc = "loaded", !.raw = r,
                                   !.loaded = status[r], !.slug = BaseSlug(title[r])]]

\* Mutant: a message that was removed is handled again.
ReceiveAgain(p) ==
    /\ run[p].pc = "idle"
    /\ \E r \in Raw :
        /\ status[r] # "absent"
        /\ queue' = [queue EXCEPT ![r] = @ - 1]
        /\ Begin(p, r)
    /\ UNCHANGED <<rawVars, rawLock, store, plan, session, todo, replay, faults,
                   revisions>>

\* A Celery worker takes a message; the status of the row is not looked at.
Receive(p) ==
    /\ run[p].pc = "idle"
    /\ \E r \in Raw :
        /\ queue[r] > 0
        /\ queue' = [queue EXCEPT ![r] = @ - 1]
        /\ Begin(p, r)
    /\ UNCHANGED <<rawVars, rawLock, store, plan, session, todo, replay, faults,
                   revisions>>

\* AutoReplenishmentService: the API process selects what it will process ...
Replenish(p) ==
    /\ run[p].pc = "idle"
    /\ todo[p] = {}
    /\ session[p] = NewSession
    /\ todo' = [todo EXCEPT ![p] = {r \in Raw : status[r] \in {"fetched", "ai_queued"}}]
    /\ UNCHANGED <<rawVars, rawLock, queue, store, plan, run, session, replay,
                   faults, revisions>>

\* ... and runs the pipeline on each, the newest first.
RunInline(p) ==
    /\ run[p].pc = "idle"
    /\ \E r \in todo[p] :
        /\ \A q \in todo[p] : q <= r
        /\ todo' = [todo EXCEPT ![p] = @ \ {r}]
        /\ Begin(p, r)
    /\ UNCHANGED <<rawVars, rawLock, queue, store, plan, session, replay, faults,
                   revisions>>

\* db.commit() of a session with what s holds: the rows and the events, the
\* status unless it is what was loaded.  It waits for other sessions' locks.
Commit(p, s) ==
    /\ \A d \in s.done : rawLock[d[1]] = Nobody
    /\ article' = [a \in Id |-> IF s.rows[a] # NoArticle THEN s.rows[a] ELSE article[a]]
    /\ published' = published \cup s.events
    /\ abandoned' = abandoned \cup s.left
    /\ session' = [session EXCEPT ![p] = NewSession]
Processed(s) == [r \in Raw |-> IF \E d \in s.done : d[1] = r /\ d[2] # "processed"
                               THEN "processed" ELSE status[r]]
Fresh(s) == [r \in Raw |-> stale[r] /\ \A d \in s.done : d[1] # r]

\* No text: dead letter.
Reject(p) ==
    LET r == run[p].raw
        s == session[p]
    IN  /\ run[p].pc = "loaded"
        /\ r \in Unparseable
        /\ rawLock[r] = Nobody
        /\ Commit(p, s)
        /\ status' = [Processed(s) EXCEPT ![r] = IF run[p].loaded = "dead_letter"
                                                 THEN @ ELSE "dead_letter"]
        /\ stale' = [Fresh(s) EXCEPT ![r] = FALSE]
        /\ run' = [run EXCEPT ![p] = IdleRun]
        /\ UNCHANGED <<retries, titles, rawLock, queue, plan, todo, replay, faults,
                       revisions>>

\* The slug of the title, unless another raw article's row has it.
ChooseSlug(p) ==
    LET r == run[p].raw
        t == run[p].slug[1]
    IN  /\ run[p].pc = "loaded"
        /\ r \notin Unparseable
        /\ run' = [run EXCEPT ![p] = [@ EXCEPT !.pc = "slug",
                      !.slug = IF \E a \in Visible(p) : /\ Seen(p, a).slug = BaseSlug(t)
                                                       /\ Seen(p, a).raw # r
                               THEN OwnSlug(t, r) ELSE BaseSlug(t)]]
        /\ UNCHANGED <<rawVars, rawLock, queue, store, plan, session, todo, replay,
                       faults, revisions>>

\* The idempotency check before the AI is called: a row of this raw article
\* with the confidence of an enrichment, whose job history then decides.
MaybeEnriched(p, r) ==
    \E a \in Visible(p) : Seen(p, a).raw = r /\ Seen(p, a).confidence = Enriched

\* enrich_raw_article: COMPLETED, or the heuristics because it failed or is
\* switched off.
Enrich(p) ==
    /\ run[p].pc = "slug"
    /\ \E ai \in {"completed", "heuristic"} \cup
                 (IF MaybeEnriched(p, run[p].raw) THEN {"kept"} ELSE {}) :
        run' = [run EXCEPT ![p] = [@ EXCEPT !.pc = "enriched", !.ai = ai]]
    /\ UNCHANGED <<rawVars, rawLock, queue, store, plan, session, todo, replay, faults,
                   revisions>>

\* The row to write: one of this raw article, or one with either slug.
Lookup(p) ==
    LET r == run[p].raw
        S == {BaseSlug(run[p].slug[1]), run[p].slug}
        Found == {a \in Visible(p) : Seen(p, a).raw = r \/ Seen(p, a).slug \in S}
    IN  /\ run[p].pc = "enriched"
        /\ \E a \in IF Found = {} THEN {0} ELSE Found :
            run' = [run EXCEPT ![p] = [@ EXCEPT !.pc = "found", !.target = a,
                               !.seen = IF a = 0 THEN NoArticle ELSE Seen(p, a)]]
        /\ UNCHANGED <<rawVars, rawLock, queue, store, plan, session, todo, replay,
                       faults, revisions>>

\* Ids are taken from a sequence when the INSERT is flushed.
Flushed(p) == run[p].pc = "flushed"
FreeIds == {a \in Id \ Stored : \A q \in Proc : a \notin Written(q)}
FreshIds == {a \in FreeIds : \A b \in FreeIds : a <= b}

\* What p's UPDATE makes of the row: only the columns that differ from what
\* it loaded are written.
Changed(seen, new, now) == IF seen = new THEN now ELSE new
NewConfidence(p) ==
    CASE run[p].ai = "kept" -> Enriched
      [] run[p].ai = "completed" -> Completed
      [] OTHER -> Heuristic
NewRow(p, a) ==
    [raw |-> Changed(run[p].seen.raw, run[p].raw, Seen(p, a).raw),
     slug |-> Changed(run[p].seen.slug, run[p].slug, Seen(p, a).slug),
     confidence |-> Changed(run[p].seen.confidence, NewConfidence(p),
                            Seen(p, a).confidence)]

\* Another session has written the row, or holds or gives up the slug.
MustWait(p, a, slug) ==
    \E q \in Proc \ {p} : \E b \in Written(q) :
        a = b \/ slug \in {session[q].rows[b].slug, article[b].slug}

\* Mutant: no unique index on the slug.
TakenNever(p, a, slug) == FALSE

\* The unique index on the slug.
Taken(p, a, slug) == \E b \in Visible(p) \ {a} : Seen(p, b).slug = slug

\* db.flush(): INSERT or UPDATE, not committed.
Flush(p) ==
    /\ run[p].pc = "found"
    /\ \E a \in IF run[p].target = 0 THEN FreshIds ELSE {run[p].target} :
        LET row == NewRow(p, a) IN
        /\ ~MustWait(p, a, row.slug)
        /\ ~Taken(p, a, row.slug)
        /\ run' = [run EXCEPT ![p] = [@ EXCEPT !.pc = "flushed", !.target = a]]
        /\ session' = [session EXCEPT ![p].rows[a] = row]
    /\ UNCHANGED <<rawVars, rawLock, queue, store, plan, todo, replay, faults,
                   revisions>>

\* A session that cannot be used any more: its transaction is rolled back,
\* and whatever is left of an API process's list fails with it.
LoseSession(p) ==
    /\ run' = [run EXCEPT ![p] = IdleRun]
    /\ session' = [session EXCEPT ![p] = NewSession]
    /\ todo' = [q \in Api |-> IF q = p THEN {} ELSE todo[q]]
    /\ UNCHANGED <<rawVars, rawLock, queue, store, plan, replay, revisions>>

\* The slug went to another row since the lookup: IntegrityError.
FlushConflict(p) ==
    /\ run[p].pc = "found"
    /\ \E a \in IF run[p].target = 0 THEN FreshIds ELSE {run[p].target} :
        LET row == NewRow(p, a) IN ~MustWait(p, a, row.slug) /\ Taken(p, a, row.slug)
    /\ LoseSession(p)
    /\ UNCHANGED faults

\* Mutant: the status and the event are committed before the article.
CommitRunEarly(p) ==
    LET s == [session[p] EXCEPT !.done = @ \cup {<<run[p].raw, run[p].loaded>>}] IN
    /\ run[p].pc = "enriched"
    /\ Commit(p, s)
    /\ status' = Processed(s)
    /\ stale' = Fresh(s)
    /\ run' = [run EXCEPT ![p] = IdleRun]
    /\ UNCHANGED <<retries, titles, rawLock, queue, plan, todo, replay, faults,
                   revisions>>

\* Mutant: the article is committed without its outbox row.
CommitRunSilently(p) ==
    LET s == [session[p] EXCEPT !.done = @ \cup {<<run[p].raw, run[p].loaded>>}] IN
    /\ run[p].pc = "flushed"
    /\ Commit(p, s)
    /\ status' = Processed(s)
    /\ stale' = Fresh(s)
    /\ run' = [run EXCEPT ![p] = IdleRun]
    /\ UNCHANGED <<retries, titles, rawLock, queue, plan, todo, replay, faults,
                   revisions>>

\* One commit: the article, the ArticlePublished event, its read model and the
\* status, and what earlier runs have left in the session.
CommitRun(p) ==
    LET s == [session[p] EXCEPT !.events = @ \cup {run[p].target},
                                !.done = @ \cup {<<run[p].raw, run[p].loaded>>}]
    IN  /\ run[p].pc = "flushed"
        /\ Commit(p, s)
        /\ status' = Processed(s)
        /\ stale' = Fresh(s)
        /\ run' = [run EXCEPT ![p] = IdleRun]
        /\ UNCHANGED <<retries, titles, rawLock, queue, plan, todo, replay, faults,
                       revisions>>

\* The end of an API process's list: what runs have left is committed.
CommitRest(p) ==
    /\ run[p].pc = "idle"
    /\ todo[p] = {}
    /\ session[p] # NewSession
    /\ Commit(p, session[p])
    /\ status' = Processed(session[p])
    /\ stale' = Fresh(session[p])
    /\ UNCHANGED <<retries, titles, rawLock, queue, plan, run, todo, replay, faults,
                   revisions>>

\* Telemetry that cannot be stored is rolled back by the run itself, with all
\* that the session had not committed.
RunRollsBack(p) ==
    /\ run[p].pc \in {"found", "flushed"}
    /\ faults < MaxFaults
    /\ faults' = faults + 1
    /\ run' = [run EXCEPT ![p] = IdleRun]
    /\ session' = [session EXCEPT ![p] = NewSession]
    /\ UNCHANGED <<rawVars, rawLock, queue, store, plan, todo, replay, revisions>>

\* An exception in an inline run, or its early return for a stale revision: it
\* is logged, and the list goes on in the same session.  The row stays as it
\* was flushed, the status is "processed" from 926 on, the event is added
\* after that.  (An existing row that was changed and not yet flushed is
\* flushed with the next run or commit: taken as flushed.)
RunRaises(p) ==
    /\ p \in Api
    /\ run[p].pc # "idle"
    /\ faults < MaxFaults
    /\ faults' = faults + 1
    /\ run' = [run EXCEPT ![p] = IdleRun]
    /\ LET done == {<<run[p].raw, run[p].loaded>>}
           id == {run[p].target}
       IN  \/ ~Flushed(p) /\ UNCHANGED session
           \/ /\ Flushed(p)
              /\ \E s \in {[session[p] EXCEPT !.left = @ \cup id],
                          [session[p] EXCEPT !.left = @ \cup id, !.done = @ \cup done],
                          [session[p] EXCEPT !.events = @ \cup id, !.done = @ \cup done]} :
                    session' = [session EXCEPT ![p] = s]
    /\ UNCHANGED <<rawVars, rawLock, queue, store, plan, todo, replay, revisions>>

\* Any exception in a worker; in an API process an error of the database, which
\* ends the deadlock of two sessions too, or its death.
RunFails(p) ==
    /\ run[p].pc # "idle" \/ session[p] # NewSession \/ (p \in Api /\ todo[p] # {})
    /\ faults < MaxFaults
    /\ faults' = faults + 1
    /\ LoseSession(p)

-----------------------------------------------------------------------------
(* Replays of filtered articles.                                           *)

\* autonomous_ingestion_recovery: claim with FOR UPDATE SKIP LOCKED, commit.
ClaimFiltered(x) ==
    /\ replay[x].pc = "idle"
    /\ \E S \in SUBSET {r \in Raw : /\ status[r] = "filtered"
                                    /\ retries[r] < MaxRetries
                                    /\ rawLock[r] = Nobody} :
        /\ S # {}
        /\ status' = [r \in Raw |-> IF r \in S THEN "recovering" ELSE status[r]]
        /\ replay' = [replay EXCEPT ![x] = [@ EXCEPT !.pc = "claimed", !.todo = S]]
    /\ UNCHANGED <<retries, stale, titles, rawLock, queue, store, plan, run,
                   session, todo, faults, revisions>>

\* replay_filtered_articles: an administrator's selection, not claimed.
SelectFiltered(x) ==
    /\ replay[x].pc = "idle"
    /\ \E S \in SUBSET {r \in Raw : status[r] = "filtered"} :
        /\ S # {}
        /\ replay' = [replay EXCEPT ![x] = [@ EXCEPT !.pc = "claimed", !.todo = S]]
    /\ UNCHANGED <<rawVars, rawLock, queue, store, plan, run, session, todo,
                   faults, revisions>>

\* Mutant: what the recovery has claimed may not be replayed.
LoadReplayFiltered(x) ==
    /\ replay[x].pc = "claimed"
    /\ \E r \in replay[x].todo :
        replay' = [replay EXCEPT
            ![x] = IF status[r] = "filtered"
                   THEN [pc |-> "extracting", todo |-> replay[x].todo \ {r}, raw |-> r,
                         loaded |-> status[r], retries |-> retries[r]]
                   ELSE [replay[x] EXCEPT !.todo = replay[x].todo \ {r}]]
    /\ UNCHANGED <<rawVars, rawLock, queue, store, plan, run, session, todo,
                   faults, revisions>>

\* _replay_article_async: load the row, skip it unless it may be replayed.
LoadReplay(x) ==
    /\ replay[x].pc = "claimed"
    /\ \E r \in replay[x].todo :
        replay' = [replay EXCEPT
            ![x] = IF status[r] \in {"filtered", "recovering"}
                   THEN [pc |-> "extracting", todo |-> replay[x].todo \ {r}, raw |-> r,
                         loaded |-> status[r], retries |-> retries[r]]
                   ELSE [replay[x] EXCEPT !.todo = replay[x].todo \ {r}]]
    /\ UNCHANGED <<rawVars, rawLock, queue, store, plan, run, session, todo,
                   faults, revisions>>

ReplayDone(x) ==
    /\ replay[x].pc = "claimed"
    /\ replay[x].todo = {}
    /\ replay' = [replay EXCEPT ![x] = IdleReplay]
    /\ UNCHANGED <<rawVars, rawLock, queue, store, plan, run, session, todo,
                   faults, revisions>>

\* The page is extracted again, with its title, and passes: commit ...
ReplayPasses(x) ==
    LET r == replay[x].raw
    IN  /\ replay[x].pc = "extracting"
        /\ rawLock[r] = Nobody
        /\ status' = [status EXCEPT ![r] = "fetched"]
        /\ stale' = [stale EXCEPT ![r] = FALSE]
        /\ Rename(r)
        /\ replay' = [replay EXCEPT ![x].pc = "passed"]
        /\ UNCHANGED <<retries, rawLock, queue, store, plan, run, session, todo,
                       faults, revisions>>

\* ... and then the message.
SendReplay(x) ==
    /\ replay[x].pc = "passed"
    /\ queue' = [queue EXCEPT ![replay[x].raw] = @ + 1]
    /\ replay' = [replay EXCEPT
            ![x] = [IdleReplay EXCEPT !.pc = "claimed", !.todo = replay[x].todo]]
    /\ UNCHANGED <<rawVars, rawLock, store, plan, run, session, todo, faults,
                   revisions>>

\* Mutant: off by one.
LastReplayLate(x) == replay[x].retries + 1 > MaxRetries

LastReplay(x) == replay[x].retries + 1 >= MaxRetries

\* It fails again: one retry more, counted from what was loaded; "filtered"
\* is not written over "filtered".
ReplayFiltered(x) ==
    LET r == replay[x].raw
    IN  /\ replay[x].pc = "extracting"
        /\ rawLock[r] = Nobody
        /\ retries' = [retries EXCEPT ![r] = replay[x].retries + 1]
        /\ status' = [status EXCEPT ![r] = IF LastReplay(x) THEN "dead_letter"
                                           ELSE IF replay[x].loaded = "filtered" THEN @
                                           ELSE "filtered"]
        /\ stale' = [stale EXCEPT ![r] = FALSE]
        /\ Rename(r)
        /\ replay' = [replay EXCEPT
            ![x] = [IdleReplay EXCEPT !.pc = "claimed", !.todo = replay[x].todo]]
        /\ UNCHANGED <<rawLock, queue, store, plan, run, session, todo, faults,
                       revisions>>

\* An exception or the worker's death ends the whole replay.
ReplayFails(x) ==
    /\ replay[x].pc # "idle"
    /\ faults < MaxFaults
    /\ faults' = faults + 1
    /\ replay' = [replay EXCEPT ![x] = IdleReplay]
    /\ UNCHANGED <<rawVars, rawLock, queue, store, plan, run, session, todo,
                   revisions>>

-----------------------------------------------------------------------------
PlannerStep(p) == SelectFresh(p) \/ Send(p) \/ ClaimStale(p) \/ CommitPlan(p)

RunStep(p) ==
    Reject(p) \/ ChooseSlug(p) \/ Enrich(p) \/ Lookup(p) \/ Flush(p) \/
    FlushConflict(p) \/ CommitRun(p)

ReplayStep(x) ==
    LoadReplay(x) \/ ReplayDone(x) \/ ReplayPasses(x) \/ SendReplay(x) \/ ReplayFiltered(x)

Next ==
    \/ \E r \in Raw : Ingest(r) \/ Revise(r) \/ TimeOut(r)
    \/ \E p \in Planner : PlannerStep(p) \/ PlannerFails(p)
    \/ \E p \in Celery : Receive(p)
    \/ \E p \in Api : Replenish(p) \/ RunInline(p) \/ CommitRest(p)
    \/ \E p \in Proc : RunStep(p) \/ RunRollsBack(p) \/ RunRaises(p) \/ RunFails(p)
    \/ \E x \in Replayer :
        ClaimFiltered(x) \/ SelectFiltered(x) \/ ReplayStep(x) \/ ReplayFails(x)

Spec == Init /\ [][Next]_vars

\* Beat starts the planner every five minutes and the recovery of filtered
\* articles every hour, workers take messages, what runs goes on, time passes.
Fairness ==
    /\ \A p \in Planner : WF_vars(PlannerStep(p))
    /\ \A p \in Celery : WF_vars(Receive(p))
    /\ \A p \in Proc : WF_vars(RunStep(p))
    /\ \A x \in Replayer : WF_vars(ClaimFiltered(x)) /\ WF_vars(ReplayStep(x))
    /\ \A r \in Raw : WF_vars(TimeOut(r))

FairSpec == Spec /\ Fairness

-----------------------------------------------------------------------------
\* No other raw article has ever had a title of r's.
OnlyTitle(r) == \A q \in Raw \ {r} : had[q] \cap had[r] = {}

\* The transactional outbox: whatever fails in between, no ArticlePublished
\* event is committed without its article, and no article without its event,
\* but for what an inline run had flushed when it raised an exception: the
\* next commit of the session stores that alone.
PublishedTogether == published \subseteq Stored /\ Stored \subseteq published \cup abandoned

\* A raw article whose titles no other has had is "processed" only when its
\* article is stored.
ProcessedHasArticle ==
    \A r \in Raw : status[r] = "processed" /\ OnlyTitle(r) =>
        \E a \in Stored : article[a].raw = r

\* However often its message is sent, and whether Celery workers and API
\* processes run it at the same time, such a raw article has at most one
\* article for each title that it has had: one, unless a crawl or a replay
\* has changed the title between two runs.
OneArticle ==
    \A r \in Raw : OnlyTitle(r) =>
        Cardinality({a \in Stored : article[a].raw = r}) <= Cardinality(had[r])

\* An article with text is given up only when its retries are used up, by the
\* planner's timeouts and the replays together.
GivenUpExhausted ==
    \A r \in Raw \ Unparseable : status[r] = "dead_letter" => retries[r] >= MaxRetries

\* Timeouts and replays share one budget and write it from different copies:
\* it is exceeded only by a crawl that filters a given up article again.
RetryBudget ==
    \A r \in Raw : retries[r] <= MaxRetries + revisions

\* No article waits for the AI for ever, though messages are lost with the
\* runs that took them: it is processed, given up or filtered again.
QueuedLeaves ==
    \A r \in Raw : status[r] \in {"fetched", "ai_queued"} ~>
                   status[r] \notin {"fetched", "ai_queued"}

\* What the recovery of filtered articles has claimed is in the hands of a
\* replay until its status changes again, unless something failed.
ClaimedIsHeld ==
    \A r \in Raw : status[r] = "recovering" =>
        (\E x \in Replayer : r \in replay[x].todo \/ replay[x].raw = r) \/ faults > 0

-----------------------------------------------------------------------------
(* Why they hold.                                                          *)

\* A run has its raw article and a slug of it, and then the row it is to
\* write; nothing is ever enriched twice as the idempotency check means.
RunOK ==
    \A p \in Proc :
        /\ IF run[p].pc = "idle" THEN run[p] = IdleRun
           ELSE run[p].raw \in Raw /\ run[p].slug \in Slug
        /\ run[p].ai # "kept"
        /\ run[p].pc = "found" =>
              IF run[p].target = 0 THEN run[p].seen = NoArticle
              ELSE run[p].target \in Visible(p) /\ run[p].seen \in Article
        /\ Flushed(p) => run[p].target \in Written(p)

ReplayOK ==
    \A x \in Replayer :
        /\ replay[x].pc \in {"extracting", "passed"} <=> replay[x].raw # 0
        /\ replay[x].pc = "idle" => replay[x].todo = {}

\* No two rows that a session sees have the same slug, and no two sessions
\* have written the same row.
SlugsApart ==
    /\ \A a, b \in Stored : article[a].slug = article[b].slug => a = b
    /\ \A p \in Proc : \A a \in Written(p), b \in Visible(p) :
          Seen(p, a).slug = Seen(p, b).slug => a = b
    /\ \A p \in Proc : \A q \in Proc \ {p} : \A a \in Written(p), b \in Written(q) :
          a # b /\ session[p].rows[a].slug # session[q].rows[b].slug

\* Slugs are of titles that some raw article has had, a run's of its own.
TitlesKept ==
    /\ \A r \in Raw : title[r] \in had[r] /\ had[r] \subseteq TitlesOf[r]
    /\ \A a \in Stored : \E r \in Raw : article[a].slug[1] \in had[r]
    /\ \A p \in Proc : \A a \in Written(p) :
          \E r \in Raw : session[p].rows[a].slug[1] \in had[r]
    /\ \A p \in Proc : run[p].pc # "idle" => run[p].slug[1] \in had[run[p].raw]

\* The rows of a raw article whose titles no other has had are those with the
\* plain slug of a title of it; only its runs write them, and no others.
Own(r, row) ==
    /\ row.raw = r <=> row.slug[1] \in had[r]
    /\ row.raw = r => row.slug[2] = 0
OwnTitleSlug ==
    \A r \in Raw : OnlyTitle(r) =>
        /\ \A a \in Stored : Own(r, article[a])
        /\ \A p \in Proc : \A a \in Written(p) :
              /\ Own(r, session[p].rows[a])
              /\ a \in Stored => (article[a].raw = r <=> session[p].rows[a].raw = r)
        /\ \A p \in Proc :
              /\ run[p].raw = r => run[p].slug[2] = 0
              /\ run[p].pc \in {"found", "flushed"} /\ run[p].target # 0 =>
                    (Seen(p, run[p].target).raw = r <=> run[p].raw = r)

ArticleInv == RunOK /\ SlugsApart /\ TitlesKept /\ OwnTitleSlug

\* A session's event is about a row it has written; every other row it has
\* written is one that a run is still to announce or has left behind.
EventsOK ==
    \A p \in Proc :
        /\ session[p].events \subseteq Written(p)
        /\ \A a \in Written(p) : \/ a \in session[p].events \cup session[p].left
                                 \/ Flushed(p) /\ a = run[p].target

\* A raw article that a session is to make "processed" has a row in it.
DoneOK ==
    \A p \in Proc : \A d \in session[p].done :
        OnlyTitle(d[1]) => \E a \in Written(p) : session[p].rows[a].raw = d[1]

\* What a planner has claimed is locked, has timed out and waits for the AI;
\* only what waits for the AI times out, and not while it is replayed.
ClaimedIsLocked ==
    /\ \A p \in Planner : \A r \in plan[p].claimed :
          rawLock[r] = p /\ status[r] = "ai_queued" /\ stale[r]
    /\ \A r \in Raw : stale[r] =>
          status[r] = "ai_queued" /\ \A x \in Replayer : replay[x].raw # r

\* Only a crawl filters an article whose retries are used up.
FilteredInBudget ==
    /\ \A r \in Raw : status[r] \in {"absent", "filtered", "recovering"} =>
                         retries[r] < MaxRetries + revisions
    /\ \A x \in Replayer : replay[x].pc = "extracting" =>
                              replay[x].retries < MaxRetries + revisions

\* A replay that is the only one holds nothing that has been given up.
ReplayedIsOpen ==
    \A x \in Replayer : replay[x].pc = "extracting" =>
        replay[x].raw \in Unparseable \/ status[replay[x].raw] # "dead_letter"

\* The replay that has it will write its status.
ClaimedHeldFirmly ==
    \A r \in Raw : status[r] = "recovering" =>
        \/ faults > 0
        \/ \E x \in Replayer :
              \/ r \in replay[x].todo
              \/ /\ replay[x].pc = "extracting" /\ replay[x].raw = r
                 /\ replay[x].loaded = "recovering"

-----------------------------------------------------------------------------
(* What the comments say, and the code does not (README, divergences).     *)

\* The idempotency check: the AI is not called again for an article whose
\* enrichment from the same input is COMPLETED.
NoRepeatedCall ==
    [][\A p \in Proc :
          run[p].pc = "slug" /\ run'[p].pc = "enriched" /\ run'[p].ai = "completed" =>
              ~\E a \in Stored : /\ article[a].raw = run[p].raw
                                /\ article[a].confidence = Completed]_vars

\* The transactional outbox: an article and its event are committed together.
AlwaysAnnounced == Stored \subseteq published

\* A raw article whose titles no other has had has one article.
SingleArticle ==
    \A r \in Raw : OnlyTitle(r) =>
        Cardinality({a \in Stored : article[a].raw = r}) <= 1

\* The recovery of filtered articles retries what it claimed.
ClaimedRetried ==
    \A r \in Raw : (status[r] = "recovering") ~> (status[r] # "recovering")

=============================================================================
