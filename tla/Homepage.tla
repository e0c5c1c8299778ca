------------------------------ MODULE Homepage ------------------------------
(***************************************************************************)
(* The ranked homepage: projections that are rebuilt from the published    *)
(* articles (app/editorial/homepage_builder.py), the ranking that Redis    *)
(* caches, the readers that check the one against the other and rebuild    *)
(* what is stale (app/api/v1/routes/news.py, list_articles) and the        *)
(* expiration of articles (app/services/ranking/news_ranking_engine.py).   *)
(*                                                                         *)
(* Each query, commit and Redis command is a step of its own.  The lock    *)
(* around a reader's rebuild is not in the state: __aenter__ drops what    *)
(* acquire returns (core/redis.py:107-109), so that nobody ever waits.     *)
(* Only the latest projection is ever read.  A copy or a cached ranking    *)
(* remembers a projection's identity and version; what the code asks of    *)
(* them is whether that projection is still the latest, and the model      *)
(* keeps the answer.                                                       *)
(***************************************************************************)
EXTENDS Integers, FiniteSets

CONSTANTS
    Article,
    Reader,      \* requests of the homepage
    Refresher,   \* tasks, endpoints and event handlers that rebuild it
    ShortLived,  \* articles that a policy with maximum_ttl_hours < 24 stored
    MinStories,  \* what a reader accepts from a projection (8)
    Floor,       \* minimum_article_floor
    MaxStories,  \* MAX_HOMEPAGE_ARTICLES
    MaxFaults    \* bound: failing Redis commands, failing builds and deaths

ASSUME ShortLivedAssumption == ShortLived \subseteq Article
ASSUME BoundAssumption ==
    /\ MinStories \in Nat /\ Floor \in Nat \ {0} /\ MaxStories \in Nat \ {0}
    /\ MaxFaults \in Nat
ASSUME DisjointAssumption == Reader \cap Refresher = {}

VARIABLES
    life,     \* what is_expired, expires_at and the age say of an article
    latest,   \* stories of the homepage_projections row with the last created_at
    ranking,  \* the ranking in Redis (editorial:...), with its projection's identity
    proc,     \* readers and refreshers
    faults

vars == <<life, latest, ranking, proc, faults>>

Process == Reader \cup Refresher

\* current: its projection is still the latest one.
Listing == [ids : SUBSET Article, current : BOOLEAN]
None == [ids |-> {}, current |-> FALSE]

\* entry: what was read of the cache or of the latest projection; ids: what
\* was selected or resolved; since: history, the articles that have been
\* expired from the request's start on; bare: no article of the last day was found.
State == [pc : {"idle", "ranking", "identity", "checkRanking", "projection", "checkStories",
                "store", "invalidate", "expire", "select", "compare", "insert", "clear",
                "meta", "served"},
          entry : Listing, ids : SUBSET Article, since : SUBSET Article, bare : BOOLEAN]
Idle == [pc |-> "idle", entry |-> None, ids |-> {}, since |-> {}, bare |-> FALSE]

TypeOK ==
    /\ life \in [Article -> {"unpublished", "fresh", "aged", "due", "expired"}]
    /\ latest \in SUBSET Article
    /\ ranking \in Listing
    /\ proc \in [Process -> State]
    /\ latest = {} => ~ranking.current /\ \A p \in Process : ~proc[p].entry.current
    /\ faults \in 0..MaxFaults

Init ==
    /\ life = [a \in Article |-> "unpublished"]
    /\ latest = {}
    /\ ranking = None
    /\ proc = [p \in Process |-> Idle]
    /\ faults = 0

InLife(s) == {a \in Article : life[a] \in s}

\* fresh: of the last 24 hours; aged: older, but expires_at, which the
\* policy sets 72 hours after the publication, is not reached; due: it is;
\* expired: marked by an expiration.
Fresh == InLife({"fresh"})
Aged == InLife({"aged"})
Expired == InLife({"due", "expired"})
Published == InLife({"fresh", "aged", "due", "expired"})

Goto(p, r) == proc' = [proc EXCEPT ![p] = r]
GotoPc(p, pc) == Goto(p, [proc[p] EXCEPT !.pc = pc])
GotoRebuild(p) == Goto(p, [proc[p] EXCEPT !.pc = "invalidate", !.entry = None])

Stale(listing) == [ids |-> listing.ids, current |-> FALSE]

\* Another row, or none, is the latest: no copy is of the latest any more.
ReplaceLatest(ids) ==
    /\ latest' = ids
    /\ ranking' = Stale(ranking)
Outdated(procs) == [p \in Process |-> [procs[p] EXCEPT !.entry = Stale(@)]]

-----------------------------------------------------------------------------
(* A request of the homepage.                                              *)

\* Cards that were rendered less than five minutes ago are sent as they are;
\* the other requests come here.
BeginRequest(p) ==
    /\ proc[p].pc \in {"idle", "served"}
    /\ Goto(p, [Idle EXCEPT !.pc = "ranking", !.since = Expired])
    /\ UNCHANGED <<life, latest, ranking, faults>>

ReadRanking(p) ==
    /\ proc[p].pc = "ranking"
    /\ Goto(p, [proc[p] EXCEPT !.entry = ranking,
                               !.pc = IF ranking.ids = {} THEN "projection" ELSE "identity"])
    /\ UNCHANGED <<life, latest, ranking, faults>>

\* The cached ranking must be the latest projection's, which must not be
\* older than 24 hours.
CheckIdentity(p) ==
    /\ proc[p].pc = "identity"
    /\ \/ GotoRebuild(p)   \* another one, or too old
       \/ proc[p].entry.current /\ GotoPc(p, "checkRanking")
    /\ UNCHANGED <<life, latest, ranking, faults>>

\* Mutant: only the articles that the purge has marked are found.
AnyExpiredMarked(ids) == ids \cap InLife({"expired"}) # {}

AnyExpired(ids) == ids \cap Expired # {}

CheckRanking(p) ==
    /\ proc[p].pc = "checkRanking"
    /\ IF AnyExpired(proc[p].entry.ids) THEN GotoRebuild(p)
       ELSE Goto(p, [proc[p] EXCEPT !.pc = "served", !.ids = proc[p].entry.ids, !.entry = None])
    /\ UNCHANGED <<life, latest, ranking, faults>>

LatestCopy == [ids |-> latest, current |-> latest # {}]

ReadProjection(p) ==
    /\ proc[p].pc = "projection"
    /\ \/ GotoRebuild(p)   \* none, or older than 24 hours
       \/ /\ latest # {}
          /\ Goto(p, [proc[p] EXCEPT !.pc = "checkStories", !.entry = LatestCopy])
    /\ UNCHANGED <<life, latest, ranking, faults>>

CheckStories(p) ==
    /\ proc[p].pc = "checkStories"
    /\ LET stories == proc[p].entry.ids
       IN  IF AnyExpired(stories) \/ Cardinality(stories) < MinStories THEN GotoRebuild(p)
           ELSE Goto(p, [proc[p] EXCEPT !.pc = "store", !.ids = stories])
    /\ UNCHANGED <<life, latest, ranking, faults>>

StoreRanking(p) ==
    /\ proc[p].pc = "store"
    /\ ranking' = [ids |-> proc[p].ids, current |-> proc[p].entry.current]
    /\ Goto(p, [proc[p] EXCEPT !.pc = "served", !.entry = None])
    /\ UNCHANGED <<life, latest, faults>>

-----------------------------------------------------------------------------
(* A rebuild, by a reader or a refresher.                                  *)

\* The refresh event's handler only rebuilds; the purge expires first.
BeginRefresh(p) ==
    /\ proc[p].pc = "idle"
    /\ \E pc \in {"select", "expire"} : Goto(p, [Idle EXCEPT !.pc = pc])
    /\ UNCHANGED <<life, latest, ranking, faults>>

InvalidateCache(p) ==
    /\ proc[p].pc = "invalidate"
    /\ ranking' = None
    /\ GotoPc(p, "expire")
    /\ UNCHANGED <<life, latest, faults>>

\* What is due or aged is marked; below the floor, what is due but younger
\* than 24 hours gets two hours of grace instead.  The purge rebuilds only if
\* it marked something, other refreshers always.
ExpireArticles(p) ==
    /\ proc[p].pc = "expire"
    /\ \E young \in SUBSET (InLife({"due"}) \cap ShortLived) :
           LET expiring == InLife({"due", "aged"})
               left == Cardinality(Fresh \cup young) - Cardinality(expiring)
               grace == IF left < Floor THEN young ELSE {}
               spared == p \in Refresher /\ expiring \subseteq grace
           IN  /\ life' = [a \in Article |-> IF a \in grace THEN "fresh"
                                             ELSE IF a \in expiring THEN "expired" ELSE life[a]]
               /\ \E pc \in {"select"} \cup (IF spared THEN {"idle"} ELSE {}) :
                      proc' = [q \in Process |-> [proc[q] EXCEPT
                                   !.since = @ \ grace, !.pc = IF q = p THEN pc ELSE @]]
    /\ UNCHANGED <<latest, ranking, faults>>

\* Mutant: the last fallback's articles are always candidates.
CandidatesOfAll == {Published}

\* The unexpired articles of the last 24 hours; without any, the aged ones of
\* the last 48; without any, the most recent ones.
Candidates == IF Fresh # {} THEN {Fresh} ELSE (SUBSET Aged \ {{}}) \cup {Published}

\* Some of those with a score of 20 or more, up to the limit and without two
\* on one topic, the first of them always; all that were found, if none has
\* that score.
Selections ==
    UNION {{s \in SUBSET found : /\ s = {} => found = {}
                                /\ (Cardinality(s) <= MaxStories \/ s = found)}
           : found \in Candidates}

SelectStories(p) ==
    /\ proc[p].pc = "select"
    /\ \E s \in Selections :
           Goto(p, [proc[p] EXCEPT !.ids = s, !.bare = (Fresh = {}),
                                   !.pc = IF s = {} THEN "meta" ELSE "compare"])
    /\ UNCHANGED <<life, latest, ranking, faults>>

\* The same stories, less than an hour old, are not stored again.
CompareLatest(p) ==
    /\ proc[p].pc = "compare"
    /\ \/ latest = proc[p].ids /\ GotoPc(p, "meta")
       \/ Goto(p, [proc[p] EXCEPT !.pc = "insert", !.entry = LatestCopy])
    /\ UNCHANGED <<life, latest, ranking, faults>>

\* created_at is taken before the commit: a row that was overtaken since
\* the comparison is not the latest one.
InsertProjection(p) ==
    /\ proc[p].pc = "insert"
    /\ \/ /\ ReplaceLatest(proc[p].ids)
          /\ proc' = Outdated([proc EXCEPT ![p] = [@ EXCEPT !.pc = "clear", !.entry = None]])
       \/ /\ latest # {} /\ ~proc[p].entry.current
          /\ Goto(p, [proc[p] EXCEPT !.pc = "clear", !.entry = None])
          /\ UNCHANGED <<latest, ranking>>
    /\ UNCHANGED <<life, faults>>

\* After the commit, and before the 50 latest rows are kept.
ClearRanking(p) ==
    /\ proc[p].pc = "clear"
    /\ ranking' = None
    /\ GotoPc(p, "meta")
    /\ UNCHANGED <<life, latest, faults>>

\* The reader caches what it selected under the identity that is now the latest.
ReadMeta(p) ==
    /\ p \in Reader /\ proc[p].pc = "meta"
    /\ Goto(p, [proc[p] EXCEPT !.pc = "store", !.entry = LatestCopy])
    /\ UNCHANGED <<life, latest, ranking, faults>>

\* The purge invalidates once more, the event's handler does not.
EndRefresh(p) ==
    /\ p \in Refresher /\ proc[p].pc = "meta"
    /\ \/ ranking' = None
       \/ UNCHANGED ranking
    /\ Goto(p, Idle)
    /\ UNCHANGED <<life, latest, faults>>

-----------------------------------------------------------------------------
(* Time and faults.                                                        *)

Publish(a) ==
    /\ life[a] = "unpublished"
    /\ life' = [life EXCEPT ![a] = "fresh"]
    /\ UNCHANGED <<latest, ranking, proc, faults>>

DayPasses(a) ==
    /\ life[a] = "fresh"
    /\ life' = [life EXCEPT ![a] = "aged"]
    /\ UNCHANGED <<latest, ranking, proc, faults>>

ExpiryPasses(a) ==
    /\ life[a] \in {"fresh", "aged"}
    /\ life[a] = "fresh" => a \in ShortLived
    /\ life' = [life EXCEPT ![a] = "due"]
    /\ UNCHANGED <<latest, ranking, proc, faults>>

\* The ranking is cached for an hour.
RankingExpires ==
    /\ ranking # None
    /\ ranking' = None
    /\ UNCHANGED <<life, latest, proc, faults>>

\* Mutant: the rows are deleted and the cached ranking is taken to be theirs.
PurgeCacheRows(p) ==
    /\ p \in Refresher /\ proc[p].pc = "idle"
    /\ latest' = {}
    /\ GotoPc(p, "select")
    /\ UNCHANGED <<life, ranking, faults>>

\* An administrator deletes the projections and, if Redis answers, the cache.
PurgeCache(p) ==
    /\ p \in Refresher /\ proc[p].pc = "idle"
    /\ \/ ReplaceLatest({})
       \/ latest' = {} /\ ranking' = None
    /\ proc' = Outdated([proc EXCEPT ![p] = [@ EXCEPT !.pc = "select"]])
    /\ UNCHANGED <<life, faults>>

\* A Redis command or the batch of an expiration raises; each is caught and
\* the code goes on.
StepFails(p) ==
    /\ faults < MaxFaults /\ faults' = faults + 1
    /\ \E step \in {<<"ranking", "projection">>, <<"store", "served">>,
                    <<"invalidate", "expire">>, <<"clear", "meta">>, <<"expire", "select">>} :
           /\ proc[p].pc = step[1]
           /\ Goto(p, [proc[p] EXCEPT !.pc = step[2], !.entry = None])
    /\ UNCHANGED <<life, latest, ranking>>

\* The builder logs what fails, rolls back and returns its selection.
BuildFails(p) ==
    /\ proc[p].pc \in {"compare", "insert"}
    /\ faults < MaxFaults /\ faults' = faults + 1
    /\ Goto(p, [proc[p] EXCEPT !.pc = "meta", !.entry = None])
    /\ UNCHANGED <<life, latest, ranking>>

\* What else fails in a reader's rebuild: it builds once more, for itself.
RebuildFails(p) ==
    /\ p \in Reader /\ proc[p].pc \in {"expire", "select", "meta"}
    /\ faults < MaxFaults /\ faults' = faults + 1
    /\ \E s \in Selections :
           Goto(p, [proc[p] EXCEPT !.pc = "served", !.ids = s, !.bare = (Fresh = {})])
    /\ UNCHANGED <<life, latest, ranking>>

Die(p) ==
    /\ proc[p].pc \notin {"idle", "served"}
    /\ faults < MaxFaults /\ faults' = faults + 1
    /\ Goto(p, Idle)
    /\ UNCHANGED <<life, latest, ranking>>

-----------------------------------------------------------------------------
Rebuild(p) ==
    \/ InvalidateCache(p) \/ ExpireArticles(p) \/ SelectStories(p)
    \/ CompareLatest(p) \/ InsertProjection(p) \/ ClearRanking(p)

ReaderStep(p) ==
    \/ BeginRequest(p) \/ ReadRanking(p) \/ CheckIdentity(p) \/ CheckRanking(p)
    \/ ReadProjection(p) \/ CheckStories(p) \/ StoreRanking(p) \/ ReadMeta(p)
    \/ Rebuild(p)

RefresherStep(p) == Rebuild(p) \/ EndRefresh(p)

Next ==
    \/ \E p \in Reader : ReaderStep(p)
    \/ \E p \in Refresher : BeginRefresh(p) \/ PurgeCache(p) \/ RefresherStep(p)
    \/ \E p \in Process : StepFails(p) \/ BuildFails(p) \/ RebuildFails(p) \/ Die(p)
    \/ \E a \in Article : Publish(a) \/ DayPasses(a) \/ ExpiryPasses(a)
    \/ RankingExpires

Spec == Init /\ [][Next]_vars

\* People keep reading, what has begun goes on and Redis forgets after an
\* hour.  Nothing is assumed of the refreshes and their schedule.
FairSpec ==
    /\ Spec
    /\ \A p \in Reader : WF_vars(ReaderStep(p))
    /\ \A p \in Refresher : WF_vars(RefresherStep(p))
    /\ WF_vars(RankingExpires)

-----------------------------------------------------------------------------
(* Properties.                                                             *)

\* Whatever others cache, expire or rebuild meanwhile, no request ranks an
\* article that had expired when it began and has been so ever since, unless
\* there was no article of the last 24 hours to build from.  (An article is
\* still shown for the time from its 24th hour to the next expiration.)
NoExpiredRanked ==
    \A p \in Reader :
        proc[p].pc = "served" => proc[p].ids \cap proc[p].since = {} \/ proc[p].bare

Shown == ranking.ids \cup latest

\* An article that is marked expired leaves the projection and the cache in
\* the end, as long as others are fresh: the readers see to it, even if the
\* refresh that should have done so is lost, and a slow rebuild that puts the
\* article back is repaired.
ExpiredLeaves ==
    \A a \in Article :
        life[a] = "expired" /\ a \in Shown ~> a \notin Shown \/ Fresh = {}

-----------------------------------------------------------------------------
(* Why NoExpiredRanked holds: with TypeOK, an inductive invariant.         *)

\* Nothing is counted as expired ever since that got a time of grace.
SinceExpired == \A p \in Process : proc[p].since \subseteq Expired

\* From the choice on: what is chosen is kept, and every way to choose (the
\* cached ranking, the projection, a build, a build for itself) checks it
\* against the articles of that moment.
Chosen == {"store", "compare", "insert", "clear", "meta", "served"}

ChosenUnexpired ==
    \A p \in Process :
        proc[p].pc \in Chosen => proc[p].ids \cap proc[p].since = {} \/ proc[p].bare

=============================================================================
