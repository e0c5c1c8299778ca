------------------------ MODULE RawArticleQueueProofs ------------------------
(***************************************************************************)
(* Proofs about RawArticleQueue, for any number of raw articles, planners, *)
(* workers, API processes and replays, with failures, crawls and titles    *)
(* that change.                                                            *)
(***************************************************************************)
EXTENDS RawArticleQueue, FiniteSetTheorems, TLAPS

(* Types. *)

\* Slugs are pairs, and the empty row is no article.
LEMMA Slugs ==
    /\ \A r \in Raw : r # 0 /\ r \in Nat
    /\ \A t \in Title : /\ BaseSlug(t) \in Slug /\ BaseSlug(t)[1] = t /\ BaseSlug(t)[2] = 0
                        /\ \A r \in Raw : OwnSlug(t, r) \in Slug /\ OwnSlug(t, r)[1] = t
    /\ \A g \in Slug : g[1] \in Title /\ g # <<>>
    /\ NoArticle \notin Article
BY RawAssumption DEF BaseSlug, OwnSlug, Slug, NoArticle, Article

\* A row that a session sees is an article.
LEMMA SeenRow ==
    ASSUME TypeOK, NEW p \in Proc, NEW a \in Id
    PROVE  /\ a \in Stored <=> article[a] \in Article
           /\ a \in Written(p) <=> session[p].rows[a] \in Article
           /\ a \in Visible(p) <=> Seen(p, a) \in Article
           /\ Seen(p, a) \in Article \cup {NoArticle}
<1>1. /\ article[a] \in Article \cup {NoArticle}
      /\ session[p].rows[a] \in Article \cup {NoArticle}
    BY DEF TypeOK, Session
<1> QED BY <1>1, Slugs DEF Stored, Written, Visible, Seen

\* What a run flushes is an article, with its raw article and its slug or
\* those that the row has.
LEMMA FlushedRow ==
    ASSUME TypeOK, RunOK, NEW p \in Proc, run[p].pc = "found",
           NEW a \in IF run[p].target = 0 THEN FreshIds ELSE {run[p].target}
    PROVE  /\ a \in Id
           /\ NewRow(p, a) \in Article
           /\ NewRow(p, a).raw \in {run[p].raw, Seen(p, a).raw}
           /\ NewRow(p, a).slug \in {run[p].slug, Seen(p, a).slug}
           /\ run[p].target # 0 => a \in Visible(p)
           /\ run[p].target = 0 => /\ a \notin Stored
                                   /\ NewRow(p, a).raw = run[p].raw
                                   /\ NewRow(p, a).slug = run[p].slug
<1> DEFINE s == run[p]
           row == NewRow(p, a)
<1>1. /\ s.raw \in Raw /\ s.slug \in Slug /\ s.slug # <<>>
      /\ IF s.target = 0 THEN s.seen = NoArticle ELSE s.target \in Visible(p) /\ s.seen \in Article
    BY Slugs DEF RunOK
<1>2. /\ a \in Id
      /\ s.target # 0 => a \in Visible(p)
      /\ s.target = 0 => a \notin Stored
    BY <1>1 DEF FreshIds, FreeIds, Visible, Stored, Written
<1>3. NewConfidence(p) \in {Completed, Heuristic}
    BY DEF NewConfidence, RunOK
<1>4. /\ row.raw = Changed(s.seen.raw, s.raw, Seen(p, a).raw)
      /\ row.slug = Changed(s.seen.slug, s.slug, Seen(p, a).slug)
      /\ row.confidence = Changed(s.seen.confidence, NewConfidence(p), Seen(p, a).confidence)
      /\ row = [raw |-> row.raw, slug |-> row.slug, confidence |-> row.confidence]
    BY DEF NewRow
<1> HIDE DEF row
<1>5. CASE s.target # 0
    <2>1. Seen(p, a) \in Article
        BY <1>2, <1>5, SeenRow
    <2>2. /\ Seen(p, a).raw \in Raw /\ Seen(p, a).slug \in Slug
          /\ Seen(p, a).confidence \in {Completed, Heuristic}
        BY <2>1 DEF Article
    <2>3. row \in Article
        BY <1>1, <1>3, <1>4, <2>2 DEF Changed, Article
    <2> QED BY <1>2, <1>4, <1>5, <2>3 DEF Changed, row
<1>6. CASE s.target = 0
    <2>1. s.seen = NoArticle
        BY <1>1, <1>6
    <2>2. s.seen.raw # s.raw /\ s.seen.slug # s.slug /\ s.seen.confidence # NewConfidence(p)
        BY <1>1, <1>3, <2>1, Slugs DEF NoArticle, Completed, Heuristic
    <2>3. row.raw = s.raw /\ row.slug = s.slug /\ row.confidence = NewConfidence(p)
        BY <1>4, <2>2 DEF Changed
    <2>4. row \in Article
        BY <1>1, <1>3, <1>4, <2>3 DEF Article
    <2> QED BY <1>2, <1>6, <2>3, <2>4 DEF row
<1> QED BY <1>5, <1>6

\* A counter that counts, or is set, stays a number; so does a status.
LEMMA Updates ==
    ASSUME NEW r
    PROVE  /\ \A f \in [Raw -> Nat] : [f EXCEPT ![r] = @ + 1] \in [Raw -> Nat]
           /\ \A f \in [Raw -> Nat], n \in Nat : [f EXCEPT ![r] = n] \in [Raw -> Nat]
           /\ \A f \in [Raw -> Status], s \in Status : [f EXCEPT ![r] = s] \in [Raw -> Status]
           /\ \A f \in [Raw -> BOOLEAN] : [f EXCEPT ![r] = FALSE] \in [Raw -> BOOLEAN]
<1>1. \A f \in [Raw -> Nat] : [f EXCEPT ![r] = @ + 1] \in [Raw -> Nat]
    <2>1. CASE r \in Raw
        BY <2>1
    <2>2. CASE r \notin Raw
        BY <2>2
    <2> QED BY <2>1, <2>2
<1>2. \A f \in [Raw -> Nat], n \in Nat : [f EXCEPT ![r] = n] \in [Raw -> Nat]
    OBVIOUS
<1>3. \A f \in [Raw -> Status], s \in Status : [f EXCEPT ![r] = s] \in [Raw -> Status]
    OBVIOUS
<1>4. \A f \in [Raw -> BOOLEAN] : [f EXCEPT ![r] = FALSE] \in [Raw -> BOOLEAN]
    OBVIOUS
<1> QED BY <1>1, <1>2, <1>3, <1>4

LEMMA IdleTypes ==
    IdlePlan \in Plan /\ IdleRun \in Run /\ IdleReplay \in Replay /\ NewSession \in Session
<1>1. IdlePlan \in Plan
    BY DEF IdlePlan, Plan
<1>2. IdleRun \in Run
    BY DEF IdleRun, Run, Status
<1>3. IdleReplay \in Replay
    BY DEF IdleReplay, Replay, Status
<1>4. NewSession \in Session
    BY DEF NewSession, Session
<1> QED BY <1>1, <1>2, <1>3, <1>4

LEMMA TypeInit == Init => TypeOK
BY LimitAssumption, IdleTypes DEF Init, TypeOK, Status

\* A renamed article keeps the types of the titles.
LEMMA Renamed ==
    ASSUME TypeOK, NEW r \in Raw, Rename(r)
    PROVE  title' \in [Raw -> Title] /\ had' \in [Raw -> SUBSET Title]
<1>1. PICK t \in TitlesOf[r] : /\ title' = [title EXCEPT ![r] = t]
                               /\ had' = [had EXCEPT ![r] = had[r] \cup {t}]
    BY DEF Rename
<1>2. t \in Title
    BY DEF Title
<1> QED BY <1>1, <1>2 DEF TypeOK

\* A commit leaves rows, events and statuses of their types.
LEMMA CommitTypes ==
    ASSUME TypeOK, NEW p \in Proc, NEW s \in Session, Commit(p, s)
    PROVE  /\ article' \in [Id -> Article \cup {NoArticle}]
           /\ published' \in SUBSET Id /\ abandoned' \in SUBSET Id
           /\ session' \in [Proc -> Session]
           /\ Processed(s) \in [Raw -> Status]
           /\ Fresh(s) \in [Raw -> BOOLEAN]
<1>1. article' \in [Id -> Article \cup {NoArticle}]
    BY DEF TypeOK, Commit, Session
<1>2. published' \in SUBSET Id /\ abandoned' \in SUBSET Id
    BY DEF TypeOK, Commit, Session
<1>3. session' \in [Proc -> Session]
    BY IdleTypes DEF TypeOK, Commit
<1>4. Processed(s) \in [Raw -> Status]
    BY DEF TypeOK, Processed, Status
<1>5. Fresh(s) \in [Raw -> BOOLEAN]
    BY DEF TypeOK, Fresh
<1> QED BY <1>1, <1>2, <1>3, <1>4, <1>5

\* What the end of a run adds to its session.
LEMMA Endings ==
    ASSUME TypeOK, RunOK, NEW p \in Proc, Flushed(p)
    PROVE  LET done == {<<run[p].raw, run[p].loaded>>}
               id == {run[p].target}
           IN  /\ [session[p] EXCEPT !.left = @ \cup id] \in Session
               /\ [session[p] EXCEPT !.left = @ \cup id, !.done = @ \cup done] \in Session
               /\ [session[p] EXCEPT !.events = @ \cup id, !.done = @ \cup done] \in Session
<1> DEFINE done == {<<run[p].raw, run[p].loaded>>}
           id == {run[p].target}
<1>1. /\ run[p].raw \in Raw /\ run[p].target \in Id /\ run[p].loaded \in Status
      /\ session[p] \in Session
    BY DEF TypeOK, RunOK, Flushed, Written, Run
<1>2. id \subseteq Id /\ done \subseteq Raw \X Status
    BY <1>1
<1> HIDE DEF done, id
<1>3. \A D \in SUBSET (Raw \X Status) : session[p].done \cup D \in SUBSET (Raw \X Status)
    BY <1>1 DEF Session
<1>4. \A I \in SUBSET Id : session[p].left \cup I \in SUBSET Id /\ session[p].events \cup I \in SUBSET Id
    BY <1>1 DEF Session
<1>5. [session[p] EXCEPT !.left = @ \cup id] \in Session
    BY <1>1, <1>2, <1>4 DEF Session
<1>6. [session[p] EXCEPT !.left = @ \cup id, !.done = @ \cup done] \in Session
    BY <1>1, <1>2, <1>3, <1>4 DEF Session
<1>7. [session[p] EXCEPT !.events = @ \cup id, !.done = @ \cup done] \in Session
    BY <1>1, <1>2, <1>3, <1>4 DEF Session
<1> QED BY <1>5, <1>6, <1>7 DEF id, done

\* A replay that is extracting has its raw article.
LEMMA ReplayRaw ==
    ASSUME TypeOK, ReplayOK, NEW x \in Replayer, replay[x].pc = "extracting"
    PROVE  replay[x].raw \in Raw
BY DEF TypeOK, ReplayOK, Replay

\* The records of planners, runs and replays keep their types field by field.
LEMMA TypeNext == TypeOK /\ RunOK /\ ReplayOK /\ [Next]_vars => TypeOK'
<1> SUFFICES ASSUME TypeOK, RunOK, ReplayOK, [Next]_vars
             PROVE  TypeOK'
    OBVIOUS
<1> USE LimitAssumption DEF store, titles
<1>0. /\ \A p \in Planner : plan[p] \in Plan
      /\ \A p \in Proc : run[p] \in Run
      /\ \A x \in Replayer : replay[x] \in Replay
    BY DEF TypeOK
<1>1. ASSUME NEW r \in Raw, Ingest(r) \/ TimeOut(r)
      PROVE  TypeOK'
    <2>1. CASE Ingest(r)
        BY <2>1 DEF TypeOK, Ingest, Status
    <2>2. CASE TimeOut(r)
        BY <2>2 DEF TypeOK, TimeOut
    <2> QED BY <1>1, <2>1, <2>2
<1>2. ASSUME NEW r \in Raw, Revise(r)
      PROVE  TypeOK'
    <2>1. title' \in [Raw -> Title] /\ had' \in [Raw -> SUBSET Title]
        BY <1>2, Renamed DEF TypeOK, Revise
    <2>2. status' \in [Raw -> Status] /\ stale' \in [Raw -> BOOLEAN]
        <3>1. PICK s \in {"fetched", "filtered", status[r]} : status' = [status EXCEPT ![r] = s]
            BY <1>2 DEF Revise
        <3>2. s \in Status
            BY DEF TypeOK, Status
        <3> QED BY <1>2, <3>1, <3>2, Updates DEF TypeOK, Revise
    <2>3. revisions' \in 0..MaxRevisions
        BY <1>2 DEF TypeOK, Revise
    <2> QED BY <1>2, <2>1, <2>2, <2>3 DEF TypeOK, Revise
<1>3. ASSUME NEW p \in Planner, PlannerStep(p) \/ PlannerFails(p)
      PROVE  TypeOK'
    <2>1. ASSUME NEW q \in Plan, plan' = [plan EXCEPT ![p] = q]
          PROVE  plan' \in [Planner -> Plan]
        BY <2>1 DEF TypeOK
    <2>2. CASE SelectFresh(p)
        <3>1. PICK F \in SUBSET Raw :
                  plan' = [plan EXCEPT ![p] = [pc |-> "fresh", fresh |-> F, claimed |-> {},
                                               toSend |-> F]]
            BY <2>2 DEF SelectFresh, AtMost
        <3>2. [pc |-> "fresh", fresh |-> F, claimed |-> {}, toSend |-> F] \in Plan
            BY DEF Plan
        <3> QED BY <2>1, <2>2, <3>1, <3>2 DEF TypeOK, SelectFresh, rawVars
    <2>3. CASE Send(p)
        <3>1. PICK r \in plan[p].toSend :
                /\ queue' = [queue EXCEPT ![r] = @ + 1]
                /\ plan' = [plan EXCEPT ![p] = [plan[p] EXCEPT !.toSend = @ \ {r}]]
            BY <2>3 DEF Send
        <3>2. [plan[p] EXCEPT !.toSend = @ \ {r}] \in Plan
            BY <1>0 DEF Plan
        <3>3. r \in Raw
            BY <1>0 DEF Plan
        <3>4. queue' \in [Raw -> Nat]
            BY <3>1, <3>3 DEF TypeOK
        <3> QED BY <2>1, <2>3, <3>1, <3>2, <3>4 DEF TypeOK, Send, rawVars
    <2>4. CASE ClaimStale(p)
        <3>1. PICK S \in SUBSET Raw :
                /\ rawLock' = [r \in Raw |-> IF r \in S THEN p ELSE rawLock[r]]
                /\ plan' = [plan EXCEPT ![p] = [plan[p] EXCEPT !.pc = "stale", !.claimed = S,
                                        !.toSend = {r \in S : ~Exhausted(r)}]]
            BY <2>4 DEF ClaimStale, AtMost
        <3>2. [plan[p] EXCEPT !.pc = "stale", !.claimed = S,
                              !.toSend = {r \in S : ~Exhausted(r)}] \in Plan
            BY <1>0 DEF Plan
        <3> QED BY <2>1, <2>4, <3>1, <3>2 DEF TypeOK, ClaimStale, rawVars
    <2>5. CASE CommitPlan(p)
        <3>1. plan' = [plan EXCEPT ![p] = IdlePlan]
            BY <2>5 DEF CommitPlan
        <3> QED BY <2>1, <2>5, <3>1, IdleTypes DEF TypeOK, CommitPlan, Status
    <2>6. CASE PlannerFails(p)
        <3>1. plan' = [plan EXCEPT ![p] = IdlePlan]
            BY <2>6 DEF PlannerFails
        <3> QED BY <2>1, <2>6, <3>1, IdleTypes DEF TypeOK, PlannerFails, rawVars
    <2> QED BY <1>3, <2>2, <2>3, <2>4, <2>5, <2>6 DEF PlannerStep
<1>4. ASSUME NEW p \in Proc, NEW q \in Run, run' = [run EXCEPT ![p] = q]
      PROVE  run' \in [Proc -> Run]
    BY <1>4 DEF TypeOK
<1>5. ASSUME NEW p \in Proc, NEW r \in Raw, Begin(p, r)
      PROVE  run' \in [Proc -> Run]
    <2>1. [IdleRun EXCEPT !.pc = "loaded", !.raw = r, !.loaded = status[r],
                          !.slug = BaseSlug(title[r])] \in Run
        BY IdleTypes, Slugs DEF TypeOK, Run
    <2> QED BY <1>4, <1>5, <2>1 DEF Begin
<1>6. ASSUME NEW p \in Celery, Receive(p)
      PROVE  TypeOK'
    BY <1>5, <1>6 DEF TypeOK, Receive, rawVars, Proc
<1>7. ASSUME NEW p \in Proc, NEW s \in Session, Commit(p, s),
             status' = Processed(s) \/ \E r \in Raw, t \in Status :
                                          status' = [Processed(s) EXCEPT ![r] = t],
             stale' = Fresh(s) \/ \E r \in Raw : stale' = [Fresh(s) EXCEPT ![r] = FALSE],
             run' = [run EXCEPT ![p] = IdleRun] \/ UNCHANGED run,
             UNCHANGED <<retries, titles, rawLock, queue, plan, todo, replay, faults, revisions>>
      PROVE  TypeOK'
    <2>1. run' \in [Proc -> Run]
        BY <1>4, <1>7, IdleTypes DEF TypeOK
    <2>2. status' \in [Raw -> Status]
        BY <1>7, CommitTypes
    <2>3. stale' \in [Raw -> BOOLEAN]
        BY <1>7, CommitTypes
    <2>4. /\ article' \in [Id -> Article \cup {NoArticle}]
          /\ published' \in SUBSET Id /\ abandoned' \in SUBSET Id
          /\ session' \in [Proc -> Session]
        BY <1>7, CommitTypes
    <2> QED BY <1>7, <2>1, <2>2, <2>3, <2>4 DEF TypeOK
<1>8. ASSUME NEW p \in Api, Replenish(p) \/ RunInline(p) \/ CommitRest(p)
      PROVE  TypeOK'
    <2>1. CASE Replenish(p)
        BY <2>1 DEF TypeOK, Replenish, rawVars
    <2>2. CASE RunInline(p)
        BY <1>5, <2>2 DEF TypeOK, RunInline, rawVars, Proc
    <2>3. CASE CommitRest(p)
        <3>1. p \in Proc /\ session[p] \in Session
            BY DEF TypeOK, Proc
        <3>2. /\ Commit(p, session[p]) /\ status' = Processed(session[p])
              /\ stale' = Fresh(session[p])
              /\ UNCHANGED <<retries, titles, rawLock, queue, plan, run, todo, replay, faults,
                             revisions>>
            BY <2>3, Zenon DEF CommitRest
        <3> QED BY <1>7, <3>1, <3>2
    <2> QED BY <1>8, <2>1, <2>2, <2>3
<1>11. ASSUME NEW p \in Proc, LoseSession(p), faults' \in 0..MaxFaults
       PROVE  TypeOK'
    <2>1. run' \in [Proc -> Run] /\ session' \in [Proc -> Session]
        BY <1>4, <1>11, IdleTypes DEF LoseSession, TypeOK
    <2>2. todo' \in [Api -> SUBSET Raw]
        BY <1>11 DEF LoseSession, TypeOK
    <2> QED BY <1>11, <2>1, <2>2 DEF TypeOK, LoseSession, rawVars
<1>12. ASSUME NEW p \in Proc, RunStep(p) \/ RunRollsBack(p) \/ RunRaises(p) \/ RunFails(p)
       PROVE  TypeOK'
    <2>1. CASE Reject(p)
        <3>1. /\ session[p] \in Session /\ Commit(p, session[p])
              /\ run' = [run EXCEPT ![p] = IdleRun]
              /\ stale' = [Fresh(session[p]) EXCEPT ![run[p].raw] = FALSE]
              /\ UNCHANGED <<retries, titles, rawLock, queue, plan, todo, replay, faults,
                             revisions>>
            BY <2>1, Zenon DEF Reject, TypeOK
        <3>2. run[p].raw \in Raw
            BY <2>1 DEF Reject, RunOK
        <3>3. \E t \in Status : status' = [Processed(session[p]) EXCEPT ![run[p].raw] = t]
            <4>1. Processed(session[p])[run[p].raw] \in Status
                BY <3>1, <3>2, CommitTypes
            <4> QED BY <2>1, <4>1 DEF Reject, Status
        <3> QED BY <1>7, <3>1, <3>2, <3>3
    <2>2. CASE ChooseSlug(p)
        <3>1. PICK g \in Slug : run' = [run EXCEPT ![p] = [run[p] EXCEPT !.pc = "slug",
                                                                         !.slug = g]]
            <4>1. run[p].raw \in Raw /\ run[p].slug[1] \in Title
                BY <2>2, Slugs DEF ChooseSlug, RunOK
            <4> QED BY <2>2, <4>1, Slugs DEF ChooseSlug
        <3>2. [run[p] EXCEPT !.pc = "slug", !.slug = g] \in Run
            BY <1>0 DEF Run
        <3> QED BY <1>4, <2>2, <3>1, <3>2 DEF TypeOK, ChooseSlug, rawVars
    <2>3. CASE Enrich(p)
        <3>1. PICK ai \in {"kept", "completed", "heuristic"} :
                  run' = [run EXCEPT ![p] = [run[p] EXCEPT !.pc = "enriched", !.ai = ai]]
            BY <2>3 DEF Enrich
        <3>2. [run[p] EXCEPT !.pc = "enriched", !.ai = ai] \in Run
            BY <1>0 DEF Run
        <3> QED BY <1>4, <2>3, <3>1, <3>2 DEF TypeOK, Enrich, rawVars
    <2>4. CASE Lookup(p)
        <3>1. PICK a \in Id \cup {0}, s \in Article \cup {NoArticle} :
                  run' = [run EXCEPT ![p] = [run[p] EXCEPT !.pc = "found", !.target = a,
                                                           !.seen = s]]
            <4>1. PICK a \in Id \cup {0} :
                      run' = [run EXCEPT ![p] = [run[p] EXCEPT !.pc = "found", !.target = a,
                                !.seen = IF a = 0 THEN NoArticle ELSE Seen(p, a)]]
                BY <2>4 DEF Lookup, Visible, Stored, Written
            <4>2. (IF a = 0 THEN NoArticle ELSE Seen(p, a)) \in Article \cup {NoArticle}
                BY SeenRow
            <4> QED BY <4>1, <4>2
        <3>2. [run[p] EXCEPT !.pc = "found", !.target = a, !.seen = s] \in Run
            BY <1>0 DEF Run
        <3> QED BY <1>4, <2>4, <3>1, <3>2 DEF TypeOK, Lookup, rawVars
    <2>5. CASE Flush(p)
        <3>1. PICK a \in IF run[p].target = 0 THEN FreshIds ELSE {run[p].target} :
                  /\ run' = [run EXCEPT ![p] = [run[p] EXCEPT !.pc = "flushed", !.target = a]]
                  /\ session' = [session EXCEPT ![p] = [session[p] EXCEPT
                                    !.rows = [session[p].rows EXCEPT ![a] = NewRow(p, a)]]]
            BY <2>5 DEF Flush
        <3>2. a \in Id /\ NewRow(p, a) \in Article
            BY <2>5, <3>1, FlushedRow DEF Flush
        <3>3. [run[p] EXCEPT !.pc = "flushed", !.target = a] \in Run
            BY <1>0, <3>2 DEF Run
        <3>4. session' \in [Proc -> Session]
            <4>1. session[p].rows \in [Id -> Article \cup {NoArticle}]
                BY DEF TypeOK, Session
            <4>2. [session[p].rows EXCEPT ![a] = NewRow(p, a)] \in [Id -> Article \cup {NoArticle}]
                BY <3>2, <4>1
            <4>3. [session[p] EXCEPT !.rows = [session[p].rows EXCEPT ![a] = NewRow(p, a)]]
                      \in Session
                <5>1. \A t \in Session, R \in [Id -> Article \cup {NoArticle}] :
                          [t EXCEPT !.rows = R] \in Session
                    BY DEF Session
                <5> QED BY <4>2, <5>1 DEF TypeOK
            <4> DEFINE s == [session[p] EXCEPT !.rows = [session[p].rows EXCEPT ![a] = NewRow(p, a)]]
            <4>4. session' = [session EXCEPT ![p] = s]
                BY <3>1
            <4> HIDE DEF s
            <4> QED BY <4>3, <4>4 DEF TypeOK, s
        <3>5. run' \in [Proc -> Run]
            BY <1>4, <3>1, <3>3
        <3> QED BY <2>5, <3>4, <3>5 DEF TypeOK, Flush, rawVars
    <2>6. CASE FlushConflict(p)
        BY <1>11, <2>6 DEF FlushConflict, TypeOK
    <2>7. CASE CommitRun(p)
        <3> DEFINE s == [session[p] EXCEPT !.events = @ \cup {run[p].target},
                                           !.done = @ \cup {<<run[p].raw, run[p].loaded>>}]
        <3>1. s \in Session
            BY <2>7, Endings DEF CommitRun, Flushed
        <3>2. /\ Commit(p, s) /\ status' = Processed(s) /\ stale' = Fresh(s)
              /\ run' = [run EXCEPT ![p] = IdleRun]
              /\ UNCHANGED <<retries, titles, rawLock, queue, plan, todo, replay, faults,
                             revisions>>
            BY <2>7, Zenon DEF CommitRun
        <3> HIDE DEF s
        <3> QED BY <1>7, <3>1, <3>2
    <2>8. CASE RunRollsBack(p)
        <3>1. run' \in [Proc -> Run] /\ session' \in [Proc -> Session]
            BY <1>4, <2>8, IdleTypes DEF RunRollsBack, TypeOK
        <3> QED BY <2>8, <3>1 DEF TypeOK, RunRollsBack, rawVars
    <2>9. CASE RunRaises(p)
        <3>1. run' \in [Proc -> Run]
            BY <1>4, <2>9, IdleTypes DEF RunRaises
        <3>2. PICK s \in Session : session' = [session EXCEPT ![p] = s]
            <4>1. CASE UNCHANGED session
                BY <4>1 DEF TypeOK
            <4>2. CASE Flushed(p)
                BY <2>9, <4>2, Endings DEF RunRaises
            <4> QED BY <2>9, <4>1, <4>2 DEF RunRaises
        <3> QED BY <2>9, <3>1, <3>2 DEF TypeOK, RunRaises, rawVars
    <2>10. CASE RunFails(p)
        BY <1>11, <2>10 DEF RunFails, TypeOK
    <2> QED BY <1>12, <2>1, <2>2, <2>3, <2>4, <2>5, <2>6, <2>7, <2>8, <2>9, <2>10 DEF RunStep
<1>9. ASSUME NEW x \in Replayer, ReplayStep(x) \/ ClaimFiltered(x) \/ SelectFiltered(x)
                                  \/ ReplayFails(x)
      PROVE  TypeOK'
    <2>1. ASSUME NEW q \in Replay, replay' = [replay EXCEPT ![x] = q]
          PROVE  replay' \in [Replayer -> Replay]
        BY <2>1 DEF TypeOK
    <2>2. CASE ClaimFiltered(x) \/ SelectFiltered(x)
        <3>1. PICK S \in SUBSET Raw :
                  replay' = [replay EXCEPT ![x] = [replay[x] EXCEPT !.pc = "claimed", !.todo = S]]
            BY <2>2 DEF ClaimFiltered, SelectFiltered
        <3>2. [replay[x] EXCEPT !.pc = "claimed", !.todo = S] \in Replay
            BY <1>0 DEF Replay
        <3>3. status' \in [Raw -> Status]
            BY <2>2 DEF TypeOK, ClaimFiltered, SelectFiltered, rawVars, Status
        <3> QED BY <2>1, <2>2, <3>1, <3>2, <3>3
                DEF TypeOK, ClaimFiltered, SelectFiltered, rawVars
    <2>3. CASE LoadReplay(x)
        <3> DEFINE loaded(r) == IF status[r] \in {"filtered", "recovering"}
                   THEN [pc |-> "extracting", todo |-> replay[x].todo \ {r}, raw |-> r,
                         loaded |-> status[r], retries |-> retries[r]]
                   ELSE [replay[x] EXCEPT !.todo = replay[x].todo \ {r}]
        <3>1. PICK r \in replay[x].todo : replay' = [replay EXCEPT ![x] = loaded(r)]
            BY <2>3, Zenon DEF LoadReplay
        <3>2. r \in Raw /\ replay[x].todo \in SUBSET Raw
            BY <1>0 DEF Replay
        <3>3. [pc |-> "extracting", todo |-> replay[x].todo \ {r}, raw |-> r,
               loaded |-> status[r], retries |-> retries[r]] \in Replay
            BY <3>2 DEF TypeOK, Replay
        <3>4. [replay[x] EXCEPT !.todo = replay[x].todo \ {r}] \in Replay
            BY <1>0, <3>2 DEF Replay
        <3>5. loaded(r) \in Replay
            BY <3>3, <3>4
        <3> HIDE DEF loaded
        <3>6. replay' \in [Replayer -> Replay]
            BY <2>1, <3>1, <3>5
        <3> QED BY <2>3, <3>6 DEF TypeOK, LoadReplay, rawVars
    <2>4. CASE ReplayDone(x)
        BY <2>1, <2>4, IdleTypes DEF TypeOK, ReplayDone, rawVars
    <2>5. CASE ReplayFails(x)
        BY <2>1, <2>5, IdleTypes DEF TypeOK, ReplayFails, rawVars
    <2>6. CASE ReplayPasses(x)
        <3>1. replay' = [replay EXCEPT ![x] = [replay[x] EXCEPT !.pc = "passed"]]
            BY <2>6 DEF ReplayPasses
        <3>2. [replay[x] EXCEPT !.pc = "passed"] \in Replay
            BY <1>0 DEF Replay
        <3>3. title' \in [Raw -> Title] /\ had' \in [Raw -> SUBSET Title]
            BY <2>6, Renamed, ReplayRaw DEF ReplayPasses
        <3> QED BY <2>1, <2>6, <3>1, <3>2, <3>3 DEF TypeOK, ReplayPasses, Status
    <2>7. CASE SendReplay(x) \/ ReplayFiltered(x)
        <3>1. replay' = [replay EXCEPT
                  ![x] = [IdleReplay EXCEPT !.pc = "claimed", !.todo = replay[x].todo]]
            BY <2>7 DEF SendReplay, ReplayFiltered
        <3>2. [IdleReplay EXCEPT !.pc = "claimed", !.todo = replay[x].todo] \in Replay
            BY <1>0, IdleTypes DEF Replay
        <3>3. replay[x].retries \in Nat
            BY <1>0 DEF Replay
        <3>4. CASE SendReplay(x)
            <4>1. queue' \in [Raw -> Nat]
                BY <3>4, Updates DEF TypeOK, SendReplay
            <4> QED BY <4>1, <2>1, <3>1, <3>2, <3>4 DEF TypeOK, SendReplay, rawVars
        <3>5. CASE ReplayFiltered(x)
            <4>1. retries' \in [Raw -> Nat]
                <5>1. replay[x].retries + 1 \in Nat
                    BY <3>3
                <5> QED BY <3>5, <5>1, Updates DEF TypeOK, ReplayFiltered
            <4>2. status' \in [Raw -> Status]
                <5>1. \A r \in Raw : status'[r] \in Status
                    BY <3>5 DEF TypeOK, ReplayFiltered, Status
                <5> QED BY <3>5, <5>1 DEF TypeOK, ReplayFiltered
            <4>3. stale' \in [Raw -> BOOLEAN]
                BY <3>5, Updates DEF TypeOK, ReplayFiltered
            <4>4. title' \in [Raw -> Title] /\ had' \in [Raw -> SUBSET Title]
                BY <3>5, Renamed, ReplayRaw DEF ReplayFiltered
            <4> QED BY <2>1, <3>1, <3>2, <3>5, <4>1, <4>2, <4>3, <4>4 DEF TypeOK, ReplayFiltered
        <3> QED BY <2>7, <3>4, <3>5
    <2> QED BY <1>9, <2>2, <2>3, <2>4, <2>5, <2>6, <2>7 DEF ReplayStep
<1>10. CASE UNCHANGED vars
    BY <1>10 DEF TypeOK, vars, rawVars
<1> QED BY <1>1, <1>2, <1>3, <1>6, <1>8, <1>9, <1>10, <1>12 DEF Next

-----------------------------------------------------------------------------
(* What a step does to the rows, the sessions and the runs.                *)

NoneProcessed == \A r \in Raw : status'[r] = "processed" => status[r] = "processed"

Others(p) == \A q \in Proc \ {p} : run'[q] = run[q] /\ session'[q] = session[q]

\* Nothing, but for a status ...
Still == UNCHANGED <<store, titles, run, session>> /\ NoneProcessed

\* ... or a title.
Renames(r) == Rename(r) /\ UNCHANGED <<store, run, session>> /\ NoneProcessed

Kept(p) == session'[p] = session[p]

Restarts(p) ==
    /\ run[p].pc = "idle" /\ run'[p].pc = "loaded"
    /\ run'[p].raw \in Raw /\ run'[p].slug = BaseSlug(title[run'[p].raw])
    /\ run'[p].ai = "none"
    /\ Kept(p)

Chooses(p) ==
    /\ run[p].pc = "loaded" /\ run'[p].pc = "slug"
    /\ run'[p].raw = run[p].raw /\ run'[p].ai = run[p].ai
    /\ \/ run'[p].slug = BaseSlug(run[p].slug[1])
       \/ /\ run'[p].slug = OwnSlug(run[p].slug[1], run[p].raw)
          /\ \E a \in Visible(p) : /\ Seen(p, a).slug = BaseSlug(run[p].slug[1])
                                  /\ Seen(p, a).raw # run[p].raw
    /\ Kept(p)

Enriches(p) ==
    /\ run[p].pc = "slug" /\ run'[p].pc = "enriched"
    /\ run'[p].raw = run[p].raw /\ run'[p].slug = run[p].slug
    /\ run'[p].ai \in {"completed", "heuristic"}
    /\ Kept(p)

Finds(p) ==
    /\ run[p].pc = "enriched" /\ run'[p].pc = "found"
    /\ run'[p].raw = run[p].raw /\ run'[p].slug = run[p].slug /\ run'[p].ai = run[p].ai
    /\ \/ run'[p].target = 0 /\ run'[p].seen = NoArticle
       \/ /\ run'[p].target \in Visible(p) /\ run'[p].seen = Seen(p, run'[p].target)
          /\ \/ Seen(p, run'[p].target).raw = run[p].raw
             \/ Seen(p, run'[p].target).slug \in {BaseSlug(run[p].slug[1]), run[p].slug}
    /\ Kept(p)

Flushes(p) ==
    /\ run[p].pc = "found" /\ run'[p].pc = "flushed"
    /\ run'[p].raw = run[p].raw /\ run'[p].slug = run[p].slug /\ run'[p].ai = run[p].ai
    /\ run'[p].target \in IF run[p].target = 0 THEN FreshIds ELSE {run[p].target}
    /\ LET a == run'[p].target
           row == NewRow(p, a)
       IN  /\ ~MustWait(p, a, row.slug) /\ ~Taken(p, a, row.slug)
           /\ session'[p] = [session[p] EXCEPT !.rows = [session[p].rows EXCEPT ![a] = row]]

\* The end of a run that leaves its session to the next one.
Leaves(p) ==
    /\ run'[p] = IdleRun
    /\ session'[p].rows = session[p].rows
    /\ session[p].events \subseteq session'[p].events
    /\ session[p].left \subseteq session'[p].left
    /\ IF Flushed(p)
       THEN /\ run[p].target \in session'[p].events \cup session'[p].left
            /\ session'[p].events \subseteq session[p].events \cup {run[p].target}
            /\ \A d \in session'[p].done : d \in session[p].done \/ d[1] = run[p].raw
       ELSE Kept(p)

Drops(p) == run'[p] = IdleRun /\ session'[p] = NewSession

Prepares(p) ==
    /\ Restarts(p) \/ Chooses(p) \/ Enriches(p) \/ Finds(p) \/ Flushes(p) \/ Leaves(p) \/ Drops(p)
    /\ Others(p)
    /\ UNCHANGED <<store, titles>>
    /\ NoneProcessed

Commits(p) ==
    LET done == session[p].done
        new == IF Flushed(p) THEN {run[p].target} ELSE {}
    IN  /\ run'[p] = IdleRun /\ session'[p] = NewSession
        /\ Others(p)
        /\ UNCHANGED titles
        /\ article' = [a \in Id |-> Seen(p, a)]
        /\ published' = published \cup session[p].events \cup new
        /\ abandoned' = abandoned \cup session[p].left
        /\ \A r \in Raw : status'[r] = "processed" =>
              \/ status[r] = "processed"
              \/ \E d \in done : d[1] = r
              \/ Flushed(p) /\ run[p].raw = r

\* A commit of p's session writes what p sees.
LEMMA CommitIs ==
    ASSUME TypeOK, NEW p \in Proc, NEW s, Commit(p, s), s.rows = session[p].rows
    PROVE  article' = [a \in Id |-> Seen(p, a)]
<1>1. \A a \in Id : (IF s.rows[a] # NoArticle THEN s.rows[a] ELSE article[a]) = Seen(p, a)
    BY DEF Seen, Written
<1> QED BY <1>1 DEF Commit

\* One process moves at a time.
LEMMA OneMoves ==
    ASSUME TypeOK, NEW p \in Proc, NEW x, run' = [run EXCEPT ![p] = x] \/ run' = run,
           NEW y, session' = [session EXCEPT ![p] = y] \/ session' = session
    PROVE  Others(p)
BY DEF TypeOK, Others

LEMMA RunKinds ==
    ASSUME TypeOK, NEW p \in Proc, RunStep(p)
    PROVE  Prepares(p) \/ Commits(p)
<1> USE DEF store, titles, rawVars
<1>0. /\ run \in [Proc -> Run] /\ session \in [Proc -> Session] /\ run[p] \in Run
      /\ session[p] \in Session
    BY DEF TypeOK
<1>1. CASE Reject(p)
    <2>1. /\ Commit(p, session[p]) /\ run' = [run EXCEPT ![p] = IdleRun] /\ run[p].pc = "loaded"
          /\ UNCHANGED titles
        BY <1>1, Zenon DEF Reject
    <2>2. article' = [a \in Id |-> Seen(p, a)]
        BY <2>1, CommitIs
    <2>3. session' = [session EXCEPT ![p] = NewSession]
        BY <2>1 DEF Commit
    <2>4. Others(p)
        BY <2>1, <2>3, OneMoves
    <2>5. \A r \in Raw : status'[r] = "processed" =>
              status[r] = "processed" \/ \E d \in session[p].done : d[1] = r
        <3>1. \A r \in Raw : Processed(session[p])[r] = "processed" =>
                  status[r] = "processed" \/ \E d \in session[p].done : d[1] = r
            BY DEF Processed
        <3>2. \A r \in Raw : status'[r] # "dead_letter" => status'[r] = Processed(session[p])[r]
            BY <1>1 DEF Reject, Processed
        <3> QED BY <3>1, <3>2
    <2>6. /\ published' = published \cup session[p].events
          /\ abandoned' = abandoned \cup session[p].left
        BY <2>1 DEF Commit
    <2>7. ~Flushed(p)
        BY <2>1 DEF Flushed
    <2>8. run'[p] = IdleRun /\ session'[p] = NewSession
        BY <1>0, <2>1, <2>3
    <2> QED BY <2>1, <2>2, <2>4, <2>5, <2>6, <2>7, <2>8 DEF Commits
<1>2. CASE ChooseSlug(p)
    <2>1. Chooses(p)
        BY <1>0, <1>2 DEF ChooseSlug, Chooses, Kept
    <2>2. Others(p)
        BY <1>2, OneMoves DEF ChooseSlug
    <2> QED BY <1>2, <2>1, <2>2 DEF ChooseSlug, Prepares, NoneProcessed
<1>3. CASE Enrich(p)
    <2>1. ~MaybeEnriched(p, run[p].raw)
        <3>1. \A a \in Visible(p) : Seen(p, a).confidence # Enriched
            BY SeenRow DEF Visible, Stored, Written, Article, Completed, Heuristic, Enriched
        <3> QED BY <3>1 DEF MaybeEnriched
    <2>2. Enriches(p)
        BY <1>0, <1>3, <2>1 DEF Enrich, Enriches, Kept
    <2>3. Others(p)
        BY <1>3, OneMoves DEF Enrich
    <2> QED BY <1>3, <2>2, <2>3 DEF Enrich, Prepares, NoneProcessed
<1>4. CASE Lookup(p)
    <2>1. Finds(p)
        <3> DEFINE S == {BaseSlug(run[p].slug[1]), run[p].slug}
                   Found == {a \in Visible(p) : Seen(p, a).raw = run[p].raw \/ Seen(p, a).slug \in S}
        <3>1. PICK a \in IF Found = {} THEN {0} ELSE Found :
                  run' = [run EXCEPT ![p] = [run[p] EXCEPT !.pc = "found", !.target = a,
                                     !.seen = IF a = 0 THEN NoArticle ELSE Seen(p, a)]]
            BY <1>4, Zenon DEF Lookup
        <3>2. /\ run'[p].target = a /\ run'[p].pc = "found"
              /\ run'[p].seen = IF a = 0 THEN NoArticle ELSE Seen(p, a)
              /\ run'[p].raw = run[p].raw /\ run'[p].slug = run[p].slug /\ run'[p].ai = run[p].ai
            BY <1>0, <3>1 DEF Run
        <3>3. \A b \in Visible(p) : b # 0
            BY DEF Visible, Stored, Written, Id
        <3>4. CASE a = 0
            BY <1>4, <3>2, <3>4 DEF Lookup, Finds, Kept
        <3>5. CASE a # 0
            <4>1. a \in Found
                BY <3>1, <3>5
            <4>2. /\ a \in Visible(p)
                  /\ Seen(p, a).raw = run[p].raw \/ Seen(p, a).slug \in S
                BY <4>1
            <4> QED BY <1>4, <3>2, <3>5, <4>2 DEF Lookup, Finds, Kept
        <3> QED BY <3>4, <3>5
    <2>2. Others(p)
        BY <1>4, OneMoves DEF Lookup
    <2> QED BY <1>4, <2>1, <2>2 DEF Lookup, Prepares, NoneProcessed
<1>5. CASE Flush(p)
    <2>1. PICK a \in IF run[p].target = 0 THEN FreshIds ELSE {run[p].target} :
              /\ ~MustWait(p, a, NewRow(p, a).slug)
              /\ ~Taken(p, a, NewRow(p, a).slug)
              /\ run' = [run EXCEPT ![p] = [run[p] EXCEPT !.pc = "flushed", !.target = a]]
              /\ session' = [session EXCEPT ![p] = [session[p] EXCEPT
                                !.rows = [session[p].rows EXCEPT ![a] = NewRow(p, a)]]]
        BY <1>5 DEF Flush
    <2>2. /\ run'[p].target = a /\ run'[p].pc = "flushed"
          /\ run'[p].raw = run[p].raw /\ run'[p].slug = run[p].slug /\ run'[p].ai = run[p].ai
        BY <1>0, <2>1 DEF Run
    <2>3. session'[p] = [session[p] EXCEPT !.rows = [session[p].rows EXCEPT ![a] = NewRow(p, a)]]
        <3> DEFINE s == [session[p] EXCEPT !.rows = [session[p].rows EXCEPT ![a] = NewRow(p, a)]]
        <3>1. session' = [session EXCEPT ![p] = s]
            BY <2>1
        <3> HIDE DEF s
        <3>2. session'[p] = s
            BY <1>0, <3>1
        <3> QED BY <3>2 DEF s
    <2>4. Flushes(p)
        BY <1>5, <2>1, <2>2, <2>3 DEF Flush, Flushes
    <2>5. Others(p)
        BY <2>1, OneMoves
    <2> QED BY <1>5, <2>4, <2>5 DEF Flush, Prepares, NoneProcessed
<1>6. CASE FlushConflict(p)
    <2>1. Drops(p) /\ Others(p)
        BY <1>0, <1>6, OneMoves DEF FlushConflict, LoseSession, Drops
    <2> QED BY <1>6, <2>1 DEF FlushConflict, LoseSession, Prepares, NoneProcessed
<1>7. CASE CommitRun(p)
    <2> DEFINE s == [session[p] EXCEPT !.events = @ \cup {run[p].target},
                                       !.done = @ \cup {<<run[p].raw, run[p].loaded>>}]
    <2>1. /\ Commit(p, s) /\ status' = Processed(s) /\ run[p].pc = "flushed"
          /\ run' = [run EXCEPT ![p] = IdleRun] /\ UNCHANGED titles
        BY <1>7, Zenon DEF CommitRun
    <2>2. /\ s.rows = session[p].rows /\ s.left = session[p].left
          /\ s.events = session[p].events \cup {run[p].target}
          /\ s.done = session[p].done \cup {<<run[p].raw, run[p].loaded>>}
        BY <1>0 DEF Session
    <2> HIDE DEF s
    <2>3. article' = [a \in Id |-> Seen(p, a)]
        BY <2>1, <2>2, CommitIs
    <2>4. session' = [session EXCEPT ![p] = NewSession]
        BY <2>1 DEF Commit
    <2>5. Others(p)
        BY <2>1, <2>4, OneMoves
    <2>6. \A r \in Raw : status'[r] = "processed" =>
              status[r] = "processed" \/ (\E d \in session[p].done : d[1] = r) \/ run[p].raw = r
        BY <2>1, <2>2 DEF Processed
    <2>7. /\ published' = published \cup session[p].events \cup {run[p].target}
          /\ abandoned' = abandoned \cup session[p].left
        BY <2>1, <2>2 DEF Commit
    <2>8. run'[p] = IdleRun /\ session'[p] = NewSession
        BY <1>0, <2>1, <2>4
    <2> QED BY <2>1, <2>3, <2>5, <2>6, <2>7, <2>8 DEF Commits, Flushed
<1> QED BY <1>1, <1>2, <1>3, <1>4, <1>5, <1>6, <1>7 DEF RunStep

LEMMA StepKinds ==
    ASSUME TypeOK, RunOK, ReplayOK, [Next]_vars
    PROVE  \/ Still
           \/ \E r \in Raw : Renames(r)
           \/ \E p \in Proc : Prepares(p) \/ Commits(p)
<1> USE DEF store, titles, rawVars
<1>0. run \in [Proc -> Run] /\ session \in [Proc -> Session]
    BY DEF TypeOK
<1>1. ASSUME NEW r \in Raw, Ingest(r) \/ TimeOut(r)
      PROVE  Still
    BY <1>1 DEF Ingest, TimeOut, Still, NoneProcessed, TypeOK
<1>2. ASSUME NEW r \in Raw, Revise(r)
      PROVE  Still \/ Renames(r)
    BY <1>2 DEF Revise, Still, Renames, NoneProcessed, TypeOK
<1>3. ASSUME NEW p \in Planner, PlannerStep(p) \/ PlannerFails(p)
      PROVE  Still
    <2>1. CASE CommitPlan(p)
        BY <2>1 DEF CommitPlan, Still, NoneProcessed
    <2> QED BY <1>3, <2>1
            DEF PlannerStep, SelectFresh, Send, ClaimStale, PlannerFails, Still, NoneProcessed
<1>4. ASSUME NEW p \in Proc, NEW r \in Raw, Begin(p, r), run[p].pc = "idle",
             UNCHANGED <<rawVars, store, session>>
      PROVE  Prepares(p)
    <2>1. Restarts(p)
        BY <1>0, <1>4 DEF Begin, Restarts, Kept, IdleRun
    <2>2. Others(p)
        BY <1>4, OneMoves DEF Begin
    <2> QED BY <1>4, <2>1, <2>2 DEF Prepares, NoneProcessed
<1>5. ASSUME NEW p \in Celery, Receive(p)
      PROVE  Prepares(p)
    BY <1>4, <1>5 DEF Receive, Proc
<1>6. ASSUME NEW p \in Api, Replenish(p)
      PROVE  Still
    BY <1>6 DEF Replenish, Still, NoneProcessed
<1>7. ASSUME NEW p \in Api, RunInline(p)
      PROVE  Prepares(p)
    <2>1. PICK r \in todo[p] : Begin(p, r)
        BY <1>7 DEF RunInline
    <2>2. r \in Raw /\ p \in Proc
        BY DEF TypeOK, Proc
    <2> QED BY <1>4, <1>7, <2>1, <2>2 DEF RunInline
<1>8. ASSUME NEW p \in Api, CommitRest(p)
      PROVE  Commits(p)
    <2>0. p \in Proc
        BY DEF Proc
    <2>1. /\ Commit(p, session[p]) /\ status' = Processed(session[p]) /\ run[p].pc = "idle"
          /\ UNCHANGED <<titles, run>>
        BY <1>8, Zenon DEF CommitRest
    <2>2. article' = [a \in Id |-> Seen(p, a)]
        BY <2>0, <2>1, CommitIs
    <2>3. session' = [session EXCEPT ![p] = NewSession]
        BY <2>1 DEF Commit
    <2>4. Others(p)
        BY <2>0, <2>1, <2>3, OneMoves
    <2>5. \A r \in Raw : status'[r] = "processed" =>
              status[r] = "processed" \/ \E d \in session[p].done : d[1] = r
        BY <2>1 DEF Processed
    <2>6. /\ published' = published \cup session[p].events
          /\ abandoned' = abandoned \cup session[p].left
        BY <2>1 DEF Commit
    <2>7. ~Flushed(p)
        BY <2>1 DEF Flushed
    <2>8. run'[p] = IdleRun /\ session'[p] = NewSession
        BY <1>0, <2>0, <2>1, <2>3 DEF RunOK
    <2> QED BY <2>1, <2>2, <2>4, <2>5, <2>6, <2>7, <2>8 DEF Commits
<1>9. ASSUME NEW p \in Proc, RunRollsBack(p) \/ RunFails(p)
      PROVE  Prepares(p)
    <2>1. Drops(p) /\ Others(p)
        BY <1>0, <1>9, OneMoves DEF RunRollsBack, RunFails, LoseSession, Drops
    <2> QED BY <1>9, <2>1 DEF RunRollsBack, RunFails, LoseSession, Prepares, NoneProcessed
<1>10. ASSUME NEW p \in Proc, RunRaises(p)
       PROVE  Prepares(p)
    <2>0. run' = [run EXCEPT ![p] = IdleRun] /\ run'[p] = IdleRun /\ session[p] \in Session
        BY <1>0, <1>10 DEF RunRaises
    <2>1. CASE ~Flushed(p) /\ UNCHANGED session
        <3>1. Leaves(p)
            BY <2>0, <2>1 DEF Leaves, Kept
        <3>2. Others(p)
            BY <2>0, <2>1, OneMoves
        <3> QED BY <1>10, <3>1, <3>2 DEF RunRaises, Prepares, NoneProcessed
    <2>2. CASE Flushed(p)
        <3> DEFINE done == {<<run[p].raw, run[p].loaded>>}
                   id == {run[p].target}
        <3>1. PICK s \in {[session[p] EXCEPT !.left = @ \cup id],
                          [session[p] EXCEPT !.left = @ \cup id, !.done = @ \cup done],
                          [session[p] EXCEPT !.events = @ \cup id, !.done = @ \cup done]} :
                  session' = [session EXCEPT ![p] = s]
            BY <1>10, <2>2, Zenon DEF RunRaises
        <3>2. session'[p] = s
            BY <1>0, <3>1
        <3>3. /\ s.rows = session[p].rows
              /\ s.events \in {session[p].events, session[p].events \cup id}
              /\ s.left \in {session[p].left, session[p].left \cup id}
              /\ s.done \in {session[p].done, session[p].done \cup done}
              /\ run[p].target \in s.events \cup s.left
            BY <2>0 DEF Session
        <3>4. Leaves(p)
            BY <2>0, <2>2, <3>2, <3>3 DEF Leaves
        <3>5. Others(p)
            BY <2>0, <3>1, OneMoves
        <3> QED BY <1>10, <3>4, <3>5 DEF RunRaises, Prepares, NoneProcessed
    <2> QED BY <1>10, <2>1, <2>2 DEF RunRaises
<1>11. ASSUME NEW x \in Replayer, ReplayPasses(x) \/ ReplayFiltered(x)
       PROVE  \E r \in Raw : Renames(r)
    <2>1. replay[x].raw \in Raw
        BY <1>11, ReplayRaw DEF ReplayPasses, ReplayFiltered
    <2>2. Renames(replay[x].raw)
        BY <1>11, <2>1 DEF ReplayPasses, ReplayFiltered, Renames, NoneProcessed, TypeOK
    <2> QED BY <2>1, <2>2
<1>12. ASSUME NEW x \in Replayer,
              \/ ClaimFiltered(x) \/ SelectFiltered(x) \/ ReplayFails(x)
              \/ LoadReplay(x) \/ ReplayDone(x) \/ SendReplay(x)
       PROVE  Still
    BY <1>12 DEF ClaimFiltered, SelectFiltered, ReplayFails, LoadReplay, ReplayDone, SendReplay,
                 Still, NoneProcessed, TypeOK
<1>13. CASE UNCHANGED vars
    BY <1>13 DEF vars, Still, NoneProcessed
<1>14. Celery \subseteq Proc /\ Api \subseteq Proc
    BY DEF Proc
<1> QED BY <1>1, <1>2, <1>3, <1>5, <1>6, <1>7, <1>8, <1>9, <1>10, <1>11, <1>12, <1>13, <1>14,
           RunKinds DEF Next, ReplayStep

-----------------------------------------------------------------------------
(* What the sessions see afterwards.                                       *)

SameView(q) ==
    /\ Written(q)' = Written(q) /\ Visible(q)' = Visible(q)
    /\ \A a \in Id : Seen(q, a)' = Seen(q, a)
    /\ session'[q].rows = session[q].rows

LEMMA Unmoved ==
    ASSUME article' = article, NEW q \in Proc, session'[q].rows = session[q].rows
    PROVE  Stored' = Stored /\ SameView(q)
<1>1. Stored' = Stored
    BY DEF Stored
<1>2. Written(q)' = Written(q)
    BY DEF Written
<1>3. Visible(q)' = Visible(q)
    BY <1>1, <1>2 DEF Visible
<1>4. \A a \in Id : Seen(q, a)' = Seen(q, a)
    BY <1>2 DEF Seen
<1> QED BY <1>1, <1>2, <1>3, <1>4 DEF SameView

\* Every session sees what it saw.
AllSame ==
    /\ article' = article /\ Stored' = Stored
    /\ \A q \in Proc : SameView(q)

\* p's session has one row more, or another one.
AddsRow(p, a) ==
    LET row == NewRow(p, a)
    IN  /\ article' = article /\ Stored' = Stored
        /\ a \in Id /\ row \in Article
        /\ row.raw \in {run[p].raw, Seen(p, a).raw}
        /\ row.slug \in {run[p].slug, Seen(p, a).slug}
        /\ run[p].target = 0 => /\ a \notin Visible(p)
                                /\ row.raw = run[p].raw /\ row.slug = run[p].slug
        /\ run[p].target # 0 => a = run[p].target /\ a \in Visible(p)
        /\ Written(p)' = Written(p) \cup {a}
        /\ Visible(p)' = Visible(p) \cup {a}
        /\ \A b \in Id : Seen(p, b)' = IF b = a THEN row ELSE Seen(p, b)
        /\ \A b \in Id : session'[p].rows[b] = IF b = a THEN row ELSE session[p].rows[b]
        /\ \A q \in Proc \ {p} : SameView(q)

LosesRows(p) ==
    /\ article' = article /\ Stored' = Stored
    /\ Written(p)' = {} /\ Visible(p)' = Stored
    /\ \A a \in Id : Seen(p, a)' = article[a]
    /\ \A q \in Proc \ {p} : SameView(q)

\* What p's session saw is what is stored.
StoresRows(p) ==
    /\ Stored' = Visible(p)
    /\ \A a \in Id : article'[a] = Seen(p, a)
    /\ Written(p)' = {} /\ Visible(p)' = Visible(p)
    /\ \A a \in Id : Seen(p, a)' = Seen(p, a)
    /\ \A q \in Proc \ {p} :
          /\ Written(q)' = Written(q) /\ Visible(q)' = Visible(p) \cup Written(q)
          /\ session'[q].rows = session[q].rows
          /\ \A a \in Id : Seen(q, a)' = IF a \in Written(q) THEN Seen(q, a) ELSE Seen(p, a)

LEMMA FlushView ==
    ASSUME TypeOK, RunOK, NEW p \in Proc, Flushes(p), Others(p), article' = article
    PROVE  AddsRow(p, run'[p].target)
<1> DEFINE a == run'[p].target
           row == NewRow(p, a)
<1>1. /\ a \in Id /\ row \in Article
      /\ row.raw \in {run[p].raw, Seen(p, a).raw}
      /\ row.slug \in {run[p].slug, Seen(p, a).slug}
      /\ run[p].target # 0 => a \in Visible(p)
      /\ run[p].target = 0 => a \notin Stored /\ row.raw = run[p].raw /\ row.slug = run[p].slug
    BY FlushedRow DEF Flushes
<1>2. /\ run[p].target # 0 => a = run[p].target
      /\ run[p].target = 0 => a \notin Visible(p)
    BY DEF Flushes, FreshIds, FreeIds, Visible
<1> HIDE DEF row
<1>3. /\ session'[p].rows = [session[p].rows EXCEPT ![a] = row]
      /\ session[p].rows \in [Id -> Article \cup {NoArticle}]
    BY DEF Flushes, TypeOK, Session, row
<1>4. \A b \in Id : session'[p].rows[b] = IF b = a THEN row ELSE session[p].rows[b]
    BY <1>3
<1>5. row # NoArticle
    BY <1>1, Slugs
<1>6. Written(p)' = Written(p) \cup {a}
    BY <1>1, <1>4, <1>5 DEF Written
<1>7. Stored' = Stored
    BY DEF Stored
<1>8. Visible(p)' = Visible(p) \cup {a}
    BY <1>6, <1>7 DEF Visible
<1>9. \A b \in Id : Seen(p, b)' = IF b = a THEN row ELSE Seen(p, b)
    BY <1>4, <1>6 DEF Seen
<1>10. \A q \in Proc \ {p} : SameView(q)
    BY Unmoved DEF Others
<1> QED BY <1>1, <1>2, <1>4, <1>6, <1>7, <1>8, <1>9, <1>10 DEF AddsRow, row

LEMMA DropView ==
    ASSUME NEW p \in Proc, Drops(p), Others(p), article' = article
    PROVE  LosesRows(p)
<1>1. Written(p)' = {}
    BY DEF Written, Drops, NewSession
<1>2. Stored' = Stored
    BY DEF Stored
<1>3. Visible(p)' = Stored
    BY <1>1, <1>2 DEF Visible
<1>4. \A a \in Id : Seen(p, a)' = article[a]
    BY <1>1 DEF Seen
<1>5. \A q \in Proc \ {p} : SameView(q)
    BY Unmoved DEF Others
<1> QED BY <1>1, <1>2, <1>3, <1>4, <1>5 DEF LosesRows

LEMMA CommitView ==
    ASSUME TypeOK, NEW p \in Proc, Commits(p)
    PROVE  StoresRows(p)
<1>1. \A a \in Id : article'[a] = Seen(p, a)
    BY DEF Commits
<1>2. Stored' = Visible(p)
    <2>1. \A a \in Id : a \in Visible(p) <=> Seen(p, a) # NoArticle
        BY DEF Visible, Stored, Seen, Written
    <2>2. Visible(p) \subseteq Id
        BY DEF Visible, Stored, Written
    <2>3. Stored' = {a \in Id : article'[a] # NoArticle}
        BY DEF Stored
    <2> QED BY <1>1, <2>1, <2>2, <2>3
<1>3. Written(p)' = {}
    BY DEF Written, Commits, NewSession
<1>4. Visible(p)' = Visible(p)
    BY <1>2, <1>3 DEF Visible
<1>5. \A a \in Id : Seen(p, a)' = Seen(p, a)
    BY <1>1, <1>3 DEF Seen
<1>6. ASSUME NEW q \in Proc \ {p}
      PROVE  /\ Written(q)' = Written(q) /\ Visible(q)' = Visible(p) \cup Written(q)
             /\ session'[q].rows = session[q].rows
             /\ \A a \in Id : Seen(q, a)' = IF a \in Written(q) THEN Seen(q, a) ELSE Seen(p, a)
    <2>1. session'[q] = session[q]
        BY DEF Commits, Others
    <2>2. Written(q)' = Written(q)
        BY <2>1 DEF Written
    <2>3. Visible(q)' = Visible(p) \cup Written(q)
        BY <1>2, <2>2 DEF Visible
    <2>4. \A a \in Id : Seen(q, a)' = IF a \in Written(q)' THEN session'[q].rows[a] ELSE article'[a]
        BY DEF Seen
    <2>5. \A a \in Id : a \in Written(q) => Seen(q, a) = session[q].rows[a]
        BY DEF Seen
    <2> QED BY <1>1, <2>1, <2>2, <2>3, <2>4, <2>5
<1> QED BY <1>1, <1>2, <1>3, <1>4, <1>5, <1>6 DEF StoresRows

\* A step changes no row, one row of a session, a session's, or the stored.
LEMMA RowKinds ==
    ASSUME TypeOK, RunOK, ReplayOK, [Next]_vars
    PROVE  \/ AllSame
           \/ \E p \in Proc : \/ Prepares(p) /\ Flushes(p) /\ AddsRow(p, run'[p].target)
                              \/ Prepares(p) /\ Drops(p) /\ LosesRows(p)
                              \/ Commits(p) /\ StoresRows(p)
<1>1. CASE Still \/ \E r \in Raw : Renames(r)
    <2>1. article' = article /\ session' = session
        BY <1>1 DEF Still, Renames, store
    <2> QED BY <2>1, Unmoved DEF AllSame, Stored
<1>2. ASSUME NEW p \in Proc, Prepares(p)
      PROVE  \/ AllSame
             \/ Flushes(p) /\ AddsRow(p, run'[p].target)
             \/ Drops(p) /\ LosesRows(p)
    <2>1. article' = article /\ Others(p)
        BY <1>2 DEF Prepares, store
    <2>2. CASE session'[p].rows = session[p].rows
        <3>1. \A q \in Proc : session'[q].rows = session[q].rows
            BY <2>1, <2>2 DEF Others
        <3> QED BY <2>1, <3>1, Unmoved DEF AllSame, Stored
    <2>3. CASE Flushes(p)
        BY <2>1, <2>3, FlushView
    <2>4. CASE Drops(p)
        BY <2>1, <2>4, DropView
    <2>5. CASE Restarts(p) \/ Chooses(p) \/ Enriches(p) \/ Finds(p) \/ Leaves(p)
        <3>1. session'[p].rows = session[p].rows
            BY <2>5 DEF Restarts, Chooses, Enriches, Finds, Leaves, Kept
        <3> QED BY <2>2, <3>1
    <2> QED BY <1>2, <2>3, <2>4, <2>5 DEF Prepares
<1>3. ASSUME NEW p \in Proc, Commits(p)
      PROVE  StoresRows(p)
    BY <1>3, CommitView
<1> QED BY <1>1, <1>2, <1>3, StepKinds

-----------------------------------------------------------------------------
(* The invariant of the rows.                                              *)

RunOf(p) ==
    /\ IF run[p].pc = "idle" THEN run[p] = IdleRun
       ELSE run[p].raw \in Raw /\ run[p].slug \in Slug
    /\ run[p].ai # "kept"
    /\ run[p].pc = "found" =>
          IF run[p].target = 0 THEN run[p].seen = NoArticle
          ELSE run[p].target \in Visible(p) /\ run[p].seen \in Article
    /\ Flushed(p) => run[p].target \in Written(p)

\* A process that did not move has what it had: other sessions only add rows.
LEMMA RunNext ==
    ASSUME TypeOK, RunOK, ReplayOK, [Next]_vars
    PROVE  RunOK'
<1>0. \A q \in Proc : RunOf(q)
    BY DEF RunOK, RunOf
<1> SUFFICES ASSUME NEW q \in Proc
             PROVE  RunOf(q)'
    BY DEF RunOK, RunOf
<1>1. CASE run'[q] = run[q] /\ Written(q)' = Written(q) /\ Visible(q) \subseteq Visible(q)'
    BY <1>0, <1>1 DEF RunOf, Flushed
<1>2. CASE run'[q] = IdleRun
    BY <1>2 DEF RunOf, Flushed, IdleRun
<1>3. CASE Prepares(q)
    <2>0. /\ run[q] \in Run
          /\ run[q].pc # "idle" => run[q].raw \in Raw /\ run[q].slug \in Slug
          /\ run[q].ai # "kept"
        BY <1>0 DEF TypeOK, RunOf
    <2>1. CASE Restarts(q)
        <3>1. run'[q].slug \in Slug
            BY <2>1, Slugs DEF Restarts, TypeOK
        <3> QED BY <2>1, <3>1 DEF Restarts, RunOf, Flushed
    <2>2. CASE Chooses(q)
        <3>1. run'[q].slug \in Slug
            BY <2>0, <2>2, Slugs DEF Chooses
        <3> QED BY <2>0, <2>2, <3>1 DEF Chooses, RunOf, Flushed
    <2>3. CASE Enriches(q)
        BY <2>0, <2>3 DEF Enriches, RunOf, Flushed
    <2>4. CASE Finds(q)
        <3>1. article' = article /\ session'[q].rows = session[q].rows
            BY <1>3, <2>4 DEF Prepares, Finds, Kept, store
        <3>2. Visible(q)' = Visible(q)
            BY <3>1, Unmoved DEF SameView
        <3>3. \A a \in Visible(q) : a # 0 /\ Seen(q, a) \in Article
            BY SeenRow DEF Visible, Stored, Written, Id
        <3>4. /\ run'[q].pc = "found" /\ run'[q].raw \in Raw /\ run'[q].slug \in Slug
              /\ run'[q].ai # "kept"
            BY <2>0, <2>4 DEF Finds
        <3>5. CASE run'[q].target = 0
            <4>1. run'[q].seen = NoArticle
                BY <2>4, <3>3, <3>5 DEF Finds
            <4> QED BY <3>4, <3>5, <4>1 DEF RunOf, Flushed
        <3>6. CASE run'[q].target # 0
            <4>1. run'[q].target \in Visible(q)' /\ run'[q].seen \in Article
                BY <2>4, <3>2, <3>3, <3>6 DEF Finds
            <4> QED BY <3>4, <3>6, <4>1 DEF RunOf, Flushed
        <3> QED BY <3>5, <3>6
    <2>5. CASE Flushes(q)
        <3>1. run'[q].target \in Written(q)'
            BY <1>3, <2>5, FlushView DEF Prepares, store, AddsRow
        <3> QED BY <2>0, <2>5, <3>1 DEF Flushes, RunOf, Flushed
    <2>6. CASE Leaves(q) \/ Drops(q)
        BY <1>2, <2>6 DEF Leaves, Drops
    <2> QED BY <1>3, <2>1, <2>2, <2>3, <2>4, <2>5, <2>6 DEF Prepares
<1>4. CASE Still \/ \E r \in Raw : Renames(r)
    BY <1>1, <1>4, Unmoved DEF Still, Renames, store, SameView
<1>5. ASSUME NEW p \in Proc \ {q}, Prepares(p)
      PROVE  RunOf(q)'
    BY <1>1, <1>5, Unmoved DEF Prepares, Others, store, SameView
<1>6. ASSUME NEW p \in Proc \ {q}, Commits(p)
      PROVE  RunOf(q)'
    <2>1. run'[q] = run[q]
        BY <1>6 DEF Commits, Others
    <2>2. Written(q)' = Written(q) /\ Visible(q) \subseteq Visible(q)'
        BY <1>6, CommitView DEF StoresRows, Visible
    <2> QED BY <1>1, <2>1, <2>2
<1>7. CASE Commits(q)
    BY <1>2, <1>7 DEF Commits
<1> QED BY <1>3, <1>4, <1>5, <1>6, <1>7, StepKinds

\* Two sessions cannot both write a row or take a slug: the second waits, and
\* then finds it taken.
LEMMA SlugsNext ==
    ASSUME TypeOK, RunOK, ReplayOK, SlugsApart, [Next]_vars
    PROVE  SlugsApart'
<1> USE DEF SlugsApart
<1>0. /\ \A p \in Proc : Written(p) \subseteq Visible(p) /\ Stored \subseteq Visible(p)
                         /\ Visible(p) \subseteq Id /\ Written(p) \subseteq Id
      /\ \A p \in Proc : \A a \in Written(p) : Seen(p, a) = session[p].rows[a]
      /\ \A p \in Proc : \A a \in Visible(p) \ Written(p) : a \in Stored /\ Seen(p, a) = article[a]
      /\ Stored \subseteq Id
    BY DEF Visible, Seen, Written, Stored
<1>1. CASE AllSame
    <2>1. /\ \A a, b \in Stored' : article'[a].slug = article'[b].slug => a = b
          /\ \A p \in Proc : \A a \in Written(p)', b \in Visible(p)' :
                Seen(p, a)'.slug = Seen(p, b)'.slug => a = b
        BY <1>0, <1>1 DEF AllSame, SameView
    <2>2. \A p \in Proc : \A q \in Proc \ {p} : \A a \in Written(p)', b \in Written(q)' :
              a # b /\ session'[p].rows[a].slug # session'[q].rows[b].slug
        BY <1>1 DEF AllSame, SameView
    <2> QED BY <2>1, <2>2
<1>2. ASSUME NEW p \in Proc, Flushes(p), AddsRow(p, run'[p].target)
      PROVE  SlugsApart'
    <2> DEFINE a == run'[p].target
               row == NewRow(p, a)
    <2>1. /\ \A b \in Visible(p) \ {a} : Seen(p, b).slug # row.slug
          /\ \A q \in Proc \ {p} : \A b \in Written(q) :
                a # b /\ session[q].rows[b].slug # row.slug
        BY <1>2 DEF Flushes, MustWait, Taken
    <2>2. /\ a \in Id /\ Written(p)' = Written(p) \cup {a} /\ Visible(p)' = Visible(p) \cup {a}
          /\ \A b \in Id : Seen(p, b)' = IF b = a THEN row ELSE Seen(p, b)
          /\ \A b \in Id : session'[p].rows[b] = IF b = a THEN row ELSE session[p].rows[b]
          /\ article' = article /\ Stored' = Stored
          /\ \A q \in Proc \ {p} : SameView(q)
        BY <1>2 DEF AddsRow
    <2> HIDE DEF a, row
    <2>3. \A b, c \in Stored' : article'[b].slug = article'[c].slug => b = c
        BY <2>2
    <2>4. \A b \in Written(p)', c \in Visible(p)' : Seen(p, b)'.slug = Seen(p, c)'.slug => b = c
        <3> SUFFICES ASSUME NEW b \in Written(p)', NEW c \in Visible(p)',
                            Seen(p, b)'.slug = Seen(p, c)'.slug, b # c
                     PROVE  FALSE
            OBVIOUS
        <3>1. CASE b = a
            BY <1>0, <2>1, <2>2, <3>1
        <3>2. CASE c = a
            BY <1>0, <2>1, <2>2, <3>2
        <3>3. CASE b # a /\ c # a
            BY <1>0, <2>2, <3>3
        <3> QED BY <3>1, <3>2, <3>3
    <2>5. \A q \in Proc \ {p} : \A b \in Written(q)', c \in Visible(q)' :
              Seen(q, b)'.slug = Seen(q, c)'.slug => b = c
        BY <1>0, <2>2 DEF SameView
    <2>6. \A q \in Proc \ {p} : \A b \in Written(p)', c \in Written(q)' :
              b # c /\ session'[p].rows[b].slug # session'[q].rows[c].slug
        BY <1>0, <2>1, <2>2 DEF SameView
    <2>7. \A q, s \in Proc \ {p} : q # s => \A b \in Written(q)', c \in Written(s)' :
              b # c /\ session'[q].rows[b].slug # session'[s].rows[c].slug
        BY <2>2 DEF SameView
    <2> QED BY <2>3, <2>4, <2>5, <2>6, <2>7
<1>3. ASSUME NEW p \in Proc, LosesRows(p)
      PROVE  SlugsApart'
    <2>1. /\ \A a, b \in Stored' : article'[a].slug = article'[b].slug => a = b
          /\ \A q \in Proc : \A a \in Written(q)', b \in Visible(q)' :
                Seen(q, a)'.slug = Seen(q, b)'.slug => a = b
        BY <1>0, <1>3 DEF LosesRows, SameView
    <2>2. \A q \in Proc : \A s \in Proc \ {q} : \A a \in Written(q)', b \in Written(s)' :
              a # b /\ session'[q].rows[a].slug # session'[s].rows[b].slug
        BY <1>3 DEF LosesRows, SameView
    <2> QED BY <2>1, <2>2
<1>4. ASSUME NEW p \in Proc, StoresRows(p)
      PROVE  SlugsApart'
    <2>1. \A a, b \in Visible(p) : Seen(p, a).slug = Seen(p, b).slug => a = b
        BY <1>0
    <2>2. \A a, b \in Stored' : article'[a].slug = article'[b].slug => a = b
        BY <1>0, <1>4, <2>1 DEF StoresRows
    <2>3. ASSUME NEW q \in Proc \ {p}, NEW a \in Written(q)', NEW b \in Visible(q)',
                 Seen(q, a)'.slug = Seen(q, b)'.slug
          PROVE  a = b
        <3>1. /\ a \in Written(q) /\ a \in Id /\ Seen(q, a)' = Seen(q, a)
              /\ b \in Visible(p) \cup Written(q) /\ b \in Id
              /\ Seen(q, b)' = IF b \in Written(q) THEN Seen(q, b) ELSE Seen(p, b)
            BY <1>0, <1>4 DEF StoresRows
        <3>2. CASE b \in Written(q)
            BY <1>0, <2>3, <3>1, <3>2
        <3>3. CASE b \notin Written(q) /\ b \in Written(p)
            <4>1. session[p].rows[b].slug # session[q].rows[a].slug
                BY <3>1, <3>3
            <4> QED BY <1>0, <2>3, <3>1, <3>3, <4>1
        <3>4. CASE b \notin Written(q) /\ b \notin Written(p)
            <4>1. b \in Stored /\ Seen(p, b) = article[b] /\ Seen(q, b) = article[b]
                BY <1>0, <3>1, <3>4 DEF Seen
            <4> QED BY <1>0, <2>3, <3>1, <3>4, <4>1
        <3> QED BY <3>2, <3>3, <3>4
    <2>4. Written(p)' = {}
        BY <1>4 DEF StoresRows
    <2>5. \A q \in Proc : \A s \in Proc \ {q} : \A a \in Written(q)', b \in Written(s)' :
              a # b /\ session'[q].rows[a].slug # session'[s].rows[b].slug
        BY <1>4 DEF StoresRows
    <2> QED BY <2>2, <2>3, <2>4, <2>5
<1> QED BY <1>1, <1>2, <1>3, <1>4, RowKinds

LEMMA TitlesInOut ==
    ASSUME TypeOK, [Next]_vars, RunOK, ReplayOK
    PROVE  UNCHANGED titles \/ \E r \in Raw : Renames(r)
BY StepKinds DEF Still, Prepares, Commits

\* A slug is never of a title that no raw article has had.
LEMMA TitlesNext ==
    ASSUME TypeOK, RunOK, ReplayOK, TitlesKept, [Next]_vars
    PROVE  TitlesKept'
<1> DEFINE Known(row) == \E r \in Raw : row.slug[1] \in had[r]
<1>0. /\ \A a \in Stored : Known(article[a])
      /\ \A p \in Proc : \A a \in Written(p) : Known(session[p].rows[a])
      /\ \A p \in Proc : \A a \in Visible(p) : Known(Seen(p, a)) /\ a \in Id
      /\ Stored \subseteq Id
      /\ \A p \in Proc : Written(p) \subseteq Id /\ Written(p) \subseteq Visible(p)
      /\ \A p \in Proc : \A a \in Written(p) : Seen(p, a) = session[p].rows[a]
    BY DEF TitlesKept, Visible, Seen, Stored, Written
<1>1. ASSUME NEW r \in Raw, Renames(r)
      PROVE  TitlesKept'
    <2>1. PICK t \in TitlesOf[r] : /\ title' = [title EXCEPT ![r] = t]
                                   /\ had' = [had EXCEPT ![r] = had[r] \cup {t}]
        BY <1>1 DEF Renames, Rename
    <2>2. \A q \in Raw : had[q] \subseteq had'[q] /\ title'[q] \in had'[q] /\ had'[q] \subseteq TitlesOf[q]
        BY <2>1 DEF TypeOK, TitlesKept
    <2>3. UNCHANGED <<article, run, session>>
        BY <1>1 DEF Renames, store
    <2>4. Stored' = Stored /\ \A p \in Proc : Written(p)' = Written(p)
        BY <2>3 DEF Stored, Written
    <2>5. \A p \in Proc : run[p].pc # "idle" => run[p].raw \in Raw
        BY DEF RunOK
    <2> QED BY <2>2, <2>3, <2>4, <2>5 DEF TitlesKept
<1>2. ASSUME UNCHANGED titles
      PROVE  TitlesKept'
    <2>0. title' = title /\ had' = had
        BY <1>2 DEF titles
    <2> DEFINE RowsKnown == /\ \A a \in Stored' : Known(article'[a])
                            /\ \A p \in Proc : \A a \in Written(p)' : Known(session'[p].rows[a])
    <2>1. RowsKnown
        <3>1. CASE AllSame
            BY <1>0, <3>1 DEF AllSame, SameView
        <3>2. ASSUME NEW p \in Proc, Flushes(p), AddsRow(p, run'[p].target)
              PROVE  RowsKnown
            <4> DEFINE b == run'[p].target
            <4>1. Known(NewRow(p, b))
                <5>1. run[p].raw \in Raw /\ run[p].slug[1] \in had[run[p].raw]
                    BY <3>2 DEF Flushes, RunOK, TitlesKept
                <5>2. \/ NewRow(p, b).slug = run[p].slug
                      \/ b \in Visible(p) /\ NewRow(p, b).slug = Seen(p, b).slug
                    BY <3>2 DEF AddsRow
                <5> QED BY <1>0, <5>1, <5>2
            <4> HIDE DEF b, Known
            <4> QED BY <1>0, <3>2, <4>1 DEF AddsRow, SameView, b
        <3>3. ASSUME NEW p \in Proc, LosesRows(p)
              PROVE  RowsKnown
            BY <1>0, <3>3 DEF LosesRows, SameView
        <3>4. ASSUME NEW p \in Proc, StoresRows(p)
              PROVE  RowsKnown
            BY <1>0, <3>4 DEF StoresRows
        <3> QED BY <3>1, <3>2, <3>3, <3>4, RowKinds
    <2>2. \A q \in Proc : run'[q].pc # "idle" => run'[q].slug[1] \in had[run'[q].raw]
        <3> SUFFICES ASSUME NEW q \in Proc, run'[q].pc # "idle"
                     PROVE  run'[q].slug[1] \in had[run'[q].raw]
            OBVIOUS
        <3>1. CASE run'[q] = run[q]
            BY <3>1 DEF TitlesKept
        <3>2. CASE Prepares(q)
            <4>1. CASE Restarts(q)
                BY <4>1, Slugs DEF Restarts, TitlesKept, TypeOK
            <4>2. CASE Chooses(q)
                <5>1. run[q].slug[1] \in Title /\ run[q].raw \in Raw
                    BY <4>2, Slugs DEF Chooses, RunOK
                <5>2. run'[q].slug[1] = run[q].slug[1]
                    BY <4>2, <5>1, Slugs DEF Chooses
                <5> QED BY <4>2, <5>2 DEF Chooses, TitlesKept
            <4>3. CASE Enriches(q) \/ Finds(q) \/ Flushes(q)
                BY <4>3 DEF Enriches, Finds, Flushes, TitlesKept
            <4>4. CASE Leaves(q) \/ Drops(q)
                BY <4>4 DEF Leaves, Drops, IdleRun
            <4> QED BY <3>2, <4>1, <4>2, <4>3, <4>4 DEF Prepares
        <3>3. CASE Commits(q)
            BY <3>3 DEF Commits, IdleRun
        <3>4. CASE \E p \in Proc \ {q} : Prepares(p) \/ Commits(p)
            BY <3>1, <3>4 DEF Prepares, Commits, Others
        <3>5. CASE Still \/ \E r \in Raw : Renames(r)
            BY <3>1, <3>5 DEF Still, Renames
        <3> QED BY <3>2, <3>3, <3>4, <3>5, StepKinds
    <2>3. \A q \in Proc : run'[q].pc # "idle" => run'[q].slug[1] \in had'[run'[q].raw]
        BY <2>0, <2>2
    <2>4. /\ \A a \in Stored' : \E r \in Raw : article'[a].slug[1] \in had'[r]
          /\ \A p \in Proc : \A a \in Written(p)' :
                \E r \in Raw : session'[p].rows[a].slug[1] \in had'[r]
        BY <2>0, <2>1
    <2>5. \A r \in Raw : title'[r] \in had'[r] /\ had'[r] \subseteq TitlesOf[r]
        BY <2>0 DEF TitlesKept
    <2> QED BY <2>3, <2>4, <2>5 DEF TitlesKept
<1> QED BY <1>1, <1>2, TitlesInOut

RowsOf(r) ==
    /\ \A a \in Stored : Own(r, article[a])
    /\ \A p \in Proc : \A a \in Written(p) :
          /\ Own(r, session[p].rows[a])
          /\ a \in Stored => (article[a].raw = r <=> session[p].rows[a].raw = r)

RunsOf(r, p) ==
    /\ run[p].raw = r => run[p].slug[2] = 0
    /\ run[p].pc \in {"found", "flushed"} /\ run[p].target # 0 =>
          (Seen(p, run[p].target).raw = r <=> run[p].raw = r)

\* r has had no title that another has had: what it is given later neither
\* makes a row its own nor takes one from it.
LEMMA OwnRenamed ==
    ASSUME TypeOK, TitlesKept, OwnTitleSlug, NEW q \in Raw, Renames(q),
           NEW r \in Raw, OnlyTitle(r)'
    PROVE  RowsOf(r)' /\ \A p \in Proc : RunsOf(r, p)'
<1>1. PICK t \in TitlesOf[q] : had' = [had EXCEPT ![q] = had[q] \cup {t}]
    BY DEF Renames, Rename
<1>2. \A s \in Raw : had'[s] = IF s = q THEN had[q] \cup {t} ELSE had[s]
    BY <1>1 DEF TypeOK
<1>3. OnlyTitle(r)
    BY <1>2 DEF OnlyTitle
<1>4. ASSUME NEW s \in Raw, NEW x \in had[s]
      PROVE  x \in had'[r] <=> x \in had[r]
    BY <1>2 DEF OnlyTitle
<1>5. UNCHANGED <<article, run, session>>
    BY DEF Renames, store
<1>6. Stored' = Stored /\ \A p \in Proc : SameView(p)
    BY <1>5, Unmoved DEF Stored
<1>7. RowsOf(r) /\ \A p \in Proc : RunsOf(r, p)
    BY <1>3 DEF OwnTitleSlug, RowsOf, RunsOf
<1>8. \A a \in Stored : Own(r, article[a])'
    BY <1>4, <1>5, <1>7 DEF RowsOf, Own, TitlesKept
<1>9. \A p \in Proc : \A a \in Written(p) : Own(r, session[p].rows[a])'
    BY <1>4, <1>5, <1>7 DEF RowsOf, Own, TitlesKept
<1>10. RowsOf(r)'
    BY <1>5, <1>6, <1>7, <1>8, <1>9 DEF RowsOf, SameView
<1>11. \A p \in Proc : RunsOf(r, p)'
    <2> SUFFICES ASSUME NEW p \in Proc
                 PROVE  RunsOf(r, p)'
        OBVIOUS
    <2>1. Seen(p, run[p].target)' = Seen(p, run[p].target)
        BY <1>5, <1>6 DEF Seen, SameView
    <2> QED BY <1>5, <1>7, <2>1 DEF RunsOf
<1> QED BY <1>10, <1>11

LEMMA OwnNext ==
    ASSUME TypeOK, RunOK, ReplayOK, TitlesKept, OwnTitleSlug, SlugsApart, [Next]_vars
    PROVE  OwnTitleSlug'
<1> SUFFICES ASSUME NEW r \in Raw, OnlyTitle(r)'
             PROVE  RowsOf(r)' /\ \A p \in Proc : RunsOf(r, p)'
    BY DEF OwnTitleSlug, RowsOf, RunsOf
<1>1. ASSUME NEW q \in Raw, Renames(q)
      PROVE  RowsOf(r)' /\ \A p \in Proc : RunsOf(r, p)'
    BY <1>1, OwnRenamed
<1>2. ASSUME UNCHANGED titles
      PROVE  RowsOf(r)' /\ \A p \in Proc : RunsOf(r, p)'
    <2>0. had' = had /\ OnlyTitle(r)
        BY <1>2 DEF titles, OnlyTitle
    <2>1. RowsOf(r) /\ \A p \in Proc : RunsOf(r, p)
        BY <2>0 DEF OwnTitleSlug, RowsOf, RunsOf
    <2>2. \A row : Own(r, row)' <=> Own(r, row)
        BY <2>0 DEF Own
    <2>3. /\ \A p \in Proc : \A a \in Visible(p) : Own(r, Seen(p, a)) /\ a \in Id /\ a # 0
          /\ Stored \subseteq Id
          /\ \A p \in Proc : Written(p) \subseteq Id
          /\ \A p \in Proc : \A a \in Stored : article[a].raw = r <=> Seen(p, a).raw = r
          /\ \A p \in Proc : \A a \in Written(p) : Seen(p, a) = session[p].rows[a]
          /\ \A p \in Proc : \A a \in Id \ Written(p) : Seen(p, a) = article[a]
          /\ \A p \in Proc : Visible(p) = Stored \cup Written(p)
        BY <2>1 DEF RowsOf, Visible, Seen, Written, Stored, Id
    <2>4. \A p \in Proc : run[p].pc \in {"found", "flushed"} /\ run[p].target # 0 =>
              run[p].target \in Visible(p) /\ run[p].target \in Id
        BY <2>3 DEF RunOK, Flushed
    <2>5. ASSUME NEW p \in Proc, Flushes(p), AddsRow(p, run'[p].target)
          PROVE  LET a == run'[p].target
                     row == NewRow(p, a)
                 IN  Own(r, row) /\ (row.raw = r <=> run[p].raw = r)
                     /\ (a \in Visible(p) => (Seen(p, a).raw = r <=> run[p].raw = r))
        <3> DEFINE a == run'[p].target
                   row == NewRow(p, a)
        <3>1. /\ run[p].raw \in Raw /\ run[p].slug[1] \in had[run[p].raw]
              /\ run[p].raw = r => run[p].slug[2] = 0
            BY <2>1, <2>5 DEF Flushes, RunOK, TitlesKept, RunsOf
        <3>2. run[p].slug[1] \in had[r] <=> run[p].raw = r
            BY <2>0, <3>1 DEF OnlyTitle
        <3>3. CASE run[p].target = 0
            <4>1. row.raw = run[p].raw /\ row.slug = run[p].slug /\ a \notin Visible(p)
                BY <2>5, <3>3 DEF AddsRow
            <4> QED BY <3>1, <3>2, <4>1 DEF Own
        <3>4. CASE run[p].target # 0
            <4>1. /\ a = run[p].target /\ a \in Visible(p)
                  /\ row.raw \in {run[p].raw, Seen(p, a).raw}
                  /\ row.slug \in {run[p].slug, Seen(p, a).slug}
                BY <2>5, <3>4 DEF AddsRow
            <4>2. Seen(p, a).raw = r <=> run[p].raw = r
                BY <2>1, <2>5, <3>4, <4>1 DEF Flushes, RunsOf
            <4>3. Own(r, Seen(p, a))
                BY <2>3, <4>1
            <4> HIDE DEF a, row
            <4> QED BY <3>1, <3>2, <4>1, <4>2, <4>3 DEF Own, a, row
        <3> QED BY <3>3, <3>4
    <2>6. RowsOf(r)'
        <3>1. CASE AllSame
            BY <2>1, <2>2, <3>1 DEF AllSame, SameView, RowsOf
        <3>2. ASSUME NEW p \in Proc, Flushes(p), AddsRow(p, run'[p].target)
              PROVE  RowsOf(r)'
            <4> DEFINE a == run'[p].target
                       row == NewRow(p, a)
            <4>1. /\ Own(r, row) /\ (row.raw = r <=> run[p].raw = r)
                  /\ a \in Visible(p) => (Seen(p, a).raw = r <=> run[p].raw = r)
                BY <2>5, <3>2
            <4>2. /\ a \in Id /\ Written(p)' = Written(p) \cup {a}
                  /\ \A b \in Id : session'[p].rows[b] = IF b = a THEN row ELSE session[p].rows[b]
                  /\ article' = article /\ Stored' = Stored
                  /\ \A q \in Proc \ {p} : SameView(q)
                BY <3>2 DEF AddsRow
            <4> HIDE DEF a, row
            <4>3. \A b \in Stored' : Own(r, article'[b])
                BY <2>1, <4>2 DEF RowsOf
            <4>4. ASSUME NEW q \in Proc, NEW b \in Written(q)'
                  PROVE  /\ Own(r, session'[q].rows[b])
                         /\ b \in Stored' => (article'[b].raw = r <=> session'[q].rows[b].raw = r)
                <5>1. CASE q = p /\ b = a
                    BY <2>3, <4>1, <4>2, <5>1
                <5>2. CASE q = p /\ b # a
                    BY <2>1, <2>3, <4>2, <4>4, <5>2 DEF RowsOf
                <5>3. CASE q # p
                    BY <2>1, <4>2, <4>4, <5>3 DEF RowsOf, SameView
                <5> QED BY <5>1, <5>2, <5>3
            <4> QED BY <2>2, <4>3, <4>4 DEF RowsOf
        <3>3. ASSUME NEW p \in Proc, LosesRows(p)
              PROVE  RowsOf(r)'
            <4>1. \A a \in Stored' : Own(r, article'[a])
                BY <2>1, <3>3 DEF LosesRows, RowsOf
            <4>2. \A q \in Proc : \A a \in Written(q)' :
                    /\ Own(r, session'[q].rows[a])
                    /\ a \in Stored' => (article'[a].raw = r <=> session'[q].rows[a].raw = r)
                BY <2>1, <3>3 DEF LosesRows, RowsOf, SameView
            <4> QED BY <2>2, <4>1, <4>2 DEF RowsOf
        <3>4. ASSUME NEW p \in Proc, StoresRows(p)
              PROVE  RowsOf(r)'
            <4>1. \A a \in Stored' : Own(r, article'[a])
                BY <2>3, <3>4 DEF StoresRows
            <4>2. ASSUME NEW q \in Proc, NEW a \in Written(q)'
                  PROVE  /\ Own(r, session'[q].rows[a])
                         /\ a \in Stored' => (article'[a].raw = r <=> session'[q].rows[a].raw = r)
                <5>1. /\ q # p /\ a \in Written(q) /\ session'[q].rows = session[q].rows
                      /\ a \in Id /\ article'[a] = Seen(p, a) /\ Stored' = Visible(p)
                    BY <2>3, <3>4, <4>2 DEF StoresRows
                <5>2. a \notin Written(p)
                    BY <5>1 DEF SlugsApart
                <5> QED BY <2>1, <2>3, <5>1, <5>2 DEF RowsOf
            <4> QED BY <2>2, <4>1, <4>2 DEF RowsOf
        <3> QED BY <3>1, <3>2, <3>3, <3>4, RowKinds
    <2>7. ASSUME NEW q \in Proc
          PROVE  RunsOf(r, q)'
        <3>1. CASE run'[q] = run[q] /\ SameView(q)
            BY <2>1, <2>4, <3>1 DEF RunsOf, SameView
        <3>2. CASE run'[q] = IdleRun
            <4>1. 0 # r
                BY Slugs
            <4> QED BY <3>2, <4>1 DEF RunsOf, IdleRun
        <3>3. CASE Still
            BY <3>1, <3>3, Unmoved DEF Still, store
        <3>4. CASE Prepares(q)
            <4>1. article' = article
                BY <3>4 DEF Prepares, store
            <4>2. run[q].pc # "idle" => /\ run[q].raw \in Raw /\ run[q].slug \in Slug
                                        /\ run[q].slug[1] \in had[run[q].raw]
                                        /\ run[q].slug[1] \in Title
                BY Slugs DEF RunOK, TitlesKept
            <4>3. CASE Restarts(q)
                BY <4>3, Slugs DEF Restarts, RunsOf, TypeOK
            <4>4. CASE Chooses(q)
                <5>1. run[q].raw = r => run'[q].slug = BaseSlug(run[q].slug[1])
                    <6> SUFFICES ASSUME run[q].raw = r, run'[q].slug # BaseSlug(run[q].slug[1])
                                 PROVE  FALSE
                        OBVIOUS
                    <6>1. PICK a \in Visible(q) : /\ Seen(q, a).slug = BaseSlug(run[q].slug[1])
                                                  /\ Seen(q, a).raw # r
                        BY <4>4 DEF Chooses
                    <6>2. Own(r, Seen(q, a)) /\ Seen(q, a).slug[1] \in had[r]
                        BY <2>3, <4>2, <4>4, <6>1, Slugs DEF Chooses
                    <6> QED BY <6>1, <6>2 DEF Own
                <5> QED BY <4>2, <4>4, <5>1, Slugs DEF Chooses, RunsOf
            <4>5. CASE Enriches(q)
                BY <2>1, <4>5 DEF Enriches, RunsOf
            <4>6. CASE Finds(q)
                <5>1. SameView(q)
                    BY <4>1, <4>6, Unmoved DEF Finds, Kept
                <5>2. CASE run'[q].target = 0
                    BY <2>1, <4>6, <5>2 DEF Finds, RunsOf
                <5>3. CASE run'[q].target # 0
                    <6>0. PICK a : a = run'[q].target
                        OBVIOUS
                    <6>1. /\ a \in Visible(q)
                          /\ \/ Seen(q, a).raw = run[q].raw
                             \/ Seen(q, a).slug \in {BaseSlug(run[q].slug[1]), run[q].slug}
                        BY <2>3, <4>6, <5>3, <6>0 DEF Finds
                    <6>2. Seen(q, a).raw = run[q].raw \/ Seen(q, a).slug[1] = run[q].slug[1]
                        BY <4>2, <4>6, <6>1, Slugs DEF Finds
                    <6>3. Own(r, Seen(q, a)) /\ a \in Id
                        BY <2>3, <6>1
                    <6>4. run[q].slug[1] \in had[r] <=> run[q].raw = r
                        BY <2>0, <4>2, <4>6 DEF OnlyTitle, Finds
                    <6>5. Seen(q, a).raw = r <=> run[q].raw = r
                        BY <6>2, <6>3, <6>4 DEF Own
                    <6>6. Seen(q, a)' = Seen(q, a)
                        BY <5>1, <6>3 DEF SameView
                    <6>7. Seen(q, run[q].target)' = Seen(q, a)
                        BY <6>0, <6>6 DEF Seen
                    <6> QED BY <2>1, <4>6, <6>5, <6>7 DEF Finds, RunsOf
                <5> QED BY <5>2, <5>3
            <4>7. CASE Flushes(q)
                <5>0. PICK a : a = run'[q].target
                    OBVIOUS
                <5>1. AddsRow(q, a)
                    BY <3>4, <4>1, <4>7, <5>0, FlushView DEF Prepares
                <5>2. Seen(q, a)' = NewRow(q, a)
                    BY <5>1 DEF AddsRow
                <5>3. Seen(q, run[q].target)' = NewRow(q, a)
                    BY <5>0, <5>2 DEF Seen
                <5>4. NewRow(q, a).raw = r <=> run[q].raw = r
                    BY <2>5, <4>7, <5>0, <5>1
                <5>5. run'[q].raw = run[q].raw /\ run'[q].slug = run[q].slug
                    BY <4>7 DEF Flushes
                <5> QED BY <2>1, <5>3, <5>4, <5>5 DEF RunsOf
            <4>8. CASE Leaves(q) \/ Drops(q)
                BY <3>2, <4>8 DEF Leaves, Drops
            <4> QED BY <3>4, <4>3, <4>4, <4>5, <4>6, <4>7, <4>8 DEF Prepares
        <3>5. CASE Commits(q)
            BY <3>2, <3>5 DEF Commits
        <3>6. ASSUME NEW p \in Proc \ {q}, Prepares(p)
              PROVE  RunsOf(r, q)'
            BY <3>1, <3>6, Unmoved DEF Prepares, Others, store
        <3>7. ASSUME NEW p \in Proc \ {q}, Commits(p)
              PROVE  RunsOf(r, q)'
            <4>1. run'[q] = run[q]
                BY <3>7 DEF Commits, Others
            <4>2. StoresRows(p)
                BY <3>7, CommitView
            <4>3. CASE run[q].pc \in {"found", "flushed"} /\ run[q].target # 0
                <5>0. PICK a : a = run[q].target
                    OBVIOUS
                <5>1. a \in Visible(q) /\ a \in Id
                    BY <2>4, <4>3, <5>0
                <5>2. Seen(q, a)' = IF a \in Written(q) THEN Seen(q, a) ELSE Seen(p, a)
                    BY <4>2, <5>1 DEF StoresRows
                <5>3. a \notin Written(q) => (Seen(p, a).raw = r <=> Seen(q, a).raw = r)
                    BY <2>3, <5>1
                <5>4. Seen(q, run[q].target)' = Seen(q, a)'
                    BY <4>1, <5>0 DEF Seen
                <5> QED BY <2>1, <4>1, <4>3, <5>0, <5>2, <5>3, <5>4 DEF RunsOf
            <4>4. CASE ~(run[q].pc \in {"found", "flushed"} /\ run[q].target # 0)
                BY <2>1, <4>1, <4>4 DEF RunsOf
            <4> QED BY <4>3, <4>4
        <3>8. CASE \E s \in Raw : Renames(s)
            BY <1>1, <3>8
        <3> QED BY <3>3, <3>4, <3>5, <3>6, <3>7, <3>8, StepKinds
    <2> QED BY <2>6, <2>7
<1> QED BY <1>1, <1>2, TitlesInOut

LEMMA ArticleNext ==
    ASSUME TypeOK, ReplayOK, ArticleInv, [Next]_vars
    PROVE  ArticleInv'
BY RunNext, SlugsNext, TitlesNext, OwnNext DEF ArticleInv

\* A session's events are about rows that it has written; a row without one is
\* a run's that has still to announce it, or that has left it behind.
LEMMA EventsNext ==
    ASSUME TypeOK, RunOK, ReplayOK, EventsOK, [Next]_vars
    PROVE  EventsOK'
<1> DEFINE Sound(p) ==
        /\ session[p].events \subseteq Written(p)
        /\ \A a \in Written(p) : \/ a \in session[p].events \cup session[p].left
                                 \/ Flushed(p) /\ a = run[p].target
<1>0. \A q \in Proc : Sound(q)
    BY DEF EventsOK
<1> SUFFICES ASSUME NEW q \in Proc
             PROVE  Sound(q)'
    BY DEF EventsOK
<1>1. CASE run'[q] = run[q] /\ session'[q] = session[q]
    BY <1>0, <1>1 DEF Flushed, Written
<1>2. CASE session'[q] = NewSession
    BY <1>2 DEF NewSession, Written
<1>3. CASE Prepares(q)
    <2>1. CASE Restarts(q) \/ Chooses(q) \/ Enriches(q) \/ Finds(q)
        <3>1. ~Flushed(q) /\ session'[q] = session[q]
            BY <2>1 DEF Restarts, Chooses, Enriches, Finds, Kept, Flushed
        <3> QED BY <1>0, <3>1 DEF Written
    <2>2. CASE Flushes(q)
        <3>0. PICK a : a = run'[q].target
            OBVIOUS
        <3>1. ~Flushed(q) /\ Flushed(q)'
            BY <2>2 DEF Flushes, Flushed
        <3>2. Written(q)' = Written(q) \cup {a}
            BY <1>3, <2>2, <3>0, FlushView DEF Prepares, store, AddsRow
        <3>3. session'[q].events = session[q].events /\ session'[q].left = session[q].left
            BY <2>2 DEF Flushes, TypeOK, Session
        <3> QED BY <1>0, <3>0, <3>1, <3>2, <3>3
    <2>3. CASE Leaves(q)
        <3>1. Written(q)' = Written(q)
            BY <2>3 DEF Leaves, Written
        <3>2. CASE Flushed(q)
            <4>1. run[q].target \in Written(q)
                BY <3>2 DEF RunOK
            <4> QED BY <1>0, <2>3, <3>1, <3>2, <4>1 DEF Leaves
        <3>3. CASE ~Flushed(q)
            BY <1>0, <2>3, <3>1, <3>3 DEF Leaves, Kept
        <3> QED BY <3>2, <3>3
    <2>4. CASE Drops(q)
        BY <1>2, <2>4 DEF Drops
    <2> QED BY <1>3, <2>1, <2>2, <2>3, <2>4 DEF Prepares
<1>4. CASE Commits(q)
    BY <1>2, <1>4 DEF Commits
<1>5. CASE \E p \in Proc \ {q} : Prepares(p) \/ Commits(p)
    BY <1>1, <1>5 DEF Prepares, Commits, Others
<1>6. CASE Still \/ \E r \in Raw : Renames(r)
    BY <1>1, <1>6 DEF Still, Renames
<1> QED BY <1>3, <1>4, <1>5, <1>6, StepKinds

\* Titles are only added.
LEMMA OnlyMore ==
    ASSUME TypeOK, RunOK, ReplayOK, [Next]_vars, NEW r \in Raw, OnlyTitle(r)'
    PROVE  OnlyTitle(r)
<1>1. \A s \in Raw : had[s] \subseteq had'[s]
    <2>1. CASE UNCHANGED titles
        BY <2>1 DEF titles
    <2>2. ASSUME NEW q \in Raw, Renames(q)
          PROVE  \A s \in Raw : had[s] \subseteq had'[s]
        <3>1. PICK t \in TitlesOf[q] : had' = [had EXCEPT ![q] = had[q] \cup {t}]
            BY <2>2 DEF Renames, Rename
        <3> QED BY <3>1 DEF TypeOK
    <2> QED BY <2>1, <2>2, TitlesInOut
<1> QED BY <1>1 DEF OnlyTitle

\* The row that a session has for a raw article is written over by its own
\* runs alone.
LEMMA DoneNext ==
    ASSUME TypeOK, ReplayOK, ArticleInv, DoneOK, [Next]_vars
    PROVE  DoneOK'
<1> DEFINE Has(p, r) == \E a \in Written(p) : session[p].rows[a].raw = r
           Sound(p) == \A d \in session[p].done : OnlyTitle(d[1]) => Has(p, d[1])
<1>0. /\ \A q \in Proc : Sound(q)
      /\ RunOK
    BY DEF DoneOK, ArticleInv
<1> SUFFICES ASSUME NEW q \in Proc, NEW d \in session'[q].done, OnlyTitle(d[1])
             PROVE  Has(q, d[1])'
    <2>1. TypeOK'
        BY TypeNext DEF ArticleInv
    <2>2. \A q \in Proc : \A d \in session'[q].done : d[1] \in Raw
        BY <2>1 DEF TypeOK, Session
    <2> QED BY <2>2, OnlyMore DEF DoneOK, ArticleInv
<1>1. CASE session'[q] = session[q]
    BY <1>0, <1>1 DEF Written
<1>2. CASE session'[q] = NewSession
    BY <1>2 DEF NewSession
<1>3. CASE Prepares(q)
    <2>1. CASE Restarts(q) \/ Chooses(q) \/ Enriches(q) \/ Finds(q)
        BY <1>1, <2>1 DEF Restarts, Chooses, Enriches, Finds, Kept
    <2>2. CASE Flushes(q)
        <3>0. PICK a : a = run'[q].target
            OBVIOUS
        <3>1. AddsRow(q, a)
            BY <1>0, <1>3, <2>2, <3>0, FlushView DEF Prepares, store
        <3>2. d \in session[q].done /\ d[1] \in Raw
            BY <2>2 DEF Flushes, TypeOK, Session
        <3>3. PICK b \in Written(q) : session[q].rows[b].raw = d[1]
            BY <1>0, <3>2
        <3>4. b \in Id /\ b \in Written(q)'
            BY <3>1, <3>3 DEF AddsRow, Written
        <3>5. CASE b # a
            BY <3>1, <3>3, <3>4, <3>5 DEF AddsRow
        <3>6. CASE b = a
            <4>1. Seen(q, a) = session[q].rows[b] /\ a \in Visible(q)
                BY <3>3, <3>6 DEF Seen, Visible
            <4>2. run[q].target # 0 /\ a = run[q].target /\ run[q].pc = "found"
                BY <2>2, <3>1, <4>1 DEF AddsRow, Flushes
            <4>3. run[q].raw = d[1]
                BY <3>2, <3>3, <4>1, <4>2 DEF ArticleInv, OwnTitleSlug
            <4>4. NewRow(q, a).raw = d[1]
                BY <3>1, <3>3, <4>1, <4>3 DEF AddsRow
            <4> QED BY <3>1, <3>4, <3>6, <4>4 DEF AddsRow
        <3> QED BY <3>5, <3>6
    <2>3. CASE Leaves(q)
        <3>1. Written(q)' = Written(q) /\ session'[q].rows = session[q].rows
            BY <2>3 DEF Leaves, Written
        <3>2. CASE d \in session[q].done
            BY <1>0, <3>1, <3>2
        <3>3. CASE d \notin session[q].done
            <4>1. Flushed(q) /\ d[1] = run[q].raw
                BY <2>3, <3>3 DEF Leaves, Kept
            <4>2. run[q].raw \in Raw /\ run[q].target \in Written(q) /\ run[q].target \in Id
                BY <1>0, <4>1 DEF RunOK, Flushed, Written
            <4>3. Seen(q, run[q].target) = session[q].rows[run[q].target]
                BY <4>2 DEF Seen
            <4>4. session[q].rows[run[q].target].raw = d[1]
                BY <4>1, <4>2, <4>3 DEF ArticleInv, OwnTitleSlug, Flushed, Id
            <4> QED BY <3>1, <4>2, <4>4
        <3> QED BY <3>2, <3>3
    <2>4. CASE Drops(q)
        BY <1>2, <2>4 DEF Drops
    <2> QED BY <1>3, <2>1, <2>2, <2>3, <2>4 DEF Prepares
<1>4. CASE Commits(q)
    BY <1>2, <1>4 DEF Commits
<1>5. CASE \E p \in Proc \ {q} : Prepares(p) \/ Commits(p)
    BY <1>1, <1>5 DEF Prepares, Commits, Others
<1>6. CASE Still \/ \E r \in Raw : Renames(r)
    BY <1>1, <1>6 DEF Still, Renames
<1> QED BY <1>0, <1>3, <1>4, <1>5, <1>6, StepKinds

-----------------------------------------------------------------------------
(* What runs, planners and replays do to the raw articles.                 *)

\* What the commit of a session does: it writes nothing that is locked.
Writes ==
    /\ UNCHANGED <<retries, titles, rawLock, plan, replay, revisions>>
    /\ \A r \in Raw :
          \/ status'[r] = status[r] /\ stale'[r] = stale[r]
          \/ /\ rawLock[r] = Nobody /\ ~stale'[r]
             /\ status'[r] \in {status[r], "processed", "dead_letter"}
             /\ status'[r] = "dead_letter" => status[r] = "dead_letter" \/ r \in Unparseable

LEMMA Commitments ==
    ASSUME TypeOK, NEW p \in Proc, Reject(p) \/ CommitRun(p) \/ (p \in Api /\ CommitRest(p))
    PROVE  Writes
<1>1. ASSUME NEW s, Commit(p, s)
      PROVE  \A r \in Raw : \/ Processed(s)[r] = status[r] /\ Fresh(s)[r] = stale[r]
                            \/ /\ rawLock[r] = Nobody /\ ~Fresh(s)[r]
                               /\ Processed(s)[r] \in {status[r], "processed"}
    BY <1>1 DEF Commit, Processed, Fresh, TypeOK
<1>2. ASSUME NEW s, Commit(p, s), status' = Processed(s), stale' = Fresh(s),
             UNCHANGED <<retries, titles, rawLock, plan, replay, revisions>>
      PROVE  Writes
    BY <1>1, <1>2 DEF Writes
<1>3. CASE Reject(p)
    <2>1. /\ Commit(p, session[p]) /\ rawLock[run[p].raw] = Nobody /\ run[p].raw \in Unparseable
          /\ stale' = [Fresh(session[p]) EXCEPT ![run[p].raw] = FALSE]
          /\ UNCHANGED <<retries, titles, rawLock, plan, replay, revisions>>
        BY <1>3, Zenon DEF Reject
    <2>2. /\ Processed(session[p]) = [r \in Raw |-> Processed(session[p])[r]]
          /\ Fresh(session[p]) = [r \in Raw |-> Fresh(session[p])[r]]
        BY DEF Processed, Fresh
    <2>3. \A r \in Raw : r # run[p].raw =>
              status'[r] = Processed(session[p])[r] /\ stale'[r] = Fresh(session[p])[r]
        BY <1>3, <2>2 DEF Reject
    <2>4. run[p].raw \in Raw =>
              /\ status'[run[p].raw] \in {Processed(session[p])[run[p].raw], "dead_letter"}
              /\ ~stale'[run[p].raw]
        BY <1>3, <2>2 DEF Reject
    <2>5. ASSUME NEW r \in Raw
          PROVE  \/ status'[r] = status[r] /\ stale'[r] = stale[r]
                 \/ /\ rawLock[r] = Nobody /\ ~stale'[r]
                    /\ status'[r] \in {status[r], "processed", "dead_letter"}
                    /\ status'[r] = "dead_letter" => status[r] = "dead_letter" \/ r \in Unparseable
        <3>1. CASE r = run[p].raw
            BY <1>1, <2>1, <2>4, <3>1
        <3>2. CASE r # run[p].raw
            BY <1>1, <2>1, <2>3, <3>2
        <3> QED BY <3>1, <3>2
    <2> QED BY <2>1, <2>5 DEF Writes
<1>4. CASE CommitRun(p)
    <2> DEFINE s == [session[p] EXCEPT !.events = @ \cup {run[p].target},
                                       !.done = @ \cup {<<run[p].raw, run[p].loaded>>}]
    <2>1. /\ Commit(p, s) /\ status' = Processed(s) /\ stale' = Fresh(s)
          /\ UNCHANGED <<retries, titles, rawLock, plan, replay, revisions>>
        BY <1>4, Zenon DEF CommitRun
    <2> HIDE DEF s
    <2> QED BY <1>2, <2>1
<1>5. CASE CommitRest(p)
    <2>1. /\ Commit(p, session[p]) /\ status' = Processed(session[p])
          /\ stale' = Fresh(session[p])
          /\ UNCHANGED <<retries, titles, rawLock, plan, replay, revisions>>
        BY <1>5, Zenon DEF CommitRest
    <2> QED BY <1>2, <2>1
<1> QED BY <1>3, <1>4, <1>5

\* What the steps that neither load nor write a raw article leave alone.
LEMMA Idles ==
    ASSUME TypeOK, [Next]_vars
    PROVE  \/ UNCHANGED <<rawVars, rawLock, plan, replay, revisions>>
           \/ \E r \in Raw : Ingest(r) \/ Revise(r) \/ TimeOut(r)
           \/ \E p \in Planner : PlannerStep(p) \/ PlannerFails(p)
           \/ Writes
           \/ \E x \in Replayer : ClaimFiltered(x) \/ SelectFiltered(x) \/ ReplayStep(x)
                                  \/ ReplayFails(x)
<1>1. CASE \E p \in Celery : Receive(p)
    BY <1>1 DEF Receive
<1>2. CASE \E p \in Api : Replenish(p) \/ RunInline(p) \/ CommitRest(p)
    BY <1>2, Commitments DEF Replenish, RunInline, Proc
<1>3. CASE \E p \in Proc : RunStep(p) \/ RunRollsBack(p) \/ RunRaises(p) \/ RunFails(p)
    BY <1>3, Commitments DEF RunStep, ChooseSlug, Enrich, Lookup, Flush, FlushConflict, RunFails,
                             LoseSession, RunRollsBack, RunRaises
<1>4. CASE UNCHANGED vars
    BY <1>4 DEF vars
<1> QED BY <1>1, <1>2, <1>3, <1>4 DEF Next

\* A replay loads a row it may replay, or skips one it may not.
LEMMA Loads ==
    ASSUME TypeOK, NEW x \in Replayer, LoadReplay(x)
    PROVE  /\ \A y \in Replayer \ {x} : replay'[y] = replay[y]
           /\ \E r \in replay[x].todo :
                /\ r \in Raw
                /\ replay'[x].todo = replay[x].todo \ {r}
                /\ \/ /\ status[r] \in {"filtered", "recovering"}
                      /\ replay'[x].pc = "extracting" /\ replay'[x].raw = r
                      /\ replay'[x].loaded = status[r] /\ replay'[x].retries = retries[r]
                   \/ /\ status[r] \notin {"filtered", "recovering"}
                      /\ replay'[x].pc = "claimed" /\ replay'[x].raw = replay[x].raw
<1> DEFINE loaded(r) == IF status[r] \in {"filtered", "recovering"}
               THEN [pc |-> "extracting", todo |-> replay[x].todo \ {r}, raw |-> r,
                     loaded |-> status[r], retries |-> retries[r]]
               ELSE [replay[x] EXCEPT !.todo = replay[x].todo \ {r}]
<1>1. replay[x] \in Replay /\ replay[x].pc = "claimed"
    BY DEF TypeOK, LoadReplay
<1>2. PICK r \in replay[x].todo : replay' = [replay EXCEPT ![x] = loaded(r)]
    BY Zenon DEF LoadReplay
<1>3. r \in Raw
    BY <1>1 DEF Replay
<1>4. /\ loaded(r).todo = replay[x].todo \ {r}
      /\ \/ /\ status[r] \in {"filtered", "recovering"}
            /\ loaded(r).pc = "extracting" /\ loaded(r).raw = r
            /\ loaded(r).loaded = status[r] /\ loaded(r).retries = retries[r]
         \/ /\ status[r] \notin {"filtered", "recovering"}
            /\ loaded(r).pc = "claimed" /\ loaded(r).raw = replay[x].raw
    BY <1>1 DEF Replay
<1> HIDE DEF loaded
<1>5. replay'[x] = loaded(r) /\ \A y \in Replayer \ {x} : replay'[y] = replay[y]
    BY <1>2 DEF TypeOK
<1> QED BY <1>3, <1>4, <1>5

LEMMA ReplayNext ==
    ASSUME TypeOK, ReplayOK, [Next]_vars
    PROVE  ReplayOK'
<1>0. /\ \A x \in Replayer : replay[x] \in Replay
      /\ \A r \in Raw : r # 0
    BY Slugs DEF TypeOK
<1> DEFINE Sound(s) == /\ s.pc \in {"extracting", "passed"} <=> s.raw # 0
                       /\ s.pc = "idle" => s.todo = {}
<1>1. \A x \in Replayer : Sound(replay[x])
    BY DEF ReplayOK
<1>2. ASSUME NEW x \in Replayer,
             ClaimFiltered(x) \/ SelectFiltered(x) \/ ReplayStep(x) \/ ReplayFails(x)
      PROVE  Sound(replay'[x]) /\ \A y \in Replayer \ {x} : replay'[y] = replay[y]
    <2>1. CASE ClaimFiltered(x)
        BY <1>0, <1>1, <2>1 DEF ClaimFiltered, TypeOK, Replay
    <2>2. CASE SelectFiltered(x)
        BY <1>0, <1>1, <2>2 DEF SelectFiltered, TypeOK, Replay
    <2>3. CASE LoadReplay(x)
        <3>1. Sound(replay[x]) /\ replay[x].pc = "claimed"
            BY <1>1, <2>3 DEF LoadReplay
        <3>2. /\ \A y \in Replayer \ {x} : replay'[y] = replay[y]
              /\ \/ replay'[x].pc = "extracting" /\ replay'[x].raw \in Raw
                 \/ replay'[x].pc = "claimed" /\ replay'[x].raw = replay[x].raw
            BY <2>3, Loads
        <3> QED BY <1>0, <3>1, <3>2
    <2>4. CASE ReplayDone(x)
        BY <2>4 DEF ReplayDone, TypeOK, IdleReplay
    <2>5. CASE ReplayFails(x)
        BY <2>5 DEF ReplayFails, TypeOK, IdleReplay
    <2>6. CASE ReplayPasses(x)
        BY <1>0, <1>1, <2>6 DEF ReplayPasses, TypeOK, Replay
    <2>7. CASE SendReplay(x)
        BY <2>7 DEF SendReplay, TypeOK, IdleReplay
    <2>8. CASE ReplayFiltered(x)
        <3>1. replay' = [replay EXCEPT
                  ![x] = [IdleReplay EXCEPT !.pc = "claimed", !.todo = replay[x].todo]]
            BY <2>8 DEF ReplayFiltered
        <3> QED BY <3>1 DEF TypeOK, IdleReplay
    <2> QED BY <1>2, <2>1, <2>2, <2>3, <2>4, <2>5, <2>6, <2>7, <2>8 DEF ReplayStep
<1>3. CASE replay' = replay
    BY <1>1, <1>3 DEF ReplayOK
<1>4. CASE \E x \in Replayer : ClaimFiltered(x) \/ SelectFiltered(x) \/ ReplayStep(x)
                               \/ ReplayFails(x)
    BY <1>1, <1>2, <1>4 DEF ReplayOK
<1>5. CASE \E r \in Raw : Ingest(r) \/ Revise(r) \/ TimeOut(r)
    BY <1>3, <1>5 DEF Ingest, Revise, TimeOut
<1>6. CASE \E p \in Planner : PlannerStep(p) \/ PlannerFails(p)
    BY <1>3, <1>6 DEF PlannerStep, SelectFresh, Send, ClaimStale, CommitPlan, PlannerFails
<1>7. CASE Writes
    BY <1>3, <1>7 DEF Writes
<1> QED BY <1>3, <1>4, <1>5, <1>6, <1>7, Idles

LEMMA ArticleInit == Init => TypeOK /\ ArticleInv /\ ReplayOK
<1> SUFFICES ASSUME Init
             PROVE  TypeOK /\ ArticleInv /\ ReplayOK
    OBVIOUS
<1>1. Stored = {} /\ \A p \in Proc : Written(p) = {} /\ run[p] = IdleRun
    BY DEF Init, Stored, Written, NewSession
<1>2. RunOK /\ ReplayOK
    BY <1>1 DEF RunOK, ReplayOK, Init, IdleRun, IdleReplay, Flushed
<1>3. SlugsApart
    BY <1>1 DEF SlugsApart
<1>4. TitlesKept
    <2>1. \A r \in Raw : title[r] \in TitlesOf[r] /\ had[r] = {title[r]}
        BY DEF Init
    <2> QED BY <1>1, <2>1 DEF TitlesKept, IdleRun
<1>5. OwnTitleSlug
    <2>1. \A r \in Raw : r # 0
        BY Slugs
    <2> QED BY <1>1, <2>1 DEF OwnTitleSlug, IdleRun
<1> QED BY <1>2, <1>3, <1>4, <1>5, TypeInit DEF ArticleInv

LEMMA Inductive ==
    ASSUME TypeOK, ArticleInv, ReplayOK, [Next]_vars
    PROVE  TypeOK' /\ ArticleInv' /\ ReplayOK'
BY TypeNext, ArticleNext, ReplayNext DEF ArticleInv

-----------------------------------------------------------------------------
(* Articles and their events.                                              *)

\* Every column holds what it may hold, in every state.
THEOREM TypeCorrect == Spec => []TypeOK
<1>1. TypeOK /\ ArticleInv /\ ReplayOK /\ [Next]_vars => (TypeOK /\ ArticleInv /\ ReplayOK)'
    BY Inductive
<1> QED BY ArticleInit, <1>1, PTL DEF Spec

\* Whatever runs together, fails or is given another title, no session ever
\* sees two rows with one slug, no two sessions write one row, and the rows of
\* a raw article whose titles no other has had are those with a title of its
\* own for their slug.
THEOREM RowsKept == Spec => []ArticleInv
<1>1. TypeOK /\ ArticleInv /\ ReplayOK /\ [Next]_vars => (TypeOK /\ ArticleInv /\ ReplayOK)'
    BY Inductive
<1> QED BY ArticleInit, <1>1, PTL DEF Spec

\* What a session holds is of the articles that it has flushed.
LEMMA SessionsNext ==
    ASSUME TypeOK, ArticleInv, ReplayOK, EventsOK, DoneOK, [Next]_vars
    PROVE  TypeOK' /\ ArticleInv' /\ ReplayOK' /\ EventsOK' /\ DoneOK'
BY Inductive, EventsNext, DoneNext DEF ArticleInv

LEMMA SessionsInit == Init => TypeOK /\ ArticleInv /\ ReplayOK /\ EventsOK /\ DoneOK
BY ArticleInit DEF Init, EventsOK, DoneOK, NewSession, Written

\* No event is committed without its article, and no article without its event
\* but for the rows of inline runs that raised an exception: every other row of
\* a session has its event in it.
THEOREM EventsFollow == Spec => []PublishedTogether
<1> DEFINE Inv == TypeOK /\ ArticleInv /\ ReplayOK /\ EventsOK /\ DoneOK /\ PublishedTogether
<1>1. Init => Inv
    BY SessionsInit DEF Init, PublishedTogether, Stored
<1>2. ASSUME Inv, [Next]_vars
      PROVE  PublishedTogether'
    <2>1. ASSUME NEW p \in Proc, Commits(p)
          PROVE  PublishedTogether'
        <3>1. Stored' = Stored \cup Written(p)
            BY <1>2, <2>1, CommitView DEF StoresRows, Visible
        <3>2. /\ session[p].events \subseteq Written(p)
              /\ \A a \in Written(p) : \/ a \in session[p].events \cup session[p].left
                                       \/ Flushed(p) /\ a = run[p].target
              /\ Flushed(p) => run[p].target \in Written(p)
            BY <1>2 DEF EventsOK, ArticleInv, RunOK
        <3>3. /\ published' = published \cup session[p].events
                              \cup (IF Flushed(p) THEN {run[p].target} ELSE {})
              /\ abandoned' = abandoned \cup session[p].left
            BY <2>1 DEF Commits
        <3> QED BY <1>2, <3>1, <3>2, <3>3 DEF PublishedTogether
    <2>2. CASE UNCHANGED store
        BY <1>2, <2>2 DEF PublishedTogether, Stored, store
    <2> QED BY <1>2, <2>1, <2>2, StepKinds DEF Still, Renames, Prepares, store, ArticleInv
<1>3. Inv /\ [Next]_vars => Inv'
    BY <1>2, SessionsNext
<1> QED BY <1>1, <1>3, PTL DEF Spec

\* Only the commit of a session makes a raw article processed.
LEMMA Processes ==
    ASSUME TypeOK, RunOK, ReplayOK, [Next]_vars, NEW r \in Raw, status'[r] = "processed"
    PROVE  \/ status[r] = "processed"
           \/ \E p \in Proc : /\ Commits(p)
                              /\ \/ \E d \in session[p].done : d[1] = r
                                 \/ Flushed(p) /\ run[p].raw = r
BY StepKinds DEF Still, Renames, Prepares, Commits, NoneProcessed

\* A processed raw article with titles of its own has an article, and no later
\* commit, of its runs or of another's, takes it away.
THEOREM ProcessedStored == Spec => []ProcessedHasArticle
<1> DEFINE Inv == TypeOK /\ ArticleInv /\ ReplayOK /\ EventsOK /\ DoneOK /\ ProcessedHasArticle
<1>1. Init => Inv
    BY SessionsInit DEF Init, ProcessedHasArticle
<1>2. ASSUME Inv, [Next]_vars
      PROVE  ProcessedHasArticle'
    <2>0. TypeOK /\ RunOK /\ ReplayOK /\ OwnTitleSlug
        BY <1>2 DEF ArticleInv
    <2> SUFFICES ASSUME NEW r \in Raw, status'[r] = "processed", OnlyTitle(r)
                 PROVE  \E a \in Stored' : article'[a].raw = r
        BY <1>2, <2>0, OnlyMore DEF ProcessedHasArticle
    <2>1. \/ \E a \in Stored : article[a].raw = r
          \/ \E p \in Proc : /\ Commits(p)
                             /\ \/ \E d \in session[p].done : d[1] = r
                                \/ Flushed(p) /\ run[p].raw = r
        BY <1>2, <2>0, Processes DEF ProcessedHasArticle
    <2>2. ASSUME NEW p \in Proc, Commits(p)
          PROVE  \E a \in Stored' : article'[a].raw = r
        <3>1. Stored' = Visible(p) /\ \A a \in Id : article'[a] = Seen(p, a)
            BY <2>0, <2>2, CommitView DEF StoresRows
        <3>2. CASE \E a \in Stored : article[a].raw = r
            <4>1. PICK a \in Stored : article[a].raw = r
                BY <3>2
            <4>2. a \in Id /\ a \in Visible(p) /\ Seen(p, a).raw = r
                BY <2>0, <4>1 DEF OwnTitleSlug, Seen, Visible, Stored
            <4> QED BY <3>1, <4>2
        <3>3. CASE \E a \in Written(p) : session[p].rows[a].raw = r
            <4>1. PICK a \in Written(p) : session[p].rows[a].raw = r
                BY <3>3
            <4>2. a \in Id /\ a \in Visible(p) /\ Seen(p, a).raw = r
                BY <4>1 DEF Seen, Visible, Written
            <4> QED BY <3>1, <4>2
        <3>4. CASE \E d \in session[p].done : d[1] = r
            BY <1>2, <3>3, <3>4 DEF DoneOK
        <3>5. CASE Flushed(p) /\ run[p].raw = r
            <4>1. /\ run[p].target \in Written(p) /\ run[p].target \in Id /\ run[p].target # 0
                BY <2>0, <3>5 DEF RunOK, Written, Id
            <4>2. Seen(p, run[p].target).raw = r
                BY <2>0, <3>5, <4>1 DEF OwnTitleSlug, Flushed
            <4> QED BY <3>3, <4>1, <4>2 DEF Seen
        <3>6. \A q \in Proc : Commits(q) => q = p \/ (session[q].done = {} /\ ~Flushed(q))
            <4>1. ASSUME NEW q \in Proc \ {p}, Commits(q)
                  PROVE  session[q] = NewSession /\ run[q] = IdleRun
                BY <2>2, <4>1 DEF Commits, Others
            <4> QED BY <4>1 DEF NewSession, IdleRun, Flushed
        <3> QED BY <2>1, <3>2, <3>4, <3>5, <3>6
    <2>3. CASE UNCHANGED store /\ ~\E p \in Proc : Commits(p)
        BY <2>1, <2>3 DEF Stored, store
    <2> QED BY <1>2, <2>0, <2>2, <2>3, StepKinds DEF Still, Renames, Prepares, store
<1>3. Inv /\ [Next]_vars => Inv'
    BY <1>2, SessionsNext
<1> QED BY <1>1, <1>3, PTL DEF Spec

\* However often its message is sent, and whatever fails or is committed late,
\* a raw article whose titles no other has had has no more articles than it
\* has had titles: each has another title of it for its slug.
THEOREM AtMostOneArticle == Spec => []OneArticle
<1>1. ASSUME TypeOK, ArticleInv
      PROVE  OneArticle
    <2> SUFFICES ASSUME NEW r \in Raw, OnlyTitle(r)
                 PROVE  Cardinality({a \in Stored : article[a].raw = r}) <= Cardinality(had[r])
        BY DEF OneArticle
    <2> DEFINE A == {a \in Stored : article[a].raw = r}
               titleOf == [a \in A |-> article[a].slug[1]]
    <2>1. \A a \in A : /\ a \in Stored
                       /\ article[a].slug \in Title \X (Raw \cup {0})
                       /\ article[a].slug[1] \in had[r] /\ article[a].slug[2] = 0
        BY <1>1, SeenRow DEF ArticleInv, OwnTitleSlug, Own, Stored, TypeOK, Article, Slug
    <2>2. \A a, b \in A : article[a].slug[1] = article[b].slug[1] => a = b
        <3> SUFFICES ASSUME NEW a \in A, NEW b \in A, article[a].slug[1] = article[b].slug[1]
                     PROVE  a = b
            OBVIOUS
        <3>1. article[a].slug = article[b].slug
            BY <2>1
        <3> QED BY <1>1, <2>1, <3>1 DEF ArticleInv, SlugsApart
    <2>3. titleOf \in Injection(A, had[r])
        BY <2>1, <2>2 DEF Injection, IsInjective
    <2>4. IsFiniteSet(had[r])
        <3>1. had[r] \subseteq TitlesOf[r] /\ IsFiniteSet(TitlesOf[r])
            BY <1>1, TitleAssumption DEF ArticleInv, TitlesKept
        <3> QED BY <3>1, FS_Subset
    <2> HIDE DEF A, titleOf
    <2>5. Cardinality(A) <= Cardinality(had[r])
        BY <2>3, <2>4, FS_Injection
    <2> QED BY <2>5 DEF A
<1> QED BY <1>1, TypeCorrect, RowsKept, PTL

-----------------------------------------------------------------------------
(* The retries, and what the planner and the replays hold.                 *)

\* A row that is written is not claimed by a planner: nobody holds its lock.
LEMMA LockedNext ==
    ASSUME TypeOK, ReplayOK, ClaimedIsLocked, [Next]_vars
    PROVE  ClaimedIsLocked'
<1> USE ActorAssumption
<1>0. /\ \A p \in Planner : plan[p] \in Plan
      /\ \A x \in Replayer : replay[x] \in Replay
      /\ \A r \in Raw : r # 0
    BY Slugs DEF TypeOK
<1>1. CASE UNCHANGED <<rawVars, rawLock, plan, replay, revisions>>
    BY <1>1 DEF ClaimedIsLocked, rawVars
<1>2. ASSUME NEW r \in Raw, Ingest(r) \/ Revise(r) \/ TimeOut(r)
      PROVE  ClaimedIsLocked'
    <2>1. CASE Ingest(r)
        BY <1>0, <2>1 DEF ClaimedIsLocked, Ingest, TypeOK, Plan
    <2>2. CASE Revise(r)
        BY <1>0, <2>2 DEF ClaimedIsLocked, Revise, TypeOK, Plan
    <2>3. CASE TimeOut(r)
        BY <1>0, <2>3 DEF ClaimedIsLocked, TimeOut, TypeOK, Plan
    <2> QED BY <1>2, <2>1, <2>2, <2>3
<1>3. ASSUME NEW p \in Planner, PlannerStep(p) \/ PlannerFails(p)
      PROVE  ClaimedIsLocked'
    <2>1. CASE SelectFresh(p)
        <3>1. /\ plan'[p].claimed = {}
              /\ \A q \in Planner \ {p} : plan'[q] = plan[q]
            BY <2>1 DEF SelectFresh, TypeOK
        <3> QED BY <2>1, <3>1 DEF ClaimedIsLocked, SelectFresh, rawVars
    <2>2. CASE Send(p)
        <3>1. \A q \in Planner : plan'[q].claimed = plan[q].claimed
            BY <1>0, <2>2 DEF Send, TypeOK, Plan
        <3> QED BY <2>2, <3>1 DEF ClaimedIsLocked, Send, rawVars
    <2>3. CASE ClaimStale(p)
        <3>1. PICK S \in SUBSET {r \in Raw : status[r] = "ai_queued" /\ stale[r]
                                              /\ rawLock[r] = Nobody} :
                /\ rawLock' = [r \in Raw |-> IF r \in S THEN p ELSE rawLock[r]]
                /\ plan' = [plan EXCEPT ![p] = [plan[p] EXCEPT !.pc = "stale", !.claimed = S,
                                                  !.toSend = {r \in S : ~Exhausted(r)}]]
            BY <2>3 DEF ClaimStale, AtMost
        <3>2. plan'[p].claimed = S /\ \A q \in Planner \ {p} : plan'[q] = plan[q]
            BY <1>0, <3>1 DEF TypeOK, Plan
        <3>3. \A q \in Planner \ {p} : \A r \in plan[q].claimed : r \notin S /\ r \in Raw
            BY <1>0 DEF ClaimedIsLocked, Plan
        <3>4. ASSUME NEW q \in Planner, NEW r \in plan'[q].claimed
              PROVE  rawLock'[r] = q /\ status[r] = "ai_queued" /\ stale[r]
            <4>1. CASE q = p
                BY <3>1, <3>2, <3>4, <4>1
            <4>2. CASE q # p
                BY <3>1, <3>2, <3>3, <3>4, <4>2 DEF ClaimedIsLocked
            <4> QED BY <4>1, <4>2
        <3>5. UNCHANGED <<status, stale, replay>>
            BY <2>3 DEF ClaimStale, rawVars
        <3> QED BY <3>4, <3>5 DEF ClaimedIsLocked
    <2>4. CASE CommitPlan(p)
        <3>1. plan'[p].claimed = {} /\ \A q \in Planner \ {p} : plan'[q] = plan[q]
            BY <2>4 DEF CommitPlan, TypeOK, IdlePlan
        <3>2. ASSUME NEW q \in Planner \ {p}, NEW r \in plan[q].claimed
              PROVE  rawLock'[r] = q /\ status'[r] = "ai_queued" /\ stale'[r]
            <4>1. r \in Raw /\ rawLock[r] = q /\ status[r] = "ai_queued" /\ stale[r]
                BY <1>0 DEF ClaimedIsLocked, Plan
            <4>2. r \notin plan[p].fresh /\ r \notin plan[p].claimed
                BY <2>4, <4>1 DEF ClaimedIsLocked, CommitPlan
            <4> QED BY <2>4, <4>1, <4>2 DEF CommitPlan
        <3>3. \A r \in Raw : stale'[r] => stale[r] /\ status'[r] = status[r]
            BY <2>4 DEF CommitPlan
        <3>4. \A q \in Planner : \A r \in plan'[q].claimed :
                  rawLock'[r] = q /\ status'[r] = "ai_queued" /\ stale'[r]
            BY <3>1, <3>2
        <3>5. replay' = replay
            BY <2>4 DEF CommitPlan
        <3> QED BY <3>3, <3>4, <3>5 DEF ClaimedIsLocked
    <2>5. CASE PlannerFails(p)
        <3>1. plan'[p].claimed = {} /\ \A q \in Planner \ {p} : plan'[q] = plan[q]
            BY <2>5 DEF PlannerFails, TypeOK, IdlePlan
        <3>2. \A q \in Planner \ {p} : \A r \in plan[q].claimed : r \in Raw
            BY <1>0 DEF Plan
        <3> QED BY <2>5, <3>1, <3>2 DEF ClaimedIsLocked, PlannerFails, rawVars
    <2> QED BY <1>3, <2>1, <2>2, <2>3, <2>4, <2>5 DEF PlannerStep
<1>4. CASE Writes
    <2>1. \A p \in Planner : \A r \in plan[p].claimed : r \in Raw /\ rawLock[r] = p
        BY <1>0 DEF Plan, ClaimedIsLocked
    <2> QED BY <1>4, <2>1 DEF Writes, ClaimedIsLocked
<1>5. ASSUME NEW x \in Replayer,
             ClaimFiltered(x) \/ SelectFiltered(x) \/ ReplayStep(x) \/ ReplayFails(x)
      PROVE  ClaimedIsLocked'
    <2>0. ASSUME \A y \in Replayer : replay'[y].raw \in {replay[y].raw, 0}
          PROVE  \A r \in Raw : (\A y \in Replayer : replay[y].raw # r) =>
                                (\A y \in Replayer : replay'[y].raw # r)
        BY <1>0, <2>0
    <2>1. CASE ClaimFiltered(x)
        <3>1. \A y \in Replayer : replay'[y].raw \in {replay[y].raw, 0}
            BY <1>0, <2>1 DEF ClaimFiltered, TypeOK, Replay
        <3>2. \A r \in Raw : stale[r] => status'[r] = status[r]
            BY <2>1 DEF ClaimFiltered, ClaimedIsLocked
        <3> QED BY <1>0, <2>0, <2>1, <3>1, <3>2 DEF ClaimedIsLocked, ClaimFiltered, Plan
    <2>2. CASE SelectFiltered(x)
        <3>1. \A y \in Replayer : replay'[y].raw \in {replay[y].raw, 0}
            BY <1>0, <2>2 DEF SelectFiltered, TypeOK, Replay
        <3> QED BY <2>0, <2>2, <3>1 DEF ClaimedIsLocked, SelectFiltered, rawVars
    <2>3. CASE LoadReplay(x)
        <3>1. PICK r \in Raw : \A y \in Replayer :
                \/ replay'[y].raw = replay[y].raw
                \/ replay'[y].raw = r /\ status[r] \in {"filtered", "recovering"}
            BY <2>3, Loads
        <3> QED BY <2>3, <3>1 DEF ClaimedIsLocked, LoadReplay, rawVars
    <2>4. CASE ReplayDone(x)
        <3>1. \A y \in Replayer : replay'[y].raw \in {replay[y].raw, 0}
            BY <2>4 DEF ReplayDone, TypeOK, IdleReplay
        <3> QED BY <2>0, <2>4, <3>1 DEF ClaimedIsLocked, ReplayDone, rawVars
    <2>5. CASE ReplayFails(x)
        <3>1. \A y \in Replayer : replay'[y].raw \in {replay[y].raw, 0}
            BY <2>5 DEF ReplayFails, TypeOK, IdleReplay
        <3> QED BY <2>0, <2>5, <3>1 DEF ClaimedIsLocked, ReplayFails, rawVars
    <2>6. CASE ReplayPasses(x)
        <3>1. \A y \in Replayer : replay'[y].raw \in {replay[y].raw, 0}
            BY <1>0, <2>6 DEF ReplayPasses, TypeOK, Replay
        <3> QED BY <1>0, <2>0, <2>6, <3>1 DEF ClaimedIsLocked, ReplayPasses, TypeOK, Plan
    <2>7. CASE SendReplay(x)
        <3>1. \A y \in Replayer : replay'[y].raw \in {replay[y].raw, 0}
            BY <2>7 DEF SendReplay, TypeOK, IdleReplay
        <3> QED BY <2>0, <2>7, <3>1 DEF ClaimedIsLocked, SendReplay, rawVars
    <2>8. CASE ReplayFiltered(x)
        <3>1. \A y \in Replayer : replay'[y].raw \in {replay[y].raw, 0}
            BY <2>8 DEF ReplayFiltered, TypeOK, IdleReplay
        <3> DEFINE r == replay[x].raw
        <3>2. /\ \A q \in Raw \ {r} : status'[q] = status[q] /\ stale'[q] = stale[q]
              /\ r \in Raw => ~stale'[r]
              /\ UNCHANGED <<rawLock, plan>>
              /\ rawLock[r] = Nobody
            BY <2>8 DEF ReplayFiltered, TypeOK
        <3> HIDE DEF r
        <3> QED BY <1>0, <2>0, <3>1, <3>2 DEF ClaimedIsLocked, Plan
    <2> QED BY <1>5, <2>1, <2>2, <2>3, <2>4, <2>5, <2>6, <2>7, <2>8 DEF ReplayStep
<1> QED BY <1>1, <1>2, <1>3, <1>4, <1>5, Idles

\* A planner's retry comes before the last, a replay's is counted from what it
\* loaded when the row was still to be replayed.
LEMMA BudgetNext ==
    ASSUME TypeOK, ClaimedIsLocked, FilteredInBudget, RetryBudget, [Next]_vars
    PROVE  FilteredInBudget' /\ RetryBudget'
<1> USE LimitAssumption, ActorAssumption
<1>0. /\ \A p \in Planner : plan[p] \in Plan
      /\ \A x \in Replayer : replay[x] \in Replay
      /\ MaxRetries \in Nat /\ revisions \in Nat
      /\ \A r \in Raw : retries[r] \in Nat
      /\ \A x \in Replayer : replay[x].retries \in Nat
    BY DEF TypeOK, Replay
<1>1. CASE UNCHANGED <<status, retries, replay, revisions>>
    BY <1>1 DEF FilteredInBudget, RetryBudget
<1>2. ASSUME NEW r \in Raw, Ingest(r) \/ Revise(r) \/ TimeOut(r)
      PROVE  FilteredInBudget' /\ RetryBudget'
    <2>1. CASE Ingest(r)
        BY <1>0, <2>1 DEF FilteredInBudget, RetryBudget, Ingest, TypeOK
    <2>2. CASE Revise(r)
        <3>1. revisions' = revisions + 1 /\ UNCHANGED <<retries, replay>>
            BY <2>2 DEF Revise
        <3>2. \A q \in Raw : retries[q] <= MaxRetries + revisions
            BY DEF RetryBudget
        <3>3. \A q \in Raw : retries'[q] < MaxRetries + revisions'
            BY <1>0, <3>1, <3>2
        <3>4. \A x \in Replayer : replay'[x].pc = "extracting" =>
                  replay'[x].retries < MaxRetries + revisions'
            BY <1>0, <3>1 DEF FilteredInBudget
        <3>5. RetryBudget'
            BY <1>0, <3>1, <3>2 DEF RetryBudget
        <3> QED BY <3>3, <3>4, <3>5 DEF FilteredInBudget
    <2>3. CASE TimeOut(r)
        BY <1>1, <2>3 DEF TimeOut
    <2> QED BY <1>2, <2>1, <2>2, <2>3
<1>3. ASSUME NEW p \in Planner, CommitPlan(p)
      PROVE  FilteredInBudget' /\ RetryBudget'
    <2>1. UNCHANGED <<replay, revisions>>
        BY <1>3 DEF CommitPlan
    <2>2. ASSUME NEW r \in Raw
          PROVE  \/ retries'[r] = retries[r] /\ status'[r] \in {status[r], "ai_queued", "dead_letter"}
                 \/ retries'[r] <= MaxRetries /\ status'[r] = "ai_queued"
        <3>1. CASE r \in plan[p].claimed
            <4>1. status[r] = "ai_queued"
                BY <3>1 DEF ClaimedIsLocked
            <4>2. CASE Exhausted(r)
                BY <1>3, <3>1, <4>1, <4>2 DEF CommitPlan
            <4>3. CASE ~Exhausted(r)
                <5>1. retries[r] + 1 <= MaxRetries
                    BY <1>0, <4>3 DEF Exhausted
                <5> QED BY <1>3, <3>1, <4>1, <4>3, <5>1 DEF CommitPlan
            <4> QED BY <4>2, <4>3
        <3>2. CASE r \notin plan[p].claimed
            BY <1>3, <3>2 DEF CommitPlan
        <3> QED BY <3>1, <3>2
    <2>3. RetryBudget'
        <3>1. ASSUME NEW r \in Raw
              PROVE  retries'[r] <= MaxRetries + revisions
            <4>1. retries[r] <= MaxRetries + revisions
                BY DEF RetryBudget
            <4>2. CASE retries'[r] = retries[r]
                BY <4>1, <4>2
            <4>3. CASE retries'[r] <= MaxRetries
                <5>1. retries'[r] \in Nat
                    <6>1. retries'[r] \in {retries[r], retries[r] + 1}
                        BY <1>3 DEF CommitPlan
                    <6> QED BY <1>0, <6>1
                <5> QED BY <1>0, <4>3, <5>1
            <4> QED BY <2>2, <4>2, <4>3
        <3> QED BY <2>1, <3>1 DEF RetryBudget
    <2>4. FilteredInBudget'
        BY <2>1, <2>2 DEF FilteredInBudget
    <2> QED BY <2>3, <2>4
<1>4. CASE \E p \in Planner : PlannerStep(p) \/ PlannerFails(p)
    BY <1>1, <1>3, <1>4 DEF PlannerStep, SelectFresh, Send, ClaimStale, PlannerFails, rawVars
<1>5. CASE Writes
    <2>1. /\ \A r \in Raw : status'[r] \in {status[r], "dead_letter", "processed"}
          /\ UNCHANGED <<retries, replay, revisions>>
        BY <1>5 DEF Writes
    <2> QED BY <2>1 DEF FilteredInBudget, RetryBudget
<1>6. ASSUME NEW x \in Replayer,
             ClaimFiltered(x) \/ SelectFiltered(x) \/ ReplayStep(x) \/ ReplayFails(x)
      PROVE  FilteredInBudget' /\ RetryBudget'
    <2>1. ASSUME replay'[x].pc # "extracting", UNCHANGED <<retries, revisions>>,
                 \A y \in Replayer \ {x} : replay'[y] = replay[y],
                 \A r \in Raw : status'[r] \in {"filtered", "absent", "recovering"} =>
                                  status[r] \in {"filtered", "absent", "recovering"}
          PROVE  FilteredInBudget' /\ RetryBudget'
        BY <2>1 DEF FilteredInBudget, RetryBudget
    <2>2. CASE ClaimFiltered(x)
        <3>1. replay'[x].pc # "extracting" /\ \A y \in Replayer \ {x} : replay'[y] = replay[y]
            BY <1>0, <2>2 DEF ClaimFiltered, TypeOK, Replay
        <3> QED BY <2>1, <2>2, <3>1 DEF ClaimFiltered
    <2>3. CASE SelectFiltered(x)
        <3>1. replay'[x].pc # "extracting" /\ \A y \in Replayer \ {x} : replay'[y] = replay[y]
            BY <1>0, <2>3 DEF SelectFiltered, TypeOK, Replay
        <3> QED BY <2>1, <2>3, <3>1 DEF SelectFiltered, rawVars
    <2>4. CASE LoadReplay(x)
        <3>1. UNCHANGED <<status, retries, revisions>>
            BY <2>4 DEF LoadReplay, rawVars
        <3>2. replay'[x].pc = "extracting" => replay'[x].retries < MaxRetries + revisions
            BY <1>0, <2>4, Loads DEF FilteredInBudget
        <3> QED BY <2>4, <3>1, <3>2, Loads DEF FilteredInBudget, RetryBudget
    <2>5. CASE ReplayDone(x) \/ ReplayFails(x) \/ SendReplay(x)
        <3>1. replay'[x].pc # "extracting" /\ \A y \in Replayer \ {x} : replay'[y] = replay[y]
            <4>1. CASE replay' = [replay EXCEPT ![x] = IdleReplay]
                BY <4>1 DEF TypeOK, IdleReplay
            <4>2. CASE replay' = [replay EXCEPT
                      ![x] = [IdleReplay EXCEPT !.pc = "claimed", !.todo = replay[x].todo]]
                BY <4>2 DEF TypeOK, IdleReplay
            <4> QED BY <2>5, <4>1, <4>2 DEF ReplayDone, ReplayFails, SendReplay
        <3> QED BY <2>1, <2>5, <3>1 DEF ReplayDone, ReplayFails, SendReplay, rawVars
    <2>6. CASE ReplayPasses(x)
        <3>1. replay'[x].pc # "extracting" /\ \A y \in Replayer \ {x} : replay'[y] = replay[y]
            BY <1>0, <2>6 DEF ReplayPasses, TypeOK, Replay
        <3>2. \A r \in Raw : status'[r] \in {status[r], "fetched"}
            BY <2>6 DEF ReplayPasses, TypeOK
        <3> QED BY <2>1, <2>6, <3>1, <3>2 DEF ReplayPasses
    <2>7. CASE ReplayFiltered(x)
        <3> DEFINE r == replay[x].raw
        <3>1. replay' = [replay EXCEPT
                  ![x] = [IdleReplay EXCEPT !.pc = "claimed", !.todo = replay[x].todo]]
            BY <2>7 DEF ReplayFiltered
        <3>2. replay'[x].pc # "extracting" /\ \A y \in Replayer \ {x} : replay'[y] = replay[y]
            BY <3>1 DEF TypeOK, IdleReplay
        <3>3. /\ \A q \in Raw \ {r} : status'[q] = status[q] /\ retries'[q] = retries[q]
              /\ r \in Raw => retries'[r] = replay[x].retries + 1
              /\ revisions' = revisions
            BY <2>7 DEF ReplayFiltered, TypeOK
        <3>4. replay[x].retries + 1 <= MaxRetries + revisions
            BY <1>0, <2>7 DEF ReplayFiltered, FilteredInBudget
        <3>5. r \in Raw => \/ status'[r] = "dead_letter"
                           \/ replay[x].retries + 1 < MaxRetries + revisions
            <4>1. CASE LastReplay(x)
                BY <2>7, <4>1 DEF ReplayFiltered, LastReplay, TypeOK
            <4>2. CASE ~LastReplay(x)
                BY <1>0, <4>2 DEF LastReplay
            <4> QED BY <4>1, <4>2
        <3> HIDE DEF r
        <3>6. RetryBudget'
            BY <3>3, <3>4 DEF RetryBudget
        <3>7. FilteredInBudget'
            BY <3>2, <3>3, <3>5 DEF FilteredInBudget
        <3> QED BY <3>6, <3>7
    <2> QED BY <1>6, <2>2, <2>3, <2>4, <2>5, <2>6, <2>7 DEF ReplayStep
<1>7. CASE UNCHANGED <<rawVars, rawLock, plan, replay, revisions>>
    BY <1>1, <1>7 DEF rawVars
<1> QED BY <1>2, <1>4, <1>5, <1>6, <1>7, Idles

\* Timeouts and replays, however many overlap, spend one budget; only a crawl
\* that filters an article that was given up allows one retry more.
THEOREM BudgetKept == Spec => []RetryBudget
<1> DEFINE Inv == TypeOK /\ ArticleInv /\ ReplayOK /\ ClaimedIsLocked /\ FilteredInBudget
                  /\ RetryBudget
<1>1. Init => Inv
    <2>1. Init => ReplayOK /\ ClaimedIsLocked /\ FilteredInBudget /\ RetryBudget
        BY LimitAssumption DEF Init, ReplayOK, ClaimedIsLocked, FilteredInBudget, RetryBudget,
                               IdlePlan, IdleReplay
    <2> QED BY <2>1, ArticleInit
<1>2. Inv /\ [Next]_vars => Inv'
    BY Inductive, LockedNext, BudgetNext
<1> QED BY <1>1, <1>2, PTL DEF Spec

\* With one replay at a time nobody else gives up what it holds; a planner
\* gives up only what has timed out, which is never being replayed.
LEMMA GivenUpNext ==
    ASSUME \A x, y \in Replayer : x = y,
           TypeOK, RunOK, ReplayOK, ClaimedIsLocked, ReplayedIsOpen, GivenUpExhausted, [Next]_vars
    PROVE  ReplayedIsOpen' /\ GivenUpExhausted'
<1> USE LimitAssumption, ActorAssumption
<1>0. /\ \A x \in Replayer : replay[x] \in Replay
      /\ \A x \in Replayer : replay[x].pc = "extracting" => replay[x].raw \in Raw
      /\ MaxRetries \in Nat
      /\ \A r \in Raw : retries[r] \in Nat
    BY DEF TypeOK, Replay, ReplayOK
<1>1. ASSUME UNCHANGED <<retries, replay>>,
             \A r \in Raw \ Unparseable : status'[r] = "dead_letter" => status[r] = "dead_letter"
      PROVE  ReplayedIsOpen' /\ GivenUpExhausted'
    BY <1>0, <1>1 DEF ReplayedIsOpen, GivenUpExhausted
<1>2. CASE \E r \in Raw : Ingest(r) \/ Revise(r) \/ TimeOut(r)
    BY <1>1, <1>2 DEF Ingest, Revise, TimeOut, TypeOK
<1>3. ASSUME NEW p \in Planner, CommitPlan(p)
      PROVE  ReplayedIsOpen' /\ GivenUpExhausted'
    <2>1. replay' = replay
        BY <1>3 DEF CommitPlan
    <2>2. ASSUME NEW r \in Raw, status'[r] = "dead_letter", status[r] # "dead_letter"
          PROVE  /\ retries'[r] = retries[r] /\ retries[r] >= MaxRetries
                 /\ \A x \in Replayer : replay[x].raw # r
        <3>1. r \in plan[p].claimed /\ Exhausted(r)
            BY <1>3, <2>2 DEF CommitPlan
        <3> QED BY <1>3, <3>1 DEF CommitPlan, Exhausted, ClaimedIsLocked
    <2>3. ReplayedIsOpen'
        BY <1>0, <2>1, <2>2 DEF ReplayedIsOpen
    <2>4. ASSUME NEW r \in Raw \ Unparseable, status'[r] = "dead_letter"
          PROVE  retries'[r] >= MaxRetries
        <3>1. CASE status[r] = "dead_letter"
            <4>1. retries[r] >= MaxRetries /\ retries'[r] \in {retries[r], retries[r] + 1}
                BY <1>3, <3>1 DEF GivenUpExhausted, CommitPlan
            <4> QED BY <1>0, <4>1
        <3>2. CASE status[r] # "dead_letter"
            BY <2>2, <2>4, <3>2
        <3> QED BY <3>1, <3>2
    <2> QED BY <2>3, <2>4 DEF GivenUpExhausted
<1>4. CASE \E p \in Planner : PlannerStep(p) \/ PlannerFails(p)
    BY <1>1, <1>3, <1>4 DEF PlannerStep, SelectFresh, Send, ClaimStale, PlannerFails, rawVars
<1>5. CASE Writes
    BY <1>1, <1>5 DEF Writes
<1>6. ASSUME NEW x \in Replayer,
             ClaimFiltered(x) \/ SelectFiltered(x) \/ ReplayStep(x) \/ ReplayFails(x)
      PROVE  ReplayedIsOpen' /\ GivenUpExhausted'
    <2>0. \A y \in Replayer : y = x
        OBVIOUS
    <2>1. ASSUME replay'[x].pc # "extracting", UNCHANGED retries,
                 \A r \in Raw : status'[r] = "dead_letter" => status[r] = "dead_letter"
          PROVE  ReplayedIsOpen' /\ GivenUpExhausted'
        BY <2>0, <2>1 DEF ReplayedIsOpen, GivenUpExhausted
    <2>2. CASE ClaimFiltered(x)
        <3>1. replay'[x].pc # "extracting"
            BY <1>0, <2>2 DEF ClaimFiltered, TypeOK, Replay
        <3> QED BY <2>1, <2>2, <3>1 DEF ClaimFiltered
    <2>3. CASE SelectFiltered(x)
        <3>1. replay'[x].pc # "extracting"
            BY <1>0, <2>3 DEF SelectFiltered, TypeOK, Replay
        <3> QED BY <2>1, <2>3, <3>1 DEF SelectFiltered, rawVars
    <2>4. CASE LoadReplay(x)
        <3>1. UNCHANGED <<status, retries>>
            BY <2>4 DEF LoadReplay, rawVars
        <3>2. replay'[x].pc = "extracting" => status[replay'[x].raw] # "dead_letter"
            BY <2>4, Loads
        <3> QED BY <2>0, <3>1, <3>2 DEF ReplayedIsOpen, GivenUpExhausted
    <2>5. CASE ReplayDone(x) \/ ReplayFails(x) \/ SendReplay(x)
        <3>1. replay'[x].pc # "extracting"
            <4>1. CASE replay' = [replay EXCEPT ![x] = IdleReplay]
                BY <4>1 DEF TypeOK, IdleReplay
            <4>2. CASE replay' = [replay EXCEPT
                      ![x] = [IdleReplay EXCEPT !.pc = "claimed", !.todo = replay[x].todo]]
                BY <4>2 DEF TypeOK, IdleReplay
            <4> QED BY <2>5, <4>1, <4>2 DEF ReplayDone, ReplayFails, SendReplay
        <3> QED BY <2>1, <2>5, <3>1 DEF ReplayDone, ReplayFails, SendReplay, rawVars
    <2>6. CASE ReplayPasses(x)
        <3>1. replay'[x].pc # "extracting"
            BY <1>0, <2>6 DEF ReplayPasses, TypeOK, Replay
        <3>2. \A r \in Raw : status'[r] \in {status[r], "fetched"}
            BY <2>6 DEF ReplayPasses, TypeOK
        <3> QED BY <2>1, <2>6, <3>1, <3>2 DEF ReplayPasses
    <2>7. CASE ReplayFiltered(x)
        <3> DEFINE r == replay[x].raw
        <3>0. r \in Raw /\ replay[x].retries \in Nat
            BY <1>0, <2>7 DEF ReplayFiltered, Replay
        <3>1. replay'[x].pc # "extracting"
            <4>1. replay' = [replay EXCEPT
                      ![x] = [IdleReplay EXCEPT !.pc = "claimed", !.todo = replay[x].todo]]
                BY <2>7 DEF ReplayFiltered
            <4> QED BY <4>1 DEF TypeOK, IdleReplay
        <3>2. /\ \A q \in Raw \ {r} : status'[q] = status[q] /\ retries'[q] = retries[q]
              /\ retries'[r] = replay[x].retries + 1
            BY <2>7, <3>0 DEF ReplayFiltered, TypeOK
        <3>3. r \notin Unparseable /\ status'[r] = "dead_letter" => retries'[r] >= MaxRetries
            <4>1. CASE LastReplay(x)
                BY <3>2, <4>1 DEF LastReplay
            <4>2. CASE ~LastReplay(x)
                <5>1. status'[r] \in {status[r], "filtered"}
                    BY <2>7, <3>0, <4>2 DEF ReplayFiltered, TypeOK
                <5>2. r \notin Unparseable => status[r] # "dead_letter"
                    BY <2>7 DEF ReplayFiltered, ReplayedIsOpen
                <5> QED BY <5>1, <5>2
            <4> QED BY <4>1, <4>2
        <3> HIDE DEF r
        <3>4. GivenUpExhausted'
            BY <3>2, <3>3 DEF GivenUpExhausted
        <3>5. ReplayedIsOpen'
            BY <2>0, <3>1 DEF ReplayedIsOpen
        <3> QED BY <3>4, <3>5
    <2> QED BY <1>6, <2>2, <2>3, <2>4, <2>5, <2>6, <2>7 DEF ReplayStep
<1>7. CASE UNCHANGED <<rawVars, rawLock, plan, replay, revisions>>
    BY <1>1, <1>7 DEF rawVars
<1> QED BY <1>2, <1>4, <1>5, <1>6, <1>7, Idles

\* Unless two replays overlap, an article with text is given up only when its
\* retries are used up, by the planner's timeouts and the replays together.
THEOREM GivenUpLast ==
    ASSUME \A x, y \in Replayer : x = y
    PROVE  Spec => []GivenUpExhausted
<1> DEFINE Inv == TypeOK /\ ArticleInv /\ ReplayOK /\ ClaimedIsLocked /\ ReplayedIsOpen
                  /\ GivenUpExhausted
<1>1. Init => Inv
    <2>1. Init => ReplayOK /\ ClaimedIsLocked /\ ReplayedIsOpen /\ GivenUpExhausted
        BY DEF Init, ReplayOK, ClaimedIsLocked, ReplayedIsOpen, GivenUpExhausted, IdlePlan,
               IdleReplay
    <2> QED BY <2>1, ArticleInit
<1>2. Inv /\ [Next]_vars => Inv'
    BY Inductive, LockedNext, GivenUpNext DEF ArticleInv
<1> QED BY <1>1, <1>2, PTL DEF Spec

\* A replay lets go of what the recovery claimed only with a status for it.
LEMMA HeldNext ==
    ASSUME TypeOK, ReplayOK, ClaimedHeldFirmly, [Next]_vars
    PROVE  ClaimedHeldFirmly'
<1> DEFINE Holds(s, r) == \/ r \in s.todo
                          \/ s.pc = "extracting" /\ s.raw = r /\ s.loaded = "recovering"
<1>0. /\ \A x \in Replayer : replay[x] \in Replay
      /\ faults \in Nat /\ faults' \in {faults, faults + 1}
    <2>1. faults' \in {faults, faults + 1}
        BY DEF Next, vars, Ingest, Revise, TimeOut, PlannerStep, SelectFresh, Send, ClaimStale,
               CommitPlan, PlannerFails, Receive, Replenish, RunInline, RunStep, Reject, ChooseSlug,
               Enrich, Lookup, Flush, FlushConflict, CommitRun, CommitRest, RunRollsBack,
               RunRaises, RunFails, LoseSession, ClaimFiltered,
               SelectFiltered, ReplayStep, LoadReplay, ReplayDone, ReplayPasses, SendReplay,
               ReplayFiltered, ReplayFails
    <2> QED BY <2>1, LimitAssumption DEF TypeOK
<1> SUFFICES ASSUME NEW r \in Raw, status'[r] = "recovering", faults' = 0
             PROVE  \E x \in Replayer : Holds(replay'[x], r)
    BY <1>0 DEF ClaimedHeldFirmly, TypeOK
<1>1. status[r] = "recovering" => \E x \in Replayer : Holds(replay[x], r)
    BY <1>0 DEF ClaimedHeldFirmly
<1>2. CASE status'[r] = status[r] /\ replay' = replay
    BY <1>1, <1>2
<1>3. CASE \E q \in Raw : Ingest(q) \/ Revise(q) \/ TimeOut(q)
    BY <1>2, <1>3 DEF Ingest, Revise, TimeOut, TypeOK
<1>4. CASE \E p \in Planner : PlannerStep(p) \/ PlannerFails(p)
    <2>1. ASSUME NEW p \in Planner, CommitPlan(p)
          PROVE  status'[r] = status[r] /\ replay' = replay
        BY <2>1 DEF CommitPlan
    <2> QED BY <1>2, <1>4, <2>1 DEF PlannerStep, SelectFresh, Send, ClaimStale, PlannerFails, rawVars
<1>5. CASE Writes
    BY <1>2, <1>5 DEF Writes
<1>6. ASSUME NEW x \in Replayer,
             ClaimFiltered(x) \/ SelectFiltered(x) \/ ReplayStep(x) \/ ReplayFails(x)
      PROVE  \E y \in Replayer : Holds(replay'[y], r)
    <2>0. ASSUME status[r] = "recovering", Holds(replay[x], r) => Holds(replay'[x], r),
                 \A y \in Replayer \ {x} : replay'[y] = replay[y]
          PROVE  \E y \in Replayer : Holds(replay'[y], r)
        BY <1>1, <2>0
    <2>1. CASE ClaimFiltered(x)
        <3>1. PICK S \in SUBSET Raw :
                /\ replay' = [replay EXCEPT ![x] = [replay[x] EXCEPT !.pc = "claimed", !.todo = S]]
                /\ status' = [q \in Raw |-> IF q \in S THEN "recovering" ELSE status[q]]
            BY <2>1 DEF ClaimFiltered
        <3>2. replay'[x].todo = S /\ \A y \in Replayer \ {x} : replay'[y] = replay[y]
            BY <1>0, <3>1 DEF TypeOK, Replay
        <3>3. ~Holds(replay[x], r)
            BY <2>1 DEF ClaimFiltered, ReplayOK
        <3>4. CASE r \in S
            BY <3>2, <3>4
        <3>5. CASE r \notin S
            BY <2>0, <3>1, <3>2, <3>3, <3>5
        <3> QED BY <3>4, <3>5
    <2>2. CASE SelectFiltered(x)
        <3>1. ~Holds(replay[x], r)
            BY <2>2 DEF SelectFiltered, ReplayOK
        <3>2. \A y \in Replayer \ {x} : replay'[y] = replay[y]
            BY <2>2 DEF SelectFiltered, TypeOK
        <3> QED BY <2>0, <2>2, <3>1, <3>2 DEF SelectFiltered, rawVars
    <2>3. CASE LoadReplay(x)
        <3>1. status[r] = "recovering" /\ replay[x].pc = "claimed"
            BY <2>3 DEF LoadReplay, rawVars
        <3>2. PICK q \in replay[x].todo :
                /\ replay'[x].todo = replay[x].todo \ {q}
                /\ status[q] = "recovering" =>
                      /\ replay'[x].pc = "extracting" /\ replay'[x].raw = q
                      /\ replay'[x].loaded = status[q]
            BY <2>3, Loads
        <3>3. Holds(replay[x], r) => Holds(replay'[x], r)
            BY <3>1, <3>2
        <3> QED BY <2>0, <2>3, <3>1, <3>3, Loads
    <2>4. CASE ReplayDone(x)
        <3>1. ~Holds(replay[x], r)
            BY <2>4 DEF ReplayDone
        <3>2. \A y \in Replayer \ {x} : replay'[y] = replay[y]
            BY <2>4 DEF ReplayDone, TypeOK
        <3> QED BY <2>0, <2>4, <3>1, <3>2 DEF ReplayDone, rawVars
    <2>5. CASE ReplayFails(x)
        BY <1>0, <2>5 DEF ReplayFails
    <2>6. CASE ReplayPasses(x)
        <3>1. /\ replay'[x].todo = replay[x].todo
              /\ \A y \in Replayer \ {x} : replay'[y] = replay[y]
            BY <1>0, <2>6 DEF ReplayPasses, TypeOK, Replay
        <3>2. replay[x].raw # r /\ status[r] = "recovering"
            BY <2>6 DEF ReplayPasses, TypeOK
        <3> QED BY <2>0, <3>1, <3>2
    <2>7. CASE SendReplay(x) \/ ReplayFiltered(x)
        <3>1. replay' = [replay EXCEPT
                  ![x] = [IdleReplay EXCEPT !.pc = "claimed", !.todo = replay[x].todo]]
            BY <2>7 DEF SendReplay, ReplayFiltered
        <3>2. /\ replay'[x].todo = replay[x].todo
              /\ \A y \in Replayer \ {x} : replay'[y] = replay[y]
            BY <3>1 DEF TypeOK, IdleReplay
        <3>3. CASE SendReplay(x)
            BY <2>0, <3>2, <3>3 DEF SendReplay, rawVars
        <3>4. CASE ReplayFiltered(x)
            <4>1. /\ status[r] = "recovering"
                  /\ replay[x].raw = r => replay[x].loaded = "filtered"
                BY <3>4 DEF ReplayFiltered, TypeOK
            <4> QED BY <2>0, <3>2, <4>1
        <3> QED BY <2>7, <3>3, <3>4
    <2> QED BY <1>6, <2>1, <2>2, <2>3, <2>4, <2>5, <2>6, <2>7 DEF ReplayStep
<1>7. CASE UNCHANGED <<rawVars, rawLock, plan, replay, revisions>>
    BY <1>2, <1>7 DEF rawVars
<1> QED BY <1>3, <1>4, <1>5, <1>6, <1>7, Idles

\* What the recovery of filtered articles has claimed a replay has in hand,
\* until it gives it another status or something fails.
THEOREM ClaimHeld == Spec => []ClaimedIsHeld
<1> DEFINE Inv == TypeOK /\ ArticleInv /\ ReplayOK /\ ClaimedHeldFirmly
<1>1. Init => Inv
    <2>1. Init => ReplayOK /\ ClaimedHeldFirmly
        BY DEF Init, ReplayOK, ClaimedHeldFirmly, IdleReplay
    <2> QED BY <2>1, ArticleInit
<1>2. Inv /\ [Next]_vars => Inv'
    BY Inductive, HeldNext
<1>3. Inv => ClaimedIsHeld
    BY DEF ClaimedHeldFirmly, ClaimedIsHeld
<1> QED BY <1>1, <1>2, <1>3, PTL DEF Spec
=============================================================================
