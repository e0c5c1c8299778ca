-------------------------- MODULE EnrichmentProofs --------------------------
(***************************************************************************)
(* Proofs about Enrichment, for any number of articles, pipeline runs,     *)
(* downloads, recoveries and workers of the outbox that overlap.           *)
(***************************************************************************)
EXTENDS Enrichment, TLAPS

(* Rows and records. *)

LEMMA Placeholders ==
    /\ NoRow.status = "absent" /\ NoRow.thumb = 0 /\ NoRow.retries = 0
    /\ NoRow.stages = {} /\ NoRow.scored = FALSE /\ NoRow.completed = FALSE
    /\ NoRow \in Loaded /\ NoRow \notin Row
    /\ StoredRow \in Row /\ StoredRow.status = "pending" /\ StoredRow.thumb = 0
    /\ StoredRow.retries = 0
    /\ NoImage # 0 /\ NoImage \notin Image
    /\ IdleRun \in PipelineRun /\ IdleRun.article = {} /\ IdleRun.read = NoImage
    /\ IdleTask \in DownloadTask /\ IdleTask.pc = "idle" /\ IdleTask.article = {}
    /\ IdleTask.copy = NoRow
    /\ IdleClaim \in Recovery /\ IdleClaim.todo = {} /\ IdleClaim.held = {}
    /\ IdleHandler \in Handling
<1>0. 0 \in Image /\ NoImage # 0 /\ NoImage \notin Image
    BY BoundAssumption DEF Image, NoImage
<1>1. /\ NoRow.status = "absent" /\ NoRow.thumb = 0 /\ NoRow.retries = 0
      /\ NoRow.stages = {} /\ NoRow.scored = FALSE /\ NoRow.completed = FALSE
      /\ NoRow \notin Row
    BY DEF NoRow, Row, Status
<1>2. /\ StoredRow.status = "pending" /\ StoredRow.thumb = 0 /\ StoredRow.retries = 0
      /\ StoredRow \in Row
    <2>1. NoRow \in [thumb : {0}, status : {"absent"}, retries : {0}, stages : {{}},
                     scored : {FALSE}, completed : {FALSE}]
        BY DEF NoRow
    <2>2. StoredRow \in [thumb : {0}, status : {"pending"}, retries : {0}, stages : {{}},
                         scored : {TRUE}, completed : {FALSE}]
        BY <2>1 DEF StoredRow
    <2>3. {0} \subseteq Image /\ {"pending"} \subseteq Status /\ {0} \subseteq 0..3
          /\ {{}} \subseteq SUBSET Stage
        BY <1>0 DEF Status
    <2>4. StoredRow \in Row
        BY <2>2, <2>3 DEF Row
    <2> QED BY <2>2, <2>4
<1>3. NoRow \in Loaded
    BY DEF Loaded
<1>4. IdleRun \in PipelineRun /\ IdleRun.article = {} /\ IdleRun.read = NoImage
    BY <1>3 DEF IdleRun, PipelineRun, Current
<1>5. /\ IdleTask \in DownloadTask /\ IdleTask.pc = "idle" /\ IdleTask.article = {}
      /\ IdleTask.copy = NoRow
    BY <1>3 DEF IdleTask, DownloadTask, Current
<1>6. IdleClaim \in Recovery /\ IdleClaim.todo = {} /\ IdleClaim.held = {}
    BY DEF IdleClaim, Recovery, Status
<1>7. IdleHandler \in Handling
    BY <1>3 DEF IdleHandler, Handling
<1> QED BY <1>0, <1>1, <1>2, <1>3, <1>4, <1>5, <1>6, <1>7

\* mark_stage_complete writes neither the thumbnail nor its status.
LEMMA MarkedRow ==
    ASSUME NEW current \in Row, NEW copy \in Loaded, NEW stage \in Stage
    PROVE  LET m == Marked(current, copy, stage)
           IN  m \in Row /\ m.thumb = current.thumb /\ m.status = current.status
               /\ m.retries = current.retries
<1>1. copy.stages \in SUBSET Stage /\ copy.stages \cup {stage} \in SUBSET Stage
      /\ copy.scored \in BOOLEAN
    BY Placeholders DEF Loaded, Row
<1> DEFINE stages == IF stage \in copy.stages THEN current.stages ELSE copy.stages \cup {stage}
           scores == Stage \subseteq copy.stages \cup {stage} /\ ~copy.scored
<1>2. stages \in SUBSET Stage /\ scores \in BOOLEAN
    BY <1>1 DEF Row
<1>3. Marked(current, copy, stage)
        = [current EXCEPT !.stages = stages, !.completed = @ \/ scores, !.scored = @ \/ scores]
    BY DEF Marked
<1> HIDE DEF stages, scores
<1> QED BY <1>2, <1>3 DEF Row

LEMMA TypeInit == Init => TypeOK
<1> SUFFICES ASSUME Init PROVE TypeOK
    OBVIOUS
<1> QED BY Placeholders, BoundAssumption DEF Init, TypeOK

\* What a message, a task or an event is about is stored.
LEMMA StoredRows ==
    ASSUME TypeOK, StoredByRun
    PROVE  /\ \A a \in Article : row[a] # NoRow => row[a] \in Row
           /\ \A a \in Article : messages[a] # 0 => row[a] \in Row /\ published[a] # 0
           /\ \A t \in Downloader : \A a \in task[t].article :
                 a \in Article /\ row[a] \in Row /\ published[a] # 0
           /\ \A e \in outbox : row[e.article] \in Row /\ published[e.article] # 0
<1>1. \A a \in Article : row[a] # NoRow => row[a] \in Row
    BY DEF TypeOK, Loaded
<1>2. \A a \in Article : messages[a] # 0 => row[a] # NoRow /\ published[a] # 0
    BY DEF StoredByRun, Unstored
<1>3. \A t \in Downloader : \A a \in task[t].article :
          a \in Article /\ row[a] # NoRow /\ published[a] # 0
    <2> SUFFICES ASSUME NEW t \in Downloader, NEW a \in task[t].article
                 PROVE  a \in Article /\ row[a] # NoRow /\ published[a] # 0
        OBVIOUS
    <2>1. a \in Article
        BY DEF TypeOK, DownloadTask, Current
    <2> QED BY <2>1 DEF StoredByRun, Unstored
<1>4. \A e \in outbox : row[e.article] # NoRow /\ published[e.article] # 0 /\ e.article \in Article
    <2> SUFFICES ASSUME NEW e \in outbox
                 PROVE  row[e.article] # NoRow /\ published[e.article] # 0 /\ e.article \in Article
        OBVIOUS
    <2>1. e.article \in Article
        BY DEF TypeOK, Event
    <2> QED BY <2>1 DEF StoredByRun, Unstored
<1> QED BY <1>1, <1>2, <1>3, <1>4

\* A process's record is replaced by another.
LEMMA Replaced ==
    ASSUME TypeOK
    PROVE  /\ \A p \in Pipeline : \A r : run' = [run EXCEPT ![p] = r] =>
                 /\ run'[p] = r /\ \A q \in Pipeline \ {p} : run'[q] = run[q]
                 /\ r \in PipelineRun => run' \in [Pipeline -> PipelineRun]
           /\ \A t \in Downloader : \A r : task' = [task EXCEPT ![t] = r] =>
                 /\ task'[t] = r /\ \A u \in Downloader \ {t} : task'[u] = task[u]
                 /\ r \in DownloadTask => task' \in [Downloader -> DownloadTask]
           /\ \A c \in Recoverer : \A r : claim' = [claim EXCEPT ![c] = r] =>
                 /\ claim'[c] = r /\ \A q \in Recoverer \ {c} : claim'[q] = claim[q]
                 /\ r \in Recovery => claim' \in [Recoverer -> Recovery]
           /\ \A d \in Dispatcher : \A r : handler' = [handler EXCEPT ![d] = r] =>
                 (r \in Handling => handler' \in [Dispatcher -> Handling])
BY DEF TypeOK

-----------------------------------------------------------------------------
(* What a step does.                                                       *)

Fault == faults' = faults + 1

\* Nothing but a run, a handler or the faults changes.
Runs ==
    /\ UNCHANGED <<rows, lock, queues, task, claim, history>>
    /\ faults' = faults \/ Fault
    /\ \A p \in Pipeline : \A a \in run'[p].article :
          \/ /\ a \in run[p].article /\ run'[p].copy = run[p].copy
             /\ run'[p].read = run[p].read \/ run'[p].read = read[a]
          \/ run'[p].read = NoImage /\ (row[a] = NoRow => run'[p].copy = StoredRow)

Commits(p, a) ==
    /\ UNCHANGED <<lock, messages, task, claim, finalized, sent, faults>>
    /\ a \in run[p].article /\ a \notin lock
    /\ \A b \in Article :
          /\ row'[b] = IF b = a /\ row[b] = NoRow THEN StoredRow ELSE row[b]
          /\ read'[b] = IF b = a /\ run[p].copy.thumb # run[p].read THEN run[p].copy.thumb
                        ELSE read[b]
          /\ published'[b] = IF b = a THEN published[b] + 1 ELSE published[b]
    /\ outbox' = outbox \cup {Published(a, run[p].copy.thumb)}
    /\ \A q \in Pipeline : IF q = p THEN run'[q].article = {} ELSE run'[q] = run[q]

OtherTasks(t) == \A u \in Downloader \ {t} : task'[u] = task[u]

Takes(t, a) ==
    /\ UNCHANGED <<rows, lock, outbox, run, claim, history, faults>>
    /\ messages[a] # 0 /\ \A b \in Article \ {a} : messages'[b] = messages[b]
    /\ task[t].article = {} /\ task'[t].article = {a}
    /\ task'[t].pc = "download" /\ task'[t].copy = NoRow /\ OtherTasks(t)

Loads(t, a) ==
    /\ UNCHANGED <<rows, lock, queues, run, claim, history, faults>>
    /\ a \in task[t].article /\ task'[t].article = task[t].article
    /\ task'[t].pc = "loaded" /\ task'[t].copy = row[a] /\ OtherTasks(t)

Finalizes(t, a, thumb) ==
    /\ UNCHANGED <<read, lock, messages, run, claim, published, sent, faults>>
    /\ a \in task[t].article /\ task[t].pc = "loaded" /\ a \notin lock
    /\ \A b \in Article \ {a} : row'[b] = row[b] /\ finalized'[b] = finalized[b]
    /\ finalized'[a] = finalized[a] + 1
    /\ row'[a] \in Row
    /\ row'[a].thumb = IF thumb = task[t].copy.thumb THEN row[a].thumb ELSE thumb
    /\ \/ row'[a].status \in {"failed", "downloaded"}
       \/ row'[a].status = row[a].status /\ task[t].copy.status \in {"failed", "downloaded"}
    /\ outbox' = outbox \cup {Updated(a, thumb)}
    /\ task'[t] = IdleTask /\ OtherTasks(t)

FailsTask(t) ==
    /\ UNCHANGED <<rows, lock, queues, run, claim, history>> /\ Fault
    /\ task'[t] = IdleTask /\ OtherTasks(t)

OtherClaims(r) == \A q \in Recoverer \ {r} : claim'[q] = claim[q]

Claims(r) ==
    /\ UNCHANGED <<rows, queues, run, task, history, faults>>
    /\ claim[r].held = {} /\ lock' = lock \cup Claimable
    /\ claim'[r].todo = Claimable /\ claim'[r].held = Claimable /\ OtherClaims(r)

Decides(r, a, status) ==
    /\ UNCHANGED <<rows, lock, outbox, run, task, published, finalized, faults>>
    /\ a \in claim[r].todo /\ status \in {"recovering", "failed", "given_up"}
    /\ \/ status # "recovering" /\ UNCHANGED <<messages, sent>>
       \/ \A b \in Article : /\ messages'[b] = IF b = a THEN messages[b] + 1 ELSE messages[b]
                             /\ sent'[b] = IF b = a THEN sent[b] + 1 ELSE sent[b]
    /\ claim'[r].todo = claim[r].todo \ {a} /\ claim'[r].held = claim[r].held
    /\ \A b \in Article :
          claim'[r].outcome[b] = IF b = a THEN status ELSE claim[r].outcome[b]
    /\ OtherClaims(r)

CommitsClaims(r) ==
    /\ UNCHANGED <<read, queues, run, task, history, faults>>
    /\ claim[r].todo = {}
    /\ \A a \in Article \ claim[r].held : row'[a] = row[a]
    /\ \A a \in claim[r].held : /\ row'[a] \in Row /\ row'[a].thumb = row[a].thumb
                                /\ row'[a].status = claim[r].outcome[a]
    /\ lock' = lock \ claim[r].held
    /\ claim'[r] = IdleClaim /\ OtherClaims(r)

FailsClaims(r) ==
    /\ UNCHANGED <<rows, queues, run, task, history>> /\ Fault
    /\ lock' = lock \ claim[r].held
    /\ claim'[r] = IdleClaim /\ OtherClaims(r)

ProjectsArticle(e) ==
    /\ UNCHANGED <<row, lock, queues, run, task, claim, history, faults>>
    /\ e \in outbox /\ e.type = "published"
    /\ \A a \in Article :
          read'[a] = IF a = e.article /\ (read[a] = NoImage \/ e.thumb # 0) THEN e.thumb
                     ELSE read[a]

Marks(e) ==
    /\ UNCHANGED <<read, lock, messages, run, task, claim, history, faults>>
    /\ e \in outbox /\ e.type = "published" /\ outbox' = outbox \ {e}
    /\ \A a \in Article : 
          /\ row'[a].thumb = row[a].thumb /\ row'[a].status = row[a].status
          /\ row'[a].retries = row[a].retries
          /\ row[a] = NoRow <=> row'[a] = NoRow

ProjectsThumbnail(e) ==
    /\ UNCHANGED <<row, lock, messages, run, task, claim, history>>
    /\ e \in outbox /\ e.type = "thumbnail"
    /\ faults' = faults \/ Fault
    /\ outbox' = outbox \/ outbox' = outbox \ {e}
    /\ \A a \in Article : read'[a] = IF a = e.article /\ read[a] # NoImage THEN e.thumb
                                     ELSE read[a]

Moves ==
    \/ Runs
    \/ \E p \in Pipeline, a \in Article : Commits(p, a)
    \/ \E t \in Downloader : FailsTask(t)
    \/ \E t \in Downloader, a \in Article : Takes(t, a) \/ Loads(t, a)
    \/ \E t \in Downloader, a \in Article, thumb \in Image : Finalizes(t, a, thumb)
    \/ \E r \in Recoverer : Claims(r) \/ CommitsClaims(r) \/ FailsClaims(r)
    \/ \E r \in Recoverer, a \in Article, status \in Status : Decides(r, a, status)
    \/ \E e \in Event : ProjectsArticle(e) \/ Marks(e) \/ ProjectsThumbnail(e)

\* Every step is one of these, and keeps the types.
LEMMA TypeAndMoves ==
    ASSUME TypeOK, StoredByRun, TasksOK, ClaimsOK, [Next]_vars
    PROVE  TypeOK' /\ Moves
<1> USE BoundAssumption
<1>0. /\ \A a \in Article : row[a] \in Loaded /\ read[a] \in Image \cup {NoImage}
      /\ \A p \in Pipeline : run[p] \in PipelineRun
      /\ \A t \in Downloader : task[t] \in DownloadTask
      /\ \A r \in Recoverer : claim[r] \in Recovery
      /\ \A d \in Dispatcher : handler[d] \in Handling
      /\ outbox \subseteq Event
      /\ \A a \in Article : published[a] \in Nat /\ finalized[a] \in Nat
      /\ runs \in 0..MaxRuns /\ images \in 0..MaxImages /\ faults \in 0..MaxFaults
    BY DEF TypeOK
<1>1. ASSUME NEW p \in Pipeline, NEW a \in Article, BeginRun(p, a)
      PROVE  TypeOK' /\ Moves
    <2> DEFINE copy == IF row[a] = NoRow THEN StoredRow ELSE row[a]
               r == [IdleRun EXCEPT !.pc = "flushed", !.article = {a}, !.copy = copy]
    <2>1. copy \in Loaded /\ (row[a] = NoRow => copy = StoredRow)
        BY <1>0, Placeholders DEF Loaded
    <2>2. /\ run' = [run EXCEPT ![p] = r] /\ runs' \in 0..MaxRuns
          /\ UNCHANGED <<rows, lock, queues, task, claim, handler, history, images, faults>>
        BY <1>0, <1>1 DEF BeginRun
    <2> HIDE DEF copy
    <2>3. /\ r \in PipelineRun /\ r.article = {a} /\ r.copy = copy /\ r.read = NoImage
        <3>1. {a} \in Current
            BY DEF Current
        <3> QED BY <2>1, <3>1, Placeholders DEF PipelineRun
    <2> HIDE DEF r
    <2>4. TypeOK'
        BY <2>2, <2>3, Replaced DEF TypeOK, rows, queues, history
    <2>5. Runs
        BY <2>1, <2>2, <2>3, Replaced DEF Runs
    <2> QED BY <2>4, <2>5 DEF Moves
<1>2. ASSUME NEW p \in Pipeline, NEW a \in Article, LoadReadModel(p, a)
      PROVE  TypeOK' /\ Moves
    <2> DEFINE r == [run[p] EXCEPT !.pc = "read", !.read = read[a]]
    <2>1. /\ run' = [run EXCEPT ![p] = r] /\ a \in run[p].article
          /\ UNCHANGED <<rows, lock, queues, task, claim, handler, history, bounds>>
        BY <1>2 DEF LoadReadModel, TypeOK
    <2>2. /\ r \in PipelineRun /\ r.article = {a} /\ r.copy = run[p].copy /\ r.read = read[a]
        <3>1. run[p].article \in Current
            BY <1>0 DEF PipelineRun
        <3>2. run[p].article = {a}
            BY <2>1, <3>1 DEF Current
        <3> QED BY <1>0, <3>2 DEF PipelineRun
    <2> HIDE DEF r
    <2>3. TypeOK'
        BY <2>1, <2>2, Replaced DEF TypeOK, rows, queues, history, bounds
    <2>4. Runs
        BY <2>1, <2>2, Replaced DEF Runs, bounds
    <2> QED BY <2>3, <2>4 DEF Moves
<1>3. ASSUME NEW p \in Pipeline, NEW a \in Article, CommitRun(p, a)
      PROVE  TypeOK' /\ Moves
    <2> DEFINE thumb == run[p].copy.thumb
               stored == IF row[a] = NoRow THEN StoredRow ELSE row[a]
               shown == IF thumb = run[p].read THEN read[a] ELSE thumb
    <2>0. /\ run[p].pc = "read" /\ a \in run[p].article /\ a \notin lock
          /\ row' = [row EXCEPT ![a] = stored]
          /\ read' = [read EXCEPT ![a] = shown]
          /\ outbox' = outbox \cup {Published(a, thumb)}
          /\ published' = [published EXCEPT ![a] = @ + 1]
          /\ run' = [run EXCEPT ![p] = IdleRun]
          /\ UNCHANGED <<lock, messages, task, claim, handler, finalized, sent, bounds>>
        BY <1>3 DEF CommitRun, TypeOK
    <2>1. thumb \in Image
        BY <1>0, Placeholders DEF PipelineRun, Loaded, Row
    <2>2. stored \in Loaded /\ shown \in Image \cup {NoImage}
        BY <1>0, <2>1, Placeholders DEF Loaded
    <2>3. Published(a, thumb) \in Event
        BY <1>0, <2>1 DEF Published, Event
    <2>4. /\ row' \in [Article -> Loaded] /\ read' \in [Article -> Image \cup {NoImage}]
          /\ published' \in [Article -> Nat] /\ outbox' \subseteq Event
        BY <1>0, <2>0, <2>2, <2>3 DEF TypeOK
    <2>5. TypeOK'
        BY <2>0, <2>4, Replaced, Placeholders DEF TypeOK, bounds
    <2>6. ASSUME NEW b \in Article
          PROVE  /\ row'[b] = IF b = a /\ row[b] = NoRow THEN StoredRow ELSE row[b]
                 /\ read'[b] = IF b = a /\ thumb # run[p].read THEN thumb ELSE read[b]
                 /\ published'[b] = IF b = a THEN published[b] + 1 ELSE published[b]
        BY <2>0 DEF TypeOK
    <2>7. Commits(p, a)
        <3>1. \A q \in Pipeline : IF q = p THEN run'[q].article = {} ELSE run'[q] = run[q]
            BY <2>0, Replaced, Placeholders
        <3> QED BY <2>0, <2>6, <3>1 DEF Commits, bounds
    <2> QED BY <2>5, <2>7 DEF Moves
<1>4. ASSUME NEW p \in Pipeline, FailRun(p)
      PROVE  TypeOK' /\ Moves
    <2>1. /\ run' = [run EXCEPT ![p] = IdleRun] /\ faults' = faults + 1 /\ faults' \in 0..MaxFaults
          /\ UNCHANGED <<rows, lock, queues, task, claim, handler, history, runs, images>>
        BY <1>0, <1>4 DEF FailRun
    <2>2. TypeOK'
        BY <2>1, Replaced, Placeholders DEF TypeOK, rows, queues, history
    <2>3. Runs
        BY <2>1, Replaced, Placeholders DEF Runs, Fault
    <2> QED BY <2>2, <2>3 DEF Moves
<1>5. ASSUME NEW t \in Downloader, NEW a \in Article, TakeMessage(t, a)
      PROVE  TypeOK' /\ Moves
    <2> DEFINE r == [IdleTask EXCEPT !.pc = "download", !.article = {a}]
    <2>1. /\ task[t].pc = "idle" /\ messages[a] > 0
          /\ messages' = [messages EXCEPT ![a] = @ - 1]
          /\ task' = [task EXCEPT ![t] = r]
          /\ UNCHANGED <<rows, lock, outbox, run, claim, handler, history, bounds>>
        BY <1>5 DEF TakeMessage
    <2>2. r \in DownloadTask /\ r.pc = "download" /\ r.article = {a} /\ r.copy = NoRow
        BY Placeholders DEF DownloadTask, Current
    <2> HIDE DEF r
    <2>3. /\ messages' \in [Article -> Nat] /\ messages[a] # 0
          /\ \A b \in Article \ {a} : messages'[b] = messages[b]
        BY <2>1 DEF TypeOK
    <2>4. TypeOK'
        BY <2>1, <2>2, <2>3, Replaced DEF TypeOK, rows, history, bounds
    <2>5. task[t].article = {}
        BY <2>1 DEF TasksOK
    <2>6. Takes(t, a)
        BY <2>1, <2>2, <2>3, <2>5, Replaced DEF Takes, OtherTasks, bounds
    <2> QED BY <2>4, <2>6 DEF Moves
<1>6. ASSUME NEW t \in Downloader, NEW a \in Article, LoadRow(t, a)
      PROVE  TypeOK' /\ Moves
    <2> DEFINE r == [task[t] EXCEPT !.pc = "loaded", !.copy = row[a]]
    <2>1. /\ a \in task[t].article /\ task' = [task EXCEPT ![t] = r]
          /\ UNCHANGED <<rows, lock, queues, run, claim, handler, history, bounds>>
        BY <1>6 DEF LoadRow, TypeOK
    <2>2. /\ r \in DownloadTask /\ r.pc = "loaded" /\ r.article = task[t].article
          /\ r.copy = row[a]
        BY <1>0 DEF DownloadTask
    <2> HIDE DEF r
    <2>3. TypeOK'
        BY <2>1, <2>2, Replaced DEF TypeOK, rows, queues, history, bounds
    <2>4. Loads(t, a)
        BY <2>1, <2>2, Replaced DEF Loads, OtherTasks, bounds
    <2> QED BY <2>3, <2>4 DEF Moves
<1>7. ASSUME NEW t \in Downloader, NEW a \in Article, NEW thumb \in Image,
             FinishDownload(t, a, thumb)
      PROVE  TypeOK' /\ Moves
    <2> DEFINE copy == task[t].copy
               status == IF thumb = 0 THEN "failed" ELSE "downloaded"
               written == [row[a] EXCEPT !.thumb = IF thumb = copy.thumb THEN @ ELSE thumb,
                                         !.status = IF status = copy.status THEN @ ELSE status]
               stored == Marked(written, copy, "thumbnail")
    <2>0. /\ task[t].pc = "loaded" /\ a \in task[t].article /\ a \notin lock
          /\ images' \in 0..MaxImages
          /\ row' = [row EXCEPT ![a] = stored]
          /\ outbox' = outbox \cup {Updated(a, thumb)}
          /\ finalized' = [finalized EXCEPT ![a] = @ + 1]
          /\ task' = [task EXCEPT ![t] = IdleTask]
          /\ UNCHANGED <<read, lock, messages, run, claim, handler, published, sent, runs,
                         faults>>
        BY <1>0, <1>7 DEF FinishDownload, Finalize
    <2>1. row[a] \in Row /\ copy \in Loaded
        BY <1>0, <2>0, StoredRows DEF DownloadTask
    <2>2. status \in Status /\ status \in {"failed", "downloaded"}
        BY DEF Status
    <2> HIDE DEF copy, status
    <2>3. /\ written \in Row
          /\ written.thumb = IF thumb = copy.thumb THEN row[a].thumb ELSE thumb
          /\ written.status = IF status = copy.status THEN row[a].status ELSE status
        BY <2>1, <2>2 DEF Row
    <2> HIDE DEF written
    <2>4. stored \in Row /\ stored.thumb = written.thumb /\ stored.status = written.status
        BY <2>1, <2>3, MarkedRow DEF Stage
    <2> HIDE DEF stored
    <2>5. /\ row' \in [Article -> Loaded] /\ finalized' \in [Article -> Nat]
          /\ row'[a] = stored /\ finalized'[a] = finalized[a] + 1
          /\ \A b \in Article \ {a} : row'[b] = row[b] /\ finalized'[b] = finalized[b]
        BY <1>0, <2>0, <2>4 DEF TypeOK, Loaded
    <2>6. Updated(a, thumb) \in Event
        BY <1>0 DEF Updated, Event
    <2>7. TypeOK'
        BY <2>0, <2>5, <2>6, Replaced, Placeholders DEF TypeOK
    <2>8. task'[t] = IdleTask /\ OtherTasks(t)
        BY <2>0, Replaced DEF OtherTasks
    <2>9. row'[a].thumb = IF thumb = task[t].copy.thumb THEN row[a].thumb ELSE thumb
        BY <2>3, <2>4, <2>5 DEF copy
    <2>10. \/ row'[a].status \in {"failed", "downloaded"}
           \/ row'[a].status = row[a].status /\ task[t].copy.status \in {"failed", "downloaded"}
        BY <2>2, <2>3, <2>4, <2>5 DEF copy
    <2>11. Finalizes(t, a, thumb)
        BY <2>0, <2>4, <2>5, <2>8, <2>9, <2>10 DEF Finalizes
    <2> QED BY <2>7, <2>11 DEF Moves
<1>8. ASSUME NEW t \in Downloader, FailDownload(t)
      PROVE  TypeOK' /\ Moves
    <2>1. /\ task' = [task EXCEPT ![t] = IdleTask]
          /\ faults' = faults + 1 /\ faults' \in 0..MaxFaults
          /\ UNCHANGED <<rows, lock, queues, run, claim, handler, history, runs, images>>
        BY <1>0, <1>8 DEF FailDownload
    <2>2. TypeOK'
        BY <2>1, Replaced, Placeholders DEF TypeOK, rows, queues, history
    <2>3. FailsTask(t)
        BY <2>1, Replaced DEF FailsTask, Fault, OtherTasks
    <2> QED BY <2>2, <2>3 DEF Moves
<1>9. ASSUME NEW r \in Recoverer, Claim(r)
      PROVE  TypeOK' /\ Moves
    <2> DEFINE c == [IdleClaim EXCEPT !.todo = Claimable, !.held = Claimable]
    <2>1. Claimable \subseteq Article
        BY DEF Claimable
    <2>2. /\ claim[r].held = {} /\ lock' = lock \cup Claimable
          /\ claim' = [claim EXCEPT ![r] = c]
          /\ UNCHANGED <<rows, queues, run, task, handler, history, bounds>>
        BY <1>9 DEF Claim
    <2>3. c \in Recovery /\ c.todo = Claimable /\ c.held = Claimable
        BY <2>1, Placeholders DEF Recovery
    <2> HIDE DEF c
    <2>4. TypeOK'
        BY <2>1, <2>2, <2>3, Replaced DEF TypeOK, rows, queues, history, bounds
    <2>5. Claims(r)
        BY <2>2, <2>3, Replaced DEF Claims, OtherClaims, bounds
    <2> QED BY <2>4, <2>5 DEF Moves
<1>10. ASSUME NEW r \in Recoverer, NEW a \in Article, NEW status \in Status,
              a \in claim[r].todo, Decide(r, a, status),
              status \in {"recovering", "failed", "given_up"},
              Send(a) \/ (status # "recovering" /\ UNCHANGED <<messages, sent>>),
              UNCHANGED <<rows, lock, outbox, run, task, handler, published, finalized, bounds>>
       PROVE  TypeOK' /\ Moves
    <2> DEFINE outcome == [claim[r].outcome EXCEPT ![a] = status]
               c == [todo |-> claim[r].todo \ {a}, held |-> claim[r].held,
                     outcome |-> outcome]
    <2>1. claim' = [claim EXCEPT ![r] = c]
        BY <1>10 DEF Decide, TypeOK
    <2>2. /\ outcome \in [Article -> Status]
          /\ \A b \in Article : outcome[b] = IF b = a THEN status ELSE claim[r].outcome[b]
        BY <1>0 DEF Recovery
    <2> HIDE DEF outcome
    <2>3. c \in Recovery /\ c.todo = claim[r].todo \ {a} /\ c.held = claim[r].held
          /\ c.outcome = outcome
        BY <1>0, <2>2 DEF Recovery
    <2> HIDE DEF c
    <2>4. messages' \in [Article -> Nat] /\ sent' \in [Article -> Nat]
        BY <1>10 DEF Send, TypeOK
    <2>5. TypeOK'
        <3>1. claim' \in [Recoverer -> Recovery]
            BY <2>1, <2>3, Replaced
        <3>2. UNCHANGED <<row, read, lock, outbox, run, task, handler, published, finalized,
                          bounds>>
            BY <1>10 DEF rows
        <3> QED BY <2>4, <3>1, <3>2 DEF TypeOK, bounds
    <2>6. \/ status # "recovering" /\ UNCHANGED <<messages, sent>>
          \/ \A b \in Article :
                /\ messages'[b] = IF b = a THEN messages[b] + 1 ELSE messages[b]
                /\ sent'[b] = IF b = a THEN sent[b] + 1 ELSE sent[b]
        BY <1>10 DEF Send, TypeOK
    <2>7. Decides(r, a, status)
        BY <1>10, <2>1, <2>2, <2>3, <2>6, Replaced DEF Decides, OtherClaims, bounds
    <2> QED BY <2>5, <2>7 DEF Moves
<1>11. ASSUME NEW r \in Recoverer, NEW a \in Article, RecoverArticle(r, a)
       PROVE  TypeOK' /\ Moves
    <2>1. "recovering" \in Status /\ "recovering" \in {"recovering", "failed", "given_up"}
        BY DEF Status
    <2>2. a \in claim[r].todo /\ Decide(r, a, "recovering") /\ Send(a)
          /\ UNCHANGED <<rows, lock, outbox, run, task, handler, published, finalized, bounds>>
        BY <1>11 DEF RecoverArticle
    <2> QED BY <1>10, <2>1, <2>2
<1>12. ASSUME NEW r \in Recoverer, NEW a \in Article, GiveUpArticle(r, a)
       PROVE  TypeOK' /\ Moves
    <2> DEFINE status == IF LastRetry(a) THEN "failed" ELSE "given_up"
    <2>1. status \in Status /\ status \in {"recovering", "failed", "given_up"}
          /\ status # "recovering"
        BY DEF Status
    <2>2. a \in claim[r].todo /\ Decide(r, a, status)
          /\ UNCHANGED <<rows, lock, queues, run, task, handler, history, bounds>>
        BY <1>12 DEF GiveUpArticle
    <2> HIDE DEF status
    <2> QED BY <1>10, <2>1, <2>2 DEF queues, history
<1>13. ASSUME NEW r \in Recoverer, CommitClaims(r)
       PROVE  TypeOK' /\ Moves
    <2>0. /\ claim[r].todo = {} /\ lock' = lock \ claim[r].held
          /\ claim' = [claim EXCEPT ![r] = IdleClaim]
          /\ UNCHANGED <<read, queues, run, task, handler, history, bounds>>
          /\ row' = [a \in Article |->
                        IF a \in claim[r].held
                        THEN [row[a] EXCEPT !.status = claim[r].outcome[a], !.retries = @ + 1]
                        ELSE row[a]]
        BY <1>13 DEF CommitClaims, RecoveredStatus
    <2>1. ASSUME NEW a \in claim[r].held
          PROVE  /\ a \in Article /\ row'[a] \in Row /\ row'[a].thumb = row[a].thumb
                 /\ row'[a].status = claim[r].outcome[a]
        <3>1. a \in Article /\ claim[r].outcome[a] \in Status
            BY <1>0 DEF Recovery
        <3>2. row[a].status = "pending" /\ row[a].retries < 3
            BY DEF ClaimsOK
        <3>3. row[a] \in Row
            BY <1>0, <3>1, <3>2, Placeholders DEF Loaded
        <3>4. row[a].retries + 1 \in 0..3
            BY <3>2, <3>3 DEF Row
        <3>5. row'[a] = [row[a] EXCEPT !.status = claim[r].outcome[a], !.retries = @ + 1]
            BY <2>0, <3>1
        <3> QED BY <3>1, <3>3, <3>4, <3>5 DEF Row
    <2>2. \A a \in Article \ claim[r].held : row'[a] = row[a]
        BY <2>0
    <2>3. row' \in [Article -> Loaded]
        <3>1. \A a \in Article : row'[a] \in Loaded
            BY <1>0, <2>1, <2>2 DEF Loaded
        <3> QED BY <2>0, <3>1
    <2>4. lock' \subseteq Article
        BY <2>0 DEF TypeOK
    <2>5. TypeOK'
        BY <2>0, <2>3, <2>4, Replaced, Placeholders DEF TypeOK, queues, history, bounds
    <2>6. CommitsClaims(r)
        BY <2>0, <2>1, <2>2, Replaced DEF CommitsClaims, OtherClaims, bounds
    <2> QED BY <2>5, <2>6 DEF Moves
<1>14. ASSUME NEW r \in Recoverer, FailRecovery(r)
       PROVE  TypeOK' /\ Moves
    <2>1. /\ lock' = lock \ claim[r].held /\ claim' = [claim EXCEPT ![r] = IdleClaim]
          /\ faults' = faults + 1 /\ faults' \in 0..MaxFaults
          /\ UNCHANGED <<rows, queues, run, task, handler, history, runs, images>>
        BY <1>0, <1>14 DEF FailRecovery
    <2>2. TypeOK'
        BY <2>1, Replaced, Placeholders DEF TypeOK, rows, queues, history
    <2>3. FailsClaims(r)
        BY <2>1, Replaced DEF FailsClaims, Fault, OtherClaims
    <2> QED BY <2>2, <2>3 DEF Moves
<1>15. ASSUME NEW d \in Dispatcher, NEW e \in outbox, ProjectArticle(d, e)
       PROVE  TypeOK' /\ Moves
    <2> DEFINE h == [pc |-> "projected", event |-> {e}, copy |-> NoRow]
               shown == IF read[e.article] = NoImage THEN e.thumb
                        ELSE Coalesced(e.thumb, read[e.article])
    <2>0. /\ e.type = "published" /\ handler' = [handler EXCEPT ![d] = h]
          /\ read' = [read EXCEPT ![e.article] = shown]
          /\ UNCHANGED <<row, lock, queues, run, task, claim, history, bounds>>
        BY <1>15 DEF ProjectArticle
    <2>1. e \in Event /\ e.article \in Article /\ e.thumb \in Image
        BY <1>0 DEF Event
    <2>2. h \in Handling
        BY <2>0, <2>1, Placeholders DEF Handling
    <2> HIDE DEF h
    <2>3. /\ shown \in Image \cup {NoImage}
          /\ shown = IF read[e.article] = NoImage \/ e.thumb # 0 THEN e.thumb
                     ELSE read[e.article]
        BY <1>0, <2>1 DEF Coalesced
    <2> HIDE DEF shown
    <2>4. TypeOK'
        <3>1. read' \in [Article -> Image \cup {NoImage}]
            BY <2>0, <2>3 DEF TypeOK
        <3>2. handler' \in [Dispatcher -> Handling]
            BY <2>0, <2>2, Replaced
        <3> QED BY <2>0, <3>1, <3>2 DEF TypeOK, queues, history, bounds
    <2>5. ProjectsArticle(e)
        BY <2>0, <2>1, <2>3 DEF ProjectsArticle, TypeOK, bounds
    <2> QED BY <2>1, <2>4, <2>5 DEF Moves
<1>16. ASSUME NEW d \in Dispatcher, NEW e \in outbox, LoadKnowledge(d, e)
       PROVE  TypeOK' /\ Moves
    <2> DEFINE h == [handler[d] EXCEPT !.pc = "loaded", !.copy = row[e.article]]
    <2>0. /\ handler' = [handler EXCEPT ![d] = h]
          /\ UNCHANGED <<rows, lock, queues, run, task, claim, history, bounds>>
        BY <1>16 DEF LoadKnowledge, TypeOK
    <2>1. row[e.article] \in Loaded
        BY <1>0 DEF Event
    <2>2. h \in Handling
        BY <1>0, <2>1 DEF Handling
    <2> HIDE DEF h
    <2>3. TypeOK'
        BY <2>0, <2>2, Replaced DEF TypeOK, rows, queues, history, bounds
    <2>4. Runs
        BY <2>0 DEF Runs, bounds
    <2> QED BY <2>3, <2>4 DEF Moves
<1>17. ASSUME NEW d \in Dispatcher, NEW e \in outbox, MarkKnowledge(d, e)
       PROVE  TypeOK' /\ Moves
    <2> DEFINE stored == Marked(row[e.article], handler[d].copy, "knowledge")
    <2>0. /\ e \in handler[d].event
          /\ row' = [row EXCEPT ![e.article] = stored]
          /\ outbox' = outbox \ {e}
          /\ handler' = [handler EXCEPT ![d] = IdleHandler]
          /\ UNCHANGED <<read, lock, messages, run, task, claim, history, bounds>>
        BY <1>17 DEF MarkKnowledge, TypeOK
    <2>1. e.article \in Article /\ e.type = "published" /\ e \in Event
        BY <1>0, <2>0 DEF Event, Handling
    <2>2. row[e.article] \in Row /\ handler[d].copy \in Loaded
        BY <1>0, StoredRows DEF Handling
    <2>3. /\ stored \in Row /\ stored.thumb = row[e.article].thumb
          /\ stored.status = row[e.article].status /\ stored.retries = row[e.article].retries
        BY <2>2, MarkedRow DEF Stage
    <2> HIDE DEF stored
    <2>4. /\ row' \in [Article -> Loaded]
          /\ \A a \in Article : row'[a] = IF a = e.article THEN stored ELSE row[a]
        BY <1>0, <2>0, <2>1, <2>3 DEF TypeOK, Loaded
    <2>5. TypeOK'
        <3>1. handler' \in [Dispatcher -> Handling]
            BY <2>0, Replaced, Placeholders
        <3>2. outbox' \subseteq Event
            BY <1>0, <2>0
        <3> QED BY <2>0, <2>4, <3>1, <3>2 DEF TypeOK, history, bounds
    <2>6. ASSUME NEW a \in Article
          PROVE  /\ row'[a].thumb = row[a].thumb /\ row'[a].status = row[a].status
                 /\ row'[a].retries = row[a].retries
                 /\ row[a] = NoRow <=> row'[a] = NoRow
        BY <2>2, <2>3, <2>4, Placeholders
    <2>7. Marks(e)
        BY <2>0, <2>1, <2>6 DEF Marks, bounds
    <2> QED BY <2>1, <2>5, <2>7 DEF Moves
<1>18. ASSUME NEW d \in Dispatcher, FailHandler(d)
       PROVE  TypeOK' /\ Moves
    <2>1. /\ handler' = [handler EXCEPT ![d] = IdleHandler]
          /\ faults' = faults \/ (faults' = faults + 1 /\ faults < MaxFaults)
          /\ UNCHANGED <<rows, lock, queues, run, task, claim, history, runs, images>>
        BY <1>18 DEF FailHandler
    <2>2. TypeOK'
        <3>1. faults' \in 0..MaxFaults
            BY <1>0, <2>1
        <3> QED BY <2>1, <3>1, Replaced, Placeholders DEF TypeOK, rows, queues, history
    <2>3. Runs
        BY <2>1 DEF Runs, Fault
    <2> QED BY <2>2, <2>3 DEF Moves
<1>19. ASSUME NEW e \in outbox, ProjectThumbnail(e)
       PROVE  TypeOK' /\ Moves
    <2>0. /\ e.type = "thumbnail" /\ read' = [read EXCEPT ![e.article] = Projected(e)]
          /\ outbox' = outbox \/ outbox' = outbox \ {e}
          /\ faults' = faults \/ (faults' = faults + 1 /\ faults < MaxFaults)
          /\ UNCHANGED <<row, lock, messages, run, task, claim, handler, history, runs, images>>
        BY <1>19 DEF ProjectThumbnail
    <2>1. e \in Event /\ e.article \in Article /\ e.thumb \in Image
        BY <1>0 DEF Event
    <2>2. TypeOK'
        <3>1. read' \in [Article -> Image \cup {NoImage}]
            BY <2>0, <2>1 DEF TypeOK, Projected
        <3>2. faults' \in 0..MaxFaults /\ outbox' \subseteq Event
            BY <1>0, <2>0
        <3> QED BY <2>0, <3>1, <3>2 DEF TypeOK, history
    <2>3. \A a \in Article :
             read'[a] = IF a = e.article /\ read[a] # NoImage THEN e.thumb ELSE read[a]
        BY <2>0, <2>1 DEF TypeOK, Projected
    <2>4. ProjectsThumbnail(e)
        BY <2>0, <2>3 DEF ProjectsThumbnail, Fault
    <2> QED BY <2>1, <2>2, <2>4 DEF Moves
<1>20. CASE UNCHANGED vars
    <2>1. TypeOK'
        BY <1>20 DEF TypeOK, vars, rows, queues, history, bounds
    <2>2. Runs
        BY <1>20 DEF Runs, vars, bounds
    <2> QED BY <2>1, <2>2 DEF Moves
<1>21. CASE \E p \in Pipeline : \/ RunStep(p) \/ FailRun(p)
                                \/ \E a \in Article : BeginRun(p, a)
    BY <1>1, <1>2, <1>3, <1>4, <1>21 DEF RunStep
<1>22. CASE \E t \in Downloader : DownloadStep(t) \/ FailDownload(t)
    BY <1>5, <1>6, <1>7, <1>8, <1>22 DEF DownloadStep
<1>23. CASE \E r \in Recoverer : RecoverStep(r) \/ FailRecovery(r)
    BY <1>9, <1>11, <1>12, <1>13, <1>14, <1>23 DEF RecoverStep
<1>24. CASE DispatchStep \/ \E d \in Dispatcher : FailHandler(d)
    BY <1>15, <1>16, <1>17, <1>18, <1>19, <1>24 DEF DispatchStep
<1> QED BY <1>20, <1>21, <1>22, <1>23, <1>24 DEF Next
-----------------------------------------------------------------------------
(* Downloads and recoveries.                                               *)

\* What leaves downloads and recoveries alone: a new row waits.
Elsewhere ==
    /\ UNCHANGED <<lock, messages, task, claim, sent>>
    /\ faults' = faults \/ Fault
    /\ \A a \in Article :
          \/ row'[a].status = row[a].status /\ row'[a].retries = row[a].retries
          \/ row[a].status = "absent" /\ row'[a].status = "pending"

LEMMA MostStepsElsewhere ==
    ASSUME TypeOK
    PROVE  /\ Runs => Elsewhere
           /\ \A p \in Pipeline, a \in Article : Commits(p, a) => Elsewhere
           /\ \A e \in Event :
                 ProjectsArticle(e) \/ Marks(e) \/ ProjectsThumbnail(e) => Elsewhere
<1>1. Runs => Elsewhere
    BY DEF Runs, Elsewhere, rows, queues, history
<1>2. ASSUME NEW p \in Pipeline, NEW a \in Article, Commits(p, a) PROVE Elsewhere
    <2>1. \A b \in Article : row'[b] = row[b] \/ (row[b] = NoRow /\ row'[b] = StoredRow)
        BY <1>2 DEF Commits
    <2> QED BY <1>2, <2>1, Placeholders DEF Commits, Elsewhere
<1>3. ASSUME NEW e \in Event, ProjectsArticle(e) PROVE Elsewhere
    BY <1>3 DEF ProjectsArticle, Elsewhere, queues, history
<1>4. ASSUME NEW e \in Event, Marks(e) PROVE Elsewhere
    BY <1>4 DEF Marks, Elsewhere, history
<1>5. ASSUME NEW e \in Event, ProjectsThumbnail(e) PROVE Elsewhere
    BY <1>5 DEF ProjectsThumbnail, Elsewhere, history
<1> QED BY <1>1, <1>2, <1>3, <1>4, <1>5

\* What a task has loaded and is settled stays so.
LEMMA TasksKept ==
    ASSUME TypeOK, TypeOK', TasksOK, ClaimsOK, Moves
    PROVE  TasksOK'
<1>0. /\ \A t \in Downloader : task[t].article \subseteq Article
      /\ \A r \in Recoverer : claim[r].held \subseteq Article
    <2>1. \A s \in Current : s \subseteq Article
        BY DEF Current
    <2> QED BY <2>1 DEF TypeOK, DownloadTask, Recovery
<1> DEFINE Stays == \A a \in Article : row[a].status \in Settled => row'[a].status \in Settled
           OK(t) == /\ task'[t].pc = "idle" => task'[t].article = {}
                    /\ task'[t].pc = "loaded" /\ task'[t].copy.status \in Settled =>
                          \A a \in task'[t].article : row'[a].status \in Settled
<1>1. ASSUME Stays, NEW t \in Downloader, task'[t] = task[t] \/ task'[t] = IdleTask
      PROVE  OK(t)
    BY <1>0, <1>1, Placeholders DEF TasksOK
<1>2. ASSUME Stays, UNCHANGED task PROVE TasksOK'
    BY <1>1, <1>2 DEF TasksOK
<1>3. CASE Elsewhere
    <2>1. Stays
        BY <1>3 DEF Elsewhere, Settled
    <2> QED BY <1>2, <1>3, <2>1 DEF Elsewhere
<1>4. ASSUME NEW t \in Downloader, FailsTask(t) PROVE TasksOK'
    <2>1. Stays
        BY <1>4 DEF FailsTask, rows
    <2> QED BY <1>1, <1>4, <2>1 DEF FailsTask, OtherTasks, TasksOK
<1>5. ASSUME NEW t \in Downloader, NEW a \in Article, Takes(t, a) PROVE TasksOK'
    <2>1. Stays
        BY <1>5 DEF Takes, rows
    <2> QED BY <1>1, <1>5, <2>1 DEF Takes, OtherTasks, TasksOK
<1>6. ASSUME NEW t \in Downloader, NEW a \in Article, Loads(t, a) PROVE TasksOK'
    <2>1. Stays /\ task[t].article = {a}
        BY <1>6 DEF Loads, rows, TypeOK, DownloadTask, Current
    <2>2. OK(t)
        BY <1>6, <2>1 DEF Loads, rows
    <2> QED BY <1>1, <1>6, <2>1, <2>2 DEF Loads, OtherTasks, TasksOK
<1>7. ASSUME NEW t \in Downloader, NEW a \in Article, NEW thumb \in Image,
             Finalizes(t, a, thumb)
      PROVE  TasksOK'
    <2>1. Stays
        BY <1>7 DEF Finalizes, Settled
    <2> QED BY <1>1, <1>7, <2>1 DEF Finalizes, OtherTasks, TasksOK
<1>8. ASSUME NEW r \in Recoverer, Claims(r) \/ FailsClaims(r) PROVE TasksOK'
    <2>1. Stays /\ UNCHANGED task
        BY <1>8 DEF Claims, FailsClaims, rows
    <2> QED BY <1>2, <2>1
<1>9. ASSUME NEW r \in Recoverer, CommitsClaims(r) PROVE TasksOK'
    <2>1. \A a \in Article : row'[a] = row[a] \/ row[a].status = "pending"
        BY <1>9 DEF CommitsClaims, ClaimsOK
    <2>2. Stays
        BY <2>1 DEF Settled
    <2> QED BY <1>2, <1>9, <2>2 DEF CommitsClaims
<1>10. ASSUME NEW r \in Recoverer, NEW a \in Article, NEW status \in Status,
              Decides(r, a, status)
       PROVE  TasksOK'
    <2>1. Stays /\ UNCHANGED task
        BY <1>10 DEF Decides, rows
    <2> QED BY <1>2, <2>1
<1> QED BY <1>3, <1>4, <1>5, <1>6, <1>7, <1>8, <1>9, <1>10, MostStepsElsewhere DEF Moves

\* A step takes the last message or task of an article from it only if it
\* finishes the download, and then the article is not locked.
LEMMA OwnedKept ==
    ASSUME TypeOK, TypeOK', TasksOK, Moves, NEW a \in Article, Owned(a)
    PROVE  Owned(a)' \/ (a \notin lock /\ row'[a].status # "recovering")
<1>0. messages[a] \in Nat /\ messages'[a] \in Nat /\ faults \in Nat /\ faults' \in Nat
    BY BoundAssumption DEF TypeOK
<1>1. ASSUME Elsewhere PROVE Owned(a)'
    BY <1>0, <1>1 DEF Elsewhere, Fault, Owned
<1>2. ASSUME NEW t \in Downloader, FailsTask(t) PROVE Owned(a)'
    BY <1>0, <1>2 DEF FailsTask, Fault, Owned
<1>3. ASSUME NEW t \in Downloader, NEW b \in Article, Takes(t, b) PROVE Owned(a)'
    <2>1. CASE a = b
        BY <1>3, <2>1 DEF Takes, Owned
    <2>2. CASE a # b
        BY <1>3, <2>2 DEF Takes, OtherTasks, Owned
    <2> QED BY <2>1, <2>2
<1>4. ASSUME NEW t \in Downloader, NEW b \in Article, Loads(t, b) PROVE Owned(a)'
    <2>1. \A u \in Downloader : task'[u].article = task[u].article
        BY <1>4 DEF Loads, OtherTasks
    <2> QED BY <1>4, <2>1 DEF Loads, queues, Owned
<1>5. ASSUME NEW t \in Downloader, NEW b \in Article, NEW thumb \in Image,
             Finalizes(t, b, thumb)
      PROVE  Owned(a)' \/ (a \notin lock /\ row'[a].status # "recovering")
    <2>1. task[t].article = {b}
        BY <1>5 DEF Finalizes, TypeOK, DownloadTask, Current
    <2>2. CASE a = b
        <3>1. task[t].copy.status \in {"failed", "downloaded"} => row[b].status # "recovering"
            BY <1>5, <2>1 DEF Finalizes, TasksOK, Settled
        <3> QED BY <1>5, <2>2, <3>1 DEF Finalizes
    <2>3. CASE a # b
        BY <1>5, <2>1, <2>3 DEF Finalizes, OtherTasks, Owned
    <2> QED BY <2>2, <2>3
<1>6. ASSUME NEW r \in Recoverer, Claims(r) \/ CommitsClaims(r) \/ FailsClaims(r)
      PROVE  Owned(a)'
    <2>1. UNCHANGED <<messages, task>> /\ faults' \in {faults, faults + 1}
        BY <1>6 DEF Claims, CommitsClaims, FailsClaims, Fault, queues
    <2> QED BY <1>0, <2>1 DEF Owned
<1>7. ASSUME NEW r \in Recoverer, NEW b \in Article, NEW status \in Status,
             Decides(r, b, status)
      PROVE  Owned(a)'
    <2>1. messages'[a] \in {messages[a], messages[a] + 1} /\ UNCHANGED <<task, faults>>
        BY <1>7 DEF Decides
    <2> QED BY <1>0, <2>1 DEF Owned
<1> QED BY <1>1, <1>2, <1>3, <1>4, <1>5, <1>6, <1>7, MostStepsElsewhere DEF Moves

\* What a recovery holds is left alone, and only what waits is taken.
LEMMA ClaimsKept ==
    ASSUME TypeOK, TypeOK', StoredByRun, TasksOK, ClaimsOK, Moves
    PROVE  ClaimsOK'
<1>0. /\ \A r \in Recoverer : claim[r].held \subseteq Article /\ claim[r].todo \subseteq Article
      /\ \A r \in Recoverer : claim[r].todo \subseteq claim[r].held /\ claim[r].held \subseteq lock
    BY DEF TypeOK, Recovery, ClaimsOK
<1>1. /\ \A a \in Article : Owned(a) => Owned(a)' \/ (a \notin lock /\ row'[a].status # "recovering")
      /\ \A r \in Recoverer : \A a \in claim[r].held : Owned(a) => Owned(a)'
    BY <1>0, OwnedKept
<1> DEFINE Waits(a) == row'[a].status = "pending" /\ row'[a].retries < 3
           Kept(r) == /\ claim'[r].todo \subseteq claim'[r].held /\ claim'[r].held \subseteq lock'
                      /\ \A a \in claim'[r].held : Waits(a)
                      /\ \A a \in claim'[r].held \ claim'[r].todo :
                            /\ claim'[r].outcome[a] # "pending"
                            /\ claim'[r].outcome[a] = "recovering" => Owned(a)'
           Apart(r, q) == claim'[r].held \cap claim'[q].held = {}
<1>2. ASSUME NEW r \in Recoverer, claim'[r] = claim[r], claim[r].held \subseteq lock',
             \A a \in claim[r].held : Waits(a)
      PROVE  Kept(r)
    BY <1>1, <1>2 DEF ClaimsOK
<1>3. ASSUME NEW r \in Recoverer, claim'[r] = IdleClaim
      PROVE  Kept(r) /\ \A q \in Recoverer : Apart(r, q) /\ Apart(q, r)
    BY <1>3, Placeholders
<1>4. ASSUME NEW r \in Recoverer, NEW q \in Recoverer, r # q, claim'[r] = claim[r],
             claim'[q] = claim[q]
      PROVE  Apart(r, q)
    BY <1>4 DEF ClaimsOK
<1>5. ASSUME \A r \in Recoverer : Kept(r), \A r, q \in Recoverer : r # q => Apart(r, q)
      PROVE  ClaimsOK'
    BY <1>5 DEF ClaimsOK
<1> HIDE DEF Kept, Apart
<1>6. ASSUME UNCHANGED <<claim, lock>>,
             \A a \in lock : \/ row'[a].status = row[a].status /\ row'[a].retries = row[a].retries
                             \/ row[a].status = "absent"
      PROVE  ClaimsOK'
    <2>1. ASSUME NEW r \in Recoverer PROVE Kept(r)
        <3>1. \A a \in claim[r].held : a \in lock /\ row[a].status = "pending" /\ row[a].retries < 3
            BY <1>0 DEF ClaimsOK
        <3> QED BY <1>0, <1>2, <1>6, <3>1
    <2> QED BY <1>4, <1>5, <1>6, <2>1
<1>7. CASE Elsewhere
    <2>1. lock \subseteq Article
        BY DEF TypeOK
    <2> QED BY <1>6, <1>7, <2>1 DEF Elsewhere
<1>8. ASSUME NEW t \in Downloader, FailsTask(t) PROVE ClaimsOK'
    BY <1>6, <1>8 DEF FailsTask, rows
<1>9. ASSUME NEW t \in Downloader, NEW a \in Article, Takes(t, a) \/ Loads(t, a) PROVE ClaimsOK'
    BY <1>6, <1>9 DEF Takes, Loads, rows
<1>10. ASSUME NEW t \in Downloader, NEW a \in Article, NEW thumb \in Image,
              Finalizes(t, a, thumb)
       PROVE  ClaimsOK'
    <2>1. lock \subseteq Article /\ \A b \in lock : row'[b] = row[b]
        BY <1>10 DEF TypeOK, Finalizes
    <2> QED BY <1>6, <1>10, <2>1 DEF Finalizes
<1>11. ASSUME NEW r \in Recoverer, Claims(r) PROVE ClaimsOK'
    <2>1. /\ Claimable \subseteq Article /\ Claimable \cap lock = {}
          /\ \A a \in Claimable : row[a].status = "pending" /\ row[a].retries < 3
        BY DEF Claimable
    <2>2. Kept(r)
        BY <1>11, <2>1 DEF Claims, rows, Kept
    <2>3. ASSUME NEW q \in Recoverer, q # r PROVE Kept(q) /\ Apart(r, q) /\ Apart(q, r)
        <3>1. claim'[q] = claim[q] /\ lock \subseteq lock' /\ UNCHANGED row
            BY <1>11, <2>3 DEF Claims, OtherClaims, rows
        <3>2. Kept(q)
            BY <1>0, <1>2, <3>1 DEF ClaimsOK
        <3>3. Apart(r, q) /\ Apart(q, r)
            BY <1>0, <1>11, <2>1, <3>1 DEF Claims, Apart
        <3> QED BY <3>2, <3>3
    <2> QED BY <1>4, <1>5, <1>11, <2>2, <2>3 DEF Claims, OtherClaims
<1>12. ASSUME NEW r \in Recoverer, CommitsClaims(r) \/ FailsClaims(r) PROVE ClaimsOK'
    <2>0. /\ claim'[r] = IdleClaim /\ OtherClaims(r) /\ lock' = lock \ claim[r].held
          /\ \A a \in Article \ claim[r].held : row'[a] = row[a]
        BY <1>12 DEF CommitsClaims, FailsClaims, rows
    <2>1. ASSUME NEW q \in Recoverer, q # r PROVE Kept(q)
        <3>1. claim'[q] = claim[q] /\ claim[r].held \cap claim[q].held = {}
            BY <2>0, <2>1 DEF OtherClaims, ClaimsOK
        <3>2. claim[q].held \subseteq lock' /\ \A a \in claim[q].held : row'[a] = row[a]
            BY <1>0, <2>0, <3>1
        <3>3. \A a \in claim[q].held : Waits(a)
            BY <3>2 DEF ClaimsOK
        <3> QED BY <1>2, <3>1, <3>2, <3>3
    <2>2. Kept(r) /\ \A q \in Recoverer : Apart(r, q) /\ Apart(q, r)
        BY <1>3, <2>0
    <2> QED BY <1>4, <1>5, <2>0, <2>1, <2>2 DEF OtherClaims
<1>13. ASSUME NEW r \in Recoverer, NEW a \in Article, NEW status \in Status,
              Decides(r, a, status)
       PROVE  ClaimsOK'
    <2>0. /\ UNCHANGED <<row, lock>> /\ a \in claim[r].todo /\ status # "pending"
          /\ claim'[r].todo = claim[r].todo \ {a} /\ claim'[r].held = claim[r].held
          /\ \A b \in Article :
                claim'[r].outcome[b] = IF b = a THEN status ELSE claim[r].outcome[b]
          /\ OtherClaims(r)
        BY <1>13 DEF Decides, rows
    <2>1. status = "recovering" => Owned(a)'
        <3>1. status = "recovering" => messages'[a] = messages[a] + 1
            BY <1>13 DEF Decides
        <3>2. messages[a] \in Nat
            BY DEF TypeOK
        <3> QED BY <3>1, <3>2 DEF Owned
    <2>2. ASSUME NEW b \in claim[r].held \ claim'[r].todo
          PROVE  /\ claim'[r].outcome[b] # "pending"
                 /\ claim'[r].outcome[b] = "recovering" => Owned(b)'
        <3>0. b \in Article
            BY <1>0
        <3>1. CASE b = a
            BY <2>0, <2>1, <3>0, <3>1
        <3>2. CASE b # a
            <4>1. b \in claim[r].held \ claim[r].todo
                BY <2>0, <3>2
            <4>2. claim'[r].outcome[b] = claim[r].outcome[b]
                BY <2>0, <3>0, <3>2
            <4>3. /\ claim[r].outcome[b] # "pending"
                  /\ claim[r].outcome[b] = "recovering" => Owned(b)
                BY <4>1 DEF ClaimsOK
            <4> QED BY <1>1, <4>2, <4>3
        <3> QED BY <3>1, <3>2
    <2>3. /\ claim'[r].todo \subseteq claim'[r].held /\ claim'[r].held \subseteq lock'
          /\ \A b \in claim'[r].held : Waits(b)
        BY <1>0, <2>0 DEF ClaimsOK
    <2>4. Kept(r)
        BY <2>0, <2>2, <2>3 DEF Kept
    <2>5. ASSUME NEW q \in Recoverer, q # r PROVE Kept(q) /\ Apart(r, q) /\ Apart(q, r)
        <3>1. claim'[q] = claim[q] /\ claim[r].held \cap claim[q].held = {}
            BY <2>0, <2>5 DEF OtherClaims, ClaimsOK
        <3>2. Kept(q)
            BY <1>0, <1>2, <2>0, <3>1 DEF ClaimsOK
        <3> QED BY <2>0, <3>1, <3>2 DEF Apart
    <2> QED BY <1>4, <1>5, <2>0, <2>4, <2>5 DEF OtherClaims
<1> QED BY <1>7, <1>8, <1>9, <1>10, <1>11, <1>12, <1>13, MostStepsElsewhere DEF Moves

\* Only a recovery that commits leaves an article in "recovering".
LEMMA RecoveringKept ==
    ASSUME TypeOK, TypeOK', TasksOK, ClaimsOK, RecoveringIsOwned, Moves
    PROVE  RecoveringIsOwned'
<1> SUFFICES ASSUME NEW a \in Article, row'[a].status = "recovering" PROVE Owned(a)'
    BY DEF RecoveringIsOwned
<1>1. \/ row[a].status = "recovering"
      \/ \E r \in Recoverer : a \in claim[r].held /\ claim[r].todo = {}
                              /\ claim[r].outcome[a] = "recovering"
    <2>1. CASE Elsewhere
        BY <2>1 DEF Elsewhere
    <2>2. ASSUME NEW t \in Downloader, FailsTask(t) PROVE row' = row
        BY <2>2 DEF FailsTask, rows
    <2>3. ASSUME NEW t \in Downloader, NEW b \in Article, Takes(t, b) \/ Loads(t, b)
          PROVE  row' = row
        BY <2>3 DEF Takes, Loads, rows
    <2>4. ASSUME NEW t \in Downloader, NEW b \in Article, NEW thumb \in Image,
                 Finalizes(t, b, thumb)
          PROVE  row[a].status = "recovering"
        BY <2>4 DEF Finalizes
    <2>5. ASSUME NEW r \in Recoverer, Claims(r) \/ FailsClaims(r) PROVE row' = row
        BY <2>5 DEF Claims, FailsClaims, rows
    <2>6. ASSUME NEW r \in Recoverer, CommitsClaims(r)
          PROVE  \/ row'[a] = row[a]
                 \/ /\ a \in claim[r].held /\ claim[r].todo = {}
                    /\ claim[r].outcome[a] = "recovering"
        BY <2>6 DEF CommitsClaims
    <2>7. ASSUME NEW r \in Recoverer, NEW b \in Article, NEW status \in Status,
                 Decides(r, b, status)
          PROVE  row' = row
        BY <2>7 DEF Decides, rows
    <2> QED BY <2>1, <2>2, <2>3, <2>4, <2>5, <2>6, <2>7, MostStepsElsewhere DEF Moves
<1>2. Owned(a)
    BY <1>1 DEF RecoveringIsOwned, ClaimsOK
<1> QED BY <1>2, OwnedKept

\* A message is counted where its recovery has the article, or has committed,
\* or was rolled back by a fault.
LEMMA SentKept ==
    ASSUME TypeOK, TypeOK', ClaimsOK, SentCounted, Moves
    PROVE  SentCounted'
<1>0. /\ \A a \in Article : sent[a] \in Nat
      /\ \A r \in Recoverer : claim[r].held \subseteq Article /\ claim[r].todo \subseteq claim[r].held
      /\ faults \in Nat
    BY BoundAssumption DEF TypeOK, Recovery, ClaimsOK
<1> DEFINE Unsettled(a) == row[a].status \in {"absent", "pending"}
           Counted(a) == /\ sent'[a] <= 1 + faults'
                         /\ Unsettled(a)' /\ ~Decided(a)' => sent'[a] <= faults'
<1>1. ASSUME NEW a \in Article, sent'[a] = sent[a], faults' = faults \/ Fault,
             Unsettled(a)' => Unsettled(a), Fault \/ (Decided(a) /\ Unsettled(a)' => Decided(a)')
      PROVE  Counted(a)
    <2>1. /\ sent[a] <= 1 + faults
          /\ Unsettled(a) /\ ~Decided(a) => sent[a] <= faults
        BY DEF SentCounted
    <2> HIDE DEF Unsettled
    <2> QED BY <1>0, <1>1, <2>1 DEF Fault
<1>2. ASSUME \A a \in Article : Counted(a) PROVE SentCounted'
    BY <1>2 DEF SentCounted
<1> HIDE DEF Counted
<1>3. ASSUME UNCHANGED <<claim, sent>>, faults' = faults \/ Fault,
             \A a \in Article : Unsettled(a)' => Unsettled(a)
      PROVE  SentCounted'
    <2>1. \A a \in Article : Decided(a)' <=> Decided(a)
        BY <1>3 DEF Decided
    <2> QED BY <1>1, <1>2, <1>3, <2>1
<1>4. CASE Elsewhere
    BY <1>3, <1>4 DEF Elsewhere
<1>5. ASSUME NEW t \in Downloader, FailsTask(t) PROVE SentCounted'
    BY <1>3, <1>5 DEF FailsTask, rows, history
<1>6. ASSUME NEW t \in Downloader, NEW a \in Article, Takes(t, a) \/ Loads(t, a) PROVE SentCounted'
    BY <1>3, <1>6 DEF Takes, Loads, rows, history
<1>7. ASSUME NEW t \in Downloader, NEW a \in Article, NEW thumb \in Image,
             Finalizes(t, a, thumb)
      PROVE  SentCounted'
    BY <1>3, <1>7 DEF Finalizes
<1>8. ASSUME NEW r \in Recoverer, Claims(r) PROVE SentCounted'
    <2>1. UNCHANGED <<row, sent, faults>> /\ claim[r].held = {} /\ OtherClaims(r)
        BY <1>8 DEF Claims, rows, history
    <2>2. \A a \in Article : Decided(a) => Decided(a)'
        BY <2>1 DEF Decided, OtherClaims
    <2> QED BY <1>1, <1>2, <2>1, <2>2
<1>9. ASSUME NEW r \in Recoverer, FailsClaims(r) PROVE SentCounted'
    BY <1>1, <1>2, <1>9 DEF FailsClaims, rows, history
<1>10. ASSUME NEW r \in Recoverer, CommitsClaims(r) PROVE SentCounted'
    <2>1. UNCHANGED <<sent, faults>> /\ OtherClaims(r) /\ claim[r].todo = {}
          /\ \A a \in Article \ claim[r].held : row'[a] = row[a]
        BY <1>10 DEF CommitsClaims, history
    <2>2. ASSUME NEW a \in Article, Unsettled(a)'
          PROVE  Unsettled(a) /\ (Decided(a) => Decided(a)')
        <3>1. a \notin claim[r].held
            <4>1. ASSUME a \in claim[r].held PROVE FALSE
                <5>1. row'[a].status = claim[r].outcome[a] /\ row'[a] \in Row
                    BY <1>10, <4>1 DEF CommitsClaims
                <5>2. row'[a].status # "absent"
                    BY <5>1 DEF Row, Status
                <5>3. claim[r].outcome[a] # "pending"
                    BY <2>1, <4>1 DEF ClaimsOK
                <5> QED BY <2>2, <5>1, <5>2, <5>3
            <4> QED BY <4>1
        <3>2. row'[a] = row[a]
            BY <2>1, <3>1
        <3>3. Decided(a) => Decided(a)'
            BY <2>1, <3>1 DEF Decided, OtherClaims
        <3> QED BY <2>2, <3>2, <3>3
    <2> QED BY <1>1, <1>2, <2>1, <2>2
<1>11. ASSUME NEW r \in Recoverer, NEW a \in Article, NEW status \in Status,
              Decides(r, a, status)
       PROVE  SentCounted'
    <2>0. /\ UNCHANGED <<row, faults>> /\ a \in claim[r].todo
          /\ claim'[r].todo = claim[r].todo \ {a} /\ claim'[r].held = claim[r].held
          /\ OtherClaims(r)
          /\ \A b \in Article \ {a} : sent'[b] = sent[b]
          /\ sent'[a] = sent[a] \/ sent'[a] = sent[a] + 1
        BY <1>11 DEF Decides, rows
    <2>1. ASSUME NEW b \in Article \ {a} PROVE Counted(b)
        <3>1. Decided(b) => Decided(b)'
            BY <2>0 DEF Decided, OtherClaims
        <3> QED BY <1>1, <2>0, <3>1
    <2>2. Decided(a)'
        BY <1>0, <2>0 DEF Decided
    <2>3. ~Decided(a)
        <3>1. \A q \in Recoverer \ {r} : a \notin claim[q].held
            BY <1>0, <2>0 DEF ClaimsOK
        <3> QED BY <2>0, <3>1 DEF Decided
    <2>4. row[a].status = "pending"
        BY <1>0, <2>0 DEF ClaimsOK
    <2>5. sent[a] <= faults
        BY <2>3, <2>4 DEF SentCounted
    <2>6. Counted(a)
        BY <1>0, <2>0, <2>2, <2>5 DEF Counted
    <2> QED BY <1>2, <2>1, <2>6
<1> QED BY <1>4, <1>5, <1>6, <1>7, <1>8, <1>9, <1>10, <1>11, MostStepsElsewhere DEF Moves

-----------------------------------------------------------------------------
(* Images and the read model.                                              *)

\* Until the run that stores it commits, nothing else begins for an article.
LEMMA StoredKept ==
    ASSUME TypeOK, TypeOK', StoredByRun, ClaimsOK, Moves
    PROVE  StoredByRun'
<1>0. /\ \A a \in Article : published[a] \in Nat /\ row[a] \in Loaded
      /\ \A e \in outbox : e.article \in Article
      /\ \A t \in Downloader : task[t].article \in Current
    BY DEF TypeOK, Event, DownloadTask
<1> DEFINE Known(a) == row[a] # NoRow /\ published[a] # 0
           NoRun(a) == \A p \in Pipeline :
                          a \in run[p].article => run[p].copy = StoredRow /\ run[p].read = NoImage
           Rest(a) == /\ row[a] = NoRow /\ read[a] = NoImage
                      /\ finalized[a] = 0 /\ messages[a] = 0
                      /\ \A t \in Downloader : a \notin task[t].article
                      /\ \A e \in outbox : e.article # a
           OK(a) == IF published'[a] = 0 THEN Unstored(a)' ELSE row'[a] # NoRow
<1>1. ASSUME NEW a \in Article PROVE Unstored(a) <=> Rest(a) /\ NoRun(a)
    BY DEF Unstored
<1>2. ASSUME NEW a \in Article PROVE Known(a) \/ (published[a] = 0 /\ Rest(a) /\ NoRun(a))
    BY <1>1 DEF StoredByRun
<1>3. ASSUME NEW a \in Article
      PROVE  (published'[a] = 0 /\ Rest(a)' /\ NoRun(a)') \/ Known(a)' => OK(a)
    BY DEF Unstored
<1>4. ASSUME \A a \in Article : OK(a) PROVE StoredByRun'
    BY <1>4 DEF StoredByRun
<1>5. \A a \in Article : /\ messages[a] # 0 => Known(a)
                         /\ \A t \in Downloader : a \in task[t].article => Known(a)
                         /\ \A e \in outbox : e.article = a => Known(a)
                         /\ Rest(a) => ~Known(a)
    BY <1>2
<1> HIDE DEF OK, Known, NoRun
\* A step that keeps runs, rows and publications, and what is known of others.
<1>6. ASSUME UNCHANGED <<run, published>>, \A a \in Article : row[a] # NoRow => row'[a] # NoRow,
             \A a \in Article : Rest(a) /\ ~Known(a) => Rest(a)'
      PROVE  StoredByRun'
    <2>1. ASSUME NEW a \in Article PROVE OK(a)
        <3>1. Known(a) => Known(a)'
            BY <1>6 DEF Known
        <3>2. NoRun(a) => NoRun(a)'
            BY <1>6 DEF NoRun
        <3> HIDE DEF Rest
        <3> QED BY <1>2, <1>3, <1>6, <3>1, <3>2
    <2> QED BY <1>4, <2>1
<1>7. CASE Runs
    <2>1. ASSUME NEW a \in Article PROVE OK(a)
        <3>1. UNCHANGED <<row, read, messages, outbox, task, published, finalized>>
            BY <1>7 DEF Runs, rows, queues, history
        <3>2. /\ Known(a) => Known(a)'
              /\ Rest(a) => Rest(a)'
            BY <3>1 DEF Known
        <3>3. Rest(a) /\ NoRun(a) => NoRun(a)'
            BY <1>7, <3>1 DEF Runs, NoRun
        <3> HIDE DEF Rest
        <3> QED BY <1>2, <1>3, <3>1, <3>2, <3>3
    <2> QED BY <1>4, <2>1
<1>8. ASSUME NEW p \in Pipeline, NEW a \in Article, Commits(p, a) PROVE StoredByRun'
    <2>1. Known(a)'
        BY <1>0, <1>8, Placeholders DEF Commits, Known
    <2>2. ASSUME NEW b \in Article, b # a PROVE OK(b)
        <3>1. /\ row'[b] = row[b] /\ read'[b] = read[b] /\ published'[b] = published[b]
              /\ UNCHANGED <<messages, task, finalized>>
              /\ \A e \in outbox' : e \in outbox \/ e.article = a
              /\ \A q \in Pipeline : run'[q] = run[q] \/ run'[q].article = {}
            BY <1>8, <2>2 DEF Commits, Published
        <3>2. /\ Known(b) => Known(b)'
              /\ NoRun(b) => NoRun(b)'
            BY <3>1 DEF Known, NoRun
        <3>3. Rest(b) => Rest(b)'
            BY <2>2, <3>1
        <3> HIDE DEF Rest
        <3> QED BY <1>2, <1>3, <3>1, <3>2, <3>3
    <2> QED BY <1>3, <1>4, <2>1, <2>2
<1>9. ASSUME NEW t \in Downloader, FailsTask(t) PROVE StoredByRun'
    <2>1. \A u \in Downloader : task'[u].article = {} \/ task'[u] = task[u]
        BY <1>9, Placeholders DEF FailsTask, OtherTasks
    <2> QED BY <1>6, <1>9, <2>1 DEF FailsTask, rows, queues, history
<1>10. ASSUME NEW t \in Downloader, NEW a \in Article, Takes(t, a) PROVE StoredByRun'
    <2>1. Known(a)
        BY <1>5, <1>10 DEF Takes
    <2>2. \A b \in Article \ {a} :
             /\ messages'[b] = messages[b]
             /\ \A u \in Downloader : b \in task'[u].article => b \in task[u].article
        BY <1>10 DEF Takes, OtherTasks
    <2> QED BY <1>6, <1>10, <2>1, <2>2 DEF Takes, rows, history
<1>11. ASSUME NEW t \in Downloader, NEW a \in Article, Loads(t, a) PROVE StoredByRun'
    <2>1. \A u \in Downloader : task'[u].article = task[u].article
        BY <1>11 DEF Loads, OtherTasks
    <2> QED BY <1>6, <1>11, <2>1 DEF Loads, rows, queues, history
<1>12. ASSUME NEW t \in Downloader, NEW a \in Article, NEW thumb \in Image,
              Finalizes(t, a, thumb)
       PROVE  StoredByRun'
    <2>1. Known(a)
        BY <1>5, <1>12 DEF Finalizes
    <2>2. row'[a] # NoRow
        BY <1>12, Placeholders DEF Finalizes
    <2>3. \A e \in outbox' : e \in outbox \/ e.article = a
        BY <1>12 DEF Finalizes, Updated
    <2>4. \A u \in Downloader : task'[u].article \subseteq task[u].article
        BY <1>12, Placeholders DEF Finalizes, OtherTasks
    <2>5. \A b \in Article \ {a} : Rest(b) => Rest(b)'
        BY <1>12, <2>3, <2>4 DEF Finalizes
    <2>6. \A b \in Article : row[b] # NoRow => row'[b] # NoRow
        BY <1>12, <2>2 DEF Finalizes
    <2> HIDE DEF Rest
    <2> QED BY <1>6, <1>12, <2>1, <2>5, <2>6 DEF Finalizes
<1>13. ASSUME NEW r \in Recoverer, Claims(r) \/ FailsClaims(r) PROVE StoredByRun'
    BY <1>6, <1>13 DEF Claims, FailsClaims, rows, queues, history
<1>14. ASSUME NEW r \in Recoverer, CommitsClaims(r) PROVE StoredByRun'
    <2>1. \A a \in claim[r].held : row[a] # NoRow
        BY Placeholders DEF ClaimsOK
    <2>2. \A a \in Article : row[a] # NoRow => row'[a] # NoRow
        BY <1>14, Placeholders DEF CommitsClaims
    <2>3. \A a \in Article : row[a] = NoRow => row'[a] = NoRow
        BY <1>14, <2>1 DEF CommitsClaims
    <2> QED BY <1>6, <1>14, <2>2, <2>3 DEF CommitsClaims, queues, history
<1>15. ASSUME NEW r \in Recoverer, NEW a \in Article, NEW status \in Status,
              Decides(r, a, status)
       PROVE  StoredByRun'
    <2>1. a \in claim[r].held
        BY <1>15 DEF Decides, ClaimsOK
    <2>2. row[a] # NoRow
        BY <2>1, Placeholders DEF ClaimsOK
    <2>3. \A b \in Article \ {a} : messages'[b] = messages[b]
        BY <1>15 DEF Decides
    <2> QED BY <1>6, <1>15, <2>2, <2>3 DEF Decides, rows
<1>16. ASSUME NEW e \in Event, ProjectsArticle(e) PROVE StoredByRun'
    <2>1. Known(e.article) /\ \A a \in Article \ {e.article} : read'[a] = read[a]
        BY <1>0, <1>5, <1>16 DEF ProjectsArticle
    <2> QED BY <1>6, <1>16, <2>1 DEF ProjectsArticle, queues, history
<1>17. ASSUME NEW e \in Event, Marks(e) PROVE StoredByRun'
    <2>1. outbox' \subseteq outbox /\ \A a \in Article : row[a] = NoRow <=> row'[a] = NoRow
        BY <1>17 DEF Marks
    <2> QED BY <1>6, <1>17, <2>1 DEF Marks, history
<1>18. ASSUME NEW e \in Event, ProjectsThumbnail(e) PROVE StoredByRun'
    <2>1. outbox' \subseteq outbox
        BY <1>18 DEF ProjectsThumbnail
    <2>2. \A a \in Article : read[a] = NoImage => read'[a] = NoImage
        BY <1>18 DEF ProjectsThumbnail
    <2> QED BY <1>6, <1>18, <2>1, <2>2 DEF ProjectsThumbnail, history
<1> QED BY <1>7, <1>8, <1>9, <1>10, <1>11, <1>12, <1>13, <1>14, <1>15, <1>16, <1>17, <1>18 DEF Moves

\* The first publication has no image; the first download's image is in its
\* event, and then in the read model.
LEMMA FirstImageKept ==
    ASSUME TypeOK, TypeOK', StoredByRun, FirstImage, Moves
    PROVE  FirstImage'
<1>0. /\ \A a \in Article : published[a] \in Nat /\ finalized[a] \in Nat
      /\ \A t \in Downloader : task[t].article \in Current
      /\ \A e \in Event : e.thumb \in Image /\ e.thumb # NoImage /\ e.article \in Article
    BY Placeholders DEF TypeOK, Event, DownloadTask
<1> DEFINE First(a) == published[a] = 1 =>
               /\ read[a] # NoImage
               /\ \A e \in outbox : e.article = a /\ e.type = "published" => e.thumb = 0
               /\ finalized[a] = 0 =>
                      /\ row[a].thumb = 0 /\ Thumbnails(a) = {}
                      /\ \A t \in Downloader :
                             a \in task[t].article => task[t].copy.thumb = 0
               /\ finalized[a] = 1 =>
                      /\ \A e \in Thumbnails(a) : e.thumb = row[a].thumb
                      /\ Thumbnails(a) = {} => read[a] = row[a].thumb
           Alike(a) == /\ published'[a] = published[a] /\ finalized'[a] = finalized[a]
                       /\ row'[a].thumb = row[a].thumb
           SameTasks(a) == \A t \in Downloader : a \in task'[t].article =>
                               \/ a \in task[t].article /\ task'[t].copy = task[t].copy
                               \/ task'[t].copy.thumb = 0
                               \/ task'[t].copy = row[a]
           SameEvents(a) == /\ Thumbnails(a)' = Thumbnails(a)
                            /\ \A e \in outbox' :
                                  e.article = a /\ e.type = "published" => e \in outbox
<1>1. \A a \in Article : First(a)
    BY DEF FirstImage
<1>2. ASSUME \A a \in Article : published'[a] = 1 => First(a)' PROVE FirstImage'
    BY <1>2 DEF FirstImage
<1>3. ASSUME NEW a \in Article, Alike(a), SameTasks(a), SameEvents(a),
             published[a] = 1 => read'[a] = read[a]
      PROVE  First(a)'
    BY <1>1, <1>3
<1>4. ASSUME NEW a \in Article, UNCHANGED outbox PROVE SameEvents(a)
    BY <1>4 DEF Thumbnails
<1>5. ASSUME NEW a \in Article, UNCHANGED task PROVE SameTasks(a)
    BY <1>5
<1>6. ASSUME NEW a \in Article, NEW e, e.article # a, outbox' = outbox \cup {e}
      PROVE  SameEvents(a)
    BY <1>6 DEF Thumbnails
<1> HIDE DEF First, SameTasks, SameEvents
<1>7. CASE Runs
    BY <1>2, <1>3, <1>4, <1>5, <1>7 DEF Runs, rows, queues, history
<1>8. ASSUME NEW p \in Pipeline, NEW a \in Article, Commits(p, a) PROVE FirstImage'
    <2>1. ASSUME NEW b \in Article, b # a PROVE First(b)'
        <3>1. Alike(b) /\ read'[b] = read[b] /\ UNCHANGED task
            BY <1>8, <2>1 DEF Commits
        <3>2. SameEvents(b)
            BY <1>6, <1>8, <2>1 DEF Commits, Published
        <3> QED BY <1>3, <1>5, <3>1, <3>2
    <2>2. CASE published[a] = 0
        <3>1. /\ row[a] = NoRow /\ read[a] = NoImage /\ finalized[a] = 0
              /\ \A t \in Downloader : a \notin task[t].article
              /\ \A e \in outbox : e.article # a
              /\ run[p].copy = StoredRow /\ run[p].read = NoImage
            BY <1>8, <2>2 DEF Commits, StoredByRun, Unstored
        <3>2. run[p].copy.thumb = 0 /\ run[p].copy.thumb # run[p].read
            BY <3>1, Placeholders
        <3>3. /\ row'[a] = StoredRow /\ read'[a] = 0 /\ finalized'[a] = 0 /\ task' = task
              /\ outbox' = outbox \cup {Published(a, 0)}
            BY <1>8, <3>1, <3>2 DEF Commits
        <3>4. Published(a, 0).type = "published" /\ Published(a, 0).thumb = 0
            BY DEF Published
        <3>5. \A e \in outbox' : e.article = a => e.type # "thumbnail" /\ e.thumb = 0
            BY <3>1, <3>3, <3>4
        <3>6. Thumbnails(a)' = {}
            BY <3>5 DEF Thumbnails
        <3>7. First(a)'
            BY <3>1, <3>3, <3>5, <3>6, Placeholders DEF First
        <3> QED BY <1>2, <2>1, <3>7
    <2>3. CASE published[a] # 0
        <3>1. published'[a] # 1
            BY <1>0, <1>8, <2>3 DEF Commits
        <3> QED BY <1>2, <2>1, <3>1
    <2> QED BY <2>2, <2>3
<1>9. ASSUME NEW t \in Downloader, FailsTask(t) PROVE FirstImage'
    <2>1. \A a \in Article : SameTasks(a)
        BY <1>9, Placeholders DEF FailsTask, OtherTasks, SameTasks
    <2> QED BY <1>2, <1>3, <1>4, <1>9, <2>1 DEF FailsTask, rows, queues, history
<1>10. ASSUME NEW t \in Downloader, NEW a \in Article, Takes(t, a) PROVE FirstImage'
    <2>1. \A b \in Article : SameTasks(b)
        BY <1>10, Placeholders DEF Takes, OtherTasks, SameTasks
    <2> QED BY <1>2, <1>3, <1>4, <1>10, <2>1 DEF Takes, rows, history
<1>11. ASSUME NEW t \in Downloader, NEW a \in Article, Loads(t, a) PROVE FirstImage'
    <2>1. task[t].article = {a}
        BY <1>0, <1>11 DEF Loads, Current
    <2>2. \A b \in Article : SameTasks(b)
        BY <1>11, <2>1 DEF Loads, OtherTasks, SameTasks
    <2> QED BY <1>2, <1>3, <1>4, <1>11, <2>2 DEF Loads, rows, queues, history
<1>12. ASSUME NEW t \in Downloader, NEW a \in Article, NEW thumb \in Image,
              Finalizes(t, a, thumb)
       PROVE  FirstImage'
    <2>0. \A b \in Article : SameTasks(b)
        BY <1>12, Placeholders DEF Finalizes, OtherTasks, SameTasks
    <2>1. ASSUME NEW b \in Article, b # a PROVE First(b)'
        <3>1. Alike(b) /\ UNCHANGED read
            BY <1>12, <2>1 DEF Finalizes
        <3>2. SameEvents(b)
            BY <1>6, <1>12, <2>1 DEF Finalizes, Updated
        <3> QED BY <1>3, <2>0, <3>1, <3>2
    <2>2. ASSUME published'[a] = 1 PROVE First(a)'
        <3>1. /\ published[a] = 1 /\ read'[a] = read[a] /\ finalized'[a] = finalized[a] + 1
              /\ outbox' = outbox \cup {Updated(a, thumb)}
            BY <1>12, <2>2 DEF Finalizes
        <3>2. /\ read'[a] # NoImage
              /\ \A e \in outbox' : e.article = a /\ e.type = "published" => e.thumb = 0
            BY <1>1, <3>1 DEF First, Updated
        <3>3. finalized'[a] # 0
            BY <1>0, <3>1
        <3>4. ASSUME finalized'[a] = 1
              PROVE  /\ \A e \in Thumbnails(a)' : e.thumb = row'[a].thumb
                     /\ Thumbnails(a)' # {}
            <4>1. finalized[a] = 0
                BY <1>0, <3>1, <3>4
            <4>2. row[a].thumb = 0 /\ Thumbnails(a) = {} /\ task[t].copy.thumb = 0
                BY <1>1, <1>12, <3>1, <4>1 DEF First, Finalizes
            <4>3. row'[a].thumb = thumb
                BY <1>12, <4>2 DEF Finalizes
            <4>4. Thumbnails(a)' = {Updated(a, thumb)} /\ Updated(a, thumb).thumb = thumb
                BY <3>1, <4>2 DEF Thumbnails, Updated
            <4> QED BY <4>3, <4>4
        <3> QED BY <3>2, <3>3, <3>4 DEF First
    <2> QED BY <1>2, <2>1, <2>2
<1>13. ASSUME NEW r \in Recoverer, Claims(r) \/ CommitsClaims(r) \/ FailsClaims(r)
       PROVE  FirstImage'
    <2>1. UNCHANGED <<read, outbox, task>> /\ \A a \in Article : Alike(a)
        BY <1>13 DEF Claims, CommitsClaims, FailsClaims, rows, queues, history
    <2> QED BY <1>2, <1>3, <1>4, <1>5, <2>1
<1>14. ASSUME NEW r \in Recoverer, NEW a \in Article, NEW status \in Status,
              Decides(r, a, status)
       PROVE  FirstImage'
    BY <1>2, <1>3, <1>4, <1>5, <1>14 DEF Decides, rows
<1>15. ASSUME NEW e \in Event, ProjectsArticle(e) PROVE FirstImage'
    <2>1. ASSUME NEW a \in Article, published[a] = 1 PROVE read'[a] = read[a]
        BY <1>1, <1>15, <2>1 DEF First, ProjectsArticle
    <2> QED BY <1>2, <1>3, <1>4, <1>5, <1>15, <2>1 DEF ProjectsArticle, queues, history
<1>16. ASSUME NEW e \in Event, Marks(e) PROVE FirstImage'
    <2>1. \A a \in Article : SameEvents(a)
        BY <1>16 DEF Marks, SameEvents, Thumbnails
    <2> QED BY <1>2, <1>3, <1>5, <1>16, <2>1 DEF Marks, history
<1>17. ASSUME NEW e \in Event, ProjectsThumbnail(e) PROVE FirstImage'
    <2>0. e.article \in Article /\ e.thumb # NoImage
        BY <1>0
    <2>1. ASSUME NEW b \in Article, b # e.article PROVE First(b)'
        <3>1. UNCHANGED <<row, task, published, finalized>> /\ read'[b] = read[b]
            BY <1>17, <2>1 DEF ProjectsThumbnail, history
        <3>2. SameEvents(b)
            BY <1>17, <2>1 DEF ProjectsThumbnail, SameEvents, Thumbnails
        <3> QED BY <1>3, <1>5, <3>1, <3>2
    <2>2. ASSUME published'[e.article] = 1 PROVE First(e.article)'
        <3> DEFINE a == e.article
        <3>1. /\ published[a] = 1 /\ UNCHANGED <<row, finalized>> /\ outbox' \subseteq outbox
              /\ e \in Thumbnails(a)
              /\ read[a] # NoImage => read'[a] = e.thumb
            BY <1>17, <2>0, <2>2 DEF ProjectsThumbnail, history, Thumbnails
        <3>2. finalized[a] # 0 /\ (finalized[a] = 1 => e.thumb = row[a].thumb)
            BY <1>1, <2>0, <3>1 DEF First
        <3>3. read'[a] = e.thumb
            BY <1>1, <2>0, <3>1 DEF First
        <3>4. Thumbnails(a)' \subseteq Thumbnails(a)
            BY <3>1 DEF Thumbnails
        <3>5. \A x \in outbox' : x.article = a /\ x.type = "published" => x.thumb = 0
            BY <1>1, <2>0, <3>1 DEF First
        <3>6. finalized[a] = 1 => \A x \in Thumbnails(a)' : x.thumb = row[a].thumb
            BY <1>1, <2>0, <3>1, <3>4 DEF First
        <3> HIDE DEF a
        <3>7. First(a)'
            BY <2>0, <3>1, <3>2, <3>3, <3>5, <3>6 DEF First, a
        <3> QED BY <3>7 DEF a
    <2> QED BY <1>2, <2>1, <2>2
<1> QED BY <1>7, <1>8, <1>9, <1>10, <1>11, <1>12, <1>13, <1>14, <1>15, <1>16, <1>17 DEF Moves

-----------------------------------------------------------------------------
(* The theorems.                                                           *)

IInv == TypeOK /\ StoredByRun /\ TasksOK /\ ClaimsOK /\ SentCounted /\ FirstImage

LEMMA RestInit == Init => StoredByRun /\ TasksOK /\ ClaimsOK /\ SentCounted /\ FirstImage
<1> SUFFICES ASSUME Init
             PROVE  StoredByRun /\ TasksOK /\ ClaimsOK /\ SentCounted /\ FirstImage
    OBVIOUS
<1>1. /\ \A a \in Article : /\ row[a] = NoRow /\ read[a] = NoImage /\ messages[a] = 0
                            /\ published[a] = 0 /\ finalized[a] = 0 /\ sent[a] = 0
      /\ outbox = {} /\ lock = {} /\ faults = 0
      /\ \A p \in Pipeline : run[p].article = {}
      /\ \A t \in Downloader : task[t].article = {} /\ task[t].pc = "idle"
      /\ \A r \in Recoverer : claim[r].todo = {} /\ claim[r].held = {}
    BY Placeholders DEF Init
<1>2. StoredByRun /\ FirstImage
    BY <1>1 DEF StoredByRun, Unstored, FirstImage
<1>3. TasksOK /\ ClaimsOK
    BY <1>1 DEF TasksOK, ClaimsOK
<1>4. SentCounted
    BY <1>1 DEF SentCounted
<1> QED BY <1>2, <1>3, <1>4

LEMMA Inductive == Spec => []IInv
<1>1. Init => IInv
    BY TypeInit, RestInit DEF IInv
<1>2. IInv /\ [Next]_vars => IInv'
    BY TypeAndMoves, TasksKept, ClaimsKept, SentKept, StoredKept, FirstImageKept DEF IInv
<1> QED BY <1>1, <1>2, PTL DEF Spec

\* Every variable has its type: no status is written that the column does not
\* know, no article is retried more often than three times, and what the
\* coordinator marks is an article that is stored.
THEOREM TypeCorrect == Spec => []TypeOK
<1>1. IInv => TypeOK
    BY DEF IInv
<1> QED BY <1>1, Inductive, PTL

\* Whoever left an article in "recovering" left a message or a task with it,
\* unless a task failed (recover_pending_thumbnails_task commits after it sends).
THEOREM RecoveringOwned == Spec => []RecoveringIsOwned
<1>1. Init => RecoveringIsOwned
    BY Placeholders DEF Init, RecoveringIsOwned
<1>2. IInv /\ RecoveringIsOwned /\ [Next]_vars => RecoveringIsOwned'
    BY TypeAndMoves, RecoveringKept DEF IInv
<1> QED BY <1>1, <1>2, Inductive, PTL DEF Spec

\* However many recoveries overlap, an article gets one download message, and
\* one more for each fault (FOR UPDATE SKIP LOCKED).
THEOREM DownloadsAreBounded == Spec => []DownloadsBounded
<1>1. IInv => DownloadsBounded
    BY DEF IInv, SentCounted, DownloadsBounded
<1> QED BY <1>1, Inductive, PTL

\* An article that was published and downloaded once shows its image when its
\* events are delivered, in whatever order and however often they are handled
\* (finalize_thumbnail_update, handle_article_published, handle_thumbnail_updated).
THEOREM ShownAfterDownload == Spec => []ShownOnceDownloaded
<1>1. IInv => ShownOnceDownloaded
    <2> SUFFICES ASSUME IInv, NEW a \in Article, published[a] = 1, finalized[a] = 1,
                        \A e \in outbox : e.article # a
                 PROVE  read[a] = row[a].thumb
        BY DEF ShownOnceDownloaded
    <2>1. Thumbnails(a) = {}
        BY DEF Thumbnails
    <2> QED BY <2>1 DEF IInv, FirstImage
<1> QED BY <1>1, Inductive, PTL

=============================================================================
