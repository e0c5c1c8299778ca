---------------------------- MODULE OutboxProofs ----------------------------
(***************************************************************************)
(* Proofs about Outbox, for any set of workers and events, any retry limit *)
(* and batch size, with lapsing leases, crashes and replays.               *)
(***************************************************************************)
EXTENDS Outbox, TLAPS

(* The registry. *)

\* A list of at most three known handlers without repetition is a legal
\* registry entry.
LEMMA ShortList ==
    /\ << >> \in Seq(Handler)
    /\ \A a \in Handler :
        /\ <<a>> \in Seq(Handler)
        /\ \A i, j \in DOMAIN <<a>> : i = j
    /\ \A a, b \in Handler : a # b =>
        /\ <<a, b>> \in Seq(Handler)
        /\ \A i, j \in DOMAIN <<a, b>> : <<a, b>>[i] = <<a, b>>[j] => i = j
    /\ \A a, b, c \in Handler : a # b /\ a # c /\ b # c =>
        /\ <<a, b, c>> \in Seq(Handler)
        /\ \A i, j \in DOMAIN <<a, b, c>> : <<a, b, c>>[i] = <<a, b, c>>[j] => i = j
OBVIOUS

\* _get_handlers_for_event lists known handlers, none of them twice: the
\* checkpoint key (handler, event) names one position of the list.
LEMMA RegistryOK ==
    ASSUME NEW e \in Event
    PROVE  /\ HandlersOf(e) \in Seq(Handler)
           /\ \A i, j \in DOMAIN HandlersOf(e) :
                 HandlersOf(e)[i] = HandlersOf(e)[j] => i = j
<1> DEFINE H == HandlersFor(TypeOf[e])
<1>1. TypeOf[e] \in EventType
    BY TypeAssumption
<1>2. \/ \E a, b, c \in Handler : a # b /\ a # c /\ b # c /\ H = <<a, b, c>>
      \/ \E a, b \in Handler : a # b /\ H = <<a, b>>
      \/ \E a \in Handler : H = <<a>>
      \/ H = << >>
    <2> USE DEF Handler, SelfCommitting, Guarded, Swallowing, Raising
    <2>1. CASE TypeOf[e] = "ArticlePublished"
        <3>1. H = <<"article_published_projection", "article_lifecycle_updated",
                    "story_timeline_event">>
            BY <2>1 DEF HandlersFor
        <3> QED BY <3>1
    <2>2. CASE TypeOf[e] = "StoriesMerged"
        <3>1. H = <<"story_timeline_event", "stories_merged_projection">>
            BY <2>2 DEF HandlersFor
        <3> QED BY <3>1
    <2>3. CASE TypeOf[e] = "DailyBriefingEditionGenerated"
        <3>1. H = << >>
            BY <2>3 DEF HandlersFor
        <3> QED BY <3>1
    <2>4. CASE TypeOf[e] \notin {"ArticlePublished", "StoriesMerged",
                               "DailyBriefingEditionGenerated"}
        <3>1. \/ H = <<"article_thumbnail_updated">>
              \/ H = <<"article_impact_score_updated">>
              \/ H = <<"article_lifecycle_updated">>
              \/ H = <<"newsletter_subscription_created">>
              \/ H = <<"projection_refresh">>
              \/ H = <<"story_timeline_event">>
            BY <1>1, <2>4 DEF HandlersFor, EventType
        <3> QED BY <3>1
    <2> QED BY <2>1, <2>2, <2>3, <2>4
<1>3. /\ H \in Seq(Handler)
      /\ \A i, j \in DOMAIN H : H[i] = H[j] => i = j
    <2> HIDE DEF H
    <2>1. CASE \E a, b, c \in Handler : a # b /\ a # c /\ b # c /\ H = <<a, b, c>>
        BY <2>1, ShortList
    <2>2. CASE \E a, b \in Handler : a # b /\ H = <<a, b>>
        BY <2>2, ShortList
    <2>3. CASE \E a \in Handler : H = <<a>>
        BY <2>3, ShortList
    <2>4. CASE H = << >>
        BY <2>4, ShortList
    <2> QED BY <1>2, <2>1, <2>2, <2>3, <2>4
<1> QED BY <1>3 DEF HandlersOf

-----------------------------------------------------------------------------
(* Types, and where the cursors of the workers stand. *)

Shape == TypeOK /\ CursorOK

\* A worker that is calling a handler calls one that the registry lists.
LEMMA HandlerOfType ==
    ASSUME Shape, NEW w \in Worker, pc[w] \in {"running", "checked", "returned"}
    PROVE  /\ EventOf(w) \in Event
           /\ idx[w] \in DOMAIN HandlersOf(EventOf(w))
           /\ HandlerOf(w) \in Handler
<1>1. /\ EventOf(w) \in Event
      /\ idx[w] \in 1..Len(HandlersOf(EventOf(w)))
    BY DEF Shape, TypeOK, CursorOK, EventOf, Row
<1>2. HandlersOf(EventOf(w)) \in Seq(Handler)
    BY <1>1, RegistryOK
<1> QED BY <1>1, <1>2 DEF HandlerOf

LEMMA ShapeInit == Init => Shape
BY BoundAssumption DEF Init, Shape, TypeOK, CursorOK, Status, NoRow, Many

\* The session helpers keep the two columns they write well typed.
LEMMA SessionTypes ==
    ASSUME TypeOK, NEW w \in Worker
    PROVE  /\ CommittedStatus(w) \in [Event -> Status]
           /\ Unlocked(w) \in [Event -> Worker \cup {NoWorker}]
BY DEF TypeOK, CommittedStatus, Unlocked, Status

LEMMA ShapeNext == Shape /\ [Next]_vars => Shape'
<1> SUFFICES ASSUME Shape, [Next]_vars
             PROVE  Shape'
    OBVIOUS
<1> USE DEF Shape
<1>1. ASSUME NEW e \in Event, Emit(e)
      PROVE  Shape'
    BY <1>1 DEF TypeOK, CursorOK, Emit, Status, workerVars, boundVars, EventOf
<1>2. ASSUME NEW e \in Event, LeaseExpires(e)
      PROVE  Shape'
    BY <1>2 DEF TypeOK, CursorOK, LeaseExpires, Overtake, workerVars, boundVars, EventOf
<1>3. ASSUME NEW E \in SUBSET Event, Reset(E)
      PROVE  Shape'
    BY <1>3, BoundAssumption DEF TypeOK, CursorOK, Reset, Overtake, Status, workerVars, EventOf
<1>4. ASSUME NEW w \in Worker, Poll(w)
      PROVE  Shape'
    <2>1. {[id |-> e, retry_count |-> retryCount[e]] : e \in Batch} \in SUBSET Row
        <3>1. Batch \subseteq Event
            BY DEF Batch, Candidates
        <3> QED BY <3>1 DEF TypeOK, Row
    <2>2. TypeOK'
        BY <1>4, <2>1 DEF TypeOK, Poll, Status, boundVars
    <2>3. CursorOK'
        BY <1>4 DEF TypeOK, CursorOK, Poll, boundVars, EventOf
    <2> QED BY <2>2, <2>3
<1>5. ASSUME NEW w \in Worker, BeginDispatch(w)
      PROVE  Shape'
    <2>1. PICK r \in rows[w] : /\ rowLock' = [rowLock EXCEPT ![r.id] = w]
                              /\ rows' = [rows EXCEPT ![w] = @ \ {r}]
                              /\ cur' = [cur EXCEPT ![w] = r]
        BY <1>5 DEF BeginDispatch
    <2>2. r \in Row
        BY <2>1 DEF TypeOK
    <2>3. TypeOK'
        BY <1>5, <2>1, <2>2 DEF TypeOK, BeginDispatch, dbVars, boundVars
    <2>4. CursorOK'
        BY <1>5, <2>1, <2>2 DEF TypeOK, CursorOK, BeginDispatch, EventOf
    <2> QED BY <2>3, <2>4
<1>6. ASSUME NEW w \in Worker, EndOfBatch(w) \/ SkipHandler(w) \/ StartHandler(w)
                                \/ HandlerFindsNone(w) \/ HandlerReturns(w)
      PROVE  Shape'
    <2> USE DEF TypeOK, CursorOK, dbVars, boundVars, EventOf
    <2>1. CASE EndOfBatch(w)
        BY <2>1 DEF EndOfBatch
    <2>2. CASE HandlerReturns(w)
        BY <2>2 DEF HandlerReturns
    <2>3. CASE SkipHandler(w)
        BY <2>3 DEF SkipHandler, HasHandler
    <2>4. CASE StartHandler(w)
        BY <2>4 DEF StartHandler, HasHandler
    <2>5. CASE HandlerFindsNone(w)
        BY <2>5 DEF HandlerFindsNone
    <2> QED BY <1>6, <2>1, <2>2, <2>3, <2>4, <2>5
<1>7. ASSUME NEW w \in Worker, HandlerCommits(w)
      PROVE  Shape'
    <2>1. effects' \in [Event -> [Handler -> 0..Many]]
        <3>1. /\ EventOf(w) \in Event
              /\ HandlerOf(w) \in Handler
              /\ effects' = [effects EXCEPT ![EventOf(w)][HandlerOf(w)] = Count(@)]
            BY <1>7, HandlerOfType DEF HandlerCommits
        <3> QED BY <3>1 DEF TypeOK, Count, Many
    <2> QED BY <1>7, <2>1, SessionTypes DEF TypeOK, CursorOK, HandlerCommits, Commit,
                                            boundVars, EventOf
<1>8. ASSUME NEW w \in Worker, HandlerSwallows(w) \/ HandlerFails(w)
      PROVE  Shape'
    BY <1>8, SessionTypes DEF TypeOK, CursorOK, HandlerSwallows, HandlerFails, Rollback,
                              boundVars, EventOf
<1>9. ASSUME NEW w \in Worker, RecordCheckpoint(w)
      PROVE  Shape'
    <2>1. checkpoints' \in SUBSET (Event \X Handler)
        <3>1. /\ EventOf(w) \in Event
              /\ HandlerOf(w) \in Handler
            BY <1>9, HandlerOfType DEF RecordCheckpoint
        <3> QED BY <1>9, <3>1 DEF TypeOK, RecordCheckpoint
    <2>2. TypeOK'
        BY <1>9, <2>1, SessionTypes DEF TypeOK, RecordCheckpoint, Commit, boundVars
    <2>3. CursorOK'
        BY <1>9 DEF TypeOK, CursorOK, RecordCheckpoint, boundVars, EventOf
    <2> QED BY <2>2, <2>3
<1>10. ASSUME NEW w \in Worker, Deliver(w)
       PROVE  Shape'
    BY <1>10, SessionTypes DEF TypeOK, CursorOK, Deliver, Status, boundVars, EventOf
<1>11. ASSUME NEW w \in Worker, FinishFailed(w)
       PROVE  Shape'
    BY <1>11, SessionTypes DEF TypeOK, CursorOK, FinishFailed, Status, boundVars,
                               EventOf, NewRetryCount, Row
<1>12. ASSUME NEW w \in Worker, Crash(w)
       PROVE  Shape'
    BY <1>12, SessionTypes, BoundAssumption DEF TypeOK, CursorOK, Crash, Rollback, EventOf
<1>13. ASSUME UNCHANGED vars
       PROVE  Shape'
    BY <1>13 DEF TypeOK, CursorOK, vars, dbVars, workerVars, boundVars, EventOf
<1>14. CASE Next
    <2>1. ASSUME NEW e \in Event, ReplayEvent(e)
          PROVE  Shape'
        BY <1>3, <2>1 DEF ReplayEvent
    <2>2. ASSUME ReplayFailedBatch
          PROVE  Shape'
        BY <1>3, <2>2 DEF ReplayFailedBatch
    <2>3. ASSUME NEW w \in Worker, PollNothing(w)
          PROVE  Shape'
        BY <1>13, <2>3 DEF PollNothing
    <2> QED BY <1>1, <1>2, <1>4, <1>5, <1>6, <1>7, <1>8, <1>9, <1>10, <1>11, <1>12,
               <1>14, <2>1, <2>2, <2>3 DEF Next, WorkerStep
<1> QED BY <1>13, <1>14

\* Every reachable state of the dispatcher is well typed, for all constants.
THEOREM TypeCorrect == Spec => []TypeOK
<1>1. Spec => []Shape
    BY ShapeInit, ShapeNext, PTL DEF Spec
<1> QED BY <1>1, PTL DEF Shape

-----------------------------------------------------------------------------
(* Delivery: an event is delivered only with all its handlers done, in order. *)

Calling == {"handler", "running", "checked", "returned"}

DispatchInv == PrefixDone /\ DeliveredComplete /\ CheckpointedInOrder

\* What most steps leave alone: the checkpoints, the delivered events, and the
\* position of every worker that is walking its handlers.
Quiet ==
    /\ checkpoints' = checkpoints
    /\ \A e \in Event : status'[e] = "DELIVERED" => status[e] = "DELIVERED"
    /\ \A v \in Worker : pc'[v] \in Calling =>
          /\ pc[v] \in Calling
          /\ cur'[v] = cur[v]
          /\ idx'[v] = idx[v]

Advance(w) == BeginDispatch(w) \/ SkipHandler(w) \/ RecordCheckpoint(w) \/ Deliver(w)

LEMMA QuietOrAdvance ==
    ASSUME Shape, [Next]_vars
    PROVE  Quiet \/ \E w \in Worker : Advance(w)
<1> USE DEF Quiet, Calling, Shape, TypeOK
<1>1. ASSUME NEW e \in Event, Emit(e) \/ LeaseExpires(e)
      PROVE  Quiet
    BY <1>1 DEF Emit, LeaseExpires, workerVars
<1>2. ASSUME NEW E \in SUBSET Event, Reset(E)
      PROVE  Quiet
    BY <1>2 DEF Reset, workerVars
<1>3. ASSUME NEW w \in Worker, Poll(w)
      PROVE  Quiet
    BY <1>3 DEF Poll
<1>4. ASSUME NEW w \in Worker, \/ EndOfBatch(w) \/ StartHandler(w)
                               \/ HandlerFindsNone(w) \/ HandlerReturns(w)
      PROVE  Quiet
    BY <1>4 DEF EndOfBatch, StartHandler, HandlerFindsNone, HandlerReturns, HasHandler, dbVars
<1>5. ASSUME NEW w \in Worker, HandlerCommits(w) \/ HandlerSwallows(w) \/ HandlerFails(w)
      PROVE  Quiet
    BY <1>5 DEF HandlerCommits, HandlerSwallows, HandlerFails, Commit, Rollback,
                CommittedStatus
<1>6. ASSUME NEW w \in Worker, FinishFailed(w)
      PROVE  Quiet
    BY <1>6 DEF FinishFailed
<1>7. ASSUME NEW w \in Worker, Crash(w)
      PROVE  Quiet
    BY <1>7 DEF Crash, Rollback
<1>8. ASSUME UNCHANGED vars
      PROVE  Quiet
    BY <1>8 DEF vars, dbVars, workerVars
<1> QED
    BY <1>1, <1>2, <1>3, <1>4, <1>5, <1>6, <1>7, <1>8
       DEF Next, WorkerStep, PollNothing, ReplayEvent, ReplayFailedBatch, Advance

LEMMA QuietDispatch ==
    ASSUME DispatchInv, Quiet
    PROVE  DispatchInv'
BY DEF DispatchInv, Quiet, Calling, PrefixDone, DeliveredComplete,
       CheckpointedInOrder, EventOf

LEMMA DispatchInit == Init => DispatchInv
BY DEF Init, DispatchInv, PrefixDone, DeliveredComplete, CheckpointedInOrder

LEMMA DispatchNext == Shape /\ DispatchInv /\ [Next]_vars => DispatchInv'
<1> SUFFICES ASSUME Shape, DispatchInv, [Next]_vars
             PROVE  DispatchInv'
    OBVIOUS
<1>1. CASE Quiet
    BY <1>1, QuietDispatch
<1>2. ASSUME NEW w \in Worker, BeginDispatch(w)
      PROVE  DispatchInv'
    <2>1. /\ UNCHANGED <<status, checkpoints>>
          /\ idx' = [idx EXCEPT ![w] = 1]
          /\ pc' = [pc EXCEPT ![w] = "handler"]
          /\ \A v \in Worker : v # w => cur'[v] = cur[v]
        BY <1>2 DEF BeginDispatch, dbVars, Shape, TypeOK
    <2>2. PrefixDone'
        <3> SUFFICES ASSUME NEW v \in Worker, pc'[v] \in Calling,
                            NEW i \in DOMAIN HandlersOf(cur'[v].id), i < idx'[v]
                     PROVE  <<cur'[v].id, HandlersOf(cur'[v].id)[i]>> \in checkpoints'
            BY DEF PrefixDone, EventOf, Calling
        <3>1. CASE v = w
            <4>1. idx'[v] = 1 /\ cur'[v].id \in Event
                BY <1>2, <2>1, <3>1 DEF BeginDispatch, Shape, TypeOK, Row
            <4>2. i \in Nat \ {0}
                BY <4>1, RegistryOK
            <4> QED BY <4>1, <4>2
        <3>2. CASE v # w
            BY <2>1, <3>2 DEF Shape, TypeOK, DispatchInv, PrefixDone, EventOf, Calling
        <3> QED BY <3>1, <3>2
    <2> QED BY <2>1, <2>2 DEF DispatchInv, DeliveredComplete, CheckpointedInOrder
<1>3. ASSUME NEW w \in Worker, SkipHandler(w)
      PROVE  DispatchInv'
    <2>1. /\ UNCHANGED <<status, checkpoints, cur, pc>>
          /\ idx' = [idx EXCEPT ![w] = @ + 1]
          /\ <<EventOf(w), HandlersOf(EventOf(w))[idx[w]]>> \in checkpoints
          /\ pc[w] = "handler"
        BY <1>3 DEF SkipHandler, HasHandler, dbVars, HandlerOf
    <2>2. PrefixDone'
        <3> SUFFICES ASSUME NEW v \in Worker, pc'[v] \in Calling,
                            NEW i \in DOMAIN HandlersOf(EventOf(v)), i < idx'[v]
                     PROVE  <<EventOf(v), HandlersOf(EventOf(v))[i]>> \in checkpoints
            BY <2>1 DEF PrefixDone, EventOf, Calling
        <3>1. CASE v = w
            <4>1. EventOf(w) \in Event /\ idx[w] \in Nat
                BY <2>1 DEF Shape, TypeOK, CursorOK, EventOf, Row
            <4>2. i \in Nat /\ i <= idx[w]
                BY <2>1, <3>1, <4>1, RegistryOK DEF Shape, TypeOK
            <4>3. CASE i = idx[w]
                BY <2>1, <3>1, <4>3
            <4>4. CASE i < idx[w]
                BY <2>1, <3>1, <4>4 DEF DispatchInv, PrefixDone
            <4> QED BY <4>1, <4>2, <4>3, <4>4
        <3>2. CASE v # w
            BY <2>1, <3>2 DEF Shape, TypeOK, DispatchInv, PrefixDone, Calling
        <3> QED BY <3>1, <3>2
    <2> QED BY <2>1, <2>2 DEF DispatchInv, DeliveredComplete, CheckpointedInOrder
<1>4. ASSUME NEW w \in Worker, RecordCheckpoint(w)
      PROVE  DispatchInv'
    <2> DEFINE e == EventOf(w)
               H == HandlersOf(e)
               n == idx[w]
    <2>1. /\ checkpoints' = checkpoints \cup {<<e, H[n]>>}
          /\ UNCHANGED cur
          /\ idx' = [idx EXCEPT ![w] = n + 1]
          /\ pc' = [pc EXCEPT ![w] = "handler"]
          /\ pc[w] = "returned"
          /\ status' = CommittedStatus(w)
        BY <1>4 DEF RecordCheckpoint, HandlerOf, Commit
    <2>2. /\ e \in Event
          /\ n \in DOMAIN H
          /\ n \in Nat
        BY <2>1, HandlerOfType DEF Shape, TypeOK
    <2>3. \A i \in DOMAIN H : i < n => <<e, H[i]>> \in checkpoints
        BY <2>1 DEF DispatchInv, PrefixDone
    <2>4. DOMAIN H \subseteq Nat
        BY <2>2, RegistryOK
    <2>5. PrefixDone'
        <3> SUFFICES ASSUME NEW v \in Worker, pc'[v] \in Calling,
                            NEW i \in DOMAIN HandlersOf(EventOf(v)), i < idx'[v]
                     PROVE  <<EventOf(v), HandlersOf(EventOf(v))[i]>> \in checkpoints'
            BY <2>1 DEF PrefixDone, EventOf, Calling
        <3>1. CASE v = w
            <4>1. i \in DOMAIN H /\ i \in Nat /\ i < n + 1
                BY <2>1, <2>4, <3>1 DEF Shape, TypeOK
            <4>2. CASE i = n
                BY <2>1, <3>1, <4>2
            <4>3. CASE i < n
                BY <2>1, <2>3, <3>1, <4>1, <4>3
            <4> QED BY <2>2, <4>1, <4>2, <4>3
        <3>2. CASE v # w
            <4>1. pc[v] \in Calling /\ i < idx[v]
                BY <2>1, <3>2 DEF Shape, TypeOK
            <4> QED BY <2>1, <4>1 DEF DispatchInv, PrefixDone, Calling
        <3> QED BY <3>1, <3>2
    <2>6. DeliveredComplete'
        BY <2>1 DEF DispatchInv, DeliveredComplete, CommittedStatus
    <2>7. CheckpointedInOrder'
        <3> SUFFICES ASSUME NEW f \in Event, NEW j \in DOMAIN HandlersOf(f),
                            <<f, HandlersOf(f)[j]>> \in checkpoints', NEW i \in 1..j
                     PROVE  <<f, HandlersOf(f)[i]>> \in checkpoints'
            BY DEF CheckpointedInOrder
        <3>1. CASE <<f, HandlersOf(f)[j]>> \in checkpoints
            BY <2>1, <3>1 DEF DispatchInv, CheckpointedInOrder
        <3>2. CASE <<f, HandlersOf(f)[j]>> = <<e, H[n]>>
            <4>1. f = e /\ HandlersOf(f)[j] = H[n]
                BY <3>2
            <4>2. j = n
                <5> HIDE DEF e, n
                <5> QED BY <2>2, <4>1, RegistryOK
            <4>3. i \in DOMAIN H
                BY <2>2, <4>2, RegistryOK
            <4> QED BY <2>1, <2>2, <2>3, <4>1, <4>2, <4>3
        <3> QED BY <2>1, <3>1, <3>2
    <2> QED BY <2>5, <2>6, <2>7 DEF DispatchInv
<1>5. ASSUME NEW w \in Worker, Deliver(w)
      PROVE  DispatchInv'
    <2>1. /\ UNCHANGED checkpoints
          /\ status' = [status EXCEPT ![EventOf(w)] = "DELIVERED"]
          /\ pc' = [pc EXCEPT ![w] = "next"]
          /\ pc[w] = "handler" /\ idx[w] > Len(HandlersOf(EventOf(w)))
        BY <1>5 DEF Deliver
    <2>2. PrefixDone'
        BY <1>5 DEF Deliver, Shape, TypeOK, DispatchInv, PrefixDone, EventOf
    <2>3. EventOf(w) \in Event /\ idx[w] \in Nat
        BY <2>1 DEF Shape, TypeOK, CursorOK, EventOf, Row
    <2>4. \A i \in DOMAIN HandlersOf(EventOf(w)) : i < idx[w]
        BY <2>1, <2>3, RegistryOK
    <2>5. \A h \in HandlerSet(EventOf(w)) : <<EventOf(w), h>> \in checkpoints
        BY <2>1, <2>4 DEF DispatchInv, PrefixDone, HandlerSet
    <2>6. DeliveredComplete'
        BY <2>1, <2>5 DEF Shape, TypeOK, DispatchInv, DeliveredComplete
    <2> QED BY <2>1, <2>2, <2>6 DEF DispatchInv, CheckpointedInOrder
<1> QED BY <1>1, <1>2, <1>3, <1>4, <1>5, QuietOrAdvance DEF Advance

\* An event is DELIVERED only when every handler of its type has a checkpoint.
THEOREM DeliveryComplete == Spec => []DeliveredComplete
<1>1. Spec => [](Shape /\ DispatchInv)
    BY ShapeInit, ShapeNext, DispatchInit, DispatchNext, PTL DEF Spec
<1> QED BY <1>1, PTL DEF DispatchInv

\* Handlers are checkpointed in the order of the registry.
THEOREM OrderedCheckpoints == Spec => []CheckpointedInOrder
<1>1. Spec => [](Shape /\ DispatchInv)
    BY ShapeInit, ShapeNext, DispatchInit, DispatchNext, PTL DEF Spec
<1> QED BY <1>1, PTL DEF DispatchInv

-----------------------------------------------------------------------------
(* Effects: what a checkpoint says has been committed, and how often. *)

\* The unique index on source_event_id, seen from the event.
OneRow == \A e \in Event, h \in Guarded : effects[e][h] <= 1

EffectInv == ReturnedEffect /\ OneRow /\ CheckpointMeansEffect

\* What most steps leave alone: the effects, the checkpoints and every worker
\* whose handler has returned.
NoEffect ==
    /\ UNCHANGED <<effects, checkpoints>>
    /\ \A v \in Worker : pc'[v] = "returned" =>
          /\ pc[v] = "returned"
          /\ cur'[v] = cur[v]
          /\ idx'[v] = idx[v]

Returning(w) == HandlerCommits(w) \/ HandlerReturns(w) \/ HandlerSwallows(w)

LEMMA NoEffectOrHandler ==
    ASSUME Shape, [Next]_vars
    PROVE  NoEffect \/ \E w \in Worker : Returning(w) \/ RecordCheckpoint(w)
<1> USE DEF NoEffect, Shape, TypeOK
<1>1. ASSUME NEW e \in Event, Emit(e) \/ LeaseExpires(e)
      PROVE  NoEffect
    BY <1>1 DEF Emit, LeaseExpires, workerVars
<1>2. ASSUME NEW E \in SUBSET Event, Reset(E)
      PROVE  NoEffect
    BY <1>2 DEF Reset, workerVars
<1>3. ASSUME NEW w \in Worker, Poll(w) \/ Crash(w)
      PROVE  NoEffect
    BY <1>3 DEF Poll, Crash
<1>4. ASSUME NEW w \in Worker, BeginDispatch(w) \/ EndOfBatch(w) \/ SkipHandler(w)
                                \/ StartHandler(w) \/ HandlerFindsNone(w)
      PROVE  NoEffect
    BY <1>4 DEF BeginDispatch, EndOfBatch, SkipHandler, StartHandler, HandlerFindsNone,
                HasHandler, dbVars
<1>5. ASSUME NEW w \in Worker, HandlerFails(w) \/ Deliver(w) \/ FinishFailed(w)
      PROVE  NoEffect
    BY <1>5 DEF HandlerFails, Deliver, FinishFailed
<1>6. ASSUME UNCHANGED vars
      PROVE  NoEffect
    BY <1>6 DEF vars, dbVars, workerVars
<1> QED
    BY <1>1, <1>2, <1>3, <1>4, <1>5, <1>6
       DEF Next, WorkerStep, PollNothing, ReplayEvent, ReplayFailedBatch, Returning

LEMMA EffectInit == Init => EffectInv
BY ConcernsAssumption DEF Init, EffectInv, ReturnedEffect, OneRow,
       CheckpointMeansEffect, Handler

LEMMA EffectNext == Shape /\ EffectInv /\ [Next]_vars => EffectInv'
<1> SUFFICES ASSUME Shape, EffectInv, [Next]_vars
             PROVE  EffectInv'
    OBVIOUS
<1> USE ConcernsAssumption DEF EffectInv
<1>1. CASE NoEffect
    <2>1. ReturnedEffect'
        BY <1>1 DEF NoEffect, ReturnedEffect, HandlerOf, EventOf
    <2> QED BY <1>1, <2>1 DEF NoEffect, OneRow, CheckpointMeansEffect
<1>2. ASSUME NEW w \in Worker, HandlerCommits(w)
      PROVE  EffectInv'
    <2> DEFINE e == EventOf(w)
               h == HandlerOf(w)
    <2>1. /\ UNCHANGED <<checkpoints, cur, idx>>
          /\ h \in Guarded => effects[e][h] = 0
          /\ effects' = [effects EXCEPT ![e][h] = Count(@)]
          /\ pc' = [pc EXCEPT ![w] = "returned"]
        BY <1>2 DEF HandlerCommits
    <2>2. e \in Event /\ h \in Handler
        BY <1>2, HandlerOfType DEF HandlerCommits
    <2>3. /\ effects'[e][h] \in Nat \ {0}
          /\ h \in Guarded => effects'[e][h] = 1
          /\ \A f \in Event, k \in Handler :
                f # e \/ k # h => effects'[f][k] = effects[f][k]
        <3> HIDE DEF e, h
        <3> QED BY <2>1, <2>2 DEF Shape, TypeOK, Count, Many
    <2>4. ReturnedEffect'
        <3> SUFFICES ASSUME NEW v \in Worker, pc'[v] = "returned",
                            HandlerOf(v) \in Concerns[EventOf(v)] \ Swallowing
                     PROVE  effects'[EventOf(v)][HandlerOf(v)] > 0
            BY <2>1 DEF ReturnedEffect, HandlerOf, EventOf
        <3>1. CASE v = w
            BY <2>3, <3>1
        <3>2. CASE v # w
            <4>1. pc[v] = "returned"
                BY <2>1, <3>2 DEF Shape, TypeOK
            <4>2. /\ EventOf(v) \in Event
                  /\ HandlerOf(v) \in Handler
                  /\ effects[EventOf(v)][HandlerOf(v)] > 0
                BY <4>1, HandlerOfType DEF ReturnedEffect
            <4> QED BY <2>3, <4>2
        <3> QED BY <3>1, <3>2
    <2>5. OneRow'
        BY <2>2, <2>3 DEF OneRow, Handler
    <2>6. CheckpointMeansEffect'
        BY <2>1, <2>2, <2>3 DEF CheckpointMeansEffect
    <2> QED BY <2>4, <2>5, <2>6
<1>3. ASSUME NEW w \in Worker, HandlerReturns(w) \/ HandlerSwallows(w)
      PROVE  EffectInv'
    <2>1. /\ UNCHANGED <<checkpoints, effects, cur, idx>>
          /\ pc' = [pc EXCEPT ![w] = "returned"]
          /\ \/ HandlerOf(w) \notin Concerns[EventOf(w)] \ Swallowing
             \/ effects[EventOf(w)][HandlerOf(w)] > 0
        BY <1>3 DEF HandlerReturns, HandlerSwallows, dbVars
    <2>2. ReturnedEffect'
        BY <2>1 DEF Shape, TypeOK, ReturnedEffect, HandlerOf, EventOf
    <2> QED BY <2>1, <2>2 DEF OneRow, CheckpointMeansEffect
<1>4. ASSUME NEW w \in Worker, RecordCheckpoint(w)
      PROVE  EffectInv'
    <2> DEFINE e == EventOf(w)
               h == HandlerOf(w)
    <2>1. /\ checkpoints' = checkpoints \cup {<<e, h>>}
          /\ UNCHANGED <<effects, cur>>
          /\ idx' = [idx EXCEPT ![w] = @ + 1]
          /\ pc' = [pc EXCEPT ![w] = "handler"]
          /\ pc[w] = "returned"
        BY <1>4 DEF RecordCheckpoint
    <2>2. ReturnedEffect'
        <3> SUFFICES ASSUME NEW v \in Worker, pc'[v] = "returned",
                            HandlerOf(v)' \in (Concerns[EventOf(v)])' \ Swallowing
                     PROVE  (effects[EventOf(v)][HandlerOf(v)])' > 0
            BY DEF ReturnedEffect
        <3>1. v # w /\ pc[v] = "returned"
            BY <2>1 DEF Shape, TypeOK
        <3>2. EventOf(v)' = EventOf(v) /\ HandlerOf(v)' = HandlerOf(v)
            BY <2>1, <3>1 DEF Shape, TypeOK, EventOf, HandlerOf
        <3> QED BY <2>1, <3>1, <3>2 DEF ReturnedEffect
    <2>3. h \in Concerns[e] \ Swallowing => effects[e][h] > 0
        BY <2>1 DEF ReturnedEffect
    <2>4. CheckpointMeansEffect'
        BY <2>1, <2>3 DEF CheckpointMeansEffect
    <2> QED BY <2>1, <2>2, <2>4 DEF OneRow
<1> QED BY <1>1, <1>2, <1>3, <1>4, NoEffectOrHandler DEF Returning

\* A delivered event is on its story's timeline once, and none is there twice,
\* although any number of workers may have found no row before they insert.
THEOREM TimelineUnique == Spec => []TimelineOnce
<1>1. Spec => [](Shape /\ DispatchInv /\ EffectInv)
    BY ShapeInit, ShapeNext, DispatchInit, DispatchNext, EffectInit, EffectNext, PTL DEF Spec
<1>2. Shape /\ DispatchInv /\ EffectInv => TimelineOnce
    <2> SUFFICES ASSUME Shape, DispatchInv, EffectInv, NEW e \in Event, NEW h \in Guarded
                 PROVE  /\ effects[e][h] <= 1
                        /\ status[e] = "DELIVERED" /\ h \in HandlerSet(e) \cap Concerns[e] =>
                              effects[e][h] = 1
        BY DEF TimelineOnce
    <2>1. effects[e][h] \in 0..Many /\ effects[e][h] <= 1
        BY DEF Shape, TypeOK, Handler, EffectInv, OneRow
    <2>2. ASSUME status[e] = "DELIVERED", h \in HandlerSet(e), h \in Concerns[e]
          PROVE  effects[e][h] > 0
        <3>1. <<e, h>> \in checkpoints
            BY <2>2 DEF DispatchInv, DeliveredComplete
        <3>2. h \notin Swallowing
            BY DEF Guarded, Swallowing
        <3> QED BY <2>2, <3>1, <3>2 DEF EffectInv, CheckpointMeansEffect
    <2> QED BY <2>1, <2>2 DEF Many
<1> QED BY <1>1, <1>2, PTL

\* What a retry skips because of a checkpoint has been committed.
THEOREM CheckpointedEffect == Spec => []CheckpointMeansEffect
<1>1. Spec => [](Shape /\ EffectInv)
    BY ShapeInit, ShapeNext, EffectInit, EffectNext, PTL DEF Spec
<1> QED BY <1>1, PTL DEF EffectInv

-----------------------------------------------------------------------------
(* The retry budget: every copy of a retry counter is below the limit. *)

BudgetInv == CopiesInBudget /\ RetryBudget

LEMMA BudgetInit == Init => BudgetInv
BY BoundAssumption DEF Init, BudgetInv, CopiesInBudget, RetryBudget, NoRow

LEMMA BudgetNext == Shape /\ BudgetInv /\ [Next]_vars => BudgetInv'
<1> SUFFICES ASSUME Shape, BudgetInv, [Next]_vars
             PROVE  BudgetInv'
    OBVIOUS
<1> USE DEF BudgetInv, CopiesInBudget, RetryBudget
<1>1. ASSUME NEW e \in Event, Emit(e)
      PROVE  BudgetInv'
    BY <1>1 DEF Emit, Shape, TypeOK, workerVars
<1>2. ASSUME NEW e \in Event, LeaseExpires(e)
      PROVE  BudgetInv'
    BY <1>2 DEF LeaseExpires, Shape, TypeOK, workerVars
<1>3. ASSUME NEW E \in SUBSET Event, Reset(E)
      PROVE  BudgetInv'
    BY <1>3, BoundAssumption DEF Reset, Shape, TypeOK, workerVars
<1>4. ASSUME NEW w \in Worker, Poll(w)
      PROVE  BudgetInv'
    <2>1. \A e \in Batch : e \in Event /\ retryCount[e] < MaxRetries
        BY DEF Batch, Candidates, Pollable
    <2>2. \A v \in Worker : \A r \in rows'[v] : r.retry_count < MaxRetries
        BY <1>4, <2>1 DEF Poll, Shape, TypeOK
    <2>3. \A e \in Event : lease'[e] # "none" \/ status'[e] = "ABSENT" =>
                              retryCount'[e] < MaxRetries
        BY <1>4, <2>1 DEF Poll, Shape, TypeOK
    <2>4. RetryBudget'
        BY <1>4 DEF Poll, Shape, TypeOK
    <2> QED BY <1>4, <2>2, <2>3, <2>4 DEF Poll
<1>5. ASSUME NEW w \in Worker, BeginDispatch(w)
      PROVE  BudgetInv'
    BY <1>5 DEF BeginDispatch, Shape, TypeOK, dbVars
<1>6. ASSUME NEW w \in Worker, EndOfBatch(w) \/ SkipHandler(w) \/ StartHandler(w)
                                \/ HandlerFindsNone(w) \/ HandlerReturns(w)
      PROVE  BudgetInv'
    BY <1>6 DEF EndOfBatch, SkipHandler, StartHandler, HandlerFindsNone, HandlerReturns,
                HasHandler, dbVars
<1>7. ASSUME NEW w \in Worker, HandlerCommits(w) \/ RecordCheckpoint(w)
      PROVE  BudgetInv'
    BY <1>7 DEF HandlerCommits, RecordCheckpoint, Commit, CommittedStatus
<1>8. ASSUME NEW w \in Worker, HandlerSwallows(w) \/ HandlerFails(w)
      PROVE  BudgetInv'
    BY <1>8 DEF HandlerSwallows, HandlerFails, Rollback
<1>9. ASSUME NEW w \in Worker, Deliver(w)
      PROVE  BudgetInv'
    BY <1>9, BoundAssumption DEF Deliver, Shape, TypeOK, NoRow
<1>10. ASSUME NEW w \in Worker, FinishFailed(w)
       PROVE  BudgetInv'
    <2> DEFINE e == EventOf(w)
    <2>1. /\ status' = [status EXCEPT ![e] = IF RetriesExhausted(w)
                                            THEN "DEAD_LETTER" ELSE "RETRYING"]
          /\ retryCount' = [retryCount EXCEPT ![e] = NewRetryCount(w)]
          /\ lease' = [lease EXCEPT ![e] = "none"]
          /\ deadLetters' = IF RetriesExhausted(w) THEN deadLetters \cup {e}
                                                   ELSE deadLetters
          /\ rows' = rows
          /\ cur' = [cur EXCEPT ![w] = NoRow]
        BY <1>10 DEF FinishFailed
    <2>2. /\ e \in Event
          /\ cur[w].retry_count \in Nat
          /\ cur[w].retry_count < MaxRetries
        BY <1>10 DEF FinishFailed, Shape, TypeOK, CursorOK, EventOf, Row
    <2>3. /\ NewRetryCount(w) \in Nat
          /\ NewRetryCount(w) <= MaxRetries
          /\ RetriesExhausted(w) <=> NewRetryCount(w) = MaxRetries
        BY <2>2, BoundAssumption DEF NewRetryCount, RetriesExhausted
    <2>4. RetryBudget'
        <3> SUFFICES ASSUME NEW f \in Event
                     PROVE  /\ retryCount'[f] <= MaxRetries
                            /\ status'[f] \in {"CREATED", "RETRYING"} =>
                                  retryCount'[f] < MaxRetries
                            /\ status'[f] = "DEAD_LETTER" =>
                                  retryCount'[f] = MaxRetries /\ f \in deadLetters'
            OBVIOUS
        <3>1. CASE f = e
            <4>1. retryCount'[f] = NewRetryCount(w)
                BY <2>1, <3>1 DEF Shape, TypeOK
            <4>2. CASE RetriesExhausted(w)
                <5>1. status'[f] = "DEAD_LETTER" /\ f \in deadLetters'
                    BY <2>1, <3>1, <4>2 DEF Shape, TypeOK
                <5> QED BY <2>3, <4>1, <4>2, <5>1
            <4>3. CASE ~RetriesExhausted(w)
                <5>1. status'[f] = "RETRYING"
                    BY <2>1, <3>1, <4>3 DEF Shape, TypeOK
                <5> QED BY <2>3, <4>1, <4>3, <5>1, BoundAssumption
            <4> QED BY <4>2, <4>3
        <3>2. CASE f # e
            BY <2>1, <3>2 DEF Shape, TypeOK
        <3> QED BY <3>1, <3>2
    <2>5. \A f \in Event : lease'[f] # "none" \/ status'[f] = "ABSENT" =>
                              retryCount'[f] < MaxRetries
        <3> HIDE DEF e
        <3> QED BY <2>1, <2>2 DEF Shape, TypeOK
    <2>6. \A v \in Worker : /\ \A r \in rows'[v] : r.retry_count < MaxRetries
                            /\ cur'[v].retry_count < MaxRetries
        BY <2>1, BoundAssumption DEF Shape, TypeOK, NoRow
    <2> QED BY <2>4, <2>5, <2>6
<1>11. ASSUME NEW w \in Worker, Crash(w)
       PROVE  BudgetInv'
    BY <1>11, BoundAssumption DEF Crash, Rollback, Shape, TypeOK, NoRow
<1>12. ASSUME UNCHANGED vars
       PROVE  BudgetInv'
    BY <1>12 DEF vars, dbVars, workerVars
<1> QED
    BY <1>1, <1>2, <1>3, <1>4, <1>5, <1>6, <1>7, <1>8, <1>9, <1>10, <1>11, <1>12
       DEF Next, WorkerStep, PollNothing, ReplayEvent, ReplayFailedBatch

\* No interleaving of workers that write their own copies of the counter
\* exceeds the limit or leaves a dead event without its dead-letter row.
THEOREM BudgetKept == Spec => []RetryBudget
<1>1. Spec => [](Shape /\ BudgetInv)
    BY ShapeInit, ShapeNext, BudgetInit, BudgetNext, PTL DEF Spec
<1> QED BY <1>1, PTL DEF BudgetInv

=============================================================================
