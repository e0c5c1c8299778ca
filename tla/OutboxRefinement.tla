-------------------------- MODULE OutboxRefinement --------------------------
(***************************************************************************)
(* What the documentation says of the dispatcher, proved for every event   *)
(* that is not overtaken, and what is left of it for one that is: first    *)
(* that every event is in one worker's hands, then that the dispatcher     *)
(* implements OutboxContract.  Any number of workers, events, crashes,     *)
(* lapses and replays, of any event at any time.                           *)
(***************************************************************************)
EXTENDS OutboxProofs, FiniteSetTheorems

(* Custody: what a worker has in hand is its own. *)

\* A step that takes nothing in hand and lets go of at most a worker's row.
TakesNothing ==
    \A v \in Worker : rows'[v] \subseteq rows[v] /\ cur'[v] \in {cur[v], NoRow}

\* No row of the table is what a worker without a row holds.
LEMMA NoRowHeld == \A e \in Event : NoRow.id # e
BY EventAssumption DEF NoRow

\* Taking nothing in hand keeps every event in one worker's hands, once.
LEMMA StillOwned ==
    ASSUME Shape, SingleOwner, HeldOnce, TakesNothing, overtaken \subseteq overtaken'
    PROVE  /\ \A v \in Worker, e \in Event : Holds(v, e)' => Holds(v, e)
           /\ SingleOwner'
           /\ HeldOnce'
<1>1. \A v \in Worker, e \in Event : Holds(v, e)' => Holds(v, e)
    BY NoRowHeld DEF TakesNothing, Holds
<1>2. SingleOwner'
    BY <1>1 DEF SingleOwner
<1>3. HeldOnce'
    <2> SUFFICES ASSUME NEW w \in Worker, NEW r \in rows'[w], NEW s \in rows'[w]
                 PROVE  cur'[w].id # r.id /\ (r.id = s.id => r = s)
        BY DEF HeldOnce
    <2>1. r \in rows[w] /\ s \in rows[w] /\ r.id \in Event
        BY DEF TakesNothing, Shape, TypeOK, Row
    <2> QED BY <2>1, NoRowHeld DEF TakesNothing, HeldOnce
<1> QED BY <1>1, <1>2, <1>3

LEMMA OwnerInit == Init => OwnerInv
BY NoRowHeld, WorkerAssumption
   DEF Init, OwnerInv, SingleOwner, InFlightHasLease, HeldIsLeased, HeldOnce,
       LockedIsCurrent, Holds, InFlight

\* The lease and SKIP LOCKED keep every event in one worker's hands, until it
\* is overtaken.
LEMMA OwnerNext == Shape /\ OwnerInv /\ [Next]_vars => OwnerInv'
<1> SUFFICES ASSUME Shape, OwnerInv, [Next]_vars
             PROVE  OwnerInv'
    OBVIOUS
<1> USE DEF Shape, OwnerInv
<1>0. /\ \A v \in Worker, e \in Event \ overtaken :
            Holds(v, e) => status[e] \in InFlight /\ lease[e] = "valid"
      /\ \A e \in Event, w \in Worker : rowLock[e] = w => Holds(w, e)
    BY DEF HeldIsLeased, LockedIsCurrent, Holds
<1>1. ASSUME NEW e \in Event, Emit(e)
      PROVE  OwnerInv'
    <2>1. TakesNothing
        BY <1>1 DEF Emit, workerVars, TakesNothing
    <2>2. LockedIsCurrent'
        BY <1>1 DEF Emit, workerVars, LockedIsCurrent
    <2>3. InFlightHasLease' /\ HeldIsLeased'
        BY <1>1, <2>1, StillOwned
           DEF Emit, TypeOK, InFlightHasLease, HeldIsLeased, InFlight
    <2> QED BY <1>1, <2>1, <2>2, <2>3, StillOwned DEF Emit
<1>2. ASSUME NEW e \in Event, LeaseExpires(e)
      PROVE  OwnerInv'
    <2>0. overtaken' = overtaken \cup {f \in {e} : Held(f)}
        BY <1>2 DEF LeaseExpires, Overtake
    <2>1. TakesNothing
        BY <1>2 DEF LeaseExpires, workerVars, TakesNothing
    <2>2. LockedIsCurrent'
        BY <1>2 DEF LeaseExpires, workerVars, LockedIsCurrent
    <2>3. InFlightHasLease' /\ HeldIsLeased'
        BY <1>2, <2>0, <2>1, StillOwned
           DEF LeaseExpires, TypeOK, InFlightHasLease, HeldIsLeased, Held
    <2> QED BY <2>0, <2>1, <2>2, <2>3, StillOwned
<1>3. ASSUME NEW E \in SUBSET Event, Reset(E)
      PROVE  OwnerInv'
    <2>0. overtaken' = overtaken \cup {e \in E : Held(e)}
        BY <1>3 DEF Reset, Overtake
    <2>1. TakesNothing
        BY <1>3 DEF Reset, workerVars, TakesNothing
    <2>2. LockedIsCurrent'
        BY <1>3 DEF Reset, workerVars, LockedIsCurrent
    <2>3. InFlightHasLease' /\ HeldIsLeased'
        BY <1>3, <2>0, <2>1, StillOwned
           DEF Reset, TypeOK, InFlightHasLease, HeldIsLeased, InFlight, Held
    <2> QED BY <2>0, <2>1, <2>2, <2>3, StillOwned
<1>4. ASSUME NEW w \in Worker, Poll(w)
      PROVE  OwnerInv'
    <2>1. \A e \in Batch : /\ e \in Event
                           /\ e \notin overtaken => \A v \in Worker : ~Holds(v, e)
        BY <1>0 DEF Batch, Candidates, Pollable, InFlight
    <2>2. /\ \A v \in Worker : v # w => rows'[v] = rows[v]
          /\ rows'[w] = {[id |-> e, retry_count |-> retryCount[e]] : e \in Batch}
          /\ UNCHANGED <<cur, rowLock, overtaken>>
          /\ cur[w] = NoRow
        BY <1>4 DEF Poll, TypeOK, LockedIsCurrent
    <2>3. /\ \A v \in Worker, e \in Event : v # w => (Holds(v, e)' <=> Holds(v, e))
          /\ \A e \in Event : Holds(w, e)' => e \in Batch
        BY <2>2, NoRowHeld DEF Holds
    <2>4. SingleOwner'
        BY <2>1, <2>2, <2>3 DEF SingleOwner
    <2>5. HeldOnce'
        BY <2>1, <2>2, NoRowHeld DEF HeldOnce
    <2>6. InFlightHasLease' /\ HeldIsLeased'
        BY <1>4, <2>1, <2>2, <2>3 DEF Poll, InFlightHasLease, HeldIsLeased, InFlight
    <2>7. LockedIsCurrent'
        BY <1>4, <2>2 DEF Poll, TypeOK, LockedIsCurrent
    <2> QED BY <2>4, <2>5, <2>6, <2>7
<1>5. ASSUME NEW w \in Worker, BeginDispatch(w)
      PROVE  OwnerInv'
    <2>1. PICK r \in rows[w] : /\ rowLock' = [rowLock EXCEPT ![r.id] = w]
                              /\ rows' = [rows EXCEPT ![w] = @ \ {r}]
                              /\ cur' = [cur EXCEPT ![w] = r]
        BY <1>5 DEF BeginDispatch
    <2>2. /\ cur[w] = NoRow
          /\ r \in Row
          /\ UNCHANGED <<status, lease, overtaken>>
          /\ pc' = [pc EXCEPT ![w] = "handler"]
        BY <1>5, <2>1 DEF BeginDispatch, TypeOK, LockedIsCurrent, dbVars
    <2>3. \A v \in Worker, e \in Event : Holds(v, e)' => Holds(v, e)
        BY <2>1 DEF TypeOK, Holds
    <2>4. SingleOwner' /\ HeldIsLeased' /\ InFlightHasLease'
        BY <2>2, <2>3 DEF SingleOwner, HeldIsLeased, InFlightHasLease
    <2>5. HeldOnce'
        BY <2>1, <2>2 DEF TypeOK, HeldOnce
    <2>6. LockedIsCurrent'
        <3>1. \A e \in Event : rowLock[e] # w
            BY <2>2, NoRowHeld DEF LockedIsCurrent
        <3>2. \A e \in Event, v \in Worker : rowLock'[e] = v => cur'[v].id = e
            <4> SUFFICES ASSUME NEW e \in Event, NEW v \in Worker, rowLock'[e] = v
                         PROVE  cur'[v].id = e
                OBVIOUS
            <4>1. CASE e = r.id
                BY <2>1, <4>1 DEF TypeOK
            <4>2. CASE e # r.id
                BY <2>1, <3>1, <4>2 DEF TypeOK, LockedIsCurrent
            <4> QED BY <4>1, <4>2
        <3>3. \A v \in Worker : pc'[v] \in {"idle", "next"} => cur'[v] = NoRow
            BY <2>1, <2>2 DEF TypeOK, LockedIsCurrent
        <3> QED BY <3>2, <3>3 DEF LockedIsCurrent
    <2> QED BY <2>4, <2>5, <2>6
<1>6. ASSUME NEW w \in Worker, EndOfBatch(w) \/ SkipHandler(w) \/ StartHandler(w)
                                \/ HandlerFindsNone(w) \/ HandlerReturns(w)
      PROVE  OwnerInv'
    <2>1. /\ UNCHANGED <<rows, cur, status, lease, rowLock, overtaken>>
          /\ \A v \in Worker : pc'[v] \in {"idle", "next"} => pc[v] \in {"idle", "next"}
        BY <1>6 DEF EndOfBatch, SkipHandler, StartHandler, HandlerFindsNone, HandlerReturns,
                    HasHandler, dbVars, TypeOK
    <2> QED BY <2>1 DEF SingleOwner, InFlightHasLease, HeldIsLeased, HeldOnce,
                        LockedIsCurrent, Holds
<1>7. ASSUME NEW w \in Worker, HandlerCommits(w) \/ RecordCheckpoint(w)
      PROVE  OwnerInv'
    <2>1. /\ UNCHANGED <<rows, cur, lease, overtaken>>
          /\ Commit(w)
          /\ \A v \in Worker : pc'[v] \in {"idle", "next"} => pc[v] \in {"idle", "next"}
        BY <1>7 DEF HandlerCommits, RecordCheckpoint, TypeOK
    <2>2. TakesNothing
        BY <2>1 DEF TakesNothing
    <2>3. LockedIsCurrent'
        BY <2>1, WorkerAssumption DEF Commit, Unlocked, LockedIsCurrent
    <2>4. HeldIsLeased' /\ InFlightHasLease'
        BY <1>0, <2>1, <2>2, StillOwned
           DEF Commit, CommittedStatus, InFlightHasLease, HeldIsLeased, InFlight
    <2> QED BY <2>1, <2>2, <2>3, <2>4, StillOwned
<1>8. ASSUME NEW w \in Worker, HandlerSwallows(w) \/ HandlerFails(w) \/ Crash(w)
      PROVE  OwnerInv'
    <2>1. /\ UNCHANGED <<status, lease, overtaken>>
          /\ rowLock' = Unlocked(w)
          /\ \A v \in Worker : v # w => rows'[v] = rows[v] /\ cur'[v] = cur[v] /\ pc'[v] = pc[v]
          /\ \/ rows'[w] = rows[w] /\ cur'[w] = cur[w] /\ pc'[w] \notin {"idle", "next"}
             \/ rows'[w] = {} /\ cur'[w] = NoRow
        BY <1>8 DEF HandlerSwallows, HandlerFails, Crash, Rollback, TypeOK
    <2>2. TakesNothing
        BY <2>1 DEF TakesNothing
    <2>3. LockedIsCurrent'
        BY <2>1, WorkerAssumption DEF Unlocked, LockedIsCurrent, TypeOK
    <2>4. HeldIsLeased' /\ InFlightHasLease'
        BY <2>1, <2>2, StillOwned DEF InFlightHasLease, HeldIsLeased
    <2> QED BY <2>1, <2>2, <2>3, <2>4, StillOwned
<1>9. ASSUME NEW w \in Worker, Deliver(w) \/ FinishFailed(w)
      PROVE  OwnerInv'
    <2>0. PICK e \in Event : e = EventOf(w)
        BY <1>9 DEF Deliver, FinishFailed, CursorOK, EventOf, Row
    <2>1. /\ rowLock' = Unlocked(w)
          /\ overtaken' = overtaken
          /\ rows' = rows
          /\ cur' = [cur EXCEPT ![w] = NoRow]
          /\ pc' = [pc EXCEPT ![w] = "next"]
        BY <1>9 DEF Deliver, FinishFailed
    <2>2. /\ \A f \in Event : f # e => status'[f] = status[f] /\ lease'[f] = lease[f]
          /\ status'[e] \notin InFlight
        BY <1>9, <2>0 DEF Deliver, FinishFailed, TypeOK, InFlight
    <2>3. TakesNothing
        BY <2>1 DEF TakesNothing, TypeOK
    <2>4. LockedIsCurrent'
        BY <2>1, WorkerAssumption DEF Unlocked, LockedIsCurrent, TypeOK
    <2>5. e \notin overtaken => \A v \in Worker : ~Holds(v, e)'
        <3> SUFFICES ASSUME e \notin overtaken, NEW v \in Worker, Holds(v, e)'
                     PROVE  FALSE
            OBVIOUS
        <3>1. (\E r \in rows[v] : r.id = e) \/ (v # w /\ cur[v].id = e)
            BY <2>1, NoRowHeld DEF Holds, TypeOK
        <3>2. Holds(w, e)
            BY <2>0 DEF Holds, EventOf
        <3>3. v = w
            BY <3>1, <3>2 DEF Holds, SingleOwner
        <3> QED BY <2>0, <3>1, <3>3 DEF HeldOnce, EventOf
    <2>6. HeldIsLeased' /\ InFlightHasLease'
        BY <2>1, <2>2, <2>3, <2>5, StillOwned DEF InFlightHasLease, HeldIsLeased
    <2> QED BY <2>1, <2>3, <2>4, <2>6, StillOwned
<1>10. ASSUME UNCHANGED vars
       PROVE  OwnerInv'
    BY <1>10 DEF vars, dbVars, workerVars, SingleOwner, InFlightHasLease,
                 HeldIsLeased, HeldOnce, LockedIsCurrent, Holds
<1> QED
    BY <1>1, <1>2, <1>3, <1>4, <1>5, <1>6, <1>7, <1>8, <1>9, <1>10
       DEF Next, WorkerStep, PollNothing, ReplayEvent, ReplayFailedBatch

\* No two sessions have the same event in hand, unless its lease lapsed or it
\* was replayed under the first of them.
THEOREM OneOwner == Spec => []SingleOwner
<1>1. Spec => [](Shape /\ OwnerInv)
    BY ShapeInit, ShapeNext, OwnerInit, OwnerNext, PTL DEF Spec
<1> QED BY <1>1, PTL DEF OwnerInv

\* Whatever is in flight and was not overtaken carries the lease by which it is
\* reclaimed when its worker dies.
THEOREM NothingStranded == Spec => []InFlightHasLease
<1>1. Spec => [](Shape /\ OwnerInv)
    BY ShapeInit, ShapeNext, OwnerInit, OwnerNext, PTL DEF Spec
<1> QED BY <1>1, PTL DEF OwnerInv

-----------------------------------------------------------------------------
(* What a worker has in hand exists. *)

\* Only a poll takes something in hand.
LEMMA HoldsLess ==
    ASSUME Shape, [Next]_vars, ~ \E w \in Worker : Poll(w)
    PROVE  \A v \in Worker, e \in Event : Holds(v, e)' => Holds(v, e)
<1> USE DEF Shape, TypeOK
<1>1. CASE UNCHANGED <<rows, cur>>
    BY <1>1 DEF Holds
<1>2. ASSUME NEW w \in Worker, BeginDispatch(w)
      PROVE  \A v \in Worker, e \in Event : Holds(v, e)' => Holds(v, e)
    BY <1>2 DEF BeginDispatch, Holds
<1>3. ASSUME NEW w \in Worker, Deliver(w) \/ FinishFailed(w) \/ Crash(w)
      PROVE  \A v \in Worker, e \in Event : Holds(v, e)' => Holds(v, e)
    <2>1. TakesNothing
        BY <1>3 DEF Deliver, FinishFailed, Crash, TakesNothing
    <2> QED BY <2>1, NoRowHeld DEF TakesNothing, Holds
<1>4. ASSUME NEW e \in Event, Emit(e) \/ LeaseExpires(e)
      PROVE  UNCHANGED <<rows, cur>>
    BY <1>4 DEF Emit, LeaseExpires, workerVars
<1>5. ASSUME NEW E \in SUBSET Event, Reset(E)
      PROVE  UNCHANGED <<rows, cur>>
    BY <1>5 DEF Reset, workerVars
<1>6. ASSUME NEW w \in Worker, \/ EndOfBatch(w) \/ SkipHandler(w) \/ StartHandler(w)
                               \/ HandlerFindsNone(w) \/ HandlerCommits(w)
                               \/ HandlerReturns(w) \/ HandlerSwallows(w)
                               \/ HandlerFails(w) \/ RecordCheckpoint(w)
      PROVE  UNCHANGED <<rows, cur>>
    BY <1>6 DEF EndOfBatch, SkipHandler, StartHandler, HandlerFindsNone, HandlerCommits,
                HandlerReturns, HandlerSwallows, HandlerFails, RecordCheckpoint
<1>7. ASSUME UNCHANGED vars
      PROVE  UNCHANGED <<rows, cur>>
    BY <1>7 DEF vars, workerVars
<1> QED BY <1>1, <1>2, <1>3, <1>4, <1>5, <1>6, <1>7
           DEF Next, WorkerStep, PollNothing, ReplayEvent, ReplayFailedBatch

\* No row of the table is taken away.
LEMMA NoneVanishes ==
    ASSUME TypeOK, [Next]_vars, NEW e \in Event, status[e] # "ABSENT"
    PROVE  status'[e] # "ABSENT"
<1> USE DEF TypeOK
<1>1. ASSUME NEW f \in Event, Emit(f) \/ LeaseExpires(f)
      PROVE  status'[e] # "ABSENT"
    BY <1>1 DEF Emit, LeaseExpires
<1>2. ASSUME NEW E \in SUBSET Event, Reset(E)
      PROVE  status'[e] # "ABSENT"
    BY <1>2 DEF Reset
<1>3. ASSUME NEW w \in Worker, Poll(w)
      PROVE  status'[e] # "ABSENT"
    BY <1>3 DEF Poll
<1>4. ASSUME NEW w \in Worker, HandlerCommits(w) \/ RecordCheckpoint(w)
      PROVE  status'[e] # "ABSENT"
    BY <1>4 DEF HandlerCommits, RecordCheckpoint, Commit, CommittedStatus
<1>5. ASSUME NEW w \in Worker, Deliver(w) \/ FinishFailed(w)
      PROVE  status'[e] # "ABSENT"
    BY <1>5 DEF Deliver, FinishFailed
<1>6. ASSUME NEW w \in Worker, \/ BeginDispatch(w) \/ EndOfBatch(w) \/ SkipHandler(w)
                               \/ StartHandler(w) \/ HandlerFindsNone(w)
                               \/ HandlerReturns(w) \/ HandlerSwallows(w)
                               \/ HandlerFails(w) \/ Crash(w)
      PROVE  status' = status
    BY <1>6 DEF BeginDispatch, EndOfBatch, SkipHandler, StartHandler, HandlerFindsNone,
                HandlerReturns, HandlerSwallows, HandlerFails, Crash, Rollback, dbVars
<1>7. ASSUME UNCHANGED vars
      PROVE  status' = status
    BY <1>7 DEF vars, dbVars
<1> QED BY <1>1, <1>2, <1>3, <1>4, <1>5, <1>6, <1>7
           DEF Next, WorkerStep, PollNothing, ReplayEvent, ReplayFailedBatch

LEMMA HeldExistsInit == Init => HeldExists
BY NoRowHeld DEF Init, HeldExists, Holds

LEMMA HeldExistsNext == Shape /\ HeldExists /\ [Next]_vars => HeldExists'
<1> SUFFICES ASSUME Shape, HeldExists, [Next]_vars, NEW v \in Worker, NEW e \in Event,
                    Holds(v, e)'
             PROVE  status'[e] # "ABSENT"
    BY DEF HeldExists
<1>1. CASE Holds(v, e)
    BY <1>1, NoneVanishes DEF HeldExists, Shape
<1>2. CASE ~Holds(v, e)
    <2>1. PICK w \in Worker : Poll(w)
        BY <1>2, HoldsLess
    <2>2. e \in Batch
        BY <1>2, <2>1 DEF Poll, Holds, Shape, TypeOK
    <2> QED BY <2>1, <2>2 DEF Poll
<1> QED BY <1>1, <1>2

-----------------------------------------------------------------------------
(* What is checkpointed: handlers of the event's type, never the one called. *)

LEMMA OpenInit == Init => OpenWhileCalled
BY DEF Init, OpenWhileCalled

\* While an event is in one worker's hands only, nobody else checkpoints the handler
\* that the worker is calling.
LEMMA OpenNext == Shape /\ OwnerInv /\ OpenWhileCalled /\ [Next]_vars => OpenWhileCalled'
<1> SUFFICES ASSUME Shape, OwnerInv, OpenWhileCalled, [Next]_vars
             PROVE  OpenWhileCalled'
    OBVIOUS
<1> DEFINE Busy == {"running", "checked", "returned", "failed"}
<1>1. CASE /\ checkpoints' = checkpoints
           /\ overtaken \subseteq overtaken'
           /\ \A v \in Worker : pc'[v] \in Busy =>
                 pc[v] \in Busy /\ cur'[v] = cur[v] /\ idx'[v] = idx[v]
    BY <1>1 DEF OpenWhileCalled, EventOf, HandlerOf
<1>2. ASSUME NEW w \in Worker, StartHandler(w)
      PROVE  OpenWhileCalled'
    <2>1. /\ UNCHANGED <<checkpoints, cur, idx, overtaken>>
          /\ pc' = [pc EXCEPT ![w] = "running"]
          /\ <<EventOf(w), HandlerOf(w)>> \notin checkpoints
          /\ EventOf(w) \in Event /\ idx[w] \in Nat \ {0}
          /\ idx[w] <= Len(HandlersOf(EventOf(w)))
        BY <1>2 DEF StartHandler, HasHandler, dbVars, Shape, TypeOK, CursorOK, EventOf, Row
    <2>2. idx[w] \in DOMAIN HandlersOf(EventOf(w))
        BY <2>1, RegistryOK
    <2> QED BY <2>1, <2>2 DEF OpenWhileCalled, Shape, TypeOK, EventOf, HandlerOf
<1>3. ASSUME NEW w \in Worker, RecordCheckpoint(w)
      PROVE  OpenWhileCalled'
    <2>0. PICK e \in Event, h \in Handler :
              e = EventOf(w) /\ h = HandlerOf(w) /\ h \in HandlerSet(e)
        BY <1>3, HandlerOfType DEF RecordCheckpoint, HandlerSet, HandlerOf
    <2>1. /\ checkpoints' = checkpoints \cup {<<e, h>>}
          /\ UNCHANGED <<cur, overtaken>>
          /\ idx' = [idx EXCEPT ![w] = @ + 1]
          /\ pc' = [pc EXCEPT ![w] = "handler"]
        BY <1>3, <2>0 DEF RecordCheckpoint
    <2>2. \A f \in Event, k \in Handler : <<f, k>> \in checkpoints' => k \in HandlerSet(f)
        BY <2>0, <2>1 DEF OpenWhileCalled
    <2>3. ASSUME NEW v \in Worker, pc'[v] \in Busy
          PROVE  /\ (idx[v] \in DOMAIN HandlersOf(EventOf(v)))'
                 /\ (EventOf(v) \notin overtaken =>
                       <<EventOf(v), HandlerOf(v)>> \notin checkpoints)'
        <3>1. v # w /\ pc[v] \in Busy
            BY <2>1, <2>3 DEF Shape, TypeOK
        <3>2. (EventOf(v))' = EventOf(v) /\ (HandlerOf(v))' = HandlerOf(v) /\ idx'[v] = idx[v]
            BY <2>1, <3>1 DEF EventOf, HandlerOf, Shape, TypeOK
        <3>3. EventOf(v) \notin overtaken => EventOf(v) # e
            BY <2>0, <3>1 DEF OwnerInv, SingleOwner, Holds, EventOf
        <3> QED BY <2>1, <3>1, <3>2, <3>3 DEF OpenWhileCalled
    <2> QED BY <2>2, <2>3 DEF OpenWhileCalled
<1>4. ASSUME ~ \E w \in Worker : StartHandler(w) \/ RecordCheckpoint(w)
      PROVE  OpenWhileCalled'
    <2> USE DEF Shape, TypeOK
    <2>1. ASSUME NEW e \in Event, Emit(e) \/ LeaseExpires(e)
          PROVE  OpenWhileCalled'
        BY <1>1, <2>1 DEF Emit, LeaseExpires, Overtake, workerVars
    <2>2. ASSUME NEW E \in SUBSET Event, Reset(E)
          PROVE  OpenWhileCalled'
        BY <1>1, <2>2 DEF Reset, Overtake, workerVars
    <2>3. ASSUME NEW w \in Worker, Poll(w) \/ Crash(w) \/ Deliver(w) \/ FinishFailed(w)
          PROVE  OpenWhileCalled'
        BY <1>1, <2>3 DEF Poll, Crash, Deliver, FinishFailed
    <2>4. ASSUME NEW w \in Worker, BeginDispatch(w) \/ EndOfBatch(w) \/ SkipHandler(w)
          PROVE  OpenWhileCalled'
        BY <1>1, <2>4 DEF BeginDispatch, EndOfBatch, SkipHandler, HasHandler, dbVars
    <2>5. ASSUME NEW w \in Worker, \/ HandlerFindsNone(w) \/ HandlerCommits(w)
                                   \/ HandlerReturns(w) \/ HandlerSwallows(w)
                                   \/ HandlerFails(w)
          PROVE  OpenWhileCalled'
        BY <1>1, <2>5 DEF HandlerFindsNone, HandlerCommits, HandlerReturns, HandlerSwallows, HandlerFails, dbVars
    <2>6. ASSUME UNCHANGED vars
          PROVE  OpenWhileCalled'
        BY <1>1, <2>6 DEF vars, dbVars, workerVars
    <2> QED BY <1>4, <2>1, <2>2, <2>3, <2>4, <2>5, <2>6
               DEF Next, WorkerStep, PollNothing, ReplayEvent, ReplayFailedBatch
<1> QED BY <1>2, <1>3, <1>4

-----------------------------------------------------------------------------
(* The refinement of OutboxContract. *)

\* An event has as many handlers as its list is long.
LEMMA HandlerCount ==
    ASSUME NEW e \in Event
    PROVE  /\ IsFiniteSet(HandlerSet(e))
           /\ Cardinality(HandlerSet(e)) = Len(HandlersOf(e))
           /\ Len(HandlersOf(e)) \in Nat
<1> DEFINE n == Len(HandlersOf(e))
<1>1. /\ n \in Nat
      /\ DOMAIN HandlersOf(e) = 1..n
      /\ HandlersOf(e) \in [1..n -> HandlerSet(e)]
    BY RegistryOK DEF HandlerSet
<1>2. HandlersOf(e) \in Bijection(1..n, HandlerSet(e))
    <2>1. \A i, j \in 1..n : HandlersOf(e)[i] = HandlersOf(e)[j] => i = j
        BY <1>1, RegistryOK
    <2>2. \A h \in HandlerSet(e) : \E i \in 1..n : HandlersOf(e)[i] = h
        BY <1>1 DEF HandlerSet
    <2> QED BY <1>1, <2>1, <2>2 DEF Bijection, Injection, Surjection, IsInjective
<1>3. ExistsBijection(1..n, HandlerSet(e))
    BY <1>2 DEF ExistsBijection
<1> QED BY <1>1, <1>3, FS_NatBijection, FS_CountingElements

Done(e) == {h \in Handler : <<e, h>> \in checkpoints}

\* The count that the contract sees: it reaches the length of the list exactly
\* when no handler is missing.
LEMMA DoneCount ==
    ASSUME OpenWhileCalled, NEW e \in Event
    PROVE  /\ IsFiniteSet(Done(e))
           /\ DoneOf(e) \in 0..Len(HandlersOf(e))
           /\ DoneOf(e) = Len(HandlersOf(e)) <=>
                 \A h \in HandlerSet(e) : <<e, h>> \in checkpoints
<1>1. Done(e) \subseteq HandlerSet(e)
    BY DEF Done, OpenWhileCalled
<1>2. /\ IsFiniteSet(Done(e))
      /\ Cardinality(Done(e)) <= Len(HandlersOf(e))
      /\ Cardinality(Done(e)) = Len(HandlersOf(e)) => Done(e) = HandlerSet(e)
    BY <1>1, HandlerCount, FS_Subset
<1>3. Cardinality(Done(e)) \in Nat
    BY <1>2, FS_CardinalityType
<1>4. HandlerSet(e) \subseteq Handler
    BY RegistryOK DEF HandlerSet
<1>5. (\A h \in HandlerSet(e) : <<e, h>> \in checkpoints) => Done(e) = HandlerSet(e)
    BY <1>1, <1>4 DEF Done
<1>6. Done(e) = HandlerSet(e) => \A h \in HandlerSet(e) : <<e, h>> \in checkpoints
    BY DEF Done
<1>7. DoneOf(e) = Cardinality(Done(e))
    BY DEF Done, DoneOf
<1> QED BY <1>2, <1>3, <1>5, <1>6, <1>7, HandlerCount

\* The same of every event, to be said of the next state as well.
CountsAgree ==
    \A e \in Event :
        /\ DoneOf(e) \in 0..Len(HandlersOf(e))
        /\ DoneOf(e) = Len(HandlersOf(e)) <=>
              \A h \in HandlerSet(e) : <<e, h>> \in checkpoints

LEMMA OpenCounts == OpenWhileCalled => CountsAgree
BY DoneCount DEF CountsAgree

\* The phase an event is in, by its status.
LEMMA PhaseOfStatus ==
    ASSUME TypeOK, NEW e \in Event
    PROVE  /\ status[e] = "ABSENT" <=> PhaseOf(e) = "absent"
           /\ status[e] = "CREATED" <=> PhaseOf(e) = "waiting"
           /\ status[e] \in {"LEASED", "DISPATCHING", "RETRYING"} <=> PhaseOf(e) = "working"
           /\ status[e] = "DELIVERED" <=> PhaseOf(e) = "delivered"
           /\ status[e] = "DEAD_LETTER" <=> PhaseOf(e) = "dead"
BY DEF TypeOK, Status, PhaseOf

\* A step that moves no event to another phase and records no checkpoint is
\* invisible to the contract.
LEMMA Invisible ==
    ASSUME UNCHANGED <<checkpoints, overtaken>>, \A e \in Event : PhaseOf(e)' = PhaseOf(e)
    PROVE  UNCHANGED OC!contractVars
BY DEF OC!contractVars, DoneOf

\* The same from the statuses, if they differ only inside one phase.
LEMMA InvisibleStatus ==
    ASSUME UNCHANGED <<checkpoints, overtaken>>, TypeOK, TypeOK',
           \A e \in Event :
              \/ status'[e] = status[e]
              \/ {status[e], status'[e]} \subseteq {"LEASED", "DISPATCHING", "RETRYING"}
    PROVE  UNCHANGED OC!contractVars
<1>1. \A e \in Event : PhaseOf(e)' = PhaseOf(e)
    BY DEF PhaseOf
<1> QED BY <1>1, Invisible

LEMMA ContractInitially == Init => OC!ContractInit
<1> SUFFICES ASSUME Init
             PROVE  OC!ContractInit
    OBVIOUS
<1>1. \A e \in Event : PhaseOf(e) = "absent"
    BY DEF Init, PhaseOf
<1>2. ASSUME NEW e \in Event
      PROVE  DoneOf(e) = 0
    <2>1. {h \in Handler : <<e, h>> \in checkpoints} = {}
        BY DEF Init
    <2> QED BY <2>1, FS_EmptySet DEF DoneOf
<1> QED BY <1>1, <1>2 DEF Init, OC!ContractInit

RefInv == Shape /\ DispatchInv /\ OwnerInv /\ HeldExists /\ OpenWhileCalled

\* A worker's commit to an event that was overtaken: it may find the event in
\* any phase and leave it in any, but delivered only with every handler done.
LEMMA Disturbed ==
    ASSUME RefInv, RefInv', NEW e \in overtaken, UNCHANGED overtaken,
           status[e] # "ABSENT",
           PhaseOf(e)' \in {PhaseOf(e), "working", "delivered", "dead"},
           \A f \in Event : f # e => PhaseOf(f)' = PhaseOf(f) /\ DoneOf(f)' = DoneOf(f),
           DoneOf(e)' \in {DoneOf(e), DoneOf(e) + 1}
    PROVE  OC!ContractNext
<1>0. CountsAgree /\ CountsAgree'
    BY OpenCounts, PTL DEF RefInv
<1>1. e \in Event
    BY DEF RefInv, Shape, TypeOK
<1>2. PhaseOf(e) # "absent"
    BY <1>1, PhaseOfStatus DEF RefInv, Shape
<1>3. /\ DoneOf(e) \in 0..Len(HandlersOf(e))
      /\ DoneOf(e)' \in 0..Len(HandlersOf(e))
    BY <1>0, <1>1 DEF CountsAgree, HandlersOf
<1>4. PhaseOf(e)' = "delivered" => DoneOf(e)' = Len(HandlersOf(e))
    <2> SUFFICES ASSUME PhaseOf(e)' = "delivered"
                 PROVE  DoneOf(e)' = Len(HandlersOf(e))
        OBVIOUS
    <2>1. status'[e] = "DELIVERED"
        BY <1>1 DEF RefInv, Shape, TypeOK, Status, PhaseOf
    <2>2. (\A h \in HandlerSet(e) : <<e, h>> \in checkpoints)'
        BY <1>1, <2>1 DEF RefInv, DispatchInv, DeliveredComplete
    <2> QED BY <1>0, <1>1, <2>2 DEF CountsAgree, HandlersOf
<1>5. OC!Disturb(e)
    <2> DEFINE p == PhaseOf(e)'
               n == DoneOf(e)'
    <2>1. /\ p \in {PhaseOf(e), "working", "delivered", "dead"}
          /\ n \in DoneOf(e)..(DoneOf(e) + 1)
          /\ n <= Len(HandlersOf(e))
          /\ p = "delivered" => n = Len(HandlersOf(e))
        BY <1>3, <1>4, HandlerCount, <1>1
    <2>2. /\ [f \in Event |-> PhaseOf(f)]' = [[f \in Event |-> PhaseOf(f)] EXCEPT ![e] = p]
          /\ [f \in Event |-> DoneOf(f)]' = [[f \in Event |-> DoneOf(f)] EXCEPT ![e] = n]
        OBVIOUS
    <2> HIDE DEF p, n
    <2> QED BY <1>1, <1>2, <2>1, <2>2 DEF OC!Disturb
<1> QED BY <1>1, <1>5 DEF OC!ContractNext

\* Every step of the dispatcher is a step of the contract or invisible to it.
LEMMA ContractStep ==
    ASSUME RefInv, RefInv', [Next]_vars
    PROVE  [OC!ContractNext]_(OC!contractVars)
<1> USE DEF RefInv, Shape
<1> DEFINE Phases == [e \in Event |-> PhaseOf(e)]
           Dones == [e \in Event |-> DoneOf(e)]
<1>0. checkpoints' = checkpoints => Dones' = Dones
    BY DEF DoneOf
<1>1. ASSUME NEW e \in Event, Emit(e)
      PROVE  OC!Accept(e)
    <2>1. /\ PhaseOf(e) = "absent"
          /\ PhaseOf(e)' = "waiting"
          /\ \A f \in Event : f # e => PhaseOf(f)' = PhaseOf(f)
        BY <1>1 DEF Emit, PhaseOf, TypeOK
    <2>2. Phases' = [Phases EXCEPT ![e] = "waiting"]
        BY <2>1
    <2>3. UNCHANGED <<checkpoints, overtaken>>
        BY <1>1 DEF Emit
    <2> QED BY <1>0, <2>1, <2>2, <2>3 DEF OC!Accept
<1>2. ASSUME NEW E \in SUBSET Event, Reset(E), \A e \in E : status[e] # "ABSENT"
      PROVE  OC!Reopen(E)
    <2>1. /\ \A e \in E : PhaseOf(e) # "absent"
          /\ \A e \in Event : PhaseOf(e)' = IF e \in E THEN "waiting" ELSE PhaseOf(e)
        BY <1>2 DEF Reset, PhaseOf, TypeOK, Status
    <2>2. checkpoints' = checkpoints
        BY <1>2 DEF Reset
    <2> DEFINE F == {e \in E : Held(e) /\ e \notin overtaken}
    <2>3. /\ F \in SUBSET {e \in E : PhaseOf(e) = "working"}
          /\ overtaken' = overtaken \cup F
        <3>1. \A e \in F : PhaseOf(e) = "working"
            BY DEF OwnerInv, HeldIsLeased, Held, PhaseOf, InFlight
        <3>2. overtaken' = overtaken \cup {e \in E : Held(e)}
            BY <1>2 DEF Reset, Overtake
        <3> QED BY <3>1, <3>2
    <2> HIDE DEF F
    <2>4. {e \in E : PhaseOf(e) = "working"} = {e \in E : Phases[e] = "working"}
        OBVIOUS
    <2> QED BY <1>0, <2>1, <2>2, <2>3, <2>4 DEF OC!Reopen
<1>3. ASSUME NEW w \in Worker, Poll(w)
      PROVE  OC!ContractNext
    <2> DEFINE E == {e \in Batch : status[e] = "CREATED"}
    <2>1. \A e \in Batch : e \in Event /\ status[e] \in {"CREATED", "RETRYING"} \cup InFlight
        BY DEF Batch, Candidates, Pollable
    <2>2. /\ \A e \in E : PhaseOf(e) = "waiting"
          /\ \A e \in Event : PhaseOf(e)' = IF e \in E THEN "working" ELSE PhaseOf(e)
        BY <1>3, <2>1 DEF Poll, PhaseOf, InFlight
    <2>3. UNCHANGED <<checkpoints, overtaken>>
        BY <1>3 DEF Poll
    <2>4. E \in SUBSET Event
        BY <2>1
    <2>5. OC!Begin(E)
        <3> HIDE DEF E
        <3> QED BY <1>0, <2>2, <2>3, <2>4 DEF OC!Begin
    <2> QED BY <2>4, <2>5 DEF OC!ContractNext
<1>4. ASSUME NEW w \in Worker, RecordCheckpoint(w)
      PROVE  OC!ContractNext
    <2>1. PICK e \in Event, h \in Handler :
              e = EventOf(w) /\ h = HandlerOf(w) /\ h \in HandlerSet(e)
        BY <1>4, HandlerOfType DEF RecordCheckpoint, HandlerSet, HandlerOf
    <2>2. /\ checkpoints' = checkpoints \cup {<<e, h>>}
          /\ <<e, h>> \notin checkpoints
          /\ UNCHANGED overtaken
          /\ status' = CommittedStatus(w)
        BY <1>4, <2>1 DEF RecordCheckpoint, Commit
    <2>3. /\ \A f \in Event : f # e => status'[f] = status[f]
          /\ status'[e] \in {status[e], "DISPATCHING"}
        BY <2>1, <2>2 DEF CommittedStatus, OwnerInv, LockedIsCurrent, EventOf
    <2>4. /\ \A f \in Event : f # e => PhaseOf(f)' = PhaseOf(f)
          /\ PhaseOf(e)' \in {PhaseOf(e), "working"}
        BY <2>3 DEF PhaseOf
    <2>5. e \notin overtaken => PhaseOf(e) = "working"
        BY <2>1 DEF OwnerInv, HeldIsLeased, Holds, EventOf, PhaseOf, InFlight
    <2>6. ASSUME NEW f \in Event, f # e
          PROVE  DoneOf(f)' = DoneOf(f)
        <3>1. {k \in Handler : <<f, k>> \in checkpoints'} = {k \in Handler : <<f, k>> \in checkpoints}
            BY <2>2, <2>6
        <3> QED BY <3>1 DEF DoneOf
    <2>7. DoneOf(e)' = DoneOf(e) + 1
        <3>1. Done(e)' = Done(e) \cup {h} /\ h \notin Done(e)
            BY <2>2 DEF Done
        <3>2. DoneOf(e) = Cardinality(Done(e)) /\ DoneOf(e)' = Cardinality(Done(e)')
            BY DEF Done, DoneOf
        <3> QED BY <3>1, <3>2, DoneCount, FS_AddElement
    <2>8. DoneOf(e) < Len(HandlersOf(e))
        BY <2>1, <2>2, DoneCount, HandlerCount
    <2>9. CASE e \notin overtaken
        <3>1. \A f \in Event : PhaseOf(f)' = PhaseOf(f)
            BY <2>4, <2>5, <2>9
        <3>2. OC!Complete(e)
            BY <2>2, <2>5, <2>6, <2>7, <2>8, <2>9, <3>1 DEF OC!Complete
        <3> QED BY <3>2 DEF OC!ContractNext
    <2>10. CASE e \in overtaken
        <3>1. status[e] # "ABSENT"
            BY <2>1 DEF HeldExists, Holds, EventOf
        <3> QED BY <2>2, <2>4, <2>6, <2>7, <2>10, <3>1, Disturbed
    <2> QED BY <2>9, <2>10
<1>5. ASSUME NEW w \in Worker, Deliver(w)
      PROVE  OC!ContractNext
    <2>1. PICK e \in Event : e = EventOf(w)
        BY <1>5 DEF Deliver, CursorOK, EventOf, Row
    <2>2. /\ UNCHANGED <<checkpoints, overtaken>>
          /\ status' = [status EXCEPT ![e] = "DELIVERED"]
        BY <1>5, <2>1 DEF Deliver
    <2>3. /\ e \notin overtaken => PhaseOf(e) = "working"
          /\ PhaseOf(e)' = "delivered"
          /\ \A f \in Event : f # e => PhaseOf(f)' = PhaseOf(f)
        BY <2>1, <2>2 DEF OwnerInv, HeldIsLeased, Holds, EventOf, PhaseOf, InFlight, TypeOK
    <2>4. \A h \in HandlerSet(e) : <<e, h>> \in checkpoints
        BY <2>2 DEF DispatchInv, DeliveredComplete, TypeOK
    <2>5. DoneOf(e) = Len(HandlersOf(e))
        BY <2>4, DoneCount
    <2>6. CASE e \notin overtaken
        <3>1. OC!SettleDelivered(e)
            BY <1>0, <2>2, <2>3, <2>5, <2>6 DEF OC!SettleDelivered
        <3> QED BY <3>1 DEF OC!ContractNext
    <2>7. CASE e \in overtaken
        <3>1. status[e] # "ABSENT"
            BY <2>1 DEF HeldExists, Holds, EventOf
        <3>2. \A f \in Event : DoneOf(f)' = DoneOf(f)
            BY <2>2 DEF DoneOf
        <3> QED BY <2>2, <2>3, <2>7, <3>1, <3>2, Disturbed
    <2> QED BY <2>6, <2>7
<1>6. ASSUME NEW w \in Worker, FinishFailed(w)
      PROVE  [OC!ContractNext]_(OC!contractVars)
    <2>1. PICK e \in Event : e = EventOf(w)
        BY <1>6 DEF FinishFailed, CursorOK, EventOf, Row
    <2>2. /\ UNCHANGED <<checkpoints, overtaken>>
          /\ status' = [status EXCEPT ![e] = IF RetriesExhausted(w) THEN "DEAD_LETTER"
                                                                    ELSE "RETRYING"]
        BY <1>6, <2>1 DEF FinishFailed
    <2>3. e \notin overtaken => status[e] \in InFlight
        BY <2>1 DEF OwnerInv, HeldIsLeased, Holds, EventOf
    <2>4. CASE e \notin overtaken /\ RetriesExhausted(w)
        <3>1. /\ PhaseOf(e) = "working" /\ PhaseOf(e)' = "dead"
              /\ \A f \in Event : f # e => PhaseOf(f)' = PhaseOf(f)
            BY <2>2, <2>3, <2>4 DEF PhaseOf, InFlight, TypeOK
        <3>2. HandlerOf(w) \in HandlerSet(e) /\ <<e, HandlerOf(w)>> \notin checkpoints
            BY <1>6, <2>1, <2>4 DEF FinishFailed, OpenWhileCalled, HandlerSet, HandlerOf
        <3>3. DoneOf(e) < Len(HandlersOf(e))
            BY <3>2, DoneCount, HandlerCount
        <3>4. OC!SettleDead(e)
            BY <1>0, <2>2, <3>1, <3>3 DEF OC!SettleDead
        <3> QED BY <3>4 DEF OC!ContractNext
    <2>5. CASE e \notin overtaken /\ ~RetriesExhausted(w)
        BY <2>2, <2>3, <2>5, InvisibleStatus DEF InFlight, TypeOK
    <2>6. CASE e \in overtaken
        <3>1. status[e] # "ABSENT"
            BY <2>1 DEF HeldExists, Holds, EventOf
        <3>2. \A f \in Event : DoneOf(f)' = DoneOf(f)
            BY <2>2 DEF DoneOf
        <3>3. /\ PhaseOf(e)' \in {"working", "dead"}
              /\ \A f \in Event : f # e => PhaseOf(f)' = PhaseOf(f)
            BY <2>2 DEF PhaseOf, TypeOK
        <3> QED BY <2>2, <2>6, <3>1, <3>2, <3>3, Disturbed
    <2> QED BY <2>4, <2>5, <2>6
<1>7. ASSUME NEW w \in Worker, HandlerCommits(w)
      PROVE  [OC!ContractNext]_(OC!contractVars)
    <2>0. PICK e \in Event : e = EventOf(w)
        BY <1>7, HandlerOfType DEF HandlerCommits
    <2>1. UNCHANGED <<checkpoints, overtaken>> /\ status' = CommittedStatus(w)
        BY <1>7 DEF HandlerCommits, Commit
    <2>2. /\ \A f \in Event : f # e => status'[f] = status[f]
          /\ status'[e] \in {status[e], "DISPATCHING"}
        BY <2>0, <2>1 DEF CommittedStatus, OwnerInv, LockedIsCurrent, EventOf
    <2>3. CASE e \notin overtaken
        <3>1. status[e] \in InFlight
            BY <2>0, <2>3 DEF OwnerInv, HeldIsLeased, Holds, EventOf
        <3> QED BY <2>1, <2>2, <3>1, InvisibleStatus DEF InFlight
    <2>4. CASE e \in overtaken
        <3>1. status[e] # "ABSENT"
            BY <2>0 DEF HeldExists, Holds, EventOf
        <3>2. \A f \in Event : DoneOf(f)' = DoneOf(f)
            BY <2>1 DEF DoneOf
        <3>3. /\ PhaseOf(e)' \in {PhaseOf(e), "working"}
              /\ \A f \in Event : f # e => PhaseOf(f)' = PhaseOf(f)
            BY <2>2 DEF PhaseOf
        <3> QED BY <2>1, <2>4, <3>1, <3>2, <3>3, Disturbed
    <2> QED BY <2>3, <2>4
<1>8. ASSUME UNCHANGED <<status, checkpoints, overtaken>>
      PROVE  UNCHANGED OC!contractVars
    BY <1>8, InvisibleStatus
<1>9. ASSUME NEW w \in Worker, \/ BeginDispatch(w) \/ EndOfBatch(w) \/ SkipHandler(w)
                               \/ StartHandler(w) \/ HandlerFindsNone(w)
                               \/ HandlerReturns(w) \/ HandlerSwallows(w)
                               \/ HandlerFails(w) \/ Crash(w)
      PROVE  UNCHANGED OC!contractVars
    BY <1>8, <1>9 DEF BeginDispatch, EndOfBatch, SkipHandler, StartHandler,
                      HandlerFindsNone, HandlerReturns, HandlerSwallows, HandlerFails, Crash, Rollback, dbVars
<1>10. ASSUME NEW e \in Event, LeaseExpires(e)
       PROVE  [OC!ContractNext]_(OC!contractVars)
    <2>1. /\ UNCHANGED <<status, checkpoints>>
          /\ status[e] \in InFlight
          /\ overtaken' = overtaken \cup {f \in {e} : Held(f)}
        BY <1>10 DEF LeaseExpires, Overtake
    <2>2. CASE Held(e)
        <3>1. /\ PhaseOf(e) = "working"
              /\ \A f \in Event : PhaseOf(f)' = PhaseOf(f) /\ DoneOf(f)' = DoneOf(f)
            BY <2>1 DEF PhaseOf, InFlight, DoneOf
        <3>2. overtaken' = overtaken \cup {e}
            BY <2>1, <2>2
        <3>3. OC!Overtake(e)
            BY <3>1, <3>2 DEF OC!Overtake
        <3> QED BY <3>3 DEF OC!ContractNext
    <2>3. CASE ~Held(e)
        <3>1. overtaken' = overtaken
            BY <2>1, <2>3
        <3> QED BY <1>8, <2>1, <3>1
    <2> QED BY <2>2, <2>3
<1>11. ASSUME UNCHANGED vars
       PROVE  UNCHANGED OC!contractVars
    BY <1>8, <1>11 DEF vars, dbVars
<1>12. ASSUME NEW e \in Event, ReplayEvent(e)
       PROVE  OC!ContractNext
    BY <1>2, <1>12 DEF ReplayEvent, OC!ContractNext
<1>13. ASSUME ReplayFailedBatch
       PROVE  OC!ContractNext
    BY <1>2, <1>13 DEF ReplayFailedBatch, OC!ContractNext
<1>14. CASE \E w \in Worker : WorkerStep(w)
    BY <1>14, <1>4, <1>5, <1>6, <1>7, <1>9 DEF WorkerStep
<1>15. CASE \E e \in Event : Emit(e) \/ LeaseExpires(e) \/ ReplayEvent(e)
    BY <1>15, <1>1, <1>10, <1>12 DEF OC!ContractNext
<1>16. CASE \E w \in Worker : Poll(w) \/ PollNothing(w) \/ Crash(w)
    BY <1>16, <1>3, <1>9, <1>11 DEF PollNothing
<1> QED BY <1>11, <1>13, <1>14, <1>15, <1>16 DEF Next

\* The dispatcher implements the contract: with workers crashing, rows leased
\* again by others and administrators replaying anything at any time, an event
\* that is not overtaken has its handlers complete one after the other, is
\* delivered with all of them done or dead with one missing, and settled it
\* stays; one that is overtaken is delivered only when complete all the same.
THEOREM Refinement == Spec => ImplementsContract
<1>1. Init => RefInv
    BY ShapeInit, DispatchInit, OwnerInit, HeldExistsInit, OpenInit DEF RefInv
<1>2. RefInv /\ [Next]_vars => RefInv'
    BY ShapeNext, DispatchNext, OwnerNext, HeldExistsNext, OpenNext DEF RefInv
<1>3. RefInv /\ RefInv' /\ [Next]_vars => [OC!ContractNext]_(OC!contractVars)
    BY ContractStep
<1> QED BY <1>1, <1>2, <1>3, ContractInitially, PTL
           DEF Spec, ImplementsContract, OC!Contract

=============================================================================
