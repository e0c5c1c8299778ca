--------------------------- MODULE AIGatewayProofs ---------------------------
(***************************************************************************)
(* Proofs about AIGateway, for any number of requests, providers, attempts *)
(* and faults: what concurrent requests may overspend, and how many calls  *)
(* an open circuit still lets through.                                     *)
(***************************************************************************)
EXTENDS AIGateway, FiniteSetTheorems, TLAPS

(* Where a request goes: it never gains a right by a step of its own, but by
   asking for it. *)

\* From r to s a request gains neither a charge nor an attempt.
Keeps(r, s) ==
    /\ s \in Request
    /\ Owes(s) => Owes(r)
    /\ \A k \in Int : MayAttempt(s, k) => MayAttempt(r, k)

\* A request that is over, or goes to the next provider, has to ask again.
LEMMA NextProviderAsks ==
    ASSUME NEW r \in Request
    PROVE  /\ NextProvider(r) \in Request
           /\ IdleCaller \in Request
           /\ ~Owes(NextProvider(r)) /\ ~Owes(IdleCaller)
           /\ \A k \in Int : ~MayAttempt(NextProvider(r), k) /\ ~MayAttempt(IdleCaller, k)
<1> DEFINE next == [pc |-> "get", provider |-> r.provider + 1, attempts |-> 0,
                    use |-> "check", state |-> "closed"]
<1>1. r.provider \in 1..Providers
    BY DEF Request, Provider
<1>2. IdleCaller \in Request /\ IdleCaller.pc = "idle"
    BY BoundAssumption DEF IdleCaller, Request, Provider, State
<1>3. CASE r.provider = Providers
    BY <1>2, <1>3 DEF NextProvider, Owes, MayAttempt
<1>4. CASE r.provider # Providers
    <2>1. NextProvider(r) = next
        BY <1>4 DEF NextProvider, IdleCaller
    <2>2. next \in Request
        BY <1>1, <1>4, BoundAssumption DEF Request, Provider, State
    <2>3. ~Owes(next) /\ \A k \in Int : ~MayAttempt(next, k)
        BY <1>1 DEF Owes, Asking, MayAttempt
    <2> QED BY <1>2, <2>1, <2>2, <2>3 DEF Owes, MayAttempt
<1> QED BY <1>3, <1>4

\* A retry asks nobody, and uses up an attempt.
LEMMA FailedKeeps ==
    ASSUME NEW r \in Request,
           \/ r.pc \in {"call", "incr", "stamp"}
           \/ r.pc \in {"get", "clock", "probe"} /\ r.use = "failure"
    PROVE  Keeps(r, Failed(r))
<1>1. CASE r.attempts + 1 < MaxAttempts
    <2> DEFINE s == [pc |-> "call", provider |-> r.provider, attempts |-> r.attempts + 1,
                     use |-> "check", state |-> "closed"]
    <2>1. Failed(r) = s
        BY <1>1 DEF Failed, Request
    <2>2. s \in Request /\ s.pc = "call" /\ s.provider = r.provider /\ s.attempts = r.attempts + 1
        BY <1>1, BoundAssumption DEF Request, State
    <2>3. Owes(r)
        BY DEF Owes, Asking
    <2>4. r.attempts \in Int
        BY DEF Request
    <2> HIDE DEF s
    <2>5. ASSUME NEW k \in Int, MayAttempt(s, k)
          PROVE  MayAttempt(r, k)
        BY <2>2, <2>4, <2>5 DEF MayAttempt, Asking
    <2> QED BY <2>1, <2>2, <2>3, <2>5 DEF Keeps
<1>2. CASE ~(r.attempts + 1 < MaxAttempts)
    BY <1>2, NextProviderAsks DEF Failed, Keeps
<1> QED BY <1>1, <1>2

\* What the breaker's state leads to: only a request that asks, and is not
\* told "open", gains its attempts, and it goes to the budget.
LEMMA AfterStateGains ==
    ASSUME NEW r \in Request, r.pc \in {"get", "clock", "probe"}, NEW s \in State
    PROVE  /\ AfterState(r, s) \in Request
           /\ Owes(AfterState(r, s)) => Owes(r)
           /\ s = "open" \/ r.use # "check" \/ r.provider # 1 => Keeps(r, AfterState(r, s))
<1>1. CASE r.use = "check" /\ s = "open"
    BY <1>1, NextProviderAsks DEF AfterState, Keeps
<1>2. CASE r.use = "check" /\ s # "open"
    <2>1. AfterState(r, s) = [r EXCEPT !.pc = "budget"]
        BY <1>2 DEF AfterState
    <2> QED BY <1>2, <2>1 DEF Request, Owes, MayAttempt, Keeps
<1>3. CASE r.use = "failure" /\ s = "open"
    <2>1. AfterState(r, s) = Failed(r)
        BY <1>3 DEF AfterState
    <2> QED BY <1>3, <2>1, FailedKeeps DEF Keeps
<1>4. CASE r.use = "failure" /\ s # "open"
    <2>1. PICK q \in {"open", "incr"} : AfterState(r, s) = [r EXCEPT !.pc = q]
        BY <1>4 DEF AfterState, State
    <2> QED BY <1>4, <2>1 DEF Request, Owes, Asking, MayAttempt, Keeps
<1>5. CASE r.use = "success"
    <2>1. PICK q \in {"close", "clear", "charge"} :
              AfterState(r, s) \in {[r EXCEPT !.pc = q, !.state = s], [r EXCEPT !.pc = q]}
        BY <1>5 DEF AfterState, State
    <2> QED BY <1>5, <2>1 DEF Request, State, Owes, Asking, MayAttempt, Keeps
<1> QED BY <1>1, <1>2, <1>3, <1>4, <1>5 DEF Request

\* A call that has returned is recorded with the attempt it was, or the last.
LEMMA RecordedCall ==
    ASSUME NEW r \in Request, NEW q \in Recorded(r)
    PROVE  /\ q \in Request /\ q.pc = "get" /\ q.use # "check" /\ q.provider = r.provider
           /\ q.attempts >= r.attempts
<1>1. MaxAttempts - 1 \in 0..MaxAttempts - 1 /\ r.attempts \in 0..MaxAttempts - 1
    BY BoundAssumption DEF Request
<1>2. \E n \in {r.attempts, MaxAttempts - 1}, u \in {"success", "failure"} :
          q = [pc |-> "get", provider |-> r.provider, attempts |-> n, use |-> u,
               state |-> r.state]
    BY DEF Recorded, Request
<1>3. r.provider \in Provider /\ r.state \in State
    BY DEF Request
<1> QED BY <1>1, <1>2, <1>3, BoundAssumption DEF Request

\* The steps by which a request gains nothing.
Ordinary(c) ==
    \/ BeginRequest(c) \/ CacheHit(c) \/ RateLimited(c) \/ Charge(c) \/ Die(c)
    \/ \E p \in Provider :
           \/ GetOpenedAt(c, p) \/ CallReturns(c, p) \/ CountFailure(c, p) \/ SetOpen(c, p)
           \/ SetOpenedAt(c, p) \/ SetClosed(c, p) \/ DeleteFailures(c, p) \/ DeleteOpenedAt(c, p)

LEMMA OrdinaryKeeps ==
    ASSUME TypeOK, NEW c \in Caller, Ordinary(c)
    PROVE  \E r : Goto(c, r) /\ Keeps(caller[c], r)
<1> DEFINE r == caller[c]
<1>1. r \in Request
    BY DEF TypeOK
<1>2. ASSUME r.pc = "idle"
      PROVE  Keeps(r, [IdleCaller EXCEPT !.pc = "get"])
    <2>1. IdleCaller \in Request
        BY <1>1, NextProviderAsks
    <2> QED BY <2>1 DEF IdleCaller, Keeps, Request, Owes, Asking, MayAttempt
<1>3. Keeps(r, IdleCaller)
    BY <1>1, NextProviderAsks DEF Keeps
<1>4. CASE BeginRequest(c)
    BY <1>2, <1>4 DEF BeginRequest
<1>5. CASE CacheHit(c) \/ Charge(c) \/ Die(c)
    BY <1>3, <1>5 DEF CacheHit, Charge, Die
<1>6. CASE RateLimited(c)
    BY <1>1, <1>6, FailedKeeps DEF RateLimited
<1>7. ASSUME NEW p \in Provider, GetOpenedAt(c, p)
      PROVE  \E q : Goto(c, q) /\ Keeps(r, q)
    <2>1. r.pc = "clock"
        BY <1>7 DEF GetOpenedAt, At
    <2>2. Keeps(r, [r EXCEPT !.pc = "probe"])
        BY <1>1, <2>1 DEF Request, Keeps, Owes, Asking, MayAttempt
    <2>3. Keeps(r, AfterState(r, "open"))
        BY <1>1, <2>1, AfterStateGains DEF State
    <2> QED BY <1>7, <2>2, <2>3 DEF GetOpenedAt
<1>8. ASSUME NEW p \in Provider, CallReturns(c, p)
      PROVE  \E q : Goto(c, q) /\ Keeps(r, q)
    <2>1. PICK q \in Recorded(r) : Goto(c, q)
        BY <1>8 DEF CallReturns
    <2>2. r.pc = "call"
        BY <1>8 DEF CallReturns, At
    <2>3. /\ q \in Request /\ q.pc = "get" /\ q.use # "check" /\ q.provider = r.provider
          /\ q.attempts >= r.attempts
        BY <1>1, <2>1, RecordedCall
    <2>4. r.attempts \in 0..MaxAttempts - 1
        BY <1>1 DEF Request
    <2>5. Owes(r)
        BY <2>2 DEF Owes, Asking
    <2>6. ASSUME NEW k \in Int, MayAttempt(q, k)
          PROVE  MayAttempt(r, k)
        <3>1. q.attempts \in Int
            BY <2>3 DEF Request
        <3> QED BY <2>2, <2>3, <2>4, <2>6, <3>1 DEF MayAttempt
    <2> QED BY <2>1, <2>3, <2>5, <2>6 DEF Keeps
<1>9. ASSUME NEW p \in Provider, CountFailure(c, p)
      PROVE  \E q : Goto(c, q) /\ Keeps(r, q)
    <2>1. r.pc = "incr"
        BY <1>9 DEF CountFailure, At
    <2>2. Keeps(r, [r EXCEPT !.pc = "open"])
        BY <1>1, <2>1 DEF Request, Keeps, Owes, Asking, MayAttempt
    <2>3. Keeps(r, Failed(r))
        BY <1>1, <2>1, FailedKeeps
    <2> QED BY <1>9, <2>2, <2>3 DEF CountFailure
<1>10. ASSUME NEW p \in Provider, SetOpenedAt(c, p)
       PROVE  \E q : Goto(c, q) /\ Keeps(r, q)
    BY <1>1, <1>10, FailedKeeps DEF SetOpenedAt, At
<1>11. ASSUME NEW p \in Provider,
              SetOpen(c, p) \/ SetClosed(c, p) \/ DeleteFailures(c, p) \/ DeleteOpenedAt(c, p)
       PROVE  \E q : Goto(c, q) /\ Keeps(r, q)
    <2>1. PICK q \in {"stamp", "clear", "unstamp", "charge"} :
              /\ Goto(c, [r EXCEPT !.pc = q])
              /\ r.pc \in {"open", "close", "clear", "unstamp"}
              /\ q = "stamp" => r.pc = "open"
        BY <1>11 DEF SetOpen, SetClosed, DeleteFailures, DeleteOpenedAt, At
    <2>2. Keeps(r, [r EXCEPT !.pc = q])
        BY <1>1, <2>1 DEF Request, Keeps, Owes, Asking, MayAttempt
    <2> QED BY <2>1, <2>2
<1> QED BY <1>4, <1>5, <1>6, <1>7, <1>8, <1>9, <1>10, <1>11 DEF Ordinary

\* The breaker's answer lets a request on only where the circuit is not open.
LEMMA BreakerAnswers ==
    ASSUME TypeOK, NEW c \in Caller, NEW p \in Provider, GetState(c, p) \/ SetHalfOpen(c, p)
    PROVE  \E r \in Request :
              /\ Goto(c, r)
              /\ Owes(r) => Owes(caller[c])
              /\ Keeps(caller[c], r) \/ (p = 1 /\ state'[1] # "open")
<1> DEFINE r == caller[c]
<1>1. r \in Request /\ r.provider = p /\ r.pc \in {"get", "probe"} /\ state[p] \in State
    BY DEF TypeOK, GetState, SetHalfOpen, At
<1>2. CASE GetState(c, p) /\ state[p] = "open"
    <2>1. Goto(c, [r EXCEPT !.pc = "clock"]) /\ r.pc = "get"
        BY <1>2 DEF GetState, At
    <2>2. Keeps(r, [r EXCEPT !.pc = "clock"])
        BY <1>1, <2>1 DEF Request, Keeps, Owes, Asking, MayAttempt
    <2> QED BY <2>1, <2>2 DEF Keeps
<1>3. CASE GetState(c, p) /\ state[p] # "open"
    <2>1. Goto(c, AfterState(r, state[p])) /\ state' = state
        BY <1>3 DEF GetState, breakerVars
    <2> QED BY <1>1, <1>3, <2>1, AfterStateGains
<1>4. CASE SetHalfOpen(c, p)
    <2>1. Goto(c, AfterState(r, "half_open")) /\ state'[p] = "half_open"
        BY <1>4 DEF SetHalfOpen, TypeOK
    <2> QED BY <1>1, <2>1, AfterStateGains DEF State
<1> QED BY <1>2, <1>3, <1>4

\* What a request may gain from a command that Redis does not answer is
\* whatever a request can have: it stays a request.
LEMMA WithoutRedisTypes ==
    ASSUME NEW r \in Request, r.pc \notin {"idle", "call"}
    PROVE  WithoutRedis(r) \in Request
<1>1. CASE r.pc \in {"get", "clock"}
    BY <1>1, AfterStateGains DEF WithoutRedis, State
<1>2. CASE r.pc = "probe"
    BY <1>2, AfterStateGains DEF WithoutRedis, State
<1>3. CASE r.pc \in {"incr", "stamp"}
    BY <1>3, FailedKeeps DEF WithoutRedis, Keeps
<1>4. CASE r.pc = "charge"
    BY <1>4, NextProviderAsks DEF WithoutRedis
<1>5. CASE r.pc \in {"budget", "open", "close", "clear", "unstamp"}
    <2>1. PICK q \in {"call", "stamp", "clear", "charge"} : WithoutRedis(r) = [r EXCEPT !.pc = q]
        BY <1>5 DEF WithoutRedis
    <2> QED BY <2>1 DEF Request
<1> QED BY <1>1, <1>2, <1>3, <1>4, <1>5 DEF Request

-----------------------------------------------------------------------------
(* Types. *)

LEMMA MaxLateType == MaxLate \in Nat
BY CallerAssumption, BoundAssumption, FS_CardinalityType DEF MaxLate

LEMMA TypeInit == Init => TypeOK
<1>1. IdleCaller \in Request
    BY BoundAssumption DEF IdleCaller, Request, Provider, State
<1> QED BY <1>1, MaxLateType, BoundAssumption DEF Init, TypeOK, State

LEMMA TypeNext == TypeOK /\ [Next]_vars => TypeOK'
<1> SUFFICES ASSUME TypeOK, [Next]_vars
             PROVE  TypeOK'
    OBVIOUS
<1> USE BoundAssumption, MaxLateType
<1>1. ASSUME NEW c \in Caller, Ordinary(c)
      PROVE  TypeOK'
    <2>1. caller' \in [Caller -> Request]
        BY <1>1, OrdinaryKeeps DEF TypeOK, Goto, Keeps
    <2>2. CASE BeginRequest(c) \/ CacheHit(c) \/ RateLimited(c) \/ Charge(c) \/ Die(c)
        BY <2>1, <2>2 DEF TypeOK, BeginRequest, CacheHit, RateLimited, Charge, Die, breakerVars
    <2>3. ASSUME NEW p \in Provider, GetOpenedAt(c, p) \/ CallReturns(c, p)
          PROVE  TypeOK'
        BY <2>1, <2>3 DEF TypeOK, GetOpenedAt, CallReturns, breakerVars
    <2>4. ASSUME NEW p \in Provider, CountFailure(c, p) \/ DeleteFailures(c, p)
          PROVE  TypeOK'
        BY <2>1, <2>4 DEF TypeOK, CountFailure, DeleteFailures, Incremented
    <2>5. ASSUME NEW p \in Provider,
                 \/ SetOpen(c, p) \/ SetOpenedAt(c, p) \/ SetClosed(c, p) \/ DeleteOpenedAt(c, p)
          PROVE  TypeOK'
        BY <2>1, <2>5 DEF TypeOK, SetOpen, SetOpenedAt, SetClosed, DeleteOpenedAt, State
    <2> QED BY <1>1, <2>2, <2>3, <2>4, <2>5 DEF Ordinary
<1>2. ASSUME NEW c \in Caller, NEW p \in Provider, GetState(c, p) \/ SetHalfOpen(c, p)
      PROVE  TypeOK'
    <2>1. caller' \in [Caller -> Request]
        BY <1>2, BreakerAnswers DEF TypeOK, Goto
    <2> QED BY <1>2, <2>1 DEF TypeOK, GetState, SetHalfOpen, breakerVars, State
<1>3. ASSUME NEW c \in Caller, CheckBudget(c)
      PROVE  TypeOK'
    <2>1. caller' \in [Caller -> Request]
        <3>1. caller[c] \in Request
            BY DEF TypeOK
        <3>2. [caller[c] EXCEPT !.pc = "call"] \in Request
            BY <3>1 DEF Request
        <3> QED BY <1>3, <3>1, <3>2, NextProviderAsks DEF TypeOK, CheckBudget, Goto
    <2> QED BY <1>3, <2>1 DEF TypeOK, CheckBudget, breakerVars
<1>4. ASSUME NEW c \in Caller, RedisFails(c)
      PROVE  TypeOK'
    <2>1. caller' \in [Caller -> Request]
        BY <1>4, WithoutRedisTypes DEF TypeOK, RedisFails, Goto
    <2>2. failures' \in [Provider -> 0..Threshold]
        BY <1>4 DEF TypeOK, RedisFails, Incremented
    <2> QED BY <1>4, <2>1, <2>2 DEF TypeOK, RedisFails
<1>5. ASSUME NEW p \in Provider, RecoveryTimeout(p) \/ FailuresExpire(p)
      PROVE  TypeOK'
    BY <1>5 DEF TypeOK, RecoveryTimeout, FailuresExpire
<1>6. CASE NewDay
    BY <1>6 DEF TypeOK, NewDay, breakerVars
<1>7. CASE UNCHANGED vars
    BY <1>7 DEF TypeOK, vars, breakerVars
<1> QED BY <1>1, <1>2, <1>3, <1>4, <1>5, <1>6, <1>7 DEF Next, CallerStep, Ordinary

\* Every reachable state of breakers, budget and requests is well typed.
THEOREM TypeCorrect == Spec => []TypeOK
BY TypeInit, TypeNext, PTL DEF Spec

-----------------------------------------------------------------------------
(* Counting what the requests may still do. *)

\* Any set of requests, and of their attempts, is finite.
LEMMA Finite ==
    /\ Cardinality(Caller) \in Nat
    /\ \A S \in SUBSET Caller :
          IsFiniteSet(S) /\ Cardinality(S) \in Nat /\ Cardinality(S) <= Cardinality(Caller)
    /\ \A S \in SUBSET (Caller \X (0..MaxAttempts - 1)) :
          /\ IsFiniteSet(S) /\ Cardinality(S) \in Nat
          /\ Cardinality(S) <= Cardinality(Caller) * MaxAttempts
<1>1. IsFiniteSet(0..MaxAttempts - 1) /\ Cardinality(0..MaxAttempts - 1) = MaxAttempts
    BY BoundAssumption, FS_Interval
<1>2. /\ IsFiniteSet(Caller \X (0..MaxAttempts - 1))
      /\ Cardinality(Caller \X (0..MaxAttempts - 1)) = Cardinality(Caller) * MaxAttempts
    BY <1>1, CallerAssumption, FS_Product
<1> QED BY <1>2, CallerAssumption, FS_Subset, FS_CardinalityType

LEMMA Counts ==
    /\ Cardinality(Caller) \in Nat
    /\ IsFiniteSet(Owing)
    /\ Cardinality(Owing) \in Nat
    /\ Cardinality(Owing) <= Cardinality(Caller)
    /\ IsFiniteSet(Pending)
    /\ Cardinality(Pending) \in Nat
    /\ Cardinality(Pending) <= Cardinality(Caller) * MaxAttempts
<1>1. Pending \in SUBSET (Caller \X (0..MaxAttempts - 1)) /\ Owing \in SUBSET Caller
    BY DEF Pending, Owing
<1> QED BY <1>1, Finite

\* One request's step changes what that request may do and nothing else.
LEMMA OneRequest ==
    ASSUME TypeOK, NEW c \in Caller, NEW r, Goto(c, r)
    PROVE  /\ Owing' \subseteq Owing \cup {c}
           /\ (Owes(r) => Owes(caller[c])) => Owing' \subseteq Owing
           /\ ~Owes(r) => Owing' = Owing \ {c}
           /\ Keeps(caller[c], r) => Pending' \subseteq Pending
<1>1. /\ caller'[c] = r
      /\ \A d \in Caller : d # c => caller'[d] = caller[d]
    BY DEF TypeOK, Goto
<1>2. /\ Owing' \subseteq Owing \cup {c}
      /\ (Owes(r) => Owes(caller[c])) => Owing' \subseteq Owing
      /\ ~Owes(r) => Owing' = Owing \ {c}
    BY <1>1 DEF Owing
<1>3. ASSUME Keeps(caller[c], r), NEW d \in Caller, NEW k \in 0..MaxAttempts - 1,
             MayAttempt(caller'[d], k)
      PROVE  MayAttempt(caller[d], k)
    BY <1>1, <1>3 DEF Keeps
<1>4. Keeps(caller[c], r) => Pending' \subseteq Pending
    BY <1>3 DEF Pending
<1> QED BY <1>2, <1>4

-----------------------------------------------------------------------------
(* The daily budget: what is spent and what is still owed. *)

LEMMA BudgetInit == Init => OwingWithinBudget
<1> SUFFICES ASSUME Init
             PROVE  OwingWithinBudget
    OBVIOUS
<1>1. Owing = {}
    BY DEF Init, Owing, Owes, IdleCaller
<1> QED BY <1>1, Counts, FS_EmptySet, BoundAssumption DEF Init, OwingWithinBudget

\* A step that spends nothing and makes nobody owe more keeps the budget.
LEMMA NothingOwed ==
    ASSUME TypeOK, TypeOK', OwingWithinBudget,
           spend' <= spend, faults' >= faults, Owing' \subseteq Owing
    PROVE  OwingWithinBudget'
<1>1. Cardinality(Owing') <= Cardinality(Owing) /\ Cardinality(Owing') \in Nat
    BY Counts, FS_Subset, FS_CardinalityType
<1> QED BY <1>1, Counts, BoundAssumption DEF OwingWithinBudget, TypeOK

LEMMA BudgetNext == TypeOK /\ TypeOK' /\ OwingWithinBudget /\ [Next]_vars => OwingWithinBudget'
<1> SUFFICES ASSUME TypeOK, TypeOK', OwingWithinBudget, [Next]_vars
             PROVE  OwingWithinBudget'
    OBVIOUS
<1>0. /\ spend \in Nat /\ spend' \in Nat /\ faults \in Nat /\ faults' \in Nat
      /\ DailyLimit \in Nat \ {0}
    BY BoundAssumption DEF TypeOK
<1>1. ASSUME NEW c \in Caller, Ordinary(c), ~Charge(c)
      PROVE  OwingWithinBudget'
    <2>1. spend' = spend /\ faults' >= faults
        BY <1>0, <1>1 DEF Ordinary, BeginRequest, CacheHit, RateLimited, Die, GetOpenedAt,
               CallReturns, CountFailure, SetOpen, SetOpenedAt, SetClosed, DeleteFailures,
               DeleteOpenedAt
    <2>2. Owing' \subseteq Owing
        BY <1>1, OrdinaryKeeps, OneRequest DEF Keeps
    <2> QED BY <1>0, <2>1, <2>2, NothingOwed
<1>2. ASSUME NEW c \in Caller, Charge(c)
      PROVE  OwingWithinBudget'
    <2>1. c \in Owing /\ spend' = spend + 1 /\ faults' = faults /\ Goto(c, IdleCaller)
        BY <1>2 DEF Charge, Owing, Owes, Asking
    <2>2. Owing' = Owing \ {c}
        BY <2>1, OneRequest DEF Owes, IdleCaller
    <2>3. Cardinality(Owing') = Cardinality(Owing) - 1
        BY <2>1, <2>2, Counts, FS_RemoveElement
    <2> QED BY <1>0, <2>1, <2>3, Counts DEF OwingWithinBudget
<1>3. ASSUME NEW c \in Caller, NEW p \in Provider, GetState(c, p) \/ SetHalfOpen(c, p)
      PROVE  OwingWithinBudget'
    <2>1. Owing' \subseteq Owing
        BY <1>3, BreakerAnswers, OneRequest
    <2>2. spend' = spend /\ faults' = faults
        BY <1>3 DEF GetState, SetHalfOpen
    <2> QED BY <1>0, <2>1, <2>2, NothingOwed
<1>4. ASSUME NEW c \in Caller, CheckBudget(c)
      PROVE  OwingWithinBudget'
    <2>1. spend' = spend /\ faults' = faults
        BY <1>4 DEF CheckBudget
    <2>2. CASE spend < DailyLimit
        <3>1. /\ Cardinality(Owing') <= Cardinality(Caller)
              /\ Cardinality(Owing') \in Nat /\ Cardinality(Caller) \in Nat
            <4>1. Owing' \in SUBSET Caller
                BY DEF Owing
            <4> QED BY <4>1, CallerAssumption, FS_Subset, FS_CardinalityType
        <3> QED BY <1>0, <2>1, <2>2, <3>1 DEF OwingWithinBudget
    <2>3. CASE ~(spend < DailyLimit)
        <3>1. Goto(c, IdleCaller)
            BY <1>4, <2>3 DEF CheckBudget, WithinBudget
        <3>2. Owing' \subseteq Owing
            BY <3>1, OneRequest DEF Owes, IdleCaller
        <3> QED BY <1>0, <2>1, <3>2, NothingOwed
    <2> QED BY <2>2, <2>3
<1>5. ASSUME NEW c \in Caller, RedisFails(c)
      PROVE  OwingWithinBudget'
    <2>1. /\ Goto(c, WithoutRedis(caller[c]))
          /\ spend' = spend /\ faults' = faults + 1
        BY <1>5 DEF RedisFails
    <2>2. Owing' \in SUBSET (Owing \cup {c})
        BY <2>1, OneRequest
    <2>3. /\ Cardinality(Owing') <= Cardinality(Owing) + 1
          /\ Cardinality(Owing') \in Nat
        <3>1. /\ IsFiniteSet(Owing \cup {c})
              /\ Cardinality(Owing \cup {c}) <= Cardinality(Owing) + 1
              /\ Cardinality(Owing \cup {c}) \in Nat
            <4>1. IsFiniteSet(Owing) /\ Cardinality(Owing) \in Nat
                BY Counts
            <4>2. /\ IsFiniteSet(Owing \cup {c})
                  /\ \/ Cardinality(Owing \cup {c}) = Cardinality(Owing)
                     \/ Cardinality(Owing \cup {c}) = Cardinality(Owing) + 1
                BY <4>1, FS_AddElement
            <4> QED BY <4>1, <4>2
        <3> QED BY <2>2, <3>1, Counts, FS_Subset, FS_CardinalityType
    <2> QED BY <1>0, <2>1, <2>3, Counts DEF OwingWithinBudget
<1>6. ASSUME UNCHANGED caller, faults' = faults, spend' \in {spend, 0}
      PROVE  OwingWithinBudget'
    BY <1>0, <1>6, NothingOwed DEF Owing
<1>7. CASE \/ NewDay \/ UNCHANGED vars
           \/ \E p \in Provider : RecoveryTimeout(p) \/ FailuresExpire(p)
    BY <1>6, <1>7 DEF NewDay, vars, RecoveryTimeout, FailuresExpire
<1> QED BY <1>1, <1>2, <1>3, <1>4, <1>5, <1>7 DEF Next, CallerStep, Ordinary

\* Checked before the call and charged after it by requests that run side by
\* side, the budget is exceeded by less than one call for each of them and
\* one for each check that Redis did not answer, however many there are.
THEOREM OverrunBounded == Spec => []BudgetOverrun
<1>1. Spec => []TypeOK
    BY TypeCorrect
<1>2. Spec => []OwingWithinBudget
    BY BudgetInit, BudgetNext, TypeCorrect, PTL DEF Spec
<1>3. TypeOK /\ OwingWithinBudget => BudgetOverrun
    BY Counts, BoundAssumption DEF TypeOK, OwingWithinBudget, BudgetOverrun
<1> QED BY <1>1, <1>2, <1>3, PTL

-----------------------------------------------------------------------------
(* The open circuit: the calls made and the attempts still pending. *)

Allowance == (Cardinality(Caller) + faults) * MaxAttempts

OpenInv == PendingBounded /\ OpenStopsCalls

\* Each fault allows one request's attempts more.
LEMMA AllowanceGrows ==
    ASSUME TypeOK
    PROVE  /\ Allowance \in Nat
           /\ Allowance >= Cardinality(Caller) * MaxAttempts
           /\ Allowance <= MaxLate
           /\ TypeOK' /\ faults' = faults => Allowance' = Allowance
           /\ TypeOK' /\ faults' = faults + 1 => Allowance' = Allowance + MaxAttempts
<1>1. /\ Cardinality(Caller) \in Nat /\ MaxAttempts \in Nat /\ faults \in Nat
      /\ MaxFaults \in Nat /\ faults <= MaxFaults
    BY Counts, BoundAssumption DEF TypeOK
<1>2. \A a, m \in Nat : a * m \in Nat
    OBVIOUS
<1>3. \A a, b, m \in Nat : (a + b) * m = a * m + b * m /\ a * m <= (a + b) * m
    BY <1>2
<1>4. \A a, b, m \in Nat : a <= b => a * m <= b * m
    <2> SUFFICES ASSUME NEW a \in Nat, NEW b \in Nat, NEW m \in Nat, a <= b
                 PROVE  a * m <= b * m
        OBVIOUS
    <2>1. PICK d \in Nat : b = a + d
        <3>1. b - a \in Nat /\ b = a + (b - a)
            OBVIOUS
        <3> QED BY <3>1
    <2> QED BY <1>3, <2>1
<1>5. /\ Allowance \in Nat
      /\ Allowance >= Cardinality(Caller) * MaxAttempts
    BY <1>1, <1>2, <1>3 DEF Allowance
<1>6. Allowance <= MaxLate
    <2>1. Cardinality(Caller) + faults <= Cardinality(Caller) + MaxFaults
        BY <1>1
    <2> QED BY <1>1, <1>4, <2>1 DEF Allowance, MaxLate
<1>7. faults' = faults + 1 => Allowance' = Allowance + MaxAttempts
    <2>1. (Cardinality(Caller) + faults + 1) * MaxAttempts
              = (Cardinality(Caller) + faults) * MaxAttempts + 1 * MaxAttempts
        BY <1>1, <1>3
    <2> QED BY <1>1, <2>1 DEF Allowance
<1> QED BY <1>5, <1>6, <1>7 DEF Allowance

\* A step that makes no call, lets nobody gain an attempt and opens nothing.
LEMMA NothingGained ==
    ASSUME TypeOK, TypeOK', OpenInv,
           late' = late, faults' \in {faults, faults + 1},
           \/ state'[1] # "open"
           \/ state[1] = "open" /\ Pending' \subseteq Pending
    PROVE  OpenInv'
<1>1. /\ Allowance' >= Allowance
      /\ Allowance \in Nat /\ Allowance' \in Nat /\ late \in Nat
    BY AllowanceGrows, BoundAssumption, MaxLateType DEF TypeOK
<1>2. OpenStopsCalls'
    BY <1>1 DEF OpenInv, OpenStopsCalls, Allowance
<1>3. CASE state'[1] # "open"
    BY <1>2, <1>3 DEF OpenInv, PendingBounded
<1>4. CASE state[1] = "open" /\ Pending' \subseteq Pending
    <2>1. Cardinality(Pending') <= Cardinality(Pending) /\ Cardinality(Pending') \in Nat
        BY <1>4, Counts, FS_Subset, FS_CardinalityType
    <2> QED BY <1>1, <1>2, <1>4, <2>1, Counts DEF OpenInv, PendingBounded, Allowance
<1> QED BY <1>3, <1>4

LEMMA OpenInit == Init => OpenInv
<1> SUFFICES ASSUME Init
             PROVE  OpenInv
    OBVIOUS
<1>1. state[1] # "open" /\ late = 0
    BY BoundAssumption DEF Init, Provider
<1> QED BY <1>1, TypeInit, AllowanceGrows
           DEF OpenInv, PendingBounded, OpenStopsCalls, Allowance

\* A call of the first provider uses up the attempt it makes.
LEMMA CallUsesAttempt ==
    ASSUME TypeOK, NEW c \in Caller, CallReturns(c, 1)
    PROVE  Cardinality(Pending') + 1 <= Cardinality(Pending)
<1> DEFINE r == caller[c]
           used == <<c, r.attempts>>
<1>1. PICK q \in Recorded(r) : Goto(c, q)
    BY DEF CallReturns
<1>2. r \in Request /\ r.pc = "call" /\ r.provider = 1
    BY DEF TypeOK, CallReturns, At
<1>3. used \in Pending
    BY <1>2 DEF Pending, MayAttempt, Request
<1>4. q \in Request /\ q.pc = "get" /\ q.attempts >= r.attempts
    BY <1>1, <1>2, RecordedCall
<1>5. caller'[c] = q
    BY <1>1 DEF TypeOK, Goto
<1>6. used \notin Pending'
    <2>1. q.attempts \in Int /\ r.attempts \in Int
        BY <1>2, <1>4 DEF Request
    <2>2. ~MayAttempt(q, r.attempts)
        BY <1>4, <2>1 DEF MayAttempt
    <2> SUFFICES ASSUME used \in Pending'
                 PROVE  FALSE
        OBVIOUS
    <2> QED BY <1>5, <2>2 DEF Pending
<1>7. Pending' \subseteq Pending
    <2>1. Ordinary(c)
        BY BoundAssumption DEF Ordinary, Provider
    <2> QED BY <2>1, OrdinaryKeeps, OneRequest
<1>8. Pending' \in SUBSET (Pending \ {used})
    BY <1>6, <1>7
<1>9. /\ IsFiniteSet(Pending \ {used})
      /\ Cardinality(Pending \ {used}) = Cardinality(Pending) - 1
    BY <1>3, Counts, FS_RemoveElement
<1> QED BY <1>8, <1>9, Counts, FS_Subset, FS_CardinalityType

LEMMA OpenNext == TypeOK /\ TypeOK' /\ OpenInv /\ [Next]_vars => OpenInv'
<1> SUFFICES ASSUME TypeOK, TypeOK', OpenInv, [Next]_vars
             PROVE  OpenInv'
    OBVIOUS
<1>0. /\ 1 \in Provider /\ MaxAttempts \in Nat \ {0}
      /\ faults \in Nat /\ late \in Nat
      /\ Allowance \in Nat
    BY BoundAssumption, MaxLateType, AllowanceGrows DEF TypeOK, Provider
<1>00. /\ Cardinality(Pending) \in Nat /\ Cardinality(Pending') \in Nat
       /\ Cardinality(Pending') <= Cardinality(Caller) * MaxAttempts
    <2>1. /\ Pending \in SUBSET (Caller \X (0..MaxAttempts - 1))
          /\ Pending' \in SUBSET (Caller \X (0..MaxAttempts - 1))
        BY DEF Pending
    <2> QED BY <2>1, Finite
<1>1. ASSUME NEW c \in Caller,
             \/ BeginRequest(c) \/ CacheHit(c) \/ RateLimited(c) \/ Charge(c) \/ Die(c)
             \/ \E p \in Provider : GetOpenedAt(c, p) \/ CountFailure(c, p) \/ SetOpenedAt(c, p)
                                       \/ DeleteFailures(c, p) \/ DeleteOpenedAt(c, p)
      PROVE  OpenInv'
    <2>1. Pending' \subseteq Pending
        BY <1>1, OrdinaryKeeps, OneRequest DEF Ordinary
    <2>2. late' = late /\ state' = state /\ faults' \in {faults, faults + 1}
        BY <1>1 DEF BeginRequest, CacheHit, RateLimited, Charge, Die, GetOpenedAt, CountFailure,
                    SetOpenedAt, DeleteFailures, DeleteOpenedAt, breakerVars
    <2> QED BY <2>1, <2>2, NothingGained
<1>2. ASSUME NEW c \in Caller, NEW p \in Provider, SetClosed(c, p)
      PROVE  OpenInv'
    <2>1. Pending' \subseteq Pending
        BY <1>2, OrdinaryKeeps, OneRequest DEF Ordinary
    <2>2. late' = late /\ faults' = faults /\ (state'[1] = "open" => state[1] = "open")
        BY <1>0, <1>2 DEF SetClosed, TypeOK
    <2> QED BY <2>1, <2>2, NothingGained
<1>3. ASSUME NEW c \in Caller, NEW p \in Provider, GetState(c, p) \/ SetHalfOpen(c, p)
      PROVE  OpenInv'
    <2>1. Pending' \subseteq Pending \/ state'[1] # "open"
        BY <1>3, BreakerAnswers, OneRequest
    <2>2. late' = late /\ faults' = faults /\ (state'[1] = "open" => state[1] = "open")
        BY <1>0, <1>3 DEF GetState, SetHalfOpen, TypeOK, breakerVars
    <2> QED BY <2>1, <2>2, NothingGained
<1>4. ASSUME NEW c \in Caller, CheckBudget(c)
      PROVE  OpenInv'
    <2>1. caller[c] \in Request /\ caller[c].pc = "budget"
        BY <1>4 DEF CheckBudget, TypeOK
    <2>2. \E r : Goto(c, r) /\ \A k \in Int : MayAttempt(r, k) => MayAttempt(caller[c], k)
        <3>1. \A k \in Int : ~MayAttempt(IdleCaller, k)
            BY <2>1, NextProviderAsks
        <3>2. ASSUME NEW k \in Int, MayAttempt([caller[c] EXCEPT !.pc = "call"], k)
              PROVE  MayAttempt(caller[c], k)
            BY <2>1, <3>2 DEF MayAttempt, Request
        <3> QED BY <1>4, <3>1, <3>2 DEF CheckBudget
    <2>3. ASSUME NEW d \in Caller, NEW k \in 0..MaxAttempts - 1, MayAttempt(caller'[d], k)
          PROVE  MayAttempt(caller[d], k)
        BY <2>2, <2>3 DEF Goto, TypeOK
    <2>4. Pending' \subseteq Pending
        BY <2>3 DEF Pending
    <2> QED BY <1>4, <2>4, NothingGained DEF CheckBudget, breakerVars
<1>5. ASSUME NEW c \in Caller, NEW p \in Provider, CallReturns(c, p)
      PROVE  OpenInv'
    <2>1. state' = state /\ faults' = faults
        BY <1>5 DEF CallReturns, breakerVars
    <2>2. CASE p = 1 /\ state[1] = "open"
        <3>1. Cardinality(Pending') + 1 <= Cardinality(Pending)
            BY <1>5, <2>2, CallUsesAttempt
        <3>2. late' \in {late, late + 1}
            BY <1>5 DEF CallReturns
        <3>3. late + Cardinality(Pending) <= Allowance
            BY <2>2 DEF OpenInv, PendingBounded, Allowance
        <3>4. Allowance' = Allowance
            BY <2>1 DEF Allowance
        <3>5. Cardinality(Pending') \in Nat /\ Cardinality(Pending) \in Nat
            BY <1>00
        <3>6. late' + Cardinality(Pending') <= Allowance' /\ late' <= Allowance'
            BY <1>0, <3>1, <3>2, <3>3, <3>4, <3>5
        <3> QED BY <3>6 DEF OpenInv, PendingBounded, OpenStopsCalls, Allowance
    <2>3. CASE p # 1 \/ state[1] # "open"
        <3>1. Pending' \subseteq Pending
            BY <1>5, OrdinaryKeeps, OneRequest DEF Ordinary
        <3>2. late' = late
            BY <1>5, <2>3 DEF CallReturns
        <3> QED BY <2>1, <3>1, <3>2, NothingGained
    <2> QED BY <2>2, <2>3
<1>6. ASSUME NEW c \in Caller, NEW p \in Provider, SetOpen(c, p)
      PROVE  OpenInv'
    <2>1. faults' = faults
        BY <1>6 DEF SetOpen
    <2>2. CASE p = 1
        <3>1. late' = 0
            BY <1>6, <2>2 DEF SetOpen
        <3>2. /\ Cardinality(Pending') <= Cardinality(Caller) * MaxAttempts
              /\ Cardinality(Pending') \in Nat
            BY <1>00
        <3>3. Allowance' = Allowance /\ Cardinality(Caller) * MaxAttempts <= Allowance
            BY <2>1, AllowanceGrows DEF Allowance
        <3>4. Cardinality(Caller) * MaxAttempts \in Nat
            BY <1>0, Counts
        <3>5. late' + Cardinality(Pending') <= Allowance' /\ late' <= Allowance'
            BY <1>0, <3>1, <3>2, <3>3, <3>4
        <3> QED BY <3>5 DEF OpenInv, PendingBounded, OpenStopsCalls, Allowance
    <2>3. CASE p # 1
        <3>1. Pending' \subseteq Pending
            BY <1>6, OrdinaryKeeps, OneRequest DEF Ordinary
        <3>2. late' = late /\ state'[1] = state[1]
            BY <1>0, <1>6, <2>3 DEF SetOpen, TypeOK
        <3> QED BY <2>1, <3>1, <3>2, NothingGained
    <2> QED BY <2>2, <2>3
<1>7. ASSUME NEW c \in Caller, RedisFails(c)
      PROVE  OpenInv'
    <2>1. late' = late /\ state' = state /\ faults' = faults + 1
        BY <1>7 DEF RedisFails
    <2>2. Allowance' = Allowance + MaxAttempts
        BY <2>1, AllowanceGrows
    <2>3. Cardinality(Pending') <= Cardinality(Pending) + MaxAttempts /\ Cardinality(Pending') \in Nat
        <3> DEFINE gain == {c} \X (0..MaxAttempts - 1)
        <3>1. Pending' \in SUBSET (Pending \cup gain)
            BY <1>7 DEF RedisFails, Goto, TypeOK, Pending
        <3>2. IsFiniteSet(gain) /\ Cardinality(gain) = MaxAttempts
            <4>1. IsFiniteSet({c}) /\ Cardinality({c}) = 1
                BY FS_Singleton
            <4>2. IsFiniteSet(0..MaxAttempts - 1) /\ Cardinality(0..MaxAttempts - 1) = MaxAttempts
                BY <1>0, FS_Interval
            <4>3. IsFiniteSet(gain) /\ Cardinality(gain) = 1 * MaxAttempts
                BY <4>1, <4>2, FS_Product
            <4> QED BY <1>0, <4>3
        <3>3. /\ IsFiniteSet(Pending \cup gain)
              /\ Cardinality(Pending \cup gain)
                    = Cardinality(Pending) + MaxAttempts - Cardinality(Pending \cap gain)
            BY <3>2, Counts, FS_Union
        <3>4. Cardinality(Pending \cap gain) \in Nat
            BY <3>2, Counts, FS_Intersection, FS_CardinalityType
        <3>5. Cardinality(Pending') <= Cardinality(Pending \cup gain)
            BY <3>1, <3>3, FS_Subset
        <3>6. Cardinality(Pending) \in Nat /\ Cardinality(Pending') \in Nat
            BY <1>00
        <3> HIDE DEF gain
        <3> QED BY <1>0, <3>3, <3>4, <3>5, <3>6
    <2>4. late <= Allowance /\ (state[1] = "open" => late + Cardinality(Pending) <= Allowance)
        BY DEF OpenInv, OpenStopsCalls, PendingBounded, Allowance
    <2>5. /\ late' <= Allowance'
          /\ state'[1] = "open" => late' + Cardinality(Pending') <= Allowance'
        BY <1>0, <2>1, <2>2, <2>3, <2>4, Counts
    <2> QED BY <2>5 DEF OpenInv, PendingBounded, OpenStopsCalls, Allowance
<1>8. CASE \/ NewDay \/ UNCHANGED vars
           \/ \E p \in Provider : RecoveryTimeout(p) \/ FailuresExpire(p)
    <2>1. UNCHANGED <<caller, state, late, faults>>
        BY <1>8 DEF NewDay, vars, RecoveryTimeout, FailuresExpire, breakerVars
    <2> QED BY <2>1, NothingGained DEF Pending
<1> QED BY <1>1, <1>2, <1>3, <1>4, <1>5, <1>6, <1>7, <1>8 DEF Next, CallerStep

\* An open circuit lets through only what its provider's requests had been
\* granted before it opened, each at most its attempts, and one request more
\* for each command that Redis did not answer.
THEOREM OpenCircuitHolds == Spec => []OpenStopsCalls
<1>1. Spec => []OpenInv
    BY OpenInit, OpenNext, TypeCorrect, PTL DEF Spec
<1> QED BY <1>1, PTL DEF OpenInv

=============================================================================
