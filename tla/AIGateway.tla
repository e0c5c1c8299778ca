------------------------------ MODULE AIGateway ------------------------------
(***************************************************************************)
(* Calls of the AI providers (app/ai/service.py, _run_task): concurrent    *)
(* requests that share one circuit breaker per provider and one daily      *)
(* budget in Redis (circuit_breaker.py, enforcement.py), retry a provider  *)
(* and fall back to the next one (retry.py).                               *)
(*                                                                         *)
(* Each Redis command is a step of its own, in the order of the code, and  *)
(* enrich_article alone has four requests in flight.  Commands may fail:   *)
(* every method swallows that in its own way.                              *)
(***************************************************************************)
EXTENDS Integers, FiniteSets

CONSTANTS
    Caller,       \* requests in flight
    Providers,    \* number of configured providers, tried in order
    Threshold,    \* failure_threshold
    MaxAttempts,  \* RetryPolicy.max_attempts
    DailyLimit,   \* daily_limit, in calls of the same cost
    MaxFaults     \* bound: failing Redis commands and deaths

ASSUME CallerAssumption == IsFiniteSet(Caller)
ASSUME BoundAssumption ==
    /\ Providers \in Nat \ {0}
    /\ Threshold \in Nat \ {0}
    /\ MaxAttempts \in Nat \ {0}
    /\ DailyLimit \in Nat \ {0}
    /\ MaxFaults \in Nat

VARIABLES
    state,     \* ai:circuit_breaker:{provider}:state
    failures,  \* its :failures
    openedAt,  \* its :opened_at, by whether recovery_timeout_sec has passed
    spend,     \* ai:budget:daily:{today}
    caller,    \* the requests
    late,      \* history: calls of the first provider since it was last set OPEN, while OPEN
    faults

breakerVars == <<state, failures, openedAt>>
vars == <<breakerVars, spend, caller, late, faults>>

Provider == 1..Providers
State == {"closed", "open", "half_open"}

\* use: what get_state was called for; state: what it returned.
Request == [pc : {"idle", "get", "clock", "probe", "budget", "call", "incr", "open", "stamp",
                  "close", "clear", "unstamp", "charge"},
            provider : Provider, attempts : 0..MaxAttempts - 1,
            use : {"check", "failure", "success"}, state : State]
IdleCaller == [pc |-> "idle", provider |-> 1, attempts |-> 0, use |-> "check",
               state |-> "closed"]

MaxLate == (Cardinality(Caller) + MaxFaults) * MaxAttempts

TypeOK ==
    /\ state \in [Provider -> State]
    /\ failures \in [Provider -> 0..Threshold]
    /\ openedAt \in [Provider -> {"none", "fresh", "old"}]
    /\ spend \in Nat
    /\ caller \in [Caller -> Request]
    /\ late \in 0..MaxLate + 1
    /\ faults \in 0..MaxFaults

Init ==
    /\ state = [p \in Provider |-> "closed"]
    /\ failures = [p \in Provider |-> 0]
    /\ openedAt = [p \in Provider |-> "none"]
    /\ spend = 0
    /\ caller = [c \in Caller |-> IdleCaller]
    /\ late = 0
    /\ faults = 0

At(c, pc, p) == caller[c].pc = pc /\ caller[c].provider = p

Goto(c, r) == caller' = [caller EXCEPT ![c] = r]

-----------------------------------------------------------------------------
(* Where a request goes from here.                                         *)

\* The next provider, if there is one; otherwise the last error is raised.
NextProvider(r) ==
    IF r.provider = Providers THEN IdleCaller
    ELSE [IdleCaller EXCEPT !.pc = "get", !.provider = r.provider + 1]

\* Mutant: the first attempt is not counted.
FailedOnceMore(r) ==
    IF r.attempts < MaxAttempts
    THEN [r EXCEPT !.pc = "call", !.attempts = @ + 1, !.use = "check", !.state = "closed"]
    ELSE NextProvider(r)

\* retry_async after a retryable error.
Failed(r) ==
    IF r.attempts + 1 < MaxAttempts
    THEN [r EXCEPT !.pc = "call", !.attempts = @ + 1, !.use = "check", !.state = "closed"]
    ELSE NextProvider(r)

\* Mutant: can_execute asks whether there is a state.
AfterAnyState(r, s) ==
    CASE r.use = "check"                          -> [r EXCEPT !.pc = "budget"]
      [] r.use = "failure" /\ s = "half_open"     -> [r EXCEPT !.pc = "open"]
      [] r.use = "failure" /\ s = "closed"        -> [r EXCEPT !.pc = "incr"]
      [] r.use = "failure" /\ s = "open"          -> Failed(r)
      [] r.use = "success" /\ s = "half_open"     -> [r EXCEPT !.pc = "close", !.state = s]
      [] r.use = "success" /\ s = "closed"        -> [r EXCEPT !.pc = "clear", !.state = s]
      [] r.use = "success" /\ s = "open"          -> [r EXCEPT !.pc = "charge"]

\* can_execute, record_failure or record_success with the state s.
AfterState(r, s) ==
    CASE r.use = "check" /\ s = "open"            -> NextProvider(r)
      [] r.use = "check" /\ s # "open"            -> [r EXCEPT !.pc = "budget"]
      [] r.use = "failure" /\ s = "half_open"     -> [r EXCEPT !.pc = "open"]
      [] r.use = "failure" /\ s = "closed"        -> [r EXCEPT !.pc = "incr"]
      [] r.use = "failure" /\ s = "open"          -> Failed(r)
      [] r.use = "success" /\ s = "half_open"     -> [r EXCEPT !.pc = "close", !.state = s]
      [] r.use = "success" /\ s = "closed"        -> [r EXCEPT !.pc = "clear", !.state = s]
      [] r.use = "success" /\ s = "open"          -> [r EXCEPT !.pc = "charge"]

-----------------------------------------------------------------------------
(* get_state.                                                              *)

BeginRequest(c) ==
    /\ caller[c].pc = "idle"
    /\ Goto(c, [IdleCaller EXCEPT !.pc = "get"])
    /\ UNCHANGED <<breakerVars, spend, late, faults>>

GetState(c, p) ==
    /\ At(c, "get", p)
    /\ Goto(c, IF state[p] = "open" THEN [caller[c] EXCEPT !.pc = "clock"]
               ELSE AfterState(caller[c], state[p]))
    /\ UNCHANGED <<breakerVars, spend, late, faults>>

TimedOut(p) == openedAt[p] = "old"

GetOpenedAt(c, p) ==
    /\ At(c, "clock", p)
    /\ Goto(c, IF TimedOut(p) THEN [caller[c] EXCEPT !.pc = "probe"]
               ELSE AfterState(caller[c], "open"))
    /\ UNCHANGED <<breakerVars, spend, late, faults>>

SetHalfOpen(c, p) ==
    /\ At(c, "probe", p)
    /\ state' = [state EXCEPT ![p] = "half_open"]
    /\ Goto(c, AfterState(caller[c], "half_open"))
    /\ UNCHANGED <<failures, openedAt, spend, late, faults>>

-----------------------------------------------------------------------------
(* The call.                                                               *)

\* Mutant: the budget is not asked.
WithinBudgetAlways == TRUE

WithinBudget == spend < DailyLimit

\* An exhausted budget ends the request, whatever providers are left.
CheckBudget(c) ==
    /\ caller[c].pc = "budget"
    /\ Goto(c, IF WithinBudget THEN [caller[c] EXCEPT !.pc = "call"] ELSE IdleCaller)
    /\ UNCHANGED <<breakerVars, spend, late, faults>>

\* The article was asked about before: the request ends without a call.
CacheHit(c) ==
    /\ caller[c].pc = "call" /\ caller[c].attempts = 0
    /\ Goto(c, IdleCaller)
    /\ UNCHANGED <<breakerVars, spend, late, faults>>

\* No token: an error that is retried and not recorded.
RateLimited(c) ==
    /\ caller[c].pc = "call"
    /\ Goto(c, Failed(caller[c]))
    /\ UNCHANGED <<breakerVars, spend, late, faults>>

\* An error that is not retried leaves no attempts.
Recorded(r) ==
    {[r EXCEPT !.pc = "get", !.use = "success"], [r EXCEPT !.pc = "get", !.use = "failure"],
     [r EXCEPT !.pc = "get", !.use = "failure", !.attempts = MaxAttempts - 1]}

CallReturns(c, p) ==
    /\ At(c, "call", p)
    /\ late' = IF p = 1 /\ state[1] = "open" /\ late <= MaxLate THEN late + 1 ELSE late
    /\ \E r \in Recorded(caller[c]) : Goto(c, r)
    /\ UNCHANGED <<breakerVars, spend, faults>>

-----------------------------------------------------------------------------
(* record_failure.                                                         *)

\* The counter is only compared with the threshold: more is not kept.
Incremented(n) == IF n < Threshold THEN n + 1 ELSE n

CountFailure(c, p) ==
    /\ At(c, "incr", p)
    /\ failures' = [failures EXCEPT ![p] = Incremented(@)]
    /\ Goto(c, IF failures'[p] >= Threshold THEN [caller[c] EXCEPT !.pc = "open"]
               ELSE Failed(caller[c]))
    /\ UNCHANGED <<state, openedAt, spend, late, faults>>

SetOpen(c, p) ==
    /\ At(c, "open", p)
    /\ state' = [state EXCEPT ![p] = "open"]
    /\ late' = IF p = 1 THEN 0 ELSE late
    /\ Goto(c, [caller[c] EXCEPT !.pc = "stamp"])
    /\ UNCHANGED <<failures, openedAt, spend, faults>>

SetOpenedAt(c, p) ==
    /\ At(c, "stamp", p)
    /\ openedAt' = [openedAt EXCEPT ![p] = "fresh"]
    /\ Goto(c, Failed(caller[c]))
    /\ UNCHANGED <<state, failures, spend, late, faults>>

-----------------------------------------------------------------------------
(* record_success, and the charge.                                         *)

SetClosed(c, p) ==
    /\ At(c, "close", p)
    /\ state' = [state EXCEPT ![p] = "closed"]
    /\ Goto(c, [caller[c] EXCEPT !.pc = "clear"])
    /\ UNCHANGED <<failures, openedAt, spend, late, faults>>

DeleteFailures(c, p) ==
    /\ At(c, "clear", p)
    /\ failures' = [failures EXCEPT ![p] = 0]
    /\ Goto(c, [caller[c] EXCEPT !.pc = IF caller[c].state = "half_open" THEN "unstamp"
                                        ELSE "charge"])
    /\ UNCHANGED <<state, openedAt, spend, late, faults>>

DeleteOpenedAt(c, p) ==
    /\ At(c, "unstamp", p)
    /\ openedAt' = [openedAt EXCEPT ![p] = "none"]
    /\ Goto(c, [caller[c] EXCEPT !.pc = "charge"])
    /\ UNCHANGED <<state, failures, spend, late, faults>>

\* increment_spend, after the call; no provider costs nothing.
Charge(c) ==
    /\ caller[c].pc = "charge"
    /\ spend' = spend + 1
    /\ Goto(c, IdleCaller)
    /\ UNCHANGED <<breakerVars, late, faults>>

-----------------------------------------------------------------------------
(* Faults and time.                                                        *)

\* What is left of a request whose next Redis command raises: get_state
\* answers CLOSED, _set_state returns, the rest of a method is skipped.
WithoutRedis(r) ==
    CASE r.pc \in {"get", "clock"} -> AfterState(r, "closed")
      [] r.pc = "probe"            -> AfterState(r, "half_open")
      [] r.pc = "budget"           -> [r EXCEPT !.pc = "call"]
      [] r.pc = "open"             -> [r EXCEPT !.pc = "stamp"]
      [] r.pc \in {"incr", "stamp"}    -> Failed(r)
      [] r.pc = "close"            -> [r EXCEPT !.pc = "clear"]
      [] r.pc \in {"clear", "unstamp"} -> [r EXCEPT !.pc = "charge"]
      [] r.pc = "charge"           -> IdleCaller

RedisFails(c) ==
    /\ caller[c].pc \notin {"idle", "call"}
    /\ faults < MaxFaults
    /\ faults' = faults + 1
    /\ Goto(c, WithoutRedis(caller[c]))
    /\ \/ UNCHANGED failures
       \/ \E p \in Provider :   \* EXPIRE fails, after INCR
              At(c, "incr", p) /\ failures' = [failures EXCEPT ![p] = Incremented(@)]
    /\ UNCHANGED <<state, openedAt, spend, late>>

\* The process dies, or the task's time limit cancels the request.
Die(c) ==
    /\ caller[c].pc # "idle"
    /\ faults < MaxFaults
    /\ faults' = faults + 1
    /\ Goto(c, IdleCaller)
    /\ UNCHANGED <<breakerVars, spend, late>>

RecoveryTimeout(p) ==
    /\ openedAt[p] = "fresh"
    /\ openedAt' = [openedAt EXCEPT ![p] = "old"]
    /\ UNCHANGED <<state, failures, spend, caller, late, faults>>

\* The counter's key expires an hour after the last failure.
FailuresExpire(p) ==
    /\ failures[p] > 0
    /\ failures' = [failures EXCEPT ![p] = 0]
    /\ UNCHANGED <<state, openedAt, spend, caller, late, faults>>

NewDay ==
    /\ spend > 0
    /\ spend' = 0
    /\ UNCHANGED <<breakerVars, caller, late, faults>>

-----------------------------------------------------------------------------
CallerStep(c) ==
    \/ CheckBudget(c) \/ CacheHit(c) \/ RateLimited(c) \/ Charge(c)
    \/ \E p \in Provider :
           \/ GetState(c, p) \/ GetOpenedAt(c, p) \/ SetHalfOpen(c, p)
           \/ CallReturns(c, p)
           \/ CountFailure(c, p) \/ SetOpen(c, p) \/ SetOpenedAt(c, p)
           \/ SetClosed(c, p) \/ DeleteFailures(c, p) \/ DeleteOpenedAt(c, p)

Next ==
    \/ \E c \in Caller : BeginRequest(c) \/ CallerStep(c) \/ RedisFails(c) \/ Die(c)
    \/ \E p \in Provider : RecoveryTimeout(p) \/ FailuresExpire(p)
    \/ NewDay

Spec == Init /\ [][Next]_vars

\* A request goes on while its process lives, the pipeline keeps making them
\* (beat sends its tasks again and again), and the recovery timeout passes.
FairSpec ==
    /\ Spec
    /\ \A c \in Caller : WF_vars(BeginRequest(c)) /\ WF_vars(CallerStep(c))
    /\ \A p \in Provider : WF_vars(RecoveryTimeout(p))

-----------------------------------------------------------------------------
(* Properties.                                                             *)

\* The budget is checked before a call and charged after it, by requests that
\* run concurrently: the day's spend exceeds it by less than one call for each
\* of them and one for each check that Redis did not answer.
BudgetOverrun == spend < DailyLimit + Cardinality(Caller) + faults

\* An open circuit stops the calls of its provider (the first one; the others
\* have breakers of their own): only requests that asked before it opened, or
\* that Redis did not answer, still make their attempts.
OpenStopsCalls == late <= (Cardinality(Caller) + faults) * MaxAttempts

\* circuit_breaker.py:52-55: "if time.time() - opened_at > recovery_timeout_sec:
\* Transition to half-open": an open circuit is probed after the timeout.
OpenCircuitProbed == state[1] = "open" ~> state[1] # "open"

-----------------------------------------------------------------------------
(* Why they hold: what the requests in flight may still do.                *)

\* Asking the breaker and then the budget.
Asking(r) == r.pc \in {"get", "clock", "probe"} /\ r.use = "check"

\* May charge the budget without asking it again.
Owes(r) == r.pc \notin {"idle", "budget"} /\ ~Asking(r)
Owing == {c \in Caller : Owes(caller[c])}

\* May make attempt k of the first provider without asking its breaker again:
\* the current one and all after it before a call, those after it once that
\* has returned.
MayAttempt(r, k) ==
    /\ r.provider = 1
    /\ \/ r.pc \in {"budget", "call"} /\ k >= r.attempts
       \/ /\ r.pc \in {"get", "clock", "probe", "incr", "open", "stamp"} /\ ~Asking(r)
          /\ k > r.attempts
Pending == {ck \in Caller \X (0..MaxAttempts - 1) : MayAttempt(caller[ck[1]], ck[2])}

OwingWithinBudget == spend + Cardinality(Owing) < DailyLimit + Cardinality(Caller) + faults

PendingBounded ==
    state[1] = "open" =>
        late + Cardinality(Pending) <= (Cardinality(Caller) + faults) * MaxAttempts

=============================================================================
