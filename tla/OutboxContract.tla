--------------------------- MODULE OutboxContract ---------------------------
(***************************************************************************)
(* What the outbox promises the producers and the read models, without     *)
(* workers, leases, sessions or retries (ARCHITECTURE.md, contracts 1 and  *)
(* 2; the EventOutbox docstring): an event that is worked on completes its *)
(* handlers one after the other, each at most once, and is settled for     *)
(* good, delivered with every handler done or dead with one missing; only  *)
(* an administrator has it wait again, and what was done stays so.         *)
(*                                                                         *)
(* An event that is being worked on may be overtaken: two workers have it. *)
(* From then on a settled event may be worked on again and a complete one  *)
(* die; that delivered means complete, and done means done, is kept.       *)
(***************************************************************************)
EXTENDS Naturals, Sequences

CONSTANTS
    Event,
    Handlers   \* the sequence of handlers of each event

VARIABLES
    phase,     \* "absent", "waiting", "working", "delivered" or "dead"
    done,      \* how many handlers are done, in their order
    overtaken  \* events that two workers have, or had, in hand

contractVars == <<phase, done, overtaken>>

ContractInit ==
    /\ phase = [e \in Event |-> "absent"]
    /\ done = [e \in Event |-> 0]
    /\ overtaken = {}

Accept(e) ==
    /\ phase[e] = "absent"
    /\ phase' = [phase EXCEPT ![e] = "waiting"]
    /\ UNCHANGED <<done, overtaken>>

\* A set: one lease takes a whole batch, and one replay opens one.
Begin(E) ==
    /\ \A e \in E : phase[e] = "waiting"
    /\ phase' = [e \in Event |-> IF e \in E THEN "working" ELSE phase[e]]
    /\ UNCHANGED <<done, overtaken>>

Complete(e) ==
    /\ phase[e] = "working"
    /\ done[e] < Len(Handlers[e])
    /\ done' = [done EXCEPT ![e] = @ + 1]
    /\ UNCHANGED <<phase, overtaken>>

SettleDelivered(e) ==
    /\ phase[e] = "working"
    /\ done[e] = Len(Handlers[e])
    /\ phase' = [phase EXCEPT ![e] = "delivered"]
    /\ UNCHANGED <<done, overtaken>>

SettleDead(e) ==
    /\ phase[e] = "working"
    /\ done[e] < Len(Handlers[e])
    /\ phase' = [phase EXCEPT ![e] = "dead"]
    /\ UNCHANGED <<done, overtaken>>

\* An administrator's reset; what is being worked on is overtaken by it.
Reopen(E) ==
    /\ \A e \in E : phase[e] # "absent"
    /\ phase' = [e \in Event |-> IF e \in E THEN "waiting" ELSE phase[e]]
    /\ \E F \in SUBSET {e \in E : phase[e] = "working"} :
          overtaken' = overtaken \cup F
    /\ UNCHANGED done

\* The lease of the worker runs out.
Overtake(e) ==
    /\ phase[e] = "working"
    /\ overtaken' = overtaken \cup {e}
    /\ UNCHANGED <<phase, done>>

\* Two workers at the same event, each with its own copy.
Disturb(e) ==
    /\ e \in overtaken
    /\ phase[e] # "absent"
    /\ \E p \in {phase[e], "working", "delivered", "dead"}, n \in done[e]..(done[e] + 1) :
          /\ n <= Len(Handlers[e])
          /\ p = "delivered" => n = Len(Handlers[e])
          /\ phase' = [phase EXCEPT ![e] = p]
          /\ done' = [done EXCEPT ![e] = n]
    /\ UNCHANGED overtaken

ContractNext ==
    \/ \E e \in Event :
        \/ Accept(e) \/ Complete(e) \/ SettleDelivered(e) \/ SettleDead(e)
        \/ Overtake(e) \/ Disturb(e)
    \/ \E E \in SUBSET Event : Begin(E) \/ Reopen(E)

Contract == ContractInit /\ [][ContractNext]_contractVars

=============================================================================
