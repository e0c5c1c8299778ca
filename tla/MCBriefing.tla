------------------------------ MODULE MCBriefing ------------------------------
(* Instances of Briefing for TLC. *)
EXTENDS Briefing, TLC

Symmetry == Permutations(Worker) \cup Permutations(Hook) \cup Permutations(Subscriber)
            \cup Permutations(Form) \cup Permutations(Address)

\* What is explored together: two runs and two of events, test sends and faults;
\* one run and two requests about the subscription; three requests and no run.
Apart ==
    LET events == Cardinality(seen) + Cardinality({h \in Hook : hook[h].pc # "idle"})
        runs   == Cardinality({w \in Worker : worker[w].pc # "idle"})
    IN  IF changes = 0 THEN events + tests + faults <= 2
        ELSE events + tests + faults = 0 /\ runs <= 3 - changes

=============================================================================
