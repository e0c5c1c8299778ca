---------------------------- MODULE BriefingProofs ----------------------------
(***************************************************************************)
(* Proofs about Briefing, for any number of subscribers, runs and webhook  *)
(* requests.                                                               *)
(***************************************************************************)
EXTENDS Briefing, FiniteSetTheorems, TLAPS

(* Types. *)

\* The placeholders are no deliveries and no rows.
LEMMA Placeholders ==
    /\ NoDelivery \notin Delivery /\ NoPending \notin Pending
    /\ NoDelivery.msg = 0 /\ NoDelivery.status \notin Status
    /\ NoPending.msg = 0 /\ ~NoPending.new /\ NoPending.loaded = NoDelivery
    /\ NoPending.status \notin Status /\ Reported \subseteq Status
    /\ 0 \in 0..Test /\ Test \in 0..Test /\ 0..MaxEditions \subseteq 0..Test
    /\ 0 \notin Edition \cup {Test}
BY BoundAssumption DEF NoDelivery, Delivery, NoPending, Pending, Status, Reported, Test, Edition

LEMMA IdleTypes == IdleWorker \in Run /\ IdleHook \in Request
BY BoundAssumption DEF IdleWorker, IdleHook, Run, Request

LEMMA TypeInit == Init => TypeOK
<1> SUFFICES ASSUME Init PROVE TypeOK
    OBVIOUS
<1>1. \A a \in Address : NewProfile(a) \in Profile /\ VerifiedProfile(a) \in Profile
    BY DEF NewProfile, VerifiedProfile, Profile
<1>2. /\ profile \in [Subscriber -> Profile]
      /\ links \in [Subscriber -> SUBSET Address] /\ stale \in SUBSET Subscriber
      /\ form \in [Form -> Asked \cup {IdleForm}]
    BY <1>1 DEF Init
<1>7. proven \in [Subscriber -> SUBSET Address]
    BY <1>2 DEF Init, Profile
<1>3. worker \in [Worker -> Run] /\ hook \in [Hook -> Request]
    BY IdleTypes DEF Init
<1>4. delivery \in [Subscriber -> Delivery \cup {NoDelivery}] /\ calls \in [Subscriber -> Nat]
    BY DEF Init
<1>5. edition \in 0..MaxEditions /\ nextId \in 1..MaxEditions + 1
    BY BoundAssumption DEF Init
<1>6. /\ rollbacks \in 0..faults /\ faults \in 0..MaxFaults
      /\ tests \in 0..MaxTests /\ changes \in 0..MaxChanges
    BY BoundAssumption DEF Init
<1> QED BY <1>2, <1>3, <1>4, <1>5, <1>6, <1>7 DEF Init, TypeOK

\* A run's record is replaced by another.
LEMMA Replaced ==
    ASSUME TypeOK, NEW w \in Worker, NEW r, worker' = [worker EXCEPT ![w] = r]
    PROVE  /\ worker'[w] = r
           /\ \A v \in Worker \ {w} : worker'[v] = worker[v]
           /\ r \in Run => worker' \in [Worker -> Run]
BY DEF TypeOK

-----------------------------------------------------------------------------
(* What a step does to a run.                                              *)

Others(w) == \A v \in Worker \ {w} : worker'[v] = worker[v]

Keeps(w) ==
    /\ Others(w)
    /\ worker'[w].ed = worker[w].ed /\ worker'[w].created = worker[w].created
    /\ worker'[w].erased = worker[w].erased /\ worker'[w].found = worker[w].found
    /\ worker'[w].test = worker[w].test

Fresh(w) ==
    /\ Others(w)
    /\ \A s \in Subscriber : worker'[w].row[s] = NoPending
    /\ ~worker'[w].created /\ worker'[w].erased = {} /\ worker'[w].found = {}

Loads(w) ==
    /\ worker[w].pc = "idle" /\ Fresh(w)
    /\ worker'[w].pc \in {"list", "select"} /\ worker'[w].ed = edition
    /\ worker'[w].pc = "list" => edition # 0
    /\ worker'[w].pc = "select" /\ edition # 0 => stories = {}

Ends(w) == Fresh(w) /\ worker'[w].pc = "idle" /\ worker'[w].ed = 0

Creates(w) ==
    /\ worker[w].pc = "select" /\ worker[w].ed = 0 /\ ~OthersCreating(w)
    /\ worker'[w].pc = "list" /\ Others(w)
    /\ worker'[w].row = worker[w].row /\ worker'[w].erased = worker[w].erased
    /\ worker'[w].ed # 0
    /\ IF edition # 0
       THEN /\ worker'[w].ed = edition
            /\ worker'[w].created = worker[w].created /\ worker'[w].found = worker[w].found
       ELSE worker'[w].created

Erases(w) ==
    /\ worker[w].pc = "select" /\ worker[w].ed # 0
    /\ worker'[w].pc = "update" /\ Others(w)
    /\ worker'[w].row = worker[w].row /\ worker'[w].ed = worker[w].ed
    /\ worker'[w].created = worker[w].created

Advances(w) ==
    /\ Keeps(w)
    /\ worker'[w].row = worker[w].row
    /\ \/ worker[w].pc = "update" /\ worker'[w].pc = "list"
       \/ worker[w].pc = "list" /\ worker'[w].pc = "next"

Serves(w, s, p) ==
    /\ Keeps(w)
    /\ worker[w].pc = "next" /\ s \in worker[w].todo
    /\ worker'[w].todo = worker[w].todo
    /\ worker'[w].row = [worker[w].row EXCEPT ![s] = p]
    /\ \/ /\ worker'[w].pc = "insert"
          /\ p = [new |-> TRUE, loaded |-> NoDelivery, status |-> "QUEUED", msg |-> 0]
       \/ /\ worker'[w].pc = "send" /\ worker[w].test /\ delivery[s] # NoDelivery
          /\ p = [new |-> FALSE, loaded |-> delivery[s], status |-> "QUEUED",
                  msg |-> delivery[s].msg]

Skips(w, s) ==
    /\ Keeps(w)
    /\ worker[w].pc = "next" /\ worker'[w].pc = "next"
    /\ worker'[w].todo = worker[w].todo \ {s} /\ worker'[w].row = worker[w].row
    /\ worker[w].ed = edition /\ delivery[s] # NoDelivery

Inserts(w, s) ==
    /\ Keeps(w)
    /\ worker[w].pc = "insert" /\ worker'[w].pc = "send" /\ Current(w, s)
    /\ ~OthersDelivering(w, s) /\ ~Visible(w, s)
    /\ worker'[w].todo = worker[w].todo /\ worker'[w].row = worker[w].row

Drops(w, s) ==
    /\ Keeps(w)
    /\ worker[w].pc = "insert" /\ worker'[w].pc = "next" /\ Current(w, s)
    /\ worker'[w].todo = worker[w].todo \ {s}
    /\ worker'[w].row = [worker[w].row EXCEPT ![s] = NoPending]

Sends(w, s, p) ==
    /\ Keeps(w)
    /\ worker[w].pc = "send" /\ worker'[w].pc = "next" /\ Current(w, s)
    /\ worker'[w].todo = worker[w].todo \ {s}
    /\ worker'[w].row = [worker[w].row EXCEPT ![s] = p]
    /\ p.new = worker[w].row[s].new /\ p.loaded = worker[w].row[s].loaded
    /\ accepted \subseteq accepted'
    /\ \/ p.status = "SENT" /\ p.msg # 0 /\ <<p.msg, s>> \in accepted'
       \/ p.status = "FAILED" /\ p.msg = worker[w].row[s].msg
       \/ p = worker[w].row[s] /\ ~worker[w].test
    /\ \/ calls' = calls
       \/ ~worker[w].test /\ calls' = [calls EXCEPT ![s] = @ + 1]

Commits(w) ==
    /\ Commit(w) /\ Ends(w)
    /\ worker[w].pc = "next" /\ worker[w].todo = {}
    /\ edition' = worker[w].ed
    /\ stories' = (stories \ worker[w].erased) \cup worker[w].found
    /\ wasEmpty' = (wasEmpty \/ stories' = {})
    /\ delivery' = [s \in Subscriber |-> Written(delivery[s], worker[w].row[s])]

Applies(h) ==
    /\ CommitHook(h) /\ hook[h].pc = "loaded" /\ hook' = [hook EXCEPT ![h] = IdleHook]
    /\ UNCHANGED <<edVars, mailVars, worker, rollbacks>>
    /\ \/ delivery' = delivery
       \/ /\ CanTransition(hook[h].loaded.status, hook[h].event[1])
          /\ delivery' = [delivery EXCEPT ![hook[h].event[2][2]].status = hook[h].event[1]]

Heeds(h) ==
    /\ UNCHANGED <<edVars, delivery, mailVars, worker, rollbacks>>
    /\ \E e \in Event, k \in Key :
        /\ e[2] \in accepted
        /\ hook' = [hook EXCEPT ![h] = [pc |-> "loaded", event |-> e, key |-> k,
                        loaded |-> IF delivery[e[2][2]].msg = e[2][1]
                                   THEN delivery[e[2][2]] ELSE NoDelivery]]

\* The steps of a run that touch nothing else, and all of those there are.
Works(w) ==
    \/ Loads(w) \/ Creates(w) \/ Erases(w) \/ Advances(w)
    \/ \E s \in Subscriber : \/ \E p \in Pending : Serves(w, s, p)
                             \/ Skips(w, s) \/ Inserts(w, s) \/ Drops(w, s)

Moves ==
    \/ UNCHANGED <<edVars, delivery, mailVars, worker, hook, rollbacks>>
    \/ /\ UNCHANGED <<edVars, delivery, mailVars, hook, rollbacks>>
       /\ \E w \in Worker : Works(w)
    \/ /\ UNCHANGED <<edVars, delivery, hook, rollbacks>>
       /\ \E w \in Worker, s \in Subscriber : \E p \in Pending : Sends(w, s, p)
    \/ /\ UNCHANGED <<mailVars, hook, rollbacks>>
       /\ \E w \in Worker : Commits(w)
    \/ /\ UNCHANGED <<edVars, delivery, mailVars, hook>> /\ rollbacks' = rollbacks + 1
       /\ \E w \in Worker : Ends(w)
    \/ \E h \in Hook : Applies(h) \/ Heeds(h)

\* Run w turns to the next subscriber, with row p for s.
Turns(w, s, p) == worker' = [worker EXCEPT ![w] = Past(w, s, p)]

\* A request loads a row and makes an honest copy of it.
Asks(f) ==
    /\ form[f].pc = "idle"
    /\ \E q \in Asked : /\ q.pc = "loaded" /\ Honest(q)
                       /\ form' = [form EXCEPT ![f] = q]
    /\ changes' \in 0..MaxChanges
    /\ UNCHANGED <<profile, links, proven, stale, edVars, delivery, mailVars, seen,
                   worker, hook, nextId, rollbacks, faults, tests>>

\* Writing the columns that differ makes the row what the copy is.
LEMMA MergedIsCopy ==
    ASSUME NEW o \in Profile, NEW q \in Profile, NEW c \in SUBSET Column,
           "addr" \notin c => q.addr = o.addr, "verified" \notin c => q.verified = o.verified,
           "enabled" \notin c => q.enabled = o.enabled,
           "unsubscribed" \notin c => q.unsubscribed = o.unsubscribed
    PROVE  Merged(o, q, c) = q
<1> DEFINE m == Merged(o, q, c)
<1>1. /\ m \in Profile /\ m.addr = q.addr /\ m.verified = q.verified
      /\ m.enabled = q.enabled /\ m.unsubscribed = q.unsubscribed
    BY DEF Merged, Profile
<1> HIDE DEF m
<1>2. m = q
    BY <1>1 DEF Profile
<1> QED BY <1>2 DEF m

LEMMA Loaded ==
    ASSUME TypeOK, NEW f \in Form, NEW s \in Subscriber,
           \/ SavePreferences(f, s) \/ RequestVerification(f, s) \/ Unsubscribe(f, s)
           \/ \E google \in BOOLEAN : Verify(f, s, google)
    PROVE  Asks(f)
<1>0. profile[s] \in Profile /\ changes \in 0..MaxChanges /\ MaxChanges \in Nat
    BY BoundAssumption DEF TypeOK
<1>1. ASSUME NEW copy \in Profile, NEW columns \in SUBSET Column, NEW mail \in SUBSET Address,
             NEW proof \in SUBSET Address, Load(f, s, copy, columns, mail, proof),
             Merged(profile[s], copy, columns) = copy,
             copy.enabled => copy.verified \/ (profile[s].enabled /\ ~profile[s].verified),
             copy.verified => \/ copy.addr \in proof
                              \/ profile[s].verified /\ copy.addr = profile[s].addr
      PROVE  Asks(f)
    <2> DEFINE q == [pc |-> "loaded", of |-> s, base |-> profile[s], copy |-> copy,
                     columns |-> columns, mail |-> mail, proof |-> proof]
    <2>1. q \in Asked
        BY <1>0 DEF Asked
    <2>2. q.pc = "loaded" /\ Honest(q)
        BY <1>1 DEF Honest
    <2>3. form' = [form EXCEPT ![f] = q]
        BY <1>1 DEF Load
    <2> HIDE DEF q
    <2>4. changes' \in 0..MaxChanges
        BY <1>0, <1>1 DEF Load
    <2> QED BY <1>1, <2>1, <2>2, <2>3, <2>4 DEF Asks, Load
<1>2. CASE SavePreferences(f, s)
    <2>1. PICK wanted \in BOOLEAN, a \in Address, google \in SUBSET Address :
            Load(f, s, SavedProfile(profile[s], wanted, a, google),
                 SavedColumns(profile[s], wanted, a, google),
                 IF wanted /\ ~SavedProfile(profile[s], wanted, a, google).verified
                 THEN {a} ELSE {}, google \cap {profile[s].addr, a})
        BY <1>2 DEF SavePreferences
    <2> DEFINE o == profile[s]
               q == SavedProfile(o, wanted, a, google)
               c == SavedColumns(o, wanted, a, google)
    <2>2. /\ q \in Profile /\ q.addr = a /\ q.unsubscribed = o.unsubscribed
          /\ q.verified = ((o.addr = a /\ o.verified) \/ a \in google)
          /\ q.enabled = (wanted /\ q.verified)
        BY <1>0 DEF SavedProfile, Profile
    <2>3. /\ c \in SUBSET Column
          /\ "addr" \in c <=> o.addr # a
          /\ "verified" \notin c => q.verified = o.verified
          /\ "enabled" \notin c => q.enabled = o.enabled
          /\ "unsubscribed" \notin c
        BY <1>0, <2>2 DEF SavedColumns, Column, Profile
    <2>4. Load(f, s, q, c, IF wanted /\ ~q.verified THEN {a} ELSE {}, google \cap {o.addr, a})
        BY <2>1
    <2> HIDE DEF q, c
    <2>5. Merged(o, q, c) = q
        BY <1>0, <2>2, <2>3, MergedIsCopy
    <2>6. /\ q.enabled => q.verified
          /\ q.verified => \/ q.addr \in google \cap {o.addr, a}
                           \/ o.verified /\ q.addr = o.addr
        BY <2>2
    <2> DEFINE mail == IF wanted /\ ~q.verified THEN {a} ELSE {}
               proof == google \cap {o.addr, a}
    <2>7. mail \in SUBSET Address /\ proof \in SUBSET Address
        OBVIOUS
    <2>8. Load(f, s, q, c, mail, proof)
        BY <2>4
    <2>9. q \in Profile /\ c \in SUBSET Column
        BY <2>2, <2>3
    <2>10. q.verified => q.addr \in proof \/ (o.verified /\ q.addr = o.addr)
        BY <2>6
    <2> HIDE DEF mail, proof
    <2> QED BY <1>1, <2>5, <2>6, <2>7, <2>8, <2>9, <2>10
<1>3. CASE RequestVerification(f, s)
    <2>1. Merged(profile[s], profile[s], {}) = profile[s]
        BY <1>0, MergedIsCopy
    <2>2. ~profile[s].verified /\ Load(f, s, profile[s], {}, {profile[s].addr}, {})
        BY <1>3 DEF RequestVerification
    <2>3. /\ profile[s].addr \in Address /\ profile[s].enabled \in BOOLEAN
        BY <1>0 DEF Profile
    <2> QED BY <1>0, <1>1, <2>1, <2>2, <2>3
<1>4. CASE Unsubscribe(f, s)
    <2> DEFINE q == [profile[s] EXCEPT !.enabled = FALSE, !.unsubscribed = TRUE]
               c == {"unsubscribed"} \cup (IF profile[s].enabled THEN {"enabled"} ELSE {})
    <2>1. /\ q \in Profile /\ ~q.enabled /\ q.verified = profile[s].verified
          /\ q.addr = profile[s].addr
          /\ c \in SUBSET Column
          /\ "addr" \notin c => q.addr = profile[s].addr
          /\ "verified" \notin c => q.verified = profile[s].verified
          /\ "enabled" \notin c => q.enabled = profile[s].enabled
          /\ "unsubscribed" \notin c => q.unsubscribed = profile[s].unsubscribed
        BY <1>0 DEF Profile, Column
    <2>2. Load(f, s, q, c, {}, {})
        BY <1>4 DEF Unsubscribe
    <2> HIDE DEF q, c
    <2>3. Merged(profile[s], q, c) = q
        BY <1>0, <2>1, MergedIsCopy
    <2> QED BY <1>0, <1>1, <2>1, <2>2, <2>3
<1>5. ASSUME NEW google \in BOOLEAN, Verify(f, s, google)
      PROVE  Asks(f)
    <2> DEFINE q == [profile[s] EXCEPT !.verified = TRUE, !.enabled = TRUE]
               c == {"verified"} \cup (IF profile[s].enabled THEN {} ELSE {"enabled"})
    <2>1. /\ q \in Profile /\ q.verified /\ q.addr = profile[s].addr /\ q.addr \in Address
          /\ c \in SUBSET Column
          /\ "addr" \notin c => q.addr = profile[s].addr
          /\ "verified" \notin c => q.verified = profile[s].verified
          /\ "enabled" \notin c => q.enabled = profile[s].enabled
          /\ "unsubscribed" \notin c => q.unsubscribed = profile[s].unsubscribed
        BY <1>0 DEF Profile, Column
    <2>2. Load(f, s, q, c, {}, {profile[s].addr})
        BY <1>5 DEF Verify
    <2> HIDE DEF q, c
    <2>3. Merged(profile[s], q, c) = q
        BY <1>0, <2>1, MergedIsCopy
    <2> QED BY <1>0, <1>1, <2>1, <2>2, <2>3
<1> QED BY <1>2, <1>3, <1>4, <1>5

\* Every step is one of these, and keeps the types.
LEMMA TypeAndMoves ==
    ASSUME TypeOK, RunOK, MessagesAccepted, [Next]_vars
    PROVE  TypeOK' /\ Moves
<1> USE BoundAssumption
<1>0. /\ \A w \in Worker : worker[w] \in Run
      /\ edition \in 0..MaxEditions /\ stories \in SUBSET Worker /\ hash \in SUBSET Worker
      /\ nextId \in 1..MaxEditions + 1
    BY DEF TypeOK
<1>1. ASSUME \/ \E f \in Form, s \in Subscriber :
                \/ SavePreferences(f, s) \/ RequestVerification(f, s) \/ Unsubscribe(f, s)
                \/ \E google \in BOOLEAN : Verify(f, s, google)
             \/ \E f \in Form : Flush(f) \/ Save(f) \/ Fail(f)
      PROVE  TypeOK' /\ Moves
    <2>1. CASE \E f \in Form, s \in Subscriber :
                \/ SavePreferences(f, s) \/ RequestVerification(f, s) \/ Unsubscribe(f, s)
                \/ \E google \in BOOLEAN : Verify(f, s, google)
        <3>1. PICK f \in Form : Asks(f)
            BY <2>1, Loaded
        <3>2. form' \in [Form -> Asked \cup {IdleForm}]
            BY <3>1 DEF Asks, TypeOK
        <3>3. TypeOK'
            BY <3>1, <3>2 DEF Asks, TypeOK, edVars, mailVars
        <3> QED BY <3>1, <3>3 DEF Asks, Moves
    <2>2. ASSUME NEW f \in Form, Flush(f) \/ Save(f) \/ Fail(f)
          PROVE  TypeOK' /\ Moves
        <3>1. form[f] \in Asked \cup {IdleForm} /\ (form[f].pc # "idle" => form[f] \in Asked)
            BY DEF TypeOK, IdleForm
        <3>2. CASE Flush(f)
            <4>1. /\ form[f] \in Asked
                  /\ form' = [form EXCEPT ![f] = [form[f] EXCEPT !.pc = "written"]]
                  /\ links' = [links EXCEPT ![form[f].of] = @ \cup form[f].mail]
                  /\ stale' \in {stale, stale \cup {form[f].of}}
                  /\ UNCHANGED <<profile, proven, edVars, delivery, mailVars, seen, worker,
                                 hook, nextId, bounds>>
                BY <3>1, <3>2 DEF Flush
            <4>2. [form[f] EXCEPT !.pc = "written"] \in Asked
                BY <4>1 DEF Asked
            <4>3. /\ form' \in [Form -> Asked \cup {IdleForm}]
                  /\ links' \in [Subscriber -> SUBSET Address]
                  /\ stale' \in SUBSET Subscriber
                BY <4>1, <4>2 DEF TypeOK, Asked
            <4>4. TypeOK'
                BY <4>1, <4>3 DEF TypeOK, edVars, mailVars, bounds
            <4> QED BY <4>1, <4>4 DEF Moves, bounds
        <3>3. CASE Save(f)
            <4>1. /\ form[f] \in Asked
                  /\ form' = [form EXCEPT ![f] = IdleForm]
                  /\ profile' = [profile EXCEPT ![form[f].of] =
                                    Merged(profile[form[f].of], form[f].copy, form[f].columns)]
                  /\ proven' = [proven EXCEPT ![form[f].of] = @ \cup form[f].proof]
                  /\ UNCHANGED <<links, stale, edVars, delivery, mailVars, seen, worker,
                                 hook, nextId, bounds>>
                BY <3>1, <3>3 DEF Save
            <4>2. \A q \in Profile, o \in Profile, c \in SUBSET Column : Merged(q, o, c) \in Profile
                BY DEF Merged, Profile
            <4>3. /\ form' \in [Form -> Asked \cup {IdleForm}]
                  /\ profile' \in [Subscriber -> Profile]
                  /\ proven' \in [Subscriber -> SUBSET Address]
                BY <4>1, <4>2 DEF TypeOK, Asked
            <4>4. TypeOK'
                BY <4>1, <4>3 DEF TypeOK, edVars, mailVars, bounds
            <4> QED BY <4>1, <4>4 DEF Moves, bounds
        <3>4. CASE Fail(f)
            BY <3>4 DEF Fail, TypeOK, Moves, edVars, mailVars, bounds
        <3> QED BY <2>2, <3>2, <3>3, <3>4
    <2> QED BY <1>1, <2>1, <2>2
<1>2. ASSUME NEW w \in Worker, NEW r \in Run, worker' = [worker EXCEPT ![w] = r],
             UNCHANGED <<subVars, edVars, delivery, mailVars, seen, hook>>,
             nextId' \in 1..MaxEditions + 1, rollbacks' \in 0..faults',
             faults' \in 0..MaxFaults, tests' \in 0..MaxTests, changes' \in 0..MaxChanges
      PROVE  TypeOK'
    BY <1>2, Replaced DEF TypeOK, subVars, edVars, mailVars
<1>3. ASSUME NEW w \in Worker, StartRun(w) \/ StartTest(w)
      PROVE  TypeOK' /\ Moves
    <2>1. PICK test \in BOOLEAN, target \in SUBSET Subscriber : LoadEdition(w, test, target)
        BY <1>3 DEF StartRun, StartTest
    <2> DEFINE r == IF edition # 0 /\ Final
                    THEN [IdleWorker EXCEPT !.pc = "list", !.test = test, !.ed = edition,
                                            !.todo = target]
                    ELSE [IdleWorker EXCEPT !.pc = "select", !.test = test, !.ed = edition,
                                            !.base = hash, !.todo = target]
    <2>2. r \in Run
        BY <1>0, IdleTypes DEF Run
    <2>3. worker' = [worker EXCEPT ![w] = r]
        BY <2>1 DEF LoadEdition
    <2>4. /\ \A s \in Subscriber : r.row[s] = NoPending
          /\ ~r.created /\ r.erased = {} /\ r.found = {} /\ r.ed = edition
          /\ \/ r.pc = "list" /\ edition # 0
             \/ r.pc = "select" /\ (edition # 0 => stories = {})
        BY DEF IdleWorker, Final
    <2> HIDE DEF r
    <2>5. Loads(w)
        BY <2>1, <2>2, <2>3, <2>4, Replaced DEF Loads, Fresh, Others, LoadEdition
    <2>6. tests' \in 0..MaxTests
        BY <2>1 DEF LoadEdition, TypeOK
    <2>7. TypeOK'
        BY <1>2, <2>1, <2>2, <2>3, <2>6 DEF LoadEdition, TypeOK
    <2> QED BY <2>1, <2>5, <2>7 DEF Moves, Works, LoadEdition
<1>4. ASSUME NEW w \in Worker, Select(w)
      PROVE  TypeOK' /\ Moves
    <2>0. worker[w] \in Run
        BY <1>0
    <2>1. PICK found \in SUBSET Worker : CreateEdition(w, found) \/ EraseItems(w, found)
        BY <1>4 DEF Select
    <2>2. CASE CreateEdition(w, found) /\ edition # 0
        <3> DEFINE r == [worker[w] EXCEPT !.pc = "list", !.ed = edition]
        <3>1. r \in Run /\ r.pc = "list" /\ r.ed = edition /\ r.created = worker[w].created
              /\ r.found = worker[w].found /\ r.row = worker[w].row
              /\ r.erased = worker[w].erased
            BY <1>0, <2>0 DEF Run
        <3>2. worker' = [worker EXCEPT ![w] = r] /\ nextId' = nextId
            BY <2>2 DEF CreateEdition
        <3> HIDE DEF r
        <3>3. Creates(w)
            BY <2>2, <3>1, <3>2, Replaced DEF Creates, CreateEdition, Others
        <3>4. TypeOK'
            BY <1>2, <2>2, <3>1, <3>2 DEF CreateEdition, TypeOK, bounds
        <3> QED BY <2>2, <3>3, <3>4 DEF Moves, Works, CreateEdition, bounds
    <2>3. CASE CreateEdition(w, found) /\ edition = 0
        <3> DEFINE r == [worker[w] EXCEPT !.pc = "list", !.ed = nextId, !.created = TRUE,
                                          !.found = found]
        <3>0. nextId <= MaxEditions /\ nextId' = nextId + 1
              /\ nextId \in 0..MaxEditions /\ nextId # 0
            BY <1>0, <2>3 DEF CreateEdition
        <3>1. r \in Run /\ r.pc = "list" /\ r.ed # 0 /\ r.created
              /\ r.row = worker[w].row /\ r.erased = worker[w].erased
            BY <1>0, <2>0, <3>0 DEF Run
        <3>2. worker' = [worker EXCEPT ![w] = r]
            BY <2>3 DEF CreateEdition
        <3> HIDE DEF r
        <3>3. Creates(w)
            BY <2>3, <3>1, <3>2, Replaced DEF Creates, CreateEdition, Others
        <3>4. nextId' \in 1..MaxEditions + 1
            BY <1>0, <3>0
        <3>5. TypeOK'
            BY <1>2, <2>3, <3>1, <3>2, <3>4 DEF CreateEdition, TypeOK, bounds
        <3> QED BY <2>3, <3>3, <3>5 DEF Moves, Works, CreateEdition, bounds
    <2>4. CASE EraseItems(w, found)
        <3> DEFINE r == [worker[w] EXCEPT !.pc = "update", !.erased = stories, !.found = found]
        <3>1. r \in Run /\ r.pc = "update" /\ r.created = worker[w].created
              /\ r.row = worker[w].row /\ r.ed = worker[w].ed
            BY <1>0, <2>0 DEF Run
        <3>2. worker' = [worker EXCEPT ![w] = r]
            BY <2>4 DEF EraseItems
        <3> HIDE DEF r
        <3>3. Erases(w)
            BY <2>4, <3>1, <3>2, Replaced DEF Erases, EraseItems, Others
        <3>4. TypeOK'
            BY <1>2, <2>4, <3>1, <3>2 DEF EraseItems, TypeOK, bounds
        <3> QED BY <2>4, <3>3, <3>4 DEF Moves, Works, EraseItems, bounds
    <2> QED BY <2>1, <2>2, <2>3, <2>4
<1>5. ASSUME NEW w \in Worker, WriteEdition(w) \/ ListDue(w)
      PROVE  TypeOK' /\ Moves
    <2>0. worker[w] \in Run
        BY <1>0
    <2>1. CASE WriteEdition(w)
        <3> DEFINE r == [worker[w] EXCEPT !.pc = "list", !.base = {},
                                          !.locked = worker[w].found # worker[w].base]
        <3>1. /\ r \in Run /\ r.pc = "list" /\ r.row = worker[w].row /\ r.ed = worker[w].ed
              /\ r.created = worker[w].created /\ r.erased = worker[w].erased
              /\ r.found = worker[w].found /\ r.test = worker[w].test
            BY <2>0 DEF Run
        <3>2. worker' = [worker EXCEPT ![w] = r]
            BY <2>1 DEF WriteEdition
        <3> HIDE DEF r
        <3>3. Advances(w)
            BY <2>1, <3>1, <3>2, Replaced DEF Advances, Keeps, WriteEdition, Others
        <3>4. TypeOK'
            BY <1>2, <2>1, <3>1, <3>2 DEF WriteEdition, TypeOK, bounds
        <3> QED BY <2>1, <3>3, <3>4 DEF Moves, Works, WriteEdition, bounds
    <2>2. CASE ListDue(w)
        <3>1. PICK todo \in SUBSET Subscriber :
                worker' = [worker EXCEPT ![w] = [worker[w] EXCEPT !.pc = "next", !.todo = todo]]
            <4>1. PICK due \in SUBSET Eligible :
                    worker' = [worker EXCEPT ![w] = [worker[w] EXCEPT !.pc = "next",
                                   !.todo = IF worker[w].test THEN worker[w].todo ELSE due]]
                BY <2>2 DEF ListDue
            <4>2. (IF worker[w].test THEN worker[w].todo ELSE due) \in SUBSET Subscriber
                BY <2>0 DEF Run, Eligible
            <4> QED BY <4>1, <4>2
        <3> DEFINE r == [worker[w] EXCEPT !.pc = "next", !.todo = todo]
        <3>2. /\ r \in Run /\ r.pc = "next" /\ r.row = worker[w].row /\ r.ed = worker[w].ed
              /\ r.created = worker[w].created /\ r.erased = worker[w].erased
              /\ r.found = worker[w].found /\ r.test = worker[w].test
            BY <2>0 DEF Run
        <3>3. worker' = [worker EXCEPT ![w] = r]
            BY <3>1
        <3> HIDE DEF r
        <3>4. Advances(w)
            BY <2>2, <3>2, <3>3, Replaced DEF Advances, Keeps, ListDue, Others
        <3>5. TypeOK'
            BY <1>2, <2>2, <3>2, <3>3 DEF ListDue, TypeOK, bounds
        <3> QED BY <2>2, <3>4, <3>5 DEF Moves, Works, ListDue, bounds
    <2> QED BY <1>5, <2>1, <2>2
<1>6. ASSUME NEW w \in Worker, NEW s \in Subscriber, NEW p \in Pending \cup {NoPending},
             Turns(w, s, p)
      PROVE  /\ Keeps(w) /\ worker' \in [Worker -> Run]
             /\ worker'[w].pc = "next" /\ worker'[w].todo = worker[w].todo \ {s}
             /\ worker'[w].row = [worker[w].row EXCEPT ![s] = p]
    <2> DEFINE rows == [worker[w].row EXCEPT ![s] = p]
               r == [worker[w] EXCEPT !.pc = "next", !.todo = worker[w].todo \ {s}, !.row = rows]
    <2>1. worker[w] \in Run
        BY <1>0
    <2>2. rows \in [Subscriber -> Pending \cup {NoPending}]
        BY <2>1 DEF Run
    <2>3. worker' = [worker EXCEPT ![w] = r]
        BY <1>6 DEF Turns, Past
    <2> HIDE DEF rows
    <2>4. /\ r \in Run /\ r.pc = "next" /\ r.todo = worker[w].todo \ {s} /\ r.row = rows
          /\ r.ed = worker[w].ed /\ r.created = worker[w].created
          /\ r.erased = worker[w].erased /\ r.found = worker[w].found
          /\ r.test = worker[w].test
        BY <2>1, <2>2 DEF Run
    <2> HIDE DEF r
    <2> QED BY <2>3, <2>4, Replaced DEF Keeps, Others, rows
<1>7. ASSUME NEW w \in Worker, NEW s \in Subscriber, CheckDelivery(w, s)
      PROVE  TypeOK' /\ Moves
    <2>0. worker[w] \in Run /\ delivery[s] \in Delivery \cup {NoDelivery}
          /\ UNCHANGED <<subVars, edVars, delivery, mailVars, seen, hook, nextId, bounds>>
          /\ worker[w].pc = "next" /\ s \in worker[w].todo
        BY <1>0, <1>7 DEF TypeOK, CheckDelivery
    <2>1. ASSUME NEW p \in Pending, NEW pc \in {"insert", "send"},
                 worker' = [worker EXCEPT ![w] = [worker[w] EXCEPT !.pc = pc,
                                !.row = [worker[w].row EXCEPT ![s] = p]]],
                 \/ /\ pc = "insert"
                    /\ p = [new |-> TRUE, loaded |-> NoDelivery, status |-> "QUEUED", msg |-> 0]
                 \/ /\ pc = "send" /\ worker[w].test /\ delivery[s] # NoDelivery
                    /\ p = [new |-> FALSE, loaded |-> delivery[s], status |-> "QUEUED",
                            msg |-> delivery[s].msg]
          PROVE  TypeOK' /\ Moves
        <3> DEFINE rows == [worker[w].row EXCEPT ![s] = p]
                   r == [worker[w] EXCEPT !.pc = pc, !.row = rows]
        <3>1. rows \in [Subscriber -> Pending \cup {NoPending}]
            BY <2>0 DEF Run
        <3>2. worker' = [worker EXCEPT ![w] = r]
            BY <2>1
        <3> HIDE DEF rows
        <3>3. /\ r \in Run /\ r.pc = pc /\ r.row = rows /\ r.ed = worker[w].ed
              /\ r.created = worker[w].created /\ r.erased = worker[w].erased
              /\ r.found = worker[w].found /\ r.test = worker[w].test /\ r.todo = worker[w].todo
            BY <2>0, <3>1 DEF Run
        <3> HIDE DEF r
        <3>4. Serves(w, s, p)
            BY <2>0, <2>1, <3>2, <3>3, Replaced DEF Serves, Keeps, Others, rows
        <3>5. TypeOK'
            BY <1>2, <2>0, <3>2, <3>3 DEF TypeOK, bounds
        <3> QED BY <2>0, <3>4, <3>5 DEF Moves, Works, bounds
    <2>2. CASE ~Visible(w, s)
        <3> DEFINE p == [new |-> TRUE, loaded |-> NoDelivery, status |-> "QUEUED", msg |-> 0]
        <3>1. p \in Pending
            BY Placeholders DEF Pending, Status
        <3>2. worker' = [worker EXCEPT ![w] = [worker[w] EXCEPT !.pc = "insert",
                                !.row = [worker[w].row EXCEPT ![s] = p]]]
            BY <1>7, <2>2 DEF CheckDelivery
        <3> QED BY <2>1, <3>1, <3>2
    <2>3. CASE Visible(w, s) /\ worker[w].test
        <3> DEFINE p == [new |-> FALSE, loaded |-> delivery[s], status |-> "QUEUED",
                         msg |-> delivery[s].msg]
        <3>1. p \in Pending /\ delivery[s] # NoDelivery
            BY <2>0, <2>3 DEF Pending, Delivery, Visible, Status
        <3>2. worker' = [worker EXCEPT ![w] = [worker[w] EXCEPT !.pc = "send",
                                !.row = [worker[w].row EXCEPT ![s] = p]]]
            BY <1>7, <2>3 DEF CheckDelivery
        <3> QED BY <2>1, <2>3, <3>1, <3>2
    <2>4. CASE Visible(w, s) /\ ~worker[w].test
        <3> DEFINE r == [worker[w] EXCEPT !.todo = worker[w].todo \ {s}]
        <3>1. worker' = [worker EXCEPT ![w] = r]
            BY <1>7, <2>4 DEF CheckDelivery
        <3>2. /\ r \in Run /\ r.pc = "next" /\ r.row = worker[w].row /\ r.ed = worker[w].ed
              /\ r.created = worker[w].created /\ r.erased = worker[w].erased
              /\ r.found = worker[w].found /\ r.test = worker[w].test
              /\ r.todo = worker[w].todo \ {s}
            BY <2>0 DEF Run
        <3> HIDE DEF r
        <3>3. Skips(w, s)
            BY <2>0, <2>4, <3>1, <3>2, Replaced DEF Skips, Keeps, Others, Visible
        <3>4. TypeOK'
            BY <1>2, <2>0, <3>1, <3>2 DEF TypeOK, bounds
        <3> QED BY <2>0, <3>3, <3>4 DEF Moves, Works, bounds
    <2> QED BY <2>2, <2>3, <2>4
<1>8. ASSUME NEW w \in Worker, NEW s \in Subscriber, worker[w].pc = "insert", Current(w, s),
             Turns(w, s, NoPending),
             UNCHANGED <<subVars, edVars, delivery, mailVars, seen, hook, nextId, bounds>>
      PROVE  TypeOK' /\ Moves
    <2>1. Drops(w, s) /\ worker' \in [Worker -> Run]
        BY <1>6, <1>8 DEF Drops
    <2>2. TypeOK'
        BY <1>8, <2>1 DEF TypeOK, subVars, edVars, mailVars, bounds
    <2> QED BY <1>8, <2>1, <2>2 DEF Moves, Works, bounds
<1>9. ASSUME NEW w \in Worker, NEW s \in Subscriber, InsertDelivery(w, s) \/ LoseSubscriber(w, s)
      PROVE  TypeOK' /\ Moves
    <2>1. CASE LoseSubscriber(w, s)
        BY <1>8, <2>1 DEF LoseSubscriber, Turns
    <2>2. CASE InsertDelivery(w, s) /\ Visible(w, s)
        BY <1>8, <2>2 DEF InsertDelivery, Turns
    <2>3. CASE InsertDelivery(w, s) /\ ~Visible(w, s)
        <3> DEFINE r == [worker[w] EXCEPT !.pc = "send"]
        <3>1. worker' = [worker EXCEPT ![w] = r]
            BY <2>3 DEF InsertDelivery
        <3>2. /\ r \in Run /\ r.pc = "send" /\ r.row = worker[w].row /\ r.ed = worker[w].ed
              /\ r.created = worker[w].created /\ r.erased = worker[w].erased
              /\ r.found = worker[w].found /\ r.test = worker[w].test
              /\ r.todo = worker[w].todo
            BY <1>0 DEF Run
        <3> HIDE DEF r
        <3>3. Inserts(w, s)
            BY <2>3, <3>1, <3>2, Replaced DEF Inserts, Keeps, Others, InsertDelivery
        <3>4. TypeOK'
            BY <1>2, <2>3, <3>1, <3>2 DEF TypeOK, InsertDelivery, bounds
        <3> QED BY <2>3, <3>3, <3>4 DEF Moves, Works, InsertDelivery, bounds
    <2> QED BY <1>9, <2>1, <2>2, <2>3
<1>10. ASSUME NEW w \in Worker, NEW s \in Subscriber, Send(w, s)
       PROVE  TypeOK' /\ Moves
    <2> DEFINE m == IF worker[w].test THEN Test ELSE worker[w].ed
    <2>0. /\ worker[w] \in Run /\ worker[w].pc = "send" /\ Current(w, s)
          /\ worker[w].row[s] \in Pending /\ worker[w].ed \in Edition
          /\ calls' = IF worker[w].test THEN calls ELSE [calls EXCEPT ![s] = @ + 1]
          /\ UNCHANGED <<subVars, edVars, delivery, seen, hook, nextId, rollbacks, tests, changes>>
        BY <1>0, <1>10 DEF Send, Current, Run, RunOK, Edition
    <2>1. m \in Edition \cup {Test} /\ m # 0 /\ m \in 0..Test
        BY <2>0, Placeholders DEF Edition
    <2>2. PICK ok, taken \in BOOLEAN :
            /\ ok => taken
            /\ ~ok => faults < MaxFaults
            /\ faults' = IF ok THEN faults ELSE faults + 1
            /\ accepted' = IF taken THEN accepted \cup {<<m, s>>} ELSE accepted
            /\ worker' = [worker EXCEPT ![w] = Past(w, s,
                    [worker[w].row[s] EXCEPT !.status = Outcome(ok),
                                             !.msg = IF ok THEN m ELSE worker[w].row[s].msg])]
        BY <1>10 DEF Send
    <2> DEFINE p == [worker[w].row[s] EXCEPT !.status = Outcome(ok),
                                             !.msg = IF ok THEN m ELSE worker[w].row[s].msg]
    <2> HIDE DEF m
    <2>3. /\ p \in Pending
          /\ p.new = worker[w].row[s].new /\ p.loaded = worker[w].row[s].loaded
          /\ \/ ok /\ p.status = "SENT" /\ p.msg = m
             \/ p.status = "FAILED" /\ p.msg = worker[w].row[s].msg
        BY <2>0, <2>1 DEF Pending, Outcome, Status
    <2>4. Turns(w, s, p)
        BY <2>2 DEF Turns
    <2> HIDE DEF p
    <2>5. Sends(w, s, p) /\ worker' \in [Worker -> Run]
        <3>1. /\ Keeps(w) /\ worker' \in [Worker -> Run]
              /\ worker'[w].pc = "next" /\ worker'[w].todo = worker[w].todo \ {s}
              /\ worker'[w].row = [worker[w].row EXCEPT ![s] = p]
            BY <1>6, <2>3, <2>4
        <3>2. accepted \subseteq accepted' /\ (ok => <<m, s>> \in accepted')
            BY <2>2
        <3> QED BY <2>0, <2>1, <2>3, <3>1, <3>2 DEF Sends
    <2>6. accepted' \in SUBSET Message /\ calls' \in [Subscriber -> Nat]
          /\ faults' \in 0..MaxFaults /\ rollbacks' \in 0..faults'
        <3>1. accepted' \in SUBSET Message
            BY <2>1, <2>2 DEF TypeOK, Message
        <3>2. calls' \in [Subscriber -> Nat]
            BY <2>0 DEF TypeOK
        <3>3. faults' \in 0..MaxFaults /\ rollbacks' \in 0..faults'
            BY <2>0, <2>2 DEF TypeOK
        <3> QED BY <3>1, <3>2, <3>3
    <2>7. TypeOK'
        BY <2>0, <2>5, <2>6 DEF TypeOK, subVars, edVars
    <2> QED BY <2>0, <2>3, <2>5, <2>7 DEF Moves
<1>16. ASSUME NEW w \in Worker, NEW s \in Subscriber, LoseMessage(w, s)
       PROVE  TypeOK' /\ Moves
    <2>0. /\ worker[w] \in Run /\ worker[w].pc = "send" /\ Current(w, s) /\ ~worker[w].test
          /\ worker[w].row[s] \in Pending /\ worker[w].ed \in Edition
          /\ Turns(w, s, worker[w].row[s])
          /\ faults < MaxFaults /\ faults' = faults + 1
          /\ calls' \in {calls, [calls EXCEPT ![s] = @ + 1]}
          /\ accepted' \in {accepted, accepted \cup {<<worker[w].ed, s>>}}
          /\ UNCHANGED <<subVars, edVars, delivery, seen, hook, nextId, rollbacks, tests,
                         changes>>
        BY <1>0, <1>16 DEF LoseMessage, Current, Run, RunOK, Edition, Turns
    <2>1. /\ Keeps(w) /\ worker' \in [Worker -> Run]
          /\ worker'[w].pc = "next" /\ worker'[w].todo = worker[w].todo \ {s}
          /\ worker'[w].row = [worker[w].row EXCEPT ![s] = worker[w].row[s]]
        BY <1>6, <2>0
    <2>2. Sends(w, s, worker[w].row[s])
        BY <2>0, <2>1 DEF Sends
    <2>3. accepted' \in SUBSET Message /\ calls' \in [Subscriber -> Nat]
          /\ faults' \in 0..MaxFaults /\ rollbacks' \in 0..faults'
        <3>1. accepted' \in SUBSET Message
            BY <2>0 DEF TypeOK, Message
        <3>2. calls' \in [Subscriber -> Nat]
            BY <2>0 DEF TypeOK
        <3>3. faults' \in 0..MaxFaults /\ rollbacks' \in 0..faults'
            BY <2>0 DEF TypeOK
        <3> QED BY <3>1, <3>2, <3>3
    <2>4. TypeOK'
        BY <2>0, <2>1, <2>3 DEF TypeOK, subVars, edVars
    <2> QED BY <2>0, <2>2, <2>4 DEF Moves
<1>11. ASSUME NEW w \in Worker, Commit(w)
       PROVE  TypeOK' /\ Moves
    <2>0. /\ worker[w] \in Run
          /\ worker' = [worker EXCEPT ![w] = IdleWorker]
          /\ worker[w].pc = "next" /\ worker[w].todo = {}
          /\ UNCHANGED <<subVars, mailVars, seen, hook, nextId, bounds>>
          /\ edition' = worker[w].ed
          /\ stories' = (stories \ worker[w].erased) \cup worker[w].found
          /\ wasEmpty' = (wasEmpty \/ stories' = {})
          /\ delivery' = [s \in Subscriber |-> Written(delivery[s], worker[w].row[s])]
          /\ hash' = IF worker[w].created \/ worker[w].locked THEN worker[w].found ELSE hash
        BY <1>0, <1>11 DEF Commit
    <2>1. Commits(w) /\ worker' \in [Worker -> Run]
        BY <1>11, <2>0, IdleTypes, Replaced DEF Commits, Ends, Fresh, Others, IdleWorker
    <2>2. ASSUME NEW s \in Subscriber
          PROVE  Written(delivery[s], worker[w].row[s]) \in Delivery \cup {NoDelivery}
        <3> DEFINE d == delivery[s]
                   p == worker[w].row[s]
        <3>1. d \in Delivery \cup {NoDelivery} /\ p \in Pending \cup {NoPending}
            BY <2>0 DEF TypeOK, Run
        <3>2. CASE p = NoPending
            BY <3>1, <3>2 DEF Written
        <3>3. CASE p # NoPending
            <4>0. RowOK(worker[w], s) /\ s \notin worker[w].todo
                BY <2>0, <3>3 DEF RunOK
            <4>1. /\ p.status \in {"SENT", "FAILED", "QUEUED"} /\ p.msg \in 0..Test
                  /\ p.loaded # NoDelivery => d # NoDelivery
                  /\ p.loaded \in Delivery \cup {NoDelivery}
                <5>1. p.status \in {"SENT", "FAILED", "QUEUED"}
                    BY <4>0 DEF RowOK
                <5>2. p.loaded # NoDelivery => d # NoDelivery
                    BY DEF MessagesAccepted, DeliveryAccepted, RowAccepted, EventAccepted
                <5> QED BY <3>1, <3>3, <5>1, <5>2 DEF Pending
            <4>2. d = NoDelivery => p.status # p.loaded.status
                BY <4>1, Placeholders DEF Status
            <4>3. d.msg \in 0..Test /\ (d # NoDelivery => d.status \in Status)
                BY <3>1, Placeholders DEF Delivery
            <4>4. Written(d, p) \in Delivery
                BY <3>3, <4>1, <4>2, <4>3 DEF Written, Delivery, Status
            <4> QED BY <4>4
        <3> QED BY <3>2, <3>3
    <2>3. delivery' \in [Subscriber -> Delivery \cup {NoDelivery}]
        BY <2>0, <2>2
    <2>4. /\ edition' \in 0..MaxEditions /\ stories' \in SUBSET Worker
          /\ hash' \in SUBSET Worker /\ wasEmpty' \in BOOLEAN
        BY <1>0, <2>0 DEF Run, TypeOK
    <2>5. TypeOK'
        BY <2>0, <2>1, <2>3, <2>4 DEF TypeOK, subVars, mailVars, bounds
    <2> QED BY <2>0, <2>1, <2>5 DEF Moves, bounds
<1>12. ASSUME NEW w \in Worker, Rollback(w)
       PROVE  TypeOK' /\ Moves
    <2>1. Ends(w) /\ worker' \in [Worker -> Run]
        BY <1>12, IdleTypes, Replaced DEF Rollback, Ends, Fresh, Others, IdleWorker
    <2>2. TypeOK'
        BY <1>12, <2>1 DEF Rollback, TypeOK, subVars, edVars, mailVars
    <2> QED BY <1>12, <2>1, <2>2 DEF Rollback, Moves, edVars, mailVars
<1>13. ASSUME NEW h \in Hook, Receive(h)
       PROVE  TypeOK' /\ Moves
    <2>1. PICK e \in Event, k \in Key :
            /\ e[2] \in accepted
            /\ hook' = [hook EXCEPT ![h] =
                  [pc |-> "loaded", event |-> e, key |-> k,
                   loaded |-> IF delivery[e[2][2]].msg = e[2][1]
                              THEN delivery[e[2][2]] ELSE NoDelivery]]
        <3>1. \A e \in Event : e \in Key /\ <<"any", e[2]>> \in Key
            BY DEF Event, Key
        <3> QED BY <1>13, <3>1 DEF Receive
    <2>2. e[2][2] \in Subscriber
        BY DEF Event, Message
    <2>3. [pc |-> "loaded", event |-> e, key |-> k,
           loaded |-> IF delivery[e[2][2]].msg = e[2][1]
                      THEN delivery[e[2][2]] ELSE NoDelivery] \in Request
        BY <2>2 DEF TypeOK, Request
    <2>4. hook' \in [Hook -> Request]
        BY <2>1, <2>3 DEF TypeOK
    <2>5. UNCHANGED <<subVars, edVars, delivery, mailVars, seen, worker, nextId, bounds>>
        BY <1>13 DEF Receive
    <2>6. TypeOK'
        BY <2>4, <2>5 DEF TypeOK, subVars, edVars, mailVars, bounds
    <2>7. Heeds(h)
        BY <2>1, <2>5 DEF Heeds, bounds
    <2> QED BY <2>6, <2>7 DEF Moves
<1>14. ASSUME NEW h \in Hook, CommitHook(h)
       PROVE  TypeOK' /\ Moves
    <2> DEFINE e == hook[h].event
    <2>0. /\ hook[h].pc = "loaded" /\ hook' = [hook EXCEPT ![h] = IdleHook]
          /\ UNCHANGED <<subVars, edVars, mailVars, worker, nextId, bounds>>
          /\ e \in Event
          /\ \/ UNCHANGED <<seen, delivery>>
             \/ /\ seen' = seen \cup {hook[h].key} /\ hook[h].key \in Key
                /\ \/ delivery' = delivery
                   \/ /\ CanTransition(hook[h].loaded.status, e[1])
                      /\ delivery' = [delivery EXCEPT ![e[2][2]].status = e[1]]
        BY <1>14 DEF CommitHook, MessagesAccepted, DeliveryAccepted, RowAccepted, EventAccepted
    <2>1. Applies(h)
        BY <1>14, <2>0 DEF Applies, bounds
    <2>2. hook' \in [Hook -> Request]
        BY <2>0, IdleTypes DEF TypeOK
    <2>3. seen' \in SUBSET Key
        BY <2>0 DEF TypeOK
    <2>4. delivery' \in [Subscriber -> Delivery \cup {NoDelivery}]
        <3>1. CASE delivery' = delivery
            BY <3>1 DEF TypeOK
        <3>2. CASE /\ CanTransition(hook[h].loaded.status, e[1])
                   /\ delivery' = [delivery EXCEPT ![e[2][2]].status = e[1]]
            <4>1. e[2][2] \in Subscriber /\ e[1] \in Status
                BY <2>0, Placeholders DEF Event, Message
            <4>2. hook[h].loaded # NoDelivery
                BY <3>2 DEF CanTransition, NoDelivery
            <4>3. delivery[e[2][2]] \in Delivery
                BY <2>0, <4>1, <4>2 DEF MessagesAccepted, DeliveryAccepted, RowAccepted, EventAccepted, TypeOK, NoDelivery
            <4>4. [delivery[e[2][2]] EXCEPT !.status = e[1]] \in Delivery
                BY <4>1, <4>3 DEF Delivery
            <4> QED BY <3>2, <4>1, <4>4 DEF TypeOK
        <3> QED BY <2>0, <3>1, <3>2
    <2>5. TypeOK'
        BY <2>0, <2>2, <2>3, <2>4 DEF TypeOK, subVars, edVars, mailVars, bounds
    <2> QED BY <2>1, <2>5 DEF Moves
<1>15. CASE UNCHANGED vars
    BY <1>15 DEF TypeOK, Moves, vars, subVars, edVars, mailVars, bounds
<1> QED BY <1>1, <1>3, <1>4, <1>5, <1>7, <1>9, <1>10, <1>11, <1>12, <1>13, <1>14, <1>15,
        <1>16 DEF Next

-----------------------------------------------------------------------------
(* The runs.                                                               *)

LEMMA RunInit == Init => /\ RunOK /\ OneEdition /\ OneDelivery /\ MessagesAccepted
                         /\ CallsCounted /\ EmptyRefilled /\ EnabledIsVerified /\ FormOK
<1> SUFFICES ASSUME Init PROVE /\ RunOK /\ OneEdition /\ OneDelivery /\ MessagesAccepted
                               /\ CallsCounted /\ EmptyRefilled /\ EnabledIsVerified
                               /\ FormOK
    OBVIOUS
<1>1. \A w \in Worker : /\ worker[w].pc = "idle" /\ worker[w].ed = 0 /\ ~worker[w].created
                        /\ worker[w].erased = {} /\ worker[w].found = {}
                        /\ \A s \in Subscriber : worker[w].row[s] = NoPending
    BY DEF Init, IdleWorker
<1>2. RunOK
    BY <1>1 DEF RunOK
<1>3. OneEdition
    BY <1>1 DEF OneEdition, Init
<1>4. OneDelivery
    BY <1>1, Placeholders DEF OneDelivery, HasInserted
<1>5. MessagesAccepted
    <2>1. \A h \in Hook : hook[h].pc = "idle" /\ hook[h].loaded = NoDelivery
        BY DEF Init, IdleHook
    <2>2. \A s \in Subscriber : delivery[s] = NoDelivery
        BY DEF Init
    <2> QED BY <1>1, <2>1, <2>2, Placeholders DEF MessagesAccepted, DeliveryAccepted, RowAccepted, EventAccepted
<1>6. CallsCounted
    <2>1. rollbacks = 0 /\ \A s \in Subscriber : calls[s] = 0
        BY DEF Init
    <2> QED BY <2>1 DEF CallsCounted
<1>7. EmptyRefilled
    BY <1>1 DEF EmptyRefilled, Init
<1>8. EnabledIsVerified
    <2>1. \A a \in Address : ~NewProfile(a).enabled /\ ~NewProfile(a).verified
                            /\ VerifiedProfile(a).verified
        BY DEF NewProfile, VerifiedProfile
    <2> QED BY <2>1 DEF EnabledIsVerified, Init
<1>9. FormOK
    BY DEF Init, FormOK, OneForm, Held, Honest, IdleForm
<1> QED BY <1>2, <1>3, <1>4, <1>5, <1>6, <1>7, <1>8, <1>9

\* A run that has no row keeps the invariant of runs; and one that serves a
\* subscriber, whose row is the only one without an outcome.
LEMMA RunKept ==
    ASSUME TypeOK, RunOK, Moves
    PROVE  RunOK'
<1> DEFINE Fits(w) == /\ worker[w].pc \in {"update", "list", "next", "insert", "send"} => worker[w].ed # 0
                      /\ worker[w].created => worker[w].pc \in {"list", "next", "insert", "send"}
                      /\ \A s \in Subscriber : worker[w].row[s] # NoPending =>
                            worker[w].pc \in {"next", "insert", "send"} /\ RowOK(worker[w], s)
<1>0. \A w \in Worker : worker[w] \in Run /\ Fits(w)
    BY DEF TypeOK, RunOK
<1>1. ASSUME NEW w \in Worker, Fresh(w),
             \/ worker'[w].pc = "idle" \/ worker'[w].pc = "select"
             \/ worker'[w].pc = "list" /\ worker'[w].ed # 0
      PROVE  Fits(w)'
    BY <1>1 DEF Fresh
<1>2. ASSUME NEW w \in Worker, Creates(w) \/ Erases(w) \/ Advances(w)
      PROVE  Fits(w)'
    BY <1>0, <1>2 DEF Creates, Erases, Advances, Keeps
<1>3. ASSUME NEW w \in Worker, NEW s \in Subscriber, NEW p \in Pending, Serves(w, s, p)
      PROVE  Fits(w)'
    BY <1>0, <1>3, Placeholders DEF Serves, Keeps, RowOK, Run
<1>4. ASSUME NEW w \in Worker, NEW s \in Subscriber, Skips(w, s) \/ Inserts(w, s) \/ Drops(w, s)
      PROVE  Fits(w)'
    <2>1. CASE Skips(w, s)
        BY <1>0, <2>1 DEF Skips, Keeps, RowOK, Run
    <2>2. CASE Inserts(w, s)
        BY <1>0, <2>2 DEF Inserts, Keeps, RowOK, Run, Current
    <2>3. CASE Drops(w, s)
        BY <1>0, <2>3 DEF Drops, Keeps, RowOK, Run, Current
    <2> QED BY <1>4, <2>1, <2>2, <2>3
<1>5. ASSUME NEW w \in Worker, NEW s \in Subscriber, NEW p \in Pending, Sends(w, s, p)
      PROVE  Fits(w)'
    BY <1>0, <1>5, Placeholders DEF Sends, Keeps, RowOK, Run, Current
<1>6. ASSUME NEW w \in Worker, NEW v \in Worker, v # w, Others(w)
      PROVE  Fits(v)'
    BY <1>0, <1>6 DEF Others, RowOK
<1>7. CASE UNCHANGED worker
    BY <1>7 DEF RunOK, RowOK
<1>8. ASSUME NEW w \in Worker, Fits(w)', Others(w)
      PROVE  RunOK'
    BY <1>6, <1>8 DEF RunOK
<1>9. ASSUME NEW w \in Worker, Works(w) PROVE RunOK'
    <2>1. Others(w)
        BY <1>9 DEF Works, Loads, Fresh, Creates, Erases, Advances, Serves, Skips, Inserts,
                    Drops, Keeps
    <2>2. Fits(w)'
        BY <1>1, <1>2, <1>3, <1>4, <1>9 DEF Works, Loads
    <2> QED BY <1>8, <2>1, <2>2
<1>10. ASSUME NEW w \in Worker, NEW s \in Subscriber, NEW p \in Pending, Sends(w, s, p)
       PROVE  RunOK'
    BY <1>5, <1>8, <1>10 DEF Sends, Keeps
<1>11. ASSUME NEW w \in Worker, Ends(w) PROVE RunOK'
    BY <1>1, <1>8, <1>11 DEF Ends, Fresh
<1> QED BY <1>7, <1>9, <1>10, <1>11 DEF Moves, Commits, Applies, Heeds

\* What commits, and what a webhook applies, leaves a row for whoever had one.
LEMMA WrittenKept ==
    ASSUME NEW d \in Delivery \cup {NoDelivery}, NEW p \in Pending,
           \/ p.status = "SENT" /\ p.msg # 0
           \/ p.status \in {"FAILED", "QUEUED"},
           p.msg = 0 => p.loaded.msg = 0,
           p.loaded # NoDelivery => d # NoDelivery,
           p.loaded.msg # 0 => d.msg # 0,
           d.status \in Reported => d.msg # 0
    PROVE  /\ Written(d, p) # NoDelivery
           /\ Written(d, p).msg \in {d.msg, p.msg}
           /\ d.msg # 0 => Written(d, p).msg # 0
           /\ Written(d, p).status \in Reported => Written(d, p).msg # 0
<1> DEFINE x == [status |-> IF p.status = p.loaded.status THEN d.status ELSE p.status,
                 msg |-> IF p.msg = p.loaded.msg THEN d.msg ELSE p.msg]
<1>1. Written(d, p) = x
    BY Placeholders DEF Written
<1>2. /\ x.status = IF p.status = p.loaded.status THEN d.status ELSE p.status
      /\ x.msg = IF p.msg = p.loaded.msg THEN d.msg ELSE p.msg
    OBVIOUS
<1> HIDE DEF x
<1>3. p.loaded.status \in Status => d.status \in Status
    BY Placeholders DEF Delivery, Pending
<1>4. x.status \in Status
    BY <1>2, <1>3 DEF Status
<1> QED BY <1>1, <1>2, <1>4, Placeholders DEF Reported

\* At the end of a run every row has an outcome.
LEMMA RunEnded ==
    ASSUME TypeOK, RunOK, MessagesAccepted, NEW w \in Worker, Commits(w),
           NEW s \in Subscriber
    PROVE  LET p == worker[w].row[s]
           IN  /\ p = NoPending => delivery'[s] = delivery[s]
               /\ p # NoPending =>
                     /\ p \in Pending /\ delivery'[s] = Written(delivery[s], p)
                     /\ p.new <=> p.loaded = NoDelivery
                     /\ p.new => HasInserted(w, s)
                     /\ ~worker[w].test => p.new
                     /\ p.loaded # NoDelivery => delivery[s] # NoDelivery
                     /\ delivery'[s] # NoDelivery
                     /\ delivery'[s].msg \in {delivery[s].msg, p.msg}
               /\ delivery[s].msg # 0 => delivery'[s].msg # 0
               /\ delivery'[s].status \in Reported => delivery'[s].msg # 0
               /\ delivery[s] # NoDelivery => delivery'[s] # NoDelivery
<1> DEFINE p == worker[w].row[s]
<1>1. p \in Pending \cup {NoPending} /\ delivery[s] \in Delivery \cup {NoDelivery}
      /\ worker[w].pc = "next" /\ worker[w].todo = {}
    BY DEF TypeOK, Run, Commits
<1>2. delivery'[s] = Written(delivery[s], p)
    BY DEF Commits
<1>3. /\ delivery[s].status \in Reported => delivery[s].msg # 0
      /\ p.loaded # NoDelivery => delivery[s] # NoDelivery
      /\ p.loaded.msg # 0 => delivery[s].msg # 0
    BY DEF MessagesAccepted, DeliveryAccepted, RowAccepted, EventAccepted
<1>4. CASE p = NoPending
    BY <1>2, <1>3, <1>4 DEF Written
<1>5. CASE p # NoPending
    <2>1. RowOK(worker[w], s)
        BY <1>5 DEF RunOK
    <2>2. /\ (p.status = "SENT" /\ p.msg # 0) \/ p.status \in {"FAILED", "QUEUED"}
          /\ p.msg = 0 => p.loaded.msg = 0
          /\ p.new <=> p.loaded = NoDelivery
          /\ ~worker[w].test => p.new
        BY <1>1, <2>1 DEF RowOK
    <2>3. p.new => HasInserted(w, s)
        BY <1>1 DEF HasInserted
    <2>4. /\ Written(delivery[s], p) # NoDelivery
          /\ Written(delivery[s], p).msg \in {delivery[s].msg, p.msg}
          /\ delivery[s].msg # 0 => Written(delivery[s], p).msg # 0
          /\ Written(delivery[s], p).status \in Reported =>
                Written(delivery[s], p).msg # 0
        BY <1>1, <1>3, <1>5, <2>2, WrittenKept
    <2> HIDE DEF p
    <2>5. /\ p = NoPending => delivery'[s] = delivery[s]
          /\ p # NoPending =>
                     /\ p \in Pending /\ delivery'[s] = Written(delivery[s], p)
                     /\ p.new <=> p.loaded = NoDelivery
                     /\ p.new => HasInserted(w, s)
                     /\ ~worker[w].test => p.new
                     /\ p.loaded # NoDelivery => delivery[s] # NoDelivery
                     /\ delivery'[s] # NoDelivery
                     /\ delivery'[s].msg \in {delivery[s].msg, p.msg}
          /\ delivery[s].msg # 0 => delivery'[s].msg # 0
          /\ delivery'[s].status \in Reported => delivery'[s].msg # 0
          /\ delivery[s] # NoDelivery => delivery'[s] # NoDelivery
        BY <1>1, <1>2, <1>3, <1>5, <2>2, <2>3, <2>4
    <2> QED BY <2>5 DEF p
<1> QED BY <1>4, <1>5

\* A webhook is applied to a delivery that has a message, which it keeps.
LEMMA Applied ==
    ASSUME TypeOK, MessagesAccepted, NEW h \in Hook, Applies(h), NEW s \in Subscriber
    PROVE  /\ delivery'[s].msg = delivery[s].msg
           /\ delivery'[s] = NoDelivery <=> delivery[s] = NoDelivery
           /\ delivery'[s] # delivery[s] =>
                 /\ delivery[s].msg # 0
                 /\ delivery'[s].status \in Reported
<1> DEFINE e == hook[h].event
<1>1. CASE delivery' = delivery
    BY <1>1
<1>2. CASE /\ CanTransition(hook[h].loaded.status, e[1])
           /\ delivery' = [delivery EXCEPT ![e[2][2]].status = e[1]]
    <2>1. e \in Event
        BY DEF Applies, MessagesAccepted, DeliveryAccepted, RowAccepted, EventAccepted
    <2>2. e[2][2] \in Subscriber /\ e[1] \in Reported
        BY <2>1 DEF Event, Message
    <2>3. hook[h].loaded # NoDelivery
        BY <1>2 DEF CanTransition, NoDelivery
    <2>4. delivery[e[2][2]] \in Delivery /\ delivery[e[2][2]].msg # 0
        BY <2>2, <2>3, Placeholders DEF MessagesAccepted, DeliveryAccepted, RowAccepted, EventAccepted, TypeOK
    <2> HIDE DEF e
    <2>5. \A t \in Subscriber : delivery'[t] =
                IF t = e[2][2] THEN [delivery[t] EXCEPT !.status = e[1]] ELSE delivery[t]
        BY <1>2 DEF TypeOK
    <2>6. CASE s = e[2][2]
        <3>1. delivery[s] \in Delivery /\ delivery[s].msg # 0
              /\ delivery'[s] = [delivery[s] EXCEPT !.status = e[1]]
            BY <2>4, <2>5, <2>6
        <3>2. delivery'[s].msg = delivery[s].msg /\ delivery'[s].status = e[1]
            BY <3>1 DEF Delivery
        <3> QED BY <2>2, <2>3, <3>1, <3>2, Placeholders
    <2>7. CASE s # e[2][2]
        BY <2>5, <2>7
    <2> QED BY <2>6, <2>7
<1> QED BY <1>1, <1>2 DEF Applies

LEMMA EditionKept ==
    ASSUME TypeOK, RunOK, MessagesAccepted, OneEdition, Moves
    PROVE  OneEdition'
<1>1. ASSUME UNCHANGED <<edition, delivery>>, NEW w \in Worker, Others(w),
             worker'[w].created => worker[w].created /\ worker'[w].ed = worker[w].ed,
             \/ worker'[w].ed = 0
             \/ worker'[w].ed = edition /\ (edition # 0 => ~worker'[w].created)
             \/ worker'[w].ed = worker[w].ed /\ worker'[w].created = worker[w].created
      PROVE  OneEdition'
    BY <1>1 DEF OneEdition, Others
<1>2. ASSUME UNCHANGED <<edition, delivery>>, NEW w \in Worker, Creates(w)
      PROVE  OneEdition'
    <2>1. ~worker[w].created /\ \A v \in Worker \ {w} : ~worker[v].created
        BY <1>2 DEF Creates, OthersCreating, RunOK
    <2>2. CASE edition # 0
        BY <1>2, <2>1, <2>2 DEF Creates, Others, OneEdition
    <2>3. CASE edition = 0
        BY <1>2, <2>1, <2>3 DEF Creates, Others, OneEdition
    <2> QED BY <2>2, <2>3
<1>3. ASSUME UNCHANGED <<edition, delivery>>, NEW w \in Worker,
             Keeps(w) \/ Ends(w) \/ Loads(w) \/ Erases(w)
      PROVE  OneEdition'
    BY <1>1, <1>3 DEF Keeps, Ends, Loads, Fresh, Erases
<1>4. ASSUME NEW w \in Worker, Commits(w)
      PROVE  OneEdition'
    <2>1. worker[w].ed # 0 /\ edition' = worker[w].ed
        BY <1>4 DEF Commits, RunOK
    <2>2. ASSUME NEW v \in Worker \ {w}
          PROVE  ~worker[v].created /\ (worker[v].ed # 0 => worker[v].ed = edition')
        <3>1. v \in Worker /\ (worker[v].created => worker[v].ed # 0)
            BY DEF RunOK
        <3> QED BY <2>1, <3>1 DEF OneEdition
    <2> QED BY <1>4, <2>1, <2>2 DEF Commits, Ends, Fresh, Others, OneEdition
<1>5. ASSUME NEW h \in Hook, Applies(h)
      PROVE  OneEdition'
    BY <1>5, Applied DEF OneEdition, Applies, edVars
<1>6. CASE UNCHANGED <<edVars, delivery, worker>>
    BY <1>6 DEF OneEdition, edVars
<1>7. ASSUME NEW w \in Worker, Works(w), UNCHANGED <<edVars, delivery>>
      PROVE  OneEdition'
    BY <1>2, <1>3, <1>7 DEF Works, Advances, Serves, Skips, Inserts, Drops, edVars
<1> QED BY <1>3, <1>4, <1>5, <1>6, <1>7 DEF Moves, Heeds, Sends, edVars

LEMMA DeliveryKept ==
    ASSUME TypeOK, RunOK, MessagesAccepted, OneEdition, OneDelivery, Moves
    PROVE  OneDelivery'
<1>0. /\ \A w \in Worker : worker[w] \in Run
      /\ \A w \in Worker, s \in Subscriber : worker[w].row[s].new =>
            worker[w].row[s] # NoPending /\ worker[w].pc \in {"next", "insert", "send"}
    BY Placeholders DEF TypeOK, RunOK
<1>1. ASSUME NEW w \in Worker, Others(w), delivery' = delivery,
             \A s \in Subscriber : HasInserted(w, s)' => HasInserted(w, s)
      PROVE  OneDelivery'
    BY <1>1 DEF OneDelivery, Others, HasInserted
<1>2. ASSUME NEW w \in Worker, Fresh(w), delivery' = delivery
      PROVE  OneDelivery'
    <2>1. \A s \in Subscriber : ~HasInserted(w, s)'
        BY <1>2, Placeholders DEF Fresh, HasInserted
    <2> QED BY <1>1, <1>2, <2>1 DEF Fresh
<1>3. ASSUME NEW w \in Worker, Creates(w) \/ Erases(w) \/ Advances(w), delivery' = delivery
      PROVE  OneDelivery'
    <2>1. \A s \in Subscriber : ~HasInserted(w, s)'
        BY <1>0, <1>3 DEF Creates, Erases, Advances, HasInserted
    <2> QED BY <1>1, <1>3, <2>1 DEF Creates, Erases, Advances, Keeps
<1>4. ASSUME NEW w \in Worker, NEW s \in Subscriber, NEW p \in Pending \cup {NoPending},
             Serves(w, s, p) \/ Skips(w, s) \/ Drops(w, s) \/ Sends(w, s, p),
             delivery' = delivery
      PROVE  OneDelivery'
    <2>1. Others(w)
        BY <1>4 DEF Serves, Skips, Drops, Sends, Keeps
    <2>2. ASSUME NEW t \in Subscriber, HasInserted(w, t)'
          PROVE  HasInserted(w, t)
        <3>1. CASE Serves(w, s, p)
            BY <1>0, <2>2, <3>1 DEF Serves, HasInserted, Run
        <3>2. CASE Skips(w, s)
            BY <1>0, <2>2, <3>2 DEF Skips, HasInserted, Run
        <3>3. CASE Drops(w, s)
            <4>1. worker'[w].row = [worker[w].row EXCEPT ![s] = NoPending]
                  /\ worker'[w].row[t].new
                BY <2>2, <3>3 DEF Drops, HasInserted
            <4>2. t # s /\ worker[w].row[t].new
                BY <1>0, <4>1, Placeholders DEF Run
            <4>3. t \notin worker[w].todo
                BY <1>0, <3>3, <4>2 DEF Drops, Current, RunOK, RowOK
            <4> QED BY <4>2, <4>3 DEF HasInserted
        <3>4. CASE Sends(w, s, p)
            BY <1>0, <2>2, <3>4 DEF Sends, HasInserted, Run
        <3> QED BY <1>4, <3>1, <3>2, <3>3, <3>4
    <2> QED BY <1>1, <1>4, <2>1, <2>2
<1>5. ASSUME NEW w \in Worker, NEW s \in Subscriber, Inserts(w, s), delivery' = delivery
      PROVE  OneDelivery'
    <2>0. /\ worker[w].pc = "insert" /\ s \in worker[w].todo /\ worker[w].row[s].new
          /\ Others(w) /\ worker'[w].row = worker[w].row
          /\ worker[w].ed # 0
        BY <1>0, <1>5 DEF Inserts, Keeps, Current, RunOK, RowOK
    <2>1. delivery[s] = NoDelivery
        BY <1>5, <2>0 DEF Inserts, Visible, OneEdition
    <2>2. ASSUME NEW v \in Worker \ {w} PROVE ~HasInserted(v, s)
        <3>1. v \in Worker /\ (HasInserted(v, s) => worker[v].ed # 0)
            BY <1>0 DEF HasInserted, RunOK
        <3>2. HasInserted(v, s) => worker[v].ed # worker[w].ed
            BY <1>5 DEF Inserts, OthersDelivering, HasInserted
        <3> QED BY <2>0, <3>1, <3>2 DEF OneEdition
    <2>3. ASSUME NEW t \in Subscriber \ {s}, HasInserted(w, t)' PROVE HasInserted(w, t)
        <3>1. worker[w].row[t].new /\ t \in Subscriber
            BY <2>0, <2>3 DEF HasInserted
        <3>2. t \notin worker[w].todo
            BY <1>0, <2>0, <2>3, <3>1 DEF RunOK, RowOK
        <3> QED BY <3>1, <3>2 DEF HasInserted
    <2>4. \A v \in Worker \ {w}, t \in Subscriber : HasInserted(v, t)' <=> HasInserted(v, t)
        BY <2>0 DEF Others, HasInserted
    <2> QED BY <1>5, <2>1, <2>2, <2>3, <2>4 DEF OneDelivery
<1>6. ASSUME NEW w \in Worker, Commits(w)
      PROVE  OneDelivery'
    <2>1. \A s \in Subscriber : ~HasInserted(w, s)'
        BY <1>6, Placeholders DEF Commits, Ends, Fresh, HasInserted
    <2>2. \A v \in Worker \ {w}, s \in Subscriber : HasInserted(v, s)' <=> HasInserted(v, s)
        BY <1>6 DEF Commits, Ends, Fresh, Others, HasInserted
    <2>3. ASSUME NEW v \in Worker \ {w}, NEW s \in Subscriber, HasInserted(v, s)
          PROVE  delivery'[s] = NoDelivery
        <3>1. delivery[s] = NoDelivery /\ ~HasInserted(w, s)
            BY <2>3 DEF OneDelivery
        <3> QED BY <1>6, <3>1, RunEnded
    <2> QED BY <2>1, <2>2, <2>3 DEF OneDelivery
<1>7. ASSUME NEW h \in Hook, Applies(h)
      PROVE  OneDelivery'
    <2>1. \A v \in Worker, s \in Subscriber : HasInserted(v, s)' <=> HasInserted(v, s)
        BY <1>7 DEF Applies, HasInserted
    <2> QED BY <1>7, <2>1, Applied DEF OneDelivery
<1>8. CASE UNCHANGED <<delivery, worker>>
    BY <1>8 DEF OneDelivery, HasInserted
<1>9. ASSUME NEW w \in Worker, Works(w), delivery' = delivery
      PROVE  OneDelivery'
    BY <1>2, <1>3, <1>4, <1>5, <1>9 DEF Works, Loads
<1>10. ASSUME NEW w \in Worker, Ends(w), delivery' = delivery
       PROVE  OneDelivery'
    BY <1>2, <1>10 DEF Ends
<1> QED BY <1>4, <1>6, <1>7, <1>8, <1>9, <1>10 DEF Moves, Heeds

LEMMA MessagesKept ==
    ASSUME TypeOK, RunOK, MessagesAccepted, Moves
    PROVE  MessagesAccepted'
<1> USE DEF MessagesAccepted
<1>0. /\ \A w \in Worker : worker[w] \in Run
      /\ \A h \in Hook : hook[h] \in Request
    BY DEF TypeOK
<1>1. ASSUME UNCHANGED <<delivery, hook>>, NEW w \in Worker, Others(w),
             accepted \subseteq accepted', \A s \in Subscriber : RowAccepted(w, s)'
      PROVE  MessagesAccepted'
    BY <1>1 DEF Others, DeliveryAccepted, RowAccepted, EventAccepted
<1>2. ASSUME UNCHANGED <<delivery, hook, accepted>>, NEW w \in Worker, Others(w),
             \/ worker'[w].row = worker[w].row
             \/ Fresh(w)
      PROVE  MessagesAccepted'
    <2>1. \A s \in Subscriber : RowAccepted(w, s)'
        BY <1>2, Placeholders DEF RowAccepted, Fresh
    <2> QED BY <1>1, <1>2, <2>1
<1>3. ASSUME UNCHANGED <<delivery, hook>>, NEW w \in Worker, NEW s \in Subscriber,
             NEW p \in Pending \cup {NoPending}, Others(w), accepted \subseteq accepted',
             worker'[w].row = [worker[w].row EXCEPT ![s] = p],
             /\ p.msg # 0 => <<p.msg, s>> \in accepted'
             /\ p.loaded # NoDelivery => delivery[s] # NoDelivery
             /\ p.loaded.msg # 0 => delivery[s].msg # 0
      PROVE  MessagesAccepted'
    <2>1. ASSUME NEW t \in Subscriber PROVE RowAccepted(w, t)'
        <3>1. CASE t = s
            BY <1>0, <1>3, <3>1 DEF RowAccepted, Run
        <3>2. CASE t # s
            BY <1>0, <1>3, <3>2 DEF RowAccepted, Run
        <3> QED BY <3>1, <3>2
    <2> QED BY <1>1, <1>3, <2>1
<1>4. ASSUME UNCHANGED <<delivery, hook, accepted>>, NEW w \in Worker, Works(w)
      PROVE  MessagesAccepted'
    <2>1. CASE Loads(w) \/ Creates(w) \/ Erases(w) \/ Advances(w)
        BY <1>2, <1>4, <2>1 DEF Loads, Fresh, Creates, Erases, Advances, Keeps
    <2>2. ASSUME NEW s \in Subscriber, NEW p \in Pending, Serves(w, s, p)
          PROVE  MessagesAccepted'
        <3>1. \/ p = [new |-> TRUE, loaded |-> NoDelivery, status |-> "QUEUED", msg |-> 0]
              \/ /\ delivery[s] # NoDelivery
                 /\ p = [new |-> FALSE, loaded |-> delivery[s], status |-> "QUEUED",
                         msg |-> delivery[s].msg]
            BY <2>2 DEF Serves
        <3>2. /\ p.msg # 0 => <<p.msg, s>> \in accepted
              /\ p.loaded # NoDelivery => delivery[s] # NoDelivery
              /\ p.loaded.msg # 0 => delivery[s].msg # 0
            BY <3>1, Placeholders DEF DeliveryAccepted
        <3> QED BY <1>3, <1>4, <2>2, <3>2 DEF Serves, Keeps
    <2>3. ASSUME NEW s \in Subscriber, Skips(w, s) \/ Inserts(w, s)
          PROVE  MessagesAccepted'
        BY <1>2, <1>4, <2>3 DEF Skips, Inserts, Keeps
    <2>4. ASSUME NEW s \in Subscriber, Drops(w, s)
          PROVE  MessagesAccepted'
        BY <1>3, <1>4, <2>4, Placeholders DEF Drops, Keeps
    <2> QED BY <1>4, <2>1, <2>2, <2>3, <2>4 DEF Works
<1>5. ASSUME UNCHANGED <<delivery, hook>>, NEW w \in Worker, NEW s \in Subscriber,
             NEW p \in Pending, Sends(w, s, p)
      PROVE  MessagesAccepted'
    <2>1. RowAccepted(w, s)
        OBVIOUS
    <2>2. /\ p.msg # 0 => <<p.msg, s>> \in accepted'
          /\ p.loaded # NoDelivery => delivery[s] # NoDelivery
          /\ p.loaded.msg # 0 => delivery[s].msg # 0
        BY <1>5, <2>1 DEF RowAccepted, Sends
    <2> QED BY <1>3, <1>5, <2>2 DEF Sends, Keeps
<1>6. ASSUME UNCHANGED <<accepted, hook>>, NEW w \in Worker, Commits(w)
      PROVE  MessagesAccepted'
    <2>1. ASSUME NEW s \in Subscriber
          PROVE  /\ DeliveryAccepted(s)'
                 /\ delivery[s].msg # 0 => delivery'[s].msg # 0
                 /\ delivery[s] # NoDelivery => delivery'[s] # NoDelivery
        <3>1. DeliveryAccepted(s) /\ RowAccepted(w, s)
            OBVIOUS
        <3> QED BY <1>6, <3>1, RunEnded DEF DeliveryAccepted, RowAccepted
    <2>2. ASSUME NEW v \in Worker, NEW s \in Subscriber
          PROVE  RowAccepted(v, s)'
        <3>1. CASE v = w
            BY <1>6, <3>1, Placeholders DEF RowAccepted, Commits, Ends, Fresh
        <3>2. CASE v # w
            BY <1>6, <2>1, <3>2 DEF RowAccepted, Commits, Ends, Fresh, Others
        <3> QED BY <3>1, <3>2
    <2>3. ASSUME NEW h \in Hook
          PROVE  EventAccepted(h)'
        <3>1. hook[h].loaded # NoDelivery => hook[h].event[2][2] \in Subscriber
            BY <1>0 DEF EventAccepted, Request, Event, Message
        <3> QED BY <1>6, <2>1, <3>1 DEF EventAccepted
    <2> QED BY <2>1, <2>2, <2>3
<1>7. ASSUME NEW h \in Hook, Applies(h)
      PROVE  MessagesAccepted'
    <2>1. UNCHANGED <<worker, accepted>> /\ hook' = [hook EXCEPT ![h] = IdleHook]
        BY <1>7 DEF Applies, mailVars
    <2>2. ASSUME NEW s \in Subscriber
          PROVE  DeliveryAccepted(s)'
        BY <1>7, <2>1, Applied DEF DeliveryAccepted
    <2>3. ASSUME NEW w \in Worker, NEW s \in Subscriber
          PROVE  RowAccepted(w, s)'
        BY <1>7, <2>1, Applied DEF RowAccepted
    <2>4. ASSUME NEW g \in Hook
          PROVE  EventAccepted(g)'
        <3>1. CASE g = h
            BY <1>0, <2>1, <3>1 DEF EventAccepted, IdleHook, TypeOK
        <3>2. CASE g # h
            <4>1. hook'[g] = hook[g]
                BY <2>1, <3>2 DEF TypeOK
            <4>2. hook[g].loaded # NoDelivery => hook[g].event[2][2] \in Subscriber
                BY DEF EventAccepted, Event, Message
            <4> QED BY <1>7, <4>1, <4>2, Applied DEF EventAccepted
        <3> QED BY <3>1, <3>2
    <2> QED BY <2>2, <2>3, <2>4
<1>8. ASSUME NEW h \in Hook, Heeds(h)
      PROVE  MessagesAccepted'
    <2>1. PICK e \in Event, k \in Key : hook' = [hook EXCEPT ![h] =
                       [pc |-> "loaded", event |-> e, key |-> k,
                        loaded |-> IF delivery[e[2][2]].msg = e[2][1]
                                   THEN delivery[e[2][2]] ELSE NoDelivery]]
        BY <1>8 DEF Heeds
    <2>2. UNCHANGED <<delivery, accepted, worker>>
        BY <1>8 DEF Heeds, mailVars
    <2>3. e[2][1] # 0
        BY Placeholders DEF Event, Message
    <2>4. ASSUME NEW g \in Hook
          PROVE  EventAccepted(g)'
        <3>1. CASE g = h
            BY <1>0, <2>1, <2>2, <2>3, <3>1 DEF EventAccepted, TypeOK
        <3>2. CASE g # h
            BY <2>1, <2>2, <3>2 DEF EventAccepted, TypeOK
        <3> QED BY <3>1, <3>2
    <2> QED BY <2>2, <2>4 DEF DeliveryAccepted, RowAccepted
<1>9. CASE UNCHANGED <<delivery, mailVars, worker, hook>>
    BY <1>9 DEF DeliveryAccepted, RowAccepted, EventAccepted, mailVars
<1>10. ASSUME NEW w \in Worker, Ends(w), UNCHANGED <<delivery, hook, accepted>>
       PROVE  MessagesAccepted'
    BY <1>2, <1>10 DEF Ends, Fresh
<1> QED BY <1>4, <1>5, <1>6, <1>7, <1>8, <1>9, <1>10 DEF Moves, mailVars

LEMMA CallsKept ==
    ASSUME TypeOK, RunOK, MessagesAccepted, OneDelivery, CallsCounted, Moves
    PROVE  CallsCounted'
<1>0. /\ \A w \in Worker : worker[w] \in Run
      /\ calls \in [Subscriber -> Nat] /\ rollbacks \in Nat
    BY DEF TypeOK
<1>1. ASSUME calls' = calls, rollbacks' = rollbacks,
             \A s \in Subscriber : Recorded(s) => Recorded(s)'
      PROVE  CallsCounted'
    BY <1>0, <1>1 DEF CallsCounted
<1>2. ASSUME delivery' = delivery, NEW w \in Worker, Others(w), NEW s \in Subscriber,
             Called(w, s) => Called(w, s)', Recorded(s)
      PROVE  Recorded(s)'
    BY <1>2 DEF Recorded, Others, Called
<1>3. ASSUME NEW w \in Worker, NEW s \in Subscriber, Called(w, s)
      PROVE  /\ worker[w].pc \in {"next", "insert", "send"} /\ s \notin worker[w].todo
             /\ HasInserted(w, s)
    <2>1. worker[w].row[s] # NoPending
        BY <1>3, Placeholders DEF Called
    <2> QED BY <1>3, <2>1 DEF Called, HasInserted, RunOK, RowOK
<1>4. ASSUME NEW w \in Worker, Works(w), NEW s \in Subscriber, Called(w, s)
      PROVE  Called(w, s)'
    <2>1. worker[w].row[s].new /\ worker[w].pc \notin {"idle", "select", "update", "list"}
          /\ s \notin worker[w].todo
        BY <1>3, <1>4 DEF Called
    <2>2. ~Loads(w) /\ ~Creates(w) /\ ~Erases(w) /\ ~Advances(w)
        BY <2>1 DEF Loads, Creates, Erases, Advances
    <2>3. PICK t \in Subscriber : \/ \E p \in Pending : Serves(w, t, p)
                                  \/ Skips(w, t) \/ Inserts(w, t) \/ Drops(w, t)
        BY <1>4, <2>2 DEF Works
    <2>4. CASE Skips(w, t) \/ Inserts(w, t)
        BY <1>4, <2>4 DEF Skips, Inserts, Called
    <2>5. CASE Drops(w, t)
        BY <1>0, <1>4, <2>1, <2>5 DEF Drops, Called, Current, Run
    <2>6. ASSUME NEW p \in Pending, Serves(w, t, p)
          PROVE  Called(w, s)'
        BY <1>0, <1>4, <2>1, <2>6 DEF Serves, Called, Run
    <2> QED BY <2>3, <2>4, <2>5, <2>6
<1>5. ASSUME NEW w \in Worker, Works(w), UNCHANGED <<delivery, mailVars, rollbacks>>
      PROVE  CallsCounted'
    <2>1. Others(w)
        BY <1>5 DEF Works, Loads, Fresh, Creates, Erases, Advances, Serves, Skips, Inserts,
                    Drops, Keeps
    <2> QED BY <1>1, <1>2, <1>4, <1>5, <2>1 DEF mailVars
<1>6. ASSUME NEW w \in Worker, NEW s \in Subscriber, NEW p \in Pending, Sends(w, s, p),
             UNCHANGED <<delivery, rollbacks>>
      PROVE  CallsCounted'
    <2>0. /\ worker[w].pc = "send" /\ s \in worker[w].todo /\ worker[w].row[s] # NoPending
          /\ Others(w) /\ worker'[w].row = [worker[w].row EXCEPT ![s] = p]
          /\ p.new = worker[w].row[s].new /\ worker'[w].todo = worker[w].todo \ {s}
        BY <1>6 DEF Sends, Keeps, Current
    <2>1. \A t \in Subscriber : Recorded(t) => Recorded(t)'
        <3>1. ASSUME NEW t \in Subscriber, Called(w, t) PROVE Called(w, t)'
            <4>1. t # s
                BY <1>3, <2>0, <3>1
            <4> QED BY <1>0, <2>0, <3>1, <4>1 DEF Called, Run
        <3> QED BY <1>2, <1>6, <2>0, <3>1
    <2>2. CASE calls' = calls
        BY <1>1, <1>6, <2>1, <2>2 DEF Sends
    <2>3. CASE ~worker[w].test /\ calls' = [calls EXCEPT ![s] = @ + 1]
        <3>1. worker[w].row[s].new /\ HasInserted(w, s)
            BY <2>0, <2>3 DEF RunOK, RowOK, HasInserted
        <3>2. ~Called(w, s)
            BY <2>0 DEF Called
        <3>3. ~Recorded(s)
            BY <1>3, <3>1, <3>2 DEF Recorded, OneDelivery
        <3>4. Recorded(s)'
            BY <1>0, <2>0, <3>1 DEF Recorded, Called, Run
        <3>5. calls' = [calls EXCEPT ![s] = @ + 1]
            BY <2>3
        <3>6. ASSUME NEW t \in Subscriber
              PROVE  calls'[t] <= rollbacks' + (IF Recorded(t)' THEN 1 ELSE 0)
            <4>1. CASE t = s
                <5>1. calls[s] <= rollbacks
                    BY <1>0, <3>3 DEF CallsCounted
                <5> QED BY <1>0, <1>6, <3>4, <3>5, <4>1, <5>1
            <4>2. CASE t # s
                BY <1>0, <1>6, <2>1, <3>5, <4>2 DEF CallsCounted
            <4> QED BY <4>1, <4>2
        <3> QED BY <3>6 DEF CallsCounted
    <2> QED BY <1>6, <2>2, <2>3 DEF Sends
<1>7. ASSUME NEW w \in Worker, Commits(w), UNCHANGED <<mailVars, rollbacks>>
      PROVE  CallsCounted'
    <2>1. ASSUME NEW s \in Subscriber, Recorded(s)
          PROVE  Recorded(s)'
        <3>1. CASE delivery[s] # NoDelivery
            BY <1>7, <3>1, RunEnded DEF Recorded
        <3>2. CASE Called(w, s)
            BY <1>7, <3>2, RunEnded, Placeholders DEF Recorded, Called
        <3>3. ASSUME NEW v \in Worker \ {w}, Called(v, s)
              PROVE  Recorded(s)'
            BY <1>7, <3>3 DEF Recorded, Called, Commits, Ends, Fresh, Others
        <3> QED BY <2>1, <3>1, <3>2, <3>3 DEF Recorded
    <2> QED BY <1>1, <1>7, <2>1 DEF mailVars
<1>8. ASSUME UNCHANGED <<mailVars, delivery>>, rollbacks' = rollbacks + 1
      PROVE  CallsCounted'
    BY <1>0, <1>8 DEF CallsCounted, mailVars
<1>9. ASSUME NEW h \in Hook, Applies(h)
      PROVE  CallsCounted'
    BY <1>1, <1>9, Applied DEF Applies, Recorded, Called, mailVars
<1>10. CASE UNCHANGED <<delivery, mailVars, worker, rollbacks>>
    BY <1>1, <1>10 DEF Recorded, Called, mailVars
<1> QED BY <1>5, <1>6, <1>7, <1>8, <1>9, <1>10 DEF Moves, Heeds

LEMMA StoriesRefilled ==
    ASSUME TypeOK, RunOK, OneEdition, EmptyRefilled, Moves
    PROVE  /\ EmptyRefilled'
           /\ edition # 0 /\ ~wasEmpty => stories' = stories
<1> DEFINE Keen(w) == \/ wasEmpty
                      \/ worker[w].created
                      \/ /\ worker[w].pc = "select" => worker[w].ed = 0
                         /\ worker[w].pc # "update"
                         /\ worker[w].erased = {} /\ worker[w].found = {}
<1>1. ASSUME UNCHANGED edVars, NEW w \in Worker, Others(w), Keen(w)'
      PROVE  EmptyRefilled' /\ stories' = stories
    BY <1>1 DEF EmptyRefilled, Others, edVars
<1>2. ASSUME UNCHANGED edVars, NEW w \in Worker, Works(w)
      PROVE  EmptyRefilled' /\ stories' = stories
    <2>0. Keen(w) /\ Others(w)
        BY <1>2 DEF EmptyRefilled, Works, Loads, Fresh, Creates, Erases, Advances, Serves, Skips,
                    Inserts, Drops, Keeps
    <2>1. CASE Loads(w)
        BY <1>1, <1>2, <2>0, <2>1 DEF Loads, Fresh, EmptyRefilled, edVars
    <2>2. CASE Creates(w)
        BY <1>1, <1>2, <2>0, <2>2 DEF Creates, edVars
    <2>3. CASE Erases(w)
        BY <1>1, <1>2, <2>0, <2>3 DEF Erases, edVars
    <2>4. ASSUME Keeps(w), worker'[w].pc \notin {"select", "update"}
          PROVE  EmptyRefilled' /\ stories' = stories
        BY <1>1, <1>2, <2>0, <2>4 DEF Keeps, edVars
    <2> QED BY <1>2, <2>1, <2>2, <2>3, <2>4 DEF Works, Advances, Serves, Skips, Inserts, Drops
<1>3. ASSUME NEW w \in Worker, NEW s \in Subscriber, NEW p \in Pending, Sends(w, s, p),
             UNCHANGED edVars
      PROVE  EmptyRefilled' /\ stories' = stories
    BY <1>1, <1>3 DEF Sends, Keeps, edVars, EmptyRefilled
<1>4. ASSUME NEW w \in Worker, Commits(w)
      PROVE  /\ EmptyRefilled'
             /\ edition # 0 /\ ~wasEmpty => stories' = stories
    <2>1. Keen(w) /\ worker[w].ed # 0
        BY <1>4 DEF EmptyRefilled, Commits, RunOK
    <2>2. edition # 0 /\ ~wasEmpty => stories' = stories
        BY <1>4, <2>1 DEF Commits, OneEdition
    <2>3. wasEmpty' = (wasEmpty \/ stories' = {})
        BY <1>4 DEF Commits
    <2>4. ASSUME NEW v \in Worker PROVE Keen(v)'
        <3>1. CASE v = w
            BY <1>4, <3>1 DEF Commits, Ends, Fresh
        <3>2. CASE v # w
            BY <1>4, <2>3, <3>2 DEF EmptyRefilled, Commits, Ends, Fresh, Others
        <3> QED BY <3>1, <3>2
    <2> QED BY <2>2, <2>3, <2>4 DEF EmptyRefilled
<1>5. ASSUME NEW w \in Worker, Ends(w), UNCHANGED edVars
      PROVE  EmptyRefilled' /\ stories' = stories
    BY <1>1, <1>5 DEF Ends, Fresh
<1>6. CASE UNCHANGED <<edVars, worker>>
    BY <1>6 DEF EmptyRefilled, edVars
<1> QED BY <1>2, <1>3, <1>4, <1>5, <1>6 DEF Moves, Applies, Heeds, edVars

\* The requests about subscriptions.  A commit of one whose copy is not stale
\* makes the row what the copy is.
LEMMA FormsKept ==
    ASSUME TypeOK, FormOK, EnabledIsVerified, [Next]_vars
    PROVE  FormOK' /\ EnabledIsVerified'
<1>0. /\ \A f \in Form : form[f].pc # "idle" => form[f] \in Asked
      /\ form \in [Form -> Asked \cup {IdleForm}] /\ profile \in [Subscriber -> Profile]
      /\ proven \in [Subscriber -> SUBSET Address]
    BY DEF TypeOK, IdleForm
<1>1. ASSUME NEW f \in Form, NEW s \in Subscriber,
             \/ SavePreferences(f, s) \/ RequestVerification(f, s) \/ Unsubscribe(f, s)
             \/ \E google \in BOOLEAN : Verify(f, s, google)
      PROVE  FormOK' /\ EnabledIsVerified'
    <2>1. Asks(f)
        BY <1>1, Loaded
    <2>2. PICK q \in Asked : /\ q.pc = "loaded" /\ Honest(q)
                            /\ form' = [form EXCEPT ![f] = q]
        BY <2>1 DEF Asks
    <2>3. UNCHANGED <<profile, proven, stale>>
        BY <2>1 DEF Asks
    <2>4. form'[f] = q /\ \A g \in Form \ {f} : form'[g] = form[g]
        BY <1>0, <2>2
    <2>5. OneForm'
        BY <2>2, <2>4 DEF FormOK, OneForm
    <2>6. ASSUME NEW g \in Form PROVE Held(form[g])' /\ Honest(form'[g])
        BY <2>2, <2>3, <2>4 DEF FormOK, Held
    <2> QED BY <2>3, <2>5, <2>6 DEF FormOK, EnabledIsVerified, Held, Honest
<1>2. ASSUME NEW f \in Form, Flush(f)
      PROVE  FormOK' /\ EnabledIsVerified'
    <2> DEFINE r == form[f]
    <2>1. /\ r \in Asked /\ r.pc = "loaded"
          /\ \A g \in Form : form[g].pc = "written" => form[g].of # r.of
          /\ form' = [form EXCEPT ![f] = [r EXCEPT !.pc = "written"]]
          /\ stale' = IF r.columns # {} /\ profile[r.of] # r.base THEN stale \cup {r.of}
                      ELSE stale
          /\ UNCHANGED <<profile, proven>>
        BY <1>0, <1>2 DEF Flush
    <2> DEFINE q == [r EXCEPT !.pc = "written"]
    <2>2. /\ q.pc = "written" /\ q.of = r.of /\ q.base = r.base /\ q.copy = r.copy
          /\ q.columns = r.columns /\ q.proof = r.proof
        BY <2>1 DEF Asked
    <2>3. form'[f] = q /\ \A g \in Form \ {f} : form'[g] = form[g]
        BY <1>0, <2>1
    <2> HIDE DEF q
    <2>4. OneForm'
        BY <2>1, <2>2, <2>3 DEF FormOK, OneForm
    <2>5. Honest(q)
        BY <2>1, <2>2 DEF FormOK, Honest
    <2>6. q.columns # {} /\ q.of \notin stale' => q.base = profile'[q.of]
        BY <2>1, <2>2
    <2>7. ASSUME NEW g \in Form
          PROVE  Honest(form'[g]) /\ Held(form[g])' 
        <3>1. CASE g = f
            BY <2>2, <2>3, <2>5, <2>6, <3>1 DEF Held
        <3>2. CASE g # f
            BY <2>1, <2>3, <3>2 DEF FormOK, Held
        <3> QED BY <3>1, <3>2
    <2>8. EnabledIsVerified'
        BY <2>1 DEF EnabledIsVerified
    <2> QED BY <2>4, <2>7, <2>8 DEF FormOK, Honest
<1>3. ASSUME NEW f \in Form, Save(f)
      PROVE  FormOK' /\ EnabledIsVerified'
    <2> DEFINE r == form[f]
               s == r.of
               m == Merged(profile[s], r.copy, r.columns)
    <2>1. /\ r \in Asked /\ r.pc = "written" /\ s \in Subscriber /\ r.proof \in SUBSET Address
          /\ profile' = [profile EXCEPT ![s] = m]
          /\ proven' = [proven EXCEPT ![s] = @ \cup r.proof]
          /\ form' = [form EXCEPT ![f] = IdleForm] /\ stale' = stale
        BY <1>0, <1>3 DEF Save, Asked
    <2>2. form'[f] = IdleForm /\ \A g \in Form \ {f} : form'[g] = form[g]
        BY <1>0, <2>1
    <2>3. \A u \in Subscriber \ {s} : profile'[u] = profile[u] /\ proven'[u] = proven[u]
        BY <1>0, <2>1
    <2>4. OneForm'
        BY <2>2 DEF FormOK, OneForm, IdleForm
    <2>5. ASSUME NEW g \in Form
          PROVE  Honest(form'[g]) /\ Held(form[g])'
        <3>1. CASE g = f
            BY <2>2, <3>1 DEF Honest, Held, IdleForm
        <3>2. CASE g # f
            <4>1. form[g].pc = "written" => form[g] \in Asked /\ form[g].of # s
                BY <1>0, <2>1, <3>2 DEF FormOK, OneForm
            <4>2. form[g] \in Asked => form[g].of \in Subscriber
                BY DEF Asked
            <4> QED BY <2>1, <2>2, <2>3, <3>2, <4>1, <4>2 DEF FormOK, Held
        <3> QED BY <3>1, <3>2
    <2>6. profile[s] \in Profile /\ r.copy \in Profile /\ r.columns \in SUBSET Column
          /\ profile'[s] = m /\ proven'[s] = proven[s] \cup r.proof
        BY <1>0, <2>1 DEF Asked
    <2>7. ASSUME s \notin stale
          PROVE  /\ profile'[s].enabled => profile'[s].verified
                 /\ profile'[s].verified => profile'[s].addr \in proven'[s]
        <3>1. /\ profile[s].enabled => profile[s].verified
              /\ profile[s].verified => profile[s].addr \in proven[s]
            BY <2>1, <2>7 DEF EnabledIsVerified
        <3>2. CASE r.columns = {}
            <4>1. m = profile[s]
                BY <2>6, <3>2 DEF Merged, Profile
            <4> QED BY <2>6, <3>1, <4>1
        <3>3. CASE r.columns # {}
            <4>1. r.base = profile[s] /\ m = r.copy
                BY <2>1, <2>7, <3>3 DEF FormOK, Held, Honest
            <4>2. /\ r.copy.enabled => r.copy.verified \/ (r.base.enabled /\ ~r.base.verified)
                  /\ r.copy.verified => \/ r.copy.addr \in r.proof
                                        \/ r.base.verified /\ r.copy.addr = r.base.addr
                BY <2>1 DEF FormOK, Honest
            <4> HIDE DEF m, r, s
            <4> QED BY <2>6, <3>1, <4>1, <4>2
        <3> QED BY <3>2, <3>3
    <2>8. EnabledIsVerified'
        BY <2>1, <2>3, <2>7 DEF EnabledIsVerified
    <2> QED BY <2>4, <2>5, <2>8 DEF FormOK, Honest
<1>4. ASSUME NEW f \in Form, Fail(f)
      PROVE  FormOK' /\ EnabledIsVerified'
    <2>1. form'[f] = IdleForm /\ \A g \in Form \ {f} : form'[g] = form[g]
        BY <1>0, <1>4 DEF Fail
    <2>2. UNCHANGED <<profile, proven, stale>>
        BY <1>4 DEF Fail
    <2>3. OneForm'
        BY <2>1 DEF FormOK, OneForm, IdleForm
    <2>4. ASSUME NEW g \in Form
          PROVE  Honest(form'[g]) /\ Held(form[g])'
        BY <2>1, <2>2 DEF FormOK, Honest, Held, IdleForm
    <2> QED BY <2>2, <2>3, <2>4 DEF FormOK, EnabledIsVerified, Honest
<1>5. CASE UNCHANGED subVars
    BY <1>5 DEF subVars, FormOK, OneForm, Held, Honest, EnabledIsVerified
<1>6. ASSUME NEW w \in Worker,
             \/ StartRun(w) \/ StartTest(w) \/ Select(w) \/ WriteEdition(w) \/ ListDue(w)
             \/ Commit(w) \/ Rollback(w)
      PROVE  UNCHANGED subVars
    BY <1>6 DEF StartRun, StartTest, LoadEdition, Select, CreateEdition, EraseItems, WriteEdition,
                ListDue, Commit, Rollback
<1>7. ASSUME NEW w \in Worker, NEW s \in Subscriber,
             \/ CheckDelivery(w, s) \/ InsertDelivery(w, s) \/ Send(w, s) \/ LoseMessage(w, s)
             \/ LoseSubscriber(w, s)
      PROVE  UNCHANGED subVars
    BY <1>7 DEF CheckDelivery, InsertDelivery, Send, LoseMessage, LoseSubscriber
<1>8. ASSUME NEW h \in Hook, Receive(h) \/ CommitHook(h)
      PROVE  UNCHANGED subVars
    BY <1>8 DEF Receive, CommitHook
<1> QED BY <1>1, <1>2, <1>3, <1>4, <1>5, <1>6, <1>7, <1>8 DEF Next, vars

-----------------------------------------------------------------------------
(* The theorems.                                                           *)

IInv ==
    /\ TypeOK /\ EnabledIsVerified
    /\ RunOK /\ OneEdition /\ OneDelivery /\ MessagesAccepted
    /\ CallsCounted /\ EmptyRefilled /\ FormOK

LEMMA Inductive == Spec => []IInv
<1>1. Init => IInv
    BY TypeInit, RunInit DEF IInv
<1>2. IInv /\ [Next]_vars => IInv'
    <2> SUFFICES ASSUME IInv, [Next]_vars PROVE IInv'
        OBVIOUS
    <2>1. TypeOK' /\ Moves
        BY TypeAndMoves DEF IInv
    <2> QED BY <2>1, RunKept, EditionKept, DeliveryKept, MessagesKept, CallsKept,
               StoriesRefilled, FormsKept DEF IInv
<1> QED BY <1>1, <1>2, PTL DEF Spec

\* Every variable has its type: of the rows that runs commit, also those whose
\* dispatch has raised, and of the requests with the columns they write.
THEOREM TypeCorrect == Spec => []TypeOK
<1>1. IInv => TypeOK
    BY DEF IInv
<1> QED BY <1>1, Inductive, PTL

\* A subscription that is on belongs to an address that was itself verified, by
\* a link or by the Google account, unless a request has once written over a row
\* that another one had changed (POST /preferences, GET /verify).
THEOREM OnlyVerified == Spec => []EnabledIsVerified
<1>1. IInv => EnabledIsVerified
    BY DEF IInv
<1> QED BY <1>1, Inductive, PTL

\* A delivery recorded as sent, or as more than sent, is of a message that the
\* provider has accepted for that subscriber (dispatch_delivery, process_event).
THEOREM SentIsAccepted == Spec => []SentMeansAccepted
<1>1. IInv => SentMeansAccepted
    BY DEF IInv, MessagesAccepted, DeliveryAccepted, SentMeansAccepted
<1> QED BY <1>1, Inductive, PTL

\* However many runs overlap, a subscriber is sent the briefing of the day once,
\* and once more for each run that was rolled back (the unique key and the
\* savepoint of dispatch_delivery).
THEOREM SentOncePerRollback == Spec => []SentOnce
<1>1. IInv => SentOnce
    <2> SUFFICES ASSUME IInv, NEW s \in Subscriber PROVE calls[s] <= 1 + rollbacks
        BY DEF SentOnce
    <2>1. calls[s] \in Nat /\ rollbacks \in Nat
        BY DEF IInv, TypeOK
    <2>2. calls[s] <= rollbacks + (IF Recorded(s) THEN 1 ELSE 0)
        BY DEF IInv, CallsCounted
    <2> QED BY <2>1, <2>2
<1> QED BY <1>1, Inductive, PTL

\* No commit replaces the stories of an edition that has had stories since it
\* was created (get_or_create_daily_edition).
THEOREM StoriesStay == Spec => StoriesKept
<1>1. IInv /\ [Next]_vars => [edition # 0 /\ ~wasEmpty => stories' = stories]_vars
    BY TypeAndMoves, StoriesRefilled DEF IInv
<1> QED BY <1>1, Inductive, PTL DEF Spec, StoriesKept

\* A delivery that has bounced, failed or drawn a complaint keeps its status, and
\* one that was delivered draws a complaint at most; except by the commit of a test
\* send, and by that of a webhook which has loaded another status than it is.
THEOREM StatusForward == Spec => NeverUnsent
<1> DEFINE Tested == \E w \in Worker : worker[w].test /\ worker[w].todo = {} /\ Commit(w)
           Overtaken(s) == \E h \in Hook : /\ hook[h].loaded.status # delivery[s].status
                                          /\ CommitHook(h)
                                          /\ hook[h].event[2][2] = s
           Forward(s) == \/ delivery'[s].status = delivery[s].status
                         \/ delivery[s].status \in {"none", "QUEUED", "SENT"}
                         \/ delivery[s].status = "DELIVERED" /\ delivery'[s].status = "COMPLAINED"
<1>1. ASSUME IInv, [Next]_vars, NEW s \in Subscriber
      PROVE  Forward(s) \/ Tested \/ Overtaken(s)
    <2>0. TypeOK /\ RunOK /\ MessagesAccepted /\ OneDelivery /\ Moves
        BY <1>1, TypeAndMoves DEF IInv
    <2>1. ASSUME NEW w \in Worker, Commits(w) PROVE Forward(s) \/ Tested
        <3>1. CASE worker[w].test
            BY <2>1, <3>1 DEF Commits
        <3>2. CASE ~worker[w].test
            <4>1. CASE worker[w].row[s] = NoPending
                BY <2>0, <2>1, <4>1, RunEnded
            <4>2. CASE worker[w].row[s] # NoPending
                <5>1. delivery[s] = NoDelivery
                    BY <2>0, <2>1, <3>2, <4>2, RunEnded DEF OneDelivery
                <5> QED BY <5>1 DEF NoDelivery
            <4> QED BY <4>1, <4>2
        <3> QED BY <3>1, <3>2
    <2>2. ASSUME NEW h \in Hook, Applies(h) PROVE Forward(s) \/ Overtaken(s)
        <3> DEFINE e == hook[h].event
        <3>1. CASE delivery' = delivery
            BY <3>1
        <3>2. CASE /\ CanTransition(hook[h].loaded.status, e[1])
                   /\ delivery' = [delivery EXCEPT ![e[2][2]].status = e[1]]
            <4>1. delivery[s] \in Delivery \cup {NoDelivery}
                BY <2>0 DEF TypeOK
            <4>2. CASE e[2][2] # s
                BY <2>0, <3>2, <4>2 DEF TypeOK
            <4>3. CASE e[2][2] = s /\ hook[h].loaded.status # delivery[s].status
                BY <2>2, <4>3 DEF Applies
            <4>4. CASE e[2][2] = s /\ hook[h].loaded.status = delivery[s].status
                <5>1. delivery' = [delivery EXCEPT ![s] = [delivery[s] EXCEPT !.status = e[1]]]
                    BY <3>2, <4>4
                <5>2. delivery'[s].status = e[1]
                    BY <2>0, <4>1, <5>1 DEF TypeOK, Delivery, NoDelivery
                <5> QED BY <3>2, <4>4, <5>2 DEF CanTransition
            <4> QED BY <4>2, <4>3, <4>4
        <3> QED BY <2>2, <3>1, <3>2 DEF Applies
    <2>3. CASE delivery' = delivery
        BY <2>3
    <2> QED BY <2>0, <2>1, <2>2, <2>3 DEF Moves, Heeds
<1>2. IInv /\ [Next]_vars =>
        [\A s \in Subscriber :
            \/ delivery'[s].status = delivery[s].status
            \/ delivery[s].status \in {"none", "QUEUED", "SENT"}
            \/ delivery[s].status = "DELIVERED" /\ delivery'[s].status = "COMPLAINED"
            \/ \E w \in Worker : worker[w].test /\ worker[w].todo = {} /\ Commit(w)
            \/ \E h \in Hook : /\ hook[h].loaded.status # delivery[s].status
                               /\ CommitHook(h)
                               /\ hook[h].event[2][2] = s]_vars
    BY <1>1
<1> QED BY <1>2, Inductive, PTL DEF Spec, NeverUnsent

===============================================================================
