------------------------------- MODULE Briefing -------------------------------
(***************************************************************************)
(* The Daily Briefing of one day: the edition and its stories, the runs    *)
(* that dispatch it to the subscribers who are due, the test sends of      *)
(* users, the preferences of subscribers and the e-mail provider's         *)
(* webhooks (app/briefing/service.py and models.py,                        *)
(* app/tasks/briefing_tasks.py, app/api/v1/routes/briefing_routes.py and   *)
(* webhooks.py, app/notifications/email/provider.py).                      *)
(*                                                                         *)
(* A run is one transaction at READ COMMITTED from the edition to the last *)
(* subscriber, with autoflush off; the e-mails go out in the middle of it. *)
(* The schema is that of the ORM models: one edition per date, one         *)
(* delivery per edition and subscriber, items without a key.               *)
(***************************************************************************)
EXTENDS Integers, FiniteSets

CONSTANTS
    Subscriber,
    Address,      \* e-mail addresses of a subscriber
    Form,         \* requests about a subscription that are handled at once
    Worker,       \* sessions that dispatch: Celery workers and API requests
    Hook,         \* webhook requests that are handled at the same time
    MaxEditions,  \* bound: ids taken from the sequence of editions
    MaxTests,     \* bound: test sends
    MaxFaults,    \* bound: rollbacks and failing calls of the provider
    MaxChanges,   \* bound: requests about subscriptions
    MaxEvents     \* bound: webhook events stored

ASSUME BoundAssumption ==
    /\ MaxEditions \in Nat \ {0}
    /\ MaxTests \in Nat
    /\ MaxFaults \in Nat
    /\ MaxChanges \in Nat
    /\ MaxEvents \in Nat

VARIABLES
    profile,   \* daily_briefing_subscribers, committed
    links,     \* addresses of each that were mailed a verification link
    proven,    \* history: addresses of each that were verified
    stale,     \* history: whose row was written from an outdated copy
    form,      \* the requests about subscriptions
    edition,   \* id of the committed edition of the day, 0 if there is none
    stories,   \* its items, by the worker whose selection they are
    hash,      \* its selection_hash: the selection, {} for an empty one
    wasEmpty,  \* history: has it been committed without stories?
    delivery,  \* its committed delivery of each subscriber
    calls,     \* history: provider calls for the daily briefing of each
    accepted,  \* messages that the provider has accepted
    seen,      \* webhook_events, committed
    worker,    \* the runs and what they have not committed
    hook,      \* the webhook requests
    nextId,    \* the sequence of daily_briefing_editions
    rollbacks, \* history: runs rolled back
    faults,    \* bound counter
    tests,     \* bound counter
    changes    \* bound counter

subVars == <<profile, links, proven, stale, form>>
edVars == <<edition, stories, hash, wasEmpty>>
mailVars == <<calls, accepted>>
bounds == <<rollbacks, faults, tests, changes>>
vars == <<subVars, edVars, delivery, mailVars, seen, worker, hook, nextId, bounds>>

Edition == 1..MaxEditions

\* The message of an edition's daily briefing is named after its idempotency
\* key, "daily-briefing:{edition}:{subscriber}"; test keys have a timestamp.
Test == MaxEditions + 1
Message == (Edition \cup {Test}) \X Subscriber

Status == {"QUEUED", "SENT", "DELIVERED", "FAILED", "BOUNCED", "COMPLAINED"}

\* msg: provider_message_id, 0 without an answer of the provider.  The column's
\* default, PENDING, is overridden by every insert.
Delivery == [status : Status, msg : 0..Test]
NoDelivery == [status |-> "none", msg |-> 0]

\* An uncommitted row: inserted, or a loaded one that a test send changed.
Pending == [new : BOOLEAN, loaded : Delivery \cup {NoDelivery},
            status : Status, msg : 0..Test]
NoPending == [new |-> FALSE, loaded |-> NoDelivery, status |-> "none", msg |-> 0]

\* What webhooks report; an event's key is its own id or, if the payload has
\* none, that of its message, whatever the type.
Reported == {"SENT", "DELIVERED", "BOUNCED", "COMPLAINED"}
Event == Reported \X Message
Key == (Reported \cup {"any"}) \X Message

\* A row of a subscriber, and a request that has loaded one: the copy it has
\* changed, the columns it writes, the address that it mails a link to and the
\* one that it knows to be the user's.
Profile == [addr : Address, verified : BOOLEAN, enabled : BOOLEAN,
            unsubscribed : BOOLEAN]
Column == {"addr", "verified", "enabled", "unsubscribed"}
Asked == [pc : {"loaded", "written"}, of : Subscriber, base : Profile, copy : Profile,
          columns : SUBSET Column, mail : SUBSET Address, proof : SUBSET Address]
IdleForm == [pc |-> "idle"]

\* What a run has loaded, selected and written, and what a webhook has loaded.
Run == [pc : {"idle", "select", "update", "list", "next", "insert", "send"},
        test : BOOLEAN, ed : 0..MaxEditions,
        base : SUBSET Worker, found : SUBSET Worker,
        created : BOOLEAN, locked : BOOLEAN,
        erased : SUBSET Worker, todo : SUBSET Subscriber,
        row : [Subscriber -> Pending \cup {NoPending}]]
Request == [pc : {"idle", "loaded"}, event : Event \cup {<<>>}, key : Key \cup {<<>>},
            loaded : Delivery \cup {NoDelivery}]

IdleWorker == [pc |-> "idle", test |-> FALSE, ed |-> 0, base |-> {}, found |-> {},
               created |-> FALSE, locked |-> FALSE, erased |-> {}, todo |-> {},
               row |-> [s \in Subscriber |-> NoPending]]
IdleHook == [pc |-> "idle", event |-> <<>>, key |-> <<>>, loaded |-> NoDelivery]

TypeOK ==
    /\ profile \in [Subscriber -> Profile]
    /\ links \in [Subscriber -> SUBSET Address]
    /\ proven \in [Subscriber -> SUBSET Address]
    /\ stale \in SUBSET Subscriber
    /\ form \in [Form -> Asked \cup {IdleForm}]
    /\ edition \in 0..MaxEditions
    /\ stories \in SUBSET Worker /\ hash \in SUBSET Worker
    /\ wasEmpty \in BOOLEAN
    /\ delivery \in [Subscriber -> Delivery \cup {NoDelivery}]
    /\ calls \in [Subscriber -> Nat]
    /\ accepted \in SUBSET Message
    /\ seen \in SUBSET Key
    /\ worker \in [Worker -> Run]
    /\ hook \in [Hook -> Request]
    /\ nextId \in 1..MaxEditions + 1
    /\ rollbacks \in 0..faults /\ faults \in 0..MaxFaults
    /\ tests \in 0..MaxTests /\ changes \in 0..MaxChanges

\* get_or_create_subscriber: a new subscriber; and one who has verified.
NewProfile(a) == [addr |-> a, verified |-> FALSE, enabled |-> FALSE,
                  unsubscribed |-> FALSE]
VerifiedProfile(a) == [NewProfile(a) EXCEPT !.verified = TRUE, !.enabled = TRUE]

Init ==
    /\ profile \in [Subscriber -> {NewProfile(a) : a \in Address}
                                  \cup {VerifiedProfile(a) : a \in Address}]
    /\ links = [s \in Subscriber |-> {}]
    /\ proven = [s \in Subscriber |-> IF profile[s].verified THEN {profile[s].addr} ELSE {}]
    /\ stale = {}
    /\ form = [f \in Form |-> IdleForm]
    /\ edition = 0 /\ stories = {} /\ hash = {} /\ wasEmpty = FALSE
    /\ delivery = [s \in Subscriber |-> NoDelivery]
    /\ calls = [s \in Subscriber |-> 0]
    /\ accepted = {}
    /\ seen = {}
    /\ worker = [w \in Worker |-> IdleWorker]
    /\ hook = [h \in Hook |-> IdleHook]
    /\ nextId = 1
    /\ rollbacks = 0 /\ faults = 0 /\ tests = 0 /\ changes = 0

-----------------------------------------------------------------------------
(* Subscribers.  A request loads the row, changes its copy, writes the       *)
(* columns that differ from what it has loaded, and commits.               *)

Load(f, s, copy, columns, mail, proof) ==
    /\ form[f].pc = "idle"
    /\ changes < MaxChanges
    /\ changes' = changes + 1
    /\ form' = [form EXCEPT ![f] =
          [pc |-> "loaded", of |-> s, base |-> profile[s], copy |-> copy,
           columns |-> columns, mail |-> mail, proof |-> proof]]
    /\ UNCHANGED <<profile, links, proven, stale, edVars, delivery, mailVars, seen,
                   worker, hook, nextId, rollbacks, faults, tests>>

\* Mutant: a new address keeps the verification of the old one.
SavedProfileKept(p, wanted, a, google) ==
    LET verified == p.verified \/ a \in google
    IN  [p EXCEPT !.addr = a, !.verified = verified, !.enabled = wanted /\ verified]

\* The row that POST /preferences makes of p: a is the wanted address, google
\* that of the user's Google account, if any, which needs no link.
SavedProfile(p, wanted, a, google) ==
    LET verified == (p.addr = a /\ p.verified) \/ a \in google
    IN  [p EXCEPT !.addr = a, !.verified = verified, !.enabled = wanted /\ verified]

\* Who is verified by the account is enabled, and that is flushed, before the
\* wanted value is assigned.  The time of a verification differs from any other.
SavedColumns(p, wanted, a, google) ==
    LET moved  == p.addr # a
        byAcc  == (~p.verified /\ p.addr \in google) \/ (moved /\ a \in google)
        after  == SavedProfile(p, wanted, a, google).enabled
    IN  {c \in {"addr", "verified", "enabled"} :
            CASE c = "addr"     -> moved
              [] c = "verified" -> byAcc \/ (moved /\ p.verified)
              [] c = "enabled"  -> IF byAcc THEN ~(p.enabled /\ after) ELSE p.enabled # after}

\* Who asks for the briefing without a verified address is mailed a link.
SavePreferences(f, s) ==
    \E wanted \in BOOLEAN, a \in Address : \E google \in {{}} \cup {{b} : b \in Address} :
        LET q == SavedProfile(profile[s], wanted, a, google)
        IN  Load(f, s, q, SavedColumns(profile[s], wanted, a, google),
                 IF wanted /\ ~q.verified THEN {a} ELSE {}, google \cap {profile[s].addr, a})

\* POST /verify-email.
RequestVerification(f, s) ==
    /\ ~profile[s].verified
    /\ Load(f, s, profile[s], {}, {profile[s].addr}, {})

\* GET /verify, by a link to the address of the row; and GET /preferences or
\* POST /verify-email of a user whose Google account has that address.  The
\* link stays valid for its 24 hours.
Verify(f, s, google) ==
    /\ IF google THEN ~profile[s].verified ELSE profile[s].addr \in links[s]
    /\ Load(f, s, [profile[s] EXCEPT !.verified = TRUE, !.enabled = TRUE],
            {"verified"} \cup (IF profile[s].enabled THEN {} ELSE {"enabled"}),
            {}, {profile[s].addr})

\* GET /unsubscribe, the link at the foot of every briefing (taken as one to the
\* address that the row has; others are refused).
Unsubscribe(f, s) ==
    /\ \E m \in accepted : m[2] = s
    /\ Load(f, s, [profile[s] EXCEPT !.enabled = FALSE, !.unsubscribed = TRUE],
            {"unsubscribed"} \cup (IF profile[s].enabled THEN {"enabled"} ELSE {}), {}, {})

\* flush: the UPDATE, which waits for that of another request, and the mail.
Flush(f) ==
    LET r == form[f]
    IN  /\ r.pc = "loaded"
        /\ \A g \in Form : form[g].pc = "written" => form[g].of # r.of
        /\ form' = [form EXCEPT ![f] = [r EXCEPT !.pc = "written"]]
        /\ links' = [links EXCEPT ![r.of] = @ \cup r.mail]
        /\ stale' = IF r.columns # {} /\ profile[r.of] # r.base THEN stale \cup {r.of}
                    ELSE stale
        /\ UNCHANGED <<profile, proven, edVars, delivery, mailVars, seen, worker, hook,
                       nextId, bounds>>

\* The row p with the columns of q that are written.
Merged(p, q, columns) ==
    [addr |-> IF "addr" \in columns THEN q.addr ELSE p.addr,
     verified |-> IF "verified" \in columns THEN q.verified ELSE p.verified,
     enabled |-> IF "enabled" \in columns THEN q.enabled ELSE p.enabled,
     unsubscribed |-> IF "unsubscribed" \in columns THEN q.unsubscribed ELSE p.unsubscribed]

Save(f) ==
    LET r == form[f]
    IN  /\ r.pc = "written"
        /\ profile' = [profile EXCEPT ![r.of] = Merged(@, r.copy, r.columns)]
        /\ proven' = [proven EXCEPT ![r.of] = @ \cup r.proof]
        /\ form' = [form EXCEPT ![f] = IdleForm]
        /\ UNCHANGED <<links, stale, edVars, delivery, mailVars, seen, worker, hook,
                       nextId, bounds>>

\* An exception, such as an address that another subscriber has.
Fail(f) ==
    /\ form[f].pc # "idle"
    /\ form' = [form EXCEPT ![f] = IdleForm]
    /\ UNCHANGED <<profile, links, proven, stale, edVars, delivery, mailVars, seen,
                   worker, hook, nextId, bounds>>

-----------------------------------------------------------------------------
(* The edition of the day.                                                 *)

\* The rows another transaction has inserted or changed and not committed.
OthersCreating(w) == \E v \in Worker \ {w} : worker[v].created
OthersLocking(w) == \E v \in Worker \ {w} : worker[v].locked
OthersErasing(w) == \E v \in Worker \ {w} : worker[v].erased \cap stories # {}

\* Mutant: an edition with stories is selected anew.
FinalSentOnly == \E s \in Subscriber : delivery[s].status \in {"SENT", "DELIVERED"}

\* An edition with stories, or one that has been sent, is used as it is.
Final == stories # {} \/ \E s \in Subscriber : delivery[s].status \in {"SENT", "DELIVERED"}

\* get_or_create_daily_edition, its reads: the first step of a scheduled run
\* and of a test send, which the route allows for a verified address only.
LoadEdition(w, test, target) ==
    /\ worker[w].pc = "idle"
    /\ test => \E s \in target : profile[s].verified
    /\ worker' = [worker EXCEPT ![w] =
            IF edition # 0 /\ Final
            THEN [IdleWorker EXCEPT !.pc = "list", !.test = test, !.ed = edition,
                                    !.todo = target]
            ELSE [IdleWorker EXCEPT !.pc = "select", !.test = test, !.ed = edition,
                                    !.base = hash, !.todo = target]]
    /\ tests' = IF test THEN tests + 1 ELSE tests
    /\ tests' <= MaxTests
    /\ UNCHANGED <<subVars, edVars, delivery, mailVars, seen, hook, nextId,
                   rollbacks, faults, changes>>

StartRun(w) == LoadEdition(w, FALSE, {})
StartTest(w) == \E s \in Subscriber : LoadEdition(w, TRUE, {s})

\* There was no edition: select and enrich the stories, then insert it in a
\* savepoint.  The insert waits for another one of the same date; if that one
\* is committed, its edition is used.
CreateEdition(w, found) ==
    /\ worker[w].pc = "select" /\ worker[w].ed = 0
    /\ ~OthersCreating(w)
    /\ IF edition # 0
       THEN /\ worker' = [worker EXCEPT ![w] = [@ EXCEPT !.pc = "list", !.ed = edition]]
            /\ UNCHANGED nextId
       ELSE /\ nextId <= MaxEditions
            /\ nextId' = nextId + 1
            /\ worker' = [worker EXCEPT ![w] = [@ EXCEPT !.pc = "list", !.ed = nextId,
                                                         !.created = TRUE, !.found = found]]
    /\ UNCHANGED <<subVars, edVars, delivery, mailVars, seen, hook, bounds>>

\* There was one without stories: select anew, then DELETE its items, which
\* are those committed now.  The attributes of the edition are changed in
\* memory before and written by the flush after it.
EraseItems(w, found) ==
    /\ worker[w].pc = "select" /\ worker[w].ed # 0
    /\ ~OthersErasing(w)
    /\ worker' = [worker EXCEPT ![w] = [@ EXCEPT !.pc = "update", !.erased = stories,
                                                 !.found = found]]
    /\ UNCHANGED <<subVars, edVars, delivery, mailVars, seen, hook, nextId, bounds>>

\* flush: UPDATE the edition if its hash changes, which waits for another
\* transaction that has done so, and INSERT the items.
WriteEdition(w) ==
    /\ worker[w].pc = "update"
    /\ worker[w].found # worker[w].base => ~OthersLocking(w)
    /\ worker' = [worker EXCEPT ![w] = [@ EXCEPT !.pc = "list", !.base = {},
                                    !.locked = worker[w].found # worker[w].base]]
    /\ UNCHANGED <<subVars, edVars, delivery, mailVars, seen, hook, nextId, bounds>>

Select(w) == \E found \in {{}, {w}} : CreateEdition(w, found) \/ EraseItems(w, found)

-----------------------------------------------------------------------------
(* Deliveries.                                                             *)

Eligible == {s \in Subscriber : /\ profile[s].enabled
                                /\ profile[s].verified
                                /\ ~profile[s].unsubscribed}

\* dispatch_due_subscribers, the list: whose local time is within the window
\* of this run is any subset.  A test send has its subscriber already.
ListDue(w) ==
    /\ worker[w].pc = "list"
    /\ \E due \in SUBSET Eligible :
        worker' = [worker EXCEPT ![w] = [@ EXCEPT !.pc = "next",
                       !.todo = IF worker[w].test THEN worker[w].todo ELSE due]]
    /\ UNCHANGED <<subVars, edVars, delivery, mailVars, seen, hook, nextId, bounds>>

\* The row of s that w sees: a committed one, if w's edition is committed.
Visible(w, s) == worker[w].ed = edition /\ delivery[s] # NoDelivery

\* Which subscriber is being served: there is one at a time.
Current(w, s) == s \in worker[w].todo /\ worker[w].row[s] # NoPending

\* dispatch_delivery, the idempotency check.  A test send reuses the row.
CheckDelivery(w, s) ==
    /\ worker[w].pc = "next" /\ s \in worker[w].todo
    /\ worker' = [worker EXCEPT ![w] =
            IF ~Visible(w, s)
            THEN [@ EXCEPT !.pc = "insert", !.row = [worker[w].row EXCEPT ![s] =
                    [new |-> TRUE, loaded |-> NoDelivery, status |-> "QUEUED", msg |-> 0]]]
            ELSE IF worker[w].test
            THEN [@ EXCEPT !.pc = "send", !.row = [worker[w].row EXCEPT ![s] =
                    [new |-> FALSE, loaded |-> delivery[s], status |-> "QUEUED",
                     msg |-> delivery[s].msg]]]
            ELSE [@ EXCEPT !.todo = worker[w].todo \ {s}]]
    /\ UNCHANGED <<subVars, edVars, delivery, mailVars, seen, hook, nextId, bounds>>

OthersDelivering(w, s) ==
    \E v \in Worker \ {w} : /\ worker[v].pc # "insert" \/ s \notin worker[v].todo
                            /\ worker[v].ed = worker[w].ed
                            /\ worker[v].row[s].new

\* What run w is when it turns to the next subscriber, with row p for s.
Past(w, s, p) == [worker[w] EXCEPT !.pc = "next", !.todo = worker[w].todo \ {s},
                                   !.row = [worker[w].row EXCEPT ![s] = p]]

\* Mutant: no UNIQUE(subscriber_id, edition_id).
InsertDeliveryAnyway(w, s) ==
    /\ worker[w].pc = "insert" /\ Current(w, s)
    /\ worker' = [worker EXCEPT ![w].pc = "send"]
    /\ UNCHANGED <<subVars, edVars, delivery, mailVars, seen, hook, nextId, bounds>>

\* The insert, in a savepoint: it waits for another one of the same edition
\* and subscriber; if that one is committed, its delivery is returned.
InsertDelivery(w, s) ==
    /\ worker[w].pc = "insert" /\ Current(w, s)
    /\ ~OthersDelivering(w, s)
    /\ worker' = [worker EXCEPT ![w] = IF Visible(w, s) THEN Past(w, s, NoPending)
                                       ELSE [@ EXCEPT !.pc = "send"]]
    /\ UNCHANGED <<subVars, edVars, delivery, mailVars, seen, hook, nextId, bounds>>

\* Mutants: a failing call is recorded as SENT; it puts the row back.
OutcomeSent(ok) == "SENT"
OutcomeOpen(ok) == IF ok THEN "SENT" ELSE "PENDING"

Outcome(ok) == IF ok THEN "SENT" ELSE "FAILED"

\* provider.send and the flush of its outcome.  The provider takes a message
\* with a known key for the same one; a call that times out may have been
\* accepted.
Send(w, s) ==
    /\ worker[w].pc = "send" /\ Current(w, s)
    /\ LET m == IF worker[w].test THEN Test ELSE worker[w].ed
       IN  \E ok, taken \in BOOLEAN :
            /\ ok => taken
            /\ ~ok => faults < MaxFaults
            /\ faults' = IF ok THEN faults ELSE faults + 1
            /\ accepted' = IF taken THEN accepted \cup {<<m, s>>} ELSE accepted
            /\ worker' = [worker EXCEPT ![w] = Past(w, s,
                    [worker[w].row[s] EXCEPT !.status = Outcome(ok),
                                             !.msg = IF ok THEN m ELSE worker[w].row[s].msg])]
    /\ calls' = IF worker[w].test THEN calls ELSE [calls EXCEPT ![s] = @ + 1]
    /\ UNCHANGED <<subVars, edVars, delivery, seen, hook, nextId, rollbacks, tests,
                   changes>>

\* An exception after the insert, before or after the provider has the message:
\* dispatch_due_subscribers logs it and goes on, and the row stays QUEUED.  That
\* of a test send ends its transaction (Rollback).
LoseMessage(w, s) ==
    /\ worker[w].pc = "send" /\ Current(w, s) /\ ~worker[w].test
    /\ faults < MaxFaults
    /\ faults' = faults + 1
    /\ \E called, taken \in BOOLEAN :
        /\ taken => called
        /\ calls' = IF called THEN [calls EXCEPT ![s] = @ + 1] ELSE calls
        /\ accepted' = IF taken THEN accepted \cup {<<worker[w].ed, s>>} ELSE accepted
    /\ worker' = [worker EXCEPT ![w] = Past(w, s, worker[w].row[s])]
    /\ UNCHANGED <<subVars, edVars, delivery, seen, hook, nextId, rollbacks, tests,
                   changes>>

-----------------------------------------------------------------------------
(* The end of a run.                                                       *)

\* SQLAlchemy leaves a column out of the UPDATE if its value is the loaded one.
Written(d, p) ==
    IF p = NoPending THEN d
    ELSE [status |-> IF p.status = p.loaded.status THEN d.status ELSE p.status,
          msg |-> IF p.msg = p.loaded.msg THEN d.msg ELSE p.msg]

\* The single commit, after the last subscriber.
Commit(w) ==
    /\ worker[w].pc = "next" /\ worker[w].todo = {}
    /\ edition' = worker[w].ed
    /\ stories' = (stories \ worker[w].erased) \cup worker[w].found
    /\ hash' = IF worker[w].created \/ worker[w].locked THEN worker[w].found ELSE hash
    /\ wasEmpty' = (wasEmpty \/ stories' = {})
    /\ delivery' = [s \in Subscriber |-> Written(delivery[s], worker[w].row[s])]
    /\ worker' = [worker EXCEPT ![w] = IdleWorker]
    /\ UNCHANGED <<subVars, mailVars, seen, hook, nextId, bounds>>

\* The worker dies, a wait exceeds its 30 seconds, the commit fails.
Rollback(w) ==
    /\ worker[w].pc # "idle"
    /\ faults < MaxFaults
    /\ faults' = faults + 1
    /\ rollbacks' = rollbacks + 1
    /\ worker' = [worker EXCEPT ![w] = IdleWorker]
    /\ UNCHANGED <<subVars, edVars, delivery, mailVars, seen, hook, nextId, tests,
                   changes>>

\* An exception in the savepoint, such as a deadlock, costs one subscriber.
LoseSubscriber(w, s) ==
    /\ worker[w].pc = "insert" /\ Current(w, s) /\ ~worker[w].test
    /\ OthersDelivering(w, s)
    /\ worker' = [worker EXCEPT ![w] = Past(w, s, NoPending)]
    /\ UNCHANGED <<subVars, edVars, delivery, mailVars, seen, hook, nextId, bounds>>

-----------------------------------------------------------------------------
(* The provider's webhooks.                                                *)

\* Mutant: every event is applied to the delivery it has found.
CanTransitionAlways(current, next) == current # "none"

\* BRIEFING_STATE_TRANSITIONS, for the states that are ever committed.
CanTransition(current, next) ==
    \/ current = "QUEUED" /\ next \in {"SENT", "FAILED"}
    \/ current = "SENT" /\ next \in {"DELIVERED", "BOUNCED", "FAILED"}
    \/ current = "DELIVERED" /\ next = "COMPLAINED"

\* POST /webhooks/resend: an event of an accepted message whose key is not known
\* yet; the delivery is found by the message's id.
Receive(h) ==
    /\ hook[h].pc = "idle"
    /\ Cardinality(seen) < MaxEvents
    /\ \E e \in Event : \E k \in {e, <<"any", e[2]>>} \ seen :
        /\ e[2] \in accepted
        /\ hook' = [hook EXCEPT ![h] =
              [pc |-> "loaded", event |-> e, key |-> k,
               loaded |-> IF delivery[e[2][2]].msg = e[2][1]
                          THEN delivery[e[2][2]] ELSE NoDelivery]]
    /\ UNCHANGED <<subVars, edVars, delivery, mailVars, seen, worker, nextId, bounds>>

\* The commit: the key is new, and unique, or nothing is written.
CommitHook(h) ==
    /\ hook[h].pc = "loaded"
    /\ LET e == hook[h].event
       IN  IF hook[h].key \in seen
           THEN UNCHANGED <<seen, delivery>>
           ELSE /\ seen' = seen \cup {hook[h].key}
                /\ delivery' = IF CanTransition(hook[h].loaded.status, e[1])
                               THEN [delivery EXCEPT ![e[2][2]].status = e[1]]
                               ELSE delivery
    /\ hook' = [hook EXCEPT ![h] = IdleHook]
    /\ UNCHANGED <<subVars, edVars, mailVars, worker, nextId, bounds>>

-----------------------------------------------------------------------------
Next ==
    \/ \E f \in Form, s \in Subscriber : \/ SavePreferences(f, s)
                                         \/ RequestVerification(f, s)
                                         \/ \E google \in BOOLEAN : Verify(f, s, google)
                                         \/ Unsubscribe(f, s)
    \/ \E f \in Form : Flush(f) \/ Save(f) \/ Fail(f)
    \/ \E w \in Worker : \/ StartRun(w)
                         \/ StartTest(w)
                         \/ Select(w)
                         \/ WriteEdition(w)
                         \/ ListDue(w)
                         \/ Commit(w)
                         \/ Rollback(w)
    \/ \E w \in Worker, s \in Subscriber : \/ CheckDelivery(w, s)
                                           \/ InsertDelivery(w, s)
                                           \/ Send(w, s)
                                           \/ LoseMessage(w, s)
                                           \/ LoseSubscriber(w, s)
    \/ \E h \in Hook : Receive(h) \/ CommitHook(h)

Spec == Init /\ [][Next]_vars

-----------------------------------------------------------------------------
(* Properties.                                                             *)

\* However changes of the address, links, the Google account and failing
\* requests follow each other, a subscription is on only for an address that was
\* itself verified; unless, once, a request has written over a row that another
\* one had changed since it was loaded.
EnabledIsVerified ==
    \A s \in Subscriber \ stale :
        /\ profile[s].enabled => profile[s].verified
        /\ profile[s].verified => profile[s].addr \in proven[s]

\* What the table records as sent, the provider has: the row is written after
\* the call, by the same run, and no webhook makes up for a failed call.
SentMeansAccepted ==
    \A s \in Subscriber :
        delivery[s].status \in Reported => <<delivery[s].msg, s>> \in accepted

\* Two runs of the same window, and runs of later ones, send a subscriber one
\* daily briefing: each further call is the price of a run that was rolled
\* back after its calls.
SentOnce == \A s \in Subscriber : calls[s] <= 1 + rollbacks

\* The stories of an edition that was never empty are those of its creator,
\* whatever other runs select meanwhile.
StoriesKept == [][edition # 0 /\ ~wasEmpty => stories' = stories]_vars

\* Whatever order the provider's events come in and however often, they and the
\* runs move a delivery forward only: a bounce, a failure and a complaint are the
\* end, and only a complaint follows what was delivered.  The exceptions are the
\* commit of a test send over the same row, and that of a webhook whose copy of
\* the status another commit has overtaken.
NeverUnsent ==
    [][\A s \in Subscriber :
        \/ delivery'[s].status = delivery[s].status
        \/ delivery[s].status \in {"none", "QUEUED", "SENT"}
        \/ delivery[s].status = "DELIVERED" /\ delivery'[s].status = "COMPLAINED"
        \/ \E w \in Worker : worker[w].test /\ worker[w].todo = {} /\ Commit(w)
        \/ \E h \in Hook : /\ hook[h].loaded.status # delivery[s].status
                           /\ CommitHook(h)
                           /\ hook[h].event[2][2] = s]_vars

-----------------------------------------------------------------------------
(* Why they hold.                                                          *)

\* A run has its edition before it serves subscribers, one at a time; it has
\* inserted the row of each or, for a test, loaded it; and it is through with
\* every one but that which it serves.
RowOK(r, s) ==
    /\ r.row[s].new <=> r.row[s].loaded = NoDelivery
    /\ ~r.test => r.row[s].new
    /\ r.row[s].msg = 0 => r.row[s].loaded.msg = 0
    /\ s \in r.todo => /\ r.row[s].status = "QUEUED"
                       /\ r.pc = "send" \/ (r.pc = "insert" /\ r.row[s].new)
                       /\ \A t \in r.todo : r.row[t] # NoPending => t = s
    /\ s \notin r.todo => \/ r.row[s].status = "SENT" /\ r.row[s].msg # 0
                          \/ r.row[s].status = "FAILED"
                          \/ r.row[s].status = "QUEUED" /\ ~r.test
RunOK ==
    \A w \in Worker : LET r == worker[w] IN
        /\ r.pc \in {"update", "list", "next", "insert", "send"} => r.ed # 0
        /\ r.created => r.pc \in {"list", "next", "insert", "send"}
        /\ \A s \in Subscriber : r.row[s] # NoPending =>
              r.pc \in {"next", "insert", "send"} /\ RowOK(r, s)

\* A request that is about to commit has the row's lock, and the row is the one
\* it has loaded unless it is stale.  Its copy differs in the columns it writes
\* only, and verifies the address that it has, or one that it knows.
OneForm ==
    \A f, g \in Form : /\ form[f].pc = "written" /\ form[g].pc = "written"
                       /\ form[f].of = form[g].of
                       => f = g
Held(r) == r.pc = "written" /\ r.columns # {} /\ r.of \notin stale
               => r.base = profile[r.of]
Honest(r) ==
    r.pc # "idle" =>
        /\ Merged(r.base, r.copy, r.columns) = r.copy
        /\ r.copy.enabled => r.copy.verified \/ (r.base.enabled /\ ~r.base.verified)
        /\ r.copy.verified => \/ r.copy.addr \in r.proof
                              \/ r.base.verified /\ r.copy.addr = r.base.addr
FormOK == OneForm /\ \A f \in Form : Held(form[f]) /\ Honest(form[f])

\* One edition is created; every run that has one has that.
OneEdition ==
    /\ \A w \in Worker : worker[w].ed # 0 =>
          IF worker[w].created THEN edition = 0 ELSE worker[w].ed = edition
    /\ \A v, w \in Worker : worker[v].created /\ worker[w].created => v = w
    /\ edition = 0 => \A s \in Subscriber : delivery[s] = NoDelivery

\* One run at a time holds a new row for a subscriber, and only while there
\* is no committed one.
HasInserted(w, s) ==
    /\ worker[w].row[s].new
    /\ worker[w].pc # "insert" \/ s \notin worker[w].todo
OneDelivery ==
    \A w \in Worker, s \in Subscriber : HasInserted(w, s) =>
        /\ delivery[s] = NoDelivery
        /\ \A v \in Worker : HasInserted(v, s) => v = w

\* A message that is recorded anywhere is the provider's, and a row once
\* recorded with one keeps one.
DeliveryAccepted(s) ==
    /\ delivery[s].msg # 0 => <<delivery[s].msg, s>> \in accepted
    /\ delivery[s].status \in Reported => delivery[s].msg # 0
RowAccepted(w, s) ==
    LET p == worker[w].row[s]
    IN  /\ p.msg # 0 => <<p.msg, s>> \in accepted
        /\ p.loaded # NoDelivery => delivery[s] # NoDelivery
        /\ p.loaded.msg # 0 => delivery[s].msg # 0
EventAccepted(h) ==
    /\ hook[h].pc = "loaded" => hook[h].event \in Event /\ hook[h].key \in Key
    /\ hook[h].loaded # NoDelivery =>
          hook[h].pc = "loaded" /\ delivery[hook[h].event[2][2]].msg # 0
MessagesAccepted ==
    /\ \A s \in Subscriber : DeliveryAccepted(s)
    /\ \A w \in Worker, s \in Subscriber : RowAccepted(w, s)
    /\ \A h \in Hook : EventAccepted(h)

\* The call that no rollback accounts for has left a row.
Called(w, s) == worker[w].row[s].new /\ s \notin worker[w].todo
Recorded(s) == delivery[s] # NoDelivery \/ \E w \in Worker : Called(w, s)
CallsCounted ==
    \A s \in Subscriber : calls[s] <= rollbacks + (IF Recorded(s) THEN 1 ELSE 0)

\* Only a run that has seen the edition empty selects its stories anew.
EmptyRefilled ==
    /\ edition # 0 /\ stories = {} => wasEmpty
    /\ \A w \in Worker :
          \/ wasEmpty
          \/ worker[w].created
          \/ /\ worker[w].pc = "select" => worker[w].ed = 0
             /\ worker[w].pc # "update"
             /\ worker[w].erased = {} /\ worker[w].found = {}

-----------------------------------------------------------------------------
(* What comments say, and the code does not (README, divergences).         *)

\* Invariant 1 of get_or_create_daily_edition: "Existing editions with items
\* > 0 OR SENT deliveries are immutable".  A run that read the edition when it
\* was empty erases, or adds to, what another one has committed meanwhile.
StoriesImmutable ==
    [][edition # 0 /\ Final => stories' = stories]_vars

\* Invariant 3 of POST /preferences, "Zero verification bypass": a request that
\* verifies the old address commits after one that has moved to a new one.
NoBypass ==
    \A s \in Subscriber :
        /\ profile[s].enabled => profile[s].verified
        /\ profile[s].verified => profile[s].addr \in proven[s]

\* The webhook's "BOUNCED cannot become DELIVERED": two webhooks have loaded the
\* same status.
BouncedStays ==
    [][\A s \in Subscriber :
        delivery[s].status = "BOUNCED" => delivery'[s].status # "DELIVERED"]_vars

\* The lifecycle PENDING -> QUEUED -> SENT of a delivery: one whose dispatch has
\* raised is committed as QUEUED, and the idempotency check skips it for ever.
NoneLeftQueued == \A s \in Subscriber : delivery[s].status # "QUEUED"

=============================================================================
