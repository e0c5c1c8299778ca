------------------------------ MODULE Editorial ------------------------------
(***************************************************************************)
(* Editorial drafts: editors who change them and their status, and the     *)
(* publishing pipeline with its scheduled runs                             *)
(* (app/services/editorial_service.py, the planner of                      *)
(* distribution_service.py, app/tasks/editorial_tasks.py,                  *)
(* app/api/v1/routes/editorial.py).  The jobs the planner queues stay      *)
(* queued: nothing sends the task that executes them.                      *)
(*                                                                         *)
(* Every request and every task has a session at READ COMMITTED that keeps *)
(* what it loaded (expire_on_commit off) and writes a column only if its   *)
(* value differs from the loaded one.                                      *)
(***************************************************************************)
EXTENDS Integers, FiniteSets

CONSTANTS
    Draft,
    Dated,        \* the drafts with a publish_at in the past; nothing under src
                  \* sets the column but a test, so it is set in the database
    Editor,       \* requests that change drafts
    Scheduler,    \* runs of check_and_publish_scheduled_drafts_task
    Requester,    \* requests that publish a draft at once
    MaxEdits,     \* bound: versions written after the first ones
    MaxMoves,     \* bound: changes of status by editors
    MaxArtifacts, \* bound: publications
    MaxFaults     \* bound: exceptions and deaths

ASSUME BoundAssumption ==
    /\ MaxEdits \in Nat
    /\ MaxMoves \in Nat
    /\ MaxArtifacts \in Nat
    /\ MaxFaults \in Nat
ASSUME PublisherAssumption == Scheduler \cap Requester = {}
ASSUME DatedAssumption == Dated \subseteq Draft

VARIABLES
    draft,     \* editorial_drafts: status, and the edit its content is from
    versions,  \* editorial_draft_versions of each: number and edit
    record,    \* publication_records by artifact: the draft and its edit
    event,     \* artifacts with an ArticlePublished row in event_outbox
    granted,   \* history: how often each draft was scheduled or asked for
    editor,    \* the editors' requests
    publisher, \* the runs of the publishing pipeline
    edits, moves, artifacts, faults   \* bound counters

docVars == <<draft, versions>>
pubVars == <<record, event>>
bounds == <<edits, moves, artifacts, faults>>
vars == <<docVars, pubVars, granted, editor, publisher, bounds>>

Status == {"DRAFT", "REVIEW", "READY", "CHANGES_REQUESTED", "APPROVED", "SCHEDULED",
           "PUBLISHED", "ARCHIVED"}

\* The states that the pipeline tells apart, and one that stands for the rest.
Target == {"REVIEW", "SCHEDULED", "PUBLISHED"}

Publisher == Scheduler \cup Requester
Artifact == 1..MaxArtifacts
Edit == 0..MaxEdits          \* 0: the content a draft was created with
Row == [status : Status, edit : Edit]
NoRow == [status |-> "none", edit |-> 0]

\* What a request or a run has loaded, and what it is at.
Editing == [pc : {"idle", "loaded", "refreshed"}, draft : SUBSET Draft,
            row : Row \cup {NoRow}, last : 0..MaxEdits + 1]
Publishing == [pc : {"idle", "next", "planned"}, todo : SUBSET Draft,
               row : [Draft -> Row \cup {NoRow}], draft : SUBSET Draft,
               artifact : 0..MaxArtifacts]

IdleEditor == [pc |-> "idle", draft |-> {}, row |-> NoRow, last |-> 0]
IdlePublisher == [pc |-> "idle", todo |-> {}, row |-> [d \in Draft |-> NoRow],
                  draft |-> {}, artifact |-> 0]

TypeOK ==
    /\ draft \in [Draft -> Row]
    /\ versions \in [Draft -> SUBSET [number : 1..MaxEdits + 1, edit : Edit]]
    /\ record \in [Artifact -> [draft : SUBSET Draft, edit : Edit]]
    /\ event \in SUBSET Artifact
    /\ granted \in [Draft -> Nat]
    /\ editor \in [Editor -> Editing]
    /\ publisher \in [Publisher -> Publishing]
    /\ edits \in 0..MaxEdits /\ moves \in 0..MaxMoves
    /\ artifacts \in 0..MaxArtifacts /\ faults \in 0..MaxFaults

\* create_draft: the first version and the draft are one transaction.
Init ==
    /\ draft = [d \in Draft |-> [status |-> "DRAFT", edit |-> 0]]
    /\ versions = [d \in Draft |-> {[number |-> 1, edit |-> 0]}]
    /\ record = [a \in Artifact |-> [draft |-> {}, edit |-> 0]]
    /\ event = {}
    /\ granted = [d \in Draft |-> 0]
    /\ editor = [e \in Editor |-> IdleEditor]
    /\ publisher = [p \in Publisher |-> IdlePublisher]
    /\ edits = 0 /\ moves = 0 /\ artifacts = 0 /\ faults = 0

-----------------------------------------------------------------------------
(* Editors: PUT /drafts/{id}, and the AI review that sets REVIEW.          *)

Numbers(d) == {v.number : v \in versions[d]}
Last(d) == CHOOSE n \in Numbers(d) : \A m \in Numbers(d) : m <= n

\* The request loads the draft and the highest version.
LoadDraft(e, d) ==
    /\ editor[e].pc = "idle"
    /\ editor' = [editor EXCEPT ![e] = [pc |-> "loaded", draft |-> {d}, row |-> draft[d],
                                        last |-> Last(d)]]
    /\ UNCHANGED <<docVars, pubVars, granted, publisher, bounds>>

\* Mutant: the first version is counted twice.
NextNumberSkipping(e) == editor[e].last + (IF editor[e].last = 1 THEN 2 ELSE 1)

NextNumber(e) == editor[e].last + 1

\* update_draft: content and version are committed together; the draft is
\* refreshed after the commit.
UpdateDraft(e, d) ==
    /\ editor[e].pc = "loaded" /\ d \in editor[e].draft
    /\ edits < MaxEdits
    /\ edits' = edits + 1
    /\ draft' = [draft EXCEPT ![d] = [@ EXCEPT !.edit = edits']]
    /\ versions' = [versions EXCEPT ![d] = @ \cup {[number |-> NextNumber(e), edit |-> edits']}]
    /\ editor' = [editor EXCEPT ![e] = [@ EXCEPT !.pc = "refreshed", !.row = draft'[d]]]
    /\ UNCHANGED <<pubVars, granted, publisher, moves, artifacts, faults>>

\* transition_status, a transaction of its own, with any status of the request
\* whatever the draft's; also generate_review, with REVIEW.
TransitionStatus(e, d, status) ==
    /\ editor[e].pc \in {"loaded", "refreshed"} /\ d \in editor[e].draft
    /\ moves < MaxMoves
    /\ moves' = moves + 1
    /\ draft' = IF status = editor[e].row.status THEN draft
                ELSE [draft EXCEPT ![d] = [@ EXCEPT !.status = status]]
    /\ granted' = IF draft'[d].status = "SCHEDULED" /\ draft'[d] # draft[d]
                  THEN [granted EXCEPT ![d] = @ + 1] ELSE granted
    /\ editor' = [editor EXCEPT ![e] = IdleEditor]
    /\ UNCHANGED <<versions, pubVars, publisher, edits, artifacts, faults>>

\* A request that changes no status, or dies between its two transactions.
LeaveDraft(e) ==
    /\ editor[e].pc # "idle"
    /\ editor' = [editor EXCEPT ![e] = IdleEditor]
    /\ UNCHANGED <<docVars, pubVars, granted, publisher, bounds>>

-----------------------------------------------------------------------------
(* The publishing pipeline.                                                *)

\* Mutant: the query asks for another status.
DueApproved == {d \in Dated : draft[d].status = "APPROVED"}

\* A draft without a publish_at is never due: NULL <= now is not true.
Due == {d \in Dated : draft[d].status = "SCHEDULED"}

\* The scheduled run loads the drafts that are due once, and keeps them.
StartSchedule(p) ==
    /\ p \in Scheduler
    /\ publisher[p].pc = "idle"
    /\ Due # {}
    /\ publisher' = [publisher EXCEPT ![p] =
            [IdlePublisher EXCEPT !.pc = "next", !.todo = Due,
                                  !.row = [d \in Draft |-> IF d \in Due THEN draft[d]
                                                           ELSE NoRow]]]
    /\ UNCHANGED <<docVars, pubVars, granted, editor, bounds>>

\* POST /drafts/{id}/publish, whatever the draft's status.
StartPublish(p, d) ==
    /\ p \in Requester
    /\ publisher[p].pc = "idle"
    /\ artifacts < MaxArtifacts
    /\ publisher' = [publisher EXCEPT ![p] =
            [IdlePublisher EXCEPT !.pc = "next", !.todo = {d},
                                  !.row = [c \in Draft |-> IF c = d THEN draft[d]
                                                           ELSE NoRow]]]
    /\ granted' = [granted EXCEPT ![d] = @ + 1]
    /\ UNCHANGED <<docVars, pubVars, editor, bounds>>

\* publish, its first half: the record and, by plan_distribution, manifest and
\* jobs, which that commits.  The artifact's id hashes the time, so that each
\* publication has another one.
Plan(p, d) ==
    /\ publisher[p].pc = "next" /\ d \in publisher[p].todo
    /\ artifacts < MaxArtifacts
    /\ artifacts' = artifacts + 1
    /\ record' = [record EXCEPT ![artifacts'] = [draft |-> {d}, edit |-> publisher[p].row[d].edit]]
    /\ publisher' = [publisher EXCEPT ![p] =
            [@ EXCEPT !.pc = "planned", !.todo = publisher[p].todo \ {d}, !.draft = {d},
                      !.artifact = artifacts']]
    /\ UNCHANGED <<docVars, event, granted, editor, edits, moves, faults>>

\* Mutant: the status is left.
PublishedRowKept(p, d) == draft[d]

\* The loaded status decides whether PUBLISHED is written.
PublishedRow(p, d) ==
    IF publisher[p].row[d].status = "PUBLISHED" THEN draft[d]
    ELSE [draft[d] EXCEPT !.status = "PUBLISHED"]

\* Mutant: the event is left to the planner.
EmittedNever(p) == event

Emitted(p) == event \cup {publisher[p].artifact}

\* publish, its second half: outbox event, status and decision.
Publish(p, d) ==
    /\ publisher[p].pc = "planned" /\ d \in publisher[p].draft
    /\ event' = Emitted(p)
    /\ draft' = [draft EXCEPT ![d] = PublishedRow(p, d)]
    /\ publisher' = [publisher EXCEPT ![p] =
            IF publisher[p].todo = {} THEN IdlePublisher
            ELSE [@ EXCEPT !.pc = "next", !.draft = {}, !.artifact = 0]]
    /\ UNCHANGED <<versions, record, granted, editor, bounds>>

\* An exception or the death of the process.  The scheduled run goes on after
\* an exception, but its session is not rolled back and fails from then on.
FailPublisher(p) ==
    /\ publisher[p].pc # "idle"
    /\ faults < MaxFaults
    /\ faults' = faults + 1
    /\ publisher' = [publisher EXCEPT ![p] = IdlePublisher]
    /\ UNCHANGED <<docVars, pubVars, granted, editor, edits, moves, artifacts>>

-----------------------------------------------------------------------------
EditorStep ==
    \E e \in Editor :
        \/ LeaveDraft(e)
        \/ \E d \in Draft : \/ LoadDraft(e, d)
                            \/ UpdateDraft(e, d)
                            \/ \E s \in Target : TransitionStatus(e, d, s)

PublisherStep(p) ==
    \/ StartSchedule(p)
    \/ \E d \in Draft : Plan(p, d) \/ Publish(p, d)

Next ==
    \/ EditorStep
    \/ \E p \in Publisher : PublisherStep(p) \/ FailPublisher(p)
    \/ \E p \in Publisher, d \in Draft : StartPublish(p, d)

Spec == Init /\ [][Next]_vars

\* Beat starts the scheduled run every minute; it goes on while it lives.
FairSpec == Spec /\ \A p \in Publisher : WF_vars(PublisherStep(p))

-----------------------------------------------------------------------------
(* Properties.                                                             *)

\* Editors who save at the same time may get the same version number, but the
\* numbers have no gap and the content of the draft is in its history.
HistoryComplete ==
    \A d \in Draft :
        /\ Numbers(d) = 1..Cardinality(Numbers(d))
        /\ \E v \in versions[d] : v.edit = draft[d].edit

\* With one scheduled run at a time, a draft is published once each time that
\* an editor schedules it or a request asks for it, however the requests are
\* interleaved with the run; each further publication follows a failure.
Publications(d) == {a \in Artifact : record[a].draft = {d}}
PublishedOnce == \A d \in Draft : Cardinality(Publications(d)) <= granted[d] + faults

\* The record and the jobs are committed before the event: they are without
\* one only while the pipeline is in between, or since it failed there.
Silent == {a \in Artifact : record[a].draft # {} /\ a \notin event}
Between == {p \in Publisher : publisher[p].pc = "planned"}
EventFollows == Cardinality(Silent) <= faults + Cardinality(Between)

\* A scheduled draft with a date does not stay so: the run publishes it, fails
\* at most MaxFaults times and is started again, or an editor takes it back.
ScheduledLeaves ==
    \A d \in Dated : draft[d].status = "SCHEDULED" ~>
                        \/ draft[d].status # "SCHEDULED"
                        \/ artifacts = MaxArtifacts

-----------------------------------------------------------------------------
(* Why they hold.                                                          *)

\* The numbers of a draft have no gap, an editor's next one leaves none, and
\* no step forgets a version.
VersionsOK ==
    /\ \A d \in Draft : \E n \in 1..edits + 1 : Numbers(d) = 1..n
    /\ \A d \in Draft : \E v \in versions[d] : v.edit = draft[d].edit
    /\ \A e \in Editor : editor[e].pc # "idle" =>
          /\ editor[e].row \in Row
          /\ \A d \in editor[e].draft : editor[e].last \in Numbers(d)

\* A run is at one draft at a time, which it has taken off its list; those of
\* a scheduled run were SCHEDULED when it loaded them.
PublisherOK ==
    \A p \in Publisher : LET r == publisher[p] IN
        /\ r.pc = "idle" => r.todo = {}
        /\ r.pc # "planned" => r.draft = {}
        /\ r.pc = "planned" => \E d \in Draft \ r.todo : r.draft = {d}
        /\ p \in Scheduler => \A d \in r.todo \cup r.draft : r.row[d].status = "SCHEDULED"

\* The artifacts that have been planned are those recorded, and each run in
\* between has one of them that is without an event.
ArtifactsOK ==
    /\ \A a \in Artifact : record[a].draft # {} <=> a <= artifacts
    /\ event \subseteq 1..artifacts
    /\ \A p \in Between : publisher[p].artifact \in (1..artifacts) \ event
    /\ \A p, q \in Between : publisher[p].artifact = publisher[q].artifact => p = q
    /\ IsFiniteSet(Between)

\* What each draft is still to be published for: by a request that has not
\* come to it, and by a scheduled run, this one or the next.
Asked(d) == {p \in Requester : d \in publisher[p].todo}
Owed(d) ==
    \/ \E p \in Scheduler : d \in publisher[p].todo
    \/ draft[d].status = "SCHEDULED" /\ \A p \in Scheduler : publisher[p].draft # {d}
GrantsCounted ==
    \A d \in Draft :
        /\ IsFiniteSet(Asked(d))
        /\ Cardinality(Publications(d)) + Cardinality(Asked(d)) + (IF Owed(d) THEN 1 ELSE 0)
              <= granted[d] + faults

-----------------------------------------------------------------------------
(* What a comment says, and the code does not (README, divergences).       *)

\* check_and_publish_scheduled_drafts_task "publishes them": so it would every
\* scheduled draft if scheduling one stored its date.
EveryScheduledLeaves ==
    \A d \in Draft : draft[d].status = "SCHEDULED" ~>
                        \/ draft[d].status # "SCHEDULED"
                        \/ artifacts = MaxArtifacts

=============================================================================
